---------------------------- MODULE MCSequential ----------------------------
(* The parts that one caller drives and that share no state: the PixelCode *)
(* machine, tile protection, the spatial compressors, the core engine, the *)
(* control region and the merge.  A behaviour is one of the part that was  *)
(* chosen at the start.                                                    *)
EXTENDS Vm, Protect, Spatial, Engine, Control

CONSTANTS MERGE_MAX_DELTAS, U8, MaxDeltas

VARIABLES part, deltas    \* the deltas that are handed to merge_run
allVars == <<vmVars, protectVars, spatialVars, engineVars, controlVars, part, deltas>>

Mg == INSTANCE Merge
Contents == {[A |-> 0, G |-> 1, BR |-> 0], [A |-> 1, G |-> 3, BR |-> 1]}
Canvas == [c \in {1, 2} |-> [A |-> 0, G |-> 2, BR |-> 0]]
Deltas2 == {Mg!Delta(t, c, Canvas[1], after, flags) :
              t \in {1, 2}, c \in {1, 2}, after \in Contents, flags \in {{}, {"close"}}}
HandDelta == /\ Len(deltas) < MaxDeltas
             /\ \E d \in Deltas2 : deltas' = Append(deltas, d)


Init == /\ VmInit /\ ProtectInit /\ SpatialInit /\ EngineInit /\ ControlInit
        /\ part \in {"vm", "protect", "spatial", "engine", "control", "merge"}
        /\ deltas = <<>>
        /\ part # "protect" => lane = [pid \in Pids |-> ROOT]
Next ==
  /\ UNCHANGED part
  /\ \/ part = "vm" /\ VmNext /\ UNCHANGED <<protectVars, spatialVars, engineVars, controlVars, deltas>>
     \/ part = "protect" /\ ProtectNext /\ UNCHANGED <<vmVars, spatialVars, engineVars, controlVars, deltas>>
     \/ part = "spatial" /\ SpatialNext /\ UNCHANGED <<vmVars, protectVars, engineVars, controlVars, deltas>>
     \/ part = "engine" /\ EngineNext /\ UNCHANGED <<vmVars, protectVars, spatialVars, controlVars, deltas>>
     \/ part = "control" /\ ControlNext /\ UNCHANGED <<vmVars, protectVars, spatialVars, engineVars, deltas>>
     \/ part = "merge" /\ HandDelta /\ UNCHANGED <<vmVars, protectVars, spatialVars, engineVars, controlVars>>
Spec == Init /\ [][Next]_allVars /\ WF_vmVars(Step)

MCCode == {Cell(0, "JMP", 0, 1), Cell(2, "CALL", 0, 1), Cell(0, "RET", 0, 0),
           Cell(0, "LINE", 9, 1), Cell(2, "RECT", 5, 1), Cell(3, "ADD", 0, 9),
           Cell(3, "CMP", 0, 9), Cell(1, "JZ", 0, 0), Cell(0, "COPY", 2, 1),
           Cell(0, "SEND", 1, 1), Cell(0, "SPAWN", 1, 1), Cell(1, "SYSCALL", 0, 1)}
MCRanges == {<<0, 3>>}
MCShifts == {<<1, 0>>}
MCTexts == {<<1>>, <<1, 1, 2, 2>>}
MCEntries == -1..4
MCPrograms == {<<"GATE_ON", 0>>, <<"GATE_ON", 9>>, <<"GATE_OFF", 3>>, <<"ENERGY", 2>>, <<"HALT", 0>>}
MCPerms == {{}, {"READ", "SHARED"}}
=============================================================================
