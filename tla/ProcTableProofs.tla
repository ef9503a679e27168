-------------------------- MODULE ProcTableProofs --------------------------
(***************************************************************************)
(* Proofs about the process table, for every size of the table.            *)
(***************************************************************************)
EXTENDS ProcTable, FiniteSetTheorems, TLAPS

(* The abbreviations of ProcTable are expanded throughout. *)
USE DEF Top, Pushed, ParentFor, PidAfter, CountAfterWait, MayExit, Maskable,
        OpenSpace, CloseSpace

(* TILEGATE_COUNT is large enough for the gate numbers not to wrap. *)
LEMMA ModSmall == ASSUME NEW x \in Nat, NEW m \in Nat \ {0}, x < m
                  PROVE  x % m = x
  OBVIOUS

(* The gates of a slot are its number and its number above the table. *)
LEMMA SpaceOf == ASSUME NEW s \in Slots
                 PROVE  Space(s) = {s, s + PROC8_MAX}
  <1>1. s % TILEGATE_COUNT = s
    BY ModSmall, SizeAssumption DEF Slots
  <1>2. (s + PROC8_MAX) % TILEGATE_COUNT = s + PROC8_MAX
    BY ModSmall, SizeAssumption DEF Slots
  <1> QED BY <1>1, <1>2 DEF Space

LEMMA SpaceType == ASSUME NEW s \in Slots
                   PROVE  Space(s) \subseteq 0 .. TILEGATE_COUNT - 1
  BY SpaceOf, SizeAssumption DEF Slots

(* A gate belongs to one slot. *)
LEMMA SpacesDisjoint == ASSUME NEW s \in Slots, NEW t \in Slots, s # t
                        PROVE  Space(s) \cap Space(t) = {}
  BY SpaceOf, SizeAssumption DEF Slots
-----------------------------------------------------------------------------
(* Type correctness. *)

LEMMA ByteType == ASSUME NEW e \in Nat PROVE Byte(e) \in 0 .. 255
  BY DEF Byte

LEMMA BhSetType == ASSUME TypeOK, NEW pid, NEW e \in Nat
                   PROVE  BhSet(pid, e) \in [0 .. BH_CAP - 1 -> 0 .. 255]
  BY ByteType DEF TypeOK, BhSet

LEMMA InitType == Init => TypeOK
  <1> SUFFICES ASSUME Init PROVE TypeOK
    OBVIOUS
  <1>1. procs \in [Slots -> Proc8]
    BY BoundAssumption DEF Init, Proc8, FreeProc, States, Signals, PID_INIT
  <1>2. open \subseteq 0 .. TILEGATE_COUNT - 1
    BY SpaceType, SizeAssumption DEF Init, Slots
  <1>3. bh \in [0 .. BH_CAP - 1 -> 0 .. 255]
    BY ByteType, BoundAssumption DEF Init
  <1> QED
    BY <1>1, <1>2, <1>3, SizeAssumption DEF Init, TypeOK, Slots, WhOps

(* A process stays well typed when one of its fields is assigned. *)
LEMMA FieldTypes ==
  ASSUME NEW p \in Proc8
  PROVE  /\ \A x \in States : [p EXCEPT !.state = x] \in Proc8
         /\ \A x \in Nat : [p EXCEPT !.energy = x] \in Proc8
         /\ \A x \in Nat \cup {NoPid} : [p EXCEPT !.parent_pid = x] \in Proc8
         /\ \A x \in SUBSET Signals : [p EXCEPT !.sig_pending = x] \in Proc8
         /\ \A x \in SUBSET Signals : [p EXCEPT !.sig_mask = x] \in Proc8
  BY DEF Proc8

(* proc_exit keeps the table well typed. *)
LEMMA ExitedType == ASSUME NEW ps \in [Slots -> Proc8], NEW s \in Slots
                    PROVE  Exited(ps, s) \in [Slots -> Proc8]
  <1> SUFFICES ASSUME NEW t \in Slots
               PROVE  Exited(ps, s)[t] \in Proc8
    BY DEF Exited
  <1> DEFINE q1 == [ps[t] EXCEPT !.state = IF t = s THEN "ZOMBIE" ELSE ps[t].state]
             q2 == [q1 EXCEPT !.energy = IF t = s THEN 0 ELSE ps[t].energy]
             q3 == [q2 EXCEPT !.parent_pid =
                      IF ps[t].pid # NoPid /\ ps[t].parent_pid = ps[s].pid
                      THEN PID_INIT ELSE ps[t].parent_pid]
             q4 == [q3 EXCEPT !.sig_pending =
                      IF Notifies(ps, s, t) THEN ps[t].sig_pending \cup {SIG_CHILD}
                      ELSE ps[t].sig_pending]
  <1>0. ps[t] \in Proc8
    OBVIOUS
  <1>1. q1 \in Proc8
    BY <1>0 DEF Proc8, States
  <1>2. q2 \in Proc8
    BY <1>0, <1>1 DEF Proc8
  <1>3. q3 \in Proc8
    BY <1>0, <1>2 DEF Proc8, PID_INIT
  <1>4. ps[t].sig_pending \cup {SIG_CHILD} \subseteq Signals
    BY <1>0 DEF Proc8, Signals, SIG_CHILD
  <1>5. q4 \in Proc8
    <2> HIDE DEF q3
    <2> QED BY <1>0, <1>3, <1>4 DEF Proc8
  <1> QED
    BY <1>0, <1>5 DEF Exited, Proc8

LEMMA ExitOfType ==
  ASSUME TypeOK, NEW ps \in [Slots -> Proc8], NEW s \in Slots, ExitOf(ps, s)
  PROVE  /\ procs' \in [Slots -> Proc8]
         /\ open' \subseteq 0 .. TILEGATE_COUNT - 1
         /\ bh' \in [0 .. BH_CAP - 1 -> 0 .. 255]
         /\ wh' \in WhOps
  BY ExitedType, BhSetType DEF ExitOf, TypeOK, WhOps

(* sig_check keeps a process well typed. *)
LEMMA CheckedType == ASSUME NEW p \in Proc8 PROVE Checked(p) \in Proc8
  BY DEF Checked, Proc8, States

LEMMA CheckedOpenType ==
  ASSUME TypeOK, NEW s \in Slots
  PROVE  CheckedOpen(s) \subseteq 0 .. TILEGATE_COUNT - 1
  BY SpaceType DEF CheckedOpen, TypeOK

LEMMA SpawnType ==
  ASSUME TypeOK, NEW parent \in Pids, NEW energy \in 0 .. MAX_ENERGY, Spawn(parent, energy)
  PROVE  TypeOK'
  <1> DEFINE s == Top
  <1>1. s \in Slots
    BY SizeAssumption DEF TypeOK, Spawn, Slots
  <1>2. energy \in Nat /\ parent \in Nat
    BY BoundAssumption DEF Pids
  <1>3. procs' \in [Slots -> Proc8]
    BY <1>1, <1>2 DEF Spawn, TypeOK, Proc8, States, PID_INIT
  <1>4. open' \subseteq 0 .. TILEGATE_COUNT - 1
    BY <1>1, SpaceType DEF Spawn, TypeOK
  <1>5. bh' \in [0 .. BH_CAP - 1 -> 0 .. 255]
    BY <1>2, BhSetType DEF Spawn
  <1> QED
    BY <1>3, <1>4, <1>5, SizeAssumption DEF Spawn, TypeOK, WhOps

LEMMA WaitType ==
  ASSUME TypeOK, NEW parent \in Pids, NEW s \in Slots, Wait(parent, s)
  PROVE  TypeOK'
  <1>1. procs' \in [Slots -> Proc8]
    BY DEF Wait, TypeOK, FreeProc, Proc8, States
  <1>2. freelist' \in [Slots -> Slots] /\ free_count' \in 0 .. PROC8_MAX
    BY SizeAssumption DEF Wait, TypeOK
  <1> QED
    <2>1. count' \in Nat
      BY DEF Wait, TypeOK
    <2> QED BY <1>1, <1>2, <2>1 DEF Wait, TypeOK, engineVars

LEMMA CallType ==
  ASSUME TypeOK, NEW s \in Slots, Call(s)
  PROVE  TypeOK'
  <1>1. CASE Exec(s)
    BY <1>1 DEF Exec, TypeOK, tableVars, WhOps
  <1>2. CASE Exit(s)
    <2>1. procs \in [Slots -> Proc8]
      BY DEF TypeOK
    <2> QED BY <1>2, <2>1, ExitOfType DEF Exit, TypeOK
  <1>3. ASSUME NEW sig \in SigArgs, SigSend(s, sig)
        PROVE  TypeOK'
    <2>0. sig \in Signals
      BY ArgsAssumption
    <2>1. CASE Kill(s)
      BY <1>2, <2>1 DEF Kill
    <2>2. CASE KillInit(s)
      BY <2>2 DEF KillInit, Sent, TypeOK, tableVars, WhOps
    <2>3. CASE Stop(s)
      <3>1. procs' \in [Slots -> Proc8]
        BY <2>3, FieldTypes DEF Stop, TypeOK, States
      <3> QED BY <2>3, <3>1 DEF Stop, Sent, TypeOK, WhOps
    <2>4. CASE Cont(s)
      <3>1. procs' \in [Slots -> Proc8]
        <4>1. [procs[s] EXCEPT !.state = "RUNNING"] \in Proc8
          BY FieldTypes DEF TypeOK, States
        <4> QED BY <2>4, <4>1 DEF Cont, TypeOK
      <3>2. open' \subseteq 0 .. TILEGATE_COUNT - 1
        BY <2>4, SpaceType DEF Cont, TypeOK
      <3> QED BY <2>4, <3>1, <3>2 DEF Cont, Sent, TypeOK, WhOps
    <2>5. CASE Post(s, sig)
      <3>1. procs[s].sig_pending \cup {sig} \in SUBSET Signals
        BY <2>0 DEF TypeOK, Proc8
      <3>2. procs' \in [Slots -> Proc8]
        BY <2>5, <3>1, FieldTypes DEF Post, TypeOK
      <3> QED BY <2>5, <3>2 DEF Post, Sent, TypeOK, WhOps
    <2> QED
      BY <1>3, <2>1, <2>2, <2>3, <2>4, <2>5 DEF SigSend
  <1>4. ASSUME NEW mask \in MaskArgs, MaskSet(s, mask) \/ MaskClear(s, mask)
        PROVE  TypeOK'
    <2>1. mask \subseteq Signals
      BY ArgsAssumption
    <2>2. procs' \in [Slots -> Proc8]
      <3>1. /\ procs[s].sig_mask \cup (mask \ {SIG_KILL}) \in SUBSET Signals
            /\ procs[s].sig_mask \ mask \in SUBSET Signals
        BY <2>1 DEF TypeOK, Proc8
      <3>2. /\ [procs[s] EXCEPT !.sig_mask = @ \cup (mask \ {SIG_KILL})] \in Proc8
            /\ [procs[s] EXCEPT !.sig_mask = @ \ mask] \in Proc8
        BY <3>1, FieldTypes DEF TypeOK
      <3> QED BY <1>4, <3>2 DEF MaskSet, MaskClear, TypeOK
    <2> QED BY <1>4, <2>2 DEF MaskSet, MaskClear, TypeOK, engineVars
  <1> QED BY <1>1, <1>2, <1>3, <1>4 DEF Call

LEMMA TickType ==
  ASSUME TypeOK, NEW s \in Slots, TickSkip(s) \/ TickFault(s) \/ TickIdle(s) \/ TickRun(s)
  PROVE  TypeOK'
  <1>1. cursor' \in 0 .. PROC8_MAX
    BY SizeAssumption DEF TickSkip, TickFault, TickIdle, TickRun, InLoop, TypeOK, Slots
  <1>2. procs[s] \in Proc8 /\ Checked(procs[s]) \in Proc8
    BY CheckedType DEF TypeOK
  <1>3. CASE TickSkip(s)
    BY <1>1, <1>3 DEF TickSkip, TypeOK, tableVars, engineVars
  <1>4. CASE TickFault(s)
    <2>1. [procs EXCEPT ![s] = Checked(procs[s])] \in [Slots -> Proc8]
      BY <1>2 DEF TypeOK
    <2> QED BY <1>1, <1>4, <2>1, ExitOfType DEF TickFault, TypeOK
  <1>5. CASE TickIdle(s)
    BY <1>1, <1>2, <1>5, CheckedOpenType DEF TickIdle, TypeOK
  <1>6. CASE TickRun(s)
    <2> DEFINE p == Checked(procs[s])
               left == Left(p.energy)
    <2>1. left \in Nat
      BY <1>2 DEF Proc8, Left
    <2>2. [p EXCEPT !.energy = left, !.state = IF left = 0 THEN "SLEEPING" ELSE @] \in Proc8
      BY <1>2, <2>1 DEF Proc8, States
    <2>3. procs' \in [Slots -> Proc8]
      BY <1>6, <2>2 DEF TickRun, TypeOK
    <2>4. open' \subseteq 0 .. TILEGATE_COUNT - 1
      BY <1>6, CheckedOpenType DEF TickRun
    <2>5. bh' \in [0 .. BH_CAP - 1 -> 0 .. 255]
      BY <1>6, <2>1, BhSetType DEF TickRun
    <2>6. wh' \in WhOps
      BY <1>6 DEF TickRun, TypeOK, WhOps
    <2> QED BY <1>1, <1>6, <2>3, <2>4, <2>5, <2>6 DEF TickRun, TypeOK
  <1> QED BY <1>3, <1>4, <1>5, <1>6

LEMMA NextType == TypeOK /\ [Next]_vars => TypeOK'
  <1> SUFFICES ASSUME TypeOK, [Next]_vars PROVE TypeOK'
    OBVIOUS
  <1>1. CASE EngineTick
    BY <1>1 DEF EngineTick, TypeOK, tableVars, WhOps
  <1>2. CASE TickStart
    BY <1>2, SizeAssumption DEF TickStart, TypeOK, tableVars, engineVars
  <1>3. CASE UNCHANGED vars
    BY <1>3 DEF vars, TypeOK
  <1> QED
    BY <1>1, <1>2, <1>3, SpawnType, WaitType, CallType, TickType DEF Next

(* The process table, its counters and what it writes into the engine      *)
(* never leave their types, for tables of every size.                      *)
THEOREM TypeCorrect == Spec => []TypeOK
  BY InitType, NextType, PTL DEF Spec
-----------------------------------------------------------------------------
(* The slots: the stack of free slots, the head count and the pids.        *)

(* What proc_exit makes of each field. *)
LEMMA ExitedFields ==
  ASSUME NEW ps \in [Slots -> Proc8], NEW s \in Slots, NEW t \in Slots
  PROVE  LET q == Exited(ps, s)[t] IN
         /\ q.pid = ps[t].pid
         /\ q.state = IF t = s THEN "ZOMBIE" ELSE ps[t].state
         /\ q.energy = IF t = s THEN 0 ELSE ps[t].energy
         /\ q.parent_pid = IF ps[t].pid # NoPid /\ ps[t].parent_pid = ps[s].pid
                           THEN PID_INIT ELSE ps[t].parent_pid
         /\ q.sig_mask = ps[t].sig_mask
         /\ q.sig_pending \subseteq ps[t].sig_pending \cup {SIG_CHILD}
  <1>1. ps[t] \in Proc8
    OBVIOUS
  <1>2. ps[t] = [pid |-> ps[t].pid, parent_pid |-> ps[t].parent_pid,
                 state |-> ps[t].state, energy |-> ps[t].energy,
                 sig_pending |-> ps[t].sig_pending, sig_mask |-> ps[t].sig_mask]
    BY <1>1 DEF Proc8
  <1> QED BY <1>2 DEF Exited

(* What sig_check makes of each field. *)
LEMMA CheckedFields ==
  ASSUME NEW p \in Proc8
  PROVE  /\ Checked(p).pid = p.pid
         /\ Checked(p).parent_pid = p.parent_pid
         /\ Checked(p).energy = p.energy
         /\ Checked(p).sig_mask = p.sig_mask
         /\ Checked(p).sig_pending = p.sig_pending \ Deliverable(p)
         /\ Checked(p).state = IF Resumes(p) THEN "RUNNING"
                               ELSE IF SIG_STOP \in Deliverable(p) THEN "SLEEPING"
                               ELSE p.state
  BY DEF Checked, Proc8

(* Every step but a spawn and a wait leaves each pid in its slot. *)
Quiet == /\ \A t \in Slots : procs'[t].pid = procs[t].pid
         /\ UNCHANGED <<freelist, free_count, next_pid, count>>

LEMMA CallQuiet == ASSUME TypeOK, NEW s \in Slots, Call(s)
                   PROVE  Quiet
  <1>0. procs \in [Slots -> Proc8]
    BY DEF TypeOK
  <1>1. CASE Exit(s)
    BY <1>0, <1>1, ExitedFields DEF Exit, ExitOf, Quiet
  <1>2. CASE ~Exit(s)
    <2>1. UNCHANGED <<freelist, free_count, next_pid, count>>
      BY <1>2 DEF Call, Exec, SigSend, Kill, KillInit, Stop, Cont, Post, MaskSet, MaskClear,
                  tableVars
    <2>2. \/ UNCHANGED procs
          \/ procs' = [procs EXCEPT ![s].state = "SLEEPING"]
          \/ procs' = [procs EXCEPT ![s].state = "RUNNING"]
          \/ \E x : procs' = [procs EXCEPT ![s].sig_pending = x]
          \/ \E x : procs' = [procs EXCEPT ![s].sig_mask = x]
      BY <1>2 DEF Call, Exec, SigSend, Kill, KillInit, Stop, Cont, Post, MaskSet, MaskClear,
                  tableVars
    <2>3. \A t \in Slots : procs'[t].pid = procs[t].pid
      BY <1>0, <2>2 DEF Proc8
    <2> QED BY <2>1, <2>3 DEF Quiet
  <1> QED BY <1>1, <1>2

LEMMA TickQuiet ==
  ASSUME TypeOK, NEW s \in Slots, TickSkip(s) \/ TickFault(s) \/ TickIdle(s) \/ TickRun(s)
  PROVE  Quiet
  <1>0. procs \in [Slots -> Proc8] /\ procs[s] \in Proc8
    BY DEF TypeOK
  <1>1. Checked(procs[s]) \in Proc8 /\ Checked(procs[s]).pid = procs[s].pid
    BY <1>0, CheckedType, CheckedFields
  <1>2. UNCHANGED <<freelist, free_count, next_pid, count>>
    BY DEF TickSkip, TickFault, TickIdle, TickRun, tableVars
  <1>3. CASE TickSkip(s)
    BY <1>2, <1>3 DEF TickSkip, Quiet, tableVars
  <1>4. CASE TickFault(s)
    <2> DEFINE ps == [procs EXCEPT ![s] = Checked(procs[s])]
    <2>1. ps \in [Slots -> Proc8] /\ \A t \in Slots : ps[t].pid = procs[t].pid
      BY <1>0, <1>1
    <2>2. procs' = Exited(ps, s)
      BY <1>4 DEF TickFault, ExitOf
    <2> HIDE DEF ps
    <2> QED BY <1>2, <2>1, <2>2, ExitedFields DEF Quiet
  <1>5. CASE TickIdle(s)
    BY <1>0, <1>1, <1>2, <1>5 DEF TickIdle, Quiet
  <1>6. CASE TickRun(s)
    <2> DEFINE p == Checked(procs[s])
    <2>1. \E e, st : procs' = [procs EXCEPT ![s] = [p EXCEPT !.energy = e, !.state = st]]
      BY <1>6 DEF TickRun
    <2>2. \A e, st : [p EXCEPT !.energy = e, !.state = st].pid = procs[s].pid
      BY <1>1 DEF Proc8
    <2> QED BY <1>0, <1>2, <2>1, <2>2 DEF Quiet
  <1> QED BY <1>3, <1>4, <1>5, <1>6

LEMMA StepShape ==
  ASSUME TypeOK, [Next]_vars
  PROVE  \/ \E parent \in Pids, energy \in 0 .. MAX_ENERGY : Spawn(parent, energy)
         \/ \E parent \in Pids, s \in Slots : Wait(parent, s)
         \/ Quiet
  <1>1. CASE EngineTick \/ TickStart \/ UNCHANGED vars
    BY <1>1 DEF EngineTick, TickStart, Quiet, vars, tableVars
  <1> QED BY <1>1, CallQuiet, TickQuiet DEF Next

UsedSlots == {s \in Slots : Used(s)}

LEMMA UsedFinite == IsFiniteSet(UsedSlots)
  <1>1. IsFiniteSet(Slots)
    BY FS_Interval, SizeAssumption DEF Slots
  <1> QED BY <1>1, FS_Subset DEF UsedSlots

(* The inductive invariant of the slots. *)
SlotInv == FreelistExact /\ CountExact /\ PidsUnique

LEMMA InitSlots == Init => SlotInv
  <1> SUFFICES ASSUME Init PROVE SlotInv
    OBVIOUS
  <1>1. \A s \in Slots : procs[s].pid = IF s = 0 THEN 0 ELSE NoPid
    BY DEF Init, FreeProc, PID_INIT
  <1>2. \A s \in Slots : Used(s) <=> s = 0
    BY <1>1, NoPidAssumption DEF Used
  <1>3. FreelistExact
    <2>1. \A s \in Slots : s # 0 => OnStack(s)
      <3> SUFFICES ASSUME NEW s \in Slots, s # 0
                   PROVE  OnStack(s)
        OBVIOUS
      <3>1. s - 1 \in Slots /\ s - 1 < free_count /\ freelist[s - 1] = s
        BY SizeAssumption DEF Init, Slots
      <3> QED BY <3>1 DEF OnStack
    <2>2. ~OnStack(0)
      BY SizeAssumption DEF OnStack, Init, Slots
    <2>3. \A j, k \in Slots : j < free_count /\ k < free_count /\ j # k
                                => freelist[j] # freelist[k]
      BY SizeAssumption DEF Init, Slots
    <2> QED BY <1>2, <2>1, <2>2, <2>3 DEF FreelistExact
  <1>4. CountExact
    <2>1. UsedSlots = {0}
      BY <1>2, SizeAssumption DEF UsedSlots, Slots
    <2>2. Cardinality(UsedSlots) = 1
      BY <2>1, FS_Singleton
    <2> QED BY <2>2, SizeAssumption DEF CountExact, UsedSlots, Init
  <1>5. PidsUnique
    BY <1>1, <1>2, NoPidAssumption DEF PidsUnique, Init
  <1> QED BY <1>3, <1>4, <1>5 DEF SlotInv

(* proc_spawn takes a slot that was free and gives it the next pid. *)
LEMMA SpawnTakesFree ==
  ASSUME TypeOK, SlotInv, NEW parent \in Pids, NEW energy \in 0 .. MAX_ENERGY,
         Spawn(parent, energy)
  PROVE  \E s \in Slots :
           /\ s = Top
           /\ ~Used(s)
           /\ procs'[s].pid = next_pid
           /\ \A t \in Slots : t # s => procs'[t] = procs[t]
  <1>1. free_count - 1 \in Slots /\ free_count - 1 < free_count
    BY SizeAssumption DEF Spawn, TypeOK, Slots
  <1>2. OnStack(Top)
    BY <1>1 DEF OnStack
  <1>3. Top \in Slots
    BY <1>1 DEF TypeOK
  <1> QED BY <1>2, <1>3 DEF SlotInv, FreelistExact, Spawn, TypeOK

LEMMA SpawnSlots ==
  ASSUME TypeOK, SlotInv, NEW parent \in Pids, NEW energy \in 0 .. MAX_ENERGY,
         Spawn(parent, energy)
  PROVE  SlotInv'
  <1>1. PICK s \in Slots :
           /\ s = Top
           /\ ~Used(s)
           /\ procs'[s].pid = next_pid
           /\ \A t \in Slots : t # s => procs'[t] = procs[t]
    BY SpawnTakesFree
  <1>2. next_pid \in Nat /\ next_pid # NoPid /\ next_pid' = next_pid + 1
    BY NoPidAssumption DEF TypeOK, Spawn
  <1>3. \A t \in Slots : Used(t)' <=> Used(t) \/ t = s
    BY <1>1, <1>2 DEF Used
  <1>4. /\ free_count \in Nat /\ free_count > 0 /\ free_count <= PROC8_MAX
        /\ free_count' = free_count - 1 /\ freelist' = freelist
        /\ free_count - 1 \in Slots
    BY SizeAssumption DEF Spawn, TypeOK, Slots
  <1>5. FreelistExact'
    <2>1. \A j, k \in Slots : j < free_count' /\ k < free_count' /\ j # k
                                => freelist'[j] # freelist'[k]
      BY <1>4 DEF SlotInv, FreelistExact, Slots
    <2>2. \A t \in Slots : OnStack(t)' <=> OnStack(t) /\ t # s
      BY <1>1, <1>4 DEF SlotInv, FreelistExact, OnStack, Slots
    <2>3. \A t \in Slots : OnStack(t)' <=> ~Used(t)'
      BY <1>3, <2>2 DEF SlotInv, FreelistExact
    <2> QED BY <2>1, <2>3 DEF FreelistExact
  <1>6. CountExact'
    <2>1. UsedSlots' = UsedSlots \cup {s} /\ s \notin UsedSlots
      BY <1>1, <1>3 DEF UsedSlots
    <2>2. Cardinality(UsedSlots') = Cardinality(UsedSlots) + 1
      BY <2>1, UsedFinite, FS_AddElement
    <2> QED BY <1>4, <2>2 DEF SlotInv, CountExact, UsedSlots, Spawn, TypeOK
  <1>7. PidsUnique'
    <2>1. \A t \in Slots : Used(t) => procs[t].pid \in Nat /\ procs[t].pid < next_pid
      BY DEF SlotInv, PidsUnique, Used, TypeOK, Proc8
    <2>2. ASSUME NEW t \in Slots, Used(t)'
          PROVE  procs'[t].pid < next_pid'
      BY <1>1, <1>2, <1>3, <2>1, <2>2
    <2>3. ASSUME NEW t \in Slots, Used(t)', NEW u \in Slots, u # t
          PROVE  procs'[u].pid # procs'[t].pid
      <3>1. CASE t = s
        <4>1. procs[u].pid # next_pid
          BY <1>2, <2>1 DEF Used
        <4> QED BY <1>1, <2>3, <3>1, <4>1
      <3>2. CASE t # s
        <4>1. Used(t) /\ procs'[t] = procs[t]
          BY <1>1, <1>3, <2>3, <3>2
        <4>2. CASE u = s
          BY <1>1, <1>2, <2>1, <4>1, <4>2
        <4>3. CASE u # s
          BY <1>1, <2>3, <4>1, <4>3 DEF SlotInv, PidsUnique
        <4> QED BY <4>2, <4>3
      <3> QED BY <3>1, <3>2
    <2> QED BY <2>2, <2>3 DEF PidsUnique
  <1> QED BY <1>5, <1>6, <1>7 DEF SlotInv

(* proc_wait frees a slot that was in use, and finds room for it on the stack. *)
LEMMA WaitFreesUsed ==
  ASSUME TypeOK, SlotInv, NEW parent \in Pids, NEW s \in Slots, Wait(parent, s)
  PROVE  /\ Used(s)
         /\ procs'[s].pid = NoPid
         /\ \A t \in Slots : t # s => procs'[t] = procs[t]
         /\ count > 0 /\ free_count < PROC8_MAX
  <1>1. Used(s)
    BY DEF Wait, Reapable, Used
  <1>2. UsedSlots # {}
    BY <1>1 DEF UsedSlots
  <1>3. count > 0 /\ free_count < PROC8_MAX
    <2>1. Cardinality(UsedSlots) # 0
      BY <1>2, UsedFinite, FS_EmptySet
    <2>2. count # 0 /\ count + free_count = PROC8_MAX
      BY <2>1 DEF SlotInv, CountExact, UsedSlots
    <2> QED BY <2>2, SizeAssumption DEF TypeOK
  <1> QED BY <1>1, <1>3 DEF Wait, FreeProc, TypeOK

LEMMA WaitSlots ==
  ASSUME TypeOK, SlotInv, NEW parent \in Pids, NEW s \in Slots, Wait(parent, s)
  PROVE  SlotInv'
  <1>1. /\ Used(s)
        /\ procs'[s].pid = NoPid
        /\ \A t \in Slots : t # s => procs'[t] = procs[t]
        /\ count > 0 /\ free_count < PROC8_MAX
    BY WaitFreesUsed
  <1>2. \A t \in Slots : Used(t)' <=> Used(t) /\ t # s
    BY <1>1 DEF Used
  <1>3. /\ free_count \in Slots /\ free_count' = free_count + 1
        /\ freelist' = [freelist EXCEPT ![free_count] = s]
        /\ freelist \in [Slots -> Slots]
    <2>1. free_count' = free_count + 1 /\ freelist' = Pushed(s)
      BY <1>1 DEF Wait
    <2>2. free_count \in Slots
      <3>1. free_count \in 0 .. PROC8_MAX
        BY DEF TypeOK
      <3> QED BY <1>1, <3>1, SizeAssumption DEF Slots
    <2>3. freelist \in [Slots -> Slots]
      BY DEF TypeOK
    <2> QED BY <2>1, <2>2, <2>3
  <1>4. ~OnStack(s)
    BY <1>1 DEF SlotInv, FreelistExact
  <1>5. FreelistExact'
    <2>1. \A j \in Slots : j < free_count => freelist'[j] = freelist[j] /\ freelist[j] # s
      BY <1>3, <1>4 DEF OnStack, Slots
    <2>2. freelist'[free_count] = s
      BY <1>3
    <2>3. \A j \in Slots : j < free_count' <=> j < free_count \/ j = free_count
      BY <1>3 DEF Slots
    <2>4. \A j, k \in Slots : j < free_count' /\ k < free_count' /\ j # k
                                => freelist'[j] # freelist'[k]
      BY <2>1, <2>2, <2>3 DEF SlotInv, FreelistExact
    <2>5. \A t \in Slots : OnStack(t)' <=> OnStack(t) \/ t = s
      BY <1>3, <2>1, <2>2, <2>3 DEF OnStack
    <2> QED BY <1>2, <2>4, <2>5 DEF SlotInv, FreelistExact
  <1>6. CountExact'
    <2>1. UsedSlots' = UsedSlots \ {s} /\ s \in UsedSlots
      BY <1>1, <1>2 DEF UsedSlots
    <2>2. Cardinality(UsedSlots') = Cardinality(UsedSlots) - 1
      BY <2>1, UsedFinite, FS_RemoveElement
    <2>3. count' = count - 1
      BY <1>1 DEF Wait
    <2> QED BY <1>3, <2>2, <2>3 DEF SlotInv, CountExact, UsedSlots, TypeOK, Slots
  <1>7. PidsUnique'
    <2>1. next_pid' = next_pid
      BY DEF Wait
    <2> QED BY <1>1, <1>2, <2>1 DEF SlotInv, PidsUnique, Used
  <1> QED BY <1>5, <1>6, <1>7 DEF SlotInv

LEMMA QuietSlots == ASSUME SlotInv, Quiet PROVE SlotInv'
  <1>1. \A t \in Slots : (Used(t)' <=> Used(t)) /\ (OnStack(t)' <=> OnStack(t))
    BY DEF Quiet, Used, OnStack
  <1>2. UsedSlots' = UsedSlots
    BY <1>1 DEF UsedSlots
  <1> QED BY <1>1, <1>2 DEF Quiet, SlotInv, FreelistExact, CountExact, PidsUnique, UsedSlots

LEMMA NextSlots == TypeOK /\ SlotInv /\ [Next]_vars => SlotInv'
  BY StepShape, SpawnSlots, WaitSlots, QuietSlots

THEOREM SlotsCorrect == Spec => []SlotInv
  BY InitType, NextType, InitSlots, NextSlots, PTL DEF Spec

(* Spawns, exits and waits never lose a slot or give one to two processes, *)
(* and proc_spawn fails only when all PROC8_MAX slots are taken.           *)
THEOREM FreelistCorrect == Spec => [](FreelistExact /\ CountExact)
  BY SlotsCorrect, PTL DEF SlotInv

(* proc_find has at most one slot to choose from. *)
THEOREM PidsCorrect == Spec => []PidsUnique
  BY SlotsCorrect, PTL DEF SlotInv
-----------------------------------------------------------------------------
(* Init, the process tree and the signals.                                 *)

TreeInv == InitResident /\ AncestryAcyclic /\ ImmediateSignals

LEMMA InitTree == Init => TreeInv
  BY NoPidAssumption, SizeAssumption
  DEF Init, TreeInv, InitResident, AncestryAcyclic, ImmediateSignals, FreeProc, Slots, Used,
      PID_INIT

(* The part of TreeInv that concerns one slot. *)
SlotTree(ps, t) ==
  /\ t = 0 => ps[t].pid = PID_INIT /\ ps[t].parent_pid = PID_INIT /\ ps[t].state # "ZOMBIE"
  /\ ps[t].pid # NoPid /\ ps[t].pid # PID_INIT => /\ ps[t].parent_pid \in Nat
                                                  /\ ps[t].parent_pid < ps[t].pid
  /\ ps[t].sig_pending \cap {SIG_KILL, SIG_STOP, SIG_CONT} = {}
  /\ SIG_KILL \notin ps[t].sig_mask

LEMMA TreeBySlot == TreeInv <=> \A t \in Slots : SlotTree(procs, t)
  <1>1. 0 \in Slots
    BY SizeAssumption DEF Slots
  <1> QED BY <1>1 DEF TreeInv, InitResident, AncestryAcyclic, ImmediateSignals, SlotTree, Used

LEMMA TreeBySlotNext == TreeInv' <=> \A t \in Slots : SlotTree(procs', t)
  <1>1. 0 \in Slots
    BY SizeAssumption DEF Slots
  <1> QED BY <1>1 DEF TreeInv, InitResident, AncestryAcyclic, ImmediateSignals, SlotTree, Used

(* proc_exit of any process but init. *)
LEMMA ExitedTree ==
  ASSUME NEW ps \in [Slots -> Proc8], NEW s \in Slots, ps[s].pid # PID_INIT,
         \A t \in Slots : SlotTree(ps, t)
  PROVE  \A t \in Slots : SlotTree(Exited(ps, s), t)
  <1> SUFFICES ASSUME NEW t \in Slots PROVE SlotTree(Exited(ps, s), t)
    OBVIOUS
  <1> DEFINE q == Exited(ps, s)[t]
  <1>0. ps[t] \in Proc8 /\ SlotTree(ps, t)
    OBVIOUS
  <1>1. /\ q.pid = ps[t].pid
        /\ q.state = IF t = s THEN "ZOMBIE" ELSE ps[t].state
        /\ q.parent_pid = IF ps[t].pid # NoPid /\ ps[t].parent_pid = ps[s].pid
                          THEN PID_INIT ELSE ps[t].parent_pid
        /\ q.sig_mask = ps[t].sig_mask
        /\ q.sig_pending \subseteq ps[t].sig_pending \cup {SIG_CHILD}
    BY ExitedFields
  <1> HIDE DEF q
  <1>2. s # 0
    BY DEF SlotTree
  <1>3. t = 0 => q.pid = PID_INIT /\ q.parent_pid = PID_INIT /\ q.state # "ZOMBIE"
    BY <1>0, <1>1, <1>2 DEF SlotTree
  <1>4. q.pid # NoPid /\ q.pid # PID_INIT => q.parent_pid \in Nat /\ q.parent_pid < q.pid
    <2>1. ps[t].pid # NoPid => ps[t].pid \in Nat
      BY <1>0 DEF Proc8
    <2> QED BY <1>0, <1>1, <2>1 DEF SlotTree, PID_INIT
  <1>5. q.sig_pending \cap {SIG_KILL, SIG_STOP, SIG_CONT} = {}
    BY <1>0, <1>1 DEF SlotTree, SIG_KILL, SIG_STOP, SIG_CONT, SIG_CHILD
  <1> QED BY <1>0, <1>1, <1>3, <1>4, <1>5 DEF SlotTree, q

(* sig_check, SIG_SEGV aside. *)
LEMMA CheckedTree ==
  ASSUME NEW s \in Slots, procs \in [Slots -> Proc8], SlotTree(procs, s),
         procs[s].state # "ZOMBIE"
  PROVE  LET p == Checked(procs[s]) IN
           /\ p \in Proc8 /\ p.pid = procs[s].pid /\ p.parent_pid = procs[s].parent_pid
           /\ p.state = procs[s].state
           /\ p.sig_pending \subseteq procs[s].sig_pending
           /\ p.sig_mask = procs[s].sig_mask
           /\ CheckedOpen(s) = open
  <1>1. procs[s] \in Proc8
    OBVIOUS
  <1>2. SIG_STOP \notin Deliverable(procs[s]) /\ SIG_CONT \notin Deliverable(procs[s])
    BY DEF SlotTree, Deliverable
  <1> QED BY <1>1, <1>2, CheckedType, CheckedFields DEF Resumes, CheckedOpen

LEMMA CallTree ==
  ASSUME TypeOK, TreeInv, NEW s \in Slots, Call(s)
  PROVE  TreeInv'
  <1>0. procs \in [Slots -> Proc8] /\ procs[s] \in Proc8
    BY DEF TypeOK
  <1>1. \A t \in Slots : SlotTree(procs, t)
    BY TreeBySlot
  <1>2. CASE Exit(s)
    BY <1>0, <1>1, <1>2, ExitedTree, TreeBySlotNext DEF Exit, ExitOf
  <1>3. CASE Exec(s)
    BY <1>1, <1>3, TreeBySlotNext DEF Exec, tableVars
  <1>4. ASSUME NEW sig \in SigArgs, SigSend(s, sig) PROVE TreeInv'
    <2>1. CASE Kill(s)
      BY <1>2, <2>1 DEF Kill
    <2>2. CASE KillInit(s)
      BY <1>1, <2>2, TreeBySlotNext DEF KillInit, tableVars
    <2>3. CASE Stop(s) \/ Cont(s)
      <3>1. UNCHANGED procs \/ \E st \in {"SLEEPING", "RUNNING"} :
                                 procs' = [procs EXCEPT ![s].state = st]
        BY <2>3 DEF Stop, Cont
      <3>2. ASSUME NEW st \in {"SLEEPING", "RUNNING"}, procs' = [procs EXCEPT ![s].state = st]
            PROVE  \A t \in Slots : SlotTree(procs', t)
        BY <1>0, <1>1, <3>2 DEF SlotTree, Proc8
      <3> QED BY <1>1, <3>1, <3>2, TreeBySlotNext
    <2>4. CASE sig \notin {SIG_KILL, SIG_STOP, SIG_CONT} /\ Post(s, sig)
      <3>1. (procs[s].sig_pending \cup {sig}) \cap {SIG_KILL, SIG_STOP, SIG_CONT} = {}
        BY <1>1, <2>4 DEF SlotTree
      <3>2. procs' = [procs EXCEPT ![s] =
                        [procs[s] EXCEPT !.sig_pending = procs[s].sig_pending \cup {sig}]]
        BY <2>4 DEF Post
      <3>3. \A t \in Slots : SlotTree(procs', t)
        BY <1>0, <1>1, <3>1, <3>2 DEF SlotTree, Proc8
      <3> QED BY <3>3, TreeBySlotNext
    <2> QED BY <1>4, <2>1, <2>2, <2>3, <2>4 DEF SigSend
  <1>5. ASSUME NEW mask \in MaskArgs, MaskSet(s, mask) \/ MaskClear(s, mask)
        PROVE  TreeInv'
    <2>1. PICK m : /\ procs' = [procs EXCEPT ![s] = [procs[s] EXCEPT !.sig_mask = m]]
                   /\ SIG_KILL \notin m
      BY <1>1, <1>5 DEF MaskSet, MaskClear, SlotTree
    <2>2. \A t \in Slots : SlotTree(procs', t)
      BY <1>0, <1>1, <2>1 DEF SlotTree, Proc8
    <2> QED BY <2>2, TreeBySlotNext
  <1> QED BY <1>2, <1>3, <1>4, <1>5 DEF Call

LEMMA TickTree ==
  ASSUME TypeOK, TreeInv, NEW s \in Slots,
         TickSkip(s) \/ TickFault(s) \/ TickIdle(s) \/ TickRun(s)
  PROVE  TreeInv'
  <1>0. procs \in [Slots -> Proc8] /\ procs[s] \in Proc8
    BY DEF TypeOK
  <1>1. \A t \in Slots : SlotTree(procs, t)
    BY TreeBySlot
  <1>2. CASE TickSkip(s)
    BY <1>1, <1>2, TreeBySlotNext DEF TickSkip, tableVars
  <1>3. CASE ~Skips(procs[s])
    <2> DEFINE p == Checked(procs[s])
               ps == [procs EXCEPT ![s] = p]
    <2>1. /\ p \in Proc8 /\ p.pid = procs[s].pid /\ p.parent_pid = procs[s].parent_pid
          /\ p.state = procs[s].state
          /\ p.sig_pending \subseteq procs[s].sig_pending
          /\ p.sig_mask = procs[s].sig_mask
      BY <1>0, <1>1, <1>3, CheckedTree DEF Skips
    <2>2. ps \in [Slots -> Proc8] /\ ps[s].pid = procs[s].pid
      BY <1>0, <2>1
    <2>3. \A t \in Slots : SlotTree(ps, t)
      <3> HIDE DEF p
      <3> QED BY <1>0, <1>1, <2>1 DEF SlotTree
    <2>4. CASE TickFault(s)
      <3>1. procs' = Exited(ps, s) /\ ps[s].pid # PID_INIT
        BY <2>2, <2>4 DEF TickFault, ExitOf, Faults
      <3> HIDE DEF ps
      <3> QED BY <2>2, <2>3, <3>1, ExitedTree, TreeBySlotNext
    <2>5. CASE TickIdle(s)
      BY <2>3, <2>5, TreeBySlotNext DEF TickIdle
    <2>6. CASE TickRun(s)
      <3>1. PICK e, st :
                /\ st \in {"SLEEPING", "RUNNING"}
                /\ procs' = [procs EXCEPT ![s] = [p EXCEPT !.energy = e, !.state = st]]
        <4> DEFINE left == Left(p.energy)
                   after == IF left = 0 THEN "SLEEPING" ELSE p.state
        <4>1. after \in {"SLEEPING", "RUNNING"}
          BY <2>6 DEF TickRun
        <4>2. procs' = [procs EXCEPT ![s] = [p EXCEPT !.energy = left, !.state = after]]
          BY <2>1, <2>6 DEF TickRun, Proc8
        <4> HIDE DEF left, after
        <4> QED BY <4>1, <4>2
      <3>2. /\ procs'[s].pid = p.pid /\ procs'[s].parent_pid = p.parent_pid
            /\ procs'[s].state = st /\ st # "ZOMBIE"
            /\ procs'[s].sig_pending = p.sig_pending /\ procs'[s].sig_mask = p.sig_mask
            /\ \A t \in Slots : t # s => procs'[t] = procs[t]
        <4> HIDE DEF p
        <4> QED BY <1>0, <2>1, <3>1 DEF Proc8
      <3>3. SlotTree(procs', s)
        <4> HIDE DEF p
        <4> QED BY <1>1, <2>1, <3>2 DEF SlotTree
      <3>4. \A t \in Slots : t # s => SlotTree(procs', t)
        BY <1>1, <3>2 DEF SlotTree
      <3> QED BY <3>3, <3>4, TreeBySlotNext
    <2>7. ~TickSkip(s)
      BY <1>3 DEF TickSkip
    <2> QED BY <2>4, <2>5, <2>6, <2>7
  <1> QED BY <1>2, <1>3 DEF TickFault, TickIdle, TickRun

LEMMA SpawnTree ==
  ASSUME TypeOK, SlotInv, TreeInv, NEW parent \in Pids, NEW energy \in 0 .. MAX_ENERGY,
         Spawn(parent, energy)
  PROVE  TreeInv'
  <1>1. PICK s \in Slots :
           /\ s = Top
           /\ ~Used(s)
           /\ procs'[s].pid = next_pid
           /\ \A t \in Slots : t # s => procs'[t] = procs[t]
    BY SpawnTakesFree
  <1>2. \A t \in Slots : SlotTree(procs, t)
    BY TreeBySlot
  <1>3. 0 \in Slots /\ s # 0 /\ PID_INIT < next_pid
    <2>1. 0 \in Slots
      BY SizeAssumption DEF Slots
    <2>2. procs[0].pid = PID_INIT
      BY DEF TreeInv, InitResident
    <2>3. Used(0)
      BY <2>2, NoPidAssumption DEF Used, PID_INIT
    <2> QED BY <1>1, <2>1, <2>2, <2>3 DEF SlotInv, PidsUnique
  <1>4. InTable(procs, parent) => parent < next_pid
    <2>1. parent \in Nat /\ parent # NoPid
      BY NoPidAssumption, BoundAssumption DEF Pids
    <2>2. ASSUME NEW t \in Slots, procs[t].pid = parent
          PROVE  parent < next_pid
      BY <2>1, <2>2 DEF SlotInv, PidsUnique, Used
    <2> QED BY <2>2 DEF InTable
  <1>5. procs'[s] = [pid |-> next_pid,
                     parent_pid |-> IF InTable(procs, parent) THEN parent ELSE PID_INIT,
                     state |-> "RUNNING", energy |-> energy,
                     sig_pending |-> {}, sig_mask |-> {}]
    BY <1>1 DEF Spawn, TypeOK
  <1>6. SlotTree(procs', s)
    BY <1>3, <1>4, <1>5, BoundAssumption DEF SlotTree, Pids, PID_INIT
  <1>7. \A t \in Slots : t # s => SlotTree(procs', t)
    BY <1>1, <1>2 DEF SlotTree
  <1> QED BY <1>6, <1>7, TreeBySlotNext

(* Init is not a zombie: proc_wait never reaps it. *)
LEMMA WaitSparesInit ==
  ASSUME TreeInv, NEW parent \in Pids, NEW s \in Slots, Wait(parent, s)
  PROVE  s # 0
  BY DEF TreeInv, InitResident, Wait, Reapable

LEMMA WaitTree ==
  ASSUME TypeOK, TreeInv, NEW parent \in Pids, NEW s \in Slots, Wait(parent, s)
  PROVE  TreeInv'
  <1>1. \A t \in Slots : SlotTree(procs, t)
    BY TreeBySlot
  <1>2. procs' = [procs EXCEPT ![s] = FreeProc] /\ procs \in [Slots -> Proc8]
    BY DEF Wait, TypeOK
  <1>3. \A t \in Slots : SlotTree(procs', t)
    BY <1>1, <1>2, WaitSparesInit DEF SlotTree, FreeProc
  <1> QED BY <1>3, TreeBySlotNext

LEMMA NextTree == TypeOK /\ SlotInv /\ TreeInv /\ [Next]_vars => TreeInv'
  <1> SUFFICES ASSUME TypeOK, SlotInv, TreeInv, [Next]_vars PROVE TreeInv'
    OBVIOUS
  <1>1. CASE EngineTick \/ TickStart \/ UNCHANGED vars
    <2>1. procs' = procs
      BY <1>1 DEF EngineTick, TickStart, vars, tableVars
    <2> QED BY <2>1, TreeBySlot, TreeBySlotNext
  <1> QED BY <1>1, SpawnTree, WaitTree, CallTree, TickTree DEF Next

(* Init outlives every sequence of calls, a parent is always older than    *)
(* its children, and SIG_KILL, SIG_STOP and SIG_CONT are never deferred.   *)
THEOREM TreeCorrect == Spec => [](InitResident /\ AncestryAcyclic /\ ImmediateSignals)
  <1>1. Spec => [](TypeOK /\ SlotInv /\ TreeInv)
    BY InitType, NextType, InitSlots, NextSlots, InitTree, NextTree, PTL DEF Spec
  <1> QED BY <1>1, PTL DEF TreeInv
(* The table never loses a slot, a count or a pid, and its tree keeps init *)
(* at the root, whatever is spawned, signalled, ended and reaped.          *)
THEOREM TableCorrect == Spec => []TableExact
  BY FreelistCorrect, PidsCorrect, TreeCorrect, PTL DEF TableExact
-----------------------------------------------------------------------------
(* The gates.                                                              *)

Runs(s) == Used(s) /\ procs[s].state = "RUNNING"

(* A step that touches the gates of one slot only, in accord with what     *)
(* becomes of its process.                                                 *)
LEMMA GatesStep ==
  ASSUME GatesMirrorState, NEW s \in Slots,
         \A t \in Slots : t # s => (Runs(t)' <=> Runs(t)),
         \/ open' = open \cup Space(s) /\ Runs(s)'
         \/ open' = open \ Space(s) /\ ~Runs(s)'
         \/ open' = open /\ (Runs(s)' <=> Runs(s))
  PROVE  GatesMirrorState'
  <1> SUFFICES ASSUME NEW t \in Slots
               PROVE  IF Runs(t)' THEN Space(t) \subseteq open' ELSE Space(t) \cap open' = {}
    BY DEF GatesMirrorState, Runs, Space
  <1>1. IF Runs(t) THEN Space(t) \subseteq open ELSE Space(t) \cap open = {}
    BY DEF GatesMirrorState, Runs
  <1>2. CASE t = s
    BY <1>1, <1>2
  <1>3. CASE t # s
    <2>1. Space(s) \cap Space(t) = {}
      BY <1>3, SpacesDisjoint
    <2> QED BY <1>1, <1>3, <2>1
  <1> QED BY <1>2, <1>3

LEMMA InitGates == Init => GatesMirrorState
  <1> SUFFICES ASSUME Init, NEW s \in Slots
               PROVE  IF Runs(s) THEN Space(s) \subseteq open ELSE Space(s) \cap open = {}
    BY DEF GatesMirrorState, Runs
  <1>1. Runs(s) <=> s = 0
    BY NoPidAssumption DEF Init, Runs, Used, FreeProc, PID_INIT
  <1>2. 0 \in Slots /\ open = Space(0)
    BY SizeAssumption DEF Init, Slots
  <1> QED BY <1>1, <1>2, SpacesDisjoint

(* proc_exit closes the gates of the process and of no other. *)
LEMMA ExitGates ==
  ASSUME TypeOK, GatesMirrorState, NEW s \in Slots,
         NEW ps \in [Slots -> Proc8], \A t \in Slots : ps[t].pid = procs[t].pid,
         \A t \in Slots : t # s => ps[t].state = procs[t].state,
         ExitOf(ps, s)
  PROVE  GatesMirrorState'
  <1>1. procs' = Exited(ps, s) /\ open' = open \ Space(s)
    BY DEF ExitOf
  <1>2. \A t \in Slots : /\ procs'[t].pid = procs[t].pid
                         /\ procs'[t].state = IF t = s THEN "ZOMBIE" ELSE procs[t].state
    BY <1>1, ExitedFields
  <1> QED BY <1>1, <1>2, GatesStep DEF Runs, Used

LEMMA CallGates ==
  ASSUME TypeOK, GatesMirrorState, NEW s \in Slots, procs[s].pid # NoPid, Call(s)
  PROVE  GatesMirrorState'
  <1>0. procs \in [Slots -> Proc8] /\ procs[s] \in Proc8
    BY DEF TypeOK
  <1>1. CASE Exit(s)
    BY <1>0, <1>1, ExitGates DEF Exit
  <1>2. ASSUME UNCHANGED open, NEW x, \/ UNCHANGED procs
                                      \/ procs' = [procs EXCEPT ![s].sig_pending = x]
                                      \/ procs' = [procs EXCEPT ![s].sig_mask = x]
        PROVE  GatesMirrorState'
    <2>1. \A t \in Slots : procs'[t].pid = procs[t].pid /\ procs'[t].state = procs[t].state
      BY <1>0, <1>2 DEF Proc8
    <2> QED BY <1>2, <2>1, GatesStep DEF Runs, Used
  <1>3. ASSUME procs' = [procs EXCEPT ![s].state = "SLEEPING"], open' = open \ Space(s)
        PROVE  GatesMirrorState'
    <2>1. ~Runs(s)' /\ \A t \in Slots : t # s => procs'[t] = procs[t]
      BY <1>0, <1>3 DEF Runs, Proc8
    <2> QED BY <1>3, <2>1, GatesStep DEF Runs, Used
  <1>4. ASSUME procs' = [procs EXCEPT ![s].state = "RUNNING"], open' = open \cup Space(s)
        PROVE  GatesMirrorState'
    <2>1. Runs(s)' /\ \A t \in Slots : t # s => procs'[t] = procs[t]
      BY <1>0, <1>4 DEF Runs, Used, Proc8
    <2> QED BY <1>4, <2>1, GatesStep DEF Runs, Used
  <1>5. CASE Exec(s)
    BY <1>2, <1>5 DEF Exec, tableVars
  <1>6. ASSUME NEW sig \in SigArgs, SigSend(s, sig) PROVE GatesMirrorState'
    <2>1. CASE Kill(s)
      BY <1>1, <2>1 DEF Kill
    <2>2. CASE KillInit(s)
      BY <1>2, <2>2 DEF KillInit, tableVars
    <2>3. CASE Stop(s)
      BY <1>3, <2>3 DEF Stop
    <2>4. CASE Cont(s)
      BY <1>2, <1>4, <2>4 DEF Cont
    <2>5. CASE Post(s, sig)
      BY <1>2, <2>5 DEF Post
    <2> QED BY <1>6, <2>1, <2>2, <2>3, <2>4, <2>5 DEF SigSend
  <1>7. ASSUME NEW mask \in MaskArgs, MaskSet(s, mask) \/ MaskClear(s, mask)
        PROVE  GatesMirrorState'
    BY <1>2, <1>7 DEF MaskSet, MaskClear, engineVars
  <1> QED BY <1>1, <1>5, <1>6, <1>7 DEF Call

LEMMA TickGates ==
  ASSUME TypeOK, TreeInv, GatesMirrorState, NEW s \in Slots,
         TickSkip(s) \/ TickFault(s) \/ TickIdle(s) \/ TickRun(s)
  PROVE  GatesMirrorState'
  <1>0. procs \in [Slots -> Proc8] /\ procs[s] \in Proc8
    BY DEF TypeOK
  <1>1. CASE TickSkip(s)
    BY <1>1 DEF TickSkip, tableVars, engineVars, GatesMirrorState, Used
  <1>2. CASE ~Skips(procs[s])
    <2> DEFINE p == Checked(procs[s])
               ps == [procs EXCEPT ![s] = p]
    <2>1. p \in Proc8 /\ p.pid = procs[s].pid /\ p.state = procs[s].state /\ CheckedOpen(s) = open
      BY <1>0, <1>2, CheckedTree, TreeBySlot DEF Skips
    <2>2. procs[s].pid # NoPid
      BY <1>2 DEF Skips
    <2>3. CASE TickFault(s)
      <3>1. /\ ps \in [Slots -> Proc8]
            /\ \A t \in Slots : ps[t].pid = procs[t].pid /\ ps[t].state = procs[t].state
        BY <1>0, <2>1
      <3>2. ExitOf(ps, s)
        BY <2>3 DEF TickFault
      <3> HIDE DEF ps
      <3> QED BY <3>1, <3>2, ExitGates
    <2>4. CASE TickIdle(s)
      <3>1. open' = open /\ \A t \in Slots : /\ procs'[t].pid = procs[t].pid
                                             /\ procs'[t].state = procs[t].state
        BY <1>0, <2>1, <2>4 DEF TickIdle
      <3> QED BY <3>1, GatesStep DEF Runs, Used
    <2>5. CASE TickRun(s)
      <3>1. PICK e : procs' = [procs EXCEPT ![s] =
                                [p EXCEPT !.energy = e, !.state = IF e = 0 THEN "SLEEPING" ELSE @]]
                     /\ open' = IF e = 0 THEN open \ Space(s) ELSE open
        BY <2>1, <2>5 DEF TickRun
      <3>2. procs[s].state = "RUNNING"
        BY <2>1, <2>5 DEF TickRun
      <3>3. /\ procs'[s].pid = procs[s].pid
            /\ procs'[s].state = IF e = 0 THEN "SLEEPING" ELSE "RUNNING"
            /\ \A t \in Slots : t # s => procs'[t] = procs[t]
        <4> HIDE DEF p
        <4> QED BY <1>0, <2>1, <3>1, <3>2 DEF Proc8
      <3>4. \A t \in Slots : t # s => (Runs(t)' <=> Runs(t))
        BY <3>3 DEF Runs, Used
      <3>5. CASE e = 0
        <4>1. ~Runs(s)' /\ open' = open \ Space(s)
          BY <3>1, <3>3, <3>5 DEF Runs
        <4> QED BY <3>4, <4>1, GatesStep
      <3>6. CASE e # 0
        <4>1. Runs(s)' /\ Runs(s) /\ open' = open
          BY <2>2, <3>1, <3>2, <3>3, <3>6 DEF Runs, Used
        <4> QED BY <3>4, <4>1, GatesStep
      <3> QED BY <3>5, <3>6
    <2>6. ~TickSkip(s)
      BY <1>2 DEF TickSkip
    <2> QED BY <2>3, <2>4, <2>5, <2>6
  <1> QED BY <1>1, <1>2 DEF TickFault, TickIdle, TickRun

LEMMA SpawnGates ==
  ASSUME TypeOK, SlotInv, GatesMirrorState,
         NEW parent \in Pids, NEW energy \in 0 .. MAX_ENERGY, Spawn(parent, energy)
  PROVE  GatesMirrorState'
  <1>1. PICK s \in Slots :
           /\ s = Top
           /\ ~Used(s)
           /\ procs'[s].pid = next_pid
           /\ \A t \in Slots : t # s => procs'[t] = procs[t]
    BY SpawnTakesFree
  <1>2. next_pid # NoPid
    BY NoPidAssumption DEF TypeOK
  <1>3. procs'[s].state = "RUNNING" /\ open' = open \cup Space(s)
    BY <1>1 DEF Spawn, TypeOK
  <1>4. Runs(s)' /\ \A t \in Slots : t # s => (Runs(t)' <=> Runs(t))
    BY <1>1, <1>2, <1>3 DEF Runs, Used
  <1> QED BY <1>3, <1>4, GatesStep

LEMMA WaitGates ==
  ASSUME TypeOK, SlotInv, GatesMirrorState, NEW parent \in Pids, NEW s \in Slots, Wait(parent, s)
  PROVE  GatesMirrorState'
  <1>1. ~Runs(s) /\ ~Runs(s)'
    BY WaitFreesUsed DEF Wait, Reapable, Runs, Used
  <1>2. \A t \in Slots : t # s => (Runs(t)' <=> Runs(t))
    BY WaitFreesUsed DEF Runs, Used
  <1>3. open' = open
    BY DEF Wait, engineVars
  <1> QED BY <1>1, <1>2, <1>3, GatesStep

LEMMA NextGates == TypeOK /\ SlotInv /\ TreeInv /\ GatesMirrorState /\ [Next]_vars
                     => GatesMirrorState'
  <1> SUFFICES ASSUME TypeOK, SlotInv, TreeInv, GatesMirrorState, [Next]_vars
               PROVE  GatesMirrorState'
    OBVIOUS
  <1>1. CASE EngineTick \/ TickStart \/ UNCHANGED vars
    BY <1>1 DEF EngineTick, TickStart, vars, tableVars, engineVars, GatesMirrorState, Used
  <1>2. ASSUME NEW pid \in Pids, NEW s \in Slots, Finds(procs, pid, s), Call(s)
        PROVE  GatesMirrorState'
    <2>1. procs[s].pid # NoPid
      BY <1>2, NoPidAssumption DEF Finds, Pids
    <2> QED BY <1>2, <2>1, CallGates
  <1> QED BY <1>1, <1>2, SpawnGates, WaitGates, TickGates DEF Next

(* A gate of a slot is open exactly while the process of the slot runs,    *)
(* in every table and after every sequence of calls.                       *)
THEOREM GatesCorrect == Spec => []GatesMirrorState
  <1>1. Spec => [](TypeOK /\ SlotInv /\ TreeInv /\ GatesMirrorState)
    BY InitType, NextType, InitSlots, NextSlots, InitTree, NextTree, InitGates, NextGates,
       PTL DEF Spec
  <1> QED BY <1>1, PTL
-----------------------------------------------------------------------------
(* The table implements the abstract pool of pids. *)

owner == [s \in Slots |-> procs[s].pid]

LEMMA PoolInit == Init => Pool!Init
  BY DEF Init, Pool!Init, FreeProc, PID_INIT

LEMMA PoolStep == TypeOK /\ SlotInv /\ TreeInv /\ [Next]_vars => [Pool!Next]_(Pool!poolVars)
  <1> SUFFICES ASSUME TypeOK, SlotInv, TreeInv, [Next]_vars
               PROVE  [Pool!Next]_(Pool!poolVars)
    OBVIOUS
  <1>1. ASSUME NEW parent \in Pids, NEW energy \in 0 .. MAX_ENERGY, Spawn(parent, energy)
        PROVE  Pool!Next
    <2>1. PICK s \in Slots :
             /\ s = Top
             /\ ~Used(s)
             /\ procs'[s].pid = next_pid
             /\ \A t \in Slots : t # s => procs'[t] = procs[t]
      BY <1>1, SpawnTakesFree
    <2>2. owner[s] = NoPid /\ owner' = [owner EXCEPT ![s] = next_pid]
      BY <2>1 DEF owner, Used
    <2>3. Pool!Issue(s)
      BY <1>1, <2>2 DEF Pool!Issue, Spawn, owner
    <2> QED BY <2>3 DEF Pool!Next
  <1>2. ASSUME NEW parent \in Pids, NEW s \in Slots, Wait(parent, s)
        PROVE  Pool!Next
    <2>1. owner[s] # NoPid /\ owner' = [owner EXCEPT ![s] = NoPid]
      BY <1>2, WaitFreesUsed DEF owner, Used
    <2>2. Pool!Reclaim(s)
      BY <1>2, <2>1, WaitSparesInit DEF Pool!Reclaim, Wait, owner
    <2> QED BY <2>2 DEF Pool!Next
  <1>3. CASE Quiet
    BY <1>3 DEF Quiet, Pool!poolVars
  <1> QED BY <1>1, <1>2, <1>3, StepShape

(* No pid is issued twice, no slot in use is issued, and init's slot never *)
(* comes free: every table implements PidPool.                             *)
THEOREM PoolCorrect == Spec => PoolSpec
  <1>1. Spec => [](TypeOK /\ SlotInv /\ TreeInv)
    BY InitType, NextType, InitSlots, NextSlots, InitTree, NextTree, PTL DEF Spec
  <1> QED BY <1>1, PoolInit, PoolStep, PTL DEF Spec, PoolSpec, Pool!Spec
=============================================================================
