----------------------------- MODULE ProcTable -----------------------------
(***************************************************************************)
(* The process table of CanvasOS (src/engine/src/proc.c) and its signals   *)
(* (src/engine/src/signal.c), with what their calls do to the rest of the  *)
(* engine: the two gates of each slot, the energy cells of the BH region   *)
(* and the WhiteHole record of the current tick.                           *)
(*                                                                         *)
(* The program is single threaded here: one call runs to its end before    *)
(* the next.  Each call is one action, except proc_tick, whose loop over   *)
(* the slots is a cursor that every other call waits for.                  *)
(***************************************************************************)
EXTENDS Naturals, FiniteSets

CONSTANTS PROC8_MAX,     \* slots of the table (256)
          TILEGATE_COUNT,\* gates of the engine (4096)
          BH_CAP,        \* energy cells of the BH region (BH_W * BH_H = 32768)
          INIT_ENERGY,   \* energy of init (255)
          MAX_ENERGY,    \* a spawned process has energy 0..MAX_ENERGY
          MAX_PID,       \* bound of the model: no pid above it is issued
          SigArgs,       \* signals passed to sig_send
          MaskArgs,      \* masks passed to sig_mask_set and sig_mask_clear
          NoPid          \* PROC_SLOT_FREE_PID

Slots == 0 .. PROC8_MAX - 1
PID_INIT == 0

SIG_KILL == 1
SIG_STOP == 2
SIG_CONT == 3
SIG_CHILD == 4
SIG_SEGV == 8
Signals == 1 .. 8

ASSUME SizeAssumption == /\ PROC8_MAX \in Nat \ {0}
                         /\ TILEGATE_COUNT \in Nat
                         /\ TILEGATE_COUNT >= 2 * PROC8_MAX
                         /\ BH_CAP \in Nat \ {0}
ASSUME BoundAssumption == /\ INIT_ENERGY \in Nat
                          /\ MAX_ENERGY \in Nat
                          /\ MAX_PID \in Nat
ASSUME ArgsAssumption == SigArgs \subseteq Signals /\ MaskArgs \subseteq SUBSET Signals
ASSUME NoPidAssumption == NoPid \notin Nat

VARIABLES procs,       \* Proc8 procs[PROC8_MAX]
          freelist,    \* the stack of free slots: only [0 .. free_count-1] counts
          free_count,
          next_pid,
          count,       \* slots in use
          open,        \* the gates of the engine that are open
          bh,          \* the G channel of each BH energy cell
          wh,          \* opcode of the WhiteHole record in the current tick's slot
          cursor       \* index of the loop of proc_tick; PROC8_MAX outside it

tableVars == <<procs, freelist, free_count, next_pid, count>>
engineVars == <<open, bh, wh>>
vars == <<procs, freelist, free_count, next_pid, count, open, bh, wh, cursor>>

-----------------------------------------------------------------------------
States == {"RUNNING", "SLEEPING", "BLOCKED", "ZOMBIE"}

Pids == 0 .. MAX_PID

Proc8 == [pid : Nat \cup {NoPid}, parent_pid : Nat \cup {NoPid},
          state : States, energy : Nat,
          sig_pending : SUBSET Signals, sig_mask : SUBSET Signals]

FreeProc == [pid |-> NoPid, parent_pid |-> NoPid, state |-> "ZOMBIE",
             energy |-> 0, sig_pending |-> {}, sig_mask |-> {}]

WhOps == {"TICK", "SPAWN", "EXEC", "EXIT", "SLEEP", "SIG_SEND"}

(* The gates of slot s: volh and volt. *)
Space(s) == {s % TILEGATE_COUNT, (s + PROC8_MAX) % TILEGATE_COUNT}

(* proc_find returns slot s for pid: the first slot that holds it. *)
Finds(ps, pid, s) == /\ ps[s].pid = pid
                     /\ \A t \in Slots : t < s => ps[t].pid # pid

InTable(ps, pid) == \E s \in Slots : ps[s].pid = pid

(* gate_open_space_ctx and gate_close_space_ctx. *)
OpenSpace(s) == open \cup Space(s)
CloseVolhOnly(s) == open \ {s}    \* mutant: volt is forgotten
CloseSpace(s) == open \ Space(s)

(* bh_set_energy of a pid, the energy clamped to a byte. *)
BhCellWrongRegion(pid) == (pid % 65536) % 2    \* mutant: wrong width of BH
BhCell(pid) == (pid % 65536) % BH_CAP
Byte(energy) == IF energy > 255 THEN 255 ELSE energy
BhSet(pid, energy) == [bh EXCEPT ![BhCell(pid)] = Byte(energy)]

Idle == cursor = PROC8_MAX
-----------------------------------------------------------------------------
(* proctable_init, on an engine whose gates are closed and whose tick slot *)
(* holds the heartbeat of engctx_tick.                                     *)
Init == /\ procs = [s \in Slots |->
                      IF s = 0
                      THEN [FreeProc EXCEPT !.pid = PID_INIT, !.parent_pid = PID_INIT,
                                            !.state = "RUNNING", !.energy = INIT_ENERGY]
                      ELSE FreeProc]
        /\ freelist = [k \in Slots |-> IF k = PROC8_MAX - 1 THEN 0 ELSE k + 1]
        /\ free_count = PROC8_MAX - 1
        /\ next_pid = 1
        /\ count = 1
        /\ open = Space(0)
        /\ bh = [c \in 0 .. BH_CAP - 1 |-> IF c = 0 THEN Byte(INIT_ENERGY) ELSE 0]
        /\ wh = "TICK"
        /\ cursor = PROC8_MAX

(* engctx_tick: the current slot of the WhiteHole moves to a new heartbeat. *)
EngineTick == /\ Idle
              /\ wh' = "TICK"
              /\ UNCHANGED <<tableVars, open, bh, cursor>>

(* proc_slot_alloc pops the stack; proc_slot_free pushes on it. *)
TopReadFirst == freelist[free_count]    \* mutant: reads before it decrements
Top == freelist[free_count - 1]

Pushed(s) == [freelist EXCEPT ![free_count] = s]

(* The parent of a new process: init if proc_find does not find the one asked for. *)
AnyParent(parent) == parent    \* mutant: the parent is not looked up
ParentFor(parent) == IF InTable(procs, parent) THEN parent ELSE PID_INIT

PidAfterPerSlot == IF next_pid < PROC8_MAX - 1 THEN next_pid + 1 ELSE 1    \* mutant: pids wrap
PidAfter == next_pid + 1

(* proc_spawn takes the slot on top of the stack. *)
Spawn(parent, energy) ==
  /\ Idle
  /\ free_count > 0
  /\ next_pid <= MAX_PID
  /\ LET s == Top IN
       /\ procs' = [procs EXCEPT ![s] =
                      [pid |-> next_pid, parent_pid |-> ParentFor(parent),
                       state |-> "RUNNING", energy |-> energy,
                       sig_pending |-> {}, sig_mask |-> {}]]
       /\ open' = OpenSpace(s)
  /\ free_count' = free_count - 1
  /\ next_pid' = PidAfter
  /\ count' = count + 1
  /\ bh' = BhSet(next_pid, energy)
  /\ wh' = "SPAWN"
  /\ UNCHANGED <<freelist, cursor>>

(* proc_exec: the code tiles are not modelled, the record is. *)
Exec(s) == /\ Idle
           /\ wh' = "EXEC"
           /\ UNCHANGED <<tableVars, open, bh, cursor>>
-----------------------------------------------------------------------------
(* proc_exit of the process in slot s of table ps: a zombie without        *)
(* energy, its children adopted by init, its parent sent SIG_CHILD.        *)
NotifiesInit(ps, s, t) == Finds(ps, PID_INIT, t)    \* mutant: the adopter is told
Notifies(ps, s, t) == /\ ps[s].parent_pid # ps[s].pid
                      /\ Finds(ps, ps[s].parent_pid, t)

Exited(ps, s) ==
  [t \in Slots |->
     [ps[t] EXCEPT
        !.state = IF t = s THEN "ZOMBIE" ELSE @,
        !.energy = IF t = s THEN 0 ELSE @,
        !.parent_pid = IF ps[t].pid # NoPid /\ @ = ps[s].pid THEN PID_INIT ELSE @,
        !.sig_pending = IF Notifies(ps, s, t) THEN @ \cup {SIG_CHILD} ELSE @]]

(* ... and the record of the SIG_CHILD lands on that of the exit. *)
ExitOf(ps, s) ==
  /\ procs' = Exited(ps, s)
  /\ open' = CloseSpace(s)
  /\ bh' = BhSet(ps[s].pid, 0)
  /\ wh' = IF \E t \in Slots : Notifies(ps, s, t)
           THEN "SIG_SEND"
           ELSE "EXIT"

AnyMayExit(s) == TRUE    \* mutant: init may exit
MayExit(s) == procs[s].pid # PID_INIT

Exit(s) == /\ Idle
           /\ MayExit(s)
           /\ ExitOf(procs, s)
           /\ UNCHANGED <<freelist, free_count, next_pid, count, cursor>>

(* proc_wait: the first zombie child in slot order is freed. *)
Reapable(parent, s) == /\ procs[s].pid # NoPid
                       /\ procs[s].parent_pid = parent
                       /\ procs[s].state = "ZOMBIE"

CountKept == count    \* mutant: count is not decremented
CountAfterWait == IF count > 0 THEN count - 1 ELSE count

Wait(parent, s) ==
  /\ Idle
  /\ Reapable(parent, s)
  /\ \A t \in Slots : t < s => ~Reapable(parent, t)
  /\ procs' = [procs EXCEPT ![s] = FreeProc]
  /\ IF free_count < PROC8_MAX
     THEN /\ freelist' = Pushed(s)
          /\ free_count' = free_count + 1
     ELSE UNCHANGED <<freelist, free_count>>
  /\ count' = CountAfterWait
  /\ UNCHANGED <<next_pid, engineVars, cursor>>
-----------------------------------------------------------------------------
(* sig_send, by signal.  Init survives SIG_KILL: proc_exit refuses it. *)
Sent == wh' = "SIG_SEND"

Kill(s) == Exit(s)

KillInit(s) == /\ Idle
               /\ procs[s].pid = PID_INIT
               /\ Sent
               /\ UNCHANGED <<tableVars, open, bh, cursor>>

Stop(s) == /\ Idle
           /\ procs' = [procs EXCEPT ![s].state = "SLEEPING"]
           /\ open' = CloseSpace(s)
           /\ Sent
           /\ UNCHANGED <<freelist, free_count, next_pid, count, bh, cursor>>

Cont(s) == /\ Idle
           /\ IF procs[s].state \in {"SLEEPING", "BLOCKED"}
              THEN /\ procs' = [procs EXCEPT ![s].state = "RUNNING"]
                   /\ open' = OpenSpace(s)
              ELSE UNCHANGED <<procs, open>>
           /\ Sent
           /\ UNCHANGED <<freelist, free_count, next_pid, count, bh, cursor>>

Post(s, sig) == /\ Idle
                /\ procs' = [procs EXCEPT ![s].sig_pending = @ \cup {sig}]
                /\ Sent
                /\ UNCHANGED <<freelist, free_count, next_pid, count, open, bh, cursor>>

SigSend(s, sig) ==
  CASE sig = SIG_KILL -> Kill(s) \/ KillInit(s)
    [] sig = SIG_STOP -> Stop(s)
    [] sig = SIG_CONT -> Cont(s)
    [] OTHER          -> Post(s, sig)

Maskable(mask) == mask \ {SIG_KILL}

MaskSet(s, mask) == /\ Idle
                    /\ procs' = [procs EXCEPT ![s].sig_mask = @ \cup Maskable(mask)]
                    /\ UNCHANGED <<freelist, free_count, next_pid, count, engineVars, cursor>>

MaskClear(s, mask) == /\ Idle
                      /\ procs' = [procs EXCEPT ![s].sig_mask = @ \ mask]
                      /\ UNCHANGED <<freelist, free_count, next_pid, count, engineVars, cursor>>
-----------------------------------------------------------------------------
(* proc_tick.  One iteration of its loop checks the signals of the process *)
(* in the slot, in signal order, and charges it one unit of energy if it   *)
(* is still running.                                                       *)
Deliverable(p) == p.sig_pending \ p.sig_mask

Resumes(p) == /\ SIG_CONT \in Deliverable(p)
              /\ SIG_STOP \in Deliverable(p) \/ p.state \in {"SLEEPING", "BLOCKED"}

(* The process after sig_check, SIG_SEGV aside. *)
CheckedKeepsBits(p) == p    \* mutant: handled bits stay pending
Checked(p) == [p EXCEPT !.sig_pending = @ \ Deliverable(p),
                        !.state = IF Resumes(p) THEN "RUNNING"
                                  ELSE IF SIG_STOP \in Deliverable(p) THEN "SLEEPING"
                                  ELSE @]

CheckedOpen(s) == IF Resumes(procs[s]) THEN OpenSpace(s)
                  ELSE IF SIG_STOP \in Deliverable(procs[s]) THEN CloseSpace(s)
                  ELSE open

Faults(p) == SIG_SEGV \in Deliverable(p) /\ p.pid # PID_INIT

TickStart == /\ Idle
             /\ cursor' = 0
             /\ UNCHANGED <<tableVars, engineVars>>

InLoop(s) == s = cursor /\ cursor' = cursor + 1

Skips(p) == p.pid = NoPid \/ p.state = "ZOMBIE"

TickSkip(s) == /\ InLoop(s)
               /\ Skips(procs[s])
               /\ UNCHANGED <<tableVars, engineVars>>

TickFault(s) == /\ InLoop(s)
                /\ ~Skips(procs[s])
                /\ Faults(procs[s])
                /\ ExitOf([procs EXCEPT ![s] = Checked(procs[s])], s)
                /\ UNCHANGED <<freelist, free_count, next_pid, count>>

TickIdle(s) == /\ InLoop(s)
               /\ ~Skips(procs[s])
               /\ ~Faults(procs[s])
               /\ Checked(procs[s]).state # "RUNNING"
               /\ procs' = [procs EXCEPT ![s] = Checked(procs[s])]
               /\ open' = CheckedOpen(s)
               /\ UNCHANGED <<freelist, free_count, next_pid, count, bh, wh>>

LeftUnguarded(energy) == energy - 1    \* mutant: no test for zero
Left(energy) == IF energy > 0 THEN energy - 1 ELSE 0

TickRun(s) ==
  /\ InLoop(s)
  /\ ~Skips(procs[s])
  /\ ~Faults(procs[s])
  /\ Checked(procs[s]).state = "RUNNING"
  /\ LET p == Checked(procs[s])
         left == Left(p.energy)
     IN /\ procs' = [procs EXCEPT ![s] =
                       [p EXCEPT !.energy = left,
                                 !.state = IF left = 0 THEN "SLEEPING" ELSE @]]
        /\ open' = IF left = 0 THEN CheckedOpen(s) \ Space(s) ELSE CheckedOpen(s)
        /\ bh' = BhSet(p.pid, left)
        /\ wh' = IF left = 0 THEN "SLEEP" ELSE wh
  /\ UNCHANGED <<freelist, free_count, next_pid, count>>
-----------------------------------------------------------------------------
(* A call with a pid that proc_find does not find changes nothing. *)
Call(s) == \/ Exec(s)
           \/ Exit(s)
           \/ \E sig \in SigArgs : SigSend(s, sig)
           \/ \E mask \in MaskArgs : MaskSet(s, mask) \/ MaskClear(s, mask)

Next == \/ EngineTick
        \/ \E parent \in Pids, energy \in 0 .. MAX_ENERGY : Spawn(parent, energy)
        \/ \E pid \in Pids, s \in Slots : Finds(procs, pid, s) /\ Call(s)
        \/ \E parent \in Pids, s \in Slots : Wait(parent, s)
        \/ TickStart
        \/ \E s \in Slots : TickSkip(s) \/ TickFault(s) \/ TickIdle(s) \/ TickRun(s)

Spec == Init /\ [][Next]_vars
-----------------------------------------------------------------------------
(* Every variable stays in its type, and the stack pointer in its array. *)
TypeOK == /\ procs \in [Slots -> Proc8]
          /\ freelist \in [Slots -> Slots]
          /\ free_count \in 0 .. PROC8_MAX
          /\ next_pid \in Nat
          /\ count \in Nat
          /\ open \subseteq 0 .. TILEGATE_COUNT - 1
          /\ bh \in [0 .. BH_CAP - 1 -> 0 .. 255]
          /\ wh \in WhOps
          /\ cursor \in 0 .. PROC8_MAX

Used(s) == procs[s].pid # NoPid

(* The stack of free slots holds each free slot exactly once and no slot   *)
(* in use: no sequence of spawns, exits and waits can lose a slot or give  *)
(* one to two processes, and a spawn fails only when every slot is taken   *)
(* (proc_slot_alloc, proc_slot_free).                                      *)
OnStack(s) == \E k \in Slots : k < free_count /\ freelist[k] = s

FreelistExact == /\ \A j, k \in Slots : j < free_count /\ k < free_count /\ j # k
                                          => freelist[j] # freelist[k]
                 /\ \A s \in Slots : OnStack(s) <=> ~Used(s)

(* The head count of proc_spawn and proc_wait is the number of slots in    *)
(* use, and the stack holds the rest: neither counter drifts or sticks.    *)
CountExact == /\ count = Cardinality({s \in Slots : Used(s)})
              /\ count + free_count = PROC8_MAX

(* No two slots answer to one pid, so the slot proc_find picks is the only *)
(* one it could pick.                                                      *)
PidsUnique == \A s \in Slots : Used(s) =>
                 /\ procs[s].pid < next_pid
                 /\ \A t \in Slots : t # s => procs[t].pid # procs[s].pid

(* Init keeps slot 0 and never becomes a zombie, so that proc_wait, called *)
(* for init's children, never reaps init, its own child.                   *)
InitResident == /\ procs[0].pid = PID_INIT
                /\ procs[0].parent_pid = PID_INIT
                /\ procs[0].state # "ZOMBIE"

(* The gates of a slot are open exactly while a process runs in it:        *)
(* whatever signals, exits, reaps and exhaustions interleave, no gate of a *)
(* stopped, dead or reaped process stays open and no runner is shut out.   *)
GatesMirrorState == \A s \in Slots :
                      IF Used(s) /\ procs[s].state = "RUNNING"
                      THEN Space(s) \subseteq open
                      ELSE Space(s) \cap open = {}

(* A parent is older than its children, through spawns, adoptions and      *)
(* reuse of slots: the process tree has no cycle.                          *)
AncestryAcyclic == \A s \in Slots : Used(s) /\ procs[s].pid # PID_INIT =>
                      /\ procs[s].parent_pid \in Nat
                      /\ procs[s].parent_pid < procs[s].pid

(* What proc.c keeps of slots, pids and parents, together (proc.c:43): no  *)
(* order of spawns, exits, signals and waits loses or doubles any of them. *)
TableExact == FreelistExact /\ CountExact /\ PidsUnique /\ InitResident /\ AncestryAcyclic

(* SIG_KILL, SIG_STOP and SIG_CONT take effect when they are sent: they    *)
(* never wait in sig_pending, and no mask holds SIG_KILL back.             *)
ImmediateSignals == \A s \in Slots :
                      /\ procs[s].sig_pending \cap {SIG_KILL, SIG_STOP, SIG_CONT} = {}
                      /\ SIG_KILL \notin procs[s].sig_mask

(* While no pid has wrapped around the BH region, the energy cell of every *)
(* process shows its energy, whatever became of the earlier users of its   *)
(* slot (bh_set_energy in proc_spawn, proc_exit and proc_tick).            *)
BhMirrorsEnergy == next_pid <= BH_CAP => \A s \in Slots : Used(s) =>
                      bh[BhCell(procs[s].pid)] = Byte(procs[s].energy)

(* A process that dies leaves SIG_CHILD pending at the parent it had, if   *)
(* the parent is in the table, and no child of its own keeps it as parent. *)
DeathIsTold ==
  [][\A s \in Slots :
       Used(s) /\ procs[s].state # "ZOMBIE" /\ procs'[s].state = "ZOMBIE" =>
         /\ \A t \in Slots : procs[t].pid = procs[s].parent_pid =>
                               SIG_CHILD \in procs'[t].sig_pending
         /\ \A t \in Slots : Used(t) => procs'[t].parent_pid # procs[s].pid]_vars

(* However the signals of a pass of proc_tick kill and wake processes, no  *)
(* slot the loop has passed is left running without energy, and none holds *)
(* a signal it could have taken, save the SIG_CHILD of a death further on. *)
PassSettles == \A s \in Slots : cursor # PROC8_MAX /\ s < cursor /\ ~Skips(procs[s]) =>
                  /\ procs[s].state = "RUNNING" => procs[s].energy > 0
                  /\ Deliverable(procs[s]) \subseteq {SIG_CHILD}

(* So a process runs on the energy that is seen of it, and on some.        *)
EnergySettles == BhMirrorsEnergy /\ PassSettles

(* The table hands out pids and slots as the abstract pool does. *)
Pool == INSTANCE PidPool WITH owner <- [s \in Slots |-> procs[s].pid],
                              next <- next_pid
PoolSpec == Pool!Spec
=============================================================================
