----------------------------- MODULE Scheduler -----------------------------
(***************************************************************************)
(* The scheduler of CanvasOS (src/engine/src/scheduler.c): processes with  *)
(* an energy budget and a space of two gates, and the messages they send   *)
(* each other through the WhiteHole, a ring with one record for a tick.    *)
(* The context is bound (sched_bind_ctx); pids are 1, 2, ... in the order  *)
(* of the table, which only grows.  A message stands for its src_pid and   *)
(* payload_key; dst_canvas is cut to a byte and read by nobody.            *)
(***************************************************************************)
EXTENDS Integers, Sequences, SequencesExt

CONSTANTS PROC_MAX,      \* processes (128)
          WH_CAP,        \* records of the ring (32768)
          EVENT_STRIDE,  \* slots between the events of two ticks (256)
          U32,           \* values of uint32_t (2^32)
          TILE_COUNT,    \* gates (4096)
          Spaces,        \* the spaces given to sched_spawn: sets of gates volh, volt
          Energies,      \* the energies given to sched_spawn
          Amounts,       \* the amounts given to sched_recharge
          Messages,      \* the messages sent
          MAX_TICK       \* bound of the model

ASSUME RingAssumption == /\ WH_CAP \in Nat \ {0}
                         /\ EVENT_STRIDE \in Nat \ {0}
                         /\ U32 \in Nat \ {0}
                         /\ MAX_TICK \in Nat /\ MAX_TICK < U32
ASSUME ProcAssumption == /\ PROC_MAX \in Nat
                         /\ TILE_COUNT \in Nat
                         /\ \A sp \in Spaces : sp \subseteq Nat
                         /\ Energies \subseteq 0 .. U32 - 1
                         /\ Amounts \subseteq 0 .. U32 - 1

VARIABLES procs,   \* Process procs[count]; the process with pid i is procs[i]
          tick,    \* of the scheduler
          open,    \* the gates that are open
          bh,      \* the G channel of the BH cell of each pid
          ring,    \* the records of the WhiteHole
          got      \* what the last sched_ipc_recv returned

vars == <<procs, tick, open, bh, ring, got>>

Pids == 1 .. PROC_MAX
Known == 1 .. Len(procs)
NoMessage == "none"

(* The records: what is not a message is not looked at.                    *)
Event == [op |-> "EVENT"]
Mail(dst, m) == [op |-> "IPC", dst |-> dst, message |-> m]

MailSlot(t) == t % WH_CAP
EventSlot(t, pid) == (t * EVENT_STRIDE + (pid % EVENT_STRIDE)) % WH_CAP

Byte(e) == IF e > 255 THEN 255 ELSE e
Gates(space) == {g \in space : g < TILE_COUNT}
-----------------------------------------------------------------------------
Init == /\ procs = <<>>
        /\ tick = 0
        /\ open = {}
        /\ bh = [p \in Pids |-> 0]
        /\ ring = [k \in 0 .. WH_CAP - 1 |-> Event]
        /\ got = NoMessage

CursorAhead == tick + 1    \* mutant: one tick too far
CursorAtSpawn == tick

EnergyMax(energy, max) == IF max = 0 THEN energy ELSE max

Spawn(space, energy, max) ==
  /\ Len(procs) < PROC_MAX
  /\ LET pid == Len(procs) + 1
     IN /\ procs' = Append(procs, [state |-> "RUNNING", space |-> space, energy |-> energy,
                                   energy_max |-> EnergyMax(energy, max),
                                   ipc_cursor |-> CursorAtSpawn])
        /\ bh' = [bh EXCEPT ![pid] = Byte(energy)]
        /\ ring' = [ring EXCEPT ![EventSlot(tick, pid)] = Event]
  /\ open' = open \cup Gates(space)
  /\ UNCHANGED <<tick, got>>

(* sched_tick: a running process pays a unit of energy, and sleeps when it *)
(* has none left.                                                          *)
ExhaustedBelow(p) == p.state = "RUNNING" /\ p.energy = 1    \* mutant: spawned with none
Exhausted(p) == p.state = "RUNNING" /\ p.energy <= 1

Charged(p) == IF p.state # "RUNNING" THEN p
              ELSE [p EXCEPT !.energy = IF @ > 0 THEN @ - 1 ELSE 0,
                             !.state = IF Exhausted(p) THEN "SLEEPING" ELSE @]

Tick ==
  /\ tick < MAX_TICK
  /\ tick' = tick + 1
  /\ procs' = [i \in Known |-> Charged(procs[i])]
  /\ LET slept == {i \in Known : Exhausted(procs[i])}
     IN /\ open' = open \ UNION {Gates(procs[i].space) : i \in slept}
        /\ ring' = [k \in DOMAIN ring |->
                      IF \E i \in slept : EventSlot(tick + 1, i) = k THEN Event ELSE ring[k]]
  /\ UNCHANGED <<bh, got>>

(* sched_recharge: the sum is a uint32_t, and is capped after the BH cell  *)
(* was set to it.                                                          *)
ShownBefore(p, sum) == Byte(p.energy)    \* mutant: the energy before the recharge
Shown(p, sum) == Byte(sum)

WakesAny(p) == p.state # "RUNNING"    \* mutant: wakes the dead
Wakes(p) == p.state = "SLEEPING"

Recharge(pid, amount) ==
  /\ pid \in Known
  /\ LET p == procs[pid]
         sum == (p.energy + amount) % U32
         energy == IF sum > p.energy_max THEN p.energy_max ELSE sum
         wakes == Wakes(p) /\ energy > 0
     IN /\ procs' = [procs EXCEPT ![pid].energy = energy,
                                  ![pid].state = IF wakes THEN "RUNNING" ELSE @]
        /\ bh' = [bh EXCEPT ![pid] = Shown(p, sum)]
        /\ open' = IF wakes THEN open \cup Gates(p.space) ELSE open
        /\ ring' = IF wakes THEN [ring EXCEPT ![EventSlot(tick, pid)] = Event] ELSE ring
  /\ UNCHANGED <<tick, got>>

KillKeepsGates(space) == open    \* mutant: the gates are left open
KillCloses(space) == open \ Gates(space)

Kill(pid) ==
  /\ pid \in Known
  /\ procs' = [procs EXCEPT ![pid].state = "ZOMBIE", ![pid].energy = 0]
  /\ open' = KillCloses(procs[pid].space)
  /\ UNCHANGED <<tick, bh, ring, got>>
-----------------------------------------------------------------------------
(* sched_ipc_send writes the record of the current tick; it does not look  *)
(* for the process.                                                        *)
Send(dst, m) ==
  /\ ring' = [ring EXCEPT ![MailSlot(tick)] = Mail(dst, m)]
  /\ UNCHANGED <<procs, tick, open, bh, got>>

(* The ticks in which sched_ipc_recv finds a message for a process. *)
Inbox(pid) == {t \in procs[pid].ipc_cursor + 1 .. tick :
                 /\ ring[MailSlot(t)].op = "IPC"
                 /\ ring[MailSlot(t)].dst = pid}

CursorKept(pid, t) == procs[pid].ipc_cursor    \* mutant: the cursor stays behind
CursorAfter(pid, t) == t

RecvSome(pid) ==
  /\ pid \in Known
  /\ \E t \in Inbox(pid) :
       /\ \A u \in Inbox(pid) : t <= u
       /\ got' = ring[MailSlot(t)].message
       /\ procs' = [procs EXCEPT ![pid].ipc_cursor = CursorAfter(pid, t)]
  /\ UNCHANGED <<tick, open, bh, ring>>

RecvNone(pid) ==
  /\ pid \in Known /\ Inbox(pid) = {}
  /\ got' = NoMessage
  /\ UNCHANGED <<procs, tick, open, bh, ring>>

Next == \/ \E space \in Spaces, energy \in Energies, max \in Energies : Spawn(space, energy, max)
        \/ Tick
        \/ \E pid \in Pids :
             \/ \E amount \in Amounts : Recharge(pid, amount)
             \/ Kill(pid)
             \/ \E m \in Messages : Send(pid, m)
             \/ RecvSome(pid)
             \/ RecvNone(pid)

Spec == Init /\ [][Next]_vars
-----------------------------------------------------------------------------
(* The table, the energies and the ring stay in their types, and no cursor *)
(* is ahead of the tick.                                                   *)
TypeOK ==
  /\ Len(procs) <= PROC_MAX
  /\ \A i \in Known : procs[i] \in [state : {"RUNNING", "SLEEPING", "ZOMBIE"}, space : Spaces,
                                    energy : 0 .. U32 - 1, energy_max : 0 .. U32 - 1,
                                    ipc_cursor : 0 .. tick]
  /\ tick \in 0 .. MAX_TICK
  /\ open \subseteq 0 .. TILE_COUNT - 1
  /\ bh \in [Pids -> 0 .. 255]
  /\ \A k \in 0 .. WH_CAP - 1 :
       \/ ring[k] = Event
       \/ ring[k] \in [op : {"IPC"}, dst : Pids, message : Messages]
  /\ got \in Messages \cup {NoMessage}

(* A process that shares no gate with another has its gates open exactly   *)
(* while it runs, whatever the order of ticks, recharges and kills; and    *)
(* what the BH region shows of its energy drifts one way only, never below *)
(* what it has (scheduler.c:112).                                          *)
Private(i) == \A j \in Known \ {i} : Gates(procs[j].space) \cap Gates(procs[i].space) = {}

GatesFollowState ==
  \A i \in Known :
    /\ bh[i] >= Byte(procs[i].energy)
    /\ Private(i) => IF procs[i].state = "RUNNING" THEN Gates(procs[i].space) \subseteq open
                                                   ELSE Gates(procs[i].space) \cap open = {}

(* After a tick no process runs without energy: one spawned or recharged   *)
(* to nothing, or whose recharge wrapped around, runs for one tick at most.*)
(* And a killed one is never run again, whatever energy it is given.       *)
TickSettles ==
  [][\A i \in Known : /\ tick' # tick /\ procs'[i].state = "RUNNING" => procs'[i].energy > 0
                      /\ procs[i].state = "ZOMBIE" => procs'[i].state = "ZOMBIE"]_vars

(* While the ring has not come around, the messages that are received are  *)
(* received in the order they were sent, once, and by their addressee, and *)
(* a receive fails only when none is left: records of other events in the  *)
(* ring and records of earlier senders may destroy messages, never forge,  *)
(* repeat or redirect them.                                                *)
InboxOf(pid) == IF pid \in Known THEN Inbox(pid) ELSE {}
Letters(pid) == LET ticks == SetToSortSeq(InboxOf(pid), <)
                IN [n \in 1 .. Len(ticks) |-> ring[MailSlot(ticks[n])].message]

Box == INSTANCE Mailbox WITH mail <- [p \in Pids |-> Letters(p)]
MailSpec == Box!Spec
=============================================================================
