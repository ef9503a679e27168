------------------------------ MODULE Workers ------------------------------
(***************************************************************************)
(* The lane worker pool of CanvasOS (src/engine/src/workers.c): one main   *)
(* thread and the workers meet twice a tick, at a start and at an end      *)
(* barrier built from a mutex and a condition variable, and the main       *)
(* thread merges the workers' counters and advances the engine tick        *)
(* between the end of one tick and the start of the next.                  *)
(*                                                                         *)
(* A step of a thread is what it does between two of its accesses to       *)
(* shared state; a call of sjbarrier_wait is the step that enters the      *)
(* barrier (Enter), under its mutex, and the step in which the thread sees *)
(* that the phase moved on (Leave).  lane_tick writes no cell, so that a   *)
(* lane is abstracted to whether it is active, with one executable cell.   *)
(* No code fills delta_buf: the merge has no delta to apply.               *)
(***************************************************************************)
EXTENDS Integers, FiniteSets

CONSTANTS WORKERS_MAX,   \* workers of a pool at most (16)
          LANE_ID_MAX,   \* lanes (256)
          U8,            \* values of the uint8_t lane_start and lane_end (256)
          PHASES,        \* values of a barrier's unsigned phase (2^32)
          ActiveLanes,   \* lanes whose flags have LANE_F_ACTIVE
          CREATE_FAILS,  \* whether pthread_create may fail
          MAX_TICKS      \* bound of the model: ticks of the engine

ASSUME PoolAssumption == /\ WORKERS_MAX \in Nat \ {0}
                         /\ LANE_ID_MAX \in Nat \ {0}
                         /\ U8 \in Nat \ {0}
                         /\ PHASES \in Nat \ {0, 1}
                         /\ ActiveLanes \subseteq 0 .. LANE_ID_MAX - 1
                         /\ CREATE_FAILS \in BOOLEAN
                         /\ MAX_TICKS \in Nat

Workers == 0 .. WORKERS_MAX - 1
Main == WORKERS_MAX
Threads == Workers \cup {Main}
Barriers == {"start", "end"}
NoPhase == -1

VARIABLES thread_count, running,
          barrier,               \* waiting and phase of barrier_start and barrier_end
          count,                 \* count of both barriers
          at,                    \* where each thread is
          seen,                  \* the phase a thread inside a barrier waits to end
          call,                  \* the call the main thread is or was last in
          next,                  \* index of the main thread's loop over the workers
          lid,                   \* loop variable of each worker
          cells_executed, ticks_run,
          total_cells, total_ticks,
          tick                   \* of the engine

workerVars == <<lid, cells_executed, ticks_run>>
totalVars == <<total_cells, total_ticks, tick>>
syncVars == <<barrier, count, seen>>
vars == <<thread_count, running, syncVars, at, call, next, workerVars, totalVars>>

-----------------------------------------------------------------------------
(* assign_lane_ranges: the lanes are dealt out in order, the remainder to  *)
(* the first workers; both ends are stored in a uint8_t.                   *)
Least(a, b) == IF a < b THEN a ELSE b
LanesBefore(w) == w * (LANE_ID_MAX \div thread_count) + Least(w, LANE_ID_MAX % thread_count)
LaneStart(w) == LanesBefore(w) % U8
LaneEnd(w) == LanesBefore(w + 1) % U8

(* Where a thread's barrier call is, and where it goes from there. *)
BarrierAt == [start |-> "start", end |-> "end", last |-> "end"]

AfterMain == IF at[Main] = "start" THEN "end"
             ELSE CASE call = "tick" -> "merge"
                    [] call = "destroy" -> "join"
                    [] call = "init" -> "out"
AfterWorker(w) == CASE at[w] = "start" -> "check"
                    [] at[w] = "end" -> "start"
                    [] at[w] = "last" -> "done"
After(p) == IF p = Main THEN AfterMain ELSE AfterWorker(p)

(* The state of a barrier after one more thread entered it. *)
Fresh == [waiting |-> 0, phase |-> 0]
FullEarly(b) == b.waiting + 1 >= count - 1    \* mutant: opens one thread too early
Full(b) == b.waiting + 1 = count
EnteredKeeps(b) == IF Full(b) THEN [b EXCEPT !.phase = (@ + 1) % PHASES]    \* mutant: no reset
                              ELSE [b EXCEPT !.waiting = @ + 1]
Entered(b) == IF Full(b) THEN [waiting |-> 0, phase |-> (b.phase + 1) % PHASES]
                         ELSE [b EXCEPT !.waiting = @ + 1]

PartiesWorkers(tc) == tc    \* mutant: main takes no part
Parties(tc) == tc + 1

StoppedGoes == "done"    \* mutant: a stopped worker skips the end barrier
Stopped == "last"

FirstCount(w) == cells_executed[w]    \* mutant: the counter is never reset
CountFrom(w) == 0
-----------------------------------------------------------------------------
Init == /\ thread_count = 0
        /\ running = FALSE
        /\ barrier = [b \in Barriers |-> Fresh]
        /\ count = 0
        /\ at = [p \in Threads |-> IF p = Main THEN "out" ELSE "off"]
        /\ seen = [p \in Threads |-> NoPhase]
        /\ call = "none"
        /\ next = 0
        /\ lid = [w \in Workers |-> 0]
        /\ cells_executed = [w \in Workers |-> 0]
        /\ ticks_run = [w \in Workers |-> 0]
        /\ total_cells = 0
        /\ total_ticks = 0
        /\ tick = 0

Goes(p, where) == at' = [at EXCEPT ![p] = where]

(* sjbarrier_step_wait up to the wait: the last one in opens the barrier. *)
Enter(p) ==
  /\ at[p] \in DOMAIN BarrierAt /\ seen[p] = NoPhase
  /\ LET b == BarrierAt[at[p]]
     IN /\ barrier' = [barrier EXCEPT ![b] = Entered(@)]
        /\ IF Full(barrier[b])
           THEN Goes(p, After(p)) /\ UNCHANGED seen
           ELSE seen' = [seen EXCEPT ![p] = barrier[b].phase] /\ UNCHANGED at
  /\ UNCHANGED <<thread_count, running, count, call, next, workerVars, totalVars>>

(* The wait ends: the thread was woken and the phase is a later one. *)
Leave(p) ==
  /\ seen[p] # NoPhase
  /\ seen[p] # barrier[BarrierAt[at[p]]].phase
  /\ seen' = [seen EXCEPT ![p] = NoPhase]
  /\ Goes(p, After(p))
  /\ UNCHANGED <<thread_count, running, barrier, count, call, next, workerVars, totalVars>>

(* worker_thread after the start barrier. *)
Check(w) ==
  /\ at[w] = "check"
  /\ IF running
     THEN /\ Goes(w, "lanes")
          /\ cells_executed' = [cells_executed EXCEPT ![w] = CountFrom(w)]
          /\ lid' = [lid EXCEPT ![w] = LaneStart(w)]
     ELSE Goes(w, Stopped) /\ UNCHANGED <<cells_executed, lid>>
  /\ UNCHANGED <<thread_count, running, syncVars, call, next, ticks_run, totalVars>>

RunLane(w) ==
  /\ at[w] = "lanes" /\ lid[w] < LaneEnd(w)
  /\ cells_executed' = [cells_executed EXCEPT ![w] = @ + IF lid[w] \in ActiveLanes THEN 1 ELSE 0]
  /\ lid' = [lid EXCEPT ![w] = @ + 1]
  /\ UNCHANGED <<thread_count, running, syncVars, at, call, next, ticks_run, totalVars>>

LanesDone(w) ==
  /\ at[w] = "lanes" /\ lid[w] >= LaneEnd(w)
  /\ ticks_run' = [ticks_run EXCEPT ![w] = @ + 1]
  /\ Goes(w, "end")
  /\ UNCHANGED <<thread_count, running, syncVars, call, next, lid, cells_executed, totalVars>>

-----------------------------------------------------------------------------
(* workers_init, on a pool that is not in use; the clamps leave tc. *)
WorkersInit(tc) ==
  /\ at[Main] = "out" /\ thread_count = 0 /\ \A w \in Workers : at[w] = "off"
  /\ thread_count' = tc
  /\ running' = TRUE
  /\ count' = Parties(tc)
  /\ barrier' = [b \in Barriers |-> Fresh]
  /\ call' = "init"
  /\ Goes(Main, "create")
  /\ UNCHANGED <<seen, next, workerVars, totalVars>>

CreateThread ==
  /\ at[Main] = "create" /\ next < thread_count
  /\ Goes(next, "start")
  /\ next' = next + 1
  /\ UNCHANGED <<thread_count, running, syncVars, call, workerVars, totalVars>>

(* pthread_create fails: the main thread takes its place at the barriers. *)
CreateFails ==
  /\ CREATE_FAILS
  /\ at[Main] = "create" /\ next < thread_count
  /\ running' = FALSE
  /\ thread_count' = next
  /\ Goes(Main, "start")
  /\ UNCHANGED <<syncVars, call, next, workerVars, totalVars>>

InitDone ==
  /\ at[Main] = "create" /\ next = thread_count
  /\ next' = 0
  /\ Goes(Main, "out")
  /\ UNCHANGED <<thread_count, running, syncVars, call, workerVars, totalVars>>

(* workers_run_tick; on a pool that is not running it returns at once. *)
RunTick ==
  /\ at[Main] = "out" /\ running
  /\ tick < MAX_TICKS
  /\ call' = "tick"
  /\ Goes(Main, "start")
  /\ UNCHANGED <<thread_count, running, syncVars, next, workerVars, totalVars>>

Merge ==
  /\ at[Main] = "merge" /\ next < thread_count
  /\ total_cells' = total_cells + cells_executed[next]
  /\ next' = next + 1
  /\ UNCHANGED <<thread_count, running, syncVars, at, call, workerVars, total_ticks, tick>>

TickDone ==
  /\ at[Main] = "merge" /\ next = thread_count
  /\ tick' = tick + 1
  /\ total_ticks' = total_ticks + 1
  /\ next' = 0
  /\ Goes(Main, "out")
  /\ UNCHANGED <<thread_count, running, syncVars, call, workerVars, total_cells>>

(* workers_destroy of a pool that workers_init returned. *)
Destroy ==
  /\ at[Main] = "out" /\ running
  /\ running' = FALSE
  /\ call' = "destroy"
  /\ Goes(Main, "start")
  /\ UNCHANGED <<thread_count, syncVars, next, workerVars, totalVars>>

Join ==
  /\ at[Main] = "join" /\ next < thread_count
  /\ at[next] = "done"
  /\ Goes(next, "off")
  /\ next' = next + 1
  /\ UNCHANGED <<thread_count, running, syncVars, call, workerVars, totalVars>>

DestroyDone ==
  /\ at[Main] = "join" /\ next = thread_count
  /\ thread_count' = 0 /\ count' = 0 /\ next' = 0
  /\ barrier' = [b \in Barriers |-> Fresh]
  /\ lid' = [w \in Workers |-> 0]
  /\ cells_executed' = [w \in Workers |-> 0]
  /\ ticks_run' = [w \in Workers |-> 0]
  /\ total_cells' = 0 /\ total_ticks' = 0
  /\ Goes(Main, "out")
  /\ UNCHANGED <<running, seen, call, tick>>

WorkerStep(w) == Enter(w) \/ Leave(w) \/ Check(w) \/ RunLane(w) \/ LanesDone(w)

(* The main thread inside a call. *)
MainStep == \/ Enter(Main) \/ Leave(Main)
            \/ CreateThread \/ CreateFails \/ InitDone
            \/ Merge \/ TickDone
            \/ Join \/ DestroyDone

Next == \/ \E w \in Workers : WorkerStep(w)
        \/ MainStep
        \/ \E tc \in 1 .. WORKERS_MAX : WorkersInit(tc)
        \/ RunTick
        \/ Destroy

Spec == Init /\ [][Next]_vars

(* The operating system schedules every thread; nobody has to call. *)
Fairness == WF_vars(MainStep) /\ \A w \in Workers : WF_vars(WorkerStep(w))
FairSpec == Spec /\ Fairness
-----------------------------------------------------------------------------
(* The threads, counters and lane ranges stay in their types. *)
TypeOK ==
  /\ thread_count \in 0 .. WORKERS_MAX
  /\ running \in BOOLEAN
  /\ barrier \in [Barriers -> [waiting : 0 .. WORKERS_MAX, phase : 0 .. PHASES - 1]]
  /\ count \in 0 .. WORKERS_MAX + 1
  /\ at \in [Threads -> {"off", "out", "create", "start", "check", "lanes", "end", "last",
                         "done", "merge", "join"}]
  /\ seen \in [Threads -> {NoPhase} \cup 0 .. PHASES - 1]
  /\ call \in {"none", "init", "tick", "destroy"}
  /\ next \in 0 .. WORKERS_MAX
  /\ lid \in [Workers -> 0 .. LANE_ID_MAX]
  /\ cells_executed \in [Workers -> 0 .. LANE_ID_MAX]
  /\ ticks_run \in [Workers -> 0 .. MAX_TICKS]
  /\ tick \in 0 .. MAX_TICKS
  /\ total_ticks \in 0 .. tick
  /\ total_cells \in 0 .. MAX_TICKS * LANE_ID_MAX

(* A barrier counts the threads that wait for its present phase and never  *)
(* one more: with a phase that wraps after PHASES crossings, no thread     *)
(* still inside an earlier crossing is taken for one of the present, and   *)
(* none is left behind when the barrier is used again.  So between two     *)
(* calls every worker has run exactly the ticks of the pool, none ahead    *)
(* into a tick that nobody started, none behind; and total_cells counts    *)
(* each lane of some worker's range once for each tick: no counter is read *)
(* before it is complete or after its reset for the next tick, and no lane *)
(* is run by two workers (workers.c:16).  [W-2] of canvasos_workers.h:     *)
(* counters are merged and the engine's tick moves only at the boundary,   *)
(* when no worker is between the barriers.                                 *)
Covered == {l \in ActiveLanes : \E w \in 0 .. thread_count - 1 : l \in LaneStart(w) .. LaneEnd(w) - 1}
InStep ==
  /\ \A b \in Barriers :
       LET inside == {p \in Threads : seen[p] # NoPhase /\ BarrierAt[at[p]] = b}
       IN barrier[b].waiting = Cardinality({p \in inside : seen[p] = barrier[b].phase})
  /\ at[Main] = "out" /\ running =>
       /\ \A w \in 0 .. thread_count - 1 : ticks_run[w] = total_ticks
       /\ total_cells = total_ticks * Cardinality(Covered)
LockStep ==
  [][ /\ InStep'
      /\ total_cells' # total_cells \/ tick' # tick
           => \A w \in Workers : at[w] \notin {"check", "lanes"} ]_vars

(* Every call of the pool's owner returns: no interleaving of the threads  *)
(* leaves one of them waiting at a barrier for good, unless a thread could *)
(* not be created: the barriers then wait for threads that never come      *)
(* (workers.c:158).                                                        *)
InitFailed == call = "init" /\ ~running
CallsReturn == at[Main] # "out" ~> at[Main] = "out" \/ InitFailed
=============================================================================
