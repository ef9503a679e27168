-------------------------------- MODULE Lanes --------------------------------
(***************************************************************************)
(* A tick over all lanes (src/engine/src/lane_exec.c): every active lane   *)
(* executes its cells into deltas of its own and injects the input events  *)
(* of the tick (inject.c, wh_io.c), then the deltas are merged (module     *)
(* Merge), a stretch without events may be summarised                      *)
(* (canvas_bh_compress.c) and the tick advances (engine_ctx.c).  Between   *)
(* ticks adapters push events and programs write cells.                    *)
(*                                                                         *)
(* Cells are numbered in the order of the scan.  The content of a cell is  *)
(* its lane (A), its energy G and the kind of its opcode (BR); a rule and  *)
(* an IO mapping do nothing.  The tiles of the WhiteHole and the BlackHole *)
(* are never opened here: the ring and the energies are not cells.         *)
(***************************************************************************)
EXTENDS Integers, Sequences, FiniteSets, SequencesExt, FiniteSetsExt

CONSTANTS LANES,           \* lanes (256)
          LANE_DELTA_MAX,  \* deltas of a lane in one tick (1024)
          U8,              \* values of a byte (256)
          TileOf,          \* the tile of each cell, in the order of the scan
          TILE_COUNT,      \* tiles (4096)
          SAMPLING,        \* every how many gates bh_analyze_window is called (16)
          WH_CAP,          \* records of the ring (32768)
          INJECT_WINDOW,   \* ticks inject_collect looks back (64)
          BH_PERIOD,       \* ticks between two summaries (64)
          BH_IDLE_MIN,     \* idle ticks worth a summary (16)
          CHARGE,          \* energy for a file completion (64)
          MAX_TICK,        \* bound of the model
          Loads,           \* bound of the model: the contents programs write
          Pushes           \* bound of the model: what adapters push

ASSUME LanesAssumption == /\ LANES \in Nat /\ LANES <= U8
                          /\ TileOf \in Seq(0 .. TILE_COUNT - 1)
                          /\ INJECT_WINDOW < WH_CAP /\ BH_PERIOD < WH_CAP

VARIABLES tick,     \* of the engine
          at,       \* where lane_exec_full_tick is: idle, a lane, or merge
          cells, active_open,
          lanes,    \* the lanes with LANE_F_ACTIVE
          deltas,   \* s_deltas, the tick and the deltas of each lane
          ring,     \* the records of the WhiteHole
          energy,   \* the BH cell of each lane
          pushed    \* history: for each slot the last event pushed to it, and when

vars == <<tick, at, cells, active_open, lanes, deltas, ring, energy, pushed>>

LaneIds == 0 .. LANES - 1
Tiles == 0 .. TILE_COUNT - 1
Canvas == DOMAIN TileOf
Kinds == {"nop", "op", "rule", "iomap"}
Idle == -1
AtMerge == LANES

M == INSTANCE Merge WITH MERGE_MAX_DELTAS <- LANE_DELTA_MAX

SlotOf(t) == t % WH_CAP
Record(op, t, lane, dev, target) == [op |-> op, tick |-> t, lane |-> lane, dev |-> dev, target |-> target]
NoRecord == Record("NOP", 0, 0, "none", 0)
Heartbeat(t) == Record("TICK", t, 0, "none", 0)
IoEvent(t, lane, dev, len) == Record("IO_EVENT", t, lane, dev, len)    \* page 0: the target is len
Summary(from, to) == Record("BH_SUMMARY", from, 0, "none", to)
NothingPushed == [event |-> NoRecord, when |-> -1]
-----------------------------------------------------------------------------
Init == /\ tick = 0
        /\ at = Idle
        /\ cells \in [Canvas -> Loads]
        /\ active_open = {}
        /\ lanes = {}
        /\ deltas = [l \in LaneIds |-> [tick |-> 0, ds |-> <<>>]]
        /\ ring = [s \in 0 .. WH_CAP - 1 |-> NoRecord]
        /\ energy = [l \in LaneIds |-> 0]
        /\ pushed = [s \in 0 .. WH_CAP - 1 |-> NothingPushed]

(* wh_push_io_event writes at the slot of the tick the event is for. *)
Push(t, lane, dev, len) ==
  LET event == IoEvent(t, lane, dev, len)
  IN /\ at = Idle
     /\ ring' = [ring EXCEPT ![SlotOf(t)] = event]
     /\ pushed' = [pushed EXCEPT ![SlotOf(t)] = [event |-> event, when |-> tick]]
     /\ UNCHANGED <<tick, at, cells, active_open, lanes, deltas, energy>>

(* lane_activate, lane_deactivate *)
SetLane(l) == /\ at = Idle
              /\ lanes' \in {lanes \cup {l}, lanes \ {l}}
              /\ UNCHANGED <<tick, at, cells, active_open, deltas, ring, energy, pushed>>

(* A program writes a cell. *)
Load(c, content) == /\ at = Idle
                    /\ cells' = [cells EXCEPT ![c] = content]
                    /\ UNCHANGED <<tick, at, active_open, lanes, deltas, ring, energy, pushed>>

(* exec_cell_lane for an opcode: energy falls, and without it the opcode   *)
(* is taken away.                                                          *)
Decayed(content) ==
  LET g == IF content.G > 0 THEN content.G - 1 ELSE 0
  IN [content EXCEPT !.G = g, !.BR = IF g = 0 THEN "nop" ELSE @]

Runs(l, c) == cells[c].A = l /\ TileOf[c] \in active_open /\ cells[c].BR = "op"
DeltaOf(c, after) == M!Delta(tick, c, cells[c], after, {})
FirstOfAll(s, n) == s    \* mutant: the buffer is not limited
FirstOf(s, n) == SubSeq(s, 1, IF Len(s) < n THEN Len(s) ELSE n)

LaneDeltas(l) ==
  LET running == SelectSeq([c \in Canvas |-> c], LAMBDA c : Runs(l, c))
  IN FirstOf([i \in DOMAIN running |-> DeltaOf(running[i], Decayed(cells[running[i]]))], LANE_DELTA_MAX)

(* inject_collect: the slots with events for tick t.  Their order is of no *)
(* consequence, opening gates and charging lanes commute.                  *)
Collected(t) ==
  LET from == Max({0, t - INJECT_WINDOW, tick - WH_CAP})
  IN {s \in {SlotOf(u) : u \in from .. t} : ring[s].op = "IO_EVENT" /\ ring[s].tick = t}

(* inject_hook_gate_open, inject_hook_fs_done *)
Opened(slots) == {ring[s].target : s \in {u \in slots : ring[u].dev = "keydown"}} \cap Tiles
Charged(slots) == [l \in LaneIds |->
  M!Clamp(energy[l] + CHARGE * Cardinality({s \in slots : ring[s].dev = "fs_done" /\ ring[s].lane = l}))]

LaneAfter(l) == Min({k \in lanes : k > l} \cup {AtMerge})    \* mutant: a lane is skipped
NextLane(l) == Min({k \in lanes : k >= l} \cup {AtMerge})

(* engctx_tick, alone: its heartbeat takes the slot of the new tick        *)
(* whatever is there.                                                      *)
EngineTick == /\ at = Idle
              /\ tick < MAX_TICK
              /\ tick' = tick + 1
              /\ ring' = [ring EXCEPT ![SlotOf(tick')] = Heartbeat(tick')]
              /\ UNCHANGED <<at, cells, active_open, lanes, deltas, energy, pushed>>

FullTick == /\ at = Idle
            /\ tick < MAX_TICK
            /\ at' = NextLane(0)
            /\ UNCHANGED <<tick, cells, active_open, lanes, deltas, ring, energy, pushed>>

(* lane_exec_tick *)
LaneExecTick == /\ at \in LaneIds
                /\ deltas' = [deltas EXCEPT ![at] = [tick |-> tick, ds |-> LaneDeltas(at)]]
                /\ active_open' = active_open \cup Opened(Collected(tick))
                /\ energy' = Charged(Collected(tick))
                /\ at' = NextLane(at + 1)
                /\ UNCHANGED <<tick, cells, lanes, ring, pushed>>

(* merge_tick, lane by lane: the canvases it may leave. *)
Due(l) == deltas[l].tick = tick
Merged == FoldLeft(LAMBDA canvases, l : UNION {M!MergeRun("LAST_WINS", deltas[l].ds, f) : f \in canvases},
                   {cells}, SelectSeq([i \in 1 .. LANES |-> i - 1], Due))

(* _detect_idle counts the ticks since the last event of the gate; a       *)
(* summary takes the slot of the tick.                                     *)
Relevant(t, gate) == LET r == ring[SlotOf(t)] IN r.target = gate /\ r.op \notin {"NOP", "TICK"}
IdleRun(from, to, gate) == to - Max({from} \cup {t + 1 : t \in {u \in from .. to - 1 : Relevant(u, gate)}})
Summarised ==
  LET from == Max({0, tick - BH_PERIOD})
      idle == {g \in Tiles : g % SAMPLING = 0 /\ from < tick /\ IdleRun(from, tick, g) >= BH_IDLE_MIN}
  IN IF tick % BH_PERIOD = 0 /\ idle # {} THEN [ring EXCEPT ![SlotOf(tick)] = Summary(from, tick)] ELSE ring

(* merge_tick, and engctx_tick after it. *)
MergeTick == /\ at = AtMerge
             /\ cells' \in Merged
             /\ deltas' = [l \in LaneIds |-> IF Due(l) THEN [deltas[l] EXCEPT !.ds = <<>>] ELSE deltas[l]]
             /\ tick' = tick + 1
             /\ ring' = [Summarised EXCEPT ![SlotOf(tick')] = Heartbeat(tick')]
             /\ at' = Idle
             /\ UNCHANGED <<active_open, lanes, energy, pushed>>

(* gpu_scan_active_set and gpu_merge_delta_tiles, on the processor: every  *)
(* cell with energy of the open tiles that are asked for loses some,       *)
(* whatever its lane and its opcode.                                       *)
GpuDeltas(tiles) ==
  LET scanned == SelectSeq([c \in Canvas |-> c],
                           LAMBDA c : TileOf[c] \in tiles \cap active_open /\ cells[c].G > 0)
  IN FirstOf([i \in DOMAIN scanned |-> DeltaOf(scanned[i], [cells[scanned[i]] EXCEPT !.G = @ - 1])], LANE_DELTA_MAX)
GpuTick(tiles) == /\ at = Idle
                  /\ cells' \in M!MergeRun("LAST_WINS", GpuDeltas(tiles), cells)
                  /\ UNCHANGED <<tick, at, active_open, lanes, deltas, ring, energy, pushed>>

Next == \/ \E p \in Pushes : Push(tick + p.ahead, p.lane, p.dev, p.len)
        \/ \E l \in LaneIds : SetLane(l)
        \/ \E c \in Canvas, content \in Loads : Load(c, content)
        \/ EngineTick
        \/ FullTick
        \/ LaneExecTick
        \/ MergeTick
        \/ \E tiles \in SUBSET Tiles : GpuTick(tiles)

Spec == Init /\ [][Next]_vars
-----------------------------------------------------------------------------
(* The contents, buffers and records keep their type. *)
TypeOK == /\ tick \in 0 .. MAX_TICK
          /\ at \in LaneIds \cup {Idle, AtMerge}
          /\ cells \in [Canvas -> [A : LaneIds, G : 0 .. U8 - 1, BR : Kinds]]
          /\ active_open \subseteq Tiles
          /\ lanes \subseteq LaneIds
          /\ \A l \in LaneIds : /\ deltas[l].tick <= tick
                                /\ Len(deltas[l].ds) <= LANE_DELTA_MAX
                                /\ (at = Idle) => deltas[l].ds = <<>>
          /\ energy \in [LaneIds -> 0 .. U8 - 1]

(* A full tick is one step of every cell: a cell decays once, and only if  *)
(* it is an opcode of an active lane in an open tile; if such a cell does  *)
(* not, its tile was opened in this very tick after its lane was scanned,  *)
(* or the lane had as many deltas as its buffer holds from earlier cells.  *)
OpenedNow(t) == t \in Opened(Collected(tick))
Crowded(c) == Cardinality({d \in Canvas : d < c /\ cells[d].A = cells[c].A /\ cells'[d] # cells[d]}) >= LANE_DELTA_MAX
OneStep == [][at = AtMerge => \A c \in Canvas :
                LET may == cells[c].A \in lanes /\ Runs(cells[c].A, c)
                IN \/ may /\ cells'[c] = Decayed(cells[c])
                   \/ /\ cells'[c] = cells[c]
                      /\ \/ ~may
                         \/ Crowded(c)
                         \/ OpenedNow(TileOf[c]) /\ cells[c].A = Min(lanes)]_vars

(* Each active lane injects the last event that was pushed for the tick    *)
(* during the tick, once for every lane, and nothing else: what was pushed *)
(* for a later tick is lost to the heartbeat of that tick, and what is     *)
(* left of an earlier turn of the ring is not taken for it.                *)
Current == LET p == pushed[SlotOf(tick)]
           IN IF p.when = tick /\ p.event.tick = tick THEN p.event ELSE NoRecord
OpensCurrent == IF Current.dev = "keydown" THEN {Current.target} \cap Tiles ELSE {}
ChargesCurrent(l) == IF Current.dev = "fs_done" /\ Current.lane = l THEN CHARGE ELSE 0
InjectsCurrent == /\ active_open' = active_open \cup OpensCurrent
                  /\ energy' = [l \in LaneIds |-> M!Clamp(energy[l] + ChargesCurrent(l))]
=============================================================================
