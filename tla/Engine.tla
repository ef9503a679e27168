------------------------------- MODULE Engine -------------------------------
(***************************************************************************)
(* The core engine (src/engine.c, src/active_set.c, src/scan_ringmh.c): a  *)
(* frame goes over the canvas once, in rings around the origin while few   *)
(* tiles are open and row by row when many are, and executes the cells     *)
(* whose tile is open when it comes to them.  A cell can open and close    *)
(* tiles, and stop the frame.                                              *)
(***************************************************************************)
EXTENDS Integers, Sequences, FiniteSets, SequencesExt

CONSTANTS SIDE, TILE,         \* of the canvas and of a tile (1024, 16); the origin is in the middle
          RING_BELOW, SPIRAL_FROM,    \* numbers of open tiles that change the order (82, 1229)
          ENERGY_MAX, DECAY,  \* of a cell's energy (255, 1)
          Programs,           \* [op, arg] that are planted, with the energy START
          START,
          MaxChanges          \* bound of the check: cells planted and tiles opened by a caller

ORIGIN == SIDE \div 2
PER_ROW == SIDE \div TILE
ActiveTiles == 0..PER_ROW * PER_ROW - 1
Points == (0..SIDE - 1) \X (0..SIDE - 1)
TileOf(p) == (p[2] \div TILE) * PER_ROW + p[1] \div TILE
ASSUME EngineAssumption ==
  /\ SIDE \in Nat \ {0} /\ TILE \in Nat \ {0} /\ SIDE % 2 = 0 /\ SIDE % TILE = 0
  /\ RING_BELOW \in Nat /\ SPIRAL_FROM \in Nat /\ RING_BELOW <= SPIRAL_FROM

VARIABLES program,    \* of a point: op, arg and energy G
          active,     \* tiles that are open
          openCount, scanMode,
          frame,      \* the order, how far it is, the points that ran, whether it halted
          shut,       \* tiles that were closed at some time of the frame
          changes     \* for the bound

engineVars == <<program, active, openCount, scanMode, frame, shut, changes>>

ModeOf(count) == IF count < RING_BELOW THEN "RING_MH" ELSE IF count < SPIRAL_FROM THEN "HYBRID" ELSE "SPIRAL"

Ring(d) ==
  IF d = 0 THEN <<<<0, 0>>>>
  ELSE [i \in 1..4 * d |->
     LET t == (i - 1) % d IN
     CASE (i - 1) \div d = 0 -> <<t, d - t>>
       [] (i - 1) \div d = 1 -> <<d - t, -t>>
       [] (i - 1) \div d = 2 -> <<-t, -(d - t)>>
       [] OTHER -> <<-(d - t), t>>]
At0(o) == <<ORIGIN + o[1], ORIGIN + o[2]>>
RingOrder ==
  LET offsets == FlattenSeq([i \in 1..2 * ORIGIN + 1 |-> Ring(i - 1)])
  IN SelectSeq([i \in 1..Len(offsets) |-> At0(offsets[i])], LAMBDA p : p \in Points)
SpiralOrder == [i \in 1..SIDE * SIDE |-> <<(i - 1) % SIDE, (i - 1) \div SIDE>>]
Orders == [mode \in {"RING_MH", "HYBRID", "SPIRAL"} |-> IF mode = "SPIRAL" THEN SpiralOrder ELSE RingOrder]

(* activeset_open and activeset_close: a tile beyond the canvas, and one   *)
(* that is so already, change nothing.                                     *)
Counted0(count) == /\ openCount' = count /\ scanMode' = ModeOf(count)
ActiveOpen(t) ==
  IF t \notin ActiveTiles \/ t \in active THEN UNCHANGED <<active, openCount, scanMode>>
  ELSE active' = active \cup {t} /\ Counted0(openCount + 1)
ActiveClose(t) ==
  IF t \notin active THEN UNCHANGED <<active, openCount, scanMode>>
  ELSE active' = active \ {t} /\ Counted0(openCount - 1)
BootCross == {TileOf(<<x, ORIGIN>>) : x \in {x \in ORIGIN..SIDE - 1 : (x - ORIGIN) % TILE = 0}}

-----------------------------------------------------------------------------
Stopped == [order |-> scanMode, at |-> 0, ran |-> <<>>, halted |-> TRUE]
Order == Orders[frame.order]
Scanning == ~frame.halted /\ frame.at < Len(Order)
Change == ~Scanning /\ changes < MaxChanges /\ changes' = changes + 1

Plant(p, c) ==
  /\ Change /\ program' = [program EXCEPT ![p] = [op |-> c[1], arg |-> c[2], G |-> START]]
  /\ UNCHANGED <<active, openCount, scanMode, frame, shut>>
CallGate(t, on) ==
  /\ Change /\ (IF on THEN ActiveOpen(t) ELSE ActiveClose(t))
  /\ UNCHANGED <<program, frame, shut>>

(* The mode is read when the frame begins.                                 *)
BeginFrame ==
  /\ ~Scanning
  /\ frame' = [Stopped EXCEPT !.halted = FALSE] /\ shut' = ActiveTiles \ active
  /\ UNCHANGED <<program, active, openCount, scanMode, changes>>

Reach == Order[frame.at + 1]
Passed == TileOf(Reach) \notin active
Decayed(g) == IF g > DECAY THEN g - DECAY ELSE 0
Energy(c) ==
  LET g == Decayed(c.G) IN
  IF c.op # "ENERGY" THEN g ELSE IF g + c.arg > ENERGY_MAX THEN ENERGY_MAX ELSE g + c.arg

(* exec_cell for a point of an open tile, nothing for one of a closed one. *)
ScanNext ==
  LET c == program[Reach] IN
  /\ Scanning
  /\ IF Passed
     THEN /\ frame' = [frame EXCEPT !.at = @ + 1]
          /\ UNCHANGED <<program, active, openCount, scanMode>>
     ELSE /\ frame' = [frame EXCEPT !.at = @ + 1, !.ran = Append(@, Reach), !.halted = c.op = "HALT"]
          /\ program' = [program EXCEPT ![Reach].G = Energy(c)]
          /\ CASE c.op = "GATE_ON" -> ActiveOpen(c.arg)
               [] c.op = "GATE_OFF" -> ActiveClose(c.arg)
               [] OTHER -> UNCHANGED <<active, openCount, scanMode>>
  /\ shut' = shut \cup (ActiveTiles \ active')
  /\ UNCHANGED changes

EngineInit ==
  /\ program = [p \in Points |-> [op |-> "NOP", arg |-> 0, G |-> 0]]
  /\ active = BootCross /\ openCount = Cardinality(BootCross)
  /\ scanMode = ModeOf(openCount) /\ frame = Stopped /\ shut = {} /\ changes = 0
EngineNext ==
  \/ \E p \in Points, c \in Programs : Plant(p, c)
  \/ \E t \in ActiveTiles, on \in BOOLEAN : CallGate(t, on)
  \/ BeginFrame \/ ScanNext
EngineSpec == EngineInit /\ [][EngineNext]_engineVars

-----------------------------------------------------------------------------
(* A frame executes no cell twice, whatever gates the cells open and close *)
(* under it, in rings that only grow; one that comes to its end has        *)
(* executed every cell of the tiles that stayed open; and the number of    *)
(* open tiles, which the next order depends on, is right                   *)
(* (scan_ringmh.c:7, engine.c:63).                                         *)
Distance(p) == LET Abs(n) == IF n < 0 THEN -n ELSE n IN Abs(p[1] - ORIGIN) + Abs(p[2] - ORIGIN)
=============================================================================
