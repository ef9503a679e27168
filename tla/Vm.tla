--------------------------------- MODULE Vm ---------------------------------
(***************************************************************************)
(* PixelCode (src/vm.c, src/pixelcode.c, src/pixel_loader.c and            *)
(* src/vm_runtime_bridge.c): cells are instructions, executed down a       *)
(* column.  A line of the terminal writes cells at a cursor and runs them; *)
(* a utility plants a program that prints its text, and runs it.  A cell   *)
(* is an address A, an opcode B, a state G and a datum R, and the program  *)
(* counter an address, y * W + x.  What the registers hold is lost with    *)
(* the next fetch, so that only the flag, the stack and what LOAD read are *)
(* kept.  The tick of a commit, and the records of the WhiteHole, are      *)
(* those of Snapshot and Lanes.                                            *)
(***************************************************************************)
EXTENDS Integers, Sequences, FiniteSets, SequencesExt, FiniteSetsExt

CONSTANTS W, HT,              \* CANVAS_W and CANVAS_H
          NIBBLE,             \* values of half a byte (16)
          VM_CALL_STACK_DEPTH, TICK_LIMIT, LINE_STEPS,
          TILE_COUNT, PIPE_BUF_SIZE, PROC_FREE,
          HOME, PROG_X, CLEAR,    \* where lines start and utilities are planted; rows they clear
          SYS_GATE_OPEN, SYS_GATE_CLOSE,
          BRIDGE,             \* the bridge has the tables, and the system calls are registered
          Code, Texts, Repeats,   \* cells that are committed, texts of utilities, N of "step N"
          Places, Ranges, Shifts, \* of the cursor, of a range, and of a copy of one
          MaxCommands             \* bound of the check

SIZE == W * HT
Addresses == 0..SIZE - 1
Levels == 0..NIBBLE * NIBBLE - 1
ASSUME VmAssumption ==
  /\ W \in Nat \ {0} /\ HT \in Nat \ {0} /\ HOME \in Addresses /\ PROG_X \in 0..W - 1
  /\ NIBBLE \in Nat \ {0} /\ TICK_LIMIT \in Nat

VARIABLES cells,    \* the canvas
          cursor,   \* where the next commit goes
          vm,
          todo,     \* steps the command may still execute
          out,      \* what was printed since the command began
          job,      \* the text of the utility that was executed last
          tileGates, pipe, procs,
          commands  \* tokens that were executed

vmVars == <<cells, cursor, vm, todo, out, job, tileGates, pipe, procs, commands>>

Cell(a, b, g, r) == [A |-> a, B |-> b, G |-> g, R |-> r]
Blank == Cell(0, "NOP", 0, 0)
X(a) == a % W
Y(a) == a \div W
Below(a) == a + W
Began(pc) == [pc |-> pc, flag |-> FALSE, loaded |-> <<0, 0>>, stack |-> <<>>, ticks |-> 0, running |-> FALSE]
ALL == TICK_LIMIT + 1         \* run has no limit of its own
NoJob == <<>>

Busy == vm.running /\ todo > 0
At == cells[vm.pc]

-----------------------------------------------------------------------------
(* What an instruction paints.  The steps of a line only depend on how far *)
(* it leads, dx to the right and dy down.                                  *)
RightFirst(dx, dy) == {<<n, 0>> : n \in 0..dx} \cup {<<dx, n>> : n \in 0..dy}    \* mutant: not along the slope
Bresenham(dx, dy) ==
  LET P[n \in 0..LINE_STEPS - 1] ==
        IF n = 0 THEN [x |-> 0, y |-> 0, err |-> dx - dy]
        ELSE LET p == P[n - 1]
                 right == 2 * p.err > -dy
                 down == 2 * p.err < dx
             IN IF p.x = dx /\ p.y = dy THEN p
                ELSE [x |-> p.x + (IF ~right THEN 0 ELSE IF dx > 0 THEN 1 ELSE -1),
                      y |-> p.y + (IF ~down THEN 0 ELSE IF dy > 0 THEN 1 ELSE -1),
                      err |-> p.err - (IF right THEN dy ELSE 0) + (IF down THEN dx ELSE 0)]
  IN {<<P[n].x, P[n].y>> : n \in DOMAIN P}
Strokes == [g \in Levels |-> Bresenham(g % NIBBLE, g \div NIBBLE)]
Line(from, g) == {<<X(from) + p[1], Y(from) + p[2]>> : p \in Strokes[g]}
Rect(from, g) ==
  {<<X(from) + dx, Y(from) + dy>> : dx \in 0..g \div NIBBLE, dy \in 0..g % NIBBLE}
Shown(points) == {p[2] * W + p[1] : p \in {q \in points : q[1] \in 0..W - 1 /\ q[2] \in 0..HT - 1}}
Painted(places, color) == [a \in Addresses |-> IF a \in places THEN [cells[a] EXCEPT !.R = color] ELSE cells[a]]

(* The canvas after the instruction c: addresses beyond it are ignored.    *)
After(c) ==
  CASE c.B = "LINE" -> Painted(Shown(Line(c.A, c.G)), c.R)
    [] c.B = "RECT" -> Painted(Shown(Rect(c.A, c.G)), c.R)
    [] c.A >= SIZE -> cells
    [] c.B = "SET" -> [cells EXCEPT ![c.A].G = c.G, ![c.A].R = c.R]
    [] c.B = "ADD" -> [cells EXCEPT ![c.A].G = Min({@ + c.R, Max(Levels)})]
    [] c.B = "SUB" -> [cells EXCEPT ![c.A].G = Max({@ - c.R, 0})]
    [] c.B = "STORE" -> [cells EXCEPT ![c.A].G = vm.loaded[1], ![c.A].R = vm.loaded[2]]
    [] c.B = "DRAW" -> [cells EXCEPT ![c.A].R = c.R]
    [] c.B = "COPY" /\ c.A + c.G < SIZE -> [cells EXCEPT ![c.A + c.G] = cells[c.A]]
    [] OTHER -> cells

(* What it does to the rest of the system: the tile, with the number cut   *)
(* to 16 bits, that an instruction or a system call opens or closes; the   *)
(* byte that is sent or taken from pipe 0, and the process that is spawned *)
(* once the bridge has the tables.                                         *)
OpensTile(c) == IF c.B = "GATE_ON" THEN {c.A}
                ELSE IF c.B = "SYSCALL" /\ BRIDGE /\ c.A = SYS_GATE_OPEN THEN {c.G} ELSE {}
ClosesTile(c) == IF c.B = "GATE_OFF" THEN {c.A}
                 ELSE IF c.B = "SYSCALL" /\ BRIDGE /\ c.A = SYS_GATE_CLOSE THEN {c.G} ELSE {}
PipeAfter(c) == IF ~BRIDGE \/ c.A # 0 THEN pipe
                ELSE IF c.B = "SEND" /\ Len(pipe) < PIPE_BUF_SIZE THEN Append(pipe, c.R)
                ELSE IF c.B = "RECV" /\ pipe # <<>> THEN Tail(pipe) ELSE pipe
ProcsAfter(c) == IF c.B = "SPAWN" /\ BRIDGE /\ procs < PROC_FREE THEN procs + 1 ELSE procs
Calls(c) ==
  /\ tileGates' = (tileGates \cup (OpensTile(c) \cap (0..TILE_COUNT - 1))) \ ClosesTile(c)
  /\ pipe' = PipeAfter(c) /\ procs' = ProcsAfter(c)
  /\ out' = IF c.B = "PRINT" THEN Append(out, c.R) ELSE out

(* Where it continues, and whether it does.                                *)
Returns(c) == c.B = "RET" /\ vm.stack # <<>>
Jumps(c) == \/ c.B = "JMP"
            \/ c.B = "JZ" /\ vm.flag
            \/ c.B = "JNZ" /\ ~vm.flag
            \/ c.B = "CALL" /\ Len(vm.stack) < VM_CALL_STACK_DEPTH
Halts(c) == c.B \in {"HALT", "EXIT", "BREAKPOINT"}
Target(c) == IF Returns(c) THEN Last(vm.stack) ELSE IF Jumps(c) THEN c.A
             ELSE IF Halts(c) THEN vm.pc ELSE Below(vm.pc)
Runs(c) == IF Returns(c) \/ Jumps(c) THEN TRUE
           ELSE ~Halts(c) /\ c.B # "RET" /\ Below(vm.pc) < SIZE
CountedStraight(c) == IF Jumps(c) THEN vm.ticks ELSE vm.ticks + 1      \* mutant: a jump is not counted
Counted(c) == vm.ticks + 1
Stepped(c) ==
  [pc |-> Target(c),
   flag |-> IF c.B = "CMP" THEN c.A < SIZE /\ cells[c.A].G = c.R ELSE vm.flag,
   loaded |-> IF c.B = "LOAD" /\ c.A < SIZE THEN <<cells[c.A].G, cells[c.A].R>> ELSE vm.loaded,
   stack |-> IF Returns(c) THEN Front(vm.stack)
             ELSE IF c.B = "CALL" /\ Jumps(c) THEN Append(vm.stack, Below(vm.pc)) ELSE vm.stack,
   ticks |-> Counted(c),
   running |-> Runs(c)]

(* vm_step, which a command repeats: at the limit, and beyond the canvas,  *)
(* it only stops.                                                          *)
Stop ==
  /\ Busy /\ (vm.ticks >= TICK_LIMIT \/ vm.pc >= SIZE)
  /\ vm' = [vm EXCEPT !.running = FALSE]
  /\ UNCHANGED <<cells, cursor, todo, out, job, tileGates, pipe, procs, commands>>
Execute ==
  /\ Busy /\ vm.ticks < TICK_LIMIT /\ vm.pc < SIZE
  /\ vm' = Stepped(At) /\ cells' = After(At) /\ Calls(At)
  /\ todo' = IF todo = ALL THEN ALL ELSE todo - 1
  /\ UNCHANGED <<cursor, job, commands>>
Step == Stop \/ Execute

-----------------------------------------------------------------------------
(* Lines: every one begins with a cursor at home and a fresh machine.      *)
Same == UNCHANGED <<out, job, tileGates, pipe, procs>>
Ready == ~Busy /\ commands < MaxCommands /\ commands' = commands + 1

NewLine ==
  /\ Ready
  /\ cursor' = HOME /\ vm' = Began(HOME) /\ todo' = 0 /\ out' = <<>> /\ job' = NoJob
  /\ UNCHANGED <<cells, tileGates, pipe, procs>>
Commit(c) ==
  /\ Ready /\ cursor < SIZE
  /\ cells' = [cells EXCEPT ![cursor] = c]
  /\ cursor' = Below(cursor)
  /\ UNCHANGED <<vm, todo>> /\ Same
Move(to) == Ready /\ cursor' = to /\ UNCHANGED <<cells, vm, todo>> /\ Same

(* A range, from its first corner to its last, within the canvas.          *)
Inside(r) == {a \in Addresses : /\ X(a) \in X(r[1])..X(r[2])
                                /\ Y(a) \in Y(r[1])..Y(r[2])}
Fill(r, c) ==
  /\ Ready
  /\ cells' = [a \in Addresses |-> IF a \in Inside(r) THEN [c EXCEPT !.A = cells[a].A] ELSE cells[a]]
  /\ UNCHANGED <<cursor, vm, todo>> /\ Same
Clear(r) ==
  /\ Ready
  /\ cells' = [a \in Addresses |-> IF a \in Inside(r) THEN Blank ELSE cells[a]]
  /\ UNCHANGED <<cursor, vm, todo>> /\ Same
CopyTo(r, dx, dy) ==
  /\ Ready
  /\ cells' = [a \in Addresses |->
       IF X(a) - dx >= 0 /\ Y(a) - dy >= 0 /\ (Y(a) - dy) * W + X(a) - dx \in Inside(r)
       THEN cells[(Y(a) - dy) * W + X(a) - dx] ELSE cells[a]]
  /\ UNCHANGED <<cursor, vm, todo>> /\ Same
Gate(tile, open) ==
  /\ Ready /\ tileGates' = IF open THEN tileGates \cup {tile} ELSE tileGates \ {tile}
  /\ UNCHANGED <<cells, cursor, vm, todo, out, job, pipe, procs>>

Start(machine, steps) == vm' = [machine EXCEPT !.running = TRUE] /\ todo' = steps
RunLine ==
  /\ Ready /\ Start([vm EXCEPT !.pc = cursor, !.ticks = 0], ALL)
  /\ out' = <<>> /\ job' = NoJob /\ UNCHANGED <<cells, cursor, tileGates, pipe, procs>>
StepLine(n) ==
  /\ Ready /\ Start([vm EXCEPT !.pc = cursor], n)
  /\ out' = <<>> /\ job' = NoJob /\ UNCHANGED <<cells, cursor, tileGates, pipe, procs>>

(* pxl_exec_utility: the column is cleared, the text planted as far as     *)
(* there are rows, and a fresh machine runs from the top.                  *)
PROG_Y == 0
PlantedBare(text) == [i \in 1..Len(text) |-> Cell(0, "PRINT", 0, text[i])]      \* mutant: no HALT
Planted(text) == Append([i \in 1..Len(text) |-> Cell(0, "PRINT", 0, text[i])], Cell(0, "HALT", 0, 0))
Utility(text) ==
  /\ Ready
  /\ cells' = [a \in Addresses |->
       LET row == Y(a) - PROG_Y IN
       IF X(a) # PROG_X THEN cells[a]
       ELSE IF row < Len(Planted(text)) THEN Planted(text)[row + 1]
       ELSE IF row < CLEAR THEN Blank ELSE cells[a]]
  /\ Start(Began(PROG_Y * W + PROG_X), ALL)
  /\ out' = <<>> /\ job' = text
  /\ UNCHANGED <<cursor, tileGates, pipe, procs>>

VmInit ==
  /\ cells = [a \in Addresses |-> Blank] /\ cursor = HOME /\ vm = Began(HOME) /\ todo = 0
  /\ out = <<>> /\ job = NoJob /\ tileGates = {} /\ pipe = <<>> /\ procs = 0 /\ commands = 0

VmNext ==
  \/ Step \/ NewLine \/ RunLine
  \/ \E c \in Code : Commit(c)
  \/ \E c \in Code, r \in Ranges : Fill(r, c)
  \/ \E r \in Ranges : Clear(r)
  \/ \E r \in Ranges, d \in Shifts : CopyTo(r, d[1], d[2])
  \/ \E a \in Places : Move(a)
  \/ \E tile \in 0..TILE_COUNT - 1, open \in BOOLEAN : Gate(tile, open)
  \/ \E n \in Repeats : StepLine(n)
  \/ \E text \in Texts : Utility(text)
VmSpec == VmInit /\ [][VmNext]_vmVars /\ WF_vmVars(Step)

-----------------------------------------------------------------------------
(* Every run ends, whatever the cells say: jumps, calls and returns count  *)
(* as well (vm.c:70).                                                      *)
RunsEnd == Busy ~> ~Busy

(* A utility prints its text, as far as it could be planted, and nothing   *)
(* else: whatever lines or other utilities left in the column              *)
(* (pixel_loader.c:251).                                                   *)
UtilityPrints ==
  job # NoJob =>
    LET text == SubSeq(job, 1, Min({Len(job), HT})) IN
    IF Busy THEN IsPrefix(out, text) ELSE out = text

(* A line leads from its start to its end without a gap, with one point in *)
(* each column or row of the longer side, none further than half a point   *)
(* from the straight one; and no drawing changes what is executed          *)
(* (vm.c:41).                                                              *)
LineWhole(from, g) ==
  LET dx == g % NIBBLE
      dy == g \div NIBBLE
      points == {<<p[1] - X(from), p[2] - Y(from)>> : p \in Line(from, g)}
  IN /\ {<<0, 0>>, <<dx, dy>>} \subseteq points
     /\ Cardinality(points) = Max({dx, dy}) + 1
     /\ \A n \in 0..Max({dx, dy}) : \E p \in points : Max({p[1], p[2]}) >= n /\ p[IF dx >= dy THEN 1 ELSE 2] = n
     /\ \A p \in points : 2 * (p[1] * dy - p[2] * dx) \in (-Max({dx, dy}))..Max({dx, dy})
DrawingKept ==
  [][ /\ Busy /\ ~(vm.ticks >= TICK_LIMIT \/ vm.pc >= SIZE)
      /\ At.B \in {"LINE", "RECT", "DRAW"}
      => /\ \A a \in Addresses : cells'[a] = [cells[a] EXCEPT !.R = cells'[a].R]
         /\ At.B = "LINE" => /\ LineWhole(At.A, At.G)
                             /\ \A p \in Line(At.A, At.G) :
                                  p[1] < W /\ p[2] < HT => cells'[p[2] * W + p[1]].R = At.R ]_vmVars
=============================================================================
