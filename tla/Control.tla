------------------------------ MODULE Control ------------------------------
(***************************************************************************)
(* The control region (src/control_region.c): the superblock and the       *)
(* entries of the branch table are packed into cells, three bytes to a     *)
(* cell.  An entry is not a whole number of cells, and begins in the cell  *)
(* its first byte would fall into, at the start of it.                     *)
(***************************************************************************)
EXTENDS Integers, Sequences

CONSTANTS ENTRY, SUPER,       \* bytes of a BranchCommit and of the superblock (20, 56)
          REGION,             \* cells of a sub-region (32 * 32)
          BranchEntries,      \* entries that are written
          Versions            \* what is written of an entry

PER_CELL == 3
CR_BRANCH_MAX == (REGION * PER_CELL) \div ENTRY
ASSUME ControlAssumption ==
  /\ ENTRY \in Nat \ {0} /\ SUPER \in Nat \ {0} /\ REGION \in Nat /\ SUPER <= REGION * PER_CELL
  /\ BranchEntries \subseteq Int

VARIABLES cr0, cr1            \* cell -> its bytes B, G and R

controlVars == <<cr0, cr1>>

Record(i, v, n) == [b \in 1..n |-> <<i, v, b>>]
NoByte == <<>>                \* a zero
CellsOf(n) == (n + PER_CELL - 1) \div PER_CELL
Put(region, first, bytes) ==
  [c \in DOMAIN region |->
     IF c \notin first..first + CellsOf(Len(bytes)) - 1 THEN region[c]
     ELSE [k \in 1..PER_CELL |-> LET b == PER_CELL * (c - first) + k
                                 IN IF b <= Len(bytes) THEN bytes[b] ELSE NoByte]]
Got(region, first, n) == [b \in 1..n |-> region[first + (b - 1) \div PER_CELL][((b - 1) % PER_CELL) + 1]]

FirstCell(i) == (i * ENTRY) \div PER_CELL

SuperblockWrite(v) == cr0' = Put(cr0, 0, Record("super", v, SUPER)) /\ UNCHANGED cr1
SuperblockRead == Got(cr0, 0, SUPER)
BranchWrite(i, v) ==
  /\ i >= 0 /\ i < CR_BRANCH_MAX
  /\ cr1' = Put(cr1, FirstCell(i), Record(i, v, ENTRY)) /\ UNCHANGED cr0
BranchRead(region, i) == Got(region, FirstCell(i), ENTRY)

ControlInit ==
  LET blank == [c \in 0..REGION - 1 |-> [k \in 1..PER_CELL |-> NoByte]] IN cr0 = blank /\ cr1 = blank
ControlNext ==
  \/ \E v \in Versions : SuperblockWrite(v)
  \/ \E i \in BranchEntries, v \in Versions : BranchWrite(i, v)
ControlSpec == ControlInit /\ [][ControlNext]_controlVars

-----------------------------------------------------------------------------
(* What was written is read back, and costs other entries no more than the *)
(* one cell that the first and the second of each three entries share: the *)
(* first one loses two bytes, the second one three (control_region.c:70).  *)
Held == BranchEntries \cap (0..CR_BRANCH_MAX - 1)
Shared(i, j) == IF j = i - 1 /\ j % 3 = 0 THEN ENTRY - 1..ENTRY
                ELSE IF j = i + 1 /\ i % 3 = 0 THEN 1..3 ELSE {}
=============================================================================
