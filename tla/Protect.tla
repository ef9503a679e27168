------------------------------ MODULE Protect ------------------------------
(***************************************************************************)
(* Tile protection, users, determinism (src/mprotect.c, src/user.c,        *)
(* src/detmode.c) and the system calls that reach them                     *)
(* (src/syscall_bindings.c).  A tile has an owner, a pid or none, and      *)
(* permissions; a process has the lane of its user, 0 being root.          *)
(***************************************************************************)
EXTENDS Integers, Sequences, FiniteSets, FiniteSetsExt

CONSTANTS PROT_TILES,         \* tiles (TILE_COUNT)
          WIDTH,              \* values of a tile number that is computed (65536)
          Pids, FREE,         \* processes that own tiles; TILE_OWNER_FREE
          Lanes, USER_MAX,
          DK,                 \* rules of determinism (5)
          Perms               \* sets of permissions that are asked for

Tiles == 0..PROT_TILES - 1
ROOT == 0
RWX == {"READ", "WRITE", "EXEC"}
DKs == 1..DK
ASSUME ProtectAssumption ==
  /\ PROT_TILES \in Nat \ {0} /\ WIDTH \in Nat /\ WIDTH > PROT_TILES
  /\ ROOT \in Lanes /\ FREE \notin Pids /\ \A p \in Perms : p \subseteq RWX \cup {"SHARED"}

VARIABLES owner, perm,  \* of a tile
          opened,       \* tiles whose gate is open
          users,        \* lanes of the users, in the order of their creation
          lane,         \* of a process
          det           \* rules of determinism that are kept; what the WhiteHole records is always kept

protectVars == <<owner, perm, opened, users, lane, det>>

(* tile_alloc looks for count free tiles from start; a tile that is not    *)
(* free is where it looks on.                                              *)
FirstTaken(start, count) == {i \in 0..count - 1 : owner[start + i] # FREE}
OnAfter(start, count) == start + count + 1                          \* mutant: past the tiles that were not looked at
On(start, count) == start + Min(FirstTaken(start, count)) + 1
Scan(count) ==
  LET S[start \in 0..2 * PROT_TILES] ==
        IF start > PROT_TILES - count THEN -1
        ELSE IF FirstTaken(start, count) = {} THEN start ELSE S[On(start, count)]
  IN S[0]

Alloc(pid, count) ==
  LET start == Scan(count)
      mine == IF start = -1 THEN {} ELSE start..start + count - 1
  IN /\ owner' = [t \in Tiles |-> IF t \in mine THEN pid ELSE owner[t]]
     /\ perm' = [t \in Tiles |-> IF t \in mine THEN RWX ELSE perm[t]]
     /\ opened' = opened \cup mine
     /\ UNCHANGED <<users, lane, det>>

(* tile_free, whose end is computed in 16 bits.                            *)
End(start, count) == (start + count) % WIDTH
Freed(pid, start, count) == {t \in Tiles : t >= start /\ t < End(start, count) /\ owner[t] = pid}
Free(pid, start, count) ==
  LET freed == Freed(pid, start, count) IN
  /\ owner' = [t \in Tiles |-> IF t \in freed THEN FREE ELSE owner[t]]
  /\ perm' = [t \in Tiles |-> IF t \in freed THEN {} ELSE perm[t]]
  /\ opened' = opened \ freed
  /\ UNCHANGED <<users, lane, det>>

SetPerm(pid, tile, p) ==
  /\ owner[tile] = pid /\ perm' = [perm EXCEPT ![tile] = p]
  /\ UNCHANGED <<owner, opened, users, lane, det>>

(* tile_check; a user is checked by the number of the lane.                *)
TileCheck(pid, tile, p) ==
  \/ pid = ROOT
  \/ owner[tile] = pid /\ p \subseteq perm[tile]
  \/ "SHARED" \in perm[tile] /\ p \subseteq perm[tile]
UserCheckPerm(uid, tile, p) == uid = ROOT \/ TileCheck(uid, tile, p)

UserCreate(l) ==
  /\ Len(users) < USER_MAX /\ \A i \in 1..Len(users) : users[i] # l
  /\ users' = Append(users, l) /\ UNCHANGED <<owner, perm, opened, lane, det>>
Su(pid, l) ==
  /\ lane[pid] = ROOT /\ \E i \in 1..Len(users) : users[i] = l
  /\ lane' = [lane EXCEPT ![pid] = l] /\ UNCHANGED <<owner, perm, opened, users, det>>

DetSetAll(on) == det' = (IF on THEN DKs ELSE {}) /\ UNCHANGED <<owner, perm, opened, users, lane>>
DetSetDk(dk, on) ==
  /\ det' = IF on THEN det \cup {dk} ELSE det \ {dk}
  /\ UNCHANGED <<owner, perm, opened, users, lane>>
DetIsDeterministic == det = DKs

(* SYS_GATE_OPEN and SYS_GATE_CLOSE ask nobody whose tile it is;           *)
(* SYS_DET_MODE is DetSetAll, and SYS_MPROTECT asks TileCheck.             *)
SysGate(tile, open) ==
  /\ opened' = IF open THEN opened \cup {tile} ELSE opened \ {tile}
  /\ UNCHANGED <<owner, perm, users, lane, det>>

ProtectInit ==
  /\ owner = [t \in Tiles |-> FREE] /\ perm = [t \in Tiles |-> {}] /\ opened = {}
  /\ users = <<ROOT>> /\ lane \in [Pids -> Lanes] /\ det = DKs

ProtectNext ==
  \/ \E pid \in Pids, count \in 1..PROT_TILES : Alloc(pid, count)
  \/ \E pid \in Pids, start \in Tiles, count \in 0..WIDTH - 1 : Free(pid, start, count)
  \/ \E pid \in Pids, tile \in Tiles, p \in Perms : SetPerm(pid, tile, p)
  \/ \E l \in Lanes : UserCreate(l)
  \/ \E pid \in Pids, l \in Lanes : Su(pid, l)
  \/ \E on \in BOOLEAN : DetSetAll(on)
  \/ \E dk \in DKs, on \in BOOLEAN : DetSetDk(dk, on)
  \/ \E tile \in Tiles, open \in BOOLEAN : SysGate(tile, open)
ProtectSpec == ProtectInit /\ [][ProtectNext]_protectVars

-----------------------------------------------------------------------------
(* Tiles are found whenever there are enough next to each other, the first *)
(* ones; what is nobody's can only be used by root (mprotect.c:29).        *)
TilesFound ==
  /\ \A count \in 1..PROT_TILES :
       LET fits == {s \in 0..PROT_TILES - count : \A i \in 0..count - 1 : owner[s + i] = FREE}
       IN Scan(count) = IF fits = {} THEN -1 ELSE Min(fits)
  /\ \A t \in Tiles, uid \in Lanes \ {ROOT}, p \in Perms \ {{}} :
       owner[t] = FREE => ~UserCheckPerm(uid, t, p)
=============================================================================
