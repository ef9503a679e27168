------------------------------ MODULE Snapshot ------------------------------
(***************************************************************************)
(* The engine context (src/engine/src/engine_ctx.c, engine_time.c) and its *)
(* capsules on disk (src/engine/src/cvp_io.c).  A file is the sequence of  *)
(* the parts of it that reached the disk: the header and four sections,    *)
(* each with a checksum.  A part that is cut off reads like the end of the *)
(* file and is left out.  "cells" stands for all cells but the WhiteHole,  *)
(* whose records are "ring"; the BlackHole is a part of cells.             *)
(***************************************************************************)
EXTENDS Integers, Sequences, FiniteSets, SequencesExt

CONSTANTS Gates, Contents, Paths, Session, Locks, SKIP,
          WH_CAP,      \* records of the ring
          MaxTick, MaxOps    \* bounds of the check: last tick, operations of a history

ASSUME SnapshotAssumption ==
  Session \in Paths /\ SKIP \notin Locks /\ WH_CAP \in Nat \ {0} /\ MaxTick \in Nat

VARIABLES ctx,     \* EngineContext: tick, cells, ring, gates and the bitmap active_open
          files,   \* parts of each file
          saved,   \* what the last save to the path was given
          ops      \* operations so far

snapshotVars == <<ctx, files, saved, ops>>

Nop == [op |-> "nop", target |-> 0]
Record(op, target) == [op |-> op, target |-> target]
Fresh == [tick |-> 0, cells |-> CHOOSE c \in Contents : TRUE,
          ring |-> [i \in 0..WH_CAP - 1 |-> Nop], gates |-> {}, active_open |-> {}]

Counted == ops < MaxOps /\ ops' = ops + 1

(* wh_write_record, engctx_tick, and the tile gates with their bitmap. *)
Recorded(c, r) == [c EXCEPT !.ring[c.tick % WH_CAP] = r]
Ticked(c) == Recorded([c EXCEPT !.tick = @ + 1], Record("other", 0))
TickedTo(c, target) == FoldLeft(LAMBDA d, i : Ticked(d), c, [i \in 1..target - c.tick |-> i])
Opened(c, g) == [c EXCEPT !.gates = @ \cup {g}, !.active_open = @ \cup {g}]
Closed(c, g) == [c EXCEPT !.gates = @ \ {g}, !.active_open = @ \ {g}]

(* wh_exec_record and wh_exec_min: of the records only gates have effects. *)
Executed(c, r) ==
  CASE r.op = "open" -> Opened(c, r.target)
    [] r.op = "close" -> Closed(c, r.target)
    [] OTHER -> c

(* engctx_replay: the records of the ticks that are still in the ring; a   *)
(* window as long as the ring visits the slot of its last tick first too.  *)
Low(c, from) == LET window == IF c.tick > WH_CAP THEN WH_CAP ELSE c.tick
                IN IF from < c.tick - window THEN c.tick - window ELSE from
High(c, to) == IF to > c.tick THEN c.tick ELSE to
Replayed(c, from, to) ==
  FoldLeft(LAMBDA d, k : Executed(d, d.ring[(Low(c, from) + k - 1) % WH_CAP]), c,
           [k \in 1..High(c, to) - Low(c, from) + 1 |-> k])

(* cvp_save_ctx: the parts of a capsule, in the order they are written. *)
Part(type, body) == [type |-> type, body |-> body, sound |-> TRUE]
Capsule(c, lock) ==
  << Part("header", [tick |-> c.tick, lock |-> lock]), Part("canvas", [cells |-> c.cells, ring |-> c.ring]),
     Part("gates", c.gates), Part("wh", c.ring), Part("bh", c.cells) >>
Written(path, lock, n) ==
  /\ files' = [files EXCEPT ![path] = SubSeq(Capsule(ctx, lock), 1, n)]
  /\ saved' = [saved EXCEPT ![path] = ctx]
Complete == 5

GatesLoaded(c, body) == [c EXCEPT !.gates = body, !.active_open = body]
Damaged(file) == {i \in 2..Len(file) : ~file[i].sound}
Readable(file, type) ==
  {i \in 2..Len(file) : file[i].type = type /\ \A j \in Damaged(file) : i < j}
Canvas(c, body) == [c EXCEPT !.cells = body.cells, !.ring = body.ring]
Applied(c, file) ==
  LET canvas == IF Readable(file, "canvas") = {} THEN c ELSE Canvas(c, file[2].body)
  IN IF Readable(file, "gates") = {} THEN canvas ELSE GatesLoaded(canvas, file[3].body)
MissingCanvas(file) == {"canvas"} \ {file[i].type : i \in 2..Len(file)}    \* mutant: gates are optional
Missing(file) == {"canvas", "gates"} \ {file[i].type : i \in 2..Len(file)}

HeaderStatus(file, expected) ==
  CASE file = <<>> -> "IO"
    [] file # <<>> /\ ~file[1].sound -> "CRC"
    [] file # <<>> /\ file[1].sound /\ expected \notin {SKIP, file[1].body.lock} -> "LOCK"
    [] OTHER -> "OK"
Validated(file, expected) ==
  IF HeaderStatus(file, expected) # "OK" THEN HeaderStatus(file, expected)
  ELSE IF Damaged(file) # {} THEN "CRC" ELSE "OK"
LoadStatus(file, expected) ==
  IF Validated(file, expected) = "OK" /\ Missing(file) # {} THEN "FORMAT" ELSE Validated(file, expected)
Loaded(c, file, expected) ==
  LET applied == Applied(c, file)
  IN IF HeaderStatus(file, expected) # "OK" THEN c
     ELSE IF LoadStatus(file, expected) = "OK" THEN [applied EXCEPT !.tick = file[1].body.tick]
     ELSE applied

Init ==
  /\ ctx = Fresh
  /\ files = [p \in Paths |-> <<>>]
  /\ saved = [p \in Paths |-> Fresh]
  /\ ops = 0

Write(content) ==
  /\ Counted
  /\ ctx' = [ctx EXCEPT !.cells = content]
  /\ UNCHANGED <<files, saved>>

(* The gate commands of the front ends: the gate, then its record. *)
GateCommand(g, op) ==
  /\ Counted
  /\ ctx' = Recorded(Executed(ctx, Record(op, g)), Record(op, g))
  /\ UNCHANGED <<files, saved>>

Tick ==
  /\ ctx.tick < MaxTick
  /\ Counted
  /\ ctx' = Ticked(ctx)
  /\ UNCHANGED <<files, saved>>

(* Of a save that fails n parts are in the file that was there before. *)
Save(path, lock, n) ==
  /\ Counted
  /\ Written(path, lock, n)
  /\ UNCHANGED ctx

Load(path, expected) ==
  /\ Counted
  /\ ctx' = Loaded(ctx, files[path], expected)
  /\ UNCHANGED <<files, saved>>

Replay(path, expected, from, to) ==
  /\ Counted
  /\ LET loaded == Loaded(ctx, files[path], expected)
     IN ctx' = IF LoadStatus(files[path], expected) = "OK" THEN Replayed(loaded, from, to) ELSE loaded
  /\ UNCHANGED <<files, saved>>

(* A part of a file is damaged on the disk. *)
Rot(path, i) ==
  /\ i \in DOMAIN files[path]
  /\ Counted
  /\ files' = [files EXCEPT ![path][i].sound = FALSE]
  /\ UNCHANGED <<ctx, saved>>

(* The program dies and starts again: it loads its session, and goes on    *)
(* with what it has when that fails.                                       *)
Restart ==
  /\ Counted
  /\ ctx' = Loaded(Fresh, files[Session], SKIP)
  /\ UNCHANGED <<files, saved>>
=============================================================================
