-------------------------------- MODULE Merge --------------------------------
(***************************************************************************)
(* The merge of deltas into the canvas (src/engine/src/canvas_merge.c):    *)
(* merge_run collects deltas, resolves the conflicts with those that close *)
(* a gate, sorts by cell and applies one policy.  The lane of a delta has  *)
(* no effect on the merge and is left out; B and R always change together  *)
(* and are one channel, BR.  Deltas outside of the canvas have a cell that *)
(* is not in the canvas.                                                   *)
(***************************************************************************)
EXTENDS Integers, Sequences, FiniteSets, SequencesExt

CONSTANTS MERGE_MAX_DELTAS,   \* deltas of a merge (1024)
          U8                  \* values of a byte (256)

Policies == {"LAST_WINS", "FIRST_WINS", "ADDITIVE_G", "MAX_G", "LOCK_WINS", "CUSTOM"}
Delta(tick, cell, before, after, flags) ==
  [tick |-> tick, cell |-> cell, before |-> before, after |-> after, flags |-> flags]

IsLock(d) == "close" \in d.flags
Clamp(n) == IF n >= U8 THEN U8 - 1 ELSE n

ReplacedFlags(old, d) == [old EXCEPT !.after = d.after, !.flags = d.flags]    \* mutant: the close is forgotten
Replaced(old, d) == [old EXCEPT !.after = d.after, !.flags = @ \cup d.flags]

(* merge_add_delta: of the deltas of one tick and cell one is kept, with   *)
(* the first before and the last after.  A full list takes nothing more.   *)
Added(ds, d) ==
  LET existing == {i \in DOMAIN ds : ds[i].tick = d.tick /\ ds[i].cell = d.cell}
  IN IF Len(ds) >= MERGE_MAX_DELTAS THEN ds
     ELSE IF existing = {} THEN Append(ds, d)
     ELSE [i \in DOMAIN ds |-> IF i \in existing THEN Replaced(ds[i], d) ELSE ds[i]]

Collected(ds) == FoldLeft(Added, <<>>, ds)

                        \* mutant: only the deltas of the tick of the lock
Shielded(ds, i) == \E j \in DOMAIN ds : ds[j].cell = ds[i].cell /\ IsLock(ds[j])

(* merge_resolve_conflicts: what is not a lock gives way to a lock of its  *)
(* cell, marked by the flag of a replayed delta.                           *)
Conflicts(ds) == {i \in DOMAIN ds : ~IsLock(ds[i]) /\ Shielded(ds, i)}
Resolved(ds) == [i \in DOMAIN ds |-> IF i \in Conflicts(ds)
                                     THEN [ds[i] EXCEPT !.flags = @ \cup {"replayed"}] ELSE ds[i]]

(* One delta applied to the content of its cell. *)
Applied(policy, old, d) ==
  CASE policy = "LAST_WINS" -> d.after
    [] policy = "FIRST_WINS" -> IF old.A = d.before.A /\ old.G = d.before.G THEN d.after ELSE old
    [] policy = "ADDITIVE_G" -> [old EXCEPT !.G = Clamp(@ + d.after.G), !.BR = d.after.BR]
    [] policy = "MAX_G" -> [old EXCEPT !.G = IF @ > d.after.G THEN @ ELSE d.after.G, !.BR = d.after.BR]
    [] policy = "LOCK_WINS" -> IF IsLock(d) THEN d.after ELSE old
    [] policy = "CUSTOM" -> old

(* merge_apply: qsort orders the cells, and the deltas of one cell as it   *)
(* likes, so that a cell may end with any of these contents.               *)
Live(ds, c) == SelectSeq(ds, LAMBDA d : d.cell = c /\ "replayed" \notin d.flags)
Outcomes(policy, ds, c, old) ==
  LET live == Live(ds, c)
  IN {FoldLeft(LAMBDA content, i : Applied(policy, content, live[i]), old, order) :
        order \in SetToSeqs(DOMAIN live)}

(* merge_run: the contents the canvas may have. *)
MergeRun(policy, ds, canvas) ==
  LET resolved == Resolved(Collected(ds))
      outcomes == [c \in DOMAIN canvas |-> Outcomes(policy, resolved, c, canvas[c])]
  IN {f \in [DOMAIN canvas -> UNION {outcomes[c] : c \in DOMAIN canvas}] :
        \A c \in DOMAIN canvas : f[c] \in outcomes[c]}
-----------------------------------------------------------------------------
(* What merge_run may do to each cell (canvas_merge.h:9-28, canvas_merge.c *)
(* :34-57, 70-110): of the deltas that were taken before the list was full *)
(* the last one of each tick counts; if one of a tick closes a gate the    *)
(* cell ends as a tick with a close ends, under LAST_WINS and LOCK_WINS,   *)
(* however the sort leaves the ticks; under LOCK_WINS nothing else has an  *)
(* effect, no policy of the energy lowers it, and deltas of a single tick  *)
(* have a single result.                                                   *)
Taken(ds) ==
  LET places(i) == {<<ds[j].tick, ds[j].cell>> : j \in 1..i}
      full == {i \in DOMAIN ds : Cardinality(places(i)) >= MERGE_MAX_DELTAS}
  IN IF full = {} THEN ds ELSE SubSeq(ds, 1, CHOOSE i \in full : \A j \in full : i <= j)
EndsOf(ds, c) == {i \in DOMAIN ds : /\ ds[i].cell = c
                                    /\ \A j \in DOMAIN ds : j > i /\ ds[j].cell = c => ds[j].tick # ds[i].tick}
CloseEnds(ds, c) == {i \in EndsOf(ds, c) : \E j \in DOMAIN ds : /\ ds[j].cell = c /\ IsLock(ds[j])
                                                                /\ ds[j].tick = ds[i].tick}
CellSound(ds, c, old, Results(_)) ==
  LET ends == EndsOf(ds, c)
      closed == {ds[i].after : i \in CloseEnds(ds, c)}
  IN /\ ends = {} => \A p \in Policies : Results(p) = {old}
     /\ closed # {} => Results("LAST_WINS") \cup Results("LOCK_WINS") \subseteq closed
     /\ closed = {} => Results("LOCK_WINS") = {old}
     /\ \A content \in Results("MAX_G") \cup Results("ADDITIVE_G") : content.G >= old.G
     /\ Cardinality(ends) = 1 => \A p \in Policies : Cardinality(Results(p)) = 1
MergeSound(ds, canvas) ==
  \A c \in DOMAIN canvas : CellSound(Taken(ds), c, canvas[c], LAMBDA p : {f[c] : f \in MergeRun(p, ds, canvas)})
=============================================================================
