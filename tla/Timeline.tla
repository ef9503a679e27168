------------------------------ MODULE Timeline ------------------------------
(***************************************************************************)
(* Snapshots, branches, write sets and time travel                         *)
(* (src/engine/src/timeline.c, canvas_branch.c, timewarp.c) over the       *)
(* contexts and files of Snapshot.  Every warp keeps its backup in the one *)
(* file Backup.                                                            *)
(***************************************************************************)
EXTENDS Snapshot

CONSTANTS Backup, Warps, TimelineWarp, Cells, ROOT, HASH_V1,
          Torn,    \* how many parts a save that fails may leave
          SNAPSHOT_MAX, BRANCH_MAX, WRITESET_MAX, WRITESET_TABLE_MAX

ASSUME TimelineAssumption == Backup \in Paths \ {Session} /\ ROOT = 0 /\ HASH_V1 \in Locks
                      /\ TimelineWarp \in Warps /\ Torn \subseteq 0..Complete - 1

VARIABLES snaps,       \* SnapshotTable, by id: a snapshot is never removed
          branches,    \* BranchTable: its descriptors in their places
          active,      \* active_branch of the table
          current,     \* current_branch of the timeline
          writesets,   \* WriteSetTable, by branch
          warps,       \* the warps that are active
          origin,      \* where each active warp started first (history)
          destroyed    \* has a branch been destroyed? (history)

branchVars == <<branches, active, current, destroyed>>
warpVars == <<warps, origin>>
vars == <<snapshotVars, snaps, branchVars, writesets, warpVars>>

Ids == {branches[i].id : i \in DOMAIN branches}
Descriptor(id, parent) == [id |-> id, parent |-> parent]

TimelineInit ==
  /\ Init
  /\ snaps = <<>>
  /\ branches = <<>> /\ active = ROOT /\ current = ROOT /\ destroyed = FALSE
  /\ writesets = [b \in {} |-> {}]
  /\ warps = {} /\ origin = [w \in Warps |-> Fresh]

(* snap_create, by timeline_snapshot: the hash is that of the canvas       *)
(* before the record is written, and is not modelled.                      *)
TimelineSnapshot ==
  /\ Len(snaps) < SNAPSHOT_MAX
  /\ Counted
  /\ snaps' = Append(snaps, [tick |-> ctx.tick, branch |-> current])
  /\ ctx' = Recorded(ctx, Record("other", 0))
  /\ UNCHANGED <<files, saved, branchVars, writesets, warpVars>>

IdOfActive == active + 1              \* mutant: the id is the one after the active branch
NewId == Len(branches) + 1
BranchCreate ==
  /\ Len(branches) < BRANCH_MAX
  /\ Counted
  /\ branches' = Append(branches, Descriptor(NewId, current))
  /\ ctx' = Recorded(ctx, Record("other", 0))
  /\ UNCHANGED <<files, saved, snaps, active, current, destroyed, writesets, warpVars>>

BranchSwitch(id) ==
  /\ id \in Ids
  /\ Counted
  /\ active' = id /\ current' = id
  /\ UNCHANGED <<ctx, files, saved, snaps, branches, destroyed, writesets, warpVars>>

(* branch_destroy: the last descriptor takes the place of the destroyed.   *)
BranchDestroy(i) ==
  /\ i \in DOMAIN branches
  /\ Counted
  /\ branches' = Front([branches EXCEPT ![i] = branches[Len(branches)]])
  /\ destroyed' = TRUE
  /\ UNCHANGED <<ctx, files, saved, snaps, active, current, writesets, warpVars>>

(* branch_commit_delta; branch_merge, which never makes the root active.   *)
BranchCommit(content) ==
  /\ Counted
  /\ ctx' = [Recorded(ctx, Record("other", 0)) EXCEPT !.cells = content]
  /\ UNCHANGED <<files, saved, snaps, branchVars, writesets, warpVars>>

BranchMerge(i) ==
  /\ i \in DOMAIN branches
  /\ Counted
  /\ active' = IF branches[i].parent # ROOT THEN branches[i].parent ELSE active
  /\ ctx' = Recorded(ctx, Record("other", 0))
  /\ UNCHANGED <<files, saved, snaps, branches, current, destroyed, writesets, warpVars>>

(* ws_record: a set is made at the first write; a full set refuses even    *)
(* the cells it has.                                                       *)
WriteSet(b) == IF b \in DOMAIN writesets THEN writesets[b] ELSE {}
WsRecord(b, cell) ==
  /\ b \in DOMAIN writesets \/ Cardinality(DOMAIN writesets) < WRITESET_TABLE_MAX
  /\ Cardinality(WriteSet(b)) < WRITESET_MAX
  /\ Counted
  /\ writesets' = [c \in DOMAIN writesets \cup {b} |->
                     IF c = b THEN WriteSet(b) \cup {cell} ELSE writesets[c]]
  /\ UNCHANGED <<ctx, files, saved, snaps, branchVars, warpVars>>

(* timeline_merge asks nothing of the branches it is given. *)
Conflicts(a, b) == Cardinality(WriteSet(a) \cap WriteSet(b))
TimelineMerge ==
  /\ Counted
  /\ current' = ROOT
  /\ ctx' = Recorded(ctx, Record("other", 0))
  /\ UNCHANGED <<files, saved, snaps, branches, active, destroyed, writesets, warpVars>>

(* timewarp_goto: forward by ticks; back by the records since the target,  *)
(* over the present canvas.                                                *)
Warped(c, target) ==
  IF target < c.tick THEN [Replayed(c, target, c.tick) EXCEPT !.tick = target] ELSE TickedTo(c, target)
Active(w) ==
  /\ warps' = warps \cup {w}
  /\ origin' = IF w \in warps THEN origin ELSE [origin EXCEPT ![w] = ctx]

WarpGoto(w, target, n) ==
  /\ Counted
  /\ Written(Backup, HASH_V1, n)
  /\ IF n = Complete THEN ctx' = Warped(ctx, target) /\ Active(w) ELSE UNCHANGED <<ctx, warpVars>>
  /\ UNCHANGED <<snaps, branchVars, writesets>>

(* timeline_timewarp: a warp that fails sets the tick at least, and the    *)
(* branch is that of the latest snapshot up to the target.                 *)
Before(target) == {i \in DOMAIN snaps : snaps[i].tick <= target}
Best(target) == CHOOSE i \in Before(target) :
                  \A j \in Before(target) : \/ snaps[j].tick < snaps[i].tick
                                            \/ snaps[j].tick = snaps[i].tick /\ i <= j
TimelineTimewarp(target, n) ==
  /\ Counted
  /\ Written(Backup, HASH_V1, n)
  /\ IF n = Complete THEN ctx' = Warped(ctx, target) /\ Active(TimelineWarp)
     ELSE ctx' = [ctx EXCEPT !.tick = target] /\ UNCHANGED warpVars
  /\ current' = IF Before(target) = {} THEN current ELSE snaps[Best(target)].branch
  /\ UNCHANGED <<snaps, branches, active, destroyed, writesets>>

ResumeStatus == LoadStatus(files[Backup], HASH_V1)
WarpResume(w) ==
  /\ w \in warps
  /\ Counted
  /\ ctx' = Loaded(ctx, files[Backup], HASH_V1)
  /\ warps' = IF ResumeStatus = "OK" THEN warps \ {w} ELSE warps
  /\ UNCHANGED <<files, saved, origin, snaps, branchVars, writesets>>

WarpStep(w, n) ==
  /\ w \in warps
  /\ ctx.tick + n <= MaxTick
  /\ Counted
  /\ ctx' = TickedTo(ctx, ctx.tick + n)
  /\ UNCHANGED <<files, saved, snaps, branchVars, writesets, warpVars>>

(* The steps of Snapshot leave the timeline as it is, but a restart begins *)
(* a new one.                                                              *)
Begun ==
  /\ snaps' = <<>> /\ branches' = <<>> /\ active' = ROOT /\ current' = ROOT /\ destroyed' = FALSE
  /\ writesets' = [b \in {} |-> {}]
  /\ warps' = {} /\ origin' = [w \in Warps |-> Fresh]

SnapshotNext ==
  \/ \E c \in Contents : Write(c)
  \/ \E g \in Gates, op \in {"open", "close"} : GateCommand(g, op)
  \/ Tick
  \/ \E p \in Paths, l \in Locks, n \in Torn \cup {Complete} : Save(p, l, n)
  \/ \E p \in Paths, e \in Locks \cup {SKIP} : Load(p, e)
  \/ \E p \in Paths, from \in 0..MaxTick, to \in 0..MaxTick : Replay(p, SKIP, from, to)
  \/ \E p \in Paths, i \in 1..Complete : Rot(p, i)

TimelineNext ==
  \/ TimelineSnapshot
  \/ BranchCreate
  \/ \E id \in 1..BRANCH_MAX : BranchSwitch(id)
  \/ \E i \in 1..BRANCH_MAX : BranchDestroy(i) \/ BranchMerge(i)
  \/ \E c \in Contents : BranchCommit(c)
  \/ \E b \in 1..BRANCH_MAX, cell \in Cells : WsRecord(b, cell)
  \/ TimelineMerge
  \/ \E t \in 0..MaxTick, n \in Torn \cup {Complete} :
       TimelineTimewarp(t, n) \/ \E w \in Warps \ {TimelineWarp} : WarpGoto(w, t, n)
  \/ \E w \in Warps : WarpResume(w) \/ WarpStep(w, 1)

Next ==
  \/ SnapshotNext /\ UNCHANGED <<snaps, branchVars, writesets, warpVars>>
  \/ Restart /\ Begun
  \/ TimelineNext

Spec == TimelineInit /\ [][Next]_vars

-----------------------------------------------------------------------------
(* cvp_load_ctx: when it says OK, the context is the whole of what the     *)
(* last save to the path was given, canvas, gates, ring and tick: a file   *)
(* that a crash cut off or that is damaged is never taken for a state, not *)
(* by the resume of a time warp either.  A load that fails may leave the   *)
(* cells of the file, but never its tick, and its gates only over its      *)
(* cells.  Whatever came of it, active_open is the gates (BUG-3 of         *)
(* cvp_io.c).                                                              *)
WholeOrPart(p, status) ==
  \/ status = "OK" /\ ctx' = saved[p]
  \/ /\ status # "OK"
     /\ ctx'.tick = ctx.tick
     /\ \/ ctx'.gates = ctx.gates
        \/ ctx'.cells = saved[p].cells /\ ctx'.ring = saved[p].ring

(* canvas_branch.c, timeline.c: as long as no branch is destroyed the      *)
(* parents of branches are older branches or the root, and the branches    *)
(* that snapshots, the table and the timeline name exist.                  *)
BranchesRooted ==
  ~destroyed =>
    /\ \A i, j \in DOMAIN branches : branches[i].id = branches[j].id => i = j
    /\ \A i \in DOMAIN branches : branches[i].parent < branches[i].id
    /\ {active, current} \cup {snaps[i].branch : i \in DOMAIN snaps}
         \cup {branches[i].parent : i \in DOMAIN branches} \subseteq Ids \cup {ROOT}

(* canvasos_timewarp.h: timewarp_resume returns to the present, that is to *)
(* where the warp was started from.                                        *)
ResumesPresent ==
  [][\A w \in Warps : WarpResume(w) /\ ResumeStatus = "OK" => ctx' = origin[w]]_vars
=============================================================================
