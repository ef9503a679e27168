-------------------------------- MODULE Paths --------------------------------
(***************************************************************************)
(* The directory tree of the shell (src/engine/src/path.c) and the virtual *)
(* paths that are looked at before it (path_virtual.c): a table of named   *)
(* entries whose keys come from the count of all entries ever made, and    *)
(* the current directories of the contexts that share it.                  *)
(* A path is where it starts and the names that follow.                    *)
(***************************************************************************)
EXTENDS Integers, Sequences, FiniteSets, SequencesExt

CONSTANTS Contexts,        \* the contexts, each the pid of a process with a current directory
          Names,           \* names of directories that fit PATH_NAME_MAX
          PATH_DIR_MAX     \* entries of the table

ASSUME PathsAssumption == Contexts \subseteq Nat /\ PATH_DIR_MAX \in Nat \ {0}

VARIABLES entries,   \* g_entries
          count,     \* g_entry_count
          cwd        \* current directory of each context

pathVars == <<entries, count, cwd>>

(* A key is a gate and a slot.                                             *)
ROOT_KEY == <<0, 0>>
HomeKey(pid) == <<(pid % 256) * 16 + 1, 0>>
NewKey(n) == <<n + 100, 0>>
Dirs == 0..PATH_DIR_MAX - 1
Unused == [name |-> "", key |-> ROOT_KEY, parent |-> ROOT_KEY, active |-> FALSE]
Entry(name, key, parent) == [name |-> name, key |-> key, parent |-> parent, active |-> TRUE]

(* find_entry, find_by_key: the first that is active, in the part of the   *)
(* table that the count covers; a count beyond the table is not explored.  *)
Scanned == {i \in Dirs : i < count /\ entries[i].active}
FirstOf(S) == {i \in S : \A j \in S : i <= j}
FindEntry(name, parent) == FirstOf({i \in Scanned : entries[i].name = name /\ entries[i].parent = parent})
FindByKey(key) == FirstOf({i \in Scanned : entries[i].key = key})

(* path_resolve_virtual: every key the virtual path stands for, none when  *)
(* it is not one.  None is the namespace itself, Self is /proc/self.       *)
PROC_GATE == 65280
DEV_GATE == 65281
WH_GATE == 65282
BH_GATE == 65283
None == -1
Self == -2
Slots(pid, gate, id) ==
  CASE id = None -> {IF gate \in {PROC_GATE, DEV_GATE} THEN 255 ELSE 0}
    [] gate = PROC_GATE -> IF id = Self THEN {pid % 256} ELSE {id} \cap 0..255
    [] gate = DEV_GATE -> {id} \cap {0, 1}
    [] OTHER -> {id % 256}
Virtual(pid, gate, id) == {gate} \X Slots(pid, gate, id)

(* path_resolve: every key the path may stand for, none when it is not     *)
(* found. "~" alone is the home, "~/..." starts at the current directory.  *)
From(c, path) == IF path.from = "/" THEN ROOT_KEY ELSE cwd[c]
Stepped(keys, name) ==
  CASE name = "." -> keys
    [] name = ".." -> UNION {IF FindByKey(k) = {} THEN {k} ELSE {entries[i].parent : i \in FindByKey(k)} : k \in keys}
    [] OTHER -> UNION {{entries[i].key : i \in FindEntry(name, k)} : k \in keys}
PathResolve(c, path) ==
  IF path.from = "~" /\ path.names = <<>> THEN {HomeKey(c)}
  ELSE FoldLeft(Stepped, {From(c, path)}, path.names)

PathInit ==
  /\ entries = [i \in Dirs |-> IF i = 0 THEN Entry("/", ROOT_KEY, ROOT_KEY) ELSE Unused]
  /\ count = 1
  /\ cwd = [c \in Contexts |-> ROOT_KEY]

(* path_mkdir takes the first place that is free, and counts it as new.    *)
Free == FirstOf({i \in Dirs : ~entries[i].active})
Counts(n) == count' = n
PathMkdir(c, name) ==
  /\ FindEntry(name, cwd[c]) = {}
  /\ count < PATH_DIR_MAX
  /\ \E i \in Free : entries' = [entries EXCEPT ![i] = Entry(name, NewKey(count'), cwd[c])]
  /\ UNCHANGED cwd

(* What a path stood for, an entry or not, is the new directory.           *)
PathCd(c, keys) ==
  /\ \E key \in keys : cwd' = [cwd EXCEPT ![c] = key]
  /\ UNCHANGED <<entries, count>>

(* path_rm looks neither at the children of the entry nor at who is there. *)
PathRm(c, keys) ==
  /\ \E key \in keys : \E i \in FindByKey(key) :
       entries' = [entries EXCEPT ![i].active = FALSE]
  /\ UNCHANGED <<count, cwd>>
=============================================================================
