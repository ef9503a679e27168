-------------------------------- MODULE Shell --------------------------------
(***************************************************************************)
(* The shell (src/engine/src/shell.c) over the directory tree of Paths: a  *)
(* line is a pipeline of stages; shell_exec_pipe runs the first stage and  *)
(* calls itself for the rest, so that every pipe of the line has a frame   *)
(* with two children of the shell and a pipe.  A stage is a command, with  *)
(* a redirection or without.  What a command is, is chosen when it runs.   *)
(* A line with ";" is as good as its segments one after the other.         *)
(***************************************************************************)
EXTENDS Paths

CONSTANTS sh,               \* the context of the shell, PID_SHELL
          Asked,            \* <<gate, id>> of the virtual paths that are asked for
          Vars, Values, SHELL_VAR_MAX,
          Pids,             \* names for children of the shell
          PROC_FREE,        \* places of the process table that others leave
          PIPE_MAX, FD_FREE,
          MaxStages         \* bound of the check: stages of a line

ASSUME ShellAssumption == sh \in Contexts /\ PROC_FREE \in Nat /\ MaxStages \in Nat

VARIABLES left,       \* stages of the line that are still to run
          entered,    \* is the next of them the left side of the last frame?
          frames,     \* the pipelines that are under way
          children,   \* children of the shell: "alive" or "zombie"
          made,       \* pipes that were ever made
          open,       \* pipes that are open
          fds,        \* descriptors of the shell that are open
          vars, running,
          leaked      \* children that were left behind (history)

lineVars == <<left, entered, frames>>
procVars == <<children, leaked>>
pipeVars == <<made, open>>
setVars == <<vars, running>>
allVars == <<pathVars, lineVars, procVars, pipeVars, fds, setVars>>

Frames == [l : Pids, r : Pids, pipe : 1..PIPE_MAX]

TypeOK ==
  /\ left \in 0..MaxStages /\ entered \in BOOLEAN
  /\ \A i \in DOMAIN frames : frames[i] \in Frames
  /\ DOMAIN children \subseteq Pids /\ \A p \in DOMAIN children : children[p] \in {"alive", "zombie"}
  /\ made \in 0..PIPE_MAX /\ open \subseteq 1..made
  /\ fds \in 0..FD_FREE
  /\ DOMAIN vars \subseteq Vars /\ Cardinality(DOMAIN vars) <= SHELL_VAR_MAX
  /\ \A v \in DOMAIN vars : vars[v] \in Values
  /\ running \in BOOLEAN
  /\ count \in 1..PATH_DIR_MAX
  /\ \A i \in Dirs : entries[i].key \in {ROOT_KEY} \cup {NewKey(n) : n \in 2..PATH_DIR_MAX}

Init ==
  /\ PathInit
  /\ left = 0 /\ entered = FALSE /\ frames = <<>>
  /\ children = [p \in {} |-> "alive"] /\ leaked = 0
  /\ made = 0 /\ open = {}
  /\ fds = 0
  /\ vars = [v \in {} |-> ""] /\ running = TRUE

Without(f, x) == [y \in DOMAIN f \ {x} |-> f[y]]
With(f, x, v) == [y \in DOMAIN f \cup {x} |-> IF y = x THEN v ELSE f[y]]

(* shell_exec_line is given a line; a line of no stages is a comment.      *)
Submit(n) ==
  /\ running /\ left = 0 /\ frames = <<>>
  /\ left' = n
  /\ UNCHANGED <<pathVars, entered, frames, procVars, pipeVars, fds, setVars>>

(* shell_exec_pipe, up to its left side: two children and a pipe.  What    *)
(* was made before the step that fails stays.                              *)
FreshPids == Pids \ (DOMAIN children \cup UNION {{frames[i].l, frames[i].r} : i \in DOMAIN frames})
AbandonedStage == UNCHANGED <<left, entered, frames>>   \* mutant: the rest of the line is not given up
Abandoned == left' = 0 /\ entered' = FALSE /\ UNCHANGED frames
Enter ==
  /\ left > 1 /\ ~entered
  /\ Cardinality(DOMAIN children) + 2 <= PROC_FREE
  /\ LET l == Min(FreshPids)
         r == Min(FreshPids \ {l}) IN
       /\ children' = With(With(children, l, "alive"), r, "alive")
       /\ IF made < PIPE_MAX
          THEN /\ made' = made + 1 /\ open' = open \cup {made + 1}
               /\ frames' = Append(frames, [l |-> l, r |-> r, pipe |-> made + 1])
               /\ entered' = TRUE
               /\ UNCHANGED <<left, leaked>>
          ELSE Abandoned /\ leaked' = leaked + 2 /\ UNCHANGED pipeVars
  /\ UNCHANGED <<pathVars, fds, setVars>>

EnterFails ==
  /\ left > 1 /\ ~entered
  /\ Cardinality(DOMAIN children) + 2 > PROC_FREE
  /\ IF Cardinality(DOMAIN children) < PROC_FREE
     THEN children' = With(children, Min(FreshPids), "alive") /\ leaked' = leaked + 1
     ELSE UNCHANGED procVars
  /\ Abandoned
  /\ UNCHANGED <<pathVars, pipeVars, fds, setVars>>

(* shell_exec_redir: ">" runs the command and opens the file after it; the *)
(* descriptor is closed only when something was printed.  "<" opens,       *)
(* closes and runs.                                                        *)
OutputPast(redir, prints, opens) == fds' = IF redir = ">" /\ opens /\ ~prints THEN fds + 1 ELSE fds   \* mutant
Output(redir, prints, opens) ==
  fds' = IF redir = ">" /\ opens /\ ~prints /\ fds < FD_FREE THEN fds + 1 ELSE fds

(* The commands of shell_exec_builtin that change the state of the shell.  *)
Silent(cmd) == cmd # "echo"
Echo == UNCHANGED <<pathVars, children, setVars>>
SetVar ==
  /\ \E v \in Vars, value \in Values :
       vars' = IF v \in DOMAIN vars \/ Cardinality(DOMAIN vars) < SHELL_VAR_MAX THEN With(vars, v, value) ELSE vars
  /\ UNCHANGED <<pathVars, children, running>>
Exit == running' = FALSE /\ UNCHANGED <<pathVars, children, vars>>
Kill ==
  /\ \E p \in DOMAIN children : children' = [children EXCEPT ![p] = "zombie"]
  /\ UNCHANGED <<pathVars, setVars>>
PathSet == [from : {"/", "~", "."}, names : {<<>>} \cup {<<n>> : n \in Names \cup {".."}}]
Resolved == {PathResolve(sh, path) : path \in PathSet} \cup {Virtual(sh, v[1], v[2]) : v \in Asked}
Directories ==
  /\ \/ \E name \in Names : Counts(count + 1) /\ PathMkdir(sh, name)
     \/ \E keys \in Resolved : PathCd(sh, keys) \/ PathRm(sh, keys)
  /\ UNCHANGED <<children, setVars>>
Commands == {"echo", "other"}
Command(cmd) == IF cmd = "echo" THEN Echo ELSE SetVar \/ Exit \/ Kill \/ Directories \/ Echo

Run(cmd, redir, opens) ==
  /\ left > 0 /\ (left > 1 => entered)
  /\ IF redir = "<" /\ ~(opens /\ fds < FD_FREE)
     THEN UNCHANGED <<pathVars, children, setVars, fds>>
     ELSE Command(cmd) /\ Output(redir, ~Silent(cmd), opens)
  /\ left' = left - 1 /\ entered' = FALSE
  /\ UNCHANGED <<frames, leaked, pipeVars>>

(* shell_exec_pipe, after its right side: the pipe is closed, both         *)
(* children exit, and as many zombies of the shell are waited for, the     *)
(* first in the table, whoever they are.                                   *)
Exited(f) == [p \in DOMAIN children |-> IF p \in {f.l, f.r} THEN "zombie" ELSE children[p]]
Zombies(c) == {p \in DOMAIN c : c[p] = "zombie"}
Reaped(c) == UNION {IF Zombies(d) = {} THEN {d} ELSE {Without(d, p) : p \in Zombies(d)} :
                      d \in IF Zombies(c) = {} THEN {c} ELSE {Without(c, p) : p \in Zombies(c)}}
Leave ==
  /\ left = 0 /\ frames # <<>>
  /\ children' \in Reaped(Exited(Last(frames)))
  /\ open' = open \ {Last(frames).pipe}
  /\ frames' = Front(frames)
  /\ UNCHANGED <<pathVars, left, entered, leaked, made, fds, setVars>>

Next ==
  \/ \E n \in 1..MaxStages : Submit(n)
  \/ Enter \/ EnterFails \/ Leave
  \/ \E cmd \in Commands, redir \in {"", ">", "<"}, opens \in BOOLEAN : Run(cmd, redir, opens)

Spec == Init /\ [][Next]_allVars /\ WF_allVars(Enter \/ EnterFails \/ Leave \/ Run("echo", "", TRUE))

-----------------------------------------------------------------------------

(* find_entry, find_by_key, path_mkdir: the scan reaches every directory,  *)
(* no two of one parent have one name; and the key of a new one never had  *)
(* another use, not as the place somebody is in nor as the parent of what  *)
(* is left of a directory that was removed, although places are used       *)
(* again.                                                                  *)
AllFound ==
  \A i, j \in Dirs : entries[i].active /\ entries[j].active =>
     /\ i < count
     /\ entries[i].name = entries[j].name /\ entries[i].parent = entries[j].parent => i = j

(* shell_exec_line comes back: a line that was started ends, its pipelines *)
(* included.                                                               *)
LinesEnd == left > 0 ~> left = 0 /\ frames = <<>>
=============================================================================
