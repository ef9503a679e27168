------------------------------ MODULE FdTable ------------------------------
(***************************************************************************)
(* The descriptor tables of CanvasOS (src/engine/src/fd.c) over the pipes  *)
(* of module Pipe.  Every process has a table; descriptors 0 to 2 are the  *)
(* terminal and are never given out.  A pipe descriptor is one end of a    *)
(* pipe, but closing either end closes the pipe, and fd_dup copies an      *)
(* entry over another one without closing it.                              *)
(*                                                                         *)
(* What is read and written through file descriptors is in module FdFiles, *)
(* here they only take entries of the table.  A pipe descriptor exists     *)
(* only once fd_pipe_create has set g_fd_pipes, which is not modelled.     *)
(***************************************************************************)
EXTENDS Integers, Sequences, FiniteSets

CONSTANTS PROC8_MAX,         \* processes with a table (256)
          FD_MAX_PER_PROC,   \* entries of a table (16)
          DupTargets,        \* bound of the model: the entries fd_dup copies to
          PIPE_MAX, PIPE_BUF_SIZE, Bytes, MaxLen   \* see Pipe

Pids == 0 .. PROC8_MAX - 1
Fds == 0 .. FD_MAX_PER_PROC - 1
FD_STDIN == 0
Terminal == {1, 2}    \* FD_STDOUT, FD_STDERR

ASSUME FdAssumption == PROC8_MAX \in Nat /\ FD_MAX_PER_PROC \in Nat /\ DupTargets \subseteq Fds

VARIABLES fds,    \* g_fds, the table of each process
          lost,   \* history: the pipes of which fd_dup overwrote a descriptor
          active, closed, w_cursor, r_cursor, buf, result, wh   \* see Pipe

P == INSTANCE Pipe

vars == <<fds, lost, active, closed, w_cursor, r_cursor, buf, result, wh>>
pipeVars == P!vars
pipes == <<active, closed, w_cursor, r_cursor, buf, wh>>

NoPipe == -1
Desc(type, pipe, flags) == [type |-> type, pipe |-> pipe, flags |-> flags]
NoDesc == Desc("none", NoPipe, {})    \* an entry that is not active
FileDesc == Desc("file", NoPipe, {"read", "write"})
PipeEnd(i, flag) == Desc("pipe", i, {flag})
Descs == {NoDesc, FileDesc} \cup {PipeEnd(i, flag) : i \in P!PipeIds, flag \in {"read", "write"}}

IsActive(p, f) == fds[p][f] # NoDesc
IsPipe(p, f) == fds[p][f].type = "pipe"

(* fd_find_free: the first entry from 3 on that is free. *)
FreeFds(p) == {f \in Fds : f >= 3 /\ ~IsActive(p, f)}
LeastOf(S) == CHOOSE f \in S : \A g \in S : f <= g

Init == /\ fds = [p \in Pids |-> [f \in Fds |-> NoDesc]]
        /\ lost = {}
        /\ P!Init

(* A call that fails, or that does not go to a pipe. *)
Fails == /\ result' = P!Refused
         /\ UNCHANGED <<fds, lost, pipes>>

Open(p) == /\ FreeFds(p) # {}
           /\ fds' = [fds EXCEPT ![p][LeastOf(FreeFds(p))] = FileDesc]
           /\ result' = P!Returned(0, <<>>)
           /\ UNCHANGED <<lost, pipes>>

OpenFails(p) == FreeFds(p) = {} /\ Fails

(* fd_pipe_create reserves the read end, then looks for the write end. *)
PipeCreate(p, i) ==
  LET rfd == LeastOf(FreeFds(p))
      wfd == LeastOf(FreeFds(p) \ {rfd})
  IN /\ Cardinality(FreeFds(p)) >= 2
     /\ P!Create(i)
     /\ fds' = [fds EXCEPT ![p][rfd] = PipeEnd(i, "read"), ![p][wfd] = PipeEnd(i, "write")]
     /\ UNCHANGED lost

ReservedKept(p) == IF FreeFds(p) = {} THEN fds    \* mutant: the read end stays reserved
                   ELSE [fds EXCEPT ![p][LeastOf(FreeFds(p))] = PipeEnd(0, "read")]
RolledBack(p) == fds

PipeCreateFails(p) ==
  /\ \/ Cardinality(FreeFds(p)) < 2
     \/ \A i \in P!PipeIds : active[i]
  /\ fds' = RolledBack(p)
  /\ result' = P!Refused
  /\ UNCHANGED <<lost, pipes>>

ReadsPipe(p, f) == f # FD_STDIN /\ IsPipe(p, f) /\ "read" \in fds[p][f].flags
WritesPipe(p, f) == f \notin Terminal /\ IsPipe(p, f) /\ "write" \in fds[p][f].flags

Read(p, f, len) == /\ len > 0
                   /\ ReadsPipe(p, f)
                   /\ P!Read(fds[p][f].pipe, len)
                   /\ UNCHANGED <<fds, lost>>

Write(p, f, data) == /\ data # <<>>
                     /\ WritesPipe(p, f)
                     /\ \/ P!Write(fds[p][f].pipe, data)
                        \/ P!WriteFails(fds[p][f].pipe)
                     /\ UNCHANGED <<fds, lost>>

ShutNothing(p, f) == UNCHANGED pipes    \* mutant: the pipe is not closed
Shut(p, f) == IF IsPipe(p, f)
              THEN /\ closed' = [closed EXCEPT ![fds[p][f].pipe] = TRUE]
                   /\ wh' = "PIPE_READ"
                   /\ UNCHANGED <<active, w_cursor, r_cursor, buf>>
              ELSE UNCHANGED pipes

Close(p, f) == /\ f >= 3
               /\ IsActive(p, f)
               /\ Shut(p, f)
               /\ fds' = [fds EXCEPT ![p][f] = NoDesc]
               /\ result' = P!Returned(0, <<>>)
               /\ UNCHANGED lost

(* fd_dup copies whatever is in the entry, also an entry that is not active. *)
Dup(p, old, new) ==
  /\ fds' = [fds EXCEPT ![p][new] = fds[p][old]]
  /\ lost' = lost \cup IF IsPipe(p, new) /\ fds[p][new] # fds[p][old] THEN {fds[p][new].pipe} ELSE {}
  /\ result' = P!Returned(0, <<>>)
  /\ UNCHANGED pipes

Next == \E p \in Pids :
          \/ Open(p)
          \/ OpenFails(p)
          \/ \E i \in P!PipeIds : PipeCreate(p, i)
          \/ PipeCreateFails(p)
          \/ \E f \in Fds :
               \/ \E len \in 1 .. MaxLen : Read(p, f, len)
               \/ \E data \in P!Data : Write(p, f, data)
               \/ Close(p, f)
               \/ \E new \in DupTargets : Dup(p, f, new)

Spec == Init /\ [][Next]_vars
-----------------------------------------------------------------------------
(* Tables hold descriptors, and the pipes are in order. *)
TypeOK == /\ fds \in [Pids -> [Fds -> Descs]]
          /\ lost \subseteq P!PipeIds
          /\ P!TypeOK

HeldBy(p) == {fds[p][f].pipe : f \in {g \in Fds : IsPipe(p, g)}}
Held(i, flag) == \E p \in Pids, f \in Fds : fds[p][f] = PipeEnd(i, flag)

(* A pipe belongs to one process: a descriptor that was copied and is left *)
(* behind when its pipe is closed never comes to lead to a pipe that       *)
(* another process has created since (fd.c:80).                            *)
PipesPrivate == \A p, q \in Pids : p # q => HeldBy(p) \cap HeldBy(q) = {}

(* A descriptor of a pipe leads to a pipe that was created: a creation     *)
(* that fails half-way leaves no entry behind (fd.c:74-84).                *)
EndsExist == \A p \in Pids : \A i \in HeldBy(p) : active[i]

(* A pipe that still takes bytes has a descriptor to write them and one to *)
(* read them, unless fd_dup has overwritten one: a close of one end never  *)
(* leaves the other end waiting (fd.c:164-167).                            *)
OpenPipesPaired == \A i \in P!PipeIds :
                     active[i] /\ ~closed[i] /\ i \notin lost => Held(i, "read") /\ Held(i, "write")

(* So a descriptor leads to its own process's pipe, for as long as both    *)
(* ends exist.                                                             *)
PipesSound == PipesPrivate /\ EndsExist /\ OpenPipesPaired
=============================================================================
