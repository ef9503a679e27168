------------------------------ MODULE FdFiles ------------------------------
(***************************************************************************)
(* Files behind descriptors (src/engine/src/fd_canvas_bridge.c and the     *)
(* file branches of fd.c): a registry gives each path a slot of CanvasFS,  *)
(* of which module SlotStore says what it promises, and a descriptor has a *)
(* cursor of its own in the data of that slot.  A write reads the whole    *)
(* slot, lays the new bytes over it and writes it back.                    *)
(*                                                                         *)
(* Descriptors are the file entries of one process, see FdTable for the    *)
(* tables and for pipes.  A slot of the store may be refused at any time,  *)
(* for want of a slot, of a tile or of an open gate.  Cursors stay within  *)
(* the 1024 bytes a write works on: beyond them the code subtracts the     *)
(* cursor from a smaller end.                                              *)
(***************************************************************************)
EXTENDS Integers, Sequences, FiniteSets

CONSTANTS Fds,            \* descriptors from 3 on
          Keys,           \* slots of the volume, records with the volume they are in
          NoKey,          \* of a descriptor that was opened without a path of the registry
          NoFile,         \* what a free slot holds
          Paths,
          LongPaths,      \* paths of more than 63 bytes, which the registry cuts
          FILE_REG_MAX,   \* entries of the registry (64)
          PAYLOAD,        \* bytes of a file at most (1024)
          Bytes,          \* bytes that are written
          FlagArgs,       \* the combinations of flags that files are opened with
          MaxLen          \* bound of the model: the longest data of one call

ASSUME FilesAssumption == /\ Fds \subseteq Nat /\ IsFiniteSet(Fds)
                          /\ FILE_REG_MAX \in Nat /\ PAYLOAD \in Nat /\ MaxLen \in Nat
                          /\ LongPaths \subseteq Paths
                          /\ NoKey \notin Keys

ASSUME FlagAssumption == FlagArgs \subseteq SUBSET {"read", "write", "append", "create"} \ {{}}

VARIABLES desc,     \* the descriptors
          registry, \* g_file_reg, in the order of its entries
          file      \* the data of each slot

vars == <<desc, registry, file>>

Data == UNION {[1 .. n -> Bytes] : n \in 1 .. MaxLen}
Contents == UNION {[1 .. n -> Bytes \cup {0}] : n \in 0 .. PAYLOAD}

Store == INSTANCE SlotStore WITH stored <- file, Data <- Contents, Empty <- <<>>, Free <- NoFile

(* O_READ, O_WRITE, O_APPEND, O_CREATE *)
READ == "read"
WRITE == "write"
APPEND == "append"
CREATE == "create"

Desc(key, flags, cursor) == [key |-> key, flags |-> flags, cursor |-> cursor]
NoDesc == Desc(NoKey, {}, 0)    \* an entry that is not active
IsOpen(fd) == desc[fd].flags # {}

Least(a, b) == IF a < b THEN a ELSE b
Greatest(a, b) == IF a < b THEN b ELSE a

FreeFds == {fd \in Fds : ~IsOpen(fd)}
FirstFd == CHOOSE fd \in FreeFds : \A g \in FreeFds : fd <= g

(* fd_open, then fd_bind_key; without a free entry nothing is opened. *)
Opens(key, flags) ==
  desc' = IF FreeFds = {} THEN desc ELSE [desc EXCEPT ![FirstFd] = Desc(key, flags, 0)]

(* reg_find compares the whole path with names that were cut. *)
FoundLater(path) == {n \in DOMAIN registry : n > 1 /\ path \notin LongPaths /\ registry[n].name = path}    \* mutant: starts at the second entry
Found(path) == {n \in DOMAIN registry : path \notin LongPaths /\ registry[n].name = path}
Entry(path, key) == [name |-> path, cut |-> path \in LongPaths, key |-> key]

Init == /\ desc = [fd \in Fds |-> NoDesc]
        /\ registry = <<>>
        /\ file = [k \in Keys |-> NoFile]

OpenFound(path, flags) ==
  \E n \in Found(path) : /\ Opens(registry[n].key, flags)
                         /\ UNCHANGED <<registry, file>>

Names(path, k) == Append(registry, Entry(path, k))

OpenCreates(path, flags) ==
  /\ Found(path) = {}
  /\ CREATE \in flags
  /\ Len(registry) < FILE_REG_MAX
  /\ \E k \in Keys : /\ Store!Take(k)
                     /\ registry' = Names(path, k)
                     /\ Opens(k, flags)

(* The registry is full: the slot stays taken, without a name. *)
OpenUnnamed(path, flags) ==
  /\ Found(path) = {}
  /\ CREATE \in flags
  /\ Len(registry) = FILE_REG_MAX
  /\ \E k \in Keys : Store!Take(k)
  /\ UNCHANGED <<desc, registry>>

(* fd_open by itself opens no file. *)
OpenUnbound(flags) == FreeFds # {} /\ Opens(NoKey, flags) /\ UNCHANGED <<registry, file>>

Contains(fd) == IF desc[fd].key = NoKey THEN <<>> ELSE file[desc[fd].key]

ReadLength(fd, len) == Least(len, Len(Contains(fd)) - desc[fd].cursor)
Read(fd, len) == /\ READ \in desc[fd].flags
                 /\ desc[fd].cursor < Len(Contains(fd))
                 /\ desc' = [desc EXCEPT ![fd].cursor = @ + ReadLength(fd, len)]
                 /\ UNCHANGED <<registry, file>>

StartIgnoringAppend(fd) == desc[fd].cursor    \* mutant: O_APPEND has no effect
Start(fd) == IF APPEND \in desc[fd].flags THEN Len(Contains(fd)) ELSE desc[fd].cursor

EndUncut(fd, data) == Start(fd) + Len(data)    \* mutant: the end of the payload is ignored
End(fd, data) == Least(Start(fd) + Len(data), PAYLOAD)

(* The payload of a write, zeros where nothing was read or written. *)
LaidOverCut(old, data, start, end) ==    \* mutant: what is behind the write is cut off
  [i \in 1 .. end |-> IF i > start THEN data[i - start] ELSE IF i <= Len(old) THEN old[i] ELSE 0]
LaidOver(old, data, start, end) ==
  [i \in 1 .. Greatest(Len(old), end) |->
     IF i \in start + 1 .. end THEN data[i - start]
     ELSE IF i <= Len(old) THEN old[i] ELSE 0]

Write(fd, data) ==
  /\ WRITE \in desc[fd].flags
  /\ desc[fd].key # NoKey
  /\ Store!Write(desc[fd].key, LaidOver(Contains(fd), data, Start(fd), End(fd, data)))
  /\ desc' = [desc EXCEPT ![fd].cursor = End(fd, data)]
  /\ UNCHANGED registry

(* fs_write is refused after O_APPEND has moved the cursor. *)
WriteFails(fd) ==
  /\ WRITE \in desc[fd].flags
  /\ desc[fd].key # NoKey
  /\ desc' = [desc EXCEPT ![fd].cursor = Start(fd)]
  /\ UNCHANGED <<registry, file>>

Seek(fd, offset) == /\ IsOpen(fd)
                    /\ desc' = [desc EXCEPT ![fd].cursor = offset]
                    /\ UNCHANGED <<registry, file>>

Close(fd) == /\ IsOpen(fd)
             /\ desc' = [desc EXCEPT ![fd] = NoDesc]
             /\ UNCHANGED <<registry, file>>

(* The copy has a cursor of its own. *)
Dup(old, new) == desc' = [desc EXCEPT ![new] = desc[old]] /\ UNCHANGED <<registry, file>>

Next == \/ \E flags \in FlagArgs : \/ OpenUnbound(flags)
                                   \/ \E path \in Paths : \/ OpenFound(path, flags)
                                                          \/ OpenCreates(path, flags)
                                                          \/ OpenUnnamed(path, flags)
        \/ \E fd \in Fds : \/ \E len \in 1 .. MaxLen : Read(fd, len)
                           \/ \E data \in Data : Write(fd, data)
                           \/ WriteFails(fd)
                           \/ \E offset \in 0 .. PAYLOAD : Seek(fd, offset)
                           \/ Close(fd)
                           \/ \E new \in Fds : Dup(fd, new)

Spec == Init /\ [][Next]_vars
-----------------------------------------------------------------------------
Allocated == {k \in Keys : file[k] # NoFile}
Named == {registry[n].key : n \in DOMAIN registry}

(* Cursors and lengths stay within the payload. *)
TypeOK ==
  /\ \A fd \in Fds : /\ desc[fd].key \in Keys \cup {NoKey}
                     /\ desc[fd].cursor \in 0 .. PAYLOAD
                     /\ desc[fd].flags \in FlagArgs \cup {{}}
  /\ Len(registry) <= FILE_REG_MAX
  /\ \A k \in Allocated : file[k] \in Contents


(* A write never makes a file shorter and touches no byte but those it     *)
(* writes, which with O_APPEND are all behind those of other descriptors,  *)
(* wherever they have written meanwhile (fd_canvas_bridge.c:111-129).      *)
BytesKept ==
  [][\A fd \in Fds, data \in Data :
       Write(fd, data) =>
         LET old == Contains(fd)
             new == file'[desc[fd].key]
             from == IF APPEND \in desc[fd].flags THEN Len(old) ELSE desc[fd].cursor
         IN /\ Len(new) >= Len(old)
            /\ \A i \in DOMAIN old : i \notin from + 1 .. from + Len(data) => new[i] = old[i]]_vars
=============================================================================
