-------------------------------- MODULE Pipe --------------------------------
(***************************************************************************)
(* The pipes of CanvasOS (src/engine/src/pipe.c): a table of ring buffers, *)
(* each with a write and a read cursor that wrap at the capacity.  One     *)
(* cell of a ring stays empty, so that equal cursors mean an empty pipe.   *)
(* The pids of the two ends are stored and never looked at; they are not   *)
(* modelled.                                                               *)
(***************************************************************************)
EXTENDS Integers, Sequences

CONSTANTS PIPE_MAX,       \* pipes of the table (64)
          PIPE_BUF_SIZE,  \* cells of a ring (224)
          Bytes,          \* the bytes that are written
          MaxLen          \* bound of the model: the longest data of one call

ASSUME PipeAssumption == /\ PIPE_MAX \in Nat \ {0}
                         /\ PIPE_BUF_SIZE \in Nat \ {0}
                         /\ MaxLen \in Nat
ASSUME BytesAssumption == Bytes # {}

VARIABLES active, closed,        \* flags of each Pipe
          w_cursor, r_cursor,
          buf,                   \* g_pipe_buf
          result,                \* what the last call returned and read
          wh                     \* opcode in the WhiteHole slot of the current tick

flagVars == <<active, closed>>
vars == <<active, closed, w_cursor, r_cursor, buf, result, wh>>

PipeIds == 0 .. PIPE_MAX - 1
Cells == 0 .. PIPE_BUF_SIZE - 1

Least(a, b) == IF a < b THEN a ELSE b
Returned(n, bytes) == [n |-> n, bytes |-> bytes]
Refused == Returned(-1, <<>>)

Data == UNION {[1 .. n -> Bytes] : n \in 0 .. MaxLen}

Used(i) == IF w_cursor[i] >= r_cursor[i]
           THEN w_cursor[i] - r_cursor[i]
           ELSE PIPE_BUF_SIZE - (r_cursor[i] - w_cursor[i])

FreeSpaceAll(i) == PIPE_BUF_SIZE - Used(i)    \* mutant: no cell is kept empty
FreeSpace(i) == PIPE_BUF_SIZE - 1 - Used(i)
-----------------------------------------------------------------------------
(* pipe_table_init; the buffers hold any byte where no call wrote one. *)
Init == /\ active = [i \in PipeIds |-> FALSE]
        /\ closed = [i \in PipeIds |-> FALSE]
        /\ w_cursor = [i \in PipeIds |-> 0]
        /\ r_cursor = [i \in PipeIds |-> 0]
        /\ buf = [i \in PipeIds |-> [k \in Cells |-> CHOOSE b \in Bytes : TRUE]]
        /\ result = Returned(0, <<>>)
        /\ wh = "TICK"

(* pipe_create takes the first pipe that was never created. *)
CreateReusing(i) ==    \* mutant: a closed pipe is taken again
  /\ ~active[i] \/ closed[i]
  /\ active' = [active EXCEPT ![i] = TRUE]
  /\ closed' = [closed EXCEPT ![i] = FALSE]
  /\ w_cursor' = [w_cursor EXCEPT ![i] = 0]
  /\ r_cursor' = [r_cursor EXCEPT ![i] = 0]
  /\ result' = Returned(i, <<>>)
  /\ UNCHANGED <<buf, wh>>
Create(i) ==
  /\ ~active[i]
  /\ \A j \in PipeIds : j < i => active[j]
  /\ active' = [active EXCEPT ![i] = TRUE]
  /\ closed' = [closed EXCEPT ![i] = FALSE]
  /\ w_cursor' = [w_cursor EXCEPT ![i] = 0]
  /\ r_cursor' = [r_cursor EXCEPT ![i] = 0]
  /\ result' = Returned(i, <<>>)
  /\ UNCHANGED <<buf, wh>>

CreateFails == /\ \A i \in PipeIds : active[i]
               /\ result' = Refused
               /\ UNCHANGED <<flagVars, w_cursor, r_cursor, buf, wh>>

(* The ring after n bytes of data went in at the cursor w. *)
Stored(ring, w, data, n) ==
  [k \in Cells |-> LET j == (k - w + PIPE_BUF_SIZE) % PIPE_BUF_SIZE
                   IN IF j < n THEN data[j + 1] ELSE ring[k]]

(* The n bytes that come out of the ring at the cursor r. *)
Loaded(ring, r, n) == [j \in 1 .. n |-> ring[(r + j - 1) % PIPE_BUF_SIZE]]

AdvancedUnwrapped(cursor, n) == cursor + n    \* mutant: the cursor does not wrap
Advanced(cursor, n) == (cursor + n) % PIPE_BUF_SIZE

MayWrite(i) == active[i] /\ ~closed[i]

Write(i, data) ==
  /\ MayWrite(i)
  /\ LET n == Least(Len(data), FreeSpace(i))
     IN /\ buf' = [buf EXCEPT ![i] = Stored(@, w_cursor[i], data, n)]
        /\ w_cursor' = [w_cursor EXCEPT ![i] = Advanced(@, n)]
        /\ result' = Returned(n, <<>>)
  /\ wh' = "PIPE_WRITE"
  /\ UNCHANGED <<flagVars, r_cursor>>

WriteFails(i) == /\ ~MayWrite(i)
                 /\ result' = Refused
                 /\ UNCHANGED <<flagVars, w_cursor, r_cursor, buf, wh>>

Read(i, len) ==
  /\ active[i]
  /\ LET n == Least(len, Used(i))
     IN /\ r_cursor' = [r_cursor EXCEPT ![i] = Advanced(@, n)]
        /\ result' = Returned(n, Loaded(buf[i], r_cursor[i], n))
  /\ wh' = "PIPE_READ"
  /\ UNCHANGED <<flagVars, w_cursor, buf>>

ReadFails(i) == /\ ~active[i]
                /\ result' = Refused
                /\ UNCHANGED <<flagVars, w_cursor, r_cursor, buf, wh>>

(* pipe_close: any pipe of the table; its record is that of a read. *)
Close(i) == /\ closed' = [closed EXCEPT ![i] = TRUE]
            /\ wh' = "PIPE_READ"
            /\ UNCHANGED <<active, w_cursor, r_cursor, buf, result>>

Next == \/ CreateFails
        \/ \E i \in PipeIds :
             \/ Create(i)
             \/ \E data \in Data : Write(i, data)
             \/ WriteFails(i)
             \/ \E len \in 0 .. MaxLen : Read(i, len)
             \/ ReadFails(i)
             \/ Close(i)

Spec == Init /\ [][Next]_vars
-----------------------------------------------------------------------------
(* The cursors stay in the ring and the results in their type. *)
TypeOK == /\ active \in [PipeIds -> BOOLEAN]
          /\ closed \in [PipeIds -> BOOLEAN]
          /\ w_cursor \in [PipeIds -> Cells]
          /\ r_cursor \in [PipeIds -> Cells]
          /\ buf \in [PipeIds -> [Cells -> Bytes]]
          /\ result \in [n : Int, bytes : Data]
          /\ wh \in {"TICK", "PIPE_WRITE", "PIPE_READ"}

(* Through every wrap of the cursors and for every split of the bytes over *)
(* the calls, each pipe is a bounded first-in first-out stream: no byte is *)
(* lost, repeated, reordered or overwritten before it is read, and none is *)
(* accepted after the close.                                               *)
Stream == INSTANCE Fifo
            WITH Room <- PIPE_BUF_SIZE - 1,
                 state <- [i \in PipeIds |-> IF ~active[i] THEN "none"
                                             ELSE IF closed[i] THEN "closed" ELSE "open"],
                 queue <- [i \in PipeIds |-> Loaded(buf[i], r_cursor[i], Used(i))]
StreamSpec == Stream!Spec
=============================================================================
