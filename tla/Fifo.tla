-------------------------------- MODULE Fifo --------------------------------
(***************************************************************************)
(* What a pipe of src/engine/src/pipe.c promises: a bounded stream of      *)
(* bytes.  A write appends as many bytes as fit and says how many, a read  *)
(* takes bytes from the front in the order they were written, also after   *)
(* the pipe was closed, and a closed pipe accepts no byte.                 *)
(***************************************************************************)
EXTENDS Integers, Sequences

CONSTANTS PipeIds,   \* the pipes of the table
          Room,      \* bytes a pipe holds at most
          Bytes,
          MaxLen     \* bytes of one call at most

VARIABLES state,     \* "none", "open" or "closed"
          queue,     \* the bytes written and not yet read
          result     \* what the last call returned, with the bytes it read

fifoVars == <<state, queue, result>>

Least(a, b) == IF a < b THEN a ELSE b
Returned(n, bytes) == [n |-> n, bytes |-> bytes]
Refused == Returned(-1, <<>>)

Data == UNION {[1 .. n -> Bytes] : n \in 0 .. MaxLen}

Init == /\ state = [i \in PipeIds |-> "none"]
        /\ queue = [i \in PipeIds |-> <<>>]
        /\ result = Returned(0, <<>>)

Create(i) == /\ state[i] = "none"
             /\ state' = [state EXCEPT ![i] = "open"]
             /\ result' = Returned(i, <<>>)
             /\ UNCHANGED queue

Refuse == /\ result' = Refused
          /\ UNCHANGED <<state, queue>>

Write(i, data) ==
  /\ state[i] = "open"
  /\ LET n == Least(Len(data), Room - Len(queue[i]))
     IN /\ queue' = [queue EXCEPT ![i] = @ \o SubSeq(data, 1, n)]
        /\ result' = Returned(n, <<>>)
  /\ UNCHANGED state

Read(i, len) ==
  /\ state[i] # "none"
  /\ LET n == Least(len, Len(queue[i]))
     IN /\ queue' = [queue EXCEPT ![i] = SubSeq(@, n + 1, Len(@))]
        /\ result' = Returned(n, SubSeq(queue[i], 1, n))
  /\ UNCHANGED state

Close(i) == /\ state[i] = "open"
            /\ state' = [state EXCEPT ![i] = "closed"]
            /\ UNCHANGED <<queue, result>>

Next == \/ Refuse
        \/ \E i \in PipeIds :
             \/ Create(i)
             \/ \E data \in Data : Write(i, data)
             \/ \E len \in 0 .. MaxLen : Read(i, len)
             \/ Close(i)

Spec == Init /\ [][Next]_fifoVars
=============================================================================
