------------------------------ MODULE Mailbox ------------------------------
(***************************************************************************)
(* What the messages of src/engine/src/scheduler.c amount to: a mailbox    *)
(* for each process, in which messages may get lost at any time before     *)
(* they are read, but where those that are read come out in the order in   *)
(* which they were sent, once, and at the process they were sent to.       *)
(***************************************************************************)
EXTENDS Naturals, Sequences, SequencesExt

CONSTANTS Pids, Messages, NoMessage

VARIABLES mail,   \* the messages of each process that can still be read
          got     \* what the last call to receive returned

mailVars == <<mail, got>>

(* What may be left of a mailbox: some of its messages, in their order. *)
Remains(s) == {LET kept == SetToSortSeq(D, <) IN [n \in 1 .. Len(kept) |-> s[kept[n]]] :
                 D \in SUBSET DOMAIN s}

Lossy(old, new) == \A p \in Pids : new[p] \in Remains(old[p])

Init == mail = [p \in Pids |-> <<>>] /\ got = NoMessage

(* A message is sent; it and others may be lost. *)
Send(p, m) == \E kept \in Remains(mail[p]) :
                /\ mail' = [mail EXCEPT ![p] = Append(kept, m)]
                /\ UNCHANGED got

SendOver(p, q, m) == /\ p # q
                     /\ \E kept \in Remains(mail[q]) :
                          mail' = [mail EXCEPT ![p] = Append(@, m), ![q] = kept]
                     /\ UNCHANGED got

Lose == /\ DOMAIN mail' = Pids
        /\ Lossy(mail, mail')
        /\ UNCHANGED got

Recv(p) == /\ mail[p] # <<>>
           /\ got' = Head(mail[p])
           /\ mail' = [mail EXCEPT ![p] = Tail(@)]

RecvNone(p) == /\ mail[p] = <<>>
               /\ got' = NoMessage
               /\ UNCHANGED mail

Next == \/ Lose
        \/ \E p \in Pids : \/ \E m \in Messages : \/ Send(p, m)
                                                  \/ \E q \in Pids : SendOver(p, q, m)
                           \/ Recv(p)
                           \/ RecvNone(p)

Spec == Init /\ [][Next]_mailVars
=============================================================================
