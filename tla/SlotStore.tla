----------------------------- MODULE SlotStore -----------------------------
(***************************************************************************)
(* What the volumes of src/engine/src/canvasfs.c promise to their users: a *)
(* slot is free or holds data, and a call changes one slot only, except    *)
(* that making a volume anew frees the slots of that volume.               *)
(***************************************************************************)
CONSTANTS Keys,    \* the slots, records with the volume they are in
          Data,    \* what can be written
          Empty,   \* the data of a slot nothing was written to
          Free     \* of a slot that holds no data

VARIABLE stored    \* the data of each slot

Init == stored = [k \in Keys |-> Free]

Take(k) == /\ stored[k] = Free
           /\ stored' = [stored EXCEPT ![k] = Empty]

Write(k, d) == /\ stored[k] # Free
               /\ stored' = [stored EXCEPT ![k] = d]

Release(k) == stored' = [stored EXCEPT ![k] = Free]

(* A volume is made, or made anew: its slots are free. *)
Format(v) == stored' = [k \in Keys |-> IF k.volume = v THEN Free ELSE stored[k]]

Next == \E k \in Keys : \/ Take(k)
                        \/ \E d \in Data : Write(k, d)
                        \/ Release(k)
                        \/ Format(k.volume)

Spec == Init /\ [][Next]_stored
=============================================================================
