------------------------------ MODULE PidPool ------------------------------
(***************************************************************************)
(* What the process table of src/engine/src/proc.c promises to the rest of *)
(* the system: slots are handed out one at a time to ever-increasing pids, *)
(* a slot that is in use is never handed out again before it is given      *)
(* back, a pid is never issued twice, and init keeps its slot for ever.    *)
(* ProcTable implements this specification.                                *)
(***************************************************************************)
EXTENDS Naturals

CONSTANTS Slots,   \* the slots of the table; slot 0 belongs to init
          NoPid    \* the pid written in a free slot

VARIABLES owner,   \* the pid that holds each slot, or NoPid
          next     \* the next pid to issue

poolVars == <<owner, next>>

Init == /\ owner = [s \in Slots |-> IF s = 0 THEN 0 ELSE NoPid]
        /\ next = 1

Issue(s) == /\ owner[s] = NoPid
            /\ owner' = [owner EXCEPT ![s] = next]
            /\ next' = next + 1

Reclaim(s) == /\ s # 0
              /\ owner[s] # NoPid
              /\ owner' = [owner EXCEPT ![s] = NoPid]
              /\ UNCHANGED next

Next == \E s \in Slots : Issue(s) \/ Reclaim(s)

Spec == Init /\ [][Next]_poolVars
=============================================================================
