---------------------------- MODULE MCScheduler ----------------------------
(* Two instances of the scheduler, one of which is chosen at the start: in *)
(* one processes exchange messages, in the other they have all kinds of    *)
(* gates and energies.                                                     *)
EXTENDS Scheduler

VARIABLE mailing
MCInit == Init /\ mailing \in BOOLEAN
MCNext ==
  /\ UNCHANGED mailing
  /\ \/ mailing /\ \/ Spawn({0, 1}, 1, 1)
                   \/ \E pid \in Pids : RecvSome(pid) \/ \E m \in Messages : Send(pid, m)
     \/ ~mailing /\ \/ \E space \in Spaces, energy \in Energies, max \in Energies : Spawn(space, energy, max)
                    \/ \E pid \in Pids, amount \in Amounts : Recharge(pid, amount)
     \/ Tick
     \/ \E pid \in Pids : Kill(pid) \/ RecvNone(pid)
MCSpec == MCInit /\ [][MCNext]_<<vars, mailing>>
=============================================================================
