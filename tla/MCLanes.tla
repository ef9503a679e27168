------------------------------ MODULE MCLanes ------------------------------
(* Bounded inputs of Lanes: cells that are short of energy or inert, and   *)
(* events for this tick, for the next one, or for the slot of this tick    *)
(* one turn of the ring later.                                             *)
EXTENDS Lanes

Tiles3 == <<0, 1, 1>>
Content(lane, g, kind) == [A |-> lane, G |-> g, BR |-> kind]
LoadsVal == {Content(0, 2, "op"), Content(1, 0, "op"), Content(1, 1, "rule")}
Pushed(n, dev) == [ahead |-> n, lane |-> 1, dev |-> dev, len |-> 1 - (n % 2)]
PushesVal == {Pushed(0, "keydown"), Pushed(0, "fs_done"), Pushed(1, "keydown"), Pushed(WH_CAP, "fs_done")}
=============================================================================
