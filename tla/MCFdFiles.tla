----------------------------- MODULE MCFdFiles -----------------------------
(* The slots of FdFiles for model checking, all of one volume. *)
EXTENDS FdFiles

KeysVal == [volume : {7}, slot : 0 .. 2]
=============================================================================
