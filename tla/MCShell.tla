------------------------------ MODULE MCShell ------------------------------
EXTENDS Shell
(* /proc/self.                                                             *)
MCAsked == {<<PROC_GATE, Self>>}
=============================================================================
