---------------------------- MODULE MCProcTable ----------------------------
(* Values of the constants of ProcTable for model checking. *)
EXTENDS ProcTable

\* one mask, which asks for SIG_KILL too
MCMaskArgs == {{SIG_KILL, SIG_SEGV}}
=============================================================================
