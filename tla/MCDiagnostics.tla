---------------------------- MODULE MCDiagnostics ----------------------------
(***************************************************************************)
(* Diagnostics for TLC, and the mutants of its definitions.                *)
(***************************************************************************)
EXTENDS Diagnostics

\* Nothing is registered, or both formats are.
MCReady == {{}, {"hwp", "hwpx"}}
=============================================================================
