----------------------------- MODULE MCUpdater -----------------------------
(* The updater with one window that is followed and one that only calls.    *)
EXTENDS Updater, TLC
=============================================================================
