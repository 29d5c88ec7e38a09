---------------------------- MODULE OperationSlot ----------------------------
(***************************************************************************)
(* What the application promises of a service that runs one operation at   *)
(* a time: an operation is begun by an owner when the slot is free, may be *)
(* asked to stop once, and gives the slot back exactly once, with a        *)
(* terminal status that stays until the next operation begins.             *)
(*                                                                         *)
(* Diagnostics implements it with a worker thread, child processes and     *)
(* deadlines; the mapping is in that module.                               *)
(***************************************************************************)
EXTENDS Naturals

CONSTANTS Owners,       \* who may begin an operation
          Terminal      \* the statuses an operation may end with

VARIABLES holder,       \* the owner of the last operation, or "nobody"
          held,         \* TRUE while that operation has the slot
          status        \* "running", "cancelling" or a terminal status

slotVars == <<holder, held, status>>

Init ==
    /\ holder = "nobody"
    /\ held = FALSE
    /\ status = "none"

Begin(o) ==
    /\ ~held
    /\ holder' = o
    /\ held' = TRUE
    /\ status' = "running"

Cancel ==
    /\ held
    /\ status = "running"
    /\ status' = "cancelling"
    /\ UNCHANGED <<holder, held>>

\* An operation that was asked to stop never ends as completed.
Release(s) ==
    /\ held
    /\ status = "cancelling" => s \in {"cancelled", "failed"}
    /\ held' = FALSE
    /\ status' = s
    /\ UNCHANGED holder

Next ==
    \/ \E o \in Owners : Begin(o)
    \/ Cancel
    \/ \E s \in Terminal : Release(s)

Spec ==
    /\ Init
    /\ [][Next]_slotVars
    /\ WF_slotVars(\E s \in Terminal : Release(s))
=============================================================================
