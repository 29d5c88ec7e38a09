---------------------------- MODULE NativePrint ----------------------------
(***************************************************************************)
(* A print on Linux (system_print.rs): the command waits for a completion  *)
(* that a signal of WebKit's print operation, the answer of its dialog or  *)
(* a watchdog sends, whichever is first.  Everything but the command runs  *)
(* on the main thread, but the dialog runs a loop of its own, in which     *)
(* signals arrive before it has returned.                                  *)
(***************************************************************************)
EXTENDS Naturals

VARIABLES stand,       \* where open_linux_print_dialog is
          operation,   \* WebKit's print operation
          completion, failure, keepalive, watchdog,  \* PrintState
          source,      \* the timeout that the watchdog's id names
          outcome      \* what print_current_webview returns

printState == <<completion, failure, keepalive, watchdog>>
printing == <<stand, operation, printState, source, outcome>>

InitPrinting ==
  /\ stand = "asked" /\ operation = "none"
  /\ completion = TRUE /\ failure = FALSE /\ keepalive = FALSE /\ watchdog = FALSE
  /\ source = "none" /\ outcome = "none"

Completes(r) == /\ completion' = FALSE
            /\ outcome' = IF completion THEN r ELSE outcome
\* A timeout that has run is gone by itself: removing it is an error of GLib.
RemoveWatchdog(timedOut) ==
  source' = CASE timedOut -> "run"
              [] ~timedOut /\ watchdog -> IF source = "armed" THEN "removed" ELSE "removed twice"
              [] OTHER -> source
\* settle_print
SettlePrint(r, timedOut) ==
  /\ Completes(r) /\ keepalive' = FALSE /\ watchdog' = FALSE
  /\ RemoveWatchdog(timedOut)

\* The window is gone, it has no GTK window, or the dialog is opened.
OpenDialog ==
  /\ stand = "asked"
  /\ \/ stand' = "returned" /\ Completes("error") /\ UNCHANGED keepalive
     \/ stand' = "dialog" /\ keepalive' = TRUE /\ UNCHANGED <<completion, outcome>>
  /\ UNCHANGED <<operation, failure, watchdog, source>>
UserPrints ==
  /\ stand = "dialog" /\ operation = "none" /\ operation' = "running"
  /\ UNCHANGED <<stand, printState, source, outcome>>
\* PrintOperationResponse::Cancel, or an answer that is not known
DialogCancelled ==
  /\ stand = "dialog" /\ operation = "none" /\ stand' = "returned"
  /\ \E r \in {"done", "error"} : SettlePrint(r, FALSE)
  /\ UNCHANGED <<operation, failure>>
\* (mutant) The dialog's return arms nothing.
NeverArm == UNCHANGED <<watchdog, source>>
\* arm_print_watchdog: not when the print is settled already
ArmWatchdog == IF completion THEN watchdog' = TRUE /\ source' = "armed"
                             ELSE UNCHANGED <<watchdog, source>>
DialogReturns ==
  /\ stand = "dialog" /\ operation # "none" /\ stand' = "returned"
  /\ ArmWatchdog
  /\ UNCHANGED <<operation, completion, failure, keepalive, outcome>>

\* The failed signal comes before the finished one, if the operation has been kept that long.
Failed ==
  /\ operation = "running" /\ operation' = "failed" /\ failure' = TRUE
  /\ UNCHANGED <<stand, completion, keepalive, watchdog, source, outcome>>
ResultOfFinished == IF failure THEN "error" ELSE "done"
Finished ==
  /\ operation \in {"running", "failed"} /\ operation' = "finished" /\ failure' = FALSE
  /\ SettlePrint(ResultOfFinished, FALSE)
  /\ UNCHANGED stand
WatchdogRuns ==
  /\ source = "armed" /\ SettlePrint("error", TRUE)
  /\ UNCHANGED <<stand, operation, failure>>

NextPrinting == \/ OpenDialog \/ UserPrints \/ DialogCancelled \/ DialogReturns
                \/ Failed \/ Finished \/ WatchdogRuns
\* Time passes and the dialog returns when it is answered; nothing is assumed of the printing.
PrintingSpec == /\ InitPrinting /\ [][NextPrinting]_printing
                /\ WF_printing(DialogReturns) /\ WF_printing(WatchdogRuns)

-----------------------------------------------------------------------------
PrintingTypeOK ==
  /\ stand \in {"asked", "dialog", "returned"}
  /\ operation \in {"none", "running", "failed", "finished"}
  /\ {completion, failure, keepalive, watchdog} \subseteq BOOLEAN
  /\ source \in {"none", "armed", "run", "removed"}
  /\ outcome \in {"none", "done", "error"}

\* While a print is not settled, WebKit's operation is kept alive, and once the dialog is closed
\* a watchdog is armed: something is left that will answer the command.
StillAnswerable ==
  completion /\ stand # "asked" => keepalive /\ (stand = "returned" => source = "armed")

\* A settled print leaves no timeout behind, and no timeout is removed after it has run.
NoStrayTimeout == (~completion => source # "armed" /\ ~watchdog) /\ (watchdog <=> source = "armed")

\* A print that WebKit reports as failed is never told as done.
FailureTold == [][operation = "failed" /\ completion /\ ~completion' => outcome' = "error"]_printing

\* A print whose dialog was answered ends, even if no signal ever comes.
PrintEnds == operation # "none" ~> outcome # "none"
=============================================================================
