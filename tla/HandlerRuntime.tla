-------------------------- MODULE HandlerRuntime --------------------------
(***************************************************************************)
(* How a window gets the handlers of the studio (embed/desktop-runtime.ts).*)
(* Callers wait in a set that the active registration owns, or in one that *)
(* no registration owns yet; a registration answers its waiters in a       *)
(* microtask, may be replaced by the next one or disposed before that, and *)
(* a waiter may time out first.                                            *)
(***************************************************************************)
EXTENDS FiniteSets

CONSTANTS Callers, Runtimes,
          NoRuntime          \* activeRegistration = null, and the owner of pendingHandlerWaiters

ASSUME RuntimeAssumption == NoRuntime \notin Runtimes

VARIABLES installed,  \* registrations that have been made
          current,    \* activeRegistration
          disposed,
          scheduled,  \* resolutionScheduled
          waiter,     \* what each caller's promise is
          owner,      \* the set a waiting caller is in
          got         \* the registration whose handlers it was resolved with

waiters == <<waiter, owner, got>>
handing == <<installed, current, disposed, scheduled, waiters>>

InitHanding ==
  /\ installed = {} /\ current = NoRuntime /\ disposed = {} /\ scheduled = {}
  /\ waiter = [c \in Callers |-> "idle"]
  /\ owner = [c \in Callers |-> NoRuntime] /\ got = [c \in Callers |-> NoRuntime]

OwnedBy(r) == {c \in Callers : waiter[c] = "waiting" /\ owner[c] = r}
\* settleHandlerWaiters with an error; a settled waiter leaves its set
Reject(cs) == /\ waiter' = [c \in Callers |-> IF c \in cs THEN "rejected" ELSE waiter[c]]
              /\ owner' = [c \in Callers |-> IF c \in cs THEN NoRuntime ELSE owner[c]]

\* waitForDesktopStudioHandlers
WaitForHandlers(c) ==
  /\ waiter[c] # "waiting"
  /\ waiter' = [waiter EXCEPT ![c] = "waiting"] /\ owner' = [owner EXCEPT ![c] = current]
  /\ got' = [got EXCEPT ![c] = NoRuntime]
  /\ scheduled' = scheduled \cup ({current} \ {NoRuntime})
  /\ UNCHANGED <<installed, current, disposed>>
TimesOut(c) ==
  /\ waiter[c] = "waiting" /\ Reject({c})
  /\ UNCHANGED <<installed, current, disposed, scheduled, got>>

\* previousRegistration?.dispose(), then adoptPendingWaiters
ReplacePrevious(r) ==
  LET rejected == IF current = NoRuntime THEN {} ELSE OwnedBy(current) IN
  /\ disposed' = disposed \cup ({current} \ {NoRuntime})
  /\ waiter' = [c \in Callers |-> IF c \in rejected THEN "rejected" ELSE waiter[c]]
  /\ owner' = [c \in Callers |-> IF c \in rejected THEN NoRuntime
                                 ELSE IF c \in OwnedBy(NoRuntime) THEN r ELSE owner[c]]
\* (mutant) Adopted waiters are left to the next caller's microtask.
ScheduleNothing(r) == UNCHANGED scheduled
ScheduleAdopted(r) ==
  scheduled' = IF OwnedBy(NoRuntime) = {} THEN scheduled ELSE scheduled \cup {r}
\* installEmbedRuntime
Install(r) ==
  /\ r \notin installed /\ installed' = installed \cup {r} /\ current' = r
  /\ ReplacePrevious(r) /\ ScheduleAdopted(r)
  /\ UNCHANGED got
\* The function installEmbedRuntime returned, or the page is hidden; disposing again does nothing.
Dispose(r) ==
  /\ r \in installed \ disposed /\ disposed' = disposed \cup {r}
  /\ current' = IF current = r THEN NoRuntime ELSE current
  /\ Reject(OwnedBy(r) \cup IF current = r THEN OwnedBy(NoRuntime) ELSE {})
  /\ UNCHANGED <<installed, scheduled, got>>
\* The microtask of scheduleResolution
Resolve(r) ==
  /\ r \in scheduled /\ scheduled' = scheduled \ {r}
  /\ LET resolved == IF r \in disposed THEN {} ELSE OwnedBy(r) IN
     /\ waiter' = [c \in Callers |-> IF c \in resolved THEN "resolved" ELSE waiter[c]]
     /\ owner' = [c \in Callers |-> IF c \in resolved THEN NoRuntime ELSE owner[c]]
     /\ got' = [c \in Callers |-> IF c \in resolved THEN r ELSE got[c]]
  /\ UNCHANGED <<installed, current, disposed>>

NextHanding == \/ \E c \in Callers : WaitForHandlers(c) \/ TimesOut(c)
               \/ \E r \in Runtimes : Install(r) \/ Dispose(r) \/ Resolve(r)
HandingSpec == InitHanding /\ [][NextHanding]_handing

-----------------------------------------------------------------------------
HandingTypeOK ==
  /\ installed \subseteq Runtimes /\ disposed \subseteq installed /\ scheduled \subseteq installed
  /\ current \in (installed \ disposed) \cup {NoRuntime}
  /\ waiter \in [Callers -> {"idle", "waiting", "resolved", "rejected"}]
  /\ owner \in [Callers -> Runtimes \cup {NoRuntime}] /\ got \in [Callers -> Runtimes \cup {NoRuntime}]

\* Nobody waits for nothing: a waiting caller is in the set of the current registration, whose
\* microtask is on its way, or there is none and the next registration adopts it.
WaitersAreServed ==
  \A c \in Callers : waiter[c] = "waiting" =>
    /\ owner[c] = current
    /\ current # NoRuntime => current \in scheduled

\* A caller gets only the handlers of the registration that is current then, never those of one
\* that was replaced or disposed between its question and the microtask.
HandlersAreAlive ==
  [][\A c \in Callers : waiter[c] = "waiting" /\ waiter'[c] = "resolved" => got'[c] = current']_handing
=============================================================================
