---------------------------- MODULE PrintFocus ----------------------------
(***************************************************************************)
(* The wait for the print dialog of Windows (print-ui-lifecycle.ts): the   *)
(* page learns of the focus of its window by events and by asking, and     *)
(* takes the dialog for closed when the window has had the focus for a     *)
(* second.  Events and answers are on their way for some time, and a       *)
(* question may fail.                                                      *)
(***************************************************************************)
EXTENDS Naturals, Sequences, FiniteSets

CONSTANTS MaxTurns,     \* bound: times the focus changes
          MaxFailures   \* bound: questions that fail

ASSUME PrintFocusAssumption == MaxTurns \in Nat /\ MaxFailures \in Nat

VARIABLES focused,     \* the window has the focus
          focusEvents, \* changes on their way to the page
          waiting,     \* waitStarted
          generation,  \* focusEventGeneration
          samples,     \* observeCurrentFocus: the first one and the watchdog's
          timer,       \* the stability timeout: the generation it was set for, or none
          checks,      \* the questions of timeouts that have run
          dog,         \* the watchdog's timeout is set
          returned,    \* the wait has ended
          turns, failures

asking == <<samples, checks>>
focusing == <<focused, focusEvents, waiting, generation, asking, timer, dog, returned, turns, failures>>

NoSample == [at |-> "none", generation |-> 0, focus |-> FALSE]
NoTimer == {}
Observers == {"first", "watchdog"}

InitFocus ==
  /\ focused \in BOOLEAN /\ focusEvents = <<>> /\ waiting = FALSE /\ generation = 0
  /\ samples = [o \in Observers |-> NoSample] /\ timer = NoTimer /\ checks = {}
  /\ dog = FALSE /\ returned = FALSE /\ turns = 0 /\ failures = 0

FocusTurns ==
  /\ turns < MaxTurns /\ turns' = turns + 1
  /\ focused' = ~focused /\ focusEvents' = Append(focusEvents, ~focused)
  /\ UNCHANGED <<waiting, generation, asking, timer, dog, returned, failures>>
\* stability.observe
Observe(focus, g) == timer' = IF focus THEN {g} ELSE NoTimer
Asked(o) == samples' = [samples EXCEPT ![o] = [at |-> "asked", generation |-> generation, focus |-> FALSE]]

\* waitForReturn, after window.print()
WaitForReturn ==
  /\ ~waiting /\ waiting' = TRUE /\ dog' = TRUE /\ Asked("first")
  /\ UNCHANGED <<focused, focusEvents, generation, checks, timer, returned, turns, failures>>
\* onFocusChanged; when the wait has ended nobody listens any more
FocusChanged ==
  /\ focusEvents # <<>> /\ focusEvents' = Tail(focusEvents)
  /\ IF waiting /\ ~returned
     THEN generation' = generation + 1 /\ Observe(Head(focusEvents), generation + 1)
     ELSE UNCHANGED <<generation, timer>>
  /\ UNCHANGED <<focused, waiting, asking, dog, returned, turns, failures>>
SampleFocus(o) ==
  /\ samples[o].at = "asked"
  /\ samples' = [samples EXCEPT ![o].at = "sampled", ![o].focus = focused]
  /\ UNCHANGED <<focused, focusEvents, waiting, generation, checks, timer, dog, returned, turns, failures>>
\* (mutant) The watchdog is set again only after an answer.
SetAgain(o, failed) == dog' = IF o = "watchdog" /\ ~failed THEN TRUE ELSE dog
\* finally(schedule)
Reschedule(o, failed) == dog' = IF o = "watchdog" THEN TRUE ELSE dog
\* An answer counts if no event has come since it was asked for.
SampleReturns(o) ==
  /\ samples[o].at = "sampled" /\ ~returned
  /\ samples' = [samples EXCEPT ![o] = NoSample]
  /\ IF samples[o].generation = generation THEN Observe(samples[o].focus, generation)
                                           ELSE UNCHANGED timer
  /\ Reschedule(o, FALSE)
  /\ UNCHANGED <<focused, focusEvents, waiting, generation, checks, returned, turns, failures>>
Fails == failures < MaxFailures /\ failures' = failures + 1
SampleFails(o) ==
  /\ samples[o].at = "asked" /\ ~returned /\ Fails
  /\ samples' = [samples EXCEPT ![o] = NoSample] /\ Reschedule(o, TRUE)
  /\ UNCHANGED <<focused, focusEvents, waiting, generation, checks, timer, returned, turns>>
\* Five minutes have passed since the wait began or the last answer came.
WatchdogSamples ==
  /\ dog /\ ~returned /\ samples["watchdog"].at = "none"
  /\ dog' = FALSE /\ Asked("watchdog")
  /\ UNCHANGED <<focused, focusEvents, waiting, generation, checks, timer, returned, turns, failures>>

\* The timeout has run: the window must still have the focus.
TimerRuns ==
  /\ timer # NoTimer /\ ~returned /\ timer' = NoTimer
  /\ checks' = checks \cup {[at |-> "asked", generation |-> g, focus |-> FALSE] : g \in timer}
  /\ UNCHANGED <<focused, focusEvents, waiting, generation, samples, dog, returned, turns, failures>>
CheckSamples(c) ==
  /\ c.at = "asked"
  /\ checks' = (checks \ {c}) \cup {[c EXCEPT !.at = "sampled", !.focus = focused]}
  /\ UNCHANGED <<focused, focusEvents, waiting, generation, samples, timer, dog, returned, turns, failures>>
\* (mutant) What happened since the timeout was set is not asked.
StillFocused(c) == c.focus
StableFocus(c) == c.focus /\ c.generation = generation
CheckReturns(c) ==
  /\ c.at = "sampled" /\ ~returned
  /\ checks' = checks \ {c} /\ returned' = StableFocus(c)
  /\ UNCHANGED <<focused, focusEvents, waiting, generation, samples, timer, dog, turns, failures>>
CheckFails(c) ==
  /\ c.at = "asked" /\ ~returned /\ Fails /\ checks' = checks \ {c}
  /\ UNCHANGED <<focused, focusEvents, waiting, generation, samples, timer, dog, returned, turns>>

SampleAnswers(o) == SampleFocus(o) \/ SampleReturns(o)
ChecksSample == \E c \in checks : CheckSamples(c)
ChecksReturn == \E c \in checks : CheckReturns(c)
Answers == \/ FocusChanged \/ TimerRuns \/ WatchdogSamples
           \/ (\E o \in Observers : SampleAnswers(o))
           \/ ChecksSample \/ ChecksReturn
NextFocus == \/ FocusTurns \/ WaitForReturn \/ Answers
             \/ \E o \in Observers : SampleFails(o)
             \/ \E c \in checks : CheckFails(c)
\* Events and answers arrive and each timeout runs, whatever the others do.
FocusSpec ==
  /\ InitFocus /\ [][NextFocus]_focusing
  /\ WF_focusing(FocusChanged) /\ WF_focusing(TimerRuns) /\ WF_focusing(WatchdogSamples)
  /\ \A o \in Observers : WF_focusing(SampleAnswers(o))
  /\ WF_focusing(ChecksSample) /\ WF_focusing(ChecksReturn)

-----------------------------------------------------------------------------
FocusTypeOK ==
  /\ {focused, waiting, dog, returned} \subseteq BOOLEAN /\ focusEvents \in Seq(BOOLEAN)
  /\ generation \in 0..MaxTurns /\ timer \subseteq 0..generation /\ Cardinality(timer) <= 1
  /\ \A s \in {samples[o] : o \in Observers} \cup checks :
       s.at \in {"none", "asked", "sampled"} /\ s.generation <= generation /\ s.focus \in BOOLEAN

\* The wait ends only for a window that has the focus, as far as the page can know: if the
\* window has lost it, the event that says so has not arrived yet.
ReturnsFocused ==
  [][~returned /\ returned' => focused \/ \E i \in DOMAIN focusEvents : ~focusEvents[i]]_focusing

\* If the window has the focus for good, the wait ends, although questions fail and answers
\* come too late: an event, the next answer or the watchdog finds it.
WaitEnds == []((waiting /\ []focused) => <>returned)
=============================================================================
