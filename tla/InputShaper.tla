------------------------------ MODULE InputShaper ------------------------------
(***************************************************************************)
(* InputShaperPanel (src/src/inputshaper_panel.cpp, .h): calibrates the X  *)
(* axis, the Y axis or both.  Each axis is a resonance test, then an       *)
(* analysis of what the test wrote, each a script sent to Klipper and      *)
(* followed through the gcode responses Klipper broadcasts; the second     *)
(* axis starts when the first one's result is in.                          *)
(*                                                                         *)
(* Klipper (external) runs one script at a time, in order.  A response     *)
(* arrives in order or not at all.  Other clients' scripts may fail, and   *)
(* their errors reach this panel too.                                      *)
(* Left out: which sections the printer's config has, tables, plots and    *)
(* labels.  A payload has the numbers calibrate_shaper.py writes for each  *)
(* shaper, so that drawing the table does not throw.                       *)
(***************************************************************************)
EXTENDS Naturals, Sequences, FiniteSets

CONSTANTS
  Limit,      \* watchdog limit in ticks (15 minutes in the code)
  MaxPresses, \* bound: times Calibrate is pressed
  MaxTaps,    \* bound: times the axis row is changed
  MaxOthers   \* bound: scripts other clients send, and Klipper restarts

ASSUME ShaperAssumption ==
  Limit \in Nat /\ MaxPresses \in Nat /\ MaxTaps \in Nat /\ MaxOthers \in Nat

Axes == {1, 2}   \* X and Y, in the order start_next_axis looks for one

VARIABLES
  target,    \* axes the axis row asks for
  shown,     \* axis on screen
  pending,   \* axes queued for calibration and not sent yet
  run,       \* RunState of each axis
  age,       \* ticks since the axis's run last changed, up to Limit + 1
  result,    \* run whose result each axis shows, 0 for none
  produced,  \* analysis_produced_result
  watchdog,  \* the watchdog timer is running
  spinner,   \* the spinner is shown
  klipper,   \* scripts at Klipper, running one first
  inbox,     \* responses and notifications queued for the LVGL thread
  presses, taps, others, \* bounds used up; presses also numbers the runs
  orphans    \* history: runs given up while Klipper had not said its last of them

axes == <<target, shown, pending, run, age, result, produced, watchdog, spinner>>
vars == <<axes, klipper, inbox, presses, taps, others, orphans>>

Script(what, a) == [what |-> what, axis |-> a, of |-> presses']
Other == [what |-> "other", axis |-> 0, of |-> 0]

Init ==
  /\ target = {1} /\ shown = 1 /\ pending = {} /\ run = [a \in Axes |-> "idle"]
  /\ age = [a \in Axes |-> 0] /\ result = [a \in Axes |-> 0]
  /\ produced = FALSE /\ watchdog = FALSE /\ spinner = FALSE
  /\ klipper = <<>> /\ inbox = <<>> /\ presses = 0 /\ taps = 0 /\ others = 0
  /\ orphans = {}

-----------------------------------------------------------------------------
(* Klipper                                                                 *)

Says(s) ==
  CASE s.what = "other" -> {<<"error">>}
    [] s.what = "testing" -> {<<"wrote">>, <<"error">>}
    [] s.what = "analysing" ->
         {<<"running", "result", "finished">>, <<"running", "finished">>,
          <<"running", "unnamed", "finished">>, <<"running", "timed_out">>,
          <<"running", "result">>, <<"finished">>, <<"error">>}

KlipperStep ==
  /\ klipper # <<>> /\ klipper' = Tail(klipper)
  /\ \E out \in Says(Head(klipper)) \cup {<<>>} :
       inbox' = inbox \o [i \in DOMAIN out |->
                            [say |-> out[i], axis |-> Head(klipper).axis, of |-> Head(klipper).of]]
  /\ UNCHANGED <<axes, presses, taps, others, orphans>>

OtherClient ==
  /\ others < MaxOthers /\ others' = others + 1
  /\ klipper' = Append(klipper, Other)
  /\ UNCHANGED <<axes, inbox, presses, taps, orphans>>

KlippyGone ==
  /\ others < MaxOthers /\ others' = others + 1
  /\ klipper' = <<>>
  /\ inbox' = Append(inbox, [say |-> "klippy_gone", axis |-> 0, of |-> 0])
  /\ UNCHANGED <<axes, presses, taps, orphans>>

-----------------------------------------------------------------------------
(* What the panel's handlers are made of                                   *)

Running(r) == {a \in Axes : r[a] # "idle"}

\* The spinner covers the shown axis while it runs (update_view).
show_axis(a, r) == shown' = a /\ spinner' = (r[a] # "idle")

\* Send the test of the first pending axis, with the axes otherwise as in r.
start_next_axis(p, r) ==
  IF p = {}
  THEN /\ run' = r /\ pending' = p
       /\ UNCHANGED <<klipper, age>>
  ELSE LET a == CHOOSE b \in p : \A c \in p : b <= c IN
       /\ pending' = p \ {a}
       /\ klipper' = Append(klipper, Script("testing", a))
       /\ run' = [r EXCEPT ![a] = "testing"]
       /\ age' = [age EXCEPT ![a] = 0]

\* The axis on screen after start_next_axis: the one it started, else `a`.
Follow(p, a) == IF p = {} THEN a ELSE CHOOSE b \in p : \A c \in p : b <= c

\* Runs with a script at Klipper, or with a word of theirs on its way here.
Owners == ({klipper[i].of : i \in DOMAIN klipper} \cup {inbox'[i].of : i \in DOMAIN inbox'}) \ {0}

MutAbandonLeavesQueue(analysing_only) ==
  LET doomed == {a \in Running(run) : analysing_only => run[a] = "analysing"} IN
  /\ run' = [a \in Axes |-> IF a \in doomed THEN "idle" ELSE run[a]]
  /\ watchdog' = (watchdog /\ doomed = {})
  /\ spinner' = (run'[shown] # "idle")
  /\ orphans' = IF doomed = {} THEN orphans ELSE orphans \cup Owners
  /\ UNCHANGED pending

MutAbandonLeavesWatchdog(analysing_only) ==
  LET doomed == {a \in Running(run) : analysing_only => run[a] = "analysing"} IN
  /\ run' = [a \in Axes |-> IF a \in doomed THEN "idle" ELSE run[a]]
  /\ pending' = IF doomed = {} THEN pending ELSE {}
  /\ spinner' = (run'[shown] # "idle")
  /\ orphans' = IF doomed = {} THEN orphans ELSE orphans \cup Owners
  /\ UNCHANGED watchdog

\* Give up on the running axes, or on those being analysed only.
abandon_runs(analysing_only) ==
  LET doomed == {a \in Running(run) : analysing_only => run[a] = "analysing"} IN
  IF doomed = {}
  THEN UNCHANGED <<pending, run, watchdog, spinner, orphans>>
  ELSE /\ pending' = {}
       /\ run' = [a \in Axes |-> IF a \in doomed THEN "idle" ELSE run[a]]
       /\ watchdog' = FALSE
       /\ spinner' = (run'[shown] # "idle")
       /\ orphans' = orphans \cup Owners

-----------------------------------------------------------------------------
(* The user                                                                *)

MutSelectorShowsBoth(t) ==
  /\ taps < MaxTaps /\ taps' = taps + 1
  /\ target' = t
  /\ shown' = (IF t = Axes THEN 3 ELSE CHOOSE a \in t : TRUE)
  /\ UNCHANGED <<pending, run, age, result, produced, watchdog, spinner, klipper,
                 inbox, presses, others, orphans>>

handle_selector_axis(t) ==
  /\ taps < MaxTaps /\ taps' = taps + 1
  /\ target' = t
  /\ show_axis(IF t = Axes THEN shown ELSE CHOOSE a \in t : TRUE, run)
  /\ UNCHANGED <<pending, run, age, result, produced, watchdog, klipper, inbox,
                 presses, others, orphans>>

handle_callback_calibrate ==
  /\ presses < MaxPresses /\ presses' = presses + 1
  /\ Running(run) = {}
  /\ result' = [a \in Axes |-> IF a \in target THEN 0 ELSE result[a]]
  /\ start_next_axis(target, run)
  /\ watchdog' = TRUE
  /\ show_axis(Follow(target, shown), run')
  /\ UNCHANGED <<target, produced, inbox, taps, others, orphans>>

-----------------------------------------------------------------------------
(* Responses and notifications                                             *)

Heard(say) == inbox # <<>> /\ Head(inbox).say = say

Dispatched == inbox # <<>> /\ inbox' = Tail(inbox)
              /\ UNCHANGED <<target, presses, taps, others>>

\* Klipper went away, or an error was broadcast, whoever caused it.
response_error ==
  /\ Dispatched /\ (Heard("error") \/ Heard("klippy_gone"))
  /\ abandon_runs(FALSE)
  /\ UNCHANGED <<shown, age, result, produced, klipper>>

response_timed_out ==
  /\ Dispatched /\ Heard("timed_out")
  /\ abandon_runs(TRUE)
  /\ UNCHANGED <<shown, age, result, produced, klipper>>

response_running ==
  /\ Dispatched /\ Heard("running")
  /\ produced' = FALSE
  /\ UNCHANGED <<shown, pending, run, age, result, watchdog, spinner, klipper, orphans>>

response_finished ==
  /\ Dispatched /\ Heard("finished")
  /\ IF produced THEN UNCHANGED <<pending, run, watchdog, spinner, orphans>>
     ELSE abandon_runs(TRUE)
  /\ UNCHANGED <<shown, age, result, produced, klipper>>

\* A payload that does not parse or does not name its data file ends nothing.
response_unnamed ==
  /\ Dispatched /\ Heard("unnamed")
  /\ produced' = TRUE
  /\ UNCHANGED <<shown, pending, run, age, result, watchdog, spinner, klipper, orphans>>

MutResultWhenRunning ==
  /\ Dispatched /\ Heard("result")
  /\ produced' = TRUE
  /\ LET a == Head(inbox).axis
         r == [run EXCEPT ![a] = "idle"]
     IN  IF run[a] # "idle"
         THEN /\ result' = [result EXCEPT ![a] = Head(inbox).of]
              /\ start_next_axis(pending, r)
              /\ watchdog' = IF pending # {} THEN TRUE ELSE watchdog /\ Running(r) # {}
              /\ show_axis(Follow(pending, a), run')
              /\ UNCHANGED orphans
         ELSE UNCHANGED <<shown, pending, run, age, result, watchdog, spinner,
                          klipper, orphans>>

\* A result is taken only by an axis that waits for one; then the next axis.
response_result ==
  /\ Dispatched /\ Heard("result")
  /\ produced' = TRUE
  /\ LET a == Head(inbox).axis
         r == [run EXCEPT ![a] = "idle"]
     IN  IF run[a] = "analysing"
         THEN /\ result' = [result EXCEPT ![a] = Head(inbox).of]
              /\ start_next_axis(pending, r)
              /\ watchdog' = IF pending # {} THEN TRUE ELSE watchdog /\ Running(r) # {}
              /\ show_axis(Follow(pending, a), run')
              /\ UNCHANGED orphans
         ELSE UNCHANGED <<shown, pending, run, age, result, watchdog, spinner,
                          klipper, orphans>>

\* apply_result files the result and then throws, on its first fields or as the
\* plot is downloaded: KGuard ends the response, the axis goes on waiting.
response_result_throws ==
  /\ Dispatched /\ Heard("result")
  /\ run[Head(inbox).axis] = "analysing"
  /\ produced' = TRUE
  /\ result' = [result EXCEPT ![Head(inbox).axis] = Head(inbox).of]
  /\ UNCHANGED <<shown, pending, run, age, watchdog, spinner, klipper, orphans>>

\* The test's data is on disk: analyse it, if the panel still waits for it.
response_wrote ==
  /\ Dispatched /\ Heard("wrote")
  /\ LET a == Head(inbox).axis IN
     IF run[a] = "testing"
     THEN /\ run' = [run EXCEPT ![a] = "analysing"]
          /\ age' = [age EXCEPT ![a] = 0]
          /\ klipper' = Append(klipper, Script("analysing", a))
     ELSE UNCHANGED <<run, age, klipper>>
  /\ UNCHANGED <<shown, pending, result, produced, watchdog, spinner, orphans>>

-----------------------------------------------------------------------------
(* Time                                                                    *)

MutStalledTesting == \E a \in Axes : run[a] = "testing" /\ age[a] > Limit

Stalled == \E a \in Running(run) : age[a] > Limit

check_timeouts ==
  /\ watchdog /\ Stalled
  /\ UNCHANGED <<target, shown, age, result, produced, klipper, inbox, presses,
                 taps, others>>
  /\ abandon_runs(FALSE)

Tick ==
  /\ \E a \in Running(run) : age[a] <= Limit
  /\ age' = [a \in Axes |-> IF run[a] # "idle" /\ age[a] <= Limit THEN age[a] + 1 ELSE age[a]]
  /\ UNCHANGED <<target, shown, pending, run, result, produced, watchdog, spinner,
                 klipper, inbox, presses, taps, others, orphans>>

handle_macro_response ==
  \/ response_error \/ response_timed_out \/ response_running
  \/ response_finished \/ response_unnamed \/ response_result
  \/ response_result_throws \/ response_wrote

Next ==
  \/ KlipperStep \/ OtherClient \/ KlippyGone
  \/ \E t \in (SUBSET Axes) \ {{}} : handle_selector_axis(t)
  \/ handle_callback_calibrate
  \/ handle_macro_response
  \/ check_timeouts \/ Tick

\* The LVGL thread dispatches and runs its timers, time passes.  Nothing is
\* assumed of Klipper.
Spec == /\ Init /\ [][Next]_vars
        /\ WF_vars(handle_macro_response) /\ WF_vars(check_timeouts) /\ WF_vars(Tick)

-----------------------------------------------------------------------------
\* Types; the axis on screen is one of the two, whatever the axis row asks for.
TypeOK ==
  /\ target \in SUBSET Axes /\ shown \in Axes /\ pending \in SUBSET Axes
  /\ run \in [Axes -> {"idle", "testing", "analysing"}]
  /\ age \in [Axes -> 0..(Limit + 1)] /\ result \in [Axes -> 0..presses]
  /\ produced \in BOOLEAN /\ watchdog \in BOOLEAN /\ spinner \in BOOLEAN
  /\ presses \in Nat /\ taps \in Nat /\ others \in Nat /\ orphans \subseteq 1..presses

\* One axis at a time, and a queued axis always has a running one to follow:
\* no axis is forgotten in the queue when a run is given up.
OneAxisAtATime ==
  /\ Cardinality(Running(run)) <= 1
  /\ pending # {} => Running(run) # {}
  /\ pending \cap Running(run) = {}

\* The watchdog runs exactly while an axis does, being the only way out of a run
\* whose answer got lost, and the spinner tells the truth about the axis on screen,
\* through every change of axis and every way a run ends.
RunIsWatched ==
  /\ watchdog <=> Running(run) # {}
  /\ spinner <=> run[shown] # "idle"

\* A result an axis takes is one of the calibration the user started last, as
\* long as at most one calibration was given up with words of its own still to
\* come.  Those words name the same data file, so only the order of delivery and
\* the state the axis is in tell them apart.
ResultOfThisRun ==
  [][\A a \in Axes :
       result'[a] \notin {0, result[a]} /\ Cardinality(orphans) <= 1 => result'[a] = presses]_vars

\* "Only when this panel is still waiting on it. The printer carries on through a
\* run the panel has already given up on, and acting on those late messages would
\* send another analysis" (handle_macro_response): what a given-up calibration
\* still wrote or found changes nothing.
LateWordsIgnored ==
  [][( /\ inbox # <<>> /\ inbox' = Tail(inbox)
       /\ Head(inbox).say \in {"wrote", "result"} /\ Head(inbox).of \in orphans )
     => UNCHANGED <<run, result, pending, klipper>>]_vars

\* Every calibration ends, and takes its queued axes with it.
RunEnds == Running(run) # {} ~> (Running(run) = {} /\ pending = {})
=============================================================================
