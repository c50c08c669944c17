--------------------------- MODULE BeltsCalibration ---------------------------
(***************************************************************************)
(* BeltsCalibrationPanel (src/src/belts_calibration_panel.cpp, .h) with    *)
(* the loop that runs it (GuppyScreen::loop, src/src/guppyscreen.cpp): a   *)
(* belt test is two sweeps, one per belt, and an analysis, each a script   *)
(* sent to Klipper and followed through the gcode responses it broadcasts. *)
(*                                                                         *)
(* The LVGL thread alternates between dispatching websocket events, where  *)
(* each handler takes lv_lock for itself, and lv_timer_handler, which runs *)
(* timers and input callbacks with lv_lock held.                           *)
(*                                                                         *)
(* Klipper (external) runs one script at a time, in order; its responses   *)
(* reach every client in order, or not at all while the websocket is down. *)
(*                                                                         *)
(* Every plot is the same PNG file, and LVGL keeps decoded images by the   *)
(* name of their file (LV_IMG_CACHE_DEF_SIZE): what is drawn is the file,  *)
(* or what LVGL still holds of an earlier one.                             *)
(* Left out: the frequency and axis excited, labels and picture sizes, and *)
(* a plot downloaded in part.                                              *)
(***************************************************************************)
EXTENDS Naturals, Sequences, FiniteSets

CONSTANTS
  Limit,      \* watchdog limit in ticks (15 minutes in the code)
  MaxPresses, \* bound: times Calibrate is pressed
  MaxOthers   \* bound: scripts other clients send, and Klipper restarts

ASSUME BeltsAssumption == Limit \in Nat /\ MaxPresses \in Nat /\ MaxOthers \in Nat

VARIABLES
  loop,     \* GuppyScreen::loop: "drain", "timers" (lv_lock held) or "stuck"
  due,      \* events this drain took and has not dispatched yet
  run,      \* RunState
  age,      \* ticks since run_since, up to Limit + 1
  watchdog, \* the watchdog timer is running
  spinner,  \* the spinner is shown
  analysis_produced_result,
  graph,    \* {n} while a plot is shown, n the run whose end put it up; {} if hidden
  cache,    \* what LVGL holds decoded of the plot's file: {}, or {n} for the plot of run n
  klipper,  \* scripts at Klipper, running one first
  png,      \* the file itself: {}, or {n} for the plot of run n, 0 for one not of a run here
  inbox,    \* responses and notifications queued for the LVGL thread
  presses, others, \* bounds used up; presses also numbers the runs
  orphans   \* history: runs abandoned while Klipper had not said its last of them,
            \* and 0 once another client ran a belt sweep or the analysis by hand

panel == <<run, age, watchdog, spinner, analysis_produced_result, graph, cache>>
vars == <<loop, due, panel, klipper, png, inbox, presses, others, orphans>>

Idle == "idle"
RunStates == {Idle, "testing_b", "testing_a", "analysing"}

\* Scripts and what Klipper says about them, with the run they belong to.
Script(what) == [what |-> what, of |-> presses']
ByHand(what) == [what |-> what, of |-> 0]
Other == ByHand("other")
Sweeps == {i \in DOMAIN klipper : klipper[i].what \in {"testing_b", "testing_a"}}

Init ==
  /\ loop = "drain" /\ due = 0 /\ run = Idle /\ age = 0 /\ watchdog = FALSE /\ spinner = FALSE
  /\ analysis_produced_result = FALSE /\ graph = {} /\ cache = {}
  /\ png \in {{}, {0}} /\ klipper = <<>> /\ inbox = <<>> /\ presses = 0 /\ others = 0 /\ orphans = {}

-----------------------------------------------------------------------------
(* Klipper                                                                 *)

\* Responses to what is running: a sweep that wrote its file, an analysis that
\* printed a similarity, finished or timed out, an error (!!).
Says(s) ==
  CASE s.what = "other" -> {<<>>, <<"error">>}
    [] s.what = "testing_b" -> {<<"wrote_b">>, <<"error">>}
    [] s.what = "testing_a" -> {<<"wrote_a">>, <<"error">>}
    [] s.what = "analysing" -> {<<"similarity", "finished">>, <<"finished">>,
                                <<"similarity">>, <<"similarity", "timed_out">>,
                                <<"timed_out">>, <<"error">>}

\* A script ends.  Its responses reach the panel unless the websocket is down.
\* The analysis prints its similarity before it writes the plot, and may end
\* without having written it.
KlipperStep ==
  /\ klipper # <<>> /\ klipper' = Tail(klipper)
  /\ \E out \in Says(Head(klipper)) \cup {<<>>} :
       inbox' = inbox \o [i \in DOMAIN out |-> [say |-> out[i], of |-> Head(klipper).of]]
  /\ png' \in IF Head(klipper).what = "analysing" THEN {png, {Head(klipper).of}} ELSE {png}
  /\ UNCHANGED <<loop, due, panel, presses, others, orphans>>

\* Another client's script: any other, or a sweep or the analysis run by hand,
\* whose responses say what those of a run here would.
OtherClient ==
  /\ others < MaxOthers /\ others' = others + 1
  /\ \/ klipper' = Append(klipper, Other) /\ UNCHANGED orphans
     \/ /\ \E what \in RunStates \ {Idle} : klipper' = Append(klipper, ByHand(what))
        /\ orphans' = orphans \cup {0}
  /\ UNCHANGED <<loop, due, panel, png, inbox, presses>>

\* Klipper shuts down or restarts: what it was asked is forgotten.
KlippyGone ==
  /\ others < MaxOthers /\ others' = others + 1
  /\ klipper' = <<>>
  /\ inbox' = Append(inbox, [say |-> "klippy_gone", of |-> 0])
  /\ UNCHANGED <<loop, due, panel, png, presses, orphans>>

-----------------------------------------------------------------------------
(* The panel                                                               *)

MutStartTestUnwatched(state) ==
  /\ klipper' = Append(klipper, Script(state))
  /\ run' = state /\ age' = 0
  /\ analysis_produced_result' = FALSE
  /\ UNCHANGED watchdog

start_test(state) ==
  /\ klipper' = Append(klipper, Script(state))
  /\ run' = state /\ age' = 0
  /\ analysis_produced_result' = FALSE
  /\ watchdog' = TRUE

MutAnalysisUnnamed ==
  /\ run' = "testing" /\ age' = 0
  /\ analysis_produced_result' = FALSE
  /\ klipper' = Append(klipper, Script("analysing"))
  /\ UNCHANGED <<watchdog, spinner, graph, cache, orphans>>

request_analysis ==
  /\ run' = "analysing" /\ age' = 0
  /\ analysis_produced_result' = FALSE
  /\ klipper' = Append(klipper, Script("analysing"))
  /\ UNCHANGED <<watchdog, spinner, graph, cache, orphans>>

\* The file is the same every time and LVGL is not told to forget it.
finish_run(of) ==
  /\ run' = Idle /\ watchdog' = FALSE /\ spinner' = FALSE
  /\ graph' = {of} /\ cache' = IF cache = {} THEN png ELSE cache
  /\ UNCHANGED <<age, analysis_produced_result, klipper>>

MutAbandonRun ==
  /\ run' = Idle /\ watchdog' = FALSE
  /\ UNCHANGED <<spinner, age, analysis_produced_result, graph, cache, klipper>>

abandon_run ==
  /\ run' = Idle /\ watchdog' = FALSE /\ spinner' = FALSE
  /\ UNCHANGED <<age, analysis_produced_result, graph, cache, klipper>>

\* Runs with a script at Klipper, or with a word of theirs on its way here.
Owners == ({klipper[i].of : i \in DOMAIN klipper} \cup {inbox'[i].of : i \in DOMAIN inbox'}) \ {0}

MutCalibrateAnyTime ==
  /\ loop = "timers" /\ presses < MaxPresses
  /\ presses' = presses + 1
  /\ spinner' = TRUE /\ graph' = {}
  /\ start_test("testing_b")
  /\ UNCHANGED <<loop, due, cache, png, inbox, others, orphans>>

handle_callback_calibrate ==
  /\ loop = "timers" /\ presses < MaxPresses
  /\ run = Idle
  /\ presses' = presses + 1
  /\ spinner' = TRUE /\ graph' = {}
  /\ start_test("testing_b")
  /\ UNCHANGED <<loop, due, cache, png, inbox, others, orphans>>

\* Excite: homing if need be, then the excitation, scripts that belong to no run.
handle_callback_excite ==
  /\ loop = "timers" /\ others < MaxOthers /\ others' = others + 1
  /\ \E scripts \in {<<Other>>, <<Other, Other>>} : klipper' = klipper \o scripts
  /\ UNCHANGED <<loop, due, panel, png, inbox, presses, orphans>>

\* The emergency stop: Klipper shuts down, and the panel hears of it as of any
\* other shutdown.
handle_callback_emergency == loop = "timers" /\ KlippyGone

Heard(say) == inbox # <<>> /\ Head(inbox).say = say

Dispatched == loop = "drain" /\ due > 0 /\ due' = due - 1 /\ inbox' = Tail(inbox)
              /\ UNCHANGED <<loop, presses, others, png>>

handle_klippy_gone ==
  /\ Dispatched /\ Heard("klippy_gone")
  /\ IF run # Idle
     THEN abandon_run /\ orphans' = orphans \cup Owners
     ELSE UNCHANGED <<panel, klipper, orphans>>

\* handle_macro_response, by what the response says.
macro_response_ignored ==
  /\ Dispatched /\ ~Heard("klippy_gone")
  /\ \/ run = Idle
     \/ Heard("wrote_b") /\ run # "testing_b"
     \/ Heard("wrote_a") /\ run # "testing_a"
  /\ UNCHANGED <<panel, klipper, orphans>>

macro_response_error ==
  /\ Dispatched /\ run # Idle
  /\ Heard("error") \/ Heard("timed_out")
  /\ abandon_run
  /\ orphans' = orphans \cup Owners

macro_response_wrote_b ==
  /\ Dispatched /\ Heard("wrote_b") /\ run = "testing_b"
  /\ start_test("testing_a")
  /\ UNCHANGED <<spinner, graph, cache, orphans>>

macro_response_wrote_a ==
  /\ Dispatched /\ Heard("wrote_a") /\ run = "testing_a"
  /\ request_analysis

macro_response_similarity ==
  /\ Dispatched /\ Heard("similarity") /\ run # Idle
  /\ analysis_produced_result' = TRUE
  /\ UNCHANGED <<run, age, watchdog, spinner, graph, cache, klipper, orphans>>

MutFinishedAlwaysPlots ==
  /\ Dispatched /\ Heard("finished") /\ run # Idle
  /\ finish_run(Head(inbox).of)
  /\ orphans' = orphans \cup Owners

macro_response_finished ==
  /\ Dispatched /\ Heard("finished") /\ run # Idle
  /\ IF analysis_produced_result THEN finish_run(Head(inbox).of) ELSE abandon_run
  /\ orphans' = orphans \cup Owners

\* The plot is on another host and cannot be fetched: download_file throws out of
\* the handler, and the run goes on waiting.
macro_response_unfetched ==
  /\ Dispatched /\ Heard("finished") /\ run # Idle /\ analysis_produced_result
  /\ UNCHANGED <<panel, klipper, orphans>>

\* Other images push the plot out of LVGL's cache; if it is shown it is decoded
\* again when it is next drawn.
OtherImages ==
  /\ loop = "timers" /\ cache # {}
  /\ cache' = IF graph = {} THEN {} ELSE png
  /\ UNCHANGED <<loop, due, run, age, watchdog, spinner, analysis_produced_result, graph,
                 klipper, png, inbox, presses, others, orphans>>

\* The watchdog is an LVGL timer: it runs with lv_lock held by this thread, and
\* takes lv_lock again before it gives the run up.
check_timeouts ==
  /\ loop = "timers" /\ watchdog
  /\ run # Idle /\ age > Limit
  /\ loop' = "stuck"
  /\ UNCHANGED <<due, panel, klipper, png, inbox, presses, others, orphans>>

Tick ==
  /\ loop # "stuck" /\ run # Idle /\ age <= Limit
  /\ age' = age + 1
  /\ UNCHANGED <<loop, due, run, watchdog, spinner, analysis_produced_result, graph,
                 cache, klipper, png, inbox, presses, others, orphans>>

\* The loop goes from draining to lv_timer_handler and back; a drain takes the
\* events that are there when it begins.
LoopTurns ==
  /\ loop # "stuck"
  /\ loop = "drain" => due = 0
  /\ loop = "timers" => ~(watchdog /\ run # Idle /\ age > Limit)
  /\ loop' = IF loop = "drain" THEN "timers" ELSE "drain"
  /\ due' = IF loop = "drain" THEN 0 ELSE Len(inbox)
  /\ UNCHANGED <<panel, klipper, png, inbox, presses, others, orphans>>

Drain ==
  \/ handle_klippy_gone \/ macro_response_ignored \/ macro_response_error
  \/ macro_response_wrote_b \/ macro_response_wrote_a
  \/ macro_response_similarity \/ macro_response_finished \/ macro_response_unfetched

Next ==
  \/ KlipperStep \/ OtherClient \/ KlippyGone
  \/ handle_callback_calibrate \/ handle_callback_excite \/ handle_callback_emergency
  \/ Drain \/ OtherImages \/ check_timeouts \/ Tick \/ LoopTurns

\* The LVGL thread runs and time passes.  Nothing is assumed of Klipper.
Spec == /\ Init /\ [][Next]_vars
        /\ WF_vars(Drain) /\ WF_vars(LoopTurns) /\ WF_vars(check_timeouts)
        /\ WF_vars(Tick)

-----------------------------------------------------------------------------
Plots == {{}} \cup {{n} : n \in 0..presses}

\* Types; a drain never waits for an event that is not there.
TypeOK ==
  /\ loop \in {"drain", "timers", "stuck"} /\ due \in 0..Len(inbox)
  /\ run \in RunStates /\ age \in 0..(Limit + 1)
  /\ watchdog \in BOOLEAN /\ spinner \in BOOLEAN /\ analysis_produced_result \in BOOLEAN
  /\ graph \in Plots /\ cache \in Plots /\ png \in Plots
  /\ presses \in Nat /\ others \in Nat /\ orphans \subseteq 0..presses

\* A run is always watched and always shown as busy, and nothing else is: every
\* way a run can end, and every way it can go on, pauses or resumes both.
RunIsWatched == (run # Idle <=> watchdog) /\ (run # Idle <=> spinner)

\* "One sweep at a time, driven from here" (handle_callback): as long as no
\* earlier run was given up with a script still at Klipper and nobody else ran a
\* sweep, Klipper holds at most one sweep, and it is the one run waits for.
OneSweepAtATime ==
  orphans = {} =>
    /\ Cardinality(Sweeps) <= 1
    /\ \A i \in Sweeps : run = klipper[i].what

\* Nor does the end of another run put up a plot, under the same proviso: it is
\* the latest run that ended, its analysis having printed a similarity.  What is
\* drawn is the plot that run wrote if it is the first one; after that it may be
\* what LVGL still holds of an earlier run's plot, since the file has one name.
PlotIsOfThisRun ==
  orphans = {} /\ graph # {} =>
    /\ graph = {presses} /\ analysis_produced_result /\ run = Idle
    /\ presses = 1 /\ png = graph => cache = graph

\* The UI thread never waits for a lock it already holds: "the mutex is not
\* recursive" (GuppyScreen::loop), so the loop would never run again.
NeverSelfLocks == loop # "stuck"

\* A run ends, whatever Klipper says or fails to say; or the watchdog locked
\* the UI up, which NeverSelfLocks is about.
RunEnds == run # Idle ~> (run = Idle \/ loop = "stuck")
=============================================================================
