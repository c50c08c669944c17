----------------------------- MODULE BeltsProofs -----------------------------
(***************************************************************************)
(* Proofs about BeltsCalibration for every watchdog limit, every number of *)
(* runs and of scripts of other clients: types, that a run is watched and  *)
(* shown as busy, that one sweep at a time is at Klipper and that a plot is *)
(* put up by the end of the latest run only.                               *)
(***************************************************************************)
EXTENDS BeltsCalibration, FiniteSetTheorems, TLAPS

Sends == [what : {"testing_b", "testing_a", "analysing", "other"}, of : Nat]
Answers == {"wrote_b", "wrote_a", "similarity", "finished", "timed_out", "error"}
Words == [say : Answers \cup {"klippy_gone"}, of : Nat]

(* Scripts and responses carry the number of a run already started, or 0;  *)
(* what belongs to no run is another client's script and what it says, or  *)
(* the end of Klipper; belt words of no run only once another client swept *)
(* by hand.                                                                *)
Marked ==
  /\ klipper \in Seq(Sends) /\ inbox \in Seq(Words)
  /\ run # Idle => presses # 0
  /\ \A i \in DOMAIN klipper : /\ klipper[i].of <= presses
                               /\ klipper[i].what = "other" => klipper[i].of = 0
                               /\ klipper[i].of = 0 => klipper[i].what = "other" \/ orphans # {}
  /\ \A i \in DOMAIN inbox :
       /\ inbox[i].of <= presses
       /\ inbox[i].of = 0 => inbox[i].say \in {"error", "klippy_gone"} \/ orphans # {}

OwnScripts == {i \in DOMAIN klipper : klipper[i].of # 0}
OwnWords == {i \in DOMAIN inbox : inbox[i].of # 0}

(* What a run in state r may still hear about its script.                  *)
Expects(r, say) ==
  \/ r # Idle /\ say = "error"
  \/ r = "testing_b" /\ say = "wrote_b"
  \/ r = "testing_a" /\ say = "wrote_a"
  \/ r = "analysing" /\ say \in {"similarity", "finished", "timed_out"}

(* The panel and Klipper in step: either the one script the panel waits    *)
(* for is at Klipper, or what it said is in the inbox, never both; a sweep *)
(* says one thing.                                                         *)
InStep ==
  /\ \A i \in OwnScripts : /\ klipper[i].of = presses /\ klipper[i].what = run
                           /\ OwnWords = {} /\ OwnScripts = {i}
  /\ \A i \in OwnWords : /\ inbox[i].of = presses /\ Expects(run, inbox[i].say)
                         /\ run # "analysing" => OwnWords = {i}

(* Before the first plot is put up LVGL holds none.                        *)
FirstPlot ==
  /\ orphans = {} /\ graph = {} /\ presses <= 1 => cache = {}
  /\ orphans = {} /\ presses = 0 => ~analysis_produced_result

IInv ==
  /\ TypeOK /\ RunIsWatched /\ Marked
  /\ orphans = {} => InStep
  /\ PlotIsOfThisRun /\ FirstPlot

USE BeltsAssumption DEF vars, panel

(* The types, without those of the plots.                                  *)
PanelTypes ==
  /\ loop \in {"drain", "timers", "stuck"} /\ due \in 0..Len(inbox)
  /\ run \in RunStates /\ age \in 0..(Limit + 1)
  /\ watchdog \in BOOLEAN /\ spinner \in BOOLEAN /\ analysis_produced_result \in BOOLEAN
  /\ presses \in Nat /\ others \in Nat /\ orphans \subseteq 0..presses

-----------------------------------------------------------------------------
(* The operators the actions are built from.                               *)

(* What a script may say, and what the panel expects to hear of it.        *)
LEMMA SaysFacts ==
  ASSUME NEW s \in Sends, NEW out \in Says(s) \cup {<<>>}
  PROVE  /\ out \in Seq(Answers)
         /\ s.what # "analysing" => Len(out) <= 1
         /\ s.what = "other" => \A i \in DOMAIN out : out[i] = "error"
         /\ s.what # "other" => \A i \in DOMAIN out : Expects(s.what, out[i])
  <1> DEFINE Fits(x) == /\ x \in Answers
                        /\ s.what = "other" => x = "error"
                        /\ s.what # "other" => Expects(s.what, x)
  <1>1. \/ out = <<>>
        \/ \E x : Fits(x) /\ out = <<x>>
        \/ s.what = "analysing" /\ \E x, y : Fits(x) /\ Fits(y) /\ out = <<x, y>>
    <2>1. CASE s.what = "other"
      <3>1. out = <<>> \/ out = <<"error">>
        BY <2>1 DEF Says
      <3>2. Fits("error")
        BY <2>1 DEF Answers
      <3> QED
        BY <3>1, <3>2
    <2>2. CASE s.what = "testing_b"
      <3>1. out = <<>> \/ out = <<"wrote_b">> \/ out = <<"error">>
        BY <2>2 DEF Says
      <3>2. Fits("wrote_b") /\ Fits("error")
        BY <2>2 DEF Answers, Expects, Idle
      <3> QED
        BY <3>1, <3>2
    <2>3. CASE s.what = "testing_a"
      <3>1. out = <<>> \/ out = <<"wrote_a">> \/ out = <<"error">>
        BY <2>3 DEF Says
      <3>2. Fits("wrote_a") /\ Fits("error")
        BY <2>3 DEF Answers, Expects, Idle
      <3> QED
        BY <3>1, <3>2
    <2>4. CASE s.what = "analysing"
      <3>1. \/ out = <<>> \/ \E x \in {"similarity", "finished", "timed_out", "error"} : out = <<x>>
            \/ \E y \in {"finished", "timed_out"} : out = <<"similarity", y>>
        BY <2>4 DEF Says
      <3>2. \A x \in {"similarity", "finished", "timed_out", "error"} : Fits(x)
        BY <2>4 DEF Answers, Expects, Idle
      <3> QED
        BY <2>4, <3>1, <3>2
    <2> QED
      BY <2>1, <2>2, <2>3, <2>4 DEF Sends
  <1>2. CASE out = <<>>
    BY <1>2
  <1>3. ASSUME NEW x, Fits(x), out = <<x>>
        PROVE  /\ out \in Seq(Answers) /\ Len(out) <= 1 /\ \A i \in DOMAIN out : Fits(out[i])
    <2>1. x \in Answers
      BY <1>3
    <2> HIDE DEF Fits
    <2> QED
      BY <1>3, <2>1
  <1>4. ASSUME NEW x, NEW y, Fits(x), Fits(y), out = <<x, y>>
        PROVE  out \in Seq(Answers) /\ \A i \in DOMAIN out : Fits(out[i])
    <2>1. x \in Answers /\ y \in Answers
      BY <1>4
    <2> HIDE DEF Fits
    <2> QED
      BY <1>4, <2>1
  <1> QED
    BY <1>1, <1>2, <1>3, <1>4

(* Queues that grow at their end,                                          *)
LEMMA Grown ==
  ASSUME NEW S, NEW a \in Seq(S), NEW b \in Seq(S)
  PROVE  /\ a \o b \in Seq(S) /\ Len(a \o b) = Len(a) + Len(b)
         /\ \A i \in DOMAIN (a \o b) :
              IF i \in DOMAIN a THEN (a \o b)[i] = a[i]
              ELSE i - Len(a) \in DOMAIN b /\ (a \o b)[i] = b[i - Len(a)]
         /\ \A i \in DOMAIN a : i \in DOMAIN (a \o b) /\ (a \o b)[i] = a[i]
  OBVIOUS

(* ... by one element,                                                     *)
LEMMA Appended ==
  ASSUME NEW S, NEW a \in Seq(S), NEW e \in S
  PROVE  /\ Append(a, e) \in Seq(S) /\ Len(Append(a, e)) = Len(a) + 1
         /\ DOMAIN Append(a, e) = DOMAIN a \cup {Len(a) + 1} /\ Len(a) + 1 \notin DOMAIN a
         /\ Append(a, e)[Len(a) + 1] = e
         /\ \A i \in DOMAIN a : Append(a, e)[i] = a[i]
  OBVIOUS

(* ... and that lose their head.                                           *)
LEMMA Dropped ==
  ASSUME NEW S, NEW a \in Seq(S), a # <<>>
  PROVE  /\ Tail(a) \in Seq(S) /\ Len(Tail(a)) = Len(a) - 1
         /\ 1 \in DOMAIN a /\ Head(a) = a[1]
         /\ \A i \in DOMAIN Tail(a) : i + 1 \in DOMAIN a /\ i + 1 # 1 /\ Tail(a)[i] = a[i + 1]
  OBVIOUS

(* The responses of a script carry the number of its run.                  *)
LEMMA Said ==
  ASSUME NEW out \in Seq(Answers), NEW k \in Nat, NEW new
         , new = [i \in DOMAIN out |-> [say |-> out[i], of |-> k]]
  PROVE  /\ new \in Seq(Words) /\ Len(new) = Len(out)
         /\ \A i \in DOMAIN new : i \in DOMAIN out /\ new[i].say = out[i] /\ new[i].of = k
  <1>1. DOMAIN out = 1..Len(out) /\ Len(out) \in Nat
    OBVIOUS
  <1>2. \A i \in DOMAIN out : out[i] \in Answers
    OBVIOUS
  <1>3. \A i \in DOMAIN out : [say |-> out[i], of |-> k] \in Words
    BY <1>2 DEF Words
  <1>4. new \in [1..Len(out) -> Words]
    BY <1>1, <1>3
  <1>5. new \in Seq(Words) /\ Len(new) = Len(out)
    BY <1>1, <1>4
  <1> QED
    BY <1>1, <1>5

(* What a step of Klipper adds to the inbox.                               *)
LEMMA KlipperSays ==
  ASSUME Marked, KlipperStep
  PROVE  \E new \in Seq(Words) :
           /\ inbox' = inbox \o new
           /\ klipper[1].what # "analysing" => Len(new) <= 1
           /\ \A i \in DOMAIN new :
                /\ new[i].of = klipper[1].of
                /\ klipper[1].what = "other" => new[i].say = "error"
                /\ klipper[1].what # "other" => Expects(klipper[1].what, new[i].say)
  <1>1. Head(klipper) \in Sends /\ Head(klipper) = klipper[1]
    BY Dropped DEF KlipperStep, Marked
  <1>2. klipper[1].of \in Nat
    BY <1>1 DEF Sends
  <1>3. PICK out \in Says(klipper[1]) \cup {<<>>} :
          inbox' = inbox \o [i \in DOMAIN out |-> [say |-> out[i], of |-> klipper[1].of]]
    BY <1>1 DEF KlipperStep
  <1>4. /\ out \in Seq(Answers)
        /\ klipper[1].what # "analysing" => Len(out) <= 1
        /\ klipper[1].what = "other" => \A i \in DOMAIN out : out[i] = "error"
        /\ klipper[1].what # "other" => \A i \in DOMAIN out : Expects(klipper[1].what, out[i])
    BY <1>1, SaysFacts
  <1> DEFINE new == [i \in DOMAIN out |-> [say |-> out[i], of |-> klipper[1].of]]
  <1>5. /\ new \in Seq(Words) /\ Len(new) = Len(out)
        /\ \A i \in DOMAIN new : /\ i \in DOMAIN out /\ new[i].say = out[i]
                                 /\ new[i].of = klipper[1].of
    BY <1>2, <1>4, Said
  <1>6. inbox' = inbox \o new
    BY <1>3
  <1> HIDE DEF new
  <1> QED
    BY <1>4, <1>5, <1>6

(* A dispatched event is there, and the others move up.                    *)
LEMMA Dispatch ==
  ASSUME TypeOK, Marked, Dispatched
  PROVE  /\ inbox # <<>> /\ 1 \in DOMAIN inbox /\ Head(inbox) = inbox[1]
         /\ inbox' \in Seq(Words) /\ Len(inbox') = Len(inbox) - 1 /\ due' \in 0..Len(inbox')
         /\ \A i \in DOMAIN inbox' : /\ i + 1 \in DOMAIN inbox /\ i + 1 # 1
                                     /\ inbox'[i] = inbox[i + 1]
         /\ \A i \in OwnWords' : i + 1 \in OwnWords /\ i + 1 # 1 /\ inbox'[i] = inbox[i + 1]
  <1>1. inbox # <<>> /\ inbox \in Seq(Words) /\ inbox' = Tail(inbox)
        /\ due' = due - 1 /\ due \in 1..Len(inbox)
    BY DEF Dispatched, TypeOK, Marked
  <1>2. /\ inbox' \in Seq(Words) /\ Len(inbox') = Len(inbox) - 1
        /\ 1 \in DOMAIN inbox /\ Head(inbox) = inbox[1]
        /\ \A i \in DOMAIN inbox' : /\ i + 1 \in DOMAIN inbox /\ i + 1 # 1
                                    /\ inbox'[i] = inbox[i + 1]
    BY <1>1, Dropped
  <1>3. due' \in 0..Len(inbox')
    BY <1>1, <1>2
  <1> QED
    BY <1>1, <1>2, <1>3 DEF OwnWords

(* Runs that own a script or a word were started.                          *)
LEMMA OwnersStarted ==
  ASSUME TypeOK, Marked, Dispatched
  PROVE  Owners \subseteq 0..presses
  <1>1. \A i \in DOMAIN klipper : klipper[i].of \in 0..presses
    <2>1. \A i \in DOMAIN klipper : klipper[i] \in Sends
      BY DEF Marked
    <2> QED
      BY <2>1 DEF Marked, TypeOK, Sends
  <1>2. \A i \in DOMAIN inbox : inbox[i].of \in 0..presses
    <2>1. \A i \in DOMAIN inbox : inbox[i] \in Words
      BY DEF Marked
    <2> QED
      BY <2>1 DEF Marked, TypeOK, Words
  <1>3. \A i \in DOMAIN inbox' : inbox'[i].of \in 0..presses
    BY <1>2, Dispatch
  <1>4. presses \in Nat
    BY DEF TypeOK
  <1> QED
    BY <1>1, <1>3, <1>4 DEF Owners

(* A run that ends and orphans nobody leaves nothing of its own behind.    *)
LEMMA NothingLeft ==
  ASSUME TypeOK, Marked, Dispatched, UNCHANGED klipper, Owners = {}
  PROVE  OwnScripts' = {} /\ OwnWords' = {}
  <1>1. \A i \in DOMAIN klipper : klipper[i].of = 0
    BY DEF Owners
  <1>2. \A i \in DOMAIN inbox' : inbox'[i].of = 0
    BY DEF Owners
  <1> QED
    BY <1>1, <1>2 DEF OwnScripts, OwnWords

-----------------------------------------------------------------------------
(* The panel's own state.                                                  *)

(* A run that ends, and one that starts or goes on.                        *)
LEMMA EndTypes ==
  ASSUME TypeOK, Marked, Dispatched, orphans' = orphans \cup Owners, klipper' = klipper
         , run' = Idle, watchdog' = FALSE, spinner' = FALSE
         , UNCHANGED <<age, analysis_produced_result>>
  PROVE  PanelTypes' /\ RunIsWatched'
  <1>1. Owners \subseteq 0..presses
    BY OwnersStarted
  <1>2. due' \in 0..Len(inbox')
    BY Dispatch
  <1>3. UNCHANGED <<loop, presses, others>>
    BY DEF Dispatched
  <1>4. ~watchdog' /\ ~spinner' /\ watchdog' \in BOOLEAN /\ spinner' \in BOOLEAN
    OBVIOUS
  <1>5. orphans' \subseteq 0..presses
    BY <1>1 DEF TypeOK
  <1>6. run' \in RunStates
    BY DEF RunStates
  <1>7. PanelTypes'
    BY <1>2, <1>3, <1>4, <1>5, <1>6 DEF TypeOK, PanelTypes
  <1> QED
    BY <1>4, <1>7 DEF RunIsWatched

(* Every step of the panel, by what it does to its own state.              *)
LEMMA PanelSteps ==
  ASSUME TypeOK, RunIsWatched, Marked, Next
  PROVE  PanelTypes' /\ RunIsWatched'
  <1>1. CASE KlipperStep
    <2>1. PICK new \in Seq(Words) : inbox' = inbox \o new
      BY <1>1, KlipperSays
    <2>3. UNCHANGED <<loop, due, panel, presses, others, orphans>>
      BY <1>1 DEF KlipperStep
    <2>2. Len(inbox') >= Len(inbox) /\ Len(inbox') \in Nat
      BY <2>1, Grown DEF Marked
    <2> QED
      BY <2>2, <2>3 DEF TypeOK, PanelTypes, RunIsWatched
  <1>2. CASE OtherClient
    <2>1. /\ UNCHANGED <<loop, due, panel, inbox, presses>> /\ others' = others + 1
          /\ orphans' = orphans \/ orphans' = orphans \cup {0}
      BY <1>2 DEF OtherClient
    <2>2. orphans' \subseteq 0..presses
      <3>1. orphans \subseteq 0..presses /\ 0 \in 0..presses
        BY DEF TypeOK
      <3> QED
        BY <2>1, <3>1
    <2> QED
      BY <2>1, <2>2 DEF TypeOK, PanelTypes, RunIsWatched
  <1>3. CASE KlippyGone
    <2>1. Len(inbox') = Len(inbox) + 1
      BY <1>3 DEF KlippyGone, Marked
    <2> QED
      BY <1>3, <2>1 DEF KlippyGone, TypeOK, PanelTypes, RunIsWatched
  <1>4. CASE handle_callback_calibrate
    <2>1. /\ presses' = presses + 1 /\ spinner' = TRUE /\ watchdog' = TRUE
          /\ run' = "testing_b" /\ age' = 0 /\ analysis_produced_result' \in BOOLEAN
          /\ UNCHANGED <<loop, due, inbox, others, orphans>>
      BY <1>4 DEF handle_callback_calibrate, start_test
    <2>2. orphans' \subseteq 0..presses' /\ presses' \in Nat
      BY <2>1 DEF TypeOK
    <2>3. run' \in RunStates /\ run' # Idle
      BY <2>1 DEF RunStates, Idle
    <2> QED
      BY <2>1, <2>2, <2>3 DEF TypeOK, PanelTypes, RunIsWatched
  <1>5. CASE handle_callback_excite
    BY <1>5 DEF handle_callback_excite, TypeOK, PanelTypes, RunIsWatched
  <1>6. CASE handle_callback_emergency
    BY <1>3, <1>6 DEF handle_callback_emergency
  <1>7. CASE handle_klippy_gone
    <2>1. CASE run # Idle
      <3>1. Dispatched /\ abandon_run /\ orphans' = orphans \cup Owners
        BY <1>7, <2>1 DEF handle_klippy_gone
      <3> QED
        BY <3>1, EndTypes DEF abandon_run, TypeOK
    <2>2. CASE run = Idle
      <3>1. Dispatched /\ UNCHANGED <<panel, klipper, orphans>>
        BY <1>7, <2>2 DEF handle_klippy_gone
      <3>2. due' \in 0..Len(inbox') /\ UNCHANGED <<loop, presses, others>>
        BY <3>1, Dispatch DEF Dispatched
      <3> QED
        BY <3>1, <3>2 DEF TypeOK, PanelTypes, RunIsWatched
    <2> QED
      BY <2>1, <2>2
  <1>8. CASE macro_response_ignored \/ macro_response_unfetched
    <2>1. Dispatched /\ UNCHANGED <<panel, klipper, orphans>>
      BY <1>8 DEF macro_response_ignored, macro_response_unfetched
    <2>2. due' \in 0..Len(inbox') /\ UNCHANGED <<loop, presses, others>>
      BY <2>1, Dispatch DEF Dispatched
    <2> QED
      BY <2>1, <2>2 DEF TypeOK, PanelTypes, RunIsWatched
  <1>9. CASE macro_response_error
    <2>1. Dispatched /\ abandon_run /\ orphans' = orphans \cup Owners
      BY <1>9 DEF macro_response_error
    <2> QED
      BY <2>1, EndTypes DEF abandon_run, TypeOK
  <1>10. CASE macro_response_wrote_b \/ macro_response_wrote_a \/ macro_response_similarity
    <2>1. Dispatched
      BY <1>10 DEF macro_response_wrote_b, macro_response_wrote_a, macro_response_similarity
    <2>2. due' \in 0..Len(inbox') /\ UNCHANGED <<loop, presses, others>>
      BY <2>1, Dispatch DEF Dispatched
    <2>3. run # Idle /\ watchdog /\ spinner /\ run' # Idle /\ run' \in RunStates
      BY <1>10 DEF macro_response_wrote_b, macro_response_wrote_a, start_test,
           macro_response_similarity, request_analysis, TypeOK, RunIsWatched, RunStates, Idle
    <2>4. /\ UNCHANGED <<spinner, orphans>> /\ age' \in {0, age}
          /\ watchdog' \in {TRUE, watchdog} /\ analysis_produced_result' \in BOOLEAN
      BY <1>10 DEF macro_response_wrote_b, macro_response_wrote_a, start_test,
           macro_response_similarity, request_analysis
    <2>5. watchdog' \in BOOLEAN /\ watchdog'
      BY <2>3, <2>4 DEF TypeOK
    <2> QED
      BY <2>2, <2>3, <2>4, <2>5 DEF TypeOK, PanelTypes, RunIsWatched
  <1>11. CASE macro_response_finished
    <2>1. Dispatched /\ orphans' = orphans \cup Owners /\ (finish_run(Head(inbox).of) \/ abandon_run)
      BY <1>11 DEF macro_response_finished
    <2> QED
      BY <2>1, EndTypes DEF abandon_run, finish_run
  <1>12. CASE check_timeouts
    BY <1>12 DEF check_timeouts, TypeOK, PanelTypes, RunIsWatched
  <1>13. CASE Tick
    BY <1>13 DEF Tick, TypeOK, PanelTypes, RunIsWatched
  <1>15. CASE OtherImages
    BY <1>15 DEF OtherImages, TypeOK, PanelTypes, RunIsWatched
  <1>14. CASE LoopTurns
    BY <1>14 DEF LoopTurns, TypeOK, PanelTypes, RunIsWatched
  <1> QED
    BY <1>1, <1>2, <1>3, <1>4, <1>5, <1>6, <1>7, <1>8, <1>9, <1>10, <1>11, <1>12, <1>13,
       <1>14, <1>15 DEF Next, Drain

-----------------------------------------------------------------------------
(* The panel and Klipper in step.                                          *)

Synced == Marked /\ (orphans = {} => InStep)

(* Queueing scripts that belong to no run changes nothing, as long as      *)
(* belt sweeps by hand are noted.                                          *)
LEMMA OthersQueued ==
  ASSUME TypeOK, Synced, NEW new \in Seq(Sends), klipper' = klipper \o new
         , \A i \in DOMAIN new : new[i].of = 0 /\ (new[i].what = "other" \/ orphans' # {})
         , UNCHANGED <<inbox, presses, run>>, orphans \subseteq orphans'
  PROVE  Synced'
  <1>1. /\ klipper' \in Seq(Sends)
        /\ \A i \in DOMAIN klipper' :
             \/ i \in DOMAIN klipper /\ klipper'[i] = klipper[i]
             \/ klipper'[i].of = 0 /\ (klipper'[i].what = "other" \/ orphans' # {})
        /\ \A i \in DOMAIN klipper : i \in DOMAIN klipper' /\ klipper'[i] = klipper[i]
    BY Grown DEF Synced, Marked
  <1>0. orphans # {} => orphans' # {}
    OBVIOUS
  <1>2. Marked'
    BY <1>0, <1>1 DEF Synced, Marked, TypeOK
  <1>3. OwnScripts' = OwnScripts /\ OwnWords' = OwnWords
    BY <1>1 DEF OwnScripts, OwnWords
  <1>4. \A i \in OwnScripts : klipper'[i] = klipper[i]
    BY <1>1 DEF OwnScripts
  <1> QED
    BY <1>2, <1>3, <1>4 DEF Synced, InStep

(* Klipper goes: its scripts are forgotten, and the news belongs to no run. *)
LEMMA GoneSynced ==
  ASSUME TypeOK, Synced, KlippyGone
  PROVE  Synced'
  <1> DEFINE news == [say |-> "klippy_gone", of |-> 0]
  <1>1. klipper' = <<>> /\ inbox' = Append(inbox, news) /\ UNCHANGED <<presses, run, orphans>>
    BY DEF KlippyGone
  <1>2. news \in Words /\ news.of = 0 /\ news.say = "klippy_gone"
    BY DEF Words
  <1> HIDE DEF news
  <1>3. /\ inbox' \in Seq(Words) /\ DOMAIN inbox' = DOMAIN inbox \cup {Len(inbox) + 1}
        /\ Len(inbox) + 1 \notin DOMAIN inbox
        /\ inbox'[Len(inbox) + 1] = news /\ \A i \in DOMAIN inbox : inbox'[i] = inbox[i]
    BY <1>1, <1>2, Appended DEF Synced, Marked
  <1>4. klipper' \in Seq(Sends) /\ DOMAIN klipper' = {}
    BY <1>1
  <1>5. Marked'
    BY <1>1, <1>2, <1>3, <1>4 DEF Synced, Marked, TypeOK
  <1>6. OwnScripts' = {} /\ OwnWords' = OwnWords
    BY <1>2, <1>3, <1>4 DEF OwnScripts, OwnWords
  <1>7. \A i \in OwnWords : inbox'[i] = inbox[i]
    BY <1>3 DEF OwnWords
  <1> QED
    BY <1>1, <1>5, <1>6, <1>7 DEF Synced, InStep

(* A script ends: what it said takes its place.                            *)
LEMMA KlipperSynced ==
  ASSUME TypeOK, Synced, KlipperStep
  PROVE  Synced'
  <1>0. klipper' = Tail(klipper) /\ UNCHANGED <<presses, run, orphans>>
    BY DEF KlipperStep
  <1>1. /\ klipper' \in Seq(Sends) /\ 1 \in DOMAIN klipper
        /\ \A i \in DOMAIN klipper' : /\ i + 1 \in DOMAIN klipper /\ i + 1 # 1
                                      /\ klipper'[i] = klipper[i + 1]
    BY <1>0, Dropped DEF KlipperStep, Synced, Marked
  <1>2. PICK new \in Seq(Words) :
          /\ inbox' = inbox \o new
          /\ klipper[1].what # "analysing" => Len(new) <= 1
          /\ \A i \in DOMAIN new :
               /\ new[i].of = klipper[1].of
               /\ klipper[1].what = "other" => new[i].say = "error"
               /\ klipper[1].what # "other" => Expects(klipper[1].what, new[i].say)
    BY KlipperSays DEF Synced
  <1>3. /\ inbox' \in Seq(Words) /\ Len(inbox') = Len(inbox) + Len(new)
        /\ \A i \in DOMAIN inbox' :
             IF i \in DOMAIN inbox THEN inbox'[i] = inbox[i]
             ELSE i - Len(inbox) \in DOMAIN new /\ inbox'[i] = new[i - Len(inbox)]
        /\ \A i \in DOMAIN inbox : i \in DOMAIN inbox' /\ inbox'[i] = inbox[i]
    BY <1>2, Grown DEF Synced, Marked
  <1>4. Marked'
    <2>1. \A i \in DOMAIN klipper' : /\ klipper'[i].of <= presses'
                                     /\ klipper'[i].what = "other" => klipper'[i].of = 0
                                     /\ klipper'[i].of = 0 =>
                                          klipper'[i].what = "other" \/ orphans' # {}
      BY <1>0, <1>1 DEF Synced, Marked
    <2>2. /\ klipper[1].of <= presses
          /\ klipper[1].of = 0 => klipper[1].what = "other" \/ orphans # {}
      BY <1>1 DEF Synced, Marked
    <2>3. \A i \in DOMAIN inbox' : /\ inbox'[i].of <= presses'
                                   /\ inbox'[i].of = 0 =>
                                        inbox'[i].say \in {"error", "klippy_gone"} \/ orphans' # {}
      BY <1>0, <1>2, <1>3, <2>2 DEF Synced, Marked
    <2> QED
      BY <1>0, <1>1, <1>3, <2>1, <2>3 DEF Synced, Marked
  <1>5. ASSUME orphans = {}
        PROVE  InStep'
    <2>0. InStep
      BY <1>5 DEF Synced
    <2>1. \A i \in OwnScripts' : i + 1 \in OwnScripts /\ i + 1 # 1 /\ klipper'[i] = klipper[i + 1]
      BY <1>1 DEF OwnScripts
    <2>2. CASE klipper[1].of = 0
      <3>1. OwnWords' = OwnWords /\ \A i \in OwnWords : inbox'[i] = inbox[i]
        BY <1>2, <1>3, <2>2 DEF OwnWords
      <3>2. \A i \in OwnScripts' : OwnScripts' = {i}
        <4>1. \A i, j \in OwnScripts' : i + 1 = j + 1
          BY <2>0, <2>1 DEF InStep
        <4>2. \A i \in OwnScripts' : i \in Nat
          BY <1>1 DEF OwnScripts
        <4> QED
          BY <4>1, <4>2
      <3> QED
        BY <1>0, <2>0, <2>1, <3>1, <3>2 DEF InStep
    <2>3. CASE klipper[1].of # 0
      <3>1. 1 \in OwnScripts
        BY <1>1, <2>3 DEF OwnScripts
      <3>2. klipper[1].of = presses /\ klipper[1].what = run /\ OwnWords = {} /\ OwnScripts = {1}
        BY <2>0, <3>1 DEF InStep
      <3>3. OwnScripts' = {}
        BY <2>1, <3>2
      <3>4. klipper[1].what # "other"
        BY <1>1, <2>3 DEF Synced, Marked
      <3>5. \A i \in OwnWords' : /\ i - Len(inbox) \in DOMAIN new /\ i \in Nat
                                 /\ inbox'[i] = new[i - Len(inbox)]
        BY <1>3, <3>2 DEF OwnWords
      <3>6. \A i \in OwnWords' : inbox'[i].of = presses /\ Expects(run, inbox'[i].say)
        BY <1>2, <3>2, <3>4, <3>5
      <3>7. run # "analysing" => \A i \in OwnWords' : i = Len(inbox) + 1
        BY <1>2, <3>2, <3>5 DEF Synced, Marked
      <3> QED
        BY <1>0, <3>3, <3>6, <3>7 DEF InStep
    <2> QED
      BY <2>2, <2>3
  <1> QED
    BY <1>0, <1>4, <1>5 DEF Synced

(* An event is dispatched and the run goes on as it was.                   *)
LEMMA HeardSynced ==
  ASSUME TypeOK, Synced, Dispatched, UNCHANGED <<run, klipper, orphans>>
  PROVE  Synced'
  <1>0. UNCHANGED presses
    BY DEF Dispatched
  <1>1. /\ inbox' \in Seq(Words)
        /\ \A i \in DOMAIN inbox' : i + 1 \in DOMAIN inbox /\ inbox'[i] = inbox[i + 1]
        /\ \A i \in OwnWords' : i + 1 \in OwnWords /\ inbox'[i] = inbox[i + 1]
    BY Dispatch DEF Synced
  <1>2. Marked'
    BY <1>0, <1>1 DEF Synced, Marked
  <1>3. ASSUME orphans = {}
        PROVE  InStep'
    <2>0. InStep
      BY <1>3 DEF Synced
    <2>1. OwnScripts' = OwnScripts
      BY DEF OwnScripts
    <2>2. OwnWords = {} => OwnWords' = {}
      BY <1>1
    <2>3. run # "analysing" => \A i, j \in OwnWords' : i + 1 = j + 1
      BY <1>1, <2>0 DEF InStep
    <2>4. \A i \in OwnWords' : i \in Nat
      BY <1>1 DEF OwnWords
    <2>5. run # "analysing" => \A i, j \in OwnWords' : i = j
      BY <2>3, <2>4
    <2> QED
      BY <1>0, <1>1, <2>0, <2>1, <2>2, <2>5 DEF InStep
  <1> QED
    BY <1>2, <1>3 DEF Synced

(* An event ends the run: what is left of it is orphaned.                  *)
LEMMA EndSynced ==
  ASSUME TypeOK, Synced, Dispatched, UNCHANGED klipper, orphans' = orphans \cup Owners
         , run' = Idle
  PROVE  Synced'
  <1>0. UNCHANGED presses
    BY DEF Dispatched
  <1>1. /\ inbox' \in Seq(Words)
        /\ \A i \in DOMAIN inbox' : i + 1 \in DOMAIN inbox /\ inbox'[i] = inbox[i + 1]
    BY Dispatch DEF Synced
  <1>2. Marked'
    BY <1>0, <1>1 DEF Synced, Marked
  <1>3. orphans' = {} => OwnScripts' = {} /\ OwnWords' = {}
    BY NothingLeft DEF Synced
  <1> QED
    BY <1>2, <1>3 DEF Synced, InStep

(* The panel sends the run's first or next script: nothing else of the run *)
(* is at Klipper or on its way.                                            *)
LEMMA SentSynced ==
  ASSUME TypeOK, Marked, NEW what \in {"testing_b", "testing_a", "analysing"}
         , klipper' = Append(klipper, [what |-> what, of |-> presses'])
         , run' = what, orphans' = orphans, presses' \in Nat \ {0}, presses <= presses'
         , inbox' \in Seq(Words)
         , \A i \in DOMAIN inbox' : \E j \in DOMAIN inbox : inbox'[i] = inbox[j]
         , orphans = {} => OwnScripts = {} /\ OwnWords' = {}
  PROVE  Synced'
  <1> DEFINE new == [what |-> what, of |-> presses']
  <1>1. new \in Sends /\ new.of = presses' /\ new.what = what
    BY DEF Sends
  <1>2. klipper' = Append(klipper, new)
    OBVIOUS
  <1> HIDE DEF new
  <1>3. /\ klipper' \in Seq(Sends) /\ DOMAIN klipper' = DOMAIN klipper \cup {Len(klipper) + 1}
        /\ klipper'[Len(klipper) + 1] = new
        /\ \A i \in DOMAIN klipper : klipper'[i] = klipper[i]
    BY <1>1, <1>2, Appended DEF Marked
  <1>4. /\ \A i \in DOMAIN klipper : klipper[i].of \in Nat
        /\ \A i \in DOMAIN inbox : inbox[i].of \in Nat
    <2>1. /\ \A i \in DOMAIN klipper : klipper[i] \in Sends
          /\ \A i \in DOMAIN inbox : inbox[i] \in Words
      BY DEF Marked
    <2> QED
      BY <2>1 DEF Sends, Words
  <1>5. Marked'
    <2>1. \A i \in DOMAIN klipper' : /\ klipper'[i].of <= presses'
                                     /\ klipper'[i].what = "other" => klipper'[i].of = 0
                                     /\ klipper'[i].of = 0 =>
                                          klipper'[i].what = "other" \/ orphans' # {}
      BY <1>1, <1>3, <1>4 DEF Marked, TypeOK
    <2>2. \A i \in DOMAIN inbox' : /\ inbox'[i].of <= presses'
                                   /\ inbox'[i].of = 0 =>
                                        inbox'[i].say \in {"error", "klippy_gone"} \/ orphans' # {}
      BY <1>4 DEF Marked, TypeOK
    <2> QED
      BY <1>3, <2>1, <2>2 DEF Marked
  <1>6. OwnScripts = {} => OwnScripts' = {Len(klipper) + 1}
    BY <1>1, <1>3 DEF OwnScripts
  <1>7. orphans' = {} => InStep'
    BY <1>1, <1>3, <1>6 DEF InStep
  <1> QED
    BY <1>5, <1>7 DEF Synced

(* What a sweep says is the last word of it: nothing else of the run is    *)
(* left when the panel sends the next script.                              *)
LEMMA LastWord ==
  ASSUME TypeOK, Marked, orphans = {}, InStep, Dispatched, NEW say \in {"wrote_b", "wrote_a"}, Heard(say)
         , run \in {"testing_b", "testing_a"}
  PROVE  OwnScripts = {} /\ OwnWords' = {}
  <1>1. 1 \in DOMAIN inbox /\ inbox[1].say = say
    BY Dispatch DEF Heard
  <1>2. 1 \in OwnWords
    BY <1>1 DEF Marked, OwnWords
  <1>3. OwnWords = {1}
    BY <1>2 DEF InStep
  <1>4. OwnWords' = {}
    BY <1>3, Dispatch
  <1> QED
    BY <1>2, <1>4 DEF InStep

(* Every step keeps the panel and Klipper in step.                         *)
LEMMA SyncedSteps ==
  ASSUME TypeOK, Synced, Next
  PROVE  Synced'
  <1>0. Marked /\ presses \in Nat
    BY DEF Synced, TypeOK
  <1>1. Other \in Sends /\ Other.of = 0 /\ Other.what = "other"
    BY DEF Other, ByHand, Sends
  <1>2. CASE KlipperStep
    BY <1>2, KlipperSynced
  <1>3. CASE OtherClient
    <2>1. PICK what \in {"other", "testing_b", "testing_a", "analysing"} :
            /\ klipper' = Append(klipper, ByHand(what))
            /\ \/ what = "other" /\ UNCHANGED orphans
               \/ orphans' = orphans \cup {0}
      BY <1>3 DEF OtherClient, Other, RunStates
    <2> DEFINE new == <<ByHand(what)>>
    <2>2. ByHand(what) \in Sends /\ ByHand(what).of = 0 /\ ByHand(what).what = what
      BY DEF ByHand, Sends
    <2>3. klipper' = klipper \o new
      BY <1>0, <2>1, <2>2 DEF Marked
    <2>4. /\ new \in Seq(Sends)
          /\ \A i \in DOMAIN new : new[i].of = 0 /\ new[i].what = what
      BY <2>2
    <2>5. UNCHANGED <<inbox, presses, run>>
      BY <1>3 DEF OtherClient
    <2> HIDE DEF new
    <2> QED
      BY <2>1, <2>3, <2>4, <2>5, OthersQueued
  <1>4. CASE KlippyGone
    BY <1>4, GoneSynced
  <1>5. CASE handle_callback_calibrate
    <2>1. /\ run = Idle /\ presses' = presses + 1 /\ run' = "testing_b"
          /\ klipper' = Append(klipper, [what |-> "testing_b", of |-> presses'])
          /\ UNCHANGED <<inbox, orphans>>
      BY <1>5 DEF handle_callback_calibrate, start_test, Script
    <2>2. orphans = {} => OwnScripts = {} /\ OwnWords = {}
      <3>1. \A i \in DOMAIN klipper : klipper[i].what # run
        <4>1. \A i \in DOMAIN klipper : klipper[i] \in Sends
          BY <1>0 DEF Marked
        <4> QED
          BY <2>1, <4>1 DEF Sends, Idle
      <3>2. OwnScripts \subseteq DOMAIN klipper
        BY DEF OwnScripts
      <3> QED
        BY <2>1, <3>1, <3>2 DEF Synced, InStep, Expects, Idle
    <2>3. OwnWords' = OwnWords
      BY <2>1 DEF OwnWords
    <2>4. inbox' \in Seq(Words) /\ \A i \in DOMAIN inbox' : inbox'[i] = inbox[i]
      BY <1>0, <2>1 DEF Marked
    <2>5. presses' \in Nat \ {0} /\ presses <= presses'
      BY <1>0, <2>1
    <2> QED
      BY <1>0, <2>1, <2>2, <2>3, <2>4, <2>5, SentSynced
  <1>6. CASE handle_callback_excite
    <2>1. PICK scripts \in {<<Other>>, <<Other, Other>>} :
            klipper' = klipper \o scripts /\ UNCHANGED <<inbox, presses, run, orphans>>
      BY <1>6 DEF handle_callback_excite
    <2>2. /\ <<Other>> \in Seq(Sends) /\ \A i \in DOMAIN <<Other>> : <<Other>>[i] = Other
          /\ <<Other, Other>> \in Seq(Sends)
          /\ \A i \in DOMAIN <<Other, Other>> : <<Other, Other>>[i] = Other
      BY <1>1
    <2>3. CASE scripts = <<Other>>
      BY <1>1, <2>1, <2>2, <2>3, OthersQueued
    <2>4. CASE scripts = <<Other, Other>>
      BY <1>1, <2>1, <2>2, <2>4, OthersQueued
    <2> QED
      BY <2>1, <2>3, <2>4
  <1>7. CASE handle_callback_emergency
    BY <1>7, GoneSynced DEF handle_callback_emergency
  <1>8. CASE handle_klippy_gone
    BY <1>8, HeardSynced, EndSynced DEF handle_klippy_gone, abandon_run
  <1>9. CASE macro_response_ignored \/ macro_response_unfetched
    BY <1>9, HeardSynced DEF macro_response_ignored, macro_response_unfetched
  <1>10. CASE macro_response_error
    BY <1>10, EndSynced DEF macro_response_error, abandon_run
  <1>11. ASSUME NEW what \in {"testing_a", "analysing"}, NEW say \in {"wrote_b", "wrote_a"}
              , run \in {"testing_b", "testing_a"}, Dispatched, Heard(say), run' = what
              , klipper' = Append(klipper, [what |-> what, of |-> presses']), UNCHANGED orphans
         PROVE  Synced'
    <2>1. orphans = {} => OwnScripts = {} /\ OwnWords' = {}
      BY <1>0, <1>11, LastWord DEF Synced
    <2>2. UNCHANGED presses
      BY <1>11 DEF Dispatched
    <2>3. inbox' \in Seq(Words) /\ \A i \in DOMAIN inbox' : \E j \in DOMAIN inbox : inbox'[i] = inbox[j]
      BY <1>0, <1>11, Dispatch
    <2>4. presses # 0
      BY <1>0, <1>11 DEF Marked, Idle
    <2>5. presses' \in Nat \ {0} /\ presses <= presses'
      BY <1>0, <2>2, <2>4
    <2> QED
      BY <1>0, <1>11, <2>1, <2>3, <2>5, SentSynced
  <1>12. CASE macro_response_wrote_b
    BY <1>11, <1>12 DEF macro_response_wrote_b, start_test, Script
  <1>13. CASE macro_response_wrote_a
    BY <1>11, <1>13 DEF macro_response_wrote_a, request_analysis, Script
  <1>14. CASE macro_response_similarity
    BY <1>14, HeardSynced DEF macro_response_similarity
  <1>15. CASE macro_response_finished
    BY <1>15, EndSynced DEF macro_response_finished, finish_run, abandon_run
  <1>16. CASE OtherImages \/ check_timeouts \/ Tick \/ LoopTurns
    <2>1. UNCHANGED <<run, klipper, inbox, presses, orphans>>
      BY <1>16 DEF OtherImages, check_timeouts, Tick, LoopTurns
    <2> QED
      BY <2>1 DEF Synced, Marked, InStep, OwnScripts, OwnWords
  <1> QED
    BY <1>2, <1>3, <1>4, <1>5, <1>6, <1>7, <1>8, <1>9, <1>10, <1>12, <1>13, <1>14, <1>15,
       <1>16 DEF Next, Drain

-----------------------------------------------------------------------------
(* The plots.                                                              *)

(* What a plot may be, before and after another run is started.            *)
LEMMA PlotsFacts ==
  ASSUME presses \in Nat, presses' \in {presses, presses + 1}
  PROVE  /\ {} \in Plots' /\ \A n \in 0..presses : {n} \in Plots'
         /\ \A p \in Plots : p \in Plots'
  BY DEF Plots

(* Every plot, shown, held or on disk, is of a run already started or of   *)
(* none.                                                                   *)
LEMMA PlotTypes ==
  ASSUME TypeOK, Marked, Next
  PROVE  graph' \in Plots' /\ cache' \in Plots' /\ png' \in Plots'
  <1>0. graph \in Plots /\ cache \in Plots /\ png \in Plots /\ presses \in Nat
    BY DEF TypeOK
  <1>1. CASE KlipperStep
    <2>1. UNCHANGED <<graph, cache, presses>>
          /\ (png' = png \/ png' = {Head(klipper).of})
      BY <1>1 DEF KlipperStep
    <2>2. Head(klipper) \in Sends /\ Head(klipper).of <= presses
      BY <1>1, Dropped DEF KlipperStep, Marked
    <2>3. Head(klipper).of \in 0..presses
      BY <1>0, <2>2 DEF Sends
    <2> QED
      BY <1>0, <2>1, <2>3, PlotsFacts
  <1>2. CASE handle_callback_calibrate
    <2>1. presses' = presses + 1 /\ graph' = {} /\ UNCHANGED <<cache, png>>
      BY <1>2 DEF handle_callback_calibrate
    <2> QED
      BY <1>0, <2>1, PlotsFacts
  <1>3. CASE macro_response_finished
    <2>1. /\ Dispatched /\ UNCHANGED <<presses, png>>
          /\ graph' = graph \/ graph' = {Head(inbox).of}
          /\ cache' = cache \/ cache' = png
      BY <1>3 DEF macro_response_finished, finish_run, abandon_run, Dispatched
    <2>2. Head(inbox) \in Words /\ Head(inbox).of <= presses
      BY <2>1, Dispatch DEF Marked
    <2>3. Head(inbox).of \in 0..presses
      BY <1>0, <2>2 DEF Words
    <2> QED
      BY <1>0, <2>1, <2>3, PlotsFacts
  <1>4. CASE OtherImages
    <2>1. UNCHANGED <<presses, png, graph>> /\ (cache' = {} \/ cache' = png)
      BY <1>4 DEF OtherImages
    <2> QED
      BY <1>0, <2>1, PlotsFacts
  <1>5. CASE \/ OtherClient \/ KlippyGone \/ handle_callback_excite \/ handle_callback_emergency
             \/ handle_klippy_gone \/ macro_response_ignored \/ macro_response_error
             \/ macro_response_wrote_b \/ macro_response_wrote_a \/ macro_response_similarity
             \/ macro_response_unfetched \/ check_timeouts \/ Tick \/ LoopTurns
    <2>1. UNCHANGED <<graph, cache, png, presses>>
      BY <1>5 DEF OtherClient, KlippyGone, handle_callback_excite, handle_callback_emergency,
           handle_klippy_gone, macro_response_ignored, macro_response_error, abandon_run,
           macro_response_wrote_b, macro_response_wrote_a, macro_response_similarity, start_test,
           request_analysis, macro_response_unfetched, check_timeouts, Tick, LoopTurns, Dispatched
    <2> QED
      BY <1>0, <2>1, PlotsFacts
  <1> QED
    BY <1>1, <1>2, <1>3, <1>4, <1>5 DEF Next, Drain

PlotInv == PlotIsOfThisRun /\ FirstPlot

(* A plot is put up only at the end of its run, and goes with the next.    *)
LEMMA PlotSteps ==
  ASSUME TypeOK, Synced, PlotInv, Next
  PROVE  PlotInv'
  <1>0. presses \in Nat /\ (run # Idle => presses # 0)
    BY DEF TypeOK, Synced, Marked
  <1>1. CASE macro_response_finished
    <2>1. /\ Dispatched /\ Heard("finished") /\ run # Idle /\ UNCHANGED <<presses, png>>
          /\ orphans' = {} => orphans = {}
      BY <1>1 DEF macro_response_finished, Dispatched
    <2>2. orphans = {} => graph = {}
      BY <2>1 DEF PlotInv, PlotIsOfThisRun
    <2>3. CASE analysis_produced_result
      <3>1. 1 \in DOMAIN inbox /\ Head(inbox) = inbox[1] /\ inbox[1].say = "finished"
        BY <2>1, Dispatch DEF Heard, Synced
      <3>2. orphans = {} => inbox[1].of = presses
        <4>1. orphans = {} => 1 \in OwnWords
          BY <3>1 DEF OwnWords, Synced, Marked
        <4> QED
          BY <4>1 DEF Synced, InStep
      <3>3. /\ graph' = {inbox[1].of} /\ run' = Idle /\ UNCHANGED analysis_produced_result
            /\ cache' = IF cache = {} THEN png ELSE cache
        BY <1>1, <2>3, <3>1 DEF macro_response_finished, finish_run
      <3>4. orphans = {} /\ presses = 1 => cache' = png
        BY <2>2, <3>3 DEF PlotInv, FirstPlot
      <3> QED
        BY <1>0, <2>1, <2>3, <3>2, <3>3, <3>4 DEF PlotInv, PlotIsOfThisRun, FirstPlot
    <2>4. CASE ~analysis_produced_result
      <3>1. UNCHANGED <<graph, cache>>
        BY <1>1, <2>4 DEF macro_response_finished, abandon_run
      <3> QED
        BY <1>0, <2>1, <2>2, <3>1 DEF PlotInv, PlotIsOfThisRun, FirstPlot
    <2> QED
      BY <2>3, <2>4
  <1>2. CASE handle_callback_calibrate
    <2>1. /\ presses' = presses + 1 /\ graph' = {} /\ UNCHANGED <<cache, orphans>> /\ run = Idle
      BY <1>2 DEF handle_callback_calibrate
    <2>2. presses = 0 /\ orphans = {} => graph = {}
      <3>1. presses = 0 /\ graph # {} => graph = {0}
        BY DEF TypeOK, Plots
      <3>2. presses = 0 /\ orphans = {} => ~analysis_produced_result
        BY DEF PlotInv, FirstPlot
      <3> QED
        BY <3>1, <3>2 DEF PlotInv, PlotIsOfThisRun
    <2> QED
      BY <1>0, <2>1, <2>2 DEF PlotInv, PlotIsOfThisRun, FirstPlot
  <1>3. CASE handle_klippy_gone \/ macro_response_error
    <2>1. /\ UNCHANGED <<graph, cache, png, presses, analysis_produced_result>>
          /\ run' \in {Idle, run}
          /\ orphans' = {} => orphans = {}
      BY <1>3 DEF handle_klippy_gone, macro_response_error, abandon_run, Dispatched
    <2> QED
      BY <1>0, <2>1 DEF PlotInv, PlotIsOfThisRun, FirstPlot
  <1>4. CASE macro_response_wrote_b \/ macro_response_wrote_a \/ macro_response_similarity \/ Tick
    <2>1. run # Idle /\ UNCHANGED <<graph, cache, presses, orphans>>
      BY <1>4 DEF macro_response_wrote_b, macro_response_wrote_a, start_test, request_analysis,
           macro_response_similarity, Tick, Idle, Dispatched
    <2> QED
      BY <1>0, <2>1 DEF PlotInv, PlotIsOfThisRun, FirstPlot
  <1>5. CASE \/ OtherClient \/ KlippyGone \/ handle_callback_excite
             \/ handle_callback_emergency \/ macro_response_ignored \/ macro_response_unfetched
             \/ check_timeouts \/ LoopTurns
    <2>1. /\ UNCHANGED <<graph, cache, png, presses, analysis_produced_result, run>>
          /\ orphans' = {} => orphans = {}
      BY <1>5 DEF OtherClient, KlippyGone, handle_callback_excite,
           handle_callback_emergency, macro_response_ignored, macro_response_unfetched,
           check_timeouts, LoopTurns, Dispatched
    <2> QED
      BY <1>0, <2>1 DEF PlotInv, PlotIsOfThisRun, FirstPlot
  <1>6. CASE KlipperStep
    <2>1. UNCHANGED <<graph, cache, presses, analysis_produced_result, run, orphans>>
      BY <1>6 DEF KlipperStep
    <2>2. orphans = {} /\ graph # {} => png' = png
      <3>1. 1 \in DOMAIN klipper /\ Head(klipper) = klipper[1]
        BY <1>6, Dropped DEF KlipperStep, Synced, Marked
      <3>2. orphans = {} /\ klipper[1].what = "analysing" => run = "analysing"
        <4>1. orphans = {} /\ klipper[1].what = "analysing" => 1 \in OwnScripts
          BY <3>1 DEF Synced, Marked, OwnScripts
        <4> QED
          BY <4>1 DEF Synced, InStep
      <3>3. klipper[1].what # "analysing" => png' = png
        BY <1>6, <3>1 DEF KlipperStep
      <3> QED
        BY <3>2, <3>3 DEF PlotInv, PlotIsOfThisRun, Idle
    <2> QED
      BY <2>1, <2>2 DEF PlotInv, PlotIsOfThisRun, FirstPlot
  <1>7. CASE OtherImages
    <2>1. /\ UNCHANGED <<graph, png, presses, analysis_produced_result, run, orphans>>
          /\ cache' = IF graph = {} THEN {} ELSE png
      BY <1>7 DEF OtherImages
    <2> QED
      BY <1>0, <2>1 DEF PlotInv, PlotIsOfThisRun, FirstPlot
  <1> QED
    BY <1>1, <1>2, <1>3, <1>4, <1>5, <1>6, <1>7 DEF Next, Drain

-----------------------------------------------------------------------------
(* The panel as it is opened.                                              *)
LEMMA Initial == Init => IInv
  <1> SUFFICES ASSUME Init PROVE IInv
    OBVIOUS
  <1>1. /\ klipper = <<>> /\ inbox = <<>> /\ loop = "drain" /\ due = 0 /\ run = Idle /\ age = 0
        /\ graph = {} /\ cache = {} /\ presses = 0 /\ others = 0 /\ orphans = {}
    BY DEF Init
  <1>2. ~watchdog /\ ~spinner /\ watchdog \in BOOLEAN /\ spinner \in BOOLEAN
        /\ analysis_produced_result \in BOOLEAN
    BY DEF Init
  <1>5. {} \in Plots /\ png \in Plots
    BY <1>1 DEF Plots, Init
  <1>3. TypeOK
    BY <1>1, <1>2, <1>5 DEF TypeOK, RunStates
  <1>6. ~analysis_produced_result
    BY DEF Init
  <1>4. Marked /\ InStep
    BY <1>1 DEF Marked, InStep, OwnScripts, OwnWords
  <1> QED
    BY <1>1, <1>2, <1>3, <1>4, <1>6 DEF IInv, RunIsWatched, PlotIsOfThisRun, FirstPlot

(* Every step keeps the invariant.                                         *)
LEMMA Inductive == IInv /\ [Next]_vars => IInv'
  <1> SUFFICES ASSUME IInv, [Next]_vars PROVE IInv'
    OBVIOUS
  <1>1. Synced
    BY DEF IInv, Synced
  <1>2. CASE Next
    <2>1. PanelTypes' /\ RunIsWatched' /\ graph' \in Plots' /\ cache' \in Plots' /\ png' \in Plots'
      BY <1>1, <1>2, PanelSteps, PlotTypes DEF IInv, Synced
    <2>2. TypeOK'
      BY <2>1 DEF PanelTypes, TypeOK
    <2>3. Synced' /\ PlotInv'
      BY <1>1, <1>2, SyncedSteps, PlotSteps DEF IInv, PlotInv
    <2> QED
      BY <2>1, <2>2, <2>3 DEF IInv, Synced, PlotInv
  <1>3. CASE UNCHANGED vars
    <2>1. Plots' = Plots
      BY <1>3 DEF Plots
    <2> QED
      BY <1>3, <2>1 DEF IInv, TypeOK, RunIsWatched, Marked, InStep, OwnScripts, OwnWords,
           PlotIsOfThisRun, FirstPlot
  <1> QED
    BY <1>2, <1>3

(* The inductive invariant holds throughout.                               *)
THEOREM Invariant == Spec => []IInv
  BY Initial, Inductive, PTL DEF Spec

(* Types of the panel's state; a drain never waits for an event that is    *)
(* not there.                                                              *)
THEOREM TypeCorrect == Spec => []TypeOK
  <1>1. IInv => TypeOK
    BY DEF IInv
  <1> QED
    BY Invariant, <1>1, PTL

(* A run, and nothing else, is watched and shown as busy: every end of a   *)
(* run (finish_run, abandon_run) and every start and continuation          *)
(* (start_test, request_analysis) keeps timer, spinner and state together. *)
THEOREM RunWatched == Spec => []RunIsWatched
  <1>1. IInv => RunIsWatched
    BY DEF IInv
  <1> QED
    BY Invariant, <1>1, PTL

(* Klipper holds at most one sweep of the panel, the one it waits for, as  *)
(* long as no run was given up with a script still at Klipper              *)
(* (handle_macro_response, handle_callback).                               *)
THEOREM OneSweep == Spec => []OneSweepAtATime
  <1>1. IInv => OneSweepAtATime
    <2> SUFFICES ASSUME IInv, orphans = {}
                 PROVE  Cardinality(Sweeps) <= 1 /\ \A i \in Sweeps : run = klipper[i].what
      BY DEF OneSweepAtATime
    <2>1. Sweeps \subseteq OwnScripts
      BY DEF IInv, Marked, Sweeps, OwnScripts
    <2>2. \A i \in Sweeps : run = klipper[i].what /\ Sweeps = {i}
      BY <2>1 DEF IInv, InStep
    <2>3. CASE Sweeps = {}
      BY <2>2, <2>3, FS_EmptySet
    <2>4. CASE Sweeps # {}
      <3>1. PICK i \in Sweeps : Sweeps = {i}
        BY <2>2, <2>4
      <3>2. Cardinality(Sweeps) = 1
        BY <3>1, FS_Singleton
      <3> QED
        BY <2>2, <3>2
    <2> QED
      BY <2>3, <2>4
  <1> QED
    BY Invariant, <1>1, PTL

(* A plot is put up by the end of the latest run, whose analysis printed a *)
(* similarity, under the same proviso; the first one drawn is what that    *)
(* run wrote, later ones may come from LVGL's cache (finish_run).          *)
THEOREM PlotOfThisRun == Spec => []PlotIsOfThisRun
  <1>1. IInv => PlotIsOfThisRun
    BY DEF IInv
  <1> QED
    BY Invariant, <1>1, PTL
=============================================================================
