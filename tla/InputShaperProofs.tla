-------------------------- MODULE InputShaperProofs --------------------------
(***************************************************************************)
(* Proofs about InputShaper for every watchdog limit and every number of   *)
(* calibrations, axis changes and scripts of other clients: types, that    *)
(* one axis runs at a time and none is forgotten in the queue, that the    *)
(* watchdog and the spinner follow the runs, and that a result taken is    *)
(* one of the calibration started last.                                    *)
(***************************************************************************)
EXTENDS InputShaper, FiniteSetTheorems, TLAPS

Answers == {"wrote", "running", "result", "unnamed", "finished", "timed_out", "error"}
Sends == [what : {"testing", "analysing", "other"}, axis : {0, 1, 2}, of : Nat]
Words == [say : Answers \cup {"klippy_gone"}, axis : {0, 1, 2}, of : Nat]

(* Scripts and responses carry a run already started; those of the panel   *)
(* name an axis and their run.                                             *)
Marked ==
  /\ klipper \in Seq(Sends) /\ inbox \in Seq(Words)
  /\ \A i \in DOMAIN klipper :
       /\ klipper[i].of <= presses
       /\ klipper[i].what # "other" => klipper[i].axis \in Axes /\ klipper[i].of # 0
  /\ \A i \in DOMAIN inbox :
       /\ inbox[i].of <= presses
       /\ inbox[i].say \notin {"error", "klippy_gone"} =>
            inbox[i].axis \in Axes /\ inbox[i].of # 0

(* OneAxisAtATime without the cardinality.                                 *)
OneRuns ==
  /\ \A a, b \in Running(run) : a = b
  /\ pending # {} => Running(run) # {}
  /\ pending \cap Running(run) = {}

(* The inbox and Klipper's queue are one line: what stands before, the     *)
(* panel hears before.  In it stand the tests and the results the panel    *)
(* acts on, as scripts or as the words they left; other items do not count. *)
KindOfWord(say) == IF say = "wrote" THEN "test" ELSE IF say = "result" THEN say ELSE "none"
KindOfScript(what) ==
  IF what = "testing" THEN "test" ELSE IF what = "analysing" THEN "result" ELSE "none"
LineOf(words, scripts) ==
  [i \in 1..(Len(words) + Len(scripts)) |->
     IF i <= Len(words)
     THEN [kind |-> KindOfWord(words[i].say), axis |-> words[i].axis, of |-> words[i].of]
     ELSE [kind |-> KindOfScript(scripts[i - Len(words)].what),
           axis |-> scripts[i - Len(words)].axis, of |-> scripts[i - Len(words)].of]]
Line == LineOf(inbox, klipper)
Items == {i \in DOMAIN Line : Line[i].kind # "none"}

(* The order of the line, while at most one calibration is orphaned: that  *)
(* one has one item left, before all of the latest one's; its result finds *)
(* no axis analysing.  The latest one has the item its run waits for, and  *)
(* before that a test at most, which an orphan's test made superfluous.    *)
InLine ==
  /\ \A i \in Items : Line[i].of \in orphans \cup {presses}
  /\ \A i, j \in Items : i < j /\ Line[j].of \in orphans =>
       Line[i].of # Line[j].of /\ Line[i].of # presses
  /\ \A i \in Items : Line[i].kind = "result" /\ Line[i].of \in orphans =>
       \A a \in Axes : run[a] # "analysing"
  /\ presses \in orphans => Running(run) = {}
  /\ presses \notin orphans =>
       /\ \A i \in Items : Line[i].of = presses =>
            /\ run[Line[i].axis] # "idle"
            /\ Line[i].kind = "result" => run[Line[i].axis] = "analysing"
       /\ \A i, j \in Items : i < j /\ Line[i].of = presses /\ Line[j].of = presses =>
            orphans # {} /\ Line[i].kind = "test" /\ Line[j].kind = "result"

FewOrphans == \A o, q \in orphans : o = q

IInv ==
  /\ TypeOK /\ target # {} /\ Marked /\ OneRuns /\ RunIsWatched
  /\ FewOrphans => InLine

USE ShaperAssumption DEF vars, axes

-----------------------------------------------------------------------------
(* The operators the actions are built from.                               *)

States == {"idle", "testing", "analysing"}
First(p) == CHOOSE b \in p : \A c \in p : b <= c

(* start_next_axis finds an axis when one is queued.                       *)
LEMMA FirstFound ==
  ASSUME NEW p \in SUBSET Axes, p # {}
  PROVE  First(p) \in p
  <1>1. \E b \in p : \A c \in p : b <= c
    <2>1. CASE 1 \in p
      BY <2>1 DEF Axes
    <2>2. CASE 1 \notin p
      <3>1. p = {2}
        BY <2>2 DEF Axes
      <3> QED
        BY <3>1
    <2> QED
      BY <2>1, <2>2
  <1> QED
    BY <1>1 DEF First

(* What start_next_axis does.                                              *)
LEMMA StartFacts ==
  ASSUME NEW p \in SUBSET Axes, NEW r \in [Axes -> States], NEW a \in Axes, start_next_axis(p, r)
         , age \in [Axes -> 0..(Limit + 1)], Running(r) = {}
  PROVE  /\ Follow(p, a) \in Axes /\ run' \in [Axes -> States] /\ age' \in [Axes -> 0..(Limit + 1)]
         /\ p = {} => /\ run' = r /\ pending' = {} /\ klipper' = klipper
         /\ p # {} => /\ Follow(p, a) \in p /\ pending' = p \ {Follow(p, a)}
                      /\ run' = [r EXCEPT ![Follow(p, a)] = "testing"]
                      /\ Running(run') = {Follow(p, a)}
                      /\ klipper' = Append(klipper, Script("testing", Follow(p, a)))
  <1>1. CASE p = {}
    BY <1>1 DEF start_next_axis, Follow
  <1>2. CASE p # {}
    <2> DEFINE f == First(p)
    <2>1. f \in p /\ f \in Axes /\ Follow(p, a) = f
      BY <1>2, FirstFound DEF Follow, First
    <2>2. /\ pending' = p \ {f} /\ run' = [r EXCEPT ![f] = "testing"]
          /\ klipper' = Append(klipper, Script("testing", f))
          /\ age' = [age EXCEPT ![f] = 0]
      BY <1>2 DEF start_next_axis, First
    <2> HIDE DEF f
    <2>3. run' \in [Axes -> States] /\ age' \in [Axes -> 0..(Limit + 1)]
      BY <2>1, <2>2 DEF States
    <2>4. Running(run') = {f}
      BY <2>1, <2>2 DEF Running
    <2> QED
      BY <1>2, <2>1, <2>2, <2>3, <2>4
  <1> QED
    BY <1>1, <1>2

(* Giving up: nothing happens, or no axis runs any more, since only one    *)
(* did.                                                                    *)
Ended ==
  /\ Running(run) # {} /\ pending' = {} /\ run' \in [Axes -> States] /\ Running(run') = {}
  /\ watchdog' \in BOOLEAN /\ ~watchdog'
  /\ spinner' \in BOOLEAN /\ (spinner' <=> run'[shown] # "idle")
  /\ orphans' = orphans \cup Owners

(* Giving up runs changes nothing that is tracked, or ends the one run.    *)
LEMMA AbandonFacts ==
  ASSUME TypeOK, OneRuns, NEW only \in BOOLEAN, abandon_runs(only)
  PROVE  UNCHANGED <<pending, run, watchdog, spinner, orphans>> \/ Ended
  <1> DEFINE doomed == {a \in Running(run) : only => run[a] = "analysing"}
  <1>1. CASE doomed = {}
    BY <1>1 DEF abandon_runs
  <1>2. CASE doomed # {}
    <2>1. /\ pending' = {} /\ run' = [a \in Axes |-> IF a \in doomed THEN "idle" ELSE run[a]]
          /\ watchdog' = FALSE /\ spinner' = (run'[shown] # "idle")
          /\ orphans' = orphans \cup Owners
      BY <1>2 DEF abandon_runs
    <2>2. doomed = Running(run) /\ Running(run) # {}
      BY <1>2 DEF OneRuns
    <2> HIDE DEF doomed
    <2>3. run' \in [Axes -> States] /\ Running(run') = {}
      BY <2>1, <2>2 DEF TypeOK, Running, States
    <2>4. watchdog' \in BOOLEAN /\ ~watchdog'
      BY <2>1
    <2>5. spinner' <=> run'[shown] # "idle"
      BY <2>1, Zenon
    <2>6. spinner' \in BOOLEAN
      BY <2>1
    <2> QED
      BY <2>1, <2>2, <2>3, <2>4, <2>5, <2>6 DEF Ended
  <1> QED
    BY <1>1, <1>2

(* What an ended script says.                                              *)
LEMMA SaysFacts ==
  ASSUME NEW s \in Sends, NEW out \in Says(s) \cup {<<>>}
  PROVE  /\ out \in Seq(Answers)
         /\ \A i \in DOMAIN out : /\ s.what = "other" => out[i] = "error"
                                  /\ KindOfWord(out[i]) \in {"none", KindOfScript(s.what)}
         /\ \A i, j \in DOMAIN out :
              i # j => KindOfWord(out[i]) = "none" \/ KindOfWord(out[j]) = "none"
  <1> DEFINE Fits(x) == /\ x \in Answers
                        /\ s.what = "other" => x = "error"
                        /\ KindOfWord(x) \in {"none", KindOfScript(s.what)}
             None(x) == KindOfWord(x) = "none"
  <1>1. \/ out = <<>>
        \/ \E x : Fits(x) /\ out = <<x>>
        \/ \E x, y : Fits(x) /\ Fits(y) /\ None(x) /\ out = <<x, y>>
        \/ \E x, y, z : Fits(x) /\ Fits(y) /\ Fits(z) /\ None(x) /\ None(z) /\ out = <<x, y, z>>
    <2>1. CASE s.what = "other"
      <3>1. out = <<>> \/ out = <<"error">>
        BY <2>1 DEF Says
      <3>2. Fits("error")
        BY <2>1 DEF Answers, KindOfWord, KindOfScript
      <3> QED
        BY <3>1, <3>2
    <2>2. CASE s.what = "testing"
      <3>1. out = <<>> \/ out = <<"wrote">> \/ out = <<"error">>
        BY <2>2 DEF Says
      <3>2. Fits("wrote") /\ Fits("error")
        BY <2>2 DEF Answers, KindOfWord, KindOfScript
      <3> QED
        BY <3>1, <3>2
    <2>3. CASE s.what = "analysing"
      <3>1. \/ out = <<>> \/ \E x \in {"finished", "error"} : out = <<x>>
            \/ \E y \in {"finished", "timed_out", "result"} : out = <<"running", y>>
            \/ \E y \in {"result", "unnamed"} : out = <<"running", y, "finished">>
        BY <2>3 DEF Says
      <3>2. \A x \in {"running", "result", "unnamed", "finished", "timed_out", "error"} : Fits(x)
        BY <2>3 DEF Answers, KindOfWord, KindOfScript
      <3>3. None("running") /\ None("finished")
        BY DEF KindOfWord
      <3> HIDE DEF Fits, None
      <3>4. \A y \in {"result", "unnamed"} : Fits("running") /\ Fits(y) /\ Fits("finished")
        BY <3>2
      <3>5. \A y \in {"finished", "timed_out", "result"} : Fits("running") /\ Fits(y)
        BY <3>2
      <3>6. \A y \in {"finished", "error"} : Fits(y)
        BY <3>2
      <3>7. CASE out = <<>>
        BY <3>7
      <3>8. CASE \E x \in {"finished", "error"} : out = <<x>>
        BY <3>6, <3>8
      <3>9. CASE \E y \in {"finished", "timed_out", "result"} : out = <<"running", y>>
        BY <3>3, <3>5, <3>9
      <3>10. CASE \E y \in {"result", "unnamed"} : out = <<"running", y, "finished">>
        BY <3>3, <3>4, <3>10
      <3> QED
        BY <3>1, <3>7, <3>8, <3>9, <3>10
    <2> QED
      BY <2>1, <2>2, <2>3 DEF Sends
  <1>2. CASE out = <<>>
    BY <1>2
  <1>3. ASSUME NEW x, Fits(x), out = <<x>>
        PROVE  /\ out \in Seq(Answers) /\ \A i \in DOMAIN out : Fits(out[i])
               /\ \A i, j \in DOMAIN out : i = j
    <2>1. x \in Answers
      BY <1>3
    <2> HIDE DEF Fits
    <2> QED
      BY <1>3, <2>1
  <1>4. ASSUME NEW x, NEW y, Fits(x), Fits(y), None(x), out = <<x, y>>
        PROVE  /\ out \in Seq(Answers) /\ \A i \in DOMAIN out : Fits(out[i])
               /\ \A i, j \in DOMAIN out : i # j => None(out[i]) \/ None(out[j])
    <2>1. x \in Answers /\ y \in Answers
      BY <1>4
    <2> HIDE DEF Fits, None
    <2> QED
      BY <1>4, <2>1
  <1>5. ASSUME NEW x, NEW y, NEW z, Fits(x), Fits(y), Fits(z), None(x), None(z), out = <<x, y, z>>
        PROVE  /\ out \in Seq(Answers) /\ \A i \in DOMAIN out : Fits(out[i])
               /\ \A i, j \in DOMAIN out : i # j => None(out[i]) \/ None(out[j])
    <2>1. x \in Answers /\ y \in Answers /\ z \in Answers
      BY <1>5
    <2> HIDE DEF Fits, None
    <2> QED
      BY <1>5, <2>1
  <1> QED
    BY <1>1, <1>2, <1>3, <1>4, <1>5

(* What a step of Klipper adds to the inbox.                               *)
LEMMA KlipperSays ==
  ASSUME Marked, KlipperStep
  PROVE  \E new \in Seq(Words) :
           /\ inbox' = inbox \o new
           /\ \A i \in DOMAIN new :
                /\ new[i].of = klipper[1].of /\ new[i].axis = klipper[1].axis
                /\ klipper[1].what = "other" => new[i].say = "error"
                /\ KindOfWord(new[i].say) \in {"none", KindOfScript(klipper[1].what)}
           /\ \A i, j \in DOMAIN new :
                i # j => KindOfWord(new[i].say) = "none" \/ KindOfWord(new[j].say) = "none"
  <1>1. klipper \in Seq(Sends) /\ klipper # <<>>
    BY DEF KlipperStep, Marked
  <1>2. Head(klipper) \in Sends /\ Head(klipper) = klipper[1]
    BY <1>1
  <1>3. klipper[1].of \in Nat /\ klipper[1].axis \in {0, 1, 2}
    BY <1>2 DEF Sends
  <1>4. PICK out \in Says(klipper[1]) \cup {<<>>} :
          inbox' = inbox \o [i \in DOMAIN out |->
                     [say |-> out[i], axis |-> klipper[1].axis, of |-> klipper[1].of]]
    BY <1>2 DEF KlipperStep
  <1>5. /\ out \in Seq(Answers)
        /\ \A i \in DOMAIN out :
             /\ klipper[1].what = "other" => out[i] = "error"
             /\ KindOfWord(out[i]) \in {"none", KindOfScript(klipper[1].what)}
        /\ \A i, j \in DOMAIN out :
             i # j => KindOfWord(out[i]) = "none" \/ KindOfWord(out[j]) = "none"
    BY <1>2, SaysFacts
  <1> DEFINE new == [i \in DOMAIN out |->
                       [say |-> out[i], axis |-> klipper[1].axis, of |-> klipper[1].of]]
  <1>6. DOMAIN out = 1..Len(out) /\ Len(out) \in Nat /\ \A i \in DOMAIN out : out[i] \in Answers
    BY <1>5
  <1>7. \A i \in DOMAIN out :
          [say |-> out[i], axis |-> klipper[1].axis, of |-> klipper[1].of] \in Words
    BY <1>3, <1>6 DEF Words
  <1>8. new \in [1..Len(out) -> Words]
    BY <1>6, <1>7
  <1>9. new \in Seq(Words)
    BY <1>6, <1>8
  <1>10. \A i \in DOMAIN new : /\ i \in DOMAIN out /\ new[i].say = out[i]
                               /\ new[i].axis = klipper[1].axis /\ new[i].of = klipper[1].of
    OBVIOUS
  <1>11. inbox' = inbox \o new
    BY <1>4
  <1> HIDE DEF new
  <1> QED
    BY <1>5, <1>9, <1>10, <1>11

(* A dispatched event is there, and the others move up.                    *)
LEMMA Dispatch ==
  ASSUME Marked, Dispatched
  PROVE  /\ 1 \in DOMAIN inbox /\ Head(inbox) = inbox[1] /\ inbox[1] \in Words
         /\ inbox' \in Seq(Words) /\ Len(inbox') = Len(inbox) - 1
         /\ \A i \in DOMAIN inbox' : i + 1 \in DOMAIN inbox /\ inbox'[i] = inbox[i + 1]
  <1>1. inbox \in Seq(Words) /\ inbox # <<>> /\ inbox' = Tail(inbox)
    BY DEF Dispatched, Marked
  <1> QED
    BY <1>1

(* Runs that own a script or a word were started.                          *)
LEMMA OwnersStarted ==
  ASSUME TypeOK, Marked, Marked', presses' = presses
  PROVE  Owners \subseteq 1..presses
  <1>1. \A i \in DOMAIN klipper : klipper[i].of \in 0..presses
    <2>1. \A i \in DOMAIN klipper : klipper[i] \in Sends
      BY DEF Marked
    <2> QED
      BY <2>1 DEF Marked, TypeOK, Sends
  <1>2. \A i \in DOMAIN inbox' : inbox'[i].of \in 0..presses
    <2>1. \A i \in DOMAIN inbox' : inbox'[i] \in Words
      BY DEF Marked
    <2> QED
      BY <2>1 DEF Marked, TypeOK, Words
  <1>3. presses \in Nat
    BY DEF TypeOK
  <1> QED
    BY <1>1, <1>2, <1>3 DEF Owners

-----------------------------------------------------------------------------
(* Scripts and words.                                                      *)

(* The panel sends a script.                                               *)
LEMMA SentMarked ==
  ASSUME TypeOK, Marked, NEW what \in {"testing", "analysing"}, NEW a \in Axes
         , klipper' = Append(klipper, Script(what, a)), presses' \in Nat \ {0}
         , presses <= presses', inbox' \in Seq(Words)
         , \A i \in DOMAIN inbox' : \E j \in DOMAIN inbox : inbox'[i] = inbox[j]
  PROVE  Marked'
  <1> DEFINE new == Script(what, a)
  <1>1. new \in Sends /\ new.of = presses' /\ new.axis = a
    BY DEF Script, Sends, Axes
  <1> HIDE DEF new
  <1>2. /\ klipper' \in Seq(Sends) /\ DOMAIN klipper' = DOMAIN klipper \cup {Len(klipper) + 1}
        /\ klipper'[Len(klipper) + 1] = new
        /\ \A i \in DOMAIN klipper : klipper'[i] = klipper[i]
    <2>1. klipper' = Append(klipper, new) /\ klipper \in Seq(Sends)
      BY DEF new, Marked
    <2> QED
      BY <1>1, <2>1
  <1>3. /\ \A i \in DOMAIN klipper : klipper[i].of \in Nat
        /\ \A i \in DOMAIN inbox : inbox[i].of \in Nat
    <2>1. /\ \A i \in DOMAIN klipper : klipper[i] \in Sends
          /\ \A i \in DOMAIN inbox : inbox[i] \in Words
      BY DEF Marked
    <2> QED
      BY <2>1 DEF Sends, Words
  <1>4. \A i \in DOMAIN klipper' :
          /\ klipper'[i].of <= presses'
          /\ klipper'[i].what # "other" => klipper'[i].axis \in Axes /\ klipper'[i].of # 0
    BY <1>1, <1>2, <1>3 DEF Marked, TypeOK
  <1>5. \A i \in DOMAIN inbox' :
          /\ inbox'[i].of <= presses'
          /\ inbox'[i].say \notin {"error", "klippy_gone"} =>
               inbox'[i].axis \in Axes /\ inbox'[i].of # 0
    BY <1>3 DEF Marked, TypeOK
  <1> QED
    BY <1>2, <1>4, <1>5 DEF Marked

(* An event is dispatched and nothing is sent.                             *)
LEMMA HeardMarked ==
  ASSUME Marked, Dispatched, UNCHANGED klipper
  PROVE  Marked'
  BY Dispatch DEF Marked, Dispatched

(* Steps of Klipper and of its other clients.                              *)
LEMMA KlipperMarked ==
  ASSUME TypeOK, Marked, KlipperStep \/ OtherClient \/ KlippyGone
  PROVE  Marked'
  <1>1. CASE KlipperStep
    <2>1. PICK new \in Seq(Words) :
            /\ inbox' = inbox \o new
            /\ \A i \in DOMAIN new :
                 /\ new[i].of = klipper[1].of /\ new[i].axis = klipper[1].axis
                 /\ klipper[1].what = "other" => new[i].say = "error"
      BY <1>1, KlipperSays
    <2>2. /\ klipper' \in Seq(Sends) /\ 1 \in DOMAIN klipper /\ presses' = presses
          /\ \A i \in DOMAIN klipper' : i + 1 \in DOMAIN klipper /\ klipper'[i] = klipper[i + 1]
      <3>1. klipper \in Seq(Sends) /\ klipper # <<>> /\ klipper' = Tail(klipper) /\ presses' = presses
        BY <1>1 DEF KlipperStep, Marked
      <3> QED
        BY <3>1
    <2>3. /\ inbox' \in Seq(Words)
          /\ \A i \in DOMAIN inbox' : \/ i \in DOMAIN inbox /\ inbox'[i] = inbox[i]
                                      \/ \E j \in DOMAIN new : inbox'[i] = new[j]
      <3>1. inbox \in Seq(Words)
        BY DEF Marked
      <3>2. \A i \in DOMAIN inbox' : \/ i \in DOMAIN inbox /\ inbox'[i] = inbox[i]
                                     \/ i - Len(inbox) \in DOMAIN new /\ inbox'[i] = new[i - Len(inbox)]
        BY <2>1, <3>1
      <3> QED
        BY <2>1, <3>1, <3>2
    <2>4. \A i \in DOMAIN inbox' :
            /\ inbox'[i].of <= presses'
            /\ inbox'[i].say \notin {"error", "klippy_gone"} =>
                 inbox'[i].axis \in Axes /\ inbox'[i].of # 0
      BY <2>1, <2>2, <2>3 DEF Marked
    <2> QED
      BY <2>2, <2>3, <2>4 DEF Marked
  <1>2. CASE OtherClient
    <2>1. Other \in Sends /\ Other.of = 0 /\ Other.what = "other"
      BY DEF Other, Sends
    <2>2. klipper' = Append(klipper, Other) /\ UNCHANGED <<inbox, presses>> /\ klipper \in Seq(Sends)
      BY <1>2 DEF OtherClient, Marked
    <2>3. /\ klipper' \in Seq(Sends) /\ DOMAIN klipper' = DOMAIN klipper \cup {Len(klipper) + 1}
          /\ klipper'[Len(klipper) + 1] = Other
          /\ \A i \in DOMAIN klipper : klipper'[i] = klipper[i]
      BY <2>1, <2>2
    <2> QED
      BY <2>1, <2>2, <2>3 DEF Marked, TypeOK
  <1>3. CASE KlippyGone
    <2> DEFINE news == [say |-> "klippy_gone", axis |-> 0, of |-> 0]
    <2>1. news \in Words /\ news.of = 0 /\ news.say = "klippy_gone"
      BY DEF Words
    <2>2. klipper' = <<>> /\ inbox' = Append(inbox, news) /\ UNCHANGED presses /\ inbox \in Seq(Words)
      BY <1>3 DEF KlippyGone, Marked
    <2> HIDE DEF news
    <2>3. /\ inbox' \in Seq(Words) /\ DOMAIN inbox' = DOMAIN inbox \cup {Len(inbox) + 1}
          /\ inbox'[Len(inbox) + 1] = news /\ \A i \in DOMAIN inbox : inbox'[i] = inbox[i]
      BY <2>1, <2>2
    <2>4. klipper' \in Seq(Sends) /\ DOMAIN klipper' = {}
      BY <2>2
    <2> QED
      BY <2>1, <2>2, <2>3, <2>4 DEF Marked, TypeOK
  <1> QED
    BY <1>1, <1>2, <1>3

-----------------------------------------------------------------------------
(* The panel's own state.                                                  *)

PanelInv == TypeOK /\ target # {} /\ OneRuns /\ RunIsWatched

(* Giving up, for whatever reason.                                         *)
LEMMA AbandonPanel ==
  ASSUME PanelInv, Marked, Marked', NEW only \in BOOLEAN, abandon_runs(only)
         , UNCHANGED <<target, shown, age, result, produced, presses, taps, others>>
  PROVE  PanelInv'
  <1>1. CASE UNCHANGED <<pending, run, watchdog, spinner, orphans>>
    BY <1>1 DEF PanelInv, TypeOK, OneRuns, RunIsWatched
  <1>2. CASE Ended
    <2>1. orphans' \subseteq 1..presses
      BY <1>2, OwnersStarted DEF Ended, PanelInv, TypeOK
    <2> QED
      BY <1>2, <2>1 DEF Ended, PanelInv, TypeOK, OneRuns, RunIsWatched, States
  <1> QED
    BY <1>1, <1>2, AbandonFacts DEF PanelInv

(* Steps that touch none of the panel's own state.                         *)
LEMMA PanelFrame ==
  ASSUME PanelInv, UNCHANGED <<axes, presses, orphans>>, taps' \in Nat, others' \in Nat
  PROVE  PanelInv'
  BY DEF PanelInv, TypeOK, OneRuns, RunIsWatched

(* Calibrate: one axis starts, the others asked for wait.                  *)
LEMMA CalibratePanel ==
  ASSUME PanelInv, handle_callback_calibrate
  PROVE  PanelInv'
  <1>1. /\ presses' = presses + 1 /\ Running(run) = {}
        /\ result' = [a \in Axes |-> IF a \in target THEN 0 ELSE result[a]]
        /\ start_next_axis(target, run) /\ watchdog' = TRUE
        /\ shown' = Follow(target, shown)
        /\ spinner' = (run'[Follow(target, shown)] # "idle")
        /\ UNCHANGED <<target, produced, inbox, taps, others, orphans>>
    BY DEF handle_callback_calibrate, show_axis
  <1>2. /\ target \in SUBSET Axes /\ target # {} /\ run \in [Axes -> States] /\ shown \in Axes
        /\ age \in [Axes -> 0..(Limit + 1)]
    BY DEF PanelInv, TypeOK, States
  <1> DEFINE f == Follow(target, shown)
  <1>3. /\ f \in Axes /\ run' \in [Axes -> States] /\ age' \in [Axes -> 0..(Limit + 1)]
        /\ f \in target /\ pending' = target \ {f} /\ Running(run') = {f}
    BY <1>1, <1>2, StartFacts
  <1>4. spinner' \in BOOLEAN
    BY <1>1
  <1>5. spinner' <=> run'[f] # "idle"
    BY <1>1, Zenon
  <1>6. result' \in [Axes -> 0..presses']
    BY <1>1 DEF PanelInv, TypeOK
  <1>7. orphans' \subseteq 1..presses' /\ presses' \in Nat
    BY <1>1 DEF PanelInv, TypeOK
  <1>8. shown' = f
    BY <1>1
  <1> HIDE DEF f
  <1>9. watchdog' /\ watchdog' \in BOOLEAN
    BY <1>1
  <1>10. TypeOK'
    BY <1>1, <1>2, <1>3, <1>4, <1>6, <1>7, <1>8, <1>9 DEF PanelInv, TypeOK, States
  <1>11. OneRuns'
    BY <1>3 DEF OneRuns
  <1> QED
    BY <1>1, <1>2, <1>3, <1>5, <1>8, <1>9, <1>10, <1>11 DEF PanelInv, RunIsWatched

(* A result: the axis is done and the next one starts.                     *)
LEMMA ResultPanel ==
  ASSUME PanelInv, Marked, response_result
  PROVE  PanelInv'
  <1> DEFINE a == inbox[1].axis
             r == [run EXCEPT ![a] = "idle"]
             f == Follow(pending, a)
  <1>0. Dispatched /\ Heard("result") /\ produced' = TRUE
    BY DEF response_result
  <1>1. UNCHANGED <<target, presses, taps, others>>
    BY <1>0 DEF Dispatched
  <1>2. /\ 1 \in DOMAIN inbox /\ Head(inbox) = inbox[1] /\ inbox[1] \in Words
        /\ inbox[1].say = "result"
    BY <1>0, Dispatch DEF Heard
  <1>3. a \in Axes /\ inbox[1].of \in 0..presses
    BY <1>2 DEF Marked, Words, PanelInv, TypeOK
  <1>4. CASE run[a] = "analysing"
    <2>1. /\ result' = [result EXCEPT ![a] = inbox[1].of] /\ start_next_axis(pending, r)
          /\ watchdog' = IF pending # {} THEN TRUE ELSE watchdog /\ Running(r) # {}
          /\ shown' = f /\ spinner' = (run'[f] # "idle") /\ UNCHANGED orphans
      BY <1>2, <1>4 DEF response_result, show_axis
    <2>2. /\ pending \in SUBSET Axes /\ r \in [Axes -> States] /\ age \in [Axes -> 0..(Limit + 1)]
      BY <1>3 DEF PanelInv, TypeOK, States
    <2>3. Running(r) = {}
      <3>1. \A b \in Axes : b # a => run[b] = "idle"
        BY <1>3, <1>4 DEF PanelInv, OneRuns, Running
      <3> QED
        BY <1>3, <3>1 DEF Running, PanelInv, TypeOK
    <2> HIDE DEF r, a
    <2>4. /\ f \in Axes /\ run' \in [Axes -> States] /\ age' \in [Axes -> 0..(Limit + 1)]
          /\ pending = {} => run' = r /\ pending' = {}
          /\ pending # {} => f \in pending /\ pending' = pending \ {f} /\ Running(run') = {f}
      BY <1>3, <2>1, <2>2, <2>3, StartFacts
    <2> HIDE DEF f
    <2>5. spinner' \in BOOLEAN
      BY <2>1
    <2>6. spinner' <=> run'[f] # "idle"
      BY <2>1, Zenon
    <2>7. watchdog' \in BOOLEAN /\ (watchdog' <=> Running(run') # {})
      <3>1. CASE pending # {}
        BY <2>1, <2>4, <3>1
      <3>2. CASE pending = {}
        <4>1. watchdog' = (watchdog /\ Running(r) # {})
          BY <2>1, <3>2
        <4>2. watchdog' <=> watchdog /\ Running(r) # {}
          BY <4>1, Zenon
        <4>3. watchdog' \in BOOLEAN
          BY <4>1
        <4> QED
          BY <2>3, <2>4, <3>2, <4>2, <4>3
      <3> QED
        BY <3>1, <3>2
    <2>8. result' \in [Axes -> 0..presses]
      BY <1>3, <2>1 DEF PanelInv, TypeOK
    <2>9. produced' \in BOOLEAN /\ pending' \in SUBSET Axes
      BY <1>0, <2>2, <2>4
    <2>10. TypeOK'
      BY <1>1, <2>1, <2>4, <2>5, <2>7, <2>8, <2>9 DEF PanelInv, TypeOK, States
    <2>11. OneRuns'
      BY <2>3, <2>4 DEF OneRuns
    <2> QED
      BY <1>1, <2>1, <2>6, <2>7, <2>10, <2>11 DEF PanelInv, RunIsWatched
  <1>5. CASE run[a] # "analysing"
    <2>1. UNCHANGED <<shown, pending, run, age, result, watchdog, spinner, klipper, orphans>>
      BY <1>2, <1>5 DEF response_result
    <2> QED
      BY <1>0, <1>1, <2>1 DEF PanelInv, TypeOK, OneRuns, RunIsWatched
  <1> QED
    BY <1>4, <1>5

(* The test's data is written: the axis goes on running.                   *)
LEMMA WrotePanel ==
  ASSUME PanelInv, Marked, response_wrote
  PROVE  PanelInv'
  <1> DEFINE a == inbox[1].axis
  <1>0. Dispatched /\ Heard("wrote")
        /\ UNCHANGED <<shown, pending, result, produced, watchdog, spinner, orphans>>
    BY DEF response_wrote
  <1>1. UNCHANGED <<target, presses, taps, others>>
    BY <1>0 DEF Dispatched
  <1>2. 1 \in DOMAIN inbox /\ Head(inbox) = inbox[1] /\ inbox[1].say = "wrote"
    BY <1>0, Dispatch DEF Heard
  <1>3. a \in Axes
    BY <1>2 DEF Marked
  <1>4. CASE run[a] = "testing"
    <2>1. run' = [run EXCEPT ![a] = "analysing"] /\ age' = [age EXCEPT ![a] = 0]
      BY <1>2, <1>4 DEF response_wrote
    <2> HIDE DEF a
    <2>2. /\ run' \in [Axes -> States] /\ age' \in [Axes -> 0..(Limit + 1)]
          /\ \A b \in Axes : run'[b] # "idle" <=> run[b] # "idle"
      BY <1>3, <1>4, <2>1 DEF PanelInv, TypeOK, States
    <2>3. Running(run') = Running(run)
      BY <2>2 DEF Running
    <2> QED
      BY <1>0, <1>1, <2>2, <2>3 DEF PanelInv, TypeOK, OneRuns, RunIsWatched, States
  <1>5. CASE run[a] # "testing"
    <2>1. UNCHANGED <<run, age>>
      BY <1>2, <1>5 DEF response_wrote
    <2> QED
      BY <1>0, <1>1, <2>1 DEF PanelInv, TypeOK, OneRuns, RunIsWatched
  <1> QED
    BY <1>4, <1>5

-----------------------------------------------------------------------------
(* The line of tests and results.                                          *)

(* Items name an axis and a run, and are of two kinds.                     *)
ItemsMarked ==
  \A i \in Items :
    /\ i \in Nat /\ Line[i].kind \in {"test", "result"}
    /\ Line[i].axis \in Axes /\ Line[i].of # 0
    /\ \/ i \in DOMAIN inbox /\ Line[i].of = inbox[i].of
       \/ i - Len(inbox) \in DOMAIN klipper /\ Line[i].of = klipper[i - Len(inbox)].of

(* What Marked says of scripts and responses, said of the line they form.  *)
LEMMA ItemFacts == Marked => ItemsMarked
  <1> SUFFICES ASSUME Marked, NEW i \in Items
               PROVE  /\ i \in Nat /\ Line[i].kind \in {"test", "result"}
                      /\ Line[i].axis \in Axes /\ Line[i].of # 0
                      /\ \/ i \in DOMAIN inbox /\ Line[i].of = inbox[i].of
                         \/ /\ i - Len(inbox) \in DOMAIN klipper
                            /\ Line[i].of = klipper[i - Len(inbox)].of
    BY DEF ItemsMarked
  <1>1. /\ inbox \in Seq(Words) /\ klipper \in Seq(Sends) /\ i \in 1..(Len(inbox) + Len(klipper))
        /\ Line[i].kind # "none"
    BY DEF Items, Line, LineOf, Marked
  <1>2. CASE i <= Len(inbox)
    <2>1. i \in DOMAIN inbox
      BY <1>1, <1>2
    <2>2. /\ Line[i].kind = KindOfWord(inbox[i].say) /\ Line[i].axis = inbox[i].axis
          /\ Line[i].of = inbox[i].of
      BY <1>1, <1>2 DEF Line, LineOf
    <2>3. inbox[i].say \in {"wrote", "result"}
      BY <1>1, <2>2 DEF KindOfWord
    <2> QED
      BY <1>1, <2>1, <2>2, <2>3 DEF Marked, KindOfWord
  <1>3. CASE ~(i <= Len(inbox))
    <2>1. i - Len(inbox) \in DOMAIN klipper
      BY <1>1, <1>3
    <2>2. /\ Line[i].kind = KindOfScript(klipper[i - Len(inbox)].what)
          /\ Line[i].axis = klipper[i - Len(inbox)].axis
          /\ Line[i].of = klipper[i - Len(inbox)].of
      BY <1>1, <1>3 DEF Line, LineOf
    <2>3. klipper[i - Len(inbox)].what \in {"testing", "analysing"}
      BY <1>1, <2>2 DEF KindOfScript
    <2> QED
      BY <1>1, <2>1, <2>2, <2>3 DEF Marked, KindOfScript
  <1> QED
    BY <1>2, <1>3

(* A word is heard: the line moves up.                                     *)
LEMMA MovedUp ==
  ASSUME NEW words \in Seq(Words), words # <<>>, NEW scripts \in Seq(Sends)
  PROVE  /\ DOMAIN LineOf(Tail(words), scripts) = 1..(Len(words) + Len(scripts) - 1)
         /\ \A i \in DOMAIN LineOf(Tail(words), scripts) :
              /\ i + 1 \in DOMAIN LineOf(words, scripts)
              /\ LineOf(Tail(words), scripts)[i] = LineOf(words, scripts)[i + 1]
         /\ 1 \in DOMAIN LineOf(words, scripts)
         /\ LineOf(words, scripts)[1].kind = KindOfWord(words[1].say)
         /\ LineOf(words, scripts)[1].axis = words[1].axis
         /\ LineOf(words, scripts)[1].of = words[1].of
  <1>1. /\ Len(Tail(words)) = Len(words) - 1 /\ Len(words) \in Nat /\ Len(words) > 0
        /\ Len(scripts) \in Nat
        /\ \A i \in 1..(Len(words) - 1) : Tail(words)[i] = words[i + 1]
    OBVIOUS
  <1>2. DOMAIN LineOf(Tail(words), scripts) = 1..(Len(words) + Len(scripts) - 1)
    BY <1>1 DEF LineOf
  <1>3. ASSUME NEW i \in 1..(Len(words) + Len(scripts) - 1)
        PROVE  /\ i + 1 \in DOMAIN LineOf(words, scripts)
               /\ LineOf(Tail(words), scripts)[i] = LineOf(words, scripts)[i + 1]
    <2>1. i + 1 \in 1..(Len(words) + Len(scripts)) /\ i \in 1..(Len(Tail(words)) + Len(scripts))
      BY <1>1
    <2>2. CASE i <= Len(words) - 1
      BY <1>1, <2>1, <2>2 DEF LineOf
    <2>3. CASE ~(i <= Len(words) - 1)
      <3>1. i - Len(Tail(words)) = i + 1 - Len(words) /\ ~(i + 1 <= Len(words)) /\ ~(i <= Len(Tail(words)))
        BY <1>1, <2>3
      <3> QED
        BY <2>1, <3>1 DEF LineOf
    <2> QED
      BY <2>2, <2>3
  <1> QED
    BY <1>1, <1>2, <1>3 DEF LineOf

(* A script is sent: it stands last.                                       *)
LEMMA StandsLast ==
  ASSUME NEW words \in Seq(Words), NEW scripts \in Seq(Sends), NEW s \in Sends
  PROVE  LET n == Len(words) + Len(scripts) + 1
             L == LineOf(words, Append(scripts, s))
         IN  /\ n \in Nat /\ DOMAIN L = DOMAIN LineOf(words, scripts) \cup {n}
             /\ DOMAIN LineOf(words, scripts) = 1..(n - 1)
             /\ \A i \in DOMAIN LineOf(words, scripts) : L[i] = LineOf(words, scripts)[i]
             /\ L[n].kind = KindOfScript(s.what) /\ L[n].axis = s.axis /\ L[n].of = s.of
  <1> DEFINE n == Len(words) + Len(scripts) + 1
             t == Append(scripts, s)
  <1>1. /\ Len(t) = Len(scripts) + 1 /\ Len(words) \in Nat /\ Len(scripts) \in Nat
        /\ \A i \in 1..Len(scripts) : t[i] = scripts[i]
        /\ t[Len(scripts) + 1] = s
    OBVIOUS
  <1> HIDE DEF t
  <1>2. DOMAIN LineOf(words, t) = 1..n /\ DOMAIN LineOf(words, scripts) = 1..(n - 1) /\ n \in Nat
    BY <1>1 DEF LineOf
  <1>3. 1..n = 1..(n - 1) \cup {n}
    BY <1>1
  <1>4. \A i \in 1..(n - 1) : LineOf(words, t)[i] = LineOf(words, scripts)[i]
    <2> SUFFICES ASSUME NEW i \in 1..(n - 1)
                 PROVE  LineOf(words, t)[i] = LineOf(words, scripts)[i]
      OBVIOUS
    <2>1. i \in 1..(Len(words) + Len(t)) /\ i \in 1..(Len(words) + Len(scripts))
      BY <1>1
    <2>2. CASE i <= Len(words)
      BY <2>1, <2>2 DEF LineOf
    <2>3. CASE ~(i <= Len(words))
      <3>1. t[i - Len(words)] = scripts[i - Len(words)]
        BY <1>1, <2>1, <2>3
      <3> QED
        BY <2>1, <2>3, <3>1 DEF LineOf
    <2> QED
      BY <2>2, <2>3
  <1>5. /\ LineOf(words, t)[n].kind = KindOfScript(s.what) /\ LineOf(words, t)[n].axis = s.axis
        /\ LineOf(words, t)[n].of = s.of
    <2>1. n \in 1..(Len(words) + Len(t)) /\ ~(n <= Len(words)) /\ n - Len(words) = Len(scripts) + 1
      BY <1>1
    <2> QED
      BY <1>1, <2>1 DEF LineOf
  <1> QED
    BY <1>2, <1>3, <1>4, <1>5 DEF t

LineInv == FewOrphans => InLine

(* Items may go, but none comes and none overtakes another.                *)
Embeds(f) ==
  /\ \A i \in Items' : f[i] \in Items /\ Line'[i] = Line[f[i]]
  /\ \A i, j \in Items' : i < j => f[i] < f[j]

(* A step that only thins the line out keeps the order of its items.       *)
LEMMA Kept ==
  ASSUME LineInv, NEW f, Embeds(f), UNCHANGED <<run, presses, orphans>>
  PROVE  LineInv'
  <1> SUFFICES ASSUME FewOrphans'
               PROVE  InLine'
    BY DEF LineInv
  <1>1. InLine
    BY DEF LineInv, FewOrphans
  <1> QED
    BY <1>1 DEF InLine, Embeds

(* Dispatching a word, and sending nothing.                                *)
LEMMA DispatchEmbeds ==
  ASSUME Marked, Dispatched, UNCHANGED klipper
  PROVE  Embeds([i \in Nat |-> i + 1])
  <1>1. /\ inbox \in Seq(Words) /\ inbox # <<>> /\ klipper \in Seq(Sends)
        /\ Line' = LineOf(Tail(inbox), klipper)
    BY DEF Marked, Dispatched, Line
  <1>2. /\ DOMAIN Line' \subseteq Nat
        /\ \A i \in DOMAIN Line' : i + 1 \in DOMAIN Line /\ Line'[i] = Line[i + 1]
    BY <1>1, MovedUp DEF Line
  <1> QED
    BY <1>2 DEF Embeds, Items

(* Nothing heard, nothing sent.                                            *)
LEMMA SameEmbeds ==
  ASSUME Marked, UNCHANGED <<inbox, klipper>>
  PROVE  Embeds([i \in Nat |-> i])
  <1>1. Line' = Line /\ Items' = Items
    BY DEF Line, Items
  <1>2. Items \subseteq Nat
    BY ItemFacts DEF ItemsMarked
  <1> QED
    BY <1>1, <1>2 DEF Embeds

(* The runs are given up: what is left is of the one orphan, and it is one *)
(* item.                                                                   *)
LEMMA EndedLine ==
  ASSUME LineInv, Marked', NEW f, Embeds(f), Ended, UNCHANGED <<presses, klipper>>
  PROVE  LineInv'
  <1> SUFFICES ASSUME FewOrphans'
               PROVE  InLine'
    BY DEF LineInv
  <1>1. orphans' = orphans \cup Owners /\ Running(run) # {} /\ Running(run') = {}
    BY DEF Ended
  <1>2. InLine
    BY <1>1 DEF LineInv, FewOrphans
  <1>3. presses \notin orphans
    BY <1>1, <1>2 DEF InLine
  <1>4. \A i \in Items' : Line'[i].of \in orphans'
    <2>1. \A i \in Items' : /\ Line'[i].of # 0
                            /\ \/ i \in DOMAIN inbox' /\ Line'[i].of = inbox'[i].of
                               \/ /\ i - Len(inbox') \in DOMAIN klipper'
                                  /\ Line'[i].of = klipper'[i - Len(inbox')].of
      <3>1. ItemsMarked'
        BY ItemFacts, PTL
      <3> QED
        BY <3>1 DEF ItemsMarked
    <2> QED
      BY <1>1, <2>1 DEF Owners
  <1>5. \A i, j \in Items' : ~(i < j)
    <2> SUFFICES ASSUME NEW i \in Items', NEW j \in Items', i < j
                 PROVE  FALSE
      OBVIOUS
    <2>1. /\ f[i] \in Items /\ f[j] \in Items /\ f[i] < f[j]
          /\ Line'[i] = Line[f[i]] /\ Line'[j] = Line[f[j]]
      BY DEF Embeds
    <2>2. Line[f[i]].of = Line[f[j]].of
      BY <1>4, <2>1 DEF FewOrphans
    <2>3. Line[f[i]].of \notin orphans
      BY <1>2, <2>1, <2>2 DEF InLine
    <2>4. Line[f[i]].of = presses
      BY <1>2, <2>1, <2>3 DEF InLine
    <2>5. orphans # {}
      BY <1>2, <1>3, <2>1, <2>2, <2>4 DEF InLine
    <2>6. Line[f[i]].of \in orphans
      BY <1>1, <1>4, <2>1, <2>5 DEF FewOrphans
    <2> QED
      BY <2>3, <2>6
  <1>6. \A a \in Axes : run'[a] # "analysing"
    BY <1>1 DEF Running
  <1> QED
    BY <1>1, <1>4, <1>5, <1>6 DEF InLine

(* The panel sends a script: an item of the latest run stands last.        *)
LEMMA SentLine ==
  ASSUME Marked, inbox' \in Seq(Words), NEW what \in {"testing", "analysing"}, NEW a \in Axes
         , klipper' = Append(klipper, Script(what, a)), presses' \in Nat
  PROVE  LET n == Len(inbox') + Len(klipper) + 1
             L == LineOf(inbox', klipper)
         IN  /\ n \in Nat /\ DOMAIN L = 1..(n - 1)
             /\ DOMAIN Line' = DOMAIN L \cup {n} /\ \A i \in DOMAIN L : Line'[i] = L[i]
             /\ Line'[n].kind = KindOfScript(what) /\ Line'[n].axis = a
             /\ Line'[n].of = presses' /\ n \in Items'
             /\ \A i \in Items' : i # n => i \in DOMAIN L /\ L[i].kind # "none" /\ i < n
  <1> DEFINE new == Script(what, a)
  <1>1. new \in Sends /\ new.of = presses' /\ new.axis = a /\ new.what = what
    BY DEF Script, Sends, Axes
  <1>2. klipper \in Seq(Sends) /\ Line' = LineOf(inbox', Append(klipper, new))
    BY DEF Marked, Line
  <1> HIDE DEF new
  <1> DEFINE n == Len(inbox') + Len(klipper) + 1
             L == LineOf(inbox', klipper)
  <1>3. /\ n \in Nat /\ DOMAIN L = 1..(n - 1)
        /\ DOMAIN Line' = DOMAIN L \cup {n} /\ \A i \in DOMAIN L : Line'[i] = L[i]
        /\ Line'[n].kind = KindOfScript(what) /\ Line'[n].axis = a /\ Line'[n].of = presses'
    BY <1>1, <1>2, StandsLast
  <1>4. KindOfScript(what) # "none"
    BY DEF KindOfScript
  <1> HIDE DEF n, L
  <1>5. n \in Items' /\ \A i \in Items' : i # n => i \in DOMAIN L /\ L[i].kind # "none" /\ i < n
    BY <1>3, <1>4 DEF Items
  <1> QED
    BY <1>3, <1>5 DEF n, L

(* A calibration starts: everything in the line is of the orphan.          *)
LEMMA CalibrateLine ==
  ASSUME PanelInv, Marked, LineInv, handle_callback_calibrate
  PROVE  LineInv'
  <1> SUFFICES ASSUME FewOrphans'
               PROVE  InLine'
    BY DEF LineInv
  <1>1. /\ presses' = presses + 1 /\ Running(run) = {} /\ start_next_axis(target, run)
        /\ UNCHANGED <<target, inbox, orphans>>
    BY DEF handle_callback_calibrate
  <1>2. InLine
    BY <1>1 DEF LineInv, FewOrphans
  <1>3. /\ target \in SUBSET Axes /\ target # {} /\ run \in [Axes -> States] /\ shown \in Axes
        /\ age \in [Axes -> 0..(Limit + 1)] /\ presses \in Nat /\ orphans \subseteq 1..presses
    BY DEF PanelInv, TypeOK, States
  <1> DEFINE f == Follow(target, shown)
             n == Len(inbox) + Len(klipper) + 1
             new == Script("testing", f)
  <1>4. /\ f \in Axes /\ run' = [run EXCEPT ![f] = "testing"] /\ Running(run') = {f}
        /\ klipper' = Append(klipper, new)
    BY <1>1, <1>3, StartFacts
  <1> HIDE DEF f, new
  <1>6. /\ DOMAIN Line' = DOMAIN Line \cup {n} /\ n \in Nat /\ DOMAIN Line = 1..(n - 1)
        /\ \A i \in DOMAIN Line : Line'[i] = Line[i]
        /\ Line'[n].kind = "test" /\ Line'[n].axis = f /\ Line'[n].of = presses'
    <2>1. inbox' \in Seq(Words) /\ Line = LineOf(inbox', klipper) /\ presses' \in Nat
          /\ n = Len(inbox') + Len(klipper) + 1 /\ KindOfScript("testing") = "test"
      BY <1>1, <1>3 DEF Line, Marked, KindOfScript
    <2>2. klipper' = Append(klipper, Script("testing", f))
      BY <1>4 DEF new
    <2> HIDE DEF n
    <2> QED
      BY <1>4, <2>1, <2>2, SentLine
  <1>7. Items' = Items \cup {n} /\ \A i \in Items : Line'[i] = Line[i] /\ i < n /\ i \in Nat
    BY <1>6 DEF Items
  <1> HIDE DEF n
  <1>8. \A a \in Axes : run[a] = "idle"
    BY <1>1 DEF Running
  <1>9. \A i \in Items : Line[i].axis \in Axes
    BY ItemFacts DEF ItemsMarked
  <1>10. \A i \in Items : Line[i].of \in orphans
    BY <1>2, <1>8, <1>9 DEF InLine
  <1>11. presses' \notin orphans
    BY <1>1, <1>3
  <1>12. \A a \in Axes : run'[a] # "analysing"
    BY <1>3, <1>4, <1>8
  <1>13. run'[f] = "testing"
    BY <1>3, <1>4
  <1>14. \A i \in Items' : Line'[i].of = presses' => i = n
    BY <1>7, <1>10, <1>11
  <1>15. \A i \in Items' : Line'[i].of \in orphans' => i \in Items
    BY <1>1, <1>6, <1>7, <1>11
  <1>16. \A i \in Items' : Line'[i].of \in orphans' \cup {presses'}
    BY <1>1, <1>6, <1>7, <1>10
  <1>17. \A i, j \in Items' : i < j /\ Line'[j].of \in orphans' =>
           Line'[i].of # Line'[j].of /\ Line'[i].of # presses'
    <2> SUFFICES ASSUME NEW i \in Items', NEW j \in Items', i < j, Line'[j].of \in orphans'
                 PROVE  Line'[i].of # Line'[j].of /\ Line'[i].of # presses'
      OBVIOUS
    <2>1. j \in Items /\ i \in Items
      BY <1>6, <1>7, <1>15
    <2> QED
      BY <1>1, <1>2, <1>7, <1>10, <1>11, <2>1 DEF InLine
  <1>18. n \in Items'
    BY <1>7
  <1> QED
    BY <1>1, <1>6, <1>11, <1>12, <1>13, <1>14, <1>16, <1>17 DEF InLine

(* An axis takes a result: it is the latest run's, and nothing else is in  *)
(* the line.                                                               *)
LEMMA ResultAlone ==
  ASSUME InLine, Marked, Dispatched, Heard("result"), run[inbox[1].axis] = "analysing"
  PROVE  /\ inbox[1].of = presses /\ presses \notin orphans
         /\ \A i \in DOMAIN LineOf(inbox', klipper) : LineOf(inbox', klipper)[i].kind = "none"
  <1>1. /\ 1 \in DOMAIN inbox /\ Head(inbox) = inbox[1] /\ inbox \in Seq(Words)
        /\ klipper \in Seq(Sends) /\ inbox # <<>> /\ inbox' = Tail(inbox)
    BY Dispatch DEF Dispatched, Marked
  <1>2. inbox[1].say = "result" /\ inbox[1].axis \in Axes
    BY <1>1 DEF Heard, Marked
  <1>3. /\ \A i \in DOMAIN LineOf(inbox', klipper) :
             i + 1 \in DOMAIN Line /\ LineOf(inbox', klipper)[i] = Line[i + 1] /\ i \in Nat \ {0}
        /\ 1 \in DOMAIN Line /\ Line[1].kind = KindOfWord(inbox[1].say)
        /\ Line[1].of = inbox[1].of
    BY <1>1, MovedUp DEF Line
  <1>4. Line[1].kind = "result" /\ 1 \in Items
    BY <1>2, <1>3 DEF KindOfWord, Items
  <1>5. Line[1].of \notin orphans
    BY <1>2, <1>4 DEF InLine
  <1>6. Line[1].of = presses /\ presses \notin orphans
    BY <1>4, <1>5 DEF InLine
  <1>7. ASSUME NEW j \in Items, 1 < j
        PROVE  FALSE
    <2>1. CASE Line[j].of \in orphans
      BY <1>4, <1>6, <1>7, <2>1 DEF InLine
    <2>2. CASE Line[j].of \notin orphans
      <3>1. Line[j].of = presses
        BY <2>2 DEF InLine
      <3> QED
        BY <1>4, <1>6, <1>7, <3>1 DEF InLine
    <2> QED
      BY <2>1, <2>2
  <1>8. \A i \in DOMAIN LineOf(inbox', klipper) : i + 1 \notin Items
    BY <1>3, <1>7
  <1> QED
    BY <1>3, <1>6, <1>8 DEF Items

(* ... so that the next axis's test, if there is one, is the only item.    *)
LEMMA ResultLine ==
  ASSUME PanelInv, Marked, LineInv, response_result
  PROVE  LineInv'
  <1> DEFINE a == inbox[1].axis
             r == [run EXCEPT ![a] = "idle"]
             f == Follow(pending, a)
  <1>0. Dispatched /\ Heard("result") /\ UNCHANGED presses /\ presses \in Nat
    BY DEF response_result, Dispatched, PanelInv, TypeOK
  <1>1. /\ 1 \in DOMAIN inbox /\ Head(inbox) = inbox[1] /\ inbox[1].say = "result"
        /\ inbox' \in Seq(Words)
    BY <1>0, Dispatch DEF Heard
  <1>2. a \in Axes
    BY <1>1 DEF Marked
  <1>3. CASE run[a] = "analysing"
    <2> SUFFICES ASSUME FewOrphans'
                 PROVE  InLine'
      BY DEF LineInv
    <2>1. start_next_axis(pending, r) /\ UNCHANGED orphans
      BY <1>1, <1>3 DEF response_result
    <2>2. InLine
      BY <2>1 DEF LineInv, FewOrphans
    <2>3. /\ presses \notin orphans
          /\ \A i \in DOMAIN LineOf(inbox', klipper) : LineOf(inbox', klipper)[i].kind = "none"
      BY <1>0, <1>3, <2>2, ResultAlone
    <2>4. /\ pending \in SUBSET Axes /\ r \in [Axes -> States] /\ age \in [Axes -> 0..(Limit + 1)]
      BY <1>2 DEF PanelInv, TypeOK, States
    <2>5. Running(r) = {}
      <3>1. \A b \in Axes : b # a => run[b] = "idle"
        BY <1>2, <1>3 DEF PanelInv, OneRuns, Running
      <3> QED
        BY <1>2, <3>1 DEF Running, PanelInv, TypeOK
    <2> HIDE DEF a, r
    <2>6. /\ pending = {} => klipper' = klipper
          /\ pending # {} => /\ f \in Axes /\ Running(run') = {f} /\ run'[f] = "testing"
                             /\ klipper' = Append(klipper, Script("testing", f))
                             /\ \A b \in Axes : run'[b] # "analysing"
      <3>1. /\ f \in Axes /\ pending = {} => klipper' = klipper
            /\ pending # {} => /\ Running(run') = {f} /\ run' = [r EXCEPT ![f] = "testing"]
                               /\ klipper' = Append(klipper, Script("testing", f))
        BY <1>2, <2>1, <2>4, <2>5, StartFacts
      <3>2. \A b \in Axes : r[b] = "idle"
        BY <2>5 DEF Running
      <3> HIDE DEF f
      <3>3. f \in Axes
        BY <1>2, <2>1, <2>4, <2>5, StartFacts DEF f
      <3> QED
        BY <2>4, <3>1, <3>2, <3>3
    <2> HIDE DEF f
    <2>7. CASE pending = {}
      <3>1. Items' = {}
        BY <2>3, <2>6, <2>7 DEF Items, Line
      <3> QED
        BY <1>0, <2>1, <2>3, <3>1 DEF InLine
    <2>8. CASE pending # {}
      <3> DEFINE n == Len(inbox') + Len(klipper) + 1
      <3>1. /\ Line'[n].kind = KindOfScript("testing") /\ Line'[n].axis = f
            /\ Line'[n].of = presses' /\ n \in Nat
            /\ \A i \in Items' : i # n => /\ i \in DOMAIN LineOf(inbox', klipper)
                                          /\ LineOf(inbox', klipper)[i].kind # "none"
        BY <1>0, <1>1, <2>6, <2>8, SentLine
      <3>2. \A i \in Items' : i = n
        BY <2>3, <3>1
      <3>3. Line'[n].kind = "test"
        BY <3>1 DEF KindOfScript
      <3> HIDE DEF n
      <3> QED
        BY <1>0, <2>1, <2>3, <2>6, <2>8, <3>1, <3>2, <3>3 DEF InLine
    <2> QED
      BY <2>7, <2>8
  <1>4. CASE run[a] # "analysing"
    <2>1. UNCHANGED <<run, klipper, orphans>>
      BY <1>1, <1>4 DEF response_result
    <2> QED
      BY <1>0, <2>1, DispatchEmbeds, Kept
  <1> QED
    BY <1>3, <1>4

(* A test is written while its axis waits for one.  Whether it was the     *)
(* latest run's or the orphan's, only the latest run's test may be left,   *)
(* and the analysis stands behind it.                                      *)
LEMMA WroteLine ==
  ASSUME PanelInv, Marked, LineInv, response_wrote
  PROVE  LineInv'
  <1> DEFINE a == inbox[1].axis
  <1>0. Dispatched /\ Heard("wrote") /\ UNCHANGED <<presses, orphans>> /\ presses \in Nat
    BY DEF response_wrote, Dispatched, PanelInv, TypeOK
  <1>1. /\ 1 \in DOMAIN inbox /\ Head(inbox) = inbox[1] /\ inbox[1].say = "wrote"
        /\ inbox' \in Seq(Words) /\ inbox \in Seq(Words) /\ klipper \in Seq(Sends)
        /\ inbox # <<>> /\ inbox' = Tail(inbox)
    BY <1>0, Dispatch DEF Heard, Dispatched, Marked
  <1>2. a \in Axes
    BY <1>1 DEF Marked
  <1>3. CASE run[a] = "testing"
    <2> SUFFICES ASSUME FewOrphans'
                 PROVE  InLine'
      BY DEF LineInv
    <2>1. run' = [run EXCEPT ![a] = "analysing"] /\ klipper' = Append(klipper, Script("analysing", a))
      BY <1>1, <1>3 DEF response_wrote
    <2>2. InLine /\ FewOrphans
      BY <1>0 DEF LineInv, FewOrphans
    <2> DEFINE L == LineOf(inbox', klipper)
               n == Len(inbox') + Len(klipper) + 1
    <2>3. /\ \A i \in DOMAIN L : i + 1 \in DOMAIN Line /\ L[i] = Line[i + 1] /\ i \in Nat \ {0}
          /\ 1 \in DOMAIN Line /\ Line[1].kind = KindOfWord(inbox[1].say)
          /\ Line[1].of = inbox[1].of
      BY <1>1, MovedUp DEF Line
    <2>4. /\ n \in Nat /\ \A i \in DOMAIN L : Line'[i] = L[i]
          /\ Line'[n].kind = KindOfScript("analysing") /\ Line'[n].axis = a
          /\ Line'[n].of = presses' /\ n \in Items'
          /\ \A i \in Items' : i # n => i \in DOMAIN L /\ L[i].kind # "none" /\ i < n
      BY <1>0, <1>1, <1>2, <2>1, SentLine
    <2>5. Line'[n].kind = "result" /\ Line[1].kind = "test" /\ 1 \in Items
      BY <1>1, <2>3, <2>4 DEF KindOfWord, KindOfScript, Items
    <2> HIDE DEF L, n
    <2>6. \A i \in Items' : i # n => /\ i + 1 \in Items /\ 1 < i + 1 /\ Line'[i] = Line[i + 1]
                                     /\ i < n /\ i \in Nat
      BY <2>3, <2>4 DEF Items
    <2> HIDE DEF a
    <2>7. /\ \A b \in Axes : b # a => run[b] = "idle"
          /\ run'[a] = "analysing" /\ \A b \in Axes : run[b] # "idle" => run'[b] # "idle"
          /\ \A b \in Axes : run[b] # "analysing"
      BY <1>2, <1>3, <2>1 DEF PanelInv, TypeOK, OneRuns, Running
    <2>8. presses \notin orphans
      BY <1>2, <1>3, <2>2 DEF InLine, Running
    <2>9. \A i \in Items : /\ Line[i].axis \in Axes /\ Line[i].kind \in {"test", "result"}
                           /\ i \in Nat
      BY ItemFacts DEF ItemsMarked
    <2>10. \A j \in Items : 1 < j => Line[j].of = presses /\ Line[j].kind = "test"
      <3> SUFFICES ASSUME NEW j \in Items, 1 < j
                   PROVE  Line[j].of = presses /\ Line[j].kind = "test"
        OBVIOUS
      <3>1. Line[j].of \notin orphans
        BY <2>2, <2>5 DEF InLine, FewOrphans
      <3>2. Line[j].of = presses
        BY <2>2, <3>1 DEF InLine
      <3> QED
        BY <2>2, <2>7, <2>8, <2>9, <3>2 DEF InLine
    <2>11. \A i, j \in Items : 1 < i /\ i < j => FALSE
      BY <2>2, <2>8, <2>9, <2>10 DEF InLine
    <2>12. \A i \in Items' : i # n => Line'[i].of = presses /\ Line'[i].kind = "test"
      BY <2>6, <2>10
    <2>13. \A i, j \in Items' : i < j => i # n /\ j = n
      BY <2>4, <2>6, <2>11
    <2>14. \A i \in Items' : i # n => orphans # {}
      <3> SUFFICES ASSUME NEW i \in Items', i # n, orphans = {}
                   PROVE  FALSE
        OBVIOUS
      <3>1. i + 1 \in Items /\ 1 < i + 1 /\ Line[i + 1].of = presses /\ Line[1].of = presses
        BY <2>2, <2>5, <2>6, <2>10 DEF InLine
      <3> QED
        BY <2>2, <2>5, <2>8, <3>1 DEF InLine
    <2>15. \A i \in Items' : i # n => run'[Line'[i].axis] # "idle"
      <3> SUFFICES ASSUME NEW i \in Items', i # n
                   PROVE  run'[Line'[i].axis] # "idle"
        OBVIOUS
      <3>1. i + 1 \in Items /\ Line'[i] = Line[i + 1] /\ Line[i + 1].of = presses
        BY <2>6, <2>10
      <3>2. run[Line[i + 1].axis] # "idle" /\ Line[i + 1].axis \in Axes
        BY <2>2, <2>8, <2>9, <3>1 DEF InLine
      <3> QED
        BY <2>7, <3>1, <3>2
    <2>16. \A i \in Items' : Line'[i].of = presses' /\ Line'[i].of \notin orphans'
      BY <1>0, <2>4, <2>8, <2>12
    <2> QED
      BY <1>0, <2>4, <2>5, <2>7, <2>8, <2>12, <2>13, <2>14, <2>15, <2>16 DEF InLine
  <1>4. CASE run[a] # "testing"
    <2>1. UNCHANGED <<run, klipper>>
      BY <1>1, <1>4 DEF response_wrote
    <2> QED
      BY <1>0, <2>1, DispatchEmbeds, Kept
  <1> QED
    BY <1>3, <1>4

(* A script ends: its words stand where it stood, one item at most.        *)
LEMMA KlipperEmbeds ==
  ASSUME Marked, KlipperStep
  PROVE  \E f : Embeds(f)
  <1>1. PICK new \in Seq(Words) :
          /\ inbox' = inbox \o new
          /\ \A i \in DOMAIN new :
               /\ new[i].of = klipper[1].of /\ new[i].axis = klipper[1].axis
               /\ KindOfWord(new[i].say) \in {"none", KindOfScript(klipper[1].what)}
          /\ \A i, j \in DOMAIN new :
               i # j => KindOfWord(new[i].say) = "none" \/ KindOfWord(new[j].say) = "none"
    BY KlipperSays
  <1>2. /\ inbox \in Seq(Words) /\ klipper \in Seq(Sends) /\ klipper # <<>>
        /\ klipper' = Tail(klipper)
    BY DEF KlipperStep, Marked
  <1> DEFINE m == Len(inbox)
             k == Len(new)
             f == [i \in Nat |-> IF i <= m THEN i ELSE IF i <= m + k THEN m + 1 ELSE i - k + 1]
  <1>3. /\ m \in Nat /\ k \in Nat /\ Len(inbox') = m + k /\ Len(klipper') = Len(klipper) - 1
        /\ Len(klipper) \in Nat \ {0}
        /\ \A i \in 1..m : inbox'[i] = inbox[i]
        /\ \A i \in 1..k : inbox'[m + i] = new[i] /\ i \in DOMAIN new
        /\ \A i \in 1..(Len(klipper) - 1) : klipper'[i] = klipper[i + 1]
    BY <1>1, <1>2
  <1>4. DOMAIN Line = 1..(m + Len(klipper)) /\ DOMAIN Line' = 1..(m + k + Len(klipper) - 1)
    BY <1>3 DEF Line, LineOf
  <1> HIDE DEF m, k
  <1>5. ASSUME NEW i \in Items'
        PROVE  f[i] \in Items /\ Line'[i] = Line[f[i]] /\ i \in Nat
    <2>1. i \in 1..(m + k + Len(klipper) - 1) /\ Line'[i].kind # "none" /\ i \in Nat
      BY <1>3, <1>4 DEF Items
    <2>2. CASE i <= m
      <3>1. f[i] = i /\ i \in 1..m /\ i \in 1..(m + Len(klipper))
        BY <1>3, <2>1, <2>2
      <3>2. i \in 1..(Len(inbox') + Len(klipper')) /\ i <= Len(inbox') /\ i <= Len(inbox)
            /\ i \in 1..(Len(inbox) + Len(klipper))
        BY <1>3, <2>1, <2>2 DEF m
      <3>3. Line'[i] = Line[i]
        BY <1>3, <3>1, <3>2 DEF Line, LineOf
      <3> QED
        BY <1>4, <2>1, <3>1, <3>3 DEF Items
    <2>3. CASE m < i /\ i <= m + k
      <3>1. f[i] = m + 1 /\ i - m \in 1..k /\ inbox'[i] = new[i - m] /\ i - m \in DOMAIN new
        <4>1. f[i] = m + 1 /\ i - m \in 1..k
          BY <1>3, <2>1, <2>3
        <4>2. inbox'[m + (i - m)] = new[i - m] /\ i - m \in DOMAIN new
          BY <1>3, <4>1
        <4>3. m + (i - m) = i
          BY <1>3, <2>1
        <4> QED
          BY <4>1, <4>2, <4>3
      <3>2. /\ i \in 1..(Len(inbox') + Len(klipper')) /\ i <= Len(inbox')
            /\ m + 1 \in 1..(Len(inbox) + Len(klipper)) /\ ~(m + 1 <= Len(inbox))
            /\ m + 1 - Len(inbox) = 1
        BY <1>3, <2>1, <2>3 DEF m
      <3>3. Line'[i] = [kind |-> KindOfWord(new[i - m].say), axis |-> new[i - m].axis,
                        of |-> new[i - m].of]
        BY <3>1, <3>2 DEF Line, LineOf
      <3>4. Line[m + 1] = [kind |-> KindOfScript(klipper[1].what), axis |-> klipper[1].axis,
                           of |-> klipper[1].of]
        <4> DEFINE q == m + 1
        <4>1. /\ q \in 1..(Len(inbox) + Len(klipper)) /\ ~(q <= Len(inbox))
              /\ q - Len(inbox) = 1
          BY <1>3, <3>2 DEF m
        <4> HIDE DEF q
        <4>2. Line[q] = [kind |-> KindOfScript(klipper[1].what), axis |-> klipper[1].axis,
                         of |-> klipper[1].of]
          BY <4>1 DEF Line, LineOf
        <4> QED
          BY <4>2 DEF q
      <3>5. KindOfWord(new[i - m].say) = KindOfScript(klipper[1].what)
        BY <1>1, <2>1, <3>1, <3>3
      <3>6. Line'[i] = Line[m + 1]
        BY <1>1, <3>1, <3>3, <3>4, <3>5
      <3>7. m + 1 \in DOMAIN Line
        BY <1>3, <1>4
      <3> QED
        BY <2>1, <3>1, <3>6, <3>7 DEF Items
    <2>4. CASE m + k < i
      <3> DEFINE j == i - k + 1
      <3>1. f[i] = j /\ j - m \in 2..Len(klipper) /\ j \in 1..(m + Len(klipper))
        BY <1>3, <2>1, <2>4
      <3>2. /\ i \in 1..(Len(inbox') + Len(klipper')) /\ ~(i <= Len(inbox'))
            /\ j \in 1..(Len(inbox) + Len(klipper)) /\ ~(j <= Len(inbox))
            /\ i - Len(inbox') = j - Len(inbox) - 1
            /\ i - Len(inbox') \in 1..(Len(klipper) - 1)
        BY <1>3, <2>1, <2>4 DEF m
      <3> HIDE DEF j
      <3>3. klipper'[i - Len(inbox')] = klipper[j - Len(inbox)]
        <4>1. i - Len(inbox') + 1 = j - Len(inbox)
          BY <1>3, <2>1, <3>1, <3>2 DEF m, j
        <4> QED
          BY <1>3, <3>2, <4>1
      <3>4. Line'[i] = Line[j]
        BY <3>2, <3>3 DEF Line, LineOf
      <3> QED
        BY <1>4, <2>1, <3>1, <3>4 DEF Items
    <2> QED
      BY <1>3, <2>1, <2>2, <2>3, <2>4
  <1>6. ASSUME NEW i \in Items', NEW j \in Items', i < j
        PROVE  f[i] < f[j]
    <2>1. i \in Nat /\ j \in Nat
      BY <1>5
    <2>2. ~(m < i /\ j <= m + k)
      <3> SUFFICES ASSUME m < i, j <= m + k
                   PROVE  FALSE
        OBVIOUS
      <3>1. i - m \in 1..k /\ j - m \in 1..k /\ i - m # j - m
        BY <1>3, <1>6, <2>1
      <3>2. /\ inbox'[i] = new[i - m] /\ inbox'[j] = new[j - m]
            /\ i - m \in DOMAIN new /\ j - m \in DOMAIN new
        <4>1. /\ inbox'[m + (i - m)] = new[i - m] /\ inbox'[m + (j - m)] = new[j - m]
              /\ i - m \in DOMAIN new /\ j - m \in DOMAIN new
          BY <1>3, <3>1
        <4>2. m + (i - m) = i /\ m + (j - m) = j
          BY <1>3, <2>1
        <4> QED
          BY <4>1, <4>2
      <3>3. /\ i \in 1..(Len(inbox') + Len(klipper')) /\ i <= Len(inbox')
            /\ j \in 1..(Len(inbox') + Len(klipper')) /\ j <= Len(inbox')
        BY <1>3, <1>6, <2>1, <3>1
      <3>4. Line'[i].kind = KindOfWord(new[i - m].say) /\ Line'[j].kind = KindOfWord(new[j - m].say)
        BY <3>2, <3>3 DEF Line, LineOf
      <3>5. Line'[i].kind # "none" /\ Line'[j].kind # "none"
        BY DEF Items
      <3> QED
        BY <1>1, <3>1, <3>2, <3>4, <3>5
    <2> QED
      BY <1>3, <1>6, <2>1, <2>2
  <1> HIDE DEF f
  <1>7. Embeds(f)
    BY <1>5, <1>6 DEF Embeds
  <1> QED
    BY <1>7

(* Scripts of other clients, and Klipper's end, bring no item.             *)
LEMMA OthersEmbed ==
  ASSUME Marked, OtherClient \/ KlippyGone
  PROVE  Embeds([i \in Nat |-> i])
  <1>0. inbox \in Seq(Words) /\ klipper \in Seq(Sends) /\ Len(inbox) \in Nat
    BY DEF Marked
  <1>1. CASE OtherClient
    <2>1. /\ Other \in Sends /\ Other.what = "other" /\ inbox' = inbox
          /\ Line' = LineOf(inbox, Append(klipper, Other))
      BY <1>1 DEF OtherClient, Other, Sends, Line
    <2> DEFINE n == Len(inbox) + Len(klipper) + 1
    <2>2. /\ DOMAIN Line' = DOMAIN Line \cup {n} /\ \A i \in DOMAIN Line : Line'[i] = Line[i]
          /\ Line'[n].kind = KindOfScript(Other.what) /\ DOMAIN Line = 1..(n - 1) /\ n \in Nat
      BY <1>0, <2>1, StandsLast DEF Line
    <2>3. Line'[n].kind = "none"
      BY <2>1, <2>2 DEF KindOfScript
    <2> HIDE DEF n
    <2> QED
      BY <2>2, <2>3 DEF Embeds, Items
  <1>2. CASE KlippyGone
    <2> DEFINE news == [say |-> "klippy_gone", axis |-> 0, of |-> 0]
    <2>1. klipper' = <<>> /\ inbox' = Append(inbox, news) /\ news \in Words
          /\ news.say = "klippy_gone"
      BY <1>2 DEF KlippyGone, Words
    <2> HIDE DEF news
    <2>2. /\ Len(inbox') = Len(inbox) + 1 /\ Len(klipper') = 0
          /\ inbox'[Len(inbox) + 1] = news /\ \A i \in 1..Len(inbox) : inbox'[i] = inbox[i]
      BY <1>0, <2>1
    <2>3. DOMAIN Line' = 1..(Len(inbox) + 1) /\ DOMAIN Line = 1..(Len(inbox) + Len(klipper))
      BY <1>0, <2>2 DEF Line, LineOf
    <2>4. Line'[Len(inbox) + 1].kind = "none"
      <3>1. Line'[Len(inbox) + 1].kind = KindOfWord(news.say)
        BY <1>0, <2>2 DEF Line, LineOf
      <3> QED
        BY <2>1, <3>1 DEF KindOfWord
    <2>5. ASSUME NEW i \in 1..Len(inbox)
          PROVE  Line'[i] = Line[i] /\ i \in DOMAIN Line
      <3>1. /\ i \in 1..(Len(inbox') + Len(klipper')) /\ i \in 1..(Len(inbox) + Len(klipper))
            /\ i <= Len(inbox') /\ i <= Len(inbox)
        BY <1>0, <2>2
      <3> QED
        BY <2>2, <2>3, <3>1 DEF Line, LineOf
    <2>6. \A i \in Items' : i \in 1..Len(inbox)
      BY <1>0, <2>3, <2>4 DEF Items
    <2> QED
      BY <1>0, <2>5, <2>6 DEF Embeds, Items
  <1> QED
    BY <1>1, <1>2

-----------------------------------------------------------------------------
(* All steps.                                                              *)

(* A dispatched event that ends the run, or changes nothing.               *)
LEMMA AbandonSteps ==
  ASSUME PanelInv, Marked, LineInv, NEW only \in BOOLEAN, abandon_runs(only)
         , UNCHANGED <<target, shown, age, result, produced, presses, taps, others, klipper>>
         , Dispatched \/ UNCHANGED inbox
  PROVE  PanelInv' /\ Marked' /\ LineInv'
  <1>1. Marked'
    BY HeardMarked DEF Marked
  <1>2. PICK f : Embeds(f)
    BY DispatchEmbeds, SameEmbeds
  <1>3. PanelInv'
    BY <1>1, AbandonPanel
  <1>4. LineInv'
    <2>1. CASE UNCHANGED <<pending, run, watchdog, spinner, orphans>>
      BY <1>2, <2>1, Kept
    <2>2. CASE Ended
      BY <1>1, <1>2, <2>2, EndedLine
    <2> QED
      BY <2>1, <2>2, AbandonFacts DEF PanelInv
  <1> QED
    BY <1>1, <1>3, <1>4

(* Every step keeps all three parts of the invariant.                      *)
LEMMA Steps ==
  ASSUME PanelInv, Marked, LineInv, Next
  PROVE  PanelInv' /\ Marked' /\ LineInv'
  <1>1. CASE KlipperStep
    BY <1>1, KlipperMarked, KlipperEmbeds, Kept, PanelFrame DEF KlipperStep, PanelInv, TypeOK
  <1>2. CASE OtherClient \/ KlippyGone
    <2>1. /\ UNCHANGED <<axes, presses, taps, orphans>> /\ others' = others + 1
          /\ taps \in Nat /\ others \in Nat /\ TypeOK
      BY <1>2 DEF OtherClient, KlippyGone, PanelInv, TypeOK
    <2>2. taps' \in Nat /\ others' \in Nat
      BY <2>1
    <2>3. PanelInv'
      BY <2>1, <2>2, PanelFrame
    <2>4. Marked'
      BY <1>2, <2>1, KlipperMarked
    <2>5. LineInv'
      BY <1>2, <2>1, OthersEmbed, Kept
    <2> QED
      BY <2>3, <2>4, <2>5
  <1>3. ASSUME NEW t \in (SUBSET Axes) \ {{}}, handle_selector_axis(t)
        PROVE  PanelInv' /\ Marked' /\ LineInv'
    <2> DEFINE a == IF t = Axes THEN shown ELSE CHOOSE b \in t : TRUE
    <2>1. /\ target' = t /\ shown' = a /\ spinner' = (run[a] # "idle") /\ taps' = taps + 1
          /\ UNCHANGED <<pending, run, age, result, produced, watchdog, klipper, inbox,
                         presses, others, orphans>>
      BY <1>3 DEF handle_selector_axis, show_axis
    <2>2. a \in Axes
      BY DEF PanelInv, TypeOK
    <2> HIDE DEF a
    <2>3. spinner' \in BOOLEAN
      BY <2>1
    <2>4. spinner' <=> run[a] # "idle"
      BY <2>1, Zenon
    <2>5. PanelInv'
      BY <2>1, <2>2, <2>3, <2>4 DEF PanelInv, TypeOK, OneRuns, RunIsWatched
    <2>6. Marked'
      BY <2>1 DEF Marked
    <2>7. LineInv'
      BY <2>1, SameEmbeds, Kept
    <2> QED
      BY <2>5, <2>6, <2>7
  <1>4. CASE handle_callback_calibrate
    <2>1. /\ presses' = presses + 1 /\ start_next_axis(target, run) /\ Running(run) = {}
          /\ UNCHANGED inbox
      BY <1>4 DEF handle_callback_calibrate
    <2>2. /\ target \in SUBSET Axes /\ target # {} /\ run \in [Axes -> States] /\ shown \in Axes
          /\ age \in [Axes -> 0..(Limit + 1)] /\ presses \in Nat /\ TypeOK
      BY DEF PanelInv, TypeOK, States
    <2>3. klipper' = Append(klipper, Script("testing", Follow(target, shown)))
          /\ Follow(target, shown) \in Axes
      BY <2>1, <2>2, StartFacts
    <2>4. inbox' \in Seq(Words) /\ \A i \in DOMAIN inbox' : inbox'[i] = inbox[i]
      BY <2>1 DEF Marked
    <2>5. presses' \in Nat \ {0} /\ presses <= presses'
      BY <2>1, <2>2
    <2>6. Marked'
      BY <2>1, <2>2, <2>3, <2>4, <2>5, SentMarked
    <2> QED
      BY <1>4, <2>6, CalibratePanel, CalibrateLine
  <1>5. CASE response_error
    BY <1>5, AbandonSteps DEF response_error, Dispatched
  <1>6. CASE response_timed_out
    BY <1>6, AbandonSteps DEF response_timed_out, Dispatched
  <1>7. CASE response_running \/ response_unnamed
    <2>1. /\ Dispatched /\ produced' \in BOOLEAN
          /\ UNCHANGED <<shown, pending, run, age, result, watchdog, spinner, klipper, orphans,
                         target, presses, taps, others>>
      BY <1>7 DEF response_running, response_unnamed, Dispatched
    <2>2. PanelInv'
      BY <2>1 DEF PanelInv, TypeOK, OneRuns, RunIsWatched
    <2> QED
      BY <2>1, <2>2, HeardMarked, DispatchEmbeds, Kept
  <1>8. CASE response_finished
    <2>1. CASE produced
      <3>1. /\ Dispatched
            /\ UNCHANGED <<shown, pending, run, age, result, produced, watchdog, spinner,
                           klipper, orphans, target, presses, taps, others>>
        BY <1>8, <2>1 DEF response_finished, Dispatched
      <3>2. PanelInv'
        BY <3>1, PanelFrame DEF PanelInv, TypeOK
      <3> QED
        BY <3>1, <3>2, HeardMarked, DispatchEmbeds, Kept
    <2>2. CASE ~produced
      BY <1>8, <2>2, AbandonSteps DEF response_finished, Dispatched
    <2> QED
      BY <2>1, <2>2
  <1>9. CASE response_result
    <2>1. Marked'
      <3>1. Dispatched /\ Heard("result") /\ UNCHANGED presses
        BY <1>9 DEF response_result, Dispatched
      <3>2. /\ 1 \in DOMAIN inbox /\ Head(inbox) = inbox[1] /\ inbox[1].say = "result"
            /\ inbox' \in Seq(Words)
            /\ \A i \in DOMAIN inbox' : \E j \in DOMAIN inbox : inbox'[i] = inbox[j]
        BY <3>1, Dispatch DEF Heard
      <3>3. inbox[1].axis \in Axes /\ presses \in Nat \ {0}
        <4>1. inbox[1].axis \in Axes /\ inbox[1].of # 0 /\ inbox[1].of <= presses
              /\ inbox[1] \in Words
          BY <3>1, <3>2, Dispatch DEF Marked
        <4> QED
          BY <4>1 DEF Words, PanelInv, TypeOK
      <3> DEFINE a == inbox[1].axis
                 r == [run EXCEPT ![a] = "idle"]
      <3>4. CASE run[a] = "analysing"
        <4>1. start_next_axis(pending, r)
          BY <1>9, <3>2, <3>4 DEF response_result
        <4>2. /\ pending \in SUBSET Axes /\ r \in [Axes -> States] /\ TypeOK
              /\ age \in [Axes -> 0..(Limit + 1)] /\ a \in Axes
          BY <3>3 DEF PanelInv, TypeOK, States
        <4>3. Running(r) = {}
          <5>1. \A b \in Axes : b # a => run[b] = "idle"
            BY <3>3, <3>4 DEF PanelInv, OneRuns, Running
          <5> QED
            BY <3>3, <5>1 DEF Running, PanelInv, TypeOK
        <4> HIDE DEF a, r
        <4>4. /\ Follow(pending, a) \in Axes
              /\ pending = {} => klipper' = klipper
              /\ pending # {} => klipper' = Append(klipper, Script("testing", Follow(pending, a)))
          BY <4>1, <4>2, <4>3, StartFacts
        <4>5. CASE pending = {}
          BY <3>1, <4>4, <4>5, HeardMarked
        <4>6. CASE pending # {}
          <5>2. presses' \in Nat \ {0} /\ presses <= presses'
            BY <3>1, <3>3
          <5> QED
            BY <3>2, <4>2, <4>4, <4>6, <5>2, SentMarked
        <4> QED
          BY <4>5, <4>6
      <3>5. CASE run[a] # "analysing"
        <4>1. klipper' = klipper
          BY <1>9, <3>2, <3>5 DEF response_result
        <4> QED
          BY <3>1, <4>1, HeardMarked
      <3> QED
        BY <3>4, <3>5
    <2> QED
      BY <1>9, <2>1, ResultPanel, ResultLine
  <1>10. CASE response_result_throws
    <2>1. /\ Dispatched /\ Heard("result") /\ produced' \in BOOLEAN
          /\ result' = [result EXCEPT ![Head(inbox).axis] = Head(inbox).of]
          /\ UNCHANGED <<shown, pending, run, age, watchdog, spinner, klipper, orphans,
                         target, presses, taps, others>>
      BY <1>10 DEF response_result_throws, Dispatched
    <2>2. Head(inbox).of \in 0..presses
      <3>1. 1 \in DOMAIN inbox /\ Head(inbox) = inbox[1] /\ inbox[1] \in Words
        BY <2>1, Dispatch DEF Marked
      <3>2. inbox[1].of \in Nat /\ inbox[1].of <= presses /\ presses \in Nat
        BY <3>1 DEF Marked, Words, PanelInv, TypeOK
      <3> QED
        BY <3>1, <3>2
    <2>3. result' \in [Axes -> 0..presses]
      BY <2>1, <2>2 DEF PanelInv, TypeOK
    <2>4. PanelInv'
      BY <2>1, <2>3 DEF PanelInv, TypeOK, OneRuns, RunIsWatched
    <2> QED
      BY <2>1, <2>4, HeardMarked, DispatchEmbeds, Kept
  <1>11. CASE response_wrote
    <2>1. Marked'
      <3>1. Dispatched /\ Heard("wrote") /\ UNCHANGED presses
        BY <1>11 DEF response_wrote, Dispatched
      <3>2. /\ 1 \in DOMAIN inbox /\ Head(inbox) = inbox[1] /\ inbox[1].say = "wrote"
            /\ inbox' \in Seq(Words)
            /\ \A i \in DOMAIN inbox' : \E j \in DOMAIN inbox : inbox'[i] = inbox[j]
        BY <3>1, Dispatch DEF Heard
      <3>3. inbox[1].axis \in Axes /\ presses \in Nat \ {0} /\ TypeOK
        <4>1. inbox[1].axis \in Axes /\ inbox[1].of # 0 /\ inbox[1].of <= presses
              /\ inbox[1] \in Words
          BY <3>1, <3>2, Dispatch DEF Marked
        <4> QED
          BY <4>1 DEF Words, PanelInv, TypeOK
      <3>4. presses' \in Nat \ {0} /\ presses <= presses'
        BY <3>1, <3>3
      <3>5. CASE run[inbox[1].axis] = "testing"
        <4>1. klipper' = Append(klipper, Script("analysing", inbox[1].axis))
          BY <1>11, <3>2, <3>5 DEF response_wrote
        <4> QED
          BY <3>2, <3>3, <3>4, <4>1, SentMarked
      <3>6. CASE run[inbox[1].axis] # "testing"
        <4>1. klipper' = klipper
          BY <1>11, <3>2, <3>6 DEF response_wrote
        <4> QED
          BY <3>1, <4>1, HeardMarked
      <3> QED
        BY <3>5, <3>6
    <2> QED
      BY <1>11, <2>1, WrotePanel, WroteLine
  <1>12. CASE check_timeouts
    BY <1>12, AbandonSteps DEF check_timeouts
  <1>13. CASE Tick
    <2>1. /\ age' = [a \in Axes |-> IF run[a] # "idle" /\ age[a] <= Limit THEN age[a] + 1 ELSE age[a]]
          /\ UNCHANGED <<target, shown, pending, run, result, produced, watchdog, spinner,
                         klipper, inbox, presses, taps, others, orphans>>
      BY <1>13 DEF Tick
    <2>2. age' \in [Axes -> 0..(Limit + 1)]
      BY <2>1 DEF PanelInv, TypeOK
    <2>3. PanelInv'
      BY <2>1, <2>2 DEF PanelInv, TypeOK, OneRuns, RunIsWatched
    <2>4. Marked'
      BY <2>1 DEF Marked
    <2> QED
      BY <2>1, <2>3, <2>4, SameEmbeds, Kept
  <1> QED
    BY <1>1, <1>2, <1>3, <1>4, <1>5, <1>6, <1>7, <1>8, <1>9, <1>10, <1>11, <1>12, <1>13
       DEF Next, handle_macro_response

(* The panel as it is opened.                                              *)
LEMMA Initial == Init => IInv
  <1> SUFFICES ASSUME Init PROVE IInv
    OBVIOUS
  <1>1. /\ klipper = <<>> /\ inbox = <<>> /\ presses = 0 /\ taps = 0 /\ others = 0 /\ orphans = {}
        /\ target = {1} /\ shown = 1 /\ pending = {} /\ run = [a \in Axes |-> "idle"]
        /\ age = [a \in Axes |-> 0] /\ result = [a \in Axes |-> 0]
    BY DEF Init
  <1>2. /\ ~watchdog /\ ~spinner /\ watchdog \in BOOLEAN /\ spinner \in BOOLEAN
        /\ produced \in BOOLEAN
    BY DEF Init
  <1>3. TypeOK /\ target # {}
    BY <1>1, <1>2 DEF TypeOK, Axes
  <1>4. Running(run) = {} /\ run[shown] = "idle"
    BY <1>1 DEF Running, Axes
  <1>5. Marked
    BY <1>1 DEF Marked
  <1>6. Items = {}
    BY <1>1 DEF Items, Line, LineOf
  <1>7. InLine
    BY <1>1, <1>6 DEF InLine
  <1> QED
    BY <1>1, <1>2, <1>3, <1>4, <1>5, <1>7 DEF IInv, OneRuns, RunIsWatched

(* Every step keeps the invariant.                                         *)
LEMMA Inductive == IInv /\ [Next]_vars => IInv'
  <1> SUFFICES ASSUME IInv, [Next]_vars PROVE IInv'
    OBVIOUS
  <1>1. PanelInv /\ Marked /\ LineInv
    BY DEF IInv, PanelInv, LineInv
  <1>2. CASE Next
    BY <1>1, <1>2, Steps DEF IInv, PanelInv, LineInv
  <1>3. CASE UNCHANGED vars
    <2>1. PanelInv'
      BY <1>1, <1>3, PanelFrame DEF PanelInv, TypeOK
    <2>2. Marked'
      BY <1>1, <1>3 DEF Marked
    <2>3. LineInv'
      BY <1>1, <1>3, SameEmbeds, Kept
    <2> QED
      BY <2>1, <2>2, <2>3 DEF IInv, PanelInv, LineInv
  <1> QED
    BY <1>2, <1>3

(* The inductive invariant holds throughout.                               *)
THEOREM Invariant == Spec => []IInv
  BY Initial, Inductive, PTL DEF Spec

(* Types; the axis on screen is one of the two (handle_selector,           *)
(* show_axis).                                                             *)
THEOREM TypeCorrect == Spec => []TypeOK
  <1>1. IInv => TypeOK
    BY DEF IInv
  <1> QED
    BY Invariant, <1>1, PTL

(* One axis runs at a time, and an axis queued behind it is neither        *)
(* running nor forgotten (start_next_axis, abandon_runs).                  *)
THEOREM OneAxis == Spec => []OneAxisAtATime
  <1>1. IInv => OneAxisAtATime
    <2> SUFFICES ASSUME IInv PROVE OneAxisAtATime
      OBVIOUS
    <2>1. \A a \in Running(run) : Running(run) = {a}
      BY DEF IInv, OneRuns
    <2>2. CASE Running(run) = {}
      BY <2>2, FS_EmptySet DEF IInv, OneRuns, OneAxisAtATime
    <2>3. CASE Running(run) # {}
      <3>1. PICK a \in Running(run) : Running(run) = {a}
        BY <2>1, <2>3
      <3>2. Cardinality(Running(run)) = 1
        BY <3>1, FS_Singleton
      <3> QED
        BY <3>2 DEF IInv, OneRuns, OneAxisAtATime
    <2> QED
      BY <2>2, <2>3
  <1> QED
    BY Invariant, <1>1, PTL

(* The watchdog runs exactly while an axis does, and the spinner tells the *)
(* truth about the axis on screen (update_view, abandon_runs).             *)
THEOREM RunWatched == Spec => []RunIsWatched
  <1>1. IInv => RunIsWatched
    BY DEF IInv
  <1> QED
    BY Invariant, <1>1, PTL

(* At most one orphan, as a cardinality and as an equation.                *)
LEMMA FewCounted ==
  ASSUME TypeOK, Cardinality(orphans) <= 1
  PROVE  FewOrphans
  <1>1. IsFiniteSet(orphans)
    <2>1. IsFiniteSet(1..presses) /\ orphans \in SUBSET (1..presses)
      BY FS_Interval DEF TypeOK
    <2> QED
      BY <2>1, FS_Subset
  <1>2. SUFFICES ASSUME NEW o \in orphans, NEW q \in orphans, o # q
                 PROVE  FALSE
    BY DEF FewOrphans
  <1>3. IsFiniteSet({o}) /\ Cardinality({o}) = 1
    BY FS_Singleton
  <1>4. Cardinality({o} \cup {q}) = 2
    BY <1>2, <1>3, FS_AddElement
  <1>5. Cardinality({o} \cup {q}) <= Cardinality(orphans) /\ Cardinality(orphans) \in Nat
    BY <1>1, FS_Subset, FS_CardinalityType
  <1> QED
    BY <1>4, <1>5

(* No step but a result taken shows a result: Calibrate clears the ones it *)
(* is to replace.                                                          *)
LEMMA OthersShowNothing ==
  ASSUME TypeOK, [Next]_vars, ~response_result, ~response_result_throws, NEW a \in Axes
  PROVE  result'[a] \in {0, result[a]}
  <1>1. CASE handle_callback_calibrate
    <2>1. result' = [b \in Axes |-> IF b \in target THEN 0 ELSE result[b]]
      BY <1>1 DEF handle_callback_calibrate
    <2> QED
      BY <2>1
  <1>2. CASE result' = result
    BY <1>2
  <1>3. \/ handle_callback_calibrate
        \/ result' = result
    BY DEF Next, KlipperStep, OtherClient, KlippyGone, handle_selector_axis,
           handle_macro_response, response_error, response_timed_out, response_running,
           response_finished, response_unnamed, response_wrote, check_timeouts, Tick
  <1> QED
    BY <1>1, <1>2, <1>3

(* A result an axis takes is one of the calibration started last, while at *)
(* most one calibration was given up with words of its own to come: late   *)
(* words name the same data file, and only the order of the line and the   *)
(* state of the axis keep them apart (handle_macro_response).              *)
THEOREM ResultIsLatest == Spec => ResultOfThisRun
  <1> DEFINE Latest ==
        \A a \in Axes :
          result'[a] \notin {0, result[a]} /\ Cardinality(orphans) <= 1 => result'[a] = presses
  <1>1. IInv /\ [Next]_vars => [Latest]_vars
    <2> SUFFICES ASSUME IInv, [Next]_vars, NEW a \in Axes, result'[a] \notin {0, result[a]},
                        Cardinality(orphans) <= 1
                 PROVE  result'[a] = presses
      OBVIOUS
    <2>1. TypeOK /\ Marked /\ InLine
      BY FewCounted DEF IInv
    <2>2. response_result \/ response_result_throws
      BY <2>1, OthersShowNothing
    <2>3. Dispatched /\ Heard("result")
      BY <2>2 DEF response_result, response_result_throws
    <2>4. Head(inbox) = inbox[1]
      BY <2>1, <2>3, Dispatch
    <2>5. /\ run[inbox[1].axis] = "analysing"
          /\ result' = [result EXCEPT ![inbox[1].axis] = inbox[1].of]
      BY <2>2, <2>4 DEF response_result, response_result_throws
    <2>6. result'[a] = inbox[1].of
      BY <2>1, <2>5 DEF TypeOK
    <2> QED
      BY <2>1, <2>3, <2>5, <2>6, ResultAlone
  <1> QED
    BY Invariant, <1>1, PTL DEF Spec, ResultOfThisRun
=============================================================================
