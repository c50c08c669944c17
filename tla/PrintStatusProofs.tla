-------------------------- MODULE PrintStatusProofs --------------------------
(***************************************************************************)
(* Proofs about PrintStatus for all files and every number of prints,      *)
(* rounds, presses and queued events: types, that the screen agrees with   *)
(* the printer when nothing is under way, that the details are then those  *)
(* of the present print (in the first round), and that only a print takes  *)
(* the screen.                                                             *)
(*                                                                         *)
(* A report carries differences, so what consume makes of it depends on    *)
(* the status it is a difference from.  The invariant therefore follows    *)
(* the statuses that the events on their way lead State through (Leads):   *)
(* from State's present one to the one Moonraker reported last, each a     *)
(* status Klipper can be in, any two neighbours as far apart as a report   *)
(* period allows, but for the prints that went by in one (Later, missed).  *)
(* What the panel shows then depends on State alone (Shows).               *)
(***************************************************************************)
EXTENDS PrintStatus, TLAPS

Stat == [filename : Files \cup {None}, state : On \cup Over \cup {"standby"},
         progress : 0..Full, is_paused : BOOLEAN]
Panels == [filename : Files \cup {None}, details : Scanned \cup {None},
           thumb : Pictured \cup {None}, front : BOOLEAN, mini : BOOLEAN, bar : 0..Full,
           button : {"both", "pause", "resume"}, disabled : SUBSET {"pause", "resume"}]
Links == [up : BOOLEAN, klippy : BOOLEAN, sub : BOOLEAN]
Counts == [prints : Nat, rounds : Nat, presses : Nat]

(* The statuses Klipper can be in.                                         *)
Sound(r) ==
  /\ r.state \in On => r.filename \in Files
  /\ r.is_paused <=> r.state = "paused"
  /\ r.state = "complete" => r.progress + 1 >= Full
  /\ r.state = "standby" => r = Idle
Stats == {r \in Stat : Sound(r)}

(* What r may have become by the next report, M being the files of the     *)
(* prints that went by: a print is not over, nor all but read to its end,  *)
(* before it was reported to be on, unless it is one of those.             *)
Later(M, r, t) ==
  r.state \notin On =>
    \/ t \in {r, Idle}
    \/ t.state \in On /\ t.progress + 1 < Full
    \/ M # {} /\ t.filename \in M \cup {None}

Diff(r, t) == [k \in {x \in DOMAIN t : t[x] # r[x]} |-> t[k]]

(* State goes from x to y when event e is dispatched.                      *)
Leap(M, x, e, y) ==
  \/ e.kind = "connected" /\ y = Null
  \/ e.kind \in {"gone", "metadata"} /\ y = x
  \/ e.kind = "subscribe" /\ e.found = Null /\ y = x
  \/ e.kind = "subscribe" /\ e.found = y /\ y \in Stats
  \/ /\ e.kind = "status" /\ x \in Stats /\ y \in Stats /\ Later(M, x, y)
     /\ e.found = Diff(x, y)

(* The events of q lead State from s through h; if sub, to r.              *)
Path(M, h, q, s) ==
  /\ h \in [1..(Len(q) + 1) -> Stats \cup {Null}] /\ h[1] = s
  /\ \A i \in 1..Len(q) : Leap(M, h[i], q[i], h[i + 1])
Leads(M, q, s, sub, r) == \E h : Path(M, h, q, s) /\ (sub => h[Len(q) + 1] = r)

(* What the panel shows of State.                                          *)
Shows(M, p, s) ==
  s # Null =>
    /\ p.button = IF s.state = "paused" THEN "resume" ELSE "pause"
    /\ M = {} => /\ p.mini <=> s.state \in On
                 /\ s.state # "complete" => p.bar = s.progress

(* What is on its way.                                                     *)
Requests == [kind : {"subscribe"}, file : {None}] \cup [kind : {"metadata"}, file : Files]
Finds == Stats \cup {Null} \cup {Diff(r, t) : r \in Stats, t \in Stats}
Events == [kind : {"connected", "gone", "subscribe", "status"}, found : Finds, file : {None}]
          \cup [kind : {"metadata"}, found : {Null}, file : Files]

Typed ==
  /\ panel \in Panels /\ printer \in Stats /\ reported \in Stats
  /\ state \in Stats \cup {Null} /\ covered \in BOOLEAN /\ missed \subseteq Files
  /\ link \in Links /\ used \in Counts
  /\ srv \in Seq(Requests) /\ inbox \in Seq(Events)

Linked ==
  /\ ~link.up => srv = <<>> /\ ~link.sub
  /\ link.sub => link.klippy /\ Later(missed, reported, printer)

(* The first round: there is one thing on its way that will make State     *)
(* known, or none any more, and until then the panel is as it was.         *)
Tokens(q) == {i \in DOMAIN q : q[i].kind \in {"connected", "subscribe"}}
First ==
  used.rounds <= 1 =>
    /\ \A i, k \in Tokens(inbox) : i = k
    /\ \A i, k \in Tokens(srv) : i = k
    /\ Tokens(inbox) # {} => Tokens(srv) = {} /\ state = Null
    /\ Tokens(srv) # {} => state = Null
    /\ state = Null => panel.filename = None /\ (used.presses = 0 => panel.disabled = {})
    /\ used.rounds = 0 => ~link.up /\ inbox = <<>> /\ state = Null

(* In the first round a button is disabled only by a press.                *)
Enabled ==
  used.rounds <= 1 /\ used.presses = 0 /\ state # Null => panel.button \notin panel.disabled

(* In the first round the last request or reply on its way about metadata  *)
(* is for the file State names; with none, the panel describes that file.  *)
Metas(q) == {i \in DOMAIN q : q[i].kind = "metadata"}
LastIs(q, f) == \E i \in Metas(q) : q[i].file = f /\ \A j \in Metas(q) : j <= i
Due(rs, es, p, f) ==
  IF Metas(rs) # {} THEN LastIs(rs, f)
  ELSE IF Metas(es) # {} THEN LastIs(es, f)
  ELSE /\ p.details = (IF f \in Scanned THEN f ELSE None)
       /\ f \in Pictured => p.thumb = f
Details ==
  used.rounds <= 1 /\ link.up /\ state # Null =>
    /\ panel.filename \in {None, state.filename}
    /\ state.filename # None => Due(srv, inbox, panel, state.filename)

IInv ==
  /\ Typed /\ Linked /\ Leads(missed, inbox, state, link.sub, reported) /\ Shows(missed, panel, state)
  /\ First /\ Enabled /\ Details

USE PrintStatusAssumption

-----------------------------------------------------------------------------
(* Statuses, as records and as tables of values.                           *)

Keys == {"filename", "state", "progress", "is_paused"}

(* A status is a table with the four keys.                                 *)
LEMMA StatFacts ==
  ASSUME NEW r \in Stats
  PROVE  /\ r \in Stat /\ Sound(r) /\ DOMAIN r = Keys /\ r = [k \in Keys |-> r[k]]
         /\ r # Null
  <1>1. r \in Stat /\ Sound(r)
    BY DEF Stats
  <1>2. DOMAIN r = Keys
    BY <1>1 DEF Stat, Keys
  <1>3. r = [k \in Keys |-> r[k]]
    BY <1>1 DEF Stat, Keys
  <1>4. DOMAIN Null = {} /\ Keys # {}
    BY DEF Null, Keys
  <1>5. r # Null
    BY <1>2, <1>4
  <1> QED
    BY <1>1, <1>2, <1>3, <1>5

(* The status without a print.                                             *)
LEMMA IdleFacts == Idle \in Stats
  <1>1. Idle \in Stat
    BY DEF Idle, Stat
  <1>2. Idle.state = "standby" /\ Idle.is_paused = FALSE
    BY DEF Idle
  <1>3. Sound(Idle)
    BY <1>2 DEF Sound, On
  <1> QED
    BY <1>1, <1>3 DEF Stats

(* What a report says, and what it leaves out.                             *)
LEMMA DiffFacts ==
  ASSUME NEW r \in Stats, NEW t \in Stats
  PROVE  /\ Merge(r, Diff(r, t)) = t
         /\ \A k \in Keys : k \in DOMAIN Diff(r, t) => Diff(r, t)[k] = t[k]
         /\ \A k \in Keys : k \notin DOMAIN Diff(r, t) => r[k] = t[k]
  <1>1. /\ DOMAIN r = Keys /\ DOMAIN t = Keys /\ t = [k \in Keys |-> t[k]]
    BY StatFacts
  <1> QED
    BY <1>1 DEF Merge, Diff

(* The whole status merged into what State has, or nothing.                *)
LEMMA MergeFacts ==
  ASSUME NEW s \in Stats \cup {Null}, NEW r \in Stats
  PROVE  Merge(s, r) = r /\ Merge(s, Null) = s
  <1>1. DOMAIN r = Keys /\ r = [k \in Keys |-> r[k]] /\ DOMAIN Null = {}
    BY StatFacts DEF Null
  <1>2. /\ DOMAIN s \subseteq Keys
        /\ s = [k \in DOMAIN s |-> s[k]]
    <2>1. CASE s = Null
      BY <2>1 DEF Null
    <2>2. CASE s \in Stats
      BY <2>2, StatFacts
    <2> QED
      BY <2>1, <2>2
  <1>3. Merge(s, r) = r
    BY <1>1, <1>2 DEF Merge
  <1>4. Merge(s, Null) = s
    BY <1>1, <1>2 DEF Merge
  <1> QED
    BY <1>3, <1>4

(* State knows all four keys or none.                                      *)
LEMMA KnownFacts ==
  ASSUME NEW r \in Stats, NEW k \in Keys
  PROVE  Known(r, k) /\ ~Known(Null, k)
  BY StatFacts DEF Known, Null

-----------------------------------------------------------------------------
(* What each method makes of the panel.                                    *)

(* reset: nothing is known of the file.                                    *)
LEMMA ResetFacts ==
  ASSUME NEW p \in Panels
  PROVE  /\ reset(p) \in Panels /\ reset(p).filename = p.filename
         /\ reset(p).mini = p.mini /\ reset(p).front = p.front
         /\ reset(p).button = p.button /\ reset(p).disabled = p.disabled
         /\ reset(p).bar = 0 /\ reset(p).details = None /\ reset(p).thumb = None
  <1>1. 0 \in 0..Full /\ None \in Scanned \cup {None}
    OBVIOUS
  <1> DEFINE zero == 0
             no == None
  <1>2. reset(p) = [p EXCEPT !.bar = zero, !.details = no, !.thumb = no]
    BY DEF reset
  <1>3. zero \in 0..Full /\ no \in Scanned \cup {None} /\ no \in Pictured \cup {None} /\ zero = 0 /\ no = None
    BY <1>1
  <1> HIDE DEF zero, no
  <1>4. reset(p) \in Panels
    BY <1>2, <1>3 DEF Panels
  <1> QED
    BY <1>2, <1>3, <1>4 DEF Panels

(* update_progress caps what it shows.                                     *)
LEMMA ProgressFacts ==
  ASSUME NEW p \in Panels, NEW n \in 0..Full
  PROVE  /\ update_progress(p, n) \in Panels /\ update_progress(p, n).bar = n
         /\ update_progress(p, n).filename = p.filename
         /\ update_progress(p, n).mini = p.mini /\ update_progress(p, n).front = p.front
         /\ update_progress(p, n).button = p.button
         /\ update_progress(p, n).disabled = p.disabled
         /\ update_progress(p, n).details = p.details /\ update_progress(p, n).thumb = p.thumb
  <1> DEFINE b == IF n > Full THEN Full ELSE n
  <1>1. b = n
    OBVIOUS
  <1>2. update_progress(p, n) = [p EXCEPT !.bar = b]
    BY DEF update_progress
  <1> HIDE DEF b
  <1> QED
    BY <1>1, <1>2 DEF Panels

Button(r) == IF r.state = "paused" THEN "resume" ELSE "pause"

(* populate, with a status ...                                             *)
LEMMA PopulateFacts ==
  ASSUME NEW p \in Panels, NEW r \in Stats
  PROVE  /\ populate(p, r) \in Panels
         /\ (populate(p, r).mini <=> p.mini \/ r.filename # None)
         /\ populate(p, r).button = Button(r) /\ populate(p, r).bar = r.progress
         /\ populate(p, r).filename = p.filename /\ populate(p, r).front = p.front
         /\ populate(p, r).disabled = p.disabled
         /\ populate(p, r).details = p.details /\ populate(p, r).thumb = p.thumb
  <1> DEFINE m == p.mini \/ HasFile(r)
             b == Button(r)
             q == [p EXCEPT !.mini = m, !.button = b]
  <1>1. \A k \in Keys : Known(r, k)
    BY KnownFacts
  <1>2. Known(r, "state") /\ Known(r, "progress") /\ Known(r, "filename")
    BY <1>1 DEF Keys
  <1>3. populate(p, r) = update_progress(q, r.progress)
    BY <1>2 DEF populate, Button
  <1>4. m \in BOOLEAN /\ (m <=> p.mini \/ r.filename # None)
    BY <1>2 DEF HasFile
  <1>5. b \in {"both", "pause", "resume"} /\ b = Button(r)
    BY DEF Button
  <1> HIDE DEF m, b
  <1>6. /\ q \in Panels /\ q.mini = m /\ q.button = b
        /\ q.filename = p.filename /\ q.front = p.front /\ q.disabled = p.disabled
        /\ q.details = p.details /\ q.thumb = p.thumb
    BY <1>4, <1>5 DEF Panels
  <1>7. r.progress \in 0..Full
    BY StatFacts DEF Stat
  <1> HIDE DEF q
  <1>8. /\ populate(p, r) \in Panels /\ populate(p, r).mini = m
        /\ populate(p, r).button = Button(r) /\ populate(p, r).bar = r.progress
        /\ populate(p, r).filename = p.filename /\ populate(p, r).front = p.front
        /\ populate(p, r).disabled = p.disabled
        /\ populate(p, r).details = p.details /\ populate(p, r).thumb = p.thumb
    BY <1>3, <1>5, <1>6, <1>7, ProgressFacts
  <1> QED
    BY <1>4, <1>8

(* ... and with nothing known.                                             *)
LEMMA PopulateNull ==
  ASSUME NEW p \in Panels
  PROVE  /\ populate(p, Null) \in Panels
         /\ populate(p, Null).filename = p.filename /\ populate(p, Null).front = p.front
         /\ populate(p, Null).disabled = p.disabled
  <1> DEFINE m == p.mini \/ HasFile(Null)
             b == "pause"
             q == [p EXCEPT !.mini = m, !.button = b]
  <1>1. \A k \in Keys : ~Known(Null, k)
    BY DEF Known, Null
  <1>2. ~Known(Null, "state") /\ ~Known(Null, "progress")
    BY <1>1 DEF Keys
  <1>3. populate(p, Null) = q
    BY <1>2 DEF populate
  <1>4. m \in BOOLEAN /\ b \in {"both", "pause", "resume"}
    OBVIOUS
  <1> HIDE DEF m, b
  <1> QED
    BY <1>3, <1>4 DEF Panels

(* PrintStatusPanel::init on a status: what the panel shows is this status. *)
LEMMA InitFacts ==
  ASSUME NEW M, NEW p \in Panels, NEW r \in Stats
  PROVE  /\ init(p, r) \in Panels /\ Shows(M, init(p, r), r)
         /\ init(p, r).filename = p.filename /\ init(p, r).disabled = p.disabled
         /\ init(p, r).front = p.front
  <1> DEFINE q == populate(reset(p), r)
             m == q.mini /\ r.state \in On
  <1>1. /\ q \in Panels /\ (q.mini <=> p.mini \/ r.filename # None)
        /\ q.button = Button(r) /\ q.bar = r.progress
        /\ q.filename = p.filename /\ q.front = p.front /\ q.disabled = p.disabled
    BY ResetFacts, PopulateFacts
  <1>2. Known(r, "state")
    BY KnownFacts DEF Keys
  <1>3. init(p, r) = [q EXCEPT !.mini = m]
    BY <1>2 DEF init
  <1>4. r.state \in On => r.filename # None
    BY StatFacts DEF Sound
  <1>5. m \in BOOLEAN /\ (m <=> r.state \in On)
    BY <1>1, <1>4
  <1> HIDE DEF q, m
  <1>6. /\ init(p, r) \in Panels /\ init(p, r).mini = m
        /\ init(p, r).button = Button(r) /\ init(p, r).bar = r.progress
        /\ init(p, r).filename = p.filename /\ init(p, r).front = p.front
        /\ init(p, r).disabled = p.disabled
    BY <1>1, <1>3, <1>5 DEF Panels
  <1>7. Shows(M, init(p, r), r)
    BY <1>5, <1>6 DEF Shows, Button
  <1> QED
    BY <1>6, <1>7

(* init when the subscription failed and State has nothing.                *)
LEMMA InitNull ==
  ASSUME NEW p \in Panels
  PROVE  /\ init(p, Null) \in Panels
         /\ init(p, Null).filename = p.filename /\ init(p, Null).disabled = p.disabled
         /\ init(p, Null).front = p.front
  <1> DEFINE q == populate(reset(p), Null)
             m == TRUE
  <1>1. /\ q \in Panels /\ q.filename = p.filename /\ q.front = p.front
        /\ q.disabled = p.disabled
    BY ResetFacts, PopulateNull
  <1>2. ~Known(Null, "state")
    BY DEF Known, Null
  <1>3. init(p, Null) = [q EXCEPT !.mini = m]
    BY <1>2 DEF init
  <1>4. m \in BOOLEAN
    OBVIOUS
  <1> HIDE DEF q, m
  <1> QED
    BY <1>1, <1>3, <1>4 DEF Panels

-----------------------------------------------------------------------------
(* The parts of consume.  Before it the panel shows status r, the report   *)
(* is d, and State is r with d merged, which is t.                         *)

(* on_filename: a name the panel does not hold, and not the empty one,     *)
(* makes a new print of it.                                                *)
LEMMA FilenameFacts ==
  ASSUME NEW p \in Panels, NEW r \in Stats, NEW t \in Stats
  PROVE  LET d == Diff(r, t)
             q == on_filename(p, d, t)
             known == "filename" \in DOMAIN d
             new == known /\ t.filename \notin {None, p.filename}
         IN  /\ NewPrint(p, d) <=> new
             /\ q \in Panels
             /\ q.filename = IF known THEN t.filename ELSE p.filename
             /\ new => /\ q.front /\ q.mini /\ q.button = Button(t) /\ q.bar = t.progress
             /\ ~new => /\ q.front = p.front /\ q.mini = p.mini /\ q.button = p.button
                        /\ q.bar = p.bar
                        /\ q.details = p.details /\ q.thumb = p.thumb
             /\ q.disabled = p.disabled
  <1> DEFINE d == Diff(r, t)
             known == "filename" \in DOMAIN d
             new == known /\ t.filename \notin {None, p.filename}
             yes == TRUE
             u == [populate(reset(p), t) EXCEPT !.front = yes]
             q0 == IF NewPrint(p, d) THEN u ELSE p
             name == t.filename
             q == IF known THEN [q0 EXCEPT !.filename = name] ELSE q0
  <1>1. known => d.filename = t.filename
    BY DiffFacts DEF Keys
  <1>2. NewPrint(p, d) <=> new
    BY <1>1 DEF NewPrint, Known
  <1>3. on_filename(p, d, t) = q
    BY <1>1 DEF on_filename, Known
  <1>4. /\ populate(reset(p), t) \in Panels
        /\ (populate(reset(p), t).mini <=> p.mini \/ t.filename # None)
        /\ populate(reset(p), t).button = Button(t)
        /\ populate(reset(p), t).bar = t.progress
        /\ populate(reset(p), t).disabled = p.disabled
    BY ResetFacts, PopulateFacts
  <1>5. yes \in BOOLEAN /\ yes
    OBVIOUS
  <1>6. name \in Files \cup {None} /\ name = t.filename
    BY StatFacts DEF Stat
  <1> HIDE DEF yes, name
  <1>7. /\ u \in Panels /\ u.front = yes /\ u.mini = populate(reset(p), t).mini
        /\ u.button = Button(t) /\ u.bar = t.progress /\ u.disabled = p.disabled
    BY <1>4, <1>5 DEF Panels
  <1> HIDE DEF u, d
  <1>8. /\ new => q0 = u
        /\ ~new => q0 = p
        /\ q0 \in Panels /\ q0.disabled = p.disabled
    BY <1>2, <1>7
  <1> HIDE DEF q0
  <1>9. /\ q \in Panels /\ q.front = q0.front /\ q.mini = q0.mini /\ q.button = q0.button
        /\ q.bar = q0.bar /\ q.details = q0.details /\ q.thumb = q0.thumb
        /\ q.disabled = q0.disabled
        /\ q.filename = IF known THEN name ELSE q0.filename
    BY <1>6, <1>8 DEF Panels
  <1> HIDE DEF q
  <1>10. q.filename = IF known THEN t.filename ELSE p.filename
    BY <1>6, <1>8, <1>9
  <1>11. ASSUME new
         PROVE  q.front /\ q.mini /\ q.button = Button(t) /\ q.bar = t.progress
    <2>1. u.front /\ u.mini
      BY <1>4, <1>5, <1>7, <1>11
    <2> QED
      BY <1>7, <1>8, <1>9, <1>11, <2>1
  <1>12. ASSUME ~new
         PROVE  /\ q.front = p.front /\ q.mini = p.mini /\ q.button = p.button
                /\ q.bar = p.bar /\ q.details = p.details /\ q.thumb = p.thumb
    BY <1>8, <1>9, <1>12
  <1> QED
    BY <1>2, <1>3, <1>8, <1>9, <1>10, <1>11, <1>12 DEF d

(* on_state: the miniature is there during a print, and the panel leaves   *)
(* the front when one is over.                                             *)
LEMMA StateFacts ==
  ASSUME NEW p \in Panels, NEW r \in Stats, NEW t \in Stats
  PROVE  LET d == Diff(r, t)
             q == on_state(p, d)
         IN  /\ q \in Panels /\ q.filename = p.filename /\ q.details = p.details
             /\ q.thumb = p.thumb /\ q.button = p.button /\ q.disabled = p.disabled
             /\ t.state # "complete" => q.bar = p.bar
             /\ "state" \in DOMAIN d =>
                  /\ q.mini <=> t.state \in On
                  /\ q.front <=> p.front /\ t.state \notin Over
             /\ "state" \notin DOMAIN d => q = p
  <1> DEFINE d == Diff(r, t)
             known == "state" \in DOMAIN d
             u == IF t.state = "complete" THEN update_progress(p, Full) ELSE p
             m == t.state \in On
             f == u.front /\ t.state \notin Over
             v == [u EXCEPT !.mini = m, !.front = f]
  <1>1. known => d.state = t.state
    BY DiffFacts DEF Keys
  <1>2. on_state(p, d) = IF known THEN v ELSE p
    BY <1>1 DEF on_state, Known
  <1>3. Full \in 0..Full
    OBVIOUS
  <1>4. /\ u \in Panels /\ u.filename = p.filename /\ u.details = p.details
        /\ u.thumb = p.thumb /\ u.button = p.button /\ u.disabled = p.disabled
        /\ u.front = p.front /\ (t.state # "complete" => u.bar = p.bar)
    BY <1>3, ProgressFacts
  <1> HIDE DEF u
  <1>5. m \in BOOLEAN /\ f \in BOOLEAN
    OBVIOUS
  <1>6. /\ m <=> t.state \in On
        /\ f <=> p.front /\ t.state \notin Over
    BY <1>4
  <1> HIDE DEF m, f
  <1>7. /\ v \in Panels /\ v.filename = p.filename /\ v.details = p.details
        /\ v.thumb = p.thumb /\ v.button = p.button /\ v.disabled = p.disabled
        /\ v.bar = u.bar /\ v.mini = m /\ v.front = f
    BY <1>4, <1>5 DEF Panels
  <1> HIDE DEF v, d
  <1> QED
    BY <1>2, <1>4, <1>6, <1>7 DEF d

(* on_progress: the bar follows.                                           *)
LEMMA OnProgressFacts ==
  ASSUME NEW p \in Panels, NEW r \in Stats, NEW t \in Stats
  PROVE  LET d == Diff(r, t)
             q == on_progress(p, d)
         IN  /\ q \in Panels /\ q.filename = p.filename /\ q.details = p.details
             /\ q.thumb = p.thumb /\ q.button = p.button /\ q.disabled = p.disabled
             /\ q.mini = p.mini /\ q.front = p.front
             /\ q.bar = IF "progress" \in DOMAIN d THEN t.progress ELSE p.bar
  <1> DEFINE d == Diff(r, t)
  <1>1. "progress" \in DOMAIN d => d.progress = t.progress
    BY DiffFacts DEF Keys
  <1>2. t.progress \in 0..Full
    BY StatFacts DEF Stat
  <1>3. on_progress(p, d) = IF "progress" \in DOMAIN d THEN update_progress(p, t.progress) ELSE p
    BY <1>1 DEF on_progress, Known
  <1> HIDE DEF d
  <1> QED
    BY <1>2, <1>3, ProgressFacts DEF d

(* on_paused: the button that applies, enabled.                            *)
LEMMA PausedFacts ==
  ASSUME NEW p \in Panels, NEW r \in Stats, NEW t \in Stats
  PROVE  LET d == Diff(r, t)
             q == on_paused(p, d)
         IN  /\ q \in Panels /\ q.filename = p.filename /\ q.details = p.details
             /\ q.thumb = p.thumb /\ q.mini = p.mini /\ q.front = p.front /\ q.bar = p.bar
             /\ "is_paused" \in DOMAIN d =>
                  q.button = Button(t) /\ q.disabled = {"pause", "resume"} \ {Button(t)}
             /\ "is_paused" \notin DOMAIN d =>
                  q.button = p.button /\ q.disabled = p.disabled /\ Button(r) = Button(t)
  <1> DEFINE d == Diff(r, t)
             known == "is_paused" \in DOMAIN d
             b == Button(t)
             o == {"pause", "resume"} \ {b}
             v == [p EXCEPT !.button = b, !.disabled = o]
  <1>1. /\ (r.is_paused <=> r.state = "paused") /\ (t.is_paused <=> t.state = "paused")
        /\ r \in Stat /\ t \in Stat
    BY StatFacts DEF Sound
  <1>2. known => d.is_paused = t.is_paused
    BY DiffFacts DEF Keys
  <1>3. ~known => r.is_paused = t.is_paused
    BY DiffFacts DEF Keys
  <1>4. ~known => Button(r) = Button(t)
    BY <1>1, <1>3 DEF Button
  <1>5. known => (IF d.is_paused THEN "resume" ELSE "pause") = b
    BY <1>1, <1>2 DEF Button
  <1>6. on_paused(p, d) = IF known THEN v ELSE p
    BY <1>5 DEF on_paused, Known
  <1>7. b \in {"both", "pause", "resume"} /\ o \in SUBSET {"pause", "resume"}
    BY DEF Button
  <1> HIDE DEF b, o
  <1>8. /\ v \in Panels /\ v.filename = p.filename /\ v.details = p.details
        /\ v.thumb = p.thumb /\ v.mini = p.mini /\ v.front = p.front /\ v.bar = p.bar
        /\ v.button = b /\ v.disabled = o
    BY <1>7 DEF Panels
  <1> HIDE DEF v, d
  <1> QED
    BY <1>4, <1>6, <1>8 DEF d, b, o

Consumed(p, r, t) ==
  LET d == Diff(r, t)
  IN  on_paused(on_progress(on_state(on_filename(p, d, t), d), d), d)

(* PrintStatusPanel::consume as a whole: the panel goes from showing r to  *)
(* showing t, and it comes to the front only for a print.                  *)
LEMMA ConsumeFacts ==
  ASSUME NEW M, NEW p \in Panels, NEW r \in Stats, NEW t \in Stats, Later(M, r, t),
         Shows(M, p, r)
  PROVE  LET d == Diff(r, t)
             q == Consumed(p, r, t)
             new == "filename" \in DOMAIN d /\ t.filename \notin {None, p.filename}
         IN  /\ q \in Panels /\ Shows(M, q, t)
             /\ NewPrint(p, d) <=> new
             /\ q.filename = IF "filename" \in DOMAIN d THEN t.filename ELSE p.filename
             /\ ~new => q.details = p.details /\ q.thumb = p.thumb
             /\ q.front /\ ~p.front => t.state \in On \/ t.filename \in M
             /\ p.button \notin p.disabled => q.button \notin q.disabled
  <1> DEFINE d == Diff(r, t)
             q1 == on_filename(p, d, t)
             q2 == on_state(q1, d)
             q3 == on_progress(q2, d)
             q == on_paused(q3, d)
             named == "filename" \in DOMAIN d
             stated == "state" \in DOMAIN d
             moved == "progress" \in DOMAIN d
             paused == "is_paused" \in DOMAIN d
             new == named /\ t.filename \notin {None, p.filename}
  <1>1. /\ NewPrint(p, d) <=> new
        /\ q1 \in Panels
        /\ q1.filename = IF named THEN t.filename ELSE p.filename
        /\ new => /\ q1.front /\ q1.mini /\ q1.button = Button(t) /\ q1.bar = t.progress
        /\ ~new => /\ q1.front = p.front /\ q1.mini = p.mini /\ q1.button = p.button
                   /\ q1.bar = p.bar
                   /\ q1.details = p.details /\ q1.thumb = p.thumb
        /\ q1.disabled = p.disabled
    BY FilenameFacts
  <1>0. Consumed(p, r, t) = q
    BY DEF Consumed
  <1> HIDE DEF q1
  <1>2. /\ q2 \in Panels /\ q2.filename = q1.filename /\ q2.details = q1.details
        /\ q2.thumb = q1.thumb /\ q2.button = q1.button /\ q2.disabled = q1.disabled
        /\ t.state # "complete" => q2.bar = q1.bar
        /\ stated =>
             /\ q2.mini <=> t.state \in On
             /\ q2.front <=> q1.front /\ t.state \notin Over
        /\ ~stated => q2 = q1
    BY <1>1, StateFacts
  <1> HIDE DEF q2
  <1>3. /\ q3 \in Panels /\ q3.filename = q2.filename /\ q3.details = q2.details
        /\ q3.thumb = q2.thumb /\ q3.button = q2.button /\ q3.disabled = q2.disabled
        /\ q3.mini = q2.mini /\ q3.front = q2.front
        /\ q3.bar = IF moved THEN t.progress ELSE q2.bar
    BY <1>2, OnProgressFacts
  <1> HIDE DEF q3
  <1>4. /\ q \in Panels /\ q.filename = q3.filename /\ q.details = q3.details
        /\ q.thumb = q3.thumb /\ q.mini = q3.mini /\ q.front = q3.front /\ q.bar = q3.bar
        /\ paused => q.button = Button(t) /\ q.disabled = {"pause", "resume"} \ {Button(t)}
        /\ ~paused => q.button = q3.button /\ q.disabled = q3.disabled /\ Button(r) = Button(t)
    BY <1>3, PausedFacts
  <1> HIDE DEF q
  <1>5. /\ ~named => r.filename = t.filename
        /\ ~stated => r.state = t.state
        /\ ~moved => r.progress = t.progress
    BY DiffFacts DEF Keys
  <1>6. /\ r \in Stat /\ t \in Stat /\ Sound(r) /\ Sound(t) /\ r # Null
        /\ Idle.filename = None /\ Idle.state = "standby" /\ Idle.progress = 0
    BY StatFacts DEF Idle
  <1>7. named => r.filename # t.filename
    <2>1. \A k \in DOMAIN d : r[k] # t[k]
      BY DEF Diff
    <2> QED
      BY <2>1
  <1> HIDE DEF d
  <1>8. new /\ ~stated => t.state \in On \/ (M # {} /\ t.filename \in M)
    BY <1>5, <1>6, <1>7 DEF Later
  <1>9. ASSUME M = {}
        PROVE  q.mini <=> t.state \in On
    <2>1. CASE stated
      BY <1>2, <1>3, <1>4, <2>1
    <2>2. CASE ~stated /\ new
      BY <1>1, <1>2, <1>3, <1>4, <1>8, <1>9, <2>2
    <2>3. CASE ~stated /\ ~new
      BY <1>1, <1>2, <1>3, <1>4, <1>5, <1>6, <1>9, <2>3 DEF Shows
    <2> QED
      BY <2>1, <2>2, <2>3
  <1>10. p.button = Button(r)
    BY <1>6 DEF Shows, Button
  <1>11. q.button = Button(t)
    BY <1>1, <1>2, <1>3, <1>4, <1>10
  <1>12. ASSUME M = {}, t.state # "complete"
         PROVE  q.bar = t.progress
    <2>1. CASE moved
      BY <1>3, <1>4, <2>1
    <2>2. CASE ~moved /\ new
      BY <1>1, <1>2, <1>3, <1>4, <1>12, <2>2
    <2>3. CASE ~moved /\ ~new
      <3>1. r.progress = t.progress
        BY <1>5, <2>3
      <3>2. r.state # "complete"
        BY <1>6, <1>12, <3>1 DEF Later, Sound, Stat, On
      <3> QED
        BY <1>1, <1>2, <1>3, <1>4, <1>6, <1>12, <2>3, <3>1, <3>2 DEF Shows
    <2> QED
      BY <2>1, <2>2, <2>3
  <1>13. Shows(M, q, t)
    BY <1>9, <1>11, <1>12 DEF Shows, Button
  <1>14. ASSUME q.front, ~p.front
         PROVE  t.state \in On \/ t.filename \in M
    <2>1. new
      BY <1>1, <1>2, <1>3, <1>4, <1>14
    <2>2. CASE stated
      <3>1. t.state \notin Over
        BY <1>2, <1>3, <1>4, <1>14, <2>2
      <3>2. t.state # "standby"
        BY <1>6, <2>1 DEF Sound
      <3> QED
        BY <1>6, <3>1, <3>2 DEF Stat
    <2> QED
      BY <1>8, <2>1, <2>2
  <1>15. p.button \notin p.disabled => q.button \notin q.disabled
    BY <1>1, <1>2, <1>3, <1>4, <1>10, <1>11
  <1>16. q.filename = IF named THEN t.filename ELSE p.filename
    BY <1>1, <1>2, <1>3, <1>4
  <1>17. ~new => q.details = p.details /\ q.thumb = p.thumb
    BY <1>1, <1>2, <1>3, <1>4
  <1> QED
    BY <1>0, <1>1, <1>4, <1>13, <1>14, <1>15, <1>16, <1>17 DEF d

-----------------------------------------------------------------------------
(* Queues.                                                                 *)

(* Putting one more at the end of a queue.                                 *)
LEMMA AppendFacts ==
  ASSUME NEW S, NEW q \in Seq(S), NEW e \in S
  PROVE  /\ Append(q, e) \in Seq(S) /\ Len(q) \in Nat
         /\ Len(Append(q, e)) = Len(q) + 1 /\ Append(q, e)[Len(q) + 1] = e
         /\ DOMAIN Append(q, e) = DOMAIN q \cup {Len(q) + 1}
         /\ \A i \in DOMAIN q : i \in Nat /\ i < Len(q) + 1 /\ Append(q, e)[i] = q[i]
  OBVIOUS

(* Taking the oldest off a queue.                                          *)
LEMMA TailFacts ==
  ASSUME NEW S, NEW q \in Seq(S), q # <<>>
  PROVE  /\ Tail(q) \in Seq(S) /\ Head(q) \in S /\ Head(q) = q[1] /\ 1 \in DOMAIN q
         /\ Len(q) \in Nat /\ Len(Tail(q)) = Len(q) - 1 /\ Len(q) >= 1
         /\ \A i \in DOMAIN Tail(q) : i \in Nat /\ i + 1 \in DOMAIN q /\ Tail(q)[i] = q[i + 1]
         /\ \A i \in DOMAIN q : i \in Nat
         /\ \A i \in DOMAIN q : i # 1 => i > 1 /\ i - 1 \in DOMAIN Tail(q) /\ Tail(q)[i - 1] = q[i]
  OBVIOUS

(* One more event leads State one status further.                          *)
LEMMA LeadsAppend ==
  ASSUME NEW M, NEW q \in Seq(Events), NEW e \in Events, NEW s, NEW sub, NEW r, NEW sub2, NEW r2,
         Leads(M, q, s, sub, r),
         \A x \in Stats \cup {Null} : (sub => x = r) =>
           \E y \in Stats \cup {Null} : Leap(M, x, e, y) /\ (sub2 => y = r2)
  PROVE  Leads(M, Append(q, e), s, sub2, r2)
  <1> DEFINE n == Len(q)
             a == Append(q, e)
  <1>1. PICK h : Path(M, h, q, s) /\ (sub => h[n + 1] = r)
    BY DEF Leads
  <1>2. /\ n \in Nat /\ Len(a) = n + 1 /\ a[n + 1] = e
        /\ \A i \in 1..n : a[i] = q[i]
    BY AppendFacts
  <1> HIDE DEF n, a
  <1>3. /\ h \in [1..(n + 1) -> Stats \cup {Null}] /\ h[1] = s
        /\ \A i \in 1..n : Leap(M, h[i], q[i], h[i + 1])
    BY <1>1 DEF Path, n
  <1>4. h[n + 1] \in Stats \cup {Null}
    BY <1>2, <1>3
  <1>5. PICK y \in Stats \cup {Null} : Leap(M, h[n + 1], e, y) /\ (sub2 => y = r2)
    BY <1>1, <1>4
  <1> DEFINE g == [i \in 1..(n + 2) |-> IF i = n + 2 THEN y ELSE h[i]]
  <1>6. /\ g \in [1..(n + 2) -> Stats \cup {Null}] /\ g[1] = s /\ g[n + 2] = y
        /\ \A i \in 1..(n + 1) : g[i] = h[i]
    BY <1>2, <1>3, <1>5
  <1> HIDE DEF g
  <1>7. ASSUME NEW i \in 1..(n + 1)
        PROVE  Leap(M, g[i], a[i], g[i + 1])
    <2>1. CASE i = n + 1
      <3>1. g[i] = h[n + 1] /\ a[i] = e /\ g[i + 1] = y
        BY <1>2, <1>6, <2>1
      <3> QED
        BY <1>5, <3>1
    <2>2. CASE i \in 1..n
      <3>1. i + 1 \in 1..(n + 1)
        BY <1>2, <2>2
      <3>2. g[i] = h[i] /\ g[i + 1] = h[i + 1] /\ a[i] = q[i]
        BY <1>2, <1>6, <2>2, <3>1
      <3> QED
        BY <1>3, <2>2, <3>2
    <2> QED
      BY <1>2, <2>1, <2>2
  <1>8. (n + 1) + 1 = n + 2
    BY <1>2
  <1>9. Path(M, g, a, s)
    BY <1>2, <1>6, <1>7, <1>8 DEF Path
  <1>10. sub2 => g[Len(a) + 1] = r2
    BY <1>2, <1>5, <1>6, <1>8
  <1> QED
    BY <1>9, <1>10 DEF Leads, a

(* A report leads from the last status reported to the next.               *)
LEMMA LeadsReport ==
  ASSUME NEW M, NEW q \in Seq(Events), NEW e \in Events, NEW s, NEW r, NEW t \in Stats,
         Leads(M, q, s, TRUE, r), Leap(M, r, e, t)
  PROVE  Leads(M, Append(q, e), s, TRUE, t)
  <1> DEFINE yes == TRUE
             yes2 == TRUE
  <1>1. Leads(M, q, s, yes, r) /\ yes /\ yes2 /\ t \in Stats \cup {Null}
    OBVIOUS
  <1> HIDE DEF yes, yes2
  <1>2. \A x \in Stats \cup {Null} : (yes => x = r) =>
          \E y \in Stats \cup {Null} : Leap(M, x, e, y) /\ (yes2 => y = t)
    BY <1>1
  <1>3. Leads(M, Append(q, e), s, yes2, t)
    BY <1>1, <1>2, LeadsAppend
  <1> QED
    BY <1>3 DEF yes2

(* The oldest event leads State to a status from which the rest leads on.  *)
LEMMA LeadsTail ==
  ASSUME NEW M, NEW q \in Seq(Events), q # <<>>, NEW s, NEW sub, NEW r, Leads(M, q, s, sub, r)
  PROVE  \E y \in Stats \cup {Null} : Leap(M, s, Head(q), y) /\ Leads(M, Tail(q), y, sub, r)
  <1> DEFINE n == Len(q)
             a == Tail(q)
  <1>1. PICK h : Path(M, h, q, s) /\ (sub => h[n + 1] = r)
    BY DEF Leads
  <1>2. /\ n \in Nat /\ n >= 1 /\ Len(a) = n - 1 /\ Head(q) = q[1]
        /\ \A i \in 1..(n - 1) : a[i] = q[i + 1]
    BY TailFacts
  <1> HIDE DEF n, a
  <1>3. /\ h \in [1..(n + 1) -> Stats \cup {Null}] /\ h[1] = s
        /\ \A i \in 1..n : Leap(M, h[i], q[i], h[i + 1])
    BY <1>1 DEF Path, n
  <1> DEFINE g == [i \in 1..n |-> h[i + 1]]
  <1>4. /\ g \in [1..n -> Stats \cup {Null}]
        /\ \A i \in 1..n : g[i] = h[i + 1]
    BY <1>2, <1>3
  <1> HIDE DEF g
  <1>5. /\ Leap(M, s, Head(q), h[1 + 1]) /\ g[1] = h[1 + 1] /\ g[1] \in Stats \cup {Null}
    BY <1>2, <1>3, <1>4
  <1>6. ASSUME NEW i \in 1..(n - 1)
        PROVE  Leap(M, g[i], a[i], g[i + 1])
    <2>1. i \in 1..n /\ i + 1 \in 1..n
      BY <1>2
    <2>2. g[i] = h[i + 1] /\ g[i + 1] = h[(i + 1) + 1] /\ a[i] = q[i + 1]
      BY <1>2, <1>4, <2>1
    <2> QED
      BY <1>3, <2>1, <2>2
  <1>7. (n - 1) + 1 = n
    BY <1>2
  <1>8. Path(M, g, a, g[1])
    BY <1>2, <1>4, <1>6, <1>7 DEF Path
  <1>9. sub => g[Len(a) + 1] = r
    BY <1>1, <1>2, <1>4, <1>7
  <1>10. Leads(M, a, g[1], sub, r)
    BY <1>8, <1>9 DEF Leads
  <1> QED
    BY <1>5, <1>10 DEF a

-----------------------------------------------------------------------------
(* Klipper's print.                                                        *)

(* A status with other values is one if the values go together.            *)
LEMMA NewStat ==
  ASSUME NEW f \in Files \cup {None}, NEW s \in On \cup Over,
         NEW n \in 0..Full, NEW z \in BOOLEAN,
         s \in On => f \in Files, z <=> s = "paused", s = "complete" => n + 1 >= Full
  PROVE  LET r == [filename |-> f, state |-> s, progress |-> n, is_paused |-> z]
         IN  r \in Stats /\ r.filename = f /\ r.state = s /\ r.progress = n /\ r.is_paused = z
  <1> DEFINE r == [filename |-> f, state |-> s, progress |-> n, is_paused |-> z]
  <1>1. r \in Stat /\ r.filename = f /\ r.state = s /\ r.progress = n /\ r.is_paused = z
    BY DEF Stat
  <1> HIDE DEF r
  <1>2. s # "standby"
    BY DEF On, Over
  <1>3. Sound(r)
    BY <1>1, <1>2 DEF Sound
  <1> QED
    BY <1>1, <1>3 DEF Stats, r

(* A status is the record of its four values.                              *)
LEMMA StatRecord ==
  ASSUME NEW r \in Stats
  PROVE  /\ r = [filename |-> r.filename, state |-> r.state, progress |-> r.progress,
                 is_paused |-> r.is_paused]
         /\ r.filename \in Files \cup {None} /\ r.state \in On \cup Over \cup {"standby"}
         /\ r.progress \in 0..Full /\ r.is_paused \in BOOLEAN
  BY StatFacts DEF Stat


(* A print starts where there is none.                                     *)
LEMMA StartFacts ==
  ASSUME NEW f \in Files, printer \in Stats, Starting(f) # printer
  PROVE  Starting(f) \in Stats /\ Starting(f).state \in On /\ Starting(f).progress = 0
  <1> DEFINE s == "printing"
             n == 0
             z == FALSE
             r == [filename |-> f, state |-> s, progress |-> n, is_paused |-> z]
  <1>1. Starting(f) = r
    BY DEF Starting, Idle
  <1>2. /\ s \in On /\ n \in 0..Full /\ z \in BOOLEAN /\ n = 0
        /\ ~z /\ s # "paused" /\ s # "complete"
    BY DEF On
  <1> HIDE DEF s, n, z
  <1>3. r \in Stats /\ r.state = s /\ r.progress = n
    BY <1>2, NewStat
  <1> QED
    BY <1>1, <1>2, <1>3

(* What a print that is on becomes.                                        *)
LEMMA ProceedFacts ==
  ASSUME printer \in Stats
  PROVE  /\ Pausing \in Stats /\ Resuming \in Stats /\ Reading \in Stats /\ Clearing \in Stats
         /\ printer.state \notin On =>
              {Pausing, Resuming, Reading, Clearing} \subseteq {printer, Idle}
         /\ printer.state \in On => \A t \in {Pausing, Resuming, Reading, Clearing} :
              t.filename = printer.filename
  <1> DEFINE f == printer.filename
             n == printer.progress
             z == printer.is_paused
             s == printer.state
  <1>1. /\ printer = [filename |-> f, state |-> s, progress |-> n, is_paused |-> z]
        /\ f \in Files \cup {None} /\ n \in 0..Full /\ z \in BOOLEAN
    BY StatRecord
  <1>2. Sound(printer)
    BY StatFacts
  <1>3. s \in On => f \in Files
    BY <1>2 DEF Sound
  <1>4. Pausing \in Stats
    <2>1. CASE s # "printing"
      BY <2>1 DEF Pausing
    <2>2. CASE s = "printing"
      <3> DEFINE t == "paused"
                 y == TRUE
      <3>1. Pausing = [filename |-> f, state |-> t, progress |-> n, is_paused |-> y]
        BY <1>1, <2>2 DEF Pausing
      <3>2. t \in On /\ y \in BOOLEAN /\ y /\ t = "paused" /\ t # "complete" /\ f \in Files
        BY <1>3, <2>2 DEF On
      <3> HIDE DEF t, y, f, n, z, s
      <3> QED
        BY <1>1, <3>1, <3>2, NewStat
    <2> QED
      BY <2>1, <2>2
  <1>5. Resuming \in Stats
    <2>1. CASE s # "paused"
      BY <2>1 DEF Resuming
    <2>2. CASE s = "paused"
      <3> DEFINE t == "printing"
                 y == FALSE
      <3>1. Resuming = [filename |-> f, state |-> t, progress |-> n, is_paused |-> y]
        BY <1>1, <2>2 DEF Resuming
      <3>2. t \in On /\ y \in BOOLEAN /\ ~y /\ t # "paused" /\ t # "complete" /\ f \in Files
        BY <1>3, <2>2 DEF On
      <3> HIDE DEF t, y, f, n, z, s
      <3> QED
        BY <1>1, <3>1, <3>2, NewStat
    <2> QED
      BY <2>1, <2>2
  <1>6. Reading \in Stats
    <2>1. CASE s # "printing" \/ n + 1 >= Full
      BY <2>1 DEF Reading
    <2>2. CASE s = "printing" /\ n + 1 < Full
      <3> DEFINE m == n + 1
      <3>1. Reading = [filename |-> f, state |-> s, progress |-> m, is_paused |-> z]
        BY <1>1, <2>2 DEF Reading
      <3>2. s \in On /\ s # "paused" /\ s # "complete" /\ f \in Files
        BY <1>3, <2>2 DEF On
      <3>3. z <=> s = "paused"
        BY <1>2 DEF Sound
      <3>4. m \in 0..Full
        BY <1>1, <2>2
      <3> HIDE DEF m, f, n, z, s
      <3> QED
        BY <1>1, <3>1, <3>2, <3>3, <3>4, NewStat
    <2> QED
      BY <1>1, <2>1, <2>2
  <1>7. Clearing \in Stats
    BY IdleFacts DEF Clearing
  <1>8. printer.state \notin On => {Pausing, Resuming, Reading, Clearing} \subseteq {printer, Idle}
    BY DEF Pausing, Resuming, Reading, Clearing, On
  <1>9. ASSUME printer.state \in On
        PROVE  \A t \in {Pausing, Resuming, Reading, Clearing} : t.filename = printer.filename
    BY <1>1, <1>9 DEF Pausing, Resuming, Reading, Clearing
  <1> QED
    BY <1>4, <1>5, <1>6, <1>7, <1>8, <1>9

(* What becomes of a print that ends.                                      *)
LEMMA EndFacts ==
  ASSUME printer \in Stats
  PROVE  /\ Completing \cup Abandoning \subseteq Stats
         /\ printer.state \notin On => Completing \cup Abandoning \subseteq {printer}
         /\ \A t \in Completing : t.filename = printer.filename
         /\ printer.state \in On => \A t \in Abandoning : t.filename \in {None, printer.filename}
  <1> DEFINE f == printer.filename
             n == printer.progress
             z == printer.is_paused
             s == printer.state
  <1>1. /\ printer = [filename |-> f, state |-> s, progress |-> n, is_paused |-> z]
        /\ f \in Files \cup {None} /\ n \in 0..Full /\ z \in BOOLEAN
    BY StatRecord
  <1>2. Sound(printer)
    BY StatFacts
  <1>3. ASSUME NEW t \in Completing
        PROVE  t \in Stats
    <2>1. CASE s # "printing" \/ n + 1 < Full
      BY <2>1, <1>3 DEF Completing
    <2>2. CASE s = "printing" /\ n + 1 >= Full
      <3> DEFINE c == "complete"
      <3>1. PICK m \in {n, Full} : t = [printer EXCEPT !.state = "complete", !.progress = m]
        BY <1>1, <1>3, <2>2 DEF Completing
      <3>2. t = [filename |-> f, state |-> c, progress |-> m, is_paused |-> z]
        BY <1>1, <3>1
      <3>3. c \in Over /\ c \notin On /\ c # "paused"
        BY DEF On, Over
      <3>4. z <=> c = "paused"
        BY <1>2, <2>2, <3>3 DEF Sound
      <3>5. m \in 0..Full /\ m + 1 >= Full
        BY <1>1, <2>2, <3>1
      <3> HIDE DEF c, f, n, z, s
      <3> QED
        BY <1>1, <3>2, <3>3, <3>4, <3>5, NewStat
    <2> QED
      BY <1>1, <2>1, <2>2
  <1>4. ASSUME NEW t \in Abandoning
        PROVE  t \in Stats
    <2>1. CASE s \notin On
      BY <2>1, <1>4 DEF Abandoning
    <2>2. CASE s \in On
      <3> DEFINE c == "cancelled"
                 y == FALSE
      <3>1. PICK g \in {None, f} : t = [printer EXCEPT !.filename = g, !.state = "cancelled",
                                                       !.is_paused = FALSE]
        BY <1>4, <2>2 DEF Abandoning
      <3>2. t = [filename |-> g, state |-> c, progress |-> n, is_paused |-> y]
        BY <1>1, <3>1
      <3>3. c \in Over /\ c \notin On /\ c # "paused" /\ c # "complete" /\ y \in BOOLEAN /\ ~y
        BY DEF On, Over
      <3>4. g \in Files \cup {None}
        BY <1>1, <3>1
      <3> HIDE DEF c, f, n, y, s
      <3> QED
        BY <1>1, <3>2, <3>3, <3>4, NewStat
    <2> QED
      BY <2>1, <2>2
  <1>5. printer.state \notin On => Completing \cup Abandoning \subseteq {printer}
    BY DEF Completing, Abandoning, On
  <1>6. \A t \in Completing : t.filename = printer.filename
    BY <1>1 DEF Completing
  <1>7. ASSUME printer.state \in On, NEW t \in Abandoning
        PROVE  t.filename \in {None, printer.filename}
    BY <1>1, <1>7 DEF Abandoning
  <1> QED
    BY <1>3, <1>4, <1>5, <1>6, <1>7


-----------------------------------------------------------------------------
(* What is on its way, when one more comes or the oldest is dealt with.    *)

Token == {"connected", "subscribe"}
OneToken(q) == \A i, k \in Tokens(q) : i = k

(* What Tell and Sent add is put at the end.                               *)
LEMMA CatFacts ==
  ASSUME NEW S, NEW q \in Seq(S), NEW e \in S
  PROVE  q \o <<e>> = Append(q, e) /\ q \o <<>> = q
  OBVIOUS

(* Nothing is in an empty queue.                                           *)
LEMMA EmptyFacts == Tokens(<<>>) = {} /\ Metas(<<>>) = {}
  BY DEF Tokens, Metas

(* Tokens and requests for metadata in a queue with one more at its end.   *)
LEMMA AppendKinds ==
  ASSUME NEW S, NEW q \in Seq(S), NEW e \in S
  PROVE  LET a == Append(q, e)
         IN  /\ e.kind \notin Token => Tokens(a) = Tokens(q)
             /\ Tokens(q) = {} => OneToken(a)
             /\ e.kind # "metadata" => Metas(a) = Metas(q)
             /\ e.kind # "metadata" => \A f : LastIs(q, f) => LastIs(a, f)
             /\ e.kind = "metadata" => Metas(a) # {} /\ LastIs(a, e.file)
  <1> DEFINE a == Append(q, e)
             n == Len(q) + 1
  <1>1. /\ n \in Nat /\ a[n] = e /\ DOMAIN a = DOMAIN q \cup {n}
        /\ \A i \in DOMAIN q : i \in Nat /\ i < n /\ a[i] = q[i]
    BY AppendFacts
  <1> HIDE DEF a, n
  <1>2. e.kind \notin Token => Tokens(a) = Tokens(q)
    BY <1>1 DEF Tokens, Token
  <1>3. Tokens(q) = {} => OneToken(a)
    <2>1. Tokens(a) \subseteq Tokens(q) \cup {n}
      BY <1>1 DEF Tokens
    <2> QED
      BY <2>1 DEF OneToken
  <1>4. e.kind # "metadata" => Metas(a) = Metas(q)
    BY <1>1 DEF Metas
  <1>5. ASSUME e.kind # "metadata", NEW f, LastIs(q, f)
        PROVE  LastIs(a, f)
    <2>1. PICK i \in Metas(q) : q[i].file = f /\ \A j \in Metas(q) : j <= i
      BY <1>5 DEF LastIs
    <2>2. i \in Metas(a) /\ a[i].file = f
      BY <1>1, <1>4, <1>5, <2>1 DEF Metas
    <2> QED
      BY <1>4, <1>5, <2>1, <2>2 DEF LastIs
  <1>6. ASSUME e.kind = "metadata"
        PROVE  Metas(a) # {} /\ LastIs(a, e.file)
    <2>1. n \in Metas(a)
      BY <1>1, <1>6 DEF Metas
    <2>2. \A j \in Metas(a) : j <= n
      BY <1>1 DEF Metas
    <2> QED
      BY <1>1, <2>1, <2>2 DEF LastIs
  <1> QED
    BY <1>2, <1>3, <1>4, <1>5, <1>6 DEF a

(* The same without the oldest.                                            *)
LEMMA TailKinds ==
  ASSUME NEW S, NEW q \in Seq(S), q # <<>>
  PROVE  LET a == Tail(q)
             e == Head(q)
         IN  /\ OneToken(q) => OneToken(a)
             /\ Tokens(q) = {} => Tokens(a) = {}
             /\ e.kind \in Token => Tokens(q) # {} /\ (OneToken(q) => Tokens(a) = {})
             /\ e.kind # "metadata" => (Metas(a) = {} <=> Metas(q) = {})
             /\ e.kind = "metadata" => Metas(q) # {}
             /\ \A f : LastIs(q, f) /\ Metas(a) # {} => LastIs(a, f)
             /\ \A f : LastIs(q, f) /\ Metas(a) = {} /\ e.kind = "metadata" => e.file = f
  <1> DEFINE a == Tail(q)
             e == Head(q)
  <1>1. /\ e = q[1] /\ 1 \in DOMAIN q
        /\ \A i \in DOMAIN a : i \in Nat /\ i + 1 \in DOMAIN q /\ a[i] = q[i + 1]
        /\ \A i \in DOMAIN q : i \in Nat
        /\ \A i \in DOMAIN q : i # 1 => i > 1 /\ i - 1 \in DOMAIN a /\ a[i - 1] = q[i]
    BY TailFacts
  <1> HIDE DEF a, e
  <1>0. \A i \in DOMAIN a : i > 0
    BY DEF a
  <1>2. \A i \in Tokens(a) : i + 1 \in Tokens(q) /\ i \in Nat /\ i + 1 # 1
    BY <1>0, <1>1 DEF Tokens
  <1>3. OneToken(q) => OneToken(a)
    BY <1>2 DEF OneToken
  <1>4. Tokens(q) = {} => Tokens(a) = {}
    BY <1>2
  <1>5. e.kind \in Token => 1 \in Tokens(q)
    BY <1>1 DEF Tokens, Token
  <1>6. e.kind \in Token => Tokens(q) # {} /\ (OneToken(q) => Tokens(a) = {})
    BY <1>2, <1>5 DEF OneToken
  <1>7. /\ \A i \in Metas(a) : i + 1 \in Metas(q) /\ i \in Nat
        /\ \A i \in Metas(q) : i \in Nat
        /\ \A i \in Metas(q) : i # 1 => i > 1 /\ i - 1 \in Metas(a) /\ a[i - 1] = q[i]
    BY <1>1 DEF Metas
  <1>8. e.kind # "metadata" => 1 \notin Metas(q)
    BY <1>1 DEF Metas
  <1>9. e.kind # "metadata" => (Metas(a) = {} <=> Metas(q) = {})
    BY <1>7, <1>8
  <1>10. e.kind = "metadata" => Metas(q) # {}
    BY <1>1 DEF Metas
  <1>11. ASSUME NEW f, LastIs(q, f), Metas(a) # {}
         PROVE  LastIs(a, f)
    <2>1. PICK i \in Metas(q) : q[i].file = f /\ \A j \in Metas(q) : j <= i
      BY <1>11 DEF LastIs
    <2>2. PICK k : k \in Metas(a)
      BY <1>11
    <2>3. i > 1
      <3>1. k + 1 <= i /\ k > 0 /\ k \in Nat /\ i \in Nat
        BY <1>0, <1>7, <2>1, <2>2 DEF Metas
      <3> QED
        BY <3>1
    <2>4. i - 1 \in Metas(a) /\ a[i - 1].file = f
      BY <1>7, <2>1, <2>3
    <2>5. ASSUME NEW j \in Metas(a)
          PROVE  j <= i - 1
      <3>1. j + 1 <= i /\ j \in Nat /\ i \in Nat
        BY <1>7, <2>1
      <3> QED
        BY <3>1
    <2> QED
      BY <2>4, <2>5 DEF LastIs
  <1>12. ASSUME NEW f, LastIs(q, f), Metas(a) = {}, e.kind = "metadata"
         PROVE  e.file = f
    <2>1. PICK i \in Metas(q) : q[i].file = f
      BY <1>12 DEF LastIs
    <2>2. i = 1
      BY <1>7, <1>12, <2>1
    <2> QED
      BY <1>1, <2>1, <2>2
  <1> QED
    BY <1>3, <1>4, <1>6, <1>9, <1>10, <1>11, <1>12 DEF a, e

(* Leads only weakens when the subscription ends,                          *)
LEMMA LeadsWeakens ==
  ASSUME NEW M, NEW q, NEW s, NEW sub, NEW r, NEW sub2, NEW r2, Leads(M, q, s, sub, r),
         sub2 => sub /\ r2 = r
  PROVE  Leads(M, q, s, sub2, r2)
  BY DEF Leads

(* ... and when another print goes by.                                     *)
LEMMA MissedWeakens ==
  ASSUME NEW M, NEW N, M \subseteq N, NEW q, NEW s, NEW sub, NEW r, Leads(M, q, s, sub, r)
  PROVE  Leads(N, q, s, sub, r) /\ \A x, y : Later(M, x, y) => Later(N, x, y)
  <1>1. \A x, y : Later(M, x, y) => Later(N, x, y)
    BY DEF Later
  <1>2. \A x, e, y : Leap(M, x, e, y) => Leap(N, x, e, y)
    BY <1>1 DEF Leap
  <1>3. PICK h : Path(M, h, q, s) /\ (sub => h[Len(q) + 1] = r)
    BY DEF Leads
  <1>4. Path(N, h, q, s)
    BY <1>2, <1>3 DEF Path
  <1> QED
    BY <1>1, <1>3, <1>4 DEF Leads

(* What there is to tell.                                                  *)
LEMMA EventFacts ==
  /\ \A k \in {"connected", "gone"} :
       /\ Bare(k) \in Events /\ Bare(k).kind = k /\ Bare(k).kind # "metadata"
  /\ \A t \in Stats \cup {Null} :
       LET e == Ev("subscribe", t, None)
       IN  e \in Events /\ e.kind = "subscribe" /\ e.found = t
  /\ \A r, t \in Stats :
       LET e == Ev("status", Diff(r, t), None)
       IN  e \in Events /\ e.kind = "status" /\ e.found = Diff(r, t)
  /\ \A f \in Files :
       LET e == Ev("metadata", Null, f)
       IN  e \in Events /\ e.kind = "metadata" /\ e.file = f
  <1>1. ASSUME NEW k \in {"connected", "gone", "subscribe", "status"}, NEW t \in Finds
        PROVE  /\ Ev(k, t, None) \in Events /\ Ev(k, t, None).kind = k
               /\ Ev(k, t, None).found = t /\ k # "metadata"
    BY DEF Ev, Events
  <1>2. Null \in Finds /\ Stats \subseteq Finds
    BY DEF Finds
  <1>3. ASSUME NEW k \in {"connected", "gone"}
        PROVE  Bare(k) \in Events /\ Bare(k).kind = k /\ Bare(k).kind # "metadata"
    BY <1>1, <1>2 DEF Bare
  <1>4. ASSUME NEW t \in Stats \cup {Null}
        PROVE  /\ Ev("subscribe", t, None) \in Events /\ Ev("subscribe", t, None).kind = "subscribe"
               /\ Ev("subscribe", t, None).found = t
    BY <1>1, <1>2
  <1>5. ASSUME NEW r \in Stats, NEW t \in Stats
        PROVE  /\ Ev("status", Diff(r, t), None) \in Events
               /\ Ev("status", Diff(r, t), None).kind = "status"
               /\ Ev("status", Diff(r, t), None).found = Diff(r, t)
    <2>1. Diff(r, t) \in Finds
      BY DEF Finds
    <2> HIDE DEF Diff
    <2> QED
      BY <1>1, <2>1
  <1>6. ASSUME NEW f \in Files
        PROVE  /\ Ev("metadata", Null, f) \in Events /\ Ev("metadata", Null, f).kind = "metadata"
               /\ Ev("metadata", Null, f).file = f
    <2> DEFINE nil == Null
    <2>1. nil = Null
      OBVIOUS
    <2> HIDE DEF nil
    <2>2. [kind |-> "metadata", found |-> nil, file |-> f] \in
            [kind : {"metadata"}, found : {Null}, file : Files]
      BY <2>1
    <2> QED
      BY <2>1, <2>2 DEF Ev, Events
  <1> QED
    BY <1>3, <1>4, <1>5, <1>6


-----------------------------------------------------------------------------
(* Moonraker and Klipper keep the invariant.                               *)

(* A round or a press is counted.                                          *)
LEMMA RoundFacts ==
  ASSUME NEW u \in Counts
  PROVE  /\ LET v == [u EXCEPT !.rounds = u.rounds + 1]
            IN  v \in Counts /\ v.rounds = u.rounds + 1 /\ v.presses = u.presses
         /\ LET v == [u EXCEPT !.presses = u.presses + 1]
            IN  v \in Counts /\ v.rounds = u.rounds /\ v.presses = u.presses + 1
         /\ LET v == [u EXCEPT !.prints = u.prints + 1]
            IN  v \in Counts /\ v.rounds = u.rounds /\ v.presses = u.presses
  <1> DEFINE n == u.rounds + 1
             k == u.presses + 1
             m == u.prints + 1
  <1>1. n \in Nat /\ k \in Nat /\ m \in Nat
    BY DEF Counts
  <1> HIDE DEF n, k, m
  <1>2. LET v == [u EXCEPT !.rounds = n]
        IN  v \in Counts /\ v.rounds = n /\ v.presses = u.presses
    BY <1>1 DEF Counts
  <1>3. LET v == [u EXCEPT !.presses = k]
        IN  v \in Counts /\ v.rounds = u.rounds /\ v.presses = k
    BY <1>1 DEF Counts
  <1>4. LET v == [u EXCEPT !.prints = m]
        IN  v \in Counts /\ v.rounds = u.rounds /\ v.presses = u.presses
    BY <1>1 DEF Counts
  <1> QED
    BY <1>2, <1>3, <1>4 DEF n, k, m

(* The socket opens.                                                       *)
LEMMA OpenKeeps ==
  ASSUME IInv, Open
  PROVE  IInv'
  <1> USE DEF IInv
  <1> DEFINE e == Bare("connected")
  <1>1. e \in Events /\ e.kind = "connected" /\ e.kind # "metadata"
    BY EventFacts
  <1>2. /\ inbox' = Append(inbox, e) /\ inbox \in Seq(Events) /\ ~link.up /\ ~link.sub /\ srv = <<>>
        /\ UNCHANGED <<printer, reported, srv, state, covered, panel, missed>>
        /\ used.rounds \in Nat
        /\ used' = [used EXCEPT !.rounds = used.rounds + 1]
        /\ link' = [link EXCEPT !.up = TRUE] /\ link \in Links /\ used \in Counts
    BY DEF Open, Round, Typed, Linked, Counts
  <1>3. /\ used' \in Counts /\ used'.rounds = used.rounds + 1 /\ used'.presses = used.presses
        /\ link' \in Links /\ link'.sub = link.sub /\ link'.up /\ link'.klippy = link.klippy
    <2>1. link' \in Links /\ link'.sub = link.sub /\ link'.up /\ link'.klippy = link.klippy
      BY <1>2 DEF Links
    <2> QED
      BY <1>2, <2>1, RoundFacts
  <1> HIDE DEF e
  <1>4. inbox' \in Seq(Events)
    BY <1>1, <1>2, AppendFacts
  <1>5. Typed'
    BY <1>2, <1>3, <1>4 DEF Typed
  <1>6. Linked'
    BY <1>2, <1>3 DEF Linked
  <1>7. Leads(missed', inbox', state', link'.sub, reported')
    <2>1. \A x \in Stats \cup {Null} : Leap(missed, x, e, Null)
      BY <1>1 DEF Leap
    <2> DEFINE sub == link.sub
               nil == Null
    <2>2. \A x \in Stats \cup {Null} : Leap(missed, x, e, nil) /\ nil \in Stats \cup {Null}
      BY <2>1
    <2>3. ~sub /\ Leads(missed, inbox, state, sub, reported)
      BY <1>2
    <2> HIDE DEF sub, nil
    <2>4. \A x \in Stats \cup {Null} : (sub => x = reported) =>
             \E y \in Stats \cup {Null} : Leap(missed, x, e, y) /\ (sub => y = reported)
      BY <2>2, <2>3
    <2>5. Leads(missed, Append(inbox, e), state, sub, reported)
      BY <1>1, <1>2, <2>3, <2>4, LeadsAppend
    <2> QED
      BY <1>2, <1>3, <2>5 DEF sub
  <1>8. Shows(missed', panel', state')
    BY <1>2
  <1>9. ASSUME used'.rounds <= 1
        PROVE  used.rounds = 0 /\ state = Null /\ inbox = <<>>
    <2>1. used.rounds = 0
      BY <1>2, <1>3, <1>9
    <2> QED
      BY <2>1 DEF First
  <1>10. First'
    <2> SUFFICES ASSUME used'.rounds <= 1 PROVE First'
      BY DEF First
    <2>1. Tokens(inbox) = {} /\ Tokens(srv) = {}
      BY <1>2, <1>9, EmptyFacts
    <2>2. OneToken(inbox')
      BY <1>1, <1>2, <2>1, AppendKinds
    <2>3. panel.filename = None /\ (used.presses = 0 => panel.disabled = {})
      BY <1>9 DEF First
    <2> QED
      BY <1>2, <1>3, <1>9, <2>1, <2>2, <2>3 DEF First, OneToken
  <1>11. Enabled' /\ Details'
    BY <1>2, <1>9 DEF Enabled, Details
  <1> QED
    BY <1>5, <1>6, <1>7, <1>8, <1>10, <1>11

(* An event that brings State no status, or only a change of it.           *)
LEMMA EventKeeps ==
  ASSUME IInv, NEW e \in Events, e.kind \in {"gone", "status"}, inbox' = Append(inbox, e),
         UNCHANGED <<srv, state, panel, used, missed>>, link.up, link'.up = link.up
  PROVE  inbox' \in Seq(Events) /\ First' /\ Enabled' /\ Details'
  <1> USE DEF IInv
  <1>1. inbox \in Seq(Events)
    BY DEF Typed
  <1>2. e.kind \notin Token /\ e.kind # "metadata"
    BY DEF Token
  <1>3. /\ inbox' \in Seq(Events) /\ Tokens(inbox') = Tokens(inbox) /\ Metas(inbox') = Metas(inbox)
        /\ \A f : LastIs(inbox, f) => LastIs(inbox', f)
    BY <1>1, <1>2, AppendFacts, AppendKinds
  <1>4. First'
    BY <1>3 DEF First
  <1>5. Enabled'
    BY DEF Enabled
  <1>6. Details'
    BY <1>3 DEF Details, Due
  <1> QED
    BY <1>3, <1>4, <1>5, <1>6

(* The socket closes.                                                      *)
LEMMA CloseKeeps ==
  ASSUME IInv, Close
  PROVE  IInv'
  <1> USE DEF IInv
  <1> DEFINE e == Bare("gone")
  <1>1. e \in Events /\ e.kind = "gone" /\ e.kind # "metadata" /\ e.kind \notin Token
    BY EventFacts DEF Token
  <1>2. /\ inbox' = Append(inbox, e) /\ inbox \in Seq(Events) /\ link.up
        /\ reported' = Idle /\ srv' = <<>>
        /\ UNCHANGED <<printer, state, covered, panel, used, missed>>
        /\ link' = [link EXCEPT !.up = FALSE, !.sub = FALSE] /\ link \in Links
    BY DEF Close, Typed
  <1>3. link' \in Links /\ ~link'.sub /\ ~link'.up
    BY <1>2 DEF Links
  <1> HIDE DEF e
  <1>4. inbox' \in Seq(Events) /\ Tokens(inbox') = Tokens(inbox)
    BY <1>1, <1>2, AppendFacts, AppendKinds
  <1>5. Typed'
    BY <1>2, <1>3, <1>4, IdleFacts DEF Typed
  <1>6. Linked'
    BY <1>2, <1>3 DEF Linked
  <1>7. Leads(missed', inbox', state', link'.sub, reported')
    <2>1. \A x \in Stats \cup {Null} : Leap(missed, x, e, x)
      BY <1>1 DEF Leap
    <2> DEFINE sub == link.sub
               sub2 == link'.sub
    <2>2. ~sub2 /\ Leads(missed, inbox, state, sub, reported)
      BY <1>3
    <2> HIDE DEF sub, sub2
    <2>3. \A x \in Stats \cup {Null} : (sub => x = reported) =>
             \E y \in Stats \cup {Null} : Leap(missed, x, e, y) /\ (sub2 => y = reported')
      BY <2>1, <2>2
    <2>4. Leads(missed, Append(inbox, e), state, sub2, reported')
      BY <1>1, <1>2, <2>2, <2>3, LeadsAppend
    <2> QED
      BY <1>2, <2>4 DEF sub2
  <1>8. Shows(missed', panel', state')
    BY <1>2
  <1>9. First'
    BY <1>2, <1>4, EmptyFacts DEF First
  <1>10. Enabled' /\ Details'
    BY <1>2, <1>3 DEF Enabled, Details
  <1> QED
    BY <1>5, <1>6, <1>7, <1>8, <1>9, <1>10

(* Klipper goes.                                                           *)
LEMMA KlippyGoneKeeps ==
  ASSUME IInv, KlippyGone
  PROVE  IInv'
  <1> USE DEF IInv
  <1> DEFINE e == Bare("gone")
  <1>1. e \in Events /\ e.kind = "gone" /\ e.kind \in {"gone", "status"}
    BY EventFacts
  <1>2. /\ inbox \in Seq(Events) /\ printer' = Idle /\ reported' = Idle
        /\ UNCHANGED <<srv, state, covered, panel, used, missed>>
        /\ link' = [link EXCEPT !.klippy = FALSE, !.sub = FALSE] /\ link \in Links
        /\ inbox' = IF link.up THEN inbox \o <<e>> ELSE inbox
    BY DEF KlippyGone, Typed, Tell
  <1>3. link' \in Links /\ ~link'.sub /\ link'.up = link.up
    BY <1>2 DEF Links
  <1> HIDE DEF e
  <1>4. inbox' = IF link.up THEN Append(inbox, e) ELSE inbox
    BY <1>1, <1>2, CatFacts
  <1>5. inbox' \in Seq(Events) /\ First' /\ Enabled' /\ Details'
    <2>1. CASE link.up
      BY <1>1, <1>2, <1>3, <1>4, <2>1, EventKeeps
    <2>2. CASE ~link.up
      BY <1>2, <1>3, <1>4, <2>2 DEF First, Enabled, Details
    <2> QED
      BY <2>1, <2>2
  <1>6. Typed'
    BY <1>2, <1>3, <1>5, IdleFacts DEF Typed
  <1>7. Linked'
    BY <1>2, <1>3 DEF Linked
  <1>8. Leads(missed', inbox', state', link'.sub, reported')
    <2>1. \A x \in Stats \cup {Null} : Leap(missed, x, e, x)
      BY <1>1 DEF Leap
    <2> DEFINE sub == link.sub
               sub2 == link'.sub
    <2>2. ~sub2 /\ Leads(missed, inbox, state, sub, reported)
      BY <1>3
    <2> HIDE DEF sub, sub2
    <2>3. \A x \in Stats \cup {Null} : (sub => x = reported) =>
             \E y \in Stats \cup {Null} : Leap(missed, x, e, y) /\ (sub2 => y = reported')
      BY <2>1, <2>2
    <2>4. Leads(missed, Append(inbox, e), state, sub2, reported')
      BY <1>1, <1>2, <2>2, <2>3, LeadsAppend
    <2>5. Leads(missed, inbox, state, sub2, reported')
      BY <2>2, LeadsWeakens
    <2> QED
      BY <1>2, <1>4, <2>4, <2>5 DEF sub2
  <1>9. Shows(missed', panel', state')
    BY <1>2
  <1> QED
    BY <1>5, <1>6, <1>7, <1>8, <1>9

(* Klipper is ready again.                                                 *)
LEMMA KlippyReadyKeeps ==
  ASSUME IInv, KlippyReady
  PROVE  IInv'
  <1> USE DEF IInv
  <1> DEFINE e == Bare("connected")
  <1>1. e \in Events /\ e.kind = "connected"
    BY EventFacts
  <1>2. /\ inbox \in Seq(Events) /\ ~link.klippy /\ ~link.sub
        /\ UNCHANGED <<printer, reported, srv, state, covered, panel, missed>>
        /\ used.rounds \in Nat
        /\ used' = [used EXCEPT !.rounds = used.rounds + 1]
        /\ link' = [link EXCEPT !.klippy = TRUE] /\ link \in Links /\ used \in Counts
        /\ inbox' = IF link.up THEN inbox \o <<e>> ELSE inbox
    BY DEF KlippyReady, Round, Typed, Linked, Counts, Tell
  <1>3. /\ used' \in Counts /\ used'.rounds = used.rounds + 1 /\ used'.presses = used.presses
        /\ link' \in Links /\ link'.sub = link.sub /\ link'.up = link.up
    <2>1. link' \in Links /\ link'.sub = link.sub /\ link'.up = link.up
      BY <1>2 DEF Links
    <2> QED
      BY <1>2, <2>1, RoundFacts
  <1> HIDE DEF e
  <1>4. inbox' = IF link.up THEN Append(inbox, e) ELSE inbox
    BY <1>1, <1>2, CatFacts
  <1>5. Typed'
    BY <1>1, <1>2, <1>3, <1>4, AppendFacts DEF Typed
  <1>6. Linked'
    BY <1>2, <1>3 DEF Linked
  <1>7. Leads(missed', inbox', state', link'.sub, reported')
    <2>1. \A x \in Stats \cup {Null} : Leap(missed, x, e, Null)
      BY <1>1 DEF Leap
    <2> DEFINE sub == link.sub
               nil == Null
    <2>2. \A x \in Stats \cup {Null} : Leap(missed, x, e, nil) /\ nil \in Stats \cup {Null}
      BY <2>1
    <2>3. ~sub /\ Leads(missed, inbox, state, sub, reported)
      BY <1>2
    <2> HIDE DEF sub, nil
    <2>4. \A x \in Stats \cup {Null} : (sub => x = reported) =>
             \E y \in Stats \cup {Null} : Leap(missed, x, e, y) /\ (sub => y = reported)
      BY <2>2, <2>3
    <2>5. Leads(missed, Append(inbox, e), state, sub, reported)
      BY <1>1, <1>2, <2>3, <2>4, LeadsAppend
    <2> QED
      BY <1>2, <1>3, <1>4, <2>3, <2>5 DEF sub
  <1>8. Shows(missed', panel', state')
    BY <1>2
  <1>9. ASSUME used'.rounds <= 1
        PROVE  /\ used.rounds = 0 /\ state = Null /\ inbox' = <<>> /\ srv = <<>>
               /\ panel.filename = None /\ (used.presses = 0 => panel.disabled = {})
    <2>1. used.rounds = 0
      BY <1>2, <1>3, <1>9
    <2> QED
      BY <1>4, <2>1 DEF First, Linked
  <1>10. First'
    BY <1>2, <1>3, <1>9, EmptyFacts DEF First
  <1>11. Enabled' /\ Details'
    BY <1>2, <1>9 DEF Enabled, Details
  <1> QED
    BY <1>5, <1>6, <1>7, <1>8, <1>10, <1>11


(* What Klipper prints changes, as far as a report period allows.          *)
LEMMA PrinterKeeps ==
  ASSUME IInv, printer' \in Stats, link.sub => Later(missed', reported, printer'),
         UNCHANGED <<link, reported, srv, inbox, state, covered, panel>>,
         missed \subseteq missed', missed' \subseteq Files,
         used' \in Counts, used'.rounds = used.rounds, used'.presses = used.presses
  PROVE  IInv'
  <1>1. Typed'
    BY DEF IInv, Typed
  <1>2. Linked'
    BY DEF IInv, Linked
  <1>3. Leads(missed', inbox', state', link'.sub, reported')
    <2> DEFINE M == missed'
               sub == link.sub
    <2>1. Leads(missed, inbox, state, sub, reported) /\ missed \subseteq M
      BY DEF IInv
    <2> HIDE DEF M, sub
    <2>2. Leads(M, inbox, state, sub, reported)
      BY <2>1, MissedWeakens
    <2> QED
      BY <2>2 DEF M, sub
  <1>5. Shows(missed', panel', state')
    BY DEF IInv, Shows
  <1>4. First' /\ Enabled' /\ Details'
    BY DEF IInv, First, Enabled, Details
  <1> QED
    BY <1>1, <1>2, <1>3, <1>4, <1>5 DEF IInv

(* A print starts.                                                         *)
LEMMA StartKeeps ==
  ASSUME IInv, NEW f \in Files, PrintStarts(f)
  PROVE  IInv'
  <1>1. printer \in Stats /\ used \in Counts
    BY DEF IInv, Typed
  <1>2. /\ printer' = Starting(f) /\ Starting(f) # printer
        /\ used' = [used EXCEPT !.prints = used.prints + 1]
        /\ UNCHANGED <<link, reported, srv, inbox, state, covered, panel, missed>>
    BY DEF PrintStarts
  <1>3. printer' \in Stats /\ printer'.state \in On /\ printer'.progress = 0
    BY <1>1, <1>2, StartFacts
  <1>4. Later(missed', reported, printer') /\ missed \subseteq missed' /\ missed' \subseteq Files
    BY <1>2, <1>3 DEF Later, IInv, Typed
  <1>5. used' \in Counts /\ used'.rounds = used.rounds /\ used'.presses = used.presses
    BY <1>1, <1>2, RoundFacts
  <1> QED
    BY <1>2, <1>3, <1>4, <1>5, PrinterKeeps

(* A print goes on, or ends; if it was not reported to be on it may have   *)
(* gone by.                                                                *)
LEMMA ProceedKeeps ==
  ASSUME IInv, Proceed \/ End
  PROVE  IInv'
  <1>1. printer \in Stats /\ used \in Counts /\ missed \subseteq Files
    BY DEF IInv, Typed
  <1>2. /\ printer' # printer /\ Noted
        /\ printer' \in {Pausing, Resuming, Reading, Clearing} \cup (Completing \cup Abandoning)
        /\ UNCHANGED <<link, reported, srv, inbox, state, covered, panel, used>>
    BY DEF Proceed, End
  <1>3. /\ printer' \in Stats
        /\ printer.state \notin On => printer' \in {printer, Idle}
        /\ printer.state \in On => printer'.filename \in {printer.filename, None}
    BY <1>1, <1>2, ProceedFacts, EndFacts
  <1>5. missed \subseteq missed' /\ missed' \subseteq Files
    <2>1. printer.state \in On => printer.filename \in Files
      BY <1>1, StatFacts DEF Sound
    <2> QED
      BY <1>1, <1>2, <2>1 DEF Noted
  <1>4. ASSUME link.sub
        PROVE  Later(missed', reported, printer')
    <2>1. Later(missed, reported, printer)
      BY <1>4 DEF IInv, Linked
    <2>2. CASE printer.state \in On /\ reported.state \notin On
      <3>1. CASE printer'.state \notin On \/ printer'.progress + 1 >= Full
        <4>1. printer.filename \in missed'
          BY <1>2, <1>4, <2>2, <3>1 DEF Noted
        <4> QED
          BY <1>3, <2>2, <4>1 DEF Later
      <3>2. CASE printer'.state \in On /\ ~(printer'.progress + 1 >= Full)
        <4>1. printer'.progress \in Nat
          BY <1>3, StatRecord
        <4> QED
          BY <3>2, <4>1 DEF Later
      <3> QED
        BY <3>1, <3>2
    <2>3. CASE printer.state \notin On
      BY <1>3, <1>5, <2>1, <2>3 DEF Later, Idle
    <2>4. CASE reported.state \in On
      BY <2>4 DEF Later
    <2> QED
      BY <2>2, <2>3, <2>4
  <1> QED
    BY <1>1, <1>2, <1>3, <1>4, <1>5, PrinterKeeps

(* A report is made: a difference from the last one.                       *)
LEMMA ReportKeeps ==
  ASSUME IInv, Report
  PROVE  IInv'
  <1> USE DEF IInv
  <1> DEFINE e == Ev("status", Diff(reported, printer), None)
  <1>0. printer \in Stats /\ reported \in Stats /\ inbox \in Seq(Events)
    BY DEF Typed
  <1>1. /\ e \in Events /\ e.kind = "status" /\ e.found = Diff(reported, printer)
    BY <1>0, EventFacts
  <1>2. /\ reported' = printer /\ link.up /\ link.sub
        /\ UNCHANGED <<link, printer, srv, state, covered, panel, used, missed>>
        /\ inbox' = inbox \o <<e>>
    BY DEF Report, Tell, Diff
  <1>3. Later(missed, reported, printer)
    BY <1>2 DEF Linked
  <1> HIDE DEF e
  <1>4. inbox' = Append(inbox, e)
    BY <1>0, <1>1, <1>2, CatFacts
  <1>5. inbox' \in Seq(Events) /\ First' /\ Enabled' /\ Details'
    BY <1>1, <1>2, <1>4, EventKeeps
  <1>6. Typed'
    BY <1>0, <1>2, <1>5 DEF Typed
  <1>7. Linked'
    BY <1>2 DEF Linked, Later
  <1>8. Leads(missed', inbox', state', link'.sub, reported')
    <2>1. Leap(missed, reported, e, printer)
      BY <1>0, <1>1, <1>3 DEF Leap
    <2>2. Leads(missed, inbox, state, TRUE, reported)
      BY <1>2, LeadsWeakens
    <2> DEFINE q == Append(inbox, e)
    <2>3. Leads(missed, q, state, TRUE, printer)
      BY <1>0, <1>1, <2>1, <2>2, LeadsReport
    <2> HIDE DEF q
    <2>4. Leads(missed, q, state, link.sub, printer)
      BY <2>3, LeadsWeakens
    <2> QED
      BY <1>2, <1>4, <2>4 DEF q
  <1>9. Shows(missed', panel', state')
    BY <1>2
  <1> QED
    BY <1>5, <1>6, <1>7, <1>8, <1>9

(* The subscription is answered: the whole status, or an error.            *)
LEMMA ServeSubscribeKeeps ==
  ASSUME IInv, ServeSubscribe
  PROVE  IInv'
  <1> USE DEF IInv
  <1> DEFINE t == IF link.klippy THEN printer ELSE Null
             e == Ev("subscribe", t, None)
  <1>0. /\ printer \in Stats /\ inbox \in Seq(Events) /\ srv \in Seq(Requests)
        /\ link \in Links
    BY DEF Typed
  <1>1. t \in Stats \cup {Null} /\ t = IF link.klippy THEN printer ELSE Null
    BY <1>0
  <1>2. /\ srv # <<>> /\ Head(srv).kind = "subscribe" /\ srv' = Tail(srv)
        /\ inbox' = IF link.up THEN inbox \o <<e>> ELSE inbox
        /\ link' = [link EXCEPT !.sub = link.klippy] /\ reported' = printer
        /\ UNCHANGED <<printer, state, covered, panel, used, missed>>
    BY DEF ServeSubscribe, Tell
  <1> HIDE DEF t
  <1>3. e \in Events /\ e.kind = "subscribe" /\ e.found = t
    BY <1>1, EventFacts
  <1>4. link.up
    BY <1>2 DEF Linked
  <1>5. /\ link' \in Links /\ link'.sub = link.klippy /\ link'.klippy = link.klippy
        /\ link'.up = link.up
    BY <1>0, <1>2 DEF Links
  <1> HIDE DEF e
  <1>6. inbox' = Append(inbox, e)
    BY <1>0, <1>2, <1>3, <1>4, CatFacts
  <1>7. Typed'
    BY <1>0, <1>2, <1>3, <1>5, <1>6, AppendFacts, TailFacts DEF Typed
  <1>8. Linked'
    BY <1>2, <1>4, <1>5 DEF Linked, Later
  <1>9. Leads(missed', inbox', state', link'.sub, reported')
    <2> DEFINE sub == link.sub
               sub2 == link'.sub
    <2>1. Leads(missed, inbox, state, sub, reported)
      OBVIOUS
    <2>2. ASSUME NEW x \in Stats \cup {Null}
          PROVE  \E y \in Stats \cup {Null} : Leap(missed, x, e, y) /\ (sub2 => y = printer)
      <3>1. CASE link.klippy
        BY <1>0, <1>1, <1>3, <1>5, <3>1 DEF Leap
      <3>2. CASE ~link.klippy
        BY <1>0, <1>1, <1>3, <1>5, <3>2 DEF Leap
      <3> QED
        BY <3>1, <3>2
    <2> HIDE DEF sub, sub2
    <2>3. Leads(missed, Append(inbox, e), state, sub2, printer)
      BY <1>0, <1>3, <2>1, <2>2, LeadsAppend
    <2> QED
      BY <1>2, <1>6, <2>3 DEF sub2
  <1>10. Shows(missed', panel', state')
    BY <1>2
  <1>11. ASSUME used.rounds <= 1
         PROVE  /\ state = Null /\ Tokens(inbox) = {} /\ Tokens(srv') = {}
                /\ OneToken(inbox')
    <2>1. Head(srv).kind \in Token /\ OneToken(srv)
      BY <1>2, <1>11 DEF Token, First, OneToken
    <2>2. Tokens(srv) # {} /\ Tokens(srv') = {}
      BY <1>0, <1>2, <2>1, TailKinds
    <2>3. state = Null /\ Tokens(inbox) = {}
      BY <1>11, <2>2 DEF First
    <2> QED
      BY <1>0, <1>3, <1>6, <2>2, <2>3, AppendKinds
  <1>12. First'
    <2>1. used.rounds # 0
      BY <1>4 DEF First
    <2> QED
      BY <1>2, <1>11, <2>1 DEF First, OneToken
  <1>13. Enabled' /\ Details'
    BY <1>2, <1>11 DEF Enabled, Details
  <1> QED
    BY <1>7, <1>8, <1>9, <1>10, <1>12, <1>13

(* A request for metadata is answered.                                     *)
LEMMA ServeMetadataKeeps ==
  ASSUME IInv, ServeMetadata
  PROVE  IInv'
  <1> USE DEF IInv
  <1> DEFINE g == Head(srv).file
             e == Ev("metadata", Null, g)
  <1>0. /\ inbox \in Seq(Events) /\ srv \in Seq(Requests) /\ link \in Links
    BY DEF Typed
  <1>1. /\ srv # <<>> /\ Head(srv).kind = "metadata" /\ srv' = Tail(srv)
        /\ inbox' = IF link.up THEN inbox \o <<e>> ELSE inbox
        /\ UNCHANGED <<link, printer, reported, state, covered, panel, used, missed>>
    BY DEF ServeMetadata, Tell, ext
  <1>2. g \in Files
    <2>1. Head(srv) \in Requests
      BY <1>0, <1>1, TailFacts
    <2> QED
      BY <1>1, <2>1 DEF Requests
  <1> HIDE DEF g
  <1>3. e \in Events /\ e.kind = "metadata" /\ e.file = g
    BY <1>2, EventFacts
  <1>4. link.up
    BY <1>1 DEF Linked
  <1> HIDE DEF e
  <1>5. inbox' = Append(inbox, e)
    BY <1>0, <1>1, <1>3, <1>4, CatFacts
  <1>6. Typed'
    BY <1>0, <1>1, <1>3, <1>5, AppendFacts, TailFacts DEF Typed
  <1>7. Linked'
    BY <1>1, <1>4 DEF Linked
  <1>8. Leads(missed', inbox', state', link'.sub, reported')
    <2>1. \A x \in Stats \cup {Null} : Leap(missed, x, e, x)
      BY <1>3 DEF Leap
    <2> DEFINE sub == link.sub
               old == reported
    <2>2. Leads(missed, inbox, state, sub, old)
      OBVIOUS
    <2> HIDE DEF sub, old
    <2>3. \A x \in Stats \cup {Null} : (sub => x = old) =>
             \E y \in Stats \cup {Null} : Leap(missed, x, e, y) /\ (sub => y = old)
      BY <2>1
    <2>4. Leads(missed, Append(inbox, e), state, sub, old)
      BY <1>0, <1>3, <2>2, <2>3, LeadsAppend
    <2> QED
      BY <1>1, <1>5, <2>4 DEF sub, old
  <1>9. Shows(missed', panel', state')
    BY <1>1
  <1>10. /\ Tokens(inbox') = Tokens(inbox)
         /\ OneToken(srv) => OneToken(srv')
         /\ Tokens(srv) = {} => Tokens(srv') = {}
         /\ Metas(inbox') # {} /\ LastIs(inbox', g) /\ Metas(srv) # {}
         /\ \A f : LastIs(srv, f) /\ Metas(srv') # {} => LastIs(srv', f)
         /\ \A f : LastIs(srv, f) /\ Metas(srv') = {} => g = f
    <2>1. e.kind \notin Token
      BY <1>3 DEF Token
    <2>2. Tokens(inbox') = Tokens(inbox) /\ Metas(inbox') # {} /\ LastIs(inbox', g)
      BY <1>0, <1>3, <1>5, <2>1, AppendKinds
    <2> QED
      BY <1>0, <1>1, <2>2, TailKinds DEF g
  <1>11. First'
    <2>1. used.rounds # 0
      BY <1>4 DEF First
    <2> QED
      BY <1>1, <1>10, <2>1 DEF First, OneToken
  <1>12. Enabled'
    BY <1>1 DEF Enabled
  <1>13. Details'
    <2> SUFFICES ASSUME used.rounds <= 1, state # Null, state.filename # None
                 PROVE  Due(srv', inbox', panel, state.filename)
      BY <1>1, <1>4 DEF Details
    <2>1. Due(srv, inbox, panel, state.filename)
      BY <1>4 DEF Details
    <2>2. LastIs(srv, state.filename)
      BY <1>10, <2>1 DEF Due
    <2> QED
      BY <1>10, <2>2 DEF Due
  <1> QED
    BY <1>6, <1>7, <1>8, <1>9, <1>11, <1>12, <1>13


-----------------------------------------------------------------------------
(* The LVGL thread and the user keep it.                                   *)

(* The oldest event takes State to a status from which the rest leads on.  *)
LEMMA HeardFacts ==
  ASSUME IInv, NEW kind, Heard(kind)
  PROVE  /\ inbox \in Seq(Events) /\ inbox # <<>> /\ inbox' = Tail(inbox)
         /\ Head(inbox).kind = kind /\ Head(inbox) \in Events /\ inbox' \in Seq(Events)
         /\ \E y \in Stats \cup {Null} :
              /\ Leap(missed, state, Head(inbox), y)
              /\ Leads(missed, inbox', y, link.sub, reported)
  <1>1. inbox \in Seq(Events) /\ Leads(missed, inbox, state, link.sub, reported)
    BY DEF IInv, Typed
  <1>2. inbox # <<>> /\ inbox' = Tail(inbox) /\ Head(inbox).kind = kind
    BY DEF Heard
  <1>3. Head(inbox) \in Events /\ inbox' \in Seq(Events)
    BY <1>1, <1>2, TailFacts
  <1>4. \E y \in Stats \cup {Null} : Leap(missed, state, Head(inbox), y) /\ Leads(missed, Tail(inbox), y, link.sub, reported)
    BY <1>1, <1>2, LeadsTail
  <1> QED
    BY <1>1, <1>2, <1>3, <1>4

(* A request goes out while the socket is open.                            *)
LEMMA SentFacts ==
  ASSUME srv \in Seq(Requests), NEW q \in Requests
  PROVE  /\ Sent(<<q>>) => srv' = IF link.up THEN Append(srv, q) ELSE srv
         /\ Sent(<<>>) => srv' = srv
         /\ Append(srv, q) \in Seq(Requests)
  BY CatFacts, AppendFacts DEF Sent

(* The requests there are.                                                 *)
LEMMA RequestFacts ==
  /\ Request("subscribe", None) \in Requests /\ Request("subscribe", None).kind = "subscribe"
  /\ \A f \in Files : /\ Request("metadata", f) \in Requests
                      /\ Request("metadata", f).kind = "metadata"
                      /\ Request("metadata", f).file = f
  BY DEF Request, Requests

(* What the thread leaves alone.                                           *)
LEMMA ThreadLinks ==
  ASSUME IInv, UNCHANGED <<link, printer, reported, missed>>, ~link.up => srv' = srv
  PROVE  Linked'
  BY DEF IInv, Linked

(* InitPanel starts a round.                                               *)
LEMMA ConnectedKeeps ==
  ASSUME IInv, connected
  PROVE  IInv'
  <1> USE DEF IInv
  <1> DEFINE q == Request("subscribe", None)
  <1>1. Heard("connected")
    BY DEF connected
  <1>2. /\ inbox \in Seq(Events) /\ inbox # <<>> /\ inbox' = Tail(inbox)
        /\ Head(inbox).kind = "connected" /\ inbox' \in Seq(Events)
    BY <1>1, HeardFacts
  <1>3. PICK y \in Stats \cup {Null} : /\ Leap(missed, state, Head(inbox), y)
                                       /\ Leads(missed, inbox', y, link.sub, reported)
    BY <1>1, HeardFacts
  <1>4. y = Null
    BY <1>2, <1>3 DEF Leap
  <1>5. q \in Requests /\ q.kind = "subscribe"
    BY RequestFacts
  <1>6. /\ state' = Null /\ Sent(<<q>>) /\ UNCHANGED <<link, printer, reported, covered, panel, used, missed>>
    BY DEF connected, ext
  <1> HIDE DEF q
  <1>7. srv \in Seq(Requests)
    BY DEF Typed
  <1>8. srv' = (IF link.up THEN Append(srv, q) ELSE srv) /\ srv' \in Seq(Requests)
    BY <1>5, <1>6, <1>7, SentFacts
  <1>9. Typed'
    BY <1>2, <1>6, <1>8 DEF Typed
  <1>10. Linked'
    BY <1>6, <1>8, ThreadLinks
  <1>11. Leads(missed', inbox', state', link'.sub, reported')
    BY <1>3, <1>4, <1>6
  <1>12. Shows(missed', panel', state')
    BY <1>6 DEF Shows
  <1>13. First'
    <2> SUFFICES ASSUME used.rounds <= 1 PROVE First'
      BY <1>6 DEF First
    <2>1. OneToken(inbox) /\ Head(inbox).kind \in Token
      BY <1>2 DEF First, OneToken, Token
    <2>2. Tokens(inbox) # {} /\ Tokens(inbox') = {}
      BY <1>2, <2>1, TailKinds
    <2>3. Tokens(srv) = {} /\ state = Null
      BY <2>2 DEF First
    <2>4. OneToken(srv')
      BY <1>5, <1>7, <1>8, <2>3, AppendKinds DEF OneToken
    <2>5. used.rounds # 0 /\ panel.filename = None /\ (used.presses = 0 => panel.disabled = {})
      BY <1>2, <2>3 DEF First
    <2> QED
      BY <1>6, <2>2, <2>4, <2>5 DEF First, OneToken
  <1>14. Enabled' /\ Details'
    BY <1>6 DEF Enabled, Details
  <1> QED
    BY <1>9, <1>10, <1>11, <1>12, <1>13, <1>14

(* The socket or Klipper is gone: the screen is covered.                   *)
LEMMA DisconnectedKeeps ==
  ASSUME IInv, disconnected
  PROVE  IInv'
  <1> USE DEF IInv
  <1>1. Heard("gone")
    BY DEF disconnected
  <1>2. /\ inbox \in Seq(Events) /\ inbox # <<>> /\ inbox' = Tail(inbox)
        /\ Head(inbox).kind = "gone" /\ inbox' \in Seq(Events)
    BY <1>1, HeardFacts
  <1>3. PICK y \in Stats \cup {Null} : /\ Leap(missed, state, Head(inbox), y)
                                       /\ Leads(missed, inbox', y, link.sub, reported)
    BY <1>1, HeardFacts
  <1>4. y = state
    BY <1>2, <1>3 DEF Leap
  <1>5. covered' \in BOOLEAN /\ UNCHANGED <<link, printer, reported, srv, state, panel, used, missed>>
    BY DEF disconnected, ext
  <1>6. Typed'
    BY <1>2, <1>5 DEF Typed
  <1>7. Linked'
    BY <1>5, ThreadLinks
  <1>8. Leads(missed', inbox', state', link'.sub, reported') /\ Shows(missed', panel', state')
    BY <1>3, <1>4, <1>5
  <1>9. /\ OneToken(inbox) => OneToken(inbox')
        /\ Tokens(inbox) = {} => Tokens(inbox') = {}
        /\ Metas(inbox') = {} <=> Metas(inbox) = {}
        /\ \A f : LastIs(inbox, f) /\ Metas(inbox') # {} => LastIs(inbox', f)
    BY <1>2, TailKinds
  <1>10. First'
    BY <1>2, <1>5, <1>9 DEF First, OneToken
  <1>11. Enabled'
    BY <1>5 DEF Enabled
  <1>12. Details'
    BY <1>5, <1>9 DEF Details, Due
  <1> QED
    BY <1>6, <1>7, <1>8, <1>10, <1>11, <1>12

(* What populate asks for.                                                 *)
LEMMA AsksFacts ==
  ASSUME NEW r \in Stats
  PROVE  /\ Asks(r) = IF r.filename # None THEN <<Request("metadata", r.filename)>> ELSE <<>>
         /\ r.filename # None => r.filename \in Files
         /\ Asks(Null) = <<>>
  <1>1. Known(r, "filename") /\ ~Known(Null, "filename")
    BY KnownFacts DEF Keys
  <1>2. r.filename \in Files \cup {None}
    BY StatFacts DEF Stat
  <1> QED
    BY <1>1, <1>2 DEF Asks, HasFile

(* The request of a file's metadata is sent: it is the last one.           *)
LEMMA AskedFacts ==
  ASSUME srv \in Seq(Requests), NEW f \in Files, Sent(<<Request("metadata", f)>>)
  PROVE  /\ srv' \in Seq(Requests) /\ Tokens(srv') = Tokens(srv)
         /\ ~link.up => srv' = srv
         /\ link.up => Metas(srv') # {} /\ LastIs(srv', f)
  <1> DEFINE q == Request("metadata", f)
  <1>1. q \in Requests /\ q.kind = "metadata" /\ q.file = f
    BY RequestFacts
  <1>2. Sent(<<q>>)
    OBVIOUS
  <1> HIDE DEF q
  <1>3. srv' = (IF link.up THEN Append(srv, q) ELSE srv) /\ srv' \in Seq(Requests)
    BY <1>1, <1>2, SentFacts
  <1>4. q.kind \notin Token
    BY <1>1 DEF Token
  <1> QED
    BY <1>1, <1>3, <1>4, AppendKinds

(* The reply to the subscription.                                          *)
LEMMA SubscribedKeeps ==
  ASSUME IInv, subscribed
  PROVE  IInv'
  <1> USE DEF IInv
  <1>1. Heard("subscribe")
    BY DEF subscribed
  <1>2. /\ inbox \in Seq(Events) /\ inbox # <<>> /\ inbox' = Tail(inbox)
        /\ Head(inbox).kind = "subscribe" /\ inbox' \in Seq(Events)
    BY <1>1, HeardFacts
  <1>3. PICK y \in Stats \cup {Null} : /\ Leap(missed, state, Head(inbox), y)
                                       /\ Leads(missed, inbox', y, link.sub, reported)
    BY <1>1, HeardFacts
  <1>4. \/ Head(inbox).found = Null /\ y = state
        \/ Head(inbox).found = y /\ y \in Stats
    BY <1>2, <1>3 DEF Leap
  <1>5. state \in Stats \cup {Null} /\ panel \in Panels /\ srv \in Seq(Requests)
    BY DEF Typed
  <1>6. Merge(state, Head(inbox).found) = y
    BY <1>4, <1>5, MergeFacts, IdleFacts
  <1>7. /\ state' = y /\ panel' = init(panel, y) /\ Sent(Asks(y)) /\ covered' = FALSE
        /\ UNCHANGED <<link, printer, reported, used, missed>>
    BY <1>6 DEF subscribed, ext
  <1>8. /\ panel' \in Panels /\ Shows(missed', panel', y)
        /\ panel'.filename = panel.filename /\ panel'.disabled = panel.disabled
    <2>1. CASE y = Null
      BY <1>5, <1>7, <2>1, InitNull DEF Shows
    <2>2. CASE y \in Stats
      BY <1>5, <1>7, <2>2, InitFacts
    <2> QED
      BY <2>1, <2>2
  <1>9. /\ srv' \in Seq(Requests) /\ Tokens(srv') = Tokens(srv)
        /\ ~link.up => srv' = srv
        /\ link.up /\ y # Null /\ y.filename # None => Metas(srv') # {} /\ LastIs(srv', y.filename)
    <2>1. CASE y \in Stats /\ y.filename # None
      BY <1>5, <1>7, <2>1, AsksFacts, AskedFacts
    <2>2. CASE ~(y \in Stats /\ y.filename # None)
      <3>1. Asks(y) = <<>>
        BY <2>2, AsksFacts, IdleFacts
      <3>2. srv' = srv
        BY <1>5, <1>7, <3>1, SentFacts, RequestFacts
      <3> QED
        BY <1>5, <2>2, <3>2
    <2> QED
      BY <2>1, <2>2
  <1>10. Typed'
    BY <1>2, <1>7, <1>8, <1>9 DEF Typed
  <1>11. Linked'
    BY <1>7, <1>9, ThreadLinks
  <1>12. Leads(missed', inbox', state', link'.sub, reported') /\ Shows(missed', panel', state')
    BY <1>3, <1>7, <1>8
  <1>13. ASSUME used.rounds <= 1
         PROVE  /\ Tokens(inbox') = {} /\ Tokens(srv') = {} /\ panel.filename = None
                /\ used.presses = 0 => panel.disabled = {}
                /\ used.rounds # 0
    <2>1. OneToken(inbox) /\ Head(inbox).kind \in Token
      BY <1>2, <1>13 DEF First, OneToken, Token
    <2>2. Tokens(inbox) # {} /\ Tokens(inbox') = {}
      BY <1>2, <2>1, TailKinds
    <2> QED
      BY <1>2, <1>9, <1>13, <2>2 DEF First
  <1>14. First'
    BY <1>7, <1>8, <1>13 DEF First
  <1>15. Enabled'
    BY <1>7, <1>8, <1>13 DEF Enabled
  <1>16. Details'
    BY <1>7, <1>8, <1>9, <1>13 DEF Details, Due
  <1> QED
    BY <1>10, <1>11, <1>12, <1>14, <1>15, <1>16

(* A report: what the panel shows goes from one status to the next.        *)
LEMMA ConsumeStep ==
  ASSUME IInv, consume
  PROVE  /\ state \in Stats /\ state' \in Stats
         /\ panel' = Consumed(panel, state, state')
         /\ Sent(IF NewPrint(panel, Diff(state, state')) THEN Asks(state') ELSE <<>>)
         /\ Leads(missed, inbox', state', link.sub, reported) /\ Later(missed, state, state')
         /\ panel \in Panels /\ Shows(missed, panel, state)
         /\ UNCHANGED <<link, printer, reported, covered, used, missed>>
         /\ inbox \in Seq(Events) /\ inbox # <<>> /\ inbox' = Tail(inbox)
         /\ Head(inbox).kind = "status" /\ inbox' \in Seq(Events)
  <1>1. Heard("status")
    BY DEF consume
  <1>2. /\ inbox \in Seq(Events) /\ inbox # <<>> /\ inbox' = Tail(inbox)
        /\ Head(inbox).kind = "status" /\ inbox' \in Seq(Events)
    BY <1>1, HeardFacts
  <1>3. PICK y \in Stats \cup {Null} : /\ Leap(missed, state, Head(inbox), y)
                                       /\ Leads(missed, inbox', y, link.sub, reported)
    BY <1>1, HeardFacts
  <1>4. state \in Stats /\ y \in Stats /\ Later(missed, state, y) /\ Head(inbox).found = Diff(state, y)
    BY <1>2, <1>3 DEF Leap
  <1>5. Merge(state, Head(inbox).found) = y
    BY <1>4, DiffFacts
  <1>6. state' = y
    BY <1>5 DEF consume
  <1>7. panel' = Consumed(panel, state, state')
    BY <1>4, <1>6 DEF consume, Consumed
  <1>8. Sent(IF NewPrint(panel, Diff(state, state')) THEN Asks(state') ELSE <<>>)
    BY <1>4, <1>6 DEF consume
  <1>9. UNCHANGED <<link, printer, reported, covered, used, missed>>
    BY DEF consume, ext
  <1>10. panel \in Panels /\ Shows(missed, panel, state)
    BY DEF IInv, Typed
  <1> QED
    BY <1>2, <1>3, <1>4, <1>6, <1>7, <1>8, <1>9, <1>10

(* So consume keeps the invariant.                                         *)
LEMMA ConsumeKeeps ==
  ASSUME IInv, consume
  PROVE  IInv'
  <1> USE DEF IInv
  <1> DEFINE d == Diff(state, state')
             named == "filename" \in DOMAIN d
             new == named /\ state'.filename \notin {None, panel.filename}
  <1>1. /\ state \in Stats /\ state' \in Stats /\ panel' = Consumed(panel, state, state')
        /\ Sent(IF NewPrint(panel, d) THEN Asks(state') ELSE <<>>)
        /\ Leads(missed, inbox', state', link.sub, reported)
        /\ UNCHANGED <<link, printer, reported, covered, used, missed>>
        /\ inbox \in Seq(Events) /\ inbox # <<>> /\ inbox' = Tail(inbox)
        /\ Head(inbox).kind = "status" /\ inbox' \in Seq(Events)
    BY ConsumeStep
  <1>2. /\ panel' \in Panels /\ Shows(missed', panel', state')
        /\ NewPrint(panel, d) <=> new
        /\ panel'.filename = IF named THEN state'.filename ELSE panel.filename
        /\ ~new => panel'.details = panel.details /\ panel'.thumb = panel.thumb
        /\ panel.button \notin panel.disabled => panel'.button \notin panel'.disabled
    <2>1. panel \in Panels /\ Shows(missed, panel, state) /\ Later(missed, state, state')
      BY ConsumeStep
    <2> QED
      BY <1>1, <2>1, ConsumeFacts
  <1>3. /\ ~named => state.filename = state'.filename
        /\ named => state.filename # state'.filename
    <2>1. \A k \in DOMAIN d : state[k] # state'[k]
      BY DEF Diff
    <2>2. ~named => state.filename = state'.filename
      BY <1>1, DiffFacts DEF Keys
    <2> QED
      BY <2>1, <2>2
  <1> HIDE DEF d
  <1>4. state # Null /\ state' # Null
    BY <1>1, StatFacts
  <1>5. srv \in Seq(Requests)
    BY DEF Typed
  <1>6. /\ srv' \in Seq(Requests) /\ Tokens(srv') = Tokens(srv)
        /\ ~link.up => srv' = srv
        /\ ~new => srv' = srv
        /\ link.up /\ new => Metas(srv') # {} /\ LastIs(srv', state'.filename)
    <2>1. CASE new
      BY <1>1, <1>2, <1>5, <2>1, AsksFacts, AskedFacts
    <2>2. CASE ~new
      <3>1. Sent(<<>>)
        BY <1>1, <1>2, <2>2
      <3>2. srv' = srv
        BY <1>5, <3>1, SentFacts, RequestFacts
      <3> QED
        BY <1>5, <2>2, <3>2
    <2> QED
      BY <2>1, <2>2
  <1>7. Typed'
    BY <1>1, <1>2, <1>6 DEF Typed
  <1>8. Linked'
    BY <1>1, <1>6, ThreadLinks
  <1>9. Leads(missed', inbox', state', link'.sub, reported') /\ Shows(missed', panel', state')
    BY <1>1, <1>2
  <1>10. /\ Tokens(inbox) = {} => Tokens(inbox') = {}
         /\ Metas(inbox') = {} <=> Metas(inbox) = {}
         /\ \A f : LastIs(inbox, f) /\ Metas(inbox') # {} => LastIs(inbox', f)
    BY <1>1, TailKinds
  <1>11. First'
    <2> SUFFICES ASSUME used.rounds <= 1 PROVE First'
      BY <1>1 DEF First
    <2>1. Tokens(inbox) = {} /\ Tokens(srv) = {} /\ used.rounds # 0
      BY <1>1, <1>4 DEF First
    <2> QED
      BY <1>1, <1>4, <1>6, <1>10, <2>1 DEF First
  <1>12. Enabled'
    BY <1>1, <1>2, <1>4 DEF Enabled
  <1>13. Details'
    <2> SUFFICES ASSUME used.rounds <= 1, link.up
                 PROVE  /\ panel'.filename \in {None, state'.filename}
                        /\ state'.filename # None => Due(srv', inbox', panel', state'.filename)
      BY <1>1 DEF Details
    <2>1. /\ panel.filename \in {None, state.filename}
          /\ state.filename # None => Due(srv, inbox, panel, state.filename)
      BY <1>4 DEF Details
    <2>2. panel'.filename \in {None, state'.filename}
      BY <1>2, <1>3, <2>1
    <2>3. ASSUME state'.filename # None
          PROVE  Due(srv', inbox', panel', state'.filename)
      <3>1. CASE new
        BY <1>6, <3>1 DEF Due
      <3>2. CASE ~new
        <4>1. state'.filename = state.filename
          BY <1>3, <2>1, <2>3, <3>2
        <4>2. Due(srv, inbox, panel, state'.filename)
          BY <2>1, <2>3, <4>1
        <4> QED
          BY <1>2, <1>6, <1>10, <3>2, <4>2 DEF Due
      <3> QED
        BY <3>1, <3>2
    <2> QED
      BY <2>2, <2>3
  <1> QED
    BY <1>7, <1>8, <1>9, <1>11, <1>12, <1>13


(* The reply about metadata: details of the file that was asked about.     *)
LEMMA MetadataKeeps ==
  ASSUME IInv, handle_metadata
  PROVE  IInv'
  <1> USE DEF IInv
  <1> DEFINE g == Head(inbox).file
  <1>1. Heard("metadata")
    BY DEF handle_metadata
  <1>2. /\ inbox \in Seq(Events) /\ inbox # <<>> /\ inbox' = Tail(inbox)
        /\ Head(inbox).kind = "metadata" /\ inbox' \in Seq(Events)
    BY <1>1, HeardFacts
  <1>3. PICK y \in Stats \cup {Null} : /\ Leap(missed, state, Head(inbox), y)
                                       /\ Leads(missed, inbox', y, link.sub, reported)
    BY <1>1, HeardFacts
  <1>4. y = state
    BY <1>2, <1>3 DEF Leap
  <1> DEFINE pic == Picture(g)
  <1>5. /\ panel' = IF g \in Scanned THEN [panel EXCEPT !.details = g, !.thumb = pic]
                    ELSE [panel EXCEPT !.details = None]
        /\ UNCHANGED <<link, printer, reported, srv, state, covered, used, missed>>
        /\ panel \in Panels
    BY DEF handle_metadata, ext, Typed
  <1>15. pic \in Pictured \cup {None} /\ (g \in Pictured => pic = g)
    BY <1>5 DEF Picture, Panels
  <1> HIDE DEF g, pic
  <1>6. /\ panel' \in Panels
        /\ panel'.details = (IF g \in Scanned THEN g ELSE None)
        /\ g \in Pictured => panel'.thumb = g
        /\ panel'.filename = panel.filename /\ panel'.mini = panel.mini
        /\ panel'.button = panel.button /\ panel'.bar = panel.bar
        /\ panel'.disabled = panel.disabled
    <2>1. CASE g \in Scanned
      <3>1. panel' = [panel EXCEPT !.details = g, !.thumb = pic]
        BY <1>5, <2>1
      <3> QED
        BY <1>5, <1>15, <2>1, <3>1 DEF Panels
    <2>2. CASE g \notin Scanned
      <3> DEFINE no == None
      <3>1. panel' = [panel EXCEPT !.details = no] /\ no \in Scanned \cup {None} /\ no = None
        BY <1>5, <2>2
      <3> HIDE DEF no
      <3> QED
        BY <1>5, <2>2, <3>1 DEF Panels
    <2> QED
      BY <2>1, <2>2
  <1>7. Typed'
    BY <1>2, <1>5, <1>6 DEF Typed
  <1>8. Linked'
    BY <1>5, ThreadLinks
  <1>9. Leads(missed', inbox', state', link'.sub, reported')
    BY <1>3, <1>4, <1>5
  <1>10. Shows(missed', panel', state')
    BY <1>5, <1>6 DEF Shows
  <1>11. /\ OneToken(inbox) => OneToken(inbox')
         /\ Tokens(inbox) = {} => Tokens(inbox') = {}
         /\ Metas(inbox) # {}
         /\ \A f : LastIs(inbox, f) /\ Metas(inbox') # {} => LastIs(inbox', f)
         /\ \A f : LastIs(inbox, f) /\ Metas(inbox') = {} => g = f
    BY <1>2, TailKinds DEF g
  <1>12. First'
    BY <1>2, <1>5, <1>6, <1>11 DEF First, OneToken
  <1>13. Enabled'
    BY <1>5, <1>6 DEF Enabled
  <1>14. Details'
    <2> SUFFICES ASSUME used.rounds <= 1, link.up, state # Null
                 PROVE  /\ panel'.filename \in {None, state.filename}
                        /\ state.filename # None => Due(srv, inbox', panel', state.filename)
      BY <1>5 DEF Details
    <2>1. /\ panel.filename \in {None, state.filename}
          /\ state.filename # None => Due(srv, inbox, panel, state.filename)
      BY DEF Details
    <2>2. ASSUME NEW f, Due(srv, inbox, panel, f)
          PROVE  Due(srv, inbox', panel', f)
      BY <1>6, <1>11, <2>2 DEF Due
    <2> QED
      BY <1>6, <2>1, <2>2
  <1> QED
    BY <1>7, <1>8, <1>9, <1>10, <1>12, <1>13, <1>14

(* A press changes only which button is disabled, or what is in front.     *)
LEMMA UserKeeps ==
  ASSUME IInv, User
  PROVE  IInv'
  <1> USE DEF IInv
  <1>1. /\ used' = [used EXCEPT !.presses = used.presses + 1] /\ used \in Counts
        /\ panel \in Panels
        /\ UNCHANGED <<link, printer, reported, srv, inbox, state, covered, missed>>
    BY DEF User, Press, press_resume, confirm_pause, press_back, foreground, ext, Typed
  <1>2. used' \in Counts /\ used'.rounds = used.rounds /\ used'.presses = used.presses + 1
    BY <1>1, RoundFacts
  <1>3. used'.presses # 0
    BY <1>1, <1>2 DEF Counts
  <1>4. \/ \E b \in SUBSET {"pause", "resume"} : panel' = [panel EXCEPT !.disabled = b]
        \/ \E b \in BOOLEAN : panel' = [panel EXCEPT !.front = b]
    <2> DEFINE b == panel.disabled \cup {"resume"}
               c == panel.disabled \cup {"pause"}
    <2>1. b \in SUBSET {"pause", "resume"} /\ c \in SUBSET {"pause", "resume"}
      BY <1>1 DEF Panels
    <2>2. \/ panel' = [panel EXCEPT !.disabled = b] \/ panel' = [panel EXCEPT !.disabled = c]
          \/ panel' = [panel EXCEPT !.front = TRUE] \/ panel' = [panel EXCEPT !.front = FALSE]
      BY DEF User, press_resume, confirm_pause, press_back, foreground
    <2> HIDE DEF b, c
    <2> QED
      BY <2>1, <2>2
  <1> DEFINE Same ==
        /\ panel' \in Panels /\ panel'.filename = panel.filename /\ panel'.mini = panel.mini
        /\ panel'.button = panel.button /\ panel'.bar = panel.bar
        /\ panel'.details = panel.details /\ panel'.thumb = panel.thumb
  <1>5. Same
    <2>1. ASSUME NEW b \in SUBSET {"pause", "resume"}, panel' = [panel EXCEPT !.disabled = b]
          PROVE  Same
      BY <1>1, <2>1 DEF Panels
    <2>2. ASSUME NEW b \in BOOLEAN, panel' = [panel EXCEPT !.front = b]
          PROVE  Same
      BY <1>1, <2>2 DEF Panels
    <2> QED
      BY <1>4, <2>1, <2>2
  <1>6. Typed' /\ Linked'
    BY <1>1, <1>2, <1>5 DEF Typed, Linked
  <1>7. Leads(missed', inbox', state', link'.sub, reported')
    BY <1>1
  <1>8. Shows(missed', panel', state')
    BY <1>1, <1>5 DEF Shows
  <1>9. First'
    BY <1>1, <1>2, <1>3, <1>5 DEF First
  <1>10. Enabled'
    BY <1>3 DEF Enabled
  <1>11. Details'
    BY <1>1, <1>2, <1>5 DEF Details, Due
  <1> QED
    BY <1>6, <1>7, <1>8, <1>9, <1>10, <1>11

-----------------------------------------------------------------------------
(* The invariant, and what follows from it.                                *)

(* It holds at the start.                                                  *)
LEMMA Initial == Init => IInv
  <1> SUFFICES ASSUME Init PROVE IInv
    OBVIOUS
  <1>1. /\ ~link.up /\ ~link.sub /\ link \in Links /\ used.rounds = 0
        /\ used.presses = 0 /\ used \in Counts
    BY DEF Init, Links, Counts
  <1>2. /\ panel.filename = None /\ panel.disabled = {}
        /\ printer = Idle /\ reported = Idle /\ srv = <<>> /\ inbox = <<>> /\ state = Null
        /\ covered \in BOOLEAN /\ missed = {}
    BY DEF Init
  <1>3. panel \in Panels
    <2> DEFINE no == None
               nil == 0
               off == FALSE
               both == "both"
               set == {}
    <2>1. /\ no \in Files \cup {None} /\ no \in Scanned \cup {None}
          /\ no \in Pictured \cup {None} /\ nil \in 0..Full
          /\ off \in BOOLEAN /\ both \in {"both", "pause", "resume"}
          /\ set \in SUBSET {"pause", "resume"}
      OBVIOUS
    <2>2. panel = [filename |-> no, details |-> no, thumb |-> no, front |-> off,
                   mini |-> off, bar |-> nil, button |-> both, disabled |-> set]
      BY DEF Init
    <2> HIDE DEF no, nil, off, both, set
    <2> QED
      BY <2>1, <2>2 DEF Panels
  <1>4. Typed
    <2>1. srv \in Seq(Requests) /\ inbox \in Seq(Events)
      BY <1>2
    <2> QED
      BY <1>1, <1>2, <1>3, <2>1, IdleFacts DEF Typed
  <1>5. Linked
    BY <1>1, <1>2 DEF Linked
  <1>6. Leads(missed, inbox, state, link.sub, reported)
    <2> DEFINE h == [i \in 1..1 |-> Null]
    <2>1. Len(inbox) = 0 /\ state = Null
      BY <1>2
    <2>2. h \in [1..(0 + 1) -> Stats \cup {Null}] /\ h[1] = Null
      OBVIOUS
    <2> HIDE DEF h
    <2>3. \A i \in 1..0 : FALSE
      OBVIOUS
    <2>4. Path(missed, h, inbox, state)
      BY <2>1, <2>2, <2>3 DEF Path
    <2> QED
      BY <1>1, <2>4 DEF Leads
  <1>7. Shows(missed, panel, state) /\ Enabled /\ Details
    BY <1>1, <1>2 DEF Shows, Enabled, Details
  <1>8. First
    BY <1>1, <1>2, EmptyFacts DEF First
  <1> QED
    BY <1>4, <1>5, <1>6, <1>7, <1>8 DEF IInv

(* Every step keeps it.                                                    *)
LEMMA Inductive == IInv /\ [Next]_vars => IInv'
  <1> SUFFICES ASSUME IInv, [Next]_vars PROVE IInv'
    OBVIOUS
  <1>1. CASE Dispatch
    BY <1>1, ConnectedKeeps, DisconnectedKeeps, SubscribedKeeps, ConsumeKeeps, MetadataKeeps
    DEF Dispatch
  <1>2. CASE User
    BY <1>2, UserKeeps
  <1>3. CASE External
    BY <1>3, OpenKeeps, CloseKeeps, KlippyGoneKeeps, KlippyReadyKeeps, ReportKeeps,
       ServeSubscribeKeeps, ServeMetadataKeeps, ProceedKeeps, StartKeeps
    DEF External
  <1>4. CASE UNCHANGED vars
    <2>1. UNCHANGED <<link, printer, reported, srv, inbox, state, covered, panel, used, missed>>
      BY <1>4 DEF vars, ext
    <2> QED
      BY <2>1 DEF IInv, Typed, Linked, First, Enabled, Details
  <1> QED
    BY <1>1, <1>2, <1>3, <1>4 DEF Next

(* The events on their way always lead State, through statuses Klipper can *)
(* be in, to what Moonraker reported last, and the panel shows what State  *)
(* says.                                                                   *)
THEOREM Invariant == Spec => []IInv
  BY Initial, Inductive, PTL DEF Spec

(* TypeOK: in particular the bar stays within its range, and the panel     *)
(* never has details of a file Moonraker knows nothing about.              *)
THEOREM TypeCorrect == Spec => []TypeOK
  <1>1. IInv => TypeOK
    <2> SUFFICES ASSUME IInv PROVE TypeOK
      OBVIOUS
    <2>1. /\ panel \in Panels /\ printer \in Stat /\ reported \in Stat
          /\ state \in Stats \cup {Null} /\ covered \in BOOLEAN /\ missed \subseteq Files
      BY StatFacts DEF IInv, Typed
    <2>2. DOMAIN Idle = Keys /\ DOMAIN Null = {}
      BY IdleFacts, StatFacts DEF Null
    <2>3. DOMAIN state \subseteq DOMAIN Idle
      BY <2>1, <2>2, StatFacts
    <2> QED
      BY <2>1, <2>3 DEF TypeOK, Panels, Stat
  <1> QED
    BY <1>1, Invariant, PTL

(* When nothing is under way State is what the printer is.                 *)
LEMMA QuietFacts ==
  ASSUME IInv, Quiet
  PROVE  state = printer /\ printer \in Stats /\ state # Null
  <1>1. /\ link.sub /\ reported = printer /\ inbox = <<>> /\ printer \in Stats
        /\ Leads(missed, inbox, state, link.sub, reported)
    BY DEF IInv, Typed, Quiet
  <1>2. PICK h : Path(missed, h, inbox, state) /\ h[Len(inbox) + 1] = reported
    BY <1>1 DEF Leads
  <1>3. Len(inbox) + 1 = 1 /\ h[1] = state
    BY <1>1, <1>2 DEF Path
  <1>4. state = printer
    BY <1>1, <1>2, <1>3
  <1> QED
    BY <1>1, <1>4, StatFacts

(* ScreenAgrees: however reports, rounds and presses fell, what is shown   *)
(* when nothing is under way is what the printer does; mini and bar only   *)
(* while no print went by between two reports.                             *)
THEOREM Agrees == Spec => []ScreenAgrees
  <1>1. IInv => ScreenAgrees
    <2> SUFFICES ASSUME IInv, Quiet PROVE ScreenAgrees
      BY DEF ScreenAgrees
    <2>1. state = printer /\ printer \in Stats /\ state # Null
      BY QuietFacts
    <2>2. /\ panel.button = IF printer.state = "paused" THEN "resume" ELSE "pause"
          /\ missed = {} => /\ panel.mini <=> printer.state \in On
                            /\ printer.state # "complete" => panel.bar = printer.progress
      BY <2>1 DEF IInv, Shows
    <2>3. panel.mini \in BOOLEAN
      BY DEF IInv, Typed, Panels
    <2>4. missed = {} => panel.mini = (printer.state \in On)
      BY <2>2, <2>3
    <2>5. printer.state \in On => printer.state # "complete"
      BY DEF On
    <2>6. used.rounds = 1 /\ used.presses = 0 => panel.button \notin panel.disabled
      BY <2>1 DEF IInv, Enabled
    <2> QED
      BY <2>2, <2>4, <2>5, <2>6 DEF ScreenAgrees
  <1> QED
    BY <1>1, Invariant, PTL

(* DetailsOfThisPrint: in the first round the details shown when nothing   *)
(* is under way are of the file being printed, late replies or not.        *)
THEOREM DetailsRight == Spec => []DetailsOfThisPrint
  <1>1. IInv => DetailsOfThisPrint
    <2> SUFFICES ASSUME IInv, Quiet, printer.state \in On, used.rounds = 1
                 PROVE  Described(printer.filename)
      BY DEF DetailsOfThisPrint
    <2>1. state = printer /\ printer \in Stats /\ state # Null
      BY QuietFacts
    <2>2. printer.filename # None
      BY <2>1, StatFacts DEF Sound
    <2>3. Due(srv, inbox, panel, printer.filename)
      BY <2>1, <2>2 DEF IInv, Details, Quiet
    <2>4. Metas(srv) = {} /\ Metas(inbox) = {}
      BY EmptyFacts DEF Quiet
    <2> QED
      BY <2>3, <2>4 DEF Due, Described
  <1> QED
    BY <1>1, Invariant, PTL

(* OnlyAPrintTakesTheScreen: of what the thread is told only a report of a *)
(* print, one that is on or one that has gone by, brings the panel to the  *)
(* front.                                                                  *)
THEOREM OnlyAPrint == Spec => OnlyAPrintTakesTheScreen
  <1>1. ASSUME IInv, Dispatch, panel'.front, ~panel.front
        PROVE  state'.state \in On \/ state'.filename \in missed
    <2>1. panel \in Panels /\ state \in Stats \cup {Null}
      BY <1>1 DEF IInv, Typed
    <2>2. CASE connected \/ disconnected
      BY <1>1, <2>2 DEF connected, disconnected
    <2>3. CASE subscribed
      <3>1. panel' = init(panel, state') /\ state' \in Stats \cup {Null}
        BY <1>1, <2>3, SubscribedKeeps DEF subscribed, IInv, Typed
      <3>2. panel'.front = panel.front
        BY <2>1, <3>1, InitFacts, InitNull
      <3> QED
        BY <1>1, <3>2
    <2>4. CASE consume
      <3>1. /\ state \in Stats /\ state' \in Stats /\ panel' = Consumed(panel, state, state')
            /\ Later(missed, state, state') /\ Shows(missed, panel, state)
        BY <1>1, <2>4, ConsumeStep
      <3> QED
        BY <1>1, <2>1, <3>1, ConsumeFacts
    <2>5. CASE handle_metadata
      <3>1. panel'.front = panel.front
        BY <2>1, <2>5 DEF handle_metadata, Panels
      <3> QED
        BY <1>1, <3>1
    <2> QED
      BY <1>1, <2>2, <2>3, <2>4, <2>5 DEF Dispatch
  <1>2. IInv /\ [Next]_vars =>
          [Dispatch /\ panel'.front /\ ~panel.front =>
             state'.state \in On \/ state'.filename \in missed]_vars
    BY <1>1
  <1> QED
    BY <1>2, Invariant, PTL DEF Spec, OnlyAPrintTakesTheScreen
==============================================================================
