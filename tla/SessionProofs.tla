---------------------------- MODULE SessionProofs ----------------------------
(***************************************************************************)
(* What Session promises, proved for every set of objects, configuration   *)
(* per boot, and number of connections and changes: State holds nothing of *)
(* an earlier boot once Klipper's return has been dispatched, and when     *)
(* nothing is under way State and screen agree with the printer.           *)
(*                                                                         *)
(* Neither property is inductive, since each speaks of the moment when the *)
(* queue has run out of something.  The invariant says what the queue will *)
(* lead to: what comes after the last event that starts a round is of the  *)
(* present boot (Current), and the last round is still to be listed, still *)
(* to be subscribed, or its reports lead to the printer's values (Round).  *)
(***************************************************************************)
EXTENDS Session, TLAPS

Resets == {"connected", "klippy_ready"}
Gone == {"disconnected", "klippy_disconnected"}
Reports == {"subscribe", "status"}

(* Tables of values, events and requests.                                  *)
Tables == UNION {[S -> Value] : S \in SUBSET Objects}
Event == [kind : Resets \cup Gone \cup Reports \cup {"list"}, ok : BOOLEAN, found : Tables]
Request == [kind : {"list", "subscribe"}, objects : SUBSET Objects]

Typed ==
  /\ klippy \in {"down", "starting", "ready"} /\ boot \in 0..MaxBoots
  /\ up \in BOOLEAN /\ cover \in BOOLEAN /\ changes \in 0..MaxChanges
  /\ printer \in Tables /\ subscribed \in SUBSET Objects
  /\ srv \in Seq(Request) /\ inbox \in Seq(Event)
  /\ objs \in SUBSET Objects /\ status \in Tables /\ sensors \in Tables

(* Every value of the table f is of boot b.                                *)
OfBoot(f, b) == \A o \in DOMAIN f : f[o].boot = b /\ o \in Config[b]

(* A Klipper that runs has the objects of its configuration.               *)
Booted ==
  klippy # "down" =>
    boot \in 1..MaxBoots /\ DOMAIN printer = Config[boot] /\ OfBoot(printer, boot)

Ready == up /\ klippy = "ready"

Has(q, kinds) == \E i \in DOMAIN q : q[i].kind \in kinds

(* An event that Moonraker sent while Klipper ran boot b.                  *)
Good(e, b) ==
  /\ e.ok /\ e.kind \notin Gone /\ OfBoot(e.found, b)
  /\ e.kind = "list" => DOMAIN e.found = Config[b]

(* So is every event of the queue with no reset after it.                  *)
Fresh(q, b) ==
  \A i \in DOMAIN q :
    (\A j \in DOMAIN q : j > i => q[j].kind \notin Resets) => Good(q[i], b)

(* What is not going to be reset is of the present boot.                   *)
Current ==
  Ready => Fresh(inbox, boot) /\ (~Has(inbox, Resets) => OfBoot(status, boot))

Reporting(e, o) == e.kind \in Reports /\ o \in DOMAIN e.found

(* The last report of o in the queue q gives v to o; without one, State st *)
(* and screen sc have it already.                                          *)
Leads(q, st, sc, o, v) ==
  \/ \E i \in DOMAIN q :
       /\ Reporting(q[i], o) /\ q[i].found[o] = v
       /\ \A j \in DOMAIN q : j > i => ~Reporting(q[j], o)
  \/ /\ \A j \in DOMAIN q : ~Reporting(q[j], o)
     /\ o \in DOMAIN st /\ st[o] = v
     /\ o \in DOMAIN sc => sc[o] = v

(* The subscription of the last round is in force, and what it reported    *)
(* leads to what the printer has and to an uncovered screen.               *)
Subscribed ==
  /\ srv = <<>> /\ subscribed = Config[boot]
  /\ ~cover \/ Has(inbox, {"subscribe"})
  /\ \A o \in Config[boot] : Leads(inbox, status, sensors, o, printer[o])

(* The last round has been told the objects, and asked for all of them.    *)
Listed ==
  /\ objs = Config[boot] /\ DOMAIN sensors = get_display_sensors(Config[boot])
  /\ \/ srv # <<>> /\ srv[Len(srv)] = [kind |-> "subscribe", objects |-> Config[boot]]
     \/ Subscribed

(* Where the last round is.                                                *)
Round ==
  Ready /\ ~Has(inbox, Resets) => Has(srv, {"list"}) \/ Has(inbox, {"list"}) \/ Listed

IInv == Typed /\ Booted /\ Current /\ Round

-----------------------------------------------------------------------------
(* A table is a function from objects to values.                           *)
LEMMA TableFacts ==
  ASSUME NEW f \in Tables
  PROVE  /\ DOMAIN f \in SUBSET Objects /\ f = [o \in DOMAIN f |-> f[o]]
         /\ \A o \in DOMAIN f : f[o] \in Value
  BY DEF Tables

(* A function from objects to values is a table.                           *)
LEMMA TableIntro ==
  ASSUME NEW S \in SUBSET Objects, NEW f \in [S -> Value]
  PROVE  f \in Tables
  BY DEF Tables

(* The table without entries.                                              *)
LEMMA EmptyTable == Empty \in Tables /\ DOMAIN Empty = {}
  <1>1. Empty \in [{} -> Value] /\ DOMAIN Empty = {}
    BY DEF Empty
  <1> QED
    BY <1>1, TableIntro

(* Merging the values of a report into a table (State::set_data,           *)
(* json::merge_patch).                                                     *)
LEMMA MergeFacts ==
  ASSUME NEW f \in Tables, NEW g \in Tables
  PROVE  /\ Merge(f, g) \in Tables /\ DOMAIN Merge(f, g) = DOMAIN f \cup DOMAIN g
         /\ \A o \in DOMAIN g : Merge(f, g)[o] = g[o]
         /\ \A o \in DOMAIN f : o \notin DOMAIN g => Merge(f, g)[o] = f[o]
  <1>1. /\ DOMAIN f \in SUBSET Objects /\ DOMAIN g \in SUBSET Objects
        /\ \A o \in DOMAIN f : f[o] \in Value
        /\ \A o \in DOMAIN g : g[o] \in Value
    BY TableFacts
  <1>2. /\ Merge(f, g) \in [DOMAIN f \cup DOMAIN g -> Value]
        /\ \A o \in DOMAIN g : Merge(f, g)[o] = g[o]
        /\ \A o \in DOMAIN f : o \notin DOMAIN g => Merge(f, g)[o] = f[o]
    BY <1>1 DEF Merge
  <1> QED
    BY <1>1, <1>2, TableIntro

(* Showing a report on the sensors it names (MainPanel::consume).          *)
LEMMA SensorFacts ==
  ASSUME sensors \in Tables, NEW g \in Tables
  PROVE  /\ update_sensors(g) \in Tables /\ DOMAIN update_sensors(g) = DOMAIN sensors
         /\ \A o \in DOMAIN sensors :
              update_sensors(g)[o] = IF o \in DOMAIN g THEN g[o] ELSE sensors[o]
  <1>1. /\ DOMAIN sensors \in SUBSET Objects
        /\ \A o \in DOMAIN sensors : sensors[o] \in Value
        /\ \A o \in DOMAIN g : g[o] \in Value
    BY TableFacts
  <1>2. /\ update_sensors(g) \in [DOMAIN sensors -> Value]
        /\ \A o \in DOMAIN sensors :
              update_sensors(g)[o] = IF o \in DOMAIN g THEN g[o] ELSE sensors[o]
    BY <1>1 DEF update_sensors
  <1> QED
    BY <1>1, <1>2, TableIntro

(* Building the sensors anew (MainPanel::create_sensors).                  *)
LEMMA CreateFacts ==
  ASSUME NEW os \in SUBSET Objects
  PROVE  create_sensors(os) \in Tables /\ DOMAIN create_sensors(os) = get_display_sensors(os)
  <1>1. get_display_sensors(os) \in SUBSET Objects
    BY DEF get_display_sensors
  <1>2. Blank \in Value
    BY SessionAssumption DEF Blank, Value, MaxBoots
  <1>3. create_sensors(os) \in [get_display_sensors(os) -> Value]
    BY <1>2 DEF create_sensors
  <1> QED
    BY <1>1, <1>3, TableIntro

(* The events and requests there are.                                      *)
LEMMA EventFacts ==
  ASSUME NEW k \in Resets \cup Gone \cup Reports \cup {"list"}, NEW ok \in BOOLEAN,
         NEW f \in Tables
  PROVE  /\ Ev(k, ok, f) \in Event
         /\ Ev(k, ok, f).kind = k /\ Ev(k, ok, f).ok = ok /\ Ev(k, ok, f).found = f
  BY DEF Ev, Event

(* Putting one more at the end of a queue.                                 *)
LEMMA AppendFacts ==
  ASSUME NEW S, NEW q \in Seq(S), NEW e \in S
  PROVE  /\ Append(q, e) \in Seq(S) /\ Append(q, e) # <<>>
         /\ Len(Append(q, e)) = Len(q) + 1 /\ Append(q, e)[Len(q) + 1] = e
         /\ DOMAIN Append(q, e) = DOMAIN q \cup {Len(q) + 1}
         /\ \A i \in DOMAIN q : i \in Nat /\ i < Len(q) + 1 /\ Append(q, e)[i] = q[i]
  OBVIOUS

(* Taking the oldest off a queue.                                          *)
LEMMA TailFacts ==
  ASSUME NEW S, NEW q \in Seq(S), q # <<>>
  PROVE  /\ Tail(q) \in Seq(S) /\ Head(q) \in S /\ Head(q) = q[1] /\ 1 \in DOMAIN q
         /\ Len(Tail(q)) = Len(q) - 1
         /\ \A i \in DOMAIN Tail(q) : i \in Nat /\ i + 1 \in DOMAIN q /\ Tail(q)[i] = q[i + 1]
         /\ \A i \in DOMAIN q : i \in Nat
         /\ \A i \in DOMAIN q : i # 1 => i > 1 /\ i - 1 \in DOMAIN Tail(q) /\ Tail(q)[i - 1] = q[i]
  OBVIOUS

-----------------------------------------------------------------------------
(* What the queue holds after one more event.                              *)
LEMMA HasAppend ==
  ASSUME NEW S, NEW q \in Seq(S), NEW e \in S, NEW K
  PROVE  Has(Append(q, e), K) <=> Has(q, K) \/ e.kind \in K
  BY AppendFacts DEF Has

(* What the queue held before its oldest event was taken.                  *)
LEMMA HasTail ==
  ASSUME NEW S, NEW q \in Seq(S), q # <<>>, NEW K
  PROVE  Has(q, K) <=> Has(Tail(q), K) \/ Head(q).kind \in K
  <1>1. ASSUME Has(q, K) PROVE Has(Tail(q), K) \/ Head(q).kind \in K
    BY <1>1, TailFacts DEF Has
  <1>2. ASSUME Has(Tail(q), K) \/ Head(q).kind \in K PROVE Has(q, K)
    BY <1>2, TailFacts DEF Has
  <1> QED
    BY <1>1, <1>2

(* A fresh queue stays fresh when a good event is added, and any queue is  *)
(* made fresh by a reset.                                                  *)
LEMMA FreshAppend ==
  ASSUME NEW q \in Seq(Event), NEW e \in Event, NEW b,
         Fresh(q, b) \/ e.kind \in Resets, Good(e, b)
  PROVE  Fresh(Append(q, e), b)
  <1> SUFFICES ASSUME NEW i \in DOMAIN Append(q, e),
                      \A j \in DOMAIN Append(q, e) : j > i => Append(q, e)[j].kind \notin Resets
               PROVE  Good(Append(q, e)[i], b)
    BY DEF Fresh
  <1>1. CASE i = Len(q) + 1
    BY <1>1, AppendFacts
  <1>2. CASE i \in DOMAIN q
    <2>1. /\ Append(q, e)[Len(q) + 1] = e /\ i < Len(q) + 1 /\ i \in Nat /\ Len(q) \in Nat
          /\ Len(q) + 1 \in DOMAIN Append(q, e)
      BY <1>2, AppendFacts
    <2>2. e.kind \notin Resets
      BY <2>1
    <2>3. \A j \in DOMAIN q : j > i => q[j].kind \notin Resets
      BY AppendFacts
    <2>4. Good(q[i], b)
      BY <1>2, <2>2, <2>3 DEF Fresh
    <2> QED
      BY <1>2, <2>4, AppendFacts
  <1> QED
    BY <1>1, <1>2, AppendFacts

(* A fresh queue stays fresh when its oldest event is taken.               *)
LEMMA FreshTail ==
  ASSUME NEW q \in Seq(Event), q # <<>>, NEW b, Fresh(q, b)
  PROVE  Fresh(Tail(q), b)
  <1> SUFFICES ASSUME NEW i \in DOMAIN Tail(q),
                      \A j \in DOMAIN Tail(q) : j > i => Tail(q)[j].kind \notin Resets
               PROVE  Good(Tail(q)[i], b)
    BY DEF Fresh
  <1>1. i \in Nat /\ i + 1 \in DOMAIN q /\ Tail(q)[i] = q[i + 1]
    BY TailFacts
  <1>2. ASSUME NEW j \in DOMAIN q, j > i + 1
        PROVE  q[j].kind \notin Resets
    <2>1. j \in Nat /\ j - 1 \in DOMAIN Tail(q) /\ Tail(q)[j - 1] = q[j]
      BY <1>1, <1>2, TailFacts
    <2> QED
      BY <1>1, <1>2, <2>1
  <1> QED
    BY <1>1, <1>2 DEF Fresh

(* The oldest event of a fresh queue without resets is good.               *)
LEMMA FreshHead ==
  ASSUME NEW q \in Seq(Event), q # <<>>, NEW b, Fresh(q, b), ~Has(Tail(q), Resets)
  PROVE  Good(Head(q), b)
  <1>1. ASSUME NEW j \in DOMAIN q, j > 1
        PROVE  q[j].kind \notin Resets
    BY <1>1, TailFacts DEF Has
  <1> QED
    BY <1>1, TailFacts DEF Fresh

(* One more report of o, or an event that is none.                         *)
LEMMA LeadsAppend ==
  ASSUME NEW q \in Seq(Event), NEW e \in Event, NEW st, NEW sc, NEW o, NEW v,
         \/ Reporting(e, o) /\ e.found[o] = v
         \/ ~Reporting(e, o) /\ Leads(q, st, sc, o, v)
  PROVE  Leads(Append(q, e), st, sc, o, v)
  <1>1. CASE Reporting(e, o) /\ e.found[o] = v
    <2>1. /\ Len(q) + 1 \in DOMAIN Append(q, e) /\ Append(q, e)[Len(q) + 1] = e
          /\ \A j \in DOMAIN Append(q, e) : ~(j > Len(q) + 1)
      BY AppendFacts
    <2> QED
      BY <1>1, <2>1 DEF Leads
  <1>2. CASE ~Reporting(e, o) /\ Leads(q, st, sc, o, v)
    BY <1>2, AppendFacts DEF Leads
  <1> QED
    BY <1>1, <1>2

(* A report that is taken off the queue is merged into State and shown.    *)
LEMMA LeadsTail ==
  ASSUME NEW q \in Seq(Event), q # <<>>, NEW st, NEW sc, NEW o, NEW v, NEW st2, NEW sc2,
         Leads(q, st, sc, o, v), DOMAIN sc2 = DOMAIN sc,
         Reporting(Head(q), o) =>
           /\ o \in DOMAIN st2 /\ st2[o] = Head(q).found[o]
           /\ o \in DOMAIN sc => sc2[o] = Head(q).found[o],
         ~Reporting(Head(q), o) =>
           /\ o \in DOMAIN st => o \in DOMAIN st2 /\ st2[o] = st[o]
           /\ o \in DOMAIN sc => sc2[o] = sc[o]
  PROVE  Leads(Tail(q), st2, sc2, o, v)
  <1>1. ASSUME NEW i \in DOMAIN q, Reporting(q[i], o), q[i].found[o] = v,
               \A j \in DOMAIN q : j > i => ~Reporting(q[j], o)
        PROVE  Leads(Tail(q), st2, sc2, o, v)
    <2>1. CASE i = 1
      <3>1. \A j \in DOMAIN Tail(q) : ~Reporting(Tail(q)[j], o)
        BY <1>1, <2>1, TailFacts
      <3> QED
        BY <1>1, <2>1, <3>1, TailFacts DEF Leads
    <2>2. CASE i # 1
      <3>1. i \in Nat /\ i - 1 \in DOMAIN Tail(q) /\ Tail(q)[i - 1] = q[i]
        BY <2>2, TailFacts
      <3>2. ASSUME NEW j \in DOMAIN Tail(q), j > i - 1
            PROVE  ~Reporting(Tail(q)[j], o)
        <4>1. j \in Nat /\ j + 1 \in DOMAIN q /\ Tail(q)[j] = q[j + 1]
          BY TailFacts
        <4>2. j + 1 > i
          BY <3>1, <3>2, <4>1
        <4> QED
          BY <1>1, <4>1, <4>2
      <3> QED
        BY <1>1, <3>1, <3>2 DEF Leads
    <2> QED
      BY <2>1, <2>2
  <1>2. ASSUME \A j \in DOMAIN q : ~Reporting(q[j], o),
               o \in DOMAIN st, st[o] = v, o \in DOMAIN sc => sc[o] = v
        PROVE  Leads(Tail(q), st2, sc2, o, v)
    <2>1. /\ ~Reporting(Head(q), o)
          /\ \A j \in DOMAIN Tail(q) : ~Reporting(Tail(q)[j], o)
      BY <1>2, TailFacts
    <2> QED
      BY <1>2, <2>1 DEF Leads
  <1> QED
    BY <1>1, <1>2 DEF Leads

-----------------------------------------------------------------------------
(* The types, and what Klipper has, hold at the start.                     *)
LEMMA Initial == Init => IInv
  <1> SUFFICES ASSUME Init PROVE IInv
    OBVIOUS
  <1>1. /\ up = FALSE /\ klippy = "down" /\ boot = 0 /\ changes = 0 /\ cover = TRUE
        /\ printer = Empty /\ subscribed = {} /\ srv = <<>> /\ inbox = <<>>
        /\ objs = {} /\ status = Empty /\ sensors = Empty
    BY DEF Init
  <1>2. MaxBoots \in Nat /\ MaxChanges \in Nat
    BY SessionAssumption DEF MaxBoots
  <1>3. up \in BOOLEAN /\ cover \in BOOLEAN
    BY <1>1
  <1>4. Typed
    BY <1>1, <1>2, <1>3, EmptyTable DEF Typed
  <1>5. ~up
    BY <1>1
  <1> QED
    BY <1>1, <1>4, <1>5 DEF IInv, Booted, Current, Round, Ready

(* Telling the screen of something while connected.                        *)
LEMMA TellFacts ==
  ASSUME Typed, NEW k \in Resets \cup Gone, Tell(Bare(k))
  PROVE  inbox' \in Seq(Event) /\ (up => inbox' = Append(inbox, Bare(k)))
  <1>1. Bare(k) \in Event
    BY EventFacts, EmptyTable DEF Bare
  <1> QED
    BY <1>1, AppendFacts DEF Tell, Typed

(* The socket, Klipper and Moonraker.                                      *)
Outside ==
  \/ Open \/ Close \/ KlippyStarts \/ KlippyReady \/ KlippyGone \/ Serve
  \/ \E o \in DOMAIN printer : Change(o)

(* What Serve puts on the queue.                                           *)
Answer(r) ==
  LET known == IF klippy = "down" THEN {}
               ELSE IF r.kind = "list" THEN DOMAIN printer
               ELSE r.objects \cap DOMAIN printer
  IN  Ev(r.kind, klippy # "down", [o \in known |-> printer[o]])

(* An answer is an event; while Klipper runs it is good, a list is of all  *)
(* objects, and a subscription of those it names that there are.           *)
LEMMA AnswerFacts ==
  ASSUME Typed, Booted, NEW r \in Request
  PROVE  /\ Answer(r) \in Event /\ Answer(r).kind = r.kind
         /\ DOMAIN Answer(r).found \in SUBSET Objects
         /\ klippy # "down" => Good(Answer(r), boot)
         /\ klippy # "down" /\ r.kind = "subscribe" =>
              /\ DOMAIN Answer(r).found = r.objects \cap DOMAIN printer
              /\ \A o \in DOMAIN Answer(r).found : Answer(r).found[o] = printer[o]
  <1> DEFINE known == IF klippy = "down" THEN {}
                      ELSE IF r.kind = "list" THEN DOMAIN printer
                      ELSE r.objects \cap DOMAIN printer
             f == [o \in known |-> printer[o]]
             runs == klippy # "down"
  <1>1. r.kind \in {"list", "subscribe"} /\ r.objects \in SUBSET Objects
    BY DEF Request
  <1>2. /\ DOMAIN printer \in SUBSET Objects /\ \A o \in DOMAIN printer : printer[o] \in Value
    BY TableFacts DEF Typed
  <1>3. known \in SUBSET DOMAIN printer /\ known \in SUBSET Objects
    BY <1>1, <1>2
  <1>4. f \in [known -> Value] /\ DOMAIN f = known /\ \A o \in known : f[o] = printer[o]
    BY <1>2, <1>3
  <1>5. f \in Tables
    BY <1>3, <1>4, TableIntro
  <1>6. runs \in BOOLEAN /\ r.kind \in Resets \cup Gone \cup Reports \cup {"list"}
    BY <1>1 DEF Reports
  <1>7. Answer(r) = Ev(r.kind, runs, f) /\ (klippy # "down" => runs)
    BY DEF Answer
  <1> HIDE DEF f, runs
  <1>8. /\ Answer(r) \in Event /\ Answer(r).kind = r.kind /\ Answer(r).found = f
        /\ Answer(r).ok = runs
    BY <1>5, <1>6, <1>7, EventFacts
  <1>9. ASSUME klippy # "down"
        PROVE  Good(Answer(r), boot)
    <2>1. Answer(r).ok
      BY <1>7, <1>8, <1>9
    <2>2. r.kind \notin Gone
      BY <1>1 DEF Gone
    <2>3. OfBoot(f, boot) /\ (r.kind = "list" => DOMAIN f = Config[boot])
      BY <1>3, <1>4, <1>9 DEF Booted, OfBoot
    <2> QED
      BY <1>8, <2>1, <2>2, <2>3 DEF Good
  <1>10. klippy # "down" /\ r.kind = "subscribe" =>
           /\ DOMAIN f = r.objects \cap DOMAIN printer
           /\ \A o \in DOMAIN f : f[o] = printer[o]
    BY <1>4
  <1> QED
    BY <1>3, <1>4, <1>8, <1>9, <1>10

(* The request served is answered, and a subscription while Klipper runs   *)
(* takes the place of the one before.                                      *)
LEMMA ServeFacts ==
  ASSUME Typed, Booted, Serve
  PROVE  /\ srv # <<>> /\ srv' = Tail(srv) /\ inbox' = Append(inbox, Answer(Head(srv)))
         /\ subscribed' = IF Head(srv).kind = "subscribe" /\ klippy # "down"
                          THEN DOMAIN Answer(Head(srv)).found ELSE subscribed
         /\ UNCHANGED <<up, klippy, boot, printer, changes, gui>>
  <1>1. srv # <<>> /\ Head(srv) \in Request
    BY TailFacts DEF Serve, Typed
  <1>2. Head(srv).kind = "subscribe" /\ klippy # "down" =>
          DOMAIN Answer(Head(srv)).found = Head(srv).objects \cap DOMAIN printer
    BY <1>1, AnswerFacts
  <1> QED
    BY <1>2 DEF Serve, Answer

(* What a change of object o puts on the queue when o is subscribed to.    *)
Update(o, v) == Ev("status", TRUE, [x \in {o} |-> v])

(* An update is an event that reports one value.                           *)
LEMMA UpdateFacts ==
  ASSUME NEW o \in Objects, NEW v \in Value
  PROVE  /\ Update(o, v) \in Event /\ Update(o, v).kind = "status" /\ Update(o, v).ok
         /\ DOMAIN Update(o, v).found = {o} /\ Update(o, v).found[o] = v
  <1> DEFINE f == [x \in {o} |-> v]
             fine == TRUE
             k == "status"
  <1>1. f \in [{o} -> Value] /\ DOMAIN f = {o} /\ f[o] = v
    OBVIOUS
  <1>2. f \in Tables
    BY <1>1, TableIntro
  <1>3. Update(o, v) = Ev(k, fine, f)
    BY DEF Update
  <1>4. fine \in BOOLEAN /\ k \in Resets \cup Gone \cup Reports \cup {"list"}
    BY DEF Reports
  <1> HIDE DEF f, fine, k
  <1>5. /\ Update(o, v) \in Event /\ Update(o, v).kind = k
        /\ Update(o, v).ok = fine /\ Update(o, v).found = f
    BY <1>2, <1>3, <1>4, EventFacts
  <1> QED
    BY <1>1, <1>5 DEF fine, k

(* A change gives one object a new value, of the same boot.                *)
LEMMA ChangeFacts ==
  ASSUME Typed, Booted, NEW o \in DOMAIN printer, Change(o)
  PROVE  /\ klippy # "down" /\ changes' \in 0..MaxChanges
         /\ printer' \in Tables /\ DOMAIN printer' = DOMAIN printer
         /\ \A x \in DOMAIN printer : x # o => printer'[x] = printer[x]
         /\ OfBoot(printer', boot) /\ o \in Objects /\ printer'[o] \in Value
         /\ printer'[o].boot = boot
         /\ inbox' = IF o \in subscribed THEN Append(inbox, Update(o, printer'[o])) ELSE inbox
  <1>1. /\ DOMAIN printer \in SUBSET Objects /\ \A x \in DOMAIN printer : printer[x] \in Value
        /\ printer = [x \in DOMAIN printer |-> printer[x]]
    BY TableFacts DEF Typed
  <1>2. /\ klippy # "down" /\ changes' \in 0..MaxChanges
    BY SessionAssumption DEF Change, Typed
  <1>3. printer' = [printer EXCEPT ![o].n = changes']
    BY DEF Change
  <1>4. /\ DOMAIN printer' = DOMAIN printer
        /\ \A x \in DOMAIN printer : x # o => printer'[x] = printer[x]
        /\ printer'[o].boot = printer[o].boot /\ printer'[o] \in Value
    BY <1>1, <1>2, <1>3 DEF Value
  <1>5. printer' \in [DOMAIN printer -> Value]
    BY <1>1, <1>3, <1>4
  <1>6. printer' \in Tables
    BY <1>1, <1>5, TableIntro
  <1>7. OfBoot(printer', boot)
    BY <1>2, <1>4 DEF Booted, OfBoot
  <1>8. inbox' = IF o \in subscribed THEN Append(inbox, Update(o, printer'[o])) ELSE inbox
    BY DEF Change, Update
  <1>9. printer'[o].boot = boot
    BY <1>4, <1>7 DEF OfBoot
  <1> QED
    BY <1>1, <1>2, <1>4, <1>6, <1>7, <1>8, <1>9

-----------------------------------------------------------------------------
(* The socket, Klipper and Moonraker keep the types, and Klipper what it   *)
(* has.                                                                    *)
LEMMA OutsideTyped ==
  ASSUME Typed, Booted, Outside
  PROVE  Typed' /\ Booted'
  <1>1. CASE Open
    <2>1. /\ inbox' = Append(inbox, Bare("connected")) /\ up' = TRUE
          /\ UNCHANGED <<klippy, boot, printer, changes, subscribed, srv, gui>>
      BY <1>1 DEF Open
    <2>2. Bare("connected") \in Event
      BY EventFacts, EmptyTable DEF Bare, Resets
    <2>3. inbox' \in Seq(Event)
      BY <2>1, <2>2, AppendFacts DEF Typed
    <2>4. up' \in BOOLEAN
      BY <2>1
    <2> QED
      BY <2>1, <2>3, <2>4 DEF Typed, Booted, gui
  <1>2. CASE Close
    <2>1. /\ inbox' = Append(inbox, Bare("disconnected")) /\ up' = FALSE
          /\ subscribed' = {} /\ srv' = <<>>
          /\ UNCHANGED <<klippy, boot, printer, changes, gui>>
      BY <1>2 DEF Close
    <2>2. Bare("disconnected") \in Event
      BY EventFacts, EmptyTable DEF Bare, Gone
    <2>3. inbox' \in Seq(Event)
      BY <2>1, <2>2, AppendFacts DEF Typed
    <2>4. up' \in BOOLEAN
      BY <2>1
    <2> QED
      BY <2>1, <2>3, <2>4 DEF Typed, Booted, gui
  <1>3. CASE KlippyStarts
    <2>1. /\ klippy' = "starting" /\ boot' = boot + 1 /\ boot < MaxBoots
          /\ printer' = [o \in Config[boot'] |-> [boot |-> boot', n |-> 0]]
          /\ UNCHANGED <<up, changes, subscribed, srv, inbox, gui>>
      BY <1>3 DEF KlippyStarts
    <2>2. boot' \in 1..MaxBoots /\ boot' \in 0..MaxBoots
      BY <2>1, SessionAssumption DEF Typed, MaxBoots
    <2>3. Config[boot'] \in SUBSET Objects
      BY <2>2, SessionAssumption DEF MaxBoots
    <2>4. [boot |-> boot', n |-> 0] \in Value
      BY <2>2, SessionAssumption DEF Value
    <2>5. printer' \in [Config[boot'] -> Value]
      BY <2>1, <2>4
    <2>6. printer' \in Tables
      BY <2>3, <2>5, TableIntro
    <2>7. DOMAIN printer' = Config[boot'] /\ OfBoot(printer', boot')
      BY <2>1 DEF OfBoot
    <2> QED
      BY <2>1, <2>2, <2>6, <2>7 DEF Typed, Booted, gui
  <1>4. CASE KlippyReady
    <2>1. /\ klippy = "starting" /\ klippy' = "ready" /\ Tell(Bare("klippy_ready"))
          /\ UNCHANGED <<up, boot, printer, changes, subscribed, srv, gui>>
      BY <1>4 DEF KlippyReady
    <2>2. inbox' \in Seq(Event)
      BY <2>1, TellFacts DEF Resets
    <2> QED
      BY <2>1, <2>2 DEF Typed, Booted, gui
  <1>5. CASE KlippyGone
    <2>1. /\ klippy' = "down" /\ Tell(Bare("klippy_disconnected")) /\ subscribed' = {}
          /\ UNCHANGED <<up, boot, printer, changes, srv, gui>>
      BY <1>5 DEF KlippyGone
    <2>2. inbox' \in Seq(Event)
      BY <2>1, TellFacts DEF Gone
    <2> QED
      BY <2>1, <2>2 DEF Typed, Booted, gui
  <1>6. CASE Serve
    <2>1. /\ srv # <<>> /\ srv' = Tail(srv) /\ inbox' = Append(inbox, Answer(Head(srv)))
          /\ subscribed' = subscribed \/ subscribed' = DOMAIN Answer(Head(srv)).found
          /\ UNCHANGED <<up, klippy, boot, printer, changes, gui>>
      BY <1>6, ServeFacts
    <2>2. srv' \in Seq(Request) /\ Head(srv) \in Request
      BY <2>1, TailFacts DEF Typed
    <2>3. inbox' \in Seq(Event)
      BY <2>1, <2>2, AnswerFacts, AppendFacts DEF Typed
    <2>4. subscribed' \in SUBSET Objects
      BY <2>1, <2>2, AnswerFacts DEF Typed
    <2> QED
      BY <2>1, <2>2, <2>3, <2>4 DEF Typed, Booted, gui
  <1>7. ASSUME NEW o \in DOMAIN printer, Change(o)
        PROVE  Typed' /\ Booted'
    <2>1. UNCHANGED <<up, klippy, boot, subscribed, srv, gui>>
      BY <1>7 DEF Change
    <2>2. Update(o, printer'[o]) \in Event /\ inbox \in Seq(Event)
      BY <1>7, ChangeFacts, UpdateFacts DEF Typed
    <2>3. Append(inbox, Update(o, printer'[o])) \in Seq(Event)
      BY <2>2, AppendFacts
    <2>4. inbox' \in Seq(Event)
      BY <1>7, <2>2, <2>3, ChangeFacts
    <2> QED
      BY <1>7, <2>1, <2>4, ChangeFacts DEF Typed, Booted, gui
  <1> QED
    BY <1>1, <1>2, <1>3, <1>4, <1>5, <1>6, <1>7 DEF Outside

(* While the socket is closed or Klipper is not ready nothing is claimed.  *)
LEMMA NotReady ==
  ASSUME ~Ready'
  PROVE  Current' /\ Round'
  BY DEF Current, Round

(* An event that starts a round makes everything before it irrelevant.     *)
LEMMA ResetStep ==
  ASSUME Typed, NEW k \in Resets, inbox' = Append(inbox, Bare(k))
  PROVE  Current' /\ Round'
  <1> DEFINE e == Bare(k)
             fine == TRUE
  <1>1. e = Ev(k, fine, Empty) /\ fine \in BOOLEAN
    BY DEF Bare
  <1> HIDE DEF e, fine
  <1>2. e \in Event /\ e.kind = k /\ e.ok = fine /\ e.found = Empty
    BY <1>1, EventFacts, EmptyTable
  <1>3. e.ok
    BY <1>2 DEF fine
  <1>4. k \notin Gone /\ k # "list"
    BY DEF Resets, Gone
  <1>5. Good(e, boot')
    BY <1>2, <1>3, <1>4, EmptyTable DEF Good, OfBoot
  <1>6. Fresh(Append(inbox, e), boot')
    BY <1>2, <1>5, FreshAppend DEF Typed
  <1>7. Has(Append(inbox, e), Resets)
    BY <1>2, HasAppend DEF Typed
  <1>8. inbox' = Append(inbox, e)
    BY DEF e
  <1>9. Fresh(inbox', boot') /\ Has(inbox', Resets)
    BY <1>6, <1>7, <1>8
  <1> QED
    BY <1>9 DEF Current, Round

(* A good event that starts no round keeps what comes after the last reset *)
(* of this boot.                                                           *)
LEMMA GoodStep ==
  ASSUME Typed, Current, Ready, NEW e \in Event, Good(e, boot), e.kind \notin Resets,
         inbox' = Append(inbox, e), UNCHANGED <<boot, status>>
  PROVE  Current' /\ (Has(inbox', Resets) <=> Has(inbox, Resets))
  <1>1. Has(inbox', Resets) <=> Has(inbox, Resets)
    BY HasAppend DEF Typed
  <1>2. Fresh(inbox', boot')
    BY FreshAppend DEF Typed, Current
  <1>3. ~Has(inbox', Resets) => OfBoot(status', boot')
    BY <1>1 DEF Current
  <1> QED
    BY <1>1, <1>2, <1>3 DEF Current

(* An answer of a Klipper that is ready brings the round on: a list is on  *)
(* its way, or the last subscription is now in force.                      *)
LEMMA ServeRound ==
  ASSUME IInv, Serve, Ready
  PROVE  Current' /\ Round'
  <1> DEFINE r == Head(srv)
             e == Answer(r)
  <1>1. /\ srv # <<>> /\ srv' = Tail(srv) /\ inbox' = Append(inbox, e)
        /\ subscribed' = IF r.kind = "subscribe" /\ klippy # "down"
                         THEN DOMAIN e.found ELSE subscribed
        /\ UNCHANGED <<up, klippy, boot, printer, changes, objs, status, sensors, cover>>
    BY ServeFacts DEF IInv, gui
  <1>2. srv \in Seq(Request) /\ inbox \in Seq(Event) /\ r \in Request
    BY <1>1, TailFacts DEF IInv, Typed
  <1>3. klippy # "down"
    BY DEF Ready
  <1>4. e \in Event /\ e.kind = r.kind /\ Good(e, boot)
    BY <1>2, <1>3, AnswerFacts DEF IInv
  <1>5. r.kind \in {"list", "subscribe"} /\ r.kind \notin Resets
    BY <1>2 DEF Request, Resets
  <1> HIDE DEF r, e
  <1>6. Current' /\ (Has(inbox', Resets) <=> Has(inbox, Resets))
    BY <1>1, <1>4, <1>5, GoodStep DEF IInv
  <1>7. ASSUME ~Has(inbox', Resets)
        PROVE  Has(srv', {"list"}) \/ Has(inbox', {"list"}) \/ Listed'
    <2>1. Has(srv, {"list"}) \/ Has(inbox, {"list"}) \/ Listed
      BY <1>6, <1>7 DEF IInv, Round
    <2>2. Has(inbox', {"list"}) <=> Has(inbox, {"list"}) \/ e.kind = "list"
      BY <1>1, <1>2, <1>4, HasAppend
    <2>3. CASE Has(srv, {"list"}) \/ Has(inbox, {"list"})
      <3>1. Has(srv, {"list"}) <=> Has(srv', {"list"}) \/ r.kind \in {"list"}
        BY <1>1, <1>2, HasTail DEF r
      <3> QED
        BY <1>4, <2>2, <2>3, <3>1
    <2>4. CASE Listed /\ r.kind # "list"
      <3>1. srv[Len(srv)] = [kind |-> "subscribe", objects |-> Config[boot]]
        BY <1>1, <2>4 DEF Listed, Subscribed
      <3>2. CASE srv' # <<>>
        <4>1. srv'[Len(srv')] = srv[Len(srv)]
          BY <1>1, <1>2, <3>2
        <4> QED
          BY <1>1, <2>4, <3>1, <3>2, <4>1 DEF Listed
      <3>3. CASE srv' = <<>>
        <4>1. r = srv[Len(srv)]
          BY <1>1, <1>2, <3>3 DEF r
        <4>2. r.kind = "subscribe" /\ r.objects = Config[boot]
          BY <3>1, <4>1
        <4>3. DOMAIN printer = Config[boot]
          BY <1>3 DEF IInv, Booted
        <4>4. /\ DOMAIN e.found = Config[boot]
              /\ \A o \in DOMAIN e.found : e.found[o] = printer[o]
          BY <1>2, <1>3, <4>2, <4>3, AnswerFacts DEF IInv, e
        <4>5. subscribed' = Config[boot]
          BY <1>1, <1>3, <4>2, <4>4
        <4>6. Has(inbox', {"subscribe"})
          BY <1>1, <1>2, <1>4, <4>2, HasAppend
        <4>7. ASSUME NEW o \in Config[boot]
              PROVE  Leads(inbox', status, sensors, o, printer[o])
          <5>1. Reporting(e, o) /\ e.found[o] = printer[o]
            BY <1>4, <4>2, <4>4 DEF Reporting, Reports
          <5> QED
            BY <1>1, <1>2, <1>4, <5>1, LeadsAppend
        <4> QED
          BY <1>1, <2>4, <3>3, <4>5, <4>6, <4>7 DEF Listed, Subscribed
      <3> QED
        BY <3>2, <3>3
    <2>5. CASE r.kind = "list"
      BY <1>4, <2>2, <2>5
    <2> QED
      BY <2>1, <2>3, <2>4, <2>5
  <1> QED
    BY <1>6, <1>7 DEF Round

(* A change of a value Klipper reports as soon as it is subscribed to.     *)
LEMMA ChangeRound ==
  ASSUME IInv, NEW o \in DOMAIN printer, Change(o), Ready
  PROVE  Current' /\ Round'
  <1> DEFINE e == Update(o, printer'[o])
  <1>1. UNCHANGED <<up, klippy, boot, subscribed, srv, objs, status, sensors, cover>>
    BY DEF Change, gui
  <1>2. /\ klippy # "down" /\ o \in Objects /\ printer'[o] \in Value
        /\ DOMAIN printer' = DOMAIN printer /\ printer'[o].boot = boot
        /\ \A x \in DOMAIN printer : x # o => printer'[x] = printer[x]
        /\ inbox' = IF o \in subscribed THEN Append(inbox, e) ELSE inbox
    BY ChangeFacts DEF IInv
  <1>3. DOMAIN printer = Config[boot] /\ inbox \in Seq(Event)
    BY <1>2 DEF IInv, Booted, Typed
  <1>4. /\ e \in Event /\ e.kind = "status" /\ e.ok
        /\ DOMAIN e.found = {o} /\ e.found[o] = printer'[o]
    BY <1>2, UpdateFacts
  <1> HIDE DEF e
  <1>5. Good(e, boot) /\ e.kind \notin Resets /\ e.kind # "list"
    <2>1. OfBoot(e.found, boot)
      BY <1>2, <1>3, <1>4 DEF OfBoot
    <2>2. e.kind \notin Gone /\ e.kind # "list" /\ e.kind \notin Resets
      BY <1>4 DEF Gone, Resets
    <2> QED
      BY <1>4, <2>1, <2>2 DEF Good
  <1>6. CASE o \in subscribed
    <2>1. inbox' = Append(inbox, e)
      BY <1>2, <1>6
    <2>2. Current' /\ (Has(inbox', Resets) <=> Has(inbox, Resets))
      BY <1>1, <1>4, <1>5, <2>1, GoodStep DEF IInv
    <2>3. ASSUME ~Has(inbox', Resets)
          PROVE  Has(srv', {"list"}) \/ Has(inbox', {"list"}) \/ Listed'
      <3>1. Has(srv, {"list"}) \/ Has(inbox, {"list"}) \/ Listed
        BY <2>2, <2>3 DEF IInv, Round
      <3>2. /\ Has(inbox, {"list"}) => Has(inbox', {"list"})
            /\ Has(inbox, {"subscribe"}) => Has(inbox', {"subscribe"})
        BY <1>3, <1>4, <2>1, HasAppend
      <3>3. CASE Listed /\ ~Subscribed
        BY <1>1, <3>3 DEF Listed
      <3>4. CASE Listed /\ Subscribed
        <4>1. ASSUME NEW x \in Config[boot]
              PROVE  Leads(inbox', status, sensors, x, printer'[x])
          <5>1. Leads(inbox, status, sensors, x, printer[x])
            BY <3>4 DEF Subscribed
          <5>2. CASE x = o
            <6>1. Reporting(e, x) /\ e.found[x] = printer'[x]
              BY <1>4, <5>2 DEF Reporting, Reports
            <6> QED
              BY <1>3, <1>4, <2>1, <6>1, LeadsAppend
          <5>3. CASE x # o
            <6>1. ~Reporting(e, x) /\ printer'[x] = printer[x]
              BY <1>2, <1>3, <1>4, <5>3 DEF Reporting
            <6> QED
              BY <1>3, <1>4, <2>1, <5>1, <6>1, LeadsAppend
          <5> QED
            BY <5>2, <5>3
        <4>2. Subscribed'
          BY <1>1, <3>2, <3>4, <4>1 DEF Subscribed
        <4> QED
          BY <1>1, <3>4, <4>2 DEF Listed
      <3> QED
        BY <1>1, <3>1, <3>2, <3>3, <3>4
    <2> QED
      BY <2>2, <2>3 DEF Round
  <1>7. CASE o \notin subscribed
    <2>1. inbox' = inbox
      BY <1>2, <1>7
    <2>2. ~Subscribed
      BY <1>3, <1>7 DEF Subscribed
    <2>3. Listed => Listed'
      BY <1>1, <2>2 DEF Listed
    <2>4. Current'
      BY <1>1, <2>1 DEF IInv, Current, Ready
    <2> QED
      BY <1>1, <2>1, <2>3, <2>4 DEF IInv, Round, Ready
  <1> QED
    BY <1>6, <1>7

(* The socket, Klipper and Moonraker keep the invariant.                   *)
LEMMA OutsideStep ==
  ASSUME IInv, Outside
  PROVE  IInv'
  <1>1. Typed' /\ Booted'
    BY OutsideTyped DEF IInv
  <1>2. CASE Open
    <2>1. inbox' = Append(inbox, Bare("connected")) /\ "connected" \in Resets
      BY <1>2 DEF Open, Resets
    <2> QED
      BY <1>1, <2>1, ResetStep DEF IInv
  <1>3. CASE Close \/ KlippyStarts \/ KlippyGone
    <2>1. ~Ready'
      BY <1>3 DEF Close, KlippyStarts, KlippyGone, Ready
    <2> QED
      BY <1>1, <2>1, NotReady DEF IInv
  <1>4. CASE KlippyReady
    <2>1. Tell(Bare("klippy_ready")) /\ up' = up /\ "klippy_ready" \in Resets
      BY <1>4 DEF KlippyReady, Resets
    <2>2. CASE up
      <3>1. inbox' = Append(inbox, Bare("klippy_ready"))
        BY <2>1, <2>2, TellFacts DEF IInv
      <3> QED
        BY <1>1, <2>1, <3>1, ResetStep DEF IInv
    <2>3. CASE ~up
      <3>1. ~Ready'
        BY <2>1, <2>3 DEF Ready
      <3> QED
        BY <1>1, <3>1, NotReady DEF IInv
    <2> QED
      BY <2>2, <2>3
  <1>5. CASE Serve
    <2>1. Ready' <=> Ready
      BY <1>5 DEF Serve, Ready
    <2> QED
      BY <1>1, <1>5, <2>1, NotReady, ServeRound DEF IInv
  <1>6. ASSUME NEW o \in DOMAIN printer, Change(o)
        PROVE  IInv'
    <2>1. Ready' <=> Ready
      BY <1>6 DEF Change, Ready
    <2> QED
      BY <1>1, <1>6, <2>1, NotReady, ChangeRound DEF IInv
  <1> QED
    BY <1>2, <1>3, <1>4, <1>5, <1>6 DEF Outside

-----------------------------------------------------------------------------
(* Dispatching takes the oldest event and leaves the outside alone; what   *)
(* is left in the queue is as fresh as it was.                             *)
LEMMA DispatchFacts ==
  ASSUME IInv, inbox # <<>>, inbox' = Tail(inbox), UNCHANGED ext
  PROVE  /\ inbox \in Seq(Event) /\ inbox' \in Seq(Event) /\ Head(inbox) \in Event
         /\ UNCHANGED <<up, klippy, boot, printer, changes, subscribed>>
         /\ Booted' /\ (Ready' <=> Ready)
         /\ Ready => Fresh(inbox', boot)
         /\ Ready /\ ~Has(inbox', Resets) => Good(Head(inbox), boot)
         /\ \A K : Has(inbox, K) <=> Has(inbox', K) \/ Head(inbox).kind \in K
  <1>1. inbox \in Seq(Event) /\ inbox' \in Seq(Event) /\ Head(inbox) \in Event
    BY TailFacts DEF IInv, Typed
  <1>2. UNCHANGED <<up, klippy, boot, printer, changes, subscribed>>
    BY DEF ext
  <1>3. Booted' /\ (Ready' <=> Ready)
    BY <1>2 DEF IInv, Booted, Ready
  <1>4. Ready => Fresh(inbox', boot)
    BY <1>1, FreshTail DEF IInv, Current
  <1>5. Ready /\ ~Has(inbox', Resets) => Good(Head(inbox), boot)
    BY <1>1, FreshHead DEF IInv, Current
  <1>6. \A K : Has(inbox, K) <=> Has(inbox', K) \/ Head(inbox).kind \in K
    BY <1>1, HasTail
  <1> QED
    BY <1>1, <1>2, <1>3, <1>4, <1>5, <1>6

(* Sending: a request is added at the end while the socket is open.        *)
LEMMA SendFacts ==
  ASSUME Typed, NEW k \in {"list", "subscribe"}, NEW os \in SUBSET Objects, Send(k, os)
  PROVE  /\ srv' \in Seq(Request)
         /\ up => /\ srv' # <<>> /\ srv'[Len(srv')] = [kind |-> k, objects |-> os]
                  /\ Has(srv', {k})
  <1> DEFINE r == [kind |-> k, objects |-> os]
  <1>1. r \in Request /\ r.kind = k
    BY DEF Request
  <1>2. srv' = IF up THEN Append(srv, r) ELSE srv
    BY DEF Send
  <1> HIDE DEF r
  <1>3. srv \in Seq(Request) /\ Append(srv, r) \in Seq(Request)
    BY <1>1, AppendFacts DEF Typed
  <1>4. ASSUME up
        PROVE  srv' # <<>> /\ srv'[Len(srv')] = r /\ Has(srv', {k})
    <2>1. srv' = Append(srv, r)
      BY <1>2, <1>4
    <2>2. Append(srv, r) # <<>> /\ Append(srv, r)[Len(Append(srv, r))] = r
      BY <1>1, <1>3, AppendFacts
    <2>3. Has(Append(srv, r), {k})
      BY <1>1, <1>3, HasAppend
    <2> QED
      BY <2>1, <2>2, <2>3
  <1> QED
    BY <1>2, <1>3, <1>4 DEF r

(* InitPanel::connected empties State and asks for the list.               *)
LEMMA ConnectedStep ==
  ASSUME IInv, connected
  PROVE  IInv'
  <1>1. /\ inbox # <<>> /\ inbox' = Tail(inbox) /\ UNCHANGED ext
        /\ objs' = {} /\ status' = Empty /\ Send("list", {})
        /\ UNCHANGED <<sensors, cover>>
    BY DEF connected, Heard
  <1>2. {} \in SUBSET Objects /\ "list" \in {"list", "subscribe"}
    OBVIOUS
  <1>3. srv' \in Seq(Request) /\ (up => Has(srv', {"list"}))
    BY <1>1, <1>2, SendFacts DEF IInv
  <1>4. Typed'
    BY <1>1, <1>2, <1>3, DispatchFacts, EmptyTable DEF IInv, Typed
  <1>5. OfBoot(status', boot')
    BY <1>1, EmptyTable DEF OfBoot
  <1>6. Current'
    BY <1>1, <1>5, DispatchFacts DEF Current
  <1>7. Round'
    BY <1>1, <1>3, DispatchFacts DEF Round, Ready
  <1> QED
    BY <1>1, <1>4, <1>6, <1>7, DispatchFacts DEF IInv

(* The cover comes back; while Klipper is ready and connected, an event    *)
(* that brings it back has a new round behind it.                          *)
LEMMA DisconnectedStep ==
  ASSUME IInv, disconnected
  PROVE  IInv'
  <1>1. /\ inbox # <<>> /\ inbox' = Tail(inbox) /\ UNCHANGED ext
        /\ Head(inbox).kind \in Gone /\ cover' = TRUE
        /\ UNCHANGED <<srv, objs, status, sensors>>
    BY DEF disconnected, Heard, Gone
  <1>2. Head(inbox).kind \notin Resets
    BY <1>1 DEF Resets, Gone
  <1>3. cover' \in BOOLEAN
    BY <1>1
  <1>4. Typed'
    BY <1>1, <1>3, DispatchFacts DEF IInv, Typed
  <1>5. Ready => Has(inbox', Resets)
    BY <1>1, DispatchFacts DEF Good
  <1>6. Current' /\ Round'
    BY <1>1, <1>5, DispatchFacts DEF Current, Round
  <1> QED
    BY <1>1, <1>4, <1>6, DispatchFacts DEF IInv

(* The object list: when it is the last one, everything is asked for.      *)
LEMMA ObjectsStep ==
  ASSUME IInv, handle_objects
  PROVE  IInv'
  <1> DEFINE e == Head(inbox)
  <1>1. /\ inbox # <<>> /\ inbox' = Tail(inbox) /\ UNCHANGED ext /\ e.kind = "list"
        /\ objs' = IF e.ok THEN DOMAIN e.found ELSE objs
        /\ sensors' = create_sensors(objs')
        /\ IF e.ok THEN Send("subscribe", objs') ELSE UNCHANGED srv
        /\ UNCHANGED <<status, cover>>
    BY DEF handle_objects, Heard
  <1>2. e \in Event /\ e.found \in Tables
    BY <1>1, DispatchFacts DEF Event
  <1>3. objs' \in SUBSET Objects
    BY <1>1, <1>2, TableFacts DEF IInv, Typed
  <1>4. sensors' \in Tables /\ DOMAIN sensors' = get_display_sensors(objs')
    BY <1>1, <1>3, CreateFacts
  <1>5. /\ srv' \in Seq(Request)
        /\ up /\ e.ok => /\ srv' # <<>>
                         /\ srv'[Len(srv')] = [kind |-> "subscribe", objects |-> objs']
    <2>1. CASE e.ok
      BY <1>1, <1>3, <2>1, SendFacts DEF IInv
    <2>2. CASE ~e.ok
      BY <1>1, <2>2 DEF IInv, Typed
    <2> QED
      BY <2>1, <2>2
  <1> HIDE DEF e
  <1>6. Typed'
    BY <1>1, <1>3, <1>4, <1>5, DispatchFacts DEF IInv, Typed
  <1>7. e.kind \notin Resets
    BY <1>1 DEF Resets
  <1>8. Has(inbox', Resets) <=> Has(inbox, Resets)
    BY <1>1, <1>7, DispatchFacts DEF e
  <1>9. Current'
    BY <1>1, <1>8, DispatchFacts DEF IInv, Current
  <1>10. ASSUME Ready, ~Has(inbox', Resets)
         PROVE  Listed'
    <2>1. Good(e, boot) /\ up
      BY <1>1, <1>10, DispatchFacts DEF e, Ready
    <2>2. e.ok /\ DOMAIN e.found = Config[boot]
      BY <1>1, <2>1 DEF Good
    <2>3. objs' = Config[boot]
      BY <1>1, <2>2
    <2>4. boot' = boot
      BY <1>1, DispatchFacts
    <2>5. DOMAIN sensors' = get_display_sensors(Config[boot'])
      BY <1>4, <2>3, <2>4
    <2> QED
      BY <1>5, <2>1, <2>2, <2>3, <2>4, <2>5 DEF Listed
  <1>11. Round'
    BY <1>1, <1>10, DispatchFacts DEF Round
  <1> QED
    BY <1>1, <1>6, <1>9, <1>11, DispatchFacts DEF IInv

(* A report, the first of a subscription or a later one, is merged into    *)
(* State and shown on the sensors.                                         *)
LEMMA ReportStep ==
  ASSUME IInv, handle_subscribed \/ consume
  PROVE  IInv'
  <1> DEFINE e == Head(inbox)
  <1>1. /\ inbox # <<>> /\ inbox' = Tail(inbox) /\ UNCHANGED ext /\ e.kind \in Reports
        /\ status' = Merge(status, e.found) /\ sensors' = update_sensors(e.found)
        /\ UNCHANGED <<srv, objs>>
    BY DEF handle_subscribed, consume, Heard, Reports
  <1>2. cover' \in BOOLEAN
    BY DEF handle_subscribed, consume, IInv, Typed
  <1>3. /\ e.kind = "subscribe" => ~cover'
        /\ ~cover => ~cover'
    BY DEF handle_subscribed, consume, Heard
  <1>4. e \in Event /\ e.found \in Tables /\ status \in Tables /\ sensors \in Tables
    BY <1>1, DispatchFacts DEF Event, IInv, Typed
  <1> HIDE DEF e
  <1>5. /\ status' \in Tables /\ DOMAIN status' = DOMAIN status \cup DOMAIN e.found
        /\ \A o \in DOMAIN e.found : status'[o] = e.found[o]
        /\ \A o \in DOMAIN status : o \notin DOMAIN e.found => status'[o] = status[o]
    BY <1>1, <1>4, MergeFacts
  <1>6. /\ sensors' \in Tables /\ DOMAIN sensors' = DOMAIN sensors
        /\ \A o \in DOMAIN sensors :
             sensors'[o] = IF o \in DOMAIN e.found THEN e.found[o] ELSE sensors[o]
    BY <1>1, <1>4, SensorFacts
  <1>7. Typed'
    BY <1>1, <1>2, <1>5, <1>6, DispatchFacts DEF IInv, Typed
  <1>8. e.kind \notin Resets /\ e.kind # "list"
    BY <1>1 DEF Resets, Reports
  <1>9. /\ Has(inbox', Resets) <=> Has(inbox, Resets)
        /\ Has(inbox', {"list"}) <=> Has(inbox, {"list"})
    BY <1>1, <1>8, DispatchFacts DEF e
  <1>10. ASSUME Ready, ~Has(inbox', Resets)
         PROVE  OfBoot(status', boot)
    <2>1. Good(e, boot) /\ OfBoot(status, boot)
      BY <1>1, <1>9, <1>10, DispatchFacts DEF e, IInv, Current
    <2> QED
      BY <1>5, <2>1 DEF Good, OfBoot
  <1>11. Current'
    BY <1>1, <1>10, DispatchFacts DEF Current
  <1>12. ASSUME Subscribed
         PROVE  Subscribed'
    <2>1. ~cover' \/ Has(inbox', {"subscribe"})
      BY <1>1, <1>3, <1>12, DispatchFacts DEF Subscribed, e
    <2>2. ASSUME NEW o \in Config[boot]
          PROVE  Leads(inbox', status', sensors', o, printer[o])
      <3>1. Leads(inbox, status, sensors, o, printer[o])
        BY <1>12 DEF Subscribed
      <3>2. Reporting(e, o) =>
              /\ o \in DOMAIN status' /\ status'[o] = e.found[o]
              /\ o \in DOMAIN sensors => sensors'[o] = e.found[o]
        BY <1>5, <1>6 DEF Reporting
      <3>3. ~Reporting(e, o) =>
              /\ o \in DOMAIN status => o \in DOMAIN status' /\ status'[o] = status[o]
              /\ o \in DOMAIN sensors => sensors'[o] = sensors[o]
        BY <1>1, <1>5, <1>6 DEF Reporting
      <3>4. Leads(Tail(inbox), status', sensors', o, printer[o])
        BY <1>1, <1>6, <3>1, <3>2, <3>3, DispatchFacts, LeadsTail DEF e
      <3> QED
        BY <1>1, <3>4
    <2> QED
      BY <1>1, <1>12, <2>1, <2>2, DispatchFacts DEF Subscribed
  <1>13. Listed => Listed'
    BY <1>1, <1>6, <1>12, DispatchFacts DEF Listed
  <1>14. Round'
    BY <1>1, <1>9, <1>13, DispatchFacts DEF IInv, Round
  <1> QED
    BY <1>1, <1>7, <1>11, <1>14, DispatchFacts DEF IInv

(* The invariant holds after every step.                                   *)
LEMMA Inductive == IInv /\ [Next]_vars => IInv'
  <1> SUFFICES ASSUME IInv, [Next]_vars PROVE IInv'
    OBVIOUS
  <1>1. CASE Outside
    BY <1>1, OutsideStep
  <1>2. CASE Dispatch
    BY <1>2, ConnectedStep, DisconnectedStep, ObjectsStep, ReportStep DEF Dispatch
  <1>3. CASE UNCHANGED vars
    <2>1. UNCHANGED <<up, klippy, boot, printer, changes, subscribed, srv, inbox,
                      objs, status, sensors, cover>>
      BY <1>3 DEF vars, ext, gui
    <2>2. Typed' /\ Booted'
      BY <2>1 DEF IInv, Typed, Booted
    <2>3. Listed => Listed'
      BY <2>1 DEF Listed, Subscribed
    <2>4. Current' /\ Round'
      BY <2>1, <2>3 DEF IInv, Current, Round, Ready
    <2> QED
      BY <2>2, <2>4 DEF IInv
  <1> QED
    BY <1>1, <1>2, <1>3 DEF Next, Outside

(* The inductive invariant holds throughout.                               *)
THEOREM Invariant == Spec => []IInv
  BY Initial, Inductive, PTL DEF Spec

(* Types of State, of the sensors and of the cover, for any configurations *)
(* (State::set_data, MainPanel::create_sensors, InitPanel).                *)
THEOREM TypeCorrect == Spec => []TypeOK
  <1>1. IInv => TypeOK
    BY TableFacts DEF IInv, Typed, TypeOK
  <1> QED
    BY Invariant, <1>1, PTL

(* From the moment InitPanel has dispatched the last coming of the socket  *)
(* and of Klipper, State holds nothing of an earlier boot, however late    *)
(* the replies of earlier rounds come (InitPanel::connected, State::reset).*)
THEOREM ThisBoot == Spec => []StateOfThisBoot
  <1>1. IInv => StateOfThisBoot
    <2> SUFFICES ASSUME IInv, Settled
                 PROVE  OfBoot(status, boot)
      BY DEF StateOfThisBoot, OfBoot
    <2>1. Ready /\ ~Has(inbox, Resets)
      BY DEF Settled, Ready, Has, Resets
    <2> QED
      BY <2>1 DEF IInv, Current
  <1> QED
    BY Invariant, <1>1, PTL

(* When nothing is under way and Klipper is ready, the screen is uncovered *)
(* and State and sensors have the printer's values, whatever reconnects,   *)
(* restarts and overlapping rounds came before.                            *)
THEOREM Agrees == Spec => []QuiescentAgrees
  <1>1. IInv => QuiescentAgrees
    <2> SUFFICES ASSUME IInv, up, klippy = "ready", inbox = <<>>, srv = <<>>
                 PROVE  /\ ~cover /\ objs = Config[boot] /\ status = printer
                        /\ sensors = [o \in get_display_sensors(Config[boot]) |-> printer[o]]
      BY DEF QuiescentAgrees
    <2>1. Ready /\ \A K : ~Has(inbox, K) /\ ~Has(srv, K)
      BY DEF Ready, Has
    <2>2. Listed
      BY <2>1 DEF IInv, Round
    <2>3. Subscribed
      BY <2>2 DEF Listed
    <2>4. ~cover /\ objs = Config[boot]
      BY <2>1, <2>2, <2>3 DEF Listed, Subscribed
    <2>5. \A o \in Config[boot] :
            /\ o \in DOMAIN status /\ status[o] = printer[o]
            /\ o \in DOMAIN sensors => sensors[o] = printer[o]
      BY <2>3 DEF Subscribed, Leads
    <2>6. /\ DOMAIN status = Config[boot] /\ DOMAIN printer = Config[boot]
          /\ DOMAIN sensors = get_display_sensors(Config[boot])
      BY <2>1, <2>2, <2>5 DEF IInv, Current, Booted, Listed, OfBoot
    <2>7. get_display_sensors(Config[boot]) \subseteq Config[boot]
      BY DEF get_display_sensors
    <2>8. /\ status = [o \in DOMAIN status |-> status[o]]
          /\ printer = [o \in DOMAIN printer |-> printer[o]]
          /\ sensors = [o \in DOMAIN sensors |-> sensors[o]]
      BY TableFacts DEF IInv, Typed
    <2>9. status = printer
      BY <2>5, <2>6, <2>8
    <2>10. sensors = [o \in get_display_sensors(Config[boot]) |-> printer[o]]
      BY <2>5, <2>6, <2>7, <2>8
    <2> QED
      BY <2>4, <2>9, <2>10
  <1> QED
    BY Invariant, <1>1, PTL
==============================================================================
