-------------------------------- MODULE Session --------------------------------
(***************************************************************************)
(* A session with the printer: InitPanel (src/src/init_panel.cpp), the     *)
(* shared State (src/src/state.cpp) and what MainPanel                     *)
(* (src/src/main_panel.cpp) builds from them.  Whenever the websocket      *)
(* opens, and whenever Klipper becomes ready, InitPanel::connected clears  *)
(* State and asks for the object list, then subscribes to the objects,     *)
(* then uncovers the screen; updates are merged into State from then on.   *)
(* The steps are separate replies, and the socket, Klipper and a second    *)
(* round of the same steps may come between any two of them.               *)
(*                                                                         *)
(* The websocket is the FIFO WsClient establishes, with nothing dropped.   *)
(* Moonraker (external) answers in order and forgets subscriptions when    *)
(* the socket or Klipper goes.  A status is one value per object; fans and *)
(* leds are built like sensors.  Left out: replies that only file data     *)
(* (printer.info, roots, console, settings, power devices), spoolman.      *)
(***************************************************************************)
EXTENDS Naturals, Sequences

CONSTANTS
  Objects,    \* printer objects there can be
  Config,     \* per boot of Klipper, the objects its configuration has
  Monitored,  \* objects the user chose to monitor (monitored_sensors)
  MaxOpens,   \* bound: times the websocket opens
  MaxChanges  \* bound: times a value changes

MaxBoots == Len(Config)

ASSUME SessionAssumption == /\ Config \in Seq(SUBSET Objects) /\ Monitored \subseteq Objects
                            /\ MaxOpens \in Nat /\ MaxChanges \in Nat

VARIABLES
  up, sock,   \* libhv: the socket is open; times it has opened
  klippy,     \* Klipper: "down", "starting" or "ready"
  boot,       \* Klipper: boots so far
  printer,    \* Klipper: object -> value
  changes,    \* bound used up; also the value a change gives
  subscribed, \* Moonraker: objects this connection is subscribed to
  srv,        \* Moonraker: requests received on this connection, in order
  inbox,      \* events queued for the LVGL thread, oldest first
  objs,       \* State: printer_objs
  status,     \* State: printer_state, object -> value
  sensors,    \* MainPanel: sensor on screen -> value it shows
  cover       \* the "Waiting for printer" panel covers the screen

ext == <<up, sock, klippy, boot, printer, changes, subscribed>>
gui == <<objs, status, sensors, cover>>
vars == <<ext, srv, inbox, gui>>

Empty == [o \in {} |-> 0]
Blank == [boot |-> 0, n |-> 0]
Value == [boot : 0..MaxBoots, n : 0..MaxChanges]

\* Events: found is the objects listed, or the values reported.
Ev(kind, ok, found) == [kind |-> kind, ok |-> ok, found |-> found]
Bare(kind) == Ev(kind, TRUE, Empty)

\* f with the values of g: json::merge_patch on objects.
Merge(f, g) == [o \in DOMAIN f \cup DOMAIN g |-> IF o \in DOMAIN g THEN g[o] ELSE f[o]]

Init ==
  /\ up = FALSE /\ sock = 0 /\ klippy = "down" /\ boot = 0 /\ printer = Empty
  /\ changes = 0 /\ subscribed = {} /\ srv = <<>> /\ inbox = <<>>
  /\ objs = {} /\ status = Empty /\ sensors = Empty /\ cover = TRUE

-----------------------------------------------------------------------------
(* The socket, Klipper and Moonraker                                       *)

Tell(ev) == inbox' = IF up THEN Append(inbox, ev) ELSE inbox

Open ==
  /\ ~up /\ sock < MaxOpens
  /\ up' = TRUE /\ sock' = sock + 1
  /\ inbox' = Append(inbox, Bare("connected"))
  /\ UNCHANGED <<klippy, boot, printer, changes, subscribed, srv, gui>>

Close ==
  /\ up /\ sock < MaxOpens
  /\ up' = FALSE /\ subscribed' = {} /\ srv' = <<>>
  /\ inbox' = Append(inbox, Bare("disconnected"))
  /\ UNCHANGED <<sock, klippy, boot, printer, changes, gui>>

\* Klipper starts, with the configuration of this boot.
KlippyStarts ==
  /\ klippy = "down" /\ boot < MaxBoots
  /\ klippy' = "starting" /\ boot' = boot + 1
  /\ printer' = [o \in Config[boot'] |-> [boot |-> boot', n |-> 0]]
  /\ UNCHANGED <<up, sock, changes, subscribed, srv, inbox, gui>>

KlippyReady ==
  /\ klippy = "starting" /\ klippy' = "ready"
  /\ Tell(Bare("klippy_ready"))
  /\ UNCHANGED <<up, sock, boot, printer, changes, subscribed, srv, gui>>

KlippyGone ==
  /\ klippy # "down" /\ klippy' = "down" /\ subscribed' = {}
  /\ Tell(Bare("klippy_disconnected"))
  /\ UNCHANGED <<up, sock, boot, printer, changes, srv, gui>>

Change(o) ==
  /\ klippy # "down" /\ changes < MaxChanges /\ changes' = changes + 1
  /\ printer' = [printer EXCEPT ![o].n = changes']
  /\ inbox' = IF o \in subscribed
              THEN Append(inbox, Ev("status", TRUE, [x \in {o} |-> printer'[o]]))
              ELSE inbox
  /\ UNCHANGED <<up, sock, klippy, boot, subscribed, srv, gui>>

\* The next request is answered, with an error while Klipper is down.  A new
\* subscription takes the place of the one before; objects it names that this
\* boot does not have are not reported.
Serve ==
  /\ srv # <<>> /\ srv' = Tail(srv)
  /\ LET r == Head(srv)
         known == IF klippy = "down" THEN {}
                  ELSE IF r.kind = "list" THEN DOMAIN printer
                  ELSE r.objects \cap DOMAIN printer
     IN  /\ inbox' = Append(inbox, Ev(r.kind, klippy # "down", [o \in known |-> printer[o]]))
         /\ subscribed' = IF r.kind = "subscribe" /\ klippy # "down" THEN known ELSE subscribed
  /\ UNCHANGED <<up, sock, klippy, boot, printer, changes, gui>>

-----------------------------------------------------------------------------
(* State and MainPanel                                                     *)

\* What was asked for and is there, or everything that is there.
get_display_sensors(os) == IF os \cap Monitored = {} THEN os ELSE os \cap Monitored

MutCreateSensorsOnce(os) ==
  IF sensors = Empty THEN [o \in get_display_sensors(os) |-> Blank] ELSE sensors

create_sensors(os) == [o \in get_display_sensors(os) |-> Blank]

\* Sensors whose object is in the report show what it says (init, consume).
update_sensors(found) ==
  [o \in DOMAIN sensors |-> IF o \in DOMAIN found THEN found[o] ELSE sensors[o]]

-----------------------------------------------------------------------------
(* The LVGL thread                                                         *)

Heard(kinds) == inbox # <<>> /\ Head(inbox).kind \in kinds

Send(kind, os) ==
  srv' = IF up THEN Append(srv, [kind |-> kind, objects |-> os]) ELSE srv

MutConnectedKeepsState ==
  /\ Heard({"connected", "klippy_ready"}) /\ inbox' = Tail(inbox)
  /\ Send("list", {})
  /\ UNCHANGED <<ext, objs, status, sensors, cover>>

MutConnectedOnOpen ==
  /\ Heard({"connected", "klippy_ready"}) /\ inbox' = Tail(inbox)
  /\ IF Head(inbox).kind = "connected"
     THEN objs' = {} /\ status' = Empty /\ Send("list", {})
     ELSE UNCHANGED <<objs, status, srv>>
  /\ UNCHANGED <<ext, sensors, cover>>

\* InitPanel::connected, for a new connection and for Klipper becoming ready.
connected ==
  /\ Heard({"connected", "klippy_ready"}) /\ inbox' = Tail(inbox)
  /\ objs' = {} /\ status' = Empty
  /\ Send("list", {})
  /\ UNCHANGED <<ext, sensors, cover>>

disconnected ==
  /\ Heard({"disconnected", "klippy_disconnected"}) /\ inbox' = Tail(inbox)
  /\ cover' = TRUE
  /\ UNCHANGED <<ext, srv, objs, status, sensors>>

MutObjectsStoresNull ==
  /\ Heard({"list"}) /\ inbox' = Tail(inbox)
  /\ objs' = IF Head(inbox).ok THEN DOMAIN Head(inbox).found ELSE {"null"}
  /\ IF Head(inbox).ok THEN Send("subscribe", objs') ELSE UNCHANGED srv
  /\ UNCHANGED <<ext, status, sensors, cover>>

\* The reply to printer.objects.list.  An error files nothing and subscribes to
\* nothing, but sensors are built again from what State has.
handle_objects ==
  /\ Heard({"list"}) /\ inbox' = Tail(inbox)
  /\ objs' = IF Head(inbox).ok THEN DOMAIN Head(inbox).found ELSE objs
  /\ sensors' = create_sensors(objs')
  /\ IF Head(inbox).ok THEN Send("subscribe", objs') ELSE UNCHANGED srv
  /\ UNCHANGED <<ext, status, cover>>

\* The reply to printer.objects.subscribe.  An error files nothing, and uncovers
\* the screen all the same.
handle_subscribed ==
  /\ Heard({"subscribe"}) /\ inbox' = Tail(inbox)
  /\ status' = Merge(status, Head(inbox).found)
  /\ sensors' = update_sensors(Head(inbox).found)
  /\ cover' = FALSE
  /\ UNCHANGED <<ext, srv, objs>>

\* notify_status_update: State::consume, then MainPanel::consume.
consume ==
  /\ Heard({"status"}) /\ inbox' = Tail(inbox)
  /\ status' = Merge(status, Head(inbox).found)
  /\ sensors' = update_sensors(Head(inbox).found)
  /\ UNCHANGED <<ext, srv, objs, cover>>

Dispatch == connected \/ disconnected \/ handle_objects \/ handle_subscribed \/ consume

Next ==
  \/ Open \/ Close \/ KlippyStarts \/ KlippyReady \/ KlippyGone \/ Serve
  \/ \E o \in DOMAIN printer : Change(o)
  \/ Dispatch

\* The LVGL thread dispatches, Moonraker answers.  Nothing is assumed of Klipper
\* or of the network.
Spec == Init /\ [][Next]_vars /\ WF_vars(Dispatch) /\ WF_vars(Serve)

-----------------------------------------------------------------------------
\* Types of State and of what is on screen.
TypeOK ==
  /\ klippy \in {"down", "starting", "ready"} /\ boot \in 0..MaxBoots
  /\ up \in BOOLEAN /\ cover \in BOOLEAN /\ subscribed \subseteq Objects
  /\ objs \in SUBSET Objects
  /\ DOMAIN status \subseteq Objects /\ \A o \in DOMAIN status : status[o] \in Value
  /\ DOMAIN sensors \subseteq Objects /\ \A o \in DOMAIN sensors : sensors[o] \in Value

\* The last coming and going of the socket and of Klipper has been dispatched.
Settled ==
  /\ up /\ klippy = "ready"
  /\ \A i \in DOMAIN inbox : inbox[i].kind \in {"list", "subscribe", "status"}

\* From the moment InitPanel has heard that Klipper is ready, State holds nothing
\* of an earlier boot, whose configuration may have been another: replies asked
\* for before it that come late bring nothing old back.  (Before that moment State
\* can mix two boots, when Klipper restarts during a second round of requests.)
StateOfThisBoot ==
  Settled => \A o \in DOMAIN status : status[o].boot = boot /\ o \in Config[boot]

\* When nothing is under way and Klipper is ready, the screen is uncovered and
\* State and the sensors agree with the printer to the last value, whatever
\* reconnects, restarts and overlapping rounds came before.
QuiescentAgrees ==
  (up /\ klippy = "ready" /\ inbox = <<>> /\ srv = <<>>) =>
    /\ ~cover
    /\ objs = Config[boot] /\ status = printer
    /\ sensors = [o \in get_display_sensors(Config[boot]) |-> printer[o]]

\* A connection that stays and a Klipper that stays ready give a screen that is
\* uncovered and up to date.
SessionComesUp ==
  <>[](up /\ klippy = "ready") => <>[](~cover /\ status = printer)
===============================================================================
