--------------------------------- MODULE Wifi ---------------------------------
(***************************************************************************)
(* The Wi-Fi panel (src/src/wifi_panel.cpp) and the events of              *)
(* wpa_supplicant (src/src/wpa_event.cpp).  WpaEvent's thread queues the   *)
(* events; a timer on the LVGL thread drains the queue and hands each one  *)
(* to the panel, which answers by asking wpa_supplicant how things are by  *)
(* then.  So an event, what the panel reads on its account, and what the   *)
(* user has selected meanwhile may belong to three different moments.      *)
(*                                                                         *)
(* wpa_supplicant is modelled as far as its networks, the current one, its *)
(* scans and its events go.  Commands are answered; the panel is the only  *)
(* one to edit networks.  A name is the text wpa_supplicant lists, with    *)
(* quotes, backslashes and bytes that are not ASCII escaped.  A password   *)
(* is the network it was typed for; one that holds a quote or a backslash  *)
(* is stored with more backslashes, and is then a wrong key (Refused).     *)
(* Left out: what the label says except for "Connecting to ...", the       *)
(* spinner, signal strengths, the order of the table's rows, whether the   *)
(* password box is visible (the keyboard decides what can be typed),       *)
(* SAVE_CONFIG, a control socket that is missing, a name of more than 32   *)
(* bytes once it is escaped.                                               *)
(***************************************************************************)
EXTENDS Integers, Sequences

CONSTANTS
  Networks,    \* the networks there are, by the names a scan lists them under
  Stored,      \* the name under which a network the panel set up is listed
  Saved,       \* names wpa_supplicant may have a network for at start
  Doubled,     \* those among them an earlier version may have left several of
  Configured,  \* how many networks wpa_supplicant may have at start
  QueueMax,    \* queue_max (128 in the code)
  MaxTouches,  \* bound: rows selected, passwords sent or left, networks forgotten, Back
  MaxScans,    \* bound: scans asked for by opening the panel
  MaxMishaps   \* bound: networks that come or leave, links lost, attempts refused

None == "none"   \* no network, no event: the empty string in the code

\* SET_NETWORK ssid: the panel quotes the listed name and escapes it once more
\* ({:?}), wpa_config_parse_string takes what is between the quotes as it is, and
\* LIST_NETWORKS escapes that again (printf_encode).  A name of plain characters
\* stays as it was; any other becomes a longer one, never twice the same.
Names == Networks \cup {Stored[n] : n \in Networks}
Plain == {n \in Networks : Stored[n] = n}
ListedAs(n) == {n} \cup {Stored[m] : m \in {n} \cap Networks}

ASSUME WifiAssumption ==
  /\ DOMAIN Stored = Networks
  /\ \A m, n \in Networks : Stored[m] = Stored[n] => m = n
  /\ None \notin Names /\ Saved \subseteq Names /\ Doubled \subseteq Saved
  /\ Configured \subseteq Nat /\ QueueMax \in Nat \ {0} /\ MaxTouches \in Nat /\ MaxScans \in Nat
  /\ MaxMishaps \in Nat

VARIABLES
  air,      \* the networks in range
  wpa,      \* wpa_supplicant
  queue,    \* events waiting for the LVGL thread (queue_lock)
  lost,     \* history: an event was dropped from the full queue
  batch,    \* events drain() took and has not handled yet
  handling, \* the event handle_wpa_event was called with, or None
  ui,       \* WifiPanel; ui.connecting: whom the label says it is connecting to
  used      \* bounds used up

thread == <<queue, batch, handling, lost>>
vars == <<air, wpa, thread, ui, used>>

NoId == -1
Events == {"SCAN-RESULTS", "CONNECTED", "FAILED"}

Without(f, x) == [y \in DOMAIN f \ {x} |-> f[y]]
With(f, x, v) == [y \in DOMAIN f \cup {x} |-> IF y = x THEN v ELSE f[y]]

\* At start wpa_supplicant has the networks of its configuration, ids from 0, and
\* looks for them.
Init ==
  /\ air = Networks
  /\ \E k \in Configured : \E ids \in [0..(k - 1) -> Saved] :
       /\ \A i, j \in DOMAIN ids : ids[i] = ids[j] => i = j \/ ids[i] \in Doubled
       /\ wpa = [blocks |-> [i \in DOMAIN ids |-> [ssid |-> ids[i], psk |-> ids[i]]],
                 enabled |-> DOMAIN ids, current |-> NoId, phase |-> "idle",
                 scan |-> IF k = 0 THEN "none" ELSE "running"]
  /\ queue = <<>> /\ batch = <<>> /\ handling = None /\ lost = FALSE
  /\ ui = [front |-> FALSE, table |-> FALSE, prompt |-> FALSE, kb |-> FALSE, forget |-> FALSE,
           connecting |-> None, typed |-> None, selected_network |-> None, cur_network |-> None,
           list_networks |-> [n \in {} |-> NoId], wifi_name_db |-> {}, rows |-> {}]
  /\ used = [touches |-> 0, scans |-> 0, mishaps |-> 0]

-----------------------------------------------------------------------------
(* wpa_supplicant: its commands                                            *)
(* phase is "idle" below WPA_AUTHENTICATING, "on" at WPA_COMPLETED.        *)

\* Networks that may be tried: enabled, and with a key (wpas_network_disabled).
Usable(w) == {i \in w.enabled : w.blocks[i].psk # None}
InAir(w) == {i \in Usable(w) : w.blocks[i].ssid \in air}

\* A scan of its own is done only when there is a network to look for.
Rescan(w) == [w EXCEPT !.scan = IF Usable(w) = {} THEN @ ELSE "running"]

\* wpa_supplicant_mark_disassoc, and the search that follows.
Drop(w) == Rescan([w EXCEPT !.phase = "idle", !.current = NoId])

\* All networks but this one are disabled.  It is the current one from now on,
\* found or not; it is tried at once when recent scan results have it.
SELECT_NETWORK(w, i, fast) ==
  LET v == [w EXCEPT !.enabled = {i}, !.current = i]
  IN  IF w.current = i /\ w.phase # "idle" THEN v
      ELSE IF fast /\ i \in InAir(v) THEN [v EXCEPT !.phase = "trying"]
      ELSE Rescan([v EXCEPT !.phase = "idle"])

REMOVE_NETWORK(w, i) ==
  LET v == [w EXCEPT !.blocks = Without(@, i), !.enabled = @ \ {i}]
  IN  IF w.current = i THEN Drop(v) ELSE v

\* One more than the highest id in use: ids are used again.
NewId(w) ==
  LET ids == DOMAIN w.blocks
  IN  IF ids = {} THEN 0 ELSE 1 + CHOOSE i \in ids : \A j \in ids : j <= i

\* ADD_NETWORK, SET_NETWORK ssid and psk.  A password of fewer than 8 or more than
\* 63 characters is refused: the network has none then.
ADD_NETWORK(w, n, p, fits) ==
  [w EXCEPT !.blocks = With(@, NewId(w), [ssid |-> Stored[n], psk |-> IF fits THEN p ELSE None])]

\* LIST_NETWORKS, as find_current_network reads it: the first line of an SSID.
LIST_NETWORKS(w) ==
  [n \in {w.blocks[i].ssid : i \in DOMAIN w.blocks} |->
     LET ids == {i \in DOMAIN w.blocks : w.blocks[i].ssid = n}
     IN  CHOOSE i \in ids : \A j \in ids : i <= j]

-----------------------------------------------------------------------------
(* WpaEvent's thread, and what happens around wpa_supplicant               *)

MutQueueOneMore(ev) ==
  /\ queue' = Append(IF Len(queue) > QueueMax THEN Tail(queue) ELSE queue, ev)
  /\ lost' = (lost \/ Len(queue) > QueueMax)
  /\ UNCHANGED <<batch, handling>>

MutQueueDropsEarly(ev) ==
  /\ queue' = Append(IF Len(queue) + 1 >= QueueMax /\ queue # <<>> THEN Tail(queue) ELSE queue, ev)
  /\ lost' = (lost \/ Len(queue) + 1 >= QueueMax)
  /\ UNCHANGED <<batch, handling>>

handle_wpa_events(ev) ==
  /\ queue' = Append(IF Len(queue) >= QueueMax THEN Tail(queue) ELSE queue, ev)
  /\ lost' = (lost \/ Len(queue) >= QueueMax)
  /\ UNCHANGED <<batch, handling>>

\* The results are there; a network is selected from them unless one is tried.
ScanDone ==
  /\ wpa.scan = "running"
  /\ wpa' = [wpa EXCEPT !.scan = IF wpa.phase = "idle" THEN "done" ELSE "none"]
  /\ handle_wpa_events("SCAN-RESULTS")
  /\ UNCHANGED <<air, ui, used>>

\* A network that was found is tried, ...
Tries(i) ==
  /\ wpa.scan = "done" /\ wpa.phase = "idle" /\ i \in InAir(wpa)
  /\ wpa' = [wpa EXCEPT !.phase = "trying", !.current = i, !.scan = "none"]
  /\ UNCHANGED <<air, thread, ui, used>>

\* ... or none was: NETWORK-NOT-FOUND, and the current one stays the current one.
NotFound ==
  /\ wpa.scan = "done" /\ wpa.phase = "idle" /\ InAir(wpa) = {}
  /\ wpa' = Rescan([wpa EXCEPT !.scan = "none"])
  /\ handle_wpa_events("FAILED")
  /\ UNCHANGED <<air, ui, used>>

Current == wpa.blocks[wpa.current]
Mishap == used.mishaps < MaxMishaps /\ used' = [used EXCEPT !.mishaps = @ + 1]

Associated ==
  /\ wpa.phase = "trying" /\ Current.ssid \in air
  /\ wpa' = [wpa EXCEPT !.phase = "on"]
  /\ handle_wpa_events("CONNECTED")
  /\ UNCHANGED <<air, ui, used>>

\* Rejected, or a wrong key.
Refused ==
  /\ wpa.phase = "trying" /\ Current.ssid \in air
  /\ Mishap
  /\ wpa' = Drop(wpa)
  /\ handle_wpa_events("FAILED")
  /\ UNCHANGED <<air, ui>>

\* No answer: the panel is told nothing.
TimedOut ==
  /\ wpa.phase = "trying" /\ Current.ssid \notin air
  /\ wpa' = Drop(wpa)
  /\ UNCHANGED <<air, thread, ui, used>>

LinkLost ==
  /\ wpa.phase = "on"
  /\ IF Current.ssid \in air THEN Mishap ELSE UNCHANGED used
  /\ wpa' = Drop(wpa)
  /\ UNCHANGED <<air, thread, ui>>

Moves(n) ==
  /\ Mishap
  /\ air' = IF n \in air THEN air \ {n} ELSE air \cup {n}
  /\ UNCHANGED <<wpa, thread, ui>>

-----------------------------------------------------------------------------
(* The LVGL thread: drain()                                                *)

InUi == batch = <<>> /\ handling = None

drain ==
  /\ InUi /\ queue # <<>>
  /\ batch' = queue /\ queue' = <<>>
  /\ UNCHANGED <<air, wpa, handling, lost, ui, used>>

Take ==
  /\ handling = None /\ batch # <<>>
  /\ handling' = Head(batch) /\ batch' = Tail(batch)
  /\ UNCHANGED <<air, wpa, queue, lost, ui, used>>

Handled(ev) == handling = ev /\ handling' = None

\* "Connected to ..." is shown over whatever was asked.
Connected(u) == [u EXCEPT !.connecting = None, !.prompt = TRUE]

\* cur_network stays as it was when there is no current network.
find_current_network(u) ==
  [u EXCEPT !.list_networks = LIST_NETWORKS(wpa),
            !.cur_network = IF wpa.current = NoId THEN @ ELSE wpa.blocks[wpa.current].ssid]

MutFailureIgnored ==
  /\ Handled("FAILED")
  /\ UNCHANGED <<air, wpa, queue, batch, lost, ui, used>>

wpa_event_failed ==
  /\ Handled("FAILED")
  /\ ui' = [ui EXCEPT !.prompt = TRUE, !.connecting = None,
                      !.forget = @ \/ ui.selected_network \in DOMAIN ui.list_networks]
  /\ UNCHANGED <<air, wpa, queue, batch, lost, used>>

\* The table's first rows are filled; the names in rows below them stay.
wpa_event_scan_results ==
  /\ Handled("SCAN-RESULTS")
  /\ \E below \in IF air = {} THEN {ui.rows} ELSE SUBSET ui.rows :
       LET u == [find_current_network(ui) EXCEPT !.wifi_name_db = air, !.table = TRUE,
                                                 !.rows = air \cup below]
       IN  ui' = IF u.cur_network \in air THEN Connected(u) ELSE u
  /\ UNCHANGED <<air, wpa, queue, batch, lost, used>>

\* The rows hold the same names afterwards.
wpa_event_connected ==
  /\ Handled("CONNECTED")
  /\ LET u == find_current_network(ui)
         v == IF u.cur_network \in u.wifi_name_db THEN Connected(u) ELSE u
     IN  ui' = IF wpa.current = NoId THEN u ELSE [v EXCEPT !.table = TRUE]
  /\ UNCHANGED <<air, wpa, queue, batch, lost, used>>

-----------------------------------------------------------------------------
(* The LVGL thread: the user                                               *)

Touch == /\ InUi /\ ui.front /\ used.touches < MaxTouches
         /\ used' = [used EXCEPT !.touches = @ + 1]

foreground ==
  /\ InUi /\ ~ui.front /\ used.scans < MaxScans
  /\ used' = [used EXCEPT !.scans = @ + 1]
  /\ ui' = [ui EXCEPT !.front = TRUE]
  /\ wpa' = [wpa EXCEPT !.scan = "running"]
  /\ UNCHANGED <<air, thread>>

handle_back_btn ==
  /\ Touch
  /\ ui' = [ui EXCEPT !.front = FALSE, !.table = FALSE, !.prompt = FALSE]
  /\ UNCHANGED <<air, wpa, thread>>

MutSelectedKeepsText(n) ==
  [ui EXCEPT !.selected_network = n, !.prompt = TRUE,
             !.forget = n \in DOMAIN ui.list_networks]

\* The panel once n is selected: what was typed for another network is gone.
Selected(n) ==
  [ui EXCEPT !.selected_network = n, !.prompt = TRUE,
             !.typed = IF n = ui.selected_network THEN @ ELSE None,
             !.forget = n \in DOMAIN ui.list_networks]

hide_keyboard(u) == [u EXCEPT !.kb = FALSE]

\* The network the panel takes for the present one: nothing is done.
select_current(n) ==
  /\ Touch /\ ui.table /\ n = ui.cur_network
  /\ ui' = hide_keyboard([Selected(n) EXCEPT !.connecting = None])
  /\ UNCHANGED <<air, wpa, thread>>

select_known(n) ==
  /\ Touch /\ ui.table /\ n # ui.cur_network /\ n \in DOMAIN ui.list_networks
  /\ ui' = hide_keyboard([Selected(n) EXCEPT !.connecting = n])
  /\ \E fast \in BOOLEAN : wpa' = SELECT_NETWORK(wpa, ui.list_networks[n], fast)
  /\ UNCHANGED <<air, thread>>

select_new(n) ==
  /\ Touch /\ ui.table /\ n # ui.cur_network /\ n \notin DOMAIN ui.list_networks
  /\ ui' = [Selected(n) EXCEPT !.connecting = None, !.kb = TRUE]
  /\ UNCHANGED <<air, wpa, thread>>

\* A click beside the keyboard: LV_EVENT_DEFOCUSED.
defocused ==
  /\ Touch /\ ui.prompt
  /\ ui' = [hide_keyboard(ui) EXCEPT !.connecting = None]
  /\ UNCHANGED <<air, wpa, thread>>

\* A key: the text is of one network as long as all of it was typed for that one.
type ==
  /\ InUi /\ ui.front /\ ui.kb
  /\ ui' = [ui EXCEPT !.typed = IF @ \in {None, ui.selected_network}
                                THEN ui.selected_network ELSE "mixed"]
  /\ UNCHANGED <<air, wpa, thread, used>>

\* connect(): a network already there is replaced.
connect(w, u, fits, fast) ==
  LET n == u.selected_network
      w1 == IF n \in DOMAIN u.list_networks THEN REMOVE_NETWORK(w, u.list_networks[n]) ELSE w
  IN  SELECT_NETWORK(ADD_NETWORK(w1, n, u.typed, fits), NewId(w1), fast)

\* OK on the keyboard: LV_EVENT_READY.
ready ==
  /\ Touch /\ ui.kb /\ ui.typed # None
  /\ \E fits, fast \in BOOLEAN : wpa' = connect(wpa, ui, fits, fast)
  /\ ui' = hide_keyboard([ui EXCEPT
             !.list_networks = With(@, ui.selected_network, wpa'.current),
             !.typed = None, !.connecting = ui.selected_network])
  /\ UNCHANGED <<air, thread>>

MutForgetKeepsId ==
  /\ Touch /\ ui.prompt /\ ui.forget
  /\ LET n == ui.selected_network
     IN  IF n \notin DOMAIN ui.list_networks THEN UNCHANGED <<wpa, ui>>
         ELSE /\ wpa' = REMOVE_NETWORK(wpa, ui.list_networks[n])
              /\ ui' = [ui EXCEPT !.forget = FALSE, !.connecting = None]
  /\ UNCHANGED <<air, thread>>

forget_network ==
  /\ Touch /\ ui.prompt /\ ui.forget
  /\ LET n == ui.selected_network
     IN  IF n \notin DOMAIN ui.list_networks THEN UNCHANGED <<wpa, ui>>
         ELSE /\ wpa' = REMOVE_NETWORK(wpa, ui.list_networks[n])
              /\ ui' = [ui EXCEPT !.list_networks = Without(@, n),
                                  !.cur_network = IF @ = n THEN None ELSE @,
                                  !.forget = FALSE, !.connecting = None]
  /\ UNCHANGED <<air, thread>>

-----------------------------------------------------------------------------
Selects == NotFound \/ \E i \in wpa.enabled : Tries(i)
Attempt == Associated \/ Refused \/ TimedOut
Supplicant == ScanDone \/ Selects \/ Attempt

Timer == drain \/ Take \/ wpa_event_failed \/ wpa_event_scan_results \/ wpa_event_connected

User ==
  \/ foreground \/ handle_back_btn \/ defocused \/ type \/ ready \/ forget_network
  \/ \E n \in ui.rows : select_current(n) \/ select_known(n) \/ select_new(n)

World == LinkLost \/ \E n \in Networks : Moves(n)

Next == Supplicant \/ Timer \/ User \/ World

\* The drain timer runs every 200 ms, and what is queued is handled; a scan
\* finishes, its results are used, and an attempt ends.
Spec == Init /\ [][Next]_vars /\ WF_vars(Timer) /\ WF_vars(ScanDone)
        /\ WF_vars(Selects) /\ WF_vars(Attempt)

-----------------------------------------------------------------------------
\* Types of the panel's and of wpa_supplicant's state.
TypeOK ==
  /\ queue \in Seq(Events) /\ Len(queue) <= QueueMax /\ batch \in Seq(Events)
  /\ handling \in Events \cup {None}
  /\ wpa.current \in DOMAIN wpa.blocks \cup {NoId} /\ wpa.enabled \subseteq DOMAIN wpa.blocks
  /\ wpa.phase \in {"trying", "on"} => wpa.current # NoId
  /\ ui.selected_network \in Networks \cup {None} /\ ui.cur_network \in Names \cup {None}
  /\ DOMAIN ui.list_networks \subseteq Names /\ ui.rows \subseteq Networks
  /\ ui.wifi_name_db \subseteq Networks /\ ui.typed \in Networks \cup {None, "mixed"}

\* "Replace rather than accumulate": wpa_supplicant has at most one network of a
\* plain name, unless it started with several.  "Anything already typed belongs to
\* the network it was typed for": a network's password is none, the one it started
\* with, or one typed for the name it was set up for, plain or not.
BlocksSound ==
  /\ \A i, j \in DOMAIN wpa.blocks :
       wpa.blocks[i].ssid = wpa.blocks[j].ssid /\ wpa.blocks[i].ssid \in Plain \ Doubled => i = j
  /\ \A i \in DOMAIN wpa.blocks :
       wpa.blocks[i].psk = None \/ wpa.blocks[i].ssid \in ListedAs(wpa.blocks[i].psk)

\* The id the panel holds for a name is the id of the network wpa_supplicant lists
\* under it, or of the one the panel set up for it, although ids are used again:
\* Forget removes, and a selection picks, the network that was named; no two names
\* have one id, and for a plain name Forget is offered only when it is there.
IdsExact ==
  /\ \A n \in DOMAIN ui.list_networks :
       /\ ui.list_networks[n] \in DOMAIN wpa.blocks
       /\ wpa.blocks[ui.list_networks[n]].ssid \in ListedAs(n)
       /\ \A m \in DOMAIN ui.list_networks : ui.list_networks[m] = ui.list_networks[n] => m = n
  /\ ui.forget /\ ui.selected_network \in Plain => ui.selected_network \in DOMAIN ui.list_networks

\* The queue and the drained batch together are a lossy FIFO mailbox.
Box == INSTANCE Mailbox WITH Events <- Events, Cap <- QueueMax, None <- None,
                             box <- batch \o queue, got <- handling
MailboxSpec == Box!Spec

Connecting(n) == ui.connecting = n /\ n \in ui.wifi_name_db

\* wpa_supplicant refused the password the panel sent for the selected network.
NoKey == wpa.current # NoId /\ Current.psk = None

\* "Connecting to X ..." does not stay: the attempt's success or failure takes it
\* away, as long as no event was dropped, X was in the latest scan and the password
\* was not refused for its length.
ConnectingSettles == \A n \in Networks : Connecting(n) ~> (~Connecting(n) \/ lost \/ NoKey)

\* The same whatever the password: "Connecting to X ..." can no longer be set and
\* never cleared (wpa_failure_reason).
EveryAttemptSettles == \A n \in Networks : Connecting(n) ~> (~Connecting(n) \/ lost)
=============================================================================
