------------------------------ MODULE PrintPanel ------------------------------
(***************************************************************************)
(* PrintPanel (src/src/print_panel.cpp, print_panel.h, tree.h): the file   *)
(* browser, its metadata cache, and the scan protocol with Moonraker over  *)
(* a websocket that comes and goes.                                        *)
(*                                                                         *)
(* A scan (server.files.metascan) may rewrite the gcode file it scans, so  *)
(* Print is held while the selected file is being scanned.  A scan goes on *)
(* at Moonraker when the connection that asked for it is lost, its reply   *)
(* does not come; scans therefore records the connection count each scan   *)
(* was asked under, and the panel asks again after a reconnect.            *)
(*                                                                         *)
(* The websocket is the FIFO that WsClient establishes: events arrive in   *)
(* order, requests and replies die with their connection, connection_id()  *)
(* changes when the Connected event is dispatched, which is later than the *)
(* socket opens.  Moonraker (external) answers requests in order and scans *)
(* one file at a time.  Directories, sorting and scrolling are abstracted: *)
(* the first file of a view is any file of the list.                       *)
(***************************************************************************)
EXTENDS Naturals, Sequences

CONSTANTS
  Files,        \* full paths of gcode files
  MaxOpens,     \* bound: websocket opens
  MaxTaps,      \* bound: things the user does
  MaxNotes      \* bound: announcements and klippy restarts

ASSUME PrintAssumption == MaxOpens \in Nat /\ MaxTaps \in Nat /\ MaxNotes \in Nat

VARIABLES
  up, sock,        \* libhv: the socket is open; how many times it has opened
  disk, stored,    \* Moonraker: version of each file, version its metadata is of (0: none)
  srv,             \* Moonraker: requests received on this connection, in order
  jobs,            \* Moonraker: scans asked for, running one first
  inbox,           \* events queued for the LVGL thread, oldest first
  opened,          \* ws.connection_id()
  tree,            \* path -> [mod, meta]: listed version, cached metadata's version
  cur_file,        \* selected file, None if none
  scans,           \* path -> connection count its scan was asked under (0: no scan)
  unscannable,     \* path -> connection count its scan was refused on (0: never)
  refresh_pending, \* a file list change waits for the refresh timer
  print_btn,       \* the Print button is enabled
  view,            \* path the details on screen describe, None before the first
  taps, notes      \* bounds used up; notes also is the clock of modified times

None == "none"

moonraker == <<disk, stored, jobs>>
panel == <<opened, tree, cur_file, scans, unscannable, refresh_pending, print_btn, view>>
vars == <<up, sock, moonraker, srv, inbox, panel, taps, notes>>

Absent == [mod |-> 0, meta |-> 0]

\* Requests and events are records of one shape.
Req(kind, p, on) == [kind |-> kind, path |-> p, asked_on |-> on]
Ev(kind, p, on, found) == [kind |-> kind, path |-> p, asked_on |-> on, found |-> found]
Connected == Ev("connected", None, 0, 0)
Ready == Ev("ready", None, 0, 0)
Changed == Ev("changed", None, 0, 0)

Init ==
  /\ up = FALSE /\ sock = 0 /\ srv = <<>> /\ jobs = <<>> /\ inbox = <<>>
  /\ disk = [f \in Files |-> 1]
  /\ stored \in [Files -> {0, 1}]
  /\ opened = 0 /\ tree = [f \in Files |-> Absent] /\ cur_file = None
  /\ scans = [f \in Files |-> 0] /\ unscannable = [f \in Files |-> 0]
  /\ refresh_pending = FALSE /\ print_btn = TRUE /\ view = None
  /\ taps = 0 /\ notes = 0

-----------------------------------------------------------------------------
(* The socket and Moonraker                                                *)

Open ==
  /\ ~up /\ sock < MaxOpens
  /\ up' = TRUE /\ sock' = sock + 1
  /\ inbox' = Append(inbox, Connected)
  /\ UNCHANGED <<moonraker, srv, panel, taps, notes>>

\* Requests not answered yet are lost; scans go on, unless it is Moonraker that
\* went away.  The Disconnected event does not concern this panel.
Close(restart) ==
  /\ up /\ sock < MaxOpens
  /\ up' = FALSE /\ srv' = <<>>
  /\ jobs' = IF restart THEN <<>> ELSE jobs
  /\ UNCHANGED <<sock, disk, stored, inbox, panel, taps, notes>>

\* A list with no file in it, which is also what an error reply comes to.
Nothing == [f \in Files |-> 0]

\* Moonraker takes the next request: lists, or refuses to, answers from what it
\* has stored, or puts a scan in line.
Serve ==
  /\ srv # <<>> /\ srv' = Tail(srv)
  /\ LET r == Head(srv) IN
     CASE r.kind = "list" ->
            \E l \in {disk, Nothing} :
              inbox' = Append(inbox, Ev("list", None, 0, l)) /\ UNCHANGED jobs
       [] r.kind = "metadata" ->
            inbox' = Append(inbox, Ev("metadata", r.path, r.asked_on, stored[r.path]))
            /\ UNCHANGED jobs
       [] r.kind = "metascan" ->
            jobs' = Append(jobs, [path |-> r.path, asked_on |-> r.asked_on, conn |-> sock])
            /\ UNCHANGED inbox
  /\ UNCHANGED <<up, sock, disk, stored, panel, taps, notes>>

\* The running scan ends; its metadata is stored before it is answered, and it
\* is answered only on the connection that asked.
ScanEnds(ok) ==
  /\ jobs # <<>> /\ jobs' = Tail(jobs)
  /\ LET j == Head(jobs)
         found == IF ok THEN disk[j.path] ELSE 0
     IN  /\ stored' = IF found > 0 THEN [stored EXCEPT ![j.path] = found] ELSE stored
         /\ inbox' = IF up /\ j.conn = sock
                     THEN Append(inbox, Ev("metascan", j.path, j.asked_on, found))
                     ELSE inbox
  /\ UNCHANGED <<up, sock, disk, srv, panel, taps, notes>>

\* A file is uploaded or replaced, its modified time being now, or deleted;
\* Moonraker may scan an upload itself.
Change(f, v, scanned) ==
  /\ notes < MaxNotes /\ notes' = notes + 1
  /\ v \in {0, 1 + notes'} /\ v # disk[f]
  /\ disk' = [disk EXCEPT ![f] = v]
  /\ stored' = [stored EXCEPT ![f] = IF scanned THEN v ELSE 0]
  /\ inbox' = IF up THEN Append(inbox, Changed) ELSE inbox
  /\ UNCHANGED <<up, sock, jobs, srv, panel, taps>>

KlippyReady ==
  /\ up /\ notes < MaxNotes /\ notes' = notes + 1
  /\ inbox' = Append(inbox, Ready)
  /\ UNCHANGED <<up, sock, moonraker, srv, panel, taps>>

-----------------------------------------------------------------------------
(* What the panel's handlers are made of                                   *)

\* send_jsonrpc: a request leaves if there is a socket to leave on.
Send(r) == srv' = IF up THEN Append(srv, r) ELSE srv

contains_metadata(t, f) == t[f].meta > 0
scan_lost(f) == scans[f] > 0 /\ scans[f] # opened

request_metadata(f, method) == Send(Req(method, f, opened))

update_print_btn(f, s) == print_btn' = (f = None \/ s[f] = 0)

\* Select f, with tree t: show what is known of it, ask for what is not.
MutShowFileDetail(f, t) ==
  /\ view' = IF contains_metadata(t, f) \/ scans[f] > 0 THEN f ELSE view
  /\ IF ~contains_metadata(t, f)
     THEN request_metadata(f, "metadata")
     ELSE UNCHANGED srv

show_file_detail(f, t) ==
  /\ view' = IF contains_metadata(t, f) \/ scans[f] > 0 THEN f ELSE view
  /\ IF ~contains_metadata(t, f) \/ scan_lost(f)
     THEN request_metadata(f, "metadata")
     ELSE UNCHANGED srv

\* Cached metadata survives a refetch of the list as long as the file's
\* modified time does (Tree::collect_metadata, Tree::apply_metadata).
MutRebuild(listing) ==
  [f \in Files |->
     [mod |-> listing[f],
      meta |-> IF listing[f] > 0 THEN tree[f].meta ELSE 0]]

Rebuild(listing) ==
  [f \in Files |->
     [mod |-> listing[f],
      meta |-> IF listing[f] > 0 /\ listing[f] = tree[f].mod THEN tree[f].meta ELSE 0]]

-----------------------------------------------------------------------------
(* The LVGL thread: events                                                 *)

Next1(kind) == inbox # <<>> /\ Head(inbox).kind = kind /\ inbox' = Tail(inbox)

\* A new connection, or a Klipper restart on the same one: the connected
\* handler asks for the printer's objects, and the reply to that brings
\* PrintPanel::subscribe.  The two are one step: the panel's state does not
\* depend on the objects, and until the list is asked for it stays as it is.
connected ==
  /\ Next1("connected")
  /\ opened' = opened + 1
  /\ Send(Req("list", None, 0))
  /\ UNCHANGED <<up, sock, moonraker, tree, cur_file, scans, unscannable,
                 refresh_pending, print_btn, view, taps, notes>>

klippy_ready ==
  /\ Next1("ready")
  /\ Send(Req("list", None, 0))
  /\ UNCHANGED <<up, sock, moonraker, panel, taps, notes>>

handle_filelist_changed ==
  /\ Next1("changed")
  /\ refresh_pending' = TRUE
  /\ UNCHANGED <<up, sock, moonraker, srv, opened, tree, cur_file, scans,
                 unscannable, print_btn, view, taps, notes>>

MutListKeepsDetails ==
  /\ Next1("list")
  /\ LET t == Rebuild(Head(inbox).found)
         kept == cur_file # None /\ t[cur_file].mod > 0
     IN  /\ tree' = t
         /\ \E f \in {g \in Files : t[g].mod > 0} \cup {None} :
              /\ kept => f = cur_file
              /\ cur_file' = f
              /\ IF f # None /\ ~kept THEN show_file_detail(f, t) ELSE UNCHANGED <<view, srv>>
              /\ update_print_btn(f, scans)
  /\ UNCHANGED <<up, sock, moonraker, opened, scans, unscannable, refresh_pending,
                 taps, notes>>

\* The reply to server.files.list: the tree is rebuilt, the selection kept if
\* its file is still there, else the first file of the view is selected.  An
\* error reply clears the tree as well, and the cached metadata with it.
handle_list ==
  /\ Next1("list")
  /\ LET t == Rebuild(Head(inbox).found)
         kept == cur_file # None /\ t[cur_file].mod > 0
     IN  /\ tree' = t
         /\ \E f \in {g \in Files : t[g].mod > 0} \cup {None} :
              /\ kept => f = cur_file
              /\ cur_file' = f
              /\ IF f # None /\ (~kept \/ ~contains_metadata(t, f) \/ scan_lost(f))
                 THEN show_file_detail(f, t)
                 ELSE UNCHANGED <<view, srv>>
              /\ update_print_btn(f, scans)
  /\ UNCHANGED <<up, sock, moonraker, opened, scans, unscannable, refresh_pending,
                 taps, notes>>

\* A metadata or metascan reply is for file e.path; `superseded`: a later scan
\* of the file has been asked for since.
superseded(e) ==
  e.kind = "metascan" /\ scans[e.path] > 0 /\ scans[e.path] # e.asked_on

\* The scans left once the reply has been taken into account: a scan ends with
\* its own reply, or with metadata turning up when its reply was lost.
MutScansAfterAny(e) ==
  IF scans[e.path] > 0 /\ (e.kind = "metascan" \/ e.found > 0)
  THEN [scans EXCEPT ![e.path] = 0]
  ELSE scans

scans_after(e) ==
  IF scans[e.path] > 0 /\ (e.kind = "metascan" \/ (e.found > 0 /\ scans[e.path] # opened))
  THEN [scans EXCEPT ![e.path] = 0]
  ELSE scans

\* Replies that change nothing on screen: superseded, or for a file that is no
\* longer selected.
handle_metadata_aside ==
  /\ inbox # <<>> /\ inbox' = Tail(inbox)
  /\ LET e == Head(inbox) IN
     /\ e.kind \in {"metadata", "metascan"}
     /\ superseded(e) \/ e.path # cur_file
     /\ scans' = IF superseded(e) THEN scans ELSE scans_after(e)
  /\ UNCHANGED <<up, sock, moonraker, srv, opened, tree, cur_file, unscannable,
                 refresh_pending, print_btn, view, taps, notes>>

handle_metadata_found ==
  /\ inbox # <<>> /\ inbox' = Tail(inbox)
  /\ LET e == Head(inbox) IN
     /\ e.kind \in {"metadata", "metascan"}
     /\ ~superseded(e) /\ e.path = cur_file /\ e.found > 0
     /\ scans' = scans_after(e)
     /\ tree' = [tree EXCEPT ![e.path].meta = e.found]
     /\ view' = e.path
     /\ update_print_btn(cur_file, scans')
  /\ UNCHANGED <<up, sock, moonraker, srv, opened, cur_file, unscannable,
                 refresh_pending, taps, notes>>

\* A miss: shown without details when its scan was refused on this connection,
\* else scanned, once per connection.
handle_metadata_missed ==
  /\ inbox # <<>> /\ inbox' = Tail(inbox)
  /\ LET e == Head(inbox)
         s == scans_after(e)
         u == IF e.kind = "metascan" THEN [unscannable EXCEPT ![e.path] = e.asked_on]
              ELSE unscannable
         scan == u[e.path] # opened /\ s[e.path] # opened
     IN  /\ e.kind \in {"metadata", "metascan"}
         /\ ~superseded(e) /\ e.path = cur_file /\ e.found = 0
         /\ unscannable' = u
         /\ view' = e.path
         /\ scans' = IF scan THEN [s EXCEPT ![e.path] = opened] ELSE s
         /\ IF scan THEN request_metadata(e.path, "metascan") ELSE UNCHANGED srv
         /\ update_print_btn(cur_file, scans')
  /\ UNCHANGED <<up, sock, moonraker, opened, tree, cur_file, refresh_pending,
                 taps, notes>>

-----------------------------------------------------------------------------
(* The LVGL thread: the timer and the user                                 *)

handle_refresh_timer ==
  /\ refresh_pending /\ refresh_pending' = FALSE
  /\ Send(Req("list", None, 0))
  /\ UNCHANGED <<up, sock, moonraker, inbox, opened, tree, cur_file, scans,
                 unscannable, print_btn, view, taps, notes>>

Tap == taps < MaxTaps /\ taps' = taps + 1

MutSelectsParentRow(f) ==
  /\ Tap
  /\ tree[f].mod > 0 /\ f # cur_file
  /\ cur_file' = ".." /\ print_btn' = TRUE
  /\ UNCHANGED <<up, sock, moonraker, srv, inbox, opened, tree, scans, unscannable,
                 refresh_pending, view, notes>>

\* Another file of the list is picked.
handle_callback(f) ==
  /\ Tap
  /\ tree[f].mod > 0 /\ f # cur_file
  /\ cur_file' = f
  /\ show_file_detail(f, tree)
  /\ update_print_btn(f, scans)
  /\ UNCHANGED <<up, sock, moonraker, inbox, opened, tree, scans, unscannable,
                 refresh_pending, notes>>

\* Another directory or sort order: its first file, if it has one, is selected.
show_dir(f) ==
  /\ Tap
  /\ f # None => tree[f].mod > 0
  /\ cur_file' = f
  /\ IF f # None THEN show_file_detail(f, tree) ELSE UNCHANGED <<view, srv>>
  /\ update_print_btn(f, scans)
  /\ UNCHANGED <<up, sock, moonraker, inbox, opened, tree, scans, unscannable,
                 refresh_pending, notes>>

\* The Reload button.
handle_btns_refresh ==
  /\ Tap
  /\ Send(Req("list", None, 0))
  /\ UNCHANGED <<up, sock, moonraker, inbox, panel, notes>>

Dispatch ==
  \/ connected
  \/ klippy_ready
  \/ handle_filelist_changed
  \/ handle_list
  \/ handle_metadata_aside
  \/ handle_metadata_found
  \/ handle_metadata_missed

User ==
  \/ \E f \in Files : handle_callback(f)
  \/ \E f \in Files \cup {None} : show_dir(f)
  \/ handle_btns_refresh

Scan == \E ok \in BOOLEAN : ScanEnds(ok)

Next ==
  \/ Open \/ Serve \/ Scan \/ KlippyReady
  \/ \E restart \in BOOLEAN : Close(restart)
  \/ \E f \in Files, v \in 0..(MaxNotes + 1), scanned \in BOOLEAN : Change(f, v, scanned)
  \/ Dispatch \/ handle_refresh_timer \/ User

\* The LVGL thread goes on, Moonraker answers and scans end.  Reconnecting is
\* libhv's: a socket that is down is opened again.
Fairness == /\ WF_vars(Dispatch) /\ WF_vars(handle_refresh_timer)
            /\ WF_vars(Serve) /\ WF_vars(Scan) /\ WF_vars(Open)

Spec == Init /\ [][Next]_vars /\ Fairness

-----------------------------------------------------------------------------
\* Types; the selection and the details on screen are files or none.
TypeOK ==
  /\ up \in BOOLEAN /\ sock \in Nat /\ opened \in Nat
  /\ disk \in [Files -> Nat] /\ stored \in [Files -> Nat]
  /\ tree \in [Files -> [mod : Nat, meta : Nat]]
  /\ cur_file \in Files \cup {None} /\ view \in Files \cup {None}
  /\ scans \in [Files -> Nat] /\ unscannable \in [Files -> Nat]
  /\ refresh_pending \in BOOLEAN /\ print_btn \in BOOLEAN
  /\ taps \in Nat /\ notes \in Nat

\* What handle_print_callback checks before it sends printer.print.start.
PrintAllowed == cur_file # None /\ scans[cur_file] = 0

\* "Print is disabled, and refused in its handler as well, while the selected
\* file's scan is outstanding" (docs/audit.md), as far as the code ensures it: Print
\* is held while a scan asked for under the present connection count is due,
\* whatever reconnects, refetches, reselections and late answers came in between;
\* neither the handler lets a print pass nor does the button offer it.
LatestScanHoldsPrint ==
  cur_file # None /\ (print_btn \/ PrintAllowed) =>
    /\ \A i \in DOMAIN jobs : jobs[i].path = cur_file => jobs[i].asked_on # opened
    /\ \A i \in DOMAIN srv :
         srv[i].kind = "metascan" /\ srv[i].path = cur_file => srv[i].asked_on # opened

\* A file that is replaced is not described from the cache of its predecessor:
\* cached metadata is never older than the listed file.
CacheNotStale == \A f \in Files : tree[f].meta > 0 => tree[f].meta >= tree[f].mod

\* Once the connection stays up, a held Print is released: the scan is answered,
\* or asked for again after the reconnect that lost its answer, and the button is
\* offered again with it.
PrintReleased == []<>(cur_file = None \/ (PrintAllowed /\ print_btn))

\* Once the connection stays up, the details on screen come to describe the
\* selected file, although a new selection may leave the old details standing
\* until Moonraker answers.
ViewCatchesUp == []<>(cur_file = None \/ view = cur_file)
=============================================================================
