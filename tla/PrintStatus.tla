----------------------------- MODULE PrintStatus -----------------------------
(***************************************************************************)
(* The print status panel and its miniature (src/src/                      *)
(* print_status_panel.cpp, mini_print_status.cpp).  Klipper's print state  *)
(* reaches the panel in three ways that overlap: the full status a         *)
(* subscription replies with (State, then init), later reports that carry  *)
(* only what changed since the last one (State, then consume), and the     *)
(* reply to the metadata request of the file being printed.  The socket or *)
(* Klipper may go at any time; a new round of subscribing follows.         *)
(*                                                                         *)
(* Moonraker and Klipper are external: requests are answered in order,     *)
(* changes between two reports come as one, even a whole print.  The list  *)
(* and subscribe requests of a round (module Session) are one request      *)
(* here.  Progress is in units of 1/Full.  Left out: temperatures, speeds, *)
(* fans and times, which are labels of one value each; layers, which are   *)
(* derived from the details; the emergency stop and fine tune buttons.     *)
(***************************************************************************)
EXTENDS Naturals, Sequences, FiniteSets

CONSTANTS
  Files,      \* gcode files
  Scanned,    \* the files Moonraker has metadata of
  Pictured,   \* those whose metadata has a picture
  Full,       \* progress of a file read to its end
  MaxPrints,  \* bound: prints started
  MaxRounds,  \* bound: times the socket opens or Klipper becomes ready
  MaxPresses, \* bound: presses of a button
  MaxQueued   \* bound: reports waiting to be dispatched

\* No file: the empty name.
None == "none"

ASSUME PrintStatusAssumption ==
  /\ Pictured \subseteq Scanned /\ Scanned \subseteq Files /\ None \notin Files
  /\ Full \in Nat \ {0, 1} /\ MaxPrints \in Nat /\ MaxRounds \in Nat /\ MaxPresses \in Nat
  /\ MaxQueued \in Nat

VARIABLES
  link,     \* libhv and Moonraker: socket open, Klipper ready, status subscribed to
  printer,  \* Klipper: print_stats, virtual_sdcard, pause_resume
  reported, \* Moonraker: what the subscription's last report or reply said
  srv,      \* Moonraker: requests received on this connection, in order
  inbox,    \* events queued for the LVGL thread, oldest first
  state,    \* State: the part of printer_state that is read here
  covered,  \* InitPanel covers the screen
  panel,    \* PrintStatusPanel
  used,     \* bounds used up
  missed    \* history: files of prints that went by before a report said they had started

ext == <<link, printer, reported>>
vars == <<ext, srv, inbox, state, covered, panel, used, missed>>

\* Over: "error" is not told apart from "cancelled".
Over == {"complete", "cancelled"}
On == {"printing", "paused"}

Idle == [filename |-> None, state |-> "standby", progress |-> 0, is_paused |-> FALSE]
Null == [k \in {} |-> 0]

Ev(kind, found, file) == [kind |-> kind, found |-> found, file |-> file]
Bare(kind) == Ev(kind, Null, None)

\* f with the values of g: json::merge_patch.
Merge(f, g) == [k \in DOMAIN f \cup DOMAIN g |-> IF k \in DOMAIN g THEN g[k] ELSE f[k]]

Init ==
  /\ link = [up |-> FALSE, klippy |-> TRUE, sub |-> FALSE]
  /\ printer = Idle /\ reported = Idle
  /\ srv = <<>> /\ inbox = <<>> /\ state = Null /\ covered = TRUE
  /\ panel = [filename |-> None, details |-> None, thumb |-> None, front |-> FALSE,
              mini |-> FALSE, bar |-> 0, button |-> "both", disabled |-> {}]
  /\ used = [prints |-> 0, rounds |-> 0, presses |-> 0] /\ missed = {}

-----------------------------------------------------------------------------
(* The socket, Moonraker and Klipper                                       *)

Tell(evs) == inbox' = IF link.up THEN inbox \o evs ELSE inbox
Round == used.rounds < MaxRounds /\ used' = [used EXCEPT !.rounds = used.rounds + 1]

Open ==
  /\ ~link.up /\ Round
  /\ link' = [link EXCEPT !.up = TRUE]
  /\ inbox' = Append(inbox, Bare("connected"))
  /\ UNCHANGED <<printer, reported, srv, state, covered, panel, missed>>

Close ==
  /\ link.up /\ used.rounds < MaxRounds
  /\ link' = [link EXCEPT !.up = FALSE, !.sub = FALSE]
  /\ reported' = Idle /\ srv' = <<>>
  /\ inbox' = Append(inbox, Bare("gone"))
  /\ UNCHANGED <<printer, state, covered, panel, used, missed>>

KlippyGone ==
  /\ link.klippy /\ used.rounds < MaxRounds
  /\ link' = [link EXCEPT !.klippy = FALSE, !.sub = FALSE]
  /\ printer' = Idle /\ reported' = Idle
  /\ Tell(<<Bare("gone")>>)
  /\ UNCHANGED <<srv, state, covered, panel, used, missed>>

KlippyReady ==
  /\ ~link.klippy /\ Round
  /\ link' = [link EXCEPT !.klippy = TRUE]
  /\ Tell(<<Bare("connected")>>)
  /\ UNCHANGED <<printer, reported, srv, state, covered, panel, missed>>

\* What Klipper makes of a print, of itself or asked to by any client; what does
\* not apply changes nothing.
Starting(f) == IF printer.state \in On THEN printer
               ELSE [Idle EXCEPT !.filename = f, !.state = "printing"]
Pausing == IF printer.state # "printing" THEN printer
           ELSE [printer EXCEPT !.state = "paused", !.is_paused = TRUE]
Resuming == IF printer.state # "paused" THEN printer
            ELSE [printer EXCEPT !.state = "printing", !.is_paused = FALSE]
Reading == IF printer.state # "printing" \/ printer.progress + 1 >= Full THEN printer
           ELSE [printer EXCEPT !.progress = printer.progress + 1]
\* The statistics of a print that is over are reset.
Clearing == IF printer.state \in On THEN printer ELSE Idle
\* A file that is done has been read to its end, or not quite.
Completing == IF printer.state # "printing" \/ printer.progress + 1 < Full THEN {printer}
              ELSE {[printer EXCEPT !.state = "complete", !.progress = p] :
                      p \in {printer.progress, Full}}
\* The file name of an abandoned print is cleared, now or when the next starts.
Abandoning == IF printer.state \notin On THEN {printer}
              ELSE {[printer EXCEPT !.filename = f, !.state = "cancelled", !.is_paused = FALSE] :
                      f \in {None, printer.filename}}

\* Noted in missed: a print that no report has said to be on ends, or is all but
\* read to its end.
Noted ==
  missed' = IF /\ link.sub /\ reported.state \notin On /\ printer.state \in On
               /\ printer'.state \notin On \/ printer'.progress + 1 >= Full
            THEN missed \cup {printer.filename} ELSE missed

PrintStarts(f) ==
  /\ link.klippy /\ used.prints < MaxPrints
  /\ printer' = Starting(f) /\ printer' # printer
  /\ used' = [used EXCEPT !.prints = used.prints + 1]
  /\ UNCHANGED <<link, reported, srv, inbox, state, covered, panel, missed>>

Proceed ==
  /\ link.klippy /\ printer' \in {Pausing, Resuming, Reading, Clearing} /\ printer' # printer
  /\ Noted
  /\ UNCHANGED <<link, reported, srv, inbox, state, covered, panel, used>>

End ==
  /\ link.klippy /\ printer' \in Completing \cup Abandoning /\ printer' # printer
  /\ Noted
  /\ UNCHANGED <<link, reported, srv, inbox, state, covered, panel, used>>

\* A report of all that changed since the last one.
Report ==
  /\ link.up /\ link.sub /\ printer # reported
  /\ Cardinality({i \in DOMAIN inbox : inbox[i].kind = "status"}) < MaxQueued
  /\ reported' = printer
  /\ Tell(<<Ev("status", [k \in {x \in DOMAIN printer : printer[x] # reported[x]} |-> printer[k]],
              None)>>)
  /\ UNCHANGED <<link, printer, srv, state, covered, panel, used, missed>>

ServeSubscribe ==
  /\ srv # <<>> /\ Head(srv).kind = "subscribe" /\ srv' = Tail(srv)
  /\ Tell(<<Ev("subscribe", IF link.klippy THEN printer ELSE Null, None)>>)
  /\ link' = [link EXCEPT !.sub = link.klippy]
  /\ reported' = printer
  /\ UNCHANGED <<printer, state, covered, panel, used, missed>>

ServeMetadata ==
  /\ srv # <<>> /\ Head(srv).kind = "metadata" /\ srv' = Tail(srv)
  /\ Tell(<<Ev("metadata", Null, Head(srv).file)>>)
  /\ UNCHANGED <<ext, state, covered, panel, used, missed>>

Request(kind, file) == [kind |-> kind, file |-> file]
Sent(rs) == srv' = IF link.up THEN srv \o rs ELSE srv

-----------------------------------------------------------------------------
(* The panel: what each method makes of it, given what State says          *)

Known(st, k) == k \in DOMAIN st

update_progress(p, pct) == [p EXCEPT !.bar = IF pct > Full THEN Full ELSE pct]

reset(p) == [p EXCEPT !.bar = 0, !.details = None, !.thumb = None]

HasFile(st) == Known(st, "filename") /\ st.filename # None

\* The requests populate makes.
Asks(st) == IF HasFile(st) THEN <<Request("metadata", st.filename)>> ELSE <<>>

populate(p, st) ==
  LET p1 == [p EXCEPT !.mini = p.mini \/ HasFile(st),
                      !.button = IF Known(st, "state") /\ st.state = "paused"
                                 THEN "resume" ELSE "pause"]
  IN  IF Known(st, "progress") THEN update_progress(p1, st.progress) ELSE p1

MutInitKeepsMini(p, st) == populate(reset(p), st)

\* PrintStatusPanel::init.  It leaves current_filename alone.
init(p, st) ==
  LET q == populate(reset(p), st)
  IN  [q EXCEPT !.mini = IF Known(st, "state") THEN q.mini /\ st.state \in On ELSE TRUE]

MutNewPrintAnyName(p, d) == Known(d, "filename")

\* consume: a file name not held yet is a new print.
NewPrint(p, d) == Known(d, "filename") /\ d.filename \notin {None, p.filename}

on_filename(p, d, st) ==
  LET q == IF NewPrint(p, d) THEN [populate(reset(p), st) EXCEPT !.front = TRUE] ELSE p
  IN  IF Known(d, "filename") THEN [q EXCEPT !.filename = d.filename] ELSE q

on_state(p, d) ==
  IF ~Known(d, "state") THEN p
  ELSE LET q == IF d.state = "complete" THEN update_progress(p, Full) ELSE p
       IN  [q EXCEPT !.mini = d.state \in On, !.front = q.front /\ d.state \notin Over]

on_progress(p, d) == IF Known(d, "progress") THEN update_progress(p, d.progress) ELSE p

\* Exactly one of the two buttons is shown from then on, and it is enabled.
on_paused(p, d) ==
  IF ~Known(d, "is_paused") THEN p
  ELSE LET b == IF d.is_paused THEN "resume" ELSE "pause"
       IN  [p EXCEPT !.button = b, !.disabled = {"pause", "resume"} \ {b}]

-----------------------------------------------------------------------------
(* The LVGL thread                                                         *)

Heard(kind) == inbox # <<>> /\ Head(inbox).kind = kind /\ inbox' = Tail(inbox)

\* InitPanel: State is cleared, and the status subscribed to afresh.
connected ==
  /\ Heard("connected")
  /\ state' = Null /\ Sent(<<Request("subscribe", None)>>)
  /\ UNCHANGED <<ext, covered, panel, used, missed>>

disconnected ==
  /\ Heard("gone")
  /\ covered' = TRUE
  /\ UNCHANGED <<ext, srv, state, panel, used, missed>>

\* The reply to the subscription: State, MainPanel::init, the cover goes.
subscribed ==
  /\ Heard("subscribe")
  /\ state' = Merge(state, Head(inbox).found)
  /\ panel' = init(panel, state')
  /\ Sent(Asks(state'))
  /\ covered' = FALSE
  /\ UNCHANGED <<ext, used, missed>>

\* A report: State::consume, then PrintStatusPanel::consume.
consume ==
  /\ Heard("status")
  /\ LET d == Head(inbox).found
     IN  /\ state' = Merge(state, d)
         /\ panel' = on_paused(on_progress(on_state(on_filename(panel, d, state'), d), d), d)
         /\ Sent(IF NewPrint(panel, d) THEN Asks(state') ELSE <<>>)
  /\ UNCHANGED <<ext, covered, used, missed>>

\* The picture changes only for a file that has one.
Picture(f) == IF f \in Pictured THEN f ELSE panel.thumb

MutMetadataErrorFiled ==
  /\ Heard("metadata")
  /\ panel' = [panel EXCEPT !.details = Head(inbox).file]
  /\ UNCHANGED <<ext, srv, state, covered, used, missed>>

MutMetadataErrorIgnored ==
  /\ Heard("metadata")
  /\ LET f == Head(inbox).file
     IN  panel' = IF f \in Scanned THEN [panel EXCEPT !.details = f, !.thumb = Picture(f)] ELSE panel
  /\ UNCHANGED <<ext, srv, state, covered, used, missed>>

\* Details of whatever file was asked for; an error leaves none.
handle_metadata ==
  /\ Heard("metadata")
  /\ LET f == Head(inbox).file
     IN  panel' = IF f \in Scanned THEN [panel EXCEPT !.details = f, !.thumb = Picture(f)]
                  ELSE [panel EXCEPT !.details = None]
  /\ UNCHANGED <<ext, srv, state, covered, used, missed>>

Dispatch == connected \/ disconnected \/ subscribed \/ consume \/ handle_metadata

-----------------------------------------------------------------------------
(* The user                                                                *)

Press == /\ ~covered /\ used.presses < MaxPresses
         /\ used' = [used EXCEPT !.presses = used.presses + 1]

press_resume ==
  /\ Press /\ panel.front /\ panel.button # "pause" /\ "resume" \notin panel.disabled
  /\ panel' = [panel EXCEPT !.disabled = panel.disabled \cup {"resume"}]
  /\ UNCHANGED <<ext, srv, inbox, state, covered, missed>>

\* The prompt of the Pause button is confirmed.  It may have been opened before
\* the print changed, so nothing is required of the button by now.
confirm_pause ==
  /\ Press
  /\ panel' = [panel EXCEPT !.disabled = panel.disabled \cup {"pause"}]
  /\ UNCHANGED <<ext, srv, inbox, state, covered, missed>>

press_back ==
  /\ Press /\ panel.front
  /\ panel' = [panel EXCEPT !.front = FALSE]
  /\ UNCHANGED <<ext, srv, inbox, state, covered, missed>>

\* The miniature, or Status or Print in the file browser.
foreground ==
  /\ Press /\ ~panel.front
  /\ panel' = [panel EXCEPT !.front = TRUE]
  /\ UNCHANGED <<ext, srv, inbox, state, covered, missed>>

User == press_resume \/ confirm_pause \/ press_back \/ foreground

External == \/ Open \/ Close \/ KlippyGone \/ KlippyReady \/ Report
            \/ ServeSubscribe \/ ServeMetadata
            \/ Proceed \/ End \/ \E f \in Files : PrintStarts(f)

Next == Dispatch \/ User \/ External

Spec == Init /\ [][Next]_vars

-----------------------------------------------------------------------------
\* Types of what the panel shows, of State and of what is under way.
TypeOK ==
  /\ panel \in [filename : Files \cup {None}, details : Scanned \cup {None},
                thumb : Pictured \cup {None}, front : BOOLEAN, mini : BOOLEAN, bar : 0..Full,
                button : {"both", "pause", "resume"}, disabled : SUBSET {"pause", "resume"}]
  /\ printer \in [filename : Files \cup {None}, state : On \cup Over \cup {"standby"},
                  progress : 0..Full, is_paused : BOOLEAN]
  /\ reported \in [filename : Files \cup {None}, state : On \cup Over \cup {"standby"},
                   progress : 0..Full, is_paused : BOOLEAN]
  /\ DOMAIN state \subseteq DOMAIN Idle
  /\ covered \in BOOLEAN /\ missed \subseteq Files

\* Nothing is under way: the status is subscribed to, the last report said all,
\* and every event and request has been dealt with.
Quiet == link.up /\ link.sub /\ reported = printer /\ inbox = <<>> /\ srv = <<>>

\* When nothing is under way the screen agrees with the printer, however the
\* reports, the rounds of subscribing and the presses fell: during a print the
\* button shown is the one that applies, the miniature is there exactly while
\* there is a print, and the bar is at the progress Klipper reports.  The last two
\* only as long as no print went by between two reports.
ScreenAgrees ==
  Quiet =>
    /\ printer.state \in On =>
         /\ panel.button = IF printer.state = "paused" THEN "resume" ELSE "pause"
         /\ used.rounds = 1 /\ used.presses = 0 => panel.button \notin panel.disabled
    /\ missed = {} => /\ panel.mini = (printer.state \in On)
                      /\ printer.state \in On => panel.bar = printer.progress

\* Nothing but a print brings the panel to the front by itself, one that is on or
\* one that was over before a report told of it: not the empty name of a cancelled
\* one, nor the name of one that was shown before.
OnlyAPrintTakesTheScreen ==
  [][Dispatch /\ panel'.front /\ ~panel.front =>
       state'.state \in On \/ state'.filename \in missed]_vars

Described(f) == panel.details = (IF f \in Scanned THEN f ELSE None) /\ (f \in Pictured => panel.thumb = f)

\* Within the first round, the details shown when nothing is under way are those
\* of the file being printed, although the replies asked for by earlier prints may
\* have come after its start.
DetailsOfThisPrint ==
  Quiet /\ printer.state \in On /\ used.rounds = 1 => Described(printer.filename)

\* "Metadata is fetched fresh for every print": the same in every round.
EveryPrintDescribed ==
  Quiet /\ printer.state \in On => Described(printer.filename)
=============================================================================
