# A TLA+ model of vibescreen (GuppyScreen)

vibescreen is a touch screen front end for 3D printers: an LVGL user interface
in C++ (`src/src/`) that talks to Moonraker, and through it to Klipper, by
JSON-RPC over one websocket. This directory holds TLA+ modules for the parts of
it where several things happen at once, the TLC configurations that check them,
and TLAPS proofs. `PROJECT.json` ties definitions to source lines, properties to
the hazards they are for, and each property to a plausible bug that breaks it.

Paths below are relative to the directory that holds both `tla/` and `src/`.

    tlc -workers 2 -config MCWsClient.cfg MCWsClient
    tlapm WsClientProofs.tla

## The system

One thread, the LVGL thread, runs the whole interface. `GuppyScreen::loop`
alternates between `ws.drain()`, which dispatches websocket events to handlers
that take `lv_lock` themselves, and `lv_timer_handler()` with `lv_lock` held,
which runs timers and input callbacks. The other threads only hand things over:

| thread | hands over | through |
|---|---|---|
| libhv (websocket) | Connected, Disconnected, messages | `KWebSocketClient::queue`, `queue_lock` |
| wpa_supplicant control | Wi-Fi events | `WpaEvent::queue` |
| update check (detached) | a `Check` | a mutex in the `Check`, polled by a timer |
| update (detached) | a `Job` | a mutex in the `Job`, polled by a timer |

So the difficulty is not shared memory. It is that requests, replies,
notifications, timers and taps interleave freely on that one thread, while the
socket, Klipper and child processes come and go underneath.

### Components

| component | state | operations | what is hard | what makes it correct |
|---|---|---|---|---|
| `KWebSocketClient` | event queue, id counter, handler tables, connection count | push, drain, dispatch, send_jsonrpc (3 forms), register | two threads; overflow; handlers that send or throw; reconnects | a reply reaches its asker, once, in order; the count names the connection |
| main loop | `lv_lock`, sleep state | drain, timers | a callback that takes a lock its thread holds | the loop always goes on |
| session: `InitPanel`, `State`, `MainPanel` | printer objects and status, sensors on screen, the cover | connected, list, subscribe, init, consume, disconnected | rounds overlap; Klipper restarts with another configuration | what is shown is the present boot's |
| `PrintPanel` | file tree, metadata cache, selection, scans, Print button | list, metadata, scan, refresh, select | replies late, lost or for another file | Print waits for the scan, is released in the end, details are the file's |
| `BeltsCalibrationPanel` | run state, watchdog, plot | calibrate, responses, watchdog, klippy gone | responses carry no run id; abandoned runs go on at Klipper | one sweep at a time, own plot, every run ends |
| `InputShaperPanel` | per axis run and result, queue of axes, watchdog | calibrate, responses, axis row, watchdog | the same, with two axes sharing a watchdog | one axis at a time, own result, truthful spinner |
| `UpdateCheck`, `UpdateDialog` | check in flight, offer, job, dialog | poll, collect, toggle, show, close | threads that outlive their starter or never answer | the switch is obeyed, one update at a time, outcomes shown |
| Wi-Fi: `WpaEvent`, `WifiPanel` | event queue, scan list, network ids, selection, typed password | connect, forget, scan, events | two threads; events, what is read on their account and the selection are of different moments; ids are given out again | one network per plain name, with its own password; ids exact; an attempt's end is shown |
| print status: `PrintStatusPanel`, `MiniPrintStatus` | file name held, details, progress, buttons | init, consume, metadata reply, pause, resume | reports carry only changes; a subscription may come at any time; replies of one print in the next | the screen agrees with the printer, details are of the present print, only a print takes the screen |
| macro prompts | prompt being built | begin, button, show, end | commands out of order | what is shown was asked for |
| manual Z, homing | probe session | start, nudge, accept, abort | Klipper ends the session itself | buttons agree with Klipper |
| config, printer selection | JSON file, current printer | get, set, save, switch | a switch during requests | saved is what was set |
| bed mesh, extruder, spools, console, macros, fans, leds, limits, power | widgets, values | one command per button | little | display |
| utilities, widgets, subprocess, tls, installer | none or vendored | | | |

Interactions: every panel sends through `KWebSocketClient` and is called back
from its drain. `InitPanel` drives `State` and `MainPanel`, which initialises the
other panels. `PrintPanel` compares `connection_id()` values. The calibration
panels share Klipper's single stream of gcode responses with each other and with
other clients. `SysInfoPanel` drives `UpdateCheck`, which drives `MainPanel`'s badge.

## Modules

| module | models | lines of the argument |
|---|---|---|
| `Mailbox` | what a hand-over queue promises | abstract: FIFO, may lose only when full, everything left is handed over |
| `WsClient` | `websocket_client.cpp/.h` | both threads, one step per critical section or handler |
| `MCWsClient` | | constants for TLC |
| `WsClientProofs` | | proofs about `WsClient` for all constants: handlers and askers; delivery, order and the refinement of `Mailbox` |
| `Session`, `MCSession` | `init_panel.cpp`, `state.cpp`, sensors of `main_panel.cpp` | socket, Klipper, Moonraker and the GUI |
| `PrintPanel` | `print_panel.cpp/.h`, `tree.h` | panel, socket, Moonraker's scan queue |
| `BeltsCalibration` | `belts_calibration_panel.cpp`, `GuppyScreen::loop` | panel, loop and its lock, Klipper |
| `InputShaper` | `inputshaper_panel.cpp` | panel, Klipper |
| `Updater` | `update_check.cpp`, `update_dialog.cpp`, callers | LVGL thread, check and update threads |
| `PrintStatus` | `print_status_panel.cpp`, `mini_print_status.cpp` | panel, State and InitPanel's round, socket, Moonraker's reports, Klipper's print |
| `Wifi`, `MCWifi` | `wifi_panel.cpp`, `wpa_event.cpp`, wpa_supplicant's network commands | event thread, LVGL thread, wpa_supplicant; implements `Mailbox` as `WsClient` does |
| `SessionProofs`, `PrintPanelProofs`, `PrintStatusProofs`, `BeltsProofs`, `InputShaperProofs`, `UpdaterProofs`, `WifiProofs` | | proofs about these modules, for all constants |

Variables and actions carry the names of the members and methods they model.
A handler whose early returns lead to different outcomes is split by outcome
(`response_finished`, `response_wrote`, ...); everything a handler calls is part
of its action. Moonraker, Klipper and libhv are external and modelled from how
the code uses them: answers in order, one script or scan at a time, replies lost
with their connection. Each of the panel modules carries a FIFO `inbox`; that
the real queue behaves so is what `WsClient` and `Mailbox` establish. Definitions
whose names start with `Mut` are the bugs the properties are tested against and
are used by no specification.

**WsClient.** `queue` is libhv's side, `batch` what a drain has taken, `calls`
the handlers of the event being dispatched that are still to run, so libhv may
push and a handler may send between any two handlers. `asked`, `served` and
`lostOpens` are history.

**Session.** `connected` runs at each opening of the socket and at
klippy_ready: it resets `State` and asks for the object list, whose reply leads
to the subscription, whose reply fills `State`, builds the sensors and uncovers
the screen. `Config` gives each boot of Klipper its own objects. An error reply
to the subscription uncovers the screen too, as in the code.

**PrintPanel.** `scans` holds, per file, the connection count its scan was asked
under. A file's version is its modified time, which Moonraker reports and the panel
compares for equality; an upload gives the file a later one, 0 is no file, and
metadata has the version it is of. Sort order is abstracted to any choice of the
first file. An error reply to the list clears tree and cache, as an empty list does.
`connected` stands for the Connected event and the answer to `printer.objects.list`
together, from which `subscribe` is called; it assumes that answer comes.

**BeltsCalibration, InputShaper.** `klipper` is the queue of scripts; each script
and response carries, as history only, the number of the run it belongs to, which
the code cannot see. `due` is the batch of the drain under way, `loop = "stuck"`
a thread waiting for its own lock. A sweep or an analysis that another client runs by
hand is marked as run 0 and says what a run of the panel's would; `orphans` notes it.

Each belt plot is the same PNG, and `finish_run` never tells LVGL to forget it.
`graph` is the run whose end put the picture up, `png` the run whose plot is in the
file, `cache` the one LVGL has decoded and therefore draws; other images may push it
out (`OtherImages`). The analysis may end without having written the plot, and the
download of it may throw out of the handler, which leaves the run waiting. In
`InputShaper` `apply_result` may throw before or after it has taken the result; the
axis then waits for the watchdog.

**Updater.** Threads are entries of `checks` and `jobs` that may stay unanswered
for ever. The two timers look at them.

**PrintStatus.** `printer` is Klipper's print, `reported` what the subscription
last said of it; a report carries the difference, as Moonraker's do, so several
changes may come as one. `consume` is the composition of what the method does for
each key, in its order (`on_filename`, `on_state`, `on_progress`, `on_paused`).
`init` and `populate` read `State` as merged so far. Of a print that begins and ends
within one report period the panel may hear no more than the name; `missed` is the
history of such files. Metadata (`Scanned`) need not hold a picture (`Pictured`).
"error" is not told apart from "cancelled". Pause's prompt may be confirmed at any
later time.

**Wifi.** `wpa` is wpa_supplicant: its networks by id, those enabled, the current
one. Its commands are translated from the vendored source as far as the panel
depends on them: SELECT_NETWORK makes the network current before it is associated
with (and tries it at once when recent scan results have it), ADD_NETWORK takes one
more than the highest id. `Stored` is the conversion a name goes through: listed
escaped, sent back quoted and escaped once more, kept as it came, and escaped again
when it is listed; only a plain name comes back as it was. The configuration may
start with several networks of one name (`Doubled`), which earlier versions of the
panel left behind. A password of the wrong length is refused and leaves the network
without a key, and wpa_supplicant never tries it. An event is queued by its
thread, taken by the drain timer, and only then does the panel ask LIST_NETWORKS
and SCAN_RESULTS, so the answer may be of a later moment. A password is modelled
as the SSID it was typed for, `"mixed"` once it was typed for two.

## Runs

| run | shows |
|---|---|
| `ws_client` | replies reach their asker, at most once, their handler is filed until then, and a reply is dispatched under its own connection's count unless a Connected was dropped; the queue and batch implement `Mailbox`, fairness included; a drain ends however fast events arrive. Queue of 2 (it overflows), 2 requests, 2 connections |
| `session` | State and screen come to be those of the present boot, and the session comes up |
| `print_panel` | Print (handler and button) held for the latest scan and released, cache not stale, details catch up with the selection |
| `belts` | a run is watched, one sweep at a time, a plot put up by the end of this run and, for the first, drawn from its own file; it ends |
| `belts_lock` | violation, see Findings |
| `shaper` | one axis at a time, watched, truthful spinner, own results, ends |
| `shaper_late` | violation |
| `updater` | the switch obeyed, a check given up in the end, one update at a time, outcome shown |
| `print_status` | once all is dealt with, the miniature, button and bar agree with the printer, and the details with the print of the first round; only a print takes the screen, one that went by unreported included |
| `print_details` | violation |
| `wifi` | one network per plain name, with a password typed for it; the panel's ids are exact although they are given out again; the queue implements `Mailbox`; "Connecting" does not stay |
| `wifi_password` | violation |

### Bounds

Every bound is a constant and appears in a guard. A queue of 2 overflows and
still holds two events whose order can matter. Two connections, two boots, two
prints and two presses are what it takes for something of an earlier one to meet a
later one. In `ws_client` the one notification method is one whose dispatch runs both a
session handler and a registered one; a consumer of status updates registers and
unregisters there, and is called only in the generality of the proofs. In `wifi` four
touches, with typing not counted, allow select, type, select another, send; a connect
followed by Forget; and select, Forget, select another, send, which gives the other
network the id of the one forgotten. One of the two names is plain and one is not,
wpa_supplicant starts with none, one or two networks of the latter, and one thing goes
wrong: a network comes or goes, a link is lost or an attempt is refused.
In `print_status` one of two files has metadata, and progress has the values
begun, nearly done and done; `MaxQueued = 1` counts the reports waiting, not the other
events. `Limit = 1` in `shaper`, `Limit = 0` in `belts` (an age of 0 or 1) and
`Abandon = 2` keep the watchdogs' before and after apart. The second boot in
`MCSession` loses one object of the first and gains one. Requests beyond these
repeat the same meetings: request ids are never reused, and the panels hold one run, one
scan per file or one job at a time. Deadlock is not checked where the bounds, or
a user who does nothing more, really stop the system.

### Fairness

Only the LVGL thread's own steps are fair, and what answers it where the
property says so:

- `WsClient`: `MainLoop`. The loop drains on each turn, and handlers return.
  Nothing is assumed of libhv, Moonraker or the panels.
- `Session`: dispatch, and Moonraker answering requests while connected. Nothing
  is assumed of Klipper or the socket; `SessionComesUp` speaks of the case in
  which they stay.
- `PrintPanel`: dispatch, the refresh timer, Moonraker answering and finishing
  scans, and reconnecting, which libhv does (`reconn_setting`).
- `BeltsCalibration`, `InputShaper`: the loop, the clock and the watchdog.
  Nothing of Klipper: runs end although Klipper may say nothing at all.
  `RunEnds` of `BeltsCalibration` admits the stuck loop, which `belts_lock` is about.
- `Updater`: the two timers. The threads may never answer.
- `Wifi`: the drain timer (every 200 ms), a scan that was started finishing, its
  results being used, and an attempt ending one way or the other, which
  wpa_supplicant does by itself. `ConnectingSettles` makes no claim once an event was
  dropped from the full queue, nor for a password refused for its length, which
  `wifi_password` is about.
- `PrintStatus` states no liveness; its properties are about the states in which
  nothing is under way, and about steps.

## Proofs

Every theorem is for all values of the constants that satisfy the module's named
assumption: any files, objects, networks, handlers, queue sizes and limits, and any
value of the bounds that TLC needs small. The assumptions say that bounds are
naturals and sets are of their kind; `Wifi` and `PrintStatus` also that the placeholder
`None` is no network, or no file, and `Wifi` that no two names are stored alike.

| module | theorems | what they establish |
|---|---|---|
| `WsClientProofs` | `TypeCorrect`, `RepliesReachAsker`, `NeverServedTwice`, `HandlersAwait`, `RepliesInTurn`, `QueueIsMailbox` | `TypeOK`, `ReplyToAsker`, `ServedOnce`, `HandlerAwaitsReply`, `ReplyOnItsConnection`, the steps of `Mailbox` |
| `SessionProofs` | `TypeCorrect`, `ThisBoot`, `Agrees` | `TypeOK`, `StateOfThisBoot`, `QuiescentAgrees` |
| `PrintPanelProofs` | `TypeCorrect`, `CacheFresh`, `ScanHoldsPrint` | `TypeOK`, `CacheNotStale`, `LatestScanHoldsPrint` |
| `PrintStatusProofs` | `TypeCorrect`, `Agrees`, `DetailsRight`, `OnlyAPrint` | `TypeOK`, `ScreenAgrees`, `DetailsOfThisPrint`, the action property `OnlyAPrintTakesTheScreen` |
| `BeltsProofs` | `TypeCorrect`, `RunWatched`, `OneSweep`, `PlotOfThisRun` | `TypeOK`, `RunIsWatched`, `OneSweepAtATime`, `PlotIsOfThisRun` |
| `InputShaperProofs` | `TypeCorrect`, `OneAxis`, `RunWatched`, `ResultIsLatest` | `TypeOK`, `OneAxisAtATime`, `RunIsWatched`, the action property `ResultOfThisRun` |
| `UpdaterProofs` | `TypeCorrect`, `NoticeCorrect`, `OneUpdate` | `TypeOK`, `NoticeObeysSetting`, `OneUpdateAtATime` |
| `WifiProofs` | `TypeCorrect`, `Sound`, `ExactIds`, `QueueIsMailbox` | `TypeOK`, `BlocksSound`, `IdsExact`, the steps of `Mailbox` |

Each module follows the same course: `Initial`, lemmas about the operators, one
lemma per action or group of actions, `Inductive`, the theorem `Invariant`
(`Spec => []IInv`), and the properties from it. What the properties lack to be
inductive, and what `IInv` adds:

**WsClient.** `ReplyToAsker` speaks of the handlers about to run and not of where
they come from. `IInv == TypeOK /\ Filed /\ CallsAsked /\ ServedOnce`: `Filed`,
a handler in a table is filed under a request that its owner made; `CallsAsked`,
`ReplyToAsker` and the id was spent. A reply takes its handlers from the tables,
where `Filed` identifies them; a request files under `id`, which is new
(`DOMAIN asked = 0..(id - 1)`).

`DInv` adds where replies may be. `Known`: Moonraker holds
requests of the present socket only, and every reply is to a request that was made.
`Awaits`: a request is unanswered or has one reply in `batch \o queue`, and until
that is dispatched its handler is filed. `InTurn` is the ground of
`ReplyOnItsConnection`: unless a Connected was dropped, there is a numbering along
`batch \o queue` that starts at `opened` (`connection_id()`), grows by one at each
Connected and ends at the number of times the socket has opened, and it meets every
reply at the number of the connection that carried it. `QueueIsMailbox` maps push,
drain and dispatch to the steps of `Mailbox`.

**Session.** Both properties speak of a moment when the queue has run out of
something, so the invariant says what the queue will lead to. `Current`: while
connected and ready, every event with no Connected or klippy_ready behind it was
sent by the present boot, and with none left so is all of State. `Round`: with none
left, a list request or list is on its way, or the last request is a subscription
to all of this boot's objects, or the subscription is in force and, for each
object, the last report in the queue (State and sensor, without one) has the
printer's value (`Leads`). Overlapping rounds need no case of their own, because
only the last counts.

**PrintPanel.** `Wire` types what is on its way. `Fresh`: versions only grow, so the
events report those of a file in order, none older than the one listed. `Held`: of
the scans of a file asked for under the present count at most one is outstanding, as
request, job or reply, and `scans` has it noted; nothing was asked for under a count
still to come; the button follows `scans`. The first attempt at `CacheNotStale`
failed for a good reason: with versions that may come back to an earlier value the
property is false, which the small instance had hidden. Versions are modified times,
so in the model they now only grow: the code, which only asks whether two are equal,
rests on that.

**PrintStatus.** A report carries differences, so what `consume` makes of one depends
on the status it is a difference from. `Leads`: the events in `inbox` take State
through a chain of statuses that Klipper can be in (`Sound`), from the present one to
the one Moonraker reported last, and each report is the difference of two neighbours
such that a print appears in its course, or is a change of a print under way, or has
its file in `missed` (`Later`). `Shows`: the button follows from State alone, the
miniature and the bar do as long as nothing was missed; that `consume` keeps this,
taking the keys of a difference one after the other, is `ConsumeFacts`. With the
queue empty the chain has one link, and State is the printer. `OnlyAPrint` needs the
chain too: a new name without a new state is a change during a print, or the file of
a print that was missed.
`First`: in the first round there is at most one thing on its way that will make
State known, and until it is dispatched the panel is untouched. `Details`: the last
metadata request on its way, or else the last reply, is for the file State names, and
with neither on its way the panel describes that file. The same is false in later
rounds, which is finding 3.

**BeltsCalibration.** `Marked` types the history marks; words of no run, other than
errors and Klipper's going, are there only once someone ran a sweep or an analysis by
hand. `InStep`, as long as nothing was orphaned: the one script the panel waits for is at Klipper or what it said is in
the inbox, never both, and what it said fits the state of the run. The sweep, and the
end that puts a plot up, can then only be this run's. `FirstPlot`: before the first plot
is put up LVGL holds none, so that the first is drawn from its file.

**InputShaper.** `Marked`, `OneRuns`, and `FewOrphans => InLine`. `InLine` looks at
responses and scripts as one line, responses first, in which stand the tests and the
results the panel acts on. While at most one calibration is orphaned, that one has a
single item left, which stands before all of the latest one's, and if it is a result
no axis is analysing when it comes; the latest has the item its run waits for.
`ResultIsLatest` follows: a result taken by an analysing axis is not the orphan's.

**Updater.** `InFlight`: the check being collected was started since the switch was
turned on, which is still on, and has collections left. `DialogHasJob`: a dialog that
polls has a job. The state falls into two halves, of `UpdateCheck` and of
`UpdateDialog` (`Halves`), and each action touches one.

**Wifi.** `WpaSound`: the current network and the enabled ones exist, there is one
network for each single name (plain, and not doubled at the start), and passwords are
those of the names the networks were set up for. `PanelSound`: an id the panel holds is
that of a network listed under the name or set up for it, no two names have one id, and
for a plain name Forget is offered only when the panel holds its id (`Exact`); once
there is a table, the panel knows every network of a single name, so that `connect`
never adds a second one (`Known`); what is typed is for the row selected (`Keyed`). That
the id of a new network is a new one needs the set of ids to be bounded, which is proved
along.

Only model-checked:

- liveness (`DrainEnds`, `SessionComesUp`, `PrintReleased`, `ViewCatchesUp`, the
  ends of runs, `ConnectingSettles` and the others), and with it the fairness part
  of `MailboxSpec`: TLAPS does not prove liveness under fairness or reason about
  ENABLED here.

Every invariant and every action property of the passing runs is stated by a theorem.

No module uses a RECURSIVE operator, which would put it out of the prover's reach.

## Findings

1. `belts_lock`: `BeltsCalibrationPanel::check_timeouts` takes `lv_lock` in a
   timer callback, which `GuppyScreen::loop` runs with `lv_lock` held: when the
   15 minutes pass, the interface stops for good.
2. `shaper_late`: the comment in `InputShaperPanel` says late messages of a run
   given up are not acted on. If Calibrate was pressed again, they are, because
   the file name is the same.
3. `print_details`: "Metadata is fetched fresh for every print". A print of the
   file `PrintStatusPanel` still holds the name of, begun after Klipper restarted
   or while the socket was down, is not noticed as a new one, because `init` drops
   the details but not the name. The usual way there: a print fails, the firmware
   is restarted, the same file is printed again.
4. `wifi_password`: the comment at `wpa_failure_reason` tells of "Connecting to X ..."
   being "set and never cleared" as what handling the failure events put an end to. A
   password of fewer than 8 or more than 63
   characters is refused by SET_NETWORK, whose answer `connect` does not look at; the
   network has no key, wpa_supplicant does not try it, no event comes, and the message
   stays.

Also met, without a run of their own:

- `websocket_client.h` says a request made under an earlier `connection_id()` is
  never answered. The count grows when Connected is dispatched, so a request made
  between the opening and that dispatch is answered under a later count.
- `docs/audit.md` says only the second scan's reply releases Print. After two
  reconnects the metadata the first scan stored ends the record of the second.
- Handlers of requests that could not be sent stay in the table; an error reply to
  the subscription uncovers the screen; an exception in a panel's `init` leaves it
  covered; State can mix two boots until klippy_ready is dispatched.
- The poll interval is taken modulo 2^32 milliseconds; the outcome of an update
  that ends with its dialog closed is never shown.
- `BeltsCalibrationPanel` shows an earlier run's plot when LVGL still holds it
  (`belts_calibration_panel.cpp:243-247`; `docs/audit.md:575-580` has the same of other
  panels, where it was put right), or when `graph_belts.py`, which prints the similarity
  before it saves the picture, fails in between. Sweeps and analyses that another client
  runs by hand are taken for the panel's own.
- `UpdateCheck` and `UpdateDialog` would be left in flight, with no timer to end it, if
  starting a thread threw (`update_check.cpp:239-241`, `update_dialog.cpp:243, 263`).
- `InputShaperPanel`: an exception in the rendering after `finish_run`
  (`inputshaper_panel.cpp:746-749`) would leave the axis in the queue unstarted.
- `PrintPanel`: a scan refused while another file is selected is asked for again when
  the file is selected again.
- `InputShaperPanel::foreground` puts the config's shapers and frequencies back
  over a calibration's result that was not saved, while the result stays shown.
- `PrintStatusPanel`: Pause confirmed after the print changed stays disabled; the
  second print of a file in a row does not take the screen; a report that carries
  both "complete" and a progress below 1 shows less than 100 %; the picture of an
  earlier print stays for a file without one; a print that begins and ends between two
  reports takes the screen although nothing is printing (391-395), since a new name is
  acted on whatever the state.
- `WifiPanel`: a failure is reported for the network selected now; `cur_network`
  outlives the connection, and selecting it then does nothing; a scan that ends
  during an attempt shows "Connected", because wpa_supplicant lists the network as
  current before it is; a failed scan leaves the spinner; SELECT_NETWORK followed
  by SAVE_CONFIG leaves every other network disabled for good; a network whose name has
  a quote, a backslash or a byte that is not ASCII never matches what the panel set up
  for it, so it is not connected to, each attempt adds a network (the comment at 455-457
  says "Replace rather than accumulate") and a later Forget misses them; with no network
  to look for, a failure reads "Could not connect to ."; `WpaEvent::init_wpa`
  tries the control socket once ("TODO: retries"), and `conn` is written by the
  event thread and read by the LVGL thread without a lock.
- `ManualZPanel` computes each jog from State, which lags behind quick taps.

## Not modelled, and why

Vendored code: the repository carries LVGL glue, libhv, subprocess and the whole of
wpa_supplicant (some 690 thousand of its 708 thousand lines of code, with assets and
fonts compiled into C arrays). The program's own code, `src/src/`, is under 20
thousand lines. Of wpa_supplicant only the functions behind the commands and events
the Wi-Fi panel uses are modelled; a model of a supplicant's drivers, EAP methods and
P2P would say nothing about this program.

Of `src/src/`: JSON contents, formatting, layout, drawing and logging; the widgets
and device panels, whose handlers send one command each; the installer. In the
modelled panels: tables, apply and save of the input shaper panel, the file table's
layout and the job prompt, fans and leds (built as sensors are), the print status
panel's temperatures, speeds, times and layers, an error reply to the file browser's
`printer.objects.list`, a thread that cannot be started, numbers missing from what
`calibrate_shaper.py` prints, a wpa_supplicant that does not answer, names longer than
32 bytes once they are escaped. Prompts, manual Z, the configuration and bed mesh are not modelled.

## Plan

Done: `Mailbox`, `WsClient`, `PrintPanel`, `BeltsCalibration`, `InputShaper`,
`Updater`, `Session`, `Wifi` and `PrintStatus`, then their proofs. The websocket
client came first because everything passes through it, the others because they
hold the longest protocols and the most hazards.

Every safety property is proved. What could still be added on that side are lemmas
towards the liveness properties, such as the measure that each turn of a drain lowers.

Further components, should they grow: `Prompt` and `ManualZ` (protocols over gcode
responses and status updates), `Printers` (the configuration and the switch of
printer), bed mesh profiles, spools and the extruder's macros.
