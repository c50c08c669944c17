-------------------------------- MODULE Updater --------------------------------
(***************************************************************************)
(* UpdateCheck (src/src/update_check.cpp), UpdateDialog                    *)
(* (src/src/update_dialog.cpp) and what shows and controls them: the badge *)
(* of MainPanel, the button of SettingPanel, the switch and the interval   *)
(* of SysInfoPanel.                                                        *)
(*                                                                         *)
(* Both parts run update.sh on detached threads: a check thread fills a    *)
(* Check, an update thread fills a Job, and timers of the LVGL thread look *)
(* at them under their locks.  A thread may outlive what started it, and   *)
(* may never come back.                                                    *)
(* Left out: versions, the text of the log, layout, and the restart of the *)
(* program by an update that installs.                                     *)
(***************************************************************************)
EXTENDS Naturals, Sequences

CONSTANTS
  Abandon,    \* collections until a check is given up (ABANDON_MS / COLLECT_MS)
  MaxToggles, \* bound: changes of the switch or of the interval
  MaxPolls,   \* bound: times the poll timer fires
  MaxPresses, \* bound: times Update Guppy is pressed
  MaxLines    \* bound: lines an update prints

ASSUME UpdaterAssumption == /\ Abandon \in Nat \ {0} /\ MaxToggles \in Nat
                            /\ MaxPolls \in Nat /\ MaxPresses \in Nat /\ MaxLines \in Nat \ {0}

VARIABLES
  script,        \* update.sh lies beside the binary
  enabled,       \* config: update_check_enabled
  poll_timer, collect_timer, \* the timer exists
  checks,        \* per check started: what its thread found, "running" until then
  in_flight,     \* check the LVGL thread waits for, 0 for none
  waited,        \* collections that found nothing
  available,     \* the check that found the update on offer, 0 for no offer
  badge,         \* the dot and the button's label announce an update
  jobs,          \* per update started: [output, done]
  running_job,   \* latest update, 0 before the first
  dialog,        \* the open dialog: [job, shown, shown_done, timer], NoDialog
  toggles, polls, presses, \* bounds used up
  enabled_at     \* history: checks started before the switch was last turned on

checking == <<poll_timer, collect_timer, checks, in_flight, waited, available, badge>>
updating == <<jobs, running_job, dialog>>
bounds == <<toggles, polls, presses>>
vars == <<script, enabled, checking, updating, bounds, enabled_at>>

NoDialog == [job |-> 0, shown |-> 0, shown_done |-> FALSE, timer |-> FALSE]

\* What a check may report: an update on offer, or anything else ("devbuild"
\* stands for that, a current version, and a check that failed).
Statuses == {"available", "devbuild"}

-----------------------------------------------------------------------------
(* UpdateCheck                                                             *)

\* A change of the offer reaches the listener, MainPanel::refresh_update_badge.
set_available(n) == available' = n /\ badge' = IF n = available THEN badge ELSE n > 0

MutCheckNowKeepsWaited(flight) ==
  IF flight # 0 \/ ~script
  THEN in_flight' = flight /\ UNCHANGED <<checks, waited, collect_timer>>
  ELSE /\ in_flight' = Len(checks) + 1
       /\ checks' = Append(checks, "running")
       /\ collect_timer' = TRUE /\ UNCHANGED waited

\* Start a check, unless one is in flight.
check_now(flight) ==
  IF flight # 0 \/ ~script
  THEN in_flight' = flight /\ UNCHANGED <<checks, waited, collect_timer>>
  ELSE /\ in_flight' = Len(checks) + 1
       /\ checks' = Append(checks, "running")
       /\ waited' = 0 /\ collect_timer' = TRUE

MutReconfigureKeepsCheck(on) ==
  IF ~on
  THEN /\ poll_timer' = FALSE
       /\ set_available(0)
       /\ UNCHANGED <<collect_timer, in_flight, checks, waited>>
  ELSE /\ poll_timer' = script
       /\ check_now(in_flight)
       /\ UNCHANGED <<available, badge>>

reconfigure(on) ==
  IF ~on
  THEN /\ poll_timer' = FALSE /\ collect_timer' = FALSE /\ in_flight' = 0
       /\ set_available(0)
       /\ UNCHANGED <<checks, waited>>
  ELSE /\ poll_timer' = script
       /\ check_now(in_flight)
       /\ UNCHANGED <<available, badge>>

poll_cb ==
  /\ poll_timer /\ polls < MaxPolls /\ polls' = polls + 1
  /\ check_now(in_flight)
  /\ UNCHANGED <<script, enabled, poll_timer, available, badge, updating, toggles, presses,
                 enabled_at>>

\* The check's thread is done: update.sh --check answered, or could not be run.
run_check(n, status) ==
  /\ checks[n] = "running"
  /\ checks' = [checks EXCEPT ![n] = status]
  /\ UNCHANGED <<script, enabled, poll_timer, collect_timer, in_flight, waited, available,
                 badge, updating, bounds, enabled_at>>

\* The collect timer looks at the check in flight; one that does not answer is
\* given up after Abandon looks.
MutCollectWaits ==
  /\ collect_timer /\ in_flight # 0 /\ checks[in_flight] = "running"
  /\ waited' = IF waited < Abandon THEN waited + 1 ELSE waited
  /\ UNCHANGED <<script, enabled, poll_timer, collect_timer, in_flight, checks, available,
                 badge, updating, bounds, enabled_at>>

collect_waits ==
  /\ collect_timer /\ in_flight # 0 /\ checks[in_flight] = "running"
  /\ waited' = waited + 1
  /\ collect_timer' = (waited' < Abandon)
  /\ in_flight' = IF waited' < Abandon THEN in_flight ELSE 0
  /\ UNCHANGED <<script, enabled, poll_timer, checks, available, badge, updating, bounds,
                 enabled_at>>

collect_takes ==
  /\ collect_timer /\ in_flight # 0 /\ checks[in_flight] # "running"
  /\ in_flight' = 0 /\ collect_timer' = FALSE
  /\ set_available(IF checks[in_flight] = "available" THEN in_flight ELSE 0)
  /\ UNCHANGED <<script, enabled, poll_timer, checks, waited, updating, bounds, enabled_at>>

-----------------------------------------------------------------------------
(* SysInfoPanel                                                            *)

handle_update_check_toggle ==
  /\ toggles < MaxToggles /\ toggles' = toggles + 1
  /\ enabled' = ~enabled
  /\ enabled_at' = IF enabled' THEN Len(checks) ELSE enabled_at
  /\ reconfigure(enabled')
  /\ UNCHANGED <<script, updating, polls, presses>>

handle_update_interval ==
  /\ toggles < MaxToggles /\ toggles' = toggles + 1
  /\ reconfigure(enabled)
  /\ UNCHANGED <<script, enabled, updating, polls, presses, enabled_at>>

-----------------------------------------------------------------------------
(* UpdateDialog                                                            *)

MutRefreshLooksAtOutput(d, job) ==
  IF job.output = d.shown THEN d
  ELSE [d EXCEPT !.shown = job.output, !.shown_done = job.done, !.timer = ~job.done]

\* Dialog d after a look at its job: the outcome ends the polling.
refresh(d, job) ==
  IF job.output = d.shown /\ job.done = d.shown_done THEN d
  ELSE [d EXCEPT !.shown = job.output, !.shown_done = job.done, !.timer = ~job.done]

open_dialog(n) ==
  dialog' = refresh([NoDialog EXCEPT !.job = n, !.timer = TRUE], jobs'[n])

is_running(n) == n # 0 /\ ~jobs[n].done

MutShowStartsAnother ==
  /\ dialog = NoDialog /\ presses < MaxPresses /\ presses' = presses + 1
  /\ running_job' = Len(jobs) + 1
  /\ jobs' = Append(jobs, [output |-> 1, done |-> ~script])
  /\ open_dialog(running_job')
  /\ UNCHANGED <<script, enabled, checking, toggles, polls, enabled_at>>

\* Update Guppy: look at the update that runs, or start one.  The dialog is
\* modal, the button is out of reach while it is open.
show ==
  /\ dialog = NoDialog /\ presses < MaxPresses /\ presses' = presses + 1
  /\ IF is_running(running_job)
     THEN UNCHANGED <<jobs, running_job>>
     ELSE /\ running_job' = Len(jobs) + 1
          /\ jobs' = Append(jobs, [output |-> 1, done |-> ~script])
  /\ open_dialog(running_job')
  /\ UNCHANGED <<script, enabled, checking, toggles, polls, enabled_at>>

\* The dialog's poll timer.
dialog_poll_cb ==
  /\ dialog.timer
  /\ dialog' = refresh(dialog, jobs[dialog.job])
  /\ UNCHANGED <<script, enabled, checking, jobs, running_job, bounds, enabled_at>>

close_dialog ==
  /\ dialog # NoDialog /\ dialog' = NoDialog
  /\ UNCHANGED <<script, enabled, checking, jobs, running_job, bounds, enabled_at>>

\* The update's thread: it passes on what update.sh prints, and its end.
run_script_prints(n) ==
  /\ ~jobs[n].done /\ jobs[n].output < MaxLines
  /\ jobs' = [jobs EXCEPT ![n].output = @ + 1]
  /\ UNCHANGED <<script, enabled, checking, running_job, dialog, bounds, enabled_at>>

run_script_ends(n) ==
  /\ ~jobs[n].done
  /\ jobs' = [jobs EXCEPT ![n].done = TRUE]
  /\ UNCHANGED <<script, enabled, checking, running_job, dialog, bounds, enabled_at>>

-----------------------------------------------------------------------------
\* MainPanel::create_panel has set the listener and started the checks.
Init ==
  /\ script \in BOOLEAN /\ enabled \in BOOLEAN
  /\ poll_timer = (enabled /\ script) /\ collect_timer = (enabled /\ script)
  /\ checks = IF enabled /\ script THEN <<"running">> ELSE <<>>
  /\ in_flight = IF enabled /\ script THEN 1 ELSE 0
  /\ waited = 0 /\ available = 0 /\ badge = FALSE
  /\ jobs = <<>> /\ running_job = 0 /\ dialog = NoDialog
  /\ toggles = 0 /\ polls = 0 /\ presses = 0 /\ enabled_at = 0

Collect == collect_waits \/ collect_takes

Next ==
  \/ poll_cb \/ Collect
  \/ \E n \in DOMAIN checks, s \in Statuses : run_check(n, s)
  \/ handle_update_check_toggle \/ handle_update_interval
  \/ show \/ dialog_poll_cb \/ close_dialog
  \/ \E n \in DOMAIN jobs : run_script_prints(n) \/ run_script_ends(n)

\* Timers fire.  Nothing is assumed of the threads or of the user.
Spec == Init /\ [][Next]_vars /\ WF_vars(Collect) /\ WF_vars(dialog_poll_cb)

-----------------------------------------------------------------------------
\* Types, and that the timers, the checks and the jobs referred to exist.
TypeOK ==
  /\ script \in BOOLEAN /\ enabled \in BOOLEAN /\ poll_timer \in BOOLEAN
  /\ collect_timer \in BOOLEAN /\ badge \in BOOLEAN
  /\ checks \in Seq(Statuses \cup {"running"})
  /\ in_flight \in {0} \cup DOMAIN checks /\ available \in {0} \cup DOMAIN checks
  /\ waited \in 0..Abandon
  /\ jobs \in Seq([output : 1..MaxLines, done : BOOLEAN])
  /\ running_job \in {0} \cup DOMAIN jobs
  /\ dialog \in [job : {0} \cup DOMAIN jobs, shown : 0..MaxLines, shown_done : BOOLEAN,
                 timer : BOOLEAN]

\* Switching the check off takes effect now and for good ("otherwise switching the
\* setting off while one is in flight lets its result land a moment later and put
\* the notice back"): an update is announced only while the switch is on, and only
\* on the word of a check started since it was last turned on.
NoticeObeysSetting ==
  /\ badge <=> available # 0
  /\ available # 0 => enabled /\ available > enabled_at /\ checks[available] = "available"

\* At most one update.sh is installing, and it is the one a press of Update Guppy
\* would show, however often the button is pressed and the dialog closed: "a second
\* press while the first is still downloading shows that run" (UpdateDialog::show).
OneUpdateAtATime == \A n \in DOMAIN jobs : ~jobs[n].done => n = running_job

\* A check does not stay in flight for ever, even if its thread never answers:
\* later polls are not declined for ever.
CheckSettles == \A n \in 1..(MaxToggles + MaxPolls + 1) : in_flight = n ~> in_flight # n

\* A dialog left open comes to show the outcome of its update, also when the
\* update ends without printing another line.
OutcomeShown ==
  \A n \in 1..MaxPresses :
    (dialog.job = n /\ jobs[n].done) ~> (dialog.job # n \/ dialog.shown_done)
===============================================================================
