---------------------------- MODULE UpdaterProofs ----------------------------
(***************************************************************************)
(* Proofs about Updater for every abandon limit and every number of        *)
(* polls, presses and printed lines: type correctness, that an update is   *)
(* announced only as the switch allows, and that only one update installs. *)
(***************************************************************************)
EXTENDS Updater, TLAPS

(* What the LVGL thread waits for: a check is in flight only while the     *)
(* switch is on, it was started since, and it has collections left.        *)
InFlight ==
  /\ collect_timer <=> in_flight # 0
  /\ in_flight # 0 => enabled /\ in_flight > enabled_at /\ waited < Abandon
  /\ poll_timer => enabled
  /\ enabled_at \in Nat /\ enabled_at <= Len(checks)

(* A dialog that polls has a job to look at.                               *)
DialogHasJob == dialog.timer => dialog.job # 0

IInv == TypeOK /\ InFlight /\ DialogHasJob /\ NoticeObeysSetting /\ OneUpdateAtATime

USE UpdaterAssumption DEF vars, checking, updating, bounds

(* The half of the state that UpdateCheck keeps, and the half of UpdateDialog. *)
CheckInv ==
  /\ script \in BOOLEAN /\ enabled \in BOOLEAN /\ poll_timer \in BOOLEAN
  /\ collect_timer \in BOOLEAN /\ badge \in BOOLEAN
  /\ checks \in Seq(Statuses \cup {"running"})
  /\ in_flight \in {0} \cup DOMAIN checks /\ available \in {0} \cup DOMAIN checks
  /\ waited \in 0..Abandon
  /\ InFlight /\ NoticeObeysSetting

Job == [output : 1..MaxLines, done : BOOLEAN]

DialogInv ==
  /\ jobs \in Seq(Job)
  /\ running_job \in {0} \cup DOMAIN jobs
  /\ dialog \in [job : {0} \cup DOMAIN jobs, shown : 0..MaxLines, shown_done : BOOLEAN,
                 timer : BOOLEAN]
  /\ DialogHasJob /\ OneUpdateAtATime

(* The two halves are the invariant.                                       *)
LEMMA Halves == (IInv <=> script \in BOOLEAN /\ CheckInv /\ DialogInv)
  BY DEF IInv, TypeOK, CheckInv, DialogInv, Job

(* A step that leaves UpdateCheck alone.                                   *)
LEMMA CheckFrame ==
  ASSUME CheckInv, UNCHANGED <<script, enabled, checking, enabled_at>>
  PROVE  CheckInv'
  BY DEF CheckInv, InFlight, NoticeObeysSetting

(* A step that leaves UpdateDialog alone.                                  *)
LEMMA DialogFrame ==
  ASSUME DialogInv, UNCHANGED updating
  PROVE  DialogInv'
  BY DEF DialogInv, DialogHasJob, OneUpdateAtATime

(* Starting a check, or declining to, keeps what is known of the checks:   *)
(* the new one comes after every earlier one.                              *)
LEMMA CheckNow ==
  ASSUME CheckInv, check_now(in_flight), enabled'
         , enabled' \in BOOLEAN, enabled_at' \in Nat, enabled_at' <= Len(checks)
         , in_flight # 0 => in_flight > enabled_at'
         , available # 0 => available > enabled_at'
         , UNCHANGED <<script, available, badge>>, poll_timer' \in BOOLEAN
  PROVE  CheckInv'
  <1>1. CASE in_flight # 0 \/ ~script
    <2>1. UNCHANGED <<in_flight, checks, waited, collect_timer>>
      BY <1>1 DEF check_now
    <2> QED
      BY <2>1 DEF CheckInv, InFlight, NoticeObeysSetting
  <1>2. CASE ~(in_flight # 0 \/ ~script)
    <2>1. /\ in_flight' = Len(checks) + 1 /\ checks' = Append(checks, "running")
          /\ waited' = 0 /\ collect_timer' = TRUE
      BY <1>2 DEF check_now
    <2>2. /\ checks' \in Seq(Statuses \cup {"running"}) /\ Len(checks') = Len(checks) + 1
          /\ DOMAIN checks' = DOMAIN checks \cup {Len(checks) + 1}
          /\ \A n \in DOMAIN checks : checks'[n] = checks[n]
      BY <2>1 DEF CheckInv
    <2> QED
      BY <2>1, <2>2 DEF CheckInv, InFlight, NoticeObeysSetting
  <1> QED
    BY <1>1, <1>2

(* Applying a setting, the switch turned or not.                           *)
LEMMA Reconfigure ==
  ASSUME CheckInv, reconfigure(enabled'), enabled' \in BOOLEAN
         , enabled_at' = IF enabled' /\ ~enabled THEN Len(checks) ELSE enabled_at
         , UNCHANGED script
  PROVE  CheckInv'
  <1>1. CASE ~enabled'
    <2>1. /\ poll_timer' = FALSE /\ collect_timer' = FALSE /\ in_flight' = 0
          /\ available' = 0 /\ UNCHANGED <<checks, waited>>
      BY <1>1 DEF reconfigure, set_available
    <2>2. badge' = FALSE
      BY <1>1 DEF reconfigure, set_available, CheckInv, NoticeObeysSetting
    <2>3. enabled_at' = enabled_at
      BY <1>1
    <2> QED
      BY <1>1, <2>1, <2>2, <2>3 DEF CheckInv, InFlight, NoticeObeysSetting
  <1>2. CASE enabled'
    <2>1. check_now(in_flight) /\ UNCHANGED <<available, badge>> /\ poll_timer' \in BOOLEAN
      BY <1>2 DEF reconfigure, CheckInv
    <2>2. /\ enabled_at' \in Nat /\ enabled_at' <= Len(checks)
          /\ in_flight # 0 => in_flight > enabled_at'
          /\ available # 0 => available > enabled_at'
      BY DEF CheckInv, InFlight, NoticeObeysSetting
    <2> QED
      BY <1>2, <2>1, <2>2, CheckNow
  <1> QED
    BY <1>1, <1>2

(* Every step of UpdateCheck and of SysInfoPanel.                          *)
LEMMA CheckSteps ==
  ASSUME CheckInv, Next
  PROVE  CheckInv'
  <1>1. CASE poll_cb
    BY <1>1, CheckNow DEF poll_cb, CheckInv, InFlight, NoticeObeysSetting
  <1>2. CASE collect_waits
    <2>1. /\ in_flight # 0 /\ waited' = waited + 1
          /\ UNCHANGED <<script, enabled, poll_timer, checks, available, badge, enabled_at>>
      BY <1>2 DEF collect_waits
    <2>2. CASE waited' < Abandon
      <3>1. collect_timer' = TRUE /\ in_flight' = in_flight
        BY <1>2, <2>2 DEF collect_waits
      <3> QED
        BY <2>1, <2>2, <3>1 DEF CheckInv, InFlight, NoticeObeysSetting
    <2>3. CASE ~(waited' < Abandon)
      <3>1. collect_timer' = (waited' < Abandon) /\ in_flight' = 0
        BY <1>2, <2>3 DEF collect_waits
      <3>2. collect_timer' <=> waited' < Abandon
        BY <3>1, Zenon
      <3>3. collect_timer' \in BOOLEAN
        BY <3>1
      <3> QED
        BY <2>1, <2>3, <3>1, <3>2, <3>3 DEF CheckInv, InFlight, NoticeObeysSetting
    <2> QED
      BY <2>2, <2>3
  <1>3. CASE collect_takes
    <2> DEFINE n == IF checks[in_flight] = "available" THEN in_flight ELSE 0
    <2>1. /\ in_flight # 0 /\ in_flight' = 0 /\ collect_timer' = FALSE /\ available' = n
          /\ UNCHANGED <<script, enabled, poll_timer, checks, waited, enabled_at>>
      BY <1>3 DEF collect_takes, set_available
    <2>2. n \in Nat
      BY DEF CheckInv
    <2>3. badge' = IF n = available THEN badge ELSE n > 0
      BY <1>3 DEF collect_takes, set_available
    <2>4. badge' \in BOOLEAN /\ (badge' <=> n # 0)
      <3>1. CASE n = available
        BY <2>3, <3>1 DEF CheckInv, NoticeObeysSetting
      <3>2. CASE n # available
        <4>1. badge' = (n > 0)
          BY <2>3, <3>2
        <4>2. badge' <=> n > 0
          BY <4>1, Zenon
        <4>3. badge' \in BOOLEAN
          BY <4>1
        <4> QED
          BY <2>2, <4>2, <4>3
      <3> QED
        BY <3>1, <3>2
    <2> QED
      BY <2>1, <2>4 DEF CheckInv, InFlight, NoticeObeysSetting
  <1>4. ASSUME NEW n \in DOMAIN checks, NEW s \in Statuses, run_check(n, s)
        PROVE  CheckInv'
    <2>1. /\ checks[n] = "running" /\ checks' = [checks EXCEPT ![n] = s]
          /\ UNCHANGED <<script, enabled, poll_timer, collect_timer, in_flight, waited,
                         available, badge, enabled_at>>
      BY <1>4 DEF run_check
    <2>2. /\ checks' \in Seq(Statuses \cup {"running"}) /\ Len(checks') = Len(checks)
          /\ DOMAIN checks' = DOMAIN checks
          /\ \A m \in DOMAIN checks : m # n => checks'[m] = checks[m]
      BY <2>1 DEF CheckInv
    <2> QED
      BY <2>1, <2>2 DEF CheckInv, InFlight, NoticeObeysSetting
  <1>5. CASE handle_update_check_toggle
    <2>1. enabled' = ~enabled /\ enabled' \in BOOLEAN
      BY <1>5 DEF handle_update_check_toggle
    <2>2. /\ reconfigure(enabled') /\ UNCHANGED script
          /\ enabled_at' = IF enabled' THEN Len(checks) ELSE enabled_at
      BY <1>5 DEF handle_update_check_toggle
    <2> QED
      BY <2>1, <2>2, Reconfigure
  <1>6. CASE handle_update_interval
    <2>1. UNCHANGED <<script, enabled, enabled_at>> /\ reconfigure(enabled)
      BY <1>6 DEF handle_update_interval
    <2>2. reconfigure(enabled') /\ enabled' \in BOOLEAN
      BY <2>1 DEF CheckInv
    <2> QED
      BY <2>1, <2>2, Reconfigure
  <1>7. CASE show
    BY <1>7, CheckFrame DEF show
  <1>8. CASE dialog_poll_cb
    BY <1>8, CheckFrame DEF dialog_poll_cb
  <1>9. CASE close_dialog
    BY <1>9, CheckFrame DEF close_dialog
  <1>10. CASE \E n \in DOMAIN jobs : run_script_prints(n) \/ run_script_ends(n)
    BY <1>10, CheckFrame DEF run_script_prints, run_script_ends
  <1> QED
    BY <1>1, <1>2, <1>3, <1>4, <1>5, <1>6, <1>7, <1>8, <1>9, <1>10 DEF Next, Collect

(* A look of a dialog at its job leaves a dialog on that job.              *)
LEMMA RefreshType ==
  ASSUME NEW D, NEW d \in [job : D, shown : 0..MaxLines, shown_done : BOOLEAN, timer : BOOLEAN]
         , NEW j \in Job
  PROVE  /\ refresh(d, j) \in [job : D, shown : 0..MaxLines, shown_done : BOOLEAN,
                               timer : BOOLEAN]
         /\ refresh(d, j).job = d.job
  <1> DEFINE seen == [d EXCEPT !.shown = j.output, !.shown_done = j.done, !.timer = ~j.done]
  <1>1. j.output \in 0..MaxLines /\ j.done \in BOOLEAN /\ (~j.done) \in BOOLEAN
    BY DEF Job
  <1>2. /\ seen \in [job : D, shown : 0..MaxLines, shown_done : BOOLEAN, timer : BOOLEAN]
        /\ seen.job = d.job
    BY <1>1
  <1>3. refresh(d, j) = d \/ refresh(d, j) = seen
    BY DEF refresh
  <1> QED
    BY <1>2, <1>3

(* Every step of UpdateDialog: a second update is started only once every  *)
(* earlier one is done.                                                    *)
LEMMA DialogSteps ==
  ASSUME script \in BOOLEAN, DialogInv, Next
  PROVE  DialogInv'
  <1>1. CASE poll_cb \/ Collect \/ handle_update_check_toggle \/ handle_update_interval
    BY <1>1, DialogFrame DEF poll_cb, Collect, collect_waits, collect_takes,
         handle_update_check_toggle, handle_update_interval
  <1>2. CASE \E n \in DOMAIN checks, s \in Statuses : run_check(n, s)
    BY <1>2, DialogFrame DEF run_check
  <1>3. CASE show
    <2> DEFINE started == [output |-> 1, done |-> ~script]
               opened == [NoDialog EXCEPT !.job = running_job', !.timer = TRUE]
    <2>1. started \in Job
      BY DEF Job
    <2>2. /\ jobs' \in Seq(Job) /\ running_job' \in DOMAIN jobs'
          /\ OneUpdateAtATime'
      <3>1. CASE is_running(running_job)
        BY <1>3, <3>1 DEF show, is_running, DialogInv, OneUpdateAtATime
      <3>2. CASE ~is_running(running_job)
        <4>1. running_job' = Len(jobs) + 1 /\ jobs' = Append(jobs, started)
          BY <1>3, <3>2 DEF show
        <4>2. \A n \in DOMAIN jobs : jobs[n].done
          BY <3>2 DEF is_running, DialogInv, OneUpdateAtATime, Job
        <4>3. /\ jobs' \in Seq(Job) /\ DOMAIN jobs' = DOMAIN jobs \cup {Len(jobs) + 1}
              /\ \A n \in DOMAIN jobs : jobs'[n] = jobs[n]
          BY <2>1, <4>1 DEF DialogInv
        <4> QED
          BY <4>1, <4>2, <4>3 DEF OneUpdateAtATime
      <3> QED
        BY <3>1, <3>2
    <2>3. opened \in [job : {0} \cup DOMAIN jobs', shown : 0..MaxLines, shown_done : BOOLEAN,
                      timer : BOOLEAN] /\ opened.job = running_job'
      <3>1. NoDialog \in [job : {0} \cup DOMAIN jobs', shown : 0..MaxLines,
                          shown_done : BOOLEAN, timer : BOOLEAN]
        BY DEF NoDialog
      <3> QED
        BY <2>2, <3>1
    <2>4. jobs'[running_job'] \in Job /\ running_job' # 0
      BY <2>2
    <2>5. dialog' = refresh(opened, jobs'[running_job'])
      BY <1>3 DEF show, open_dialog
    <2> HIDE DEF opened
    <2>6. /\ dialog' \in [job : {0} \cup DOMAIN jobs', shown : 0..MaxLines,
                          shown_done : BOOLEAN, timer : BOOLEAN]
          /\ dialog'.job = running_job'
      BY <2>3, <2>4, <2>5, RefreshType
    <2> QED
      BY <2>2, <2>4, <2>6 DEF DialogInv, DialogHasJob
  <1>4. CASE dialog_poll_cb
    <2>1. dialog' = refresh(dialog, jobs[dialog.job]) /\ UNCHANGED <<jobs, running_job>>
      BY <1>4 DEF dialog_poll_cb
    <2>2. dialog.job # 0 /\ dialog.job \in DOMAIN jobs
      BY <1>4 DEF dialog_poll_cb, DialogInv, DialogHasJob
    <2>3. jobs[dialog.job] \in Job
      BY <2>2 DEF DialogInv
    <2>4. /\ dialog' \in [job : {0} \cup DOMAIN jobs, shown : 0..MaxLines,
                          shown_done : BOOLEAN, timer : BOOLEAN]
          /\ dialog'.job = dialog.job
      BY <2>1, <2>3, RefreshType DEF DialogInv
    <2> QED
      BY <2>1, <2>2, <2>4 DEF DialogInv, DialogHasJob, OneUpdateAtATime
  <1>5. CASE close_dialog
    <2>1. dialog' = NoDialog /\ UNCHANGED <<jobs, running_job>>
      BY <1>5 DEF close_dialog
    <2> QED
      BY <2>1 DEF NoDialog, DialogInv, DialogHasJob, OneUpdateAtATime
  <1>6. ASSUME NEW n \in DOMAIN jobs, run_script_prints(n) \/ run_script_ends(n)
        PROVE  DialogInv'
    <2>0. jobs[n] \in Job /\ jobs[n].output \in 1..MaxLines
      <3>1. jobs[n] \in Job
        BY DEF DialogInv
      <3> QED
        BY <3>1 DEF Job
    <2>1. /\ ~jobs[n].done /\ jobs[n] \in Job /\ UNCHANGED <<running_job, dialog>>
          /\ jobs[n].output \in 1..MaxLines
      BY <1>6, <2>0 DEF run_script_prints, run_script_ends
    <2>2. PICK j \in Job : jobs' = [jobs EXCEPT ![n] = j]
      <3>1. CASE run_script_prints(n)
        <4> DEFINE j == [jobs[n] EXCEPT !.output = jobs[n].output + 1]
        <4>1. jobs' = [jobs EXCEPT ![n] = j] /\ jobs[n].output < MaxLines
          BY <3>1 DEF run_script_prints
        <4>2. jobs[n].output + 1 \in 1..MaxLines
          BY <2>1, <4>1
        <4>3. j \in Job
          BY <2>1, <4>2 DEF Job
        <4> HIDE DEF j
        <4> QED
          BY <4>1, <4>3
      <3>2. CASE run_script_ends(n)
        <4> DEFINE j == [jobs[n] EXCEPT !.done = TRUE]
        <4>1. jobs' = [jobs EXCEPT ![n] = j]
          BY <3>2 DEF run_script_ends
        <4>2. j \in Job
          BY <2>1 DEF Job
        <4> HIDE DEF j
        <4> QED
          BY <4>1, <4>2
      <3> QED
        BY <1>6, <3>1, <3>2
    <2>3. /\ jobs' \in Seq(Job) /\ DOMAIN jobs' = DOMAIN jobs
          /\ \A m \in DOMAIN jobs : m # n => jobs'[m] = jobs[m]
      BY <2>2 DEF DialogInv
    <2> QED
      BY <2>1, <2>3 DEF DialogInv, DialogHasJob, OneUpdateAtATime
  <1> QED
    BY <1>1, <1>2, <1>3, <1>4, <1>5, <1>6 DEF Next

(* MainPanel::create_panel leaves the invariant true.                      *)
LEMMA Initial == Init => IInv
  <1> SUFFICES ASSUME Init PROVE IInv
    OBVIOUS
  <1>1. CheckInv
    <2>1. /\ poll_timer = (enabled /\ script) /\ collect_timer = (enabled /\ script)
          /\ enabled \in BOOLEAN /\ script \in BOOLEAN
      BY DEF Init
    <2>2. (poll_timer <=> enabled /\ script) /\ (collect_timer <=> enabled /\ script)
      BY <2>1, Zenon
    <2>3. poll_timer \in BOOLEAN /\ collect_timer \in BOOLEAN
      BY <2>1
    <2>4. /\ waited = 0 /\ available = 0 /\ enabled_at = 0 /\ ~badge /\ badge \in BOOLEAN
      BY DEF Init
    <2>5. CASE enabled /\ script
      <3>1. checks = <<"running">> /\ in_flight = 1
        BY <2>5 DEF Init
      <3> QED
        BY <2>1, <2>2, <2>3, <2>4, <2>5, <3>1 DEF CheckInv, InFlight, NoticeObeysSetting
    <2>6. CASE ~(enabled /\ script)
      <3>1. checks = <<>> /\ in_flight = 0
        BY <2>6 DEF Init
      <3> QED
        BY <2>1, <2>2, <2>3, <2>4, <2>6, <3>1 DEF CheckInv, InFlight, NoticeObeysSetting
    <2> QED
      BY <2>5, <2>6
  <1>2. DialogInv
    BY DEF Init, NoDialog, DialogInv, DialogHasJob, OneUpdateAtATime
  <1> QED
    BY <1>1, <1>2, Halves DEF CheckInv

(* Every step keeps both halves.                                           *)
LEMMA Inductive == IInv /\ [Next]_vars => IInv'
  <1> SUFFICES ASSUME IInv, [Next]_vars PROVE IInv'
    OBVIOUS
  <1>1. CheckInv /\ DialogInv /\ script \in BOOLEAN
    BY Halves
  <1>2. CASE Next
    <2>1. CheckInv' /\ DialogInv'
      BY <1>1, <1>2, CheckSteps, DialogSteps
    <2> QED
      BY <2>1 DEF IInv, TypeOK, CheckInv, DialogInv, Job
  <1>3. CASE UNCHANGED vars
    <2>1. CheckInv' /\ DialogInv'
      BY <1>1, <1>3, CheckFrame, DialogFrame
    <2> QED
      BY <2>1 DEF IInv, TypeOK, CheckInv, DialogInv, Job
  <1> QED
    BY <1>2, <1>3

(* The inductive invariant holds throughout.                               *)
THEOREM Invariant == Spec => []IInv
  BY Initial, Inductive, PTL DEF Spec

(* Types of UpdateCheck's and UpdateDialog's state, and that the checks    *)
(* and jobs their timers look at exist.                                    *)
THEOREM TypeCorrect == Spec => []TypeOK
  <1>1. IInv => TypeOK
    BY DEF IInv
  <1> QED
    BY Invariant, <1>1, PTL

(* An update is announced only while the switch is on, and only on the     *)
(* word of a check started since it was turned on (UpdateCheck::reconfigure, *)
(* UpdateCheck::collect).                                                  *)
THEOREM NoticeCorrect == Spec => []NoticeObeysSetting
  <1>1. IInv => NoticeObeysSetting
    BY DEF IInv
  <1> QED
    BY Invariant, <1>1, PTL

(* At most one update.sh installs, the one UpdateDialog::show would open.  *)
THEOREM OneUpdate == Spec => []OneUpdateAtATime
  <1>1. IInv => OneUpdateAtATime
    BY DEF IInv
  <1> QED
    BY Invariant, <1>1, PTL
===============================================================================
