------------------------------ MODULE Reminders ------------------------------
(***************************************************************************)
(* One reminder: its row, the scheduler's due scan and retry scan, the     *)
(* owner agent's drain loop, and the requests that report, edit and cancel *)
(* it, or stop, start and configure the agent.  Time is abstracted to      *)
(* whether a timer has run out.  A fire is one scheduled run of the        *)
(* reminder; row.fire numbers the fires that convert, edit and reschedule  *)
(* set up.                                                                 *)
(***************************************************************************)
EXTENDS Naturals

CONSTANTS
    MaxFires,       \* fires the row is scheduled for
    Backoff,        \* len(retryBackoff)
    MaxFaults       \* broken streams, crashes, failed writes, lost replies

ASSUME RemindersAssumption == MaxFires \in Nat \ {0} /\ Backoff \in Nat \ {0} /\ MaxFaults \in Nat

VARIABLES
    row,            \* the reminder row
    scan,           \* the scheduler's two loops, with their copy of the row
    enabled,        \* whether the owner agent is started
    capable,        \* whether a runtime is configured for it
    link,           \* its machine's control stream
    wakeCh,         \* the drain loop's wake channel
    loop,           \* the drain loop, "none" while no runner hosts the agent
    report,         \* the CompleteReminder or FailReminder in progress
    edit,           \* whether UpdateReminderFields has read the status
    crossed,        \* history: a scan wrote to a later fire than it had listed
    dropped,        \* history: a due fire may have lost its timer or its wake
    faults          \* faults so far

ownerVars   == <<enabled, capable>>
agentVars   == <<wakeCh, loop>>
requestVars == <<report, edit>>
vars == <<row, scan, ownerVars, link, agentVars, requestVars, crossed, dropped, faults>>

Terminal == {"COMPLETED", "FAILED", "CANCELLED"}
Status   == {"PENDING", "DUE", "MISSED"} \cup Terminal
Fire     == 1 .. MaxFires
Scans    == {"due", "retry"}

\* connected: the machine has its roster, no stream is registered yet; dead: the
\* registered stream is broken; stale: the same, and the machine is back.
Links    == {"down", "connected", "up", "dead", "stale"}
Online   == link \in {"up", "dead", "stale"}

\* ripe: fire_at has passed; timer: next_retry_at is NULL, ahead or passed
Row    == [status: Status, fire: Fire, ripe: BOOLEAN, cron: BOOLEAN,
           retry: 0 .. Backoff, timer: {"null", "ahead", "passed"}]
Copy   == [step: {"idle", "mark", "check", "clear", "wake", "set", "miss"},
           fire: Fire, cron: BOOLEAN, count: 0 .. Backoff]
Idle   == [step |-> "idle", fire |-> 1, cron |-> FALSE, count |-> 0]
Report == [step: {"none", "commit"}, cron: BOOLEAN]
NoReport == [step |-> "none", cron |-> FALSE]

\* Every variable holds a value of its kind.
ReminderTypeOK ==
    /\ row \in Row
    /\ scan \in [Scans -> Copy]
    /\ enabled \in BOOLEAN /\ capable \in BOOLEAN /\ link \in Links
    /\ wakeCh \in BOOLEAN /\ loop \in {"none", "wait", "pull", "batch", "work"}
    /\ report \in Report /\ edit \in BOOLEAN
    /\ crossed \in BOOLEAN /\ dropped \in BOOLEAN /\ faults \in 0 .. MaxFaults

\* ConvertMessageToReminder has inserted the row; fire_at is in the future.  An
\* agent may be created without a runtime.
ReminderInit ==
    /\ \E cron \in BOOLEAN : row = [status |-> "PENDING", fire |-> 1, ripe |-> FALSE, cron |-> cron,
                                    retry |-> 0, timer |-> "null"]
    /\ scan = [l \in Scans |-> Idle]
    /\ enabled = TRUE /\ capable \in BOOLEAN
    /\ link = "down" /\ wakeCh = FALSE /\ loop = "none"
    /\ report = NoReport /\ edit = FALSE
    /\ crossed = FALSE /\ dropped = FALSE /\ faults = 0

Fault == faults < MaxFaults /\ faults' = faults + 1

\* A due row goes back to PENDING for its next fire; without one (a one-shot, or
\* NextFire fails, as it does here after MaxFires) it ends in status.
Closed(cron, status) ==
    IF cron /\ row.fire < MaxFires
            THEN [row EXCEPT !.status = "PENDING", !.fire = @ + 1, !.ripe = FALSE, !.retry = 0, !.timer = "null"]
            ELSE [row EXCEPT !.status = status, !.retry = 0, !.timer = "null"]

-----------------------------------------------------------------------------
(* Time.                                                                   *)

\* fire_at passes ...
FireElapses ==
    /\ row.status = "PENDING" /\ ~ row.ripe
    /\ row' = [row EXCEPT !.ripe = TRUE]
    /\ UNCHANGED <<scan, ownerVars, link, agentVars, requestVars, crossed, dropped, faults>>

\* ... and next_retry_at does.
RetryElapses ==
    /\ row.timer = "ahead"
    /\ row' = [row EXCEPT !.timer = "passed"]
    /\ UNCHANGED <<scan, ownerVars, link, agentVars, requestVars, crossed, dropped, faults>>

-----------------------------------------------------------------------------
(* The scheduler.                                                          *)

Crosses(l) == crossed' = (crossed \/ (row.status \in {"PENDING", "DUE"} /\ scan[l].fire # row.fire))

Goto(l, step) == scan' = [scan EXCEPT ![l].step = step]

\* Mutant: the scan does not look at fire_at.
ListPending ==
    /\ scan["due"].step = "idle"
    /\ row.status = "PENDING"
    /\ scan' = [scan EXCEPT !["due"] = [step |-> "mark", fire |-> row.fire, cron |-> row.cron, count |-> 0]]
    /\ UNCHANGED <<row, ownerVars, link, agentVars, requestVars, crossed, dropped, faults>>

\* scanDue lists PENDING rows whose fire_at has passed.
ListDuePending ==
    /\ scan["due"].step = "idle"
    /\ row.status = "PENDING" /\ row.ripe
    /\ scan' = [scan EXCEPT !["due"] = [step |-> "mark", fire |-> row.fire, cron |-> row.cron, count |-> 0]]
    /\ UNCHANGED <<row, ownerVars, link, agentVars, requestVars, crossed, dropped, faults>>

\* scanRetry lists DUE rows whose next_retry_at has passed.
ListDueRetrying ==
    /\ scan["retry"].step = "idle"
    /\ row.status = "DUE" /\ row.timer = "passed"
    /\ scan' = [scan EXCEPT !["retry"] = [step |-> "check", fire |-> row.fire, cron |-> row.cron, count |-> row.retry]]
    /\ UNCHANGED <<row, ownerVars, link, agentVars, requestVars, crossed, dropped, faults>>

\* A row that is PENDING, whatever its schedule has become, becomes DUE.
MarkDue ==
    /\ scan["due"].step = "mark"
    /\ row' = IF row.status = "PENDING" THEN [row EXCEPT !.status = "DUE", !.retry = 0, !.timer = "null"] ELSE row
    /\ Crosses("due")
    /\ Goto("due", "check")
    /\ UNCHANGED <<ownerVars, link, agentVars, requestVars, dropped, faults>>

\* Mutant: one retry too few.
DeliverShort(l) ==
    /\ scan[l].step = "check"
    /\ Goto(l, CASE Online -> "clear"
                 [] ~ Online /\ scan[l].count + 1 >= Backoff -> "miss"
                 [] OTHER -> "set")
    /\ UNCHANGED <<row, ownerVars, link, agentVars, requestVars, crossed, dropped, faults>>

Offline(l) == IF scan[l].count >= Backoff THEN "miss" ELSE "set"

\* deliver: wake an agent that is online, stopped or not, else retry later or
\* give up.
Deliver(l) ==
    /\ scan[l].step = "check"
    /\ Goto(l, IF Online THEN "clear" ELSE Offline(l))
    /\ UNCHANGED <<row, ownerVars, link, agentVars, requestVars, crossed, dropped, faults>>

\* The retry timer goes; dropped when it is the timer of a later fire.
ClearRetry(l) ==
    /\ scan[l].step = "clear"
    /\ row' = IF row.status = "DUE" THEN [row EXCEPT !.timer = "null"] ELSE row
    /\ dropped' = (dropped \/ scan[l].fire # row.fire)
    /\ Crosses(l)
    /\ Goto(l, "wake")
    /\ UNCHANGED <<ownerVars, link, agentVars, requestVars, faults>>

\* notifyAgent: a stopped agent is skipped, and so is a machine that has no
\* stream.  The wake reaches the runner of an agent that is hosted; it is lost
\* to a machine that is back and whose new stream is not registered yet.
NotifyWake(l) ==
    /\ scan[l].step = "wake"
    /\ wakeCh' = (wakeCh \/ (enabled /\ link = "up" /\ loop # "none"))
    /\ dropped' = (dropped \/ (enabled /\ link \in {"connected", "stale"}))
    /\ Goto(l, "idle")
    /\ UNCHANGED <<row, ownerVars, link, loop, requestVars, crossed, faults>>

\* GetAgent fails: IsAgentOnline takes the agent for offline, and notifyAgent
\* returns, after the timer is gone.
AgentUnread(l) ==
    /\ Fault /\ scan[l].step \in {"check", "wake"}
    /\ Goto(l, IF scan[l].step = "check" THEN Offline(l) ELSE "idle")
    /\ dropped' = (dropped \/ scan[l].step = "wake")
    /\ UNCHANGED <<row, ownerVars, link, agentVars, requestVars, crossed>>

\* Mutant: the attempt is counted and no timer is set.
CountRetry(l) ==
    /\ scan[l].step = "set"
    /\ row' = IF row.status = "DUE" THEN [row EXCEPT !.retry = scan[l].count + 1] ELSE row
    /\ Crosses(l)
    /\ Goto(l, "idle")
    /\ UNCHANGED <<ownerVars, link, agentVars, requestVars, dropped, faults>>

SetRetry(l) ==
    /\ scan[l].step = "set"
    /\ row' = IF row.status = "DUE" THEN [row EXCEPT !.retry = scan[l].count + 1, !.timer = "ahead"] ELSE row
    /\ Crosses(l)
    /\ Goto(l, "idle")
    /\ UNCHANGED <<ownerVars, link, agentVars, requestVars, dropped, faults>>

MarkMissed(l) ==
    /\ scan[l].step = "miss"
    /\ row' = IF row.status = "DUE" THEN Closed(scan[l].cron, "MISSED") ELSE row
    /\ Crosses(l)
    /\ Goto(l, "idle")
    /\ UNCHANGED <<ownerVars, link, agentVars, requestVars, dropped, faults>>

\* A write fails and is logged: MarkDue's is tried again by the next scan, as
\* are those that leave the timer; a first retry that is not set is dropped.
WriteFails(l) ==
    /\ Fault /\ scan[l].step \in {"mark", "clear", "set", "miss"}
    /\ Goto(l, IF scan[l].step = "clear" THEN "wake" ELSE "idle")
    /\ dropped' = (dropped \/ (scan[l].step = "set" /\ l = "due"))
    /\ UNCHANGED <<row, ownerVars, link, agentVars, requestVars, crossed>>

-----------------------------------------------------------------------------
(* The owner agent.                                                        *)

\* The machine connects: the runners of its assigned agents are spawned or
\* kept, and woken; a stopped agent's is torn down ...
Connect ==
    /\ link \in {"down", "dead"}
    /\ link' = IF link = "down" THEN "connected" ELSE "stale"
    /\ wakeCh' = enabled
    /\ loop' = IF ~ enabled THEN "none" ELSE IF loop = "none" THEN "wait" ELSE loop
    /\ UNCHANGED <<row, scan, ownerVars, requestVars, crossed, dropped, faults>>

\* ... and then its control stream is registered.
RegisterMachine ==
    /\ link \in {"connected", "stale"}
    /\ link' = "up"
    /\ UNCHANGED <<row, scan, ownerVars, agentVars, requestVars, crossed, dropped, faults>>

\* The stream breaks; the manager notices when the handler returns.
BreakStream ==
    /\ Fault /\ link \in {"connected", "up"}
    /\ link' = IF link = "up" THEN "dead" ELSE "down"
    /\ UNCHANGED <<row, scan, ownerVars, agentVars, requestVars, crossed, dropped>>

UnregisterMachine ==
    /\ link \in {"dead", "stale"}
    /\ link' = IF link = "dead" THEN "down" ELSE "connected"
    /\ UNCHANGED <<row, scan, ownerVars, agentVars, requestVars, crossed, dropped, faults>>

\* StopAgent: RemoveAgent tears the runner down, if the machine has a stream.
StopAgent ==
    /\ enabled
    /\ enabled' = FALSE
    /\ loop' = IF link = "up" THEN "none" ELSE loop
    /\ wakeCh' = (wakeCh /\ link # "up")
    /\ UNCHANGED <<row, scan, capable, link, requestVars, crossed, dropped, faults>>

\* StartAgent: the assignment spawns or wakes the runner.  A machine that has
\* taken its roster and has no stream yet misses it.
StartAgent ==
    /\ ~ enabled
    /\ enabled' = TRUE
    /\ loop' = IF link = "up" /\ loop = "none" THEN "wait" ELSE loop
    /\ wakeCh' = (wakeCh \/ link = "up")
    /\ dropped' = (dropped \/ link \in {"connected", "stale"})
    /\ UNCHANGED <<row, scan, capable, link, requestVars, crossed, faults>>

\* UpdateAgentACPConfig gives the agent a runtime, and wakes nobody.
UpdateAgentACPConfig ==
    /\ ~ capable
    /\ capable' = TRUE
    /\ dropped' = (dropped \/ row.status = "DUE")
    /\ UNCHANGED <<row, scan, enabled, link, agentVars, requestVars, crossed, faults>>

TakeWake ==
    /\ loop = "wait" /\ wakeCh
    /\ wakeCh' = FALSE /\ loop' = "pull"
    /\ UNCHANGED <<row, scan, ownerVars, link, requestVars, crossed, dropped, faults>>

\* BeginSession: HasDueReminders opens a session of an agent that is started and
\* has a runtime.
BeginSession ==
    /\ loop = "pull"
    /\ loop' = IF row.status = "DUE" /\ enabled /\ capable THEN "batch" ELSE "wait"
    /\ UNCHANGED <<row, scan, ownerVars, link, wakeCh, requestVars, crossed, dropped, faults>>

\* reminderSection lists the due reminders; a turn without one ends.
ListDueReminders ==
    /\ loop = "batch"
    /\ loop' = IF row.status = "DUE" THEN "work" ELSE "pull"
    /\ UNCHANGED <<row, scan, ownerVars, link, wakeCh, requestVars, crossed, dropped, faults>>

\* CompleteReminder or FailReminder reads the row, for its next fire ...
ReportReads ==
    /\ loop = "work" /\ report.step = "none"
    /\ report' = [step |-> "commit", cron |-> row.cron]
    /\ UNCHANGED <<row, scan, ownerVars, link, agentVars, edit, crossed, dropped, faults>>

\* ... and closes it in one transaction if it is DUE.
ReportCommits(status) ==
    /\ report.step = "commit"
    /\ row' = IF row.status = "DUE" THEN Closed(report.cron, status) ELSE row
    /\ report' = NoReport
    /\ loop' = IF loop = "work" THEN "pull" ELSE loop
    /\ UNCHANGED <<scan, ownerVars, link, wakeCh, edit, crossed, dropped, faults>>

\* The reply is lost: the agent reports again.
ReplyLost(status) ==
    /\ Fault /\ report.step = "commit"
    /\ row' = IF row.status = "DUE" THEN Closed(report.cron, status) ELSE row
    /\ report' = NoReport
    /\ UNCHANGED <<scan, ownerVars, link, agentVars, edit, crossed, dropped>>

\* The turn ends without a report.
TurnFails ==
    /\ Fault /\ loop \in {"batch", "work"} /\ report.step = "none"
    /\ loop' = "pull"
    /\ UNCHANGED <<row, scan, ownerVars, link, wakeCh, requestVars, crossed, dropped>>

-----------------------------------------------------------------------------
(* Users, and the manager.                                                 *)

\* Mutant: the retry timer outlives a cancel.
CancelStatus ==
    /\ row.status \in {"PENDING", "DUE", "MISSED"}
    /\ row' = [row EXCEPT !.status = "CANCELLED"]
    /\ UNCHANGED <<scan, ownerVars, link, agentVars, requestVars, crossed, dropped, faults>>

CancelReminder ==
    /\ row.status \in {"PENDING", "DUE", "MISSED"}
    /\ row' = [row EXCEPT !.status = "CANCELLED", !.timer = "null"]
    /\ UNCHANGED <<scan, ownerVars, link, agentVars, requestVars, crossed, dropped, faults>>

\* UpdateReminderFields reads the status and refuses a terminal one (MaxFires
\* bounds the edits) ...
UpdateReads ==
    /\ ~ edit /\ row.status \notin Terminal /\ row.fire < MaxFires
    /\ edit' = TRUE
    /\ UNCHANGED <<row, scan, ownerVars, link, agentVars, report, crossed, dropped, faults>>

\* ... and then writes the schedule and PENDING, whatever the status is now.
UpdateWrites(ripe, cron) ==
    /\ edit /\ row.fire < MaxFires
    /\ row' = [status |-> "PENDING", fire |-> row.fire + 1, ripe |-> ripe, cron |-> cron,
               retry |-> 0, timer |-> "null"]
    /\ edit' = FALSE
    /\ UNCHANGED <<scan, ownerVars, link, agentVars, report, crossed, dropped, faults>>

\* The manager crashes: its scans, requests and streams are gone.
Restart ==
    /\ Fault
    /\ scan' = [l \in Scans |-> Idle]
    /\ report' = NoReport /\ edit' = FALSE
    /\ link' = "down"
    /\ UNCHANGED <<row, ownerVars, agentVars, crossed, dropped>>

ScanStep(l) ==
    \/ Deliver(l) \/ ClearRetry(l) \/ NotifyWake(l) \/ SetRetry(l) \/ MarkMissed(l)

DrainStep == TakeWake \/ BeginSession \/ ListDueReminders

TurnStep ==
    \/ ReportReads \/ TurnFails
    \/ \E status \in {"COMPLETED", "FAILED"} : ReportCommits(status) \/ ReplyLost(status)

OwnerStep == StopAgent \/ StartAgent \/ UpdateAgentACPConfig

ReminderNext ==
    \/ FireElapses \/ RetryElapses
    \/ ListDuePending \/ ListDueRetrying \/ MarkDue
    \/ \E l \in Scans : ScanStep(l) \/ AgentUnread(l) \/ WriteFails(l)
    \/ DrainStep \/ TurnStep
    \/ Connect \/ RegisterMachine \/ BreakStream \/ UnregisterMachine \/ OwnerStep
    \/ CancelReminder \/ UpdateReads
    \/ \E ripe, cron \in BOOLEAN : UpdateWrites(ripe, cron)
    \/ Restart

\* The tick loops run, timers run out, the machine reconnects, the drain loop
\* runs.  Nothing makes a turn report.
ReminderFairness ==
    /\ WF_vars(RetryElapses)
    /\ WF_vars(ListDuePending \/ MarkDue \/ ScanStep("due"))
    /\ WF_vars(ListDueRetrying \/ ScanStep("retry"))
    /\ WF_vars(Connect) /\ WF_vars(RegisterMachine)
    /\ WF_vars(DrainStep)

ReminderSafe == ReminderInit /\ [][ReminderNext]_vars
ReminderSpec == ReminderSafe /\ ReminderFairness

-----------------------------------------------------------------------------
(* Properties.                                                             *)

\* retry_count and next_retry_at belong to the fire that is due: no timer
\* survives a report, a miss, an edit or a cancel.
TimerOfDue == row.timer # "null" => row.status = "DUE" /\ row.retry > 0

\* A scan works on a copy of the row that an edit, a report or the other scan
\* may have left behind: it is never ahead of the row, and once it has marked
\* or listed a due fire, a row that is PENDING again is at a later one.
ScansBehind ==
    \A l \in Scans : scan[l].step # "idle" =>
        /\ scan[l].fire <= row.fire
        /\ row.status = "PENDING" /\ scan[l].step # "mark" => scan[l].fire < row.fire

\* The retry count a scan has read decides between retrying and giving up; the
\* due scan reads a fresh one, so it never gives up, and only it marks.
CountsRead ==
    /\ scan["due"].count = 0 /\ scan["retry"].step # "mark"
    /\ \A l \in Scans : /\ scan[l].step = "set" => scan[l].count < Backoff
                        /\ scan[l].step = "miss" => scan[l].count >= Backoff

\* What the due scan is about to mark is not due yet, and is ripe unless it has
\* been edited since it was listed.
ListedRipe ==
    scan["due"].step = "mark" =>
        /\ row.status # "DUE"
        /\ row.status = "PENDING" /\ scan["due"].fire = row.fire => row.ripe

Delivering == {"check", "clear", "set", "miss"}

\* While the due scan delivers the fire it marked, that fire has no retry of
\* its own and the retry scan has nothing to do with it.
DueFresh ==
    row.status = "DUE" /\ ~ crossed /\ scan["due"].step \in Delivering =>
        /\ row.retry = 0 /\ row.timer = "null"
        /\ scan["retry"].step = "idle" \/ scan["retry"].fire < row.fire

\* The retry scan's copy of the count is the row's as long as the fire is.
RetrySame ==
    row.status = "DUE" /\ ~ crossed /\ scan["retry"].step # "idle" /\ scan["retry"].fire = row.fire =>
        row.retry = scan["retry"].count

AgentLooks == wakeCh \/ loop \in {"pull", "batch", "work"}

\* A started agent has a runner on its machine once the machine is back.
Hosted == enabled /\ ~ dropped /\ link \in {"connected", "stale", "up"} => loop # "none"

\* A due fire that no timer will bring back is on its way to its agent: the due
\* scan has still to deliver it, a scan is about to send the wake, the agent is
\* at work or about to look, or its machine has still to reconnect, which wakes
\* it.  A stopped agent is woken when it is started.
DueCarried ==
    row.status = "DUE" /\ row.timer = "null" /\ enabled /\ capable /\ ~ dropped =>
        \/ scan["due"].step \in Delivering
        \/ \E l \in Scans : scan[l].step = "wake"
        \/ AgentLooks \/ link \in {"down", "dead"}

\* A fire of the reminder is never lost or mixed up with another: what the
\* scans, the timer, the wake and the agent each know of the row.
ReminderInv ==
    /\ ReminderTypeOK /\ TimerOfDue /\ ScansBehind /\ CountsRead /\ ListedRipe
    /\ DueFresh /\ RetrySame /\ Hosted /\ DueCarried

\* scanDue fires a reminder whose fire_at has passed; an edit between its list
\* and its MarkDue is the only way to fire early.
FiresOnTime == [][row.status = "PENDING" /\ row'.status = "DUE" =>
                     row.ripe \/ scan["due"].fire # row.fire]_vars

\* A fire is given up only after Backoff retries of its own, unless a scan that
\* had listed an earlier fire took it for that one.
MissEarned == [][\A l \in Scans : scan[l].step = "miss" /\ row' # row /\ scan'[l].step = "idle" =>
                     row.retry >= Backoff \/ crossed']_vars

\* A reminder that is due reaches a turn of its agent, or is missed, edited or
\* cancelled, unless the agent is stopped or has no runtime.
Delivered == row.status = "DUE" ~>
                 loop = "work" \/ row.status # "DUE" \/ dropped \/ ~ enabled \/ ~ capable
=============================================================================
