--------------------------- MODULE RemindersProofs ---------------------------
(***************************************************************************)
(* Proofs about Reminders, for every number of fires, retries and faults:  *)
(* ReminderInv is inductive, hence a due fire is never forgotten while its *)
(* timer or wake has not been dropped, no reminder fires before its time   *)
(* unless an edit races the scan (FiresOnTime), and none is given up       *)
(* before its own retries have run out unless two fires were crossed       *)
(* (MissEarned).                                                           *)
(***************************************************************************)
EXTENDS Reminders, TLAPS

\* The fields of the row and of the scans' copies have their types.
LEMMA ReminderFacts ==
    ASSUME ReminderTypeOK
    PROVE  /\ row.status \in Status /\ row.fire \in 1 .. MaxFires /\ row.retry \in 0 .. Backoff
           /\ \A l \in Scans : /\ scan[l] \in Copy
                               /\ scan[l].fire \in 1 .. MaxFires /\ scan[l].count \in 0 .. Backoff
  BY DEF ReminderTypeOK, Row, Copy, Fire

\* What a closed row becomes, after its last fire or before its next one.
LEMMA ClosedType ==
    ASSUME ReminderTypeOK, NEW cron \in BOOLEAN, NEW status \in Status
    PROVE  Closed(cron, status) \in Row
<1>1. row \in Row
  BY DEF ReminderTypeOK
<1>2. 0 \in 0 .. Backoff /\ (row.fire < MaxFires => row.fire + 1 \in Fire)
  BY ReminderFacts, RemindersAssumption DEF Fire
<1>3. CASE cron /\ row.fire < MaxFires
  BY <1>1, <1>2, <1>3 DEF Closed, Row, Status
<1>4. CASE ~ (cron /\ row.fire < MaxFires)
  BY <1>1, <1>2, <1>4 DEF Closed, Row
<1> QED BY <1>3, <1>4

\* fire_at passes: a fire that was listed stays ripe.
LEMMA StepFireElapses ==
    ASSUME ReminderInv, FireElapses PROVE ReminderInv'
<1> USE ReminderFacts DEF ReminderInv, FireElapses, agentVars, requestVars, ownerVars, Scans
<1>1. ReminderTypeOK'
  <2>1. row' \in Row
    BY RemindersAssumption DEF ReminderTypeOK, Row, Status, Terminal, Fire
  <2>2. scan' \in [Scans -> Copy]
    BY RemindersAssumption DEF ReminderTypeOK, Copy, Fire
  <2> QED BY <2>1, <2>2, RemindersAssumption DEF ReminderTypeOK, Report
<1>2. TimerOfDue'
  BY DEF TimerOfDue, ReminderTypeOK
<1>3. ScansBehind'
  BY DEF ScansBehind, ReminderTypeOK
<1>4. CountsRead'
  BY DEF CountsRead, ReminderTypeOK
<1>5. ListedRipe'
  BY DEF ListedRipe, ReminderTypeOK
<1>6. DueFresh'
  BY DEF DueFresh, Delivering, ReminderTypeOK
<1>7. RetrySame'
  BY DEF RetrySame, ReminderTypeOK
<1>8. Hosted'
  BY DEF Hosted, ReminderTypeOK
<1>9. DueCarried'
  BY DEF DueCarried, AgentLooks, Delivering, ReminderTypeOK
<1> QED BY <1>1, <1>2, <1>3, <1>4, <1>5, <1>6, <1>7, <1>8, <1>9

\* A timer that runs out still belongs to a due fire.
LEMMA StepRetryElapses ==
    ASSUME ReminderInv, RetryElapses PROVE ReminderInv'
<1> USE ReminderFacts DEF ReminderInv, RetryElapses, agentVars, requestVars, ownerVars, Scans
<1>1. ReminderTypeOK'
  <2>1. row' \in Row
    BY RemindersAssumption DEF ReminderTypeOK, Row, Status, Terminal, Fire
  <2>2. scan' \in [Scans -> Copy]
    BY RemindersAssumption DEF ReminderTypeOK, Copy, Fire
  <2> QED BY <2>1, <2>2, RemindersAssumption DEF ReminderTypeOK, Report
<1>2. TimerOfDue'
  BY DEF TimerOfDue, ReminderTypeOK
<1>3. ScansBehind'
  BY DEF ScansBehind, ReminderTypeOK
<1>4. CountsRead'
  BY DEF CountsRead, ReminderTypeOK
<1>5. ListedRipe'
  BY DEF ListedRipe, ReminderTypeOK
<1>6. DueFresh'
  BY DEF DueFresh, Delivering, ReminderTypeOK
<1>7. RetrySame'
  BY DEF RetrySame, ReminderTypeOK
<1>8. Hosted'
  BY DEF Hosted, ReminderTypeOK
<1>9. DueCarried'
  BY DEF DueCarried, AgentLooks, Delivering, ReminderTypeOK
<1> QED BY <1>1, <1>2, <1>3, <1>4, <1>5, <1>6, <1>7, <1>8, <1>9

\* The due scan copies a ripe row.
LEMMA StepListDuePending ==
    ASSUME ReminderInv, ListDuePending PROVE ReminderInv'
<1> USE ReminderFacts DEF ReminderInv, ListDuePending, agentVars, requestVars, ownerVars, Scans
<1>1. ReminderTypeOK'
  BY RemindersAssumption DEF ReminderTypeOK, Row, Copy, Fire
<1>2. TimerOfDue'
  BY DEF TimerOfDue, ReminderTypeOK
<1>3. ScansBehind'
  BY DEF ScansBehind, ReminderTypeOK
<1>4. CountsRead'
  BY DEF CountsRead, ReminderTypeOK
<1>5. ListedRipe'
  BY DEF ListedRipe, ReminderTypeOK
<1>6. DueFresh'
  BY DEF DueFresh, Delivering, ReminderTypeOK
<1>7. RetrySame'
  BY DEF RetrySame, ReminderTypeOK
<1>8. Hosted'
  BY DEF Hosted, ReminderTypeOK
<1>9. DueCarried'
  BY DEF DueCarried, AgentLooks, Delivering, ReminderTypeOK
<1> QED BY <1>1, <1>2, <1>3, <1>4, <1>5, <1>6, <1>7, <1>8, <1>9

\* The retry scan copies a due row, and its count with it.
LEMMA StepListDueRetrying ==
    ASSUME ReminderInv, ListDueRetrying PROVE ReminderInv'
<1> USE ReminderFacts DEF ReminderInv, ListDueRetrying, agentVars, requestVars, ownerVars, Scans
<1>1. ReminderTypeOK'
  BY RemindersAssumption DEF ReminderTypeOK, Row, Copy, Fire
<1>2. TimerOfDue'
  BY DEF TimerOfDue, ReminderTypeOK
<1>3. ScansBehind'
  BY DEF ScansBehind, ReminderTypeOK
<1>4. CountsRead'
  BY DEF CountsRead, ReminderTypeOK
<1>5. ListedRipe'
  BY DEF ListedRipe, ReminderTypeOK
<1>6. DueFresh'
  BY DEF DueFresh, Delivering, ReminderTypeOK
<1>7. RetrySame'
  BY DEF RetrySame, ReminderTypeOK
<1>8. Hosted'
  BY DEF Hosted, ReminderTypeOK
<1>9. DueCarried'
  BY DEF DueCarried, AgentLooks, Delivering, ReminderTypeOK
<1> QED BY <1>1, <1>2, <1>3, <1>4, <1>5, <1>6, <1>7, <1>8, <1>9

\* The fire becomes due, fresh, and the due scan is about to deliver it.
LEMMA StepMarkDue ==
    ASSUME ReminderInv, MarkDue PROVE ReminderInv'
<1> USE ReminderFacts DEF ReminderInv, MarkDue, Goto, Crosses, agentVars, requestVars, ownerVars, Scans
<1>1. ReminderTypeOK'
  <2>1. row' \in Row
    <3>1. CASE row.status = "PENDING"
      <4>1. 0 \in 0 .. Backoff
        BY RemindersAssumption
      <4> QED BY <3>1, <4>1 DEF ReminderTypeOK, Row, Status
    <3>2. CASE row.status # "PENDING"
      BY <3>2 DEF ReminderTypeOK
    <3> QED BY <3>1, <3>2
  <2>2. scan' \in [Scans -> Copy]
    BY RemindersAssumption DEF ReminderTypeOK, Copy, Fire
  <2> QED BY <2>1, <2>2, RemindersAssumption DEF ReminderTypeOK, Report
<1>2. TimerOfDue'
  BY DEF TimerOfDue, ReminderTypeOK
<1>3. ScansBehind'
  BY DEF ScansBehind, ReminderTypeOK
<1>4. CountsRead'
  BY DEF CountsRead, ReminderTypeOK
<1>5. ListedRipe'
  BY DEF ListedRipe, ReminderTypeOK
<1>6. DueFresh'
  BY DEF DueFresh, Delivering, ScansBehind, ListedRipe, CountsRead, ReminderTypeOK
<1>7. RetrySame'
  BY DEF RetrySame, ScansBehind, ListedRipe, CountsRead, ReminderTypeOK
<1>8. Hosted'
  BY DEF Hosted, ReminderTypeOK
<1>9. DueCarried'
  BY DEF DueCarried, AgentLooks, Delivering, ReminderTypeOK
<1> QED BY <1>1, <1>2, <1>3, <1>4, <1>5, <1>6, <1>7, <1>8, <1>9

\* The machine is up, or there are retries left, or not.
LEMMA StepDeliver ==
    ASSUME NEW l \in Scans, ReminderInv, Deliver(l) PROVE ReminderInv'
<1> USE ReminderFacts DEF ReminderInv, Deliver, Offline, Online, Goto, agentVars, requestVars, ownerVars, Scans
<1>1. ReminderTypeOK'
  BY RemindersAssumption DEF ReminderTypeOK, Copy
<1>2. TimerOfDue'
  BY DEF TimerOfDue, ReminderTypeOK
<1>3. ScansBehind'
  BY DEF ScansBehind, ReminderTypeOK
<1>4. CountsRead'
  BY RemindersAssumption DEF CountsRead, ReminderTypeOK, Row, Copy
<1>5. ListedRipe'
  BY DEF ListedRipe, ReminderTypeOK
<1>6. DueFresh'
  BY DEF DueFresh, Delivering, ReminderTypeOK
<1>7. RetrySame'
  BY DEF RetrySame, ReminderTypeOK
<1>8. Hosted'
  BY DEF Hosted, ReminderTypeOK
<1>9. DueCarried'
  BY DEF DueCarried, AgentLooks, Delivering, ReminderTypeOK
<1> QED BY <1>1, <1>2, <1>3, <1>4, <1>5, <1>6, <1>7, <1>8, <1>9

\* The timer goes: the wake is next.
LEMMA StepClearRetry ==
    ASSUME NEW l \in Scans, ReminderInv, ClearRetry(l) PROVE ReminderInv'
<1> USE ReminderFacts DEF ReminderInv, ClearRetry, Goto, Crosses, agentVars, requestVars, ownerVars, Scans
<1>1. ReminderTypeOK'
  <2>1. row' \in Row
    BY RemindersAssumption DEF ReminderTypeOK, Row, Status, Terminal, Fire
  <2>2. scan' \in [Scans -> Copy]
    BY RemindersAssumption DEF ReminderTypeOK, Copy, Fire
  <2> QED BY <2>1, <2>2, RemindersAssumption DEF ReminderTypeOK, Report
<1>2. TimerOfDue'
  BY DEF TimerOfDue, ReminderTypeOK
<1>3. ScansBehind'
  BY DEF ScansBehind, ReminderTypeOK
<1>4. CountsRead'
  BY DEF CountsRead, ReminderTypeOK
<1>5. ListedRipe'
  BY DEF ListedRipe, ReminderTypeOK
<1>6. DueFresh'
  BY DEF DueFresh, Delivering, ReminderTypeOK
<1>7. RetrySame'
  BY DEF RetrySame, ReminderTypeOK
<1>8. Hosted'
  BY DEF Hosted, ReminderTypeOK
<1>9. DueCarried'
  BY DEF DueCarried, Delivering, AgentLooks, ReminderTypeOK, Row, Copy
<1> QED BY <1>1, <1>2, <1>3, <1>4, <1>5, <1>6, <1>7, <1>8, <1>9

\* The wake is buffered by a runner, a reconnecting machine wakes its own, and a
\* stopped agent is excused.
LEMMA StepNotifyWake ==
    ASSUME NEW l \in Scans, ReminderInv, NotifyWake(l) PROVE ReminderInv'
<1> USE ReminderFacts DEF ReminderInv, NotifyWake, Goto, requestVars, ownerVars, Scans
<1>1. ReminderTypeOK'
  BY RemindersAssumption DEF ReminderTypeOK, Copy
<1>2. TimerOfDue'
  BY DEF TimerOfDue, ReminderTypeOK
<1>3. ScansBehind'
  BY DEF ScansBehind, ReminderTypeOK
<1>4. CountsRead'
  BY DEF CountsRead, ReminderTypeOK
<1>5. ListedRipe'
  BY DEF ListedRipe, ReminderTypeOK
<1>6. DueFresh'
  BY DEF DueFresh, Delivering, ReminderTypeOK
<1>7. RetrySame'
  BY DEF RetrySame, ReminderTypeOK
<1>8. Hosted'
  BY DEF Hosted, ReminderTypeOK
<1>9. DueCarried'
  BY DEF DueCarried, Hosted, AgentLooks, Delivering, Links, ReminderTypeOK, Copy
<1> QED BY <1>1, <1>2, <1>3, <1>4, <1>5, <1>6, <1>7, <1>8, <1>9

\* An agent that cannot be read is taken for offline, or loses its wake.
LEMMA StepAgentUnread ==
    ASSUME NEW l \in Scans, ReminderInv, AgentUnread(l) PROVE ReminderInv'
<1> USE ReminderFacts DEF ReminderInv, AgentUnread, Goto, Offline, Fault, agentVars, requestVars, ownerVars, Scans
<1>1. ReminderTypeOK'
  BY RemindersAssumption DEF ReminderTypeOK, Copy
<1>2. TimerOfDue'
  BY DEF TimerOfDue, ReminderTypeOK
<1>3. ScansBehind'
  BY DEF ScansBehind, ReminderTypeOK
<1>4. CountsRead'
  BY RemindersAssumption DEF CountsRead, ReminderTypeOK, Row, Copy
<1>5. ListedRipe'
  BY DEF ListedRipe, ReminderTypeOK
<1>6. DueFresh'
  BY DEF DueFresh, Delivering, ReminderTypeOK
<1>7. RetrySame'
  BY DEF RetrySame, ReminderTypeOK
<1>8. Hosted'
  BY DEF Hosted, ReminderTypeOK
<1>9. DueCarried'
  BY DEF DueCarried, Hosted, AgentLooks, Delivering, Links, ReminderTypeOK, Copy
<1> QED BY <1>1, <1>2, <1>3, <1>4, <1>5, <1>6, <1>7, <1>8, <1>9

\* A due fire gets its timer.
LEMMA StepSetRetry ==
    ASSUME NEW l \in Scans, ReminderInv, SetRetry(l) PROVE ReminderInv'
<1> USE ReminderFacts DEF ReminderInv, SetRetry, Goto, Crosses, agentVars, requestVars, ownerVars, Scans
<1>1. ReminderTypeOK'
  <2>1. row' \in Row
    <3>1. CASE row.status = "DUE"
      <4>1. scan[l].count + 1 \in 0 .. Backoff
        BY RemindersAssumption DEF CountsRead
      <4> QED BY <3>1, <4>1 DEF ReminderTypeOK, Row
    <3>2. CASE row.status # "DUE"
      BY <3>2 DEF ReminderTypeOK
    <3> QED BY <3>1, <3>2
  <2>2. scan' \in [Scans -> Copy]
    BY RemindersAssumption DEF ReminderTypeOK, Copy, Fire
  <2> QED BY <2>1, <2>2, RemindersAssumption DEF ReminderTypeOK, Report
<1>2. TimerOfDue'
  BY DEF TimerOfDue, ReminderTypeOK
<1>3. ScansBehind'
  BY DEF ScansBehind, ReminderTypeOK
<1>4. CountsRead'
  BY DEF CountsRead, ReminderTypeOK
<1>5. ListedRipe'
  BY DEF ListedRipe, ReminderTypeOK
<1>6. DueFresh'
  <2>1. CASE l = "due"
    BY <2>1 DEF DueFresh, Delivering, ReminderTypeOK, Copy
  <2>2. CASE l = "retry"
    <3>1. SUFFICES ASSUME row.status = "DUE", ~ crossed, scan[l].fire = row.fire, scan["due"].step \in Delivering
                   PROVE  FALSE
      BY <2>2 DEF DueFresh, ReminderTypeOK, Row, Copy
    <3> QED BY <3>1, <2>2, RemindersAssumption DEF DueFresh
  <2> QED BY <2>1, <2>2
<1>7. RetrySame'
  BY DEF RetrySame, ScansBehind, DueFresh, Delivering, ListedRipe, ReminderTypeOK
<1>8. Hosted'
  BY DEF Hosted, ReminderTypeOK
<1>9. DueCarried'
  BY DEF DueCarried, AgentLooks, Delivering, ReminderTypeOK
<1> QED BY <1>1, <1>2, <1>3, <1>4, <1>5, <1>6, <1>7, <1>8, <1>9

\* The fire is given up: the row is no longer due, or not at that fire.
LEMMA StepMarkMissed ==
    ASSUME NEW l \in Scans, ReminderInv, MarkMissed(l) PROVE ReminderInv'
<1> USE ReminderFacts DEF ReminderInv, MarkMissed, Goto, Crosses, Closed, agentVars, requestVars, ownerVars, Scans
<1>1. ReminderTypeOK'
  <2>1. row' \in Row
    BY ClosedType, RemindersAssumption DEF ReminderTypeOK, Copy, Report, Status, Terminal
  <2>2. scan' \in [Scans -> Copy]
    BY RemindersAssumption DEF ReminderTypeOK, Copy, Fire
  <2> QED BY <2>1, <2>2, RemindersAssumption DEF ReminderTypeOK, Report
<1>2. TimerOfDue'
  BY DEF TimerOfDue, ReminderTypeOK
<1>3. ScansBehind'
  BY DEF ScansBehind, ReminderTypeOK
<1>4. CountsRead'
  BY DEF CountsRead, ReminderTypeOK
<1>5. ListedRipe'
  BY DEF ListedRipe, ReminderTypeOK
<1>6. DueFresh'
  BY DEF DueFresh, Delivering, ReminderTypeOK
<1>7. RetrySame'
  BY DEF RetrySame, ReminderTypeOK
<1>8. Hosted'
  BY DEF Hosted, ReminderTypeOK
<1>9. DueCarried'
  BY DEF DueCarried, AgentLooks, Delivering, ReminderTypeOK
<1> QED BY <1>1, <1>2, <1>3, <1>4, <1>5, <1>6, <1>7, <1>8, <1>9

\* A write that fails leaves the row alone; only the first retry's is missed.
LEMMA StepWriteFails ==
    ASSUME NEW l \in Scans, ReminderInv, WriteFails(l) PROVE ReminderInv'
<1> USE ReminderFacts DEF ReminderInv, WriteFails, Goto, Fault, agentVars, requestVars, ownerVars, Scans
<1>1. ReminderTypeOK'
  BY RemindersAssumption DEF ReminderTypeOK, Copy
<1>2. TimerOfDue'
  BY DEF TimerOfDue, ReminderTypeOK
<1>3. ScansBehind'
  BY DEF ScansBehind, ReminderTypeOK
<1>4. CountsRead'
  BY DEF CountsRead, ReminderTypeOK
<1>5. ListedRipe'
  BY DEF ListedRipe, ReminderTypeOK
<1>6. DueFresh'
  BY DEF DueFresh, Delivering, ReminderTypeOK
<1>7. RetrySame'
  BY DEF RetrySame, ReminderTypeOK
<1>8. Hosted'
  BY DEF Hosted, ReminderTypeOK
<1>9. DueCarried'
  <2>1. CASE scan[l].step = "clear"
    BY <2>1 DEF DueCarried, Delivering, AgentLooks, ReminderTypeOK, Copy
  <2>2. CASE scan[l].step # "clear" /\ l = "due"
    <3>1. scan[l].step \in {"mark", "set"}
      BY <2>2, RemindersAssumption DEF CountsRead
    <3> QED BY <2>2, <3>1 DEF DueCarried, Delivering, AgentLooks, ListedRipe, ReminderTypeOK, Copy
  <2>3. CASE scan[l].step # "clear" /\ l = "retry"
    BY <2>3 DEF DueCarried, Delivering, AgentLooks, ReminderTypeOK, Copy
  <2> QED BY <2>1, <2>2, <2>3
<1> QED BY <1>1, <1>2, <1>3, <1>4, <1>5, <1>6, <1>7, <1>8, <1>9

\* The agent takes the wake and will look.
LEMMA StepTakeWake ==
    ASSUME ReminderInv, TakeWake PROVE ReminderInv'
<1> USE ReminderFacts DEF ReminderInv, TakeWake, requestVars, ownerVars, Scans
<1>1. ReminderTypeOK'
  BY RemindersAssumption DEF ReminderTypeOK, Report, Row
<1>2. TimerOfDue'
  BY DEF TimerOfDue, ReminderTypeOK
<1>3. ScansBehind'
  BY DEF ScansBehind, ReminderTypeOK
<1>4. CountsRead'
  BY DEF CountsRead, ReminderTypeOK
<1>5. ListedRipe'
  BY DEF ListedRipe, ReminderTypeOK
<1>6. DueFresh'
  BY DEF DueFresh, Delivering, ReminderTypeOK
<1>7. RetrySame'
  BY DEF RetrySame, ReminderTypeOK
<1>8. Hosted'
  BY DEF Hosted, ReminderTypeOK
<1>9. DueCarried'
  BY DEF DueCarried, AgentLooks, Delivering, ReminderTypeOK
<1> QED BY <1>1, <1>2, <1>3, <1>4, <1>5, <1>6, <1>7, <1>8, <1>9

\* The agent finds a due reminder.
LEMMA StepBeginSession ==
    ASSUME ReminderInv, BeginSession PROVE ReminderInv'
<1> USE ReminderFacts DEF ReminderInv, BeginSession, requestVars, ownerVars, Scans
<1>1. ReminderTypeOK'
  BY RemindersAssumption DEF ReminderTypeOK, Report, Row
<1>2. TimerOfDue'
  BY DEF TimerOfDue, ReminderTypeOK
<1>3. ScansBehind'
  BY DEF ScansBehind, ReminderTypeOK
<1>4. CountsRead'
  BY DEF CountsRead, ReminderTypeOK
<1>5. ListedRipe'
  BY DEF ListedRipe, ReminderTypeOK
<1>6. DueFresh'
  BY DEF DueFresh, Delivering, ReminderTypeOK
<1>7. RetrySame'
  BY DEF RetrySame, ReminderTypeOK
<1>8. Hosted'
  BY DEF Hosted, ReminderTypeOK
<1>9. DueCarried'
  BY DEF DueCarried, AgentLooks, Delivering, ReminderTypeOK
<1> QED BY <1>1, <1>2, <1>3, <1>4, <1>5, <1>6, <1>7, <1>8, <1>9

\* The agent's turn shows a due reminder.
LEMMA StepListDueReminders ==
    ASSUME ReminderInv, ListDueReminders PROVE ReminderInv'
<1> USE ReminderFacts DEF ReminderInv, ListDueReminders, requestVars, ownerVars, Scans
<1>1. ReminderTypeOK'
  BY RemindersAssumption DEF ReminderTypeOK, Report, Row
<1>2. TimerOfDue'
  BY DEF TimerOfDue, ReminderTypeOK
<1>3. ScansBehind'
  BY DEF ScansBehind, ReminderTypeOK
<1>4. CountsRead'
  BY DEF CountsRead, ReminderTypeOK
<1>5. ListedRipe'
  BY DEF ListedRipe, ReminderTypeOK
<1>6. DueFresh'
  BY DEF DueFresh, Delivering, ReminderTypeOK
<1>7. RetrySame'
  BY DEF RetrySame, ReminderTypeOK
<1>8. Hosted'
  BY DEF Hosted, ReminderTypeOK
<1>9. DueCarried'
  BY DEF DueCarried, AgentLooks, Delivering, ReminderTypeOK
<1> QED BY <1>1, <1>2, <1>3, <1>4, <1>5, <1>6, <1>7, <1>8, <1>9

\* A report reads the row.
LEMMA StepReportReads ==
    ASSUME ReminderInv, ReportReads PROVE ReminderInv'
<1> USE ReminderFacts DEF ReminderInv, ReportReads, agentVars, ownerVars, Scans
<1>1. ReminderTypeOK'
  BY RemindersAssumption DEF ReminderTypeOK, Report, Row
<1>2. TimerOfDue'
  BY DEF TimerOfDue, ReminderTypeOK
<1>3. ScansBehind'
  BY DEF ScansBehind, ReminderTypeOK
<1>4. CountsRead'
  BY DEF CountsRead, ReminderTypeOK
<1>5. ListedRipe'
  BY DEF ListedRipe, ReminderTypeOK
<1>6. DueFresh'
  BY DEF DueFresh, Delivering, ReminderTypeOK
<1>7. RetrySame'
  BY DEF RetrySame, ReminderTypeOK
<1>8. Hosted'
  BY DEF Hosted, ReminderTypeOK
<1>9. DueCarried'
  BY DEF DueCarried, AgentLooks, Delivering, ReminderTypeOK
<1> QED BY <1>1, <1>2, <1>3, <1>4, <1>5, <1>6, <1>7, <1>8, <1>9

\* A report closes the fire that is due.
LEMMA StepReportCommits ==
    ASSUME NEW status \in {"COMPLETED", "FAILED"}, ReminderInv, ReportCommits(status) PROVE ReminderInv'
<1> USE ReminderFacts DEF ReminderInv, ReportCommits, Closed, NoReport, ownerVars, Scans
<1>1. ReminderTypeOK'
  <2>1. row' \in Row
    BY ClosedType, RemindersAssumption DEF ReminderTypeOK, Copy, Report, Status, Terminal
  <2>2. scan' \in [Scans -> Copy]
    BY RemindersAssumption DEF ReminderTypeOK, Copy, Fire
  <2> QED BY <2>1, <2>2, RemindersAssumption DEF ReminderTypeOK, Report
<1>2. TimerOfDue'
  BY DEF TimerOfDue, ReminderTypeOK
<1>3. ScansBehind'
  BY DEF ScansBehind, ReminderTypeOK
<1>4. CountsRead'
  BY DEF CountsRead, ReminderTypeOK
<1>5. ListedRipe'
  BY DEF ListedRipe, ReminderTypeOK
<1>6. DueFresh'
  BY DEF DueFresh, Delivering, ReminderTypeOK
<1>7. RetrySame'
  BY DEF RetrySame, ReminderTypeOK
<1>8. Hosted'
  BY DEF Hosted, ReminderTypeOK
<1>9. DueCarried'
  BY DEF DueCarried, AgentLooks, Delivering, ReminderTypeOK
<1> QED BY <1>1, <1>2, <1>3, <1>4, <1>5, <1>6, <1>7, <1>8, <1>9

\* So does one whose reply is lost.
LEMMA StepReplyLost ==
    ASSUME NEW status \in {"COMPLETED", "FAILED"}, ReminderInv, ReplyLost(status) PROVE ReminderInv'
<1> USE ReminderFacts DEF ReminderInv, ReplyLost, Fault, Closed, NoReport, agentVars, ownerVars, Scans
<1>1. ReminderTypeOK'
  <2>1. row' \in Row
    BY ClosedType, RemindersAssumption DEF ReminderTypeOK, Copy, Report, Status, Terminal
  <2>2. scan' \in [Scans -> Copy]
    BY RemindersAssumption DEF ReminderTypeOK, Copy, Fire
  <2> QED BY <2>1, <2>2, RemindersAssumption DEF ReminderTypeOK, Report
<1>2. TimerOfDue'
  BY DEF TimerOfDue, ReminderTypeOK
<1>3. ScansBehind'
  BY DEF ScansBehind, ReminderTypeOK
<1>4. CountsRead'
  BY DEF CountsRead, ReminderTypeOK
<1>5. ListedRipe'
  BY DEF ListedRipe, ReminderTypeOK
<1>6. DueFresh'
  BY DEF DueFresh, Delivering, ReminderTypeOK
<1>7. RetrySame'
  BY DEF RetrySame, ReminderTypeOK
<1>8. Hosted'
  BY DEF Hosted, ReminderTypeOK
<1>9. DueCarried'
  BY DEF DueCarried, AgentLooks, Delivering, ReminderTypeOK
<1> QED BY <1>1, <1>2, <1>3, <1>4, <1>5, <1>6, <1>7, <1>8, <1>9

\* A turn that fails leaves the loop pulling.
LEMMA StepTurnFails ==
    ASSUME ReminderInv, TurnFails PROVE ReminderInv'
<1> USE ReminderFacts DEF ReminderInv, TurnFails, Fault, requestVars, ownerVars, Scans
<1>1. ReminderTypeOK'
  BY RemindersAssumption DEF ReminderTypeOK, Report, Row
<1>2. TimerOfDue'
  BY DEF TimerOfDue, ReminderTypeOK
<1>3. ScansBehind'
  BY DEF ScansBehind, ReminderTypeOK
<1>4. CountsRead'
  BY DEF CountsRead, ReminderTypeOK
<1>5. ListedRipe'
  BY DEF ListedRipe, ReminderTypeOK
<1>6. DueFresh'
  BY DEF DueFresh, Delivering, ReminderTypeOK
<1>7. RetrySame'
  BY DEF RetrySame, ReminderTypeOK
<1>8. Hosted'
  BY DEF Hosted, ReminderTypeOK
<1>9. DueCarried'
  BY DEF DueCarried, AgentLooks, Delivering, ReminderTypeOK
<1> QED BY <1>1, <1>2, <1>3, <1>4, <1>5, <1>6, <1>7, <1>8, <1>9

\* A machine that reconnects wakes its agent.
LEMMA StepConnect ==
    ASSUME ReminderInv, Connect PROVE ReminderInv'
<1> USE ReminderFacts DEF ReminderInv, Connect, requestVars, ownerVars, Scans
<1>1. ReminderTypeOK'
  BY RemindersAssumption DEF ReminderTypeOK, Report, Row, Links
<1>2. TimerOfDue'
  BY DEF TimerOfDue, ReminderTypeOK
<1>3. ScansBehind'
  BY DEF ScansBehind, ReminderTypeOK
<1>4. CountsRead'
  BY DEF CountsRead, ReminderTypeOK
<1>5. ListedRipe'
  BY DEF ListedRipe, ReminderTypeOK
<1>6. DueFresh'
  BY DEF DueFresh, Delivering, ReminderTypeOK
<1>7. RetrySame'
  BY DEF RetrySame, ReminderTypeOK
<1>8. Hosted'
  BY DEF Hosted, ReminderTypeOK
<1>9. DueCarried'
  BY DEF DueCarried, AgentLooks, Delivering, ReminderTypeOK
<1> QED BY <1>1, <1>2, <1>3, <1>4, <1>5, <1>6, <1>7, <1>8, <1>9

\* The stream is registered after the wake.
LEMMA StepRegisterMachine ==
    ASSUME ReminderInv, RegisterMachine PROVE ReminderInv'
<1> USE ReminderFacts DEF ReminderInv, RegisterMachine, agentVars, requestVars, ownerVars, Scans
<1>1. ReminderTypeOK'
  BY RemindersAssumption DEF ReminderTypeOK, Report, Row, Links
<1>2. TimerOfDue'
  BY DEF TimerOfDue, ReminderTypeOK
<1>3. ScansBehind'
  BY DEF ScansBehind, ReminderTypeOK
<1>4. CountsRead'
  BY DEF CountsRead, ReminderTypeOK
<1>5. ListedRipe'
  BY DEF ListedRipe, ReminderTypeOK
<1>6. DueFresh'
  BY DEF DueFresh, Delivering, ReminderTypeOK
<1>7. RetrySame'
  BY DEF RetrySame, ReminderTypeOK
<1>8. Hosted'
  BY DEF Hosted, ReminderTypeOK
<1>9. DueCarried'
  BY DEF DueCarried, AgentLooks, Delivering, ReminderTypeOK
<1> QED BY <1>1, <1>2, <1>3, <1>4, <1>5, <1>6, <1>7, <1>8, <1>9

\* A machine that is down will reconnect.
LEMMA StepBreakStream ==
    ASSUME ReminderInv, BreakStream PROVE ReminderInv'
<1> USE ReminderFacts DEF ReminderInv, BreakStream, Fault, agentVars, requestVars, ownerVars, Scans
<1>1. ReminderTypeOK'
  BY RemindersAssumption DEF ReminderTypeOK, Report, Row, Links
<1>2. TimerOfDue'
  BY DEF TimerOfDue, ReminderTypeOK
<1>3. ScansBehind'
  BY DEF ScansBehind, ReminderTypeOK
<1>4. CountsRead'
  BY DEF CountsRead, ReminderTypeOK
<1>5. ListedRipe'
  BY DEF ListedRipe, ReminderTypeOK
<1>6. DueFresh'
  BY DEF DueFresh, Delivering, ReminderTypeOK
<1>7. RetrySame'
  BY DEF RetrySame, ReminderTypeOK
<1>8. Hosted'
  BY DEF Hosted, ReminderTypeOK
<1>9. DueCarried'
  BY DEF DueCarried, AgentLooks, Delivering, ReminderTypeOK
<1> QED BY <1>1, <1>2, <1>3, <1>4, <1>5, <1>6, <1>7, <1>8, <1>9

\* The stream is gone, the machine may be back.
LEMMA StepUnregisterMachine ==
    ASSUME ReminderInv, UnregisterMachine PROVE ReminderInv'
<1> USE ReminderFacts DEF ReminderInv, UnregisterMachine, agentVars, requestVars, ownerVars, Scans
<1>1. ReminderTypeOK'
  BY RemindersAssumption DEF ReminderTypeOK, Report, Row, Links
<1>2. TimerOfDue'
  BY DEF TimerOfDue, ReminderTypeOK
<1>3. ScansBehind'
  BY DEF ScansBehind, ReminderTypeOK
<1>4. CountsRead'
  BY DEF CountsRead, ReminderTypeOK
<1>5. ListedRipe'
  BY DEF ListedRipe, ReminderTypeOK
<1>6. DueFresh'
  BY DEF DueFresh, Delivering, ReminderTypeOK
<1>7. RetrySame'
  BY DEF RetrySame, ReminderTypeOK
<1>8. Hosted'
  BY DEF Hosted, ReminderTypeOK
<1>9. DueCarried'
  BY DEF DueCarried, AgentLooks, Delivering, ReminderTypeOK
<1> QED BY <1>1, <1>2, <1>3, <1>4, <1>5, <1>6, <1>7, <1>8, <1>9

\* A stopped agent is excused from its wake.
LEMMA StepStopAgent ==
    ASSUME ReminderInv, StopAgent PROVE ReminderInv'
<1> USE ReminderFacts DEF ReminderInv, StopAgent, requestVars, Scans
<1>1. ReminderTypeOK'
  BY RemindersAssumption DEF ReminderTypeOK, Report, Row
<1>2. TimerOfDue'
  BY DEF TimerOfDue, ReminderTypeOK
<1>3. ScansBehind'
  BY DEF ScansBehind, ReminderTypeOK
<1>4. CountsRead'
  BY DEF CountsRead, ReminderTypeOK
<1>5. ListedRipe'
  BY DEF ListedRipe, ReminderTypeOK
<1>6. DueFresh'
  BY DEF DueFresh, Delivering, ReminderTypeOK
<1>7. RetrySame'
  BY DEF RetrySame, ReminderTypeOK
<1>8. Hosted'
  BY DEF Hosted, ReminderTypeOK
<1>9. DueCarried'
  BY DEF DueCarried, AgentLooks, Delivering, ReminderTypeOK
<1> QED BY <1>1, <1>2, <1>3, <1>4, <1>5, <1>6, <1>7, <1>8, <1>9

\* A started agent is woken, or its machine will reconnect.
LEMMA StepStartAgent ==
    ASSUME ReminderInv, StartAgent PROVE ReminderInv'
<1> USE ReminderFacts DEF ReminderInv, StartAgent, requestVars, Scans
<1>1. ReminderTypeOK'
  BY RemindersAssumption DEF ReminderTypeOK, Report, Row
<1>2. TimerOfDue'
  BY DEF TimerOfDue, ReminderTypeOK
<1>3. ScansBehind'
  BY DEF ScansBehind, ReminderTypeOK
<1>4. CountsRead'
  BY DEF CountsRead, ReminderTypeOK
<1>5. ListedRipe'
  BY DEF ListedRipe, ReminderTypeOK
<1>6. DueFresh'
  BY DEF DueFresh, Delivering, ReminderTypeOK
<1>7. RetrySame'
  BY DEF RetrySame, ReminderTypeOK
<1>8. Hosted'
  BY DEF Hosted, ReminderTypeOK
<1>9. DueCarried'
  BY DEF DueCarried, Hosted, AgentLooks, Delivering, Links, ReminderTypeOK, Copy
<1> QED BY <1>1, <1>2, <1>3, <1>4, <1>5, <1>6, <1>7, <1>8, <1>9

\* A fire that was due before the agent had a runtime is dropped.
LEMMA StepUpdateAgentACPConfig ==
    ASSUME ReminderInv, UpdateAgentACPConfig PROVE ReminderInv'
<1> USE ReminderFacts DEF ReminderInv, UpdateAgentACPConfig, agentVars, requestVars, Scans
<1>1. ReminderTypeOK'
  BY RemindersAssumption DEF ReminderTypeOK, Report, Row
<1>2. TimerOfDue'
  BY DEF TimerOfDue, ReminderTypeOK
<1>3. ScansBehind'
  BY DEF ScansBehind, ReminderTypeOK
<1>4. CountsRead'
  BY DEF CountsRead, ReminderTypeOK
<1>5. ListedRipe'
  BY DEF ListedRipe, ReminderTypeOK
<1>6. DueFresh'
  BY DEF DueFresh, Delivering, ReminderTypeOK
<1>7. RetrySame'
  BY DEF RetrySame, ReminderTypeOK
<1>8. Hosted'
  BY DEF Hosted, ReminderTypeOK
<1>9. DueCarried'
  BY DEF DueCarried, AgentLooks, Delivering, ReminderTypeOK
<1> QED BY <1>1, <1>2, <1>3, <1>4, <1>5, <1>6, <1>7, <1>8, <1>9

\* A cancel clears the timer.
LEMMA StepCancelReminder ==
    ASSUME ReminderInv, CancelReminder PROVE ReminderInv'
<1> USE ReminderFacts DEF ReminderInv, CancelReminder, agentVars, requestVars, ownerVars, Scans
<1>1. ReminderTypeOK'
  <2>1. row' \in Row
    BY RemindersAssumption DEF ReminderTypeOK, Row, Status, Terminal, Fire
  <2>2. scan' \in [Scans -> Copy]
    BY RemindersAssumption DEF ReminderTypeOK, Copy, Fire
  <2> QED BY <2>1, <2>2, RemindersAssumption DEF ReminderTypeOK, Report
<1>2. TimerOfDue'
  BY DEF TimerOfDue, ReminderTypeOK
<1>3. ScansBehind'
  BY DEF ScansBehind, ReminderTypeOK
<1>4. CountsRead'
  BY DEF CountsRead, ReminderTypeOK
<1>5. ListedRipe'
  BY DEF ListedRipe, ReminderTypeOK
<1>6. DueFresh'
  BY DEF DueFresh, Delivering, ReminderTypeOK
<1>7. RetrySame'
  BY DEF RetrySame, ReminderTypeOK
<1>8. Hosted'
  BY DEF Hosted, ReminderTypeOK
<1>9. DueCarried'
  BY DEF DueCarried, AgentLooks, Delivering, ReminderTypeOK
<1> QED BY <1>1, <1>2, <1>3, <1>4, <1>5, <1>6, <1>7, <1>8, <1>9

\* An edit reads the status.
LEMMA StepUpdateReads ==
    ASSUME ReminderInv, UpdateReads PROVE ReminderInv'
<1> USE ReminderFacts DEF ReminderInv, UpdateReads, agentVars, ownerVars, Scans
<1>1. ReminderTypeOK'
  BY RemindersAssumption DEF ReminderTypeOK, Report, Row
<1>2. TimerOfDue'
  BY DEF TimerOfDue, ReminderTypeOK
<1>3. ScansBehind'
  BY DEF ScansBehind, ReminderTypeOK
<1>4. CountsRead'
  BY DEF CountsRead, ReminderTypeOK
<1>5. ListedRipe'
  BY DEF ListedRipe, ReminderTypeOK
<1>6. DueFresh'
  BY DEF DueFresh, Delivering, ReminderTypeOK
<1>7. RetrySame'
  BY DEF RetrySame, ReminderTypeOK
<1>8. Hosted'
  BY DEF Hosted, ReminderTypeOK
<1>9. DueCarried'
  BY DEF DueCarried, AgentLooks, Delivering, ReminderTypeOK
<1> QED BY <1>1, <1>2, <1>3, <1>4, <1>5, <1>6, <1>7, <1>8, <1>9

\* An edit starts a later fire.
LEMMA StepUpdateWrites ==
    ASSUME NEW ripe \in BOOLEAN, NEW cron \in BOOLEAN, ReminderInv, UpdateWrites(ripe, cron) PROVE ReminderInv'
<1> USE ReminderFacts DEF ReminderInv, UpdateWrites, agentVars, ownerVars, Scans
<1>1. ReminderTypeOK'
  <2>1. row' \in Row
    BY RemindersAssumption DEF ReminderTypeOK, Row, Status, Terminal, Fire
  <2>2. scan' \in [Scans -> Copy]
    BY RemindersAssumption DEF ReminderTypeOK, Copy, Fire
  <2> QED BY <2>1, <2>2, RemindersAssumption DEF ReminderTypeOK, Report
<1>2. TimerOfDue'
  BY DEF TimerOfDue, ReminderTypeOK
<1>3. ScansBehind'
  BY DEF ScansBehind, ReminderTypeOK
<1>4. CountsRead'
  BY DEF CountsRead, ReminderTypeOK
<1>5. ListedRipe'
  BY DEF ListedRipe, ScansBehind, ReminderTypeOK
<1>6. DueFresh'
  BY DEF DueFresh, Delivering, ReminderTypeOK
<1>7. RetrySame'
  BY DEF RetrySame, ReminderTypeOK
<1>8. Hosted'
  BY DEF Hosted, ReminderTypeOK
<1>9. DueCarried'
  BY DEF DueCarried, AgentLooks, Delivering, ReminderTypeOK
<1> QED BY <1>1, <1>2, <1>3, <1>4, <1>5, <1>6, <1>7, <1>8, <1>9

\* A crash forgets the scans and takes the machine down.
LEMMA StepRestart ==
    ASSUME ReminderInv, Restart PROVE ReminderInv'
<1> USE ReminderFacts DEF ReminderInv, Restart, Fault, Idle, NoReport, agentVars, ownerVars, Scans
<1>1. ReminderTypeOK'
  <2>1. row' \in Row
    BY RemindersAssumption DEF ReminderTypeOK, Row, Status, Terminal, Fire
  <2>2. scan' \in [Scans -> Copy]
    BY RemindersAssumption DEF ReminderTypeOK, Copy, Fire
  <2>3. report' \in Report /\ faults' \in 0 .. MaxFaults
    BY RemindersAssumption DEF ReminderTypeOK, Report
  <2> QED BY <2>1, <2>2, <2>3 DEF ReminderTypeOK, Links
<1>2. TimerOfDue'
  BY DEF TimerOfDue, ReminderTypeOK
<1>3. ScansBehind'
  BY DEF ScansBehind, ReminderTypeOK
<1>4. CountsRead'
  BY DEF CountsRead, ReminderTypeOK
<1>5. ListedRipe'
  BY DEF ListedRipe, ReminderTypeOK
<1>6. DueFresh'
  BY DEF DueFresh, Delivering, ReminderTypeOK
<1>7. RetrySame'
  BY DEF RetrySame, ReminderTypeOK
<1>8. Hosted'
  BY DEF Hosted, ReminderTypeOK
<1>9. DueCarried'
  BY DEF DueCarried, AgentLooks, Delivering, ReminderTypeOK
<1> QED BY <1>1, <1>2, <1>3, <1>4, <1>5, <1>6, <1>7, <1>8, <1>9

\* The row is new, no scan has seen it and no timer is set.
LEMMA InvInit == ReminderInit => ReminderInv
<1> SUFFICES ASSUME ReminderInit PROVE ReminderInv
  OBVIOUS
<1>1. ReminderTypeOK
  <2>1. row \in Row
    BY RemindersAssumption DEF ReminderInit, Row, Status, Fire
  <2>2. scan \in [Scans -> Copy]
    BY RemindersAssumption DEF ReminderInit, Copy, Idle, Fire
  <2>3. NoReport \in Report /\ 0 \in 0 .. MaxFaults
    BY RemindersAssumption DEF NoReport, Report
  <2> QED BY <2>1, <2>2, <2>3 DEF ReminderInit, ReminderTypeOK, Links
<1>2. row.status = "PENDING" /\ row.timer = "null" /\ link = "down" /\ \A l \in Scans : scan[l] = Idle
  BY DEF ReminderInit
<1> QED
  BY <1>1, <1>2, RemindersAssumption DEF ReminderInv, TimerOfDue, ScansBehind, CountsRead, ListedRipe,
     DueFresh, RetrySame, Hosted, DueCarried, Idle, Scans

\* Every step preserves the invariant.
LEMMA InvNext == ReminderInv /\ [ReminderNext]_vars => ReminderInv'
<1> SUFFICES ASSUME ReminderInv, [ReminderNext]_vars PROVE ReminderInv'
  OBVIOUS
<1>1. CASE UNCHANGED vars
  BY <1>1 DEF vars, ownerVars, agentVars, requestVars, ReminderInv, ReminderTypeOK, TimerOfDue, ScansBehind, CountsRead,
     ListedRipe, DueFresh, RetrySame, Hosted, DueCarried, AgentLooks
<1>2. CASE FireElapses \/ RetryElapses \/ ListDuePending \/ ListDueRetrying \/ MarkDue
  BY <1>2, StepFireElapses, StepRetryElapses, StepListDuePending, StepListDueRetrying, StepMarkDue
<1>3. CASE \E l \in Scans : ScanStep(l) \/ AgentUnread(l) \/ WriteFails(l)
  BY <1>3, StepDeliver, StepClearRetry, StepNotifyWake, StepSetRetry, StepMarkMissed, StepAgentUnread,
     StepWriteFails DEF ScanStep
<1>4. CASE DrainStep \/ TurnStep
  BY <1>4, StepTakeWake, StepBeginSession, StepListDueReminders, StepReportReads, StepReportCommits,
     StepTurnFails, StepReplyLost DEF DrainStep, TurnStep
<1>5. CASE Connect \/ RegisterMachine \/ BreakStream \/ UnregisterMachine \/ OwnerStep \/ Restart
  BY <1>5, StepConnect, StepRegisterMachine, StepBreakStream, StepUnregisterMachine, StepStopAgent,
     StepStartAgent, StepUpdateAgentACPConfig, StepRestart DEF OwnerStep
<1>6. CASE CancelReminder \/ UpdateReads \/ \E ripe, cron \in BOOLEAN : UpdateWrites(ripe, cron)
  BY <1>6, StepCancelReminder, StepUpdateReads, StepUpdateWrites
<1> QED BY <1>1, <1>2, <1>3, <1>4, <1>5, <1>6 DEF ReminderNext

\* Reminders: each fire is carried by its timer, a scan, the agent or the
\* reconnecting machine, and the scans' copies are what they are taken for.
THEOREM ReminderInvariant == ReminderSafe => []ReminderInv
<1>1. ReminderInit => ReminderInv
  BY InvInit
<1>2. ReminderInv /\ [ReminderNext]_vars => ReminderInv'
  BY InvNext
<1> QED BY <1>1, <1>2, PTL DEF ReminderSafe

\* Only MarkDue makes a row due.
LEMMA OnlyMarkDueFires ==
    ASSUME ReminderInv, [ReminderNext]_vars, row.status = "PENDING", row'.status = "DUE"
    PROVE  scan["due"].step = "mark"
<1> USE DEF ReminderInv, ReminderTypeOK, Row, Terminal
<1>1. row' # row
  OBVIOUS
<1>2. CASE \E l \in Scans : ScanStep(l) \/ AgentUnread(l) \/ WriteFails(l)
  BY <1>1, <1>2 DEF ScanStep, Deliver, ClearRetry, NotifyWake, SetRetry, MarkMissed, AgentUnread, WriteFails
<1>3. CASE DrainStep \/ TurnStep
  BY <1>1, <1>3 DEF DrainStep, TurnStep, TakeWake, BeginSession, ListDueReminders, ReportReads, ReportCommits,
     TurnFails, ReplyLost
<1>4. CASE CancelReminder \/ UpdateReads \/ \E ripe, cron \in BOOLEAN : UpdateWrites(ripe, cron)
  <2>1. CASE CancelReminder \/ UpdateReads
    BY <1>1, <2>1 DEF CancelReminder, UpdateReads
  <2>2. CASE \E ripe, cron \in BOOLEAN : UpdateWrites(ripe, cron)
    <3>1. row'.status = "PENDING"
      BY <2>2 DEF UpdateWrites
    <3> QED BY <3>1
  <2> QED BY <1>4, <2>1, <2>2
<1>5. CASE FireElapses \/ RetryElapses \/ ListDuePending \/ ListDueRetrying \/ MarkDue
  BY <1>1, <1>5 DEF FireElapses, RetryElapses, ListDuePending, ListDueRetrying, MarkDue
<1>6. CASE Connect \/ RegisterMachine \/ BreakStream \/ UnregisterMachine \/ OwnerStep \/ Restart \/ UNCHANGED vars
  BY <1>1, <1>6 DEF Connect, RegisterMachine, BreakStream, UnregisterMachine, OwnerStep, StopAgent, StartAgent,
     UpdateAgentACPConfig, Restart, vars
<1> QED BY <1>2, <1>3, <1>4, <1>5, <1>6 DEF ReminderNext

\* scanDue's list of ripe rows (ListDuePending) and MarkDue's unconditional
\* write: a reminder fires early only when an edit came between the two.
THEOREM RemindersFireOnTime == ReminderSafe => FiresOnTime
<1>1. ReminderInv /\ [ReminderNext]_vars =>
        [row.status = "PENDING" /\ row'.status = "DUE" => row.ripe \/ scan["due"].fire # row.fire]_vars
  BY OnlyMarkDueFires DEF ReminderInv, ListedRipe
<1> QED BY <1>1, ReminderInvariant, PTL DEF ReminderSafe, FiresOnTime

\* Only the scan's own MarkMissed changes the row while it leaves "miss".
LEMMA OnlyMissCloses ==
    ASSUME ReminderInv, [ReminderNext]_vars, NEW l \in Scans,
           scan[l].step = "miss", row' # row, scan'[l].step = "idle"
    PROVE  MarkMissed(l)
<1> USE DEF ReminderInv, ReminderTypeOK, Copy
<1>1. scan'[l] # scan[l]
  OBVIOUS
<1>2. CASE \E k \in Scans : ScanStep(k) \/ AgentUnread(k) \/ WriteFails(k)
  BY <1>1, <1>2 DEF ScanStep, Deliver, ClearRetry, NotifyWake, SetRetry, MarkMissed, AgentUnread, WriteFails, Goto
<1>3. CASE DrainStep \/ TurnStep
  BY <1>1, <1>3 DEF DrainStep, TurnStep, TakeWake, BeginSession, ListDueReminders, ReportReads, ReportCommits,
     TurnFails, ReplyLost
<1>4. CASE CancelReminder \/ UpdateReads \/ \E ripe, cron \in BOOLEAN : UpdateWrites(ripe, cron)
  BY <1>1, <1>4 DEF CancelReminder, UpdateReads, UpdateWrites
<1>5. CASE FireElapses \/ RetryElapses \/ ListDuePending \/ ListDueRetrying \/ MarkDue
  BY <1>1, <1>5 DEF FireElapses, RetryElapses, ListDuePending, ListDueRetrying, MarkDue, Goto, Scans
<1>6. CASE Connect \/ RegisterMachine \/ BreakStream \/ UnregisterMachine \/ OwnerStep \/ Restart \/ UNCHANGED vars
  BY <1>1, <1>6 DEF Connect, RegisterMachine, BreakStream, UnregisterMachine, OwnerStep, StopAgent, StartAgent,
     UpdateAgentACPConfig, Restart, vars
<1> QED BY <1>2, <1>3, <1>4, <1>5, <1>6 DEF ReminderNext

\* deliver's comparison with len(retryBackoff) is made on a copy of the row: the
\* count in it is the row's, so that a fire is given up after its own retries.
THEOREM MissesAreEarned == ReminderSafe => MissEarned
<1>1. ASSUME ReminderInv, [ReminderNext]_vars, NEW l \in Scans,
             scan[l].step = "miss", row' # row, scan'[l].step = "idle"
      PROVE  row.retry >= Backoff \/ crossed'
  <2>1. row.status = "DUE" /\ (crossed' \/ (~ crossed /\ scan[l].fire = row.fire))
    BY <1>1, OnlyMissCloses DEF MarkMissed, Crosses, ReminderInv, ReminderTypeOK
  <2>2. l = "retry" /\ scan[l].count >= Backoff
    BY <1>1, RemindersAssumption DEF ReminderInv, CountsRead, Scans
  <2> QED BY <2>1, <2>2, <1>1 DEF ReminderInv, RetrySame
<1>2. ReminderInv /\ [ReminderNext]_vars =>
        [\A l \in Scans : scan[l].step = "miss" /\ row' # row /\ scan'[l].step = "idle" =>
             row.retry >= Backoff \/ crossed']_vars
  BY <1>1
<1> QED BY <1>2, ReminderInvariant, PTL DEF ReminderSafe, MissEarned
=============================================================================
