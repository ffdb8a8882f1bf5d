----------------------------- MODULE InboxProofs -----------------------------
(***************************************************************************)
(* Proofs about Inbox, for every number of messages and disturbances and   *)
(* every page size: InboxInv together with NoLostWake is inductive, hence  *)
(* no wake is lost while it can be sent, and the cursor only passes        *)
(* messages the agent was shown, that fell into a gap of a call, or that   *)
(* the seed of a join has found in the room (GapsOnly).                    *)
(***************************************************************************)
EXTENDS Inbox, TLAPS

\* The inductive invariant: a wake delivered to a machine without a runner is
\* covered by Hosted, so NoLostWake needs InboxInv.
WakeInv == InboxInv /\ NoLostWake

\* An unread message is a stored one.
LEMMA UnreadStored ==
    ASSUME InboxTypeOK
    PROVE  /\ Unread \subseteq DOMAIN log
           /\ DOMAIN log = 1 .. Len(log) /\ Len(log) \in Nat
           /\ DOMAIN log \subseteq Version
           /\ \A v \in Unread : v > Processed /\ Relevant(log[v])
           /\ cursor = NoRow => Unread = {}
<1>1. DOMAIN log = 1 .. Len(log) /\ Len(log) \in Nat /\ Len(log) <= MaxMessages
  BY DEF InboxTypeOK
<1>2. DOMAIN log \subseteq Version
  BY <1>1, InboxAssumption DEF Version
<1>3. cursor = NoRow => Unread = {}
  BY <1>1 DEF Unread, Processed
<1> QED BY <1>1, <1>2, <1>3 DEF Unread

\* A step that leaves messages, membership, cursor and subscription alone
\* leaves the unread messages alone.
LEMMA UnreadStable ==
    ASSUME UNCHANGED <<log, cursor, sub>>, Member' = Member
    PROVE  Unread' = Unread /\ HasUpdates' = HasUpdates
  BY DEF Unread, HasUpdates, Processed, Relevant

\* The log after an append, and what it makes unread.
LEMMA Appended ==
    ASSUME InboxTypeOK, NEW kind \in Kinds, log' = Append(log, kind)
    PROVE  /\ Len(log') = Len(log) + 1
           /\ log' \in Seq(Kinds)
           /\ DOMAIN log' = 1 .. Len(log) + 1
           /\ \A v \in DOMAIN log : v \in DOMAIN log' /\ log'[v] = log[v]
           /\ log'[Len(log) + 1] = kind
           /\ Unread' \subseteq DOMAIN log'
           /\ UNCHANGED <<join, cursor, sub>> => Unread' \subseteq Unread \cup {Len(log) + 1}
           /\ UNCHANGED <<join, cursor, sub>> /\ Len(log) + 1 \in Unread' => Member /\ Relevant(kind)
<1>1. /\ Len(log') = Len(log) + 1 /\ log' \in Seq(Kinds) /\ DOMAIN log' = 1 .. Len(log) + 1
      /\ \A v \in DOMAIN log : v \in DOMAIN log' /\ log'[v] = log[v]
      /\ log'[Len(log) + 1] = kind
      /\ DOMAIN log = 1 .. Len(log) /\ Len(log) \in Nat
  BY UnreadStored DEF InboxTypeOK
<1>2. Unread' \subseteq DOMAIN log'
  BY DEF Unread
<1>3. ASSUME UNCHANGED <<join, cursor, sub>>
      PROVE  /\ Unread' \subseteq Unread \cup {Len(log) + 1}
             /\ Len(log) + 1 \in Unread' => Member /\ Relevant(kind)
  <2>1. CASE cursor = NoRow
    BY <1>1, <1>3, <2>1 DEF Unread, Processed
  <2>2. CASE cursor # NoRow
    <3>1. Processed' = Processed /\ Member' = Member /\ \A k : Relevant(k)' = Relevant(k)
      BY <1>3, <2>2 DEF Processed, Member, Relevant
    <3>2. \A v \in DOMAIN log' : v \in DOMAIN log \/ v = Len(log) + 1
      BY <1>1
    <3> QED BY <1>1, <3>1, <3>2 DEF Unread
  <2> QED BY <2>1, <2>2
<1> QED BY <1>1, <1>2, <1>3

\* GapOpens is typed.
LEMMA GapTyped ==
    ASSUME InboxTypeOK, GapOpens, Unread' \subseteq Version
    PROVE  gap' \subseteq Version
  BY DEF InboxTypeOK, GapOpens

\* What a step of the others makes unread below the agent's version is a gap.
LEMMA GapAccounts ==
    ASSUME InboxTypeOK, CallInSession, Accounted, GapOpens, UNCHANGED <<base, call, shown>>,
           \A v \in DOMAIN log : log'[v] = log[v]
    PROVE  Accounted'
<1>1. gap \subseteq gap' /\ Unread \subseteq DOMAIN log
  BY UnreadStored DEF GapOpens
<1>2. ASSUME NEW v \in Unread', v <= base \/ (call.op = "created" /\ v <= call.v)
      PROVE  v \in shown \cup gap'
  BY <1>1, <1>2 DEF GapOpens, Accounted
<1>3. ASSUME call.op = "listed", NEW v \in Unread', v <= call.v, Reads(call.kind, log'[v])
      PROVE  v \in call.msgs \cup gap'
  <2>1. CASE v \in Unread
    BY <1>1, <1>3, <2>1 DEF Accounted
  <2>2. CASE v \notin Unread
    BY <1>3, <2>2 DEF GapOpens
  <2> QED BY <2>1, <2>2
<1> QED BY <1>2, <1>3 DEF Accounted, Reads

\* A step that makes messages unread without an announcement says so, and
\* takes no announced wake away.
LEMMA UnannouncedKept ==
    ASSUME NoLostWake, Unannounced, UNCHANGED <<agent, stream, wire, wakeCh, loop>>,
           \A p \in posts : Notified(p) => p \in posts' /\ Notified(p)'
    PROVE  NoLostWake'
<1>1. CASE Unread' \subseteq Unread
  <2>1. HasUpdates' => HasUpdates
    BY <1>1 DEF HasUpdates
  <2>2. missed => missed'
    BY DEF Unannounced
  <2> QED BY <2>1, <2>2 DEF NoLostWake, agent
<1>2. CASE ~ (Unread' \subseteq Unread)
  BY <1>2 DEF Unannounced, NoLostWake
<1> QED BY <1>1, <1>2

\* The seed's read changes no row.
LEMMA StepSeedReads == WakeInv /\ SeedReads => WakeInv'
<1> SUFFICES ASSUME WakeInv, SeedReads PROVE WakeInv'
  OBVIOUS
<1> USE DEF WakeInv, InboxInv
<1>1. Unread' = Unread /\ HasUpdates' = HasUpdates
  BY UnreadStable DEF SeedReads, Member, room
<1>2. InboxTypeOK'
  BY  DEF SeedReads, InboxTypeOK, room, agent, wakes, turn, NoCall, Kinds
<1>3. CallInSession' /\ Hosted'
  BY DEF SeedReads, CallInSession, Hosted, NoCall, InboxTypeOK, Spawned, room, agent, wakes, turn
<1>4. Accounted'
  BY <1>1, UnreadStored DEF SeedReads, Accounted, Reads, NoCall, room, turn
<1>5. NoLostWake'
  BY <1>1 DEF SeedReads, NoLostWake, Hosted, HasUpdates, Notified, Member, InboxTypeOK, Spawned, room, agent, wakes, turn
<1> QED BY <1>2, <1>3, <1>4, <1>5

\* A reconnect spawns or wakes the runner of a started agent.
LEMMA StepConnectMachine == WakeInv /\ ConnectMachine => WakeInv'
<1> SUFFICES ASSUME WakeInv, ConnectMachine PROVE WakeInv'
  OBVIOUS
<1> USE DEF WakeInv, InboxInv
<1>1. Unread' = Unread /\ HasUpdates' = HasUpdates
  BY UnreadStable DEF ConnectMachine, Member, room
<1>2. InboxTypeOK'
  BY ZenonT(40) DEF ConnectMachine, InboxTypeOK, room, agent, wakes, turn, NoCall, Kinds, Spawned
<1>3. CallInSession' /\ Hosted'
  BY DEF ConnectMachine, CallInSession, Hosted, NoCall, InboxTypeOK, Spawned, room, agent, wakes, turn
<1>4. Accounted'
  BY <1>1, UnreadStored DEF ConnectMachine, Accounted, Reads, NoCall, room, turn
<1>5. NoLostWake'
  BY <1>1 DEF ConnectMachine, NoLostWake, Hosted, HasUpdates, Notified, Member, InboxTypeOK, Spawned, room, agent, wakes, turn
<1> QED BY <1>2, <1>3, <1>4, <1>5

\* A registered stream changes nothing yet.
LEMMA StepRegisterStream == WakeInv /\ RegisterStream => WakeInv'
<1> SUFFICES ASSUME WakeInv, RegisterStream PROVE WakeInv'
  OBVIOUS
<1> USE DEF WakeInv, InboxInv
<1>1. Unread' = Unread /\ HasUpdates' = HasUpdates
  BY UnreadStable DEF RegisterStream, Member, room
<1>2. InboxTypeOK'
  BY  DEF RegisterStream, InboxTypeOK, room, agent, wakes, turn, NoCall, Kinds
<1>3. CallInSession' /\ Hosted'
  BY DEF RegisterStream, CallInSession, Hosted, NoCall, InboxTypeOK, Spawned, room, agent, wakes, turn
<1>4. Accounted'
  BY <1>1, UnreadStored DEF RegisterStream, Accounted, Reads, NoCall, room, turn
<1>5. NoLostWake'
  BY <1>1 DEF RegisterStream, NoLostWake, Hosted, HasUpdates, Notified, Member, InboxTypeOK, Spawned, room, agent, wakes, turn
<1> QED BY <1>2, <1>3, <1>4, <1>5

\* A delivered wake is buffered, and Hosted says when nobody is there to take it.
LEMMA StepDeliverWake == WakeInv /\ DeliverWake => WakeInv'
<1> SUFFICES ASSUME WakeInv, DeliverWake PROVE WakeInv'
  OBVIOUS
<1> USE DEF WakeInv, InboxInv
<1>1. Unread' = Unread /\ HasUpdates' = HasUpdates
  BY UnreadStable DEF DeliverWake, Member, room
<1>2. InboxTypeOK'
  BY  DEF DeliverWake, InboxTypeOK, room, agent, wakes, turn, NoCall, Kinds
<1>3. CallInSession' /\ Hosted'
  BY DEF DeliverWake, CallInSession, Hosted, NoCall, InboxTypeOK, Spawned, room, agent, wakes, turn
<1>4. Accounted'
  BY <1>1, UnreadStored DEF DeliverWake, Accounted, Reads, NoCall, room, turn
<1>5. NoLostWake'
  BY <1>1 DEF DeliverWake, NoLostWake, Hosted, HasUpdates, Notified, Member, InboxTypeOK, Spawned, room, agent, wakes, turn
<1> QED BY <1>2, <1>3, <1>4, <1>5

\* Wakes on a broken stream are made up for by the reconnect.
LEMMA StepBreakStream == WakeInv /\ BreakStream => WakeInv'
<1> SUFFICES ASSUME WakeInv, BreakStream PROVE WakeInv'
  OBVIOUS
<1> USE DEF WakeInv, InboxInv
<1>1. Unread' = Unread /\ HasUpdates' = HasUpdates
  BY UnreadStable DEF BreakStream, Member, room
<1>2. InboxTypeOK'
  BY InboxAssumption DEF BreakStream, InboxTypeOK, room, agent, wakes, turn, NoCall, Kinds, Break
<1>3. CallInSession' /\ Hosted'
  BY DEF BreakStream, CallInSession, Hosted, NoCall, InboxTypeOK, Spawned, room, agent, wakes, turn
<1>4. Accounted'
  BY <1>1, UnreadStored DEF BreakStream, Accounted, Reads, NoCall, room, turn
<1>5. NoLostWake'
  BY <1>1 DEF BreakStream, NoLostWake, Hosted, HasUpdates, Notified, Member, InboxTypeOK, Spawned, room, agent, wakes, turn, Break
<1> QED BY <1>2, <1>3, <1>4, <1>5

\* So are those of the handlers a restart ends.
LEMMA StepRestartManager == WakeInv /\ RestartManager => WakeInv'
<1> SUFFICES ASSUME WakeInv, RestartManager PROVE WakeInv'
  OBVIOUS
<1> USE DEF WakeInv, InboxInv
<1>1. Unread' = Unread /\ HasUpdates' = HasUpdates
  BY UnreadStable DEF RestartManager, Member, room
<1>2. InboxTypeOK'
  BY InboxAssumption DEF RestartManager, InboxTypeOK, room, agent, wakes, turn, NoCall, Kinds, Break
<1>3. CallInSession' /\ Hosted'
  BY DEF RestartManager, CallInSession, Hosted, NoCall, InboxTypeOK, Spawned, room, agent, wakes, turn
<1>4. Accounted'
  BY <1>1, UnreadStored DEF RestartManager, Accounted, Reads, NoCall, room, turn
<1>5. NoLostWake'
  BY <1>1 DEF RestartManager, NoLostWake, Hosted, HasUpdates, Notified, Member, InboxTypeOK, Spawned, room, agent, wakes, turn, Break
<1> QED BY <1>2, <1>3, <1>4, <1>5

\* A stopped agent needs no wake.
LEMMA StepStopAgent == WakeInv /\ StopAgent => WakeInv'
<1> SUFFICES ASSUME WakeInv, StopAgent PROVE WakeInv'
  OBVIOUS
<1> USE DEF WakeInv, InboxInv
<1>1. Unread' = Unread /\ HasUpdates' = HasUpdates
  BY UnreadStable DEF StopAgent, Member, room
<1>2. InboxTypeOK'
  <2>1. breaks' \in 0 .. MaxBreaks
    BY InboxAssumption DEF StopAgent, InboxTypeOK, Break
  <2>2. enabled' \in BOOLEAN /\ UNCHANGED <<room, capable, wakes, turn>>
    BY Zenon DEF StopAgent
  <2> QED BY <2>1, <2>2 DEF InboxTypeOK, room, wakes, turn
<1>3. CallInSession' /\ Hosted'
  BY DEF StopAgent, CallInSession, Hosted, NoCall, InboxTypeOK, Spawned, room, agent, wakes, turn
<1>4. Accounted'
  BY <1>1, UnreadStored DEF StopAgent, Accounted, Reads, NoCall, room, turn
<1>5. NoLostWake'
  BY <1>1 DEF StopAgent, NoLostWake, Hosted, HasUpdates, Notified, Member, InboxTypeOK, Spawned, room, agent, wakes, turn, Break
<1> QED BY <1>2, <1>3, <1>4, <1>5

\* The runner of a stopped agent goes, with its session.
LEMMA StepStopRunner == WakeInv /\ StopRunner => WakeInv'
<1> SUFFICES ASSUME WakeInv, StopRunner PROVE WakeInv'
  OBVIOUS
<1> USE DEF WakeInv, InboxInv
<1>1. Unread' = Unread /\ HasUpdates' = HasUpdates
  BY UnreadStable DEF StopRunner, Member, room
<1>2. InboxTypeOK'
  BY ZenonT(40) DEF StopRunner, InboxTypeOK, room, agent, wakes, turn, NoCall, Kinds
<1>3. CallInSession' /\ Hosted'
  BY DEF StopRunner, CallInSession, Hosted, NoCall, InboxTypeOK, Spawned, room, agent, wakes, turn
<1>4. Accounted'
  BY <1>1, UnreadStored DEF StopRunner, Accounted, Reads, NoCall, room, turn
<1>5. NoLostWake'
  BY <1>1 DEF StopRunner, NoLostWake, Hosted, HasUpdates, Notified, Member, InboxTypeOK, Spawned, room, agent, wakes, turn
<1> QED BY <1>2, <1>3, <1>4, <1>5

\* A start spawns or wakes the runner, or the assignment counts as missed.
LEMMA StepStartAgent == WakeInv /\ StartAgent => WakeInv'
<1> SUFFICES ASSUME WakeInv, StartAgent PROVE WakeInv'
  OBVIOUS
<1> USE DEF WakeInv, InboxInv
<1>1. Unread' = Unread /\ HasUpdates' = HasUpdates
  BY UnreadStable DEF StartAgent, Member, room
<1>2. InboxTypeOK'
  BY ZenonT(40) DEF StartAgent, InboxTypeOK, room, agent, wakes, turn, NoCall, Kinds, Spawned
<1>3. CallInSession' /\ Hosted'
  BY DEF StartAgent, CallInSession, Hosted, NoCall, InboxTypeOK, Spawned, room, agent, wakes, turn
<1>4. Accounted'
  BY <1>1, UnreadStored DEF StartAgent, Accounted, Reads, NoCall, room, turn
<1>5. NoLostWake'
  BY <1>1 DEF StartAgent, NoLostWake, Hosted, HasUpdates, Notified, Member, InboxTypeOK, Spawned, room, agent, wakes, turn
<1> QED BY <1>2, <1>3, <1>4, <1>5

\* A configured agent with a message unread counts as not announced.
LEMMA StepConfigure == WakeInv /\ UpdateAgentACPConfig => WakeInv'
<1> SUFFICES ASSUME WakeInv, UpdateAgentACPConfig PROVE WakeInv'
  OBVIOUS
<1> USE DEF WakeInv, InboxInv
<1>1. Unread' = Unread /\ HasUpdates' = HasUpdates
  BY UnreadStable DEF UpdateAgentACPConfig, Member, room
<1>2. InboxTypeOK'
  <2>1. missed' \in BOOLEAN /\ capable' \in BOOLEAN
    BY Zenon DEF UpdateAgentACPConfig, HasUpdates, InboxTypeOK
  <2>2. UNCHANGED <<room, enabled, stream, wire, wakeCh, loop, turn, breaks>>
    BY DEF UpdateAgentACPConfig
  <2> QED BY <2>1, <2>2 DEF InboxTypeOK, room, turn
<1>3. CallInSession' /\ Hosted'
  BY DEF UpdateAgentACPConfig, CallInSession, Hosted, NoCall, InboxTypeOK, Spawned, room, agent, wakes, turn
<1>4. Accounted'
  BY <1>1, UnreadStored DEF UpdateAgentACPConfig, Accounted, Reads, NoCall, room, turn
<1>5. NoLostWake'
  BY <1>1 DEF UpdateAgentACPConfig, NoLostWake, Hosted, HasUpdates, Notified, Member, InboxTypeOK, Spawned, room, agent, wakes, turn
<1> QED BY <1>2, <1>3, <1>4, <1>5

\* Taking the wake starts a pull.
LEMMA StepTakeWake == WakeInv /\ TakeWake => WakeInv'
<1> SUFFICES ASSUME WakeInv, TakeWake PROVE WakeInv'
  OBVIOUS
<1> USE DEF WakeInv, InboxInv
<1>1. Unread' = Unread /\ HasUpdates' = HasUpdates
  BY UnreadStable DEF TakeWake, Member, room
<1>2. InboxTypeOK'
  BY ZenonT(40) DEF TakeWake, InboxTypeOK, room, agent, wakes, turn, NoCall, Kinds
<1>3. CallInSession' /\ Hosted'
  BY DEF TakeWake, CallInSession, Hosted, NoCall, InboxTypeOK, Spawned, room, agent, wakes, turn
<1>4. Accounted'
  BY <1>1, UnreadStored DEF TakeWake, Accounted, Reads, NoCall, room, turn
<1>5. NoLostWake'
  BY <1>1 DEF TakeWake, NoLostWake, Hosted, HasUpdates, Notified, Member, InboxTypeOK, Spawned, room, agent, wakes, turn
<1> QED BY <1>2, <1>3, <1>4, <1>5

\* A pull of an agent that may run finds every unread message.
LEMMA StepBeginSession == ASSUME NEW other \in BOOLEAN
      PROVE  WakeInv /\ BeginSession(other) => WakeInv'
<1> SUFFICES ASSUME WakeInv, BeginSession(other) PROVE WakeInv'
  OBVIOUS
<1> USE DEF WakeInv, InboxInv
<1>1. Unread' = Unread /\ HasUpdates' = HasUpdates
  BY UnreadStable DEF BeginSession, Member, room
<1>2. InboxTypeOK'
  BY ZenonT(40) DEF BeginSession, InboxTypeOK, room, agent, wakes, turn, NoCall, Kinds
<1>3. CallInSession' /\ Hosted'
  BY DEF BeginSession, CallInSession, Hosted, NoCall, InboxTypeOK, Spawned, room, agent, wakes, turn
<1>4. Accounted'
  BY <1>1, UnreadStored DEF BeginSession, Accounted, Reads, NoCall, room, turn
<1>5. NoLostWake'
  BY <1>1 DEF BeginSession, NoLostWake, Hosted, HasUpdates, Notified, Member, InboxTypeOK, Spawned, room, agent, wakes, turn
<1> QED BY <1>2, <1>3, <1>4, <1>5

\* A failed pull is repeated.
LEMMA StepPullFails == WakeInv /\ PullFails => WakeInv'
<1> SUFFICES ASSUME WakeInv, PullFails PROVE WakeInv'
  OBVIOUS
<1> USE DEF WakeInv, InboxInv
<1>1. Unread' = Unread /\ HasUpdates' = HasUpdates
  BY UnreadStable DEF PullFails, Member, room
<1>2. InboxTypeOK'
  BY InboxAssumption DEF PullFails, InboxTypeOK, room, agent, wakes, turn, NoCall, Kinds, Break
<1>3. CallInSession' /\ Hosted'
  BY DEF PullFails, CallInSession, Hosted, NoCall, InboxTypeOK, Spawned, room, agent, wakes, turn
<1>4. Accounted'
  BY <1>1, UnreadStored DEF PullFails, Accounted, Reads, NoCall, room, turn
<1>5. NoLostWake'
  BY <1>1 DEF PullFails, NoLostWake, Hosted, HasUpdates, Notified, Member, InboxTypeOK, Spawned, room, agent, wakes, turn, Break
<1> QED BY <1>2, <1>3, <1>4, <1>5

\* The loop goes to sleep only after a pull that found nothing.
LEMMA StepPullAnswered == WakeInv /\ PullAnswered => WakeInv'
<1> SUFFICES ASSUME WakeInv, PullAnswered PROVE WakeInv'
  OBVIOUS
<1> USE DEF WakeInv, InboxInv
<1>1. Unread' = Unread /\ HasUpdates' = HasUpdates
  BY UnreadStable DEF PullAnswered, Member, room
<1>2. InboxTypeOK'
  BY  DEF PullAnswered, InboxTypeOK, room, agent, wakes, turn, NoCall, Kinds
<1>3. CallInSession' /\ Hosted'
  BY DEF PullAnswered, CallInSession, Hosted, NoCall, InboxTypeOK, Spawned, room, agent, wakes, turn
<1>4. Accounted'
  BY <1>1, UnreadStored DEF PullAnswered, Accounted, Reads, NoCall, room, turn
<1>5. NoLostWake'
  BY <1>1 DEF PullAnswered, NoLostWake, Hosted, HasUpdates, Notified, Member, InboxTypeOK, Spawned, room, agent, wakes, turn
<1> QED BY <1>2, <1>3, <1>4, <1>5

\* The next pull starts from nothing.
LEMMA StepEndSession == WakeInv /\ EndSession => WakeInv'
<1> SUFFICES ASSUME WakeInv, EndSession PROVE WakeInv'
  OBVIOUS
<1> USE DEF WakeInv, InboxInv
<1>1. Unread' = Unread /\ HasUpdates' = HasUpdates
  BY UnreadStable DEF EndSession, Member, room
<1>2. InboxTypeOK'
  BY ZenonT(40) DEF EndSession, InboxTypeOK, room, agent, wakes, turn, NoCall, Kinds
<1>3. CallInSession' /\ Hosted'
  BY DEF EndSession, CallInSession, Hosted, NoCall, InboxTypeOK, Spawned, room, agent, wakes, turn
<1>4. Accounted'
  BY <1>1, UnreadStored DEF EndSession, Accounted, Reads, NoCall, room, turn
<1>5. NoLostWake'
  BY <1>1 DEF EndSession, NoLostWake, Hosted, HasUpdates, Notified, Member, InboxTypeOK, Spawned, room, agent, wakes, turn
<1> QED BY <1>2, <1>3, <1>4, <1>5

\* A handler that notifies sends a wake, or the agent is not there to take it,
\* or the wake counts as missed.
LEMMA StepNotifyAgents == WakeInv /\ NotifyAgents => WakeInv'
<1> SUFFICES ASSUME WakeInv, NotifyAgents PROVE WakeInv'
  OBVIOUS
<1> USE DEF WakeInv, InboxInv
<1>0. PICK p \in posts : NotifyAgents!(p)
  BY DEF NotifyAgents
<1>1. Unread' = Unread /\ HasUpdates' = HasUpdates
  BY <1>0, UnreadStable DEF Member
<1>2. missed' \in BOOLEAN /\ (missed => missed')
  BY <1>0, Zenon DEF InboxTypeOK
<1>3. InboxTypeOK'
  <2>1. wire' \in Nat /\ breaks' \in 0 .. MaxBreaks /\ posts' \subseteq Handler
    BY <1>0, InboxAssumption DEF InboxTypeOK, Break
  <2> QED BY <1>0, <1>2, <2>1 DEF InboxTypeOK, agent, turn
<1>4. CallInSession' /\ Hosted'
  BY <1>0, <1>2 DEF CallInSession, Hosted, NoCall, agent, turn
<1>5. Accounted'
  BY <1>0, <1>1, UnreadStored DEF Accounted, Reads, turn
<1>6. NoLostWake'
  <2>1. Notified(p) /\ enabled => wire' > 0 \/ missed' \/ stream = "down"
    <3>1. Notified(p) /\ enabled /\ stream = "up" => wire' = wire + 1 \/ missed' = TRUE
      BY <1>0
    <3>2. Notified(p) /\ enabled /\ stream = "met" => missed' = TRUE
      BY <1>0, Zenon
    <3> QED BY <3>1, <3>2 DEF InboxTypeOK
  <2>2. \A q \in posts \ {p} : q \in posts' /\ Notified(q)' = Notified(q)
    BY <1>0 DEF Notified, Member
  <2>3. UNCHANGED <<wakeCh, loop, enabled, capable, stream>> /\ (wire > 0 => wire' > 0)
    BY <1>0 DEF InboxTypeOK, agent
  <2> QED BY <1>1, <1>2, <2>1, <2>2, <2>3 DEF NoLostWake
<1> QED BY <1>3, <1>4, <1>5, <1>6

\* What a stored message of the others leaves to show: whom it concerns.
LEMMA StoredKept ==
    ASSUME WakeInv, NEW kind \in Kinds, Store(kind), GapOpens,
           UNCHANGED <<join, cursor, sub, agent, stream, wire, wakeCh, loop, base, read, call, shown, breaks>>,
           missed' \in BOOLEAN, missed => missed', posts' \subseteq Handler
    PROVE  InboxInv'
<1> USE DEF WakeInv, InboxInv
<1>0. log' = Append(log, kind) /\ Len(log) + 1 <= MaxMessages /\ Len(log) \in Nat
  BY InboxAssumption, UnreadStored DEF Store
<1>1. /\ Len(log') = Len(log) + 1 /\ DOMAIN log' = 1 .. Len(log) + 1 /\ log' \in Seq(Kinds)
      /\ \A v \in DOMAIN log : v \in DOMAIN log' /\ log'[v] = log[v]
      /\ Unread' \subseteq DOMAIN log'
  BY <1>0, Appended
<1>2. InboxTypeOK'
  <2>1. DOMAIN log' \subseteq Version
    BY <1>0, <1>1, InboxAssumption DEF Version
  <2>2. gap' \subseteq Version
    BY <1>1, <2>1, GapTyped
  <2> QED BY <1>0, <1>1, <2>2 DEF InboxTypeOK, agent
<1>3. CallInSession' /\ Hosted'
  BY <1>0, <1>1, UnreadStored DEF CallInSession, Hosted, InboxTypeOK, agent
<1>4. Accounted'
  BY <1>1, GapAccounts
<1> QED BY <1>2, <1>3, <1>4

\* A post's handler is a handler.
LEMMA PostTyped ==
    ASSUME InboxTypeOK, Len(log) < MaxMessages, NEW to \in {"members", "thread"},
           NEW step \in {"subscribe", "notify"}, Post(to, step)
    PROVE  /\ posts' \subseteq Handler /\ posts \subseteq posts'
           /\ \E p \in posts' : p.to = to /\ p.step = step
<1>1. Len(log) + 1 \in Version
  BY UnreadStored, InboxAssumption DEF Version
<1>2. [v |-> Len(log) + 1, to |-> to, step |-> step] \in Handler
  BY <1>1 DEF Handler
<1>3. [v |-> Len(log) + 1, to |-> to, step |-> step] \in posts'
  BY DEF Post
<1> QED BY <1>2, <1>3 DEF Post, InboxTypeOK

\* A new message comes with the handler that wakes the agent.
LEMMA StepCreateMessage == ASSUME NEW kind \in {"root", "reply"}
                           PROVE  WakeInv /\ CreateMessage(kind) => WakeInv'
<1> SUFFICES ASSUME WakeInv, CreateMessage(kind) PROVE WakeInv'
  OBVIOUS
<1> USE DEF WakeInv
<1>1. /\ Store(kind) /\ GapOpens /\ kind \in Kinds /\ log' = Append(log, kind)
      /\ UNCHANGED <<join, cursor, sub, agent, wakes, base, read, call, shown, breaks>>
  BY DEF CreateMessage, Store, Kinds
<1>2. /\ posts' \subseteq Handler /\ posts \subseteq posts'
      /\ \E p \in posts' : p.to = (IF kind = "root" THEN "members" ELSE "thread")
  <2>1. CASE kind = "root"
    BY <1>1, <2>1, PostTyped DEF CreateMessage, Store, InboxInv
  <2>2. CASE kind = "reply"
    BY <1>1, <2>2, PostTyped DEF CreateMessage, Store, InboxInv
  <2> QED BY <2>1, <2>2
<1>3. InboxInv'
  <2>1. missed' = missed /\ missed \in BOOLEAN
    BY <1>1 DEF wakes, InboxInv, InboxTypeOK
  <2> QED BY <1>1, <1>2, <2>1, StoredKept DEF wakes
<1>4. NoLostWake'
  <2>1. \A p : Notified(p)' = Notified(p)
    BY <1>1 DEF Notified, Member
  <2>2. /\ Unread' \subseteq Unread \cup {Len(log) + 1}
        /\ Len(log) + 1 \in Unread' => Member /\ Relevant(kind)
    BY <1>1, Appended DEF InboxInv
  <2>3. CASE Len(log) + 1 \in Unread'
    BY <1>2, <2>1, <2>2, <2>3 DEF NoLostWake, Notified, Relevant
  <2>4. CASE Len(log) + 1 \notin Unread'
    BY <1>1, <1>2, <2>1, <2>2, <2>4 DEF NoLostWake, HasUpdates, agent, wakes
  <2> QED BY <2>3, <2>4
<1> QED BY <1>3, <1>4

\* A SYSTEM message is unread for nobody.
LEMMA StepPostSystem == WakeInv /\ PostSystem => WakeInv'
<1> SUFFICES ASSUME WakeInv, PostSystem PROVE WakeInv'
  OBVIOUS
<1> USE DEF WakeInv
<1>1. /\ Store("system") /\ GapOpens /\ "system" \in Kinds /\ log' = Append(log, "system")
      /\ UNCHANGED <<join, cursor, sub, posts, agent, wakes, base, read, call, shown, breaks>>
  BY DEF PostSystem, Store, Kinds
<1>2. InboxInv'
  <2>1. missed' = missed /\ missed \in BOOLEAN /\ posts' \subseteq Handler
    BY <1>1 DEF wakes, InboxInv, InboxTypeOK
  <2> QED BY <1>1, <2>1, StoredKept DEF wakes
<1>3. NoLostWake'
  <2>1. \A p : Notified(p)' = Notified(p)
    BY <1>1 DEF Notified, Member
  <2>2. Unread' \subseteq Unread
    <3>1. /\ Unread' \subseteq Unread \cup {Len(log) + 1}
          /\ Len(log) + 1 \in Unread' => Relevant("system")
      BY <1>1, Appended DEF InboxInv
    <3>2. ~ Relevant("system")
      BY DEF Relevant
    <3> QED BY <3>1, <3>2
  <2> QED BY <1>1, <2>1, <2>2 DEF NoLostWake, HasUpdates, agent, wakes
<1> QED BY <1>2, <1>3

\* A reply nobody announces counts as such.
LEMMA StepPostQuietly == WakeInv /\ PostQuietly => WakeInv'
<1> SUFFICES ASSUME WakeInv, PostQuietly PROVE WakeInv'
  OBVIOUS
<1> USE DEF WakeInv
<1>1. /\ Store("reply") /\ GapOpens /\ Unannounced /\ "reply" \in Kinds
      /\ UNCHANGED <<join, cursor, sub, posts, agent, stream, wire, wakeCh, loop, base, read, call, shown, breaks>>
  BY DEF PostQuietly, Kinds
<1>2. missed' \in BOOLEAN /\ (missed => missed') /\ posts' \subseteq Handler
  BY <1>1, Zenon DEF Unannounced, InboxInv, InboxTypeOK
<1>3. InboxInv'
  BY <1>1, <1>2, StoredKept
<1>4. \A p \in posts : Notified(p) => p \in posts' /\ Notified(p)'
  BY <1>1 DEF Notified, Member
<1> QED BY <1>1, <1>3, <1>4, UnannouncedKept

\* The reply of an assignment wakes the members, whom alone it concerns.
LEMMA StepPostAssignment == WakeInv /\ PostAssignment => WakeInv'
<1> SUFFICES ASSUME WakeInv, PostAssignment PROVE WakeInv'
  OBVIOUS
<1> USE DEF WakeInv
<1>1. /\ Store("reply") /\ GapOpens /\ "reply" \in Kinds /\ log' = Append(log, "reply")
      /\ UNCHANGED <<join, cursor, sub, agent, stream, wire, wakeCh, loop, base, read, call, shown, breaks>>
  BY DEF PostAssignment, Store, Kinds
<1>2. /\ posts' \subseteq Handler /\ posts \subseteq posts'
      /\ \E p \in posts' : p.to = "members"
  BY <1>1, PostTyped DEF PostAssignment, Store, InboxInv
<1>3. missed' \in BOOLEAN /\ (missed => missed')
  BY Zenon DEF PostAssignment, InboxInv, InboxTypeOK
<1>4. InboxInv'
  BY <1>1, <1>2, <1>3, StoredKept
<1>5. NoLostWake'
  <2>1. \A p : Notified(p)' = Notified(p)
    BY <1>1 DEF Notified, Member
  <2>2. /\ Unread' \subseteq Unread \cup {Len(log) + 1}
        /\ Len(log) + 1 \in Unread' => Member
    BY <1>1, Appended DEF InboxInv
  <2>3. CASE Len(log) + 1 \in Unread'
    BY <1>2, <2>1, <2>2, <2>3 DEF NoLostWake, Notified
  <2>4. CASE Len(log) + 1 \notin Unread'
    BY <1>1, <1>2, <1>3, <2>1, <2>2, <2>4 DEF NoLostWake, HasUpdates, agent
  <2> QED BY <2>3, <2>4
<1> QED BY <1>4, <1>5

\* A mention makes replies unread for an agent the same handler goes on to wake.
LEMMA StepSubscribeThread == ASSUME NEW mentioned \in BOOLEAN
                             PROVE  WakeInv /\ SubscribeThread(mentioned) => WakeInv'
<1> SUFFICES ASSUME WakeInv, SubscribeThread(mentioned) PROVE WakeInv'
  OBVIOUS
<1> USE DEF WakeInv, InboxInv
<1>1. PICK p \in posts : SubscribeThread(mentioned)!(p)
  BY DEF SubscribeThread
<1> DEFINE q == [p EXCEPT !.step = "notify"]
<1>2. q \in Handler /\ q.to = p.to /\ q \in posts' /\ posts' \subseteq Handler
  BY <1>1 DEF InboxTypeOK, Handler
<1>3. (sub => sub') /\ sub' \in BOOLEAN /\ Member' = Member /\ Processed' = Processed
  BY <1>1 DEF InboxTypeOK, Member, Processed
<1>4. Unread' \subseteq DOMAIN log /\ (Unread' # {} => Member)
  BY <1>1, <1>3 DEF Unread
<1>5. InboxTypeOK'
  <2>1. gap' \subseteq Version
    BY <1>1, <1>4, GapTyped, UnreadStored
  <2> QED BY <1>1, <1>2, <1>3, <2>1 DEF InboxTypeOK, agent, wakes
<1>6. CallInSession' /\ Hosted'
  BY <1>1 DEF CallInSession, Hosted, agent, wakes
<1>7. Accounted'
  BY <1>1, GapAccounts
<1>8. NoLostWake'
  <2>1. CASE sub'
    BY <1>2, <1>3, <1>4, <2>1 DEF NoLostWake, HasUpdates, Notified
  <2>2. CASE ~ sub'
    <3>1. Unread' = Unread /\ sub' = sub
      BY <1>1, <1>3, <2>2 DEF Unread, Relevant, InboxTypeOK
    <3>2. \A r \in posts : Notified(r) => \E t \in posts' : Notified(t)'
      BY <1>1, <1>2, <1>3, <3>1 DEF Notified
    <3> QED BY <1>1, <3>1, <3>2 DEF NoLostWake, HasUpdates, agent, wakes
  <2> QED BY <2>1, <2>2
<1> QED BY <1>5, <1>6, <1>7, <1>8

\* What a step of a join makes unread is not announced.
LEMMA JoinKept ==
    ASSUME WakeInv, GapOpens, Unannounced,
           UNCHANGED <<log, posts, agent, stream, wire, wakeCh, loop, base, read, call, shown>>,
           breaks' \in 0 .. MaxBreaks, cursor' \in Nat \cup {NoRow}, sub' \in BOOLEAN, sub => sub',
           join' \in [step: {"out", "added", "read", "done"}, v: Nat], Member'
    PROVE  WakeInv'
<1> USE DEF WakeInv, InboxInv
<1>1. missed' \in BOOLEAN /\ (missed => missed')
  BY Zenon DEF Unannounced, InboxTypeOK
<1>2. InboxTypeOK'
  <2>1. Unread' \subseteq Version
    BY UnreadStored DEF Unread
  <2>2. gap' \subseteq Version
    BY <2>1, GapTyped
  <2> QED BY <1>1, <2>2 DEF InboxTypeOK, agent
<1>3. CallInSession' /\ Hosted'
  BY <1>1 DEF CallInSession, Hosted, agent
<1>4. Accounted'
  BY GapAccounts
<1>5. \A p \in posts : Notified(p) => p \in posts' /\ Notified(p)'
  BY DEF Notified
<1> QED BY <1>2, <1>3, <1>4, <1>5, UnannouncedKept

\* An agent that is added again finds what it left unread, and nobody tells it.
LEMMA StepAddMember == WakeInv /\ AddMember => WakeInv'
<1> SUFFICES ASSUME WakeInv, AddMember PROVE WakeInv'
  OBVIOUS
<1>1. /\ cursor' \in Nat \cup {NoRow} /\ sub' \in BOOLEAN /\ (sub => sub') /\ breaks' \in 0 .. MaxBreaks
      /\ join' \in [step: {"out", "added", "read", "done"}, v: Nat] /\ Member'
  BY DEF AddMember, WakeInv, InboxInv, InboxTypeOK, Member
<1> QED BY <1>1, JoinKept DEF AddMember

\* So does one that is assigned with its team.
LEMMA StepAssignTeam == WakeInv /\ AssignTeam => WakeInv'
<1> SUFFICES ASSUME WakeInv, AssignTeam PROVE WakeInv'
  OBVIOUS
<1>1. /\ cursor' \in Nat \cup {NoRow} /\ sub' \in BOOLEAN /\ (sub => sub')
      /\ join' \in [step: {"out", "added", "read", "done"}, v: Nat] /\ Member'
  BY DEF AssignTeam, WakeInv, InboxInv, InboxTypeOK, Member
<1>2. breaks' \in 0 .. MaxBreaks
  BY InboxAssumption DEF AssignTeam, Break, WakeInv, InboxInv, InboxTypeOK
<1> QED BY <1>1, <1>2, JoinKept DEF AssignTeam

\* A cursor that moves to v drops the unread messages up to v, and what it makes
\* unread (it was not there before) lies beyond v.
LEMMA CursorMoves ==
    ASSUME InboxTypeOK, NEW v \in Nat, cursor' = Upserted(v), UNCHANGED <<log, sub>>, Member' = Member
    PROVE  /\ cursor' \in Nat
           /\ \A u \in Unread' : u \in Unread \/ u > v
           /\ \A u \in Unread \ Unread' : u <= v
<1>1. cursor' \in Nat /\ (cursor # NoRow => cursor \in Nat /\ cursor <= cursor') /\ (cursor' = cursor \/ cursor' = v)
  BY DEF InboxTypeOK, NoRow, Upserted
<1>2. Processed' = cursor' /\ (cursor # NoRow => Processed = cursor)
  BY <1>1 DEF Processed, NoRow
<1>3. DOMAIN log = 1 .. Len(log) /\ Len(log) \in Nat /\ (cursor = NoRow => Unread = {} /\ cursor' = v)
  BY <1>1, UnreadStored DEF NoRow
<1>4. Unread' \subseteq DOMAIN log /\ \A u \in Unread' : u > cursor'
  BY <1>2 DEF Unread
<1>5. CASE cursor = NoRow
  BY <1>1, <1>3, <1>4, <1>5
<1>6. CASE cursor # NoRow
  <2>1. Unread' \subseteq Unread /\ \A u \in Unread \ Unread' : u <= v
    BY <1>1, <1>2, <1>3, <1>6 DEF Unread, Relevant
  <2> QED BY <1>1, <2>1
<1> QED BY <1>5, <1>6

\* The seed moves a cursor, or sets one: what landed meanwhile is not announced.
LEMMA StepSeedUpserts == WakeInv /\ SeedUpserts => WakeInv'
<1> SUFFICES ASSUME WakeInv, SeedUpserts PROVE WakeInv'
  OBVIOUS
<1> USE DEF WakeInv, InboxInv
<1>1. join.v \in Nat /\ Member /\ Member'
  BY DEF SeedUpserts, InboxTypeOK, Member
<1>2. cursor' \in Nat
  BY <1>1, CursorMoves DEF SeedUpserts
<1>3. /\ sub' \in BOOLEAN /\ (sub => sub') /\ breaks' \in 0 .. MaxBreaks
      /\ join' \in [step: {"out", "added", "read", "done"}, v: Nat]
  BY DEF SeedUpserts, InboxTypeOK
<1> QED BY <1>1, <1>2, <1>3, JoinKept DEF SeedUpserts

\* An agent that is removed has nothing unread.
LEMMA StepRemoveMember == WakeInv /\ RemoveMember => WakeInv'
<1> SUFFICES ASSUME WakeInv, RemoveMember PROVE WakeInv'
  OBVIOUS
<1> USE DEF WakeInv, InboxInv
<1>1. Unread' = {} /\ ~ HasUpdates'
  BY DEF RemoveMember, InboxTypeOK, Unread, HasUpdates, Member
<1>2. InboxTypeOK'
  BY InboxAssumption DEF RemoveMember, InboxTypeOK, Break, agent, wakes, turn
<1>3. CallInSession' /\ Hosted'
  BY DEF RemoveMember, CallInSession, Hosted, agent, wakes, turn
<1> QED BY <1>1, <1>2, <1>3 DEF Accounted, NoLostWake

\* The steps of a session leave NoLostWake and Hosted alone.
LEMMA SessionAwake ==
    ASSUME loop' = "session"
    PROVE  NoLostWake' /\ Hosted'
  BY DEF NoLostWake, Hosted

\* A read asks for every message beyond the cursor, and cuts at the page.
LEMMA StepReadLists == ASSUME NEW kind \in {"root", "reply"}
                       PROVE  WakeInv /\ ReadLists(kind) => WakeInv'
<1> SUFFICES ASSUME WakeInv, ReadLists(kind) PROVE WakeInv'
  OBVIOUS
<1> USE DEF WakeInv, InboxInv
<1>0. PICK page \in SUBSET Wanted(kind) :
         /\ call' = [op |-> "listed", kind |-> kind, msgs |-> page, v |-> Len(log)]
         /\ gap' = gap \cup (Wanted(kind) \ page)
  BY DEF ReadLists, Pages
<1>1. Wanted(kind) \subseteq Version /\ UNCHANGED <<room, agent, wakes, base, read, shown, breaks>> /\ loop = "session"
  BY UnreadStored DEF ReadLists, Wanted
<1>2. call'.op = "listed" /\ call'.kind = kind /\ call'.msgs = page /\ call'.v = Len(log)
  BY <1>0
<1>3. Unread' = Unread /\ log' = log
  BY <1>1, UnreadStable DEF room, Member
<1>4. InboxTypeOK'
  <2>1. page \in SUBSET Version /\ Len(log) \in Nat
    BY <1>0, <1>1, UnreadStored
  <2>2. call' \in [op: {"none", "listed", "checked", "created"}, kind: Kinds, msgs: SUBSET Version, v: Nat]
    BY <1>0, <2>1 DEF Kinds
  <2>3. gap' \subseteq Version
    BY <1>0, <1>1 DEF InboxTypeOK
  <2>4. UNCHANGED <<log, join, cursor, sub, posts, enabled, capable, stream, wire, wakeCh, loop, missed, base, read, shown, breaks>>
    BY <1>1 DEF room, agent, wakes
  <2> QED BY <2>2, <2>3, <2>4 DEF InboxTypeOK
<1>5. CallInSession'
  BY <1>1, <1>2, UnreadStored DEF CallInSession, room, wakes
<1>6. Accounted'
  <2>1. \A v \in Unread : Reads(kind, log[v]) => v \in Wanted(kind)
    BY UnreadStored DEF Wanted
  <2>2. \A v \in Unread : v <= base => v \in shown' \cup gap'
    BY <1>0, <1>1 DEF Accounted
  <2>3. base' = base
    BY <1>1
  <2> QED BY <1>0, <1>2, <1>3, <2>1, <2>2, <2>3 DEF Accounted, Reads
<1> QED BY <1>1, <1>4, <1>5, <1>6, SessionAwake DEF wakes

\* Below the version it answers, a read has returned or cut what it asked for.
LEMMA StepReadVersion == WakeInv /\ ReadVersion => WakeInv'
<1> SUFFICES ASSUME WakeInv, ReadVersion PROVE WakeInv'
  OBVIOUS
<1> USE DEF WakeInv, InboxInv
<1>0. loop = "session" /\ call' = NoCall /\ call'.op = "none" /\ base' = Len(log)
  BY DEF ReadVersion, CallInSession, NoCall
<1>1. Unread' = Unread
  BY UnreadStable DEF ReadVersion, room, Member
<1>2. InboxTypeOK'
  <2>1. call' \in [op: {"none", "listed", "checked", "created"}, kind: Kinds, msgs: SUBSET Version, v: Nat]
    BY DEF ReadVersion, NoCall, Kinds
  <2>2. shown' \subseteq Version /\ gap' \subseteq Version /\ read' \subseteq Kinds
    BY UnreadStored DEF ReadVersion, InboxTypeOK
  <2> QED BY <2>1, <2>2, UnreadStored DEF ReadVersion, InboxTypeOK, room, agent, wakes
<1>3. CallInSession'
  BY <1>0 DEF CallInSession
<1>4. \A v \in Unread : v \in shown' \cup gap'
  <2> SUFFICES ASSUME NEW v \in Unread, v \notin gap', v \notin shown PROVE v \in shown'
    BY DEF ReadVersion
  <2>1. ~ (v > call.v) /\ Reads(call.kind, log[v])
    BY DEF ReadVersion
  <2>2. v <= call.v
    BY <2>1, UnreadStored DEF InboxTypeOK
  <2> QED BY <2>1, <2>2 DEF ReadVersion, Accounted
<1>5. Accounted'
  BY <1>0, <1>1, <1>4 DEF Accounted
<1> QED BY <1>0, <1>2, <1>3, <1>5, SessionAwake DEF ReadVersion, wakes

\* A conflict shows the new messages of the room up to the version it answers.
LEMMA StepPostChecks == ASSUME NEW kind \in {"root", "reply"}
                        PROVE  WakeInv /\ PostChecks(kind) => WakeInv'
<1> SUFFICES ASSUME WakeInv, PostChecks(kind) PROVE WakeInv'
  OBVIOUS
<1> USE DEF WakeInv, InboxInv
<1>1. /\ Unread' = Unread /\ loop = "session" /\ call = NoCall /\ kind \in Kinds
      /\ UNCHANGED <<room, agent, wakes, read, breaks>>
  BY UnreadStable DEF PostChecks, room, Member, Kinds
<1>2. CASE base = Len(log)
  <2>1. /\ call' = [op |-> "checked", kind |-> kind, msgs |-> {}, v |-> base]
        /\ UNCHANGED <<base, shown, gap>>
    BY <1>2 DEF PostChecks, NoCall
  <2>2. InboxTypeOK'
    BY <1>1, <2>1 DEF InboxTypeOK, room, agent, wakes
  <2> QED BY <1>1, <2>1, <2>2, SessionAwake DEF CallInSession, Accounted, NoCall, room, wakes
<1>3. CASE base # Len(log)
  <2>1. /\ shown' = shown \cup {v \in DOMAIN log : v > base /\ Reads("root", log[v])}
        /\ gap' = gap \cup {v \in Unread \ shown : v > base /\ Reads("reply", log[v])}
        /\ base' = Len(log) /\ call' = call
    BY <1>3 DEF PostChecks
  <2>2. InboxTypeOK'
    BY <1>1, <2>1, UnreadStored DEF InboxTypeOK, room, agent, wakes
  <2>3. \A v \in Unread : v \in shown' \cup gap'
    BY <2>1, UnreadStored DEF Accounted, Reads, InboxTypeOK
  <2> QED BY <1>1, <2>1, <2>2, <2>3, SessionAwake DEF CallInSession, Accounted, NoCall, room, wakes
<1> QED BY <1>2, <1>3

\* The post is stored: what others posted since its base was not shown.
LEMMA StepPostCreates == WakeInv /\ PostCreates => WakeInv'
<1> SUFFICES ASSUME WakeInv, PostCreates PROVE WakeInv'
  OBVIOUS
<1> USE DEF WakeInv, InboxInv
<1>0. call.kind \in Kinds /\ log' = Append(log, call.kind)
  BY DEF PostCreates, InboxTypeOK
<1>1. /\ Len(log') = Len(log) + 1 /\ DOMAIN log' = 1 .. Len(log) + 1 /\ log' \in Seq(Kinds)
      /\ Len(log) \in Nat /\ Len(log) + 1 <= MaxMessages
  BY <1>0, Appended, UnreadStored, InboxAssumption DEF PostCreates
<1>2. loop = "session" /\ call.v = base
  BY DEF PostCreates, CallInSession, NoCall
<1>3. call'.op = "created" /\ call'.v = Len(log) + 1 /\ call'.kind = call.kind /\ call'.msgs = call.msgs
  BY DEF PostCreates, InboxTypeOK
<1>4. \A v \in Unread' : v \in shown' \cup gap'
  BY <1>2, UnreadStored DEF PostCreates, Accounted, InboxTypeOK
<1>5. InboxTypeOK'
  <2>1. Unread' \subseteq Version
    BY <1>1, InboxAssumption DEF Unread, Version
  <2>2. gap' \subseteq Version
    BY <2>1, UnreadStored DEF PostCreates, InboxTypeOK
  <2>3. sub' \in BOOLEAN
    BY DEF PostCreates, InboxTypeOK
  <2>4. call' \in [op: {"none", "listed", "checked", "created"}, kind: Kinds, msgs: SUBSET Version, v: Nat]
    <3>1. Len(log) + 1 \in Nat /\ call \in [op: {"none", "listed", "checked", "created"}, kind: Kinds, msgs: SUBSET Version, v: Nat]
      BY <1>1 DEF InboxTypeOK
    <3>2. call' = [op |-> "created", kind |-> call.kind, msgs |-> call.msgs, v |-> Len(log) + 1]
      BY <3>1 DEF PostCreates
    <3> QED BY <3>1, <3>2
  <2> QED BY <1>1, <2>2, <2>3, <2>4 DEF PostCreates, InboxTypeOK, agent, wakes
<1>6. CallInSession'
  BY <1>1, <1>2, <1>3 DEF PostCreates, CallInSession, wakes
<1>7. Accounted'
  BY <1>3, <1>4 DEF Accounted
<1> QED BY <1>2, <1>5, <1>6, <1>7, SessionAwake DEF PostCreates, wakes

\* The author's cursor moves to the post's own version, or the update fails.
LEMMA StepPostUpserts == WakeInv /\ PostUpserts => WakeInv'
<1> SUFFICES ASSUME WakeInv, PostUpserts PROVE WakeInv'
  OBVIOUS
<1> USE DEF WakeInv, InboxInv
<1>1. /\ loop = "session" /\ call.v \in Version /\ call.v \in Nat
      /\ call' = NoCall /\ call'.op = "none" /\ base' = call.v
      /\ UNCHANGED <<log, sub>> /\ Member' = Member
  BY UnreadStored DEF PostUpserts, CallInSession, NoCall, InboxTypeOK, Member
<1>2. /\ cursor' \in Nat \cup {NoRow} /\ breaks' \in 0 .. MaxBreaks
      /\ \A u \in Unread' : u \in Unread \/ u > call.v
  <2>1. CASE cursor' = Upserted(call.v) /\ UNCHANGED breaks
    BY <1>1, <2>1, CursorMoves DEF InboxTypeOK
  <2>2. CASE Break /\ UNCHANGED cursor
    BY <1>1, <2>2, UnreadStable, InboxAssumption DEF Break, InboxTypeOK
  <2> QED BY <2>1, <2>2 DEF PostUpserts
<1>3. InboxTypeOK'
  BY <1>1, <1>2 DEF PostUpserts, InboxTypeOK, agent, wakes, NoCall, Kinds
<1>4. CallInSession'
  BY <1>1 DEF CallInSession
<1>5. Accounted'
  <2>1. Unread' \subseteq Version /\ Version \subseteq Nat
    BY <1>1, UnreadStored DEF Unread, Version
  <2> QED BY <1>1, <1>2, <2>1 DEF PostUpserts, Accounted
<1> QED BY <1>1, <1>3, <1>4, <1>5, SessionAwake DEF PostUpserts, wakes

\* A post that is not stored changes nothing.
LEMMA StepPostFails == WakeInv /\ PostFails => WakeInv'
<1> SUFFICES ASSUME WakeInv, PostFails PROVE WakeInv'
  OBVIOUS
<1> USE DEF WakeInv, InboxInv
<1>1. loop = "session" /\ Unread' = Unread /\ call' = NoCall /\ call'.op = "none"
  BY UnreadStable DEF PostFails, CallInSession, NoCall, room, Member
<1>2. InboxTypeOK'
  BY InboxAssumption DEF PostFails, Break, InboxTypeOK, room, agent, wakes, NoCall, Kinds
<1> QED BY <1>1, <1>2, SessionAwake DEF PostFails, CallInSession, Accounted, room, wakes

\* An ack moves the cursor to a version below which all is accounted for.
LEMMA StepAck == WakeInv /\ AckProcessedVersion => WakeInv'
<1> SUFFICES ASSUME WakeInv, AckProcessedVersion PROVE WakeInv'
  OBVIOUS
<1> USE DEF WakeInv, InboxInv
<1>1. base \in Nat /\ UNCHANGED <<log, sub>> /\ Member' = Member
  BY DEF AckProcessedVersion, InboxTypeOK, Member
<1>2. /\ cursor' \in Nat /\ call.op = "none" /\ loop' = "session"
      /\ \A u \in Unread' : u \in Unread \/ u > base
  BY <1>1, CursorMoves DEF AckProcessedVersion, NoCall, wakes
<1>3. InboxTypeOK'
  BY <1>2 DEF AckProcessedVersion, InboxTypeOK, agent, wakes, turn
<1>4. Accounted'
  <2>1. Unread' \subseteq Version /\ Version \subseteq Nat
    BY <1>1, UnreadStored DEF Unread, Version
  <2> QED BY <1>1, <1>2, <2>1 DEF AckProcessedVersion, Accounted, turn
<1> QED BY <1>2, <1>3, <1>4, SessionAwake DEF AckProcessedVersion, CallInSession, wakes, turn

\* The initial state.
LEMMA InitInbox == InboxInit => WakeInv
<1> SUFFICES ASSUME InboxInit PROVE WakeInv
  OBVIOUS
<1>1. log = <<>> /\ Len(log) = 0 /\ log \in Seq(Kinds) /\ Unread = {}
  BY DEF InboxInit, Unread, Member
<1>2. InboxTypeOK
  <2>1. call \in [op: {"none", "listed", "checked", "created"}, kind: Kinds, msgs: SUBSET Version, v: Nat]
    BY DEF InboxInit, NoCall, Kinds
  <2>2. breaks \in 0 .. MaxBreaks /\ Len(log) <= MaxMessages
    BY <1>1, InboxAssumption DEF InboxInit
  <2> QED BY <1>1, <2>1, <2>2 DEF InboxInit, InboxTypeOK
<1> QED BY <1>1, <1>2 DEF InboxInit, WakeInv, InboxInv, CallInSession, Hosted, Accounted, NoLostWake, HasUpdates, NoCall

\* Nothing depends on a stuttering step.
LEMMA StutterInbox == WakeInv /\ UNCHANGED vars => WakeInv'
<1> SUFFICES ASSUME WakeInv, UNCHANGED vars PROVE WakeInv'
  OBVIOUS
<1> USE DEF vars, room, agent, wakes, turn
<1>1. Unread' = Unread /\ HasUpdates' = HasUpdates /\ \A p : Notified(p)' = Notified(p)
  BY UnreadStable DEF Member, Notified
<1> QED BY <1>1 DEF WakeInv, InboxInv, InboxTypeOK, CallInSession, Hosted, Accounted, NoLostWake, Reads

\* WakeInv is inductive.
LEMMA NextInbox == WakeInv /\ [InboxNext]_vars => WakeInv'
<1> SUFFICES ASSUME WakeInv, [InboxNext]_vars PROVE WakeInv'
  OBVIOUS
<1> QED BY StepCreateMessage, StepReadLists, StepPostChecks, StepPostSystem, StepPostQuietly,
           StepPostAssignment, StepSubscribeThread, StepNotifyAgents, StepAddMember, StepAssignTeam,
           StepRemoveMember, StepSeedReads, StepSeedUpserts, StepConnectMachine, StepRegisterStream,
           StepDeliverWake, StepBreakStream, StepRestartManager, StepStopAgent, StepStopRunner,
           StepStartAgent, StepConfigure, StepTakeWake, StepBeginSession, StepPullFails,
           StepPullAnswered, StepEndSession, StepReadVersion, StepPostCreates, StepPostUpserts,
           StepPostFails, StepAck, StutterInbox DEF InboxNext

\* The cursor is moved by an ack, by a post and by the seed of a join, each to a
\* version it has.
LEMMA StepPasses ==
    ASSUME WakeInv, [InboxNext]_vars, cursor' # cursor
    PROVE  Unread \ Unread' \subseteq
               shown' \cup gap' \cup (IF join.step = "read" /\ join' # join THEN 1 .. join.v ELSE {})
<1> USE DEF WakeInv, InboxInv
<1>1. CASE AckProcessedVersion
  <2>1. base \in Nat /\ UNCHANGED <<log, sub>> /\ Member' = Member
    BY <1>1 DEF AckProcessedVersion, InboxTypeOK, Member
  <2>2. \A u \in Unread \ Unread' : u <= base
    BY <1>1, <2>1, CursorMoves DEF AckProcessedVersion
  <2> QED BY <1>1, <2>2 DEF AckProcessedVersion, Accounted, turn
<1>2. CASE PostUpserts
  <2>1. /\ call.v \in Nat /\ call.op = "created" /\ cursor' = Upserted(call.v)
        /\ UNCHANGED <<log, sub>> /\ Member' = Member
    BY <1>2 DEF PostUpserts, InboxTypeOK, Member
  <2>2. \A u \in Unread \ Unread' : u <= call.v
    BY <2>1, CursorMoves
  <2> QED BY <1>2, <2>1, <2>2 DEF PostUpserts, Accounted
<1>3. CASE SeedUpserts
  <2>1. join.v \in Nat /\ join.step = "read" /\ join'.step = "done" /\ UNCHANGED <<log, sub>> /\ Member' = Member
    BY <1>3 DEF SeedUpserts, InboxTypeOK, Member
  <2>2. \A u \in Unread \ Unread' : u <= join.v
    BY <1>3, <2>1, CursorMoves DEF SeedUpserts
  <2> QED BY <2>1, <2>2, UnreadStored
<1>4. CASE \/ \E kind \in {"root", "reply"} : CreateMessage(kind) \/ ReadLists(kind) \/ PostChecks(kind)
           \/ PostSystem \/ PostQuietly \/ PostAssignment
           \/ \E mentioned \in BOOLEAN : SubscribeThread(mentioned)
           \/ NotifyAgents \/ AddMember \/ AssignTeam \/ RemoveMember \/ SeedReads
  BY <1>4 DEF CreateMessage, ReadLists, PostChecks, PostSystem, PostQuietly, PostAssignment, SubscribeThread,
              NotifyAgents, AddMember, AssignTeam, RemoveMember, SeedReads, room
<1>5. CASE \/ ConnectMachine \/ RegisterStream \/ DeliverWake \/ BreakStream \/ RestartManager
           \/ StopAgent \/ StopRunner \/ StartAgent \/ UpdateAgentACPConfig
  BY <1>5 DEF ConnectMachine, RegisterStream, DeliverWake, BreakStream, RestartManager, StopAgent,
              StopRunner, StartAgent, UpdateAgentACPConfig, room
<1>6. CASE \/ TakeWake \/ (\E other \in BOOLEAN : BeginSession(other)) \/ PullFails \/ PullAnswered
           \/ EndSession \/ ReadVersion \/ PostCreates \/ PostFails \/ UNCHANGED vars
  BY <1>6 DEF TakeWake, BeginSession, PullFails, PullAnswered, EndSession, ReadVersion, PostCreates,
              PostFails, vars, room
<1> QED BY <1>1, <1>2, <1>3, <1>4, <1>5, <1>6 DEF InboxNext

-----------------------------------------------------------------------------
\* WakeInv holds throughout.
LEMMA WakeInvariant == InboxSafe => []WakeInv
<1>1. InboxInit => WakeInv
  BY InitInbox
<1>2. WakeInv /\ [InboxNext]_vars => WakeInv'
  BY NextInbox
<1> QED BY <1>1, <1>2, PTL DEF InboxSafe

\* The calls of a session and the runner of a started agent stay consistent,
\* and what lies below a version the agent will ack is accounted for, whatever
\* handlers, joins, removals, breaks, stops and restarts interleave.
THEOREM InboxInvariant == InboxSafe => []InboxInv
<1>1. WakeInv => InboxInv
  BY DEF WakeInv
<1> QED BY <1>1, WakeInvariant, PTL

\* notifyAgent, wake() and drainLoop: a waiting agent that may run and has an
\* unread message has a wake coming, unless none was announced.
THEOREM WakeNotLost == InboxSafe => []NoLostWake
<1>1. WakeInv => NoLostWake
  BY DEF WakeInv
<1> QED BY <1>1, WakeInvariant, PTL

\* UpsertCursor by ack, post and seed: the cursor skips a message unseen only
\* through a gap of a call, or through the seed of a join.
THEOREM CursorPassesGaps == InboxSafe => GapsOnly
<1>1. WakeInv /\ [InboxNext]_vars =>
        [cursor' # cursor => Unread \ Unread' \subseteq
           shown' \cup gap' \cup (IF join.step = "read" /\ join' # join THEN 1 .. join.v ELSE {})]_vars
  BY StepPasses
<1> QED BY <1>1, WakeInvariant, PTL DEF InboxSafe, GapsOnly
=============================================================================
