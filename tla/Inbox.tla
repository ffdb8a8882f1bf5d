------------------------------- MODULE Inbox ---------------------------------
(***************************************************************************)
(* How one agent learns of the messages of one conversation: the room      *)
(* version, the agent's durable cursor, the subscription to the            *)
(* conversation's thread, the wakes the manager pushes over the machine's  *)
(* control stream, the drain loop that pulls sessions, and the tool calls  *)
(* of a session (read, post, ack).  The agent is stopped and started,      *)
(* configured, removed from the room and added again, and assigned to it   *)
(* with its team.  Message number v is the message with room_version v.    *)
(* Handlers are cut at their database statements.                          *)
(***************************************************************************)
EXTENDS Integers, Sequences, FiniteSets

CONSTANTS
    MaxMessages,    \* messages of the conversation
    MaxBreaks,      \* disturbances: the stream breaks, the manager restarts, a
                    \* statement or a call fails, the agent is stopped, removed
                    \* or assigned
    Page            \* messages one read returns

ASSUME InboxAssumption == MaxMessages \in Nat /\ MaxBreaks \in Nat /\ Page \in Nat \ {0}

NoRow   == -1
Version == 1 .. MaxMessages

VARIABLES
    log,            \* chat_message: the kinds of the messages
    join,           \* AddChannelMember or a team assignment: its last step, the version read
    cursor,         \* agent_channel_cursor.processed_version
    sub,            \* thread_participant holds the agent
    posts,          \* handlers that have stored a message and not yet notified
    enabled,        \* the agent is started
    capable,        \* a runtime is configured for it
    stream,         \* the machine's connection: down, met (connected), up (registered)
    wire,           \* wakes on the control stream
    wakeCh,         \* the drain loop's buffered wake
    loop,           \* the drain loop, "none" while no runner hosts the agent
    missed,         \* history: since the last BeginSession, a wake was dropped while
                    \* the machine was connected, or none was meant to be sent
    base,           \* the current_version the agent was last told
    read,           \* what the agent has read in this session
    call,           \* the tool call in progress
    shown,          \* history: messages the agent was shown in this session
    gap,            \* history: messages it was not shown although a version
                    \* it was given, or its own post's, covers them
    breaks          \* disturbances so far

room    == <<log, join, cursor, sub, posts>>
agent   == <<enabled, capable>>
wakes   == <<stream, wire, wakeCh, loop, missed>>
turn    == <<base, read, call, shown, gap>>
vars    == <<room, agent, wakes, turn, breaks>>

Kinds   == {"root", "reply", "system"}
Handler == [v: Version, to: {"members", "thread"}, step: {"subscribe", "notify"}]
NoCall  == [op |-> "none", kind |-> "root", msgs |-> {}, v |-> 0]

\* Every variable holds a value of its kind.
InboxTypeOK ==
    /\ log \in Seq(Kinds) /\ Len(log) <= MaxMessages
    /\ join \in [step: {"out", "added", "read", "done"}, v: Nat]
    /\ cursor \in Nat \cup {NoRow} /\ sub \in BOOLEAN
    /\ posts \subseteq Handler
    /\ enabled \in BOOLEAN /\ capable \in BOOLEAN
    /\ stream \in {"down", "met", "up"} /\ wire \in Nat /\ wakeCh \in BOOLEAN
    /\ loop \in {"none", "waiting", "pulling", "idling", "starting", "session"}
    /\ missed \in BOOLEAN
    /\ base \in Nat /\ read \subseteq Kinds
    /\ call \in [op: {"none", "listed", "checked", "created"}, kind: Kinds, msgs: SUBSET Version, v: Nat]
    /\ shown \subseteq Version /\ gap \subseteq Version
    /\ breaks \in 0 .. MaxBreaks

InboxInit ==
    /\ log = <<>> /\ join = [step |-> "out", v |-> 0] /\ cursor = NoRow /\ sub = FALSE /\ posts = {}
    /\ enabled = TRUE /\ capable \in BOOLEAN
    /\ stream = "down" /\ wire = 0 /\ wakeCh = FALSE /\ loop = "none" /\ missed = FALSE
    /\ base = 0 /\ read = {} /\ call = NoCall
    /\ shown = {} /\ gap = {} /\ breaks = 0

Break == breaks < MaxBreaks /\ breaks' = breaks + 1

-----------------------------------------------------------------------------
(* What the store reports.                                                 *)

Member == join.step # "out"

\* COALESCE(acc.processed_version, c.version)
Processed == IF cursor = NoRow THEN Len(log) ELSE cursor

\* agentRelevantMessageCondition
Relevant(kind) == kind = "root" \/ (kind = "reply" /\ sub)

\* The messages that make ListChannelsWithUpdates and HasUpdates report the room.
Unread == IF Member THEN {v \in DOMAIN log : v > Processed /\ Relevant(log[v])} ELSE {}

HasUpdates == Unread # {}

\* A step that makes messages unread which the agent's version covers already.
GapOpens == gap' = gap \cup {v \in Unread' \ Unread :
                                v <= base \/ (call.op \in {"listed", "created"} /\ v <= call.v)}

\* A step that makes messages unread which nobody announces.
Unannounced == missed' = (missed \/ ~ (Unread' \subseteq Unread))

\* UpsertCursor is monotonic.
Upserted(v) == IF cursor > v THEN cursor ELSE v

-----------------------------------------------------------------------------
(* Messages of the others.                                                 *)

Thread == \E u \in DOMAIN log : log[u] = "root"

\* CreateChatMessageBumpVersion
Store(kind) ==
    /\ Len(log) < MaxMessages /\ (kind = "reply" => Thread)
    /\ log' = Append(log, kind)

Post(to, step) == posts' = posts \cup {[v |-> Len(log) + 1, to |-> to, step |-> step]}

\* createMessage, for SendMessage and the PostMessage of another agent, and how
\* the handler goes on: the agents a reply mentions are subscribed before the
\* participants are notified.
CreateMessage(kind) ==
    /\ Store(kind)
    /\ IF kind = "root" THEN Post("members", "notify") ELSE Post("thread", "subscribe")
    /\ UNCHANGED <<join, cursor, sub, agent, wakes, base, read, call, shown, breaks>>
    /\ GapOpens

\* Task and reminder notifications; SYSTEM messages concern no agent.
PostSystem ==
    /\ Store("system")
    /\ UNCHANGED <<join, cursor, sub, posts, agent, wakes, base, read, call, shown, breaks>>
    /\ GapOpens

\* The reply of completeReminderTx and that of a leader's claim: nobody is woken.
PostQuietly ==
    /\ Store("reply")
    /\ UNCHANGED <<join, cursor, sub, posts, agent, stream, wire, wakeCh, loop, base, read, call, shown, breaks>>
    /\ Unannounced
    /\ GapOpens

\* The reply of a team assignment: the members of the room are woken.
PostAssignment ==
    /\ Store("reply")
    /\ Post("members", "notify")
    /\ UNCHANGED <<join, cursor, sub, agent, stream, wire, wakeCh, loop, base, read, call, shown, breaks>>
    /\ missed' = (missed \/ (~ Member /\ ~ (Unread' \subseteq Unread)))
    /\ GapOpens

\* AddThreadParticipants, with the agent among the mentioned ones or not.
SubscribeThread(mentioned) ==
    \E p \in posts :
        /\ p.step = "subscribe"
        /\ posts' = (posts \ {p}) \cup {[p EXCEPT !.step = "notify"]}
        /\ sub' = (sub \/ mentioned)
        /\ UNCHANGED <<log, join, cursor, agent, wakes, base, read, call, shown, breaks>>
        /\ GapOpens

\* notifyConversationAgents wakes members, notifyThreadParticipants subscribers.
Notified(p) == IF p.to = "members" THEN Member ELSE sub

\* notifyAgent: a stopped agent is skipped, and so is a machine without a
\* stream.  The machine that is not connected will wake its agents when it is.
NotifyAgents ==
    \E p \in posts :
        /\ p.step = "notify"
        /\ posts' = posts \ {p}
        /\ \/ /\ UNCHANGED breaks
              /\ wire' = IF Notified(p) /\ enabled /\ stream = "up" THEN wire + 1 ELSE wire
              /\ missed' = (missed \/ (Notified(p) /\ enabled /\ stream = "met"))
           \/ Break /\ missed' = TRUE /\ UNCHANGED wire
        /\ UNCHANGED <<log, join, cursor, sub, agent, stream, wakeCh, loop, turn>>

-----------------------------------------------------------------------------
(* AddChannelMember, a team assignment, and SeedCursorOnJoin.              *)

\* An agent that was a member before has kept its cursor.
AddMember ==
    /\ join.step = "out"
    /\ join' = [join EXCEPT !.step = "added"]
    /\ UNCHANGED <<log, cursor, sub, posts, agent, stream, wire, wakeCh, loop, base, read, call, shown, breaks>>
    /\ Unannounced
    /\ GapOpens

\* A team is assigned to a task of the room: the agent joins unless it is a
\* member, and is subscribed to the thread.
AssignTeam ==
    /\ Break /\ join.step \in {"out", "done"} /\ Thread
    /\ join' = [join EXCEPT !.step = "added"]
    /\ sub' = TRUE
    /\ UNCHANGED <<log, cursor, posts, agent, stream, wire, wakeCh, loop, base, read, call, shown>>
    /\ Unannounced
    /\ GapOpens

RemoveMember ==
    /\ Break /\ join.step = "done"
    /\ join' = [join EXCEPT !.step = "out"]
    /\ UNCHANGED <<log, cursor, sub, posts, agent, wakes, turn>>

SeedReads ==
    /\ join.step = "added"
    /\ join' = [step |-> "read", v |-> Len(log)]
    /\ UNCHANGED <<log, cursor, sub, posts, agent, wakes, turn, breaks>>

\* What landed since SeedReads is unread from here on for an agent without a
\* cursor; nobody announces it again.  A cursor that is there moves on.
SeedUpserts ==
    /\ join.step = "read"
    /\ join' = [step |-> "done", v |-> 0]
    /\ cursor' = Upserted(join.v)
    /\ UNCHANGED <<log, sub, posts, agent, stream, wire, wakeCh, loop, base, read, call, shown, breaks>>
    /\ Unannounced
    /\ GapOpens

-----------------------------------------------------------------------------
(* The connection, and the agent's runner.                                 *)

Spawned == IF loop = "none" THEN "waiting" ELSE loop

\* Mutant: only a runner that is there is woken.
WakeRunners ==
    /\ stream = "down"
    /\ stream' = "met"
    /\ wakeCh' = (wakeCh \/ (enabled /\ loop # "none"))
    /\ UNCHANGED <<room, agent, wire, loop, missed, turn, breaks>>

\* ConnectMachine is answered: spawnAssignedAgents spawns or wakes the runner of
\* an agent that is started.
ConnectMachine ==
    /\ stream = "down"
    /\ stream' = "met"
    /\ wakeCh' = (wakeCh \/ enabled)
    /\ loop' = IF enabled THEN Spawned ELSE loop
    /\ UNCHANGED <<room, agent, wire, missed, turn, breaks>>

\* MachineChannel registers the stream: from here on wakes are sent.
RegisterStream ==
    /\ stream = "met"
    /\ stream' = "up"
    /\ UNCHANGED <<room, agent, wire, wakeCh, loop, missed, turn, breaks>>

\* Mutant: the wake is only taken by a loop that waits for it.
WakeUnbuffered ==
    /\ wire > 0
    /\ wire' = wire - 1
    /\ wakeCh' = (wakeCh \/ loop = "waiting")
    /\ UNCHANGED <<room, agent, stream, loop, missed, turn, breaks>>

\* handleAgentControl: wake() fills the one place of the runner's wakeCh.
DeliverWake ==
    /\ wire > 0
    /\ wire' = wire - 1
    /\ wakeCh' = (wakeCh \/ loop # "none")
    /\ UNCHANGED <<room, agent, stream, loop, missed, turn, breaks>>

\* The connection breaks, wakes on the stream are lost.
BreakStream ==
    /\ stream # "down" /\ Break
    /\ stream' = "down" /\ wire' = 0
    /\ UNCHANGED <<room, agent, wakeCh, loop, missed, turn>>

\* The manager restarts: handlers that had not notified never will.
RestartManager ==
    /\ Break
    /\ posts' = {} /\ stream' = "down" /\ wire' = 0
    /\ join' = IF join.step = "out" THEN join ELSE [step |-> "done", v |-> 0]
    /\ loop' = IF loop \in {"idling", "starting"} THEN "pulling" ELSE loop
    /\ call' = NoCall
    /\ UNCHANGED <<log, cursor, sub, agent, wakeCh, missed, base, read, shown, gap>>

StopAgent ==
    /\ enabled /\ Break
    /\ enabled' = FALSE
    /\ UNCHANGED <<room, capable, wakes, turn>>

\* RemoveAgent, or the roster of the next connection, tears the runner down.
StopRunner ==
    /\ ~ enabled /\ loop # "none" /\ call = NoCall
    /\ loop' = "none" /\ wakeCh' = FALSE
    /\ base' = 0 /\ read' = {} /\ shown' = {} /\ gap' = {}
    /\ UNCHANGED <<room, agent, stream, wire, missed, call, breaks>>

\* StartAgent pushes the assignment, which spawns or wakes the runner; a machine
\* that has taken its roster and has no stream yet misses it.
StartAgent ==
    /\ ~ enabled
    /\ enabled' = TRUE
    /\ wakeCh' = (wakeCh \/ stream = "up")
    /\ loop' = IF stream = "up" THEN Spawned ELSE loop
    /\ missed' = (missed \/ stream = "met")
    /\ UNCHANGED <<room, capable, stream, wire, turn, breaks>>

\* UpdateAgentACPConfig gives the agent a runtime, and wakes nobody.
UpdateAgentACPConfig ==
    /\ ~ capable
    /\ capable' = TRUE
    /\ missed' = (missed \/ HasUpdates)
    /\ UNCHANGED <<room, enabled, stream, wire, wakeCh, loop, turn, breaks>>

-----------------------------------------------------------------------------
(* The drain loop.                                                         *)

TakeWake ==
    /\ loop = "waiting" /\ wakeCh
    /\ loop' = "pulling" /\ wakeCh' = FALSE
    /\ UNCHANGED <<room, agent, stream, wire, missed, turn, breaks>>

\* HandleBeginSession: unread messages, here or elsewhere, or a due reminder
\* open a session of an agent that is started and has a runtime; the answer is
\* on the way.
BeginSession(other) ==
    /\ loop = "pulling"
    /\ loop' = IF (HasUpdates \/ other) /\ enabled /\ capable THEN "starting" ELSE "idling"
    /\ missed' = FALSE
    /\ UNCHANGED <<room, agent, stream, wire, wakeCh, turn, breaks>>

\* Mutant: the pass ends, as if the wake had been spent.
PullGivesUp ==
    /\ loop \in {"pulling", "idling", "starting"} /\ Break
    /\ loop' = "waiting"
    /\ UNCHANGED <<room, agent, stream, wire, wakeCh, missed, turn>>

\* The pull fails: back off and pull again, the wake is not spent.
PullFails ==
    /\ loop \in {"pulling", "idling", "starting"} /\ Break
    /\ loop' = "pulling"
    /\ UNCHANGED <<room, agent, stream, wire, wakeCh, missed, turn>>

\* The answer arrives: wait for the next wake, or run the session.
PullAnswered ==
    /\ loop \in {"idling", "starting"}
    /\ loop' = IF loop = "idling" THEN "waiting" ELSE "session"
    /\ UNCHANGED <<room, agent, stream, wire, wakeCh, missed, turn, breaks>>

\* The turn is over, and the loop pulls again.
EndSession ==
    /\ loop = "session" /\ call = NoCall
    /\ loop' = "pulling"
    /\ base' = 0 /\ read' = {} /\ shown' = {} /\ gap' = {}
    /\ UNCHANGED <<room, agent, stream, wire, wakeCh, missed, call, breaks>>

-----------------------------------------------------------------------------
(* The tool calls of a session.                                            *)

\* A page of the messages of vs; the query orders them by created_at, which need
\* not be the order of their versions.
Pages(vs) == {page \in SUBSET vs : Cardinality(page) = Page \/ (page = vs /\ Cardinality(vs) < Page)}

\* A room read returns root messages, SYSTEM ones too, a thread read replies.
Reads(kind, k) == (k = "reply") = (kind = "reply")

\* The messages a read asks for.
Wanted(kind) == {v \in DOMAIN log : v > Processed /\ Reads(kind, log[v])}

\* ListConversationMessages and ListThreadMessages: a page of the messages after
\* the cursor, the oldest or, when the cursor is 0, the newest ...
ReadLists(kind) ==
    /\ loop = "session" /\ call = NoCall /\ Member
    /\ \E page \in Pages(Wanted(kind)) :
          /\ call' = [op |-> "listed", kind |-> kind, msgs |-> page, v |-> Len(log)]
          /\ gap' = gap \cup (Wanted(kind) \ page)
    /\ UNCHANGED <<room, agent, wakes, base, read, shown, breaks>>

\* ... and, in a later statement, the version the agent will use as its base.
ReadVersion ==
    /\ call.op = "listed"
    /\ shown' = shown \cup call.msgs
    /\ base' = Len(log)
    /\ read' = read \cup {call.kind}
    /\ gap' = gap \cup {v \in Unread \ shown : v > call.v \/ ~Reads(call.kind, log[v])}
    /\ call' = NoCall
    /\ UNCHANGED <<room, agent, wakes, breaks>>

\* The agent has read the room, and the thread when it is subscribed to it.
HasRead == "root" \in read /\ (sub => "reply" \in read)

\* PostMessage compares the base version with conversation.version; on a
\* conflict it answers with the new root messages and the version it read.
PostChecks(kind) ==
    /\ loop = "session" /\ call = NoCall /\ HasRead /\ kind \in read /\ Member
    /\ base = Len(log) => Len(log) < MaxMessages
    /\ IF base = Len(log)
         THEN /\ call' = [NoCall EXCEPT !.op = "checked", !.kind = kind, !.v = base]
              /\ UNCHANGED <<base, shown, gap>>
         ELSE /\ shown' = shown \cup {v \in DOMAIN log : v > base /\ Reads("root", log[v])}
              /\ gap' = gap \cup {v \in Unread \ shown : v > base /\ Reads("reply", log[v])}
              /\ base' = Len(log)
              /\ UNCHANGED call
    /\ UNCHANGED <<room, agent, wakes, read, breaks>>

\* createMessage stores the post in a transaction of its own; a reply
\* subscribes its author unless that insert fails.  The author is not woken.
PostCreates ==
    /\ call.op = "checked" /\ Len(log) < MaxMessages
    /\ log' = Append(log, call.kind)
    /\ sub' \in {sub, sub \/ call.kind = "reply"}
    /\ call' = [call EXCEPT !.op = "created", !.v = Len(log) + 1]
    /\ UNCHANGED <<join, cursor, posts, agent, wakes, base, read, shown, breaks>>
    /\ gap' = gap \cup {v \in Unread \ shown : v > call.v} \cup (Unread' \ Unread)

\* UpsertCursor to the post's own version; its failure is logged.
PostUpserts ==
    /\ call.op = "created"
    /\ \/ cursor' = Upserted(call.v) /\ UNCHANGED breaks
       \/ Break /\ UNCHANGED cursor
    /\ base' = call.v /\ shown' = shown \cup {call.v} /\ call' = NoCall
    /\ UNCHANGED <<log, join, sub, posts, agent, wakes, read, gap>>

\* The message cannot be stored: the post is answered with an error.
PostFails ==
    /\ call.op = "checked" /\ Break
    /\ call' = NoCall
    /\ UNCHANGED <<room, agent, wakes, base, read, shown, gap>>

\* Mutant: the room's version is acked, whatever the agent has read.
AckCurrent ==
    /\ loop = "session" /\ call = NoCall /\ HasRead /\ base > 0
    /\ cursor' = Upserted(Len(log))
    /\ UNCHANGED <<log, join, sub, posts, agent, wakes, turn, breaks>>

\* AckProcessedVersion with the version the agent was last told.
AckProcessedVersion ==
    /\ loop = "session" /\ call = NoCall /\ HasRead /\ base > 0
    /\ cursor' = Upserted(base)
    /\ UNCHANGED <<log, join, sub, posts, agent, wakes, turn, breaks>>

-----------------------------------------------------------------------------
InboxNext ==
    \/ \E kind \in {"root", "reply"} : CreateMessage(kind) \/ ReadLists(kind) \/ PostChecks(kind)
    \/ PostSystem \/ PostQuietly \/ PostAssignment
    \/ \E mentioned \in BOOLEAN : SubscribeThread(mentioned)
    \/ NotifyAgents \/ AddMember \/ AssignTeam \/ RemoveMember \/ SeedReads \/ SeedUpserts
    \/ ConnectMachine \/ RegisterStream \/ DeliverWake \/ BreakStream \/ RestartManager
    \/ StopAgent \/ StopRunner \/ StartAgent \/ UpdateAgentACPConfig
    \/ TakeWake \/ (\E other \in BOOLEAN : BeginSession(other)) \/ PullFails \/ PullAnswered \/ EndSession
    \/ ReadVersion \/ PostCreates \/ PostUpserts \/ PostFails \/ AckProcessedVersion

InboxSafe == InboxInit /\ [][InboxNext]_vars

(***************************************************************************)
(* Handlers finish, a wake on a live stream is received, the drain loop    *)
(* and the machine's Run loop keep running (they retry for ever).  A turn  *)
(* may last as long as it likes.                                           *)
(***************************************************************************)
InboxFairness ==
    /\ WF_vars((NotifyAgents \/ \E mentioned \in BOOLEAN : SubscribeThread(mentioned)))
    /\ WF_vars(DeliverWake)
    /\ WF_vars((TakeWake \/ (\E other \in BOOLEAN : BeginSession(other)) \/ PullAnswered))
    /\ WF_vars((ConnectMachine \/ RegisterStream))

InboxSpec == InboxSafe /\ InboxFairness

-----------------------------------------------------------------------------
(***************************************************************************)
(* No wake is lost while it can be sent: when the drain loop of an agent   *)
(* that may run waits, or is about to, with a message unread, then a wake  *)
(* is buffered, on the stream or still to be sent, or the machine has      *)
(* still to reconnect, which wakes it.  The exceptions (missed): the wake  *)
(* of a machine that is back and has no stream yet, a failed statement,    *)
(* and what is unread without an announcement.                             *)
(***************************************************************************)
NoLostWake ==
    enabled /\ capable /\ HasUpdates /\ loop \in {"none", "waiting", "idling"} =>
        wakeCh \/ wire > 0 \/ missed \/ stream = "down" \/ \E p \in posts : Notified(p)

\* The handler of a tool call runs inside a session, at a version the log has.
CallInSession ==
    /\ call # NoCall => loop = "session"
    /\ call.op = "listed" => call.v <= Len(log)
    /\ call.op = "checked" => call.v = base
    /\ call.op = "created" => call.v \in DOMAIN log

\* A started agent has a runner on a connected machine.
Hosted == enabled /\ stream # "down" => loop # "none" \/ missed

\* Unread messages a version covers were shown, or fell into a gap: those up to
\* the base version, those up to the post's own, those a read has asked for.
Accounted ==
    /\ \A v \in Unread : v <= base \/ (call.op = "created" /\ v <= call.v) => v \in shown \cup gap
    /\ call.op = "listed" => \A v \in Unread : v <= call.v /\ Reads(call.kind, log[v]) => v \in call.msgs \cup gap

\* A session's calls are in step with the room, and what lies below a version
\* the agent will ack is accounted for, whoever else moves the cursor.
InboxInv == InboxTypeOK /\ CallInSession /\ Hosted /\ Accounted

(***************************************************************************)
(* The cursor passes an unread message the agent was not shown only        *)
(* through a gap of a call: the message became due between the two         *)
(* statements of a read or of a post, between the reads of the room and of *)
(* the thread, or was cut off at the page.  No ack, post, conflict or      *)
(* stale base version skips a message that a call could have returned.     *)
(* The seed of a join is the exception: it passes what it has found in the *)
(* room, read or not, when the agent had a cursor.                         *)
(***************************************************************************)
GapsOnly ==
    [][cursor' # cursor => Unread \ Unread' \subseteq
           shown' \cup gap' \cup (IF join.step = "read" /\ join' # join THEN 1 .. join.v ELSE {})]_vars

(***************************************************************************)
(* An unread message of an agent that may run leads to a session, unless   *)
(* it is not announced (missed) or is passed by the cursor first.          *)
(***************************************************************************)
Served ==
    (HasUpdates /\ enabled /\ capable /\ ~missed)
        ~> (loop = "session" \/ ~HasUpdates \/ missed \/ ~enabled)
=============================================================================
