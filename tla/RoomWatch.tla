------------------------------ MODULE RoomWatch ------------------------------
(***************************************************************************)
(* A web client's watcher of a conversation: a room watcher, which shows   *)
(* root messages, or the watcher of an open thread, which shows replies.   *)
(* It holds one long poll (ListConversationMessages or ListThreadMessages  *)
(* with wait_ms) that waits on a channel of the room hub, pauses while the *)
(* tab is hidden, and shares its cursor with the jump window of the room.  *)
(* Message number v is the message with room_version v; its created_at is  *)
(* the start of its transaction, and need not follow the versions.         *)
(***************************************************************************)
EXTENDS Naturals, Sequences, FiniteSets

CONSTANTS
    MaxMessages,    \* messages of the conversation
    MaxFailures,    \* disturbances: failed requests, restarts of the manager,
                    \* hidden tabs, jumps
    PageSize,       \* the server's page limit (100)
    MaxPages        \* MAX_DELTA_PAGES of the room watcher (10)

ASSUME WatchAssumption ==
    /\ MaxMessages \in Nat \ {0} /\ MaxFailures \in Nat
    /\ PageSize \in Nat \ {0} /\ MaxPages \in Nat \ {0}

Kinds   == {"root", "reply"}
Version == 1 .. MaxMessages

VARIABLES
    mine,           \* the kind of message the watcher shows
    log,            \* the kind of each message
    place,          \* its place among those the watcher shows, by created_at
    unsaid,         \* stored messages whose NotifyConversation has not run
    cursor,         \* chatCurrentVersion of the watcher
    seen,           \* history: the messages the last round appended
    jump,           \* chatJumpByConv: a jump window is open
    load,           \* the loadMessages of a clearJump
    hidden,         \* document.hidden
    poll,           \* the watcher's request
    failures        \* disturbances so far

server == <<log, place, unsaid>>
client == <<mine, seen, jump, load, hidden>>
vars   == <<server, client, cursor, poll, failures>>

Steps   == {"idle", "list", "version", "select", "reply"}
Channel == {"none", "empty", "full"}
\* after: afterVersion; got, pages, offset: the pages fetched before; since: the
\* version the round's first list ran at; answer, more: the rows of this read and
\* whether there is a nextPageToken; at: the version read after it
Poll    == [step: Steps, ch: Channel, after: Nat, since: Nat, got: SUBSET Version, pages: Nat,
            offset: Nat, answer: SUBSET Version, more: BOOLEAN, at: Nat]
NoPoll  == [step |-> "idle", ch |-> "none", after |-> 0, since |-> 0, got |-> {}, pages |-> 0,
            offset |-> 0, answer |-> {}, more |-> FALSE, at |-> 0]
Load    == [step: {"none", "read", "set"}, at: Nat]
NoLoad  == [step |-> "none", at |-> 0]

\* Every variable holds a value of its kind.
WatchTypeOK ==
    /\ mine \in Kinds
    /\ log \in Seq(Kinds) /\ Len(log) <= MaxMessages
    /\ place \in [DOMAIN log -> 0 .. Len(log)]
    /\ unsaid \subseteq Version
    /\ cursor \in Nat
    /\ seen \subseteq Version
    /\ jump \in BOOLEAN /\ load \in Load /\ hidden \in BOOLEAN
    /\ poll \in Poll /\ poll.answer \subseteq DOMAIN log /\ poll.since <= Len(log)
    /\ failures \in 0 .. MaxFailures

\* The first round starts with the watcher; a thread has a root.
WatchInit ==
    /\ mine \in Kinds
    /\ \/ mine = "root" /\ log = <<>> /\ place = <<>>
       \/ mine = "reply" /\ log = <<"root">> /\ place = <<0>>
    /\ unsaid = {} /\ cursor = 0 /\ seen = {}
    /\ jump = FALSE /\ load = NoLoad /\ hidden = FALSE
    /\ poll = [NoPoll EXCEPT !.step = "list"]
    /\ failures = 0

Disturb == failures < MaxFailures /\ failures' = failures + 1

-----------------------------------------------------------------------------
(* CreateChatMessageBumpVersion and the hub.                               *)

Mine == {v \in DOMAIN log : log[v] = mine}

\* The transaction commits.  Its created_at is the time it began: it may have
\* waited for the conversation's row while later ones went ahead.
CreateMessage(kind, t) ==
    /\ Len(log) < MaxMessages
    /\ kind = "reply" => log # <<>>
    /\ t \in IF kind = mine THEN 1 .. Cardinality(Mine) + 1 ELSE {0}
    /\ log' = Append(log, kind)
    /\ place' = [v \in 1 .. Len(log) + 1 |->
                   IF v > Len(log) THEN t
                   ELSE IF 0 < t /\ t <= place[v] THEN place[v] + 1 ELSE place[v]]
    /\ unsaid' = unsaid \cup {Len(log) + 1}
    /\ UNCHANGED <<client, cursor, poll, failures>>

\* Mutant: a channel without a buffer, which only a waiting handler hears.
NotifyUnbuffered(v) ==
    /\ v \in unsaid
    /\ unsaid' = unsaid \ {v}
    /\ poll' = IF poll.step = "select" THEN [poll EXCEPT !.ch = "full"] ELSE poll
    /\ UNCHANGED <<log, place, client, cursor, failures>>

\* And then every channel that waits for the conversation is filled.
NotifyConversation(v) ==
    /\ v \in unsaid
    /\ unsaid' = unsaid \ {v}
    /\ poll' = IF poll.ch = "none" THEN poll ELSE [poll EXCEPT !.ch = "full"]
    /\ UNCHANGED <<log, place, client, cursor, failures>>

-----------------------------------------------------------------------------
(* A long poll: ListConversationMessages and ListThreadMessages.           *)

\* The messages of the watcher's kind beyond its afterVersion.
Beyond == {v \in DOMAIN log : v > poll.after /\ log[v] = mine}

\* ORDER BY: a room's delta by created_at, a thread's by room_version.
Before(u, v) == IF mine = "root" THEN place[u] < place[v] ELSE u < v

\* The row of a message, counted from 0, and the rows from OFFSET up to a limit.
Row(v)  == Cardinality({u \in Beyond : Before(u, v)})
Rows(n) == {v \in Beyond : poll.offset <= Row(v) /\ Row(v) < poll.offset + n}

\* A first load: the newest by created_at, in the room and in a thread.
Latest  == {v \in Beyond : Cardinality({u \in Beyond : place[v] < place[u]}) < PageSize}

\* len(msgs) = limit + 1, and a thread's list has its root in front: the last
\* row is trimmed, and there is a nextPageToken.
Full    == IF mine = "root" THEN Cardinality(Beyond) > poll.offset + PageSize
                            ELSE Cardinality(Beyond) = PageSize
Trimmed == IF mine = "root" THEN Rows(PageSize) ELSE Rows(PageSize - 1)

\* The watcher's loop issues its next request; a hidden tab waits until it is
\* visible again.
Issue ==
    /\ poll.step = "idle" /\ ~ hidden
    /\ poll' = [NoPoll EXCEPT !.step = "list", !.after = cursor]
    /\ seen' = {}
    /\ UNCHANGED <<server, mine, jump, load, hidden, cursor, failures>>

\* readDelta lists messages ...
ListDelta ==
    /\ poll.step = "list"
    /\ poll' = [poll EXCEPT !.step = "version",
                    !.answer = IF poll.after = 0 THEN Latest
                               ELSE IF Full THEN Trimmed ELSE Rows(PageSize + 1),
                    !.more = poll.after > 0 /\ Full,
                    !.since = IF poll.pages = 0 THEN Len(log) ELSE @]
    /\ UNCHANGED <<server, client, cursor, failures>>

\* The read found nothing.
Nothing == poll.answer = {} /\ ~ poll.more

\* ... and then reads conversation.version: a read that found something, a
\* first load and a later page are answered.
ReadVersion ==
    /\ poll.step = "version"
    /\ ~ Nothing \/ poll.after = 0 \/ poll.pages > 0
    /\ poll' = [poll EXCEPT !.at = Len(log), !.ch = "none", !.step = "reply"]
    /\ UNCHANGED <<server, client, cursor, failures>>

\* longPollDelta: an empty delta subscribes and reads once more.
Subscribe ==
    /\ poll.step = "version" /\ poll.ch = "none"
    /\ Nothing /\ poll.after > 0 /\ poll.pages = 0
    /\ poll' = [NoPoll EXCEPT !.ch = "empty", !.step = "list", !.after = poll.after]
    /\ UNCHANGED <<server, client, cursor, failures>>

\* Still nothing: the handler waits.
Hold ==
    /\ poll.step = "version" /\ poll.ch # "none" /\ Nothing
    /\ poll' = [poll EXCEPT !.at = Len(log), !.step = "select"]
    /\ UNCHANGED <<server, client, cursor, failures>>

\* The channel has a signal: read again, on the same timer.
Wake ==
    /\ poll.step = "select" /\ poll.ch = "full"
    /\ poll' = [NoPoll EXCEPT !.ch = "empty", !.step = "list", !.after = poll.after]
    /\ UNCHANGED <<server, client, cursor, failures>>

\* wait_ms is over: the empty delta is returned with the last version read.
Timeout ==
    /\ poll.step = "select"
    /\ poll' = [poll EXCEPT !.ch = "none", !.step = "reply"]
    /\ UNCHANGED <<server, client, cursor, failures>>

-----------------------------------------------------------------------------
(* The watcher's round, fetchConversationDelta and what it does with it.   *)

\* fetchConversationDelta follows nextPageToken, up to MaxPages requests; the
\* thread's watcher does not.
NextPage ==
    /\ poll.step = "reply" /\ mine = "root"
    /\ poll.more /\ poll.pages + 1 < MaxPages
    /\ poll' = [NoPoll EXCEPT !.step = "list", !.after = poll.after, !.since = poll.since,
                    !.got = poll.got \cup poll.answer, !.pages = poll.pages + 1,
                    !.offset = poll.offset + PageSize]
    /\ UNCHANGED <<server, client, cursor, failures>>

Capped == mine = "root" /\ poll.more

\* last?.roomVersion ?? currentVersion: the last message of the last page
Last == IF poll.answer = {} THEN poll.at
        ELSE CHOOSE v \in poll.answer : \A u \in poll.answer : ~ Before(v, u)

\* Mutant: the cursor moves to the version of the response whatever is left.
ApplyVersion ==
    /\ poll.step = "reply" /\ (Capped => poll.pages + 1 = MaxPages)
    /\ cursor' = poll.at
    /\ seen' = IF jump \/ (mine = "root" /\ poll.after > 0 /\ cursor = 0)
                 THEN {} ELSE poll.got \cup poll.answer
    /\ poll' = NoPoll
    /\ UNCHANGED <<server, mine, jump, load, hidden, failures>>

\* The round ends: the cursor moves to the version of the last response or, at
\* the page cap, to the last message.  The messages are appended, unless a jump
\* window is open or the cursor was reset under the round.
Apply ==
    /\ poll.step = "reply" /\ (Capped => poll.pages + 1 = MaxPages)
    /\ cursor' = IF Capped THEN Last ELSE poll.at
    /\ seen' = IF jump \/ (mine = "root" /\ poll.after > 0 /\ cursor = 0)
                 THEN {} ELSE poll.got \cup poll.answer
    /\ poll' = NoPoll
    /\ UNCHANGED <<server, mine, jump, load, hidden, failures>>

-----------------------------------------------------------------------------
(* What else happens to the client.                                        *)

\* A request fails: the loop backs off and issues the poll again.
FailRequest ==
    /\ Disturb /\ poll.step # "idle"
    /\ poll' = NoPoll
    /\ UNCHANGED <<server, client, cursor>>

\* The manager restarts: its hub, its requests and its pending notifies are gone.
RestartManager ==
    /\ Disturb
    /\ poll' = NoPoll
    /\ unsaid' = {}
    /\ UNCHANGED <<log, place, client, cursor>>

HideTab ==
    /\ ~ hidden /\ Disturb
    /\ hidden' = TRUE
    /\ UNCHANGED <<server, mine, seen, jump, load, cursor, poll>>

ShowTab ==
    /\ hidden
    /\ hidden' = FALSE
    /\ UNCHANGED <<server, mine, seen, jump, load, cursor, poll, failures>>

\* jumpToMessage opens a window of the room; the cursor moves to the version its
\* requests have read, which may be a while ago.
JumpToMessage(v) ==
    /\ mine = "root" /\ v \in DOMAIN log /\ Disturb
    /\ jump' = TRUE /\ cursor' = v
    /\ UNCHANGED <<server, mine, seen, load, hidden, poll>>

\* clearJump empties the list and resets the cursor, and loadMessages begins.
ClearJump ==
    /\ jump /\ load = NoLoad
    /\ jump' = FALSE /\ cursor' = 0
    /\ load' = [load EXCEPT !.step = "read"]
    /\ UNCHANGED <<server, mine, seen, hidden, poll, failures>>

LoadReads ==
    /\ load.step = "read"
    /\ load' = [step |-> "set", at |-> Len(log)]
    /\ UNCHANGED <<server, mine, seen, jump, hidden, cursor, poll, failures>>

\* loadMessages appends the latest page and sets the cursor, or has failed.
LoadMessages(ok) ==
    /\ load.step = "set"
    /\ load' = NoLoad
    /\ cursor' = IF ok THEN load.at ELSE cursor
    /\ UNCHANGED <<server, mine, seen, jump, hidden, poll, failures>>

WatchStep ==
    \/ Issue \/ ListDelta \/ ReadVersion \/ Subscribe \/ Hold
    \/ Wake \/ NextPage \/ Apply

ClientStep ==
    \/ HideTab \/ ShowTab \/ ClearJump \/ LoadReads
    \/ \E v \in Version : JumpToMessage(v)
    \/ \E ok \in BOOLEAN : LoadMessages(ok)

WatchNext ==
    \/ \E kind \in Kinds, t \in 0 .. MaxMessages : CreateMessage(kind, t)
    \/ \E v \in Version : NotifyConversation(v)
    \/ WatchStep \/ ClientStep \/ Timeout \/ FailRequest \/ RestartManager

\* Handlers and the watchers' loops run on; no timer is needed.
WatchFairness ==
    /\ \A v \in Version : WF_vars(NotifyConversation(v))
    /\ WF_vars(WatchStep)

WatchSafe == WatchInit /\ [][WatchNext]_vars
WatchSpec == WatchSafe /\ WatchFairness

-----------------------------------------------------------------------------
(* Properties.                                                             *)

\* roomhub: "a Notify that races with a waiter's re-check is never lost".  A
\* handler about to wait on an empty channel has missed only messages whose
\* notify is still to come.
SignalKept ==
    \/ poll.step = "select"
    \/ poll.step = "version" /\ Nothing
    => (poll.ch = "empty" => Beyond \subseteq unsaid)

\* Only the first page of a delta waits.
WaitsFirst ==
    /\ poll.ch # "none" => poll.after > 0 /\ poll.pages = 0
    /\ poll.step = "select" => poll.ch # "none"
    /\ poll.pages = 0 => poll.got = {} /\ poll.offset = 0

\* A message that was there when the round began is fetched, or its row is still
\* ahead: a message that commits late with an early created_at moves rows back,
\* behind the offset it is only missed itself.
RowsAhead ==
    mine = "root" /\ poll.after > 0 => \A v \in Beyond : v <= poll.since =>
        /\ v \in poll.got \/ Row(v) >= poll.offset
        /\ poll.step \in {"version", "select", "reply"} =>
             v \in poll.got \cup poll.answer 
             \/ (poll.more /\ Row(v) >= poll.offset + PageSize /\ \A u \in poll.answer : Before(u, v))

\* The hub loses no signal, and the pages of a round lose no message that the
\* round could have listed.
WatchInv == WatchTypeOK /\ SignalKept /\ WaitsFirst /\ RowsAhead

\* What the end of a round moves the cursor past without showing it.
Passed == {v \in DOMAIN log : poll.after < v /\ v <= cursor' /\ log[v] = mine /\ v \notin seen'}

\* fetchConversationDelta: "a >pageSize burst is not truncated".  A round of the
\* room's watcher that is appended passes a message it does not show only when
\* the message was stored after the round's first list, or when the round ends
\* at the page cap and the message's created_at is later than those of the last
\* page, its version lower than the last one's.
RoomKept ==
    [][mine = "root" /\ ~ jump /\ poll.after > 0 /\ cursor > 0 /\ cursor' # cursor /\ poll' # poll =>
          \A v \in Passed : v > poll.since \/ (Capped /\ v <= Last /\ \A u \in poll.answer : Before(u, v))]_vars

\* The watcher has got as far as a message, or its request has.
Reached(v) == cursor >= v \/ poll.after >= v

\* The watcher catches up with what is stored, without waiting for wait_ms, unless
\* the tab stays hidden: a message is delivered, or passed over.
Prompt == []<>(\A v \in Mine : Reached(v)) \/ <>[]hidden
=============================================================================
