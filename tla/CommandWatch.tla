---------------------------- MODULE CommandWatch ----------------------------
(***************************************************************************)
(* A viewer watches one command: WatchCommand and WatchCommandEvents of    *)
(* CommandService, the command bus, the broadcast of uploaded rows by      *)
(* Dispatcher.ApplyCommandUpload, and the reconnecting loop of the web     *)
(* client (watchCommand, watchCommandEvents in stores/command.ts).         *)
(*                                                                         *)
(* The machine's log for the command is 1 .. Result: MaxSeq records of the *)
(* kind the viewer watches, then the result.  The records of the other     *)
(* kind matter where they share a sequence number with a watched one.      *)
(* Payloads are left out.  The re-grade of a reaped command is left out:   *)
(* CommandRows shows that no command is ever reaped.                       *)
(***************************************************************************)
EXTENDS Naturals, Sequences

CONSTANTS
    MaxSeq,         \* records of the watched kind
    BufSize,        \* watcherBufSize
    MaxAttempts,    \* RECONNECT_MAX_ATTEMPTS
    Handlers,       \* concurrent UploadCommandData handlers
    MaxFaults       \* failed and abandoned uploads, restarts of the manager

ASSUME WatchAssumption ==
    /\ MaxSeq \in Nat /\ BufSize \in Nat \ {0} /\ MaxAttempts \in Nat /\ MaxFaults \in Nat

Record == 1 .. MaxSeq
Result == MaxSeq + 1
Blank  == 0             \* an output without command, content and number
NoCall == "none"        \* the uploader has no call under way

ASSUME HandlerAssumption == NoCall \notin Handlers

Statuses == {"running", "done", "cancelled"}
Phases   == {"idle", "opened", "replay", "live", "ended", "failed"}

VARIABLES
    kind,       \* what the viewer watches: "output" or "event"
    status,     \* command.status
    rows,       \* rows of command_output or command_event
    acked,      \* the uploader's cursor
    caller,     \* the handler whose reply the uploader waits for
    upload,     \* the upload handlers
    timers,     \* closes scheduled by scheduleWatcherClose
    bus,        \* the viewer's channel and whether the bus holds it
    watch,      \* the watch handler and the client's loop
    page,       \* what the page shows
    missed,     \* history: rows this stream can no longer show
    faults      \* upload faults and restarts so far

manager == <<status, rows, acked, caller, upload, timers>>
viewer  == <<watch, page>>
vars    == <<kind, manager, bus, viewer, missed, faults>>

Uploads == [st : {"free", "loaded", "committed"}, lo : 1 .. Result, hi : 0 .. Result, loaded : Statuses,
            todo : SUBSET Record, ends : BOOLEAN]
Free    == [st |-> "free", lo |-> 1, hi |-> 0, loaded |-> "running", todo |-> {}, ends |-> FALSE]

NoChannel == [held |-> FALSE, open |-> FALSE, ch |-> << >>]

Init ==
    /\ kind \in {"output", "event"}
    /\ status = "running" /\ rows = {} /\ acked = 0 /\ caller = NoCall /\ timers = 0
    /\ upload = [h \in Handlers |-> Free]
    /\ bus = NoChannel
    /\ watch = [phase |-> "idle", attempts |-> 0, saved |-> "running", hist |-> {}]
    /\ page = [seen |-> {}, last |-> 0]
    /\ missed = {} /\ faults = 0

Fault == faults < MaxFaults /\ faults' = faults + 1

-----------------------------------------------------------------------------
(***************************************************************************)
(* UploadCommandData: ApplyCommandUploadBatch loads the status and applies *)
(* the batch in one transaction; then ApplyCommandUpload broadcasts the    *)
(* inserted rows and schedules the close of the watchers.                  *)
(***************************************************************************)
StartUpload(h) ==
    /\ caller = NoCall /\ upload[h].st = "free"
    /\ \E hi \in acked + 1 .. Result :
         upload' = [upload EXCEPT ![h] =
                      [Free EXCEPT !.st = "loaded", !.lo = acked + 1, !.hi = hi, !.loaded = status]]
    /\ caller' = h
    /\ UNCHANGED <<kind, status, rows, acked, timers, bus, viewer, missed, faults>>

\* The records of a batch.
Batch(u) == (u.lo .. u.hi) \cap Record

\* INSERT ... ON CONFLICT DO NOTHING: the rows this batch adds.
Inserted(u) == Batch(u) \ rows

\* A terminal is reported when the status loaded before was active.
Reports(u) == u.hi = Result /\ u.loaded = "running"

\* The transaction: inserts and the guarded transition.
Applied(u) ==
    /\ rows' = rows \cup Batch(u)
    /\ status' = IF Reports(u) /\ status = "running" THEN "done" ELSE status

CommitUpload(h) ==
    LET u == upload[h] IN
    /\ u.st = "loaded"
    /\ Applied(u)
    /\ upload' = [upload EXCEPT ![h] =
           [u EXCEPT !.st = "committed", !.loaded = "running", !.todo = Inserted(u), !.ends = Reports(u)]]
    /\ UNCHANGED <<kind, acked, caller, timers, bus, viewer, missed, faults>>

\* The handler's call is over, and its reply if the uploader still waits.
HungUp(h) == IF caller = h THEN NoCall ELSE caller

\* The streams that have read the history.
Streaming == watch.phase \in {"replay", "live", "ended"}

\* Commit reports an error for a transaction the database has committed: the
\* handler returns before it broadcasts.
CommitUnknown(h) ==
    LET u == upload[h] IN
    /\ Fault
    /\ u.st = "loaded"
    /\ Applied(u)
    /\ upload' = [upload EXCEPT ![h] = Free]
    /\ caller' = HungUp(h)
    /\ missed' = IF Streaming THEN missed \cup Inserted(u) ELSE missed
    /\ UNCHANGED <<kind, acked, timers, bus, viewer>>

\* A statement fails: the transaction is rolled back and the call answered
\* with an error.
FailUpload(h) ==
    /\ Fault
    /\ upload[h].st = "loaded"
    /\ upload' = [upload EXCEPT ![h] = Free]
    /\ caller' = HungUp(h)
    /\ UNCHANGED <<kind, status, rows, acked, timers, bus, viewer, missed>>

\* The uploader's call times out; its handler may still run.
AbandonUpload ==
    /\ Fault
    /\ caller # NoCall
    /\ caller' = NoCall
    /\ UNCHANGED <<kind, status, rows, acked, upload, timers, bus, viewer, missed>>

\* commandBus.broadcast finds the viewer's channel, and room in it.
Reached == bus.held /\ Len(bus.ch) < BufSize

\* wireByKey has one place per command and number: an entry of another kind
\* with the same number that comes later in the batch takes it.  Which numbers
\* the other kind uses is free; the number of the result is 1.
Shadowed(r, u) == IF r = 1 /\ u.hi = Result THEN {TRUE} ELSE BOOLEAN

\* r is the oldest record of rs.
First(r, rs) == r \in rs /\ \A t \in rs : r <= t

\* Broadcast of the next inserted row.  A shadowed output is sent without its
\* content and number, a shadowed event goes to the watchers of no command.
Broadcast(h) ==
    LET u == upload[h] IN
    /\ u.st = "committed"
    /\ \E r \in Record : \E shadowed \in Shadowed(r, u) :
         /\ First(r, u.todo)
         /\ upload' = [upload EXCEPT ![h].todo = @ \ {r}]
         /\ bus' = IF Reached /\ ~(shadowed /\ kind = "event")
                   THEN [bus EXCEPT !.ch = Append(@, IF shadowed THEN Blank ELSE r)]
                   ELSE bus
         /\ missed' = IF Streaming /\ (shadowed \/ ~Reached) THEN missed \cup {r} ELSE missed
    /\ UNCHANGED <<kind, status, rows, acked, caller, timers, viewer, faults>>

\* Mutant: the terminal cleanup forgets the watchers.
EndUnscheduled(h) ==
    LET u == upload[h] IN
    /\ u.st = "committed" /\ u.todo = {}
    /\ upload' = [upload EXCEPT ![h] = Free]
    /\ acked' = IF caller = h THEN u.hi ELSE acked
    /\ caller' = HungUp(h)
    /\ UNCHANGED <<kind, status, rows, timers, bus, viewer, missed, faults>>

\* scheduleWatcherClose for a reported terminal, and the reply.
EndUpload(h) ==
    LET u == upload[h] IN
    /\ u.st = "committed" /\ u.todo = {}
    /\ timers' = IF u.ends THEN timers + 1 ELSE timers
    /\ upload' = [upload EXCEPT ![h] = Free]
    /\ acked' = IF caller = h THEN u.hi ELSE acked
    /\ caller' = HungUp(h)
    /\ UNCHANGED <<kind, status, rows, bus, viewer, missed, faults>>

\* Mutant: the channel is closed and stays in the bus.
CloseKept ==
    /\ timers > 0
    /\ timers' = timers - 1
    /\ bus' = IF bus.held THEN [bus EXCEPT !.open = FALSE] ELSE bus
    /\ UNCHANGED <<kind, status, rows, acked, caller, upload, viewer, missed, faults>>

\* The delayed close: closeOutput and closeEvents.
CloseWatchers ==
    /\ timers > 0
    /\ timers' = timers - 1
    /\ bus' = IF bus.held THEN [bus EXCEPT !.open = FALSE, !.held = FALSE] ELSE bus
    /\ UNCHANGED <<kind, status, rows, acked, caller, upload, viewer, missed, faults>>

\* CancelCommand and ForceDisconnectMachine: nothing closes the watchers.
CancelCommand ==
    /\ status = "running"
    /\ status' = "cancelled"
    /\ UNCHANGED <<kind, rows, acked, caller, upload, timers, bus, viewer, missed, faults>>

-----------------------------------------------------------------------------
(***************************************************************************)
(* The watch: GetCommandByName, the replay from the rows, and, if the      *)
(* command was active, a subscription and the live items.                  *)
(***************************************************************************)
OpenWatch ==
    /\ watch.phase = "idle"
    /\ watch' = [watch EXCEPT !.phase = "opened", !.saved = status]
    /\ UNCHANGED <<kind, manager, bus, page, missed, faults>>

\* Mutant: the replay starts one record too late.
HistoryFrom(last) == {r \in rows : r > last + 1}

\* GetCommandOutput and GetCommandEvents: the rows after the last one shown.
History(last) == {r \in rows : r > last}

ReadHistory ==
    /\ watch.phase = "opened"
    /\ watch' = [watch EXCEPT !.phase = "replay", !.hist = History(page.last)]
    /\ missed' = {r \in rows : r <= page.last} \ page.seen
    /\ UNCHANGED <<kind, manager, bus, page, faults>>

\* The client appends an item and takes its number for the next request.
Shown(item) == [seen |-> page.seen \cup ({item} \ {Blank}), last |-> item]

SendHistory ==
    /\ watch.phase = "replay"
    /\ \E r \in Record :
         /\ First(r, watch.hist)
         /\ page' = Shown(r)
         /\ watch' = [watch EXCEPT !.hist = @ \ {r}]
    /\ UNCHANGED <<kind, manager, bus, missed, faults>>

\* The command was closed when the handler read it: the stream ends.
EndReplay ==
    /\ watch.phase = "replay" /\ watch.hist = {} /\ watch.saved # "running"
    /\ watch' = [watch EXCEPT !.phase = "ended"]
    /\ UNCHANGED <<kind, manager, bus, page, missed, faults>>

Subscribe ==
    /\ watch.phase = "replay" /\ watch.hist = {} /\ watch.saved = "running"
    /\ watch' = [watch EXCEPT !.phase = "live"]
    /\ bus' = [held |-> TRUE, open |-> TRUE, ch |-> << >>]
    /\ UNCHANGED <<kind, manager, page, missed, faults>>

SendLive ==
    /\ watch.phase = "live" /\ bus.ch # << >>
    /\ page' = Shown(Head(bus.ch))
    /\ bus' = [bus EXCEPT !.ch = Tail(@)]
    /\ UNCHANGED <<kind, manager, watch, missed, faults>>

\* A closed channel is empty: the stream ends.
EndLive ==
    /\ watch.phase = "live" /\ bus.ch = << >> /\ ~bus.open
    /\ watch' = [watch EXCEPT !.phase = "ended"]
    /\ UNCHANGED <<kind, manager, bus, page, missed, faults>>

\* The transport dies: Unsubscribe, and the client backs off or gives up.
Disconnected ==
    /\ bus' = NoChannel
    /\ watch' = IF watch.phase \in {"opened", "replay", "live"}
                THEN [watch EXCEPT !.hist = {},
                        !.phase = IF watch.attempts < MaxAttempts THEN "idle" ELSE "failed",
                        !.attempts = IF watch.attempts < MaxAttempts THEN @ + 1 ELSE @]
                ELSE watch

BreakStream ==
    /\ watch.phase \in {"opened", "replay", "live"}
    /\ Disconnected
    /\ missed' = {}
    /\ UNCHANGED <<kind, manager, page, faults>>

\* Rows an upload handler has stored and not yet broadcast.
Unsaid == UNION {upload[h].todo : h \in Handlers}

\* The manager restarts: handlers, scheduled closes and the bus are gone.
RestartManager ==
    /\ Fault
    /\ upload' = [h \in Handlers |-> Free] /\ caller' = NoCall /\ timers' = 0
    /\ Disconnected
    /\ missed' = IF watch.phase = "ended" THEN missed \cup Unsaid ELSE {}
    /\ UNCHANGED <<kind, status, rows, acked, page>>

-----------------------------------------------------------------------------
Handler(h) == CommitUpload(h) \/ CommitUnknown(h) \/ FailUpload(h) \/ Broadcast(h) \/ EndUpload(h)
Viewer     == OpenWatch \/ ReadHistory \/ SendHistory \/ EndReplay \/ Subscribe \/ SendLive \/ EndLive

Next ==
    \/ \E h \in Handlers : StartUpload(h) \/ Handler(h)
    \/ AbandonUpload \/ CloseWatchers \/ CancelCommand
    \/ Viewer \/ BreakStream \/ RestartManager

Safe == Init /\ [][Next]_vars

\* Handlers run to their end, timers fire, and the viewer reads its stream.
Fairness ==
    /\ \A h \in Handlers : WF_vars(Handler(h))
    /\ WF_vars(CloseWatchers) /\ WF_vars(Viewer)

Spec == Safe /\ Fairness

-----------------------------------------------------------------------------
Item == Record \cup {Blank}

TypeOK ==
    /\ kind \in {"output", "event"} /\ status \in Statuses /\ rows \subseteq Record
    /\ acked \in 0 .. Result /\ caller \in Handlers \cup {NoCall} /\ timers \in Nat
    /\ upload \in [Handlers -> Uploads]
    /\ bus \in [held : BOOLEAN, open : BOOLEAN, ch : Seq(Item)]
    /\ watch \in [phase : Phases, attempts : 0 .. MaxAttempts, saved : Statuses, hist : SUBSET Record]
    /\ page \in [seen : SUBSET Record, last : Item]
    /\ missed \subseteq Record /\ faults \in 0 .. MaxFaults

\* A channel the bus holds is open, so no broadcast sends on a closed channel
\* and no channel is closed twice (both panic in Go); only a live watch has one.
HeldIsOpen ==
    /\ bus.held => bus.open /\ watch.phase = "live"
    /\ watch.phase = "live" => bus.held = bus.open
    /\ watch.phase # "live" => bus.ch = << >>
    /\ watch.phase # "replay" => watch.hist = {}

\* Only a handler that has committed has rows to broadcast.
CommittedFirst == \A h \in Handlers : upload[h].st # "committed" => upload[h].todo = {}

\* What is on its way to the viewer, or shown, is a stored row: a viewer never
\* sees what a failed transaction took back.
Durable ==
    /\ page.seen \cup watch.hist \cup missed \subseteq rows
    /\ \A i \in DOMAIN bus.ch : bus.ch[i] \in rows \cup {Blank}
    /\ \A h \in Handlers : upload[h].todo \subseteq rows

\* Rows in the viewer's channel.
Queued == {bus.ch[i] : i \in DOMAIN bus.ch}

\* The replay and the live items together: once the history is read, a stored
\* row is shown, on its way, about to be broadcast, or it was missed for one of
\* the reasons the code has: it came between the replay and the subscription,
\* found the buffer full, lost its place in wireByKey, came after the close, or
\* the number of the last item shown had passed it.
Accounted == Streaming => rows \subseteq page.seen \cup watch.hist \cup Queued \cup Unsaid \cup missed

StreamInv == TypeOK /\ HeldIsOpen /\ CommittedFirst /\ Durable /\ Accounted

\* A live viewer of a command whose result is applied gets the end of the
\* stream: a reported terminal closes the channels that are open then.
WatchEnds ==
    (watch.phase = "live" /\ \E h \in Handlers : upload[h].ends) ~> watch.phase # "live"
=============================================================================
