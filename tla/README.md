# Laelia: a verification project

Laelia runs LLM agents on *machines*.  A manager (Go, PostgreSQL) holds conversations, agents,
commands and reminders; a machine process hosts the agents, pulls work for them, runs *turns* and
reports what the turns produce; a supervisor keeps the machine process alive and upgrades it; web
clients watch rooms and commands.  This directory holds TLA+ specifications of the parts where
interleavings, loss, retries and crashes decide whether the system is correct, and proofs about them.

Paths below are relative to `src/backend/` unless they begin with `src/` or name the frontend.

## 1. Inventory

| Component | State | Operations | Hard behaviour |
|---|---|---|---|
| Outbox (`agent/outbox/outbox.go`) | a WAL under consecutive indexes, a memory buffer | Append, Flush, ReadRecords, EvictThrough, EnforceCap, reopen, quarantine | partial writes, torn frames, a crash between buffer and WAL, an index space that starts anew |
| Uploader (`agent/outbox/uploader.go`) | cursor `readFrom`, backoff, one call in flight | Run/uploadCycle, fold, WaitClearFor (barrier), SynthesizeInterruptedTerminals, BypassUpload, Drain | appends during a call, lost and late replies, eviction that fails |
| Drain loop and turn (`agent/client/drain_runner.go`, `command_outbox.go`) | current command, sequences, wake channel | wake, BeginSession pull, runSession, runCommand, deliverTerminal | a failing append, an interrupted turn, a wake between the idle answer and the wait |
| Runner (`agent/client/runner.go`) | the loops, the open outbox | start, wireOutbox, stop, closeOutbox | stop racing a turn, crash instead of stop |
| Upload application (`manager/store/command_upload.go`, `manager/component/dispatcher/command_upload.go`) | rows of command, command_output, command_event | convert, insert with dedup, guarded terminal update, acks, broadcast, cleanup | retransmissions, late results, an ambiguous commit |
| Session pull, cancel, reaper (`dispatcher/dispatcher.go`, `api/v1/command.go`, `dispatcher/command_reaper.go`) | command rows, tracker | HandleBeginSession, CancelCommand, sweepStaleCommands | check-then-act, lost reply |
| Watchers (`dispatcher/command_bus.go`, `src/frontend/src/stores/command.ts`) | bounded channels | subscribe, broadcast, delayed close, reconnect | slow viewers, a close racing a broadcast, the gap between replay and subscription |
| Machine sessions (`dispatcher/session_*.go`, `api/v1/machine_connection.go`, `agent/client/client.go`) | stream registry, session rows, presence | connect, heartbeat, register, unregister, disconnect, force off | an old stream's teardown after a new one registered, abandoned calls that go on |
| Control queue (`dispatcher/agent_control.go`) | `agent_pending_control` | send or queue, drain at reconnect, expiry | a drain racing a live send and another drain |
| Conversations (`store/*cursor*.go`, `conversation_version.go`, `api/v1/command_message.go`) | versions, cursors, thread subscriptions | create, notify, read, post, ack, join | a message between two statements, a wake without a stream |
| Room hub (`manager/component/roomhub`, `src/frontend/src/stores/chat.ts`) | one-place channels, the browser's cursor | long poll, notify, page, apply | a notify between re-check and wait, bursts larger than a page |
| Reminders (`manager/component/scheduler`, `manager/store/reminder.go`) | reminder rows | due scan, retry scan, report, edit, cancel | scans that hold a copy of a row others write |
| Supervisor (`agent/supervisor/supervisor.go`) | worker, binaries, flags | watch, upgrade, rollback, relaunch, shutdown | watcher, upgrade and shutdown share a worker |
| Tasks, provisioner, device login and tokens, pending replies | see `PROJECT.json` | | claim races, desired/observed drift, one-time codes |

`PROJECT.json` lists every component with its status, and every hazard at its line.

### What makes the system correct

* A record a turn appended reaches the manager, is refused by it, or is dropped by a fault that the
  code names; the cursor and eviction never pass a record the manager has not taken.
* The outbox holds one running turn; a terminal written on behalf of a turn never wins over the
  turn's own result; a command is closed after all of its records, and every terminal closes it.
* An acknowledged result stays closed, and the tracker follows the turns.
* A viewer of a command sees stored rows only, misses rows only for reasons the code has, and its
  stream ends.
* The registry names a stream somebody reads; a kicked machine leaves; presence heals.
* A control the API accepted is not forgotten, and a cancelled turn stops.
* An unread message wakes its agent, and a cursor does not pass a message nobody was shown.
* A browser's poll misses no signal, and a burst is not truncated.
* A reminder fires on time, is given up only after its retries, and reaches its agent.
* The supervisor orphans no worker, restores the binary and brings the worker back.

## 2. Modules

| Module | Models | Used by |
|---|---|---|
| `CommandData` | the records, synthetic terminals and orphan groups | pipeline and rows |
| `OutboxLog` | the log as a value: flush outcomes, reads, eviction, cap; the settled prefix of a batch | `CommandPipeline` |
| `UploadBatch` | what the manager does with one batch: refusal, rows, guarded status updates, the reply | `CommandPipeline`, `CommandRows` |
| `CommandPipeline` | the composition: drain loop and turn, barrier, uploader, calls, manager, restarts and faults | `PipelineReport`, `MCPipeline` |
| `DurableReport`, `PipelineReport` | the abstract promise (records are accepted, settled for good, released only when settled or openly dropped) and the refinement mapping | `MCPipeline` |
| `CommandRows` | the manager's handlers on the command rows, cut at their SQL statements | `MCRows` |
| `CommandWatch` | upload handlers, broadcast, delayed close, and a viewer's watch with its reconnects | run |
| `MachineLink` | connections, sessions, presence, the stream registry, forced disconnect | `ControlQueue`, run |
| `ControlQueue` | steers and cancels over `MachineLink`: live send, queue, drains, expiry | run |
| `Inbox` | one agent and one conversation with a thread: versions, cursor, joins, wakes, the runner, sessions, tool calls | run |
| `RoomWatch` | a browser's long poll of a room or a thread, its pages, the jump window, the hidden tab | run |
| `Reminders` | one reminder row, the two scans, the owner's runner and drain loop, reports, edits, cancels | run |
| `Supervisor` | worker, watcher, upgrade, rollback, relaunch, shutdown | run |
| `*Proofs` | the theorems of the module in their name (`CommandPipelineProofs` also has the refinement of `DurableReport`, `ControlQueueProofs` the theorem about `MachineLink`) | |
| `MCPipeline`, `MCRows` | fault budgets and symmetry of the instances | runs |

`CommandPipeline`, `CommandRows` and `CommandWatch` look at one path from three ends.  The first has
the machine in full and lets the manager apply a batch in one step.  The second has the manager's
handlers in full and reduces the machine to what the first shows of it: one result per turn, resent
until it is acknowledged, and no turn past the barrier before that.  The third keeps of the rows what
a viewer sees, and has what follows the commit.  `ControlQueue` extends `MachineLink`: every step of
the link is a step of the composition, with the drain of the queue tied to the registration of a
stream and the cancels tied to the forced disconnect.  `Inbox` reduces the link to down, connected and
registered, which is what the wakes depend on; `Reminders` also has a registered stream whose machine
is gone, because the scheduler takes its agents for online.

### State and code: CommandPipeline

* `log` = `Outbox.log`; `log.recs[k]` is the record at index `log.base + k`.  `buffered` =
  `Outbox.buffered`.  `readFrom` = `Uploader.readFrom`.  `call` is the local state of
  `uploadCycle` between its read and its fold.
* `turn` is the drain loop: `phase` says where it is (`idle` between turns; `barrier` and
  `synthesize` in `WaitClearFor`; `running` in `runCommand`; `deliver` and `bypass` in
  `deliverTerminal`; `starting` in `wireOutbox`), `event` and `progress` are the sequences used.
* `status` and `stored` are the manager's rows.  `stale` holds requests the machine has given up
  on and the manager may still receive.
* `sent`, `lost` and `faults` are history: what was appended, what a named fault dropped, and how
  often each fault was taken.

A record's payload is reduced to what decides the manager's answer (`ok`, `fail`, `summary`,
`bad`).  The byte thresholds (flush, mid-turn truncation) are free choices: every append may
flush, every fold may evict.  Backoff, flush-now and the batch window decide only *when* a cycle
starts.  The outbox mutex makes each of its methods one step; the barrier's scan and the appends
that follow it are separate steps because the lock is released in between.

Faults: `write` (a WAL write fails after some frames; the reopen succeeds or not), `quarantine`
(the second write fails too and the directory is set aside), `evict` (a truncation fails), `torn`
(a frame no longer parses), `net` (a call fails on the machine: lost request, lost reply, or a
request that arrives later), `begin` (a lost BeginSession reply), `crash` (stop in order or a
crash, from any state).  `Budgets` is a set of alternatives, each a budget for every fault; one is
chosen initially.

### State and code: CommandRows

* `status[c]` is the row; FAILED is split by `failure_kind` into `failed` and `unreachable`.
* `mint[c]` is how far `HandleBeginSession` is: `requested` (online check passed), `created`
  (`CreateCommand`), `started` (`UpdateCommandStatus`), `tracked` (`tracker.set`), `replied`, or
  `dead` (failed, answered to nobody, or ended by a restart).
* `current` is `commandTracker.current` of the agent, `upload[h]` an `UploadCommandData` handler
  (`loaded` after the ownership query, `applied` after the commit, with the answer to "was it
  reported in Terminals or Regrades" in `cleans`), `cancelling` the `CancelCommand` calls between
  check and update, `sweep` the list the reaper works through, `forcing` a `ForceDisconnectMachine`
  between its offline mark and its cancel.
* `turn`, `unacked`, `awaiting`, `machine` are the machine.  A call can be abandoned (timeout,
  broken connection) while its handler goes on; a handler's transaction can fail at any time, and
  `CommitUnknown` is a commit that happened and was reported as an error: the handler cleans up
  nothing, and the retry finds the row closed and reports no terminal.  `unreported` is history: the
  commands closed that way.

PostgreSQL is trusted to run each statement or transaction atomically.

### State and code: CommandWatch

* The machine's log of the command is `1 .. Result`: `MaxSeq` records of the watched kind, then the
  result.  `rows` are the stored ones, `acked` the uploader's cursor, `upload[h]` a handler with the
  range it was sent, the status it loaded and, after the commit, the rows it has still to broadcast.
* `timers` counts the closes `scheduleWatcherClose` has scheduled; `bus` is the viewer's channel, and
  whether the bus still holds it.  `watch` is the handler of `WatchCommand` or `WatchCommandEvents`
  (`opened` after `GetCommandByName`, `replay` after the history query, `live` after the
  subscription) together with the client's loop; `page` is what the client shows and the number it
  will ask to continue from.
* `missed` is history: rows that the present stream will not bring, each for a reason in the code.
* `Shadowed` is `wireByKey` of `command_upload.go`: its key has no kind, so an output and an event
  with one number share a place; which numbers the other kind uses is free.
* `CommitUnknown` is a commit that happened and was reported as an error.

### State and code: MachineLink and ControlQueue

* Connection `k` is the `k`-th `ConnectMachine` with its session and the stream opened in it.
  `client` is `Client.Run`; `connect[k]`, `bye[k]`, `force` and `beat` are handlers between their
  statements; a call that the machine gives up on goes on in the manager.
* `cli[k]` and `srv[k]` are the two ends of a stream, `registry` is `machines[machine]`: an old
  handler's deferred `UnregisterMachineIf` compares the stream, `MachineDisconnect` and
  `ForceDisconnectMachine` do not.
* `api[c]` is the request that issues control `c`, `queue` the rows of `agent_pending_control` with
  their ids, `wire[k]` what was written to stream `k`, `drain[k]` the one
  `DispatchPendingAgentControl` of its handler: its list, the rows it has still to send and the rows
  it will delete at the end.
* `turn` is the command's turn on the machine: `starting` from `beginInFlight` to the executor
  (`drain_runner.go`, barrier, batch and runtime start), `running`, `over`.  `HandleAgentControl` ends
  a running turn only; `ignored` is history: a cancel found the turn without an executor.

### State and code: Inbox

* Message `v` has `room_version` `v`.  `cursor` is `agent_channel_cursor.processed_version` (none
  before a first join has seeded it; a removal keeps it), `sub` the agent's row in `thread_participant`,
  `posts` the handlers that have stored a message and not yet notified.  `PostSystem`, `PostQuietly` and
  `PostAssignment` are the messages that other parts of the manager store: SYSTEM rows, replies that
  nobody announces (a reminder's result, a leader's claim), and the team's instruction.
* `join` is `AddChannelMember` or a team assignment between its statements: member, version read, cursor
  upserted.  Both seed an agent that has a cursor already.
* `enabled` and `capable` are the gates of `HandleBeginSession` and `notifyAgent`; `loop` is `none` while
  no runner hosts the agent.
* `stream`, `wire`, `wakeCh` and `loop` are the way of a wake: registered stream, control stream,
  the one-place channel, the drain loop.  `BeginSession(other)` opens a session also for the agent's other
  conversations and its due reminders.
* `base` is the `current_version` the agent holds, `call` the tool call between its statements, the
  list and then the version of a read, the check and then the insert and then the cursor of a post.
  A page is any `Page` of the messages asked for, because the query orders by `created_at`.
* `shown` and `gap` are history: what the session's calls returned, and what they should have but did
  not, because it became due between two statements, between the reads of room and thread, or
  beyond the page.  `missed` is history too: since the last BeginSession a wake was dropped although the
  machine was connected, or a message became unread that nobody announces.

### State and code: RoomWatch

* `place[v]` is the rank of message `v` by `created_at` among those the watcher lists: the default
  `now()` is the start of a transaction that may have waited for the conversation's row, so the ranks need
  not follow the versions.  `Row` counts a room's delta in that order, and `OFFSET` cuts it.
* `poll` is the request in progress: `list` and `version` are the two statements of `readDelta`,
  `select` the wait of `longPollDelta` on the channel `ch` (one place, `manager/component/roomhub`), `reply`
  the answer; `got` and `offset` are the pages fetched before by `fetchConversationDelta`, `since` the version at
  the round's first list, `more` the `nextPageToken`.
* `cursor` is `chatCurrentVersion`, `seen` what the last round appended; `unsaid` are messages whose
  `NotifyConversation` is to come.
* `jump`, `load` and `hidden` are the rest of the client: the jump window with its own cursor, the
  `loadMessages` of `clearJump`, and the visibility gate of the loop.

### State and code: Reminders

* `row` is the reminder row, with time reduced to whether `fire_at` and `next_retry_at` have passed.
  `scan[l]` is one of the two loops with the copy of the row it listed and the step it is at.
* `enabled`, `capable`, `loop` and `wakeCh` are the owner and its runner, as in `Inbox`.  `link` has the
  registered stream of a machine that is gone (`dead`), or gone and back (`stale`): `IsAgentOnline` holds
  for both.
* `crossed` and `dropped` are history: a scan wrote to a later fire than it had listed; a due fire
  may have lost its timer (the first `SetRetry` failed, or a scan cleared the timer of a later fire) or
  its wake (no agent read, no stream, a configuration that wakes nobody).
* `MaxFires` stands for `NextFire` failing: a cron reminder that has no next fire ends.

### State and code: Supervisor

* `watch`, `upgrade` and `run` are three goroutines at the places where they release `s.mu`, touch a
  file or wait for a process; `held` is `workerCmd`, `taken` says which `stopWorker` has taken the handle
  of the worker that runs (`TakeWorker`, under the lock; `SignalWorker` comes after it), `exe` and `old`
  are the files `exePath` and `exePath.old`, `addr` is the address file, `next` the relaunched supervisor.
  `broken` is history: the rollback itself failed.

## 3. Runs

| Run | Instance | States | Shows |
|---|---|---|---|
| `pipeline_delivery` | 2 commands, 1 record of each kind, batches of 2; one each of net, crash, begin and evict, or write with torn, write with crash, torn with crash | 1.5 M | the two inductive invariants, no silent loss, cursor behind settled records, one turn at a time in the outbox, real results win, the terminal closes last, no terminal is left behind the cursor; refinement of `DurableReport` |
| `pipeline_live` | net and crash, accepted and refused results, under fairness | 0.45 M | the barrier releases every turn, every terminal that is not refused closes its command |
| `pipeline_summary` | violation | | finding 1 |
| `rows_races` | 2 commands, 2 concurrent uploads, 1 manager restart, any number of cancels, forced disconnects, sweeps, given-up calls, ambiguous commits | 3.8 M | an acknowledged result stays closed, the tracker follows the turns except after an ambiguous commit, only two statements change a closed row |
| `rows_lost` | violation | | finding 2 |
| `watch_races` | 2 records and the result, buffer of 1, 2 upload handlers, 1 reconnect, 1 fault, any number of broken streams | 0.44 M | no send on a closed channel, stored rows only, every row accounted for, the stream ends |
| `link_live` | 3 connections, 1 fault, under fairness | 61 k | the registry names a running handler, a kicked machine leaves, presence heals |
| `control_races` | 2 connections, a steer, a user's cancel and a forced disconnect, 1 fault | 3.7 M | accepted controls are kept, a cancelled turn stops unless the cancel came before its executor |
| `inbox_wake` | 2 messages, pages of 1, 1 disturbance, under fairness | 1.1 M | calls in step with the room, a wake is missed only where the code drops or never sends it, the cursor passes only shown messages, named gaps and what a seed passes, unread messages lead to a session |
| `room_watch` | 4 messages in any order of `created_at`, pages of 1, rounds of 2 pages, 1 disturbance, under fairness | 1.8 M | no lost signal, a round fetches what was there when it began, every message is delivered without the timer |
| `reminders_fire` | 2 fires, 2 retries, 1 fault, under fairness | 1.6 M | retry state belongs to the fire that is due, no early fire, no unearned miss, a due reminder reaches a turn |
| `supervisor_run` | 2 upgrades, 3 faults, under fairness | 19 k | no orphan but the one of an upgrade that has taken the handle, the binary is restored, the address is kept, the worker comes back |

**Bounds.**

* Pipeline and rows.  Two commands are what the hazards need: a previous turn whose records are
  unsettled, and the turn that waits behind it; a stale mark and the turn it would hide.  One
  progress chunk, one event and one result per turn make three kinds of record and batches (of 2)
  that end inside a turn, at its terminal, and across turns.  `MaxLog` leaves room for a duplicate
  left by a retried write and for the barrier's synthetic terminals.  Two upload handlers are an
  abandoned attempt and its retry; a third would load one of the states these two load.  `Cap` is
  above every reachable size (see the known deviations).
* `watch_races`.  A buffer of one is full as soon as the viewer is one record behind; two handlers
  are a given-up upload and its retry; one reconnect is enough to replay from a number that a live
  item has set.
* `link_live`, `control_races`.  A connection that is being replaced, its successor and a late
  handler of the first; the composition leaves the third connection out, so that two streams drain
  one queue.  The one fault is any that the comment of `MaxFaults` lists; a forced disconnect may also fail half way.
* `inbox_wake`, `room_watch`.  Two messages are one that a call lists and one in the gap between its
  statements, or a room's message and its thread's; a page of one cuts them.  The one disturbance is any
  that the comment of `MaxBreaks` lists.  `room_watch` has four messages: a round of two pages of one, a message
  that overflows it, and one that commits late with an early `created_at`.
* `reminders_fire`.  Two fires are a listed one and its successor, which a scan may take for it; two
  retries tell the first from the last.  Stops, starts and configurations of the agent are free.
* `supervisor_run`.  Three faults let a step of the upgrade fail, its rollback fail and the worker
  crash; the second upgrade starts from what a failed one left.

Every invariant and action property of the passing runs is proved without these bounds (section 6).

**Deadlock.**  `CHECK_DEADLOCK FALSE` is used where the instance rightly comes to rest: all commands
(`Pipeline*`), connections (`LinkLive`, `ControlRaces`), messages (`InboxWake`) or fires
(`RemindersFire`) are used up, the supervisor's process is gone (`SupervisorRun`), the stream has ended
(`WatchRaces`).  The `Rows*` runs and `room_watch` check deadlock; the reaper's ticker and the
watcher's loop never stop.

**Fairness**, in each case weak unless said otherwise:

* `CommandPipeline!Fairness`: the steps of the drain loop (barrier poll, synthesis, delivery, bypass,
  self-check), of the uploader and the manager's answer to a call that is not lost.  The loops are
  goroutines that poll on tickers and return only when the runner stops (`agent/client/runner.go`,
  `start`); the budget of lost calls is the assumption that the network recovers.  The turn itself is
  under no fairness: an LLM may run for ever.
* `CommandRows!Fairness`: the reaper's ticker.
* `CommandWatch!Fairness`: handlers run to their end, `time.AfterFunc` fires, the viewer reads.
* `LinkFairness`: handlers run to their end, the Run loop connects, a heartbeat is due every 30 s.
  Leaving on a stream error is strongly fair: the error stays ready for the select of
  `Client.Run` while heartbeats are taken in between, and Go's select chooses among ready cases at
  random.
* `InboxFairness`: handlers, the control stream, the drain loop and the reconnect loop.  A session
  may last for ever.
* `WatchFairness` (`RoomWatch`): notifies and the client's loop while the tab is visible; not the timer,
  which is the point of `Prompt`.  Nothing makes a hidden tab visible again: `Prompt` excepts one that
  stays hidden.
* `ReminderFairness`: retry timers run out, both ticks run, the machine reconnects, the drain loop runs.
  `fire_at` need never pass, and nothing makes a turn report: `Delivered` ends where the turn begins.
* `SupervisorFairness`: the three goroutines and the exit of a worker that was told to stop, which
  `stopWorker` enforces with a kill.

**Mutants.**  Every property of a passing run has a mutant in the module of the code it is about
(marked "Mutant:" in a comment): a plausible slip in that code under which the property fails.

## 4. Findings

1. `pipeline_summary`.  `updateCommandResultSummaryTx` numbers its parameters for two columns; with a
   final summary and no result document the statement fails, the batch is rolled back and retried for
   ever.
2. `rows_lost`.  `ListCommands` does not fill `MachineID`, so the reaper sees machine 0 for every
   command and reaps none.  With the column selected (`ListedMachine(c)` non-zero) the property
   holds in the same instance.

## 5. Known deviations

Places where the code does not do what a reader might expect.  The properties of the runs are stated
around them, and say so by name: a fault that must not have happened, a history variable (`lost`,
`dropped`, `missed`, `gap`, `crossed`, `unreported`, `ignored`) or an explicit disjunct.  They document these cases
rather than catch them, and show that there are no others.

Records and rows:

* When a log directory is quarantined, the cursor and the indexes of a call in flight belong to the
  old index space.  `ReadRecords` notices only while the cursor lies beyond the new log; afterwards
  records below it are skipped and evicted unsent.  Hence `faults["quarantine"] = 0` in
  `NoSilentLoss`, `CursorSettled` and the refinement.  `RealResultWins` has the condition too: with
  three commands and shards of two records, the cursor that survived (4) skips the result of the
  second turn, which is at index 2 of the new log; the next barrier, whose scan sees one shard,
  takes that turn for interrupted, and its synthetic FAILED is uploaded in place of the result.
* `fold` moves the cursor on although `EvictThrough` failed.  Nothing folds those records again, and
  `WaitClearFor`, which scans from the log's start, blocks every later turn: `pipeline_live` has no
  `evict` fault, and `TerminalsAhead` excludes it.
* A failed upload ends the cycle before `EnforceCap`: during an outage the cap is not enforced.
* `HandleBeginSession` inserts the row RUNNING and then sets it RUNNING once more without a predicate;
  a cancel in between is undone.  `CancelCommand` checks and then updates without a predicate; a
  result stored in between is replaced by CANCELED.  `AnchorsStand` shows that these are the only
  two ways in which a closed row changes.
* The result of a cancelled command is acknowledged in the branch that reports no terminal: the
  tracker keeps the command until the next BeginSession, and its watchers are not closed.  Two uploads
  that both loaded RUNNING both report the terminal; the cleanup, which is idempotent, runs twice.
* A commit that took effect and was reported as an error (`store/command_upload.go`, `tx.Commit`) closes
  the row without any cleanup, and the retry reports no terminal: the tracker keeps the command until the
  next BeginSession (`unreported`), and its watchers are told nothing.
* A turn ends with its terminal in the memory buffer only.

Viewers:

* `wireByKey` in `dispatcher/command_upload.go` has no kind in its key: an output that shares its number
  with a later event, or with the result, is broadcast without content and number; a shadowed event goes
  to nobody.  The client takes the blank number for the one to continue from.
* `src/frontend/src/stores/command.ts` relies on a resume without replay or gap; a row stored between
  the history query and the subscription is in neither.  Nor is a row twice impossible: it is listed by
  the history and broadcast afterwards when it was stored before and announced after it.
* A record that meets a full buffer is in the database, and nothing replays it to that stream.
* A viewer that subscribes after the delayed close, or watches a command that is cancelled, keeps
  its stream until the transport ends.  Hence `WatchEnds` speaks of a viewer that is live while a
  handler has still to schedule the close.

Machines and controls:

* A machine whose control stream is gone on the manager's side only (a ping timeout removes the registry
  entry and does not close the stream) goes on with its heartbeats: it is ONLINE and unreachable.
* A drain drops a row whose command or agent it could not read, although the control may still matter
  (`dropped`; `dispatcher/agent_control.go`).
* What is written to a stream whose peer is gone is taken for delivered.
* A cancel that arrives while the turn waits at the barrier, builds its batch or starts its runtime finds
  `getCurrentExecutor()` nil (`agent/client/machine_control.go`) and is swallowed without a log line: the turn of a
  CANCELED command runs on (`ignored`).  So is one for an agent the machine does not host.

Messages:

* A wake for which no stream is registered is dropped, also in the window between `ConnectMachine`,
  which wakes every runner, and the registration of the stream (`missed`).  The agent hears of the message
  with the next one, or at the next reconnect.  `StartAgent` in that window spawns no runner either.
* Some messages become unread and nobody is woken (`missed`): the result of a reminder
  (`completeReminderTx`), the instruction posted by a leader's claim, what a removed agent finds when it
  is added again, what lands between the two statements of a first seed.  `UpdateAgentACPConfig`, which can
  give an agent its runtime, wakes nobody.  A stopped agent, or one without a runtime, is told nothing until it
  is started or reconnects.
* Seeding moves a cursor that exists: an agent that is added again, or assigned with its team, passes
  messages it has not been shown.  `GapsOnly` excepts this one write.
* `PostMessage` checks the base version and inserts in separate transactions, and moves the cursor to the
  version of its own post: a message stored in between is passed unseen (`gap`).  A read takes its
  version in a later statement than its list.
* A room's delta is ordered by `created_at`, the start of the storing transaction, and cut with `OFFSET`,
  while `room_version` is taken later under the row's lock.  A message that commits during a round with an earlier
  `created_at` shifts the rows: one row is listed twice, and the late message itself is passed unseen.  At the page
  cap the cursor becomes `last.roomVersion`, which need not be the largest of the list nor cover a lower
  version further back.  `RoomKept` names both.
* While a jump window is open, or when `clearJump` has reset the cursor under a round, the watcher advances
  the cursor without appending; the reload is to show those messages, and when `loadMessages` fails after
  that the list stays empty and the cursor stays ahead.  `RoomKept` is about rounds that append.
* A hidden tab issues no polls, so nothing is delivered to it.
* A thread's page counts the root in front of the replies: a delta that fills the page loses its last
  reply, and the thread's watcher follows no next page.  `RoomKept` is about rooms.

Reminders and supervisor:

* `UpdateReminderFields` checks the status and later writes PENDING without a predicate: a report or
  a cancel in between is undone.  `MarkDue` looks at the status, not at `fire_at`: an edit between the
  list and the mark fires at once.  A scan may take a later fire for the one it listed (`crossed`).
* The first `SetRetry` of a fire that fails leaves a DUE row no scan lists (`dropped`).  So does a wake
  that is not sent after `ClearRetry` has removed the timer: `notifyAgent` returns silently when `GetAgent` fails,
  and a machine that is back but whose new stream is not registered yet does not receive it.  Configuring
  the runtime of an agent with a DUE reminder wakes nobody.
* The watcher may start the worker between the stop and the rename of an upgrade, because it looks at the
  pause after an exit and not before a start: the swap then runs beside a worker.  In the background that
  worker is stopped after the relaunch; in the foreground, where `exec` replaces the process, nobody stops it.
* `stopWorker` takes the handle under `s.mu` and signals after the unlock.  When the upgrade has taken it,
  the `stopWorker` of `Run` finds none, `Run` returns and the process ends with the worker up and
  unsignalled, contrary to the intent of `TestStopDoesNotOrphanWorker`.  `NoOrphan` has this as its only
  exception.

## 6. Proofs

All theorems hold for every value of the constants under the named assumptions of the modules:
`BoundsAssumption` (`CommandPipeline`), `RowsAssumption`, `LinkAssumption`, `InboxAssumption`,
`WatchAssumption` of `RoomWatch` and of `CommandWatch`, `HandlerAssumption`, `SupervisorAssumption`, `RemindersAssumption`.  They
say that bounds are natural numbers, page, batch and buffer sizes are positive, payloads come from the
declared sets, and that "none" is no handler.  `Handlers` and `Steers` are any sets.

* `CommandPipelineProofs`: `TypeCorrect`, `PipelineInvariant`, `RecordsSurvive` (`NoSilentLoss`),
  `CursorIsSafe` (`CursorSettled`).
  `NoSilentLoss` is not inductive: that a fold evicts settled records only needs that the reply answers
  for what the log holds *now* at the indexes read *before* the call.  `CallSnapshot` says so: the batch
  in flight agrees with the log at every index not evicted yet, nothing unsettled lies before it, and
  once answered all of it is settled.  It survives appends (they only add behind), eviction, torn
  frames and restarts (no call in flight), but not a quarantine.  `CursorSettled` is what makes the next
  read start behind settled records only, and `Provenance` (everything under way was appended for a
  minted command) is what makes answers for it meaningful.
  `PipelineReports`: `CommandPipeline` implements `DurableReport` as long as no directory is quarantined.
  Settled records stay settled because rows are never deleted and a closed status never opens
  (`StepGrows`); each step is then an accept, a settle, a release or a stutter.
  `TurnInvariant`, `TurnsIsolated`, `RealResultsWin`, `TerminalsAreLast`: the order of a command's
  records.  `TurnInv` is inductive given `TypeOK` and `PipelineInv`.  `TurnResults` is what each phase of
  the drain loop has appended so far (a turn at the barrier nothing, a running turn no result);
  `RealFirst` puts the turn's own result before every synthetic one in the log, in the buffer (unless
  it is in the log) and in every batch, also in those the machine has given up on; `ResultBehindData`
  does the same for a result and the data of its command, with batches that bring all data not settled
  yet.  `TornCounted` bounds the frames a barrier's one-shard scan may have taken up with unreadable
  records: with fewer of them than a shard has places the scan finds a record of the older turn if
  there is one, which is `TurnIsolation`.  A batch is a piece of the log, so what holds of the
  log at `StartUpload` holds of the batch for as long as it may arrive; what the cursor has skipped is
  settled (`CursorSettled`), which is where the two invariants meet.
  `TerminalsStayAhead` (`TerminalsAhead`) is the safety half of `BarrierReleases`: a fold that passes a terminal evicts
  everything it passes, so what the barrier finds in the log is either without a terminal, and gets one, or
  has it ahead of the cursor.  It needs that a batch begins at the cursor or where the log begins
  (`CallFromCursor`).
* `CommandRowsProofs`: `RowsInvariant`, `AckedStaysClosed`, `ClosedForgotten`, `TurnStaysTracked`,
  `ClosedRowsStand`.
  `RowsInv` bounds what may exist by how far the command is minted: no result, and no upload handler,
  before the reply (so the unguarded second update of BeginSession cannot reopen a row with a result);
  a handler that loaded a closed row, or has committed, leaves it closed; when a result has closed the
  command the tracker points at, a handler that will clear it is under way or the commit was reported as an
  error (`MarkPending`); and the mark of a started turn is its own or that of a given-up BeginSession
  (`TurnMarked`).
* `ControlQueueProofs`: `RegistrySound` (`RegisteredHandlerRuns`), `ControlInvariant`, `ControlsKept`,
  `CancelledTurnStops`.
  Each step of the link is first shown to keep what the controls rest on.  `ControlKept` needs
  `GoneAccounted`: a row that a drain will delete has been written to a stream, reached the machine or
  was dropped, also when a second drain has deleted it already.  `CancelStops` needs `ReachedStops`: a
  cancel that reached the machine ended the turn, or was `ignored`.
* `InboxProofs`: `InboxInvariant` (`InboxInv`), `WakeNotLost` (`NoLostWake`), `CursorPassesGaps` (`GapsOnly`).
  The two invariants are inductive together (`WakeInv`).  `NoLostWake` needs that a started agent of a
  connected machine has a runner, which a wake can reach (`Hosted`), and that a step that makes a message
  unread stores a handler that will announce it or is `Unannounced`.  `GapsOnly` follows from `Accounted`: what
  lies below a version the agent will ack was shown to it or fell into a gap, also when a subscription, a join
  or a seed changes what is unread in the middle of a call; `CallInSession` ties the version of a call to the log.
* `RoomWatchProofs`: `WatchInvariant`, `SignalNotLost`, `RoomShowsAll` (`RoomKept`).
  `SignalKept` says that a handler about to wait on an empty channel has missed only messages whose notify
  is to come.  `RowsAhead` says that a message stored before the round began is fetched or has its row at or
  beyond the offset: a message that commits in the middle of the order can only push the rows behind it further
  back.  The lemmas on `Row` (it grows with the order, and only grows when a message is stored) rest on the
  library's facts on finite sets; `WaitsFirst` keeps the waiting to the first page.
* `SupervisorProofs`: `SupervisorInvariant`, `NoWorkerOrphaned`, `BinaryRestored`, `WatcherStays`.  `NoOrphan` needs `WorkerSound` (the watcher waits for the
  worker that runs, its handle is held until one `stopWorker` takes it, and who has taken it signals and waits),
  `Restored` needs `FilesSound` (where both binaries are at each step of an upgrade).  `AddrKept`: only a shutdown
  of the replaced supervisor removes the address of the relaunched one.  `WatcherKept` is the safety half of
  `WorkerReturns`: the watcher leaves only with the supervisor, and only an upgrade under way pauses it.
* `CommandWatchProofs`: `StreamInvariant`, `RowsAccounted` (`Accounted`).  `HeldIsOpen` is why no
  broadcast meets a closed channel; `CommittedFirst` and `Durable` are why a failed handler takes nothing
  back that was announced; `Accounted` then holds step by step, with the missed rows named where
  they are missed.

* `RemindersProofs`: `ReminderInvariant`, `RemindersFireOnTime` (`FiresOnTime`), `MissesAreEarned`
  (`MissEarned`).  The scans work on copies, so the invariant says how old a copy may be: never of a
  later fire, and of an earlier one if the row has moved on (`ScansBehind`); of the same count as long as
  the fire is the same and no scan has crossed (`RetrySame`); still ripe if nobody edited it
  (`ListedRipe`, from which `FiresOnTime` follows).  `CountsRead` is the branch a scan has taken on its
  copy of the count, and `DueFresh` keeps the retry scan away from a fire the due scan has still to
  deliver; with `RetrySame` they give `MissEarned`.  `DueCarried` is the safety half of `Delivered`: the
  due fire of an agent that may run, without a timer, is with a scan, with the agent, or its machine is to
  reconnect; `Hosted` is why the wake of a machine that is back finds a runner.

Only model-checked:

* liveness (`BarrierReleases`, `TerminalReported`, `LostCommandClosed`, `KickedLeaves`, `PresenceHeals`,
  `Served`, `Prompt`, `Delivered`, `WorkerReturns`, `WatchEnds`), which the prover cannot treat.  For
  `BarrierReleases`, `Served`, `Prompt`, `Delivered` and `WorkerReturns` the invariant that keeps the awaited
  step possible is proved (`TerminalsAhead`, `NoLostWake`, `SignalKept`, `DueCarried`, `WatcherKept`).

## 7. Plan

1. `Provisioner`: phases, best-effort jobs, their replay at reconnect.
2. `DeviceLogin`: one-time codes and the rotation of machine tokens.
3. `TaskBoard` and pending replies: single guarded statements and one timeout per entry.

Extensions of existing modules: the reassignment of an agent to another machine, with two outboxes
reporting for one agent; several agents and conversations in `Inbox`; a second viewer in
`CommandWatch`.

## 8. Not modelled

* The LLM runtimes (external processes, a source of records and one result), prompt building, HTTP
  authentication and permission evaluation, mail, push, object storage, generated code, SQL access beyond
  the statements named above, rendering in the frontend, and the components of the plan.
  `PROJECT.json` gives the reason for each.
* In `CommandWatch`, the re-grade of a reaped command: nothing is reaped (finding 2).
* In `Supervisor`, the start after a kill between the two renames, and an upgrade accepted while the
  relaunched supervisor takes over; both are outside the one supervisor's life the module covers.
* In `MachineLink`, tokens, the agent roster and the IP checks of a connection.
* In `Inbox`, the subscriptions that other requests write (a claimed task, for one), a removal in the
  middle of a join, and the deletion of an agent.  `StopAgent` and `StartAgent` store and push in one step.
* In `RoomWatch`, the `loadMessages` of a page that is entered again, and what a reload appends: `seen` is about
  the watcher's rounds.  One reload is in flight at a time.
* In `CommandPipeline`, a quarantine is an outcome of a write that no passing run takes, because what it breaks is
  known (section 5); the theorems cover it through their condition.
