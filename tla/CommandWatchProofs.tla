------------------------- MODULE CommandWatchProofs -------------------------
(***************************************************************************)
(* For every number of records and handlers, every buffer size and number  *)
(* of faults: the bus never sends on a closed channel, a viewer sees       *)
(* stored rows only, and a stored row that is never shown was missed for   *)
(* one of the named reasons.                                               *)
(***************************************************************************)
EXTENDS CommandWatch, TLAPS

LEMMA InitStream == Init => StreamInv
<1> SUFFICES ASSUME Init PROVE StreamInv
  OBVIOUS
<1>1. TypeOK
  BY WatchAssumption DEF Init, TypeOK, Uploads, Free, NoChannel, Statuses, Phases, Record, Result, Item, Blank
<1>2. HeldIsOpen /\ CommittedFirst /\ Durable /\ Accounted
  BY DEF Init, HeldIsOpen, CommittedFirst, Durable, Accounted, NoChannel, Free, Streaming
<1> QED BY <1>1, <1>2 DEF StreamInv

\* A row is unsaid when some handler has still to broadcast it.
LEMMA UnsaidIs == \A r : r \in Unsaid <=> \E h \in Handlers : r \in upload[h].todo
  BY DEF Unsaid

LEMMA UnsaidIsNext == \A r : r \in Unsaid' <=> \E h \in Handlers : r \in upload'[h].todo
  BY DEF Unsaid

\* The bounds of the log.
LEMMA Bounds == Result \in Nat /\ Record \subseteq 1 .. Result /\ Record \subseteq Nat
  BY WatchAssumption DEF Result, Record

\* A handler is freed or begins: nobody's rows to broadcast change.
LEMMA HandlerIdle ==
    ASSUME StreamInv, NEW h \in Handlers, NEW u \in Uploads, u.todo = {}, u.st # "committed",
           upload[h].todo = {}, upload' = [upload EXCEPT ![h] = u],
           caller' \in Handlers \cup {NoCall}, timers' \in Nat, acked' \in 0 .. Result,
           faults' \in 0 .. MaxFaults,
           UNCHANGED <<kind, status, rows, bus, watch, page, missed>>
    PROVE  StreamInv'
<1>0. TypeOK /\ HeldIsOpen /\ CommittedFirst /\ Durable /\ Accounted
  BY DEF StreamInv
<1>1. upload \in [Handlers -> Uploads]
  BY <1>0 DEF TypeOK
<1>2. upload' \in [Handlers -> Uploads] /\ \A g \in Handlers : upload'[g].todo = upload[g].todo
  BY <1>1
<1>3. TypeOK'
  BY <1>0, <1>2 DEF TypeOK
<1>4. HeldIsOpen'
  BY <1>0 DEF HeldIsOpen
<1>5. CommittedFirst'
  BY <1>0, <1>1 DEF CommittedFirst
<1>6. Durable'
  BY <1>0, <1>2 DEF Durable
<1>7. Accounted'
  <2>1. \A r : r \in Unsaid => r \in Unsaid'
    BY <1>2, UnsaidIs, UnsaidIsNext
  <2>2. Queued' = Queued
    BY DEF Queued
  <2> QED BY <1>0, <2>1, <2>2 DEF Accounted, Streaming
<1> QED BY <1>3, <1>4, <1>5, <1>6, <1>7 DEF StreamInv

LEMMA StepStart ==
    ASSUME StreamInv, NEW h \in Handlers, StartUpload(h)
    PROVE  StreamInv'
<1>0. TypeOK /\ CommittedFirst
  BY DEF StreamInv
<1>1. PICK hi \in acked + 1 .. Result :
        upload' = [upload EXCEPT ![h] =
                     [Free EXCEPT !.st = "loaded", !.lo = acked + 1, !.hi = hi, !.loaded = status]]
  BY DEF StartUpload
<1>2. acked + 1 \in 1 .. Result /\ hi \in 0 .. Result
  BY <1>0, <1>1, Bounds DEF TypeOK
<1> DEFINE u == [Free EXCEPT !.st = "loaded", !.lo = acked + 1, !.hi = hi, !.loaded = status]
<1>3. u \in Uploads /\ u.todo = {} /\ u.st # "committed"
  BY <1>0, <1>2 DEF Uploads, Free, TypeOK
<1>4. upload[h].todo = {}
  BY <1>0 DEF CommittedFirst, StartUpload
<1>5. UNCHANGED <<kind, status, rows, acked, timers, bus, watch, page, missed, faults>> /\ caller' = h
  BY DEF StartUpload, viewer
<1> HIDE DEF u
<1> QED BY <1>0, <1>1, <1>3, <1>4, <1>5, HandlerIdle DEF u, TypeOK

\* Free is an idle handler.
LEMMA FreeIdle == Free \in Uploads /\ Free.todo = {} /\ Free.st # "committed"
  BY Bounds, WatchAssumption DEF Free, Uploads, Statuses, Result

LEMMA StepFail ==
    ASSUME StreamInv, NEW h \in Handlers, FailUpload(h) \/ EndUpload(h)
    PROVE  StreamInv'
<1>0. TypeOK /\ CommittedFirst
  BY DEF StreamInv
<1>1. upload[h] \in Uploads /\ caller \in Handlers \cup {NoCall} /\ acked \in 0 .. Result /\ timers \in Nat
  BY <1>0 DEF TypeOK
<1>2. upload[h].todo = {} /\ upload' = [upload EXCEPT ![h] = Free]
  BY <1>0 DEF FailUpload, EndUpload, CommittedFirst
<1>3. faults' \in 0 .. MaxFaults
  BY <1>0, WatchAssumption DEF FailUpload, EndUpload, Fault, TypeOK
<1>4. timers' \in Nat /\ acked' \in 0 .. Result /\ caller' \in Handlers \cup {NoCall}
  BY <1>1 DEF FailUpload, EndUpload, HungUp, Uploads
<1>5. UNCHANGED <<kind, status, rows, bus, watch, page, missed>>
  BY DEF FailUpload, EndUpload, viewer
<1> QED BY <1>2, <1>3, <1>4, <1>5, FreeIdle, HandlerIdle

\* What the transaction adds is stored.
LEMMA AppliedRows ==
    ASSUME TypeOK, NEW h \in Handlers, Applied(upload[h])
    PROVE  /\ rows' = rows \cup Inserted(upload[h])
           /\ Inserted(upload[h]) \subseteq Record /\ rows' \subseteq Record
           /\ status' \in Statuses
  BY DEF Applied, Inserted, Batch, TypeOK, Statuses

LEMMA StepCommit ==
    ASSUME StreamInv, NEW h \in Handlers, CommitUpload(h)
    PROVE  StreamInv'
<1>0. TypeOK /\ HeldIsOpen /\ CommittedFirst /\ Durable /\ Accounted
  BY DEF StreamInv
<1> DEFINE u == upload[h]
           v == [u EXCEPT !.st = "committed", !.loaded = "running", !.todo = Inserted(u), !.ends = Reports(u)]
<1>1. /\ rows' = rows \cup Inserted(u) /\ Inserted(u) \subseteq Record /\ rows' \subseteq Record
      /\ status' \in Statuses
  BY <1>0, AppliedRows DEF CommitUpload
<1>2. upload \in [Handlers -> Uploads] /\ u \in Uploads /\ u.todo = {}
  BY <1>0 DEF TypeOK, CommittedFirst, CommitUpload
<1>3. v \in Uploads /\ v.todo = Inserted(u) /\ v.st = "committed"
  BY <1>1, <1>2 DEF Uploads, Statuses, Reports
<1>4. upload' = [upload EXCEPT ![h] = v]
  BY DEF CommitUpload
<1>5. UNCHANGED <<kind, acked, caller, timers, bus, watch, page, missed, faults>>
  BY DEF CommitUpload, viewer
<1> HIDE DEF v
<1>6. TypeOK'
  BY <1>0, <1>1, <1>2, <1>3, <1>4, <1>5 DEF TypeOK
<1>7. HeldIsOpen' /\ CommittedFirst'
  BY <1>0, <1>2, <1>3, <1>4, <1>5 DEF HeldIsOpen, CommittedFirst
<1>8. Durable'
  BY <1>0, <1>1, <1>2, <1>3, <1>4, <1>5 DEF Durable
<1>9. Accounted'
  <2>1. \A r : r \in Unsaid \/ r \in Inserted(u) => r \in Unsaid'
    BY <1>2, <1>3, <1>4, UnsaidIs, UnsaidIsNext
  <2>2. Queued' = Queued
    BY <1>5 DEF Queued
  <2> QED BY <1>0, <1>1, <1>5, <2>1, <2>2 DEF Accounted, Streaming
<1> QED BY <1>6, <1>7, <1>8, <1>9 DEF StreamInv

LEMMA StepUnknown ==
    ASSUME StreamInv, NEW h \in Handlers, CommitUnknown(h)
    PROVE  StreamInv'
<1>0. TypeOK /\ HeldIsOpen /\ CommittedFirst /\ Durable /\ Accounted
  BY DEF StreamInv
<1> DEFINE u == upload[h]
<1>1. /\ rows' = rows \cup Inserted(u) /\ Inserted(u) \subseteq Record /\ rows' \subseteq Record
      /\ status' \in Statuses
  BY <1>0, AppliedRows DEF CommitUnknown
<1>2. upload \in [Handlers -> Uploads] /\ u.todo = {} /\ upload' = [upload EXCEPT ![h] = Free]
  BY <1>0 DEF TypeOK, CommittedFirst, CommitUnknown
<1>3. /\ caller' \in Handlers \cup {NoCall} /\ faults' \in 0 .. MaxFaults
      /\ missed' = IF Streaming THEN missed \cup Inserted(u) ELSE missed
  BY <1>0, WatchAssumption DEF CommitUnknown, HungUp, Fault, TypeOK
<1>4. UNCHANGED <<kind, acked, timers, bus, watch, page>>
  BY DEF CommitUnknown, viewer
<1>5. TypeOK'
  BY <1>0, <1>1, <1>2, <1>3, <1>4, FreeIdle DEF TypeOK
<1>6. HeldIsOpen' /\ CommittedFirst'
  BY <1>0, <1>2, <1>4, FreeIdle DEF HeldIsOpen, CommittedFirst
<1>7. Durable'
  BY <1>0, <1>1, <1>2, <1>3, <1>4, FreeIdle DEF Durable
<1>8. Accounted'
  <2>1. \A r : r \in Unsaid => r \in Unsaid'
    BY <1>2, UnsaidIs, UnsaidIsNext
  <2>2. Queued' = Queued
    BY <1>4 DEF Queued
  <2> QED BY <1>0, <1>1, <1>3, <1>4, <2>1, <2>2 DEF Accounted, Streaming
<1> QED BY <1>5, <1>6, <1>7, <1>8 DEF StreamInv

\* A broadcast item joins the channel.
LEMMA QueuedGrows ==
    ASSUME TypeOK, NEW i \in Item, bus' = [bus EXCEPT !.ch = Append(@, i)]
    PROVE  /\ bus'.ch \in Seq(Item)
           /\ \A r : r \in Queued' <=> r \in Queued \/ r = i
           /\ \A k \in DOMAIN bus'.ch : bus'.ch[k] = i \/ \E j \in DOMAIN bus.ch : bus'.ch[k] = bus.ch[j]
<1>1. bus.ch \in Seq(Item) /\ bus'.ch = Append(bus.ch, i)
  BY DEF TypeOK
<1>2. /\ Len(bus'.ch) = Len(bus.ch) + 1 /\ bus'.ch[Len(bus.ch) + 1] = i
      /\ \A k \in 1 .. Len(bus.ch) : bus'.ch[k] = bus.ch[k]
  BY <1>1
<1>3. DOMAIN bus.ch = 1 .. Len(bus.ch) /\ DOMAIN bus'.ch = 1 .. Len(bus.ch) + 1 /\ Len(bus.ch) \in Nat
  BY <1>1, <1>2
<1>4. \A k \in 1 .. Len(bus.ch) + 1 : k \in 1 .. Len(bus.ch) \/ k = Len(bus.ch) + 1
  BY <1>3
<1>5. \A r : r \in Queued' <=> r \in Queued \/ r = i
  BY <1>2, <1>3, <1>4 DEF Queued
<1> QED BY <1>1, <1>2, <1>3, <1>4, <1>5

LEMMA StepBroadcast ==
    ASSUME StreamInv, NEW h \in Handlers, Broadcast(h)
    PROVE  StreamInv'
<1>0. TypeOK /\ HeldIsOpen /\ CommittedFirst /\ Durable /\ Accounted
  BY DEF StreamInv
<1> DEFINE u == upload[h]
<1>a. PICK r \in Record : \E shadowed \in Shadowed(r, u) :
         /\ First(r, u.todo)
         /\ upload' = [upload EXCEPT ![h].todo = @ \ {r}]
         /\ bus' = IF Reached /\ ~(shadowed /\ kind = "event")
                   THEN [bus EXCEPT !.ch = Append(@, IF shadowed THEN Blank ELSE r)]
                   ELSE bus
         /\ missed' = IF Streaming /\ (shadowed \/ ~Reached) THEN missed \cup {r} ELSE missed
  BY DEF Broadcast
<1>1. PICK shadowed \in Shadowed(r, u) :
         /\ First(r, u.todo)
         /\ upload' = [upload EXCEPT ![h].todo = @ \ {r}]
         /\ bus' = IF Reached /\ ~(shadowed /\ kind = "event")
                   THEN [bus EXCEPT !.ch = Append(@, IF shadowed THEN Blank ELSE r)]
                   ELSE bus
         /\ missed' = IF Streaming /\ (shadowed \/ ~Reached) THEN missed \cup {r} ELSE missed
  BY <1>a
<1>2. shadowed \in BOOLEAN /\ r \in u.todo /\ r \in rows /\ u.st = "committed"
  BY <1>0, <1>1 DEF Shadowed, First, Broadcast, Durable
<1>3. UNCHANGED <<kind, status, rows, acked, caller, timers, watch, page, faults>>
  BY DEF Broadcast, viewer
<1>4. upload \in [Handlers -> Uploads] /\ upload' \in [Handlers -> Uploads]
  BY <1>0, <1>1, ZenonT(40) DEF TypeOK, Uploads
<1>5. /\ \A g \in Handlers : upload'[g].st = upload[g].st /\ upload'[g].todo \subseteq upload[g].todo
      /\ \A g \in Handlers : \A t \in upload[g].todo : t = r \/ t \in upload'[g].todo
  BY <1>1, <1>4 DEF Uploads
<1>6. \A t \in Unsaid : t = r \/ t \in Unsaid'
  BY <1>5, UnsaidIs, UnsaidIsNext
<1>7. HeldIsOpen'
  <2>1. bus'.held = bus.held /\ bus'.open = bus.open /\ (bus' = bus \/ bus.held)
    BY <1>0, <1>1 DEF TypeOK, Reached
  <2> QED BY <1>0, <1>3, <2>1 DEF HeldIsOpen
<1>8. CommittedFirst'
  BY <1>0, <1>5 DEF CommittedFirst
<1>9. missed' \subseteq Record /\ missed' \subseteq rows
  BY <1>0, <1>1, <1>2 DEF TypeOK, Durable
<1>10. CASE ~(Reached /\ ~(shadowed /\ kind = "event"))
  <2>0. bus' = bus
    BY <1>1, <1>10
  <2>1. TypeOK'
    BY <1>0, <1>3, <1>4, <1>9, <2>0 DEF TypeOK
  <2>2. Durable'
    BY <1>0, <1>3, <1>5, <1>9, <2>0 DEF Durable
  <2>3. Streaming => r \in missed'
    BY <1>1, <1>2, <1>10
  <2>4. Queued' = Queued /\ missed \subseteq missed'
    BY <1>1, <2>0 DEF Queued
  <2>5. Accounted'
    BY <1>0, <1>3, <1>6, <2>3, <2>4 DEF Accounted, Streaming
  <2> QED BY <1>7, <1>8, <2>1, <2>2, <2>5 DEF StreamInv
<1>11. CASE Reached /\ ~(shadowed /\ kind = "event")
  <2> DEFINE i == IF shadowed THEN Blank ELSE r
  <2>1. bus' = [bus EXCEPT !.ch = Append(@, i)] /\ Reached
    BY <1>1, <1>11
  <2>2. i \in Item /\ i \in rows \cup {Blank}
    BY <1>2 DEF Item
  <2> HIDE DEF i
  <2>3. /\ bus'.ch \in Seq(Item)
        /\ \A t : t \in Queued' <=> t \in Queued \/ t = i
        /\ \A k \in DOMAIN bus'.ch : bus'.ch[k] = i \/ \E j \in DOMAIN bus.ch : bus'.ch[k] = bus.ch[j]
    BY <1>0, <2>1, <2>2, QueuedGrows
  <2>4. TypeOK'
    <3>1. bus' \in [held : BOOLEAN, open : BOOLEAN, ch : Seq(Item)]
      BY <1>0, <2>1, <2>3 DEF TypeOK
    <3> QED BY <1>0, <1>3, <1>4, <1>9, <3>1 DEF TypeOK
  <2>5. Durable'
    BY <1>0, <1>3, <1>5, <1>9, <2>2, <2>3 DEF Durable
  <2>6. Streaming => r \in missed' \/ r \in Queued'
    BY <1>1, <1>2, <2>1, <2>3 DEF i
  <2>7. missed \subseteq missed'
    BY <1>1
  <2>8. Accounted'
    BY <1>0, <1>3, <1>6, <2>3, <2>6, <2>7 DEF Accounted, Streaming
  <2> QED BY <1>7, <1>8, <2>4, <2>5, <2>8 DEF StreamInv
<1> QED BY <1>10, <1>11

LEMMA StepManager ==
    ASSUME StreamInv, AbandonUpload \/ CloseWatchers \/ CancelCommand
    PROVE  StreamInv'
<1>0. TypeOK /\ HeldIsOpen /\ CommittedFirst /\ Durable /\ Accounted
  BY DEF StreamInv
<1>1. UNCHANGED <<kind, rows, acked, upload, watch, page, missed>>
  BY DEF AbandonUpload, CloseWatchers, CancelCommand, viewer
<1>2. bus' = bus \/ (bus.held /\ bus' = [bus EXCEPT !.open = FALSE, !.held = FALSE])
  BY DEF AbandonUpload, CloseWatchers, CancelCommand
<1>3. bus'.ch = bus.ch /\ bus' \in [held : BOOLEAN, open : BOOLEAN, ch : Seq(Item)]
  BY <1>0, <1>2 DEF TypeOK
<1>4. /\ caller' \in Handlers \cup {NoCall} /\ timers' \in Nat /\ faults' \in 0 .. MaxFaults
      /\ status' \in Statuses
  BY <1>0, WatchAssumption DEF TypeOK, AbandonUpload, CloseWatchers, CancelCommand, Fault, Statuses
<1>5. TypeOK'
  BY <1>0, <1>1, <1>3, <1>4 DEF TypeOK
<1>6. HeldIsOpen'
  BY <1>0, <1>1, <1>2 DEF HeldIsOpen, TypeOK
<1>7. CommittedFirst' /\ Durable'
  BY <1>0, <1>1, <1>3 DEF CommittedFirst, Durable
<1>8. Accounted'
  BY <1>0, <1>1, <1>3 DEF Accounted, Streaming, Queued, Unsaid
<1> QED BY <1>5, <1>6, <1>7, <1>8 DEF StreamInv

-----------------------------------------------------------------------------
\* The steps of the watch.
LEMMA StepOpen ==
    ASSUME StreamInv, OpenWatch \/ EndReplay \/ EndLive
    PROVE  StreamInv'
<1>0. TypeOK /\ HeldIsOpen /\ CommittedFirst /\ Durable /\ Accounted
  BY DEF StreamInv
<1>1. UNCHANGED <<kind, status, rows, acked, caller, upload, timers, bus, page, missed, faults>>
  BY DEF OpenWatch, EndReplay, EndLive, manager
<1>2. watch' \in [phase : Phases, attempts : 0 .. MaxAttempts, saved : Statuses, hist : SUBSET Record]
  BY <1>0 DEF TypeOK, OpenWatch, EndReplay, EndLive, Phases
<1>3. watch'.hist = watch.hist
  BY <1>0 DEF TypeOK, OpenWatch, EndReplay, EndLive
<1>4. TypeOK'
  BY <1>0, <1>1, <1>2 DEF TypeOK
<1>5. HeldIsOpen'
  BY <1>0, <1>1, <1>3 DEF HeldIsOpen, TypeOK, OpenWatch, EndReplay, EndLive
<1>6. CommittedFirst' /\ Durable'
  BY <1>0, <1>1, <1>3 DEF CommittedFirst, Durable
<1>7. Streaming' => Streaming
  BY <1>0 DEF TypeOK, OpenWatch, EndReplay, EndLive, Streaming
<1>8. Accounted'
  BY <1>0, <1>1, <1>3, <1>7 DEF Accounted, Queued, Unsaid
<1> QED BY <1>4, <1>5, <1>6, <1>8 DEF StreamInv

LEMMA StepHistory ==
    ASSUME StreamInv, ReadHistory
    PROVE  StreamInv'
<1>0. TypeOK /\ HeldIsOpen /\ CommittedFirst /\ Durable
  BY DEF StreamInv
<1>1. UNCHANGED <<kind, status, rows, acked, caller, upload, timers, bus, page, faults>>
  BY DEF ReadHistory, manager
<1>2. /\ watch' = [watch EXCEPT !.phase = "replay", !.hist = History(page.last)]
      /\ missed' = {r \in rows : r <= page.last} \ page.seen
      /\ watch.phase = "opened"
  BY DEF ReadHistory
<1>3. History(page.last) \subseteq rows /\ rows \subseteq Record
  BY <1>0 DEF History, TypeOK
<1>4. watch' \in [phase : Phases, attempts : 0 .. MaxAttempts, saved : Statuses, hist : SUBSET Record]
  BY <1>0, <1>2, <1>3 DEF TypeOK, Phases
<1>5. TypeOK'
  BY <1>0, <1>1, <1>2, <1>3, <1>4 DEF TypeOK
<1>6. watch'.phase = "replay" /\ watch'.hist = History(page.last)
  BY <1>0, <1>2 DEF TypeOK
<1>7. HeldIsOpen' /\ CommittedFirst' /\ Durable'
  BY <1>0, <1>1, <1>2, <1>3, <1>6 DEF HeldIsOpen, CommittedFirst, Durable
<1>8. \A r \in rows : r > page.last \/ r <= page.last
  <2>a. page.last \in Item
    BY <1>0 DEF TypeOK
  <2>b. Item \subseteq Nat
    BY Bounds DEF Item, Blank
  <2>1. page.last \in Nat /\ rows \subseteq Nat
    BY <1>3, <2>a, <2>b, Bounds
  <2> QED BY <2>1
<1>9. Accounted'
  BY <1>1, <1>2, <1>6, <1>8 DEF Accounted, History
<1> QED BY <1>5, <1>7, <1>9 DEF StreamInv

\* Showing a row keeps what was shown.
LEMMA ShownRow ==
    ASSUME TypeOK, NEW i \in Item
    PROVE  /\ Shown(i) \in [seen : SUBSET Record, last : Item]
           /\ page.seen \subseteq Shown(i).seen
           /\ i # Blank => i \in Shown(i).seen
           /\ Shown(i).seen \subseteq page.seen \cup ({i} \ {Blank})
  BY Bounds DEF TypeOK, Shown, Item

LEMMA StepReplay ==
    ASSUME StreamInv, SendHistory
    PROVE  StreamInv'
<1>0. TypeOK /\ HeldIsOpen /\ CommittedFirst /\ Durable /\ Accounted
  BY DEF StreamInv
<1>1. PICK r \in Record : First(r, watch.hist) /\ page' = Shown(r) /\ watch' = [watch EXCEPT !.hist = @ \ {r}]
  BY DEF SendHistory
<1>2. UNCHANGED <<kind, status, rows, acked, caller, upload, timers, bus, missed, faults>>
  BY DEF SendHistory, manager
<1>3. r \in watch.hist /\ r \in rows /\ r \in Item /\ r # Blank /\ watch.phase = "replay"
  BY <1>0, <1>1, Bounds DEF First, Durable, Item, Blank, Record, SendHistory
<1>4. /\ watch' \in [phase : Phases, attempts : 0 .. MaxAttempts, saved : Statuses, hist : SUBSET Record]
      /\ watch'.phase = watch.phase /\ watch'.hist = watch.hist \ {r}
  BY <1>0, <1>1 DEF TypeOK
<1>5. /\ page' \in [seen : SUBSET Record, last : Item] /\ page.seen \subseteq page'.seen
      /\ r \in page'.seen /\ page'.seen \subseteq page.seen \cup {r}
  BY <1>0, <1>1, <1>3, ShownRow
<1>6. TypeOK'
  BY <1>0, <1>2, <1>4, <1>5 DEF TypeOK
<1>7. HeldIsOpen' /\ CommittedFirst' /\ Durable'
  BY <1>0, <1>2, <1>3, <1>4, <1>5 DEF HeldIsOpen, CommittedFirst, Durable
<1>8. Queued' = Queued /\ Unsaid' = Unsaid
  BY <1>2 DEF Queued, Unsaid
<1>9. Accounted'
  BY <1>0, <1>2, <1>4, <1>5, <1>8 DEF Accounted, Streaming
<1> QED BY <1>6, <1>7, <1>9 DEF StreamInv

LEMMA StepSubscribe ==
    ASSUME StreamInv, Subscribe
    PROVE  StreamInv'
<1>0. TypeOK /\ HeldIsOpen /\ CommittedFirst /\ Durable /\ Accounted
  BY DEF StreamInv
<1>1. UNCHANGED <<kind, status, rows, acked, caller, upload, timers, page, missed, faults>>
  BY DEF Subscribe, manager
<1>2. /\ watch.phase = "replay" /\ watch.hist = {} /\ watch' = [watch EXCEPT !.phase = "live"]
      /\ bus' = [held |-> TRUE, open |-> TRUE, ch |-> << >>]
  BY DEF Subscribe
<1>3. /\ watch' \in [phase : Phases, attempts : 0 .. MaxAttempts, saved : Statuses, hist : SUBSET Record]
      /\ watch'.phase = "live" /\ watch'.hist = {}
  BY <1>0, <1>2 DEF TypeOK, Phases
<1>4. TypeOK'
  BY <1>0, <1>1, <1>2, <1>3 DEF TypeOK
<1>5. HeldIsOpen' /\ CommittedFirst' /\ Durable'
  BY <1>0, <1>1, <1>2, <1>3 DEF HeldIsOpen, CommittedFirst, Durable
<1>6. Queued = {}
  <2>1. bus.ch = << >>
    BY <1>0, <1>2 DEF HeldIsOpen
  <2> QED BY <2>1 DEF Queued
<1>7. Accounted'
  BY <1>0, <1>1, <1>2, <1>3, <1>6 DEF Accounted, Streaming, Unsaid
<1> QED BY <1>4, <1>5, <1>7 DEF StreamInv

\* The head of the channel leaves it.
LEMMA QueuedShrinks ==
    ASSUME TypeOK, bus.ch # << >>, bus' = [bus EXCEPT !.ch = Tail(@)]
    PROVE  /\ Head(bus.ch) \in Item /\ Head(bus.ch) \in Queued /\ bus'.ch \in Seq(Item)
           /\ \A r : r \in Queued => r \in Queued' \/ r = Head(bus.ch)
           /\ Queued' \subseteq Queued
<1>1. bus.ch \in Seq(Item) /\ bus'.ch = Tail(bus.ch)
  BY DEF TypeOK
<1>2. /\ Len(bus.ch) \in Nat \ {0} /\ DOMAIN bus.ch = 1 .. Len(bus.ch)
      /\ Head(bus.ch) = bus.ch[1] /\ bus.ch[1] \in Item
  BY <1>1
<1>3. /\ bus'.ch \in Seq(Item) /\ Len(bus'.ch) = Len(bus.ch) - 1
      /\ DOMAIN bus'.ch = 1 .. Len(bus.ch) - 1
      /\ \A k \in 1 .. Len(bus.ch) - 1 : bus'.ch[k] = bus.ch[k + 1]
  BY <1>1, <1>2
<1>4. \A k \in 1 .. Len(bus.ch) : k = 1 \/ (k - 1 \in 1 .. Len(bus.ch) - 1 /\ bus'.ch[k - 1] = bus.ch[k])
  BY <1>2, <1>3
<1>5. \A r : r \in Queued => r \in Queued' \/ r = Head(bus.ch)
  BY <1>2, <1>3, <1>4 DEF Queued
<1>6. \A k \in 1 .. Len(bus.ch) - 1 : k + 1 \in 1 .. Len(bus.ch)
  BY <1>2
<1>7. Queued' \subseteq Queued
  BY <1>2, <1>3, <1>6 DEF Queued
<1>8. Head(bus.ch) \in Queued
  BY <1>2 DEF Queued
<1> QED BY <1>2, <1>3, <1>5, <1>7, <1>8

LEMMA StepLive ==
    ASSUME StreamInv, SendLive
    PROVE  StreamInv'
<1>0. TypeOK /\ HeldIsOpen /\ CommittedFirst /\ Durable /\ Accounted
  BY DEF StreamInv
<1>1. /\ watch.phase = "live" /\ bus.ch # << >> /\ page' = Shown(Head(bus.ch))
      /\ bus' = [bus EXCEPT !.ch = Tail(@)]
      /\ UNCHANGED <<kind, status, rows, acked, caller, upload, timers, watch, missed, faults>>
  BY DEF SendLive, manager
<1> DEFINE i == Head(bus.ch)
<1>2. /\ i \in Item /\ i \in Queued /\ bus'.ch \in Seq(Item)
      /\ \A r : r \in Queued => r \in Queued' \/ r = i
      /\ Queued' \subseteq Queued
  BY <1>0, <1>1, QueuedShrinks
<1>3. Queued \subseteq rows \cup {Blank}
  BY <1>0 DEF Durable, Queued
<1> HIDE DEF i
<1>4. /\ page' \in [seen : SUBSET Record, last : Item] /\ page.seen \subseteq page'.seen
      /\ i # Blank => i \in page'.seen
      /\ page'.seen \subseteq page.seen \cup ({i} \ {Blank})
  BY <1>0, <1>1, <1>2, ShownRow DEF i
<1>5. bus' \in [held : BOOLEAN, open : BOOLEAN, ch : Seq(Item)] /\ bus'.held = bus.held /\ bus'.open = bus.open
  BY <1>0, <1>1, <1>2 DEF TypeOK
<1>6. TypeOK'
  BY <1>0, <1>1, <1>4, <1>5 DEF TypeOK
<1>7. HeldIsOpen' /\ CommittedFirst'
  BY <1>0, <1>1, <1>5 DEF HeldIsOpen, CommittedFirst
<1>8. Durable'
  <2>1. \A k \in DOMAIN bus'.ch : bus'.ch[k] \in rows \cup {Blank}
    BY <1>2, <1>3 DEF Queued
  <2>2. page'.seen \subseteq rows
    BY <1>0, <1>2, <1>3, <1>4 DEF Durable
  <2> QED BY <1>0, <1>1, <2>1, <2>2 DEF Durable
<1>9. Unsaid' = Unsaid /\ Blank \notin rows
  BY <1>0, <1>1, Bounds DEF Unsaid, TypeOK, Blank, Record
<1>10. Accounted'
  BY <1>0, <1>1, <1>2, <1>4, <1>9 DEF Accounted, Streaming
<1> QED BY <1>6, <1>7, <1>8, <1>10 DEF StreamInv

\* The stream is gone; an ended one stays as it is.
LEMMA StepBreak ==
    ASSUME StreamInv, BreakStream \/ RestartManager
    PROVE  StreamInv'
<1>0. TypeOK /\ HeldIsOpen /\ CommittedFirst /\ Durable /\ Accounted
  BY DEF StreamInv
<1>1. Disconnected /\ UNCHANGED <<kind, status, rows, acked, page>>
  BY DEF BreakStream, RestartManager, manager
<1>2. bus' = NoChannel /\ NoChannel \in [held : BOOLEAN, open : BOOLEAN, ch : Seq(Item)]
  BY <1>1 DEF Disconnected, NoChannel
<1>3. /\ watch' \in [phase : Phases, attempts : 0 .. MaxAttempts, saved : Statuses, hist : SUBSET Record]
      /\ watch'.hist = {} /\ watch'.phase \notin {"replay", "live"}
      /\ watch'.phase = "ended" => watch' = watch
  <2>1. CASE watch.phase \in {"opened", "replay", "live"} /\ watch.attempts < MaxAttempts
    <3>1. watch' = [watch EXCEPT !.hist = {}, !.phase = "idle", !.attempts = @ + 1]
      BY <1>1, <2>1 DEF Disconnected
    <3>2. watch.attempts + 1 \in 0 .. MaxAttempts
      BY <1>0, <2>1, WatchAssumption DEF TypeOK
    <3> QED BY <1>0, <3>1, <3>2 DEF TypeOK, Phases
  <2>2. CASE watch.phase \in {"opened", "replay", "live"} /\ ~(watch.attempts < MaxAttempts)
    <3>1. watch' = [watch EXCEPT !.hist = {}, !.phase = "failed", !.attempts = @]
      BY <1>1, <2>2 DEF Disconnected
    <3> QED BY <1>0, <3>1 DEF TypeOK, Phases
  <2>3. CASE watch.phase \notin {"opened", "replay", "live"}
    BY <1>0, <1>1, <2>3 DEF Disconnected, TypeOK, HeldIsOpen
  <2> QED BY <2>1, <2>2, <2>3
<1>4. /\ upload' \in [Handlers -> Uploads] /\ caller' \in Handlers \cup {NoCall} /\ timers' \in Nat
      /\ faults' \in 0 .. MaxFaults
      /\ \A h \in Handlers : upload'[h] = upload[h] \/ upload'[h] = Free
  BY <1>0, FreeIdle, WatchAssumption DEF BreakStream, RestartManager, manager, TypeOK, Fault
<1>5. missed' \subseteq rows
  <2>1. Unsaid \subseteq rows
    BY <1>0, UnsaidIs DEF Durable
  <2> QED BY <1>0, <2>1 DEF BreakStream, RestartManager, Durable
<1>6. TypeOK'
  BY <1>0, <1>1, <1>2, <1>3, <1>4, <1>5 DEF TypeOK
<1>7. HeldIsOpen'
  BY <1>2, <1>3 DEF HeldIsOpen, NoChannel
<1>8. CommittedFirst'
  BY <1>0, <1>4, FreeIdle DEF CommittedFirst
<1>9. Durable'
  BY <1>0, <1>1, <1>2, <1>3, <1>4, <1>5, FreeIdle DEF Durable, NoChannel
<1>10. Accounted'
  <2> SUFFICES ASSUME watch'.phase = "ended" PROVE rows' \subseteq page'.seen \cup missed'
    BY <1>3 DEF Accounted, Streaming
  <2>1. watch.phase = "ended" /\ watch.hist = {} /\ bus.ch = << >>
    BY <1>0, <1>3 DEF HeldIsOpen
  <2>2. rows \subseteq page.seen \cup Unsaid \cup missed
    BY <1>0, <2>1 DEF Accounted, Streaming, Queued
  <2>3. missed' = missed \cup Unsaid
    BY <2>1 DEF BreakStream, RestartManager
  <2> QED BY <1>1, <2>2, <2>3
<1> QED BY <1>6, <1>7, <1>8, <1>9, <1>10 DEF StreamInv

\* StreamInv is inductive.
LEMMA NextStream == StreamInv /\ [Next]_vars => StreamInv'
<1> SUFFICES ASSUME StreamInv, [Next]_vars PROVE StreamInv'
  OBVIOUS
<1>1. CASE \E h \in Handlers : StartUpload(h) \/ Handler(h)
  BY <1>1, StepStart, StepCommit, StepUnknown, StepFail, StepBroadcast DEF Handler
<1>2. CASE AbandonUpload \/ CloseWatchers \/ CancelCommand
  BY <1>2, StepManager
<1>3. CASE Viewer
  BY <1>3, StepOpen, StepHistory, StepReplay, StepSubscribe, StepLive DEF Viewer
<1>4. CASE BreakStream \/ RestartManager
  BY <1>4, StepBreak
<1>5. CASE UNCHANGED vars
  <2>1. UNCHANGED <<kind, status, rows, acked, caller, upload, timers, bus, watch, page, missed, faults>>
    BY <1>5 DEF vars, manager, viewer
  <2> QED BY <2>1 DEF StreamInv, TypeOK, HeldIsOpen, CommittedFirst, Durable, Accounted, Streaming, Queued, Unsaid
<1> QED BY <1>1, <1>2, <1>3, <1>4, <1>5 DEF Next

-----------------------------------------------------------------------------
\* commandBus, ApplyCommandUpload and WatchCommand: the channel the bus holds
\* is open, and what reaches a viewer is stored.
THEOREM StreamInvariant == Safe => []StreamInv
<1> QED BY InitStream, NextStream, PTL DEF Safe

\* The replay and the live stream of WatchCommand leave out no row but for the
\* reasons Accounted names.
THEOREM RowsAccounted == Safe => []Accounted
<1>1. StreamInv => Accounted
  BY DEF StreamInv
<1> QED BY <1>1, StreamInvariant, PTL
=============================================================================
