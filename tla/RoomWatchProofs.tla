--------------------------- MODULE RoomWatchProofs ---------------------------
(***************************************************************************)
(* Proofs about RoomWatch, for every number of messages and disturbances,  *)
(* every page size and page cap: WatchInv is inductive, so a handler never *)
(* goes to sleep over a message whose notify has already run, and a        *)
(* message that was stored when a round began is fetched by it or is still *)
(* ahead of its offset, in whatever order the messages were created.       *)
(***************************************************************************)
EXTENDS RoomWatch, FiniteSetTheorems, WellFoundedInduction, TLAPS

\* A nonempty set of naturals has a least element.
LEMMA LeastOf ==
    ASSUME NEW S \in SUBSET Nat, S # {}
    PROVE  \E x \in S : \A y \in S : x <= y
<1>1. PICK x \in S : \A y \in S : ~ (<<y, x>> \in OpToRel(<, Nat))
  BY NatLessThanWellFounded, WFMin
<1>2. \A y \in S : ~ (y < x)
  BY <1>1 DEF OpToRel
<1> QED BY <1>2

\* The messages beyond the afterVersion are stored ones, and finitely many.
LEMMA BeyondStored ==
    ASSUME WatchTypeOK
    PROVE  /\ DOMAIN log = 1 .. Len(log) /\ Len(log) \in Nat
           /\ DOMAIN log \in SUBSET Version /\ IsFiniteSet(DOMAIN log)
           /\ Cardinality(DOMAIN log) = Len(log)
           /\ Beyond \in SUBSET DOMAIN log /\ Mine \in SUBSET DOMAIN log
           /\ \A S \in SUBSET DOMAIN log : IsFiniteSet(S) /\ Cardinality(S) \in Nat
           /\ \A S, T \in SUBSET DOMAIN log : S \subseteq T => Cardinality(S) <= Cardinality(T)
<1>1. DOMAIN log = 1 .. Len(log) /\ Len(log) \in Nat /\ Len(log) <= MaxMessages
  BY DEF WatchTypeOK
<1>2. DOMAIN log \in SUBSET Version
  BY <1>1, WatchAssumption DEF Version
<1>3. IsFiniteSet(DOMAIN log) /\ Cardinality(DOMAIN log) = Len(log)
  <2>1. IsFiniteSet(1 .. Len(log))
    BY <1>1, FS_Interval
  <2>2. Cardinality(1 .. Len(log)) = IF 1 > Len(log) THEN 0 ELSE Len(log) - 1 + 1
    BY <1>1, FS_Interval
  <2> QED BY <1>1, <2>1, <2>2
<1>4. \A S \in SUBSET DOMAIN log : IsFiniteSet(S) /\ Cardinality(S) \in Nat
  BY <1>3, FS_Subset, FS_CardinalityType
<1>5. \A S, T \in SUBSET DOMAIN log : S \subseteq T => Cardinality(S) <= Cardinality(T)
  BY <1>4, FS_Subset
<1> QED BY <1>1, <1>2, <1>3, <1>4, <1>5 DEF Beyond, Mine

\* The row of a message is a number below the number of rows.
LEMMA RowBelow ==
    ASSUME WatchTypeOK, NEW v \in Beyond
    PROVE  /\ Row(v) \in Nat /\ Cardinality(Beyond) \in Nat
           /\ Row(v) < Cardinality(Beyond)
<1> DEFINE P == {u \in Beyond : Before(u, v)}
<1>1. ~ Before(v, v)
  <2>1. v \in DOMAIN log /\ v \in Nat /\ place[v] \in Nat
    BY BeyondStored DEF WatchTypeOK
  <2> QED BY <2>1 DEF Before
<1>2. P \subseteq Beyond \ {v} /\ Beyond \ {v} \in SUBSET DOMAIN log /\ P \in SUBSET DOMAIN log
  BY <1>1, BeyondStored
<1>3. Cardinality(P) \in Nat /\ Cardinality(P) <= Cardinality(Beyond \ {v})
  BY <1>2, BeyondStored
<1>4. Cardinality(Beyond \ {v}) = Cardinality(Beyond) - 1 /\ Cardinality(Beyond) \in Nat
  BY BeyondStored, FS_RemoveElement
<1>5. Cardinality(P) < Cardinality(Beyond)
  BY <1>3, <1>4, BeyondStored
<1> QED BY <1>3, <1>4, <1>5 DEF Row

\* Rows are in the order of the list.
LEMMA RowOrder ==
    ASSUME WatchTypeOK, NEW u \in Beyond, NEW v \in Beyond, Row(u) < Row(v)
    PROVE  Before(u, v)
<1> SUFFICES ASSUME ~ Before(u, v) PROVE FALSE
  OBVIOUS
<1>1. \A w \in Beyond : w \in Nat /\ place[w] \in Nat
  BY BeyondStored DEF WatchTypeOK
<1>2. \A w \in Beyond : Before(w, v) => Before(w, u)
  BY <1>1 DEF Before
<1>3. {w \in Beyond : Before(w, v)} \subseteq {w \in Beyond : Before(w, u)}
  BY <1>2
<1>4. Row(v) <= Row(u)
  BY <1>3, BeyondStored DEF Row
<1> QED BY <1>4, RowBelow

\* A delta with messages beyond its afterVersion has rows from offset 0 on.
LEMMA FirstRow ==
    ASSUME WatchTypeOK, Beyond # {}, ~ Full, poll.offset = 0
    PROVE  Rows(PageSize + 1) # {}
<1>1. PageSize \in Nat \ {0}
  BY WatchAssumption
<1>2. CASE mine = "root"
  <2>1. PICK v \in Beyond : TRUE
    OBVIOUS
  <2>2. Row(v) \in Nat /\ Cardinality(Beyond) \in Nat /\ Row(v) < Cardinality(Beyond)
    BY <2>1, RowBelow
  <2>3. ~ (Cardinality(Beyond) > 0 + PageSize)
    BY <1>2 DEF Full
  <2>4. Row(v) < PageSize + 1
    BY <1>1, <2>2, <2>3
  <2> QED BY <1>1, <2>2, <2>4 DEF Rows
<1>3. CASE mine # "root"
  <2>1. Beyond \in SUBSET Nat
    BY BeyondStored
  <2>2. PICK v \in Beyond : \A u \in Beyond : v <= u
    BY <2>1, LeastOf
  <2>3. {u \in Beyond : Before(u, v)} = {}
    <3> SUFFICES ASSUME NEW u \in Beyond, Before(u, v) PROVE FALSE
      OBVIOUS
    <3> QED BY <1>3, <2>1, <2>2 DEF Before
  <2>4. Row(v) = 0
    BY <2>3, FS_EmptySet DEF Row
  <2> QED BY <1>1, <2>4 DEF Rows
<1> QED BY <1>2, <1>3

\* The last message of a room's page is one of it.
LEMMA LastIsVersion ==
    ASSUME WatchTypeOK, mine = "root"
    PROVE  Last \in Nat
<1>1. CASE poll.answer = {}
  BY <1>1 DEF Last, WatchTypeOK, Poll
<1>2. CASE poll.answer # {}
  <2>1. \A v \in poll.answer : v \in DOMAIN log /\ place[v] \in Nat /\ place[v] <= Len(log)
    BY BeyondStored DEF WatchTypeOK
  <2>2. Len(log) \in Nat
    BY BeyondStored
  <2> DEFINE D == {Len(log) - place[v] : v \in poll.answer}
  <2>3. D \in SUBSET Nat /\ D # {}
    BY <1>2, <2>1, <2>2
  <2>4. PICK d \in D : \A e \in D : d <= e
    BY <2>3, LeastOf
  <2>5. PICK v \in poll.answer : d = Len(log) - place[v]
    OBVIOUS
  <2>6. \A u \in poll.answer : Len(log) - place[v] <= Len(log) - place[u]
    BY <2>4, <2>5
  <2>7. \A u \in poll.answer : ~ Before(v, u)
    BY <2>1, <2>2, <2>6 DEF Before
  <2>8. Last \in poll.answer
    BY <1>2, <2>7 DEF Last
  <2> QED BY <2>1, <2>8, BeyondStored
<1> QED BY <1>1, <1>2

\* A state with the same messages and the same request fields has the same rows.
LEMMA SameRows ==
    ASSUME UNCHANGED <<mine, log, place>>, poll'.after = poll.after
    PROVE  Beyond' = Beyond /\ \A v : Row(v)' = Row(v) /\ \A u : Before(u, v)' = Before(u, v)
<1>1. Beyond' = Beyond
  BY DEF Beyond
<1>2. \A u, v : Before(u, v)' = Before(u, v)
  BY DEF Before
<1> QED BY <1>1, <1>2 DEF Row

-----------------------------------------------------------------------------
(* One lemma per action.                                                   *)

\* No request.
LEMMA NoPollType ==
    /\ NoPoll \in Poll /\ NoPoll.step = "idle" /\ NoPoll.ch = "none" /\ NoPoll.got = {}
    /\ NoPoll.offset = 0 /\ NoPoll.since = 0 /\ NoPoll.after = 0 /\ NoPoll.answer = {}
  BY DEF NoPoll, Poll, Steps, Channel

\* A request before its first list has nothing to account for.
LEMMA FreshRequest ==
    ASSUME WatchTypeOK', poll'.step \in {"idle", "list"}, poll'.since = 0,
           poll'.got = {}, poll'.offset = 0, poll'.pages = 0,
           poll'.ch # "none" => poll'.after > 0
    PROVE  WatchInv'
<1>1. \A v \in Beyond' : v \in Nat /\ v > 0
  BY DEF WatchTypeOK, Beyond
<1>2. RowsAhead'
  BY <1>1 DEF RowsAhead
<1> QED BY <1>2 DEF WatchInv, SignalKept, WaitsFirst

\* The initial state.
LEMMA InitWatch == WatchInit => WatchInv
<1> SUFFICES ASSUME WatchInit PROVE WatchInv
  OBVIOUS
<1>1. /\ poll \in Poll /\ poll.step = "list" /\ poll.ch = "none" /\ poll.got = {} /\ poll.pages = 0
      /\ poll.offset = 0 /\ poll.since = 0 /\ poll.after = 0 /\ poll.answer = {}
  BY DEF WatchInit, NoPoll, Poll, Steps, Channel
<1>2. /\ mine \in Kinds /\ unsaid \subseteq Version /\ cursor \in Nat /\ seen \subseteq Version
      /\ jump \in BOOLEAN /\ load \in Load /\ hidden \in BOOLEAN /\ failures \in 0 .. MaxFailures
  <2>1. NoLoad \in Load /\ 0 \in 0 .. MaxFailures
    BY WatchAssumption DEF NoLoad, Load
  <2>2. jump \in BOOLEAN /\ hidden \in BOOLEAN
    BY DEF WatchInit
  <2> QED BY <2>1, <2>2 DEF WatchInit
<1>3. WatchTypeOK
  <2>1. CASE log = <<>> /\ place = <<>>
    <3>1. log \in Seq(Kinds) /\ Len(log) = 0 /\ place \in [DOMAIN log -> 0 .. Len(log)]
      BY <2>1
    <3>2. Len(log) <= MaxMessages /\ poll.since <= Len(log) /\ poll.answer \subseteq DOMAIN log
      BY <1>1, <3>1, WatchAssumption
    <3> QED BY <1>1, <1>2, <3>1, <3>2 DEF WatchTypeOK
  <2>2. CASE log = <<"root">> /\ place = <<0>>
    <3>1. log \in Seq(Kinds) /\ Len(log) = 1 /\ place \in [DOMAIN log -> 0 .. Len(log)]
      BY <2>2 DEF Kinds
    <3>2. Len(log) <= MaxMessages /\ poll.since <= Len(log) /\ poll.answer \subseteq DOMAIN log
      BY <1>1, <3>1, WatchAssumption
    <3> QED BY <1>1, <1>2, <3>1, <3>2 DEF WatchTypeOK
  <2> QED BY <2>1, <2>2 DEF WatchInit
<1> QED BY <1>1, <1>3 DEF WatchInv, SignalKept, WaitsFirst, RowsAhead

\* A new message comes with a notify of its own, and moves rows only back.
LEMMA StepCreateMessage == ASSUME NEW kind \in Kinds, NEW t \in 0 .. MaxMessages
                           PROVE  WatchInv /\ CreateMessage(kind, t) => WatchInv'
<1> SUFFICES ASSUME WatchInv, CreateMessage(kind, t) PROVE WatchInv'
  OBVIOUS
<1> USE DEF WatchInv
<1> DEFINE n == Len(log) + 1
<1>1. /\ log' = Append(log, kind) /\ unsaid' = unsaid \cup {n}
      /\ UNCHANGED <<mine, seen, jump, load, hidden, cursor, poll, failures>> /\ Len(log) < MaxMessages
      /\ place' = [v \in 1 .. n |->
                     IF v > Len(log) THEN t
                     ELSE IF 0 < t /\ t <= place[v] THEN place[v] + 1 ELSE place[v]]
  BY DEF CreateMessage, client
<1>2. /\ Len(log) \in Nat /\ DOMAIN log = 1 .. Len(log)
      /\ log' \in Seq(Kinds) /\ Len(log') = n /\ DOMAIN log' = 1 .. n
      /\ \A v \in DOMAIN log : log'[v] = log[v]
  BY <1>1, BeyondStored DEF WatchTypeOK
<1>3. t <= n
  <2>1. Cardinality(Mine) \in Nat /\ Cardinality(Mine) <= Len(log)
    BY BeyondStored
  <2>2. t \in IF kind = mine THEN 1 .. Cardinality(Mine) + 1 ELSE {0}
    BY DEF CreateMessage
  <2> QED BY <1>2, <2>1, <2>2
<1>4. \A v \in DOMAIN log : place[v] \in Nat /\ place[v] <= Len(log)
  BY <1>2 DEF WatchTypeOK
<1>5. place' \in [DOMAIN log' -> 0 .. Len(log')]
  <2>1. \A v \in 1 .. n : place'[v] \in 0 .. n
    BY <1>1, <1>2, <1>3, <1>4
  <2> QED BY <1>1, <1>2, <2>1
<1>6. WatchTypeOK'
  <2>1. unsaid' \subseteq Version
    <3>1. n \in Version
      BY <1>1, <1>2, WatchAssumption DEF Version
    <3> QED BY <1>1, <3>1 DEF WatchTypeOK
  <2>2. poll'.answer \subseteq DOMAIN log' /\ poll'.since <= Len(log') /\ poll' \in Poll
    <3>1. poll.since \in Nat /\ poll.since <= Len(log) /\ poll.answer \subseteq DOMAIN log
      BY DEF WatchTypeOK, Poll
    <3> QED BY <1>1, <1>2, <3>1 DEF WatchTypeOK
  <2>3. Len(log') <= MaxMessages
    BY <1>1, <1>2, WatchAssumption
  <2> QED BY <1>1, <1>2, <1>5, <2>1, <2>2, <2>3 DEF WatchTypeOK
<1>7. Beyond \subseteq Beyond' /\ Beyond' \subseteq Beyond \cup {n}
  BY <1>1, <1>2 DEF Beyond
<1>8. SignalKept'
  BY <1>1, <1>7 DEF SignalKept, Nothing
<1>9. WaitsFirst'
  BY <1>1 DEF WaitsFirst
<1>10. \A u, v \in DOMAIN log : Before(u, v)' <=> Before(u, v)
  <2>1. \A v \in DOMAIN log : place'[v] = IF 0 < t /\ t <= place[v] THEN place[v] + 1 ELSE place[v]
    BY <1>1, <1>2
  <2>2. \A u, v \in DOMAIN log : place'[u] < place'[v] <=> place[u] < place[v]
    BY <1>4, <2>1
  <2> QED BY <1>1, <2>2 DEF Before
<1>11. ASSUME NEW v \in Beyond PROVE Row(v)' \in Nat /\ Row(v) \in Nat /\ Row(v)' >= Row(v)
  <2> DEFINE P == {u \in Beyond : Before(u, v)}
  <2> DEFINE Q == {u \in Beyond' : Before(u, v)'}
  <2>1. v \in DOMAIN log /\ Beyond \subseteq DOMAIN log
    BY BeyondStored
  <2>2. P \subseteq Q
    BY <1>7, <1>10, <2>1
  <2>3. IsFiniteSet(Q) /\ IsFiniteSet(P)
    <3>1. IsFiniteSet(DOMAIN log')
      BY <1>2, FS_Interval
    <3>2. Q \subseteq DOMAIN log' /\ P \subseteq DOMAIN log'
      BY <1>2, <2>2 DEF Beyond
    <3> QED BY <3>1, <3>2, FS_Subset
  <2>4. Cardinality(P) <= Cardinality(Q) /\ Cardinality(P) \in Nat /\ Cardinality(Q) \in Nat
    BY <2>2, <2>3, FS_Subset, FS_CardinalityType
  <2> QED BY <2>4 DEF Row
<1>12. RowsAhead'
  <2> SUFFICES ASSUME mine = "root", poll.after > 0, NEW v \in Beyond', v <= poll.since
               PROVE  /\ v \in poll.got \/ Row(v)' >= poll.offset
                      /\ poll.step \in {"version", "select", "reply"} =>
                           \/ v \in poll.got \cup poll.answer
                           \/ /\ poll.more /\ Row(v)' >= poll.offset + PageSize
                              /\ \A u \in poll.answer : Before(u, v)'
    BY <1>1 DEF RowsAhead
  <2>1. v \in Beyond
    BY <1>2, <1>7 DEF WatchTypeOK, Poll
  <2>2. poll.offset \in Nat /\ PageSize \in Nat /\ poll.offset + PageSize \in Nat
    BY WatchAssumption DEF WatchTypeOK, Poll
  <2>3. Row(v)' \in Nat /\ Row(v) \in Nat /\ Row(v)' >= Row(v)
    BY <1>11, <2>1
  <2>4. \A u \in poll.answer : Before(u, v) => Before(u, v)'
    BY <1>10, <2>1, BeyondStored DEF WatchTypeOK
  <2>5. v \in poll.got \/ Row(v) >= poll.offset
    BY <2>1 DEF RowsAhead
  <2>6. poll.step \in {"version", "select", "reply"} =>
           \/ v \in poll.got \cup poll.answer
           \/ poll.more /\ Row(v) >= poll.offset + PageSize /\ \A u \in poll.answer : Before(u, v)
    BY <2>1 DEF RowsAhead
  <2>7. /\ Row(v) >= poll.offset => Row(v)' >= poll.offset
        /\ Row(v) >= poll.offset + PageSize => Row(v)' >= poll.offset + PageSize
    BY <2>2, <2>3
  <2> QED BY <2>4, <2>5, <2>6, <2>7
<1> QED BY <1>6, <1>8, <1>9, <1>12

\* The steps that leave the messages, the pages fetched and the rows of the last
\* read as they are.
LEMMA SamePages ==
    ASSUME WatchInv, WatchTypeOK', UNCHANGED <<mine, log, place>>,
           poll'.after = poll.after, poll'.since = poll.since, poll'.got = poll.got,
           poll'.pages = poll.pages, poll'.offset = poll.offset, poll'.answer = poll.answer,
           poll'.more = poll.more,
           poll'.step \in {"version", "select", "reply"} => poll.step \in {"version", "select", "reply"}
    PROVE  RowsAhead' /\ Beyond' = Beyond /\ Nothing' = Nothing
<1>1. Beyond' = Beyond /\ \A v : Row(v)' = Row(v) /\ \A u : Before(u, v)' = Before(u, v)
  BY SameRows
<1>2. RowsAhead'
  BY <1>1 DEF WatchInv, RowsAhead
<1> QED BY <1>1, <1>2 DEF Nothing

\* A notify fills the channel, if there is one.
LEMMA StepNotify == ASSUME NEW v \in Version
                    PROVE  WatchInv /\ NotifyConversation(v) => WatchInv'
<1> SUFFICES ASSUME WatchInv, NotifyConversation(v) PROVE WatchInv'
  OBVIOUS
<1>0. WatchTypeOK /\ SignalKept /\ WaitsFirst
  BY DEF WatchInv
<1>1. /\ UNCHANGED <<mine, log, place, seen, jump, load, hidden, cursor, failures>>
      /\ unsaid' = unsaid \ {v} /\ poll \in Poll
      /\ (poll' = poll /\ poll.ch = "none") \/ (poll' = [poll EXCEPT !.ch = "full"] /\ poll.ch # "none")
  BY <1>0 DEF NotifyConversation, WatchTypeOK, client
<1>2. poll' \in Poll
  BY <1>1 DEF Poll, Channel
<1>3. /\ poll'.ch # "empty" /\ poll'.step = poll.step /\ poll'.got = poll.got /\ poll'.answer = poll.answer
      /\ poll'.after = poll.after /\ poll'.since = poll.since /\ poll'.pages = poll.pages
      /\ poll'.offset = poll.offset /\ poll'.more = poll.more /\ (poll'.ch = "none" <=> poll.ch = "none")
  BY <1>1 DEF Poll
<1>4. WatchTypeOK'
  BY <1>0, <1>1, <1>2, <1>3 DEF WatchTypeOK
<1>5. RowsAhead'
  BY <1>1, <1>3, <1>4, SamePages
<1>6. SignalKept' /\ WaitsFirst'
  BY <1>0, <1>3 DEF SignalKept, WaitsFirst
<1> QED BY <1>4, <1>5, <1>6 DEF WatchInv

\* The steps of a request that read nothing, or the version only.
LEMMA StepQuiet == WatchInv /\ (ReadVersion \/ Hold \/ Timeout) => WatchInv'
<1> SUFFICES ASSUME WatchInv, ReadVersion \/ Hold \/ Timeout PROVE WatchInv'
  OBVIOUS
<1>0. WatchTypeOK /\ SignalKept /\ WaitsFirst
  BY DEF WatchInv
<1>1. /\ poll \in Poll /\ Len(log) \in Nat
      /\ UNCHANGED <<mine, log, place, unsaid, seen, jump, load, hidden, cursor, failures>>
  BY <1>0, BeyondStored DEF ReadVersion, Hold, Timeout, WatchTypeOK, server, client
<1>2. poll' \in Poll
  BY <1>1 DEF ReadVersion, Hold, Timeout, Poll, Steps, Channel
<1>3. /\ poll'.got = poll.got /\ poll'.answer = poll.answer /\ poll'.after = poll.after
      /\ poll'.since = poll.since /\ poll'.pages = poll.pages
      /\ poll'.offset = poll.offset /\ poll'.more = poll.more
  BY <1>1 DEF ReadVersion, Hold, Timeout, Poll
<1>4. /\ poll.step \in {"version", "select"} /\ poll'.step \in {"select", "reply"}
      /\ poll'.ch \in {"none", poll.ch}
      /\ poll'.step = "select" => poll.step = "version" /\ Nothing /\ poll.ch # "none" /\ poll'.ch = poll.ch
  BY <1>1 DEF ReadVersion, Hold, Timeout, Poll
<1>5. WatchTypeOK'
  BY <1>0, <1>1, <1>2, <1>3 DEF WatchTypeOK
<1>6. RowsAhead' /\ Beyond' = Beyond
  BY <1>1, <1>3, <1>4, <1>5, SamePages
<1>7. SignalKept'
  BY <1>0, <1>1, <1>4, <1>6 DEF SignalKept
<1>8. WaitsFirst'
  BY <1>0, <1>3, <1>4 DEF WaitsFirst
<1> QED BY <1>5, <1>6, <1>7, <1>8 DEF WatchInv

\* A request begins, or reads again with its channel in place.
LEMMA StepBegin == WatchInv /\ (Issue \/ Subscribe \/ Wake) => WatchInv'
<1> SUFFICES ASSUME WatchInv, Issue \/ Subscribe \/ Wake PROVE WatchInv'
  OBVIOUS
<1>0. WatchTypeOK /\ WaitsFirst /\ poll \in Poll /\ cursor \in Nat
  BY DEF WatchInv, WatchTypeOK
<1>1. UNCHANGED <<mine, log, place, unsaid, jump, load, hidden, cursor, failures>> /\ seen' \subseteq seen
  BY DEF Issue, Subscribe, Wake, server, client
<1>2. poll' \in Poll
  <2>1. \A c \in Channel, a \in Nat : [NoPoll EXCEPT !.ch = c, !.step = "list", !.after = a] \in Poll
    BY DEF NoPoll, Poll, Steps, Channel
  <2>2. poll.after \in Nat /\ "empty" \in Channel /\ "none" \in Channel
    BY <1>0 DEF Poll, Channel
  <2>3. CASE Issue
    <3>1. \A a \in Nat : [NoPoll EXCEPT !.step = "list", !.after = a] \in Poll
      BY DEF NoPoll, Poll, Steps, Channel
    <3> QED BY <1>0, <2>3, <3>1 DEF Issue
  <2>4. CASE Subscribe \/ Wake
    <3>1. poll' = [NoPoll EXCEPT !.ch = "empty", !.step = "list", !.after = poll.after]
      BY <2>4 DEF Subscribe, Wake
    <3> QED BY <2>1, <2>2, <3>1
  <2> QED BY <2>3, <2>4
<1>3. /\ poll'.step = "list" /\ poll'.since = 0 /\ poll'.got = {} /\ poll'.offset = 0
      /\ poll'.pages = 0 /\ poll'.answer = {}
  BY DEF Issue, Subscribe, Wake, NoPoll
<1>4. poll'.ch # "none" => poll'.after > 0
  <2>1. CASE Issue
    BY <2>1 DEF Issue, NoPoll
  <2>2. CASE Subscribe
    BY <2>2 DEF Subscribe, NoPoll
  <2>3. CASE Wake
    <3>1. poll.after > 0
      BY <1>0, <2>3 DEF Wake, WaitsFirst
    <3> QED BY <2>3, <3>1 DEF Wake, NoPoll
  <2> QED BY <2>1, <2>2, <2>3
<1>5. WatchTypeOK'
  <2>1. Len(log) \in Nat
    BY <1>0, BeyondStored
  <2> QED BY <1>0, <1>1, <1>2, <1>3, <2>1 DEF WatchTypeOK
<1> QED BY <1>3, <1>4, <1>5, FreshRequest

\* The list: a message of the round is in the page, or behind all of it; an empty
\* page means that there is nothing to read.
LEMMA StepListDelta == WatchInv /\ ListDelta => WatchInv'
<1> SUFFICES ASSUME WatchInv, ListDelta PROVE WatchInv'
  OBVIOUS
<1>0. WatchTypeOK /\ WaitsFirst /\ RowsAhead
  BY DEF WatchInv
<1>1. /\ poll \in Poll /\ Len(log) \in Nat /\ DOMAIN log = 1 .. Len(log)
      /\ UNCHANGED <<mine, log, place, unsaid, seen, jump, load, hidden, cursor, failures>>
  BY <1>0, BeyondStored DEF ListDelta, WatchTypeOK, server, client
<1> DEFINE page == IF poll.after = 0 THEN Latest ELSE IF Full THEN Trimmed ELSE Rows(PageSize + 1)
<1>2. page \subseteq Beyond /\ page \subseteq DOMAIN log /\ page \in SUBSET Version
  <2>1. page \subseteq Beyond
    BY DEF Latest, Trimmed, Rows
  <2> QED BY <1>0, <2>1, BeyondStored
<1>3. poll' = [poll EXCEPT !.step = "version", !.answer = page, !.more = poll.after > 0 /\ Full,
                    !.since = IF poll.pages = 0 THEN Len(log) ELSE @]
  BY DEF ListDelta
<1> HIDE DEF page
<1>4. Full \in BOOLEAN /\ poll.after \in Nat
  <2>1. Cardinality(Beyond) \in Nat /\ poll.offset + PageSize \in Nat /\ poll.after \in Nat
    BY <1>0, <1>1, BeyondStored, WatchAssumption DEF Poll
  <2>2. (Cardinality(Beyond) > poll.offset + PageSize) \in BOOLEAN
    BY <2>1
  <2>3. (Cardinality(Beyond) = PageSize) \in BOOLEAN
    OBVIOUS
  <2>4. CASE mine = "root"
    BY <2>1, <2>2, <2>4 DEF Full
  <2>5. CASE mine # "root"
    BY <2>1, <2>3, <2>5 DEF Full
  <2> QED BY <2>4, <2>5
<1>5. poll' \in Poll
  BY <1>1, <1>2, <1>3, <1>4 DEF Poll, Steps
<1>6. /\ poll'.step = "version" /\ poll'.ch = poll.ch /\ poll'.got = poll.got /\ poll'.answer = page
      /\ poll'.more = (poll.after > 0 /\ Full) /\ poll'.after = poll.after /\ poll'.pages = poll.pages
      /\ poll'.offset = poll.offset /\ poll'.since = IF poll.pages = 0 THEN Len(log) ELSE poll.since
  BY <1>1, <1>3 DEF Poll
<1>7. Beyond' = Beyond /\ \A v : Row(v)' = Row(v) /\ \A u : Before(u, v)' = Before(u, v)
  BY <1>1, <1>6, SameRows
<1>8. WatchTypeOK'
  <2>1. poll'.since <= Len(log')
    BY <1>0, <1>1, <1>6 DEF WatchTypeOK
  <2> QED BY <1>0, <1>1, <1>2, <1>5, <1>6, <2>1 DEF WatchTypeOK
<1>9. WaitsFirst'
  BY <1>0, <1>6 DEF WaitsFirst
<1>10. SignalKept'
  <2> SUFFICES ASSUME Nothing', poll.ch = "empty" PROVE Beyond = {}
    BY <1>6, <1>7 DEF SignalKept
  <2>1. poll.after > 0 /\ poll.offset = 0
    BY <1>0 DEF WaitsFirst
  <2>2. ~ Full /\ page = {}
    BY <1>6, <2>1 DEF Nothing
  <2>3. Rows(PageSize + 1) = {}
    BY <1>4, <2>1, <2>2 DEF page
  <2> QED BY <1>0, <2>1, <2>2, <2>3, FirstRow
<1>11. RowsAhead'
  <2> SUFFICES ASSUME mine = "root", poll.after > 0, NEW v \in Beyond, v <= poll'.since
               PROVE  /\ v \in poll.got \/ Row(v) >= poll.offset
                      /\ \/ v \in poll.got \cup page
                         \/ /\ Full /\ Row(v) >= poll.offset + PageSize
                            /\ \A u \in page : Before(u, v)
    BY <1>1, <1>6, <1>7 DEF RowsAhead
  <2>1. Row(v) \in Nat /\ Cardinality(Beyond) \in Nat /\ Row(v) < Cardinality(Beyond)
    BY <1>0, RowBelow
  <2>2. poll.offset \in Nat /\ PageSize \in Nat
    BY <1>1, WatchAssumption DEF Poll
  <2>3. v \in poll.got \/ Row(v) >= poll.offset
    <3>1. CASE poll.pages = 0
      BY <1>0, <2>1, <3>1 DEF WaitsFirst
    <3>2. CASE poll.pages # 0
      BY <1>0, <1>6, <3>2 DEF RowsAhead
    <3> QED BY <3>1, <3>2
  <2>4. CASE v \in poll.got
    BY <2>3, <2>4
  <2>5. CASE v \notin poll.got /\ ~ Full
    <3>1. page = Rows(PageSize + 1)
      BY <1>4, <2>5 DEF page
    <3>2. Row(v) < poll.offset + (PageSize + 1)
      BY <2>1, <2>2, <2>5 DEF Full
    <3>3. v \in Rows(PageSize + 1)
      BY <2>3, <2>5, <3>2 DEF Rows
    <3> QED BY <2>3, <3>1, <3>3
  <2>6. CASE v \notin poll.got /\ Full /\ Row(v) < poll.offset + PageSize
    <3>1. page = Rows(PageSize)
      BY <1>4, <2>6 DEF page, Trimmed
    <3>2. v \in Rows(PageSize)
      BY <2>3, <2>6 DEF Rows
    <3> QED BY <2>3, <3>1, <3>2
  <2>7. CASE v \notin poll.got /\ Full /\ ~ (Row(v) < poll.offset + PageSize)
    <3>1. page = Rows(PageSize)
      BY <1>4, <2>7 DEF page, Trimmed
    <3>2. Row(v) >= poll.offset + PageSize
      BY <2>1, <2>2, <2>7
    <3>3. ASSUME NEW u \in page PROVE Before(u, v)
      <4>1. u \in Beyond /\ Row(u) < poll.offset + PageSize
        BY <3>1 DEF Rows
      <4>2. Row(u) \in Nat
        BY <1>0, <4>1, RowBelow
      <4>3. Row(u) < Row(v)
        BY <2>1, <2>2, <3>2, <4>1, <4>2
      <4> QED BY <1>0, <4>1, <4>3, RowOrder
    <3> QED BY <2>3, <2>7, <3>2, <3>3
  <2> QED BY <2>4, <2>5, <2>6, <2>7
<1> QED BY <1>8, <1>9, <1>10, <1>11 DEF WatchInv

\* The next page of the same round begins where the last one ended.
LEMMA StepNextPage == WatchInv /\ NextPage => WatchInv'
<1> SUFFICES ASSUME WatchInv, NextPage PROVE WatchInv'
  OBVIOUS
<1>0. WatchTypeOK /\ WaitsFirst /\ RowsAhead
  BY DEF WatchInv
<1>1. /\ poll \in Poll /\ poll.answer \in SUBSET Version /\ poll.got \in SUBSET Version
      /\ poll.pages \in Nat /\ poll.offset \in Nat /\ PageSize \in Nat
      /\ UNCHANGED <<mine, log, place, unsaid, seen, jump, load, hidden, cursor, failures>>
      /\ poll.step = "reply" /\ poll.more
  BY <1>0, WatchAssumption DEF NextPage, WatchTypeOK, Poll, server, client
<1>2. poll' \in Poll
  <2>1. \A a, s, p, o \in Nat, g \in SUBSET Version :
           [NoPoll EXCEPT !.step = "list", !.after = a, !.since = s, !.got = g, !.pages = p, !.offset = o] \in Poll
    BY DEF NoPoll, Poll, Steps, Channel
  <2>2. /\ poll.after \in Nat /\ poll.since \in Nat /\ poll.pages + 1 \in Nat /\ poll.offset + PageSize \in Nat
        /\ poll.got \cup poll.answer \in SUBSET Version
    BY <1>1 DEF Poll
  <2> QED BY <2>1, <2>2 DEF NextPage
<1>3. /\ poll'.step = "list" /\ poll'.got = poll.got \cup poll.answer /\ poll'.ch = "none"
      /\ poll'.offset = poll.offset + PageSize /\ poll'.since = poll.since /\ poll'.after = poll.after
      /\ poll'.pages = poll.pages + 1 /\ poll'.answer = {}
  BY DEF NextPage, NoPoll
<1>4. WatchTypeOK'
  BY <1>0, <1>1, <1>2, <1>3 DEF WatchTypeOK
<1>5. Beyond' = Beyond /\ \A v : Row(v)' = Row(v)
  BY <1>1, <1>3, SameRows
<1>6. RowsAhead'
  <2> SUFFICES ASSUME mine = "root", poll.after > 0, NEW v \in Beyond, v <= poll.since
               PROVE  v \in poll.got \cup poll.answer \/ Row(v) >= poll.offset + PageSize
    BY <1>1, <1>3, <1>5 DEF RowsAhead
  <2> QED BY <1>0, <1>1 DEF RowsAhead
<1>7. SignalKept' /\ WaitsFirst'
  BY <1>1, <1>3 DEF SignalKept, WaitsFirst
<1> QED BY <1>4, <1>6, <1>7 DEF WatchInv

\* A request is over: applied, failed or cut off by a restart.
LEMMA StepOver == WatchInv /\ (Apply \/ FailRequest \/ RestartManager) => WatchInv'
<1> SUFFICES ASSUME WatchInv, Apply \/ FailRequest \/ RestartManager PROVE WatchInv'
  OBVIOUS
<1>0. WatchTypeOK /\ poll \in Poll
  BY DEF WatchInv, WatchTypeOK
<1>1. /\ poll' = NoPoll /\ UNCHANGED <<mine, log, place, jump, load, hidden>> /\ unsaid' \subseteq unsaid
  BY DEF Apply, FailRequest, RestartManager, server, client
<1>2. failures' \in 0 .. MaxFailures
  BY <1>0, WatchAssumption DEF Apply, FailRequest, RestartManager, Disturb, WatchTypeOK
<1>3. cursor' \in Nat /\ seen' \subseteq Version
  <2>1. CASE FailRequest \/ RestartManager
    BY <1>0, <2>1 DEF FailRequest, RestartManager, client, WatchTypeOK
  <2>2. CASE Apply
    <3>1. poll.at \in Nat /\ poll.got \cup poll.answer \in SUBSET Version
      BY <1>0 DEF Poll
    <3>2. Capped => Last \in Nat
      BY <1>0, LastIsVersion DEF Capped
    <3> QED BY <2>2, <3>1, <3>2 DEF Apply
  <2> QED BY <2>1, <2>2
<1>4. WatchTypeOK'
  <2>1. Len(log) \in Nat
    BY <1>0, BeyondStored
  <2> QED BY <1>0, <1>1, <1>2, <1>3, <2>1, NoPollType DEF WatchTypeOK
<1>5. NoPoll.pages = 0
  BY DEF NoPoll
<1> QED BY <1>1, <1>4, <1>5, NoPollType, FreshRequest

\* The tab, the jump window and its load leave the request alone.
LEMMA StepClient == WatchInv /\ ClientStep => WatchInv'
<1> SUFFICES ASSUME WatchInv, ClientStep PROVE WatchInv'
  OBVIOUS
<1>0. WatchTypeOK /\ SignalKept /\ WaitsFirst /\ Len(log) \in Nat /\ DOMAIN log = 1 .. Len(log)
  BY BeyondStored DEF WatchInv
<1>1. UNCHANGED <<mine, log, place, unsaid, seen, poll>>
  BY DEF ClientStep, HideTab, ShowTab, JumpToMessage, ClearJump, LoadReads, LoadMessages, server
<1>2. /\ jump' \in BOOLEAN /\ load' \in Load /\ hidden' \in BOOLEAN /\ cursor' \in Nat
      /\ failures' \in 0 .. MaxFailures
  <2>1. jump \in BOOLEAN /\ load \in Load /\ hidden \in BOOLEAN /\ cursor \in Nat /\ failures \in 0 .. MaxFailures
    BY <1>0 DEF WatchTypeOK
  <2>2. CASE HideTab \/ ShowTab
    <3>1. failures' \in 0 .. MaxFailures
      BY <2>1, <2>2, WatchAssumption DEF HideTab, ShowTab, Disturb
    <3>2. UNCHANGED <<jump, load, cursor>> /\ hidden' \in BOOLEAN
      BY <2>2 DEF HideTab, ShowTab
    <3> QED BY <2>1, <3>1, <3>2
  <2>3. ASSUME NEW v \in Version, JumpToMessage(v) PROVE <1>2!:
    BY <1>0, <2>1, <2>3, WatchAssumption DEF JumpToMessage, Disturb
  <2>4. CASE ClearJump \/ LoadReads
    <3>1. load' \in Load
      BY <1>0, <2>1, <2>4 DEF ClearJump, LoadReads, Load
    <3>2. UNCHANGED <<hidden, failures>> /\ (cursor' = 0 \/ cursor' = cursor)
      BY <2>4 DEF ClearJump, LoadReads
    <3>3. jump' \in BOOLEAN
      BY <2>1, <2>4 DEF ClearJump, LoadReads
    <3> QED BY <2>1, <3>1, <3>2, <3>3
  <2>5. ASSUME NEW ok \in BOOLEAN, LoadMessages(ok) PROVE <1>2!:
    BY <2>1, <2>5 DEF LoadMessages, Load, NoLoad
  <2> QED BY <2>2, <2>3, <2>4, <2>5 DEF ClientStep
<1>3. WatchTypeOK'
  BY <1>0, <1>1, <1>2 DEF WatchTypeOK
<1>4. RowsAhead' /\ Beyond' = Beyond /\ Nothing' = Nothing
  BY <1>1, <1>3, SamePages
<1>5. SignalKept' /\ WaitsFirst'
  BY <1>0, <1>1, <1>4 DEF SignalKept, WaitsFirst
<1> QED BY <1>3, <1>4, <1>5 DEF WatchInv

\* WatchInv is inductive.
LEMMA NextWatch == WatchInv /\ [WatchNext]_vars => WatchInv'
<1> SUFFICES ASSUME WatchInv, [WatchNext]_vars PROVE WatchInv'
  OBVIOUS
<1>1. CASE UNCHANGED vars
  <2>0. WatchTypeOK /\ SignalKept /\ WaitsFirst
    BY DEF WatchInv
  <2>1. UNCHANGED <<mine, log, place, unsaid, cursor, seen, jump, load, hidden, poll, failures>>
    BY <1>1 DEF vars, server, client
  <2>2. WatchTypeOK'
    BY <2>0, <2>1 DEF WatchTypeOK
  <2>3. RowsAhead' /\ Beyond' = Beyond /\ Nothing' = Nothing
    BY <2>1, <2>2, SamePages
  <2>4. SignalKept' /\ WaitsFirst'
    BY <2>0, <2>1, <2>3 DEF SignalKept, WaitsFirst
  <2> QED BY <2>2, <2>3, <2>4 DEF WatchInv
<1>2. CASE WatchNext
  BY <1>2, StepCreateMessage, StepNotify, StepQuiet, StepBegin, StepListDelta, StepNextPage, StepOver, StepClient
     DEF WatchNext, WatchStep
<1> QED BY <1>1, <1>2

\* Only the end of a round ends a request and moves the cursor.
LEMMA OnlyApply ==
    ASSUME [WatchNext]_vars, cursor' # cursor, poll' # poll
    PROVE  Apply
  BY DEF WatchNext, WatchStep, ClientStep, CreateMessage, NotifyConversation, Issue, ListDelta, ReadVersion,
         Subscribe, Hold, Wake, NextPage, Timeout, FailRequest, RestartManager, HideTab, ShowTab,
         JumpToMessage, ClearJump, LoadReads, LoadMessages, vars

\* What the end of a round passes over.
LEMMA StepKeeps ==
    ASSUME WatchInv, Apply, mine = "root", ~ jump, poll.after > 0, cursor > 0,
           NEW v \in Passed, ~ (v > poll.since)
    PROVE  Capped /\ v <= Last /\ \A u \in poll.answer : Before(u, v)
<1>0. WatchTypeOK /\ RowsAhead /\ cursor \in Nat /\ poll.since \in Nat
  BY DEF WatchInv, WatchTypeOK, Poll
<1>1. v \in Beyond /\ v \in Nat /\ v <= cursor' /\ v \notin seen' /\ v <= poll.since
  BY <1>0, BeyondStored DEF Passed, Beyond
<1>2. seen' = poll.got \cup poll.answer /\ poll.step = "reply"
  BY <1>0 DEF Apply
<1>3. poll.more /\ \A u \in poll.answer : Before(u, v)
  BY <1>0, <1>1, <1>2 DEF RowsAhead
<1>4. Capped /\ cursor' = Last
  BY <1>3 DEF Apply, Capped
<1> QED BY <1>1, <1>3, <1>4

-----------------------------------------------------------------------------
\* Requests, pages and signals of a watcher stay consistent.
THEOREM WatchInvariant == WatchSafe => []WatchInv
<1> QED BY InitWatch, NextWatch, PTL DEF WatchSafe

\* Hub.Subscribe and NotifyConversation: no signal is lost between a handler's
\* last read and its wait.
THEOREM SignalNotLost == WatchSafe => []SignalKept
<1>1. WatchInv => SignalKept
  BY DEF WatchInv
<1> QED BY <1>1, WatchInvariant, PTL

\* fetchConversationDelta: a round that is appended shows every message its
\* cursor passes, but for those stored while it ran and, at the page cap, those
\* with a lower version and a later created_at than the last page's.
THEOREM RoomShowsAll == WatchSafe => RoomKept
<1>1. WatchInv /\ [WatchNext]_vars =>
        [mine = "root" /\ ~ jump /\ poll.after > 0 /\ cursor > 0 /\ cursor' # cursor /\ poll' # poll =>
           \A v \in Passed : v > poll.since \/ (Capped /\ v <= Last /\ \A u \in poll.answer : Before(u, v))]_vars
  BY OnlyApply, StepKeeps
<1> QED BY <1>1, WatchInvariant, PTL DEF WatchSafe, RoomKept
=============================================================================
