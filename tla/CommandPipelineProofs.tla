------------------------ MODULE CommandPipelineProofs ------------------------
(***************************************************************************)
(* Proofs about CommandPipeline for every number of commands and records,  *)
(* every batch size and cap, and every budget of faults: types, the        *)
(* inductive invariant PipelineInv, the refinement of DurableReport, the   *)
(* order of records (TurnInv), and the cursor (TerminalsAhead).            *)
(***************************************************************************)
EXTENDS PipelineReport, FiniteSetTheorems, WellFoundedInduction, TLAPS

Logs == [base: Nat, recs: Seq(Recs)]

\* What a write of the outbox does to it, whichever outcome it has.
WriteStep(l, b, o) ==
    /\ o.log \in Logs /\ o.buffered \in Seq(Recs)
    /\ o.err \in BOOLEAN /\ o.fault \in {"none", "write", "quarantine"}
    /\ Range(o.log.recs) \cup Range(o.buffered) \subseteq Range(l.recs) \cup Range(b)
    /\ o.fault # "quarantine" =>
         /\ o.log.base = l.base
         /\ Len(l.recs) <= Len(o.log.recs)
         /\ \A k \in DOMAIN l.recs : o.log.recs[k] = l.recs[k]
         /\ Range(l.recs) \cup Range(b) \subseteq Range(o.log.recs) \cup Range(o.buffered)

\* Membership in the range of a sequence, by position.
LEMMA RangeSeq ==
    ASSUME NEW S, NEW s \in Seq(S)
    PROVE  /\ DOMAIN s = 1 .. Len(s) /\ Len(s) \in Nat
           /\ \A k \in 1 .. Len(s) : s[k] \in Range(s) /\ s[k] \in S
           /\ \A x \in Range(s) : \E k \in 1 .. Len(s) : x = s[k]
BY DEF Range

\* Appending a sequence keeps the log as a prefix.
LEMMA AppendBatchStep ==
    ASSUME NEW l \in Logs, NEW es \in Seq(Recs)
    PROVE  LET m == AppendBatch(l, es)
           IN  /\ m \in Logs
               /\ m.base = l.base
               /\ Len(l.recs) <= Len(m.recs)
               /\ \A k \in DOMAIN l.recs : m.recs[k] = l.recs[k]
               /\ Range(m.recs) = Range(l.recs) \cup Range(es)
<1> DEFINE r == l.recs
           t == l.recs \o es
<1>1. AppendBatch(l, es) = [base |-> l.base, recs |-> t]
  BY DEF AppendBatch
<1>2. r \in Seq(Recs) /\ l.base \in Nat
  BY DEF Logs
<1>3. /\ t \in Seq(Recs)
      /\ Len(t) = Len(r) + Len(es)
      /\ \A k \in 1 .. Len(r) : t[k] = r[k]
      /\ \A k \in 1 .. Len(es) : t[k + Len(r)] = es[k]
      /\ \A k \in 1 .. Len(t) : k > Len(r) => t[k] = es[k - Len(r)]
  BY <1>2
<1> HIDE DEF r, t
<1>4. ASSUME NEW x \in Range(t) PROVE x \in Range(r) \cup Range(es)
  <2>1. PICK k \in 1 .. Len(t) : x = t[k]
    BY <1>3, <1>4, RangeSeq
  <2>2. CASE k <= Len(r)
    BY <2>1, <2>2, <1>2, <1>3, RangeSeq
  <2>3. CASE k > Len(r)
    <3>1. k - Len(r) \in 1 .. Len(es)
      BY <2>3, <1>2, <1>3, RangeSeq
    <3> QED BY <2>1, <2>3, <3>1, <1>3, RangeSeq
  <2> QED BY <2>2, <2>3, <1>2, RangeSeq
<1>5. ASSUME NEW x \in Range(r) PROVE x \in Range(t)
  <2>1. PICK k \in 1 .. Len(r) : x = r[k]
    BY <1>2, <1>5, RangeSeq
  <2>2. k \in 1 .. Len(t)
    BY <1>2, <1>3, RangeSeq
  <2> QED BY <2>1, <2>2, <1>3, RangeSeq
<1>6. ASSUME NEW x \in Range(es) PROVE x \in Range(t)
  <2>1. PICK k \in 1 .. Len(es) : x = es[k]
    BY <1>6, RangeSeq
  <2>2. k + Len(r) \in 1 .. Len(t)
    BY <1>2, <1>3, RangeSeq
  <2> QED BY <2>1, <2>2, <1>3, RangeSeq
<1>7. Range(t) = Range(r) \cup Range(es)
  BY <1>4, <1>5, <1>6
<1>8. AppendBatch(l, es) \in Logs
  BY <1>1, <1>2, <1>3 DEF Logs
<1>9. DOMAIN r = 1 .. Len(r) /\ Len(r) <= Len(t)
  BY <1>2, <1>3, RangeSeq
<1> QED BY <1>1, <1>3, <1>7, <1>8, <1>9 DEF r

\* A prefix of a sequence holds none but its elements.
LEMMA PrefixRange ==
    ASSUME NEW s \in Seq(Recs), NEW n \in 0 .. Len(s)
    PROVE  SubSeq(s, 1, n) \in Seq(Recs) /\ Range(SubSeq(s, 1, n)) \subseteq Range(s)
BY DEF Range

\* Every outcome of a flush.
LEMMA FlushStep ==
    ASSUME NEW l \in Logs, NEW b \in Seq(Recs), NEW o \in FlushOutcomes(l, b)
    PROVE  WriteStep(l, b, o)
<1>1. CASE o = Flushed(l, b)
  <2>1. << >> \in Seq(Recs) /\ Range(<< >>) = {}
    BY DEF Range
  <2> QED BY <1>1, <2>1, AppendBatchStep DEF WriteStep, Flushed
<1>2. CASE \E n \in 0 .. Len(b) :
             o = [log |-> AppendBatch(l, SubSeq(b, 1, n) \o b),
                  buffered |-> << >>, err |-> FALSE, fault |-> "write"]
  <2>1. PICK n \in 0 .. Len(b) :
             o = [log |-> AppendBatch(l, SubSeq(b, 1, n) \o b),
                  buffered |-> << >>, err |-> FALSE, fault |-> "write"]
    BY <1>2
  <2> DEFINE p == SubSeq(b, 1, n)
  <2>2. p \in Seq(Recs) /\ Range(p) \subseteq Range(b)
    BY PrefixRange
  <2>3. [base |-> 0, recs |-> p] \in Logs
    BY <2>2 DEF Logs
  <2>4. p \o b \in Seq(Recs) /\ Range(p \o b) = Range(p) \cup Range(b)
    BY <2>2, <2>3, AppendBatchStep DEF AppendBatch, Logs
  <2>5. << >> \in Seq(Recs) /\ Range(<< >>) = {}
    BY DEF Range
  <2> HIDE DEF p
  <2> DEFINE m == AppendBatch(l, p \o b)
  <2>6. /\ m \in Logs /\ m.base = l.base /\ Len(l.recs) <= Len(m.recs)
        /\ \A k \in DOMAIN l.recs : m.recs[k] = l.recs[k]
        /\ Range(m.recs) = Range(l.recs) \cup Range(p \o b)
    BY <2>4, AppendBatchStep
  <2>7. o.log = m /\ o.buffered = << >> /\ o.err = FALSE /\ o.fault = "write"
    BY <2>1 DEF p
  <2> HIDE DEF m
  <2> QED BY <2>2, <2>4, <2>5, <2>6, <2>7 DEF WriteStep
<1>3. CASE \E n \in 0 .. Len(b) :
             o = [log |-> AppendBatch(l, SubSeq(b, 1, n)),
                  buffered |-> b, err |-> TRUE, fault |-> "write"]
  <2>1. PICK n \in 0 .. Len(b) :
             o = [log |-> AppendBatch(l, SubSeq(b, 1, n)),
                  buffered |-> b, err |-> TRUE, fault |-> "write"]
    BY <1>3
  <2> DEFINE p == SubSeq(b, 1, n)
             m == AppendBatch(l, p)
  <2>2. p \in Seq(Recs) /\ Range(p) \subseteq Range(b)
    BY PrefixRange
  <2>3. o.log = m /\ o.buffered = b /\ o.err = TRUE /\ o.fault = "write"
    BY <2>1
  <2> HIDE DEF p
  <2>4. /\ m \in Logs /\ m.base = l.base /\ Len(l.recs) <= Len(m.recs)
        /\ \A k \in DOMAIN l.recs : m.recs[k] = l.recs[k]
        /\ Range(m.recs) = Range(l.recs) \cup Range(p)
    BY <2>2, AppendBatchStep
  <2> HIDE DEF m
  <2> QED BY <2>2, <2>3, <2>4 DEF WriteStep
<1>4. CASE o = [log |-> EmptyLog, buffered |-> b, err |-> TRUE, fault |-> "quarantine"]
  <2>1. EmptyLog \in Logs /\ Range(EmptyLog.recs) = {}
    BY DEF EmptyLog, Logs, Range
  <2> QED BY <1>4, <2>1 DEF WriteStep
<1> QED BY <1>1, <1>2, <1>3, <1>4 DEF FlushOutcomes, WriteFaults

\* Every outcome of appending one record.
LEMMA AppendStep ==
    ASSUME NEW l \in Logs, NEW b \in Seq(Recs), NEW r \in Recs,
           NEW o \in AppendOutcomes(l, b, r)
    PROVE  WriteStep(l, Append(b, r), o) /\ Range(Append(b, r)) = Range(b) \cup {r}
<1>1. Append(b, r) \in Seq(Recs)
  OBVIOUS
<1>2. Range(Append(b, r)) = Range(b) \cup {r}
  <2>1. /\ Len(Append(b, r)) = Len(b) + 1 /\ Append(b, r)[Len(b) + 1] = r
        /\ \A k \in 1 .. Len(b) : Append(b, r)[k] = b[k]
    OBVIOUS
  <2>2. ASSUME NEW x \in Range(Append(b, r)) PROVE x \in Range(b) \cup {r}
    <3>1. PICK k \in 1 .. Len(b) + 1 : x = Append(b, r)[k]
      BY <1>1, <2>1, <2>2, RangeSeq, ZenonT(40)
    <3> QED BY <2>1, <3>1, RangeSeq
  <2>3. ASSUME NEW x \in Range(b) PROVE x \in Range(Append(b, r))
    <3>1. PICK k \in 1 .. Len(b) : x = b[k]
      BY <2>3, RangeSeq
    <3>2. k \in 1 .. Len(Append(b, r)) /\ x = Append(b, r)[k]
      BY <2>1, <3>1, RangeSeq
    <3> QED BY <1>1, <3>2, RangeSeq
  <2>4. r \in Range(Append(b, r))
    <3>1. Len(b) + 1 \in 1 .. Len(Append(b, r))
      BY <2>1, RangeSeq
    <3> QED BY <1>1, <2>1, <3>1, RangeSeq
  <2> QED BY <2>2, <2>3, <2>4
<1>3. CASE o = [log |-> l, buffered |-> Append(b, r), err |-> FALSE, fault |-> "none"]
  <2> DEFINE a == Append(b, r)
  <2>1. /\ o.log = l /\ o.buffered = a /\ o.err = FALSE /\ o.fault = "none"
        /\ a \in Seq(Recs)
    BY <1>1, <1>3
  <2>2. Len(l.recs) <= Len(l.recs)
    BY DEF Logs
  <2> HIDE DEF a
  <2>3. WriteStep(l, a, o)
    BY <2>1, <2>2 DEF WriteStep
  <2> QED BY <1>2, <2>3 DEF a
<1>4. CASE o \in FlushOutcomes(l, Append(b, r))
  <2> DEFINE a == Append(b, r)
  <2>1. a \in Seq(Recs) /\ o \in FlushOutcomes(l, a)
    BY <1>1, <1>4
  <2> HIDE DEF a
  <2>2. WriteStep(l, a, o)
    BY <2>1, FlushStep
  <2> QED BY <1>2, <2>2 DEF a
<1> QED BY <1>3, <1>4 DEF AppendOutcomes

\* ReadRecords returns a piece of the log that starts at ReadStart.
LEMMA ReadStep ==
    ASSUME NEW l \in Logs, NEW max \in Nat \ {0}, NEW from \in Nat
    PROVE  LET start == ReadStart(l, from)
               recs  == ReadRecords(l, max, from)
           IN  /\ start \in Nat /\ start > l.base
               /\ start = l.base + 1 \/ start = from
               /\ recs \in Seq(Recs)
               /\ Range(recs) \subseteq Range(l.recs)
               /\ \A k \in DOMAIN recs :
                    /\ start + k - 1 <= LastIndex(l)
                    /\ l.recs[start + k - 1 - l.base] = recs[k]
<1> DEFINE start == ReadStart(l, from)
           s == start - l.base
           t == IF s + max - 1 < Len(l.recs) THEN s + max - 1 ELSE Len(l.recs)
           recs == SubSeq(l.recs, s, t)
<1>1. l.recs \in Seq(Recs) /\ l.base \in Nat /\ Len(l.recs) \in Nat
  BY DEF Logs
<1>2. start \in Nat /\ start > l.base /\ (start = l.base + 1 \/ start = from)
  BY <1>1 DEF ReadStart, FirstIndex, LastIndex
<1> HIDE DEF start
<1>3. s \in Nat /\ s >= 1 /\ t \in Nat /\ t <= Len(l.recs)
  BY <1>1, <1>2
<1> HIDE DEF s, t
<1>4. /\ recs \in Seq(Recs) /\ DOMAIN recs = 1 .. Len(recs)
      /\ Len(recs) = IF s <= t THEN t - s + 1 ELSE 0
      /\ \A k \in 1 .. Len(recs) : recs[k] = l.recs[s + k - 1]
  BY <1>1, <1>3
<1> HIDE DEF recs
<1>5. ASSUME NEW k \in DOMAIN recs
      PROVE  /\ start + k - 1 <= LastIndex(l)
             /\ l.recs[start + k - 1 - l.base] = recs[k]
             /\ recs[k] \in Range(l.recs)
  <2>1. k \in 1 .. Len(recs) /\ k \in Nat
    BY <1>4
  <2>2. s + k - 1 \in 1 .. Len(l.recs)
    BY <1>3, <1>4, <2>1, <1>1
  <2>3. start + k - 1 - l.base = s + k - 1
    BY <1>1, <1>2, <2>1 DEF s
  <2>4. start + k - 1 <= LastIndex(l)
    <3>1. s = start - l.base /\ s \in Nat /\ s + k - 1 <= Len(l.recs)
      BY <1>3, <2>1, <2>2 DEF s
    <3>2. LastIndex(l) = l.base + Len(l.recs)
      BY DEF LastIndex
    <3> HIDE DEF LastIndex
    <3>3. ASSUME NEW ll \in Int, NEW bb \in Nat, NEW nn \in Nat, ll = bb + nn,
                 start - bb + k - 1 <= nn
          PROVE  start + k - 1 <= ll
      BY <1>2, <2>1, <3>3
    <3> QED BY <1>1, <3>1, <3>2, <3>3
  <2>5. l.recs[start + k - 1 - l.base] = recs[k]
    BY <1>4, <2>1, <2>3
  <2>6. l.recs[s + k - 1] \in Range(l.recs)
    BY <1>1, <2>2, RangeSeq
  <2> QED BY <2>3, <2>4, <2>5, <2>6
<1>6. Range(recs) \subseteq Range(l.recs)
  BY <1>4, <1>5, RangeSeq
<1>7. recs = ReadRecords(l, max, from)
  BY DEF recs, ReadRecords, s, t, start
<1> QED BY <1>2, <1>4, <1>5, <1>6, <1>7 DEF start

\* EvictThrough drops records from the front only, none beyond the index.
LEMMA EvictStep ==
    ASSUME NEW l \in Logs, NEW index \in Nat
    PROVE  LET m == EvictThrough(l, index)
           IN  /\ m \in Logs
               /\ m.base >= l.base /\ LastIndex(m) = LastIndex(l)
               /\ Range(m.recs) \subseteq Range(l.recs)
               /\ \A k \in DOMAIN m.recs :
                    /\ k + m.base - l.base \in DOMAIN l.recs
                    /\ m.recs[k] = l.recs[k + m.base - l.base]
               /\ \A k \in DOMAIN l.recs :
                    l.base + k <= index \/ l.recs[k] \in Range(m.recs)
<1>1. l.recs \in Seq(Recs) /\ l.base \in Nat /\ Len(l.recs) \in Nat
      /\ DOMAIN l.recs = 1 .. Len(l.recs)
  BY DEF Logs
<1>2. CASE l.recs = << >> \/ index < FirstIndex(l)
  BY <1>1, <1>2, RangeSeq DEF EvictThrough
<1>3. CASE ~(l.recs = << >> \/ index < FirstIndex(l))
  <2> DEFINE k0 == (IF index > LastIndex(l) THEN LastIndex(l) ELSE index) - l.base
             rest == SubSeq(l.recs, k0 + 1, Len(l.recs))
  <2>1. EvictThrough(l, index) = [base |-> l.base + k0, recs |-> rest]
    BY <1>3 DEF EvictThrough
  <2>2. k0 \in 1 .. Len(l.recs) /\ l.base + k0 <= index
    <3>1. Len(l.recs) >= 1
      BY <1>1, <1>3
    <3> QED BY <1>1, <1>3, <3>1 DEF LastIndex, FirstIndex
  <2> HIDE DEF k0
  <2>3. /\ rest \in Seq(Recs) /\ Len(rest) = Len(l.recs) - k0
        /\ DOMAIN rest = 1 .. Len(rest)
        /\ \A k \in 1 .. Len(rest) : rest[k] = l.recs[k + k0]
    BY <1>1, <2>2
  <2> HIDE DEF rest
  <2>4. ASSUME NEW k \in 1 .. Len(rest)
        PROVE  k + k0 \in 1 .. Len(l.recs) /\ rest[k] \in Range(l.recs)
    <3>1. k + k0 \in 1 .. Len(l.recs)
      BY <1>1, <2>2, <2>3
    <3> QED BY <1>1, <2>3, <3>1, RangeSeq
  <2>5. ASSUME NEW k \in 1 .. Len(l.recs), ~(l.base + k <= index)
        PROVE  l.recs[k] \in Range(rest)
    <3>1. k - k0 \in 1 .. Len(rest) /\ l.recs[k] = rest[k - k0]
      BY <1>1, <2>2, <2>3, <2>5
    <3> QED BY <2>3, <3>1, RangeSeq
  <2>6. Range(rest) \subseteq Range(l.recs)
    BY <2>3, <2>4, RangeSeq
  <2>7. [base |-> l.base + k0, recs |-> rest] \in Logs
    BY <1>1, <2>2, <2>3 DEF Logs
  <2>8. \A k \in 1 .. Len(rest) : k + (l.base + k0) - l.base = k + k0
    BY <1>1, <2>2, <2>3
  <2> DEFINE m == EvictThrough(l, index)
  <2>9. m.base = l.base + k0 /\ m.recs = rest /\ m \in Logs
    BY <2>1, <2>7
  <2> HIDE DEF m
  <2>10. m.base >= l.base /\ LastIndex(m) = LastIndex(l)
    BY <1>1, <2>2, <2>3, <2>9 DEF LastIndex
  <2>11. ASSUME NEW k \in DOMAIN m.recs
         PROVE  /\ k + m.base - l.base \in DOMAIN l.recs
                /\ m.recs[k] = l.recs[k + m.base - l.base]
    BY <1>1, <2>3, <2>4, <2>8, <2>9
  <2> QED BY <1>1, <2>5, <2>6, <2>9, <2>10, <2>11 DEF m
<1> QED BY <1>2, <1>3

-----------------------------------------------------------------------------
(* Type correctness.                                                       *)

\* The records a turn or a self-check appends.
LEMMA RecordType ==
    ASSUME NEW c \in Command, NEW k \in Kinds, NEW s \in Nat, NEW b \in Bodies
    PROVE  /\ Record(c, k, s, b) \in Recs
           /\ Record(c, k, s, b) # Poison
           /\ Record(c, k, s, b).cmd = c
<1>1. c # 0
  BY BoundsAssumption DEF Command
<1> QED BY <1>1 DEF Record, Recs, Records, Poison

\* What a step that writes the outbox leaves in its variables.
LEMMA WriteType ==
    ASSUME TypeOK, NEW b \in Seq(Recs), NEW o, WriteStep(log, b, o), Write(o)
    PROVE  /\ log' = o.log /\ log' \in Logs
           /\ buffered' = o.buffered /\ buffered' \in Seq(Recs)
           /\ lost' \subseteq Recs /\ lost \subseteq lost'
           /\ faults' \in [FaultKinds -> Nat]
           /\ faults'["quarantine"] = 0 => o.fault # "quarantine" /\ faults["quarantine"] = 0
<1>1. /\ log' = o.log /\ log' \in Logs /\ buffered' = o.buffered /\ buffered' \in Seq(Recs)
  BY DEF Write, WriteStep
<1>2. log.recs \in Seq(Recs) /\ lost \subseteq Recs /\ faults \in [FaultKinds -> Nat]
  BY DEF TypeOK
<1>3. Range(log.recs) \subseteq Recs
  BY <1>2, RangeSeq
<1>4. lost' \subseteq Recs /\ lost \subseteq lost'
  BY <1>2, <1>3 DEF Write
<1>5. o.fault \in {"none", "write", "quarantine"}
  BY DEF WriteStep
<1>6. faults' \in [FaultKinds -> Nat]
  BY <1>2, <1>5 DEF Write, Spend, FaultKinds
<1>7. faults'["quarantine"] = 0 => o.fault # "quarantine" /\ faults["quarantine"] = 0
  BY <1>2, <1>5 DEF Write, Spend, FaultKinds
<1> QED BY <1>1, <1>4, <1>6, <1>7

\* The status of a command after a batch.
LEMMA StatusStep ==
    ASSUME NEW row \in Statuses, NEW es, NEW c
    PROVE  /\ StatusAfter(row, row, es, c) \in Statuses
           /\ row # "none" => StatusAfter(row, row, es, c) # "none"
           /\ row \in TerminalStatuses => StatusAfter(row, row, es, c) \in TerminalStatuses
           /\ ResultsOf(es, c) # {} /\ row # "none" =>
                StatusAfter(row, row, es, c) \in TerminalStatuses
BY DEF StatusAfter, TerminalUpdate, Outcome, Statuses, LiveStatuses, TerminalStatuses

\* The rows of a batch.
LEMMA RowsType ==
    ASSUME NEW es \in Seq(Recs)
    PROVE  RowsOf(es) \subseteq Command \X DataKinds \X Nat
<1>1. Range(es) \subseteq Recs
  BY RangeSeq
<1>2. ASSUME NEW r \in Accepted(es), r.kind \in DataKinds
      PROVE  Key(r) \in Command \X DataKinds \X Nat
  <2>1. r \in [cmd: Command, kind: Kinds, seq: Nat, body: Bodies]
    BY <1>1 DEF Accepted, Recs, Records
  <2> QED BY <1>2, <2>1 DEF Key
<1> QED BY <1>2 DEF RowsOf

TurnSet == [cmd: 0 .. MaxCommand, phase: Phases, orphans: SUBSET Command, event: Nat,
          progress: Nat, res: Bodies, tries: Nat]

Between == {"idle", "starting"}

Turns == {t \in TurnSet : t.phase \notin Between => t.cmd \in Command}

Calls == [st: {"idle", "sent", "replied"}, start: Nat, recs: Seq(Recs)]

\* The turn's and the call's values.
LEMMA TurnType ==
    ASSUME TypeOK
    PROVE  /\ IdleTurn \in Turns /\ IdleCall \in Calls
           /\ \A c \in Command : [IdleTurn EXCEPT !.cmd = c, !.phase = "barrier"] \in Turns
           /\ [IdleTurn EXCEPT !.phase = "starting"] \in Turns
           /\ turn.phase \notin Between =>
                /\ \A b \in Bodies, n \in Nat : Delivering(b, n) \in Turns
                /\ \A ph \in Phases : [turn EXCEPT !.phase = ph] \in Turns
                /\ \A ph \in Phases, os \in SUBSET Command :
                      /\ [turn EXCEPT !.phase = ph, !.orphans = os] \in Turns
                      /\ [turn EXCEPT !.orphans = os, !.phase = ph] \in Turns
                /\ \A k \in DataKinds : turn[k] \in Nat /\ [turn EXCEPT ![k] = @ + 1] \in Turns
<1>1. turn \in TurnSet /\ (turn.phase \notin Between => turn.cmd \in Command)
  BY DEF TypeOK, TurnSet, Between
<1>2. IdleTurn \in TurnSet /\ IdleTurn.phase = "idle" /\ IdleCall \in Calls
  BY BoundsAssumption DEF IdleTurn, IdleCall, TurnSet, Calls, Phases, Bodies
<1>3. \A c \in Command : [IdleTurn EXCEPT !.cmd = c, !.phase = "barrier"] \in Turns
  <2>1. \A c \in Command : c \in 0 .. MaxCommand
    BY BoundsAssumption DEF Command
  <2>2. \A c \in 0 .. MaxCommand :
           /\ [IdleTurn EXCEPT !.cmd = c, !.phase = "barrier"] \in TurnSet
           /\ [IdleTurn EXCEPT !.cmd = c, !.phase = "barrier"].cmd = c
    BY <1>2 DEF TurnSet, Phases
  <2> QED BY <2>1, <2>2 DEF Turns
<1>4. [IdleTurn EXCEPT !.phase = "starting"] \in Turns
  BY <1>2 DEF Turns, TurnSet, Phases, Between
<1>5. ASSUME turn.phase \notin Between PROVE turn.cmd \in Command
  BY <1>1, <1>5
<1>6. \A b \in Bodies, n \in Nat : Delivering(b, n) \in TurnSet /\ Delivering(b, n).cmd = turn.cmd
  BY <1>1 DEF TurnSet, Delivering, Phases
<1>7. \A ph \in Phases : /\ [turn EXCEPT !.phase = ph] \in TurnSet
                         /\ [turn EXCEPT !.phase = ph].cmd = turn.cmd
  BY <1>1 DEF TurnSet
<1>8. \A ph \in Phases, os \in SUBSET Command :
         /\ [turn EXCEPT !.phase = ph, !.orphans = os] \in TurnSet
         /\ [turn EXCEPT !.phase = ph, !.orphans = os].cmd = turn.cmd
         /\ [turn EXCEPT !.orphans = os, !.phase = ph] \in TurnSet
         /\ [turn EXCEPT !.orphans = os, !.phase = ph].cmd = turn.cmd
  BY <1>1 DEF TurnSet
<1>9. \A k \in DataKinds : /\ turn[k] \in Nat /\ [turn EXCEPT ![k] = @ + 1] \in TurnSet
                           /\ [turn EXCEPT ![k] = @ + 1].cmd = turn.cmd
  <2>1. /\ turn["event"] \in Nat /\ [turn EXCEPT !["event"] = @ + 1] \in TurnSet
        /\ [turn EXCEPT !["event"] = @ + 1].cmd = turn.cmd
    BY <1>1 DEF TurnSet
  <2>2. /\ turn["progress"] \in Nat /\ [turn EXCEPT !["progress"] = @ + 1] \in TurnSet
        /\ [turn EXCEPT !["progress"] = @ + 1].cmd = turn.cmd
    BY <1>1 DEF TurnSet
  <2> QED BY <2>1, <2>2 DEF DataKinds
<1>10. IdleTurn \in Turns
  BY <1>2 DEF Turns, Between
<1> QED BY <1>2, <1>3, <1>4, <1>5, <1>6, <1>7, <1>8, <1>9, <1>10 DEF Turns

\* Commands found by a scan of the log.
LEMMA GroupsType ==
    ASSUME NEW s \in Seq(Recs)
    PROVE  /\ CommandsOf(s) \subseteq Command
           /\ OrphanGroups(s) \subseteq CommandsOf(s)
           /\ \A c \in CommandsOf(s) : \E r \in Range(s) : r # Poison /\ r.cmd = c
<1>1. \A k \in DOMAIN s : s[k] \in Recs /\ s[k] \in Range(s)
  BY RangeSeq
<1> QED BY <1>1 DEF CommandsOf, OrphanGroups, Recs, Records

\* Applying a batch keeps the manager's variables well typed and closes or
\* stores nothing away.
LEMMA ApplyStep ==
    ASSUME TypeOK, NEW es \in Seq(Recs), ApplyBatch(es)
    PROVE  /\ stored' \subseteq Command \X DataKinds \X Nat /\ stored \subseteq stored'
           /\ status' \in [Command -> Statuses]
           /\ \A c \in Command :
                /\ status[c] # "none" => status'[c] # "none"
                /\ status[c] \in TerminalStatuses => status'[c] \in TerminalStatuses
<1>1. status \in [Command -> Statuses] /\ stored \subseteq Command \X DataKinds \X Nat
  BY DEF TypeOK
<1>2. status' = [c \in Command |-> StatusAfter(status[c], status[c], es, c)]
  BY DEF ApplyBatch
<1>3. stored' = stored \cup RowsOf(es)
  BY DEF ApplyBatch
<1> QED BY <1>1, <1>2, <1>3, StatusStep, RowsType

\* A step that appends a record to the outbox.
LEMMA AppendWrite ==
    ASSUME TypeOK, NEW r \in Recs, NEW o \in AppendOutcomes(log, buffered, r), Write(o)
    PROVE  /\ Append(buffered, r) \in Seq(Recs) /\ WriteStep(log, Append(buffered, r), o)
           /\ log' \in Logs /\ buffered' \in Seq(Recs) /\ lost' \subseteq Recs
           /\ faults' \in [FaultKinds -> Nat]
<1>1. log \in Logs /\ buffered \in Seq(Recs)
  BY DEF TypeOK, Logs
<1>2. Append(buffered, r) \in Seq(Recs) /\ WriteStep(log, Append(buffered, r), o)
  BY <1>1, AppendStep
<1> DEFINE b == Append(buffered, r)
<1> HIDE DEF b
<1>3. b \in Seq(Recs) /\ WriteStep(log, b, o)
  BY <1>2 DEF b
<1> QED BY <1>2, <1>3, WriteType

\* A log that has lost or torn records is still a log.
LEMMA LogType ==
    ASSUME NEW l \in Logs
    PROVE  /\ \A i \in Nat : EvictThrough(l, i) \in Logs
           /\ EnforceCap(l, Cap) \in Logs
           /\ Range(l.recs) \subseteq Recs
           /\ \A k \in DOMAIN l.recs :
                [base |-> l.base, recs |-> [l.recs EXCEPT ![k] = Poison]] \in Logs
<1>1. l.recs \in Seq(Recs) /\ l.base \in Nat /\ LastIndex(l) \in Nat
  BY DEF Logs, LastIndex
<1>2. \A i \in Nat : EvictThrough(l, i) \in Logs
  BY EvictStep
<1>3. EnforceCap(l, Cap) \in Logs
  BY <1>1, <1>2 DEF EnforceCap
<1>4. Range(l.recs) \subseteq Recs
  BY <1>1, RangeSeq
<1>5. \A k \in DOMAIN l.recs : [l.recs EXCEPT ![k] = Poison] \in Seq(Recs)
  <2>1. Poison \in Recs
    BY DEF Recs, Records
  <2> QED BY <1>1, <2>1
<1> QED BY <1>1, <1>2, <1>3, <1>4, <1>5 DEF Logs

\* The fold of a batch whose settled prefix has n records.
Evicts(boundary, n, due, fails) ==
    LET evicted == IF due /\ n > 0 /\ ~fails THEN EvictThrough(log, boundary) ELSE log
    IN  /\ IF fails THEN due /\ n > 0 /\ Spend("evict") ELSE UNCHANGED faults
        /\ log' = EnforceCap(evicted, Cap)
        /\ lost' = IF log' = evicted THEN lost ELSE lost \cup Range(evicted.recs)

Folds(n) ==
    LET boundary == call.start + n - 1
    IN  /\ readFrom' = IF n > 0 /\ boundary + 1 > readFrom THEN boundary + 1 ELSE readFrom
        /\ \E due \in BOOLEAN, fails \in BOOLEAN : Evicts(boundary, n, due, fails)

\* Fold takes a settled prefix of the batch, moves the cursor behind it, and
\* evicts at most that prefix before the cap is enforced.
LEMMA FoldStep ==
    ASSUME Fold
    PROVE  \E n \in 0 .. Len(call.recs) : Folds(n)
<1>1. PICK reply \in {Reply(call.recs)}, n \in 0 .. Len(call.recs) : Fold!2!(reply)!(n)
  BY DEF Fold
<1> DEFINE boundary == call.start + n - 1
<1>2. readFrom' = IF n > 0 /\ boundary + 1 > readFrom THEN boundary + 1 ELSE readFrom
  BY <1>1
<1>3. \E due \in BOOLEAN, fails \in BOOLEAN : Evicts(boundary, n, due, fails)
  <2>1. EvictDue(call.recs, n, reply) \in BOOLEAN
    BY DEF EvictDue
  <2>2. PICK due \in {EvictDue(call.recs, n, reply), TRUE}, fails \in BOOLEAN :
             \E evicted \in {IF due /\ n > 0 /\ ~fails THEN EvictThrough(log, boundary) ELSE log} :
                  /\ IF fails THEN due /\ n > 0 /\ Spend("evict") ELSE UNCHANGED faults
                  /\ log' = EnforceCap(evicted, Cap)
                  /\ lost' = IF log' = evicted THEN lost ELSE lost \cup Range(evicted.recs)
    BY <1>1
  <2>3. due \in BOOLEAN
    BY <2>1, <2>2
  <2>4. Evicts(boundary, n, due, fails)
    BY <2>2 DEF Evicts
  <2> QED BY <2>3, <2>4
<1> QED BY <1>2, <1>3 DEF Folds

\* Every step of the pipeline keeps the types.
LEMMA TypeStep ==
    ASSUME TypeOK, [Next]_vars
    PROVE  TypeOK'
<1>1. /\ log \in Logs /\ buffered \in Seq(Recs) /\ readFrom \in Nat /\ call \in Calls
      /\ stale \subseteq Seq(Recs) /\ turn \in Turns /\ status \in [Command -> Statuses]
      /\ stored \subseteq Command \X DataKinds \X Nat /\ sent \subseteq Recs /\ lost \subseteq Recs
      /\ faults \in [FaultKinds -> Nat]
  BY DEF TypeOK, Logs, Calls, Turns, TurnSet, Between
<1>2. SUFFICES
        /\ log' \in Logs /\ buffered' \in Seq(Recs) /\ readFrom' \in Nat /\ call' \in Calls
        /\ stale' \subseteq Seq(Recs) /\ turn' \in Turns /\ status' \in [Command -> Statuses]
        /\ stored' \subseteq Command \X DataKinds \X Nat /\ sent' \subseteq Recs /\ lost' \subseteq Recs
        /\ faults' \in [FaultKinds -> Nat]
  BY DEF TypeOK, Logs, Calls, Turns, TurnSet, Between
<1>3. ASSUME NEW f \in FaultKinds, Spend(f) PROVE faults' \in [FaultKinds -> Nat]
  BY <1>1, <1>3 DEF Spend
<1>4. ASSUME NEW c \in Command, Mint(c) PROVE status' \in [Command -> Statuses]
  BY <1>1, <1>4 DEF Mint, Statuses, LiveStatuses
<1>5. \A c \in Command : SyntheticTerminal(c) \in Recs
  BY RecordType DEF SyntheticTerminal, Kinds, Bodies
<1>6. CASE BeginSession
  BY <1>1, <1>4, <1>6, TurnType DEF BeginSession
<1>7. CASE BeginSessionLost
  BY <1>1, <1>3, <1>4, <1>7 DEF BeginSessionLost, machine, FaultKinds
<1>8. CASE BarrierPoll
  <2>1. PICK o \in FlushOutcomes(log, buffered) : BarrierPoll!2!(o)
    BY <1>8 DEF BarrierPoll
  <2>2. WriteStep(log, buffered, o) /\ Write(o)
    BY <1>1, <2>1, FlushStep
  <2>3. turn' \in Turns
    <3>1. o.log \in Logs
      BY <2>2 DEF WriteStep
    <3>2. ReadRecords(o.log, MaxBatch, 0) \in Seq(Recs)
      BY <3>1, BoundsAssumption, ReadStep
    <3>3. OrphanGroups(ReadRecords(o.log, MaxBatch, 0)) \ {turn.cmd} \subseteq Command
      BY <3>2, GroupsType
    <3>4. turn.phase \notin Between
      BY <1>8 DEF BarrierPoll, Between
    <3>5. /\ \A os \in SUBSET Command : [turn EXCEPT !.phase = "synthesize", !.orphans = os] \in Turns
          /\ Delivering("fail", 0) \in Turns /\ [turn EXCEPT !.phase = "running"] \in Turns
      BY <3>4, TurnType DEF Bodies, Phases
    <3> QED BY <1>1, <2>1, <3>3, <3>5
  <2> QED BY <1>1, <1>8, <2>2, <2>3, WriteType DEF BarrierPoll, manager
<1>9. CASE BarrierSynthesize
  <2>1. PICK c \in turn.orphans : \E o \in AppendOutcomes(log, buffered, SyntheticTerminal(c)) :
             /\ Write(o) /\ sent' = sent \cup {SyntheticTerminal(c)}
             /\ turn' = IF o.err THEN Delivering("fail", 0)
                        ELSE [turn EXCEPT !.orphans = @ \ {c},
                                          !.phase = IF turn.orphans = {c} THEN "barrier" ELSE @]
    BY <1>9 DEF BarrierSynthesize
  <2>2. c \in Command /\ SyntheticTerminal(c) \in Recs
    BY <1>1, <1>5 DEF Turns, TurnSet
  <2>4. turn' \in Turns
    <3>1. turn.phase \notin Between
      BY <1>9 DEF BarrierSynthesize, Between
    <3>2. /\ Delivering("fail", 0) \in Turns
          /\ \A ph \in Phases, os \in SUBSET Command :
                [turn EXCEPT !.orphans = os, !.phase = ph] \in Turns
      BY <3>1, TurnType DEF Bodies
    <3>3. turn.orphans \ {c} \in SUBSET Command /\ turn.phase \in Phases /\ "barrier" \in Phases
      BY <1>1 DEF Turns, TurnSet, Phases
    <3> QED BY <2>1, <3>2, <3>3
  <2>5. /\ log' \in Logs /\ buffered' \in Seq(Recs) /\ lost' \subseteq Recs
        /\ faults' \in [FaultKinds -> Nat]
    BY <2>1, <2>2, AppendWrite
  <2>6. sent' \subseteq Recs
    BY <1>1, <2>1, <2>2
  <2> QED BY <1>1, <1>9, <2>4, <2>5, <2>6 DEF BarrierSynthesize, manager
<1>10. CASE \E kind \in DataKinds : AppendRecord(kind)
  <2>1. PICK kind \in DataKinds : AppendRecord(kind)
    BY <1>10
  <2>2. PICK b \in DataBodies : \E o \in AppendOutcomes(log, buffered, Record(turn.cmd, kind, turn[kind] + 1, b)) :
             /\ Write(o) /\ sent' = sent \cup {Record(turn.cmd, kind, turn[kind] + 1, b)}
             /\ turn' \in IF o.err
                          THEN {Delivering("fail", 0), [turn EXCEPT ![kind] = @ + 1]}
                               \cup {Delivering(x, 1) : x \in ResultBodies}
                          ELSE {[turn EXCEPT ![kind] = @ + 1]}
    BY <2>1 DEF AppendRecord
  <2> DEFINE r == Record(turn.cmd, kind, turn[kind] + 1, b)
  <2>a. turn.phase \notin Between
    BY <2>1 DEF AppendRecord, Between
  <2>3. r \in Recs
    <3>1. turn.cmd \in Command /\ turn[kind] \in Nat /\ kind \in Kinds /\ b \in Bodies
      BY <1>1, <2>a, BoundsAssumption, TurnType DEF Turns, Kinds, Bodies
    <3> QED BY <3>1, RecordType
  <2> HIDE DEF r
  <2>4. turn' \in Turns
    <3>1. "fail" \in Bodies /\ 0 \in Nat /\ 1 \in Nat /\ ResultBodies \subseteq Bodies
      BY BoundsAssumption DEF Bodies
    <3>2. \A x \in Bodies, n \in Nat : Delivering(x, n) \in Turns
      BY <2>a, TurnType
    <3>3. Delivering("fail", 0) \in Turns
      BY <3>1, <3>2
    <3>4. \A x \in ResultBodies : Delivering(x, 1) \in Turns
      BY <3>1, <3>2
    <3>5. [turn EXCEPT ![kind] = @ + 1] \in Turns
      BY <2>a, TurnType
    <3> QED BY <2>2, <3>3, <3>4, <3>5
  <2>5. /\ log' \in Logs /\ buffered' \in Seq(Recs) /\ lost' \subseteq Recs
        /\ faults' \in [FaultKinds -> Nat] /\ sent' \subseteq Recs
    BY <1>1, <2>2, <2>3, AppendWrite DEF r
  <2> QED BY <1>1, <2>1, <2>4, <2>5 DEF AppendRecord, manager
<1>11. CASE FinishTurn
  <2>1. turn' \in Turns
    BY <1>11, BoundsAssumption, TurnType DEF FinishTurn, Bodies, Between
  <2> QED BY <1>1, <1>11, <2>1 DEF FinishTurn, manager
<1>12. CASE Deliver
  <2> DEFINE r == Record(turn.cmd, "result", 1, turn.res)
  <2>1. PICK o \in AppendOutcomes(log, buffered, r) :
             /\ Write(o) /\ sent' = sent \cup {r}
             /\ turn' = IF o.err THEN [turn EXCEPT !.phase = "bypass"] ELSE IdleTurn
    BY <1>12 DEF Deliver
  <2>2. r \in Recs
    <3>1. turn.cmd \in Command /\ turn.res \in Bodies
      BY <1>1, <1>12 DEF Deliver, Turns, TurnSet, Between
    <3> QED BY <3>1, RecordType DEF Kinds
  <2> HIDE DEF r
  <2>3. turn' \in Turns
    BY <1>12, <2>1, TurnType DEF Deliver, Phases, Between
  <2>4. /\ log' \in Logs /\ buffered' \in Seq(Recs) /\ lost' \subseteq Recs
        /\ faults' \in [FaultKinds -> Nat] /\ sent' \subseteq Recs
    BY <1>1, <2>1, <2>2, AppendWrite
  <2> QED BY <1>1, <1>12, <2>3, <2>4 DEF Deliver, manager
<1>13. CASE Bypass
  <2> DEFINE batch == <<Record(turn.cmd, "result", 1, turn.res)>>
             applied == [c \in Command |-> StatusAfter(status[c], status[c], batch, c)]
             again == IF turn.tries > 0 THEN Delivering(turn.res, turn.tries - 1) ELSE IdleTurn
  <2>1. applied \in [Command -> Statuses]
    BY <1>1, StatusStep
  <2>2. again \in Turns /\ IdleTurn \in Turns
    <3>1. turn.res \in Bodies /\ turn.tries \in Nat
      BY <1>1 DEF Turns, TurnSet
    <3>2. turn.tries > 0 => turn.tries - 1 \in Nat
      BY <3>1
    <3> QED BY <1>13, <3>1, <3>2, TurnType DEF Bypass, Between
  <2>3. status' \in {status, applied} /\ turn' \in {again, IdleTurn}
    BY <1>13 DEF Bypass
  <2>4. faults' \in [FaultKinds -> Nat]
    BY <1>1, <1>3, <1>13 DEF Bypass, FaultKinds
  <2> HIDE DEF batch, applied, again
  <2>5. status' \in [Command -> Statuses] /\ turn' \in Turns
    BY <1>1, <2>1, <2>2, <2>3
  <2> QED BY <1>1, <1>13, <2>4, <2>5 DEF Bypass
<1>14. CASE StartUpload
  <2>1. PICK o \in FlushOutcomes(log, buffered) :
             LET recs == ReadRecords(o.log, MaxBatch, readFrom)
             IN  /\ Write(o)
                 /\ IF o.err \/ recs = << >>
                      THEN buffered # << >> /\ UNCHANGED call
                      ELSE call' = [st |-> "sent", start |-> ReadStart(o.log, readFrom), recs |-> recs]
    BY <1>14 DEF StartUpload
  <2>2. WriteStep(log, buffered, o) /\ o.log \in Logs
    BY <1>1, <2>1, FlushStep DEF WriteStep
  <2>3. ReadRecords(o.log, MaxBatch, readFrom) \in Seq(Recs) /\ ReadStart(o.log, readFrom) \in Nat
    BY <1>1, <2>2, BoundsAssumption, ReadStep
  <2>4. call' \in Calls
    BY <1>1, <2>1, <2>3 DEF Calls
  <2>5. /\ log' \in Logs /\ buffered' \in Seq(Recs) /\ lost' \subseteq Recs
        /\ faults' \in [FaultKinds -> Nat]
    BY <1>1, <2>1, <2>2, WriteType
  <2> QED BY <1>1, <1>14, <2>4, <2>5 DEF StartUpload, manager
<1>15. CASE ManagerApply
  <2>1. call.recs \in Seq(Recs) /\ [call EXCEPT !.st = "replied"] \in Calls
    BY <1>1 DEF Calls
  <2>2. call' \in Calls
    BY <1>15, <2>1, TurnType DEF ManagerApply
  <2>3. stored' \subseteq Command \X DataKinds \X Nat /\ status' \in [Command -> Statuses]
    BY <1>1, <1>15, <2>1, ApplyStep DEF ManagerApply, manager
  <2> QED BY <1>1, <1>15, <2>2, <2>3 DEF ManagerApply
<1>16. CASE CallFails
  <2>1. call.recs \in Seq(Recs) /\ IdleCall \in Calls
    BY <1>1, TurnType DEF Calls
  <2>2. stale' \subseteq Seq(Recs)
    BY <1>1, <1>16, <2>1 DEF CallFails
  <2> QED BY <1>1, <1>3, <1>16, <2>1, <2>2 DEF CallFails, manager, FaultKinds
<1>17. CASE StaleApply
  <2>1. PICK batch \in stale : /\ stale' = stale \ {batch}
                              /\ IF BatchFails(batch) THEN UNCHANGED manager ELSE ApplyBatch(batch)
    BY <1>17 DEF StaleApply
  <2>2. stored' \subseteq Command \X DataKinds \X Nat /\ status' \in [Command -> Statuses]
    BY <1>1, <2>1, ApplyStep DEF manager
  <2> QED BY <1>1, <1>17, <2>1, <2>2 DEF StaleApply, machine
<1>18. CASE Fold
  <2>1. PICK n \in 0 .. Len(call.recs) : Folds(n)
    BY <1>18, FoldStep
  <2> DEFINE boundary == call.start + n - 1
  <2>2. call.start \in Nat /\ n \in Nat /\ (n > 0 => boundary \in Nat)
    <3>1. call.start \in Nat /\ Len(call.recs) \in Nat
      BY <1>1 DEF Calls
    <3> QED BY <3>1
  <2>3. readFrom' \in Nat
    BY <1>1, <2>1, <2>2 DEF Folds
  <2> HIDE DEF boundary
  <2>4. PICK due \in BOOLEAN, fails \in BOOLEAN : Evicts(boundary, n, due, fails)
    BY <2>1 DEF Folds, boundary
  <2> DEFINE evicted == IF due /\ n > 0 /\ ~fails THEN EvictThrough(log, boundary) ELSE log
  <2>5. evicted \in Logs
    BY <1>1, <2>2, LogType
  <2> HIDE DEF evicted
  <2>6. log' \in Logs /\ lost' \subseteq Recs
    BY <1>1, <2>4, <2>5, LogType DEF evicted, Evicts
  <2>7. faults' \in [FaultKinds -> Nat]
    BY <1>1, <1>3, <2>4 DEF FaultKinds, Evicts
  <2> QED BY <1>1, <1>18, <2>3, <2>6, <2>7, TurnType DEF Fold, manager
<1>19. CASE Restart
  <2>1. call.recs \in Seq(Recs) /\ IdleCall \in Calls
    BY <1>1, TurnType DEF Calls
  <2>a. << >> \in Seq(Recs)
    OBVIOUS
  <2>2. stale' \subseteq Seq(Recs)
    BY <1>1, <1>19, <2>1 DEF Restart
  <2>3. log' \in Logs
    BY <1>1, <1>19, AppendBatchStep DEF Restart
  <2>4. lost' \subseteq Recs
    BY <1>1, <1>19, RangeSeq DEF Restart
  <2> QED BY <1>1, <1>3, <1>19, <2>1, <2>a, <2>2, <2>3, <2>4, TurnType DEF Restart, manager, FaultKinds
<1>20. CASE SelfCheck
  <2> DEFINE all == log.recs \o buffered
  <2>1. all \in Seq(Recs)
    BY <1>1 DEF Logs
  <2> HIDE DEF all
  <2>2. turn' \in Turns
    BY <1>1, <1>20, TurnType DEF SelfCheck
  <2>3. CASE \E c \in OrphanGroups(all) : \E o \in AppendOutcomes(log, buffered, SyntheticTerminal(c)) :
                Write(o) /\ sent' = sent \cup {SyntheticTerminal(c)}
    <3>1. PICK c \in Command : \E o \in AppendOutcomes(log, buffered, SyntheticTerminal(c)) :
                Write(o) /\ sent' = sent \cup {SyntheticTerminal(c)}
      BY <2>1, <2>3, GroupsType
    <3>2. /\ log' \in Logs /\ buffered' \in Seq(Recs) /\ lost' \subseteq Recs
          /\ faults' \in [FaultKinds -> Nat] /\ sent' \subseteq Recs
      BY <1>1, <1>5, <3>1, AppendWrite
    <3> QED BY <1>1, <1>20, <2>2, <3>2 DEF SelfCheck, manager
  <2>4. CASE (\E o \in FlushOutcomes(log, buffered) : Write(o)) /\ sent' = sent
    <3>1. PICK o \in FlushOutcomes(log, buffered) : Write(o)
      BY <2>4
    <3>2. WriteStep(log, buffered, o)
      BY <1>1, FlushStep
    <3>3. /\ log' \in Logs /\ buffered' \in Seq(Recs) /\ lost' \subseteq Recs
          /\ faults' \in [FaultKinds -> Nat]
      BY <1>1, <3>1, <3>2, WriteType
    <3> QED BY <1>1, <1>20, <2>2, <2>4, <3>3 DEF SelfCheck, manager
  <2> QED BY <1>20, <2>3, <2>4 DEF SelfCheck, all
<1>21. CASE TornRecord
  <2>1. log' \in Logs /\ lost' \subseteq Recs
    <3>1. PICK k \in DOMAIN log.recs :
            /\ log' = [base |-> log.base, recs |-> [log.recs EXCEPT ![k] = Poison]]
            /\ lost' = lost \cup {log.recs[k]}
      BY <1>21 DEF TornRecord
    <3>2. log.recs \in Seq(Recs)
      BY <1>1 DEF Logs
    <3>3. log.recs[k] \in Recs
      BY <3>2
    <3>4. log' \in Logs
      BY <1>1, <3>1, LogType
    <3> QED BY <1>1, <3>1, <3>3, <3>4
  <2> QED BY <1>1, <1>3, <1>21, <2>1 DEF TornRecord, manager, FaultKinds
<1>22. CASE CancelCommand
  BY <1>1, <1>22 DEF CancelCommand, machine, Statuses, TerminalStatuses
<1>23. CASE UNCHANGED vars
  BY <1>1, <1>23 DEF vars
<1> QED BY <1>6, <1>7, <1>8, <1>9, <1>10, <1>11, <1>12, <1>13, <1>14, <1>15, <1>16, <1>17,
           <1>18, <1>19, <1>20, <1>21, <1>22, <1>23 DEF Next

(***************************************************************************)
(* Whatever the numbers of commands, records and faults: the outbox, the   *)
(* uploader's cursor and call, the turn and the manager's rows keep their  *)
(* shape, and every turn that runs belongs to a command.                   *)
(***************************************************************************)
THEOREM TypeCorrect == Spec => []TypeOK
<1>1. Init => TypeOK
  <2> SUFFICES ASSUME Init PROVE TypeOK
    OBVIOUS
  <2>1. TypeOK!1 /\ TypeOK!2 /\ TypeOK!3
    BY DEF Init, EmptyLog
  <2>2. TypeOK!4 /\ TypeOK!5
    BY DEF Init, IdleCall
  <2>3. turn \in TurnSet /\ turn.phase = "idle"
    BY BoundsAssumption DEF Init, IdleTurn, TurnSet, Phases, Bodies
  <2>4. status \in [Command -> Statuses]
    BY DEF Init, Statuses
  <2> QED BY <2>1, <2>2, <2>3, <2>4 DEF Init, TypeOK, TurnSet
<1>2. TypeOK /\ [Next]_vars => TypeOK'
  BY TypeStep
<1> QED BY <1>1, <1>2, PTL DEF Spec

-----------------------------------------------------------------------------
(* The inductive invariant.                                                *)

\* What the manager does never undoes what is done for a record.
ManagerGrows ==
    /\ stored \subseteq stored'
    /\ \A c \in Command : /\ status[c] # "none" => status'[c] # "none"
                          /\ status[c] \in TerminalStatuses => status'[c] \in TerminalStatuses

\* The manager forgets nothing: what is done stays done.
LEMMA DoneStable ==
    ASSUME ManagerGrows, NEW r \in Recs, Done(r)
    PROVE  Done(r)'
<1>1. r # Poison => r.cmd \in Command
  BY DEF Recs, Records
<1> QED BY <1>1 DEF Done, Persisted, ManagerGrows

\* Steps of the manager alone, and of the call.
LEMMA ManagerStep ==
    ASSUME TypeOK, PipelineInv, ManagerGrows,
           UNCHANGED <<log, buffered, readFrom, sent, lost>>,
           faults'["quarantine"] = faults["quarantine"]
    PROVE  /\ \A r \in sent' : r # Poison /\ status'[r.cmd] # "none"
           /\ NoSilentLoss'
           /\ CursorSettled'
           /\ faults'["quarantine"] = 0 => readFrom' <= LastIndex(log') + 1
           /\ faults'["quarantine"] = 0 /\ call' = call => CallSnapshot'
<1>1. sent \subseteq Recs /\ log.recs \in Seq(Recs) /\ call.recs \in Seq(Recs)
  BY DEF TypeOK
<1>2. \A r \in sent : r # Poison /\ status[r.cmd] # "none" /\ r.cmd \in Command
  BY <1>1 DEF PipelineInv, Provenance, Recs, Records
<1>3. \A r \in sent' : r # Poison /\ status'[r.cmd] # "none"
  BY <1>2 DEF ManagerGrows
<1>4. NoSilentLoss'
  BY <1>1, DoneStable DEF PipelineInv, NoSilentLoss
<1>5. \A k \in DOMAIN log.recs : log.recs[k] \in Recs
  BY <1>1
<1>6. \A k \in DOMAIN call.recs : call.recs[k] \in Recs
  BY <1>1
<1>7. CursorSettled'
  BY <1>5, DoneStable DEF PipelineInv, CursorSettled
<1>8. faults'["quarantine"] = 0 => readFrom' <= LastIndex(log') + 1
  BY DEF PipelineInv
<1>9. ASSUME faults'["quarantine"] = 0, call' = call PROVE CallSnapshot'
  BY <1>5, <1>6, <1>9, DoneStable DEF PipelineInv, CallSnapshot
<1> QED BY <1>3, <1>4, <1>7, <1>8, <1>9

\* The position in a log of n records of the k-th record of a batch.
LEMMA PositionInLog ==
    \A start, k, base, n \in Nat :
      start + k - 1 <= base + n /\ start + k - 1 > base => start + k - 1 - base \in 1 .. n
OBVIOUS

\* The position in a batch of a record of the log.
LEMMA PositionInBatch ==
    \A start, k, base, n, len \in Nat :
      k >= 1 /\ n <= len /\ base + k <= start + n - 1 /\ base + k >= start =>
        /\ base + k - start + 1 \in 1 .. len
        /\ start + (base + k - start + 1) - 1 = base + k
        /\ base + k > base
OBVIOUS

\* Steps that write the outbox: X is what they append.
LEMMA OutboxStep ==
    ASSUME TypeOK, PipelineInv,
           NEW X \in SUBSET Recs, NEW b \in Seq(Recs), NEW o,
           Range(b) = Range(buffered) \cup X, WriteStep(log, b, o), Write(o),
           sent' = sent \cup X,
           \A r \in X : r # Poison /\ status[r.cmd] # "none",
           UNCHANGED <<readFrom, status, stored>>
    PROVE  /\ Range(log'.recs) \cup Range(buffered') \cup Range(call.recs) \subseteq sent' \cup {Poison}
           /\ \A r \in sent' : r # Poison /\ status'[r.cmd] # "none"
           /\ NoSilentLoss'
           /\ CursorSettled'
           /\ faults'["quarantine"] = 0 => readFrom' <= LastIndex(log') + 1
           /\ faults'["quarantine"] = 0 /\ call' = call => CallSnapshot'
<1>1. /\ log \in Logs /\ log' \in Logs /\ log' = o.log /\ buffered' = o.buffered /\ lost \subseteq lost'
      /\ faults'["quarantine"] = 0 => o.fault # "quarantine" /\ faults["quarantine"] = 0
  <2>1. log \in Logs
    BY DEF TypeOK, Logs
  <2> QED BY <2>1, WriteType
<1>2. /\ log.recs \in Seq(Recs) /\ log'.recs \in Seq(Recs) /\ log.base \in Nat /\ log'.base \in Nat
      /\ DOMAIN log.recs = 1 .. Len(log.recs) /\ DOMAIN log'.recs = 1 .. Len(log'.recs)
      /\ Len(log.recs) \in Nat /\ Len(log'.recs) \in Nat
  BY <1>1 DEF Logs
<1>3. Range(log'.recs) \cup Range(buffered') \cup Range(call.recs) \subseteq sent' \cup {Poison}
  BY <1>1 DEF WriteStep, PipelineInv, Provenance
<1>4. \A r \in sent' : r # Poison /\ status'[r.cmd] # "none"
  BY DEF PipelineInv, Provenance
<1>5. \A r : Done(r) => Done(r)'
  BY DEF Done, Persisted
<1>6. ASSUME faults'["quarantine"] = 0
      PROVE  /\ log'.base = log.base /\ Len(log.recs) <= Len(log'.recs)
             /\ \A k \in 1 .. Len(log.recs) : log'.recs[k] = log.recs[k]
             /\ Range(log.recs) \cup Range(b) \subseteq Range(log'.recs) \cup Range(buffered')
             /\ LastIndex(log) <= LastIndex(log')
             /\ readFrom \in Nat /\ readFrom <= LastIndex(log) + 1
  <2>1. o.fault # "quarantine" /\ faults["quarantine"] = 0
    BY <1>1, <1>6
  <2>2. /\ log'.base = log.base /\ Len(log.recs) <= Len(log'.recs)
        /\ \A k \in 1 .. Len(log.recs) : log'.recs[k] = log.recs[k]
        /\ Range(log.recs) \cup Range(b) \subseteq Range(log'.recs) \cup Range(buffered')
    BY <1>1, <1>2, <2>1 DEF WriteStep
  <2>3. LastIndex(log) <= LastIndex(log')
    BY <1>2, <2>2 DEF LastIndex
  <2> QED BY <2>1, <2>2, <2>3 DEF PipelineInv, TypeOK
<1>7. NoSilentLoss'
  <2> SUFFICES ASSUME faults'["quarantine"] = 0, NEW r \in sent'
               PROVE  Done(r)' \/ r \in lost' \cup Range(log'.recs) \cup Range(buffered')
    BY DEF NoSilentLoss
  <2>1. CASE r \in X
    BY <1>6, <2>1
  <2>2. CASE r \in sent
    <3>1. Done(r) \/ r \in lost \cup Range(log.recs) \cup Range(buffered)
      BY <1>1, <2>2 DEF PipelineInv, NoSilentLoss
    <3> QED BY <1>1, <1>5, <1>6, <3>1
  <2> QED BY <2>1, <2>2
<1>8. ASSUME faults'["quarantine"] = 0, NEW j \in Nat, j <= LastIndex(log) + 1,
             \A k \in DOMAIN log.recs : log.base + k < j => Done(log.recs[k]),
             NEW k \in DOMAIN log'.recs, log'.base + k < j
      PROVE  Done(log.recs[k])'
  <2>1. k \in 1 .. Len(log.recs)
    BY <1>2, <1>6, <1>8 DEF LastIndex
  <2> QED BY <1>2, <1>5, <1>6, <1>8, <2>1
<1>9. CursorSettled'
  <2> SUFFICES ASSUME faults'["quarantine"] = 0, NEW k \in DOMAIN log'.recs, log'.base + k < readFrom
               PROVE  Done(log.recs[k])'
    BY DEF CursorSettled
  <2>1. \A i \in DOMAIN log.recs : log.base + i < readFrom => Done(log.recs[i])
    BY <1>1 DEF PipelineInv, CursorSettled
  <2> QED BY <1>6, <1>8, <2>1
<1>10. faults'["quarantine"] = 0 => readFrom' <= LastIndex(log') + 1
  <2>1. LastIndex(log) \in Nat /\ LastIndex(log') \in Nat
    BY <1>2 DEF LastIndex
  <2> QED BY <1>6, <2>1
<1>11. ASSUME faults'["quarantine"] = 0, call' = call PROVE CallSnapshot'
  <2> SUFFICES ASSUME call.st # "idle" PROVE CallSnapshot'
    BY <1>11 DEF CallSnapshot
  <2>1. CallSnapshot
    BY <1>1, <1>11 DEF PipelineInv
  <2>2. call.start \in Nat /\ LastIndex(log) \in Nat /\ LastIndex(log') \in Nat
        /\ DOMAIN call.recs \subseteq Nat
    <3>1. call.start \in Nat /\ call.recs \in Seq(Recs)
      BY DEF TypeOK
    <3> QED BY <1>2, <3>1, SMTT(20) DEF LastIndex
  <2>3. call.start <= LastIndex(log') + 1
    BY <1>6, <1>11, <2>1, <2>2 DEF CallSnapshot
  <2>4. ASSUME NEW k \in DOMAIN call.recs
        PROVE  /\ call.start + k - 1 <= LastIndex(log')
               /\ call.start + k - 1 > log'.base =>
                    log'.recs[call.start + k - 1 - log'.base] = call.recs[k]
    <3>1. /\ call.start + k - 1 <= LastIndex(log)
          /\ call.start + k - 1 > log.base =>
               log.recs[call.start + k - 1 - log.base] = call.recs[k]
      BY <2>1 DEF CallSnapshot
    <3>2. call.start + k - 1 > log.base => call.start + k - 1 - log.base \in 1 .. Len(log.recs)
      <4>1. k \in Nat /\ LastIndex(log) = log.base + Len(log.recs)
        BY <2>2 DEF LastIndex
      <4> QED BY <1>2, <2>2, <3>1, <4>1, PositionInLog
    <3>3. call.start + k - 1 <= LastIndex(log')
      BY <1>6, <1>11, <2>2, <3>1
    <3> QED BY <1>6, <1>11, <3>1, <3>2, <3>3
  <2>5. ASSUME NEW k \in DOMAIN log'.recs, log'.base + k < call.start
        PROVE  Done(log.recs[k])'
    <3>1. /\ call.start <= LastIndex(log) + 1
          /\ \A i \in DOMAIN log.recs : log.base + i < call.start => Done(log.recs[i])
      BY <2>1 DEF CallSnapshot
    <3> QED BY <1>8, <1>11, <2>2, <2>5, <3>1
  <2>6. call.st = "replied" => \A k \in DOMAIN call.recs : Done(call.recs[k])'
    BY <1>5, <1>11, <2>1 DEF CallSnapshot
  <2> QED BY <1>11, <2>3, <2>4, <2>5, <2>6 DEF CallSnapshot
<1> QED BY <1>3, <1>4, <1>7, <1>9, <1>10, <1>11

\* m is what remains of the log l after records left it at its front.
Suffix(l, m) ==
    /\ m \in Logs /\ m.base >= l.base /\ LastIndex(m) = LastIndex(l)
    /\ Range(m.recs) \subseteq Range(l.recs)
    /\ \A k \in DOMAIN m.recs :
         /\ k + m.base - l.base \in DOMAIN l.recs
         /\ m.recs[k] = l.recs[k + m.base - l.base]

\* A log is a suffix of itself.
LEMMA SuffixReflexive ==
    ASSUME NEW l \in Logs
    PROVE  Suffix(l, l)
<1>1. l.base \in Nat /\ l.recs \in Seq(Recs)
  BY DEF Logs
<1>2. \A k \in DOMAIN l.recs : k + l.base - l.base = k
  BY <1>1
<1> QED BY <1>1, <1>2 DEF Suffix

\* Eviction and the cap one after the other still leave a suffix.
LEMMA SuffixTransitive ==
    ASSUME NEW l \in Logs, NEW m \in Logs, NEW n \in Logs, Suffix(l, m), Suffix(m, n)
    PROVE  Suffix(l, n)
<1>1. l.base \in Nat /\ m.base \in Nat /\ n.base \in Nat /\ n.recs \in Seq(Recs)
  BY DEF Logs
<1>2. n \in Logs /\ n.base >= l.base /\ LastIndex(n) = LastIndex(l) /\ Range(n.recs) \subseteq Range(l.recs)
  BY <1>1 DEF Suffix
<1>3. ASSUME NEW k \in DOMAIN n.recs
      PROVE  k + n.base - l.base \in DOMAIN l.recs /\ n.recs[k] = l.recs[k + n.base - l.base]
  <2> DEFINE j == k + n.base - m.base
  <2>1. j \in DOMAIN m.recs /\ n.recs[k] = m.recs[j]
    BY DEF Suffix
  <2>2. j + m.base - l.base = k + n.base - l.base
    BY <1>1, <1>3
  <2> HIDE DEF j
  <2>3. j + m.base - l.base \in DOMAIN l.recs /\ m.recs[j] = l.recs[j + m.base - l.base]
    BY <2>1 DEF Suffix
  <2> QED BY <2>1, <2>2, <2>3
<1> QED BY <1>2, <1>3 DEF Suffix

\* The turn after a step that does not start one.
SameTurn(t) == /\ t.phase \notin Between => turn.phase \notin Between /\ t.cmd = turn.cmd
               /\ t.orphans \subseteq turn.orphans
               /\ t.phase = "starting" => turn.phase = "starting"

\* Delivering or counting a record keeps the command of the turn.
LEMMA TurnKept ==
    ASSUME TypeOK
    PROVE  /\ SameTurn(turn) /\ SameTurn(IdleTurn)
           /\ turn.phase \notin Between =>
                /\ \A b \in Bodies, n \in Nat : SameTurn(Delivering(b, n))
                /\ \A ph \in Phases \ Between : SameTurn([turn EXCEPT !.phase = ph])
                /\ \A k \in DataKinds : SameTurn([turn EXCEPT ![k] = @ + 1])
<1>1. turn \in TurnSet
  BY DEF TypeOK, TurnSet
<1>2. SameTurn(turn)
  BY DEF SameTurn
<1>3. SameTurn(IdleTurn)
  BY DEF SameTurn, IdleTurn, Between
<1>4. ASSUME turn.phase \notin Between
      PROVE  \A b \in Bodies, n \in Nat : SameTurn(Delivering(b, n))
  BY <1>1, <1>4 DEF SameTurn, Delivering, TurnSet
<1>5. ASSUME turn.phase \notin Between
      PROVE  \A ph \in Phases \ Between : SameTurn([turn EXCEPT !.phase = ph])
  BY <1>1, <1>5 DEF SameTurn, TurnSet, Between
<1>6. ASSUME turn.phase \notin Between
      PROVE  \A k \in DataKinds : SameTurn([turn EXCEPT ![k] = @ + 1])
  BY <1>1, <1>6 DEF SameTurn, TurnSet, DataKinds
<1> QED BY <1>2, <1>3, <1>4, <1>5, <1>6

\* Once a batch is applied, nothing more has to be done for its records.
LEMMA AppliedDone ==
    ASSUME TypeOK, NEW es \in Seq(Recs), ApplyBatch(es), NEW k \in DOMAIN es,
           es[k] # Poison => status[es[k].cmd] # "none"
    PROVE  Done(es[k])'
<1> DEFINE r == es[k]
<1>1. r \in Recs /\ r \in Range(es) /\ k \in DOMAIN es
  BY RangeSeq
<1>2. CASE r = Poison \/ Refused(r)
  BY <1>2 DEF Done
<1>3. CASE r # Poison /\ ~Refused(r) /\ r.kind \in DataKinds
  <2>1. Key(r) \in RowsOf(es)
    BY <1>1, <1>3 DEF RowsOf, Accepted
  <2>2. Key(r) \in stored'
    BY <2>1 DEF ApplyBatch
  <2> QED BY <1>3, <2>2 DEF Done, Persisted
<1>4. CASE r # Poison /\ ~Refused(r) /\ r.kind \notin DataKinds
  <2>1. r.kind = "result" /\ r.cmd \in Command
    BY <1>1, <1>4 DEF Recs, Records, Kinds
  <2>2. k \in ResultsOf(es, r.cmd)
    BY <1>1, <1>4, <2>1 DEF ResultsOf
  <2>3. status[r.cmd] \in Statuses /\ status[r.cmd] # "none"
    BY <1>4, <2>1 DEF TypeOK
  <2>4. StatusAfter(status[r.cmd], status[r.cmd], es, r.cmd) \in TerminalStatuses
    BY <2>2, <2>3, StatusStep
  <2>5. status'[r.cmd] \in TerminalStatuses
    BY <2>1, <2>4 DEF ApplyBatch
  <2> QED BY <1>4, <2>5 DEF Done, Persisted
<1> QED BY <1>2, <1>3, <1>4

\* What the settled prefix of a batch covers is done.
LEMMA FoldedDone ==
    ASSUME TypeOK, PipelineInv, call.st = "replied", faults["quarantine"] = 0,
           NEW n \in 1 .. Len(call.recs)
    PROVE  /\ call.start + n - 1 <= LastIndex(log)
           /\ \A k \in DOMAIN log.recs : log.base + k <= call.start + n - 1 => Done(log.recs[k])
<1> DEFINE boundary == call.start + n - 1
<1>1. /\ call.start \in Nat /\ n \in Nat /\ call.recs \in Seq(Recs)
      /\ DOMAIN call.recs = 1 .. Len(call.recs) /\ Len(call.recs) \in Nat
  <2>1. call.start \in Nat /\ call.recs \in Seq(Recs)
    BY DEF TypeOK
  <2> QED BY <2>1
<1>2. /\ log.base \in Nat /\ log.recs \in Seq(Recs) /\ DOMAIN log.recs = 1 .. Len(log.recs)
      /\ Len(log.recs) \in Nat
  BY DEF TypeOK
<1>3. CallSnapshot
  BY DEF PipelineInv
<1>4. boundary <= LastIndex(log)
  BY <1>1, <1>3 DEF CallSnapshot
<1>5. ASSUME NEW k \in DOMAIN log.recs, log.base + k <= boundary PROVE Done(log.recs[k])
  <2>1. CASE log.base + k < call.start
    BY <1>3, <2>1 DEF CallSnapshot
  <2>2. CASE log.base + k >= call.start
    <3> DEFINE j == log.base + k - call.start + 1
    <3>1. /\ k \in Nat /\ k >= 1 /\ n <= Len(call.recs) /\ log.base + k <= call.start + n - 1
          /\ log.base + k >= call.start
      BY <1>1, <1>2, <1>5, <2>2
    <3>2. j \in DOMAIN call.recs /\ call.start + j - 1 = log.base + k /\ log.base + k > log.base
      <4>1. /\ log.base + k - call.start + 1 \in 1 .. Len(call.recs)
            /\ call.start + (log.base + k - call.start + 1) - 1 = log.base + k
            /\ log.base + k > log.base
        BY <1>1, <1>2, <3>1, PositionInBatch
      <4> QED BY <1>1, <4>1
    <3>3. call.start + j - 1 - log.base = k
      BY <1>1, <1>2, <3>1
    <3> HIDE DEF j
    <3>4. log.recs[call.start + j - 1 - log.base] = call.recs[j] /\ Done(call.recs[j])
      BY <1>3, <3>2 DEF CallSnapshot
    <3> QED BY <3>3, <3>4
  <2> QED BY <1>1, <1>2, <2>1, <2>2
<1> QED BY <1>4, <1>5

\* An eviction moves the base at most to its index.
LEMMA EvictBase ==
    ASSUME NEW l \in Logs, NEW index \in Nat
    PROVE  EvictThrough(l, index) = l \/ EvictThrough(l, index).base <= index
<1>1. l.base \in Nat /\ Len(l.recs) \in Nat
  BY DEF Logs
<1> QED BY <1>1 DEF EvictThrough, LastIndex

\* A fold only drops records from the front of the log: those that are done,
\* or all of them at the cap.
LEMMA FoldDrops ==
    ASSUME TypeOK, PipelineInv, Fold
    PROVE  /\ call.st = "replied" /\ call' = IdleCall
           /\ UNCHANGED <<buffered, stale, turn, status, stored, sent>>
           /\ \A f \in {"torn", "write", "quarantine"} : faults'[f] = faults[f]
           /\ Suffix(log, log') /\ lost \subseteq lost'
           /\ faults["quarantine"] = 0 =>
                \A k \in DOMAIN log.recs :
                  log.base + k <= log'.base => Done(log.recs[k]) \/ log.recs[k] \in lost'
<1>1. log \in Logs /\ faults \in [FaultKinds -> Nat]
  BY DEF TypeOK, Logs
<1>2. PICK n \in 0 .. Len(call.recs) : Folds(n)
  BY FoldStep
<1> DEFINE boundary == call.start + n - 1
<1>3. n \in Nat /\ (n > 0 => boundary \in Nat /\ n \in 1 .. Len(call.recs))
  <2>1. call.start \in Nat /\ call.recs \in Seq(Recs)
    BY DEF TypeOK
  <2> QED BY <2>1
<1>4. PICK due \in BOOLEAN, fails \in BOOLEAN : Evicts(boundary, n, due, fails)
  BY <1>2 DEF Folds
<1>5. call.st = "replied" /\ call' = IdleCall /\ UNCHANGED <<buffered, stale, turn, status, stored, sent>>
  BY DEF Fold, manager
<1>6. \A f \in {"torn", "write", "quarantine"} : faults'[f] = faults[f]
  BY <1>1, <1>4 DEF Evicts, Spend, FaultKinds
<1>7. /\ log.base \in Nat /\ log.recs \in Seq(Recs) /\ DOMAIN log.recs = 1 .. Len(log.recs)
      /\ Len(log.recs) \in Nat
  BY <1>1 DEF Logs
<1> DEFINE evicted == IF due /\ n > 0 /\ ~fails THEN EvictThrough(log, boundary) ELSE log
<1>8. /\ log' = EnforceCap(evicted, Cap)
      /\ lost' = IF log' = evicted THEN lost ELSE lost \cup Range(evicted.recs)
  BY <1>4 DEF Evicts
<1>9. /\ evicted \in Logs /\ Suffix(log, evicted)
      /\ evicted = log \/ (n > 0 /\ evicted.base <= boundary)
      /\ \A k \in DOMAIN log.recs :
           (n > 0 /\ log.base + k <= boundary) \/ log.recs[k] \in Range(evicted.recs)
  <2>1. CASE due /\ n > 0 /\ ~fails
    <3>1. evicted = EvictThrough(log, boundary) /\ boundary \in Nat
      BY <1>3, <2>1
    <3> HIDE DEF evicted, boundary
    <3>2. evicted = log \/ evicted.base <= boundary
      BY <1>1, <3>1, EvictBase
    <3>3. /\ evicted \in Logs /\ Suffix(log, evicted)
          /\ \A k \in DOMAIN log.recs : log.base + k <= boundary \/ log.recs[k] \in Range(evicted.recs)
      BY <1>1, <3>1, EvictStep DEF Suffix
    <3> QED BY <2>1, <3>2, <3>3
  <2>2. CASE ~(due /\ n > 0 /\ ~fails)
    <3>1. evicted = log
      BY <2>2
    <3> HIDE DEF evicted, boundary
    <3>2. \A k \in DOMAIN log.recs : log.recs[k] \in Range(log.recs)
      BY <1>7, RangeSeq
    <3> QED BY <1>1, <3>1, <3>2, SuffixReflexive
  <2> QED BY <2>1, <2>2
<1> HIDE DEF evicted
<1>10. log' \in Logs /\ Suffix(evicted, log')
  <2>1. LastIndex(evicted) \in Nat
    BY <1>9 DEF Logs, LastIndex
  <2>2. Suffix(evicted, EvictThrough(evicted, LastIndex(evicted)))
    BY <1>9, <2>1, EvictStep DEF Suffix
  <2>3. Suffix(evicted, evicted)
    BY <1>9, SuffixReflexive
  <2>4. log' \in {evicted, EvictThrough(evicted, LastIndex(evicted))}
    BY <1>8 DEF EnforceCap
  <2> QED BY <2>2, <2>3, <2>4 DEF Suffix
<1>11. Suffix(log, log')
  BY <1>1, <1>9, <1>10, SuffixTransitive
<1>12. ASSUME faults["quarantine"] = 0, NEW k \in DOMAIN log.recs, log.base + k <= log'.base
       PROVE  Done(log.recs[k]) \/ log.recs[k] \in lost'
  <2>1. n > 0 /\ log.base + k <= boundary => Done(log.recs[k])
    BY <1>3, <1>5, <1>12, FoldedDone
  <2> HIDE DEF boundary
  <2>2. CASE log' = evicted
    <3>1. evicted # log
      BY <1>7, <1>12, <2>2
    <3>2. n > 0 /\ log.base + k <= boundary
      <4>1. n > 0 /\ evicted.base <= boundary /\ boundary \in Nat /\ evicted.base \in Nat
        BY <1>3, <1>9, <3>1 DEF Logs, boundary
      <4> QED BY <1>7, <1>12, <2>2, <4>1
    <3> QED BY <2>1, <3>2
  <2>3. CASE log' # evicted
    BY <1>8, <1>9, <2>1, <2>3
  <2> QED BY <2>2, <2>3
<1>13. lost \subseteq lost'
  BY <1>8
<1> QED BY <1>5, <1>6, <1>11, <1>12, <1>13

\* The position in the rest of a log of a record that was not dropped.
LEMMA PositionInRest ==
    \A a, b, k, m, n \in Nat :
      k <= m /\ a + m = b + n /\ a + k > b =>
        a + k - b \in 1 .. n /\ (a + k - b) + b - a = k
OBVIOUS

\* Where the records of a log are in what remains of it.
LEMMA SuffixPositions ==
    ASSUME NEW l \in Logs, NEW m \in Logs, Suffix(l, m), NEW k \in DOMAIN l.recs, l.base + k > m.base
    PROVE  l.base + k - m.base \in DOMAIN m.recs /\ m.recs[l.base + k - m.base] = l.recs[k]
<1> DEFINE i == l.base + k - m.base
<1>1. /\ l.base \in Nat /\ m.base \in Nat /\ Len(l.recs) \in Nat /\ Len(m.recs) \in Nat
      /\ DOMAIN l.recs = 1 .. Len(l.recs) /\ DOMAIN m.recs = 1 .. Len(m.recs)
  BY DEF Logs
<1>2. l.base + Len(l.recs) = m.base + Len(m.recs)
  BY DEF Suffix, LastIndex
<1>3. i \in DOMAIN m.recs /\ i + m.base - l.base = k
  <2>1. PICK x, y, u, v \in Nat : x = l.base /\ y = m.base /\ u = Len(l.recs) /\ v = Len(m.recs)
    BY <1>1
  <2>2. k \in Nat /\ k <= u /\ x + u = y + v /\ x + k > y
    BY <1>1, <1>2, <2>1
  <2>3. x + k - y \in 1 .. v /\ (x + k - y) + y - x = k
    BY <2>2, PositionInRest
  <2> QED BY <1>1, <2>1, <2>3
<1> HIDE DEF i
<1>4. m.recs[i] = l.recs[i + m.base - l.base]
  BY <1>3 DEF Suffix
<1> QED BY <1>3, <1>4 DEF i

\* Every step of the pipeline preserves the inductive invariant.
LEMMA InvStep ==
    ASSUME TypeOK, PipelineInv, [Next]_vars
    PROVE  PipelineInv'
<1>1. /\ log \in Logs /\ buffered \in Seq(Recs) /\ readFrom \in Nat /\ call \in Calls
      /\ stale \subseteq Seq(Recs) /\ turn \in Turns /\ status \in [Command -> Statuses]
      /\ stored \subseteq Command \X DataKinds \X Nat /\ sent \subseteq Recs /\ lost \subseteq Recs
      /\ faults \in [FaultKinds -> Nat]
  BY DEF TypeOK, Logs, Calls, Turns, TurnSet, Between
<1>2. /\ Range(log.recs) \cup Range(buffered) \cup Range(call.recs) \subseteq sent \cup {Poison}
      /\ \A r \in sent : r # Poison /\ status[r.cmd] # "none"
      /\ turn.phase \notin Between => status[turn.cmd] # "none" /\ turn.cmd \in Command
      /\ \A c \in turn.orphans : status[c] # "none" /\ c \in Command
      /\ turn.phase = "starting" => call.st = "idle"
  BY <1>1 DEF PipelineInv, Provenance, Turns, TurnSet, Between
<1> DEFINE TurnOK == /\ turn'.phase \notin Between => status'[turn'.cmd] # "none"
                     /\ \A c \in turn'.orphans : status'[c] # "none"
                     /\ turn'.phase = "starting" => call'.st = "idle"
           Goal == /\ Range(log'.recs) \cup Range(buffered') \cup Range(call'.recs)
                        \subseteq sent' \cup {Poison}
                   /\ \A r \in sent' : r # Poison /\ status'[r.cmd] # "none"
                   /\ NoSilentLoss'
                   /\ CursorSettled'
                   /\ faults'["quarantine"] = 0 => readFrom' <= LastIndex(log') + 1
                   /\ faults'["quarantine"] = 0 => CallSnapshot'
                   /\ TurnOK
<1>3. SUFFICES Goal
  BY DEF PipelineInv, Provenance, Between
<1>4. ASSUME SameTurn(turn'), ManagerGrows, call' = call \/ call'.st = "idle" \/ turn.phase # "starting"
      PROVE  TurnOK
  BY <1>2, <1>4 DEF SameTurn, ManagerGrows
<1>5. ASSUME UNCHANGED <<status, stored>> PROVE ManagerGrows
  BY <1>5 DEF ManagerGrows
<1>6. ASSUME NEW c \in Command, Mint(c), UNCHANGED stored PROVE ManagerGrows /\ status'[c] # "none"
  BY <1>1, <1>6 DEF ManagerGrows, Mint, TerminalStatuses
<1>7. IdleCall.st = "idle" /\ Range(IdleCall.recs) = {}
  BY DEF IdleCall, Range
<1>8. call'.st = "idle" => CallSnapshot'
  BY DEF CallSnapshot
<1> HIDE DEF TurnOK
<1>9. CASE BeginSession
  <2>1. PICK c \in Command : Mint(c) /\ turn' = [IdleTurn EXCEPT !.cmd = c, !.phase = "barrier"]
    BY <1>9 DEF BeginSession
  <2>2. UNCHANGED <<log, buffered, readFrom, call, stale, stored, sent, lost, faults>>
    BY <1>9 DEF BeginSession
  <2>3. ManagerGrows /\ status'[c] # "none"
    BY <1>6, <2>1, <2>2
  <2>4. turn'.cmd = c /\ turn'.orphans = {} /\ turn'.phase = "barrier"
    BY <2>1 DEF IdleTurn
  <2>5. TurnOK
    BY <2>3, <2>4 DEF TurnOK
  <2> QED BY <1>2, <2>2, <2>3, <2>5, ManagerStep
<1>10. CASE BeginSessionLost
  <2>1. UNCHANGED <<log, buffered, readFrom, call, turn, stored, sent, lost>> /\ ManagerGrows
    BY <1>6, <1>10 DEF BeginSessionLost, machine
  <2>2. faults'["quarantine"] = faults["quarantine"]
    BY <1>1, <1>10 DEF BeginSessionLost, Spend, FaultKinds
  <2>3. TurnOK
    BY <1>4, <2>1, TurnKept
  <2> QED BY <1>2, <2>1, <2>2, <2>3, ManagerStep
<1>11. CASE BarrierPoll
  <2>1. PICK o \in FlushOutcomes(log, buffered) : BarrierPoll!2!(o)
    BY <1>11 DEF BarrierPoll
  <2>2. UNCHANGED <<readFrom, call, status, stored, sent>> /\ Write(o)
    BY <1>11, <2>1 DEF BarrierPoll, manager
  <2>3. WriteStep(log, buffered, o)
    BY <1>1, FlushStep
  <2>4. /\ Range(log'.recs) \cup Range(buffered') \cup Range(call.recs) \subseteq sent' \cup {Poison}
        /\ \A r \in sent' : r # Poison /\ status'[r.cmd] # "none"
        /\ NoSilentLoss' /\ CursorSettled'
        /\ faults'["quarantine"] = 0 => readFrom' <= LastIndex(log') + 1
        /\ faults'["quarantine"] = 0 /\ call' = call => CallSnapshot'
    <3>1. {} \in SUBSET Recs /\ Range(buffered) = Range(buffered) \cup {} /\ sent' = sent \cup {}
      BY <2>2
    <3> HIDE DEF Write
    <3> QED BY <1>1, <2>2, <2>3, <3>1, OutboxStep
  <2>5. TurnOK
    <3>1. turn.phase = "barrier" /\ turn.phase \notin Between
      BY <1>11 DEF BarrierPoll, Between
    <3> DEFINE os == OrphanGroups(ReadRecords(o.log, MaxBatch, 0)) \ {turn.cmd}
    <3>2. CASE turn' = [turn EXCEPT !.phase = "synthesize", !.orphans = os]
      <4>1. turn'.cmd = turn.cmd /\ turn'.phase = "synthesize" /\ turn'.orphans = os
        BY <1>1, <3>2 DEF Turns, TurnSet
      <4>2. o.log \in Logs /\ log' = o.log
        BY <2>2, <2>3 DEF WriteStep, Write
      <4>3. /\ ReadRecords(o.log, MaxBatch, 0) \in Seq(Recs)
            /\ Range(ReadRecords(o.log, MaxBatch, 0)) \subseteq Range(o.log.recs)
        BY <4>2, BoundsAssumption, ReadStep
      <4>4. \A c \in os : \E r \in Range(log'.recs) : r # Poison /\ r.cmd = c
        BY <4>2, <4>3, GroupsType
      <4>5. \A c \in os : status'[c] # "none"
        BY <2>4, <4>4
      <4> QED BY <1>2, <2>2, <3>1, <4>1, <4>5 DEF TurnOK
    <3>3. CASE turn' \in {turn, Delivering("fail", 0), [turn EXCEPT !.phase = "running"]}
      <4>1. SameTurn(turn')
        BY <3>1, <3>3, TurnKept DEF Bodies, Phases, Between
      <4> QED BY <1>4, <1>5, <2>2, <4>1
    <3> QED BY <2>1, <3>2, <3>3
  <2> QED BY <2>2, <2>4, <2>5
<1>12. ASSUME NEW r \in Recs, NEW o \in AppendOutcomes(log, buffered, r), Write(o),
              r # Poison, status[r.cmd] # "none", sent' = sent \cup {r},
              UNCHANGED <<readFrom, call, status, stored>>, SameTurn(turn')
       PROVE  Goal
  <2> DEFINE b == Append(buffered, r)
  <2>1. b \in Seq(Recs) /\ WriteStep(log, b, o) /\ Range(b) = Range(buffered) \cup {r}
    BY <1>1, <1>12, AppendStep
  <2> HIDE DEF b
  <2>2. /\ Range(log'.recs) \cup Range(buffered') \cup Range(call.recs) \subseteq sent' \cup {Poison}
        /\ \A x \in sent' : x # Poison /\ status'[x.cmd] # "none"
        /\ NoSilentLoss' /\ CursorSettled'
        /\ faults'["quarantine"] = 0 => readFrom' <= LastIndex(log') + 1
        /\ faults'["quarantine"] = 0 /\ call' = call => CallSnapshot'
    <3>1. {r} \in SUBSET Recs /\ \A x \in {r} : x # Poison /\ status[x.cmd] # "none"
      BY <1>12
    <3> QED BY <1>12, <2>1, <3>1, OutboxStep
  <2>3. TurnOK
    BY <1>4, <1>5, <1>12
  <2> QED BY <1>12, <2>2, <2>3
<1>13. \A c \in Command : /\ SyntheticTerminal(c) \in Recs /\ SyntheticTerminal(c) # Poison
                          /\ SyntheticTerminal(c).cmd = c
  BY RecordType DEF SyntheticTerminal, Kinds, Bodies
<1>14. CASE BarrierSynthesize
  <2>1. PICK c \in turn.orphans : \E o \in AppendOutcomes(log, buffered, SyntheticTerminal(c)) :
             /\ Write(o) /\ sent' = sent \cup {SyntheticTerminal(c)}
             /\ turn' = IF o.err THEN Delivering("fail", 0)
                        ELSE [turn EXCEPT !.orphans = @ \ {c},
                                          !.phase = IF turn.orphans = {c} THEN "barrier" ELSE @]
    BY <1>14 DEF BarrierSynthesize
  <2>2. turn.phase = "synthesize" /\ turn.phase \notin Between
    BY <1>14 DEF BarrierSynthesize, Between
  <2>3. SameTurn(turn')
    <3>1. SameTurn(Delivering("fail", 0))
      BY <2>2, TurnKept DEF Bodies
    <3>2. \A ph \in {"barrier", "synthesize"} :
             SameTurn([turn EXCEPT !.orphans = @ \ {c}, !.phase = ph])
      BY <1>1, <2>2 DEF SameTurn, Turns, TurnSet
    <3> QED BY <2>1, <2>2, <3>1, <3>2
  <2>4. UNCHANGED <<readFrom, call, status, stored>>
    BY <1>14 DEF BarrierSynthesize, manager
  <2> QED BY <1>2, <1>12, <1>13, <2>1, <2>3, <2>4
<1>15. CASE \E kind \in DataKinds : AppendRecord(kind)
  <2>1. PICK kind \in DataKinds : AppendRecord(kind)
    BY <1>15
  <2>2. PICK b \in DataBodies : \E o \in AppendOutcomes(log, buffered, Record(turn.cmd, kind, turn[kind] + 1, b)) :
             /\ Write(o) /\ sent' = sent \cup {Record(turn.cmd, kind, turn[kind] + 1, b)}
             /\ turn' \in IF o.err
                          THEN {Delivering("fail", 0), [turn EXCEPT ![kind] = @ + 1]}
                               \cup {Delivering(x, 1) : x \in ResultBodies}
                          ELSE {[turn EXCEPT ![kind] = @ + 1]}
    BY <2>1 DEF AppendRecord
  <2>3. turn.phase \notin Between
    BY <2>1 DEF AppendRecord, Between
  <2> DEFINE r == Record(turn.cmd, kind, turn[kind] + 1, b)
  <2>4. r \in Recs /\ r # Poison /\ r.cmd = turn.cmd
    <3>1. turn.cmd \in Command /\ turn[kind] \in Nat /\ kind \in Kinds /\ b \in Bodies
      BY <1>1, <2>3, BoundsAssumption, TurnType DEF Turns, Kinds, Bodies
    <3> QED BY <3>1, RecordType
  <2> HIDE DEF r
  <2>5. SameTurn(turn')
    <3>1. "fail" \in Bodies /\ 0 \in Nat /\ 1 \in Nat /\ ResultBodies \subseteq Bodies
      BY BoundsAssumption DEF Bodies
    <3>2. \A x \in {Delivering("fail", 0)} \cup {Delivering(y, 1) : y \in ResultBodies} : SameTurn(x)
      BY <2>3, <3>1, TurnKept
    <3>3. SameTurn([turn EXCEPT ![kind] = @ + 1])
      BY <2>3, TurnKept
    <3> QED BY <2>2, <3>2, <3>3
  <2>6. UNCHANGED <<readFrom, call, status, stored>>
    BY <2>1 DEF AppendRecord, manager
  <2> QED BY <1>2, <1>12, <2>2, <2>3, <2>4, <2>5, <2>6 DEF r
<1>16. CASE FinishTurn
  <2>1. UNCHANGED <<log, buffered, readFrom, call, status, stored, sent, lost, faults>>
    BY <1>16 DEF FinishTurn, manager
  <2>2. SameTurn(turn')
    BY <1>16, BoundsAssumption, TurnKept DEF FinishTurn, Bodies, Between
  <2>3. ManagerGrows /\ TurnOK
    BY <1>4, <1>5, <2>1, <2>2
  <2> QED BY <1>2, <2>1, <2>3, ManagerStep
<1>17. CASE Deliver
  <2> DEFINE r == Record(turn.cmd, "result", 1, turn.res)
  <2>1. PICK o \in AppendOutcomes(log, buffered, r) :
             /\ Write(o) /\ sent' = sent \cup {r}
             /\ turn' = IF o.err THEN [turn EXCEPT !.phase = "bypass"] ELSE IdleTurn
    BY <1>17 DEF Deliver
  <2>2. turn.phase \notin Between
    BY <1>17 DEF Deliver, Between
  <2>3. r \in Recs /\ r # Poison /\ r.cmd = turn.cmd
    <3>1. turn.cmd \in Command /\ turn.res \in Bodies
      BY <1>1, <2>2 DEF Turns, TurnSet
    <3> QED BY <3>1, RecordType DEF Kinds
  <2> HIDE DEF r
  <2>4. SameTurn(turn')
    BY <2>1, <2>2, TurnKept DEF Phases, Between
  <2>5. UNCHANGED <<readFrom, call, status, stored>>
    BY <1>17 DEF Deliver, manager
  <2> QED BY <1>2, <1>12, <2>1, <2>2, <2>3, <2>4, <2>5
<1>18. CASE Bypass
  <2> DEFINE batch == <<Record(turn.cmd, "result", 1, turn.res)>>
             applied == [c \in Command |-> StatusAfter(status[c], status[c], batch, c)]
             again == IF turn.tries > 0 THEN Delivering(turn.res, turn.tries - 1) ELSE IdleTurn
  <2>1. UNCHANGED <<log, buffered, readFrom, call, stored, sent, lost>>
        /\ status' \in {status, applied} /\ turn' \in {again, IdleTurn}
    BY <1>18 DEF Bypass
  <2>2. faults'["quarantine"] = faults["quarantine"]
    BY <1>1, <1>18 DEF Bypass, Spend, FaultKinds
  <2>3. SameTurn(turn')
    <3>1. turn.res \in Bodies /\ (turn.tries > 0 => turn.tries - 1 \in Nat)
      BY <1>1 DEF Turns, TurnSet
    <3>2. turn.phase \notin Between
      BY <1>18 DEF Bypass, Between
    <3> QED BY <2>1, <3>1, <3>2, TurnKept
  <2> HIDE DEF again, batch
  <2>4. ManagerGrows
    <3>1. \A c \in Command : /\ status[c] # "none" => applied[c] # "none"
                             /\ status[c] \in TerminalStatuses => applied[c] \in TerminalStatuses
      BY <1>1, StatusStep
    <3> HIDE DEF applied
    <3> QED BY <2>1, <3>1 DEF ManagerGrows
  <2>5. TurnOK
    BY <1>4, <2>1, <2>3, <2>4
  <2> QED BY <1>2, <2>1, <2>2, <2>4, <2>5, ManagerStep
<1>19. CASE StartUpload
  <2>1. PICK o \in FlushOutcomes(log, buffered) :
             LET recs == ReadRecords(o.log, MaxBatch, readFrom)
             IN  /\ Write(o)
                 /\ IF o.err \/ recs = << >>
                      THEN buffered # << >> /\ UNCHANGED call
                      ELSE call' = [st |-> "sent", start |-> ReadStart(o.log, readFrom), recs |-> recs]
    BY <1>19 DEF StartUpload
  <2>2. UNCHANGED <<readFrom, turn, status, stored, sent>> /\ Write(o) /\ turn.phase # "starting"
    BY <1>19, <2>1 DEF StartUpload, manager
  <2>3. WriteStep(log, buffered, o)
    BY <1>1, FlushStep
  <2>4. /\ Range(log'.recs) \cup Range(buffered') \cup Range(call.recs) \subseteq sent' \cup {Poison}
        /\ \A r \in sent' : r # Poison /\ status'[r.cmd] # "none"
        /\ NoSilentLoss' /\ CursorSettled'
        /\ faults'["quarantine"] = 0 => readFrom' <= LastIndex(log') + 1
        /\ faults'["quarantine"] = 0 /\ call' = call => CallSnapshot'
    <3>1. {} \in SUBSET Recs /\ Range(buffered) = Range(buffered) \cup {} /\ sent' = sent \cup {}
      BY <2>2
    <3> QED BY <1>1, <2>2, <2>3, <3>1, OutboxStep
  <2>5. TurnOK
    BY <1>4, <1>5, <2>2, TurnKept
  <2>6. CASE call' = call
    BY <2>4, <2>5, <2>6
  <2>7. CASE call' = [st |-> "sent", start |-> ReadStart(o.log, readFrom),
                      recs |-> ReadRecords(o.log, MaxBatch, readFrom)]
    <3>1. /\ call'.st = "sent" /\ call'.start = ReadStart(log', readFrom)
          /\ call'.recs = ReadRecords(log', MaxBatch, readFrom) /\ log' \in Logs
      BY <2>2, <2>3, <2>7 DEF Write, WriteStep
    <3>2. /\ call'.start \in Nat
          /\ call'.start = log'.base + 1 \/ call'.start = readFrom
          /\ Range(call'.recs) \subseteq Range(log'.recs)
          /\ \A k \in DOMAIN call'.recs :
               /\ call'.start + k - 1 <= LastIndex(log')
               /\ log'.recs[call'.start + k - 1 - log'.base] = call'.recs[k]
      <4> DEFINE start == ReadStart(log', readFrom)
                 recs  == ReadRecords(log', MaxBatch, readFrom)
      <4>a. MaxBatch \in Nat \ {0} /\ readFrom \in Nat /\ log' \in Logs
        BY <1>1, <3>1, BoundsAssumption
      <4>1. start \in Nat /\ (start = log'.base + 1 \/ start = readFrom)
        BY <4>a, ReadStep
      <4>2. Range(recs) \subseteq Range(log'.recs)
        BY <4>a, ReadStep
      <4>3. \A k \in DOMAIN recs :
                 /\ start + k - 1 <= LastIndex(log')
                 /\ log'.recs[start + k - 1 - log'.base] = recs[k]
        BY <4>a, ReadStep
      <4> HIDE DEF start, recs
      <4> QED BY <3>1, <4>1, <4>2, <4>3 DEF start, recs
    <3>3. log'.base \in Nat /\ Len(log'.recs) \in Nat /\ DOMAIN log'.recs = 1 .. Len(log'.recs)
      BY <3>1 DEF Logs
    <3>4. ASSUME faults'["quarantine"] = 0 PROVE CallSnapshot'
      <4>1. call'.start <= LastIndex(log') + 1
        BY <1>1, <2>2, <2>4, <3>2, <3>3, <3>4 DEF LastIndex
      <4>2. ASSUME NEW k \in DOMAIN log'.recs, log'.base + k < call'.start
            PROVE  Done(log.recs[k])'
        <5>1. log'.base + k < readFrom
          BY <3>2, <3>3, <4>2
        <5> QED BY <2>2, <2>4, <3>4, <5>1 DEF CursorSettled
      <4> QED BY <3>1, <3>2, <4>1, <4>2 DEF CallSnapshot
    <3> QED BY <2>4, <2>5, <3>2, <3>4
  <2> QED BY <2>1, <2>6, <2>7
<1>20. CASE ManagerApply
  <2>1. UNCHANGED <<log, buffered, readFrom, turn, sent, lost, faults>>
    BY <1>20 DEF ManagerApply
  <2>2. CASE BatchFails(call.recs)
    <3>1. call' = IdleCall /\ UNCHANGED <<status, stored>>
      BY <1>20, <2>2 DEF ManagerApply, manager
    <3>2. ManagerGrows /\ TurnOK
      BY <1>4, <1>5, <1>7, <2>1, <3>1, TurnKept
    <3> QED BY <1>2, <1>7, <1>8, <2>1, <3>1, <3>2, ManagerStep
  <2>3. CASE ~BatchFails(call.recs)
    <3>1. ApplyBatch(call.recs) /\ call' = [call EXCEPT !.st = "replied"]
      BY <1>20, <2>3 DEF ManagerApply
    <3>2. call'.st = "replied" /\ call'.start = call.start /\ call'.recs = call.recs
          /\ call.recs \in Seq(Recs) /\ call.st = "sent"
      BY <1>1, <1>20, <3>1 DEF Calls, ManagerApply
    <3>3. ManagerGrows
      BY <3>1, <3>2, ApplyStep DEF ManagerGrows
    <3>4. TurnOK
      BY <1>2, <1>4, <2>1, <3>2, <3>3, TurnKept
    <3>5. ASSUME NEW k \in DOMAIN call.recs PROVE Done(call.recs[k])'
      <4>1. call.recs[k] \in Range(call.recs)
        BY <3>2, RangeSeq
      <4> DEFINE es == call.recs
      <4>2. ApplyBatch(es) /\ es \in Seq(Recs) /\ k \in DOMAIN es
            /\ (es[k] # Poison => status[es[k].cmd] # "none")
        BY <1>2, <3>1, <3>2, <4>1
      <4> QED BY <3>2, <4>2, AppliedDone
    <3>6. ASSUME faults'["quarantine"] = 0 PROVE CallSnapshot'
      <4>1. CallSnapshot
        BY <2>1, <3>6 DEF PipelineInv
      <4>2. \A i \in DOMAIN log.recs : log.recs[i] \in Recs
        BY <1>1 DEF Logs
      <4>3. \A i \in DOMAIN log.recs : log.base + i < call.start => Done(log.recs[i])'
        BY <2>1, <3>2, <3>3, <4>1, <4>2, DoneStable DEF CallSnapshot
      <4> QED BY <2>1, <3>2, <3>5, <4>1, <4>3 DEF CallSnapshot
    <3> QED BY <1>2, <2>1, <3>2, <3>3, <3>4, <3>6, ManagerStep
  <2> QED BY <2>2, <2>3
<1>21. CASE CallFails
  <2>1. UNCHANGED <<log, buffered, readFrom, turn, status, stored, sent, lost>> /\ call' = IdleCall
    BY <1>21 DEF CallFails, manager
  <2>2. faults'["quarantine"] = faults["quarantine"]
    BY <1>1, <1>21 DEF CallFails, Spend, FaultKinds
  <2>3. ManagerGrows /\ TurnOK
    BY <1>4, <1>5, <1>7, <2>1, TurnKept
  <2> QED BY <1>2, <1>7, <1>8, <2>1, <2>2, <2>3, ManagerStep
<1>22. CASE StaleApply
  <2>1. UNCHANGED <<log, buffered, readFrom, call, turn, sent, lost, faults>>
    BY <1>22 DEF StaleApply, machine
  <2>2. ManagerGrows
    <3>1. PICK batch \in stale : IF BatchFails(batch) THEN UNCHANGED manager ELSE ApplyBatch(batch)
      BY <1>22 DEF StaleApply
    <3> QED BY <1>1, <1>5, <3>1, ApplyStep DEF ManagerGrows, manager
  <2>3. TurnOK
    BY <1>4, <2>1, <2>2, TurnKept
  <2> QED BY <1>2, <2>1, <2>2, <2>3, ManagerStep
<1>23. CASE CancelCommand
  <2>1. UNCHANGED <<log, buffered, readFrom, call, turn, stored, sent, lost, faults>>
    BY <1>23 DEF CancelCommand, machine
  <2>2. ManagerGrows
    BY <1>1, <1>23, <2>1 DEF CancelCommand, ManagerGrows, TerminalStatuses
  <2>3. TurnOK
    BY <1>4, <2>1, <2>2, TurnKept
  <2> QED BY <1>2, <2>1, <2>2, <2>3, ManagerStep
<1>24. CASE UNCHANGED vars
  <2>1. UNCHANGED <<log, buffered, readFrom, call, turn, status, stored, sent, lost, faults>>
    BY <1>24 DEF vars
  <2>2. ManagerGrows /\ TurnOK
    BY <1>4, <1>5, <2>1, TurnKept
  <2> QED BY <1>2, <2>1, <2>2, ManagerStep
<1>25. CASE SelfCheck
  <2> DEFINE all == log.recs \o buffered
  <2>1. all \in Seq(Recs) /\ Range(all) = Range(log.recs) \cup Range(buffered)
    BY <1>1, AppendBatchStep DEF AppendBatch, Logs
  <2> HIDE DEF all
  <2>2. UNCHANGED <<readFrom, call, status, stored>> /\ SameTurn(turn')
    BY <1>25, TurnKept DEF SelfCheck, manager
  <2>3. CASE \E c \in OrphanGroups(all) : \E o \in AppendOutcomes(log, buffered, SyntheticTerminal(c)) :
                Write(o) /\ sent' = sent \cup {SyntheticTerminal(c)}
    <3>1. PICK c \in OrphanGroups(all) : \E o \in AppendOutcomes(log, buffered, SyntheticTerminal(c)) :
                Write(o) /\ sent' = sent \cup {SyntheticTerminal(c)}
      BY <2>3
    <3>2. c \in Command /\ \E r \in Range(all) : r # Poison /\ r.cmd = c
      BY <2>1, GroupsType
    <3>3. status[c] # "none"
      BY <1>2, <2>1, <3>2
    <3> QED BY <1>12, <1>13, <2>2, <3>1, <3>2, <3>3
  <2>4. CASE (\E o \in FlushOutcomes(log, buffered) : Write(o)) /\ sent' = sent
    <3>1. PICK o \in FlushOutcomes(log, buffered) : Write(o)
      BY <2>4
    <3>2. WriteStep(log, buffered, o)
      BY <1>1, FlushStep
    <3>3. {} \in SUBSET Recs /\ Range(buffered) = Range(buffered) \cup {} /\ sent' = sent \cup {}
      BY <2>4
    <3>4. TurnOK
      BY <1>4, <1>5, <2>2
    <3> QED BY <1>1, <2>2, <3>1, <3>2, <3>3, <3>4, OutboxStep
  <2> QED BY <1>25, <2>3, <2>4 DEF SelfCheck, all
<1>26. CASE Restart
  <2>1. /\ log' \in {log, AppendBatch(log, buffered)} /\ buffered' = << >> /\ readFrom' = 0
        /\ call' = IdleCall /\ turn' = [IdleTurn EXCEPT !.phase = "starting"]
        /\ UNCHANGED <<status, stored, sent>>
        /\ lost' = IF log' = log THEN lost \cup Range(buffered) ELSE lost
    BY <1>26 DEF Restart, manager
  <2>2. faults'["quarantine"] = faults["quarantine"]
    BY <1>1, <1>26 DEF Restart, Spend, FaultKinds
  <2>3. /\ AppendBatch(log, buffered) \in Logs
        /\ Range(AppendBatch(log, buffered).recs) = Range(log.recs) \cup Range(buffered)
    BY <1>1, AppendBatchStep
  <2>4. log' \in Logs /\ Range(log.recs) \subseteq Range(log'.recs)
        /\ Range(log'.recs) \subseteq Range(log.recs) \cup Range(buffered)
        /\ Range(log.recs) \cup Range(buffered) \subseteq Range(log'.recs) \cup lost'
        /\ lost \subseteq lost'
    BY <1>1, <2>1, <2>3
  <2>5. Range(buffered') = {}
    BY <2>1 DEF Range
  <2>6. Range(log'.recs) \cup Range(buffered') \cup Range(call'.recs) \subseteq sent' \cup {Poison}
    BY <1>2, <1>7, <2>1, <2>4, <2>5
  <2>7. NoSilentLoss'
    <3>1. \A r : Done(r) => Done(r)'
      BY <2>1 DEF Done, Persisted
    <3> QED BY <2>1, <2>2, <2>4, <3>1 DEF PipelineInv, NoSilentLoss
  <2>8. log'.base \in Nat /\ Len(log'.recs) \in Nat /\ DOMAIN log'.recs = 1 .. Len(log'.recs)
    BY <2>4 DEF Logs
  <2>9. \A k \in DOMAIN log'.recs : ~(log'.base + k < readFrom')
    BY <2>1, <2>8
  <2>10. CursorSettled'
    BY <2>9 DEF CursorSettled
  <2>11. readFrom' <= LastIndex(log') + 1
    BY <2>1, <2>8 DEF LastIndex
  <2>12. TurnOK
    BY <1>7, <2>1 DEF TurnOK, IdleTurn, Between
  <2> QED BY <1>2, <1>7, <1>8, <2>1, <2>6, <2>7, <2>10, <2>11, <2>12
<1>27. CASE TornRecord
  <2>1. PICK k \in DOMAIN log.recs :
             /\ log' = [base |-> log.base, recs |-> [log.recs EXCEPT ![k] = Poison]]
             /\ lost' = lost \cup {log.recs[k]}
    BY <1>27 DEF TornRecord
  <2>2. UNCHANGED <<buffered, readFrom, call, turn, status, stored, sent>>
    BY <1>27 DEF TornRecord, manager
  <2>3. faults'["quarantine"] = faults["quarantine"]
    BY <1>1, <1>27 DEF TornRecord, Spend, FaultKinds
  <2>4. call'.st = "idle"
    BY <1>2, <1>27, <2>2 DEF TornRecord
  <2>5. log.recs \in Seq(Recs) /\ log.base \in Nat
    BY <1>1 DEF Logs
  <2> DEFINE torn == [log.recs EXCEPT ![k] = Poison]
  <2>6. /\ torn \in Seq(Recs) /\ Len(torn) = Len(log.recs) /\ DOMAIN torn = DOMAIN log.recs
        /\ torn[k] = Poison /\ \A i \in DOMAIN log.recs : i # k => torn[i] = log.recs[i]
    <3>1. Poison \in Recs
      BY DEF Recs, Records
    <3> QED BY <2>1, <2>5, <3>1
  <2>7. log'.base = log.base /\ log'.recs = torn
    BY <2>1
  <2> HIDE DEF torn
  <2>8. Range(torn) \subseteq Range(log.recs) \cup {Poison}
    BY <2>6 DEF Range
  <2>9. Range(log.recs) \subseteq Range(torn) \cup lost'
    BY <2>1, <2>6 DEF Range
  <2>10. NoSilentLoss'
    <3>1. \A r : Done(r) => Done(r)'
      BY <2>2 DEF Done, Persisted
    <3>2. lost \subseteq lost'
      BY <2>1
    <3> QED BY <2>2, <2>3, <2>7, <2>9, <3>1, <3>2 DEF PipelineInv, NoSilentLoss
  <2>11. CursorSettled'
    <3> SUFFICES ASSUME faults'["quarantine"] = 0, NEW i \in DOMAIN log'.recs, log'.base + i < readFrom'
                 PROVE  Done(log.recs[i])'
      BY DEF CursorSettled
    <3>1. CASE i = k
      BY <2>6, <2>7, <3>1 DEF Done
    <3>2. CASE i # k
      <4>1. Done(log.recs[i]) /\ log'.recs[i] = log.recs[i]
        BY <2>2, <2>3, <2>6, <2>7, <3>2 DEF PipelineInv, CursorSettled
      <4> QED BY <2>2, <4>1 DEF Done, Persisted
    <3> QED BY <3>1, <3>2
  <2>12. faults'["quarantine"] = 0 => readFrom' <= LastIndex(log') + 1
    BY <2>2, <2>3, <2>6, <2>7 DEF PipelineInv, LastIndex
  <2>13. TurnOK
    BY <1>4, <1>5, <2>2, <2>4, TurnKept
  <2> QED BY <1>2, <1>8, <2>2, <2>4, <2>7, <2>8, <2>10, <2>11, <2>12, <2>13
<1>28. CASE Fold
  <2>1. PICK n \in 0 .. Len(call.recs) : Folds(n)
    BY <1>28, FoldStep
  <2> DEFINE boundary == call.start + n - 1
  <2>2. call.start \in Nat /\ n \in Nat /\ (n > 0 => boundary \in Nat /\ n \in 1 .. Len(call.recs))
    <3>1. call.start \in Nat /\ call.recs \in Seq(Recs)
      BY <1>1 DEF Calls
    <3> QED BY <3>1
  <2>3. readFrom' = IF n > 0 /\ boundary + 1 > readFrom THEN boundary + 1 ELSE readFrom
    BY <2>1 DEF Folds
  <2>4. /\ call.st = "replied" /\ call' = IdleCall /\ UNCHANGED <<buffered, turn, status, stored, sent>>
        /\ faults'["quarantine"] = faults["quarantine"]
        /\ Suffix(log, log') /\ lost \subseteq lost'
        /\ faults["quarantine"] = 0 =>
             \A k \in DOMAIN log.recs :
               log.base + k <= log'.base => Done(log.recs[k]) \/ log.recs[k] \in lost'
    BY <1>28, FoldDrops
  <2>5. /\ log.base \in Nat /\ log.recs \in Seq(Recs) /\ DOMAIN log.recs = 1 .. Len(log.recs)
        /\ Len(log.recs) \in Nat /\ LastIndex(log) = log.base + Len(log.recs)
        /\ log' \in Logs /\ log'.base \in Nat /\ log'.recs \in Seq(Recs)
    BY <1>1, <2>4 DEF Logs, LastIndex, Suffix
  <2>6. ASSUME faults["quarantine"] = 0, n > 0
        PROVE  /\ boundary <= LastIndex(log)
               /\ \A k \in DOMAIN log.recs : log.base + k <= boundary => Done(log.recs[k])
    BY <2>2, <2>4, <2>6, FoldedDone
  <2> HIDE DEF boundary
  <2>7. Range(log'.recs) \cup Range(buffered') \cup Range(call'.recs) \subseteq sent' \cup {Poison}
    BY <1>2, <1>7, <2>4 DEF Suffix
  <2>8. \A r : Done(r) => Done(r)'
    BY <2>4 DEF Done, Persisted
  <2>9. NoSilentLoss'
    <3> SUFFICES ASSUME faults["quarantine"] = 0, NEW r \in sent
                 PROVE  Done(r)' \/ r \in lost' \cup Range(log'.recs) \cup Range(buffered')
      BY <2>4 DEF NoSilentLoss
    <3>1. Done(r) \/ r \in lost \cup Range(log.recs) \cup Range(buffered)
      BY DEF PipelineInv, NoSilentLoss
    <3>2. CASE Done(r) \/ r \in lost \cup Range(buffered)
      BY <2>4, <2>8, <3>2
    <3>3. CASE r \in Range(log.recs)
      <4>1. PICK k \in DOMAIN log.recs : r = log.recs[k]
        BY <2>5, <3>3, RangeSeq
      <4>2. CASE log.base + k <= log'.base
        BY <2>4, <2>8, <4>1, <4>2
      <4>3. CASE log.base + k > log'.base
        <5>1. log \in Logs /\ log' \in Logs /\ Suffix(log, log')
          BY <1>1, <2>4 DEF Suffix
        <5>2. \E i \in DOMAIN log'.recs : log'.recs[i] = r
          BY <4>1, <4>3, <5>1, SuffixPositions, Zenon
        <5> QED BY <2>5, <5>2, RangeSeq
      <4> QED BY <2>5, <4>2, <4>3
    <3> QED BY <3>1, <3>2, <3>3
  <2>10. CursorSettled'
    <3> SUFFICES ASSUME faults["quarantine"] = 0, NEW k \in DOMAIN log'.recs, log'.base + k < readFrom'
                 PROVE  Done(log.recs[k])'
      BY <2>4 DEF CursorSettled
    <3> DEFINE j == k + log'.base - log.base
    <3>1. j \in DOMAIN log.recs /\ log'.recs[k] = log.recs[j]
      BY <2>4 DEF Suffix
    <3>2. log.base + j < readFrom'
      <4>1. k \in Nat
        BY <2>5
      <4> QED BY <2>5, <4>1
    <3> HIDE DEF j
    <3>3. Done(log.recs[j])
      <4>1. CASE n > 0 /\ readFrom' = boundary + 1
        <5>1. log.base + j <= boundary
          BY <2>2, <2>5, <3>1, <3>2, <4>1
        <5> QED BY <2>6, <3>1, <4>1, <5>1
      <4>2. CASE readFrom' = readFrom
        BY <3>1, <3>2, <4>2 DEF PipelineInv, CursorSettled
      <4> QED BY <2>3, <4>1, <4>2
    <3> QED BY <2>8, <3>1, <3>3
  <2>11. faults'["quarantine"] = 0 => readFrom' <= LastIndex(log') + 1
    <3>1. LastIndex(log') = LastIndex(log) /\ LastIndex(log) \in Nat
      BY <2>4, <2>5 DEF Suffix
    <3>2. faults["quarantine"] = 0 => readFrom <= LastIndex(log) + 1
      BY DEF PipelineInv
    <3> QED BY <2>2, <2>3, <2>4, <2>6, <3>1, <3>2
  <2>12. TurnOK
    BY <1>4, <1>5, <1>7, <2>4, TurnKept
  <2> QED BY <1>2, <1>7, <1>8, <2>4, <2>7, <2>9, <2>10, <2>11, <2>12
<1> QED BY <1>9, <1>10, <1>11, <1>14, <1>15, <1>16, <1>17, <1>18, <1>19, <1>20, <1>21, <1>22,
           <1>23, <1>24, <1>25, <1>26, <1>27, <1>28 DEF Next

(***************************************************************************)
(* The inductive invariant holds, for every instance.                      *)
(***************************************************************************)
THEOREM PipelineInvariant == Spec => []PipelineInv
<1>1. Init => PipelineInv
  <2> SUFFICES ASSUME Init PROVE PipelineInv
    OBVIOUS
  <2>1. log.recs = << >> /\ buffered = << >> /\ call.recs = << >> /\ call.st = "idle"
        /\ sent = {} /\ turn.phase = "idle" /\ turn.orphans = {} /\ readFrom = 0 /\ log.base = 0
    BY DEF Init, EmptyLog, IdleCall, IdleTurn
  <2>2. Provenance
    BY <2>1 DEF Provenance, Range
  <2>3. NoSilentLoss /\ CursorSettled /\ CallSnapshot
    BY <2>1 DEF NoSilentLoss, CursorSettled, CallSnapshot
  <2>4. readFrom <= LastIndex(log) + 1
    BY <2>1 DEF LastIndex
  <2> QED BY <2>1, <2>2, <2>3, <2>4 DEF PipelineInv
<1>2. TypeOK /\ PipelineInv /\ [Next]_vars => PipelineInv'
  BY InvStep
<1> QED BY <1>1, <1>2, TypeCorrect, PTL DEF Spec

(***************************************************************************)
(* No record that a turn handed to the outbox disappears unnoticed: until  *)
(* a log directory is set aside, each is on the manager, refused by it,    *)
(* still in the outbox, or dropped by a named fault or the cap.            *)
(***************************************************************************)
THEOREM RecordsSurvive == Spec => []NoSilentLoss
<1>1. PipelineInv => NoSilentLoss
  BY DEF PipelineInv
<1> QED BY <1>1, PipelineInvariant, PTL

(***************************************************************************)
(* The upload cursor never passes a record the manager does not have.      *)
(***************************************************************************)
THEOREM CursorIsSafe == Spec => []CursorSettled
<1>1. PipelineInv => CursorSettled
  BY DEF PipelineInv
<1> QED BY <1>1, PipelineInvariant, PTL

-----------------------------------------------------------------------------
(* The refinement of DurableReport.                                        *)

\* A step that leaves the outbox alone settles records or changes nothing.
LEMMA SettleStep ==
    ASSUME TypeOK, ManagerGrows, UNCHANGED <<log, buffered, sent, lost>>
    PROVE  Report!Settle
<1>1. \A r \in sent : Done(r) => Done(r)'
  BY DoneStable DEF TypeOK
<1>2. Settled \subseteq Settled' /\ Settled' \subseteq sent
  BY <1>1 DEF Settled
<1>3. UNCHANGED <<sent, Waiting, lost \ {Poison}>>
  BY DEF Waiting
<1> QED BY <1>2, <1>3 DEF Report!Settle

\* What a write that sets no directory aside does to the waiting records.
LEMMA WriteReport ==
    ASSUME TypeOK, NEW X, NEW b \in Seq(Recs), NEW o,
           Range(b) = Range(buffered) \cup X, WriteStep(log, b, o), Write(o),
           Poison \notin X, faults'["quarantine"] = 0
    PROVE  Waiting' = Waiting \cup X /\ lost' = lost
<1>1. log' = o.log /\ buffered' = o.buffered /\ o.fault # "quarantine"
  BY WriteType
<1>2. Range(log'.recs) \cup Range(buffered') = Range(log.recs) \cup Range(buffered) \cup X
  BY <1>1 DEF WriteStep
<1>3. lost' = lost
  BY <1>1 DEF Write
<1> QED BY <1>2, <1>3 DEF Waiting

\* A step that appends a record hands it over.
LEMMA AcceptStep ==
    ASSUME TypeOK, NEW r \in Recs, r # Poison, NEW o \in AppendOutcomes(log, buffered, r), Write(o),
           sent' = sent \cup {r}, UNCHANGED <<status, stored>>, faults'["quarantine"] = 0
    PROVE  Report!Accept
<1>1. log \in Logs /\ buffered \in Seq(Recs)
  BY DEF TypeOK, Logs
<1>2. WriteStep(log, Append(buffered, r), o) /\ Range(Append(buffered, r)) = Range(buffered) \cup {r}
  BY <1>1, AppendStep
<1>3. Append(buffered, r) \in Seq(Recs) /\ Poison \notin {r}
  BY <1>1
<1>4. Waiting' = Waiting \cup {r} /\ lost' = lost
  BY <1>2, <1>3, WriteReport
<1>5. \A x : Done(x) <=> Done(x)'
  BY DEF Done, Persisted
<1>6. Settled' \in {Settled, Settled \cup {r}}
  <2>1. Settled' = {x \in sent \cup {r} : Done(x)}
    BY <1>5 DEF Settled
  <2> QED BY <2>1 DEF Settled
<1>7. r \in Waiting' /\ (lost \ {Poison})' = lost \ {Poison}
  BY <1>4
<1> QED BY <1>4, <1>6, <1>7 DEF Report!Accept

\* A step that only flushes the buffer keeps every record waiting.
LEMMA FlushKeeps ==
    ASSUME TypeOK, NEW o \in FlushOutcomes(log, buffered), Write(o),
           UNCHANGED <<sent, status, stored>>, faults'["quarantine"] = 0
    PROVE  UNCHANGED Report!vars
<1>1. log \in Logs /\ buffered \in Seq(Recs)
  BY DEF TypeOK, Logs
<1>2. WriteStep(log, buffered, o) /\ Range(buffered) = Range(buffered) \cup {} /\ Poison \notin {}
  BY <1>1, FlushStep
<1>3. Waiting' = Waiting \cup {} /\ lost' = lost
  BY <1>1, <1>2, WriteReport
<1>4. Settled' = Settled
  BY DEF Settled, Done, Persisted
<1> QED BY <1>3, <1>4 DEF Report!vars

\* A step that lets go of records lets go of settled or dropped ones.
LEMMA ReleaseStep ==
    ASSUME PipelineInv, NoSilentLoss', faults'["quarantine"] = 0,
           UNCHANGED <<sent, status, stored>>,
           Range(log'.recs) \cup Range(buffered') \subseteq Range(log.recs) \cup Range(buffered) \cup {Poison},
           lost \subseteq lost', lost' \subseteq lost \cup Range(log.recs) \cup Range(buffered)
    PROVE  Report!Release
<1>1. \A x : Done(x) <=> Done(x)'
  BY DEF Done, Persisted
<1>2. Settled' = Settled
  BY <1>1 DEF Settled
<1>3. Waiting' \subseteq Waiting
  BY DEF Waiting
<1>4. lost' \ {Poison} \subseteq (lost \ {Poison}) \cup Waiting
  BY DEF Waiting
<1>5. ASSUME NEW r \in Waiting PROVE r \in Waiting' \cup Settled \cup (lost' \ {Poison})
  <2>1. r \in sent /\ r # Poison
    BY DEF Waiting, PipelineInv, Provenance
  <2>2. Done(r)' \/ r \in lost' \cup Range(log'.recs) \cup Range(buffered')
    BY <2>1 DEF NoSilentLoss
  <2>3. CASE Done(r)'
    BY <1>1, <2>1, <2>3 DEF Settled
  <2>4. CASE r \in lost' \cup Range(log'.recs) \cup Range(buffered')
    BY <2>1, <2>4 DEF Waiting
  <2> QED BY <2>2, <2>3, <2>4
<1> QED BY <1>2, <1>3, <1>4, <1>5 DEF Report!Release

\* No step takes back what the manager has.
LEMMA StepGrows ==
    ASSUME TypeOK, [Next]_vars
    PROVE  ManagerGrows
<1>1. /\ status \in [Command -> Statuses] /\ call.recs \in Seq(Recs) /\ stale \subseteq Seq(Recs)
  BY DEF TypeOK
<1>2. ASSUME UNCHANGED <<status, stored>> PROVE ManagerGrows
  BY <1>2 DEF ManagerGrows
<1>3. ASSUME NEW c \in Command, Mint(c), UNCHANGED stored PROVE ManagerGrows
  BY <1>1, <1>3 DEF ManagerGrows, Mint, TerminalStatuses
<1>4. ASSUME NEW es \in Seq(Recs), ApplyBatch(es) PROVE ManagerGrows
  BY <1>4, ApplyStep DEF ManagerGrows
<1>5. CASE BeginSession \/ BeginSessionLost
  BY <1>3, <1>5 DEF BeginSession, BeginSessionLost
<1>6. CASE Bypass
  <2> DEFINE batch == <<Record(turn.cmd, "result", 1, turn.res)>>
             applied == [c \in Command |-> StatusAfter(status[c], status[c], batch, c)]
  <2>1. status' \in {status, applied} /\ UNCHANGED stored
    BY <1>6 DEF Bypass
  <2> HIDE DEF batch
  <2>2. \A c \in Command : /\ status[c] # "none" => applied[c] # "none"
                           /\ status[c] \in TerminalStatuses => applied[c] \in TerminalStatuses
    BY <1>1, StatusStep
  <2> HIDE DEF applied
  <2> QED BY <2>1, <2>2 DEF ManagerGrows
<1>7. CASE ManagerApply
  BY <1>1, <1>2, <1>4, <1>7 DEF ManagerApply, manager
<1>8. CASE StaleApply
  BY <1>1, <1>2, <1>4, <1>8 DEF StaleApply, manager
<1>9. CASE CancelCommand
  BY <1>1, <1>9 DEF CancelCommand, ManagerGrows, TerminalStatuses
<1>10. CASE BarrierPoll \/ BarrierSynthesize \/ (\E kind \in DataKinds : AppendRecord(kind))
            \/ FinishTurn \/ Deliver \/ StartUpload \/ CallFails \/ Fold \/ Restart \/ SelfCheck \/ TornRecord
  BY <1>2, <1>10 DEF BarrierPoll, BarrierSynthesize, AppendRecord, FinishTurn, Deliver, StartUpload,
                     CallFails, Fold, Restart, SelfCheck, TornRecord, manager
<1>11. CASE UNCHANGED vars
  BY <1>2, <1>11 DEF vars
<1> QED BY <1>5, <1>6, <1>7, <1>8, <1>9, <1>10, <1>11 DEF Next

\* Every step of the pipeline is a step of DurableReport, or changes nothing
\* that DurableReport speaks about.
LEMMA ReportStep ==
    ASSUME TypeOK, PipelineInv, NoSilentLoss', faults'["quarantine"] = 0, [Next]_vars
    PROVE  [Report!Next]_(Report!vars)
<1>1. /\ log \in Logs /\ buffered \in Seq(Recs) /\ call \in Calls /\ turn \in Turns
      /\ log.recs \in Seq(Recs)
  BY DEF TypeOK, Logs, Calls, Turns, TurnSet, Between
<1>2. ManagerGrows
  BY StepGrows
<1>3. CASE UNCHANGED <<log, buffered, sent, lost>>
  BY <1>2, <1>3, SettleStep DEF Report!Next
<1>4. CASE BeginSession \/ BeginSessionLost \/ FinishTurn \/ Bypass \/ ManagerApply \/ CallFails
           \/ StaleApply \/ CancelCommand \/ UNCHANGED vars
  <2>1. UNCHANGED <<log, buffered, sent, lost>>
    BY <1>4 DEF BeginSession, BeginSessionLost, FinishTurn, Bypass, ManagerApply, CallFails,
                StaleApply, CancelCommand, machine, vars
  <2> QED BY <1>3, <2>1
<1>5. CASE BarrierPoll \/ StartUpload
  <2>1. UNCHANGED <<sent, status, stored>> /\ \E o \in FlushOutcomes(log, buffered) : Write(o)
    BY <1>5 DEF BarrierPoll, StartUpload, manager
  <2> QED BY <2>1, FlushKeeps
<1>6. ASSUME NEW r \in Recs, r # Poison, UNCHANGED <<status, stored>>,
             \E o \in AppendOutcomes(log, buffered, r) : Write(o) /\ sent' = sent \cup {r}
      PROVE  Report!Next
  BY <1>6, AcceptStep DEF Report!Next
<1>7. \A c \in Command : SyntheticTerminal(c) \in Recs /\ SyntheticTerminal(c) # Poison
  BY RecordType DEF SyntheticTerminal, Kinds, Bodies
<1>8. CASE BarrierSynthesize
  <2>1. PICK c \in turn.orphans : \E o \in AppendOutcomes(log, buffered, SyntheticTerminal(c)) :
             Write(o) /\ sent' = sent \cup {SyntheticTerminal(c)}
    BY <1>8 DEF BarrierSynthesize
  <2>2. c \in Command /\ UNCHANGED <<status, stored>>
    BY <1>1, <1>8 DEF BarrierSynthesize, manager, Turns, TurnSet
  <2> QED BY <1>6, <1>7, <2>1, <2>2
<1>9. CASE \E kind \in DataKinds : AppendRecord(kind)
  <2>1. PICK kind \in DataKinds : AppendRecord(kind)
    BY <1>9
  <2>2. PICK b \in DataBodies : \E o \in AppendOutcomes(log, buffered, Record(turn.cmd, kind, turn[kind] + 1, b)) :
             Write(o) /\ sent' = sent \cup {Record(turn.cmd, kind, turn[kind] + 1, b)}
    BY <2>1 DEF AppendRecord
  <2> DEFINE r == Record(turn.cmd, kind, turn[kind] + 1, b)
  <2>3. turn.phase \notin Between /\ UNCHANGED <<status, stored>>
    BY <2>1 DEF AppendRecord, Between, manager
  <2>4. r \in Recs /\ r # Poison
    <3>1. turn.cmd \in Command /\ turn[kind] \in Nat /\ kind \in Kinds /\ b \in Bodies
      BY <1>1, <2>3, BoundsAssumption, TurnType DEF Turns, Kinds, Bodies
    <3> QED BY <3>1, RecordType
  <2> HIDE DEF r
  <2> QED BY <1>6, <2>2, <2>3, <2>4 DEF r
<1>10. CASE Deliver
  <2> DEFINE r == Record(turn.cmd, "result", 1, turn.res)
  <2>1. /\ \E o \in AppendOutcomes(log, buffered, r) : Write(o) /\ sent' = sent \cup {r}
        /\ turn.phase \notin Between /\ UNCHANGED <<status, stored>>
    BY <1>10 DEF Deliver, Between, manager
  <2>2. r \in Recs /\ r # Poison
    <3>1. turn.cmd \in Command /\ turn.res \in Bodies
      BY <1>1, <2>1 DEF Turns, TurnSet
    <3> QED BY <3>1, RecordType DEF Kinds
  <2> HIDE DEF r
  <2> QED BY <1>6, <2>1, <2>2
<1>11. CASE SelfCheck
  <2> DEFINE all == log.recs \o buffered
  <2>1. all \in Seq(Recs) /\ UNCHANGED <<status, stored>>
    BY <1>1, <1>11 DEF SelfCheck, manager
  <2> HIDE DEF all
  <2>2. OrphanGroups(all) \subseteq Command
    BY <2>1, GroupsType
  <2>3. CASE \E c \in OrphanGroups(all) : \E o \in AppendOutcomes(log, buffered, SyntheticTerminal(c)) :
                Write(o) /\ sent' = sent \cup {SyntheticTerminal(c)}
    BY <1>6, <1>7, <2>1, <2>2, <2>3
  <2>4. CASE (\E o \in FlushOutcomes(log, buffered) : Write(o)) /\ sent' = sent
    BY <2>1, <2>4, FlushKeeps
  <2> QED BY <1>11, <2>3, <2>4 DEF SelfCheck, all
<1>12. CASE Fold
  <2>1. UNCHANGED <<buffered, sent, status, stored>>
    BY <1>12 DEF Fold, manager
  <2>2. PICK n \in 0 .. Len(call.recs), due \in BOOLEAN, fails \in BOOLEAN :
             Evicts(call.start + n - 1, n, due, fails)
    BY <1>12, FoldStep DEF Folds
  <2> DEFINE boundary == call.start + n - 1
             evicted == IF due /\ n > 0 /\ ~fails THEN EvictThrough(log, boundary) ELSE log
  <2>3. n > 0 => boundary \in Nat
    <3>1. call.start \in Nat /\ n \in Nat
      <4>1. call.start \in Nat /\ call.recs \in Seq(Recs)
        BY <1>1 DEF Calls
      <4> QED BY <4>1
    <3> QED BY <3>1
  <2>4. log' = EnforceCap(evicted, Cap) /\ lost' \in {lost, lost \cup Range(evicted.recs)}
    BY <2>2 DEF Evicts
  <2>5. evicted \in Logs /\ Range(evicted.recs) \subseteq Range(log.recs)
    <3> HIDE DEF boundary
    <3>1. ASSUME boundary \in Nat
          PROVE  EvictThrough(log, boundary) \in Logs
                 /\ Range(EvictThrough(log, boundary).recs) \subseteq Range(log.recs)
      BY <1>1, <3>1, EvictStep
    <3> QED BY <1>1, <2>3, <3>1
  <2> HIDE DEF evicted, boundary
  <2>6. Range(log'.recs) \subseteq Range(evicted.recs)
    <3>1. LastIndex(evicted) \in Nat
      BY <2>5 DEF Logs, LastIndex
    <3>2. Range(EvictThrough(evicted, LastIndex(evicted)).recs) \subseteq Range(evicted.recs)
      BY <2>5, <3>1, EvictStep
    <3> QED BY <2>4, <3>2 DEF EnforceCap
  <2> QED BY <2>1, <2>4, <2>5, <2>6, ReleaseStep DEF Report!Next
<1>13. CASE Restart
  <2>1. /\ log' \in {log, AppendBatch(log, buffered)} /\ buffered' = << >>
        /\ UNCHANGED <<status, stored, sent>>
        /\ lost' \in {lost, lost \cup Range(buffered)}
    BY <1>13 DEF Restart, manager
  <2>2. Range(log'.recs) \subseteq Range(log.recs) \cup Range(buffered)
    BY <1>1, <2>1, AppendBatchStep
  <2>3. Range(buffered') = {}
    BY <2>1 DEF Range
  <2> QED BY <2>1, <2>2, <2>3, ReleaseStep DEF Report!Next
<1>14. CASE TornRecord
  <2>1. PICK k \in DOMAIN log.recs :
             /\ log'.recs = [log.recs EXCEPT ![k] = Poison]
             /\ lost' = lost \cup {log.recs[k]}
    BY <1>14, SMTT(20) DEF TornRecord
  <2>2. UNCHANGED <<buffered, status, stored, sent>>
    BY <1>14 DEF TornRecord, manager
  <2>3. Range(log'.recs) \subseteq Range(log.recs) \cup {Poison} /\ log.recs[k] \in Range(log.recs)
    BY <1>1, <2>1 DEF Range
  <2> QED BY <2>1, <2>2, <2>3, ReleaseStep DEF Report!Next
<1> QED BY <1>4, <1>5, <1>8, <1>9, <1>10, <1>11, <1>12, <1>13, <1>14 DEF Next

(***************************************************************************)
(* The outbox, the uploader and the manager implement DurableReport for    *)
(* every number of commands, batch size, cap and fault budget, along every *)
(* behaviour in which the log directory is not set aside.                  *)
(***************************************************************************)
THEOREM PipelineReports == Spec /\ [](faults["quarantine"] = 0) => ReportKept
<1>1. Init => Report!Init
  <2> SUFFICES ASSUME Init PROVE Report!Init
    OBVIOUS
  <2>1. Range(log.recs) = {} /\ Range(buffered) = {}
    BY DEF Init, EmptyLog, Range
  <2> QED BY <2>1 DEF Init, Report!Init, Waiting, Settled
<1>2. TypeOK /\ PipelineInv /\ PipelineInv' /\ (faults["quarantine"] = 0)' /\ [Next]_vars
        => [Report!Next]_(Report!vars)
  BY ReportStep DEF PipelineInv
<1>3. Spec => []TypeOK /\ []PipelineInv
  BY TypeCorrect, PipelineInvariant
<1> QED BY <1>1, <1>2, <1>3, PTL DEF Spec, ReportKept, Report!Spec

-----------------------------------------------------------------------------
(* The order of records: TurnInv.                                          *)

\* x brings elements of b, each behind all its predecessors.
Ordered(x, b) ==
    \A k \in DOMAIN x : \E i \in DOMAIN b :
      x[k] = b[i] /\ \A h \in 1 .. i - 1 : \E m \in 1 .. k - 1 : x[m] = b[h]

\* What a write of the outbox does to the order of its records.
WriteOrder(l, b, o) ==
    /\ o.err => o.fault # "none"
    /\ o.fault = "none" => \/ o.log = l /\ o.buffered = b
                           \/ o.log = AppendBatch(l, b) /\ o.buffered = << >>
    /\ o.fault = "quarantine" => o.log = EmptyLog /\ o.buffered = b
    /\ o.fault # "quarantine" =>
         /\ o.buffered \in {<< >>, b}
         /\ \E x \in Seq(Recs) : o.log = AppendBatch(l, x) /\ Ordered(x, b)

\* A prefix of b, b itself, and a prefix followed by b are ordered like b.
LEMMA OrderedParts ==
    ASSUME NEW b \in Seq(Recs), NEW n \in 0 .. Len(b)
    PROVE  LET p == SubSeq(b, 1, n)
           IN  /\ Ordered(b, b)
               /\ p \in Seq(Recs) /\ Ordered(p, b)
               /\ p \o b \in Seq(Recs) /\ Ordered(p \o b, b)
<1> DEFINE p == SubSeq(b, 1, n)
           t == p \o b
<1>1. Len(b) \in Nat /\ DOMAIN b = 1 .. Len(b) /\ n \in Nat /\ n <= Len(b)
  OBVIOUS
<1>2. p \in Seq(Recs) /\ Len(p) = n /\ DOMAIN p = 1 .. n /\ \A k \in 1 .. n : p[k] = b[k]
  BY <1>1
<1>3. Ordered(b, b)
  BY <1>1 DEF Ordered
<1>4. Ordered(p, b)
  <2> HIDE DEF p
  <2> SUFFICES ASSUME NEW k \in DOMAIN p
               PROVE  /\ k \in DOMAIN b /\ p[k] = b[k]
                      /\ \A h \in 1 .. k - 1 : h \in 1 .. k - 1 /\ p[h] = b[h]
    BY DEF Ordered
  <2> QED BY <1>1, <1>2
<1> HIDE DEF p
<1>5. /\ t \in Seq(Recs) /\ Len(t) = n + Len(b) /\ DOMAIN t = 1 .. n + Len(b)
      /\ \A k \in 1 .. n : t[k] = p[k]
      /\ \A k \in 1 .. Len(b) : t[n + k] = b[k]
  BY <1>1, <1>2
<1> HIDE DEF t
<1>6. ASSUME NEW k \in DOMAIN t
      PROVE  \E i \in DOMAIN b : t[k] = b[i] /\ \A h \in 1 .. i - 1 : \E m \in 1 .. k - 1 : t[m] = b[h]
  <2>1. CASE k <= n
    <3>1. k \in DOMAIN b /\ t[k] = b[k] /\ \A h \in 1 .. k - 1 : h \in 1 .. k - 1 /\ t[h] = b[h]
      BY <1>1, <1>2, <1>5, <2>1
    <3> QED BY <3>1
  <2>2. CASE k > n
    <3> DEFINE i == k - n
    <3>1. i \in DOMAIN b /\ t[k] = b[i]
      BY <1>1, <1>5, <2>2
    <3>2. ASSUME NEW h \in 1 .. i - 1 PROVE \E m \in 1 .. k - 1 : t[m] = b[h]
      <4>1. n + h \in 1 .. k - 1 /\ h \in 1 .. Len(b)
        BY <1>1, <1>5, <2>2
      <4> QED BY <1>5, <4>1
    <3> QED BY <3>1, <3>2
  <2> QED BY <1>1, <1>5, <2>1, <2>2
<1>7. Ordered(t, b)
  BY <1>6 DEF Ordered
<1> QED BY <1>2, <1>3, <1>4, <1>5, <1>7 DEF p, t

\* Every outcome of a flush.
LEMMA FlushOrder ==
    ASSUME NEW l \in Logs, NEW b \in Seq(Recs), NEW o \in FlushOutcomes(l, b)
    PROVE  WriteOrder(l, b, o)
<1>1. CASE o = Flushed(l, b)
  <2>1. 0 \in 0 .. Len(b)
    OBVIOUS
  <2>2. Ordered(b, b)
    BY <2>1, OrderedParts
  <2> QED BY <1>1, <2>2 DEF WriteOrder, Flushed
<1>2. CASE \E n \in 0 .. Len(b) :
             o = [log |-> AppendBatch(l, SubSeq(b, 1, n) \o b),
                  buffered |-> << >>, err |-> FALSE, fault |-> "write"]
  <2>1. PICK n \in 0 .. Len(b) :
             o = [log |-> AppendBatch(l, SubSeq(b, 1, n) \o b),
                  buffered |-> << >>, err |-> FALSE, fault |-> "write"]
    BY <1>2
  <2> DEFINE x == SubSeq(b, 1, n) \o b
  <2>2. x \in Seq(Recs) /\ Ordered(x, b)
    BY OrderedParts
  <2>3. o.log = AppendBatch(l, x) /\ o.buffered = << >> /\ ~o.err /\ o.fault = "write"
    BY <2>1
  <2> HIDE DEF x
  <2> QED BY <2>2, <2>3 DEF WriteOrder
<1>3. CASE \E n \in 0 .. Len(b) :
             o = [log |-> AppendBatch(l, SubSeq(b, 1, n)),
                  buffered |-> b, err |-> TRUE, fault |-> "write"]
  <2>1. PICK n \in 0 .. Len(b) :
             o = [log |-> AppendBatch(l, SubSeq(b, 1, n)),
                  buffered |-> b, err |-> TRUE, fault |-> "write"]
    BY <1>3
  <2> DEFINE x == SubSeq(b, 1, n)
  <2>2. x \in Seq(Recs) /\ Ordered(x, b)
    BY OrderedParts
  <2>3. o.log = AppendBatch(l, x) /\ o.buffered = b /\ o.fault = "write"
    BY <2>1
  <2> HIDE DEF x
  <2> QED BY <2>2, <2>3 DEF WriteOrder
<1>4. CASE o = [log |-> EmptyLog, buffered |-> b, err |-> TRUE, fault |-> "quarantine"]
  BY <1>4 DEF WriteOrder
<1> QED BY <1>1, <1>2, <1>3, <1>4 DEF FlushOutcomes, WriteFaults

\* Every outcome of an append.
LEMMA AppendOrder ==
    ASSUME NEW l \in Logs, NEW b \in Seq(Recs), NEW r \in Recs, NEW o \in AppendOutcomes(l, b, r)
    PROVE  WriteOrder(l, Append(b, r), o)
<1> DEFINE a == Append(b, r)
<1>1. a \in Seq(Recs)
  OBVIOUS
<1> HIDE DEF a
<1>2. CASE o \in FlushOutcomes(l, a)
  BY <1>1, <1>2, FlushOrder DEF a
<1>3. CASE o = [log |-> l, buffered |-> a, err |-> FALSE, fault |-> "none"]
  <2>1. << >> \in Seq(Recs) /\ Ordered(<< >>, a)
    BY DEF Ordered
  <2>2. l.recs \o << >> = l.recs /\ l = [base |-> l.base, recs |-> l.recs]
    BY DEF Logs
  <2>3. l = AppendBatch(l, << >>)
    BY <2>2 DEF AppendBatch
  <2> QED BY <1>3, <2>1, <2>3 DEF WriteOrder, a
<1> QED BY <1>2, <1>3 DEF AppendOutcomes, a

\* The least element of a set of naturals.
LEMMA MinNat ==
    ASSUME NEW S \in SUBSET Nat, S # {}
    PROVE  Min(S) \in S /\ \A y \in S : Min(S) <= y
<1> DEFINE R == OpToRel(<, Nat)
<1>1. R = {ss \in Nat \X Nat : ss[1] < ss[2]}
  BY DEF OpToRel
<1>2. IsWellFoundedOn(R, Nat)
  BY NatLessThanWellFounded
<1> HIDE DEF R
<1>3. PICK x \in S : \A y \in S : ~ (<<y, x>> \in R)
  BY <1>2, WFMin
<1>4. \A y \in S : x <= y
  <2> SUFFICES ASSUME NEW y \in S, y < x PROVE FALSE
    OBVIOUS
  <2>1. <<y, x>> \in R
    BY <1>1
  <2> QED BY <1>3, <2>1
<1> QED BY <1>4 DEF Min

\* The positions of a log that was appended to.
LEMMA Positions ==
    ASSUME NEW l \in Logs, NEW x \in Seq(Recs)
    PROVE  LET m == AppendBatch(l, x)
           IN  /\ m.base = l.base
               /\ DOMAIN l.recs = 1 .. Len(l.recs) /\ DOMAIN x = 1 .. Len(x)
               /\ Len(l.recs) \in Nat /\ Len(x) \in Nat
               /\ DOMAIN m.recs = 1 .. Len(l.recs) + Len(x)
               /\ \A k \in 1 .. Len(l.recs) : m.recs[k] = l.recs[k]
               /\ \A k \in 1 .. Len(x) : m.recs[Len(l.recs) + k] = x[k]
               /\ \A k \in DOMAIN m.recs : k <= Len(l.recs) \/ k - Len(l.recs) \in 1 .. Len(x)
<1> DEFINE t == l.recs \o x
<1>1. l.recs \in Seq(Recs)
  BY DEF Logs
<1>2. /\ DOMAIN l.recs = 1 .. Len(l.recs) /\ DOMAIN x = 1 .. Len(x)
      /\ Len(l.recs) \in Nat /\ Len(x) \in Nat
      /\ t \in Seq(Recs) /\ DOMAIN t = 1 .. Len(l.recs) + Len(x)
      /\ \A k \in 1 .. Len(l.recs) : t[k] = l.recs[k]
      /\ \A k \in 1 .. Len(x) : t[Len(l.recs) + k] = x[k]
  BY <1>1
<1>3. AppendBatch(l, x) = [base |-> l.base, recs |-> t]
  BY DEF AppendBatch
<1> HIDE DEF t
<1>4. \A k \in DOMAIN t : k <= Len(l.recs) \/ k - Len(l.recs) \in 1 .. Len(x)
  BY <1>2
<1> QED BY <1>2, <1>3, <1>4

\* How a write counts its faults.
LEMMA WriteCounts ==
    ASSUME TypeOK, NEW o, o.fault \in {"none", "write", "quarantine"}, Write(o)
    PROVE  /\ faults'["torn"] = faults["torn"]
           /\ faults'["quarantine"] = 0 => faults["quarantine"] = 0 /\ o.fault # "quarantine"
           /\ faults'["write"] + faults'["quarantine"] = 0 =>
                faults["write"] + faults["quarantine"] = 0 /\ o.fault = "none"
<1>1. faults \in [FaultKinds -> Nat]
  BY DEF TypeOK
<1>2. CASE o.fault = "none"
  BY <1>2 DEF Write
<1>3. CASE o.fault = "write"
  BY <1>1, <1>3 DEF Write, Spend, FaultKinds
<1>4. CASE o.fault = "quarantine"
  BY <1>1, <1>4 DEF Write, Spend, FaultKinds
<1> QED BY <1>2, <1>3, <1>4

\* What each action appends: data only while its command has no result, and a
\* turn's own result only where no failure was reported.
FreshRecords(X) ==
    \A r \in X : /\ r.kind \in DataKinds => \A x \in sent : ~IsResult(x, r.cmd)
                 /\ r.kind = "result" /\ r.body = "ok" => \A x \in sent : ~IsFailure(x, r.cmd)

\* The batch under way and the abandoned ones hold records that were appended.
LEMMA BatchesSent ==
    ASSUME TypeOK, PipelineInv, TurnInv
    PROVE  \A es \in Batches : es \in Seq(Recs) /\ Range(es) \subseteq sent \cup {Poison}
  BY DEF TypeOK, PipelineInv, Provenance, TurnInv, OutboxSent, Batches

\* The fields of the records that order is about.
LEMMA RecordFields ==
    /\ \A c \in Command : /\ RealResult(c) \in Recs /\ RealResult(c).kind = "result"
                          /\ RealResult(c).cmd = c /\ RealResult(c).body = "ok"
                          /\ RealResult(c) # Poison
    /\ \A r \in Recs : r # Poison => r.cmd \in Command /\ r.kind \in Kinds
    /\ Poison.kind = "poison" /\ "poison" \notin Kinds
<1>1. \A c \in Command : RealResult(c) \in Recs /\ RealResult(c) # Poison
  BY RecordType DEF RealResult, Kinds, Bodies
<1> QED BY <1>1 DEF RealResult, Record, Recs, Records, Poison, Kinds, DataKinds

\* A command that stays unreported was so before, or reports only now.
LEMMA UnreportedBefore ==
    ASSUME ManagerGrows, NEW X \in SUBSET Recs, sent' = sent \cup X, lost \subseteq lost',
           NEW c \in Command, Unreported(c)'
    PROVE  RealResult(c) \in X \/ Unreported(c)
  BY DEF Unreported, ManagerGrows

\* A batch keeps its order and brings what it brought.
LEMMA BatchesKept ==
    ASSUME TypeOK, PipelineInv, TurnInv, ManagerGrows,
           NEW X \in SUBSET Recs, FreshRecords(X), sent' = sent \cup X, lost \subseteq lost'
    PROVE  \A es \in Batches :
             /\ faults["quarantine"] = 0 => \A c \in Command : Unreported(c)' => RealLeads(es, c)
             /\ faults["write"] + faults["quarantine"] = 0 => BringsData(es)'
<1> TAKE es \in Batches
<1>1. es \in Seq(Recs) /\ Range(es) \subseteq sent \cup {Poison} /\ sent \subseteq Recs
  BY BatchesSent DEF TypeOK
<1>2. ASSUME faults["quarantine"] = 0, NEW c \in Command, Unreported(c)' PROVE RealLeads(es, c)
  <2>1. CASE Unreported(c)
    BY <1>2, <2>1 DEF TurnInv, RealFirst
  <2>2. CASE RealResult(c) \in X
    <3>1. \A x \in sent : ~IsFailure(x, c)
      BY <2>2, RecordFields DEF FreshRecords
    <3>2. ~IsFailure(Poison, c)
      BY RecordFields DEF IsFailure, IsResult, Poison
    <3>3. \A k \in DOMAIN es : ~IsFailure(es[k], c)
      BY <1>1, <3>1, <3>2, RangeSeq
    <3> QED BY <3>3 DEF RealLeads
  <2> QED BY <1>2, <2>1, <2>2, UnreportedBefore
<1>3. ASSUME faults["write"] + faults["quarantine"] = 0 PROVE BringsData(es)'
  <2> SUFFICES ASSUME NEW d \in sent', d.kind \in DataKinds, NEW r \in Range(es), IsResult(r, d.cmd)
               PROVE  Done(d)' \/ d \in lost' \cup Range(es)
    BY DEF BringsData
  <2>1. CASE d \in sent
    <3>1. Done(d) \/ d \in lost \cup Range(es)
      BY <1>3, <2>1 DEF TurnInv, ResultBehindData, BringsData
    <3> QED BY <1>1, <2>1, <3>1, DoneStable
  <2>2. CASE d \in X
    <3>1. \A x \in sent : ~IsResult(x, d.cmd)
      BY <2>2 DEF FreshRecords
    <3>2. ~IsResult(Poison, d.cmd)
      BY DEF IsResult, Poison
    <3> QED BY <1>1, <3>1, <3>2
  <2> QED BY <2>1, <2>2
<1> QED BY <1>2, <1>3

\* What b has to keep when it is written behind the log.
BufferOrder(b) ==
    /\ \A c \in Command : faults["quarantine"] = 0 /\ Unreported(c) =>
         RealResult(c) \in Range(log.recs) \/ RealLeads(b, c)
    /\ faults["write"] + faults["quarantine"] = 0 => ResultsLast(b) /\ NoneBehind(log.recs, b)

\* Appending to the buffer keeps the order in it.
LEMMA AppendKeepsOrder ==
    ASSUME TypeOK, PipelineInv, TurnInv, NEW r \in Recs, FreshRecords({r})
    PROVE  BufferOrder(Append(buffered, r))
<1> DEFINE b == Append(buffered, r)
<1>1. /\ buffered \in Seq(Recs) /\ log.recs \in Seq(Recs) /\ Range(log.recs) \subseteq sent \cup {Poison}
      /\ Range(buffered) \subseteq sent
  BY DEF TypeOK, PipelineInv, Provenance, TurnInv, OutboxSent
<1>2. /\ b \in Seq(Recs) /\ Len(buffered) \in Nat /\ DOMAIN buffered = 1 .. Len(buffered)
      /\ DOMAIN b = 1 .. Len(buffered) + 1
      /\ \A k \in 1 .. Len(buffered) : b[k] = buffered[k]
      /\ b[Len(buffered) + 1] = r
  BY <1>1
<1> DEFINE n == Len(buffered)
<1> HIDE DEF b, n
<1>3. /\ n \in Nat /\ DOMAIN buffered = 1 .. n /\ DOMAIN b = 1 .. n + 1
      /\ \A k \in 1 .. n : b[k] = buffered[k] /\ b[k] \in sent
      /\ b[n + 1] = r
      /\ \A k \in DOMAIN b : k \in 1 .. n \/ k = n + 1
  <2>1. n \in Nat /\ DOMAIN buffered = 1 .. n /\ DOMAIN b = 1 .. n + 1 /\ b[n + 1] = r
    BY <1>2 DEF n
  <2>2. \A k \in 1 .. n : b[k] = buffered[k]
    BY <1>2 DEF n
  <2>3. \A k \in 1 .. n : buffered[k] \in sent
    BY <1>1, <2>1, RangeSeq
  <2>4. \A k \in DOMAIN b : k \in 1 .. n \/ k = n + 1
    BY <2>1
  <2> QED BY <2>1, <2>2, <2>3, <2>4
<1>4. ASSUME NEW c \in Command, faults["quarantine"] = 0, Unreported(c), RealResult(c) \notin Range(log.recs)
      PROVE  RealLeads(b, c)
  <2>1. RealLeads(buffered, c)
    BY <1>4 DEF TurnInv, RealFirst
  <2>2. ~Done(RealResult(c))
    BY <1>4, RecordFields DEF Done, Refused, Persisted, Unreported, DataKinds
  <2>3. RealResult(c) \in Range(buffered)
    BY <1>4, <2>2 DEF PipelineInv, NoSilentLoss, Unreported
  <2>4. PICK j \in 1 .. n : b[j] = RealResult(c)
    BY <1>1, <1>3, <2>3, RangeSeq DEF n
  <2>5. ASSUME NEW k \in DOMAIN b, IsFailure(b[k], c) PROVE \E i \in DOMAIN b : i < k /\ b[i] = RealResult(c)
    <3>1. CASE k = n + 1
      BY <1>3, <2>4, <3>1
    <3>2. CASE k \in 1 .. n
      <4>1. PICK i \in DOMAIN buffered : i < k /\ buffered[i] = RealResult(c)
        BY <1>3, <2>1, <2>5, <3>2 DEF RealLeads
      <4> QED BY <1>3, <4>1
    <3> QED BY <1>3, <3>1, <3>2
  <2> QED BY <2>5 DEF RealLeads
<1>5. ASSUME faults["write"] + faults["quarantine"] = 0 PROVE ResultsLast(b) /\ NoneBehind(log.recs, b)
  <2>1. ResultsLast(buffered) /\ NoneBehind(log.recs, buffered)
    BY <1>5 DEF TurnInv, ResultBehindData
  <2>2. ASSUME NEW j \in DOMAIN b, NEW k \in DOMAIN b, b[j].kind \in DataKinds, IsResult(b[k], b[j].cmd)
        PROVE  j < k
    <3>1. CASE j \in 1 .. n /\ k \in 1 .. n
      BY <1>3, <2>1, <2>2, <3>1 DEF ResultsLast
    <3>2. CASE j \in 1 .. n /\ k = n + 1
      BY <1>3, <3>2
    <3>3. CASE j = n + 1 /\ k \in 1 .. n
      BY <1>3, <2>2, <3>3 DEF FreshRecords
    <3>4. CASE j = n + 1 /\ k = n + 1
      BY <1>3, <2>2, <3>4 DEF IsResult, DataKinds
    <3> QED BY <1>3, <3>1, <3>2, <3>3, <3>4
  <2>3. Range(b) \subseteq Range(buffered) \cup {r}
    <3> SUFFICES ASSUME NEW x \in Range(b) PROVE x \in Range(buffered) \cup {r}
      OBVIOUS
    <3>1. PICK k \in DOMAIN b : x = b[k]
      BY <1>2, RangeSeq
    <3> QED BY <1>1, <1>3, <3>1, RangeSeq DEF n
  <2>4. \A x \in Range(log.recs) : r.kind \in DataKinds => ~IsResult(x, r.cmd)
    <3>1. ~IsResult(Poison, r.cmd)
      BY DEF IsResult, Poison
    <3> QED BY <1>1, <3>1 DEF FreshRecords
  <2>5. NoneBehind(log.recs, b)
    BY <2>1, <2>3, <2>4 DEF NoneBehind
  <2> QED BY <2>2, <2>5 DEF ResultsLast
<1> QED BY <1>4, <1>5 DEF b, BufferOrder

\* The outbox's share of RealFirst and ResultBehindData.
OutboxLeads ==
    faults["quarantine"] = 0 =>
      \A c \in Command : Unreported(c) =>
        RealLeads(log.recs, c) /\ (RealResult(c) \in Range(log.recs) \/ RealLeads(buffered, c))

OutboxLast ==
    faults["write"] + faults["quarantine"] = 0 =>
      ResultsLast(log.recs) /\ ResultsLast(buffered) /\ NoneBehind(log.recs, buffered)

\* The batches' share.
BatchesLead ==
    faults["quarantine"] = 0 =>
      \A batch \in Batches, c \in Command : Unreported(c) => RealLeads(batch, c)

BatchesBring ==
    faults["write"] + faults["quarantine"] = 0 => \A batch \in Batches : BringsData(batch)

\* Records that are not torn leave the count of torn frames alone.
LEMMA TornAppend ==
    ASSUME log \in Logs, NEW x \in Seq(Recs), Poison \notin Range(x), log' = AppendBatch(log, x)
    PROVE  TornFrames' = TornFrames
<1>1. /\ log'.base = log.base /\ DOMAIN log.recs = 1 .. Len(log.recs)
      /\ Len(log.recs) \in Nat /\ Len(x) \in Nat
      /\ DOMAIN log'.recs = 1 .. Len(log.recs) + Len(x)
      /\ \A k \in 1 .. Len(log.recs) : log'.recs[k] = log.recs[k]
      /\ \A k \in 1 .. Len(x) : log'.recs[Len(log.recs) + k] = x[k]
      /\ \A k \in DOMAIN log'.recs : k <= Len(log.recs) \/ k - Len(log.recs) \in 1 .. Len(x)
  BY Positions
<1>2. ASSUME NEW k \in DOMAIN log'.recs, log'.recs[k] = Poison PROVE k \in DOMAIN log.recs
  <2>1. CASE k <= Len(log.recs)
    BY <1>1, <2>1
  <2>2. CASE k - Len(log.recs) \in 1 .. Len(x)
    <3>1. Len(log.recs) + (k - Len(log.recs)) = k
      BY <1>1
    <3>2. log'.recs[k] = x[k - Len(log.recs)]
      BY <1>1, <2>2, <3>1
    <3> QED BY <1>2, <2>2, <3>2, RangeSeq
  <2> QED BY <1>1, <2>1, <2>2
<1>3. {i \in DOMAIN log'.recs : log'.recs[i] = Poison} = {i \in DOMAIN log.recs : log.recs[i] = Poison}
  BY <1>1, <1>2
<1> QED BY <1>1, <1>3 DEF TornFrames

\* A write puts the new records behind the log in their order: a command's own
\* result stays ahead.
LEMMA WriteLeads ==
    ASSUME log \in Logs, log' \in Logs, NEW b \in Seq(Recs), NEW x \in Seq(Recs),
           log' = AppendBatch(log, x), Ordered(x, b), NEW c \in Command,
           RealLeads(log.recs, c), RealResult(c) \in Range(log.recs) \/ RealLeads(b, c)
    PROVE  \A k \in DOMAIN log'.recs : IsFailure(log'.recs[k], c) =>
             \E j \in DOMAIN log'.recs : j < k /\ log'.recs[j] = RealResult(c)
<1> DEFINE n == Len(log.recs)
<1>1. /\ DOMAIN log.recs = 1 .. n /\ n \in Nat /\ Len(x) \in Nat /\ DOMAIN x = 1 .. Len(x)
      /\ DOMAIN log'.recs = 1 .. n + Len(x)
      /\ \A k \in 1 .. n : log'.recs[k] = log.recs[k]
      /\ \A k \in 1 .. Len(x) : log'.recs[n + k] = x[k]
      /\ \A k \in DOMAIN log'.recs : k <= n \/ k - n \in 1 .. Len(x)
  BY Positions
<1> HIDE DEF n
<1> TAKE k \in DOMAIN log'.recs
<1> HAVE IsFailure(log'.recs[k], c)
<1>2. CASE k <= n
  <2>1. k \in DOMAIN log.recs /\ log.recs[k] = log'.recs[k]
    BY <1>1, <1>2
  <2>2. PICK j \in DOMAIN log.recs : j < k /\ log.recs[j] = RealResult(c)
    BY <2>1 DEF RealLeads
  <2> QED BY <1>1, <2>2
<1>3. CASE k - n \in 1 .. Len(x) /\ k > n
  <2> DEFINE q == k - n
  <2>1. n + q = k /\ q \in DOMAIN x /\ q \in Nat
    BY <1>1, <1>3
  <2> HIDE DEF q
  <2>2. log'.recs[k] = x[q]
    BY <1>1, <2>1
  <2>3. PICK i \in DOMAIN b : x[q] = b[i] /\ \A h \in 1 .. i - 1 : \E m \in 1 .. q - 1 : x[m] = b[h]
    BY <2>1 DEF Ordered
  <2>4. CASE RealResult(c) \in Range(log.recs)
    <3>1. PICK j \in 1 .. n : log.recs[j] = RealResult(c)
      <4>1. log.recs \in Seq(Recs)
        BY DEF Logs
      <4>2. PICK j \in 1 .. Len(log.recs) : RealResult(c) = log.recs[j]
        BY <2>4, <4>1, RangeSeq
      <4> QED BY <4>2 DEF n
    <3>2. j < k /\ j \in DOMAIN log'.recs
      BY <1>1, <1>3
    <3> QED BY <1>1, <3>1, <3>2
  <2>5. CASE RealLeads(b, c)
    <3>1. PICK h \in DOMAIN b : h < i /\ b[h] = RealResult(c)
      BY <2>2, <2>3, <2>5 DEF RealLeads
    <3>2. h \in 1 .. i - 1
      BY <3>1
    <3>3. PICK m \in 1 .. q - 1 : x[m] = b[h]
      BY <2>3, <3>2
    <3>4. n + m \in DOMAIN log'.recs /\ n + m < k /\ m \in 1 .. Len(x)
      BY <1>1, <2>1, <3>3
    <3>5. log'.recs[n + m] = x[m]
      BY <1>1, <3>4
    <3> QED BY <3>1, <3>3, <3>4, <3>5
  <2> QED BY <2>4, <2>5
<1> QED BY <1>1, <1>2, <1>3

\* A flush puts the buffer's results behind the log's data.
LEMMA FlushLast ==
    ASSUME log \in Logs, NEW b \in Seq(Recs), log' = AppendBatch(log, b),
           ResultsLast(log.recs), ResultsLast(b), NoneBehind(log.recs, b)
    PROVE  ResultsLast(log.recs)'
<1> DEFINE n == Len(log.recs)
<1>1. /\ DOMAIN log.recs = 1 .. n /\ n \in Nat /\ Len(b) \in Nat /\ DOMAIN b = 1 .. Len(b)
      /\ DOMAIN log'.recs = 1 .. n + Len(b)
      /\ \A k \in 1 .. n : log'.recs[k] = log.recs[k]
      /\ \A k \in 1 .. Len(b) : log'.recs[n + k] = b[k]
      /\ \A k \in DOMAIN log'.recs : k <= n \/ k - n \in 1 .. Len(b)
  BY Positions
<1>2. log.recs \in Seq(Recs)
  BY DEF Logs
<1> HIDE DEF n
<1>3. ASSUME NEW k \in DOMAIN log'.recs, k > n PROVE k - n \in DOMAIN b /\ log'.recs[k] = b[k - n]
  <2>1. n + (k - n) = k /\ k - n \in 1 .. Len(b)
    BY <1>1, <1>3
  <2> QED BY <1>1, <2>1
<1>4. ASSUME NEW j \in DOMAIN log'.recs, NEW k \in DOMAIN log'.recs,
             log'.recs[j].kind \in DataKinds, IsResult(log'.recs[k], log'.recs[j].cmd)
      PROVE  j < k
  <2>1. CASE j <= n /\ k <= n
    BY <1>1, <1>4, <2>1 DEF ResultsLast
  <2>2. CASE j <= n /\ k > n
    BY <1>1, <2>2
  <2>3. CASE j > n /\ k <= n
    <3>1. log'.recs[j] \in Range(b)
      BY <1>3, <2>3, RangeSeq
    <3>2. log'.recs[k] \in Range(log.recs)
      <4>1. k \in DOMAIN log.recs /\ log'.recs[k] = log.recs[k]
        BY <1>1, <2>3
      <4> QED BY <1>2, <4>1, RangeSeq
    <3> QED BY <1>4, <3>1, <3>2 DEF NoneBehind
  <2>4. CASE j > n /\ k > n
    <3>1. j - n < k - n
      BY <1>3, <1>4, <2>4 DEF ResultsLast
    <3> QED BY <1>1, <3>1
  <2> QED BY <1>1, <2>1, <2>2, <2>3, <2>4
<1> QED BY <1>4 DEF ResultsLast

\* What a write of the outbox keeps of TurnInv; X is what it appends.
LEMMA WriteTurn ==
    ASSUME TypeOK, PipelineInv, PipelineInv', TurnInv,
           NEW X \in SUBSET Recs, FreshRecords(X), Poison \notin X, \A y, z \in X : y = z,
           NEW b \in Seq(Recs), Range(b) = Range(buffered) \cup X, BufferOrder(b),
           NEW o, WriteStep(log, b, o), WriteOrder(log, b, o), Write(o),
           sent' = sent \cup X, UNCHANGED <<status, stored>>
    PROVE  /\ ResultKnown' /\ Range(buffered') \subseteq sent' /\ TornCounted'
           /\ OutboxLeads' /\ OutboxLast'
           /\ RealResultWins' /\ TerminalIsLast'
<1>1. /\ log \in Logs /\ buffered \in Seq(Recs) /\ sent \subseteq Recs /\ faults \in [FaultKinds -> Nat]
      /\ Range(buffered) \subseteq sent
  BY DEF TypeOK, Logs, TurnInv, OutboxSent
<1>2. /\ log' = o.log /\ buffered' = o.buffered /\ log' \in Logs /\ lost \subseteq lost' /\ buffered' \in Seq(Recs)
  BY <1>1, WriteType
<1>3. /\ faults'["torn"] = faults["torn"]
      /\ faults'["quarantine"] = 0 => faults["quarantine"] = 0 /\ o.fault # "quarantine"
      /\ faults'["write"] + faults'["quarantine"] = 0 =>
           faults["write"] + faults["quarantine"] = 0 /\ o.fault = "none"
  BY WriteCounts DEF WriteStep
<1>4. ResultKnown'
  BY DEF TurnInv, ResultKnown
<1>5. buffered' \in {<< >>, b}
  BY <1>2 DEF WriteOrder, WriteStep
<1>6. Range(buffered') \subseteq sent'
  <2>1. Range(<< >>) = {}
    BY DEF Range
  <2> QED BY <1>1, <1>5, <2>1
<1>7. Poison \notin Range(b)
  BY <1>1 DEF PipelineInv, Provenance
<1>8. TornCounted'
  <2>1. CASE o.fault = "quarantine"
    <3>1. log' = EmptyLog
      BY <1>2, <2>1 DEF WriteOrder
    <3>2. TornFrames' = {}
      BY <3>1 DEF TornFrames, EmptyLog
    <3>3. faults["torn"] \in Nat
      BY <1>1 DEF FaultKinds
    <3> QED BY <1>3, <3>2, <3>3, FS_EmptySet DEF TornCounted
  <2>2. CASE o.fault # "quarantine"
    <3>1. PICK x \in Seq(Recs) : o.log = AppendBatch(log, x) /\ Ordered(x, b)
      BY <2>2 DEF WriteOrder
    <3>2. Range(x) \subseteq Range(b)
      <4> SUFFICES ASSUME NEW y \in Range(x) PROVE y \in Range(b)
        OBVIOUS
      <4>1. PICK k \in DOMAIN x : y = x[k]
        BY RangeSeq
      <4>2. PICK i \in DOMAIN b : x[k] = b[i]
        BY <3>1 DEF Ordered
      <4> QED BY <4>1, <4>2, RangeSeq
    <3>3. TornFrames' = TornFrames
      BY <1>1, <1>2, <1>7, <3>1, <3>2, TornAppend
    <3> QED BY <1>3, <3>3 DEF TurnInv, TornCounted
  <2> QED BY <2>1, <2>2
<1>9. OutboxLeads'
  <2> SUFFICES ASSUME faults'["quarantine"] = 0, NEW c \in Command, Unreported(c)'
               PROVE  /\ \A k \in DOMAIN log'.recs : IsFailure(log'.recs[k], c) =>
                           \E j \in DOMAIN log'.recs : j < k /\ log'.recs[j] = RealResult(c)
                      /\ RealResult(c) \in Range(log'.recs) \/ RealLeads(buffered, c)'
    BY DEF OutboxLeads, RealLeads
  <2>1. CASE RealResult(c) \in X
    <3>1. \A y \in sent : ~IsFailure(y, c)
      BY <2>1, RecordFields DEF FreshRecords
    <3>2. \A y \in X : ~IsFailure(y, c)
      BY <2>1, RecordFields DEF IsFailure
    <3>3. ~IsFailure(Poison, c)
      BY DEF IsFailure, IsResult, Poison
    <3>4. Range(log'.recs) \cup Range(buffered') \subseteq sent \cup X \cup {Poison}
      BY DEF PipelineInv, Provenance
    <3>5. log'.recs \in Seq(Recs)
      BY <1>2 DEF Logs
    <3>6. \A k \in DOMAIN log'.recs : ~IsFailure(log'.recs[k], c)
      BY <3>1, <3>2, <3>3, <3>4, <3>5, RangeSeq
    <3>7. \A k \in DOMAIN buffered' : ~IsFailure(buffered'[k], c)
      BY <1>2, <3>1, <3>2, <3>3, <3>4, RangeSeq
    <3> QED BY <3>6, <3>7 DEF RealLeads
  <2>2. CASE Unreported(c)
    <3>1. faults["quarantine"] = 0 /\ o.fault # "quarantine"
      BY <1>3
    <3>2. PICK x \in Seq(Recs) : o.log = AppendBatch(log, x) /\ Ordered(x, b)
      BY <3>1 DEF WriteOrder
    <3>3. RealLeads(log.recs, c) /\ (RealResult(c) \in Range(log.recs) \/ RealLeads(b, c))
      BY <2>2, <3>1 DEF TurnInv, RealFirst, BufferOrder
    <3>4. \A k \in DOMAIN log'.recs : IsFailure(log'.recs[k], c) =>
             \E j \in DOMAIN log'.recs : j < k /\ log'.recs[j] = RealResult(c)
      BY <1>1, <1>2, <3>2, <3>3, WriteLeads
    <3>5. Range(log.recs) \subseteq Range(log'.recs)
      <4>1. Range(AppendBatch(log, x).recs) = Range(log.recs) \cup Range(x)
        BY <1>1, AppendBatchStep
      <4> QED BY <1>2, <3>2, <4>1
    <3>6. RealLeads(b, c) => RealLeads(buffered, c)'
      BY <1>5 DEF RealLeads
    <3> QED BY <3>3, <3>4, <3>5, <3>6
  <2> QED BY <1>2, <2>1, <2>2, UnreportedBefore DEF ManagerGrows
<1>10. OutboxLast'
  <2> SUFFICES ASSUME faults'["write"] + faults'["quarantine"] = 0
               PROVE  ResultsLast(log.recs)' /\ ResultsLast(buffered)' /\ NoneBehind(log.recs, buffered)'
    BY DEF OutboxLast
  <2>1. /\ ResultsLast(log.recs) /\ ResultsLast(b) /\ NoneBehind(log.recs, b) /\ o.fault = "none"
    BY <1>3 DEF TurnInv, ResultBehindData, BufferOrder
  <2>2. CASE log' = log /\ buffered' = b
    BY <2>1, <2>2 DEF ResultsLast, NoneBehind
  <2>3. CASE log' = AppendBatch(log, b) /\ buffered' = << >>
    <3>1. ResultsLast(log.recs)'
      BY <1>1, <2>1, <2>3, FlushLast
    <3>2. ResultsLast(buffered)' /\ NoneBehind(log.recs, buffered)'
      BY <2>3 DEF ResultsLast, NoneBehind, Range
    <3> QED BY <3>1, <3>2
  <2> QED BY <1>2, <2>1, <2>2, <2>3 DEF WriteOrder
<1>11. RealResultWins'
  <2> SUFFICES ASSUME faults'["quarantine"] = 0, NEW c \in Command, status[c] = "failed",
                      RealResult(c) \in sent' \ lost'
               PROVE  FALSE
    BY DEF RealResultWins
  <2>1. RealResult(c) \notin sent
    BY <1>2, <1>3 DEF TurnInv, RealResultWins
  <2>2. RealResult(c) \in X /\ \A y \in sent : ~IsFailure(y, c)
    BY <2>1, RecordFields DEF FreshRecords
  <2> QED BY <2>2 DEF TurnInv, ResultKnown
<1>12. TerminalIsLast'
  <2> SUFFICES ASSUME faults'["write"] + faults'["quarantine"] = 0, NEW r \in sent',
                      status[r.cmd] \in {"completed", "failed"}
               PROVE  Done(r)' \/ r \in lost'
    BY DEF TerminalIsLast
  <2>1. \A y : Done(y) => Done(y)'
    BY DEF Done, Persisted
  <2>2. CASE r \in sent
    BY <1>2, <1>3, <2>1, <2>2 DEF TurnInv, TerminalIsLast
  <2>3. CASE r \in X /\ r.kind \in DataKinds
    <3>1. r.cmd \in Command /\ \A y \in sent : ~IsResult(y, r.cmd)
      BY <2>3, RecordFields DEF FreshRecords
    <3> QED BY <3>1 DEF TurnInv, ResultKnown, IsFailure
  <2>4. CASE r \in X /\ r.kind \notin DataKinds
    BY <2>4 DEF Done, Persisted, TerminalStatuses
  <2> QED BY <2>2, <2>3, <2>4
<1> QED BY <1>4, <1>6, <1>8, <1>9, <1>10, <1>11, <1>12

\* A batch that is neither new nor torn from the call keeps its share.
LEMMA BatchesStay ==
    ASSUME TypeOK, PipelineInv, TurnInv, ManagerGrows,
           NEW X \in SUBSET Recs, FreshRecords(X), sent' = sent \cup X, lost \subseteq lost',
           faults'["quarantine"] = 0 => faults["quarantine"] = 0,
           faults'["write"] + faults'["quarantine"] = 0 => faults["write"] + faults["quarantine"] = 0,
           Batches' \subseteq Batches \cup {<< >>}
    PROVE  /\ BatchesLead' /\ BatchesBring'
           /\ \A batch \in stale' : Range(batch) \subseteq sent' \cup {Poison}
<1>1. \A es \in Batches : Range(es) \subseteq sent \cup {Poison}
  BY BatchesSent
<1>2. Range(<< >>) = {}
  BY DEF Range
<1>3. \A batch \in Batches' : Range(batch) \subseteq sent' \cup {Poison}
  BY <1>1, <1>2
<1>4. stale' \subseteq Batches'
  BY DEF Batches
<1>5. \A c : RealLeads(<< >>, c)
  BY DEF RealLeads
<1>6. BringsData(<< >>)'
  BY <1>2 DEF BringsData
<1>7. \A es \in Batches :
        /\ faults["quarantine"] = 0 => \A c \in Command : Unreported(c)' => RealLeads(es, c)
        /\ faults["write"] + faults["quarantine"] = 0 => BringsData(es)'
  BY BatchesKept
<1>8. BatchesLead'
  BY <1>5, <1>7 DEF BatchesLead
<1>9. BatchesBring'
  BY <1>6, <1>7 DEF BatchesBring
<1> QED BY <1>3, <1>4, <1>8, <1>9

\* TurnInv from the shares of the outbox and of the batches.
LEMMA TurnParts ==
    ASSUME ResultKnown', TurnResults', TornCounted', Range(buffered') \subseteq sent',
           \A batch \in stale' : Range(batch) \subseteq sent' \cup {Poison},
           OutboxLeads', OutboxLast', BatchesLead', BatchesBring',
           faults'["write"] + faults'["quarantine"] = 0 => turn'.phase # "bypass",
           TurnIsolation', RealResultWins', TerminalIsLast'
    PROVE  TurnInv'
<1>1. RealFirst'
  BY DEF OutboxLeads, BatchesLead, RealFirst
<1>2. ResultBehindData'
  BY DEF OutboxLast, BatchesBring, ResultBehindData
<1> QED BY <1>1, <1>2 DEF TurnInv, OutboxSent

\* A step that leaves the outbox alone.
LEMMA QuietStep ==
    ASSUME TypeOK, TurnInv, ManagerGrows, UNCHANGED <<log, buffered, sent, lost>>,
           \A f \in {"torn", "write", "quarantine"} : faults'[f] = faults[f]
    PROVE  Range(buffered') \subseteq sent' /\ TornCounted' /\ OutboxLeads' /\ OutboxLast'
<1>1. TornCounted'
  <2>1. TornFrames' = TornFrames
    BY DEF TornFrames
  <2> QED BY <2>1 DEF TurnInv, TornCounted
<1>2. OutboxLeads'
  <2>1. \A c \in Command : Unreported(c)' => Unreported(c)
    BY DEF Unreported, ManagerGrows
  <2> QED BY <2>1 DEF TurnInv, RealFirst, OutboxLeads, RealLeads
<1>3. OutboxLast'
  BY DEF TurnInv, ResultBehindData, OutboxLast, ResultsLast, NoneBehind
<1> QED BY <1>1, <1>2, <1>3 DEF TurnInv, OutboxSent

\* A batch changes a status by the first result in it.
LEMMA AppliedStatus ==
    ASSUME TypeOK, ResultKnown, NEW es \in Seq(Recs),
           status' = [c \in Command |-> StatusAfter(status[c], status[c], es, c)],
           NEW c \in Command, status'[c] # status[c]
    PROVE  /\ status[c] \in LiveStatuses
           /\ \E i \in DOMAIN es :
                /\ IsResult(es[i], c) /\ status'[c] = Outcome(es[i])
                /\ \A j \in DOMAIN es : IsResult(es[j], c) /\ ~Refused(es[j]) => i <= j
<1> DEFINE R == ResultsOf(es, c)
<1>1. status'[c] = StatusAfter(status[c], status[c], es, c)
  OBVIOUS
<1>2. R # {} /\ status'[c] = TerminalUpdate(status[c], status[c], Outcome(es[Min(R)]))
  BY <1>1 DEF StatusAfter
<1>3. R \in SUBSET Nat /\ R \subseteq DOMAIN es
  <2>1. DOMAIN es \subseteq Nat
    OBVIOUS
  <2> QED BY <2>1 DEF ResultsOf
<1>4. Min(R) \in R /\ \A y \in R : Min(R) <= y
  <2> HIDE DEF R
  <2> QED BY <1>2, <1>3, MinNat
<1>5. status[c] \in LiveStatuses /\ status'[c] = Outcome(es[Min(R)])
  BY <1>2 DEF TerminalUpdate, ResultKnown
<1>6. IsResult(es[Min(R)], c)
  BY <1>4 DEF ResultsOf, IsResult
<1>7. \A j \in DOMAIN es : IsResult(es[j], c) /\ ~Refused(es[j]) => j \in R
  BY DEF ResultsOf, IsResult
<1> HIDE DEF R
<1> QED BY <1>3, <1>4, <1>5, <1>6, <1>7

\* A batch closes a command by a result that was appended.
LEMMA ApplyKnown ==
    ASSUME TypeOK, ResultKnown, NEW es \in Seq(Recs), Range(es) \subseteq sent \cup {Poison},
           status' = [c \in Command |-> StatusAfter(status[c], status[c], es, c)], sent' = sent
    PROVE  ResultKnown'
<1> SUFFICES ASSUME NEW c \in Command
             PROVE  /\ status'[c] # "unreachable"
                    /\ status'[c] = "completed" => \E r \in sent : IsResult(r, c)
                    /\ status'[c] = "failed" => \E r \in sent : IsFailure(r, c)
  BY DEF ResultKnown
<1>1. CASE status'[c] = status[c]
  BY <1>1 DEF ResultKnown
<1>2. CASE status'[c] # status[c]
  <2>1. PICK i \in DOMAIN es : IsResult(es[i], c) /\ status'[c] = Outcome(es[i])
    BY <1>2, AppliedStatus
  <2>2. es[i] \in sent
    <3>1. es[i] \in Range(es)
      BY RangeSeq
    <3>2. es[i] # Poison
      BY <2>1 DEF IsResult, Poison
    <3> QED BY <3>1, <3>2
  <2> QED BY <2>1, <2>2 DEF Outcome, IsFailure
<1> QED BY <1>1, <1>2

\* A batch in which the command's own result leads does not fail the command.
LEMMA ApplyWins ==
    ASSUME TypeOK, ResultKnown, RealResultWins, NEW es \in Seq(Recs),
           faults["quarantine"] = 0 => \A c \in Command : Unreported(c) => RealLeads(es, c),
           status' = [c \in Command |-> StatusAfter(status[c], status[c], es, c)],
           UNCHANGED <<sent, lost>>, faults'["quarantine"] = faults["quarantine"]
    PROVE  RealResultWins'
<1> SUFFICES ASSUME faults["quarantine"] = 0, NEW c \in Command, status'[c] = "failed",
                    RealResult(c) \in sent \ lost
             PROVE  FALSE
  BY DEF RealResultWins
<1>1. status[c] # "failed"
  BY DEF RealResultWins
<1>2. PICK i \in DOMAIN es :
           /\ IsResult(es[i], c) /\ status'[c] = Outcome(es[i])
           /\ \A j \in DOMAIN es : IsResult(es[j], c) /\ ~Refused(es[j]) => i <= j
  BY <1>1, AppliedStatus
<1>3. status[c] \in LiveStatuses
  BY <1>1, AppliedStatus
<1>4. Unreported(c) /\ IsFailure(es[i], c)
  BY <1>2, <1>3 DEF Unreported, LiveStatuses, TerminalStatuses, IsFailure, Outcome
<1>5. PICK j \in DOMAIN es : j < i /\ es[j] = RealResult(c)
  BY <1>4 DEF RealLeads
<1>6. IsResult(es[j], c) /\ ~Refused(es[j])
  BY <1>5, RecordFields DEF IsResult, Refused
<1>7. i \in Nat /\ j \in Nat
  OBVIOUS
<1> QED BY <1>2, <1>5, <1>6, <1>7

\* A batch with a result completes the data of its command.
LEMMA ApplyLast ==
    ASSUME TypeOK, PipelineInv, ResultKnown, TerminalIsLast, NEW es \in Seq(Recs),
           Range(es) \subseteq sent \cup {Poison},
           faults["write"] + faults["quarantine"] = 0 => BringsData(es),
           ApplyBatch(es), UNCHANGED <<sent, lost, faults>>
    PROVE  TerminalIsLast'
<1> SUFFICES ASSUME faults["write"] + faults["quarantine"] = 0, NEW d \in sent,
                    status'[d.cmd] \in {"completed", "failed"}
             PROVE  Done(d)' \/ d \in lost
  BY DEF TerminalIsLast
<1>1. d \in Recs /\ d.cmd \in Command /\ ManagerGrows
  <2>1. d \in Recs /\ d # Poison
    BY DEF TypeOK, PipelineInv, Provenance
  <2> QED BY <2>1, RecordFields, ApplyStep DEF ManagerGrows
<1>2. CASE status'[d.cmd] = status[d.cmd]
  BY <1>1, <1>2, DoneStable DEF TerminalIsLast
<1>3. CASE d.kind \notin DataKinds
  BY <1>3 DEF Done, Persisted, TerminalStatuses
<1>4. CASE status'[d.cmd] # status[d.cmd] /\ d.kind \in DataKinds
  <2>1. PICK i \in DOMAIN es : IsResult(es[i], d.cmd)
    BY <1>1, <1>4, AppliedStatus DEF ApplyBatch
  <2>2. es[i] \in Range(es)
    BY RangeSeq
  <2>3. Done(d) \/ d \in lost \cup Range(es)
    BY <1>4, <2>1, <2>2 DEF BringsData
  <2>4. CASE d \in Range(es)
    <3>1. PICK k \in DOMAIN es : d = es[k]
      BY <2>4, RangeSeq
    <3>2. es[k] # Poison => status[es[k].cmd] # "none"
      BY <3>1 DEF PipelineInv, Provenance
    <3>3. Done(es[k])'
      BY <3>2, AppliedDone
    <3> QED BY <3>1, <3>3
  <2> QED BY <1>1, <2>3, <2>4, DoneStable
<1> QED BY <1>2, <1>3, <1>4

\* recs is the piece of the log l from the index start on.
Slice(l, start, recs) ==
    \A k \in DOMAIN recs : /\ start + k - 1 <= LastIndex(l)
                           /\ l.recs[start + k - 1 - l.base] = recs[k]

\* What is in the log between the start of a batch and one of its records is
\* in the batch too.
LEMMA SlicePosition ==
    ASSUME NEW l \in Logs, NEW recs \in Seq(Recs), NEW start \in Nat, l.base < start,
           Slice(l, start, recs), NEW k \in DOMAIN recs, NEW j \in DOMAIN l.recs,
           l.base + j >= start, j < start + k - 1 - l.base
    PROVE  \E q \in DOMAIN recs : q < k /\ recs[q] = l.recs[j]
<1>1. l.base \in Nat /\ k \in Nat /\ j \in Nat /\ DOMAIN recs = 1 .. Len(recs) /\ Len(recs) \in Nat
  BY DEF Logs
<1>2. PICK d \in Nat : start = l.base + d + 1
  <2>1. start - l.base - 1 \in Nat /\ start = l.base + (start - l.base - 1) + 1
    BY <1>1
  <2> QED BY <2>1
<1>3. ASSUME NEW q \in DOMAIN recs PROVE start + q - 1 - l.base = d + q
  <2>1. PICK b \in Nat : b = l.base
    BY <1>1
  <2>2. q \in Nat /\ start = b + d + 1
    BY <1>1, <1>2, <2>1
  <2>3. b + d + 1 + q - 1 - b = d + q
    BY <2>2
  <2> QED BY <2>1, <2>2, <2>3
<1>4. j > d /\ j < d + k
  BY <1>1, <1>2
<1>5. j - d \in 1 .. Len(recs) /\ j - d < k /\ d + (j - d) = j
  BY <1>1, <1>4
<1>6. PICK q \in DOMAIN recs : q < k /\ d + q = j
  BY <1>1, <1>5
<1>7. l.recs[start + q - 1 - l.base] = recs[q] /\ start + q - 1 - l.base = j
  BY <1>3, <1>6 DEF Slice
<1> QED BY <1>6, <1>7

\* A batch read from a log in which the command's own result leads.
LEMMA SliceLeads ==
    ASSUME NEW l \in Logs, NEW recs \in Seq(Recs), NEW start \in Nat, l.base < start,
           Slice(l, start, recs),
           NEW c, RealLeads(l.recs, c),
           \A k \in DOMAIN l.recs : l.base + k < start => l.recs[k] # RealResult(c)
    PROVE  RealLeads(recs, c)
<1>1. /\ l.base \in Nat /\ Len(l.recs) \in Nat /\ DOMAIN l.recs = 1 .. Len(l.recs)
      /\ LastIndex(l) = l.base + Len(l.recs)
  BY DEF Logs, LastIndex
<1>2. DOMAIN recs = 1 .. Len(recs) /\ Len(recs) \in Nat
  OBVIOUS
<1> SUFFICES ASSUME NEW k \in DOMAIN recs, IsFailure(recs[k], c)
             PROVE  \E j \in DOMAIN recs : j < k /\ recs[j] = RealResult(c)
  BY DEF RealLeads
<1> DEFINE p == start + k - 1 - l.base
<1>3. p \in DOMAIN l.recs /\ l.recs[p] = recs[k] /\ p = start + k - 1 - l.base
  BY <1>1, <1>2 DEF Slice
<1> HIDE DEF p
<1>4. PICK j \in DOMAIN l.recs : j < p /\ l.recs[j] = RealResult(c)
  BY <1>3 DEF RealLeads
<1>5. CASE l.base + j >= start
  BY <1>3, <1>4, <1>5, SlicePosition
<1> QED BY <1>1, <1>4, <1>5

\* A batch with a result, read from a log in which results come last.
LEMMA SliceBrings ==
    ASSUME NEW l \in Logs, NEW recs \in Seq(Recs), NEW start \in Nat, l.base < start,
           Slice(l, start, recs),
           ResultsLast(l.recs), NEW d \in Range(l.recs), d.kind \in DataKinds,
           NEW r \in Range(recs), IsResult(r, d.cmd)
    PROVE  d \in Range(recs) \/ \E k \in DOMAIN l.recs : l.base + k < start /\ l.recs[k] = d
<1>1. /\ l.base \in Nat /\ Len(l.recs) \in Nat /\ DOMAIN l.recs = 1 .. Len(l.recs)
      /\ LastIndex(l) = l.base + Len(l.recs) /\ l.recs \in Seq(Recs)
  BY DEF Logs, LastIndex
<1>2. DOMAIN recs = 1 .. Len(recs) /\ Len(recs) \in Nat
  OBVIOUS
<1>3. PICK k \in DOMAIN recs : r = recs[k]
  BY RangeSeq
<1>4. PICK j \in DOMAIN l.recs : d = l.recs[j]
  BY <1>1, RangeSeq
<1> DEFINE p == start + k - 1 - l.base
<1>5. p \in DOMAIN l.recs /\ l.recs[p] = recs[k] /\ p = start + k - 1 - l.base
  BY <1>1, <1>2 DEF Slice
<1> HIDE DEF p
<1>6. j < p
  BY <1>3, <1>4, <1>5 DEF ResultsLast
<1>7. CASE l.base + j >= start
  <2>1. j < start + k - 1 - l.base
    BY <1>5, <1>6
  <2>2. \E q \in DOMAIN recs : recs[q] = d
    BY <1>4, <1>7, <2>1, SlicePosition
  <2> QED BY <2>2, RangeSeq
<1> QED BY <1>1, <1>4, <1>7

\* What a fold keeps of TurnInv.
LEMMA FoldTurn ==
    ASSUME TypeOK, PipelineInv, TurnInv, Fold
    PROVE  /\ ResultKnown' /\ Range(buffered') \subseteq sent' /\ TornCounted'
           /\ OutboxLeads' /\ OutboxLast'
           /\ RealResultWins' /\ TerminalIsLast'
<1>1. /\ UNCHANGED <<buffered, stale, turn, status, stored, sent>>
      /\ \A f \in {"torn", "write", "quarantine"} : faults'[f] = faults[f]
      /\ Suffix(log, log') /\ lost \subseteq lost'
      /\ faults["quarantine"] = 0 =>
           \A k \in DOMAIN log.recs :
             log.base + k <= log'.base => Done(log.recs[k]) \/ log.recs[k] \in lost'
  BY FoldDrops
<1>2. log \in Logs /\ log' \in Logs
  BY <1>1 DEF TypeOK, Logs, Suffix
<1>3. /\ log.base \in Nat /\ log'.base \in Nat
      /\ log.recs \in Seq(Recs) /\ log'.recs \in Seq(Recs)
      /\ DOMAIN log.recs \subseteq Nat /\ DOMAIN log'.recs \subseteq Nat
  BY <1>2 DEF Logs
<1>4. ResultKnown' /\ Range(buffered') \subseteq sent'
  BY <1>1 DEF TurnInv, ResultKnown, OutboxSent
<1>5. TornCounted'
  <2>1. ASSUME NEW k \in DOMAIN log'.recs, log'.recs[k] = Poison
        PROVE  log'.base + k \in TornFrames
    <3> DEFINE j == k + log'.base - log.base
    <3>1. j \in DOMAIN log.recs /\ log.recs[j] = Poison
      BY <1>1, <2>1 DEF Suffix
    <3>2. log'.base + k = log.base + j
      BY <1>3
    <3> HIDE DEF j
    <3> QED BY <3>1, <3>2 DEF TornFrames
  <2>2. TornFrames' \subseteq TornFrames
    BY <2>1 DEF TornFrames
  <2>3. IsFiniteSet(TornFrames) /\ Cardinality(TornFrames) <= faults["torn"]
    BY DEF TurnInv, TornCounted
  <2>4. IsFiniteSet(TornFrames') /\ Cardinality(TornFrames') <= Cardinality(TornFrames)
    BY <2>2, <2>3, FS_Subset
  <2>5. Cardinality(TornFrames') \in Nat /\ Cardinality(TornFrames) \in Nat /\ faults["torn"] \in Nat
    BY <2>3, <2>4, FS_CardinalityType DEF TypeOK, FaultKinds
  <2> QED BY <1>1, <2>3, <2>4, <2>5 DEF TornCounted
<1>6. OutboxLeads'
  <2> SUFFICES ASSUME faults["quarantine"] = 0, NEW c \in Command, Unreported(c)'
               PROVE  /\ \A k \in DOMAIN log'.recs : IsFailure(log'.recs[k], c) =>
                           \E j \in DOMAIN log'.recs : j < k /\ log'.recs[j] = RealResult(c)
                      /\ RealResult(c) \in Range(log'.recs) \/ RealLeads(buffered, c)
    BY <1>1 DEF OutboxLeads, RealLeads
  <2>1. Unreported(c) /\ RealResult(c) \notin lost'
    BY <1>1 DEF Unreported
  <2>2. ~Done(RealResult(c))
    BY <2>1, RecordFields DEF Done, Refused, Persisted, Unreported, DataKinds
  <2>3. RealLeads(log.recs, c) /\ (RealResult(c) \in Range(log.recs) \/ RealLeads(buffered, c))
    BY <2>1 DEF TurnInv, RealFirst
  <2>4. ASSUME NEW i \in DOMAIN log.recs, log.recs[i] = RealResult(c)
        PROVE  /\ log.base + i - log'.base \in DOMAIN log'.recs
               /\ log'.recs[log.base + i - log'.base] = RealResult(c)
    <3>1. ~(log.base + i <= log'.base)
      BY <1>1, <2>1, <2>2, <2>4
    <3>2. log.base + i > log'.base
      BY <1>3, <3>1
    <3> QED BY <1>1, <1>2, <2>4, <3>2, SuffixPositions
  <2>5. ASSUME NEW k \in DOMAIN log'.recs, IsFailure(log'.recs[k], c)
        PROVE  \E j \in DOMAIN log'.recs : j < k /\ log'.recs[j] = RealResult(c)
    <3> DEFINE h == k + log'.base - log.base
    <3>1. h \in DOMAIN log.recs /\ log'.recs[k] = log.recs[h]
      BY <1>1 DEF Suffix
    <3>2. PICK i \in DOMAIN log.recs : i < h /\ log.recs[i] = RealResult(c)
      BY <2>3, <2>5, <3>1 DEF RealLeads
    <3>3. log.base + i - log'.base < k
      BY <1>3, <3>2
    <3> QED BY <2>4, <3>2, <3>3
  <2>6. ASSUME RealResult(c) \in Range(log.recs) PROVE RealResult(c) \in Range(log'.recs)
    <3>1. PICK i \in DOMAIN log.recs : RealResult(c) = log.recs[i]
      BY <1>3, <2>6, RangeSeq
    <3>2. \E j \in DOMAIN log'.recs : log'.recs[j] = RealResult(c)
      BY <2>4, <3>1
    <3> QED BY <1>3, <3>2, RangeSeq
  <2> QED BY <2>3, <2>5, <2>6
<1>7. OutboxLast'
  <2> SUFFICES ASSUME faults["write"] + faults["quarantine"] = 0
               PROVE  ResultsLast(log.recs)' /\ ResultsLast(buffered)' /\ NoneBehind(log.recs, buffered)'
    BY <1>1 DEF OutboxLast
  <2>1. ResultsLast(log.recs) /\ ResultsLast(buffered) /\ NoneBehind(log.recs, buffered)
    BY DEF TurnInv, ResultBehindData
  <2>2. ResultsLast(buffered)' /\ NoneBehind(log.recs, buffered)'
    BY <1>1, <2>1 DEF Suffix, ResultsLast, NoneBehind
  <2>3. ASSUME NEW j \in DOMAIN log'.recs, NEW k \in DOMAIN log'.recs,
               log'.recs[j].kind \in DataKinds, IsResult(log'.recs[k], log'.recs[j].cmd)
        PROVE  j < k
    <3> DEFINE g == j + log'.base - log.base
               h == k + log'.base - log.base
    <3>1. /\ g \in DOMAIN log.recs /\ log'.recs[j] = log.recs[g]
          /\ h \in DOMAIN log.recs /\ log'.recs[k] = log.recs[h]
      BY <1>1 DEF Suffix
    <3>2. g < h
      BY <2>1, <2>3, <3>1 DEF ResultsLast
    <3> QED BY <1>3, <3>2
  <2> QED BY <2>2, <2>3 DEF ResultsLast
<1>8. RealResultWins'
  BY <1>1 DEF TurnInv, RealResultWins
<1>9. TerminalIsLast'
  BY <1>1 DEF TurnInv, TerminalIsLast, Done, Persisted
<1> QED BY <1>4, <1>5, <1>6, <1>7, <1>8, <1>9

\* What a restart keeps of TurnInv.
LEMMA RestartTurn ==
    ASSUME TypeOK, PipelineInv, TurnInv, Restart
    PROVE  /\ ResultKnown' /\ Range(buffered') \subseteq sent' /\ TornCounted'
           /\ OutboxLeads' /\ OutboxLast'
           /\ BatchesLead' /\ BatchesBring'
           /\ \A batch \in stale' : Range(batch) \subseteq sent' \cup {Poison}
           /\ RealResultWins' /\ TerminalIsLast'
<1>1. /\ log' \in {log, AppendBatch(log, buffered)} /\ buffered' = << >>
      /\ call' = IdleCall /\ stale' \in {stale, stale \cup {call.recs}}
      /\ UNCHANGED <<status, stored, sent>>
      /\ lost' = IF log' = log THEN lost \cup Range(buffered) ELSE lost
  BY DEF Restart, manager
<1>2. \A f \in {"torn", "write", "quarantine"} : faults'[f] = faults[f]
  BY DEF TypeOK, Restart, Spend, FaultKinds
<1>3. log \in Logs /\ buffered \in Seq(Recs) /\ Range(buffered) \subseteq sent /\ Poison \notin sent
  BY DEF TypeOK, Logs, TurnInv, OutboxSent, PipelineInv, Provenance
<1>4. log' \in Logs /\ lost \subseteq lost'
  BY <1>1, <1>3, AppendBatchStep
<1>5. Range(<< >>) = {}
  BY DEF Range
<1>6. ResultKnown' /\ Range(buffered') \subseteq sent'
  BY <1>1, <1>5 DEF TurnInv, ResultKnown
<1>7. TornCounted'
  <2>1. TornFrames' = TornFrames
    <3>1. CASE log' = log
      BY <3>1 DEF TornFrames
    <3>2. CASE log' = AppendBatch(log, buffered)
      BY <1>3, <3>2, TornAppend
    <3> QED BY <1>1, <3>1, <3>2
  <2> QED BY <1>2, <2>1 DEF TurnInv, TornCounted
<1>8. OutboxLeads'
  <2> SUFFICES ASSUME faults["quarantine"] = 0, NEW c \in Command, Unreported(c)'
               PROVE  /\ \A k \in DOMAIN log'.recs : IsFailure(log'.recs[k], c) =>
                           \E j \in DOMAIN log'.recs : j < k /\ log'.recs[j] = RealResult(c)
                      /\ RealLeads(buffered, c)'
    BY <1>2 DEF OutboxLeads, RealLeads
  <2>1. Unreported(c)
    BY <1>1, <1>4 DEF Unreported
  <2>2. RealLeads(log.recs, c) /\ (RealResult(c) \in Range(log.recs) \/ RealLeads(buffered, c))
    BY <2>1 DEF TurnInv, RealFirst
  <2>3. RealLeads(buffered, c)'
    BY <1>1 DEF RealLeads
  <2>4. CASE log' = log
    BY <2>2, <2>3, <2>4 DEF RealLeads
  <2>5. CASE log' = AppendBatch(log, buffered)
    <3>1. Ordered(buffered, buffered)
      <4>1. 0 \in 0 .. Len(buffered)
        BY <1>3
      <4> QED BY <1>3, <4>1, OrderedParts
    <3> QED BY <1>3, <1>4, <2>2, <2>3, <2>5, <3>1, WriteLeads
  <2> QED BY <1>1, <2>4, <2>5
<1>9. OutboxLast'
  <2> SUFFICES ASSUME faults["write"] + faults["quarantine"] = 0
               PROVE  ResultsLast(log.recs)' /\ ResultsLast(buffered)' /\ NoneBehind(log.recs, buffered)'
    BY <1>2 DEF OutboxLast
  <2>1. ResultsLast(log.recs) /\ ResultsLast(buffered) /\ NoneBehind(log.recs, buffered)
    BY DEF TurnInv, ResultBehindData
  <2>2. ResultsLast(buffered)' /\ NoneBehind(log.recs, buffered)'
    BY <1>1, <1>5 DEF ResultsLast, NoneBehind
  <2>3. CASE log' = log
    BY <2>1, <2>2, <2>3 DEF ResultsLast
  <2>4. CASE log' = AppendBatch(log, buffered)
    BY <1>3, <2>1, <2>2, <2>4, FlushLast
  <2> QED BY <1>1, <2>3, <2>4
<1>10. BatchesLead' /\ BatchesBring' /\ \A batch \in stale' : Range(batch) \subseteq sent' \cup {Poison}
  <2>1. Batches' \subseteq Batches \cup {<< >>}
    <3>1. call'.recs = << >>
      BY <1>1 DEF IdleCall
    <3> QED BY <1>1, <3>1 DEF Batches
  <2>2. {} \in SUBSET Recs /\ FreshRecords({}) /\ sent' = sent \cup {}
    BY <1>1 DEF FreshRecords
  <2>3. ManagerGrows
    BY <1>1 DEF ManagerGrows
  <2> QED BY <1>2, <1>4, <2>1, <2>2, <2>3, BatchesStay
<1>11. RealResultWins' /\ TerminalIsLast'
  BY <1>1, <1>2, <1>4 DEF TurnInv, RealResultWins, TerminalIsLast, Done, Persisted
<1> QED BY <1>6, <1>7, <1>8, <1>9, <1>10, <1>11

\* What a torn frame keeps of TurnInv.
LEMMA TornTurn ==
    ASSUME TypeOK, PipelineInv, TurnInv, TornRecord
    PROVE  /\ ResultKnown' /\ Range(buffered') \subseteq sent' /\ TornCounted'
           /\ OutboxLeads' /\ OutboxLast'
           /\ RealResultWins' /\ TerminalIsLast'
<1>1. PICK k \in DOMAIN log.recs :
           /\ log.recs[k] # Poison
           /\ log' = [base |-> log.base, recs |-> [log.recs EXCEPT ![k] = Poison]]
           /\ lost' = lost \cup {log.recs[k]}
  BY DEF TornRecord
<1>2. UNCHANGED <<buffered, status, stored, sent>>
  BY DEF TornRecord, manager
<1>3. /\ faults'["torn"] = faults["torn"] + 1 /\ faults["torn"] \in Nat
      /\ faults'["quarantine"] = faults["quarantine"] /\ faults'["write"] = faults["write"]
  BY DEF TypeOK, TornRecord, Spend, FaultKinds
<1>4. log.recs \in Seq(Recs) /\ log.base \in Nat /\ DOMAIN log.recs \subseteq Nat
  BY DEF TypeOK
<1> DEFINE torn == [log.recs EXCEPT ![k] = Poison]
<1>5. /\ DOMAIN torn = DOMAIN log.recs
      /\ torn[k] = Poison /\ \A i \in DOMAIN log.recs : i # k => torn[i] = log.recs[i]
  BY <1>1, <1>4
<1>6. log'.base = log.base /\ log'.recs = torn
  BY <1>1
<1> HIDE DEF torn
<1>7. ResultKnown' /\ Range(buffered') \subseteq sent'
  BY <1>2 DEF TurnInv, ResultKnown, OutboxSent
<1>8. TornCounted'
  <2> DEFINE frame == log.base + k
             holes == {i \in DOMAIN log.recs : log.recs[i] = Poison}
  <2>1. {i \in DOMAIN torn : torn[i] = Poison} = holes \cup {k}
    BY <1>1, <1>5
  <2>2. TornFrames' = TornFrames \cup {frame}
    <3>1. TornFrames' = {log.base + i : i \in holes \cup {k}}
      BY <1>6, <2>1 DEF TornFrames
    <3>2. TornFrames = {log.base + i : i \in holes}
      BY DEF TornFrames
    <3> HIDE DEF holes
    <3> QED BY <3>1, <3>2
  <2>3. frame \notin TornFrames
    BY <1>1, <1>4 DEF TornFrames
  <2> HIDE DEF frame
  <2>4. IsFiniteSet(TornFrames) /\ Cardinality(TornFrames) <= faults["torn"]
    BY DEF TurnInv, TornCounted
  <2>5. IsFiniteSet(TornFrames') /\ Cardinality(TornFrames') = Cardinality(TornFrames) + 1
    BY <2>2, <2>3, <2>4, FS_AddElement
  <2>6. Cardinality(TornFrames) \in Nat
    BY <2>4, FS_CardinalityType
  <2> QED BY <1>3, <2>4, <2>5, <2>6 DEF TornCounted
<1>9. ~IsResult(Poison, Poison.cmd) /\ \A c : ~IsResult(Poison, c) /\ ~IsFailure(Poison, c)
  BY DEF IsResult, IsFailure, Poison
<1>10. OutboxLeads'
  <2> SUFFICES ASSUME faults["quarantine"] = 0, NEW c \in Command, Unreported(c)'
               PROVE  /\ \A i \in DOMAIN torn : IsFailure(torn[i], c) =>
                           \E j \in DOMAIN torn : j < i /\ torn[j] = RealResult(c)
                      /\ RealResult(c) \in Range(torn) \/ RealLeads(buffered, c)
    BY <1>2, <1>3, <1>6 DEF OutboxLeads, RealLeads
  <2>1. Unreported(c) /\ log.recs[k] # RealResult(c)
    BY <1>1, <1>2 DEF Unreported
  <2>2. RealLeads(log.recs, c) /\ (RealResult(c) \in Range(log.recs) \/ RealLeads(buffered, c))
    BY <2>1 DEF TurnInv, RealFirst
  <2>3. ASSUME NEW i \in DOMAIN torn, IsFailure(torn[i], c)
        PROVE  \E j \in DOMAIN torn : j < i /\ torn[j] = RealResult(c)
    <3>1. i # k /\ i \in DOMAIN log.recs /\ IsFailure(log.recs[i], c)
      BY <1>5, <1>9, <2>3
    <3>2. PICK j \in DOMAIN log.recs : j < i /\ log.recs[j] = RealResult(c)
      BY <2>2, <3>1 DEF RealLeads
    <3> QED BY <1>5, <2>1, <3>2
  <2>4. RealResult(c) \in Range(log.recs) => RealResult(c) \in Range(torn)
    BY <1>5, <2>1 DEF Range
  <2> QED BY <2>2, <2>3, <2>4
<1>11. OutboxLast'
  <2> SUFFICES ASSUME faults["write"] + faults["quarantine"] = 0
               PROVE  /\ \A i, j \in DOMAIN torn :
                           torn[i].kind \in DataKinds /\ IsResult(torn[j], torn[i].cmd) => i < j
                      /\ ResultsLast(buffered) /\ NoneBehind(torn, buffered)
    BY <1>2, <1>3, <1>6 DEF OutboxLast, ResultsLast, NoneBehind
  <2>1. ResultsLast(log.recs) /\ ResultsLast(buffered) /\ NoneBehind(log.recs, buffered)
    BY DEF TurnInv, ResultBehindData
  <2>2. Range(torn) \subseteq Range(log.recs) \cup {Poison}
    BY <1>5 DEF Range
  <2>3. NoneBehind(torn, buffered)
    BY <1>9, <2>1, <2>2 DEF NoneBehind
  <2>4. Poison.kind \notin DataKinds
    BY DEF Poison, DataKinds
  <2>5. ASSUME NEW i \in DOMAIN torn, NEW j \in DOMAIN torn,
               torn[i].kind \in DataKinds, IsResult(torn[j], torn[i].cmd)
        PROVE  i < j
    <3>1. i # k /\ j # k
      BY <1>5, <1>9, <2>4, <2>5
    <3> QED BY <1>5, <2>1, <2>5, <3>1 DEF ResultsLast
  <2> QED BY <2>1, <2>3, <2>5
<1>12. RealResultWins' /\ TerminalIsLast'
  BY <1>1, <1>2, <1>3 DEF TurnInv, RealResultWins, TerminalIsLast, Done, Persisted
<1> QED BY <1>7, <1>8, <1>10, <1>11, <1>12

\* The number of consecutive indexes.
LEMMA IndexCount ==
    ASSUME NEW a \in Nat, NEW n \in Nat \ {0}
    PROVE  IsFiniteSet(a + 1 .. a + n) /\ Cardinality(a + 1 .. a + n) = n
<1> DEFINE x == a + 1
           y == a + n
<1>1. x \in Int /\ y \in Int /\ ~(x > y) /\ y - x + 1 = n
  OBVIOUS
<1> HIDE DEF x, y
<1>2. IsFiniteSet(x .. y) /\ Cardinality(x .. y) = n
  BY <1>1, FS_Interval
<1> QED BY <1>2 DEF x, y

\* A scan that finds no other command has seen the whole log, unless a whole
\* shard of it is torn.
LEMMA BarrierClear ==
    ASSUME NEW l \in Logs, NEW c, CommandsOf(ReadRecords(l, MaxBatch, 0)) \ {c} = {},
           \A r \in Range(l.recs) : r # Poison => r.cmd # c,
           NEW T, T = {l.base + k : k \in {i \in DOMAIN l.recs : l.recs[i] = Poison}},
           IsFiniteSet(T), Cardinality(T) < MaxBatch
    PROVE  \A r \in Range(l.recs) : r = Poison
<1> DEFINE n == Len(l.recs)
           t == IF MaxBatch < n THEN MaxBatch ELSE n
           shard == SubSeq(l.recs, 1, t)
<1>1. l.recs \in Seq(Recs) /\ l.base \in Nat /\ n \in Nat /\ DOMAIN l.recs = 1 .. n
  BY DEF Logs
<1>2. MaxBatch \in Nat /\ MaxBatch # 0
  BY BoundsAssumption
<1>3. ReadRecords(l, MaxBatch, 0) = shard
  <2>1. ReadStart(l, 0) = l.base + 1
    BY <1>1 DEF ReadStart, FirstIndex
  <2>2. ReadStart(l, 0) - l.base = 1 /\ 1 + MaxBatch - 1 = MaxBatch
    BY <1>1, <1>2, <2>1
  <2> QED BY <2>2 DEF ReadRecords
<1>4. t \in 0 .. n
  BY <1>1, <1>2
<1>5. DOMAIN shard = 1 .. t /\ \A k \in 1 .. t : shard[k] = l.recs[k]
  <2> HIDE DEF t
  <2> QED BY <1>1, <1>4
<1> HIDE DEF shard
<1>6. \A k \in 1 .. t : l.recs[k] = Poison
  <2> SUFFICES ASSUME NEW k \in 1 .. t, l.recs[k] # Poison PROVE FALSE
    OBVIOUS
  <2>1. l.recs[k].cmd \in CommandsOf(shard)
    BY <1>5 DEF CommandsOf
  <2>2. l.recs[k] \in Range(l.recs)
    <3>1. k \in 1 .. n
      BY <1>1, <1>4
    <3> QED BY <1>1, <3>1, RangeSeq
  <2> QED BY <1>3, <2>1, <2>2
<1>7. CASE ~(MaxBatch < n)
  <2>1. t = n
    BY <1>7
  <2> QED BY <1>1, <1>6, <2>1, RangeSeq
<1>8. CASE MaxBatch < n
  <2>1. t = MaxBatch
    BY <1>8
  <2>2. l.base + 1 .. l.base + MaxBatch \subseteq T
    <3> SUFFICES ASSUME NEW i \in l.base + 1 .. l.base + MaxBatch PROVE i \in T
      OBVIOUS
    <3> DEFINE k == i - l.base
    <3>1. k \in 1 .. MaxBatch /\ l.base + k = i
      BY <1>1, <1>2
    <3> HIDE DEF k
    <3>2. k \in DOMAIN l.recs /\ l.recs[k] = Poison
      BY <1>1, <1>2, <1>6, <1>8, <2>1, <3>1
    <3> QED BY <3>1, <3>2
  <2> DEFINE I == l.base + 1 .. l.base + MaxBatch
  <2>3. IsFiniteSet(I) /\ Cardinality(I) = MaxBatch
    BY <1>1, <1>2, IndexCount
  <2> HIDE DEF I
  <2>4. Cardinality(I) <= Cardinality(T)
    BY <2>2, FS_Subset DEF I
  <2>5. Cardinality(T) \in Nat
    BY FS_CardinalityType
  <2> QED BY <1>2, <2>3, <2>4, <2>5
<1> QED BY <1>7, <1>8

\* A batch that is read from the log and sent: it starts behind nothing that
\* still matters, and the whole outbox is in the log.
LEMMA NewBatch ==
    ASSUME TypeOK, PipelineInv, TurnInv, log' \in Logs, buffered' = << >>,
           call'.recs = ReadRecords(log', MaxBatch, readFrom),
           UNCHANGED <<readFrom, stale, status, stored, sent>>, lost \subseteq lost',
           faults'["quarantine"] = 0 => faults["quarantine"] = 0,
           faults'["write"] + faults'["quarantine"] = 0 => faults["write"] + faults["quarantine"] = 0,
           faults' \in [FaultKinds -> Nat],
           NoSilentLoss', CursorSettled', OutboxLeads', OutboxLast'
    PROVE  BatchesLead' /\ BatchesBring'
<1> DEFINE recs  == ReadRecords(log', MaxBatch, readFrom)
           start == ReadStart(log', readFrom)
<1>1. MaxBatch \in Nat \ {0} /\ readFrom \in Nat /\ sent \subseteq Recs
  BY BoundsAssumption DEF TypeOK
<1>2. /\ start \in Nat /\ start > log'.base /\ (start = log'.base + 1 \/ start = readFrom)
      /\ recs \in Seq(Recs)
  BY <1>1, ReadStep
<1>3. \A k \in DOMAIN recs : /\ start + k - 1 <= LastIndex(log')
                             /\ log'.recs[start + k - 1 - log'.base] = recs[k]
  BY <1>1, ReadStep
<1> HIDE DEF recs, start
<1>4. log'.base \in Nat /\ log'.recs \in Seq(Recs) /\ log'.base < start
  BY <1>2 DEF Logs
<1>5. ASSUME faults'["quarantine"] = 0, NEW k \in DOMAIN log'.recs, log'.base + k < start
      PROVE  Done(log.recs[k])'
  <2>1. log'.base + k < readFrom
    <3>1. k \in Nat /\ k >= 1
      BY <1>4
    <3> QED BY <1>2, <1>4, <1>5, <3>1
  <2> QED BY <1>5, <2>1 DEF CursorSettled
<1>6. Batches' = {recs} \cup stale /\ stale \subseteq Batches
  BY DEF Batches, recs
<1>7. \A es \in stale :
        /\ faults["quarantine"] = 0 => \A c \in Command : Unreported(c)' => RealLeads(es, c)
        /\ faults["write"] + faults["quarantine"] = 0 => BringsData(es)'
  <2>1. {} \in SUBSET Recs /\ FreshRecords({}) /\ sent' = sent \cup {} /\ ManagerGrows
    BY DEF FreshRecords, ManagerGrows
  <2> QED BY <1>6, <2>1, BatchesKept
<1>8. ASSUME faults'["quarantine"] = 0, NEW c \in Command, Unreported(c)'
      PROVE  RealLeads(recs, c)
  <2>1. \A k \in DOMAIN log'.recs : IsFailure(log'.recs[k], c) =>
          \E j \in DOMAIN log'.recs : j < k /\ log'.recs[j] = RealResult(c)
    BY <1>8 DEF OutboxLeads, RealLeads
  <2> DEFINE l == log'
  <2>2. RealLeads(l.recs, c)
    BY <2>1 DEF RealLeads
  <2>3. \A k \in DOMAIN l.recs : l.base + k < start => l.recs[k] # RealResult(c)
    <3> SUFFICES ASSUME NEW k \in DOMAIN l.recs, l.base + k < start, l.recs[k] = RealResult(c)
                 PROVE  FALSE
      OBVIOUS
    <3>1. Done(log.recs[k])'
      BY <1>5, <1>8
    <3> QED BY <1>8, <3>1, RecordFields DEF Done, Refused, Persisted, Unreported, DataKinds
  <2>4. l \in Logs /\ l.base < start
    BY <1>4
  <2>5. Slice(l, start, recs)
    BY <1>3 DEF Slice
  <2> HIDE DEF l
  <2> QED BY <1>2, <2>2, <2>3, <2>4, <2>5, SliceLeads
<1>9. BatchesLead'
  BY <1>6, <1>7, <1>8 DEF BatchesLead
<1>10. ASSUME faults'["write"] + faults'["quarantine"] = 0, NEW d \in sent, d.kind \in DataKinds,
              NEW r \in Range(recs), IsResult(r, d.cmd)
       PROVE  Done(d)' \/ d \in lost' \cup Range(recs)
  <2>1. faults'["quarantine"] = 0
    BY <1>10 DEF FaultKinds
  <2>2. Range(buffered') = {}
    BY DEF Range
  <2>3. Done(d)' \/ d \in lost' \cup Range(log'.recs)
    BY <1>10, <2>1, <2>2 DEF NoSilentLoss
  <2>4. CASE d \in Range(log'.recs)
    <3> DEFINE l == log'
    <3>1. ResultsLast(l.recs)
      BY <1>10 DEF OutboxLast, ResultsLast
    <3>2. l \in Logs /\ l.base < start /\ d \in Range(l.recs)
      BY <1>4, <2>4
    <3>3. Slice(l, start, recs)
      BY <1>3 DEF Slice
    <3> HIDE DEF l
    <3>4. d \in Range(recs) \/ \E k \in DOMAIN l.recs : l.base + k < start /\ l.recs[k] = d
      BY <1>2, <1>10, <3>1, <3>2, <3>3, SliceBrings
    <3>5. CASE \E k \in DOMAIN log'.recs : log'.base + k < start /\ log'.recs[k] = d
      <4>1. PICK k \in DOMAIN log'.recs : log'.base + k < start /\ log'.recs[k] = d
        BY <3>5
      <4>2. Done(log.recs[k])'
        BY <1>5, <2>1, <4>1
      <4> QED BY <4>1, <4>2 DEF Done, Persisted
    <3> QED BY <3>4, <3>5 DEF l
  <2> QED BY <2>3, <2>4
<1>11. BatchesBring'
  <2> SUFFICES ASSUME faults'["write"] + faults'["quarantine"] = 0, NEW es \in Batches'
               PROVE  BringsData(es)'
    BY DEF BatchesBring
  <2>1. CASE es = recs
    BY <1>10, <2>1 DEF BringsData
  <2> QED BY <1>6, <1>7, <2>1
<1> QED BY <1>9, <1>11

\* The outbox's and the manager's share of TurnInv, and the batches'.
OutboxShare == /\ Range(buffered) \subseteq sent /\ TornCounted /\ OutboxLeads /\ OutboxLast

StatusShare == ResultKnown /\ RealResultWins /\ TerminalIsLast

BatchShare == /\ BatchesLead /\ BatchesBring
              /\ \A batch \in stale : Range(batch) \subseteq sent \cup {Poison}

TurnShare == /\ TurnResults /\ TurnIsolation
             /\ faults["write"] + faults["quarantine"] = 0 => turn.phase # "bypass"

\* TurnInv, share by share.
LEMMA Shares ==
    ASSUME OutboxShare', StatusShare', BatchShare', TurnShare'
    PROVE  TurnInv'
  BY TurnParts DEF OutboxShare, StatusShare, BatchShare, TurnShare

\* How the faults that matter here are counted.
Counts == /\ faults'["torn"] >= faults["torn"]
          /\ faults'["quarantine"] = 0 => faults["quarantine"] = 0
          /\ faults'["write"] + faults'["quarantine"] = 0 => faults["write"] + faults["quarantine"] = 0

\* The batches when no new one is sent.
LEMMA OldBatches ==
    ASSUME TypeOK, PipelineInv, TurnInv, ManagerGrows, Counts,
           NEW X \in SUBSET Recs, FreshRecords(X), sent' = sent \cup X, lost \subseteq lost',
           call'.recs \in {call.recs, << >>}, stale' \subseteq stale \cup {call.recs}
    PROVE  BatchShare'
<1>1. Batches' \subseteq Batches \cup {<< >>}
  BY DEF Batches
<1> QED BY <1>1, BatchesStay DEF BatchShare, Counts

\* Between two turns there is nothing to keep.
LEMMA NoTurn ==
    ASSUME turn'.phase \in Between
    PROVE  TurnShare'
  BY DEF Between, TurnShare, TurnResults, TurnIsolation

\* While a turn runs, only its own records enter the outbox.
LEMMA IsolationKept ==
    ASSUME TypeOK, TypeOK', TurnInv, Counts,
           turn'.phase = "running" => turn.phase = "running" /\ turn'.cmd = turn.cmd,
           NEW X \in SUBSET Recs, turn'.phase = "running" => \A r \in X : r.cmd = turn.cmd,
           Range(log'.recs) \cup Range(buffered') \subseteq Range(log.recs) \cup Range(buffered) \cup X
    PROVE  TurnIsolation'
<1> SUFFICES ASSUME turn'.phase = "running", faults'["torn"] < MaxBatch,
                    NEW r \in Range(log'.recs) \cup Range(buffered')
             PROVE  r.cmd = turn'.cmd \/ r = Poison
  BY DEF TurnIsolation
<1>1. faults["torn"] < MaxBatch
  <2>1. faults["torn"] \in Nat /\ faults'["torn"] \in Nat
    BY DEF TypeOK, FaultKinds
  <2> QED BY <2>1, BoundsAssumption DEF Counts
<1>2. CASE r \in X
  BY <1>2
<1>3. CASE r \in Range(log.recs) \cup Range(buffered)
  BY <1>1, <1>3 DEF TurnInv, TurnIsolation
<1> QED BY <1>2, <1>3

\* A step that leaves the turn and the history alone.
LEMMA SameTurnShare ==
    ASSUME TypeOK, TypeOK', TurnInv, Counts, UNCHANGED <<turn, sent>>,
           Range(log'.recs) \cup Range(buffered') \subseteq Range(log.recs) \cup Range(buffered)
    PROVE  TurnShare'
<1>1. TurnResults'
  BY DEF TurnInv, TurnResults
<1>2. TurnIsolation'
  <2>1. Range(log'.recs) \cup Range(buffered') \subseteq Range(log.recs) \cup Range(buffered) \cup {}
    OBVIOUS
  <2>2. {} \in SUBSET Recs /\ \A r \in {} : r.cmd = turn.cmd
    OBVIOUS
  <2>3. turn'.phase = "running" => turn.phase = "running" /\ turn'.cmd = turn.cmd
    OBVIOUS
  <2> QED BY <2>1, <2>2, <2>3, IsolationKept
<1> QED BY <1>1, <1>2 DEF TurnShare, TurnInv, ResultBehindData, Counts

\* A step that closes no command by a result.
LEMMA StatusKept ==
    ASSUME TypeOK, TurnInv, ManagerGrows, Counts, UNCHANGED sent, lost \subseteq lost',
           \A c \in Command : status'[c] \in {"completed", "failed", "unreachable"} => status'[c] = status[c]
    PROVE  StatusShare'
<1>1. ResultKnown'
  BY DEF TurnInv, ResultKnown
<1>2. RealResultWins'
  BY DEF TurnInv, RealResultWins, Counts
<1>3. TerminalIsLast'
  <2> SUFFICES ASSUME faults'["write"] + faults'["quarantine"] = 0, NEW r \in sent,
                      status'[r.cmd] \in {"completed", "failed"}
               PROVE  Done(r)' \/ r \in lost'
    BY DEF TerminalIsLast
  <2>1. CASE r = Poison
    BY <2>1 DEF Done
  <2>2. CASE r # Poison
    <3>1. r \in Recs /\ r.cmd \in Command
      BY <2>2, RecordFields DEF TypeOK
    <3>2. Done(r) \/ r \in lost
      BY <3>1 DEF TurnInv, TerminalIsLast, Counts
    <3> QED BY <3>1, <3>2, DoneStable
  <2> QED BY <2>1, <2>2
<1> QED BY <1>1, <1>2, <1>3 DEF StatusShare

\* A batch that was sent is applied.
LEMMA AppliedShare ==
    ASSUME TypeOK, PipelineInv, TurnInv, NEW es \in Batches, ApplyBatch(es),
           UNCHANGED <<sent, lost, faults>>
    PROVE  StatusShare' /\ ManagerGrows
<1>1. es \in Seq(Recs) /\ Range(es) \subseteq sent \cup {Poison}
  BY BatchesSent
<1>2. status' = [c \in Command |-> StatusAfter(status[c], status[c], es, c)]
  BY DEF ApplyBatch
<1>3. ResultKnown'
  BY <1>1, <1>2, ApplyKnown DEF TurnInv
<1>4. faults["quarantine"] = 0 => \A c \in Command : Unreported(c) => RealLeads(es, c)
  BY DEF TurnInv, RealFirst
<1>5. faults["write"] + faults["quarantine"] = 0 => BringsData(es)
  BY DEF TurnInv, ResultBehindData
<1>6. RealResultWins'
  BY <1>1, <1>2, <1>4, ApplyWins DEF TurnInv
<1>7. TerminalIsLast'
  BY <1>1, <1>5, ApplyLast DEF TurnInv
<1>8. ManagerGrows
  BY <1>1, ApplyStep DEF ManagerGrows
<1> QED BY <1>3, <1>6, <1>7, <1>8 DEF StatusShare

\* A flush writes no other outcome than an empty buffer or an error.
LEMMA FlushEmpties ==
    ASSUME NEW l, NEW b, NEW o \in FlushOutcomes(l, b), ~o.err
    PROVE  o.buffered = << >>
  BY DEF FlushOutcomes, WriteFaults, Flushed

\* A flush of the buffer.
LEMMA FlushTurn ==
    ASSUME TypeOK, PipelineInv, PipelineInv', TurnInv,
           NEW o \in FlushOutcomes(log, buffered), Write(o), UNCHANGED <<status, stored, sent>>
    PROVE  /\ OutboxShare' /\ StatusShare' /\ Counts /\ lost \subseteq lost' /\ log' \in Logs
           /\ log' = o.log /\ buffered' = o.buffered
           /\ Range(log'.recs) \cup Range(buffered') \subseteq Range(log.recs) \cup Range(buffered)
           /\ faults'["torn"] = faults["torn"]
<1>1. log \in Logs /\ buffered \in Seq(Recs) /\ faults \in [FaultKinds -> Nat]
  BY DEF TypeOK, Logs
<1>2. WriteStep(log, buffered, o) /\ WriteOrder(log, buffered, o)
  BY <1>1, FlushStep, FlushOrder
<1>3. log' = o.log /\ buffered' = o.buffered /\ log' \in Logs /\ lost \subseteq lost'
  BY <1>1, <1>2, WriteType
<1>4. {} \in SUBSET Recs /\ FreshRecords({}) /\ Poison \notin {} /\ (\A y, z \in {} : y = z)
      /\ Range(buffered) = Range(buffered) \cup {} /\ sent' = sent \cup {}
  BY DEF FreshRecords
<1>5. BufferOrder(buffered)
  BY DEF TurnInv, RealFirst, ResultBehindData, BufferOrder
<1>6. /\ ResultKnown' /\ Range(buffered') \subseteq sent' /\ TornCounted'
      /\ OutboxLeads' /\ OutboxLast' /\ RealResultWins' /\ TerminalIsLast'
  <2> HIDE DEF Write
  <2> QED BY <1>1, <1>2, <1>4, <1>5, WriteTurn
<1>7. Counts /\ faults'["torn"] = faults["torn"]
  <2>1. /\ faults'["torn"] = faults["torn"] /\ faults["torn"] \in Nat
        /\ faults'["quarantine"] = 0 => faults["quarantine"] = 0
        /\ faults'["write"] + faults'["quarantine"] = 0 => faults["write"] + faults["quarantine"] = 0
    BY <1>1, <1>2, WriteCounts DEF WriteStep, FaultKinds
  <2> QED BY <2>1 DEF Counts
<1>8. Range(log'.recs) \cup Range(buffered') \subseteq Range(log.recs) \cup Range(buffered)
  BY <1>2, <1>3 DEF WriteStep
<1> QED BY <1>3, <1>6, <1>7, <1>8 DEF OutboxShare, StatusShare

\* A record appended to the outbox.
LEMMA AppendTurn ==
    ASSUME TypeOK, PipelineInv, PipelineInv', TurnInv,
           NEW r \in Recs, r # Poison, FreshRecords({r}),
           NEW o \in AppendOutcomes(log, buffered, r), Write(o),
           sent' = sent \cup {r}, UNCHANGED <<call, stale, status, stored>>
    PROVE  /\ OutboxShare' /\ StatusShare' /\ BatchShare' /\ Counts
           /\ Range(log'.recs) \cup Range(buffered') \subseteq Range(log.recs) \cup Range(buffered) \cup {r}
           /\ faults'["write"] + faults'["quarantine"] = 0 => ~o.err
<1> DEFINE b == Append(buffered, r)
<1>1. log \in Logs /\ buffered \in Seq(Recs) /\ faults \in [FaultKinds -> Nat]
  BY DEF TypeOK, Logs
<1>2. /\ b \in Seq(Recs) /\ WriteStep(log, b, o) /\ WriteOrder(log, b, o)
      /\ Range(b) = Range(buffered) \cup {r} /\ BufferOrder(b)
  BY <1>1, AppendStep, AppendOrder, AppendKeepsOrder
<1> HIDE DEF b
<1>3. log' = o.log /\ buffered' = o.buffered /\ lost \subseteq lost'
  BY <1>1, <1>2, WriteType
<1>4. {r} \in SUBSET Recs /\ Poison \notin {r} /\ (\A y, z \in {r} : y = z)
  OBVIOUS
<1>5. /\ ResultKnown' /\ Range(buffered') \subseteq sent' /\ TornCounted'
      /\ OutboxLeads' /\ OutboxLast' /\ RealResultWins' /\ TerminalIsLast'
  <2> HIDE DEF Write
  <2> QED BY <1>2, <1>4, WriteTurn
<1>6. Counts /\ (faults'["write"] + faults'["quarantine"] = 0 => ~o.err)
  <2>1. /\ faults'["torn"] = faults["torn"] /\ faults["torn"] \in Nat
        /\ faults'["quarantine"] = 0 => faults["quarantine"] = 0
        /\ faults'["write"] + faults'["quarantine"] = 0 =>
             faults["write"] + faults["quarantine"] = 0 /\ o.fault = "none"
    BY <1>1, <1>2, WriteCounts DEF WriteStep, FaultKinds
  <2> QED BY <1>2, <2>1 DEF Counts, WriteOrder
<1>7. Range(log'.recs) \cup Range(buffered') \subseteq Range(log.recs) \cup Range(buffered) \cup {r}
  BY <1>2, <1>3 DEF WriteStep
<1>8. BatchShare'
  <2>1. ManagerGrows
    BY DEF ManagerGrows
  <2> QED BY <1>3, <1>4, <1>6, <2>1, OldBatches
<1> QED BY <1>5, <1>6, <1>7, <1>8 DEF OutboxShare, StatusShare

\* A step that leaves the outbox alone and sends no batch.
LEMMA QuietTurn ==
    ASSUME TypeOK, PipelineInv, TurnInv, ManagerGrows, UNCHANGED <<log, buffered, sent, lost>>,
           \A f \in {"torn", "write", "quarantine"} : faults'[f] = faults[f],
           call'.recs \in {call.recs, << >>}, stale' \subseteq stale \cup {call.recs}
    PROVE  OutboxShare' /\ BatchShare' /\ Counts
<1>1. Counts
  <2>1. faults["torn"] \in Nat
    BY DEF TypeOK, FaultKinds
  <2> QED BY <2>1 DEF Counts
<1>2. {} \in SUBSET Recs /\ FreshRecords({}) /\ sent' = sent \cup {} /\ lost \subseteq lost'
  BY DEF FreshRecords
<1>3. BatchShare'
  BY <1>1, <1>2, OldBatches
<1>4. OutboxShare'
  BY QuietStep DEF OutboxShare
<1> QED BY <1>1, <1>3, <1>4

\* Every step of the pipeline keeps the order of records.
LEMMA TurnStep ==
    ASSUME TypeOK, TypeOK', PipelineInv, PipelineInv', TurnInv, [Next]_vars
    PROVE  TurnInv'
<1>1. /\ log \in Logs /\ buffered \in Seq(Recs) /\ call \in Calls /\ sent \subseteq Recs
      /\ turn \in TurnSet /\ faults \in [FaultKinds -> Nat] /\ status \in [Command -> Statuses]
      /\ turn.phase \notin Between => turn.cmd \in Command
  BY DEF TypeOK, Logs, Calls, TurnSet, Between
<1>2. /\ \A r \in sent : r # Poison /\ status[r.cmd] # "none" /\ r.cmd \in Command
      /\ Range(log'.recs) \cup Range(buffered') \subseteq sent' \cup {Poison}
  BY <1>1, RecordFields DEF PipelineInv, Provenance
<1>3. /\ turn.phase \in {"barrier", "synthesize"} =>
           turn.cmd \notin turn.orphans /\ \A r \in sent : r.cmd # turn.cmd
      /\ turn.phase = "running" => \A r \in sent : ~IsResult(r, turn.cmd)
      /\ turn.phase \in {"deliver", "bypass"} =>
           \A r \in sent : IsResult(r, turn.cmd) => r.body = turn.res
      /\ turn.phase = "bypass" => Record(turn.cmd, "result", 1, turn.res) \in sent
  BY DEF TurnInv, TurnResults
<1>4. IdleTurn.phase \in Between /\ [IdleTurn EXCEPT !.phase = "starting"].phase \in Between
  BY DEF IdleTurn, Between
<1>5. \A res, n : LET t == Delivering(res, n)
                  IN  t.phase = "deliver" /\ t.cmd = turn.cmd /\ t.res = res
  BY <1>1 DEF Delivering, TurnSet
<1>6. ASSUME NEW res, NEW n, turn' = Delivering(res, n),
             \A r \in sent' : IsResult(r, turn.cmd) => r.body = res
      PROVE  TurnShare'
  <2>1. turn'.phase = "deliver" /\ turn'.cmd = turn.cmd /\ turn'.res = res
    BY <1>5, <1>6
  <2> QED BY <1>6, <2>1 DEF TurnShare, TurnResults, TurnIsolation
<1>7. CASE BeginSession
  <2>1. PICK c \in Command : Mint(c) /\ turn' = [IdleTurn EXCEPT !.cmd = c, !.phase = "barrier"]
    BY <1>7 DEF BeginSession
  <2>2. UNCHANGED <<log, buffered, call, stale, stored, sent, lost, faults>>
    BY <1>7 DEF BeginSession
  <2>3. ManagerGrows /\ \A d \in Command : status'[d] = status[d] \/ status'[d] = "running"
    BY <1>1, <2>1, <2>2 DEF Mint, ManagerGrows, TerminalStatuses
  <2>4. OutboxShare' /\ BatchShare' /\ Counts
    BY <2>2, <2>3, QuietTurn
  <2>5. StatusShare'
    BY <2>2, <2>3, <2>4, StatusKept
  <2>6. turn'.cmd = c /\ turn'.orphans = {} /\ turn'.phase = "barrier"
    BY <2>1 DEF IdleTurn
  <2>7. \A r \in sent : r.cmd # c
    BY <1>2, <2>1 DEF Mint
  <2>8. TurnShare'
    BY <2>2, <2>6, <2>7 DEF TurnShare, TurnResults, TurnIsolation
  <2> QED BY <2>4, <2>5, <2>8, Shares
<1>8. CASE BeginSessionLost
  <2>1. PICK c \in Command : Mint(c)
    BY <1>8 DEF BeginSessionLost
  <2>2. UNCHANGED <<log, buffered, call, stale, turn, stored, sent, lost>>
    BY <1>8 DEF BeginSessionLost, machine
  <2>3. \A f \in {"torn", "write", "quarantine"} : faults'[f] = faults[f]
    BY <1>1, <1>8 DEF BeginSessionLost, Spend, FaultKinds
  <2>4. ManagerGrows /\ \A d \in Command : status'[d] = status[d] \/ status'[d] = "running"
    BY <1>1, <2>1, <2>2 DEF Mint, ManagerGrows, TerminalStatuses
  <2>5. OutboxShare' /\ BatchShare' /\ Counts
    BY <2>2, <2>3, <2>4, QuietTurn
  <2>6. StatusShare'
    BY <2>2, <2>4, <2>5, StatusKept
  <2>7. TurnShare'
    BY <2>2, <2>5, SameTurnShare
  <2> QED BY <2>5, <2>6, <2>7, Shares
<1>9. CASE BarrierPoll
  <2>1. PICK o \in FlushOutcomes(log, buffered) : BarrierPoll!2!(o)
    BY <1>9 DEF BarrierPoll
  <2>2. UNCHANGED <<call, stale, status, stored, sent>> /\ Write(o) /\ turn.phase = "barrier"
    BY <1>9, <2>1 DEF BarrierPoll, manager
  <2>3. /\ OutboxShare' /\ StatusShare' /\ Counts /\ lost \subseteq lost' /\ log' \in Logs
        /\ log' = o.log /\ buffered' = o.buffered
        /\ Range(log'.recs) \cup Range(buffered') \subseteq Range(log.recs) \cup Range(buffered)
    <3> HIDE DEF Write
    <3> QED BY <2>2, FlushTurn
  <2>4. BatchShare'
    <3>1. {} \in SUBSET Recs /\ FreshRecords({}) /\ sent' = sent \cup {} /\ ManagerGrows
      BY <2>2 DEF FreshRecords, ManagerGrows
    <3> QED BY <2>2, <2>3, <3>1, OldBatches
  <2>5. turn.cmd \notin turn.orphans /\ (\A r \in sent : r.cmd # turn.cmd) /\ turn.cmd \in Command
    BY <1>1, <1>3, <2>2 DEF Between
  <2>6. CASE turn' = Delivering("fail", 0)
    <3>1. TurnShare'
      BY <1>6, <2>2, <2>5, <2>6 DEF IsResult
    <3> QED BY <2>3, <2>4, <3>1, Shares
  <2>7. CASE turn' = turn
    <3>1. TurnShare'
      BY <2>2, <2>3, <2>7, SameTurnShare
    <3> QED BY <2>3, <2>4, <3>1, Shares
  <2>8. CASE \E os : turn' = [turn EXCEPT !.phase = "synthesize", !.orphans = os \ {turn.cmd}]
    <3>1. turn'.phase = "synthesize" /\ turn'.cmd = turn.cmd /\ turn.cmd \notin turn'.orphans
      BY <1>1, <2>8 DEF TurnSet
    <3>2. TurnShare'
      BY <2>2, <2>5, <3>1 DEF TurnShare, TurnResults, TurnIsolation
    <3> QED BY <2>3, <2>4, <3>2, Shares
  <2>9. CASE ~o.err /\ CommandsOf(ReadRecords(o.log, MaxBatch, 0)) \ {turn.cmd} = {}
             /\ turn' = [turn EXCEPT !.phase = "running"]
    <3>1. turn'.phase = "running" /\ turn'.cmd = turn.cmd
      BY <1>1, <2>9 DEF TurnSet
    <3>2. TurnResults'
      BY <2>2, <2>5, <3>1 DEF TurnResults, IsResult
    <3>3. TurnIsolation'
      <4> SUFFICES ASSUME faults'["torn"] < MaxBatch,
                          NEW r \in Range(log'.recs) \cup Range(buffered')
                   PROVE  r = Poison
        BY DEF TurnIsolation
      <4>1. Range(buffered') = {}
        BY <2>3, <2>9, FlushEmpties DEF Range
      <4>2. TornCounted'
        BY <2>3 DEF OutboxShare
      <4> DEFINE T == {log'.base + k : k \in {i \in DOMAIN log'.recs : log'.recs[i] = Poison}}
      <4>3. IsFiniteSet(T) /\ Cardinality(T) <= faults'["torn"]
        BY <4>2 DEF TornCounted, TornFrames
      <4> DEFINE l == log'
      <4>4. T = {l.base + k : k \in {i \in DOMAIN l.recs : l.recs[i] = Poison}}
        OBVIOUS
      <4> HIDE DEF T
      <4>5. Cardinality(T) < MaxBatch
        <5>1. faults'["torn"] \in Nat
          BY DEF TypeOK, FaultKinds
        <5>2. Cardinality(T) \in Nat
          BY <4>3, FS_CardinalityType
        <5> QED BY <4>3, <5>1, <5>2, BoundsAssumption
      <4>6. \A x \in Range(l.recs) : x # Poison => x.cmd # turn.cmd
        BY <1>2, <2>2, <2>5
      <4>7. l \in Logs /\ CommandsOf(ReadRecords(l, MaxBatch, 0)) \ {turn.cmd} = {} /\ r \in Range(l.recs)
        BY <2>3, <2>9, <4>1
      <4> HIDE DEF l
      <4> QED BY <4>3, <4>4, <4>5, <4>6, <4>7, BarrierClear
    <3>4. TurnShare'
      BY <3>1, <3>2, <3>3 DEF TurnShare
    <3> QED BY <2>3, <2>4, <3>4, Shares
  <2> QED BY <2>1, <2>6, <2>7, <2>8, <2>9
<1>10. CASE BarrierSynthesize
  <2>1. PICK c \in turn.orphans : \E o \in AppendOutcomes(log, buffered, SyntheticTerminal(c)) :
             /\ Write(o) /\ sent' = sent \cup {SyntheticTerminal(c)}
             /\ turn' = IF o.err THEN Delivering("fail", 0)
                        ELSE [turn EXCEPT !.orphans = @ \ {c},
                                          !.phase = IF turn.orphans = {c} THEN "barrier" ELSE @]
    BY <1>10 DEF BarrierSynthesize
  <2> DEFINE r == SyntheticTerminal(c)
  <2>2. PICK o \in AppendOutcomes(log, buffered, r) :
             /\ Write(o) /\ sent' = sent \cup {r}
             /\ turn' = IF o.err THEN Delivering("fail", 0)
                        ELSE [turn EXCEPT !.orphans = @ \ {c},
                                          !.phase = IF turn.orphans = {c} THEN "barrier" ELSE @]
    BY <2>1
  <2>3. UNCHANGED <<call, stale, status, stored>> /\ turn.phase = "synthesize"
    BY <1>10 DEF BarrierSynthesize, manager
  <2>4. c \in Command
    BY <1>1 DEF TurnSet
  <2>5. r \in Recs /\ r # Poison /\ r.cmd = c /\ r.kind = "result" /\ r.body = "fail"
    <3>1. Record(c, "result", 1, "fail") \in Recs /\ Record(c, "result", 1, "fail") # Poison
      BY <2>4, RecordType DEF Kinds, Bodies
    <3> QED BY <3>1 DEF SyntheticTerminal, Record
  <2> HIDE DEF r
  <2>6. FreshRecords({r})
    BY <2>5 DEF FreshRecords, DataKinds
  <2>7. OutboxShare' /\ StatusShare' /\ BatchShare' /\ Counts
    <3> HIDE DEF Write
    <3> QED BY <2>2, <2>3, <2>5, <2>6, AppendTurn
  <2>8. turn.cmd \notin turn.orphans /\ \A x \in sent' : x.cmd # turn.cmd
    BY <1>3, <2>2, <2>3, <2>5
  <2>9. TurnShare'
    <3>1. CASE turn' = Delivering("fail", 0)
      BY <1>6, <2>8, <3>1 DEF IsResult
    <3>2. CASE \E ph \in {"barrier", "synthesize"} : turn' = [turn EXCEPT !.orphans = @ \ {c}, !.phase = ph]
      <4>1. /\ turn'.phase \in {"barrier", "synthesize"} /\ turn'.cmd = turn.cmd
            /\ turn.cmd \notin turn'.orphans
        BY <1>1, <2>8, <3>2 DEF TurnSet
      <4> QED BY <2>8, <4>1 DEF TurnShare, TurnResults, TurnIsolation
    <3> QED BY <2>2, <2>3, <3>1, <3>2
  <2> QED BY <2>7, <2>9, Shares
<1>11. CASE \E kind \in DataKinds : AppendRecord(kind)
  <2>1. PICK kind \in DataKinds : AppendRecord(kind)
    BY <1>11
  <2>2. PICK b \in DataBodies : \E o \in AppendOutcomes(log, buffered, Record(turn.cmd, kind, turn[kind] + 1, b)) :
             /\ Write(o) /\ sent' = sent \cup {Record(turn.cmd, kind, turn[kind] + 1, b)}
             /\ turn' \in {Delivering("fail", 0), [turn EXCEPT ![kind] = @ + 1]}
                           \cup {Delivering(x, 1) : x \in ResultBodies}
    BY <2>1 DEF AppendRecord
  <2> DEFINE r == Record(turn.cmd, kind, turn[kind] + 1, b)
  <2>3. PICK o \in AppendOutcomes(log, buffered, r) :
             /\ Write(o) /\ sent' = sent \cup {r}
             /\ turn' \in {Delivering("fail", 0), [turn EXCEPT ![kind] = @ + 1]}
                           \cup {Delivering(x, 1) : x \in ResultBodies}
    BY <2>2
  <2>4. UNCHANGED <<call, stale, status, stored>> /\ turn.phase = "running"
    BY <2>1 DEF AppendRecord, manager
  <2>5. r \in Recs /\ r # Poison /\ r.cmd = turn.cmd /\ r.kind = kind
    <3>1. turn.phase \notin Between
      BY <2>4 DEF Between
    <3>2. turn[kind] \in Nat
      BY <3>1, TurnType
    <3>3. turn.cmd \in Command /\ turn[kind] + 1 \in Nat /\ kind \in Kinds /\ b \in Bodies
      BY <1>1, <3>1, <3>2, BoundsAssumption DEF Kinds, Bodies
    <3>4. r \in Recs /\ r # Poison
      BY <3>3, RecordType
    <3> QED BY <3>4 DEF Record
  <2> HIDE DEF r
  <2>6. FreshRecords({r})
    BY <1>3, <2>4, <2>5 DEF FreshRecords, DataKinds
  <2>7. /\ OutboxShare' /\ StatusShare' /\ BatchShare' /\ Counts
        /\ Range(log'.recs) \cup Range(buffered') \subseteq Range(log.recs) \cup Range(buffered) \cup {r}
    <3> HIDE DEF Write
    <3> QED BY <2>3, <2>4, <2>5, <2>6, AppendTurn
  <2>8. \A x \in sent' : ~IsResult(x, turn.cmd)
    BY <1>3, <2>3, <2>4, <2>5 DEF IsResult, DataKinds
  <2>9. CASE turn' = [turn EXCEPT ![kind] = @ + 1]
    <3>1. turn'.phase = "running" /\ turn'.cmd = turn.cmd
      BY <1>1, <2>4, <2>9 DEF TurnSet, DataKinds
    <3>2. TurnIsolation'
      <4>1. {r} \in SUBSET Recs /\ \A x \in {r} : x.cmd = turn.cmd
        BY <2>5
      <4> QED BY <2>4, <2>7, <3>1, <4>1, IsolationKept
    <3>3. TurnShare'
      BY <2>8, <3>1, <3>2 DEF TurnShare, TurnResults
    <3> QED BY <2>7, <3>3, Shares
  <2>10. CASE \E res, n : turn' = Delivering(res, n)
    <3>1. TurnShare'
      BY <1>6, <2>8, <2>10
    <3> QED BY <2>7, <3>1, Shares
  <2> QED BY <2>3, <2>9, <2>10
<1>12. CASE FinishTurn
  <2>1. UNCHANGED <<log, buffered, call, stale, status, stored, sent, lost, faults>> /\ turn.phase = "running"
    BY <1>12 DEF FinishTurn, manager
  <2>2. ManagerGrows
    BY <2>1 DEF ManagerGrows
  <2>3. OutboxShare' /\ BatchShare' /\ Counts
    BY <2>1, <2>2, QuietTurn
  <2>4. StatusShare'
    BY <2>1, <2>2, <2>3, StatusKept
  <2>5. \E res, n : turn' = Delivering(res, n)
    BY <1>12 DEF FinishTurn
  <2>6. TurnShare'
    BY <1>3, <1>6, <2>1, <2>5
  <2> QED BY <2>3, <2>4, <2>6, Shares
<1>13. CASE Deliver
  <2> DEFINE r == Record(turn.cmd, "result", 1, turn.res)
  <2>1. PICK o \in AppendOutcomes(log, buffered, r) :
             /\ Write(o) /\ sent' = sent \cup {r}
             /\ turn' = IF o.err THEN [turn EXCEPT !.phase = "bypass"] ELSE IdleTurn
    BY <1>13 DEF Deliver
  <2>2. UNCHANGED <<call, stale, status, stored>> /\ turn.phase = "deliver"
    BY <1>13 DEF Deliver, manager
  <2>3. /\ r \in Recs /\ r # Poison /\ r.cmd = turn.cmd /\ r.kind = "result" /\ r.body = turn.res
        /\ r = Record(turn.cmd, "result", 1, turn.res)
    <3>1. turn.cmd \in Command /\ turn.res \in Bodies
      BY <1>1, <2>2 DEF TurnSet, Between
    <3>2. r \in Recs /\ r # Poison
      BY <3>1, RecordType DEF Kinds
    <3> QED BY <3>2 DEF Record
  <2> HIDE DEF r
  <2>4. FreshRecords({r})
    BY <1>3, <2>2, <2>3 DEF FreshRecords, DataKinds, IsFailure
  <2>5. /\ OutboxShare' /\ StatusShare' /\ BatchShare' /\ Counts
        /\ faults'["write"] + faults'["quarantine"] = 0 => ~o.err
    <3> HIDE DEF Write
    <3> QED BY <2>1, <2>2, <2>3, <2>4, AppendTurn
  <2>6. TurnShare'
    <3>1. CASE ~o.err
      BY <1>4, <2>1, <3>1, NoTurn
    <3>2. CASE o.err
      <4>1. turn'.phase = "bypass" /\ turn'.cmd = turn.cmd /\ turn'.res = turn.res
        BY <1>1, <2>1, <3>2 DEF TurnSet
      <4>2. \A x \in sent' : IsResult(x, turn.cmd) => x.body = turn.res
        BY <1>3, <2>1, <2>2, <2>3
      <4> QED BY <2>1, <2>3, <2>5, <3>2, <4>1, <4>2 DEF TurnShare, TurnResults, TurnIsolation
    <3> QED BY <3>1, <3>2
  <2> QED BY <2>5, <2>6, Shares
<1>14. CASE Bypass
  <2> DEFINE r == Record(turn.cmd, "result", 1, turn.res)
             batch == <<r>>
             applied == [c \in Command |-> StatusAfter(status[c], status[c], batch, c)]
             again == IF turn.tries > 0 THEN Delivering(turn.res, turn.tries - 1) ELSE IdleTurn
  <2>1. /\ UNCHANGED <<log, buffered, call, stale, stored, sent, lost>> /\ turn.phase = "bypass"
        /\ status' \in {status, applied} /\ turn' \in {again, IdleTurn}
    BY <1>14 DEF Bypass
  <2>2. \A f \in {"torn", "write", "quarantine"} : faults'[f] = faults[f]
    BY <1>1, <1>14 DEF Bypass, Spend, FaultKinds
  <2>3. TurnShare'
    <3>1. CASE turn' = IdleTurn
      BY <1>4, <3>1, NoTurn
    <3>2. CASE \E n : turn' = Delivering(turn.res, n)
      BY <1>3, <1>6, <2>1, <3>2
    <3> QED BY <2>1, <3>1, <3>2
  <2>4. r \in sent /\ r \in Recs /\ r.cmd = turn.cmd /\ r.kind = "result" /\ r.body = turn.res
    <3>1. r \in sent
      BY <1>3, <2>1
    <3> QED BY <1>1, <3>1 DEF Record
  <2> HIDE DEF r
  <2>5. batch \in Seq(Recs) /\ DOMAIN batch = {1} /\ batch[1] = r /\ Range(batch) \subseteq sent \cup {Poison}
    <3>1. batch \in Seq(Recs) /\ DOMAIN batch = {1} /\ batch[1] = r
      BY <2>4
    <3> QED BY <2>4, <3>1 DEF Range
  <2> HIDE DEF batch, again
  <2>6. ManagerGrows
    <3>1. \A c \in Command : /\ status[c] # "none" => applied[c] # "none"
                             /\ status[c] \in TerminalStatuses => applied[c] \in TerminalStatuses
      BY <1>1, StatusStep
    <3> HIDE DEF applied
    <3> QED BY <2>1, <3>1 DEF ManagerGrows
  <2>7. OutboxShare' /\ BatchShare' /\ Counts
    BY <2>1, <2>2, <2>6, QuietTurn
  <2>8. CASE status' = status
    <3>1. StatusShare'
      BY <2>1, <2>6, <2>7, <2>8, StatusKept
    <3> QED BY <2>3, <2>7, <3>1, Shares
  <2>9. CASE status' = applied
    <3>1. ResultKnown'
      BY <2>1, <2>5, <2>9, ApplyKnown DEF TurnInv
    <3>2. ASSUME NEW c \in Command, Unreported(c) PROVE RealLeads(batch, c)
      <4>1. ~IsFailure(r, c)
        <5> SUFFICES ASSUME IsFailure(r, c) PROVE FALSE
          OBVIOUS
        <5>1. c = turn.cmd /\ turn.res = "fail"
          BY <2>4 DEF IsFailure, IsResult
        <5>2. RealResult(c) \in sent /\ IsResult(RealResult(c), turn.cmd) /\ RealResult(c).body = "ok"
          BY <3>2, <5>1, RecordFields DEF Unreported, IsResult
        <5> QED BY <1>3, <2>1, <5>1, <5>2
      <4> QED BY <2>5, <4>1 DEF RealLeads
    <3>3. RealResultWins'
      BY <2>1, <2>2, <2>5, <2>9, <3>2, ApplyWins DEF TurnInv
    <3>4. TerminalIsLast'
      BY <2>1, <2>2 DEF TurnInv, ResultBehindData, TerminalIsLast
    <3> QED BY <2>3, <2>7, <3>1, <3>3, <3>4, Shares DEF StatusShare
  <2> QED BY <2>1, <2>8, <2>9
<1>15. CASE StartUpload
  <2>1. PICK o \in FlushOutcomes(log, buffered) :
             LET recs == ReadRecords(o.log, MaxBatch, readFrom)
             IN  /\ Write(o)
                 /\ IF o.err \/ recs = << >>
                      THEN buffered # << >> /\ UNCHANGED call
                      ELSE call' = [st |-> "sent", start |-> ReadStart(o.log, readFrom), recs |-> recs]
    BY <1>15 DEF StartUpload
  <2>2. UNCHANGED <<readFrom, stale, turn, status, stored, sent>> /\ Write(o)
    BY <1>15, <2>1 DEF StartUpload, manager
  <2>3. /\ OutboxShare' /\ StatusShare' /\ Counts /\ lost \subseteq lost' /\ log' \in Logs
        /\ log' = o.log /\ buffered' = o.buffered
        /\ Range(log'.recs) \cup Range(buffered') \subseteq Range(log.recs) \cup Range(buffered)
    <3> HIDE DEF Write
    <3> QED BY <2>2, FlushTurn
  <2>4. TurnShare'
    BY <2>2, <2>3, SameTurnShare
  <2>5. CASE call' = call
    <3>1. {} \in SUBSET Recs /\ FreshRecords({}) /\ sent' = sent \cup {} /\ ManagerGrows
      BY <2>2 DEF FreshRecords, ManagerGrows
    <3>2. BatchShare'
      BY <2>2, <2>3, <2>5, <3>1, OldBatches
    <3> QED BY <2>3, <2>4, <3>2, Shares
  <2>6. CASE ~o.err /\ call' = [st |-> "sent", start |-> ReadStart(o.log, readFrom),
                                recs |-> ReadRecords(o.log, MaxBatch, readFrom)]
    <3>1. buffered' = << >> /\ call'.recs = ReadRecords(log', MaxBatch, readFrom)
      BY <2>3, <2>6, FlushEmpties
    <3>2. faults' \in [FaultKinds -> Nat] /\ NoSilentLoss' /\ CursorSettled'
      BY DEF TypeOK, PipelineInv
    <3>3. BatchesLead' /\ BatchesBring'
      BY <2>2, <2>3, <3>1, <3>2, NewBatch DEF OutboxShare, Counts
    <3>4. \A batch \in stale' : Range(batch) \subseteq sent' \cup {Poison}
      BY <2>2 DEF TurnInv, OutboxSent
    <3> QED BY <2>3, <2>4, <3>3, <3>4, Shares DEF BatchShare
  <2> QED BY <2>1, <2>5, <2>6
<1>16. CASE ManagerApply
  <2>1. UNCHANGED <<log, buffered, stale, turn, sent, lost, faults>>
    BY <1>16 DEF ManagerApply
  <2>2. StatusShare' /\ ManagerGrows /\ call'.recs \in {call.recs, << >>}
    <3>1. CASE BatchFails(call.recs)
      <4>1. call' = IdleCall /\ UNCHANGED <<status, stored>>
        BY <1>16, <3>1 DEF ManagerApply, manager
      <4>2. ManagerGrows /\ call'.recs = << >>
        BY <4>1 DEF ManagerGrows, IdleCall
      <4>3. Counts
        <5>1. faults["torn"] \in Nat
          BY <1>1 DEF FaultKinds
        <5> QED BY <2>1, <5>1 DEF Counts
      <4> QED BY <2>1, <4>1, <4>2, <4>3, StatusKept
    <3>2. CASE ~BatchFails(call.recs)
      <4>1. ApplyBatch(call.recs) /\ call' = [call EXCEPT !.st = "replied"]
        BY <1>16, <3>2 DEF ManagerApply
      <4>2. call'.recs = call.recs /\ call.recs \in Batches
        BY <1>1, <4>1 DEF Calls, Batches
      <4> QED BY <2>1, <4>1, <4>2, AppliedShare
    <3> QED BY <3>1, <3>2
  <2>3. OutboxShare' /\ BatchShare' /\ Counts
    BY <2>1, <2>2, QuietTurn
  <2>4. TurnShare'
    BY <2>1, <2>3, SameTurnShare
  <2> QED BY <2>2, <2>3, <2>4, Shares
<1>17. CASE CallFails
  <2>1. /\ UNCHANGED <<log, buffered, turn, status, stored, sent, lost>>
        /\ call' = IdleCall /\ stale' \subseteq stale \cup {call.recs}
    BY <1>17 DEF CallFails, manager
  <2>2. \A f \in {"torn", "write", "quarantine"} : faults'[f] = faults[f]
    BY <1>1, <1>17 DEF CallFails, Spend, FaultKinds
  <2>3. ManagerGrows /\ call'.recs = << >>
    BY <2>1 DEF ManagerGrows, IdleCall
  <2>4. OutboxShare' /\ BatchShare' /\ Counts
    BY <2>1, <2>2, <2>3, QuietTurn
  <2>5. StatusShare'
    BY <2>1, <2>3, <2>4, StatusKept
  <2>6. TurnShare'
    BY <2>1, <2>4, SameTurnShare
  <2> QED BY <2>4, <2>5, <2>6, Shares
<1>18. CASE StaleApply
  <2>1. UNCHANGED <<log, buffered, call, turn, sent, lost, faults>>
    BY <1>18 DEF StaleApply, machine
  <2>2. PICK batch \in stale :
             /\ stale' = stale \ {batch}
             /\ IF BatchFails(batch) THEN UNCHANGED manager ELSE ApplyBatch(batch)
    BY <1>18 DEF StaleApply
  <2>3. StatusShare' /\ ManagerGrows
    <3>1. CASE UNCHANGED manager
      <4>1. UNCHANGED <<status, stored>> /\ ManagerGrows
        BY <3>1 DEF manager, ManagerGrows
      <4>2. Counts
        <5>1. faults["torn"] \in Nat
          BY <1>1 DEF FaultKinds
        <5> QED BY <2>1, <5>1 DEF Counts
      <4> QED BY <2>1, <4>1, <4>2, StatusKept
    <3>2. CASE ApplyBatch(batch)
      <4>1. batch \in Batches
        BY DEF Batches
      <4> QED BY <2>1, <3>2, <4>1, AppliedShare
    <3> QED BY <2>2, <3>1, <3>2
  <2>4. OutboxShare' /\ BatchShare' /\ Counts
    BY <2>1, <2>2, <2>3, QuietTurn
  <2>5. TurnShare'
    BY <2>1, <2>4, SameTurnShare
  <2> QED BY <2>3, <2>4, <2>5, Shares
<1>19. CASE Fold
  <2>1. /\ call' = IdleCall /\ UNCHANGED <<buffered, stale, turn, status, stored, sent>>
        /\ \A f \in {"torn", "write", "quarantine"} : faults'[f] = faults[f]
        /\ Suffix(log, log') /\ lost \subseteq lost'
    BY <1>19, FoldDrops
  <2>2. OutboxShare' /\ StatusShare'
    BY <1>19, FoldTurn DEF OutboxShare, StatusShare
  <2>3. Counts
    <3>1. faults["torn"] \in Nat
      BY <1>1 DEF FaultKinds
    <3> QED BY <2>1, <3>1 DEF Counts
  <2>4. BatchShare'
    <3>1. {} \in SUBSET Recs /\ FreshRecords({}) /\ sent' = sent \cup {} /\ ManagerGrows
      BY <2>1 DEF FreshRecords, ManagerGrows
    <3>2. call'.recs = << >>
      BY <2>1 DEF IdleCall
    <3> QED BY <2>1, <2>3, <3>1, <3>2, OldBatches
  <2>5. TurnShare'
    BY <2>1, <2>3, SameTurnShare DEF Suffix
  <2> QED BY <2>2, <2>4, <2>5, Shares
<1>20. CASE Restart
  <2>1. OutboxShare' /\ StatusShare' /\ BatchShare'
    BY <1>20, RestartTurn DEF OutboxShare, StatusShare, BatchShare
  <2>2. TurnShare'
    <3>1. turn' = [IdleTurn EXCEPT !.phase = "starting"]
      BY <1>20 DEF Restart
    <3> QED BY <1>4, <3>1, NoTurn
  <2> QED BY <2>1, <2>2, Shares
<1>21. CASE SelfCheck
  <2>1. UNCHANGED <<call, stale, status, stored>> /\ turn.phase = "starting" /\ turn' \in {turn, IdleTurn}
    BY <1>21 DEF SelfCheck, manager
  <2>2. TurnShare'
    BY <1>4, <2>1, NoTurn DEF Between
  <2> DEFINE all == log.recs \o buffered
  <2>3. all \in Seq(Recs)
    BY <1>1, AppendBatchStep DEF AppendBatch, Logs
  <2> HIDE DEF all
  <2>4. CASE \E c \in OrphanGroups(all) : \E o \in AppendOutcomes(log, buffered, SyntheticTerminal(c)) :
                Write(o) /\ sent' = sent \cup {SyntheticTerminal(c)}
    <3>1. PICK c \in OrphanGroups(all) : \E o \in AppendOutcomes(log, buffered, SyntheticTerminal(c)) :
                Write(o) /\ sent' = sent \cup {SyntheticTerminal(c)}
      BY <2>4
    <3> DEFINE r == SyntheticTerminal(c)
    <3>2. PICK o \in AppendOutcomes(log, buffered, r) : Write(o) /\ sent' = sent \cup {r}
      BY <3>1
    <3>3. c \in Command
      BY <2>3, GroupsType
    <3>4. r \in Recs /\ r # Poison /\ r.kind = "result" /\ r.body = "fail"
      <4>1. Record(c, "result", 1, "fail") \in Recs /\ Record(c, "result", 1, "fail") # Poison
        BY <3>3, RecordType DEF Kinds, Bodies
      <4> QED BY <4>1 DEF SyntheticTerminal, Record
    <3> HIDE DEF r
    <3>5. FreshRecords({r})
      BY <3>4 DEF FreshRecords, DataKinds
    <3>6. OutboxShare' /\ StatusShare' /\ BatchShare'
      <4> HIDE DEF Write
      <4> QED BY <2>1, <3>2, <3>4, <3>5, AppendTurn
    <3> QED BY <2>2, <3>6, Shares
  <2>5. CASE (\E o \in FlushOutcomes(log, buffered) : Write(o)) /\ sent' = sent
    <3>1. PICK o \in FlushOutcomes(log, buffered) : Write(o)
      BY <2>5
    <3>2. OutboxShare' /\ StatusShare' /\ Counts /\ lost \subseteq lost'
      <4> HIDE DEF Write
      <4> QED BY <2>1, <2>5, <3>1, FlushTurn
    <3>3. {} \in SUBSET Recs /\ FreshRecords({}) /\ sent' = sent \cup {} /\ ManagerGrows
      BY <2>1, <2>5 DEF FreshRecords, ManagerGrows
    <3>4. BatchShare'
      BY <2>1, <3>2, <3>3, OldBatches
    <3> QED BY <2>2, <3>2, <3>4, Shares
  <2> QED BY <1>21, <2>4, <2>5 DEF SelfCheck, all
<1>22. CASE TornRecord
  <2>1. UNCHANGED <<call, stale, turn, status, stored, sent>> /\ turn.phase = "starting"
        /\ lost \subseteq lost'
    BY <1>22 DEF TornRecord, manager
  <2>2. OutboxShare' /\ StatusShare'
    BY <1>22, TornTurn DEF OutboxShare, StatusShare
  <2>3. Counts
    <3>1. /\ faults'["torn"] = faults["torn"] + 1 /\ faults["torn"] \in Nat
          /\ faults'["quarantine"] = faults["quarantine"] /\ faults'["write"] = faults["write"]
      BY <1>1, <1>22 DEF TornRecord, Spend, FaultKinds
    <3> QED BY <3>1 DEF Counts
  <2>4. BatchShare'
    <3>1. {} \in SUBSET Recs /\ FreshRecords({}) /\ sent' = sent \cup {} /\ ManagerGrows
      BY <2>1 DEF FreshRecords, ManagerGrows
    <3> QED BY <2>1, <2>3, <3>1, OldBatches
  <2>5. TurnShare'
    BY <2>1, NoTurn DEF Between
  <2> QED BY <2>2, <2>4, <2>5, Shares
<1>23. CASE CancelCommand
  <2>1. UNCHANGED <<log, buffered, call, stale, turn, stored, sent, lost, faults>>
    BY <1>23 DEF CancelCommand, machine
  <2>2. ManagerGrows /\ \A d \in Command : status'[d] = status[d] \/ status'[d] = "cancelled"
    BY <1>1, <1>23, <2>1 DEF CancelCommand, ManagerGrows, TerminalStatuses
  <2>3. OutboxShare' /\ BatchShare' /\ Counts
    BY <2>1, <2>2, QuietTurn
  <2>4. StatusShare'
    BY <2>1, <2>2, <2>3, StatusKept
  <2>5. TurnShare'
    BY <2>1, <2>3, SameTurnShare
  <2> QED BY <2>3, <2>4, <2>5, Shares
<1>24. CASE UNCHANGED vars
  <2>1. UNCHANGED <<log, buffered, call, stale, turn, status, stored, sent, lost, faults>>
    BY <1>24 DEF vars
  <2>2. ManagerGrows
    BY <2>1 DEF ManagerGrows
  <2>3. OutboxShare' /\ BatchShare' /\ Counts
    BY <2>1, <2>2, QuietTurn
  <2>4. StatusShare'
    BY <2>1, <2>2, <2>3, StatusKept
  <2>5. TurnShare'
    BY <2>1, <2>3, SameTurnShare
  <2> QED BY <2>3, <2>4, <2>5, Shares
<1> QED BY <1>7, <1>8, <1>9, <1>10, <1>11, <1>12, <1>13, <1>14, <1>15, <1>16, <1>17, <1>18,
           <1>19, <1>20, <1>21, <1>22, <1>23, <1>24 DEF Next

(***************************************************************************)
(* The order of records, for every instance: TurnInv is inductive relative *)
(* to the types and to PipelineInv.                                        *)
(***************************************************************************)
THEOREM TurnInvariant == Spec => []TurnInv
<1>1. Init => TurnInv
  <2> SUFFICES ASSUME Init PROVE TurnInv
    OBVIOUS
  <2>1. /\ log.recs = << >> /\ buffered = << >> /\ call.recs = << >> /\ stale = {}
        /\ sent = {} /\ turn.phase = "idle" /\ status = [c \in Command |-> "none"]
        /\ faults["torn"] = 0
    BY DEF Init, EmptyLog, IdleCall, IdleTurn, FaultKinds
  <2>2. Range(<< >>) = {}
    BY DEF Range
  <2>3. ResultKnown /\ TurnResults /\ OutboxSent
    BY <2>1, <2>2 DEF ResultKnown, TurnResults, OutboxSent
  <2>4. TornCounted
    <3>1. TornFrames = {}
      BY <2>1 DEF TornFrames
    <3> QED BY <2>1, <3>1, FS_EmptySet DEF TornCounted
  <2>5. RealFirst
    BY <2>1 DEF RealFirst, Unreported
  <2>6. ResultBehindData
    <3>1. ResultsLast(<< >>) /\ NoneBehind(<< >>, << >>)
      BY <2>2 DEF ResultsLast, NoneBehind
    <3>2. \A batch \in Batches : BringsData(batch)
      BY <2>1 DEF BringsData
    <3> QED BY <2>1, <3>1, <3>2 DEF ResultBehindData
  <2>7. TurnIsolation /\ RealResultWins /\ TerminalIsLast
    BY <2>1 DEF TurnIsolation, RealResultWins, TerminalIsLast
  <2> QED BY <2>3, <2>4, <2>5, <2>6, <2>7 DEF TurnInv
<1>2. TypeOK /\ TypeOK' /\ PipelineInv /\ PipelineInv' /\ TurnInv /\ [Next]_vars => TurnInv'
  BY TurnStep
<1> QED BY <1>1, <1>2, TypeCorrect, PipelineInvariant, PTL DEF Spec

(***************************************************************************)
(* The turn-start barrier holds, for every batch size: while a turn runs,  *)
(* the outbox holds its records only, as long as fewer frames than one     *)
(* shard are torn.                                                         *)
(***************************************************************************)
THEOREM TurnsIsolated == Spec => []TurnIsolation
<1>1. TurnInv => TurnIsolation
  BY DEF TurnInv
<1> QED BY <1>1, TurnInvariant, PTL

(***************************************************************************)
(* A synthetic FAILED terminal never overtakes the turn's own result, until*)
(* a log directory is set aside.                                           *)
(***************************************************************************)
THEOREM RealResultsWin == Spec => []RealResultWins
<1>1. TurnInv => RealResultWins
  BY DEF TurnInv
<1> QED BY <1>1, TurnInvariant, PTL

(***************************************************************************)
(* Without disk faults, a command closed by an upload has all its data on  *)
(* the manager, unless it was refused or lost.                             *)
(***************************************************************************)
THEOREM TerminalsAreLast == Spec => []TerminalIsLast
<1>1. TurnInv => TerminalIsLast
  BY DEF TurnInv
<1> QED BY <1>1, TurnInvariant, PTL
-----------------------------------------------------------------------------
(* The cursor and the terminals: TerminalsAhead.                           *)

\* No step takes a fault back.
LEMMA FaultsGrow ==
    ASSUME TypeOK, NEW f \in FaultKinds, UNCHANGED faults \/ Spend(f)
    PROVE  faults' \in [FaultKinds -> Nat] /\ \A g \in FaultKinds : faults'[g] >= faults[g]
<1>1. faults \in [FaultKinds -> Nat]
  BY DEF TypeOK
<1> QED BY <1>1 DEF Spend

\* A write adds records behind the cursor only.
LEMMA AheadWrite ==
    ASSUME TypeOK, PipelineInv, TerminalsAhead, NEW b \in Seq(Recs), NEW o, WriteStep(log, b, o),
           Write(o), UNCHANGED readFrom
    PROVE  /\ TerminalsAhead'
           /\ faults'["quarantine"] = 0 => faults["quarantine"] = 0
<1>1. /\ log' = o.log /\ log' \in Logs /\ faults' \in [FaultKinds -> Nat]
      /\ faults'["quarantine"] = 0 => o.fault # "quarantine" /\ faults["quarantine"] = 0
  BY WriteType
<1>2. faults'["evict"] >= faults["evict"] /\ faults \in [FaultKinds -> Nat]
  <2>1. UNCHANGED faults \/ Spend("write") \/ Spend("quarantine")
    BY DEF Write, WriteStep
  <2> QED BY <2>1, FaultsGrow DEF FaultKinds, TypeOK
<1> SUFFICES ASSUME faults'["evict"] + faults'["quarantine"] = 0,
                    NEW k \in DOMAIN log'.recs, log'.base + k < readFrom
             PROVE  log'.recs[k].kind # "result"
  BY <1>1 DEF TerminalsAhead
<1>3. faults'["quarantine"] = 0 /\ faults["evict"] + faults["quarantine"] = 0
  BY <1>1, <1>2 DEF FaultKinds
<1>4. /\ log'.base = log.base /\ \A i \in DOMAIN log.recs : log'.recs[i] = log.recs[i]
      /\ readFrom <= LastIndex(log) + 1
  BY <1>1, <1>3 DEF WriteStep, PipelineInv
<1>5. /\ log.base \in Nat /\ Len(log.recs) \in Nat /\ DOMAIN log.recs = 1 .. Len(log.recs)
      /\ DOMAIN log'.recs = 1 .. Len(log'.recs) /\ readFrom \in Nat
  <2>1. readFrom \in Nat
    BY DEF TypeOK
  <2>2. log.base \in Nat /\ log.recs \in Seq(Recs)
    BY DEF TypeOK
  <2>3. log'.recs \in Seq(Recs)
    BY <1>1 DEF Logs
  <2> QED BY <2>1, <2>2, <2>3
<1>6. k \in DOMAIN log.recs
  BY <1>4, <1>5 DEF LastIndex
<1> QED BY <1>3, <1>4, <1>6 DEF TerminalsAhead

\* After an eviction, and the cap, the log begins behind the index.
LEMMA AheadEvict ==
    ASSUME NEW l \in Logs, NEW index \in Nat, index <= LastIndex(l)
    PROVE  EnforceCap(EvictThrough(l, index), Cap).base >= index
<1> DEFINE m == EvictThrough(l, index)
<1>1. l.base \in Nat /\ Len(l.recs) \in Nat /\ (l.recs = << >> => Len(l.recs) = 0)
  BY DEF Logs
<1>2. m \in Logs
  BY EvictStep
<1>3. m.base >= index
  BY <1>1 DEF EvictThrough, FirstIndex, LastIndex
<1> HIDE DEF m
<1>4. LastIndex(m) \in Nat /\ m.base \in Nat
  BY <1>2 DEF Logs, LastIndex
<1>5. EvictThrough(m, LastIndex(m)) \in Logs /\ EvictThrough(m, LastIndex(m)).base >= m.base
  BY <1>2, <1>4, EvictStep
<1>6. EvictThrough(m, LastIndex(m)).base \in Nat
  BY <1>5 DEF Logs
<1>7. EnforceCap(m, Cap).base >= index
  BY <1>3, <1>4, <1>5, <1>6 DEF EnforceCap
<1> QED BY <1>7 DEF m

\* Where a record of the log is in the batch under way.
LEMMA BatchPosition ==
    ASSUME TypeOK, CallSnapshot, call.st # "idle", NEW n \in 1 .. Len(call.recs), NEW k \in DOMAIN log.recs,
           log.base + k >= call.start, log.base + k <= call.start + n - 1
    PROVE  \E i \in 1 .. n : call.recs[i] = log.recs[k]
<1>1. /\ call.start \in Nat /\ DOMAIN call.recs = 1 .. Len(call.recs) /\ Len(call.recs) \in Nat
      /\ log.base \in Nat /\ DOMAIN log.recs = 1 .. Len(log.recs)
  <2>1. call.start \in Nat /\ call.recs \in Seq(Recs) /\ log.base \in Nat /\ log.recs \in Seq(Recs)
    BY DEF TypeOK
  <2> QED BY <2>1
<1> DEFINE i == log.base + k - call.start + 1
<1>2. /\ i \in 1 .. n /\ i \in DOMAIN call.recs /\ call.start + i - 1 > log.base
      /\ call.start + i - 1 - log.base = k
  <2>1. PICK s, b, u \in Nat : s = call.start /\ b = log.base /\ u = Len(call.recs)
    BY <1>1
  <2>2. k \in Nat /\ k >= 1 /\ n \in Nat /\ n <= u /\ b + k >= s /\ b + k <= s + n - 1
    BY <1>1, <2>1
  <2>3. b + k - s + 1 \in 1 .. n /\ s + (b + k - s + 1) - 1 = b + k /\ b + k > b
    BY <2>2, PositionInBatch
  <2>4. b + k - s + 1 \in 1 .. u /\ b + k - b = k
    BY <2>2, <2>3
  <2>5. i = b + k - s + 1
    BY <2>1
  <2> HIDE DEF i
  <2>6. s + i - 1 = b + k /\ i \in 1 .. n /\ i \in 1 .. u
    BY <2>3, <2>4, <2>5
  <2>7. s + i - 1 > b /\ s + i - 1 - b = k
    BY <2>2, <2>6
  <2> QED BY <1>1, <2>1, <2>6, <2>7
<1> HIDE DEF i
<1>3. log.recs[call.start + i - 1 - log.base] = call.recs[i]
  BY <1>2 DEF CallSnapshot
<1> QED BY <1>2, <1>3

\* A fold that passes a terminal evicts all it has passed.
LEMMA AheadFold ==
    ASSUME TypeOK, PipelineInv, TerminalsAhead, CallFromCursor, Fold
    PROVE  TerminalsAhead'
<1>1. PICK reply \in {Reply(call.recs)}, n \in 0 .. Len(call.recs) : Fold!2!(reply)!(n)
  BY DEF Fold
<1> DEFINE boundary == call.start + n - 1
<1>2. PICK due \in {EvictDue(call.recs, n, reply), TRUE}, fails \in BOOLEAN :
           \E evicted \in {IF due /\ n > 0 /\ ~fails THEN EvictThrough(log, boundary) ELSE log} :
                /\ IF fails THEN due /\ n > 0 /\ Spend("evict") ELSE UNCHANGED faults
                /\ log' = EnforceCap(evicted, Cap)
  BY <1>1
<1> DEFINE evicted == IF due /\ n > 0 /\ ~fails THEN EvictThrough(log, boundary) ELSE log
<1>3. /\ IF fails THEN Spend("evict") ELSE UNCHANGED faults
      /\ log' = EnforceCap(evicted, Cap)
      /\ readFrom' = IF n > 0 /\ boundary + 1 > readFrom THEN boundary + 1 ELSE readFrom
  BY <1>1, <1>2
<1>4. /\ call.start \in Nat /\ call.recs \in Seq(Recs) /\ n \in Nat /\ readFrom \in Nat
      /\ DOMAIN call.recs = 1 .. Len(call.recs) /\ Len(call.recs) \in Nat
      /\ log \in Logs /\ faults \in [FaultKinds -> Nat]
  <2>1. /\ call.start \in Nat /\ call.recs \in Seq(Recs) /\ readFrom \in Nat
        /\ log \in Logs /\ faults \in [FaultKinds -> Nat]
    BY DEF TypeOK, Logs
  <2> QED BY <2>1
<1> SUFFICES ASSUME faults'["evict"] + faults'["quarantine"] = 0,
                    NEW k \in DOMAIN log'.recs, log'.base + k < readFrom'
             PROVE  log'.recs[k].kind # "result"
  BY DEF TerminalsAhead
<1>5. ~fails /\ faults["evict"] + faults["quarantine"] = 0 /\ faults["quarantine"] = 0
  BY <1>3, <1>4 DEF Spend, FaultKinds
<1>6. /\ call.st = "replied" /\ CallSnapshot
      /\ call.start <= readFrom \/ call.start <= log.base + 1
  BY <1>5 DEF Fold, CallFromCursor, PipelineInv, FirstIndex
<1>7. log' \in Logs /\ log.base \in Nat /\ log'.base \in Nat /\ DOMAIN log'.recs \subseteq Nat \ {0}
      /\ DOMAIN log.recs \subseteq Nat \ {0}
  <2>1. log' \in Logs
    BY FoldDrops DEF Suffix
  <2> QED BY <1>4, <2>1 DEF Logs
<1> DEFINE j == k + log'.base - log.base
<1>8. j \in DOMAIN log.recs /\ log'.recs[k] = log.recs[j] /\ log.base + j = log'.base + k
  <2>1. j \in DOMAIN log.recs /\ log'.recs[k] = log.recs[j]
    BY FoldDrops DEF Suffix
  <2> QED BY <1>7, <2>1
<1> HIDE DEF j
<1>9. CASE log.base + j < readFrom
  BY <1>5, <1>8, <1>9 DEF TerminalsAhead
<1>10. CASE log.base + j >= readFrom
  <2>1. n > 0 /\ log.base + j <= boundary /\ n \in 1 .. Len(call.recs)
    BY <1>3, <1>4, <1>7, <1>8, <1>10
  <2>2. ~due
    <3> SUFFICES ASSUME due PROVE FALSE
      OBVIOUS
    <3>1. evicted = EvictThrough(log, boundary) /\ boundary \in Nat
      BY <1>4, <1>5, <2>1
    <3> HIDE DEF evicted, boundary
    <3>2. boundary <= LastIndex(log)
      BY <1>5, <1>6, <2>1, FoldedDone DEF boundary
    <3>3. log'.base >= boundary
      BY <1>3, <1>4, <1>8, <2>1, <3>1, <3>2, AheadEvict
    <3> QED BY <1>7, <1>8, <2>1, <3>1, <3>3
  <2>3. \A i \in 1 .. n : call.recs[i].kind # "result"
    BY <1>2, <2>2 DEF EvictDue
  <2>4. log.base + j >= call.start
    BY <1>4, <1>6, <1>7, <1>8, <1>10
  <2>5. PICK i \in 1 .. n : call.recs[i] = log.recs[j]
    BY <1>4, <1>6, <1>7, <1>8, <2>1, <2>4, BatchPosition
  <2> QED BY <1>8, <2>3, <2>5
<1> QED BY <1>4, <1>7, <1>8, <1>9, <1>10

\* The cursor and the batch under way, step by step.
LEMMA AheadStep ==
    ASSUME TypeOK, PipelineInv, TerminalsAhead, CallFromCursor, [Next]_vars
    PROVE  TerminalsAhead' /\ CallFromCursor'
<1>1. /\ log \in Logs /\ buffered \in Seq(Recs) /\ readFrom \in Nat /\ turn \in Turns /\ call \in Calls
      /\ faults \in [FaultKinds -> Nat]
  BY DEF TypeOK, Logs, Calls, Turns, TurnSet, Between
<1>2. log.base \in Nat /\ log.recs \in Seq(Recs) /\ DOMAIN log.recs = 1 .. Len(log.recs)
  BY <1>1 DEF Logs
<1>3. ASSUME NEW b \in Seq(Recs), NEW o, WriteStep(log, b, o), Write(o), UNCHANGED <<readFrom, call>>
      PROVE  TerminalsAhead' /\ CallFromCursor'
  <2>1. TerminalsAhead' /\ (faults'["quarantine"] = 0 => faults["quarantine"] = 0)
    BY <1>3, AheadWrite
  <2>2. faults'["quarantine"] = 0 => log'.base = log.base
    BY <1>3, WriteType DEF WriteStep
  <2> QED BY <1>3, <2>1, <2>2 DEF CallFromCursor, FirstIndex
<1>4. ASSUME UNCHANGED <<log, readFrom>>, NEW f \in FaultKinds, UNCHANGED faults \/ Spend(f),
             call'.st = "idle" \/ (call'.start = call.start /\ call.st # "idle")
      PROVE  TerminalsAhead' /\ CallFromCursor'
  <2>1. faults' \in [FaultKinds -> Nat] /\ \A g \in FaultKinds : faults'[g] >= faults[g]
    BY <1>4, FaultsGrow
  <2>2. /\ faults'["quarantine"] = 0 => faults["quarantine"] = 0
        /\ faults'["evict"] + faults'["quarantine"] = 0 => faults["evict"] + faults["quarantine"] = 0
    BY <1>1, <2>1 DEF FaultKinds
  <2> QED BY <1>4, <2>2 DEF TerminalsAhead, CallFromCursor, FirstIndex
<1>5. IdleCall.st = "idle"
  BY DEF IdleCall
<1>6. CASE BeginSession \/ FinishTurn \/ ManagerApply \/ StaleApply \/ CancelCommand \/ UNCHANGED vars
  <2>1. UNCHANGED <<log, readFrom, faults>>
    BY <1>6 DEF BeginSession, FinishTurn, ManagerApply, StaleApply, CancelCommand, machine, vars
  <2>2. call'.st = "idle" \/ (call'.start = call.start /\ call.st # "idle")
    BY <1>1, <1>5, <1>6 DEF BeginSession, FinishTurn, ManagerApply, StaleApply, CancelCommand, machine, vars,
                            Calls
  <2>3. "net" \in FaultKinds
    BY DEF FaultKinds
  <2> QED BY <1>4, <2>1, <2>2, <2>3
<1>7. CASE BeginSessionLost
  <2>1. UNCHANGED <<log, readFrom, call>> /\ Spend("begin") /\ "begin" \in FaultKinds
    BY <1>7 DEF BeginSessionLost, machine, FaultKinds
  <2> QED BY <1>4, <2>1
<1>8. CASE Bypass
  <2>1. UNCHANGED <<log, readFrom, call>> /\ (UNCHANGED faults \/ Spend("net")) /\ "net" \in FaultKinds
    BY <1>8 DEF Bypass, FaultKinds
  <2> QED BY <1>4, <2>1
<1>9. CASE CallFails
  <2>1. UNCHANGED <<log, readFrom>> /\ Spend("net") /\ call' = IdleCall /\ "net" \in FaultKinds
    BY <1>9 DEF CallFails, FaultKinds
  <2> QED BY <1>4, <1>5, <2>1
<1>10. CASE BarrierPoll
  <2>1. PICK o \in FlushOutcomes(log, buffered) : Write(o)
    BY <1>10 DEF BarrierPoll
  <2>2. UNCHANGED <<readFrom, call>> /\ WriteStep(log, buffered, o)
    BY <1>1, <1>10, FlushStep DEF BarrierPoll
  <2> QED BY <1>1, <1>3, <2>1, <2>2
<1>11. ASSUME NEW r \in Recs, \E o \in AppendOutcomes(log, buffered, r) : Write(o),
              UNCHANGED <<readFrom, call>>
       PROVE  TerminalsAhead' /\ CallFromCursor'
  <2>1. PICK o \in AppendOutcomes(log, buffered, r) : Write(o)
    BY <1>11
  <2>2. Append(buffered, r) \in Seq(Recs) /\ WriteStep(log, Append(buffered, r), o)
    BY <1>1, AppendStep
  <2> QED BY <1>3, <1>11, <2>1, <2>2
<1>12. \A c \in Command : SyntheticTerminal(c) \in Recs
  BY RecordType DEF SyntheticTerminal, Kinds, Bodies
<1>13. CASE BarrierSynthesize
  <2>1. PICK c \in turn.orphans : \E o \in AppendOutcomes(log, buffered, SyntheticTerminal(c)) : Write(o)
    BY <1>13 DEF BarrierSynthesize
  <2>2. c \in Command /\ UNCHANGED <<readFrom, call>>
    BY <1>1, <1>13 DEF BarrierSynthesize, Turns, TurnSet
  <2> QED BY <1>11, <1>12, <2>1, <2>2
<1>14. CASE \E kind \in DataKinds : AppendRecord(kind)
  <2>1. PICK kind \in DataKinds : AppendRecord(kind)
    BY <1>14
  <2>2. PICK b \in DataBodies :
             \E o \in AppendOutcomes(log, buffered, Record(turn.cmd, kind, turn[kind] + 1, b)) : Write(o)
    BY <2>1 DEF AppendRecord
  <2>3. turn.phase \notin Between /\ UNCHANGED <<readFrom, call>>
    BY <2>1 DEF AppendRecord, Between
  <2>4. turn.cmd \in Command /\ turn[kind] \in Nat /\ kind \in Kinds /\ b \in Bodies
    BY <1>1, <2>3, BoundsAssumption, TurnType DEF Turns, Kinds, Bodies
  <2>5. Record(turn.cmd, kind, turn[kind] + 1, b) \in Recs
    BY <2>4, RecordType
  <2> QED BY <1>11, <2>2, <2>3, <2>5
<1>15. CASE Deliver
  <2>1. /\ \E o \in AppendOutcomes(log, buffered, Record(turn.cmd, "result", 1, turn.res)) : Write(o)
        /\ turn.phase \notin Between /\ UNCHANGED <<readFrom, call>>
    BY <1>15 DEF Deliver, Between
  <2>2. Record(turn.cmd, "result", 1, turn.res) \in Recs
    <3>1. turn.cmd \in Command /\ turn.res \in Bodies
      BY <1>1, <2>1 DEF Turns, TurnSet
    <3> QED BY <3>1, RecordType DEF Kinds
  <2> QED BY <1>11, <2>1, <2>2
<1>16. CASE StartUpload
  <2>1. PICK o \in FlushOutcomes(log, buffered) : StartUpload!2!(o)
    BY <1>16 DEF StartUpload
  <2>2. UNCHANGED readFrom /\ call.st = "idle" /\ Write(o) /\ WriteStep(log, buffered, o)
    BY <1>1, <1>16, <2>1, FlushStep DEF StartUpload
  <2>3. TerminalsAhead' /\ log' = o.log /\ log' \in Logs
    BY <1>1, <2>2, AheadWrite, WriteType
  <2>4. call' = call \/ call'.start = ReadStart(log', readFrom)
    BY <2>1, <2>3
  <2>5. ReadStart(log', readFrom) \in {readFrom, FirstIndex(log')}
    BY DEF ReadStart
  <2>6. log'.base \in Nat
    BY <2>3 DEF Logs
  <2> QED BY <1>1, <2>2, <2>3, <2>4, <2>5, <2>6 DEF CallFromCursor, FirstIndex
<1>17. CASE Fold
  <2>1. call' = IdleCall
    BY <1>17 DEF Fold
  <2> QED BY <1>5, <1>17, <2>1, AheadFold DEF CallFromCursor
<1>18. CASE Restart
  <2>1. readFrom' = 0 /\ call' = IdleCall /\ log' \in Logs
    BY <1>1, <1>18, AppendBatchStep DEF Restart
  <2>2. \A k \in DOMAIN log'.recs : ~(log'.base + k < 0)
    BY <2>1 DEF Logs
  <2> QED BY <1>5, <2>1, <2>2 DEF TerminalsAhead, CallFromCursor
<1>19. CASE SelfCheck
  <2>1. UNCHANGED <<readFrom, call>>
    BY <1>19 DEF SelfCheck
  <2> DEFINE all == log.recs \o buffered
  <2>2. OrphanGroups(all) \subseteq Command
    <3>1. all \in Seq(Recs)
      BY <1>1, <1>2
    <3> HIDE DEF all
    <3> QED BY <3>1, GroupsType
  <2> HIDE DEF all
  <2>3. CASE \E c \in OrphanGroups(all) : \E o \in AppendOutcomes(log, buffered, SyntheticTerminal(c)) : Write(o)
    BY <1>11, <1>12, <2>1, <2>2, <2>3
  <2>4. CASE \E o \in FlushOutcomes(log, buffered) : Write(o)
    BY <1>1, <1>3, <2>1, <2>4, FlushStep
  <2> QED BY <1>19, <2>3, <2>4 DEF SelfCheck, all
<1>20. CASE TornRecord
  <2>1. PICK k \in DOMAIN log.recs :
             log' = [base |-> log.base, recs |-> [log.recs EXCEPT ![k] = Poison]]
    BY <1>20 DEF TornRecord
  <2>2. UNCHANGED <<readFrom, call>> /\ Spend("torn") /\ "torn" \in FaultKinds
    BY <1>20 DEF TornRecord, FaultKinds
  <2>3. faults'["quarantine"] = faults["quarantine"] /\ faults'["evict"] = faults["evict"]
    BY <1>1, <2>2 DEF Spend, FaultKinds
  <2>4. /\ log'.base = log.base /\ DOMAIN log'.recs = DOMAIN log.recs
        /\ \A i \in DOMAIN log.recs : log'.recs[i] = log.recs[i] \/ log'.recs[i] = Poison
    BY <1>2, <2>1
  <2>5. Poison.kind # "result"
    BY DEF Poison
  <2> QED BY <2>2, <2>3, <2>4, <2>5 DEF TerminalsAhead, CallFromCursor, FirstIndex
<1> QED BY <1>6, <1>7, <1>8, <1>9, <1>10, <1>13, <1>14, <1>15, <1>16, <1>17, <1>18, <1>19, <1>20 DEF Next

(***************************************************************************)
(* The safety half of BarrierReleases, for every instance: unless an       *)
(* eviction failed or a log directory was set aside, every terminal in the *)
(* log has still to be uploaded and folded.                                *)
(***************************************************************************)
THEOREM TerminalsStayAhead == Spec => []TerminalsAhead
<1>1. Init => TerminalsAhead /\ CallFromCursor
  BY DEF Init, EmptyLog, IdleCall, TerminalsAhead, CallFromCursor
<1>2. TypeOK /\ PipelineInv /\ (TerminalsAhead /\ CallFromCursor) /\ [Next]_vars
        => (TerminalsAhead /\ CallFromCursor)'
  BY AheadStep
<1> QED BY <1>1, <1>2, TypeCorrect, PipelineInvariant, PTL DEF Spec
=============================================================================
