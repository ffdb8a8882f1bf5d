------------------------------ MODULE OutboxLog ------------------------------
(***************************************************************************)
(* The agent's outbox log (a write-ahead log of records under consecutive  *)
(* indexes) and the pure parts of the uploader that reads and evicts it.   *)
(* log.recs[k] is the record at index log.base + k; an eviction moves the  *)
(* base, a fresh directory starts again at base 0.                         *)
(***************************************************************************)
EXTENDS CommandData

FirstIndex(log) == log.base + 1
LastIndex(log)  == log.base + Len(log.recs)
EmptyLog        == [base |-> 0, recs |-> << >>]

AppendBatch(log, entries) == [base |-> log.base, recs |-> log.recs \o entries]

(***************************************************************************)
(* flushLocked/writeLocked: what a flush of the buffer can leave behind.   *)
(* Without a fault the whole buffer is in the log.  With a disk fault a    *)
(* prefix of the batch may be on disk already; then either the write after *)
(* the reopen succeeds (the prefix is there twice), or the reopen fails    *)
(* too and the buffer is kept, or the second write fails and the directory *)
(* is set aside: the log restarts empty and the buffer is kept.            *)
(***************************************************************************)
Flushed(log, buffered) ==
    [log |-> AppendBatch(log, buffered), buffered |-> << >>, err |-> FALSE, fault |-> "none"]

\* Mutant: the buffer is cleared also when the write failed.
WriteFaultsClear(log, buffered) ==
    {[log |-> AppendBatch(log, SubSeq(buffered, 1, n)),
      buffered |-> << >>, err |-> TRUE, fault |-> "write"] : n \in 0 .. Len(buffered)}

WriteFaults(log, buffered) ==
    {[log |-> AppendBatch(log, SubSeq(buffered, 1, n) \o buffered),
      buffered |-> << >>, err |-> FALSE, fault |-> "write"] : n \in 0 .. Len(buffered)}
    \cup
    {[log |-> AppendBatch(log, SubSeq(buffered, 1, n)),
      buffered |-> buffered, err |-> TRUE, fault |-> "write"] : n \in 0 .. Len(buffered)}
    \cup
    {[log |-> EmptyLog, buffered |-> buffered, err |-> TRUE, fault |-> "quarantine"]}

FlushOutcomes(log, buffered) ==
    {Flushed(log, buffered)}
    \cup (IF buffered = << >> THEN {} ELSE WriteFaults(log, buffered))

\* Mutant: the record that reaches the threshold is written ahead of the buffer.
AppendAhead(log, buffered, r) ==
    {[log |-> log, buffered |-> Append(buffered, r), err |-> FALSE, fault |-> "none"],
     [log |-> AppendBatch(log, <<r>>), buffered |-> buffered, err |-> FALSE, fault |-> "none"]}

\* Append only buffers the record until the byte threshold makes it flush.
AppendOutcomes(log, buffered, r) ==
    {[log |-> log, buffered |-> Append(buffered, r), err |-> FALSE, fault |-> "none"]}
    \cup FlushOutcomes(log, Append(buffered, r))

(***************************************************************************)
(* ReadRecords (after its flush): at most max records from index `from`.   *)
(* A cursor beyond the log is taken as a log that restarted.               *)
(***************************************************************************)
ReadStart(log, from) ==
    IF from > LastIndex(log) + 1 \/ from < FirstIndex(log) THEN FirstIndex(log) ELSE from

\* Mutant: the newest records are read first.
ReadNewest(log, max, from) ==
    SubSeq(log.recs, IF Len(log.recs) > max THEN Len(log.recs) - max + 1 ELSE 1, Len(log.recs))

ReadRecords(log, max, from) ==
    LET s == ReadStart(log, from) - log.base
        t == IF s + max - 1 < Len(log.recs) THEN s + max - 1 ELSE Len(log.recs)
    IN  SubSeq(log.recs, s, t)

\* Mutant: the record after the index goes too.
EvictBeyond(log, index) ==
    IF log.recs = << >> \/ index < FirstIndex(log)
      THEN log
      ELSE LET k == (IF index >= LastIndex(log) THEN LastIndex(log) ELSE index + 1) - log.base
           IN  [base |-> log.base + k, recs |-> SubSeq(log.recs, k + 1, Len(log.recs))]

EvictThrough(log, index) ==
    IF log.recs = << >> \/ index < FirstIndex(log)
      THEN log
      ELSE LET k == (IF index > LastIndex(log) THEN LastIndex(log) ELSE index) - log.base
           IN  [base |-> log.base + k, recs |-> SubSeq(log.recs, k + 1, Len(log.recs))]

(***************************************************************************)
(* EnforceCap: a log at or over the retention cap loses all its records;   *)
(* the size is counted in records.                                         *)
(***************************************************************************)
EnforceCap(log, cap) ==
    IF Len(log.recs) >= cap /\ log.recs # << >> THEN EvictThrough(log, LastIndex(log)) ELSE log

(***************************************************************************)
(* fold: the settled prefix of an uploaded batch, and whether it is        *)
(* evicted now.                                                            *)
(***************************************************************************)
TerminalRejected(reply, c) == \E k \in reply.rejected : k[1] = c /\ k[2] = "result"

RecordSettled(r, reply) ==
    \/ r = Poison
    \/ TerminalRejected(reply, r.cmd)
    \/ Key(r) \in reply.rejected
    \/ /\ r.cmd \in DOMAIN reply.acks
       /\ \/ r.kind = "progress" /\ r.seq <= reply.acks[r.cmd].progress
          \/ r.kind = "event"    /\ r.seq <= reply.acks[r.cmd].event
          \/ r.kind = "result"   /\ reply.acks[r.cmd].result

\* n is the length of the settled prefix of recs.
SettledPrefix(recs, reply, n) ==
    /\ \A i \in 1 .. n : RecordSettled(recs[i], reply)
    /\ n < Len(recs) => ~RecordSettled(recs[n + 1], reply)

\* Mutant: a settled terminal does not make the eviction due.
EvictRejectedOnly(recs, n, reply) == \E k \in reply.rejected : k[2] = "result"

EvictDue(recs, n, reply) ==
    \/ \E i \in 1 .. n : recs[i].kind = "result"
    \/ \E k \in reply.rejected : k[2] = "result"
=============================================================================
