----------------------------- MODULE CommandData -----------------------------
(***************************************************************************)
(* The command data records that travel from an agent's turn to the        *)
(* manager (UploadCommandDataEntry): progress chunks, events, and the one  *)
(* terminal result of a command.                                           *)
(*                                                                         *)
(* A record is identified by its command, its kind and its sequence number *)
(* (progress and event sequences both count from 1 per command; a result   *)
(* always carries 1).  Its payload is reduced to what the manager's answer *)
(* depends on:                                                             *)
(*   "ok"      a well formed payload; for a result, exit code 0            *)
(*   "fail"    a result with a non-zero exit code                          *)
(*   "summary" a successful result with a final summary and no result      *)
(*             document                                                    *)
(*   "bad"     a payload convertUploadEntry refuses                        *)
(***************************************************************************)
EXTENDS Naturals, Sequences, FiniteSetsExt

DataKinds == {"progress", "event"}
Kinds     == DataKinds \cup {"result"}
Bodies    == {"ok", "fail", "summary", "bad"}

Record(c, k, s, b) == [cmd |-> c, kind |-> k, seq |-> s, body |-> b]

\* A frame of the log whose payload no longer parses (Record.Entry == nil).
Poison == [cmd |-> 0, kind |-> "poison", seq |-> 0, body |-> "bad"]

Records(cmds) == [cmd: cmds, kind: Kinds, seq: Nat, body: Bodies] \cup {Poison}

Key(r) == <<r.cmd, r.kind, r.seq>>

\* The terminal the machine writes for a turn that died without reporting one.
SyntheticTerminal(c) == Record(c, "result", 1, "fail")

HasTerminal(s, c) == \E i \in DOMAIN s : s[i].kind = "result" /\ s[i].cmd = c

\* Mutant: only commands that have reported a result are seen.
CommandsWithResult(s) == {s[i].cmd : i \in {j \in DOMAIN s : s[j].kind = "result"}}

CommandsOf(s) == {s[i].cmd : i \in {j \in DOMAIN s : s[j] # Poison}}

\* Commands with records but without a terminal record in s.
OrphanGroups(s) == {c \in CommandsOf(s) : ~HasTerminal(s, c)}
=============================================================================
