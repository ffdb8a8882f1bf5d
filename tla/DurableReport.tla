---------------------------- MODULE DurableReport ----------------------------
(***************************************************************************)
(* What the command data path promises, without logs, cursors, batches or  *)
(* acknowledgements.  A machine accepts records; an accepted record waits  *)
(* until nothing more has to be done for it (the manager has taken or      *)
(* refused it) or until it is dropped in the open, and is never taken back *)
(* once it is settled.                                                     *)
(***************************************************************************)
VARIABLES
    accepted,   \* every record a turn has handed over
    waiting,    \* the records the machine holds
    settled,    \* the accepted records the manager has answered for good
    dropped     \* the records given up by a fault or by the retention cap

vars == <<accepted, waiting, settled, dropped>>

Init == accepted = {} /\ waiting = {} /\ settled = {} /\ dropped = {}

\* A turn hands over a record.  Its command may be closed already.
Accept ==
    /\ \E r \in waiting' :
         /\ accepted' = accepted \cup {r}
         /\ waiting' = waiting \cup {r}
         /\ settled' \in {settled, settled \cup {r}}
    /\ UNCHANGED dropped

\* The manager answers for some of the records, wherever they are.
Settle ==
    /\ settled \subseteq settled'
    /\ settled' \subseteq accepted
    /\ UNCHANGED <<accepted, waiting, dropped>>

\* The machine lets go of records: settled ones, or ones it drops openly.
Release ==
    /\ waiting' \subseteq waiting
    /\ dropped \subseteq dropped' /\ dropped' \subseteq dropped \cup waiting
    /\ waiting \subseteq waiting' \cup settled \cup dropped'
    /\ UNCHANGED <<accepted, settled>>

Next == Accept \/ Settle \/ Release

Spec == Init /\ [][Next]_vars
=============================================================================
