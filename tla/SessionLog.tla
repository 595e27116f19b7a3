----------------------------- MODULE SessionLog -----------------------------
(***************************************************************************)
(* What POST /agent/analyze promises its callers about sessions: each is a *)
(* log that turns are appended to, one at a time and each once; a turn is  *)
(* acknowledged when it is in the log. A deployment may start over with no *)
(* session at all, but never with half of one.                             *)
(***************************************************************************)
EXTENDS Sequences, Functions

CONSTANT Turns

VARIABLES
    log,   \* the sessions, a function from their ids to sequences of turns
    acked  \* the turns whose callers were answered

logvars == <<log, acked>>

Logged == UNION {Range(log[s]) : s \in DOMAIN log}

LogInit == log = <<>> /\ acked = {}

\* A new session.
Open ==
    /\ \E s \in DOMAIN log' \ DOMAIN log :
            log' = [t \in DOMAIN log \cup {s} |-> IF t = s THEN <<>> ELSE log[t]]
    /\ UNCHANGED acked

AppendTurn ==
    /\ \E s \in DOMAIN log, turn \in Turns \ (Logged \cup acked) :
            log' = [log EXCEPT ![s] = Append(@, turn)]
    /\ UNCHANGED acked

Acknowledge ==
    /\ \E turn \in Logged \ acked : acked' = acked \cup {turn}
    /\ UNCHANGED log

StartOver == log' = <<>> /\ UNCHANGED acked

LogNext == Open \/ AppendTurn \/ Acknowledge \/ StartOver

LogSpec == LogInit /\ [][LogNext]_logvars
=============================================================================
