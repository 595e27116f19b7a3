---------------------------- MODULE AgentSession ----------------------------
(***************************************************************************)
(* The turns of one session at POST /agent/analyze (app.py,                *)
(* agent_analyze), one after the other: the persona, the stored messages   *)
(* and the log to analyze make the conversation the agent is run with; the *)
(* messages it returns, but those of role system, are stored for the next  *)
(* turn.                                                                   *)
(***************************************************************************)
EXTENDS AgentLoop

CONSTANTS
    LogTexts,  \* the texts a log may have
    MaxTurns   \* bound on the turns

VARIABLES
    session,  \* session.messages, as stored
    turn,     \* the number of the request being served, or last served
    saved,    \* whether what it returned has been stored
    cuts      \* history: the positions in session at which a turn ended that
              \* was answered with terminated_reason "max_iters"

svars == <<session, turn, saved, cuts>>
allvars == <<vars, svars>>

Persona == SystemMsg("plain")

\* Slip: the stored messages are not sent.
OpeningAfresh(stored, text) == <<Persona, UserMsg(text)>>

\* The messages a request runs the agent with.
Opening(stored, text) == <<Persona>> \o stored \o <<UserMsg(text)>>

ASSUME SessionAssumption ==
    /\ LogTexts \subseteq {"plain", "located"}
    /\ MaxTurns \in Nat \ {0}
    /\ Inputs = {Opening(<<>>, text) : text \in LogTexts}

\* SQLiteSessionStore.create, and the first request.
SInit ==
    /\ Init
    /\ session = <<>>
    /\ turn = 1
    /\ saved = FALSE
    /\ cuts = {}

Run == LoopStep /\ UNCHANGED svars

\* Slip: the system messages are stored with the others.
WithSystem(ms) == ms

\* session.messages = [m for m in result.messages if m.role != "system"]; update.
WithoutSystem(ms) == Kept(ms, {i \in DOMAIN ms : ms[i].role # "system"})

SaveTurn ==
    /\ node = "end"
    /\ ~ saved
    /\ saved' = TRUE
    /\ session' = WithoutSystem(messages)
    /\ cuts' = IF TerminatedReason = "max_iters" THEN cuts \cup {Len(session')} ELSE cuts
    /\ UNCHANGED <<vars, turn>>

\* update raises; like a run that raises, the request fails and stores nothing.
SaveFails ==
    /\ node = "end"
    /\ ~ saved
    /\ node' = "aborted"
    /\ UNCHANGED <<messages, iteration, last, sent, report, cvars, svars>>

Served == node = "aborted" \/ saved

\* The next request of the session.
NextTurn ==
    /\ Served
    /\ turn < MaxTurns
    /\ turn' = turn + 1
    /\ saved' = FALSE
    /\ \E text \in LogTexts : messages' = Opening(session, text)
    /\ node' = "intake"
    /\ iteration' = 0
    /\ last' = NoResponse
    /\ sent' = {}
    /\ report' = NoReport
    /\ CReset
    /\ UNCHANGED <<session, cuts>>

SStopped == Served /\ turn = MaxTurns /\ UNCHANGED allvars

SNext ==
    \/ Run
    \/ SaveTurn
    \/ SaveFails
    \/ NextTurn
    \/ SStopped

SSpec == SInit /\ [][SNext]_allvars

---------------------------------------------------------------------------
\* What is stored, on top of the run's own types.
STypeOK ==
    /\ TypeOK
    /\ session \in Seq(Message)
    /\ turn \in 1..MaxTurns
    /\ saved \in BOOLEAN
    /\ cuts \subseteq DOMAIN session

(***************************************************************************)
(* A session accumulates: no turn, finished or failed, loses or alters a   *)
(* message of an earlier one, although the list that is stored has been    *)
(* rebuilt around two system messages and filtered again.                  *)
(***************************************************************************)
SessionOnlyGrows ==
    [][/\ Len(session) <= Len(session')
       /\ \A i \in DOMAIN session : session'[i] = session[i]]_allvars

(***************************************************************************)
(* However many turns there were, the LLM is given the persona and the     *)
(* [INTAKE] hint once each, in front of everything else.                   *)
(***************************************************************************)
OnePersonaOneHint ==
    node # "intake" =>
        /\ \A i \in DOMAIN messages : messages[i].role = "system" <=> i <= 2
        /\ {messages[1], messages[2]} = {Persona, SystemMsg("intake")}

(***************************************************************************)
(* A stored session is one that can be sent again, but for the last call   *)
(* of each turn that was cut by max_iters; those calls, and no others,     *)
(* are without their answers. So a client that was never told "max_iters"  *)
(* only ever causes requests a provider accepts.                           *)
(***************************************************************************)
DanglingOnlyWhereCut ==
    /\ PairedOn(session, DOMAIN session \ cuts)
    /\ \A i \in cuts : IsHead(session[i])
    /\ cuts = {} => RequestsPaired
=============================================================================
