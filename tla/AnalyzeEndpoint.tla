-------------------------- MODULE AnalyzeEndpoint --------------------------
(***************************************************************************)
(* POST /agent/analyze as a service (app.py, agent_analyze; the SQLite     *)
(* stores of session/store.py and knowledge_base/store.py): requests that  *)
(* overlap on one event loop, clients that give up waiting, stores that    *)
(* fail, and a process that is killed and started again.                   *)
(*                                                                         *)
(* Between the read of the session and the write of its new contents the   *)
(* handler awaits run_agent, and other requests are served; from that      *)
(* write to its answer it does not await, and none is. AgentSession has    *)
(* the messages of a run; here a run is one step that returns or raises,   *)
(* and a session is the sequence of the turns whose messages it holds.     *)
(***************************************************************************)
EXTENDS Naturals, Sequences, Functions

CONSTANTS
    Clients,
    Workloads,   \* what the clients may set out to do: asks, a bound on the requests
                 \* of each, and impatient, those that may time out before the answer
    MaxAsks,     \* bound on the requests of any client
    MaxCrashes   \* bound on the crashes

ASSUME EndpointAssumption ==
    /\ Workloads \subseteq [asks : [Clients -> 0..MaxAsks], impatient : SUBSET Clients]
    /\ MaxAsks \in Nat
    /\ MaxCrashes \in Nat

\* The n-th request of a client; also its turn in a session.
Requests == Clients \X (1..MaxAsks)

NoSession == 0   \* a session_id that is missing; ids are numbered as they are issued

VARIABLES
    workload,   \* the workload of this behaviour
    sessions,   \* table sessions: from ids to their turns
    issued,     \* how many ids uuid4 has issued
    cases,      \* table archived_cases: the requests whose reports it holds
    kbOpen,     \* whether _kb_store has been initialised
    archiving,  \* the environment asks for archiving, and names a KB
    up,         \* whether the process runs
    crashes,
    status,     \* of each request, as the server sees it
    sid,        \* of each request: session.id, before that body.session_id
    context,    \* of each request: session.messages
    asked,      \* of each client: how many requests it has sent
    waiting,    \* of each client: whether it waits for the answer to the last one
    known,      \* of each client: the session_id it sends
    overlaps    \* history: <<r, q>>, r in progress on the session that q loaded

store == <<sessions, issued, cases>>
process == <<kbOpen, archiving, up, crashes>>
request == <<status, sid, context, overlaps>>
client == <<workload, asked, waiting, known>>
vars == <<store, process, request, client>>

(***************************************************************************)
(* "sent": not seen by the server yet; "running": in run_agent; "stored":  *)
(* its turn has been written, the handler still runs; then the outcomes: a *)
(* 200, a 500, or nothing, the process having died.                        *)
(***************************************************************************)
Statuses == {"unsent", "sent", "running", "stored", "ok", "error", "lost"}
Ended == {"ok", "error", "lost"}

Init ==
    /\ workload \in Workloads
    /\ sessions = <<>>
    /\ issued = 0
    /\ cases = {}
    /\ kbOpen = FALSE
    /\ archiving \in BOOLEAN
    /\ up = TRUE
    /\ crashes = 0
    /\ status = [r \in Requests |-> "unsent"]
    /\ sid = [r \in Requests |-> NoSession]
    /\ context = [r \in Requests |-> <<>>]
    /\ asked = [c \in Clients |-> 0]
    /\ waiting = [c \in Clients |-> FALSE]
    /\ known = [c \in Clients |-> NoSession]
    /\ overlaps = {}

---------------------------------------------------------------------------
(* demo_session.py, and evaluate.py with --continue-session.               *)

\* post_analyze, call_backend: the request goes out, with the id if there is one.
Ask(c) ==
    /\ ~ waiting[c]
    /\ asked[c] < workload.asks[c]
    /\ LET r == <<c, asked[c] + 1>>
       IN  /\ asked' = [asked EXCEPT ![c] = @ + 1]
           /\ status' = [status EXCEPT ![r] = IF up THEN "sent" ELSE "lost"]
           /\ sid' = [sid EXCEPT ![r] = known[c]]
    /\ waiting' = [waiting EXCEPT ![c] = TRUE]
    /\ UNCHANGED <<store, process, context, workload, known, overlaps>>

\* An answer, or an error; the id of the first answer is kept for good.
Receive(c) ==
    LET r == <<c, asked[c]>>
    IN  /\ waiting[c]
        /\ status[r] \in Ended
        /\ waiting' = [waiting EXCEPT ![c] = FALSE]
        /\ known' = IF status[r] = "ok" /\ known[c] = NoSession
                    THEN [known EXCEPT ![c] = sid[r]]
                    ELSE known
        /\ UNCHANGED <<store, process, request, workload, asked>>

\* The timeout of urlopen. The server is not told: the handler goes on.
GiveUp(c) ==
    /\ c \in workload.impatient
    /\ waiting[c]
    /\ waiting' = [waiting EXCEPT ![c] = FALSE]
    /\ UNCHANGED <<store, process, request, workload, asked, known>>

---------------------------------------------------------------------------
(* agent_analyze.                                                          *)

\* No handler stands between two statements without an await.
LoopFree == up /\ \A r \in Requests : status[r] # "stored"

InProgress(s) == {r \in Requests : status[r] = "running" /\ sid[r] = s}

\* Slip: the id is known, the messages are not read.
LoadNothing(r) ==
    /\ LoopFree
    /\ status[r] = "sent"
    /\ status' = [status EXCEPT ![r] = "running"]
    /\ IF sid[r] \in DOMAIN sessions
       THEN /\ UNCHANGED context
            /\ overlaps' = overlaps \cup (InProgress(sid[r]) \X {r})
            /\ UNCHANGED <<sessions, issued, sid>>
       ELSE /\ issued' = issued + 1
            /\ sid' = [sid EXCEPT ![r] = issued + 1]
            /\ sessions' = [s \in DOMAIN sessions \cup {issued + 1} |->
                                IF s = issued + 1 THEN <<>> ELSE sessions[s]]
            /\ UNCHANGED <<context, overlaps>>
    /\ UNCHANGED <<cases, process, client>>

\* Slip: the session last made is read, not the one asked for.
LoadLatest(r) ==
    /\ LoopFree
    /\ status[r] = "sent"
    /\ status' = [status EXCEPT ![r] = "running"]
    /\ IF sid[r] \in DOMAIN sessions
       THEN /\ context' = [context EXCEPT ![r] = IF issued \in DOMAIN sessions THEN sessions[issued] ELSE <<>>]
            /\ overlaps' = overlaps \cup (InProgress(sid[r]) \X {r})
            /\ UNCHANGED <<sessions, issued, sid>>
       ELSE /\ issued' = issued + 1
            /\ sid' = [sid EXCEPT ![r] = issued + 1]
            /\ sessions' = [s \in DOMAIN sessions \cup {issued + 1} |->
                                IF s = issued + 1 THEN <<>> ELSE sessions[s]]
            /\ UNCHANGED <<context, overlaps>>
    /\ UNCHANGED <<cases, process, client>>

\* From the start of the handler to the await: the session is read or made.
Load(r) ==
    /\ LoopFree
    /\ status[r] = "sent"
    /\ status' = [status EXCEPT ![r] = "running"]
    /\ IF sid[r] \in DOMAIN sessions
       THEN /\ context' = [context EXCEPT ![r] = sessions[sid[r]]]
            /\ overlaps' = overlaps \cup (InProgress(sid[r]) \X {r})
            /\ UNCHANGED <<sessions, issued, sid>>
       ELSE /\ issued' = issued + 1
            /\ sid' = [sid EXCEPT ![r] = issued + 1]
            /\ sessions' = [s \in DOMAIN sessions \cup {issued + 1} |->
                                IF s = issued + 1 THEN <<>> ELSE sessions[s]]
            /\ UNCHANGED <<context, overlaps>>
    /\ UNCHANGED <<cases, process, client>>

Refuse(r) == status' = [status EXCEPT ![r] = "error"]

\* The session store raises, or run_agent does, or the write of the session.
LoadFails(r) ==
    /\ LoopFree
    /\ status[r] = "sent"
    /\ Refuse(r)
    /\ UNCHANGED <<store, process, sid, context, overlaps, client>>

RunOrSaveFails(r) ==
    /\ LoopFree
    /\ status[r] = "running"
    /\ Refuse(r)
    /\ UNCHANGED <<store, process, sid, context, overlaps, client>>

\* Slip: the turn is written without what was loaded.
SaveOverwrites(r) ==
    /\ LoopFree
    /\ status[r] = "running"
    /\ status' = [status EXCEPT ![r] = "stored"]
    /\ sessions' = [s \in DOMAIN sessions \cup {sid[r]} |->
                        IF s = sid[r] THEN <<r>> ELSE sessions[s]]
    /\ UNCHANGED <<issued, cases, process, sid, context, overlaps, client>>

\* run_agent returns; update writes what was loaded, and the turn.
Save(r) ==
    /\ LoopFree
    /\ status[r] = "running"
    /\ status' = [status EXCEPT ![r] = "stored"]
    /\ sessions' = [s \in DOMAIN sessions \cup {sid[r]} |->
                        IF s = sid[r] THEN Append(context[r], r) ELSE sessions[s]]
    /\ UNCHANGED <<issued, cases, process, sid, context, overlaps, client>>

\* Slip: the status is not one a handler ends with.
AnswerMisnamed(r) == status' = [status EXCEPT ![r] = "200"]

Answer(r) == status' = [status EXCEPT ![r] = "ok"]

\* Slip: the archiving stands before the write of the session.
ArchiveEarly(r) ==
    /\ LoopFree
    /\ status[r] = "running"
    /\ archiving
    /\ kbOpen' = TRUE
    /\ cases' = cases \cup {r}
    /\ Answer(r)
    /\ UNCHANGED <<sessions, issued, archiving, up, crashes, sid, context, overlaps, client>>

\* _kb_auto_archive, and the answer.
Archive(r) ==
    /\ status[r] = "stored"
    /\ archiving
    /\ kbOpen' = TRUE
    /\ cases' = cases \cup {r}
    /\ Answer(r)
    /\ UNCHANGED <<sessions, issued, archiving, up, crashes, sid, context, overlaps, client>>

\* It raises: a warning, and the answer.
ArchiveFails(r) ==
    /\ status[r] = "stored"
    /\ archiving
    /\ kbOpen' = TRUE
    /\ Answer(r)
    /\ UNCHANGED <<store, archiving, up, crashes, sid, context, overlaps, client>>

\* _get_kb_store raises, outside the try statement.
KbInitFails(r) ==
    /\ status[r] = "stored"
    /\ archiving
    /\ ~ kbOpen
    /\ Refuse(r)
    /\ UNCHANGED <<store, process, sid, context, overlaps, client>>

NoArchive(r) ==
    /\ status[r] = "stored"
    /\ ~ archiving
    /\ Answer(r)
    /\ UNCHANGED <<store, process, sid, context, overlaps, client>>

---------------------------------------------------------------------------
\* Slip: the connections of the process are never closed.
DieSilently ==
    /\ up
    /\ crashes < MaxCrashes
    /\ up' = FALSE
    /\ crashes' = crashes + 1
    /\ kbOpen' = FALSE
    /\ UNCHANGED <<status, issued, archiving, sid, context, overlaps, client>>

\* Requests the process was serving end with it.
Die ==
    /\ up
    /\ crashes < MaxCrashes
    /\ up' = FALSE
    /\ crashes' = crashes + 1
    /\ kbOpen' = FALSE
    /\ status' = [r \in Requests |->
            IF status[r] \in {"sent", "running", "stored"} THEN "lost" ELSE status[r]]
    /\ UNCHANGED <<issued, archiving, sid, context, overlaps, client>>

\* What a store committed stays ...
Crash == Die /\ UNCHANGED <<sessions, cases>>

\* ... but in a container that is replaced: the files are on no volume.
Replaced == Die /\ sessions' = <<>> /\ cases' = {}

Restart ==
    /\ ~ up
    /\ up' = TRUE
    /\ UNCHANGED <<store, kbOpen, archiving, crashes, request, client>>

Handle(r) ==
    \/ Load(r)
    \/ LoadFails(r)
    \/ RunOrSaveFails(r)
    \/ Save(r)
    \/ Archive(r)
    \/ ArchiveFails(r)
    \/ KbInitFails(r)
    \/ NoArchive(r)

AllAsked == (\A c \in Clients : asked[c] = workload.asks[c] /\ ~ waiting[c]) /\ UNCHANGED vars

Next ==
    \/ \E c \in Clients : Ask(c) \/ Receive(c) \/ GiveUp(c)
    \/ \E r \in Requests : Handle(r)
    \/ Crash
    \/ Replaced
    \/ Restart
    \/ AllAsked

(***************************************************************************)
(* Every await of a handler ends (AgentLoop: EveryRunEnds), and a response *)
(* that was sent arrives.                                                  *)
(***************************************************************************)
Fairness ==
    /\ \A r \in Requests : WF_vars(Handle(r))
    /\ \A c \in Clients : WF_vars(Receive(c))

Spec == Init /\ [][Next]_vars /\ Fairness

---------------------------------------------------------------------------
TypeOK ==
    /\ workload \in Workloads
    /\ DOMAIN sessions \subseteq 1..issued
    /\ \A s \in DOMAIN sessions : sessions[s] \in Seq(Requests)
    /\ issued \in Nat
    /\ cases \subseteq Requests
    /\ {kbOpen, archiving, up} \subseteq BOOLEAN
    /\ crashes \in 0..MaxCrashes
    /\ status \in [Requests -> Statuses]
    /\ sid \in [Requests -> 0..issued]
    /\ context \in [Requests -> Seq(Requests)]
    /\ asked \in [Clients -> 0..MaxAsks]
    /\ \A c \in Clients : asked[c] \in 0..workload.asks[c]
    /\ waiting \in [Clients -> BOOLEAN]
    /\ known \in [Clients -> 0..issued]
    /\ overlaps \subseteq Requests \X Requests

Overlapped(r, q) == <<r, q>> \in overlaps \/ <<q, r>> \in overlaps

(***************************************************************************)
(* A turn that was answered is in its session as long as the session       *)
(* exists; it can only have been overwritten by a request that was in      *)
(* progress on the session at the same time.                               *)
(***************************************************************************)
LostOnlyToOverlap ==
    \A r \in Requests :
        status[r] = "ok" /\ sid[r] \in DOMAIN sessions /\ r \notin Range(sessions[sid[r]])
            => \E q \in Range(sessions[sid[r]]) : Overlapped(r, q)

(***************************************************************************)
(* What a session shows the model is a history that happened: each turn    *)
(* once, and every turn before the last was stored when the next was       *)
(* loaded. Turns that ran side by side are never both in it, and no        *)
(* turn of another client is.                                              *)
(***************************************************************************)
SessionIsAHistory ==
    \A s \in DOMAIN sessions :
        LET turns == sessions[s]
        IN  /\ \A i, j \in DOMAIN turns : i < j =>
                    turns[i] # turns[j] /\ ~ Overlapped(turns[i], turns[j])
            /\ \A i, j \in DOMAIN turns : turns[i][1] = turns[j][1]

(***************************************************************************)
(* The report of a turn is archived only behind the turn itself: a case in *)
(* the knowledge base never speaks of a turn that no session holds or held,*)
(* whatever died or failed between the two writes.                         *)
(***************************************************************************)
ArchivedWasStored ==
    \A r \in cases : sid[r] \in DOMAIN sessions /\
        (r \in Range(sessions[sid[r]])
            \/ \E q \in Range(sessions[sid[r]]) : Overlapped(r, q))

(***************************************************************************)
(* A client is not left waiting, whatever crashed meanwhile.               *)
(***************************************************************************)
ClientsAreAnswered == \A c \in Clients : waiting[c] ~> ~ waiting[c]

(***************************************************************************)
(* Sessions accumulate (02 section 5.4): the promise SessionLog makes.     *)
(***************************************************************************)
Log == INSTANCE SessionLog WITH
    Turns <- Requests,
    log <- sessions,
    acked <- {r \in Requests : status[r] = "ok"}

Accumulates == Log!LogSpec

(***************************************************************************)
(* The promise is kept to the clients that wait for their answers: an      *)
(* impatient client beside them, crashes and failing stores lose no turn   *)
(* of theirs unless all are lost.                                          *)
(***************************************************************************)
PatientRequests == {r \in Requests : r[1] \notin workload.impatient}

PatientSessions == {s \in DOMAIN sessions : \E r \in PatientRequests : sid[r] = s}

PatientLog == INSTANCE SessionLog WITH
    Turns <- Requests,
    log <- [s \in PatientSessions |-> sessions[s]],
    acked <- {r \in PatientRequests : status[r] = "ok"}

PatientAccumulates == PatientLog!LogSpec

(***************************************************************************)
(* "KB write is an analytics side effect: even if it fails the answer      *)
(* stays a 200" (app.py, before the archiving): a request whose analysis   *)
(* has been stored is not answered with an error.                          *)
(***************************************************************************)
KbFailureIsNotFatal ==
    \A r \in Requests :
        status[r] = "error" /\ sid[r] \in DOMAIN sessions => r \notin Range(sessions[sid[r]])
===========================================================================
