--------------------------- MODULE KnowledgeBase ---------------------------
(***************************************************************************)
(* The knowledge base between its two users in one process: the tool       *)
(* retrieve_similar_cases (tools/builtin.py), which runs in a thread of    *)
(* each run of the agent, and the archiving of a finished run (app.py),    *)
(* which runs on the event loop. Each has a store singleton of its own,    *)
(* and finds the database by itself: the tool falls back to a default      *)
(* file, the archiving to no knowledge base at all.                        *)
(*                                                                         *)
(* A case is the run it was made from and its confidence; a query is the   *)
(* set of runs in whose cases the text that is searched for occurs. The    *)
(* environment asks for archiving; without it the base stays empty.        *)
(***************************************************************************)
EXTENDS Naturals, FiniteSets

CONSTANTS
    Runs,
    Confidences,
    MaxTopK,    \* _TOP_K_MAX
    MaxCalls    \* bound on the retrievals of a run

ASSUME BaseAssumption ==
    Confidences \subseteq Nat /\ MaxTopK \in Nat \ {0} /\ MaxCalls \in Nat

Cases == [run : Runs, confidence : Confidences]

\* MACRO_LOGBOT_KB_PATH: not set, set to the empty string, or naming a file.
Paths == {"unset", "empty", "named"}

Files == {"default", "named"}

VARIABLES
    path,
    dirs,       \* files whose directory exists
    tables,     \* files that have the table archived_cases
    rows,       \* of each file: the cases in that table
    toolStore,  \* whether _kb_store of builtin.py has been assigned
    appStore,   \* whether _kb_store of app.py has
    at,         \* of each run: where it stands
    calls,      \* of each run: how many retrievals it has made
    matching,   \* of its retrieval: the runs whose cases match,
    topK,       \*     how many are wanted,
    found,      \*     and what the search returned
    archived,   \* history: the cases whose add has returned
    before      \* history: archived, when the retrieval of each run began

base == <<path, dirs, tables, rows>>
stores == <<toolStore, appStore>>
retrieval == <<calls, matching, topK, before>>
vars == <<base, stores, at, retrieval, found, archived>>

(***************************************************************************)
(* "thinking": outside of the tool; then the steps of the tool; then the   *)
(* ends: a 200, a run that raised, and a 500 after a run that did not.     *)
(***************************************************************************)
InTool == {"called", "making", "opening", "opened", "searching", "serialising"}
Places == InTool \cup {"thinking", "done", "aborted", "refused"}

Init ==
    /\ path \in Paths
    /\ dirs \in SUBSET Files
    /\ tables = {}
    /\ rows = [f \in Files |-> {}]
    /\ toolStore = FALSE
    /\ appStore = FALSE
    /\ at = [r \in Runs |-> "thinking"]
    /\ calls = [r \in Runs |-> 0]
    /\ matching = [r \in Runs |-> {}]
    /\ topK = [r \in Runs |-> 1]
    /\ found = [r \in Runs |-> {}]
    /\ archived = {}
    /\ before = [r \in Runs |-> {}]

Go(r, place) == at' = [at EXCEPT ![r] = place]

\* The tool returns or raises; the variables of the call are gone.
Leave(r, place) ==
    /\ Go(r, place)
    /\ matching' = [matching EXCEPT ![r] = {}]
    /\ topK' = [topK EXCEPT ![r] = 1]
    /\ before' = [before EXCEPT ![r] = {}]
    /\ UNCHANGED calls

---------------------------------------------------------------------------
(* retrieve_similar_cases, in a thread.                                    *)

\* Slip: the upper bound is not tested.
TopKsUnbounded == 1..(MaxTopK + 1)

TopKs == 1..MaxTopK

\* No signature, a long one, or a top_k out of range: an error is answered.
RefuseArguments(r) ==
    /\ at[r] = "thinking"
    /\ calls[r] < MaxCalls
    /\ calls' = [calls EXCEPT ![r] = @ + 1]
    /\ UNCHANGED <<base, stores, at, matching, topK, before, found, archived>>

Call(r) ==
    /\ at[r] = "thinking"
    /\ calls[r] < MaxCalls
    /\ calls' = [calls EXCEPT ![r] = @ + 1]
    /\ \E m \in SUBSET Runs : matching' = [matching EXCEPT ![r] = m]
    /\ \E k \in TopKs : topK' = [topK EXCEPT ![r] = k]
    /\ before' = [before EXCEPT ![r] = archived]
    /\ Go(r, "called")
    /\ UNCHANGED <<base, stores, found, archived>>

\* The file the tool opens.
ToolFile == IF path = "named" THEN "named" ELSE "default"

\* Without a lock: other threads may be at any step of the same.
CheckStore(r) ==
    /\ at[r] = "called"
    /\ Go(r, IF toolStore THEN "searching" ELSE "making")
    /\ UNCHANGED <<base, stores, retrieval, found, archived>>

\* Slip: the store is published before its table has been made.
MakeDirectoryPublishing(r) ==
    /\ at[r] = "making"
    /\ dirs' = dirs \cup {ToolFile}
    /\ toolStore' = TRUE
    /\ Go(r, "opening")
    /\ UNCHANGED <<path, tables, rows, appStore, retrieval, found, archived>>

MakeDirectory(r) ==
    /\ at[r] = "making"
    /\ dirs' = dirs \cup {ToolFile}
    /\ Go(r, "opening")
    /\ UNCHANGED <<path, tables, rows, stores, retrieval, found, archived>>

\* An OSError: there is no knowledge base, and no similar cases.
NoDirectory(r) ==
    /\ at[r] = "making"
    /\ ToolFile \notin dirs
    /\ Leave(r, "thinking")
    /\ UNCHANGED <<base, stores, found, archived>>

\* Slip: the table is made anew for every store.
OpenAfresh(r) ==
    /\ at[r] = "opening"
    /\ tables' = tables \cup {ToolFile}
    /\ rows' = [rows EXCEPT ![ToolFile] = {}]
    /\ Go(r, "opened")
    /\ UNCHANGED <<path, dirs, stores, retrieval, found, archived>>

\* SQLiteKBStore(kb_path): CREATE TABLE IF NOT EXISTS, committed.
Open(r) ==
    /\ at[r] = "opening"
    /\ tables' = tables \cup {ToolFile}
    /\ Go(r, "opened")
    /\ UNCHANGED <<path, dirs, rows, stores, retrieval, found, archived>>

Publish(r) ==
    /\ at[r] = "opened"
    /\ toolStore' = TRUE
    /\ Go(r, "searching")
    /\ UNCHANGED <<base, appStore, retrieval, found, archived>>

\* The results of ORDER BY confidence DESC LIMIT k among the cases m.
Best(k, m) ==
    {s \in SUBSET m :
        /\ Cardinality(s) <= k
        /\ s # m => Cardinality(s) = k
        /\ \A c \in s, d \in m \ s : d.confidence <= c.confidence}

Matches(r, cs) == {c \in cs : c.run \in matching[r]}

Search(r) ==
    /\ at[r] = "searching"
    /\ ToolFile \in tables
    /\ \E s \in Best(topK[r], Matches(r, rows[ToolFile])) :
            found' = [found EXCEPT ![r] = s]
    /\ Go(r, "serialising")
    /\ UNCHANGED <<base, stores, retrieval, archived>>

\* sqlite3.Error is not an OSError: it leaves the tool, and ends the run.
DatabaseFails(r) ==
    /\ at[r] \in {"opening", "searching"}
    /\ Leave(r, "aborted")
    /\ UNCHANGED <<base, stores, found, archived>>

\* json.dumps in execute_tools ...
AnswerEmpty(r) ==
    /\ at[r] = "serialising"
    /\ found[r] = {}
    /\ Leave(r, "thinking")
    /\ UNCHANGED <<base, stores, found, archived>>

\* ... has no form for the timestamp of a case.
AnswerUnserialisable(r) ==
    /\ at[r] = "serialising"
    /\ found[r] # {}
    /\ Leave(r, "aborted")
    /\ UNCHANGED <<base, stores, found, archived>>

---------------------------------------------------------------------------
(* The archiving, when the run has returned. It does not make directories. *)

\* _get_kb_store returns a store, which has been made now or before.
AppOpens ==
    /\ path # "unset"
    /\ path = "named" /\ ~ appStore => "named" \in dirs
    /\ appStore' = TRUE
    /\ tables' = IF path = "named" THEN tables \cup {"named"} ELSE tables

\* For the empty path every connection has a database of its own, without a table.
Archive(r) ==
    /\ at[r] = "thinking"
    /\ AppOpens
    /\ path = "named"
    /\ \E x \in Confidences :
            LET case == [run |-> r, confidence |-> x]
            IN  /\ rows' = [rows EXCEPT !["named"] = @ \cup {case}]
                /\ archived' = archived \cup {case}
    /\ Go(r, "done")
    /\ UNCHANGED <<path, dirs, toolStore, retrieval, found>>

\* add raises, or ArchivedCase refuses the confidence: a warning, and a 200.
ArchiveFails(r) ==
    /\ at[r] = "thinking"
    /\ AppOpens
    /\ Go(r, "done")
    /\ UNCHANGED <<path, dirs, rows, toolStore, retrieval, found, archived>>

\* Outside of the try statement (AnalyzeEndpoint: KbFailureIsNotFatal).
AppOpenFails(r) ==
    /\ at[r] = "thinking"
    /\ path = "named"
    /\ ~ appStore
    /\ Go(r, "refused")
    /\ UNCHANGED <<base, stores, retrieval, found, archived>>

NoArchive(r) ==
    /\ at[r] = "thinking"
    /\ path = "unset"
    /\ Go(r, "done")
    /\ UNCHANGED <<base, stores, retrieval, found, archived>>

AllEnded ==
    /\ \A r \in Runs : at[r] \in {"done", "aborted", "refused"}
    /\ UNCHANGED vars

Next ==
    \/ \E r \in Runs :
        \/ RefuseArguments(r)
        \/ Call(r)
        \/ CheckStore(r)
        \/ MakeDirectory(r)
        \/ NoDirectory(r)
        \/ Open(r)
        \/ Publish(r)
        \/ Search(r)
        \/ DatabaseFails(r)
        \/ AnswerEmpty(r)
        \/ AnswerUnserialisable(r)
        \/ Archive(r)
        \/ ArchiveFails(r)
        \/ AppOpenFails(r)
        \/ NoArchive(r)
    \/ AllEnded

Spec == Init /\ [][Next]_vars

---------------------------------------------------------------------------
TypeOK ==
    /\ path \in Paths
    /\ dirs \subseteq Files
    /\ tables \subseteq Files
    /\ rows \in [Files -> SUBSET Cases]
    /\ toolStore \in BOOLEAN
    /\ appStore \in BOOLEAN
    /\ at \in [Runs -> Places]
    /\ calls \in [Runs -> 0..MaxCalls]
    /\ matching \in [Runs -> SUBSET Runs]
    /\ topK \in [Runs -> 1..MaxTopK]
    /\ found \in [Runs -> SUBSET Cases]
    /\ archived \subseteq Cases
    /\ before \in [Runs -> SUBSET Cases]

(***************************************************************************)
(* A thread that searches does so in a database that has the table, also   *)
(* when it found the store another thread was making without a lock.       *)
(***************************************************************************)
SearchHasTable == \A r \in Runs : at[r] = "searching" => ToolFile \in tables

(***************************************************************************)
(* A case that had been archived when the model asked, and that matches,   *)
(* is in the result, or top_k cases at least as sure of themselves are:    *)
(* the tool and the archiving mean the same base, whoever opened it first, *)
(* and opening it again takes nothing away.                                *)
(***************************************************************************)
BestCasesFound ==
    \A r \in Runs : at[r] = "serialising" =>
        \A c \in Matches(r, before[r]) \ found[r] :
            /\ Cardinality(found[r]) = topK[r]
            /\ \A d \in found[r] : c.confidence <= d.confidence

(***************************************************************************)
(* "Exceptions are caught and returned as an error, which the LLM handles" *)
(* (builtin.py, module comment; its doc promises the similar cases as a    *)
(* dict): a retrieval that found cases does not end the run.               *)
(***************************************************************************)
FoundCasesAreAnswered == \A r \in Runs : found[r] # {} => at[r] # "aborted"
===========================================================================
