------------------------------ MODULE Baseline ------------------------------
(***************************************************************************)
(* poc/scripts/eval/run-onprem-baseline.sh: N invocations of evaluate.py,  *)
(* each with a directory of its own, then the check of what they left,     *)
(* which ends in a summary for the reader. The script runs under set -e    *)
(* and pipefail. evaluate.py is also started by hand; which of the two a   *)
(* behaviour is about is fixed at its start.                               *)
(***************************************************************************)
EXTENDS Evaluation

CONSTANTS
    HandArguments,  \* the arguments evaluate.py is started with by hand
    ScriptCases,    \* the lists the script may be given as CASES
    N               \* its number of runs

ASSUME BaselineAssumption ==
    /\ HandArguments \subseteq Arguments
    /\ ScriptCases \subseteq Seq(Cases)
    /\ N \in Nat \ {0}
    /\ Dirs = 1..N

VARIABLES
    mode,     \* "hand" or "script"
    script,   \* "measuring", "checking", or "ended"
    list,     \* CASES
    summary   \* whether the INVARIANT SUMMARY was printed

bvars == <<mode, script, list, summary>>
vars == <<evars, bvars>>

Init ==
    /\ EInit
    /\ mode \in {"hand", "script"}
    /\ script = "measuring"
    /\ list \in ScriptCases
    /\ summary = FALSE

ByHand ==
    /\ mode = "hand"
    /\ Refuse \/ \E a \in HandArguments, d \in Dirs : Invoke(a, d)
    /\ UNCHANGED bvars

Working == Work /\ UNCHANGED bvars

\* Slip: no pipefail, and tee hides that the run before failed.
NextRunAfterAny ==
    /\ mode = "script"
    /\ script = "measuring"
    /\ status # "running"
    /\ invocations < N
    /\ Invoke([cases |-> list, judged |-> FALSE, continuing |-> FALSE], invocations + 1)
    /\ UNCHANGED bvars

\* The next run: without a judge, each case in a session of its own.
NextRun ==
    /\ mode = "script"
    /\ script = "measuring"
    /\ status \in {"idle", "done"}
    /\ invocations < N
    /\ Invoke([cases |-> list, judged |-> FALSE, continuing |-> FALSE], invocations + 1)
    /\ UNCHANGED bvars

\* No key in the .env, or no case in CASES: evaluate.py refuses.
RunRefused ==
    /\ mode = "script"
    /\ script = "measuring"
    /\ status = "idle"
    /\ Refuse
    /\ UNCHANGED bvars

\* Slip: a run that failed is repeated.
RunFailedRepeats ==
    /\ mode = "script"
    /\ script = "measuring"
    /\ status \in {"died", "refused"}
    /\ status' = "idle"
    /\ invocations' = invocations - 1
    /\ UNCHANGED <<args, dir, results, continued, issued, reports, comparison, unfinished, bvars>>

\* evaluate.py returned anything but 0.
RunFailed ==
    /\ mode = "script"
    /\ script = "measuring"
    /\ status \in {"died", "refused"}
    /\ script' = "ended"
    /\ UNCHANGED <<evars, mode, list, summary>>

Measured ==
    /\ mode = "script"
    /\ script = "measuring"
    /\ status = "done"
    /\ invocations = N
    /\ script' = "checking"
    /\ UNCHANGED <<evars, mode, list, summary>>

---------------------------------------------------------------------------
(* The check, over the reports of all runs. Its other counts, of tool      *)
(* errors in the session store, of suspect echoes and of the files, are    *)
(* taken under set +e or cannot fail, and only word the summary.           *)

InfraFiles == {f \in Dirs \X Cases : \E r \in ReportsOf(f[1], f[2]) : r.infra}

\* The check up to the summary.
Summarise ==
    /\ script = "checking"
    /\ InfraFiles # {}
    /\ summary' = TRUE
    /\ script' = "ended"
    /\ UNCHANGED <<evars, mode, list>>

\* grep finds no infra_error and ends with 1, which the pipe hands on: set -e.
CheckFails ==
    /\ script = "checking"
    /\ InfraFiles = {}
    /\ script' = "ended"
    /\ UNCHANGED <<evars, mode, list, summary>>

ScriptStep == NextRun \/ RunFailed \/ RunRefused \/ Measured \/ Summarise \/ CheckFails

Over ==
    /\ \/ mode = "script" /\ script = "ended"
       \/ mode = "hand" /\ status # "running" /\ invocations = MaxInvocations
    /\ UNCHANGED vars

Next == ByHand \/ Working \/ ScriptStep \/ Over

\* A process that runs goes on; whether someone starts another is up to them.
Spec == Init /\ [][Next]_vars /\ WF_vars(Working) /\ WF_vars(ScriptStep)

---------------------------------------------------------------------------
\* On top of what evaluate.py leaves.
TypeOK ==
    /\ ETypeOK
    /\ mode \in {"hand", "script"}
    /\ script \in {"measuring", "checking", "ended"}
    /\ list \in ScriptCases
    /\ summary \in BOOLEAN

(***************************************************************************)
(* What is checked is a complete measurement: every run has its table, and *)
(* a report of each case asked for, with the session of no other case.     *)
(* A failed run behind the pipe into tee must not slip through (pipefail). *)
(***************************************************************************)
CheckedRunsAreComplete ==
    mode = "script" /\ (script = "checking" \/ summary) =>
        \A d \in Dirs :
            /\ Len(comparison[d]) = Len(list)
            /\ \A i \in DOMAIN list :
                   /\ comparison[d][i].case = list[i]
                   /\ ReportsOf(d, list[i]) # {}
                   /\ \A r \in ReportsOf(d, list[i]) : r.sent = NoId

(***************************************************************************)
(* Whatever fails, no case and no run is taken again: every step of an     *)
(* invocation leaves fewer cases or ends it, every other step of the       *)
(* script starts one of its N runs, for once, or is nearer to its end.     *)
(***************************************************************************)
CasesLeft == Len(args.cases) - Len(results)

ScriptLeft == [measuring |-> 2, checking |-> 1, ended |-> 0][script] + (N - invocations)

NothingIsRepeated ==
    [][IF status = "running"
       THEN /\ UNCHANGED <<script, invocations>>
            /\ status' # "running" \/ CasesLeft' < CasesLeft
       ELSE mode = "script" => ScriptLeft' \in 0..(ScriptLeft - 1)]_vars

(***************************************************************************)
(* The script ends, and no run starts after one that failed.               *)
(***************************************************************************)
ScriptEnds == mode = "script" ~> script = "ended"

(***************************************************************************)
(* "invariant-check.txt: the automatic check of the invariants" and        *)
(* "INVARIANT SUMMARY (this line is read first)": a measurement all runs   *)
(* of which returned 0 is summarised.                                      *)
(***************************************************************************)
GoodMeasurementIsSummarised ==
    mode = "script" /\ script = "ended" /\ status = "done" => summary
=============================================================================
