----------------------------- MODULE Evaluation -----------------------------
(***************************************************************************)
(* Invocations of poc/scripts/eval/evaluate.py, one after the other: each  *)
(* takes a list of error cases, has every one of them injected, triggered, *)
(* analysed by POST /agent/analyze and scored, and leaves a report per     *)
(* case and a comparison in a directory. The directory is named after the  *)
(* day, so a later invocation may find, and overwrite, what an earlier one *)
(* left there.                                                             *)
(***************************************************************************)
EXTENDS Naturals, Sequences, FiniteSets

CONSTANTS
    Cases,          \* ids of error cases
    Dirs,           \* report directories
    JudgeFailures,  \* how many of the judge's three axes may stay without a score
    MaxInvocations  \* bound on the invocations

ASSUME EvaluationAssumption ==
    JudgeFailures \subseteq 0..3 /\ MaxInvocations \in Nat

VARIABLES
    status,       \* of the invocation: "idle" before the first, "running", "done" (it
                  \* returned 0), "refused" (2) or "died" (it raised)
    invocations,  \* how many there were
    args,         \* --cases, --judge, --continue-session
    dir,          \* date_dir
    results,      \* results
    continued,    \* continued_session_id
    issued,       \* how many session ids the backend has issued
    reports,      \* of each directory: the reports on disk, of each case the latest
    comparison,   \* of each directory: comparison.md
    unfinished    \* history: directories whose last invocation has not returned 0

evars == <<status, invocations, args, dir, results, continued, issued, reports, comparison,
           unfinished>>

NoId == 0
Ids == Nat

Arguments == [cases : Seq(Cases), judged : BOOLEAN, continuing : BOOLEAN]
NoArguments == [cases |-> <<>>, judged |-> FALSE, continuing |-> FALSE]

(***************************************************************************)
(* The result of a case. scored: it has a score_1a, trigger did not end    *)
(* clean; sent, got: the session id of the request and of the response;    *)
(* infra: it has an infra_error; axes: scored_axes, 0 without a judge.     *)
(***************************************************************************)
Result == [case : Cases, scored : BOOLEAN, sent : Ids, got : Ids,
           infra : BOOLEAN, axes : 0..4]
ReportsOf(d, c) == {r \in reports[d] : r.case = c}

\* A row of the table: whether it has scores, and on how many axes.
Row(result) == [case |-> result.case, scored |-> result.scored, axes |-> result.axes]
Rows(rs) == [i \in DOMAIN rs |-> Row(rs[i])]
NoComparison == <<>>

EInit ==
    /\ status = "idle"
    /\ invocations = 0
    /\ args = NoArguments
    /\ dir \in Dirs
    /\ results = <<>>
    /\ continued = NoId
    /\ issued = 0
    /\ reports = [d \in Dirs |-> {}]
    /\ comparison = [d \in Dirs |-> NoComparison]
    /\ unfinished = {}

---------------------------------------------------------------------------
\* main, up to the loop.
Invoke(a, d) ==
    /\ status # "running"
    /\ invocations < MaxInvocations
    /\ invocations' = invocations + 1
    /\ status' = "running"
    /\ args' = a
    /\ dir' = d
    /\ results' = <<>>
    /\ continued' = NoId
    /\ unfinished' = unfinished \cup {d}
    /\ UNCHANGED <<issued, reports, comparison>>

\* No key for the API, no case, or no key for the judge.
Refuse ==
    /\ status # "running"
    /\ invocations < MaxInvocations
    /\ invocations' = invocations + 1
    /\ status' = "refused"
    /\ UNCHANGED <<args, dir, results, continued, issued, reports, comparison, unfinished>>

\* Slip: the last case of the list, whatever the turn.
CurrentLast == args.cases[Len(args.cases)]

Current == args.cases[Len(results) + 1]

(***************************************************************************)
(* evaluate_case: what it may return for the current case.                 *)
(***************************************************************************)
\* trigger ended clean: the injection had no effect.
TriggerFailed ==
    [case |-> Current, scored |-> FALSE, sent |-> NoId, got |-> NoId,
     infra |-> FALSE, axes |-> 0]

\* scored_axes: 1-A always, and what the judge did not fail on.
Axes == IF args.judged THEN {4 - failures : failures \in JudgeFailures} ELSE {0}

\* call_backend returned an error: the analysis is the empty text, and is scored.
Unanswered ==
    {[case |-> Current, scored |-> TRUE, sent |-> continued, got |-> NoId,
      infra |-> FALSE, axes |-> axes] : axes \in Axes}

\* An analysis. The id that was sent comes back, or a new one if the backend lost its session.
Analysed ==
    {[case |-> Current, scored |-> TRUE, sent |-> continued, got |-> id,
      infra |-> infra, axes |-> axes] :
        id \in {issued + 1} \cup ({continued} \ {NoId}),
        infra \in BOOLEAN, axes \in Axes}

\* Slip: the id of the latest answer is sent next.
AdoptLatest(result) ==
    IF args.continuing /\ result.got # NoId THEN result.got ELSE continued

\* The id of the first answer that has one, with --continue-session.
Adopt(result) ==
    IF args.continuing /\ continued = NoId THEN result.got ELSE continued

\* Slip: one file for every case.
WrittenAlone(result) == [reports EXCEPT ![dir] = {result}]

\* write_report: the file is named after the case.
Written(result) ==
    [reports EXCEPT ![dir] = {r \in @ : r.case # result.case} \cup {result}]

\* Slip: no report for a case whose trigger failed.
EvaluateCaseUnreported(result) ==
    /\ status = "running"
    /\ Len(results) < Len(args.cases)
    /\ issued' = IF result.got > issued THEN result.got ELSE issued
    /\ continued' = Adopt(result)
    /\ reports' = IF result.scored THEN Written(result) ELSE reports
    /\ results' = Append(results, result)
    /\ UNCHANGED <<status, invocations, args, dir, comparison, unfinished>>

\* Slip: a case that was not answered is taken again.
EvaluateCaseAgain(result) ==
    /\ status = "running"
    /\ Len(results) < Len(args.cases)
    /\ issued' = IF result.got > issued THEN result.got ELSE issued
    /\ continued' = Adopt(result)
    /\ reports' = Written(result)
    /\ results' = IF result.got = NoId THEN results ELSE Append(results, result)
    /\ UNCHANGED <<status, invocations, args, dir, comparison, unfinished>>

\* The body of the loop over the cases: the result is written, then kept.
EvaluateCase(result) ==
    /\ status = "running"
    /\ Len(results) < Len(args.cases)
    /\ issued' = IF result.got > issued THEN result.got ELSE issued
    /\ continued' = Adopt(result)
    /\ reports' = Written(result)
    /\ results' = Append(results, result)
    /\ UNCHANGED <<status, invocations, args, dir, comparison, unfinished>>

\* inject raises: an unknown case, a hunk found nowhere or twice; or the process is killed,
\* perhaps after the backend gave it a session.
CaseRaises ==
    /\ status = "running"
    /\ Len(results) < Len(args.cases)
    /\ status' = "died"
    /\ issued' \in {issued, issued + 1}
    /\ UNCHANGED <<invocations, args, dir, results, continued, reports, comparison, unfinished>>

\* Killed in write_report, or the disk is full: an earlier report of the case is gone.
ReportRaises ==
    /\ status = "running"
    /\ Len(results) < Len(args.cases)
    /\ status' = "died"
    /\ issued' \in {issued, issued + 1}
    /\ reports' = [reports EXCEPT ![dir] = {r \in @ : r.case # Current}]
    /\ UNCHANGED <<invocations, args, dir, results, continued, comparison, unfinished>>

\* Killed after the last case, or the table cannot be written: it is emptied, or an old one stays.
TableRaises ==
    /\ status = "running"
    /\ Len(results) = Len(args.cases)
    /\ status' = "died"
    /\ comparison' \in {comparison, [comparison EXCEPT ![dir] = NoComparison]}
    /\ UNCHANGED <<invocations, args, dir, results, continued, issued, reports, unfinished>>

\* write_comparison, and 0.
Finish ==
    /\ status = "running"
    /\ Len(results) = Len(args.cases)
    /\ comparison' = [comparison EXCEPT ![dir] = Rows(results)]
    /\ status' = "done"
    /\ unfinished' = unfinished \ {dir}
    /\ UNCHANGED <<invocations, args, dir, results, continued, issued, reports>>

Work ==
    \/ status = "running" /\ Len(results) < Len(args.cases)
         /\ \E result \in {TriggerFailed} \cup Unanswered \cup Analysed : EvaluateCase(result)
    \/ CaseRaises
    \/ ReportRaises
    \/ TableRaises
    \/ Finish

---------------------------------------------------------------------------
\* Results are those of the cases asked for, in order.
ETypeOK ==
    /\ status \in {"idle", "running", "done", "refused", "died"}
    /\ invocations \in 0..MaxInvocations
    /\ args \in Arguments
    /\ dir \in Dirs
    /\ results \in Seq(Result)
    /\ Len(results) <= Len(args.cases)
    /\ \A i \in DOMAIN results : results[i].case = args.cases[i]
    /\ issued \in Nat
    /\ continued \in 0..issued
    /\ reports \in [Dirs -> SUBSET Result]
    /\ comparison \in [Dirs -> Seq([case : Cases, scored : BOOLEAN, axes : 0..4])]
    /\ unfinished \subseteq Dirs

(***************************************************************************)
(* With --continue-session every case is asked in the session of the first *)
(* case that was answered, whatever failed before it and even where the    *)
(* backend has issued another id since; without it, each in a new one      *)
(* (evaluate.py, where continued_session_id is adopted).                   *)
(***************************************************************************)
AnsweredBefore(i) == {j \in 1..(i - 1) : results[j].got # NoId}

FirstSessionIsEchoed ==
    \A i \in DOMAIN results : results[i].scored =>
        IF args.continuing /\ AnsweredBefore(i) # {}
        THEN \E j \in AnsweredBefore(i) : /\ \A k \in AnsweredBefore(i) : j <= k
                                          /\ results[i].sent = results[j].got
        ELSE results[i].sent = NoId

(***************************************************************************)
(* The table and the reports beside it tell the same: wherever the last    *)
(* invocation of a directory came to its end, each row is that of the      *)
(* report on disk (the last row, of a case named twice). Only where the    *)
(* last invocation died may a table of other reports lie beside them.      *)
(***************************************************************************)
ComparisonAgrees ==
    \A d \in Dirs \ unfinished :
        LET rows == comparison[d]
        IN  \A i \in DOMAIN rows :
                (\A j \in DOMAIN rows : j > i => rows[j].case # rows[i].case) =>
                    {Row(r) : r \in ReportsOf(d, rows[i].case)} = {rows[i]}

(***************************************************************************)
(* What was measured is on disk, also of an invocation that dies in a      *)
(* later case or over its table and prints nothing more: the report of     *)
(* every case it took is there, as measured, unless the case is named      *)
(* again behind it (write_report stands in the loop, before the next case  *)
(* is taken, and names the file after the case).                           *)
(***************************************************************************)
NamedAgain(i) == \E j \in DOMAIN args.cases : j > i /\ args.cases[j] = args.cases[i]

ResultsOnDisk ==
    \A i \in DOMAIN results :
        ~ NamedAgain(i) => ReportsOf(dir, results[i].case) = {results[i]}

(***************************************************************************)
(* An invocation ends, whatever the backend and the judge do: every call   *)
(* of them has a timeout, and so has the triggered program.                *)
(***************************************************************************)
InvocationEnds == status = "running" ~> status # "running"
=============================================================================
