--------------------------- MODULE BaselineProofs ---------------------------
(***************************************************************************)
(* Proofs about Baseline, for every set of cases, every list, and every    *)
(* number of runs: its type invariant, the session each case is asked in,  *)
(* the agreement of table and reports, and that only complete measurements *)
(* are checked.                                                            *)
(***************************************************************************)
EXTENDS Baseline, SequenceTheorems, TLAPS

(***************************************************************************)
(* The inductive invariant.                                                *)
(***************************************************************************)
\* A directory that is being written in counts as unfinished.
Open == status = "running" => dir \in unfinished

\* The first session id that came back is the one that goes on, if any does.
ContinuedIsFirst ==
    /\ ~args.continuing => continued = NoId
    /\ args.continuing /\ continued = NoId => \A i \in DOMAIN results : results[i].got = NoId
    /\ continued # NoId =>
          \E j \in DOMAIN results : /\ results[j].got = continued
                                    /\ \A k \in 1..(j - 1) : results[k].got = NoId

\* While no write has failed every result is on disk, unless a later one of its case took its
\* place: the reports a table can be made of.
LastOfItsCase(i) == \A j \in DOMAIN results : j > i => results[j].case # results[i].case

NoWriteFailed == status \in {"running", "done"}

ReportsStand ==
    NoWriteFailed =>
        \A i \in DOMAIN results :
            /\ ReportsOf(dir, results[i].case) # {}
            /\ LastOfItsCase(i) => ReportsOf(dir, results[i].case) = {results[i]}

Asked == [cases |-> list, judged |-> FALSE, continuing |-> FALSE]

Complete(d) ==
    /\ Len(comparison[d]) = Len(list)
    /\ \A i \in DOMAIN list : comparison[d][i].case = list[i] /\ ReportsOf(d, list[i]) # {}

\* The runs of the script: run k writes in directory k, and those before it are complete.
ScriptRuns ==
    mode = "script" =>
        /\ status = "idle" => invocations = 0
        /\ status = "running" => dir = invocations /\ args = Asked
        /\ script # "measuring" => status # "running"
        /\ script = "checking" \/ summary => status = "done" /\ invocations = N
        /\ \A d \in Dirs : \A r \in reports[d] : r.sent = NoId
        /\ \A d \in Dirs :
              d < invocations \/ (d = invocations /\ status = "done") => Complete(d)

\* By hand, the script stays where it was.
HandKeepsScript == mode = "hand" => script = "measuring"

IInv ==
    /\ TypeOK
    /\ Open
    /\ HandKeepsScript
    /\ ContinuedIsFirst
    /\ FirstSessionIsEchoed
    /\ ReportsStand
    /\ ResultsOnDisk
    /\ ComparisonAgrees
    /\ ScriptRuns

---------------------------------------------------------------------------
(***************************************************************************)
(* What evaluate_case returns is a result of the current case; a request   *)
(* that was made carried the continued session.                            *)
(***************************************************************************)
LEMMA ResultOfCurrent ==
    ASSUME TypeOK, Len(results) < Len(args.cases),
           NEW result \in {TriggerFailed} \cup Unanswered \cup Analysed
    PROVE  /\ result \in Result
           /\ result.case = args.cases[Len(results) + 1]
           /\ result.scored => result.sent = continued
           /\ ~result.scored => result.sent = NoId /\ result.got = NoId
<1>1. Current \in Cases /\ Current = args.cases[Len(results) + 1]
  BY DEF TypeOK, ETypeOK, Arguments, Current
<1>2. continued \in Nat /\ issued + 1 \in Nat
  BY DEF TypeOK, ETypeOK
<1>3. \A axes \in Axes : axes \in 0..4
  BY EvaluationAssumption DEF Axes
<1>4. CASE result = TriggerFailed
  BY <1>1, <1>4 DEF TriggerFailed, Result, Ids, NoId
<1>5. CASE result \in Unanswered
  <2>1. PICK axes \in Axes :
            result = [case |-> Current, scored |-> TRUE, sent |-> continued, got |-> NoId,
                      infra |-> FALSE, axes |-> axes]
    BY <1>5 DEF Unanswered
  <2>2. result \in Result
    BY <1>1, <1>2, <1>3, <2>1 DEF Result, Ids, NoId
  <2> QED
    BY <1>1, <2>1, <2>2
<1>6. CASE result \in Analysed
  <2>1. PICK id \in {issued + 1} \cup ({continued} \ {NoId}), infra \in BOOLEAN,
             axes \in Axes :
            result = [case |-> Current, scored |-> TRUE, sent |-> continued, got |-> id,
                      infra |-> infra, axes |-> axes]
    BY <1>6 DEF Analysed
  <2>2. id \in Nat /\ axes \in 0..4
    BY <1>2, <1>3
  <2>3. result \in Result
    BY <1>1, <1>2, <2>1, <2>2 DEF Result, Ids
  <2> QED
    BY <1>1, <2>1, <2>3
<1> QED
  BY <1>4, <1>5, <1>6

\* ComparisonAgrees, of a directory.
Agrees(d) ==
    \A i \in DOMAIN comparison[d] :
        (\A j \in DOMAIN comparison[d] :
            j > i => comparison[d][j].case # comparison[d][i].case) =>
        {Row(r) : r \in ReportsOf(d, comparison[d][i].case)} = {comparison[d][i]}

LEMMA AgreesEverywhere == ComparisonAgrees <=> \A d \in Dirs \ unfinished : Agrees(d)
BY Zenon DEF ComparisonAgrees, Agrees

LEMMA AgreesEverywherePrimed ==
    ComparisonAgrees' <=> \A d \in Dirs \ unfinished' : Agrees(d)'
BY Zenon DEF ComparisonAgrees, Agrees

LEMMA AgreesKept ==
    ASSUME NEW d \in Dirs, Agrees(d), reports'[d] = reports[d], comparison'[d] = comparison[d]
    PROVE  Agrees(d)'
<1>1. \A c : ReportsOf(d, c)' = ReportsOf(d, c)
  BY DEF ReportsOf
<1> QED
  BY <1>1 DEF Agrees

\* Where reports and tables stay, and no directory becomes finished.
LEMMA AgreementKept ==
    ASSUME ComparisonAgrees, UNCHANGED <<reports, comparison>>, unfinished \subseteq unfinished'
    PROVE  ComparisonAgrees'
BY AgreesEverywhere, AgreesEverywherePrimed, AgreesKept

\* Where the invocation and what it wrote stay.
LEMMA InvocationKept ==
    ASSUME IInv, UNCHANGED <<args, dir, results, continued, reports>>,
           NoWriteFailed' => NoWriteFailed
    PROVE  ContinuedIsFirst' /\ FirstSessionIsEchoed' /\ ReportsStand' /\ ResultsOnDisk'
<1>1. ContinuedIsFirst' /\ FirstSessionIsEchoed'
  BY DEF IInv, ContinuedIsFirst, FirstSessionIsEchoed, AnsweredBefore
<1>2. ReportsStand'
  BY DEF IInv, ReportsStand, LastOfItsCase, ReportsOf
<1>3. ResultsOnDisk'
  BY DEF IInv, ResultsOnDisk, NamedAgain, ReportsOf
<1> QED
  BY <1>1, <1>2, <1>3

\* A result whose case is not named again is the last of its case.
LEMMA StandingIsOnDisk ==
    TypeOK /\ ReportsStand /\ NoWriteFailed => ResultsOnDisk
<1> SUFFICES ASSUME TypeOK, ReportsStand, NoWriteFailed,
                    NEW i \in DOMAIN results, ~ NamedAgain(i)
             PROVE  ReportsOf(dir, results[i].case) = {results[i]}
  BY DEF ResultsOnDisk
<1>1. /\ Len(results) \in Nat /\ DOMAIN results = 1..Len(results)
      /\ Len(args.cases) \in Nat /\ DOMAIN args.cases = 1..Len(args.cases)
      /\ Len(results) <= Len(args.cases)
  BY DEF TypeOK, ETypeOK, Arguments
<1>2. \A j \in DOMAIN results : results[j].case = args.cases[j] /\ j \in DOMAIN args.cases
  BY <1>1 DEF TypeOK, ETypeOK
<1>3. LastOfItsCase(i)
  BY <1>2 DEF LastOfItsCase, NamedAgain
<1> QED
  BY <1>3 DEF ReportsStand

LEMMA StandingIsOnDiskNext ==
    TypeOK' /\ ReportsStand' /\ NoWriteFailed' => ResultsOnDisk'
BY StandingIsOnDisk, PTL

LEMMA InitIInv == Init => IInv
<1> SUFFICES ASSUME Init PROVE IInv
  OBVIOUS
<1>1. TypeOK
  <2>1. args \in Arguments
    BY DEF Init, EInit, Arguments, NoArguments
  <2>2. results \in Seq(Result) /\ Len(results) = 0 /\ Len(args.cases) = 0
        /\ \A i \in DOMAIN results : results[i].case = args.cases[i]
    BY DEF Init, EInit, NoArguments
  <2>3. reports \in [Dirs -> SUBSET Result]
    BY DEF Init, EInit
  <2>4. comparison \in [Dirs -> Seq([case : Cases, scored : BOOLEAN, axes : 0..4])]
    BY DEF Init, EInit, NoComparison
  <2> QED
    <3>1. invocations \in 0..MaxInvocations /\ issued \in Nat /\ continued \in 0..issued
      BY EvaluationAssumption DEF Init, EInit, NoId
    <3>2. Len(results) <= Len(args.cases)
      BY <2>2
    <3> QED
      BY <2>1, <2>2, <2>3, <2>4, <3>1, <3>2 DEF Init, EInit, TypeOK, ETypeOK
<1>2. Open /\ ContinuedIsFirst /\ FirstSessionIsEchoed /\ ReportsStand /\ ResultsOnDisk
  BY DEF Init, EInit, Open, ContinuedIsFirst, FirstSessionIsEchoed, ReportsStand, ResultsOnDisk,
         NoArguments
<1>3. ComparisonAgrees
  BY DEF Init, EInit, ComparisonAgrees, NoComparison
<1>4. ScriptRuns /\ HandKeepsScript
  BY BaselineAssumption DEF Init, EInit, ScriptRuns, HandKeepsScript
<1> QED
  BY <1>1, <1>2, <1>3, <1>4 DEF IInv

---------------------------------------------------------------------------
(***************************************************************************)
(* Starting and refusing.                                                  *)
(***************************************************************************)
LEMMA InvokeKeeps ==
    ASSUME IInv, NEW a \in Arguments, NEW d \in Dirs, Invoke(a, d), UNCHANGED bvars,
           mode = "script" =>
               /\ a = Asked /\ d = invocations + 1
               /\ script = "measuring" /\ status \in {"idle", "done"}
    PROVE  IInv'
<1>1. TypeOK'
  <2>1. results' \in Seq(Result) /\ Len(results') = 0 /\ Len(a.cases) \in Nat
    BY DEF Invoke, Arguments
  <2>2. \A i \in DOMAIN results' : results'[i].case = args'.cases[i]
    BY DEF Invoke
  <2> QED
    <3>1. /\ invocations' \in 0..MaxInvocations
          /\ issued' \in Nat /\ continued' \in 0..issued'
      BY EvaluationAssumption DEF IInv, TypeOK, ETypeOK, Invoke, NoId
    <3>2. Len(results') <= Len(args'.cases)
      BY <2>1 DEF Invoke
    <3> QED
      BY <2>1, <2>2, <3>1, <3>2 DEF IInv, TypeOK, ETypeOK, Invoke, bvars
<1>2. Open' /\ ContinuedIsFirst' /\ FirstSessionIsEchoed' /\ ReportsStand' /\ ResultsOnDisk'
  BY DEF Open, ContinuedIsFirst, FirstSessionIsEchoed, ReportsStand, ResultsOnDisk, Invoke
<1>3. ComparisonAgrees'
  BY AgreementKept DEF IInv, Invoke
<1>4. ScriptRuns'
  <2> SUFFICES ASSUME mode = "script" PROVE ScriptRuns'
    BY DEF ScriptRuns, bvars
  <2>1. summary = FALSE
    BY BaselineAssumption DEF IInv, TypeOK, ETypeOK, ScriptRuns, Invoke
  <2>2. ASSUME NEW e \in Dirs, e < invocations + 1 PROVE Complete(e)
    BY <2>2, BaselineAssumption DEF IInv, TypeOK, ETypeOK, ScriptRuns
  <2>3. \A e \in Dirs : Complete(e)' <=> Complete(e)
    BY DEF Complete, ReportsOf, Invoke, bvars
  <2> QED
    BY <2>1, <2>2, <2>3 DEF IInv, ScriptRuns, Invoke, bvars, Asked
<1> QED
  BY <1>1, <1>2, <1>3, <1>4 DEF IInv, HandKeepsScript, bvars

LEMMA RefuseKeeps ==
    ASSUME IInv, Refuse, UNCHANGED bvars,
           mode = "script" => script = "measuring" /\ status = "idle"
    PROVE  IInv'
<1>1. TypeOK'
  <2>1. invocations' \in 0..MaxInvocations
    BY EvaluationAssumption DEF IInv, TypeOK, ETypeOK, Refuse
  <2> QED
    BY <2>1 DEF IInv, TypeOK, ETypeOK, Refuse, bvars
<1>2. Open' /\ ContinuedIsFirst' /\ FirstSessionIsEchoed' /\ ReportsStand' /\ ResultsOnDisk'
  BY InvocationKept DEF IInv, NoWriteFailed, Open, Refuse
<1>3. ComparisonAgrees'
  BY AgreementKept DEF IInv, Refuse
<1>4. ScriptRuns'
  BY BaselineAssumption DEF IInv, TypeOK, ScriptRuns, Refuse, bvars
<1> QED
  BY <1>1, <1>2, <1>3, <1>4 DEF IInv, HandKeepsScript, bvars

---------------------------------------------------------------------------
(***************************************************************************)
(* The loop over the cases.                                                *)
(***************************************************************************)
LEMMA EvaluateCaseKeeps ==
    ASSUME IInv, NEW result \in {TriggerFailed} \cup Unanswered \cup Analysed,
           EvaluateCase(result), UNCHANGED bvars
    PROVE  IInv'
<1> DEFINE n == Len(results)
<1>1. /\ result \in Result
      /\ result.case = args.cases[n + 1]
      /\ result.scored => result.sent = continued
      /\ ~result.scored => result.sent = NoId /\ result.got = NoId
  BY ResultOfCurrent DEF IInv, EvaluateCase
<1>2. /\ n \in Nat /\ DOMAIN results = 1..n
      /\ results' \in Seq(Result) /\ DOMAIN results' = 1..(n + 1) /\ Len(results') = n + 1
      /\ results'[n + 1] = result
      /\ \A i \in 1..n : results'[i] = results[i] /\ results[i] \in Result
  BY <1>1 DEF IInv, TypeOK, ETypeOK, EvaluateCase
<1>3. result.got \in Nat /\ continued \in Nat /\ issued \in Nat
  BY <1>1 DEF IInv, TypeOK, ETypeOK, Result, Ids
<1> HIDE DEF n
<1>4. TypeOK'
  <2>1. Written(result) \in [Dirs -> SUBSET Result]
    BY <1>1 DEF IInv, TypeOK, ETypeOK, Written
  <2>2. continued' \in 0..issued' /\ issued' \in Nat
    BY <1>3 DEF IInv, TypeOK, ETypeOK, EvaluateCase, Adopt
  <2>3. Len(results') <= Len(args.cases)
    BY <1>2 DEF IInv, TypeOK, ETypeOK, Arguments, EvaluateCase, n
  <2>4. \A i \in DOMAIN results' : results'[i].case = args.cases[i]
    BY <1>1, <1>2 DEF IInv, TypeOK, ETypeOK
  <2> QED
    BY <1>2, <2>1, <2>2, <2>3, <2>4 DEF IInv, TypeOK, ETypeOK, EvaluateCase, bvars
<1>5. Open'
  BY DEF IInv, Open, EvaluateCase
<1>6. ContinuedIsFirst'
  <2>1. CASE ~args.continuing
    BY <2>1, <1>2 DEF IInv, ContinuedIsFirst, EvaluateCase, Adopt
  <2>2. CASE args.continuing /\ continued # NoId
    BY <2>2, <1>2 DEF IInv, ContinuedIsFirst, EvaluateCase, Adopt
  <2>3. CASE args.continuing /\ continued = NoId
    <3>1. continued' = result.got /\ \A i \in 1..n : results'[i].got = NoId
      BY <2>3, <1>2 DEF IInv, ContinuedIsFirst, EvaluateCase, Adopt
    <3> QED
      BY <2>3, <3>1, <1>2 DEF ContinuedIsFirst, EvaluateCase
  <2> QED
    BY <2>1, <2>2, <2>3
<1>7. FirstSessionIsEchoed'
  <2>1. \A i \in 1..(n + 1) : AnsweredBefore(i)' = AnsweredBefore(i)
    BY <1>2 DEF AnsweredBefore
  <2>2. ASSUME NEW i \in 1..n, results[i].scored
        PROVE  IF args.continuing /\ AnsweredBefore(i) # {}
               THEN \E j \in AnsweredBefore(i) : /\ \A k \in AnsweredBefore(i) : j <= k
                                                 /\ results'[i].sent = results'[j].got
               ELSE results'[i].sent = NoId
    <3>1. FirstSessionIsEchoed
      BY DEF IInv
    <3> QED
      BY <2>2, <3>1, <1>2 DEF FirstSessionIsEchoed, AnsweredBefore
  <2>3. ASSUME result.scored
        PROVE  IF args.continuing /\ AnsweredBefore(n + 1) # {}
               THEN \E j \in AnsweredBefore(n + 1) :
                        /\ \A k \in AnsweredBefore(n + 1) : j <= k
                        /\ result.sent = results'[j].got
               ELSE result.sent = NoId
    <3>1. result.sent = continued
      BY <1>1, <2>3
    <3>2. CASE continued = NoId
      BY <3>1, <3>2, <1>2 DEF IInv, ContinuedIsFirst, AnsweredBefore
    <3>3. CASE continued # NoId
      <4>1. PICK j \in 1..n : /\ results[j].got = continued
                              /\ \A k \in 1..(j - 1) : results[k].got = NoId
        BY <3>3, <1>2 DEF IInv, ContinuedIsFirst
      <4>2. j \in AnsweredBefore(n + 1) /\ results'[j].got = continued
        BY <4>1, <3>3, <1>2 DEF AnsweredBefore
      <4>3. ASSUME NEW k \in AnsweredBefore(n + 1) PROVE j <= k
        BY <4>1, <1>2 DEF AnsweredBefore
      <4>4. args.continuing
        BY <3>3 DEF IInv, ContinuedIsFirst
      <4> QED
        BY <3>1, <4>2, <4>3, <4>4
    <3> QED
      BY <3>2, <3>3
  <2>4. args' = args
    BY DEF EvaluateCase
  <2> QED
    BY <1>2, <2>1, <2>2, <2>3, <2>4 DEF FirstSessionIsEchoed
<1>8. /\ \A c : c # result.case => ReportsOf(dir, c)' = ReportsOf(dir, c)
      /\ ReportsOf(dir, result.case)' = {result}
      /\ \A d \in Dirs : d # dir => reports'[d] = reports[d]
      /\ reports'[dir] \subseteq reports[dir] \cup {result}
      /\ dir \in Dirs /\ dir' = dir
  BY DEF IInv, TypeOK, ETypeOK, EvaluateCase, Written, ReportsOf
<1>9. ReportsStand'
  <2>0. NoWriteFailed
    BY DEF NoWriteFailed, EvaluateCase
  <2>1. ASSUME NEW i \in 1..n, results[i].case # result.case
        PROVE  LastOfItsCase(i)' => LastOfItsCase(i)
    BY <2>1, <1>2 DEF LastOfItsCase
  <2>2. ASSUME NEW i \in 1..n, results[i].case = result.case
        PROVE  ~LastOfItsCase(i)'
    BY <2>2, <1>2 DEF LastOfItsCase
  <2>3. ASSUME NEW i \in 1..n
        PROVE  /\ ReportsOf(dir, results[i].case)' # {}
               /\ LastOfItsCase(i)' => ReportsOf(dir, results[i].case)' = {results'[i]}
    <3>1. /\ ReportsOf(dir, results[i].case) # {}
          /\ LastOfItsCase(i) => ReportsOf(dir, results[i].case) = {results[i]}
          /\ results'[i] = results[i]
      BY <1>2, <2>0 DEF IInv, ReportsStand
    <3>2. CASE results[i].case = result.case
      BY <3>1, <3>2, <2>2, <1>8
    <3>3. CASE results[i].case # result.case
      BY <3>1, <3>3, <2>1, <1>8
    <3> QED
      BY <3>2, <3>3
  <2>4. \A i \in 1..(n + 1) : i \in 1..n \/ i = n + 1
    BY <1>2
  <2> QED
    BY <1>2, <1>8, <2>3, <2>4 DEF ReportsStand
<1>10. ComparisonAgrees'
  <2>1. dir \in unfinished /\ unfinished' = unfinished /\ comparison' = comparison
    BY DEF IInv, Open, EvaluateCase
  <2>2. \A d \in Dirs \ unfinished : \A c : ReportsOf(d, c)' = ReportsOf(d, c)
    BY <1>8, <2>1 DEF ReportsOf
  <2> QED
    BY <2>1, <2>2 DEF IInv, ComparisonAgrees
<1>11. ScriptRuns'
  <2> SUFFICES ASSUME mode = "script" PROVE ScriptRuns'
    BY DEF ScriptRuns, bvars
  <2>1. status = "running" /\ dir = invocations /\ args = Asked /\ script = "measuring"
    BY DEF IInv, ScriptRuns, EvaluateCase
  <2>2. result.sent = NoId
    BY <2>1, <1>1 DEF IInv, ContinuedIsFirst, Asked
  <2>3. ASSUME NEW d \in Dirs, d < invocations PROVE Complete(d)'
    <3>1. Complete(d)
      BY <2>3 DEF IInv, ScriptRuns
    <3>2. d # dir
      BY <2>1, <2>3 DEF IInv, TypeOK, ETypeOK
    <3>3. reports'[d] = reports[d] /\ comparison' = comparison /\ list' = list
      BY <1>8, <3>2 DEF EvaluateCase, bvars
    <3> QED
      BY <3>1, <3>3 DEF Complete, ReportsOf
  <2>4. \A d \in Dirs : \A r \in reports'[d] : r.sent = NoId
    BY <1>8, <2>2 DEF IInv, ScriptRuns
  <2> QED
    BY <2>1, <2>3, <2>4 DEF IInv, ScriptRuns, Asked, EvaluateCase, bvars
<1>12. ResultsOnDisk'
  <2>1. NoWriteFailed'
    BY DEF NoWriteFailed, EvaluateCase
  <2> QED
    BY <1>4, <1>9, <2>1, StandingIsOnDiskNext
<1> QED
  BY <1>4, <1>5, <1>6, <1>7, <1>9, <1>10, <1>11, <1>12 DEF IInv, HandKeepsScript, bvars

LEMMA CaseRaisesKeeps ==
    ASSUME IInv, CaseRaises \/ ReportRaises, UNCHANGED bvars
    PROVE  IInv'
<1>1. /\ reports' \in [Dirs -> SUBSET Result]
      /\ \A d \in Dirs : reports'[d] \subseteq reports[d] /\ (d # dir => reports'[d] = reports[d])
      /\ \A c : c # Current => ReportsOf(dir, c)' = ReportsOf(dir, c)
      /\ dir \in Dirs /\ dir' = dir /\ dir \in unfinished
  <2>1. reports \in [Dirs -> SUBSET Result] /\ dir \in Dirs /\ dir' = dir /\ dir \in unfinished
    BY DEF IInv, Open, TypeOK, ETypeOK, CaseRaises, ReportRaises
  <2>2. CASE reports' = reports
    BY <2>1, <2>2 DEF ReportsOf
  <2>3. CASE reports' = [reports EXCEPT ![dir] = {r \in @ : r.case # Current}]
    BY <2>1, <2>3 DEF ReportsOf
  <2> QED
    BY <2>2, <2>3 DEF CaseRaises, ReportRaises
<1>2. TypeOK'
  <2>1. issued' \in Nat /\ continued' \in 0..issued'
    BY DEF IInv, TypeOK, ETypeOK, CaseRaises, ReportRaises
  <2> QED
    BY <1>1, <2>1 DEF IInv, TypeOK, ETypeOK, CaseRaises, ReportRaises, bvars
<1>3. Open' /\ ContinuedIsFirst' /\ FirstSessionIsEchoed' /\ ReportsStand'
  <2>1. UNCHANGED <<args, dir, results, continued, unfinished>> /\ status' = "died"
    BY DEF CaseRaises, ReportRaises
  <2>2. Open' /\ ContinuedIsFirst'
    BY <2>1 DEF IInv, Open, ContinuedIsFirst
  <2>3. FirstSessionIsEchoed'
    BY <2>1 DEF IInv, FirstSessionIsEchoed, AnsweredBefore
  <2>4. ReportsStand'
    BY <2>1 DEF ReportsStand, NoWriteFailed
  <2> QED
    BY <2>2, <2>3, <2>4
<1>4. ResultsOnDisk'
  <2>1. UNCHANGED <<args, dir, results>>
    BY DEF CaseRaises, ReportRaises
  <2>2. ASSUME NEW i \in DOMAIN results, ~ NamedAgain(i)
        PROVE  ReportsOf(dir, results[i].case)' = {results[i]}
    <3>1. ReportsOf(dir, results[i].case) = {results[i]}
      BY <2>2 DEF IInv, ResultsOnDisk
    <3>2. results[i].case # Current
      <4>1. /\ Len(results) \in Nat /\ DOMAIN results = 1..Len(results)
            /\ Len(args.cases) \in Nat /\ DOMAIN args.cases = 1..Len(args.cases)
            /\ results[i].case = args.cases[i]
        BY DEF IInv, TypeOK, ETypeOK, Arguments
      <4>2. Len(results) + 1 \in DOMAIN args.cases /\ Len(results) + 1 > i
        BY <4>1 DEF CaseRaises, ReportRaises
      <4> QED
        BY <2>2, <4>1, <4>2 DEF NamedAgain, Current
    <3> QED
      BY <1>1, <2>1, <3>1, <3>2
  <2> QED
    BY <2>1, <2>2 DEF ResultsOnDisk, NamedAgain
<1>5. ComparisonAgrees'
  <2>1. unfinished' = unfinished /\ comparison' = comparison
    BY DEF CaseRaises, ReportRaises
  <2>2. \A d \in Dirs \ unfinished : \A c : ReportsOf(d, c)' = ReportsOf(d, c)
    BY <1>1 DEF ReportsOf
  <2> QED
    BY <2>1, <2>2 DEF IInv, ComparisonAgrees
<1>6. ScriptRuns'
  <2> SUFFICES ASSUME mode = "script" PROVE ScriptRuns'
    BY DEF ScriptRuns, bvars
  <2>1. status = "running" /\ dir = invocations /\ script = "measuring"
    BY DEF IInv, ScriptRuns, CaseRaises, ReportRaises
  <2>2. ASSUME NEW d \in Dirs, d < invocations PROVE Complete(d)'
    <3>1. Complete(d)
      BY <2>2 DEF IInv, ScriptRuns
    <3>2. d # dir
      BY <2>1, <2>2 DEF IInv, TypeOK, ETypeOK
    <3>3. reports'[d] = reports[d] /\ comparison' = comparison /\ list' = list
      BY <1>1, <3>2 DEF CaseRaises, ReportRaises, bvars
    <3> QED
      BY <3>1, <3>3 DEF Complete, ReportsOf
  <2>3. \A d \in Dirs : \A r \in reports'[d] : r.sent = NoId
    BY <1>1 DEF IInv, ScriptRuns
  <2> QED
    BY <2>1, <2>2, <2>3 DEF IInv, ScriptRuns, CaseRaises, ReportRaises, bvars
<1> QED
  BY <1>2, <1>3, <1>4, <1>5, <1>6 DEF IInv, HandKeepsScript, bvars

LEMMA TableRaisesKeeps ==
    ASSUME IInv, TableRaises, UNCHANGED bvars
    PROVE  IInv'
<1>1. /\ comparison' \in [Dirs -> Seq([case : Cases, scored : BOOLEAN, axes : 0..4])]
      /\ \A d \in Dirs : d # dir => comparison'[d] = comparison[d]
      /\ dir \in unfinished
  <2>1. /\ comparison \in [Dirs -> Seq([case : Cases, scored : BOOLEAN, axes : 0..4])]
        /\ dir \in unfinished
    BY DEF IInv, Open, TypeOK, ETypeOK, TableRaises
  <2>2. CASE comparison' = comparison
    BY <2>1, <2>2
  <2>3. CASE comparison' = [comparison EXCEPT ![dir] = NoComparison]
    <3>1. NoComparison \in Seq([case : Cases, scored : BOOLEAN, axes : 0..4])
      BY DEF NoComparison
    <3> QED
      BY <2>1, <2>3, <3>1
  <2> QED
    BY <2>2, <2>3 DEF TableRaises
<1>2. TypeOK'
  BY <1>1 DEF IInv, TypeOK, ETypeOK, TableRaises, bvars
<1>3. Open' /\ ContinuedIsFirst' /\ FirstSessionIsEchoed' /\ ReportsStand' /\ ResultsOnDisk'
  BY InvocationKept DEF IInv, NoWriteFailed, Open, TableRaises
<1>4. ComparisonAgrees'
  <2>1. ASSUME NEW d \in Dirs \ unfinished' PROVE Agrees(d)'
    <3>1. Agrees(d) /\ d # dir
      BY <1>1, <2>1, AgreesEverywhere DEF IInv, TableRaises
    <3> QED
      BY <1>1, <3>1, AgreesKept DEF TableRaises
  <2> QED
    BY <2>1, AgreesEverywherePrimed
<1>5. ScriptRuns'
  <2> SUFFICES ASSUME mode = "script" PROVE ScriptRuns'
    BY DEF ScriptRuns, bvars
  <2>1. status = "running" /\ dir = invocations /\ script = "measuring"
    BY DEF IInv, ScriptRuns, TableRaises
  <2>2. ASSUME NEW d \in Dirs, d < invocations PROVE Complete(d)'
    <3>1. Complete(d)
      BY <2>2 DEF IInv, ScriptRuns
    <3>2. d # dir
      BY <2>1, <2>2 DEF IInv, TypeOK, ETypeOK
    <3>3. comparison'[d] = comparison[d] /\ reports' = reports /\ list' = list
      BY <1>1, <3>2 DEF TableRaises, bvars
    <3> QED
      BY <3>1, <3>3 DEF Complete, ReportsOf
  <2> QED
    BY <2>1, <2>2 DEF IInv, ScriptRuns, TableRaises, bvars
<1> QED
  BY <1>2, <1>3, <1>4, <1>5 DEF IInv, HandKeepsScript, bvars

LEMMA FinishKeeps ==
    ASSUME IInv, Finish, UNCHANGED bvars
    PROVE  IInv'
<1>1. /\ DOMAIN Rows(results) = DOMAIN results /\ Len(Rows(results)) = Len(results)
      /\ Rows(results) \in Seq([case : Cases, scored : BOOLEAN, axes : 0..4])
      /\ \A i \in DOMAIN results : Rows(results)[i] = Row(results[i])
      /\ \A i \in DOMAIN results : Rows(results)[i].case = results[i].case
  <2>1. /\ Len(results) \in Nat /\ DOMAIN results = 1..Len(results)
        /\ \A i \in DOMAIN results : results[i] \in Result
    BY DEF IInv, TypeOK, ETypeOK
  <2>2. \A r \in Result : Row(r) \in [case : Cases, scored : BOOLEAN, axes : 0..4]
                           /\ Row(r).case = r.case
    BY DEF Row, Result
  <2>3. /\ DOMAIN Rows(results) = DOMAIN results
        /\ \A i \in DOMAIN results : Rows(results)[i] = Row(results[i])
    BY DEF Rows
  <2>4. Rows(results) \in [1..Len(results) -> [case : Cases, scored : BOOLEAN, axes : 0..4]]
    BY <2>1, <2>2 DEF Rows
  <2>5. /\ Rows(results) \in Seq([case : Cases, scored : BOOLEAN, axes : 0..4])
        /\ Len(Rows(results)) = Len(results)
    <3> DEFINE S == [case : Cases, scored : BOOLEAN, axes : 0..4]
               n == Len(results)
               rows == Rows(results)
    <3>1. n \in Nat /\ rows \in [1..n -> S] /\ DOMAIN rows = 1..n
      BY <2>1, <2>3, <2>4
    <3> HIDE DEF S, n, rows
    <3>2. rows \in Seq(S)
      BY <3>1
    <3>3. Len(rows) = n
      BY <3>1, <3>2, LenProperties
    <3> QED
      BY <3>2, <3>3 DEF S, n, rows
  <2> QED
    BY <2>1, <2>2, <2>3, <2>5
<1>2. /\ dir \in Dirs /\ comparison'[dir] = Rows(results)
      /\ \A d \in Dirs : d # dir => comparison'[d] = comparison[d]
      /\ comparison' \in [Dirs -> Seq([case : Cases, scored : BOOLEAN, axes : 0..4])]
      /\ \A d, c : ReportsOf(d, c)' = ReportsOf(d, c)
  BY <1>1 DEF IInv, TypeOK, ETypeOK, Finish, ReportsOf
<1>3. TypeOK'
  BY <1>2 DEF IInv, TypeOK, ETypeOK, Finish, bvars
<1>4. Open' /\ ContinuedIsFirst' /\ FirstSessionIsEchoed' /\ ReportsStand' /\ ResultsOnDisk'
  BY InvocationKept DEF IInv, NoWriteFailed, Open, Finish
<1>5. ComparisonAgrees'
  <2>1. ASSUME NEW i \in DOMAIN results,
               \A j \in DOMAIN results : j > i => Row(results[j]).case # Row(results[i]).case
        PROVE  {Row(r) : r \in ReportsOf(dir, Row(results[i]).case)} = {Row(results[i])}
    <3>1. \A j \in DOMAIN results : Row(results[j]).case = results[j].case
      BY DEF Row
    <3>2. LastOfItsCase(i)
      BY <2>1, <3>1 DEF LastOfItsCase
    <3>3. ReportsOf(dir, results[i].case) = {results[i]}
      BY <3>2 DEF IInv, NoWriteFailed, ReportsStand, Finish
    <3> QED
      BY <3>1, <3>3
  <2>2. Agrees(dir)'
    <3>1. dir' = dir
      BY DEF Finish
    <3>2. /\ comparison'[dir'] = Rows(results) /\ DOMAIN comparison'[dir'] = DOMAIN results
          /\ \A i \in DOMAIN results : comparison'[dir'][i] = Row(results[i])
          /\ \A c : ReportsOf(dir, c)' = ReportsOf(dir, c)
      BY <3>1, <1>1, <1>2
    <3> QED
      BY <2>1, <3>1, <3>2 DEF Agrees
  <2>3. ASSUME NEW d \in Dirs \ unfinished', d # dir PROVE Agrees(d)'
    <3>1. Agrees(d)
      BY <2>3, AgreesEverywhere DEF IInv, Finish
    <3> QED
      BY <3>1, <2>3, <1>2, AgreesKept DEF Finish
  <2>4. dir' = dir
    BY DEF Finish
  <2> QED
    BY <2>2, <2>3, <2>4, AgreesEverywherePrimed
<1>6. ScriptRuns'
  <2> SUFFICES ASSUME mode = "script" PROVE ScriptRuns'
    BY DEF ScriptRuns, bvars
  <2>1. status = "running" /\ dir = invocations /\ args = Asked /\ script = "measuring"
    BY DEF IInv, ScriptRuns, Finish
  <2>2. Complete(dir)'
    <3>1. /\ Len(results) = Len(list) /\ DOMAIN results = DOMAIN list
          /\ \A i \in DOMAIN list : results[i].case = list[i]
      <4>1. args.cases = list /\ Len(results) = Len(list)
        BY <2>1 DEF Asked, Finish
      <4>2. DOMAIN results = 1..Len(results) /\ DOMAIN list = 1..Len(list)
        BY BaselineAssumption DEF IInv, TypeOK, ETypeOK
      <4> QED
        BY <4>1, <4>2 DEF IInv, TypeOK, ETypeOK
    <3>2. \A i \in DOMAIN list : ReportsOf(dir, list[i]) # {}
      BY <2>1, <3>1 DEF IInv, NoWriteFailed, ReportsStand
    <3> QED
      BY <3>1, <3>2, <1>1, <1>2 DEF Complete, Finish, bvars
  <2>3. ASSUME NEW d \in Dirs, d < invocations PROVE Complete(d)'
    <3>1. d # dir /\ Complete(d)
      BY <2>1, <2>3, BaselineAssumption DEF IInv, TypeOK, ETypeOK, ScriptRuns
    <3> QED
      BY <3>1, <1>2 DEF Complete, bvars
  <2> QED
    BY <2>1, <2>2, <2>3 DEF IInv, ScriptRuns, Finish, bvars
<1> QED
  BY <1>3, <1>4, <1>5, <1>6 DEF IInv, HandKeepsScript, bvars

---------------------------------------------------------------------------
\* The steps of the script around its runs change nothing of evaluate.py.
LEMMA ScriptGoesOn ==
    ASSUME IInv, UNCHANGED <<evars, mode, list>>,
           script' \in {"checking", "ended"}, summary' \in BOOLEAN, status # "running",
           mode = "script",
           script' = "checking" \/ summary' =>
               status = "done" /\ invocations = N
    PROVE  IInv'
<1>1. TypeOK'
  BY DEF IInv, TypeOK, ETypeOK, evars
<1>2. Open' /\ ContinuedIsFirst' /\ FirstSessionIsEchoed' /\ ReportsStand' /\ ResultsOnDisk'
  BY InvocationKept DEF IInv, NoWriteFailed, Open, evars
<1>3. ComparisonAgrees'
  BY AgreementKept DEF IInv, evars
<1>4. ScriptRuns'
  BY DEF IInv, ScriptRuns, Complete, ReportsOf, evars, Asked
<1> QED
  BY <1>1, <1>2, <1>3, <1>4 DEF IInv, HandKeepsScript, bvars

LEMMA NextIInv == IInv /\ [Next]_vars => IInv'
<1> SUFFICES ASSUME IInv, [Next]_vars PROVE IInv'
  OBVIOUS
<1>1. CASE ByHand
  BY <1>1, InvokeKeeps, RefuseKeeps, BaselineAssumption DEF ByHand
<1>2. CASE Working
  BY <1>2, EvaluateCaseKeeps, CaseRaisesKeeps, TableRaisesKeeps, FinishKeeps
     DEF Working, Work
<1>3. CASE NextRun
  <2>1. Asked \in Arguments /\ invocations + 1 \in Dirs
    BY <1>3, BaselineAssumption DEF IInv, TypeOK, ETypeOK, NextRun, Asked, Arguments
  <2> QED
    BY <1>3, <2>1, InvokeKeeps DEF NextRun, Asked
<1>4. CASE RunRefused
  BY <1>4, RefuseKeeps DEF RunRefused
<1>5. CASE RunFailed
  <2>1. summary = FALSE
    BY <1>5 DEF IInv, TypeOK, ScriptRuns, RunFailed
  <2> QED
    BY <1>5, <2>1, ScriptGoesOn DEF RunFailed
<1>6. CASE Measured
  BY <1>6, ScriptGoesOn DEF IInv, TypeOK, Measured
<1>7. CASE Summarise \/ CheckFails
  <2>1. script = "checking" /\ script' = "ended" /\ summary' \in BOOLEAN
        /\ UNCHANGED <<evars, mode, list>>
    BY <1>7 DEF IInv, TypeOK, Summarise, CheckFails
  <2>2. mode = "script"
    BY <2>1 DEF IInv, TypeOK, HandKeepsScript
  <2>3. status = "done" /\ invocations = N
    BY <2>1, <2>2 DEF IInv, ScriptRuns
  <2> QED
    BY <2>1, <2>2, <2>3, ScriptGoesOn
<1>8. CASE UNCHANGED vars
  <2>1. TypeOK'
    BY <1>8 DEF IInv, TypeOK, ETypeOK, vars, evars, bvars
  <2>2. Open' /\ ContinuedIsFirst' /\ FirstSessionIsEchoed' /\ ReportsStand' /\ ResultsOnDisk'
    BY <1>8, InvocationKept DEF IInv, NoWriteFailed, Open, vars, evars
  <2>3. ComparisonAgrees'
    BY <1>8, AgreementKept DEF IInv, vars, evars
  <2>4. ScriptRuns' /\ HandKeepsScript'
    BY <1>8 DEF IInv, ScriptRuns, HandKeepsScript, Complete, ReportsOf, Asked, vars, evars, bvars
  <2> QED
    BY <2>1, <2>2, <2>3, <2>4 DEF IInv
<1> QED
  BY <1>1, <1>2, <1>3, <1>4, <1>5, <1>6, <1>7, <1>8 DEF Next, ScriptStep, Over

---------------------------------------------------------------------------
THEOREM Inductive == Spec => []IInv
BY InitIInv, NextIInv, PTL DEF Spec

(***************************************************************************)
(* Type correctness: the variables of evaluate.py and of the script.       *)
(***************************************************************************)
THEOREM TypeCorrect == Spec => []TypeOK
BY Inductive, PTL DEF IInv

(***************************************************************************)
(* Every case is asked in the session of the first case that was answered  *)
(* (evaluate.py, --continue-session), whatever the list, the failures and  *)
(* the ids the backend hands out.                                          *)
(***************************************************************************)
THEOREM SessionIsEchoed == Spec => []FirstSessionIsEchoed
BY Inductive, PTL DEF IInv

(***************************************************************************)
(* The table of a finished invocation is that of the reports beside it     *)
(* (write_report, write_comparison), however many wrote there before.      *)
(***************************************************************************)
THEOREM TableIsOfReports == Spec => []ComparisonAgrees
BY Inductive, PTL DEF IInv

(***************************************************************************)
(* However an invocation ends, what it measured is on disk, of every case  *)
(* that is not named again (write_report in the loop over the cases).      *)
(***************************************************************************)
THEOREM MeasuredIsOnDisk == Spec => []ResultsOnDisk
BY Inductive, PTL DEF IInv

(***************************************************************************)
(* run-onprem-baseline.sh checks complete measurements only, for every     *)
(* number of runs.                                                         *)
(***************************************************************************)
THEOREM OnlyCompleteIsChecked == Spec => []CheckedRunsAreComplete
<1>1. IInv => CheckedRunsAreComplete
  <2> SUFFICES ASSUME IInv, mode = "script", script = "checking" \/ summary, NEW d \in Dirs
               PROVE  /\ Len(comparison[d]) = Len(list)
                      /\ \A i \in DOMAIN list :
                             /\ comparison[d][i].case = list[i]
                             /\ ReportsOf(d, list[i]) # {}
                             /\ \A r \in ReportsOf(d, list[i]) : r.sent = NoId
    BY DEF CheckedRunsAreComplete
  <2>1. Complete(d)
    BY BaselineAssumption DEF IInv, ScriptRuns
  <2>2. \A r \in reports[d] : r.sent = NoId
    BY DEF IInv, ScriptRuns
  <2> QED
    BY <2>1, <2>2 DEF Complete, ReportsOf
<1> QED
  BY <1>1, Inductive, PTL

---------------------------------------------------------------------------
\* The script starts no more than its N runs.
WithinRuns == mode = "script" => invocations <= N

LEMMA RunsAreCounted == Spec => []WithinRuns
<1>1. Init => WithinRuns
  BY BaselineAssumption DEF Init, EInit, WithinRuns
<1>2. IInv /\ WithinRuns /\ [Next]_vars => WithinRuns'
  <2> SUFFICES ASSUME IInv, WithinRuns, [Next]_vars, mode' = "script"
               PROVE  invocations' <= N
    BY DEF WithinRuns
  <2>1. invocations \in Nat /\ N \in Nat \ {0}
    BY BaselineAssumption, EvaluationAssumption DEF IInv, TypeOK, ETypeOK
  <2>2. CASE ByHand
    BY <2>2 DEF ByHand, bvars
  <2>3. CASE NextRun
    BY <2>1, <2>3 DEF NextRun, Invoke
  <2>4. CASE RunRefused
    BY <2>1, <2>4 DEF RunRefused, Refuse, IInv, ScriptRuns
  <2>5. CASE Working \/ RunFailed \/ Measured \/ Summarise \/ CheckFails \/ UNCHANGED vars
    <3>1. UNCHANGED <<mode, invocations>>
      BY <2>5 DEF Working, Work, EvaluateCase, CaseRaises, ReportRaises, TableRaises,
                  Finish, RunFailed, Measured, Summarise, CheckFails, evars, bvars, vars
    <3> QED
      BY <3>1 DEF WithinRuns
  <2> QED
    BY <2>2, <2>3, <2>4, <2>5 DEF Next, ScriptStep, Over
<1> QED
  BY <1>1, <1>2, Inductive, PTL DEF Spec

\* ScriptLeft, by what the script is at.
ScriptLeftIs ==
    /\ script = "measuring" => ScriptLeft = 2 + (N - invocations)
    /\ script = "checking" => ScriptLeft = 1 + (N - invocations)
    /\ script = "ended" => ScriptLeft = 0 + (N - invocations)

LEMMA ScriptLeftAt == ScriptLeftIs
BY DEF ScriptLeftIs, ScriptLeft

LEMMA ScriptLeftNext == ScriptLeftIs'
BY ScriptLeftAt, PTL

(***************************************************************************)
(* No case is taken twice by an invocation, and no run by the script,      *)
(* whatever fails (evaluate.py, the loop over the cases; the for statement *)
(* of run-onprem-baseline.sh under set -e).                                *)
(***************************************************************************)
THEOREM EachIsTakenOnce == Spec => NothingIsRepeated
<1> DEFINE Shorter ==
        IF status = "running"
        THEN /\ UNCHANGED <<script, invocations>>
             /\ status' # "running" \/ CasesLeft' < CasesLeft
        ELSE mode = "script" => ScriptLeft' \in 0..(ScriptLeft - 1)
<1>1. IInv /\ WithinRuns /\ WithinRuns' /\ [Next]_vars => [Shorter]_vars
  <2> SUFFICES ASSUME IInv, WithinRuns, WithinRuns', Next, vars' # vars PROVE Shorter
    OBVIOUS
  <2>1. /\ invocations \in Nat /\ N \in Nat /\ Len(results) \in Nat /\ Len(args.cases) \in Nat
        /\ results \in Seq(Result)
    BY BaselineAssumption, EvaluationAssumption
       DEF IInv, TypeOK, ETypeOK, Arguments
  <2>2. ScriptLeftIs /\ ScriptLeftIs'
    BY ScriptLeftAt, ScriptLeftNext
  <2>3. CASE Working
    <3>1. status = "running" /\ UNCHANGED script
      BY <2>3 DEF Working, Work, CaseRaises, ReportRaises, TableRaises, Finish, bvars
    <3>2. ASSUME NEW result, EvaluateCase(result) PROVE Shorter
      <4>1. Len(results') = Len(results) + 1 /\ UNCHANGED <<args, invocations>>
        BY <2>1, <3>2 DEF EvaluateCase
      <4> QED
        BY <2>1, <3>1, <4>1 DEF CasesLeft
    <3>3. CASE CaseRaises \/ ReportRaises \/ TableRaises \/ Finish
      BY <3>1, <3>3 DEF CaseRaises, ReportRaises, TableRaises, Finish
    <3> QED
      BY <2>3, <3>2, <3>3 DEF Working, Work
  <2>4. CASE ByHand
    BY <2>4 DEF ByHand, Refuse, Invoke
  <2>5. CASE NextRun \/ RunRefused
    <3>1. /\ script = "measuring" /\ script' = "measuring" /\ status # "running"
          /\ mode' = mode /\ invocations' = invocations + 1
      BY <2>5 DEF NextRun, RunRefused, Invoke, Refuse, bvars
    <3> QED
      BY <2>1, <2>2, <3>1 DEF ScriptLeftIs, WithinRuns
  <2>6. CASE RunFailed \/ Measured
    <3>1. /\ script = "measuring" /\ script' \in {"checking", "ended"} /\ status # "running"
          /\ invocations' = invocations
      BY <2>6 DEF RunFailed, Measured, evars
    <3> QED
      BY <2>1, <2>2, <3>1 DEF ScriptLeftIs, WithinRuns
  <2>7. CASE Summarise \/ CheckFails
    <3>1. script = "checking" /\ script' = "ended" /\ invocations' = invocations
      BY <2>7 DEF Summarise, CheckFails, evars
    <3>2. mode = "script" /\ status # "running"
      BY <3>1 DEF IInv, TypeOK, HandKeepsScript, ScriptRuns
    <3> QED
      BY <2>1, <2>2, <3>1, <3>2 DEF ScriptLeftIs, WithinRuns
  <2> QED
    BY <2>3, <2>4, <2>5, <2>6, <2>7 DEF Next, ScriptStep, Over
<1> QED
  BY <1>1, Inductive, RunsAreCounted, PTL DEF Spec, NothingIsRepeated
=============================================================================
