----------------------------- MODULE MCBaseline -----------------------------
(***************************************************************************)
(* Baseline for TLC: two runs of the script, and two invocations by hand   *)
(* that may share a directory, name a case twice, or ask a judge.          *)
(***************************************************************************)
EXTENDS Baseline

CONSTANTS e1, e2

MCCases == {e1, e2}
MCDirs == 1..N

MCHandArguments ==
    {[cases |-> <<e1, e2, e1>>, judged |-> FALSE, continuing |-> TRUE],
     [cases |-> <<e2>>, judged |-> TRUE, continuing |-> FALSE]}

MCScriptCases == {<<e1, e2>>, <<e2>>}
=============================================================================
