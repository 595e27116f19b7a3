------------------------- MODULE MCAnalyzeEndpoint -------------------------
(***************************************************************************)
(* AnalyzeEndpoint for TLC. A client needs one answer to learn its session *)
(* and two more requests to overlap in it; an impatient client leaves      *)
(* requests behind beside one that waits; two that wait ask twice each.    *)
(***************************************************************************)
EXTENDS AnalyzeEndpoint

CONSTANTS c1, c2

MCClients == {c1, c2}

Asks(first, second) == [c \in MCClients |-> IF c = c1 THEN first ELSE second]

Overlapping == [asks |-> Asks(3, 0), impatient |-> {c1}]
Mixed == [asks |-> Asks(2, 1), impatient |-> {c1}]
Patient == [asks |-> Asks(2, 2), impatient |-> {}]

AllWorkloads == {Overlapping, Mixed, Patient}
OverlappingWorkload == {Overlapping}
PatientWorkload == {Patient}
=============================================================================
