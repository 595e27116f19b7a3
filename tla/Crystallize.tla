---------------------------- MODULE Crystallize ----------------------------
(***************************************************************************)
(* The LLM exchanges of the node crystallize_report (agent/core.py): up to *)
(* two attempts to get the answer of the run restated as JSON, the second  *)
(* with a corrective prompt; a model that refuses response_format is asked *)
(* again without it. Each attempt is one or two calls of gateway.complete. *)
(***************************************************************************)
EXTENDS Integers, Sequences

CONSTANT EmptyChoices   \* whether the gateway may return a response without choices:
                        \* LLMGateway.complete never does (it indexes choices[0]),
                        \* one substituted for it through get_gateway may

ASSUME EmptyChoicesAssumption == EmptyChoices \in BOOLEAN

VARIABLES
    cphase,        \* "call": next comes the attempt's call; "inner": its prompt-only
                   \* repetition; "done": the loop has ended; "raised": it raised
    attempt,       \* _attempt
    formatOk,      \* _response_format_supported
    parsed,        \* the parsed JSON answer, or Unparsed
    exchanges      \* history: every gateway.complete of the node and how it ended

cvars == <<cphase, attempt, formatOk, parsed, exchanges>>

Attempts == 0..1

(***************************************************************************)
(* A parsed answer, by what the extraction of the fields tells apart:      *)
(* whether location is a dict that makes a Location (line an integer >= 1) *)
(***************************************************************************)
JsonAnswer == [json : {TRUE}, located : BOOLEAN]
Unparsed == [json |-> FALSE, located |-> FALSE]

(***************************************************************************)
(* How a call ends. "json": a JSON object; "prose": content that is not    *)
(* one; "nochoice": no choices; "format": a bad-request or                 *)
(* unsupported-parameter error that names response_format, which is        *)
(* possible only for a call that sent it; "rejected": another bad request; *)
(* "failed": any other exception.                                          *)
(***************************************************************************)
Outcomes == {"json", "prose", "nochoice", "format", "rejected", "failed"}

\* Content that is not a JSON object, or no choices at all.
Unusable == {"prose"} \cup (IF EmptyChoices THEN {"nochoice"} ELSE {})

Exchange == [corrective : BOOLEAN, format : BOOLEAN, outcome : Outcomes]

CTypeOK ==
    /\ cphase \in {"call", "inner", "done", "raised"}
    /\ attempt \in Attempts
    /\ formatOk \in BOOLEAN
    /\ parsed \in JsonAnswer \cup {Unparsed}
    /\ exchanges \in Seq(Exchange)

CInit ==
    /\ cphase = "call"
    /\ attempt = 0
    /\ formatOk = TRUE
    /\ parsed = Unparsed
    /\ exchanges = <<>>

\* A further run of the node starts with locals of its own.
CReset ==
    /\ cphase' = "call"
    /\ attempt' = 0
    /\ formatOk' = TRUE
    /\ parsed' = Unparsed
    /\ exchanges' = <<>>

Asked(format, outcome) ==
    exchanges' = Append(exchanges, [corrective |-> attempt > 0, format |-> format,
                                    outcome |-> outcome])

\* The for statement: the next attempt, or out of the loop after the second.
NextAttempt ==
    IF attempt + 1 \in Attempts
    THEN cphase' = "call" /\ attempt' = attempt + 1
    ELSE cphase' = "done" /\ UNCHANGED attempt

---------------------------------------------------------------------------
(* The attempt's call, in the try statement.                               *)

\* Slip: no break.
AnswerJsonGoesOn(answer) ==
    /\ cphase = "call"
    /\ Asked(formatOk, "json")
    /\ parsed' = answer
    /\ NextAttempt
    /\ UNCHANGED formatOk

\* The answer is a JSON object: break.
AnswerJson(answer) ==
    /\ cphase = "call"
    /\ Asked(formatOk, "json")
    /\ parsed' = answer
    /\ cphase' = "done"
    /\ UNCHANGED <<attempt, formatOk>>

\* The answer has no choices, or is not a JSON object.
AnswerUnusable(outcome) ==
    /\ cphase = "call"
    /\ Asked(formatOk, outcome)
    /\ NextAttempt
    /\ UNCHANGED <<formatOk, parsed>>

\* Slip: the flag is not cleared.
RefuseFormatForgetting ==
    /\ cphase = "call"
    /\ formatOk
    /\ Asked(TRUE, "format")
    /\ cphase' = "inner"
    /\ UNCHANGED <<attempt, formatOk, parsed>>

\* The model does not support response_format: ask again at once, without it.
RefuseFormat ==
    /\ cphase = "call"
    /\ formatOk
    /\ Asked(TRUE, "format")
    /\ formatOk' = FALSE
    /\ cphase' = "inner"
    /\ UNCHANGED <<attempt, parsed>>

\* Another bad request is raised out of the node.
Reject ==
    /\ cphase = "call"
    /\ Asked(formatOk, "rejected")
    /\ cphase' = "raised"
    /\ UNCHANGED <<attempt, formatOk, parsed>>

\* Any other exception: break, with nothing parsed.
Fail ==
    /\ cphase = "call"
    /\ Asked(formatOk, "failed")
    /\ cphase' = "done"
    /\ UNCHANGED <<attempt, formatOk, parsed>>

---------------------------------------------------------------------------
(* The prompt-only repetition, in the except clause.                       *)

(***************************************************************************)
(* It is answered. Parsing stands in the else clause of the try statement, *)
(* which is not run once an except clause has been: the answer is dropped. *)
(***************************************************************************)
InnerAnswered(outcome) ==
    /\ cphase = "inner"
    /\ Asked(FALSE, outcome)
    /\ NextAttempt
    /\ UNCHANGED <<formatOk, parsed>>

\* It raises, a bad request included: break.
InnerFail(outcome) ==
    /\ cphase = "inner"
    /\ Asked(FALSE, outcome)
    /\ cphase' = "done"
    /\ UNCHANGED <<attempt, formatOk, parsed>>

CNext ==
    \/ \E answer \in JsonAnswer : AnswerJson(answer)
    \/ \E outcome \in Unusable : AnswerUnusable(outcome)
    \/ RefuseFormat
    \/ Reject
    \/ Fail
    \/ \E outcome \in {"json"} \cup Unusable : InnerAnswered(outcome)
    \/ \E outcome \in {"rejected", "failed"} : InnerFail(outcome)
============================================================================
