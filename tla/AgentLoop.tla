----------------------------- MODULE AgentLoop -----------------------------
(***************************************************************************)
(* One run of the agent (agent/core.py, run_agent): the LangGraph graph    *)
(*                                                                         *)
(*   intake -> llm_call -> execute_tools -> llm_call -> ...                *)
(*                      \> crystallize_report -> finalize -> END           *)
(*                                                                         *)
(* over the conversation it was called with. The LLM and the tools are     *)
(* nondeterministic; either may raise, which ends the run with nothing     *)
(* returned.                                                               *)
(***************************************************************************)
EXTENDS Conversation, Crystallize

CONSTANTS
    MaxIters,      \* max_iters of the run
    ContextLimit,  \* MACRO_LOGBOT_MODEL_CONTEXT_LIMIT
    Inputs,        \* the conversations a run may be called with
    Replies,       \* the replies the gateway may return, as [calls, text, used]
    ToolSizes      \* the sizes a tool's answer may have

ASSUME LoopAssumption ==
    /\ MaxIters \in Nat
    /\ ContextLimit \in Int
    /\ \A reply \in Replies : IsReply(reply)
    /\ ToolSizes \subseteq Nat

\* The conversations are well formed: the loop can keep the pairing, not create it.
ASSUME InputsAssumption == \A ms \in Inputs : ms \in Seq(Message) /\ Paired(ms)

VARIABLES
    node,       \* the graph's next node; "end" and "aborted" are its ends
    messages,   \* state["messages"]
    iteration,  \* state["iteration"]
    last,       \* what state["last_response"] holds
    sent,       \* history: the positions of messages in the last request of llm_call
    report      \* state["report"]

loopvars == <<node, messages, iteration, last, sent, report>>
vars == <<loopvars, cvars>>

Nodes == {"intake", "llm_call", "execute_tools", "crystallize_report", "finalize",
          "end", "aborted"}

NoResponse == [kind |-> "none", calls |-> <<>>, used |-> "none"]
EmptyResponse == [kind |-> "empty", calls |-> <<>>, used |-> "none"]
Response == [kind : {"none", "empty", "reply"}, calls : Seq(CallIds), used : Fallbacks]

(***************************************************************************)
(* A report, by where its parts come from: whether the fields are those of *)
(* a parsed JSON answer; the position of the assistant message it restates *)
(* (0: there is none); and the source of its location.                     *)
(***************************************************************************)
Report == [json : BOOLEAN, about : Nat, location : {"json", "answer", "traceback", "none"}]
NoReport == [json |-> FALSE, about |-> 0, location |-> "none"]

Init ==
    /\ node = "intake"
    /\ messages \in Inputs
    /\ iteration = 0
    /\ last = NoResponse
    /\ sent = {}
    /\ report = NoReport
    /\ CInit

---------------------------------------------------------------------------
(***************************************************************************)
(* _intake_node. The [INTAKE] hint goes after the leading system messages, *)
(* unless no user message has content or some system message is one        *)
(* already.                                                                *)
(***************************************************************************)
LeadingSystem(ms) ==
    Cardinality({i \in DOMAIN ms : \A j \in 1..i : ms[j].role = "system"})

WantsIntake(ms) ==
    /\ \E i \in DOMAIN ms : ms[i].role = "user" /\ ms[i].text # "none"
    /\ ~ \E i \in DOMAIN ms : ms[i].role = "system" /\ ms[i].text = "intake"

Inserted(ms, n, m) == [i \in 1..(Len(ms) + 1) |->
    IF i <= n THEN ms[i] ELSE IF i = n + 1 THEN m ELSE ms[i - 1]]

Intake ==
    /\ node = "intake"
    /\ messages' = IF WantsIntake(messages)
                   THEN Inserted(messages, LeadingSystem(messages), SystemMsg("intake"))
                   ELSE messages
    /\ node' = "llm_call"
    /\ UNCHANGED <<iteration, last, sent, report, cvars>>

---------------------------------------------------------------------------
\* Slip: the name of an edge is no node.
RouteToNowhere(ms, iter) ==
    IF iter < MaxIters /\ ms # <<>> /\ IsHead(ms[Len(ms)]) THEN "tools" ELSE "crystallize_report"

\* _route_after_llm
RouteAfterLlm(ms, iter) ==
    IF iter < MaxIters /\ ms # <<>> /\ IsHead(ms[Len(ms)])
    THEN "execute_tools"
    ELSE "crystallize_report"

\* The requests truncation may make of ms; the last value of failAt: no count raises.
Requests(ms) ==
    {Truncate(ms, ContextLimit, failAt) : failAt \in 0..(Cardinality(Removable(ms)) + 1)}

\* Slip: the reply is appended to the truncated list.
LlmRepliesToTruncated(reply) ==
    /\ node = "llm_call"
    /\ \E S \in Requests(messages) :
           /\ messages' = Append(Kept(messages, S), AssistantMsg(reply.calls, reply.text))
           /\ sent' = 1..Cardinality(S)
    /\ last' = [kind |-> "reply", calls |-> reply.calls, used |-> reply.used]
    /\ iteration' = iteration + 1
    /\ node' = RouteAfterLlm(messages', iteration')
    /\ UNCHANGED <<report, cvars>>

\* Slip: the mark of a fallback is kept from the iteration that used it.
LlmRepliesKeepingMark(reply) ==
    /\ node = "llm_call"
    /\ sent' \in Requests(messages)
    /\ messages' = Append(messages, AssistantMsg(reply.calls, reply.text))
    /\ last' = [kind |-> "reply", calls |-> reply.calls,
                used |-> IF last.used = "none" THEN reply.used ELSE last.used]
    /\ iteration' = iteration + 1
    /\ node' = RouteAfterLlm(messages', iteration')
    /\ UNCHANGED <<report, cvars>>

(***************************************************************************)
(* _llm_call_node, answered. The request is the truncated conversation;    *)
(* the reply is appended to the whole one.                                 *)
(***************************************************************************)
LlmReplies(reply) ==
    /\ node = "llm_call"
    /\ sent' \in Requests(messages)
    /\ messages' = Append(messages, AssistantMsg(reply.calls, reply.text))
    /\ last' = [kind |-> "reply", calls |-> reply.calls, used |-> reply.used]
    /\ iteration' = iteration + 1
    /\ node' = RouteAfterLlm(messages', iteration')
    /\ UNCHANGED <<report, cvars>>

\* Slip: a response without choices is asked for again, and not counted.
LlmRepliesEmptyAgain ==
    /\ node = "llm_call"
    /\ EmptyChoices
    /\ sent' \in Requests(messages)
    /\ UNCHANGED <<node, messages, iteration, last, report, cvars>>

\* The response has no choices: nothing to append.
LlmRepliesEmpty ==
    /\ node = "llm_call"
    /\ EmptyChoices
    /\ sent' \in Requests(messages)
    /\ last' = EmptyResponse
    /\ iteration' = iteration + 1
    /\ node' = RouteAfterLlm(messages, iteration')
    /\ UNCHANGED <<messages, report, cvars>>

\* gateway.complete raises: ainvoke raises.
LlmRaises ==
    /\ node = "llm_call"
    /\ sent' \in Requests(messages)
    /\ node' = "aborted"
    /\ UNCHANGED <<messages, iteration, last, report, cvars>>

---------------------------------------------------------------------------
\* Slip: only the first call is answered.
FirstAnswerOnly(calls, sizes) == <<ToolMsg(calls[1], sizes[1])>>

(***************************************************************************)
(* _execute_tools_node. One tool message per call of the last message, in  *)
(* the order of the calls; arguments that are not JSON, an unknown tool    *)
(* and an error a tool reports are answers like any other.                 *)
(***************************************************************************)
ToolAnswers(calls, sizes) == [k \in 1..Len(calls) |-> ToolMsg(calls[k], sizes[k])]

ExecuteTools ==
    /\ node = "execute_tools"
    /\ LET calls == messages[Len(messages)].calls
       IN  \E sizes \in [1..Len(calls) -> ToolSizes] :
               messages' = messages \o ToolAnswers(calls, sizes)
    /\ node' = "llm_call"
    /\ UNCHANGED <<iteration, last, sent, report, cvars>>

\* What execute_tool lets through, or json.dumps of the result, raises.
ExecuteToolsRaises ==
    /\ node = "execute_tools"
    /\ node' = "aborted"
    /\ UNCHANGED <<messages, iteration, last, sent, report, cvars>>

---------------------------------------------------------------------------
(* _crystallize_report_node: the exchanges, then the report.               *)

CrystallizeCall ==
    /\ node = "crystallize_report"
    /\ CNext
    /\ UNCHANGED loopvars

\* A bad request, or a parsed answer with a number Python will not convert
\* (int() of an infinite line: OverflowError is not caught).
CrystallizeRaises ==
    /\ node = "crystallize_report"
    /\ cphase = "raised" \/ (cphase = "done" /\ parsed.json)
    /\ node' = "aborted"
    /\ UNCHANGED <<messages, iteration, last, sent, report, cvars>>

\* last_assistant_content and user_content, by position; 0 when there is none.
LastAnswer(ms) ==
    Max({0} \cup {i \in DOMAIN ms : ms[i].role = "assistant" /\ ms[i].text # "none"})

FirstUser(ms) ==
    LET users == {i \in DOMAIN ms : ms[i].role = "user" /\ ms[i].text # "none"}
    IN  IF users = {} THEN 0 ELSE Min(users)

IsLocated(ms, i) == i # 0 /\ ms[i].text = "located"

\* The regular expression over the answer is tried only when nothing was parsed.
Location(ms) ==
    IF parsed.json /\ parsed.located THEN "json"
    ELSE IF ~ parsed.json /\ IsLocated(ms, LastAnswer(ms)) THEN "answer"
    ELSE IF IsLocated(ms, FirstUser(ms)) THEN "traceback"
    ELSE "none"

CrystallizeReport ==
    /\ node = "crystallize_report"
    /\ cphase = "done"
    /\ report' = [json |-> parsed.json, about |-> LastAnswer(messages),
                  location |-> Location(messages)]
    /\ node' = "finalize"
    /\ UNCHANGED <<messages, iteration, last, sent, cvars>>

\* _finalize_node does nothing; then END.
Finalize ==
    /\ node = "finalize"
    /\ node' = "end"
    /\ UNCHANGED <<messages, iteration, last, sent, report, cvars>>

\* The run is over.
Over == node \in {"end", "aborted"}
Stopped == Over /\ UNCHANGED vars

LoopStep ==
    \/ Intake
    \/ \E reply \in Replies : LlmReplies(reply)
    \/ LlmRepliesEmpty
    \/ LlmRaises
    \/ ExecuteTools
    \/ ExecuteToolsRaises
    \/ CrystallizeCall
    \/ CrystallizeRaises
    \/ CrystallizeReport
    \/ Finalize

Next == LoopStep \/ Stopped

(***************************************************************************)
(* Every await of the run ends: gateway.complete under the HTTP client's   *)
(* timeout, a tool when its thread returns. Nothing else blocks a run.     *)
(***************************************************************************)
Spec == Init /\ [][Next]_vars /\ WF_vars(LoopStep)

---------------------------------------------------------------------------
(***************************************************************************)
(* What the endpoint tells its caller about the end of the run             *)
(* (app.py, agent_analyze): iterations and terminated_reason.              *)
(***************************************************************************)
Iterations == IF iteration < MaxIters THEN iteration ELSE MaxIters

\* Slip: an answer given in the last iteration counts as cut.
ReasonByCount == IF Iterations >= MaxIters THEN "max_iters" ELSE "final"

TerminatedReason ==
    IF Iterations >= MaxIters /\ last.calls # <<>> THEN "max_iters" ELSE "final"

\* _set_fallback_headers: the header of the response carries the last reply's mark.
FallbackHeader == last.used

---------------------------------------------------------------------------
\* The variables hold what the nodes put there.
TypeOK ==
    /\ node \in Nodes
    /\ messages \in Seq(Message)
    /\ iteration \in Nat
    /\ last \in Response
    /\ sent \subseteq DOMAIN messages
    /\ report \in Report
    /\ CTypeOK

(***************************************************************************)
(* Every request llm_call sends is one a provider accepts, whatever        *)
(* truncation removed from it: each tool call directly followed by its     *)
(* answers and no answer without its call (the docstring of                *)
(* _truncate_messages gives this as the reason to remove whole groups).    *)
(***************************************************************************)
RequestsPaired == PairedOn(messages, sent)

(***************************************************************************)
(* What truncation may never keep from the LLM: messages that belong to no *)
(* tool round, and the two latest rounds, the results the LLM just asked   *)
(* for among them.                                                         *)
(***************************************************************************)
LatestRounds(ms) == {h \in Heads(ms) : Cardinality({g \in Heads(ms) : g > h}) < 2}

MustSend(ms) ==
    (DOMAIN ms \ UNION {Group(ms, h) : h \in Heads(ms)})
        \cup UNION {Group(ms, h) : h \in LatestRounds(ms)}

RecentContextSent == [][iteration' # iteration => MustSend(messages) \subseteq sent']_vars

(***************************************************************************)
(* Truncation shortens a request, never the conversation: after the intake *)
(* node every step extends it at its end. What run_agent returns, and the  *)
(* session stores, is complete.                                            *)
(***************************************************************************)
ConversationOnlyGrows ==
    [][node # "intake" =>
        /\ Len(messages) <= Len(messages')
        /\ \A i \in DOMAIN messages : messages'[i] = messages[i]]_vars

(***************************************************************************)
(* terminated_reason tells the truth about the conversation returned: it   *)
(* is "final" exactly when every tool call in it has been answered.        *)
(***************************************************************************)
ReasonTellsPairing == node = "end" => (TerminatedReason = "final" <=> Paired(messages))

(***************************************************************************)
(* What the fallback header can mean to who monitors it, as only the last  *)
(* response of a run is looked at (app.py, _set_fallback_headers of        *)
(* result.response): "layer2_regex_inject" that calls found in a text were *)
(* left unanswered, since the run was cut by max_iters; "layer1_no_tools_  *)
(* retry" that the run ended as final on an answer given without tools,    *)
(* the calls the model meant being lost. A fallback that worked is never   *)
(* told: the run went on and its last response is another one.             *)
(***************************************************************************)
HeaderTellsEnd ==
    node = "end" =>
        /\ FallbackHeader = "layer2_regex_inject" =>
              TerminatedReason = "max_iters" /\ ~ Paired(messages)
        /\ FallbackHeader = "layer1_no_tools_retry" =>
              TerminatedReason = "final" /\ Paired(messages)

(***************************************************************************)
(* A model that has refused response_format is not sent it again.          *)
(***************************************************************************)
FormatNotSentAfterRefusal ==
    \A i, j \in DOMAIN exchanges :
        i < j /\ exchanges[i].outcome = "format" => ~ exchanges[j].format

(***************************************************************************)
(* The report is made of parsed fields exactly when the last exchange was  *)
(* answered in JSON and was not the prompt-only repetition after a refusal *)
(* of response_format: an earlier answer, or no answer, never fills a      *)
(* report, and a JSON answer given in time always does.                    *)
(***************************************************************************)
ReportFromLastAnswer ==
    node \in {"finalize", "end"} =>
        LET n == Len(exchanges)
        IN  report.json <=> /\ exchanges[n].outcome = "json"
                            /\ ~ (n > 1 /\ exchanges[n - 1].outcome = "format")

(***************************************************************************)
(* Every run ends: the tool rounds are bounded by max_iters, the exchanges *)
(* of crystallize_report by its two attempts.                              *)
(***************************************************************************)
EveryRunEnds == <>Over

(***************************************************************************)
(* How it comes to its end: every step but an exchange of the report       *)
(* leaves fewer steps of the graph to make, 2 * max_iters + 2 of them at   *)
(* the start (4 for a max_iters of 0), and every exchange fewer exchanges. *)
(* Replies without choices, tools that answer nothing new and a refusal of *)
(* response_format do not make a run go round.                             *)
(***************************************************************************)
CallsLeft == IF iteration < MaxIters THEN MaxIters - iteration ELSE 1

StepsLeft ==
    [intake |-> 2 * CallsLeft + 2, llm_call |-> 2 * CallsLeft + 1,
     execute_tools |-> 2 * CallsLeft + 2, crystallize_report |-> 2, finalize |-> 1,
     end |-> 0, aborted |-> 0][node]

ExchangesLeft ==
    LET later == IF attempt = 0 THEN 1 ELSE 0
    IN  [call |-> later + (IF formatOk THEN 2 ELSE 1), inner |-> later + 1,
         done |-> 0, raised |-> 0][cphase]

RunGetsShorter ==
    [][\/ StepsLeft' < StepsLeft
       \/ StepsLeft' = StepsLeft /\ ExchangesLeft' < ExchangesLeft]_vars

(***************************************************************************)
(* What a run may cost: the loop calls the LLM max_iters times at most,    *)
(* once for a max_iters of 0, and the report three times, once more than   *)
(* the comment in _crystallize_report_node counts (core.py:425, at most 2).*)
(***************************************************************************)
CostIsBounded ==
    /\ iteration <= MaxIters \/ iteration = 1
    /\ Len(exchanges) <= 3

(***************************************************************************)
(* What core.py says where it builds the corrective prompt: it is sent     *)
(* when the previous attempt was not in JSON form.                         *)
(***************************************************************************)
CorrectiveOnlyAfterBadJson ==
    \A i \in DOMAIN exchanges : exchanges[i].corrective =>
        \E j \in 1..(i - 1) : /\ exchanges[j].outcome \in Unusable
                             /\ ~ exchanges[j].corrective
============================================================================
