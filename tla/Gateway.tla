------------------------------ MODULE Gateway ------------------------------
(***************************************************************************)
(* LLMGateway (gateway/client.py): what a call of complete makes of what   *)
(* the provider answers. Two fallbacks stand between the two:              *)
(*                                                                         *)
(*   layer 1  a request refused with tool_use_failed is repeated, once,    *)
(*            without tools;                                               *)
(*   layer 2  the text of an answer without tool calls is searched for     *)
(*            calls a model wrote there.                                   *)
(*                                                                         *)
(* The module is pure: complete keeps no state between its calls. A model  *)
(* check of the agent takes its replies from here (MCAgentLoop).           *)
(***************************************************************************)
EXTENDS Conversation

CONSTANT FallbackIds   \* "fallback_0", "fallback_1", ...: as many as a text has calls

ASSUME FallbackIdsAssumption ==
    /\ FallbackIds \in Seq(CallIds)
    /\ \A j, k \in DOMAIN FallbackIds : FallbackIds[j] = FallbackIds[k] => j = k

---------------------------------------------------------------------------
(***************************************************************************)
(* LLMGateway(): the settings that are validated. "odd" is a timeout of    *)
(* nan or inf, which float() takes and no comparison refuses. The result   *)
(* is the set of parameters that a call gets by default.                   *)
(***************************************************************************)
Efforts == {"unset", "allowed", "unknown"}
Timeouts == {"unset", "positive", "odd", "zero", "negative", "text"}

IsConfigured(effort, timeout) ==
    effort # "unknown" /\ timeout \notin {"zero", "negative", "text"}

Defaults(effort, timeout) ==
    (IF effort = "allowed" THEN {"reasoning_effort"} ELSE {})
        \cup (IF timeout # "unset" THEN {"timeout"} ELSE {})

\* The parameters complete forwards.
AllowedKwargs ==
    {"temperature", "max_tokens", "top_p", "top_k", "frequency_penalty", "presence_penalty",
     "stop", "stream", "n", "seed", "response_format", "tools", "tool_choice",
     "parallel_tool_calls", "reasoning_effort", "timeout"}

---------------------------------------------------------------------------
(***************************************************************************)
(* The text of an answer: what kind of content it is (Texts), whether it   *)
(* is above the cap of the parser, and what the patterns match in it, in   *)
(* the order of the text. A match is a call; or not usable (its JSON does  *)
(* not parse, it names nothing); or "misnamed": the name is a JSON value   *)
(* other than a string, which only the patterns with the name inside the   *)
(* JSON can match.                                                         *)
(***************************************************************************)
Patterns == <<"function_xml", "tool_call_xml", "json_codeblock", "python_tag">>

Match ==
    [pattern : {"function_xml", "python_tag"}, form : {"call", "unusable"}]
        \cup [pattern : {"tool_call_xml", "json_codeblock"},
              form : {"call", "unusable", "misnamed"}]

ModelTexts ==
    [content : Texts, long : BOOLEAN, matches : Seq(Match)]

Text(content, matches) == [content |-> content, long |-> FALSE, matches |-> matches]

\* _parse_fallback_tool_calls: the matches that become calls. They are taken pattern by
\* pattern, whatever their order in the text; the response names the first of the patterns.
Usable(text) ==
    IF text.long THEN {} ELSE {i \in DOMAIN text.matches : text.matches[i].form # "unusable"}

FirstPattern(text) ==
    Patterns[Min({k \in DOMAIN Patterns :
                     \E i \in Usable(text) : text.matches[i].pattern = Patterns[k]})]

(***************************************************************************)
(* How one litellm.acompletion ends: an answer with the calls the provider *)
(* parsed itself and a text; a bad request that says tool_use_failed; an   *)
(* answer without choices; any other exception.                            *)
(***************************************************************************)
Answered(calls, text) == [kind |-> "answer", calls |-> calls, text |-> text]
ToolUseFailed == [kind |-> "tool_use_failed"]
NoChoices == [kind |-> "nochoice"]
Failed == [kind |-> "failed"]

Raised == [kind |-> "raised"]

\* What the call sends, and, after a refusal, sends again.
Requested(kwargs, first) ==
    IF first.kind = "tool_use_failed" /\ "tools" \in kwargs
    THEN <<kwargs, kwargs \ {"tools", "tool_choice"}>>
    ELSE <<kwargs>>

(***************************************************************************)
(* LLMGateway.complete with these parameters, where the provider ends the  *)
(* first request with first and a repeated one with second. No choices     *)
(* raise IndexError, a misnamed call a ValidationError, and so do          *)
(* parameters outside the list, before anything is sent.                   *)
(***************************************************************************)
Complete(kwargs, first, second) ==
    LET retried == Len(Requested(kwargs, first)) = 2
        out == IF retried THEN second ELSE first
        found == IF out.kind = "answer" /\ out.calls = <<>> THEN Usable(out.text) ELSE {}
    IN  IF \/ ~ kwargs \subseteq AllowedKwargs
           \/ out.kind # "answer"
           \/ \E i \in found : out.text.matches[i].form = "misnamed"
        THEN Raised
        ELSE [kind |-> "reply",
              calls |-> IF found = {} THEN out.calls
                        ELSE [k \in 1..Cardinality(found) |-> FallbackIds[k]],
              text |-> out.text.content,
              used |-> IF found # {} THEN "layer2_regex_inject"
                       ELSE IF retried THEN "layer1_no_tools_retry" ELSE "none",
              pattern |-> IF found = {} THEN "none" ELSE FirstPattern(out.text)]

---------------------------------------------------------------------------
(***************************************************************************)
(* The parameters the service calls complete with. A chat request with     *)
(* tools of its own, or with agent=false, is one call of complete; any     *)
(* other is a run of the agent, and so is a request of /agent/analyze. A   *)
(* run hands its generation parameters on to every call of its LLM, the    *)
(* crystallizing one, which offers no tools, included.                     *)
(***************************************************************************)
ChatParameters == SUBSET {"temperature", "max_tokens", "tool_choice"}
AnalyzeParameters == SUBSET {"temperature", "seed"}

IsRaw(hasTools, agent) == hasTools \/ ~ agent

RawKwargs(hasTools, params) == params \cup (IF hasTools THEN {"tools"} ELSE {})
LoopKwargs(params) == params \cup {"tools"}
CrystallizeKwargs(params, formatOk) ==
    params \cup (IF formatOk THEN {"response_format"} ELSE {})

\* All of them, with the defaults of the settings where the caller names no value.
ServiceKwargs ==
    {kwargs \cup Defaults(effort, timeout) :
        kwargs \in {RawKwargs(hasTools, params) : hasTools \in BOOLEAN, params \in ChatParameters}
                  \cup {LoopKwargs(params) : params \in ChatParameters \cup AnalyzeParameters}
                  \cup {CrystallizeKwargs(params, formatOk) :
                           params \in ChatParameters \cup AnalyzeParameters, formatOk \in BOOLEAN},
        effort \in Efforts, timeout \in Timeouts}

\* _set_fallback_headers: the headers a response makes the endpoints set.
Headers(reply) == [used |-> reply.used, pattern |-> reply.pattern]
=============================================================================
