---------------------------- MODULE MCAgentLoop ----------------------------
(***************************************************************************)
(* A small instance of AgentLoop for TLC: conversations of the analyze     *)
(* endpoint (persona first) and of /v1/chat/completions, and the replies   *)
(* LLMGateway makes of a provider's behaviours.                            *)
(***************************************************************************)
EXTENDS AgentLoop, Gateway

CONSTANTS a, b

MCCallIds == {a, b}

\* The parser's ids are those of an earlier run's calls: they start over in each answer.
MCFallbackIds == <<b, a>>

\* A first analysis; a session with two finished rounds and an answer behind it.
FirstTurn == <<SystemMsg("plain"), UserMsg("located")>>

LaterTurn ==
    <<SystemMsg("plain"), UserMsg("plain"),
      AssistantMsg(<<a, b>>, "none"), ToolMsg(a, 1), ToolMsg(b, 4),
      AssistantMsg(<<a>>, "plain"), ToolMsg(a, 1),
      AssistantMsg(<<>>, "located"), UserMsg("located")>>

\* Chat clients: nothing; a prompt without content, behind a hint the client resent.
ChatInputs == {<<>>, <<SystemMsg("intake"), UserMsg("none")>>}

MCInputs == {FirstTurn, LaterTurn} \cup ChatInputs

(***************************************************************************)
(* What the provider may do at a request with tools, and at its repetition *)
(* without them; the replies are what the gateway makes of it.             *)
(***************************************************************************)
Final == Answered(<<>>, Text("located", <<>>))
NativeCalls == Answered(<<a, b>>, Text("none", <<>>))
CallsInText ==
    Answered(<<>>, Text("plain", <<[pattern |-> "python_tag", form |-> "call"],
                                   [pattern |-> "json_codeblock", form |-> "unusable"]>>))
Misnamed == Answered(<<>>, Text("plain", <<[pattern |-> "tool_call_xml", form |-> "misnamed"]>>))

Behaviours ==
    {<<Final, Failed>>, <<NativeCalls, Failed>>, <<CallsInText, Failed>>,
     <<ToolUseFailed, Answered(<<>>, Text("plain", <<>>))>>,
     <<ToolUseFailed, CallsInText>>, <<ToolUseFailed, ToolUseFailed>>,
     <<Misnamed, Failed>>, <<NoChoices, Failed>>}

MCReplies ==
    {reply \in {Complete({"tools"}, p[1], p[2]) : p \in Behaviours} : reply.kind = "reply"}
=============================================================================
