--------------------------- MODULE Conversation ---------------------------
(***************************************************************************)
(* Chat messages as the agent keeps them, the pairing of tool calls with   *)
(* their answers, and the context truncation of agent/core.py.             *)
(*                                                                         *)
(* A message is a record with the fields the control flow tells apart:     *)
(*   role   its chat role                                                  *)
(*   calls  the ids of its tool_calls, in order (assistant messages)       *)
(*   cid    its tool_call_id (tool messages)                               *)
(*   text   what its content is: "none" (None or empty), "plain",          *)
(*          "located" (it names a source line: a file.py:N, or a traceback *)
(*          frame) or "intake" (it starts with [INTAKE])                   *)
(*   size   what litellm.token_counter counts for it                       *)
(* A request to the LLM is a subsequence of the conversation; it is given  *)
(* by the set of positions it keeps.                                       *)
(***************************************************************************)
EXTENDS Integers, Sequences, FiniteSets, FiniteSetsExt

CONSTANTS
    CallIds,   \* tool call ids a provider or the fallback parser may issue
    NoId       \* the tool_call_id of a message that is no tool answer

ASSUME NoIdAssumption == NoId \notin CallIds

Roles == {"system", "user", "assistant", "tool"}
Texts == {"none", "plain", "located", "intake"}

Message == [role : Roles, calls : Seq(CallIds), cid : CallIds \cup {NoId},
            text : Texts, size : Nat]

\* _INTAKE_ hint of the intake node, and the other messages the code builds.
SystemMsg(text) == [role |-> "system", calls |-> <<>>, cid |-> NoId, text |-> text, size |-> 1]
UserMsg(text) == [role |-> "user", calls |-> <<>>, cid |-> NoId, text |-> text, size |-> 1]
AssistantMsg(calls, text) ==
    [role |-> "assistant", calls |-> calls, cid |-> NoId, text |-> text, size |-> 1]
ToolMsg(id, size) == [role |-> "tool", calls |-> <<>>, cid |-> id, text |-> "plain", size |-> size]

(***************************************************************************)
(* What gateway.complete returns, as the agent uses it: the tool calls and *)
(* the text of the answer, and which of the gateway's fallbacks made it:   *)
(* calls found in a text, or no calls after the repetition without tools.  *)
(***************************************************************************)
Fallbacks == {"none", "layer1_no_tools_retry", "layer2_regex_inject"}

IsReply(reply) ==
    /\ reply.calls \in Seq(CallIds)
    /\ reply.text \in Texts
    /\ reply.used \in Fallbacks
    /\ reply.used = "layer1_no_tools_retry" => reply.calls = <<>>
    /\ reply.used = "layer2_regex_inject" => reply.calls # <<>>

\* An assistant message that requests tools.
IsHead(m) == m.role = "assistant" /\ m.calls # <<>>

Heads(ms) == {i \in DOMAIN ms : IsHead(ms[i])}

---------------------------------------------------------------------------
(***************************************************************************)
(* The shape an OpenAI-compatible provider demands of a request, on the    *)
(* positions S that the request keeps: the answers to the calls of an      *)
(* assistant message follow it directly, one per call, and no tool message *)
(* stands anywhere else.                                                   *)
(***************************************************************************)
Answers(ms, i, k) == ms[i + k].role = "tool" /\ ms[i + k].cid = ms[i].calls[k]

CallsAnswered(ms, S) ==
    \A i \in S : IsHead(ms[i]) =>
        \A k \in 1..Len(ms[i].calls) : i + k \in S /\ Answers(ms, i, k)

ToolsRequested(ms, S) ==
    \A j \in S : ms[j].role = "tool" =>
        \E i \in S : /\ IsHead(ms[i])
                     /\ \E k \in 1..Len(ms[i].calls) : j = i + k /\ Answers(ms, i, k)

PairedOn(ms, S) == CallsAnswered(ms, S) /\ ToolsRequested(ms, S)

Paired(ms) == PairedOn(ms, DOMAIN ms)

\* The messages of ms at the positions S, as the list that is sent.
Kept(ms, S) ==
    [n \in 1..Cardinality(S) |-> ms[CHOOSE i \in S : Cardinality({j \in S : j <= i}) = n]]

---------------------------------------------------------------------------
\* Slip: the answers are left out of the group.
HeadOnly(ms, h) == {h}

(***************************************************************************)
(* _build_tool_call_groups: an assistant message that requests tools,      *)
(* with the tool messages that follow it without a gap and answer one of   *)
(* its ids. A tool message with another id does not end the run of         *)
(* answers; it just stays outside the group.                               *)
(***************************************************************************)
Group(ms, h) ==
    {h} \cup {j \in DOMAIN ms :
                /\ j > h
                /\ \A k \in (h + 1)..j : ms[k].role = "tool"
                /\ \E c \in DOMAIN ms[h].calls : ms[j].cid = ms[h].calls[c]}

(***************************************************************************)
(* _truncate_messages. The two youngest groups stay; the others go oldest  *)
(* first, a group at a time, the tokens being counted again after each,    *)
(* until the count is within 70% of the limit or none is left. Nothing     *)
(* goes while the count is within 80%. failAt is the call of               *)
(* litellm.token_counter that raises: 0 is the first one, k the one after  *)
(* the k-th group. The docstring promises the original list for every      *)
(* failure. The code returns it for the first count only; a recount that   *)
(* raises breaks the loop (RecountRaises), and the list is returned        *)
(* without the groups removed so far.                                      *)
(***************************************************************************)
\* Slip: one group is kept instead of two.
RemovableButLast(ms) ==
    LET heads == Heads(ms)
    IN  {h \in heads : Cardinality({g \in heads : g > h}) >= 1}

Removable(ms) ==
    LET heads == Heads(ms)
    IN  {h \in heads : Cardinality({g \in heads : g > h}) >= 2}

OldestRemovable(ms, n) ==
    LET removable == Removable(ms)
    IN  {h \in removable : Cardinality({g \in removable : g <= h}) <= n}

Without(ms, n) == DOMAIN ms \ UNION {Group(ms, h) : h \in OldestRemovable(ms, n)}

TokenCount(ms, S) == MapThenSumSet(LAMBDA i : ms[i].size, S)

\* In whole numbers. int(limit * 0.80) and int(limit * 0.70) are floats cut off, which for
\* some limits is one less: int(90 * 0.70) is 62.
HighWatermark(limit) == (limit * 80) \div 100
Target(limit) == (limit * 70) \div 100

GroupsRemoved(ms, limit, failAt) ==
    LET removable == Cardinality(Removable(ms))
        StopsAfter(n) == \/ n = failAt
                         \/ n = removable
                         \/ TokenCount(ms, Without(ms, n)) <= Target(limit)
    IN  IF \/ limit <= 0
           \/ failAt = 0
           \/ TokenCount(ms, DOMAIN ms) <= HighWatermark(limit)
           \/ removable = 0
        THEN 0
        ELSE Min({n \in 1..removable : StopsAfter(n)})

\* The except clause of the recount is what ends the loop.
RecountRaises(ms, limit, failAt) ==
    failAt > 0 /\ GroupsRemoved(ms, limit, failAt) = failAt

\* The positions _truncate_messages keeps of ms, if a recount raises against its docstring.
Truncate(ms, limit, failAt) == Without(ms, GroupsRemoved(ms, limit, failAt))
===========================================================================
