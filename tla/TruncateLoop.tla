--------------------------- MODULE TruncateLoop ---------------------------
(***************************************************************************)
(* _truncate_messages and _build_tool_call_groups of agent/core.py as the  *)
(* loops they are: the scan for groups, the pops from a working list with  *)
(* an offset that turns an index of the original list into one of the      *)
(* shrunken list, and the recount after each group. Conversation states    *)
(* what these loops compute without them; the invariants below say the two *)
(* agree. Lists are indexed from 1 here, from 0 in the code.               *)
(***************************************************************************)
EXTENDS Conversation

CONSTANTS
    Conversations,  \* the lists truncation may be called with
    Limits          \* the context limits

ASSUME TruncateLoopAssumption ==
    /\ \A ms \in Conversations : ms \in Seq(Message)
    /\ Limits \subseteq Int

VARIABLES
    pc,        \* "count", "scan", "pop", "recount" or "done"
    input,     \* messages
    limit,
    failAt,    \* the call of token_counter that raises
    groups,    \* the groups found so far, each an increasing sequence of positions
    scan,      \* i of the scan
    working,   \* the list messages are popped from
    offset,    \* how many messages have been popped
    group,     \* the group the removal loop is at
    member     \* the member of that group it is at

vars == <<pc, input, limit, failAt, groups, scan, working, offset, group, member>>

TypeOK ==
    /\ pc \in {"count", "scan", "pop", "recount", "done"}
    /\ input \in Conversations
    /\ limit \in Limits
    /\ failAt \in 0..(Len(input) + 1)
    /\ groups \in Seq(Seq(DOMAIN input))
    /\ scan \in 1..(Len(input) + 1)
    /\ working \in Seq(Message)
    /\ offset = Len(input) - Len(working)
    /\ group \in 1..(Len(groups) + 1)
    /\ member \in Nat

Init ==
    /\ pc = "count"
    /\ input \in Conversations
    /\ limit \in Limits
    /\ failAt \in 0..(Cardinality(Removable(input)) + 1)
    /\ groups = <<>>
    /\ scan = 1
    /\ working = input
    /\ offset = 0
    /\ group = 1
    /\ member = 1

Tokens(list) == TokenCount(list, DOMAIN list)

\* The early returns before any group is looked for.
CountFirst ==
    /\ pc = "count"
    /\ pc' = IF limit <= 0 \/ failAt = 0 \/ Tokens(input) <= HighWatermark(limit)
             THEN "done"
             ELSE "scan"
    /\ UNCHANGED <<input, limit, failAt, groups, scan, working, offset, group, member>>

---------------------------------------------------------------------------
\* j of the scan once it has run over the tool messages behind position i.
PastTools(list, i) ==
    Min({j \in (i + 1)..(Len(list) + 1) : j = Len(list) + 1 \/ list[j].role # "tool"})

\* Slip: only the first call's answer is expected.
ExpectedFirst(list, i) == {list[i].calls[1]}

Expected(list, i) == {list[i].calls[c] : c \in DOMAIN list[i].calls}

Increasing(S) == [n \in 1..Cardinality(S) |->
    CHOOSE i \in S : Cardinality({j \in S : j <= i}) = n]

\* Slip: the message behind the answers is skipped.
ScanHeadSkipping ==
    /\ pc = "scan"
    /\ scan <= Len(input)
    /\ IsHead(input[scan])
    /\ LET past == PastTools(input, scan)
           answers == {j \in (scan + 1)..(past - 1) : input[j].cid \in Expected(input, scan)}
       IN  /\ groups' = Append(groups, Increasing({scan} \cup answers))
           /\ scan' = past + 1
    /\ UNCHANGED <<pc, input, limit, failAt, working, offset, group, member>>

\* Slip: the scan goes on from j only if there were answers.
ScanHeadStanding ==
    /\ pc = "scan"
    /\ scan <= Len(input)
    /\ IsHead(input[scan])
    /\ LET past == PastTools(input, scan)
           answers == {j \in (scan + 1)..(past - 1) : input[j].cid \in Expected(input, scan)}
       IN  /\ groups' = Append(groups, Increasing({scan} \cup answers))
           /\ scan' = IF answers = {} THEN scan ELSE past
    /\ UNCHANGED <<pc, input, limit, failAt, working, offset, group, member>>

ScanHead ==
    /\ pc = "scan"
    /\ scan <= Len(input)
    /\ IsHead(input[scan])
    /\ LET past == PastTools(input, scan)
           answers == {j \in (scan + 1)..(past - 1) : input[j].cid \in Expected(input, scan)}
       IN  /\ groups' = Append(groups, Increasing({scan} \cup answers))
           /\ scan' = past
    /\ UNCHANGED <<pc, input, limit, failAt, working, offset, group, member>>

ScanOther ==
    /\ pc = "scan"
    /\ scan <= Len(input)
    /\ ~ IsHead(input[scan])
    /\ scan' = scan + 1
    /\ UNCHANGED <<pc, input, limit, failAt, groups, working, offset, group, member>>

\* removable_groups: all but the last two; none at all ends the function.
RemovableGroups == Len(groups) - 2

ScanEnd ==
    /\ pc = "scan"
    /\ scan > Len(input)
    /\ pc' = IF RemovableGroups > 0 THEN "pop" ELSE "done"
    /\ UNCHANGED <<input, limit, failAt, groups, scan, working, offset, group, member>>

---------------------------------------------------------------------------
DropAt(list, i) == [n \in 1..(Len(list) - 1) |-> IF n < i THEN list[n] ELSE list[n + 1]]

\* Slip: the index of the original list is used as it is.
PopByOriginalIndex ==
    /\ pc = "pop"
    /\ member <= Len(groups[group])
    /\ LET real == groups[group][member]
       IN  IF real \in DOMAIN working
           THEN working' = DropAt(working, real) /\ offset' = offset + 1
           ELSE UNCHANGED <<working, offset>>
    /\ member' = member + 1
    /\ UNCHANGED <<pc, input, limit, failAt, groups, scan, group>>

\* working.pop(orig_idx - offset), if that index is in range.
Pop ==
    /\ pc = "pop"
    /\ member <= Len(groups[group])
    /\ LET real == groups[group][member] - offset
       IN  IF real \in DOMAIN working
           THEN working' = DropAt(working, real) /\ offset' = offset + 1
           ELSE UNCHANGED <<working, offset>>
    /\ member' = member + 1
    /\ UNCHANGED <<pc, input, limit, failAt, groups, scan, group>>

PopEnd ==
    /\ pc = "pop"
    /\ member > Len(groups[group])
    /\ pc' = "recount"
    /\ UNCHANGED <<input, limit, failAt, groups, scan, working, offset, group, member>>

\* Slip: within the watermark is taken for within the target.
EnoughForWatermark == failAt = group \/ Tokens(working) <= HighWatermark(limit)

\* Slip: a count that raises is taken for one over the target.
EnoughIgnoringFailure == failAt # group /\ Tokens(working) <= Target(limit)

Enough == failAt = group \/ Tokens(working) <= Target(limit)

Recount ==
    /\ pc = "recount"
    /\ IF Enough \/ group = RemovableGroups
       THEN pc' = "done" /\ UNCHANGED <<group, member>>
       ELSE pc' = "pop" /\ group' = group + 1 /\ member' = 1
    /\ UNCHANGED <<input, limit, failAt, groups, scan, working, offset>>

Stopped == pc = "done" /\ UNCHANGED vars

Next ==
    \/ CountFirst
    \/ ScanHead
    \/ ScanOther
    \/ ScanEnd
    \/ Pop
    \/ PopEnd
    \/ Recount
    \/ Stopped

Spec == Init /\ [][Next]_vars /\ WF_vars(Next)

---------------------------------------------------------------------------
(***************************************************************************)
(* Unless a recount raises, the list the loops return is the one           *)
(* Conversation describes: the pops with their running offset remove the   *)
(* groups they mean, for ill-formed conversations (orphan answers, ids     *)
(* answered twice) as for good ones, and none if the first count raises.   *)
(***************************************************************************)
LoopMatchesTruncate ==
    pc = "done" /\ ~ RecountRaises(input, limit, failAt) =>
        working = Kept(input, Truncate(input, limit, failAt))

(***************************************************************************)
(* If a recount raises, the code returns the list without the groups that  *)
(* went before, all of them and no other, although the docstring (core.py, *)
(* line 124) says that truncation is skipped and the original returned     *)
(* when the counter fails. The original is never returned then.            *)
(***************************************************************************)
FailedRecountLeavesPart ==
    pc = "done" /\ RecountRaises(input, limit, failAt) =>
        /\ working = Kept(input, Without(input, failAt))
        /\ Len(working) < Len(input)

(***************************************************************************)
(* Between two groups the list is always fit to be sent if the original    *)
(* was: a recount that raises cuts truncation short, against its           *)
(* docstring, but what it leaves is a request a provider accepts.          *)
(***************************************************************************)
WorkingStaysPaired == pc \in {"recount", "done"} /\ Paired(input) => Paired(working)

(***************************************************************************)
(* Unless a recount raises, a list over the target is only returned when   *)
(* there was nothing more to remove, and no group goes that did not have   *)
(* to: before the last group went the count was over the target.           *)
(***************************************************************************)
RemovesNeitherLessNorMore ==
    pc = "done" /\ offset > 0 /\ ~ RecountRaises(input, limit, failAt) =>
        /\ Tokens(working) > Target(limit) => group = Cardinality(Removable(input))
        /\ group > 1 => TokenCount(input, Without(input, group - 1)) > Target(limit)

(***************************************************************************)
(* The loops come to their end: both scans advance, and no pop is skipped  *)
(* because its index is out of range. 4 * Len(input) + 2 bounds the steps. *)
(***************************************************************************)
StepsLeft ==
    [count   |-> 4 * Len(input) + 2,
     scan    |-> 3 * (Len(input) + 1 - scan) + 2 * Len(groups) + Len(input) + 1,
     pop     |-> 2 * (RemovableGroups - group) + Len(working) + 2,
     recount |-> 2 * (RemovableGroups - group) + Len(working) + 1,
     done    |-> 0][pc]

LoopsAdvance == [][StepsLeft' \in 0..(StepsLeft - 1)]_vars
===========================================================================
