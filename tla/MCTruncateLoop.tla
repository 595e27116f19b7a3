--------------------------- MODULE MCTruncateLoop ---------------------------
(***************************************************************************)
(* TruncateLoop over every list of at most MaxBlocks blocks: a user        *)
(* message; rounds of one and of two calls; a request nobody answered; and *)
(* two answers on their own, which make a foreign and a late answer when   *)
(* they come behind the latter.                                            *)
(***************************************************************************)
EXTENDS TruncateLoop, SequencesExt

CONSTANTS a, b, MaxBlocks

MCCallIds == {a, b}

Blocks ==
    {<<UserMsg("plain")>>,
     <<AssistantMsg(<<a>>, "none"), ToolMsg(a, 1)>>,
     <<AssistantMsg(<<b, a>>, "none"), ToolMsg(b, 3), ToolMsg(a, 1)>>,
     <<AssistantMsg(<<a>>, "none")>>,
     <<ToolMsg(b, 1), ToolMsg(a, 2)>>}

MCConversations == {FlattenSeq(blocks) : blocks \in UNION {[1..n -> Blocks] : n \in 0..MaxBlocks}}
=============================================================================
