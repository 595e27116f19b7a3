--------------------------- MODULE MCAgentSession ---------------------------
(***************************************************************************)
(* Three turns of a session for TLC; the replies call no tool, one or two. *)
(***************************************************************************)
EXTENDS AgentSession

CONSTANTS a, b

MCCallIds == {a, b}

MCInputs == {Opening(<<>>, text) : text \in LogTexts}

MCReplies ==
    {[calls |-> <<>>, text |-> "plain", used |-> "none"], [calls |-> <<a>>, text |-> "none", used |-> "none"],
     [calls |-> <<b, a>>, text |-> "none", used |-> "none"]}
=============================================================================
