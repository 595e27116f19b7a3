-------------------------- MODULE AgentLoopProofs --------------------------
(***************************************************************************)
(* What holds of every run of the agent, for every conversation it may be  *)
(* called with, every LLM, every max_iters and every context limit.        *)
(***************************************************************************)
EXTENDS AgentLoop, ConversationProofs

---------------------------------------------------------------------------
(* The intake node.                                                        *)

\* The messages in front of the place of the hint are system messages.
LEMMA LeadingAreSystem ==
    ASSUME NEW ms \in Seq(Message)
    PROVE  /\ LeadingSystem(ms) \in 0..Len(ms)
           /\ \A i \in 1..LeadingSystem(ms) : ms[i].role = "system"
PROOF
<1> DEFINE P == {i \in DOMAIN ms : \A j \in 1..i : ms[j].role = "system"}
<1>1. DOMAIN ms = 1..Len(ms) /\ Len(ms) \in Nat
  BY LenProperties
<1>2. P \in SUBSET (1..Len(ms)) /\ IsFiniteSet(1..Len(ms)) /\ Cardinality(1..Len(ms)) = Len(ms)
  BY <1>1, FS_Interval
<1>3. IsFiniteSet(P) /\ Cardinality(P) \in Nat /\ Cardinality(P) <= Len(ms)
  BY <1>2, FS_Subset, FS_CardinalityType
<1>4. ASSUME NEW i \in 1..Cardinality(P), i \notin P
      PROVE  FALSE
  <2>1. i \in Nat \ {0} /\ i <= Len(ms)
    BY <1>3, <1>1
  <2>2. P \in SUBSET (1..(i - 1))
    <3> SUFFICES ASSUME NEW x \in P, x >= i
                 PROVE  FALSE
      BY <1>1, <2>1
    <3>1. i \in DOMAIN ms /\ \A j \in 1..i : ms[j].role = "system"
      BY <1>1, <2>1
    <3> QED
      BY <3>1, <1>4
  <2>3. IsFiniteSet(1..(i - 1)) /\ Cardinality(1..(i - 1)) = i - 1
    BY <2>1, FS_Interval
  <2>4. Cardinality(P) <= i - 1
    BY <2>2, <2>3, FS_Subset
  <2> QED
    BY <2>4, <2>1, <1>3
<1>5. \A i \in 1..Cardinality(P) : ms[i].role = "system"
  <2> SUFFICES ASSUME NEW i \in 1..Cardinality(P)
               PROVE  ms[i].role = "system"
    OBVIOUS
  <2>1. i \in P
    BY <1>4
  <2> QED
    BY <2>1, <1>1
<1> QED
  BY <1>3, <1>5, <1>1 DEF LeadingSystem

\* A message list with one more in it.
LEMMA InsertedProperties ==
    ASSUME NEW ms \in Seq(Message), NEW n \in 0..Len(ms), NEW m \in Message
    PROVE  /\ Inserted(ms, n, m) \in Seq(Message)
           /\ DOMAIN ms = 1..Len(ms)
           /\ DOMAIN Inserted(ms, n, m) = 1..(Len(ms) + 1)
           /\ \A i \in 1..n : Inserted(ms, n, m)[i] = ms[i]
           /\ Inserted(ms, n, m)[n + 1] = m
           /\ \A i \in (n + 2)..(Len(ms) + 1) : Inserted(ms, n, m)[i] = ms[i - 1]
PROOF
<1>1. DOMAIN ms = 1..Len(ms) /\ Len(ms) \in Nat /\ n \in Nat /\ n <= Len(ms)
  BY LenProperties
<1>2. \A i \in 1..(Len(ms) + 1) :
          (IF i <= n THEN ms[i] ELSE IF i = n + 1 THEN m ELSE ms[i - 1]) \in Message
  BY <1>1, ElementOfSeq
<1>3. Inserted(ms, n, m) \in Seq(Message)
  BY <1>1, <1>2, IsASeq DEF Inserted
<1> QED
  BY <1>1, <1>3 DEF Inserted

\* A message put behind leading system messages splits no round of tools.
LEMMA InsertionKeepsPairs ==
    ASSUME NEW ms \in Seq(Message), Paired(ms),
           NEW n \in 0..Len(ms), \A i \in 1..n : ms[i].role = "system",
           NEW m \in Message, m.role = "system"
    PROVE  Paired(Inserted(ms, n, m))
PROOF
<1> DEFINE more == Inserted(ms, n, m)
<1>1. DOMAIN ms = 1..Len(ms) /\ Len(ms) \in Nat /\ n \in Nat /\ n <= Len(ms)
  BY LenProperties
<1>4. DOMAIN more = 1..(Len(ms) + 1)
  BY InsertedProperties
<1>5. /\ \A i \in 1..n : more[i] = ms[i]
      /\ more[n + 1] = m
      /\ \A i \in (n + 2)..(Len(ms) + 1) : more[i] = ms[i - 1]
  BY InsertedProperties
<1> HIDE DEF more
<1>6. ASSUME NEW i \in DOMAIN more, more[i].role # "system"
      PROVE  i > n + 1 /\ i - 1 \in DOMAIN ms /\ more[i] = ms[i - 1]
  BY <1>1, <1>4, <1>5, <1>6
<1>7. ASSUME NEW i \in DOMAIN ms, ms[i].role # "system"
      PROVE  i > n /\ i + 1 \in DOMAIN more /\ more[i + 1] = ms[i]
  BY <1>1, <1>4, <1>5, <1>7
<1>8. ASSUME NEW i \in DOMAIN more, IsHead(more[i]), NEW k \in 1..Len(more[i].calls)
      PROVE  i + k \in DOMAIN more /\ Answers(more, i, k)
  <2>1. i > n + 1 /\ i - 1 \in DOMAIN ms /\ more[i] = ms[i - 1]
    BY <1>6, <1>8 DEF IsHead
  <2>2. (i - 1) + k \in DOMAIN ms /\ Answers(ms, i - 1, k)
    BY <2>1, <1>8 DEF Paired, PairedOn, CallsAnswered
  <2>3. ((i - 1) + k) + 1 = i + k
    BY <1>4, <2>1, <1>1, MessageFields
  <2> QED
    BY <2>1, <2>2, <2>3, <1>7 DEF Answers
<1>9. ASSUME NEW j \in DOMAIN more, more[j].role = "tool"
      PROVE  \E i \in DOMAIN more : /\ IsHead(more[i])
                                    /\ \E k \in 1..Len(more[i].calls) :
                                           j = i + k /\ Answers(more, i, k)
  <2>1. j > n + 1 /\ j - 1 \in DOMAIN ms /\ more[j] = ms[j - 1]
    BY <1>6, <1>9
  <2>2. PICK i \in DOMAIN ms : /\ IsHead(ms[i])
                               /\ \E k \in 1..Len(ms[i].calls) : j - 1 = i + k /\ Answers(ms, i, k)
    BY <2>1, <1>9 DEF Paired, PairedOn, ToolsRequested
  <2>3. PICK k \in 1..Len(ms[i].calls) : j - 1 = i + k /\ Answers(ms, i, k)
    BY <2>2
  <2>4. i + 1 \in DOMAIN more /\ more[i + 1] = ms[i]
    BY <1>7, <2>2 DEF IsHead
  <2>5. j = (i + 1) + k
    <3>1. i \in Nat /\ Len(ms[i].calls) \in Nat
      BY MessageFields, Zenon
    <3>2. k \in Nat /\ j \in Nat
      BY <3>1, <1>1, <1>4
    <3>3. j - 1 = i + k
      BY <2>3
    <3> QED
      BY ONLY <3>1, <3>2, <3>3
  <2>6. Answers(more, i + 1, k)
    <3>1. more[(i + 1) + k] = ms[i + k]
      BY <2>1, <2>3, <2>5
    <3> QED
      BY <3>1, <2>3, <2>4 DEF Answers
  <2> QED
    BY <2>2, <2>4, <2>5, <2>6
<1> QED
  BY <1>8, <1>9 DEF Paired, PairedOn, CallsAnswered, ToolsRequested, more

---------------------------------------------------------------------------
(* Types.                                                                  *)

\* The position of the answer that a report restates is a natural number.
LEMMA LastAnswerType ==
    ASSUME NEW ms \in Seq(Message)
    PROVE  LastAnswer(ms) \in 0..Len(ms)
PROOF
<1> DEFINE A == {0} \cup {i \in DOMAIN ms : ms[i].role = "assistant" /\ ms[i].text # "none"}
           B == {Len(ms) - x : x \in A}
<1>1. A \in SUBSET (0..Len(ms)) /\ Len(ms) \in Nat
  BY LenProperties
<1>2. B \subseteq Nat /\ B # {}
  BY <1>1
<1>3. \E y \in B : \A z \in B : y <= z
  <2> HIDE DEF B
  <2> QED
    BY <1>2, SmallestNat
<1>4. PICK y \in B : \A z \in B : y <= z
  BY <1>3
<1>5. PICK x \in A : y = Len(ms) - x
  BY <1>4
<1>6. \A z \in A : x >= z
  <2> SUFFICES ASSUME NEW z \in A
               PROVE  x >= z
    OBVIOUS
  <2>1. Len(ms) - z \in B /\ y <= Len(ms) - z
    BY <1>4
  <2>2. z \in Nat /\ x \in Nat
    BY <1>1
  <2> HIDE DEF A, B
  <2> QED
    BY <2>1, <2>2, <1>1, <1>5
<1>7. Max(A) \in A
  BY <1>6 DEF Max
<1> QED
  BY <1>1, <1>7 DEF LastAnswer

\* The messages the nodes build.
LEMMA BuiltMessages ==
    /\ \A text \in Texts : SystemMsg(text) \in Message /\ SystemMsg(text).role = "system"
    /\ \A reply \in Replies : AssistantMsg(reply.calls, reply.text) \in Message
    /\ \A id \in CallIds, size \in ToolSizes : ToolMsg(id, size) \in Message
PROOF
<1>1. <<>> \in Seq(CallIds)
  BY EmptySeq
<1> QED
  BY <1>1, LoopAssumption DEF IsReply, SystemMsg, AssistantMsg, ToolMsg, Message, Roles, Texts

LEMMA ToolAnswersProperties ==
    ASSUME NEW calls \in Seq(CallIds), NEW sizes \in [1..Len(calls) -> ToolSizes]
    PROVE  /\ ToolAnswers(calls, sizes) \in Seq(Message)
           /\ Len(ToolAnswers(calls, sizes)) = Len(calls)
           /\ \A k \in 1..Len(calls) : /\ ToolAnswers(calls, sizes)[k].role = "tool"
                                        /\ ToolAnswers(calls, sizes)[k].cid = calls[k]
PROOF
<1>1. Len(calls) \in Nat /\ \A k \in 1..Len(calls) : calls[k] \in CallIds
  BY LenProperties, ElementOfSeq
<1>2. \A k \in 1..Len(calls) : ToolMsg(calls[k], sizes[k]) \in Message
  BY <1>1, BuiltMessages
<1>3. ToolAnswers(calls, sizes) \in Seq(Message)
  BY <1>1, <1>2, IsASeq DEF ToolAnswers
<1>4. Len(ToolAnswers(calls, sizes)) = Len(calls)
  BY <1>1, <1>3, LenProperties DEF ToolAnswers
<1> QED
  BY <1>3, <1>4 DEF ToolAnswers, ToolMsg

LEMMA CrystallizeTypes ==
    ASSUME CTypeOK, CNext
    PROVE  CTypeOK'
PROOF
<1> USE DEF CTypeOK
<1>1. ASSUME NEW format \in BOOLEAN, NEW outcome \in Outcomes, Asked(format, outcome)
      PROVE  exchanges' \in Seq(Exchange)
  <2>1. (attempt > 0) \in BOOLEAN
    OBVIOUS
  <2>2. [corrective |-> attempt > 0, format |-> format, outcome |-> outcome] \in Exchange
    BY <2>1, Zenon DEF Exchange
  <2> QED
    BY <1>1, <2>2, AppendProperties DEF Asked
<1>2. ASSUME NextAttempt
      PROVE  cphase' \in {"call", "done"} /\ attempt' \in Attempts
  BY <1>2 DEF NextAttempt
<1>3. Unusable \subseteq Outcomes
  BY DEF Unusable, Outcomes
<1>4. ASSUME NEW answer \in JsonAnswer, AnswerJson(answer)
      PROVE  CTypeOK'
  BY <1>4, <1>1 DEF AnswerJson, Outcomes
<1>5. ASSUME NEW outcome \in Unusable, AnswerUnusable(outcome)
      PROVE  CTypeOK'
  BY <1>5, <1>1, <1>2, <1>3 DEF AnswerUnusable
<1>6. CASE RefuseFormat
  BY <1>6, <1>1 DEF RefuseFormat, Outcomes
<1>7. CASE Reject
  BY <1>7, <1>1 DEF Reject, Outcomes
<1>8. CASE Fail
  BY <1>8, <1>1 DEF Fail, Outcomes
<1>9. ASSUME NEW outcome \in {"json"} \cup Unusable, InnerAnswered(outcome)
      PROVE  CTypeOK'
  <2>1. outcome \in Outcomes
    BY <1>3 DEF Outcomes
  <2> QED
    BY <1>9, <2>1, <1>1, <1>2 DEF InnerAnswered
<1>10. ASSUME NEW outcome \in {"rejected", "failed"}, InnerFail(outcome)
       PROVE  CTypeOK'
  BY <1>10, <1>1 DEF InnerFail, Outcomes
<1> QED
  BY <1>4, <1>5, <1>6, <1>7, <1>8, <1>9, <1>10 DEF CNext

\* The request of a step is made of positions of the conversation.
LEMMA RequestTypes ==
    ASSUME NEW ms, NEW S \in Requests(ms)
    PROVE  S \subseteq DOMAIN ms
  BY DEF Requests, Truncate, Without

LEMMA RouteTypes ==
    ASSUME NEW ms, NEW iter
    PROVE  RouteAfterLlm(ms, iter) \in Nodes
  BY DEF RouteAfterLlm, Nodes

\* The hint, where it is put.
LEMMA IntakeInserts ==
    ASSUME messages \in Seq(Message), Intake
    PROVE  /\ messages' \in Seq(Message)
           /\ DOMAIN messages \subseteq DOMAIN messages'
           /\ Paired(messages) => Paired(messages')
PROOF
<1> DEFINE n == LeadingSystem(messages)
           hint == SystemMsg("intake")
<1>1. n \in 0..Len(messages) /\ \A i \in 1..n : messages[i].role = "system"
  BY LeadingAreSystem
<1>2. hint \in Message /\ hint.role = "system"
  BY BuiltMessages DEF Texts
<1> HIDE DEF n, hint
<1>3. /\ Inserted(messages, n, hint) \in Seq(Message)
      /\ DOMAIN messages \subseteq DOMAIN Inserted(messages, n, hint)
  <2>1. Len(messages) \in Nat
    BY LenProperties
  <2> QED
    BY <2>1, <1>1, <1>2, InsertedProperties, SMTT(60)
<1>4. Paired(messages) => Paired(Inserted(messages, n, hint))
  BY <1>1, <1>2, InsertionKeepsPairs
<1>5. messages' \in {messages, Inserted(messages, n, hint)}
  BY DEF Intake, n, hint
<1> QED
  BY <1>3, <1>4, <1>5

\* A reply, appended.
LEMMA ReplyAppends ==
    ASSUME messages \in Seq(Message), NEW reply \in Replies, LlmReplies(reply)
    PROVE  /\ messages' \in Seq(Message)
           /\ Len(messages') = Len(messages) + 1
           /\ messages'[Len(messages')] = AssistantMsg(reply.calls, reply.text)
           /\ \A i \in DOMAIN messages : messages'[i] = messages[i]
           /\ DOMAIN messages = 1..Len(messages) /\ Len(messages) \in Nat
           /\ DOMAIN messages' = 1..(Len(messages) + 1)
PROOF
<1> DEFINE m == AssistantMsg(reply.calls, reply.text)
<1>1. m \in Message
  BY BuiltMessages
<1>2. messages' = Append(messages, m)
  BY DEF LlmReplies
<1> HIDE DEF m
<1>3. /\ Append(messages, m) \in Seq(Message)
      /\ Len(Append(messages, m)) = Len(messages) + 1
      /\ \A i \in 1..Len(messages) : Append(messages, m)[i] = messages[i]
      /\ Append(messages, m)[Len(messages) + 1] = m
  BY <1>1, AppendProperties
<1> QED
  BY <1>2, <1>3, LenProperties DEF m

\* A round of answers, appended.
LEMMA ExecuteToolsAppends ==
    ASSUME messages \in Seq(Message), messages # <<>>, ExecuteTools
    PROVE  \E answers \in Seq(Message) :
              LET calls == messages[Len(messages)].calls
              IN  /\ messages' = messages \o answers
                  /\ Len(answers) = Len(calls)
                  /\ \A k \in 1..Len(calls) : answers[k].role = "tool" /\ answers[k].cid = calls[k]
PROOF
<1> DEFINE calls == messages[Len(messages)].calls
<1>1. Len(messages) \in DOMAIN messages
  BY LenProperties, EmptySeq
<1>2. calls \in Seq(CallIds)
  BY <1>1, MessageFields
<1>3. PICK sizes \in [1..Len(calls) -> ToolSizes] :
          messages' = messages \o ToolAnswers(calls, sizes)
  BY DEF ExecuteTools
<1> HIDE DEF calls
<1>4. /\ ToolAnswers(calls, sizes) \in Seq(Message)
      /\ Len(ToolAnswers(calls, sizes)) = Len(calls)
      /\ \A k \in 1..Len(calls) : /\ ToolAnswers(calls, sizes)[k].role = "tool"
                                   /\ ToolAnswers(calls, sizes)[k].cid = calls[k]
  BY <1>2, ToolAnswersProperties
<1> QED
  BY <1>3, <1>4 DEF calls

---------------------------------------------------------------------------
(***************************************************************************)
(* The inductive invariant. A conversation is paired whenever the LLM is   *)
(* to be called; between its reply and the tools' answers all but the last *)
(* message is; and when the run ends it is paired exactly if the last      *)
(* reply requested nothing, or the run would have gone on.                 *)
(***************************************************************************)
FirstRequestToCome == node = "intake" => sent = {}

ConversationPaired == node \in {"intake", "llm_call"} => Paired(messages)

CallsOpen ==
    node = "execute_tools" =>
        /\ messages # <<>>
        /\ IsHead(messages[Len(messages)])
        /\ PairedOn(messages, 1..(Len(messages) - 1))

OutcomeAgrees ==
    node \in {"crystallize_report", "finalize", "end"} =>
        /\ last.calls # <<>> => iteration >= MaxIters
        /\ last.calls = <<>> <=> Paired(messages)

\* The mark of a fallback is that of the reply whose calls are recorded with it.
MarkAgrees ==
    /\ last.used = "layer1_no_tools_retry" => last.calls = <<>>
    /\ last.used = "layer2_regex_inject" => last.calls # <<>>

LoopInv ==
    /\ TypeOK
    /\ RequestsPaired
    /\ FirstRequestToCome
    /\ ConversationPaired
    /\ CallsOpen
    /\ OutcomeAgrees
    /\ MarkAgrees

LEMMA InvInitially == Init => LoopInv
PROOF
<1> SUFFICES ASSUME Init
             PROVE  LoopInv
  OBVIOUS
<1> USE DEF Init
<1>1. messages \in Seq(Message) /\ Paired(messages)
  BY InputsAssumption
<1>2. CTypeOK
  <2>1. <<>> \in Seq(Exchange)
    BY EmptySeq
  <2> QED
    BY <2>1 DEF CInit, CTypeOK, Attempts
<1>3. TypeOK
  <2>1. <<>> \in Seq(CallIds)
    BY EmptySeq
  <2> QED
    BY <1>1, <1>2, <2>1 DEF TypeOK, Nodes, Response, NoResponse, Fallbacks, Report, NoReport
<1>4. RequestsPaired
  BY DEF RequestsPaired, PairedOn, CallsAnswered, ToolsRequested
<1> QED
  BY <1>1, <1>3, <1>4 DEF LoopInv, FirstRequestToCome, ConversationPaired, CallsOpen, OutcomeAgrees,
         MarkAgrees, NoResponse

\* An action that leaves the conversation and the last request alone.
LEMMA NoNewMessages ==
    ASSUME LoopInv, UNCHANGED <<messages, sent>>
    PROVE  RequestsPaired'
  BY DEF LoopInv, RequestsPaired, PairedOn, CallsAnswered, ToolsRequested, Answers

LEMMA InvIntake == LoopInv /\ Intake => LoopInv'
PROOF
<1> SUFFICES ASSUME LoopInv, Intake
             PROVE  LoopInv'
  OBVIOUS
<1> USE DEF LoopInv
<1>1. /\ messages' \in Seq(Message)
      /\ DOMAIN messages \subseteq DOMAIN messages'
      /\ Paired(messages) => Paired(messages')
  BY IntakeInserts DEF TypeOK
<1>2. node = "intake" /\ node' = "llm_call" /\ UNCHANGED <<iteration, last, sent, report, cvars>>
  BY DEF Intake
<1>3. TypeOK'
  BY <1>1, <1>2 DEF TypeOK, Nodes, cvars, CTypeOK
<1>4. RequestsPaired'
  BY <1>2 DEF FirstRequestToCome, RequestsPaired, PairedOn, CallsAnswered, ToolsRequested
<1>5. Paired(messages)
  BY <1>2 DEF ConversationPaired
<1> QED
  BY <1>1, <1>2, <1>3, <1>4, <1>5
     DEF FirstRequestToCome, ConversationPaired, CallsOpen, OutcomeAgrees, MarkAgrees

\* Before a call of the LLM, whatever truncation does, the request is paired.
LEMMA RequestIsPaired ==
    ASSUME LoopInv, node = "llm_call", NEW S \in Requests(messages)
    PROVE  S \subseteq DOMAIN messages /\ PairedOn(messages, S) /\ Paired(messages)
PROOF
<1>1. messages \in Seq(Message) /\ Paired(messages)
  BY DEF LoopInv, TypeOK, ConversationPaired
<1> QED
  BY <1>1, TruncateKeepsPairs DEF Requests

LEMMA InvLlmReplies ==
    ASSUME LoopInv, NEW reply \in Replies, LlmReplies(reply)
    PROVE  LoopInv'
PROOF
<1> DEFINE m == AssistantMsg(reply.calls, reply.text)
<1> USE DEF LoopInv
<1>1. /\ node = "llm_call"
      /\ sent' \in Requests(messages)
      /\ last' = [kind |-> "reply", calls |-> reply.calls, used |-> reply.used]
      /\ iteration' = iteration + 1
      /\ node' = RouteAfterLlm(messages', iteration')
      /\ UNCHANGED <<report, cvars>>
  BY DEF LlmReplies
<1>2. sent' \subseteq DOMAIN messages /\ PairedOn(messages, sent') /\ Paired(messages)
  BY <1>1, RequestIsPaired
<1>3. /\ messages \in Seq(Message)
      /\ messages' \in Seq(Message)
      /\ Len(messages') = Len(messages) + 1
      /\ messages'[Len(messages')] = m
      /\ \A i \in DOMAIN messages : messages'[i] = messages[i]
      /\ DOMAIN messages = 1..Len(messages) /\ Len(messages) \in Nat
      /\ DOMAIN messages' = 1..(Len(messages) + 1)
  BY ReplyAppends DEF TypeOK
<1>4. m.role = "assistant" /\ m.calls = reply.calls /\ m \in Message
  BY BuiltMessages DEF AssistantMsg
<1>5. iteration \in Nat /\ iteration' \in Nat
  BY <1>1 DEF TypeOK
<1> HIDE DEF m
<1>6. TypeOK'
  <2>1. last' \in Response
    BY <1>1, LoopAssumption DEF Response, IsReply
  <2>2. node' \in Nodes
    BY <1>1, RouteTypes
  <2>3. sent' \subseteq DOMAIN messages'
    BY <1>2, <1>3
  <2> QED
    BY <1>1, <1>3, <1>5, <2>1, <2>2, <2>3 DEF TypeOK, cvars, CTypeOK
<1>7. RequestsPaired'
  <2>1. PairedOn(messages', sent')
    BY <1>2, <1>3, PairingIsLocal
  <2> QED
    BY <2>1 DEF RequestsPaired
<1>8. node' \in {"execute_tools", "crystallize_report"}
  BY <1>1 DEF RouteAfterLlm
<1>9. CallsOpen'
  <2> SUFFICES ASSUME node' = "execute_tools"
               PROVE  /\ messages' # <<>>
                      /\ IsHead(messages'[Len(messages')])
                      /\ PairedOn(messages', 1..(Len(messages') - 1))
    BY DEF CallsOpen
  <2>1. messages' # <<>> /\ IsHead(messages'[Len(messages')])
    BY <1>1 DEF RouteAfterLlm
  <2>2. PairedOn(messages', DOMAIN messages)
    BY <1>2, <1>3, PairingIsLocal DEF Paired
  <2>3. DOMAIN messages = 1..(Len(messages') - 1)
    BY <1>3
  <2> QED
    BY <2>1, <2>2, <2>3
<1>10. OutcomeAgrees'
  <2> SUFFICES ASSUME node' = "crystallize_report"
               PROVE  /\ last'.calls # <<>> => iteration' >= MaxIters
                      /\ last'.calls = <<>> <=> Paired(messages')
    BY <1>8 DEF OutcomeAgrees
  <2>1. last'.calls = reply.calls
    BY <1>1
  <2>2. messages' # <<>>
    BY <1>3, EmptySeq
  <2>3. IsHead(messages'[Len(messages')]) <=> reply.calls # <<>>
    BY <1>3, <1>4 DEF IsHead
  <2>4. ASSUME reply.calls # <<>>
        PROVE  iteration' >= MaxIters /\ ~ Paired(messages')
    <3>1. ~ (iteration' < MaxIters)
      BY <1>1, <2>2, <2>3, <2>4 DEF RouteAfterLlm
    <3>2. ~ Paired(messages')
      BY <1>3, <2>2, <2>3, <2>4, OpenCallsUnpaired
    <3> QED
      BY <3>1, <3>2, <1>5, LoopAssumption
  <2>5. ASSUME reply.calls = <<>>
        PROVE  Paired(messages')
    <3>1. ~ IsHead(m) /\ m.role # "tool"
      BY <1>4, <2>5 DEF IsHead
    <3>2. messages' = Append(messages, m)
      BY DEF LlmReplies, m
    <3> QED
      BY <1>2, <1>3, <1>4, <3>1, <3>2, AppendKeepsPairs
  <2> QED
    BY <2>1, <2>4, <2>5
<1>11. MarkAgrees'
  BY <1>1, LoopAssumption DEF MarkAgrees, IsReply
<1> QED
  BY <1>6, <1>7, <1>8, <1>9, <1>10, <1>11 DEF FirstRequestToCome, ConversationPaired

LEMMA InvLlmRepliesEmpty == LoopInv /\ LlmRepliesEmpty => LoopInv'
PROOF
<1> SUFFICES ASSUME LoopInv, LlmRepliesEmpty
             PROVE  LoopInv'
  OBVIOUS
<1> USE DEF LoopInv
<1>1. /\ node = "llm_call"
      /\ sent' \in Requests(messages)
      /\ last' = EmptyResponse
      /\ iteration' = iteration + 1
      /\ node' = RouteAfterLlm(messages, iteration')
      /\ UNCHANGED <<messages, report, cvars>>
  BY DEF LlmRepliesEmpty
<1>2. sent' \subseteq DOMAIN messages /\ PairedOn(messages, sent') /\ Paired(messages)
  BY <1>1, RequestIsPaired
<1>3. node' = "crystallize_report"
  <2>1. messages \in Seq(Message)
    BY DEF TypeOK
  <2>2. ~ (messages # <<>> /\ IsHead(messages[Len(messages)]))
    BY <1>2, <2>1, OpenCallsUnpaired
  <2> QED
    BY <1>1, <2>2 DEF RouteAfterLlm
<1>4. TypeOK'
  <2>1. last' \in Response
    BY <1>1, EmptySeq DEF EmptyResponse, Response, Fallbacks
  <2> QED
    BY <1>1, <1>2, <1>3, <2>1 DEF TypeOK, cvars, CTypeOK, Nodes
<1>5. RequestsPaired'
  BY <1>1, <1>2 DEF RequestsPaired, PairedOn, CallsAnswered, ToolsRequested, Answers
<1>6. OutcomeAgrees'
  BY <1>1, <1>2, <1>3 DEF OutcomeAgrees, EmptyResponse, Paired, PairedOn, CallsAnswered,
                          ToolsRequested, Answers
<1>7. MarkAgrees'
  BY <1>1 DEF MarkAgrees, EmptyResponse
<1> QED
  BY <1>3, <1>4, <1>5, <1>6, <1>7 DEF FirstRequestToCome, ConversationPaired, CallsOpen

LEMMA InvLlmRaises == LoopInv /\ LlmRaises => LoopInv'
PROOF
<1> SUFFICES ASSUME LoopInv, LlmRaises
             PROVE  LoopInv'
  OBVIOUS
<1> USE DEF LoopInv
<1>1. /\ node = "llm_call"
      /\ sent' \in Requests(messages)
      /\ node' = "aborted"
      /\ UNCHANGED <<messages, iteration, last, report, cvars>>
  BY DEF LlmRaises
<1>2. sent' \subseteq DOMAIN messages /\ PairedOn(messages, sent')
  BY <1>1, RequestIsPaired
<1>3. TypeOK'
  BY <1>1, <1>2 DEF TypeOK, cvars, CTypeOK, Nodes
<1>4. RequestsPaired'
  BY <1>1, <1>2 DEF RequestsPaired, PairedOn, CallsAnswered, ToolsRequested, Answers
<1> QED
  BY <1>1, <1>3, <1>4 DEF FirstRequestToCome, ConversationPaired, CallsOpen, OutcomeAgrees, MarkAgrees

LEMMA InvExecuteTools == LoopInv /\ ExecuteTools => LoopInv'
PROOF
<1> SUFFICES ASSUME LoopInv, ExecuteTools
             PROVE  LoopInv'
  OBVIOUS
<1> USE DEF LoopInv
<1>1. /\ node = "execute_tools"
      /\ node' = "llm_call"
      /\ UNCHANGED <<iteration, last, sent, report, cvars>>
  BY DEF ExecuteTools
<1>2. /\ messages \in Seq(Message)
      /\ messages # <<>>
      /\ IsHead(messages[Len(messages)])
      /\ PairedOn(messages, 1..(Len(messages) - 1))
  BY <1>1 DEF TypeOK, CallsOpen
<1>3. PICK answers \in Seq(Message) :
          /\ messages' = messages \o answers
          /\ Len(answers) = Len(messages[Len(messages)].calls)
          /\ \A k \in 1..Len(answers) : /\ answers[k].role = "tool"
                                         /\ answers[k].cid = messages[Len(messages)].calls[k]
  BY <1>2, ExecuteToolsAppends
<1>4. Paired(messages')
  BY <1>2, <1>3, AnswersPairTheCalls
<1>5. /\ messages' \in Seq(Message)
      /\ Len(messages) <= Len(messages')
      /\ \A i \in DOMAIN messages : messages'[i] = messages[i]
      /\ DOMAIN messages \subseteq DOMAIN messages'
  <2>1. /\ messages \o answers \in Seq(Message)
        /\ Len(messages \o answers) = Len(messages) + Len(answers)
        /\ \A i \in 1..(Len(messages) + Len(answers)) :
              (messages \o answers)[i] =
                  IF i <= Len(messages) THEN messages[i] ELSE answers[i - Len(messages)]
    BY <1>2, ConcatProperties
  <2>2. /\ Len(messages) \in Nat /\ Len(answers) \in Nat
        /\ DOMAIN messages = 1..Len(messages)
        /\ DOMAIN (messages \o answers) = 1..Len(messages \o answers)
    BY <1>2, <2>1, LenProperties
  <2> QED
    BY <1>3, <2>1, <2>2
<1>6. TypeOK'
  BY <1>1, <1>5 DEF TypeOK, cvars, CTypeOK, Nodes
<1>7. RequestsPaired'
  <2>1. sent \subseteq DOMAIN messages /\ PairedOn(messages, sent)
    BY DEF TypeOK, RequestsPaired
  <2>2. PairedOn(messages', sent)
    BY <1>2, <1>5, <2>1, PairingIsLocal
  <2> QED
    BY <1>1, <2>2 DEF RequestsPaired
<1> QED
  BY <1>1, <1>4, <1>6, <1>7 DEF FirstRequestToCome, ConversationPaired, CallsOpen, OutcomeAgrees, MarkAgrees

\* The types, behind the last call of the LLM and where a run ends.
LEMMA LaterTypes ==
    ASSUME TypeOK,
           \/ ExecuteToolsRaises
           \/ CrystallizeCall
           \/ CrystallizeRaises
           \/ CrystallizeReport
           \/ Finalize
           \/ UNCHANGED vars
    PROVE  TypeOK'
PROOF
<1>1. UNCHANGED <<messages, iteration, last, sent>>
  BY DEF ExecuteToolsRaises, CrystallizeCall, CrystallizeRaises, CrystallizeReport, Finalize,
         loopvars, vars
<1>2. \/ UNCHANGED node
      \/ node' = "aborted"
      \/ node = "crystallize_report" /\ node' = "finalize"
      \/ node = "finalize" /\ node' = "end"
  BY DEF ExecuteToolsRaises, CrystallizeCall, CrystallizeRaises, CrystallizeReport, Finalize,
         loopvars, vars
<1>3. CTypeOK'
  <2>1. CASE CrystallizeCall
    BY <2>1, CrystallizeTypes DEF TypeOK, CrystallizeCall
  <2>2. CASE UNCHANGED cvars
    BY <2>2 DEF TypeOK, CTypeOK, cvars
  <2> QED
    BY <2>1, <2>2 DEF ExecuteToolsRaises, CrystallizeRaises, CrystallizeReport, Finalize, vars
<1>4. report' \in Report
  <2>1. CASE UNCHANGED report
    BY <2>1 DEF TypeOK
  <2>2. CASE CrystallizeReport
    <3>1. LastAnswer(messages) \in Nat
      BY LastAnswerType, LenProperties DEF TypeOK
    <3>2. parsed.json \in BOOLEAN
      <4>1. parsed \in JsonAnswer \cup {Unparsed}
        BY DEF TypeOK, CTypeOK
      <4>2. \A answer \in JsonAnswer : answer.json \in BOOLEAN
        BY Zenon DEF JsonAnswer
      <4>3. Unparsed.json \in BOOLEAN
        BY DEF Unparsed
      <4> QED
        BY ONLY <4>1, <4>2, <4>3, Zenon
    <3>3. Location(messages) \in {"json", "answer", "traceback", "none"}
      BY DEF Location
    <3> QED
      BY <2>2, <3>1, <3>2, <3>3, Zenon DEF CrystallizeReport, Report
  <2> QED
    BY <2>1, <2>2 DEF ExecuteToolsRaises, CrystallizeCall, CrystallizeRaises, Finalize,
                      loopvars, vars
<1> QED
  BY <1>1, <1>2, <1>3, <1>4 DEF TypeOK, Nodes

\* The steps behind the last call of the LLM, and the ends of a run.
LEMMA InvLater ==
    ASSUME LoopInv,
           \/ ExecuteToolsRaises
           \/ CrystallizeCall
           \/ CrystallizeRaises
           \/ CrystallizeReport
           \/ Finalize
           \/ UNCHANGED vars
    PROVE  LoopInv'
PROOF
<1> USE DEF LoopInv
<1>1. UNCHANGED <<messages, iteration, last, sent>>
  BY DEF ExecuteToolsRaises, CrystallizeCall, CrystallizeRaises, CrystallizeReport, Finalize,
         loopvars, vars
<1>2. \/ UNCHANGED node
      \/ node' = "aborted"
      \/ node = "crystallize_report" /\ node' = "finalize"
      \/ node = "finalize" /\ node' = "end"
  BY DEF ExecuteToolsRaises, CrystallizeCall, CrystallizeRaises, CrystallizeReport, Finalize,
         loopvars, vars
<1>5. TypeOK'
  BY LaterTypes
<1>6. RequestsPaired'
  BY <1>1, NoNewMessages
<1>7. Paired(messages)' <=> Paired(messages)
  BY <1>1 DEF Paired, PairedOn, CallsAnswered, ToolsRequested, Answers
<1>8. PairedOn(messages, 1..(Len(messages) - 1))' <=> PairedOn(messages, 1..(Len(messages) - 1))
  BY <1>1 DEF PairedOn, CallsAnswered, ToolsRequested, Answers
<1> QED
  BY <1>1, <1>2, <1>5, <1>6, <1>7, <1>8
     DEF FirstRequestToCome, ConversationPaired, CallsOpen, OutcomeAgrees, MarkAgrees

\* Every step of the run, and every stuttering one.
LEMMA InvStep == LoopInv /\ [Next]_vars => LoopInv'
  BY InvIntake, InvLlmReplies, InvLlmRepliesEmpty, InvLlmRaises, InvExecuteTools, InvLater
     DEF Next, LoopStep, Stopped

LEMMA Invariance == Spec => []LoopInv
PROOF
<1>1. Init => LoopInv
  BY InvInitially
<1>2. LoopInv /\ [Next]_vars => LoopInv'
  BY InvStep
<1> QED
  BY <1>1, <1>2, PTL DEF Spec

---------------------------------------------------------------------------
\* The variables have their types (AgentLoop, TypeOK) in every run.
THEOREM TypeCorrect == Spec => []TypeOK
PROOF
<1>1. LoopInv => TypeOK
  BY DEF LoopInv
<1> QED
  BY <1>1, Invariance, PTL

(***************************************************************************)
(* No request of any run separates a tool call from its answers, however   *)
(* long the conversation, whatever the limit, wherever the count fails.    *)
(***************************************************************************)
THEOREM RequestsArePaired == Spec => []RequestsPaired
PROOF
<1>1. LoopInv => RequestsPaired
  BY DEF LoopInv
<1> QED
  BY <1>1, Invariance, PTL

(***************************************************************************)
(* terminated_reason is "final" exactly for a conversation without open    *)
(* tool calls, for every max_iters, 0 included.                            *)
(***************************************************************************)
THEOREM ReasonIsTrue == Spec => []ReasonTellsPairing
PROOF
<1>1. LoopInv => ReasonTellsPairing
  <2> SUFFICES ASSUME LoopInv, node = "end"
               PROVE  TerminatedReason = "final" <=> Paired(messages)
    BY DEF ReasonTellsPairing
  <2>1. iteration \in Nat /\ MaxIters \in Nat
    BY LoopAssumption DEF LoopInv, TypeOK
  <2>2. /\ last.calls # <<>> => iteration >= MaxIters
        /\ last.calls = <<>> <=> Paired(messages)
    BY DEF LoopInv, OutcomeAgrees
  <2>3. Iterations >= MaxIters <=> iteration >= MaxIters
    BY <2>1 DEF Iterations
  <2> QED
    BY <2>2, <2>3 DEF TerminatedReason
<1> QED
  BY <1>1, Invariance, PTL

(***************************************************************************)
(* The header of a fallback tells how the run ended, for every provider:   *)
(* calls of a text left unanswered, or an answer given without tools.      *)
(***************************************************************************)
THEOREM HeaderIsTrue == Spec => []HeaderTellsEnd
PROOF
<1>1. LoopInv => HeaderTellsEnd
  <2> SUFFICES ASSUME LoopInv, node = "end"
               PROVE  /\ last.used = "layer2_regex_inject" =>
                            TerminatedReason = "max_iters" /\ ~ Paired(messages)
                      /\ last.used = "layer1_no_tools_retry" =>
                            TerminatedReason = "final" /\ Paired(messages)
    BY DEF HeaderTellsEnd, FallbackHeader
  <2>1. /\ last.calls # <<>> => iteration >= MaxIters
        /\ last.calls = <<>> <=> Paired(messages)
    BY DEF LoopInv, OutcomeAgrees
  <2>2. iteration \in Nat /\ MaxIters \in Nat
    BY LoopAssumption DEF LoopInv, TypeOK
  <2>3. TerminatedReason = IF last.calls # <<>> THEN "max_iters" ELSE "final"
    BY <2>1, <2>2 DEF TerminatedReason, Iterations
  <2> QED
    BY <2>1, <2>3 DEF LoopInv, MarkAgrees
<1> QED
  BY <1>1, Invariance, PTL

(***************************************************************************)
(* Truncation keeps the two latest rounds of tools and all that belongs to *)
(* none, in every request of every run.                                    *)
(***************************************************************************)
THEOREM RecentContextIsSent == Spec => RecentContextSent
PROOF
<1>1. ASSUME LoopInv, NEW limit, NEW failAt, NEW p \in MustSend(messages)
      PROVE  p \in Truncate(messages, limit, failAt)
  <2>1. messages \in Seq(Message)
    BY <1>1 DEF LoopInv, TypeOK
  <2>2. p \in DOMAIN messages
    BY DEF MustSend, LatestRounds, Group, Heads
  <2> SUFFICES ASSUME p \notin Truncate(messages, limit, failAt)
               PROVE  FALSE
    OBVIOUS
  <2>3. PICK h \in Heads(messages) :
            /\ p \in Group(messages, h)
            /\ Cardinality({g \in Heads(messages) : g > h}) >= 2
    BY <2>1, <2>2, OnlyOldGroupsGo
  <2>4. PICK r \in LatestRounds(messages) : p \in Group(messages, r)
    BY <2>3 DEF MustSend
  <2>5. r \in Heads(messages) /\ Cardinality({g \in Heads(messages) : g > r}) < 2
    BY DEF LatestRounds
  <2>6. h = r
    BY <2>1, <2>3, <2>4, <2>5, GroupsAreDisjoint
  <2>7. Cardinality({g \in Heads(messages) : g > r}) \in Nat
    <3>1. IsFiniteSet(1..Len(messages)) /\ Heads(messages) \subseteq 1..Len(messages)
      <4>1. DOMAIN messages = 1..Len(messages) /\ Len(messages) \in Int
        BY <2>1, LenProperties
      <4>2. IsFiniteSet(1..Len(messages))
        BY <4>1, FS_Interval
      <4> QED
        BY <4>1, <4>2 DEF Heads
    <3>2. IsFiniteSet({g \in Heads(messages) : g > r})
      BY <3>1, FS_Subset
    <3> QED
      BY <3>2, FS_CardinalityType
  <2> QED
    BY <2>3, <2>5, <2>6, <2>7
<1>2. ASSUME LoopInv, Next, iteration' # iteration
      PROVE  sent' \in Requests(messages)
  <2>1. iteration \in Nat
    BY <1>2 DEF LoopInv, TypeOK
  <2> QED
    BY <1>2, <2>1 DEF Next, LoopStep, Stopped, Intake, LlmReplies, LlmRepliesEmpty, LlmRaises,
        ExecuteTools, ExecuteToolsRaises, CrystallizeCall, CrystallizeRaises, CrystallizeReport,
        Finalize, vars, loopvars
<1>3. LoopInv /\ [Next]_vars
        => [iteration' # iteration => MustSend(messages) \subseteq sent']_vars
  BY <1>1, <1>2 DEF Requests
<1> QED
  BY <1>3, Invariance, PTL DEF Spec, RecentContextSent

(***************************************************************************)
(* The conversation a run returns extends the one the intake node made;    *)
(* no truncation ever shows in it.                                         *)
(***************************************************************************)
THEOREM ConversationGrows == Spec => ConversationOnlyGrows
PROOF
<1> DEFINE Extends == /\ Len(messages) <= Len(messages')
                      /\ \A i \in DOMAIN messages : messages'[i] = messages[i]
<1>1. ASSUME LoopInv, Next, node # "intake"
      PROVE  Extends
  <2>1. messages \in Seq(Message) /\ Len(messages) \in Nat
    BY <1>1, LenProperties DEF LoopInv, TypeOK
  <2>2. CASE \E reply \in Replies : LlmReplies(reply)
    BY <2>1, <2>2, ReplyAppends
  <2>3. CASE ExecuteTools
    <3>1. messages # <<>>
      BY <1>1, <2>3 DEF LoopInv, CallsOpen, ExecuteTools
    <3>2. PICK answers \in Seq(Message) : messages' = messages \o answers
      BY <2>1, <2>3, <3>1, ExecuteToolsAppends
    <3>3. /\ Len(messages \o answers) = Len(messages) + Len(answers)
          /\ \A i \in 1..(Len(messages) + Len(answers)) :
                (messages \o answers)[i] =
                    IF i <= Len(messages) THEN messages[i] ELSE answers[i - Len(messages)]
      BY <2>1, ConcatProperties
    <3>4. Len(answers) \in Nat /\ DOMAIN messages = 1..Len(messages)
      BY <2>1, LenProperties
    <3> QED
      BY <2>1, <3>2, <3>3, <3>4
  <2>4. CASE UNCHANGED messages
    BY <2>1, <2>4
  <2> QED
    BY <1>1, <2>2, <2>3, <2>4 DEF Next, LoopStep, Stopped, Intake, LlmRepliesEmpty, LlmRaises,
        ExecuteToolsRaises, CrystallizeCall, CrystallizeRaises, CrystallizeReport, Finalize,
        vars, loopvars
<1>2. LoopInv /\ [Next]_vars => [node # "intake" => Extends]_vars
  BY <1>1
<1> QED
  BY <1>2, Invariance, PTL DEF Spec, ConversationOnlyGrows

---------------------------------------------------------------------------
(***************************************************************************)
(* The exchanges of crystallize_report. Which answers get parsed depends   *)
(* on where the two nested try statements were left; this is what holds    *)
(* between two calls.                                                      *)
(***************************************************************************)
RefusalIsKept ==
    \A i \in DOMAIN exchanges : exchanges[i].outcome = "format" => ~ formatOk

LastIsParsed ==
    /\ cphase # "call" => Len(exchanges) > 0
    /\ cphase \in {"call", "inner"} => ~ parsed.json
    /\ cphase = "call" /\ Len(exchanges) > 0 => exchanges[Len(exchanges)].outcome # "format"
    /\ cphase = "inner" => exchanges[Len(exchanges)].outcome = "format"
    /\ Len(exchanges) > 0 =>
          (parsed.json <=> /\ exchanges[Len(exchanges)].outcome = "json"
                           /\ ~ (Len(exchanges) > 1 /\
                                   exchanges[Len(exchanges) - 1].outcome = "format"))

ReportIsOfParsed ==
    node \in {"finalize", "end"} => cphase = "done" /\ report.json = parsed.json

ExchangesInv ==
    FormatNotSentAfterRefusal /\ RefusalIsKept /\ LastIsParsed /\ ReportIsOfParsed

\* A call is recorded behind those made before.
LEMMA AskedAppends ==
    ASSUME CTypeOK, NEW format, NEW outcome, Asked(format, outcome)
    PROVE  /\ Len(exchanges) \in Nat
           /\ DOMAIN exchanges = 1..Len(exchanges)
           /\ Len(exchanges') = Len(exchanges) + 1
           /\ DOMAIN exchanges' = 1..(Len(exchanges) + 1)
           /\ \A i \in DOMAIN exchanges : exchanges'[i] = exchanges[i]
           /\ exchanges'[Len(exchanges')].format = format
           /\ exchanges'[Len(exchanges')].outcome = outcome
           /\ Len(exchanges) > 0 =>
                 exchanges'[Len(exchanges') - 1] = exchanges[Len(exchanges)]
<1> DEFINE e == [corrective |-> attempt > 0, format |-> format, outcome |-> outcome]
<1>1. exchanges' = Append(exchanges, e)
  BY DEF Asked
<1>2. e.format = format /\ e.outcome = outcome
  OBVIOUS
<1> HIDE DEF e
<1> QED
  BY <1>1, <1>2 DEF CTypeOK

\* A call that sends the format only where it may, and whose refusal clears the flag.
LEMMA AskedKeepsRefusals ==
    ASSUME CTypeOK, FormatNotSentAfterRefusal, RefusalIsKept,
           NEW format \in BOOLEAN, NEW outcome, Asked(format, outcome),
           format => formatOk,
           formatOk' => formatOk /\ outcome # "format"
    PROVE  FormatNotSentAfterRefusal' /\ RefusalIsKept'
BY AskedAppends DEF FormatNotSentAfterRefusal, RefusalIsKept

LEMMA CallsKeepRefusals ==
    ASSUME CTypeOK, FormatNotSentAfterRefusal, RefusalIsKept, CNext
    PROVE  FormatNotSentAfterRefusal' /\ RefusalIsKept'
<1>1. formatOk \in BOOLEAN /\ "format" \notin Unusable
  BY DEF CTypeOK, Unusable
<1>2. ASSUME NEW answer \in JsonAnswer, AnswerJson(answer)
      PROVE  FormatNotSentAfterRefusal' /\ RefusalIsKept'
  BY <1>1, <1>2, AskedKeepsRefusals DEF AnswerJson
<1>3. ASSUME NEW outcome \in Unusable, AnswerUnusable(outcome)
      PROVE  FormatNotSentAfterRefusal' /\ RefusalIsKept'
  BY <1>1, <1>3, AskedKeepsRefusals DEF AnswerUnusable
<1>4. CASE RefuseFormat
  BY <1>4, AskedKeepsRefusals DEF RefuseFormat
<1>5. CASE Reject
  BY <1>1, <1>5, AskedKeepsRefusals DEF Reject
<1>6. CASE Fail
  BY <1>1, <1>6, AskedKeepsRefusals DEF Fail
<1>7. ASSUME NEW outcome \in {"json"} \cup Unusable, InnerAnswered(outcome)
      PROVE  FormatNotSentAfterRefusal' /\ RefusalIsKept'
  BY <1>1, <1>7, AskedKeepsRefusals DEF InnerAnswered
<1>8. ASSUME NEW outcome \in {"rejected", "failed"}, InnerFail(outcome)
      PROVE  FormatNotSentAfterRefusal' /\ RefusalIsKept'
  BY <1>8, AskedKeepsRefusals DEF InnerFail
<1> QED
  BY <1>2, <1>3, <1>4, <1>5, <1>6, <1>7, <1>8 DEF CNext

LEMMA CallsKeepLast ==
    ASSUME CTypeOK, LastIsParsed, CNext
    PROVE  LastIsParsed'
<1>1. "format" \notin Unusable /\ "json" \notin Unusable
  BY DEF Unusable
<1>2. ASSUME NextAttempt PROVE cphase' \in {"call", "done"}
  BY <1>2 DEF NextAttempt
<1>3. ASSUME NEW answer \in JsonAnswer, AnswerJson(answer)
      PROVE  LastIsParsed'
  <2>1. answer.json
    BY DEF JsonAnswer
  <2>2. Asked(formatOk, "json")
    BY <1>3 DEF AnswerJson
  <2> QED
    BY <1>3, <2>1, <2>2, AskedAppends DEF AnswerJson, LastIsParsed
<1>4. ASSUME NEW outcome \in Unusable, AnswerUnusable(outcome)
      PROVE  LastIsParsed'
  <2>1. Asked(formatOk, outcome)
    BY <1>4 DEF AnswerUnusable
  <2> QED
    BY <1>1, <1>2, <1>4, <2>1, AskedAppends DEF AnswerUnusable, LastIsParsed
<1>5. CASE RefuseFormat
  <2>1. PICK format \in BOOLEAN : Asked(format, "format")
    BY <1>5 DEF RefuseFormat
  <2> QED
    BY <1>5, <2>1, AskedAppends DEF RefuseFormat, LastIsParsed
<1>6. CASE Reject
  <2>1. Asked(formatOk, "rejected")
    BY <1>6 DEF Reject
  <2> QED
    BY <1>6, <2>1, AskedAppends DEF Reject, LastIsParsed
<1>7. CASE Fail
  <2>1. Asked(formatOk, "failed")
    BY <1>7 DEF Fail
  <2> QED
    BY <1>7, <2>1, AskedAppends DEF Fail, LastIsParsed
<1>8. ASSUME NEW outcome \in {"json"} \cup Unusable, InnerAnswered(outcome)
      PROVE  LastIsParsed'
  <2>1. PICK format \in BOOLEAN : Asked(format, outcome) /\ outcome # "format"
    BY <1>1, <1>8 DEF InnerAnswered
  <2> QED
    BY <1>2, <1>8, <2>1, AskedAppends DEF InnerAnswered, LastIsParsed
<1>9. ASSUME NEW outcome \in {"rejected", "failed"}, InnerFail(outcome)
      PROVE  LastIsParsed'
  <2>1. PICK format \in BOOLEAN : Asked(format, outcome)
    BY <1>9 DEF InnerFail
  <2> QED
    BY <1>9, <2>1, AskedAppends DEF InnerFail, LastIsParsed
<1> QED
  BY <1>3, <1>4, <1>5, <1>6, <1>7, <1>8, <1>9 DEF CNext

LEMMA ExchangesInitially == Init => ExchangesInv
BY DEF Init, CInit, Unparsed, ExchangesInv, FormatNotSentAfterRefusal, RefusalIsKept,
       LastIsParsed, ReportIsOfParsed

LEMMA ExchangesStep == TypeOK /\ ExchangesInv /\ [Next]_vars => ExchangesInv'
<1> SUFFICES ASSUME TypeOK, ExchangesInv, [Next]_vars PROVE ExchangesInv'
  OBVIOUS
<1>1. CASE CrystallizeCall
  <2>1. CTypeOK /\ CNext /\ node' = "crystallize_report"
    BY <1>1 DEF TypeOK, CrystallizeCall, loopvars
  <2> QED
    BY <2>1, CallsKeepRefusals, CallsKeepLast DEF ExchangesInv, ReportIsOfParsed
<1>2. ASSUME UNCHANGED cvars
      PROVE  FormatNotSentAfterRefusal' /\ RefusalIsKept' /\ LastIsParsed'
  BY <1>2 DEF ExchangesInv, FormatNotSentAfterRefusal, RefusalIsKept, LastIsParsed, cvars
<1>3. ASSUME NEW iter PROVE RouteAfterLlm(messages', iter) \notin {"finalize", "end"}
  BY DEF RouteAfterLlm
<1>4. ASSUME NEW iter PROVE RouteAfterLlm(messages, iter) \notin {"finalize", "end"}
  BY DEF RouteAfterLlm
<1>5. ASSUME NEW reply \in Replies, LlmReplies(reply) PROVE ExchangesInv'
  BY <1>2, <1>3, <1>5 DEF LlmReplies, ExchangesInv, ReportIsOfParsed
<1>6. CASE LlmRepliesEmpty
  BY <1>2, <1>4, <1>6 DEF LlmRepliesEmpty, ExchangesInv, ReportIsOfParsed
<1>7. CASE Intake \/ LlmRaises \/ ExecuteTools \/ ExecuteToolsRaises \/ CrystallizeRaises
  <2>1. UNCHANGED cvars /\ node' \notin {"finalize", "end"}
    BY <1>7 DEF Intake, LlmRaises, ExecuteTools, ExecuteToolsRaises, CrystallizeRaises
  <2> QED
    BY <1>2, <2>1 DEF ExchangesInv, ReportIsOfParsed
<1>8. CASE CrystallizeReport
  <2>1. report'.json = parsed.json
    BY <1>8 DEF CrystallizeReport
  <2> QED
    BY <1>2, <1>8, <2>1 DEF CrystallizeReport, ExchangesInv, ReportIsOfParsed, cvars
<1>9. CASE Finalize
  BY <1>2, <1>9 DEF Finalize, ExchangesInv, ReportIsOfParsed, cvars
<1>10. CASE UNCHANGED vars
  BY <1>2, <1>10 DEF vars, loopvars, ExchangesInv, ReportIsOfParsed, cvars
<1> QED
  BY <1>1, <1>5, <1>6, <1>7, <1>8, <1>9, <1>10 DEF Next, LoopStep, Stopped

LEMMA ExchangesAlways == Spec => []ExchangesInv
BY ExchangesInitially, ExchangesStep, TypeCorrect, PTL DEF Spec

(***************************************************************************)
(* A model that refused response_format is not sent it again, in whatever  *)
(* attempt (core.py, _response_format_supported).                          *)
(***************************************************************************)
THEOREM FormatIsRefusedOnce == Spec => []FormatNotSentAfterRefusal
BY ExchangesAlways, PTL DEF ExchangesInv

(***************************************************************************)
(* A report has parsed fields exactly when the last exchange was answered  *)
(* in JSON, and was none whose answer is dropped.                          *)
(***************************************************************************)
THEOREM ReportIsOfLastAnswer == Spec => []ReportFromLastAnswer
<1>1. TypeOK /\ ExchangesInv => ReportFromLastAnswer
  BY DEF ExchangesInv, LastIsParsed, ReportIsOfParsed, ReportFromLastAnswer
<1> QED
  BY <1>1, ExchangesAlways, TypeCorrect, PTL

---------------------------------------------------------------------------
(* How a run ends, and what it may cost.                                   *)

\* StepsLeft, node by node, and ExchangesLeft, phase by phase.
StepsAre ==
    /\ CallsLeft \in Nat \ {0}
    /\ StepsLeft \in Nat
    /\ node = "intake" => StepsLeft = 2 * CallsLeft + 2
    /\ node = "llm_call" => StepsLeft = 2 * CallsLeft + 1
    /\ node = "execute_tools" => StepsLeft = 2 * CallsLeft + 2
    /\ node = "crystallize_report" => StepsLeft = 2
    /\ node = "finalize" => StepsLeft = 1
    /\ node \in {"end", "aborted"} => StepsLeft = 0

ExchangesAre ==
    /\ attempt \in {0, 1} /\ ExchangesLeft \in Nat
    /\ cphase = "call" => ExchangesLeft = (1 - attempt) + (IF formatOk THEN 2 ELSE 1)
    /\ cphase = "inner" => ExchangesLeft = (1 - attempt) + 1
    /\ cphase \in {"done", "raised"} => ExchangesLeft = 0

LEMMA StepsLeftAt == TypeOK => StepsAre
<1> SUFFICES ASSUME TypeOK PROVE StepsAre
  OBVIOUS
<1>1. CallsLeft \in Nat \ {0}
  BY LoopAssumption DEF TypeOK, CallsLeft
<1>2. node \in Nodes
  BY DEF TypeOK
<1> QED
  BY <1>1, <1>2 DEF StepsLeft, Nodes, StepsAre

\* The same of the state after a step.
LEMMA StepsLeftNext == TypeOK' => StepsAre'
BY StepsLeftAt, PTL

LEMMA ExchangesLeftAt == CTypeOK => ExchangesAre
<1> SUFFICES ASSUME CTypeOK PROVE ExchangesAre
  OBVIOUS
<1>1. attempt \in {0, 1}
  BY DEF CTypeOK, Attempts
<1> DEFINE later == IF attempt = 0 THEN 1 ELSE 0
<1>2. later = 1 - attempt /\ later \in Nat
  BY <1>1
<1> HIDE DEF later
<1>3. ExchangesLeft = [call |-> later + (IF formatOk THEN 2 ELSE 1), inner |-> later + 1,
                       done |-> 0, raised |-> 0][cphase]
  BY DEF ExchangesLeft, later
<1>4. cphase \in {"call", "inner", "done", "raised"}
  BY DEF CTypeOK
<1> QED
  BY <1>1, <1>2, <1>3, <1>4 DEF ExchangesAre

LEMMA ExchangesLeftNext == CTypeOK' => ExchangesAre'
BY ExchangesLeftAt, PTL

\* A prompt-only repetition is made only once the format was refused.
LEMMA RepeatedAfterRefusal ==
    CTypeOK /\ ExchangesInv => (cphase = "inner" => formatOk = FALSE)
<1> SUFFICES ASSUME CTypeOK, ExchangesInv, cphase = "inner" PROVE formatOk = FALSE
  OBVIOUS
<1>1. Len(exchanges) > 0 /\ exchanges[Len(exchanges)].outcome = "format"
  BY DEF ExchangesInv, LastIsParsed
<1>2. Len(exchanges) \in DOMAIN exchanges
  BY <1>1 DEF CTypeOK
<1> QED
  BY <1>1, <1>2 DEF ExchangesInv, RefusalIsKept, CTypeOK

(***************************************************************************)
(* Every exchange leaves fewer of them: it counts that a second attempt    *)
(* behind a refusal is a single call.                                      *)
(***************************************************************************)
LEMMA ExchangesRunOut ==
    ASSUME CTypeOK, CTypeOK', ExchangesInv, CNext
    PROVE  /\ ExchangesLeft \in Nat /\ ExchangesLeft' \in Nat
           /\ ExchangesLeft' < ExchangesLeft
           /\ Len(exchanges') = Len(exchanges) + 1
<1>1. \E format, outcome : Asked(format, outcome)
  BY DEF CNext, AnswerJson, AnswerUnusable, RefuseFormat, Reject, Fail, InnerAnswered, InnerFail
<1>2. Len(exchanges') = Len(exchanges) + 1
  BY <1>1, AskedAppends
<1>3. ExchangesAre /\ ExchangesAre'
  BY ExchangesLeftAt, ExchangesLeftNext
<1>4. formatOk \in BOOLEAN
  BY DEF CTypeOK
<1>5. ExchangesLeft' < ExchangesLeft
  <2>1. ASSUME NextAttempt, UNCHANGED formatOk, cphase \in {"call", "inner"}
        PROVE  ExchangesLeft' < ExchangesLeft
    <3>1. CASE attempt = 0
      <4>1. cphase' = "call" /\ attempt' = 1
        BY <2>1, <3>1 DEF NextAttempt, Attempts
      <4> DEFINE calls == IF formatOk THEN 2 ELSE 1
      <4>2. calls \in {1, 2}
        OBVIOUS
      <4>3. calls' = calls
        BY <2>1
      <4>4. cphase = "call" => ExchangesLeft = (1 - attempt) + calls
        BY <1>3 DEF ExchangesAre
      <4>5. ExchangesLeft' = (1 - attempt') + calls'
        BY <1>3, <4>1 DEF ExchangesAre
      <4> HIDE DEF calls
      <4>6. ExchangesLeft' = calls
        BY <4>1, <4>2, <4>3, <4>5
      <4>7. CASE cphase = "call"
        BY <3>1, <4>2, <4>4, <4>6, <4>7
      <4>8. CASE cphase = "inner"
        <5>1. calls = 1
          BY <4>8, RepeatedAfterRefusal DEF calls
        <5> QED
          BY <1>3, <3>1, <4>6, <4>8, <5>1 DEF ExchangesAre
      <4> QED
        BY <2>1, <4>7, <4>8
    <3>2. CASE attempt = 1
      <4>1. cphase' = "done"
        BY <2>1, <3>2 DEF NextAttempt, Attempts
      <4> QED
        BY <1>3, <1>4, <2>1, <3>2, <4>1 DEF ExchangesAre
    <3> QED
      BY <1>3, <3>1, <3>2 DEF ExchangesAre
  <2>2. CASE \/ \E outcome \in Unusable : AnswerUnusable(outcome)
             \/ \E outcome \in {"json"} \cup Unusable : InnerAnswered(outcome)
    BY <2>1, <2>2 DEF AnswerUnusable, InnerAnswered
  <2>3. CASE RefuseFormat
    BY <1>3, <2>3 DEF RefuseFormat, ExchangesAre
  <2>4. CASE \/ \E answer \in JsonAnswer : AnswerJson(answer)
             \/ Reject
             \/ Fail
             \/ \E outcome \in {"rejected", "failed"} : InnerFail(outcome)
    <3>1. cphase \in {"call", "inner"} /\ cphase' \in {"done", "raised"}
      BY <2>4 DEF AnswerJson, Reject, Fail, InnerFail
    <3> QED
      BY <1>3, <1>4, <3>1 DEF ExchangesAre
  <2> QED
    BY <2>2, <2>3, <2>4 DEF CNext
<1> QED
  BY <1>2, <1>3, <1>5 DEF ExchangesAre

\* A reply, or a response without choices, uses one of the calls left.
LEMMA CallIsUsed ==
    ASSUME TypeOK, TypeOK', node = "llm_call", iteration' = iteration + 1, NEW ms,
           node' = RouteAfterLlm(ms, iteration')
    PROVE  StepsLeft' < StepsLeft
<1>1. CASE node' = "execute_tools"
  <2>1. iteration' < MaxIters
    BY <1>1 DEF RouteAfterLlm
  <2>2. CallsLeft' = CallsLeft - 1
    BY <2>1, LoopAssumption DEF CallsLeft, TypeOK
  <2> QED
    BY <1>1, <2>2, StepsLeftAt, StepsLeftNext DEF StepsAre
<1>2. CASE node' = "crystallize_report"
  BY <1>2, StepsLeftAt, StepsLeftNext DEF StepsAre
<1> QED
  BY <1>1, <1>2 DEF RouteAfterLlm

(***************************************************************************)
(* The variant of a run (core.py, build_agent_graph and the for statement  *)
(* of _crystallize_report_node): whatever the LLM and the tools answer,    *)
(* every step makes what is left of the run shorter. With the fairness of  *)
(* Spec that is why every run ends.                                        *)
(***************************************************************************)
THEOREM RunIsShortened == Spec => RunGetsShorter
<1> DEFINE Shorter == \/ StepsLeft' < StepsLeft
                      \/ StepsLeft' = StepsLeft /\ ExchangesLeft' < ExchangesLeft
<1>1. TypeOK /\ TypeOK' /\ ExchangesInv /\ [Next]_vars => [Shorter]_vars
  <2> SUFFICES ASSUME TypeOK, TypeOK', ExchangesInv, Next, vars' # vars PROVE Shorter
    OBVIOUS
  <2>1. CASE CrystallizeCall
    <3>1. CTypeOK /\ CTypeOK' /\ CNext /\ StepsLeft' = StepsLeft
      BY <2>1 DEF TypeOK, CrystallizeCall, loopvars, StepsLeft, CallsLeft
    <3> QED
      BY <3>1, ExchangesRunOut
  <2>2. ASSUME NEW reply \in Replies, LlmReplies(reply) PROVE Shorter
    BY <2>2, CallIsUsed DEF LlmReplies
  <2>3. CASE LlmRepliesEmpty
    BY <2>3, CallIsUsed DEF LlmRepliesEmpty
  <2>4. CASE Intake \/ ExecuteTools
    <3>1. CallsLeft' = CallsLeft
      BY <2>4 DEF Intake, ExecuteTools, CallsLeft
    <3> QED
      BY <2>4, <3>1, StepsLeftAt, StepsLeftNext DEF Intake, ExecuteTools, StepsAre
  <2>5. CASE LlmRaises \/ ExecuteToolsRaises \/ CrystallizeRaises
    BY <2>5, StepsLeftAt, StepsLeftNext
       DEF LlmRaises, ExecuteToolsRaises, CrystallizeRaises, StepsAre
  <2>6. CASE CrystallizeReport \/ Finalize
    BY <2>6, StepsLeftAt, StepsLeftNext DEF CrystallizeReport, Finalize, StepsAre
  <2> QED
    BY <2>1, <2>2, <2>3, <2>4, <2>5, <2>6 DEF Next, LoopStep, Stopped
<1> QED
  BY <1>1, TypeCorrect, ExchangesAlways, PTL DEF Spec, RunGetsShorter

(***************************************************************************)
(* A call of the loop is made only below max_iters, the first one apart;   *)
(* what the exchanges made and those left amount to never grows.           *)
(***************************************************************************)
CostInv ==
    /\ node \in {"intake", "llm_call"} => iteration = 0 \/ iteration < MaxIters
    /\ node = "execute_tools" => iteration < MaxIters
    /\ iteration <= MaxIters \/ iteration = 1
    /\ Len(exchanges) + ExchangesLeft <= 3

LEMMA CostInitially == Init => CostInv
BY LoopAssumption DEF Init, CInit, CostInv, ExchangesLeft

LEMMA CostStep ==
    TypeOK /\ TypeOK' /\ ExchangesInv /\ CostInv /\ [Next]_vars => CostInv'
<1> SUFFICES ASSUME TypeOK, TypeOK', ExchangesInv, CostInv, [Next]_vars PROVE CostInv'
  OBVIOUS
<1> USE LoopAssumption
<1>1. iteration \in Nat /\ CTypeOK /\ CTypeOK'
  BY DEF TypeOK
<1>2. CASE CrystallizeCall
  <2>1. CNext /\ UNCHANGED <<node, iteration>>
    BY <1>2 DEF CrystallizeCall, loopvars
  <2>2. Len(exchanges) \in Nat
    BY <1>1 DEF CTypeOK
  <2>3. Len(exchanges') + ExchangesLeft' <= 3
    BY <1>1, <2>1, <2>2, ExchangesRunOut DEF CostInv
  <2> QED
    BY <2>1, <2>3 DEF CostInv
<1>3. ASSUME UNCHANGED cvars PROVE Len(exchanges') + ExchangesLeft' <= 3
  BY <1>3 DEF CostInv, ExchangesLeft, cvars
<1>4. ASSUME NEW reply \in Replies, LlmReplies(reply) PROVE CostInv'
  BY <1>1, <1>3, <1>4 DEF LlmReplies, RouteAfterLlm, CostInv
<1>5. CASE LlmRepliesEmpty
  BY <1>1, <1>3, <1>5 DEF LlmRepliesEmpty, RouteAfterLlm, CostInv
<1>6. CASE Intake \/ ExecuteTools
  BY <1>1, <1>3, <1>6 DEF Intake, ExecuteTools, CostInv
<1>7. CASE \/ LlmRaises \/ ExecuteToolsRaises \/ CrystallizeRaises
           \/ CrystallizeReport \/ Finalize
  BY <1>1, <1>3, <1>7
     DEF LlmRaises, ExecuteToolsRaises, CrystallizeRaises, CrystallizeReport, Finalize, CostInv
<1>8. CASE UNCHANGED vars
  BY <1>3, <1>8 DEF vars, loopvars, CostInv
<1> QED
  BY <1>2, <1>4, <1>5, <1>6, <1>7, <1>8 DEF Next, LoopStep, Stopped

(***************************************************************************)
(* What a run may cost (core.py, _route_after_llm and the two attempts of  *)
(* _crystallize_report_node): max_iters calls of the loop, or the one call *)
(* of a max_iters of 0, and three exchanges of the report.                 *)
(***************************************************************************)
THEOREM CostIsWithinBounds == Spec => []CostIsBounded
<1>1. CTypeOK => ExchangesLeft \in Nat /\ Len(exchanges) \in Nat
  BY ExchangesLeftAt DEF CTypeOK, ExchangesAre
<1>2. TypeOK /\ CostInv => CostIsBounded
  BY <1>1 DEF TypeOK, CostInv, CostIsBounded
<1> QED
  BY <1>2, CostInitially, CostStep, TypeCorrect, ExchangesAlways, PTL DEF Spec
============================================================================
