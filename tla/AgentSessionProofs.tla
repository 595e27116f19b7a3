------------------------- MODULE AgentSessionProofs -------------------------
(***************************************************************************)
(* What holds of a session at the analyze endpoint, for any number of      *)
(* turns, every LLM, max_iters and context limit: it accumulates, the LLM  *)
(* reads one persona and one hint, and only the last calls of turns that   *)
(* were cut are without answers.                                           *)
(***************************************************************************)
EXTENDS AgentSession, AgentLoopProofs

(***************************************************************************)
(* The inductive invariant.                                                *)
(***************************************************************************)
SessionPlain == \A i \in DOMAIN session : session[i].role # "system"

\* A request opens with the persona, what is stored, and the log.
Opened == node = "intake" => ~ saved /\ \E text \in LogTexts : messages = Opening(session, text)

\* Behind the intake node: two system messages, and others.
Fronted(ms) ==
    /\ Len(ms) > 2
    /\ ms[1] = Persona
    /\ ms[2] = SystemMsg("intake")
    /\ \A i \in 3..Len(ms) : ms[i].role # "system"

\* What is stored, and the log, stand behind them until the turn is stored too.
BuiltOn(ms, stored) ==
    /\ Len(stored) + 3 <= Len(ms)
    /\ \A i \in DOMAIN stored : ms[i + 2] = stored[i]

HintGiven == node # "intake" => Fronted(messages)
Underway == node # "intake" /\ ~ saved => BuiltOn(messages, session)
SavedEnded == saved => node = "end"

\* The positions of open calls, in the conversation of a run.
Open == {i + 2 : i \in cuts}
Sound(ms) == PairedOn(ms, DOMAIN ms \ Open)
EndsOpen(ms) ==
    /\ IsHead(ms[Len(ms)])
    /\ PairedOn(ms, (1..(Len(ms) - 1)) \ Open)

RunSound ==
    ~ saved =>
        /\ node = "llm_call" => Sound(messages)
        /\ node = "execute_tools" => EndsOpen(messages)
        /\ node \in {"crystallize_report", "finalize", "end"} =>
              /\ last.calls = <<>> => Sound(messages)
              /\ last.calls # <<>> => iteration >= MaxIters /\ EndsOpen(messages)

StoredSound ==
    /\ PairedOn(session, DOMAIN session \ cuts)
    /\ \A i \in cuts : IsHead(session[i])

\* As long as no turn was cut, a run is one that was called with a paired conversation.
Uncut == cuts = {} => LoopInv

SInv ==
    /\ STypeOK
    /\ SessionPlain
    /\ Opened
    /\ HintGiven
    /\ Underway
    /\ SavedEnded
    /\ RunSound
    /\ StoredSound
    /\ Uncut

---------------------------------------------------------------------------
(***************************************************************************)
(* The opening, and the hint in it.                                        *)
(***************************************************************************)
LEMMA OpeningProperties ==
    ASSUME NEW stored \in Seq(Message), NEW text \in LogTexts,
           \A i \in DOMAIN stored : stored[i].role # "system"
    PROVE  LET ms == Opening(stored, text)
           IN  /\ ms \in Seq(Message)
               /\ Len(stored) \in Nat /\ DOMAIN stored = 1..Len(stored)
               /\ Len(ms) = Len(stored) + 2
               /\ DOMAIN ms = 1..(Len(stored) + 2)
               /\ ms[1] = Persona
               /\ \A i \in DOMAIN stored : ms[i + 1] = stored[i]
               /\ ms[Len(stored) + 2] = UserMsg(text)
<1> DEFINE front == <<Persona>> \o stored
           back == <<UserMsg(text)>>
           ms == Opening(stored, text)
<1>1. Persona \in Message /\ UserMsg(text) \in Message
  BY SessionAssumption, EmptySeq DEF Persona, SystemMsg, UserMsg, Message, Roles, Texts
<1>2. /\ <<Persona>> \in Seq(Message) /\ Len(<<Persona>>) = 1 /\ <<Persona>>[1] = Persona
      /\ back \in Seq(Message) /\ Len(back) = 1 /\ back[1] = UserMsg(text)
  BY <1>1
<1>3. /\ front \in Seq(Message) /\ Len(front) = 1 + Len(stored)
      /\ \A i \in 1..(1 + Len(stored)) : front[i] = IF i <= 1 THEN <<Persona>>[i] ELSE stored[i - 1]
  BY <1>2, ConcatProperties
<1>4. Len(stored) \in Nat /\ DOMAIN stored = 1..Len(stored)
  BY LenProperties
<1> HIDE DEF front, back
<1>5. /\ front \o back \in Seq(Message) /\ Len(front \o back) = Len(front) + 1
      /\ \A i \in 1..(Len(front) + 1) :
            (front \o back)[i] = IF i <= Len(front) THEN front[i] ELSE back[i - Len(front)]
  <2>1. front \in Seq(Message) /\ back \in Seq(Message) /\ Len(back) = 1
    BY <1>2, <1>3
  <2>2. /\ front \o back \in Seq(Message) /\ Len(front \o back) = Len(front) + Len(back)
        /\ \A i \in 1..(Len(front) + Len(back)) :
              (front \o back)[i] = IF i <= Len(front) THEN front[i] ELSE back[i - Len(front)]
    BY ONLY <2>1, ConcatProperties, Zenon
  <2> QED
    BY ONLY <2>1, <2>2
<1>6. ms = front \o back
  BY DEF Opening, front, back
<1> HIDE DEF ms
<1>7. ms \in Seq(Message) /\ Len(ms) = Len(stored) + 2 /\ DOMAIN ms = 1..(Len(stored) + 2)
  BY <1>3, <1>4, <1>5, <1>6, LenProperties
<1>8. ms[1] = Persona /\ ms[Len(stored) + 2] = UserMsg(text)
  BY <1>2, <1>3, <1>4, <1>5, <1>6
<1>9. \A i \in DOMAIN stored : ms[i + 1] = stored[i]
  BY <1>3, <1>4, <1>5, <1>6
<1> QED
  BY <1>4, <1>7, <1>8, <1>9 DEF ms

\* Only the persona leads the opening: the hint is put behind it.
LEMMA HintedOpening ==
    ASSUME NEW stored \in Seq(Message), NEW text \in LogTexts,
           \A i \in DOMAIN stored : stored[i].role # "system"
    PROVE  LET ms == Opening(stored, text)
           IN  WantsIntake(ms) /\ LeadingSystem(ms) = 1
<1> DEFINE ms == Opening(stored, text)
           n == Len(stored)
<1>1. /\ ms \in Seq(Message) /\ n \in Nat /\ DOMAIN stored = 1..n
      /\ DOMAIN ms = 1..(n + 2)
      /\ ms[1] = Persona /\ ms[n + 2] = UserMsg(text)
      /\ \A i \in DOMAIN stored : ms[i + 1] = stored[i]
  BY OpeningProperties
<1> HIDE DEF ms, n
<1>2. /\ ms[1].role = "system" /\ ms[1].text = "plain"
      /\ ms[n + 2].role = "user" /\ ms[n + 2].text # "none"
  BY <1>1, SessionAssumption DEF Persona, SystemMsg, UserMsg
<1>3. ASSUME NEW i \in DOMAIN ms, i # 1
      PROVE  ms[i].role # "system"
  <2>1. CASE i = n + 2
    BY <2>1, <1>2
  <2>2. CASE i # n + 2
    <3>1. i - 1 \in DOMAIN stored /\ i = (i - 1) + 1
      BY <1>1, <1>3, <2>2
    <3> QED
      BY <1>1, <3>1
  <2> QED
    BY <2>1, <2>2
<1>4. WantsIntake(ms)
  BY <1>1, <1>2, <1>3 DEF WantsIntake
<1>5. {i \in DOMAIN ms : \A j \in 1..i : ms[j].role = "system"} = {1}
  <2>1. ASSUME NEW i \in DOMAIN ms, \A j \in 1..i : ms[j].role = "system"
        PROVE  i = 1
    BY <1>1, <1>3, <2>1
  <2>2. 1 \in DOMAIN ms /\ \A j \in 1..1 : ms[j].role = "system"
    BY <1>1, <1>2
  <2> QED
    BY <2>1, <2>2
<1>6. LeadingSystem(ms) = 1
  BY <1>5, FS_Singleton DEF LeadingSystem
<1> QED
  BY <1>4, <1>6 DEF ms

LEMMA IntakeFronts ==
    ASSUME SInv, Intake
    PROVE  /\ messages' \in Seq(Message)
           /\ Fronted(messages') /\ BuiltOn(messages', session)
           /\ Len(messages') = Len(session) + 3
           /\ \E text \in LogTexts : messages'[Len(session) + 3] = UserMsg(text)
<1>1. PICK text \in LogTexts : messages = Opening(session, text)
  BY DEF SInv, Opened, Intake
<1> DEFINE n == Len(session)
           hint == SystemMsg("intake")
<1>2. session \in Seq(Message) /\ \A i \in DOMAIN session : session[i].role # "system"
  BY DEF SInv, STypeOK, SessionPlain
<1>3. /\ messages \in Seq(Message) /\ n \in Nat /\ DOMAIN session = 1..n
      /\ Len(messages) = n + 2
      /\ messages[1] = Persona /\ messages[n + 2] = UserMsg(text)
      /\ \A i \in DOMAIN session : messages[i + 1] = session[i]
  BY <1>1, <1>2, OpeningProperties
<1>4. messages' = Inserted(messages, 1, hint)
  BY <1>1, <1>2, HintedOpening DEF Intake
<1>5. hint \in Message
  BY BuiltMessages DEF Texts
<1> HIDE DEF hint
<1>6. /\ messages' \in Seq(Message) /\ DOMAIN messages' = 1..(n + 3)
      /\ \A i \in 1..1 : messages'[i] = messages[i]
      /\ messages'[2] = hint
      /\ \A i \in 3..(n + 3) : messages'[i] = messages[i - 1]
  <2>1. 1 \in 0..Len(messages)
    BY <1>3
  <2>2. /\ Inserted(messages, 1, hint) \in Seq(Message)
        /\ DOMAIN Inserted(messages, 1, hint) = 1..(Len(messages) + 1)
        /\ \A i \in 1..1 : Inserted(messages, 1, hint)[i] = messages[i]
        /\ Inserted(messages, 1, hint)[1 + 1] = hint
        /\ \A i \in (1 + 2)..(Len(messages) + 1) : Inserted(messages, 1, hint)[i] = messages[i - 1]
    <3>1. messages \in Seq(Message)
      BY <1>3
    <3>2. /\ Inserted(messages, 1, hint) \in Seq(Message)
          /\ DOMAIN Inserted(messages, 1, hint) = 1..(Len(messages) + 1)
      BY ONLY <1>5, <2>1, <3>1, InsertedProperties, Zenon
    <3>3. /\ \A i \in 1..1 : Inserted(messages, 1, hint)[i] = messages[i]
          /\ Inserted(messages, 1, hint)[1 + 1] = hint
      BY ONLY <1>5, <2>1, <3>1, InsertedProperties, Zenon
    <3>4. \A i \in (1 + 2)..(Len(messages) + 1) :
              Inserted(messages, 1, hint)[i] = messages[i - 1]
      BY ONLY <1>5, <2>1, <3>1, InsertedProperties, Zenon
    <3> QED
      BY ONLY <3>2, <3>3, <3>4
  <2>3. Len(messages) + 1 = n + 3 /\ 1 + 1 = 2 /\ 1 + 2 = 3
    BY <1>3
  <2>4. /\ messages' \in Seq(Message) /\ DOMAIN messages' = 1..(Len(messages) + 1)
        /\ \A i \in 1..1 : messages'[i] = messages[i]
        /\ messages'[1 + 1] = hint
        /\ \A i \in (1 + 2)..(Len(messages) + 1) : messages'[i] = messages[i - 1]
    BY ONLY <1>4, <2>2, Zenon
  <2> HIDE DEF n
  <2> QED
    BY ONLY <2>3, <2>4
<1>7. Len(messages') = n + 3 /\ messages'[1] = Persona
  BY <1>3, <1>6, LenProperties
<1>8. messages'[n + 3] = UserMsg(text)
  BY <1>3, <1>6
<1>9. \A i \in DOMAIN session : messages'[i + 2] = session[i]
  BY <1>3, <1>6
<1>10. ASSUME NEW i \in 3..(n + 3) PROVE messages'[i].role # "system"
  <2>1. CASE i = n + 3
    BY <1>8, <2>1 DEF UserMsg
  <2>2. CASE i # n + 3
    <3>1. i - 2 \in DOMAIN session /\ i = (i - 2) + 2
      BY <1>3, <2>2
    <3> QED
      BY <1>2, <1>9, <3>1
  <2> QED
    BY <2>1, <2>2
<1> QED
  BY <1>3, <1>6, <1>7, <1>8, <1>9, <1>10 DEF Fronted, BuiltOn, hint

---------------------------------------------------------------------------
(***************************************************************************)
(* The steps of a run.                                                     *)
(***************************************************************************)
\* A conversation is extended at its end, by messages other than system ones.
Extended(ms, more) ==
    /\ more \in Seq(Message)
    /\ Len(ms) <= Len(more)
    /\ \A i \in DOMAIN ms : more[i] = ms[i]
    /\ \A i \in DOMAIN more : i > Len(ms) => more[i].role # "system"

LEMMA RepliesExtend ==
    ASSUME messages \in Seq(Message), NEW reply \in Replies, LlmReplies(reply)
    PROVE  Extended(messages, messages')
<1>1. /\ messages' \in Seq(Message)
      /\ Len(messages') = Len(messages) + 1
      /\ messages'[Len(messages')] = AssistantMsg(reply.calls, reply.text)
      /\ \A i \in DOMAIN messages : messages'[i] = messages[i]
      /\ DOMAIN messages = 1..Len(messages) /\ Len(messages) \in Nat
      /\ DOMAIN messages' = 1..(Len(messages) + 1)
  BY ReplyAppends
<1>2. AssistantMsg(reply.calls, reply.text).role # "system"
  BY DEF AssistantMsg
<1>3. \A i \in DOMAIN messages' : i > Len(messages) => i = Len(messages')
  BY <1>1
<1> QED
  BY <1>1, <1>2, <1>3 DEF Extended

LEMMA ToolsExtend ==
    ASSUME messages \in Seq(Message), messages # <<>>, ExecuteTools
    PROVE  Extended(messages, messages')
<1>1. PICK answers \in Seq(Message) :
          /\ messages' = messages \o answers
          /\ Len(answers) = Len(messages[Len(messages)].calls)
          /\ \A k \in 1..Len(answers) : answers[k].role = "tool"
  BY ExecuteToolsAppends
<1>2. /\ messages \o answers \in Seq(Message)
      /\ Len(messages \o answers) = Len(messages) + Len(answers)
      /\ \A i \in 1..(Len(messages) + Len(answers)) :
            (messages \o answers)[i] =
                IF i <= Len(messages) THEN messages[i] ELSE answers[i - Len(messages)]
  BY ConcatProperties
<1>3. /\ Len(messages) \in Nat /\ Len(answers) \in Nat
      /\ DOMAIN messages = 1..Len(messages)
      /\ DOMAIN (messages \o answers) = 1..(Len(messages) + Len(answers))
  BY <1>2, LenProperties
<1>4. \A i \in 1..(Len(messages) + Len(answers)) :
          i > Len(messages) => i - Len(messages) \in 1..Len(answers)
  BY <1>3
<1> QED
  BY <1>1, <1>2, <1>3, <1>4 DEF Extended

LEMMA RunExtends ==
    ASSUME TypeOK, messages # <<>>, LoopStep, node # "intake"
    PROVE  Extended(messages, messages')
<1>1. messages \in Seq(Message) /\ Len(messages) \in Nat /\ DOMAIN messages = 1..Len(messages)
  BY LenProperties DEF TypeOK
<1>2. CASE UNCHANGED messages
  BY <1>1, <1>2 DEF Extended
<1> QED
  BY <1>1, <1>2, RepliesExtend, ToolsExtend DEF LoopStep, Intake, LlmRepliesEmpty, LlmRaises,
     ExecuteToolsRaises, CrystallizeCall, CrystallizeRaises, CrystallizeReport, Finalize, loopvars

LEMMA RunTypes ==
    ASSUME TypeOK, messages # <<>>, LoopStep
    PROVE  TypeOK'
<1>1. messages \in Seq(Message) /\ Len(messages) \in Nat /\ DOMAIN messages = 1..Len(messages)
  BY LenProperties DEF TypeOK
<1>2. CASE Intake
  BY <1>1, <1>2, IntakeInserts DEF Intake, TypeOK, CTypeOK, cvars, Nodes
<1>3. \A more \in Seq(Message) : Len(messages) <= Len(more) => DOMAIN messages \subseteq DOMAIN more
  <2> SUFFICES ASSUME NEW more \in Seq(Message), Len(messages) <= Len(more)
               PROVE  DOMAIN messages \subseteq DOMAIN more
    OBVIOUS
  <2>1. DOMAIN more = 1..Len(more) /\ Len(more) \in Nat
    BY LenProperties
  <2> QED
    BY <1>1, <2>1
<1>4. ASSUME NEW reply \in Replies, LlmReplies(reply) PROVE TypeOK'
  <2>1. /\ messages' \in Seq(Message)
        /\ DOMAIN messages \subseteq DOMAIN messages'
    BY <1>1, <1>3, <1>4, RepliesExtend DEF Extended
  <2>2. sent' \subseteq DOMAIN messages
    BY <1>4, RequestTypes DEF LlmReplies
  <2>3. last' \in Response
    BY <1>4, LoopAssumption DEF LlmReplies, Response, IsReply
  <2>4. node' \in Nodes /\ iteration' \in Nat
    BY <1>4, RouteTypes DEF LlmReplies, TypeOK
  <2> QED
    BY <1>4, <2>1, <2>2, <2>3, <2>4 DEF LlmReplies, TypeOK, CTypeOK, cvars
<1>5. CASE LlmRepliesEmpty
  <2>1. sent' \subseteq DOMAIN messages
    BY <1>5, RequestTypes DEF LlmRepliesEmpty
  <2>2. last' \in Response
    BY <1>5, EmptySeq DEF LlmRepliesEmpty, EmptyResponse, Response, Fallbacks
  <2>3. node' \in Nodes /\ iteration' \in Nat
    BY <1>5, RouteTypes DEF LlmRepliesEmpty, TypeOK
  <2> QED
    BY <1>5, <2>1, <2>2, <2>3 DEF LlmRepliesEmpty, TypeOK, CTypeOK, cvars
<1>6. CASE LlmRaises
  <2>1. sent' \subseteq DOMAIN messages
    BY <1>6, RequestTypes DEF LlmRaises
  <2> QED
    BY <1>6, <2>1 DEF LlmRaises, TypeOK, CTypeOK, cvars, Nodes
<1>7. CASE ExecuteTools
  <2>1. /\ messages' \in Seq(Message)
        /\ DOMAIN messages \subseteq DOMAIN messages'
    BY <1>1, <1>3, <1>7, ToolsExtend DEF Extended
  <2> QED
    BY <1>7, <2>1 DEF ExecuteTools, TypeOK, CTypeOK, cvars, Nodes
<1>8. CASE \/ ExecuteToolsRaises \/ CrystallizeCall \/ CrystallizeRaises
           \/ CrystallizeReport \/ Finalize
  BY <1>8, LaterTypes
<1> QED
  BY <1>2, <1>4, <1>5, <1>6, <1>7, <1>8 DEF LoopStep

---------------------------------------------------------------------------
(***************************************************************************)
(* Pairing, where messages stand elsewhere, or beside others.              *)
(***************************************************************************)
LEMMA ShiftedPairs ==
    ASSUME NEW ms \in Seq(Message), NEW more \in Seq(Message), NEW d \in Nat,
           NEW S \in SUBSET DOMAIN ms, NEW T, T = {i + d : i \in S},
           \A i \in DOMAIN ms : i + d \in DOMAIN more /\ more[i + d] = ms[i]
    PROVE  PairedOn(more, T) <=> PairedOn(ms, S)
<1>1. \A i \in S : i \in Nat /\ i \in DOMAIN ms /\ more[i + d] = ms[i]
  BY MessageFields
<1>2. ASSUME NEW i \in S, NEW k \in 1..Len(ms[i].calls)
      PROVE  /\ (i + d) + k \in T <=> i + k \in S
             /\ i + k \in S => (Answers(more, i + d, k) <=> Answers(ms, i, k))
  <2>1. i \in Nat /\ k \in Nat
    BY <1>1, MessageFields
  <2>2. (i + d) + k = (i + k) + d
    BY <2>1
  <2>3. (i + d) + k \in T <=> i + k \in S
    <3>1. ASSUME NEW j \in S, (i + k) + d = j + d PROVE i + k = j
      <4>1. j \in Nat /\ d \in Nat
        BY <1>1
      <4> QED
        BY ONLY <2>1, <3>1, <4>1
    <3> QED
      BY <2>2, <3>1
  <2> QED
    BY <1>1, <2>2, <2>3 DEF Answers
<1>3. CallsAnswered(more, T) <=> CallsAnswered(ms, S)
  <2>1. ASSUME CallsAnswered(ms, S), NEW i \in S, IsHead(more[i + d]),
               NEW k \in 1..Len(more[i + d].calls)
        PROVE  (i + d) + k \in T /\ Answers(more, i + d, k)
    BY <1>1, <1>2, <2>1 DEF CallsAnswered
  <2>2. ASSUME CallsAnswered(more, T), NEW i \in S, IsHead(ms[i]), NEW k \in 1..Len(ms[i].calls)
        PROVE  i + k \in S /\ Answers(ms, i, k)
    <3>1. i + d \in T /\ IsHead(more[i + d]) /\ k \in 1..Len(more[i + d].calls)
      BY <1>1, <2>2
    <3>2. (i + d) + k \in T /\ Answers(more, i + d, k)
      BY <2>2, <3>1 DEF CallsAnswered
    <3> QED
      BY <1>2, <3>2
  <2> QED
    BY <2>1, <2>2 DEF CallsAnswered
<1>4. ToolsRequested(more, T) <=> ToolsRequested(ms, S)
  <2>1. ASSUME ToolsRequested(ms, S), NEW j \in S, more[j + d].role = "tool"
        PROVE  \E i \in T : /\ IsHead(more[i])
                            /\ \E k \in 1..Len(more[i].calls) : j + d = i + k /\ Answers(more, i, k)
    <3>4. PICK i \in S : /\ IsHead(ms[i])
                         /\ \E k \in 1..Len(ms[i].calls) : j = i + k /\ Answers(ms, i, k)
      BY <1>1, <2>1 DEF ToolsRequested
    <3>1. PICK k \in 1..Len(ms[i].calls) : IsHead(ms[i]) /\ j = i + k /\ Answers(ms, i, k)
      BY <3>4
    <3>2. i + d \in T /\ IsHead(more[i + d]) /\ k \in 1..Len(more[i + d].calls)
      BY <1>1, <3>1
    <3>3. j + d = (i + d) + k /\ Answers(more, i + d, k)
      <4>1. i \in Nat /\ k \in Nat
        BY <1>1, MessageFields
      <4> QED
        BY <1>2, <3>1, <4>1
    <3> QED
      BY <3>2, <3>3
  <2>2. ASSUME ToolsRequested(more, T), NEW j \in S, ms[j].role = "tool"
        PROVE  \E i \in S : /\ IsHead(ms[i])
                            /\ \E k \in 1..Len(ms[i].calls) : j = i + k /\ Answers(ms, i, k)
    <3>1. j + d \in T /\ more[j + d].role = "tool"
      BY <1>1, <2>2
    <3>2. PICK i \in S : /\ IsHead(more[i + d])
                         /\ \E k \in 1..Len(more[i + d].calls) :
                                j + d = (i + d) + k /\ Answers(more, i + d, k)
      <4>1. PICK h \in T : /\ IsHead(more[h])
                           /\ \E k \in 1..Len(more[h].calls) : j + d = h + k /\ Answers(more, h, k)
        BY ONLY <2>2, <3>1 DEF ToolsRequested
      <4>2. PICK i \in S : h = i + d
        BY <4>1
      <4> QED
        BY ONLY <4>1, <4>2, Zenon
    <3>3. PICK k \in 1..Len(ms[i].calls) : j + d = (i + d) + k /\ Answers(more, i + d, k)
      BY <1>1, <3>2
    <3>4. i \in Nat /\ k \in Nat /\ j \in Nat
      BY <1>1, MessageFields
    <3>5. j = i + k
      BY <3>3, <3>4
    <3> QED
      BY <1>1, <1>2, <3>2, <3>3, <3>5
  <2> QED
    BY <2>1, <2>2 DEF ToolsRequested
<1> QED
  BY <1>3, <1>4 DEF PairedOn

\* Messages that neither call nor answer are of no account.
LEMMA NeutralPairs ==
    ASSUME NEW ms, NEW S, NEW T,
           \A i \in T : ms[i].role \in {"system", "user"}
    PROVE  PairedOn(ms, S \cup T) <=> PairedOn(ms, S)
<1>1. \A i \in T : ~ IsHead(ms[i]) /\ ms[i].role # "tool"
  BY DEF IsHead
<1>2. \A i, k : Answers(ms, i, k) => i + k \notin T
  BY <1>1 DEF Answers
<1>3. CallsAnswered(ms, S \cup T) <=> CallsAnswered(ms, S)
  BY <1>1, <1>2 DEF CallsAnswered
<1>4. ToolsRequested(ms, S \cup T) <=> ToolsRequested(ms, S)
  BY <1>1 DEF ToolsRequested
<1> QED
  BY <1>3, <1>4 DEF PairedOn

\* What is stored of a run: all but its first two messages.
LEMMA StoredIsTail ==
    ASSUME NEW ms \in Seq(Message), Fronted(ms)
    PROVE  /\ WithoutSystem(ms) \in Seq(Message)
           /\ Len(WithoutSystem(ms)) = Len(ms) - 2
           /\ DOMAIN WithoutSystem(ms) = 1..(Len(ms) - 2)
           /\ \A n \in 1..(Len(ms) - 2) : WithoutSystem(ms)[n] = ms[n + 2]
<1> DEFINE P == {i \in DOMAIN ms : ms[i].role # "system"}
<1>1. DOMAIN ms = 1..Len(ms) /\ Len(ms) \in Nat /\ Len(ms) > 2
  BY LenProperties DEF Fronted
<1>2. ms[1].role = "system" /\ ms[2].role = "system"
  BY DEF Fronted, Persona, SystemMsg
<1>3. P = 3..Len(ms)
  <2>1. ASSUME NEW i \in DOMAIN ms PROVE i = 1 \/ i = 2 \/ i \in 3..Len(ms)
    BY <1>1
  <2> QED
    BY <1>1, <1>2, <2>1 DEF Fronted
<1> HIDE DEF P
<1>4. Cardinality(P) = Len(ms) - 2
  BY <1>1, <1>3, FS_Interval
<1>5. ASSUME NEW n \in 1..(Len(ms) - 2)
      PROVE  ms[CHOOSE i \in P : Cardinality({j \in P : j <= i}) = n] = ms[n + 2]
  <2>1. ASSUME NEW i \in P PROVE Cardinality({j \in P : j <= i}) = i - 2
    <3>1. {j \in P : j <= i} = 3..i
      BY <1>1, <1>3
    <3>2. i \in Nat /\ i >= 3
      BY <1>1, <1>3
    <3>3. Cardinality(3..i) = i - 3 + 1
      BY <3>2, FS_Interval
    <3>4. Cardinality({j \in P : j <= i}) = i - 3 + 1
      BY <3>1, <3>3, Zenon
    <3> QED
      BY <3>2, <3>4
  <2>2. n + 2 \in P /\ (n + 2) - 2 = n
    BY <1>1, <1>3
  <2>3. ASSUME NEW i \in P, i - 2 = n PROVE i = n + 2
    BY <1>1, <1>3, <2>3
  <2>4. (CHOOSE i \in P : Cardinality({j \in P : j <= i}) = n) = n + 2
    BY <2>1, <2>2, <2>3
  <2> QED
    BY <2>4
<1>6. WithoutSystem(ms) = [n \in 1..(Len(ms) - 2) |->
          ms[CHOOSE i \in P : Cardinality({j \in P : j <= i}) = n]]
  BY <1>4 DEF WithoutSystem, Kept, P
<1>7. \A n \in 1..(Len(ms) - 2) : ms[n + 2] \in Message
  BY <1>1, ElementOfSeq
<1> DEFINE tail == [n \in 1..(Len(ms) - 2) |->
                       ms[CHOOSE i \in P : Cardinality({j \in P : j <= i}) = n]]
           d == Len(ms) - 2
<1>8. ASSUME NEW n \in 1..d PROVE tail[n] = ms[n + 2]
  <2>1. tail[n] = ms[CHOOSE i \in P : Cardinality({j \in P : j <= i}) = n]
    BY Zenon
  <2> QED
    BY <1>5, <2>1, Zenon
<1>9. d \in Nat
  BY <1>1
<1>10. d \in Nat /\ \A n \in 1..d : tail[n] = ms[n + 2]
  BY <1>8, <1>9, Zenon
<1>11. tail = [n \in 1..d |-> tail[n]]
  OBVIOUS
<1> HIDE DEF tail, d
<1>12. \A n \in 1..d : tail[n] \in Message
  BY <1>7, <1>10 DEF d
<1>13. [n \in 1..d |-> tail[n]] \in Seq(Message)
  BY ONLY <1>10, <1>12, IsASeq
<1>14. tail \in Seq(Message) /\ DOMAIN tail = 1..d
  BY <1>11, <1>13
<1>15. Len(tail) = d
  BY <1>10, <1>14, LenProperties
<1>16. WithoutSystem(ms) = tail
  BY <1>6 DEF tail
<1> QED
  BY <1>10, <1>14, <1>15, <1>16 DEF d

---------------------------------------------------------------------------
(***************************************************************************)
(* A step of the run.                                                      *)
(***************************************************************************)
LEMMA Progress ==
    ASSUME SInv, node # "intake", ~ saved
    PROVE  /\ messages \in Seq(Message) /\ messages # <<>>
           /\ Len(messages) \in Nat /\ DOMAIN messages = 1..Len(messages)
           /\ Len(session) \in Nat /\ DOMAIN session = 1..Len(session)
           /\ Len(session) + 3 <= Len(messages)
           /\ \A i \in Open : i \in 3..(Len(messages) - 1)
<1>1. /\ messages \in Seq(Message) /\ session \in Seq(Message) /\ cuts \subseteq DOMAIN session
      /\ Len(session) + 3 <= Len(messages)
  BY DEF SInv, STypeOK, TypeOK, Underway, BuiltOn
<1>2. /\ Len(messages) \in Nat /\ DOMAIN messages = 1..Len(messages)
      /\ Len(session) \in Nat /\ DOMAIN session = 1..Len(session)
  BY <1>1, LenProperties
<1>3. messages # <<>>
  BY <1>1, <1>2, EmptySeq
<1>4. \A i \in cuts : i + 2 \in 3..(Len(messages) - 1)
  BY <1>1, <1>2
<1> QED
  BY <1>1, <1>2, <1>3, <1>4 DEF Open

LEMMA IntakeSound ==
    ASSUME SInv, Intake
    PROVE  Sound(messages')
<1> DEFINE n == Len(session)
           S == DOMAIN session \ cuts
           T == {i + 2 : i \in S}
           Rest == {1, 2, n + 3}
<1>1. /\ messages' \in Seq(Message) /\ Fronted(messages') /\ BuiltOn(messages', session)
      /\ Len(messages') = n + 3
      /\ \E text \in LogTexts : messages'[n + 3] = UserMsg(text)
  BY IntakeFronts
<1>2. session \in Seq(Message) /\ cuts \subseteq DOMAIN session /\ PairedOn(session, S)
  BY DEF SInv, STypeOK, StoredSound
<1>3. n \in Nat /\ DOMAIN session = 1..n /\ DOMAIN messages' = 1..(n + 3)
  BY <1>1, <1>2, LenProperties
<1>4. \A i \in DOMAIN session : i + 2 \in DOMAIN messages' /\ messages'[i + 2] = session[i]
  BY <1>1, <1>3 DEF BuiltOn
<1>5. PairedOn(messages', T)
  BY <1>1, <1>2, <1>4, ShiftedPairs
<1>6. \A i \in Rest : messages'[i].role \in {"system", "user"}
  BY <1>1 DEF Fronted, Persona, SystemMsg, UserMsg
<1>7. PairedOn(messages', T \cup Rest)
  <2> HIDE DEF T, Rest
  <2> QED
    BY <1>5, <1>6, NeutralPairs
<1>8. DOMAIN messages' \ Open = T \cup Rest
  <2>1. ASSUME NEW i \in DOMAIN messages', i \notin Open PROVE i \in T \cup Rest
    <3>1. CASE i \in Rest
      BY <3>1
    <3>2. CASE i \notin Rest
      <4>1. i - 2 \in DOMAIN session /\ i = (i - 2) + 2
        BY <1>3, <3>2
      <4>2. i - 2 \notin cuts
        BY <2>1, <4>1 DEF Open
      <4> QED
        BY <4>1, <4>2
    <3> QED
      BY <3>1, <3>2
  <2>2. ASSUME NEW i \in S PROVE i + 2 \in DOMAIN messages' /\ i + 2 \notin Open
    <3>1. ASSUME NEW j \in cuts, j + 2 = i + 2 PROVE FALSE
      BY <1>2, <1>3, <3>1
    <3> QED
      BY <1>3, <3>1 DEF Open
  <2>3. ASSUME NEW i \in Rest PROVE i \in DOMAIN messages' /\ i \notin Open
    <3>1. ASSUME NEW j \in cuts, i = j + 2 PROVE FALSE
      BY <1>2, <1>3, <3>1
    <3> QED
      BY <1>3, <3>1 DEF Open
  <2> QED
    BY <2>1, <2>2, <2>3
<1> QED
  BY <1>7, <1>8 DEF Sound

LEMMA ReplySound ==
    ASSUME SInv, NEW reply \in Replies, LlmReplies(reply)
    PROVE  /\ node' \in {"execute_tools", "crystallize_report"}
           /\ reply.calls = <<>> => node' = "crystallize_report" /\ Sound(messages')
           /\ reply.calls # <<>> =>
                 /\ node' = "crystallize_report" => iteration' >= MaxIters
                 /\ EndsOpen(messages')
<1> DEFINE m == AssistantMsg(reply.calls, reply.text)
           n == Len(messages)
<1>1. /\ node = "llm_call" /\ iteration' = iteration + 1
      /\ node' = RouteAfterLlm(messages', iteration')
      /\ messages' = Append(messages, m)
  BY DEF LlmReplies
<1>2. node # "intake" /\ ~ saved
  BY <1>1 DEF SInv, SavedEnded
<1>3. /\ messages \in Seq(Message) /\ n \in Nat /\ DOMAIN messages = 1..n
      /\ \A i \in Open : i \in 3..(n - 1)
  BY <1>2, Progress
<1>4. Sound(messages)
  BY <1>1, <1>2 DEF SInv, RunSound
<1>5. /\ m \in Message /\ m.role = "assistant" /\ m.calls = reply.calls
  BY BuiltMessages DEF AssistantMsg
<1>6. /\ messages' \in Seq(Message) /\ Len(messages') = n + 1
      /\ DOMAIN messages' = 1..(n + 1)
      /\ messages'[n + 1] = m
      /\ \A i \in DOMAIN messages : messages'[i] = messages[i]
  BY <1>3, ReplyAppends
<1> HIDE DEF m, n
<1>7. messages' # <<>> /\ (IsHead(messages'[Len(messages')]) <=> reply.calls # <<>>)
  BY <1>3, <1>5, <1>6, EmptySeq DEF IsHead
<1>8. (DOMAIN messages \ Open) \cup {n + 1} = DOMAIN messages' \ Open
  BY <1>3, <1>6
<1>9. ASSUME reply.calls = <<>> PROVE node' = "crystallize_report" /\ Sound(messages')
  <2>1. PairedOn(messages', (DOMAIN messages \ Open) \cup {n + 1})
    BY <1>1, <1>3, <1>4, <1>5, <1>9, AppendKeepsPairsOn DEF Sound, IsHead, n
  <2> QED
    BY <1>1, <1>7, <1>8, <1>9, <2>1 DEF RouteAfterLlm, Sound
<1>10. ASSUME reply.calls # <<>> PROVE EndsOpen(messages')
  <2>1. n <= Len(messages') /\ DOMAIN messages = 1..(Len(messages') - 1)
    BY <1>3, <1>6
  <2>2. PairedOn(messages', DOMAIN messages \ Open)
    BY <1>3, <1>4, <1>6, <2>1, PairingIsLocal DEF Sound, n
  <2> QED
    BY <1>7, <1>10, <2>1, <2>2 DEF EndsOpen
<1>11. ASSUME reply.calls # <<>>, node' = "crystallize_report" PROVE iteration' >= MaxIters
  <2>1. ~ (iteration' < MaxIters)
    BY <1>1, <1>7, <1>11 DEF RouteAfterLlm
  <2>2. iteration' \in Nat /\ MaxIters \in Nat
    BY <1>1, LoopAssumption DEF SInv, STypeOK, TypeOK
  <2> QED
    BY <2>1, <2>2
<1>12. node' \in {"execute_tools", "crystallize_report"}
  BY <1>1 DEF RouteAfterLlm
<1> QED
  BY <1>9, <1>10, <1>11, <1>12

\* A conversation that is sound does not end in a call.
LEMMA SoundEndsWithoutCall ==
    ASSUME SInv, node # "intake", ~ saved, Sound(messages)
    PROVE  ~ IsHead(messages[Len(messages)])
<1> SUFFICES ASSUME IsHead(messages[Len(messages)]) PROVE FALSE
  OBVIOUS
<1> DEFINE n == Len(messages)
<1>1. /\ messages \in Seq(Message) /\ n \in Nat /\ DOMAIN messages = 1..n
      /\ messages # <<>> /\ \A i \in Open : i \in 3..(n - 1)
  BY Progress
<1>2. n \in Nat \ {0}
  BY <1>1, EmptySeq
<1>3. n \in DOMAIN messages \ Open
  BY <1>1, <1>2
<1>4. 1 \in 1..Len(messages[n].calls)
  <2>1. messages[n].calls \in Seq(CallIds) /\ messages[n].calls # <<>>
    BY <1>1, <1>3, MessageFields DEF IsHead
  <2>2. Len(messages[n].calls) \in Nat \ {0}
    BY <2>1, EmptySeq
  <2> QED
    BY <2>2
<1>5. n + 1 \in DOMAIN messages
  BY <1>3, <1>4 DEF Sound, PairedOn, CallsAnswered
<1> QED
  BY <1>1, <1>5

LEMMA ToolsSound ==
    ASSUME SInv, ExecuteTools
    PROVE  Sound(messages')
<1> DEFINE n == Len(messages)
           S == (1..(n - 1)) \ Open
<1>1. node = "execute_tools" /\ ~ saved
  BY DEF ExecuteTools, SInv, SavedEnded
<1>2. /\ messages \in Seq(Message) /\ messages # <<>> /\ n \in Nat /\ DOMAIN messages = 1..n
      /\ \A i \in Open : i \in 3..(n - 1)
  BY <1>1, Progress
<1>3. IsHead(messages[n]) /\ PairedOn(messages, S)
  BY <1>1 DEF SInv, RunSound, EndsOpen
<1>4. PICK answers \in Seq(Message) :
          /\ messages' = messages \o answers
          /\ Len(answers) = Len(messages[n].calls)
          /\ \A k \in 1..Len(answers) : /\ answers[k].role = "tool"
                                         /\ answers[k].cid = messages[n].calls[k]
  BY <1>2, ExecuteToolsAppends
<1>5. PairedOn(messages', S \cup n..(n + Len(answers)))
  <2>1. S \in SUBSET (1..(n - 1))
    OBVIOUS
  <2> HIDE DEF S
  <2> QED
    BY <1>2, <1>3, <1>4, <2>1, AnswersPairTheCallsOn
<1>6. DOMAIN messages' = 1..(n + Len(answers)) /\ Len(answers) \in Nat
  <2>1. /\ messages \o answers \in Seq(Message)
        /\ Len(messages \o answers) = n + Len(answers)
    BY <1>2, ConcatProperties
  <2> QED
    BY <1>4, <2>1, LenProperties
<1>7. n \in Nat \ {0}
  BY <1>2, EmptySeq
<1> HIDE DEF n
<1>8. S \cup n..(n + Len(answers)) = DOMAIN messages' \ Open
  BY <1>2, <1>6, <1>7
<1> QED
  BY <1>5, <1>8 DEF Sound

LEMMA RunKeepsSound ==
    ASSUME SInv, Run
    PROVE  RunSound'
<1>1. UNCHANGED <<session, turn, saved, cuts>> /\ LoopStep
  BY DEF Run, svars
<1>2. \A ms : (Sound(ms)' <=> PairedOn(ms', DOMAIN ms' \ Open))
  BY <1>1 DEF Sound, Open
<1>3. node \notin {"end", "aborted"}
  BY <1>1 DEF LoopStep, Intake, LlmReplies, LlmRepliesEmpty, LlmRaises, ExecuteTools,
     ExecuteToolsRaises, CrystallizeCall, CrystallizeRaises, CrystallizeReport, Finalize
<1>4. Open' = Open /\ ~ saved'
  BY <1>1, <1>3 DEF Open, SInv, SavedEnded
<1>5. CASE Intake
  <2>1. Sound(messages') /\ node' = "llm_call"
    BY <1>5, IntakeSound DEF Intake
  <2> QED
    BY <1>4, <2>1 DEF RunSound, Sound
<1>6. ASSUME NEW reply \in Replies, LlmReplies(reply) PROVE RunSound'
  <2>1. last'.calls = reply.calls
    BY <1>6 DEF LlmReplies
  <2>2. /\ node' \in {"execute_tools", "crystallize_report"}
        /\ reply.calls = <<>> => node' = "crystallize_report" /\ Sound(messages')
        /\ reply.calls # <<>> =>
              /\ node' = "crystallize_report" => iteration' >= MaxIters
              /\ EndsOpen(messages')
    BY <1>6, ReplySound
  <2> QED
    BY <1>4, <2>1, <2>2 DEF RunSound, Sound, EndsOpen
<1>7. CASE LlmRepliesEmpty
  <2>1. /\ node = "llm_call" /\ UNCHANGED messages /\ last'.calls = <<>>
        /\ node' = RouteAfterLlm(messages, iteration')
    BY <1>7 DEF LlmRepliesEmpty, EmptyResponse
  <2>2. Sound(messages)
    BY <1>1, <1>4, <2>1 DEF SInv, RunSound
  <2>3. ~ IsHead(messages[Len(messages)])
    BY <1>1, <1>4, <2>1, <2>2, SoundEndsWithoutCall
  <2>4. node' = "crystallize_report"
    BY <2>1, <2>3 DEF RouteAfterLlm
  <2> QED
    BY <1>4, <2>1, <2>2, <2>4 DEF RunSound, Sound
<1>8. CASE LlmRaises \/ ExecuteToolsRaises \/ CrystallizeRaises
  <2>1. node' = "aborted"
    BY <1>8 DEF LlmRaises, ExecuteToolsRaises, CrystallizeRaises
  <2> QED
    BY <2>1 DEF RunSound
<1>9. CASE ExecuteTools
  <2>1. Sound(messages') /\ node' = "llm_call"
    BY <1>9, ToolsSound DEF ExecuteTools
  <2> QED
    BY <1>4, <2>1 DEF RunSound, Sound
<1>10. CASE CrystallizeCall \/ CrystallizeReport \/ Finalize
  <2>1. /\ UNCHANGED <<messages, last, iteration>>
        /\ node \in {"crystallize_report", "finalize"}
        /\ node' \in {"crystallize_report", "finalize", "end"}
    BY <1>10 DEF CrystallizeCall, CrystallizeReport, Finalize, loopvars
  <2> QED
    BY <1>1, <1>4, <2>1 DEF SInv, RunSound, Sound, EndsOpen
<1> QED
  BY <1>1, <1>5, <1>6, <1>7, <1>8, <1>9, <1>10 DEF LoopStep

LEMMA RunKeeps ==
    ASSUME SInv, Run
    PROVE  SInv'
<1>1. UNCHANGED <<session, turn, saved, cuts>> /\ LoopStep
  BY DEF Run, svars
<1>2. /\ node \notin {"end", "aborted"} /\ node' # "intake"
  BY <1>1 DEF LoopStep, Intake, LlmReplies, LlmRepliesEmpty, LlmRaises, ExecuteTools,
     ExecuteToolsRaises, CrystallizeCall, CrystallizeRaises, CrystallizeReport, Finalize,
     RouteAfterLlm, loopvars
<1>3. ~ saved
  BY <1>2 DEF SInv, SavedEnded
<1>4. TypeOK /\ session \in Seq(Message)
  BY DEF SInv, STypeOK
<1>5. messages # <<>>
  <2>1. CASE node = "intake"
    <3>1. PICK text \in LogTexts : messages = Opening(session, text)
      BY <2>1 DEF SInv, Opened
    <3>2. Len(messages) = Len(session) + 2 /\ Len(session) \in Nat
      BY <1>4, <3>1, OpeningProperties DEF SInv, SessionPlain
    <3> QED
      BY <3>2, EmptySeq
  <2>2. CASE node # "intake"
    BY <1>3, <2>2, Progress
  <2> QED
    BY <2>1, <2>2
<1>6. STypeOK'
  BY <1>1, <1>4, <1>5, RunTypes DEF SInv, STypeOK
<1>7. Fronted(messages') /\ BuiltOn(messages', session)
  <2>1. CASE node = "intake"
    BY <1>1, <2>1, IntakeFronts DEF LoopStep, LlmReplies, LlmRepliesEmpty, LlmRaises, ExecuteTools,
       ExecuteToolsRaises, CrystallizeCall, CrystallizeRaises, CrystallizeReport, Finalize
  <2>2. CASE node # "intake"
    <3>1. Extended(messages, messages')
      BY <1>1, <1>4, <1>5, <2>2, RunExtends
    <3>2. Fronted(messages) /\ BuiltOn(messages, session)
      BY <1>3, <2>2 DEF SInv, HintGiven, Underway
    <3>3. /\ Len(messages) \in Nat /\ DOMAIN messages = 1..Len(messages)
          /\ Len(session) \in Nat /\ DOMAIN session = 1..Len(session)
      BY <1>3, <2>2, Progress
    <3>4. Len(messages') \in Nat /\ DOMAIN messages' = 1..Len(messages')
      BY <3>1, LenProperties DEF Extended
    <3>5. Fronted(messages')
      <4>1. ASSUME NEW i \in 3..Len(messages') PROVE messages'[i].role # "system"
        <5>1. CASE i <= Len(messages)
          BY <3>1, <3>2, <3>3, <3>4, <5>1 DEF Extended, Fronted
        <5>2. CASE i > Len(messages)
          BY <3>1, <3>3, <3>4, <5>2 DEF Extended
        <5> QED
          BY <3>3, <3>4, <5>1, <5>2
      <4> QED
        BY <3>1, <3>2, <3>3, <3>4, <4>1 DEF Extended, Fronted
    <3>6. BuiltOn(messages', session)
      BY <3>1, <3>2, <3>3, <3>4 DEF Extended, BuiltOn
    <3> QED
      BY <3>5, <3>6
  <2> QED
    BY <2>1, <2>2
<1>8. HintGiven' /\ Underway' /\ SavedEnded' /\ Opened'
  BY <1>1, <1>2, <1>3, <1>7
     DEF HintGiven, Underway, SavedEnded, Opened, Fronted, BuiltOn, Persona, SystemMsg
<1>9. SessionPlain' /\ StoredSound'
  BY <1>1 DEF SInv, SessionPlain, StoredSound, PairedOn, CallsAnswered, ToolsRequested, Answers
<1>10. Uncut'
  <2>1. LoopInv => LoopInv'
    BY <1>1, InvStep DEF Next
  <2> QED
    BY <1>1, <2>1 DEF SInv, Uncut
<1> QED
  BY <1>6, <1>8, <1>9, <1>10, RunKeepsSound DEF SInv

---------------------------------------------------------------------------
(***************************************************************************)
(* The ends of a turn, and the next one.                                   *)
(***************************************************************************)
\* What the turn returned is stored behind what was: the session grows.
LEMMA StoredGrows ==
    ASSUME SInv, SaveTurn
    PROVE  /\ session' \in Seq(Message)
           /\ Len(session') = Len(messages) - 2
           /\ DOMAIN session' = 1..(Len(messages) - 2)
           /\ \A i \in DOMAIN session' : i + 2 \in DOMAIN messages /\ messages[i + 2] = session'[i]
           /\ Len(session) < Len(session')
           /\ \A i \in DOMAIN session : i \in DOMAIN session' /\ session'[i] = session[i]
<1>1. node = "end" /\ ~ saved /\ session' = WithoutSystem(messages)
  BY DEF SaveTurn
<1>2. /\ messages \in Seq(Message) /\ Len(messages) \in Nat /\ DOMAIN messages = 1..Len(messages)
      /\ Len(session) \in Nat /\ DOMAIN session = 1..Len(session)
      /\ Len(session) + 3 <= Len(messages)
  BY <1>1, Progress
<1>3. Fronted(messages) /\ BuiltOn(messages, session)
  BY <1>1 DEF SInv, HintGiven, Underway
<1>4. /\ session' \in Seq(Message)
      /\ Len(session') = Len(messages) - 2
      /\ DOMAIN session' = 1..(Len(messages) - 2)
      /\ \A i \in 1..(Len(messages) - 2) : session'[i] = messages[i + 2]
  BY <1>1, <1>2, <1>3, StoredIsTail
<1>5. \A i \in DOMAIN session : i \in DOMAIN session'
  BY <1>2, <1>4
<1>6. Len(session) < Len(session')
  BY <1>2, <1>4
<1>7. \A i \in DOMAIN session' : i + 2 \in DOMAIN messages /\ messages[i + 2] = session'[i]
  BY <1>2, <1>4
<1>8. \A i \in DOMAIN session : messages[i + 2] = session[i]
  BY <1>3 DEF BuiltOn
<1>9. \A i \in DOMAIN session : session'[i] = session[i]
  BY <1>5, <1>7, <1>8
<1> QED
  BY <1>4, <1>5, <1>6, <1>7, <1>9

LEMMA SavedSound ==
    ASSUME SInv, SaveTurn
    PROVE  StoredSound' /\ cuts' \subseteq DOMAIN session'
<1> DEFINE n == Len(session')
           S == DOMAIN session' \ cuts'
           T == {i + 2 : i \in S}
           Rest == {1, 2}
<1>1. node = "end" /\ ~ saved
      /\ cuts' = IF TerminatedReason = "max_iters" THEN cuts \cup {n} ELSE cuts
  BY DEF SaveTurn
<1>2. /\ messages \in Seq(Message) /\ Len(messages) \in Nat /\ DOMAIN messages = 1..Len(messages)
      /\ cuts \subseteq DOMAIN session
      /\ Len(session) + 3 <= Len(messages) /\ Len(session) \in Nat
      /\ DOMAIN session = 1..Len(session)
  BY <1>1, Progress DEF SInv, STypeOK
<1>3. /\ session' \in Seq(Message) /\ n = Len(messages) - 2 /\ DOMAIN session' = 1..n
      /\ \A i \in DOMAIN session' : i + 2 \in DOMAIN messages /\ messages[i + 2] = session'[i]
      /\ \A i \in DOMAIN session : i \in DOMAIN session' /\ session'[i] = session[i]
  BY StoredGrows
<1>4. n \in DOMAIN session'
  BY <1>2, <1>3
<1>5. cuts' \subseteq DOMAIN session'
  BY <1>1, <1>2, <1>3, <1>4
<1>6. /\ last.calls = <<>> => Sound(messages) /\ cuts' = cuts
      /\ last.calls # <<>> => EndsOpen(messages) /\ cuts' = cuts \cup {n}
  <2>1. iteration >= MaxIters => Iterations >= MaxIters
    BY LoopAssumption DEF Iterations, SInv, STypeOK, TypeOK
  <2> QED
    BY <1>1, <2>1 DEF SInv, RunSound, TerminatedReason
<1>7. PairedOn(messages, T \cup Rest)
  <2>1. CASE last.calls = <<>>
    <3>1. DOMAIN messages \ Open = T \cup Rest
      <4>1. ASSUME NEW i \in DOMAIN messages, i \notin Open, i \notin Rest PROVE i \in T
        <5>1. i - 2 \in DOMAIN session' /\ i = (i - 2) + 2
          BY <1>2, <1>3, <4>1
        <5> QED
          BY <1>6, <2>1, <4>1, <5>1 DEF Open
      <4>2. ASSUME NEW i \in S, NEW j \in cuts, j + 2 = i + 2 PROVE FALSE
        BY <1>2, <1>3, <1>6, <2>1, <4>2
      <4>3. ASSUME NEW i \in Rest, NEW j \in cuts, i = j + 2 PROVE FALSE
        BY <1>2, <4>3
      <4>4. Rest \subseteq DOMAIN messages /\ T \subseteq DOMAIN messages
        BY <1>2, <1>3
      <4> QED
        BY <4>1, <4>2, <4>3, <4>4 DEF Open
    <3> QED
      BY <1>6, <2>1, <3>1 DEF Sound
  <2>2. CASE last.calls # <<>>
    <3>1. (1..(Len(messages) - 1)) \ Open = T \cup Rest
      <4>1. ASSUME NEW i \in 1..(Len(messages) - 1), i \notin Open, i \notin Rest PROVE i \in T
        <5>1. i \in 3..(n + 1) /\ n \in Nat
          <6> HIDE DEF n
          <6> QED
            BY <1>2, <1>3, <4>1
        <5>2. i - 2 \in DOMAIN session' /\ i = (i - 2) + 2 /\ i - 2 # n
          <6> HIDE DEF n
          <6> QED
            BY <1>3, <5>1
        <5> QED
          BY <1>6, <2>2, <4>1, <5>2 DEF Open
      <4>2. ASSUME NEW i \in S, NEW j \in cuts, j + 2 = i + 2 PROVE FALSE
        BY <1>2, <1>3, <1>6, <2>2, <4>2
      <4>3. ASSUME NEW i \in Rest, NEW j \in cuts, i = j + 2 PROVE FALSE
        BY <1>2, <4>3
      <4>4. Rest \subseteq 1..(Len(messages) - 1)
        BY <1>2
      <4>5. ASSUME NEW i \in S PROVE i + 2 \in 1..(Len(messages) - 1)
        BY <1>2, <1>3, <1>6, <2>2, <4>5
      <4> QED
        BY <4>1, <4>2, <4>3, <4>4, <4>5 DEF Open
    <3> QED
      BY <1>6, <2>2, <3>1 DEF EndsOpen
  <2> QED
    BY <2>1, <2>2
<1>8. \A i \in Rest : messages[i].role \in {"system", "user"}
  BY <1>1 DEF SInv, HintGiven, Fronted, Persona, SystemMsg
<1>9. PairedOn(messages, T)
  <2> HIDE DEF T, Rest
  <2> QED
    BY <1>7, <1>8, NeutralPairs
<1>10. PairedOn(session', S)
  <2>1. /\ session' \in Seq(Message) /\ messages \in Seq(Message) /\ 2 \in Nat
        /\ S \in SUBSET DOMAIN session'
    BY <1>2, <1>3
  <2>2. \A i \in DOMAIN session' : i + 2 \in DOMAIN messages /\ messages[i + 2] = session'[i]
    BY <1>3
  <2>3. T = {i + 2 : i \in S}
    OBVIOUS
  <2> HIDE DEF S, T
  <2> QED
    BY ONLY <1>9, <2>1, <2>2, <2>3, ShiftedPairs
<1>11. ASSUME NEW i \in cuts' PROVE IsHead(session'[i])
  <2>1. CASE i \in cuts
    BY <1>2, <1>3, <2>1 DEF SInv, StoredSound
  <2>2. CASE i \notin cuts
    <3>1. i = n /\ IsHead(messages[Len(messages)])
      BY <1>6, <1>11, <2>2 DEF EndsOpen
    <3>2. session'[n] = messages[Len(messages)]
      <4>1. n + 2 = Len(messages)
        BY <1>2, <1>3
      <4> QED
        BY <1>3, <1>4, <4>1
    <3> QED
      BY <3>1, <3>2
  <2> QED
    BY <2>1, <2>2
<1> QED
  BY <1>5, <1>10, <1>11 DEF StoredSound

LEMMA SaveTurnKeeps ==
    ASSUME SInv, SaveTurn
    PROVE  SInv'
<1>1. /\ node = "end" /\ ~ saved /\ saved' = TRUE /\ UNCHANGED <<vars, turn>>
      /\ cuts \subseteq cuts'
  BY DEF SaveTurn
<1>2. UNCHANGED <<node, messages, iteration, last, sent, report, cvars>>
  BY <1>1 DEF vars, loopvars
<1>3. /\ session' \in Seq(Message)
      /\ DOMAIN session' = 1..(Len(messages) - 2)
      /\ \A i \in DOMAIN session' : i + 2 \in DOMAIN messages /\ messages[i + 2] = session'[i]
  BY StoredGrows
<1>4. STypeOK'
  <2>1. TypeOK'
    BY <1>2 DEF SInv, STypeOK, TypeOK, CTypeOK, cvars
  <2> QED
    BY <1>1, <1>3, <2>1, SavedSound DEF SInv, STypeOK
<1>5. SessionPlain'
  <2>1. messages \in Seq(Message) /\ DOMAIN messages = 1..Len(messages) /\ Len(messages) \in Nat
    BY <1>1, Progress
  <2>2. Fronted(messages)
    BY <1>1 DEF SInv, HintGiven
  <2>3. ASSUME NEW i \in DOMAIN session' PROVE i + 2 \in 3..Len(messages)
    BY <1>3, <2>1
  <2> QED
    BY <1>3, <2>2, <2>3 DEF SessionPlain, Fronted
<1>6. HintGiven'
  BY <1>2 DEF SInv, HintGiven, Fronted, Persona, SystemMsg
<1>7. Opened' /\ Underway' /\ SavedEnded' /\ RunSound'
  BY <1>1, <1>2 DEF Opened, Underway, SavedEnded, RunSound
<1>8. Uncut'
  BY <1>1, InvLater DEF SInv, Uncut
<1> QED
  BY <1>4, <1>5, <1>6, <1>7, <1>8, SavedSound DEF SInv

LEMMA SaveFailsKeeps ==
    ASSUME SInv, SaveFails
    PROVE  SInv'
<1>1. /\ node' = "aborted" /\ ~ saved /\ node = "end"
      /\ UNCHANGED <<messages, iteration, last, sent, report, cvars>>
      /\ UNCHANGED <<session, turn, saved, cuts>>
  BY DEF SaveFails, svars
<1>2. STypeOK'
  BY <1>1 DEF SInv, STypeOK, TypeOK, CTypeOK, cvars, Nodes
<1>3. SessionPlain' /\ StoredSound'
  BY <1>1 DEF SInv, SessionPlain, StoredSound, PairedOn, CallsAnswered, ToolsRequested, Answers
<1>4. HintGiven' /\ Underway'
  BY <1>1 DEF SInv, HintGiven, Underway, Fronted, BuiltOn, Persona, SystemMsg
<1>5. Opened' /\ SavedEnded' /\ RunSound'
  BY <1>1 DEF Opened, SavedEnded, RunSound
<1>6. Uncut'
  <2>1. LoopInv => LoopInv'
    <3> SUFFICES ASSUME LoopInv PROVE LoopInv'
      OBVIOUS
    <3>1. RequestsPaired'
      BY <1>1, NoNewMessages
    <3>2. TypeOK'
      BY <1>2 DEF STypeOK
    <3> QED
      BY <1>1, <3>1, <3>2 DEF LoopInv, FirstRequestToCome, ConversationPaired, CallsOpen,
         OutcomeAgrees, MarkAgrees
  <2> QED
    BY <1>1, <2>1 DEF SInv, Uncut
<1> QED
  BY <1>2, <1>3, <1>4, <1>5, <1>6 DEF SInv

\* A run of the agent starts as the first one did, with the stored messages.
LEMMA OpeningPaired ==
    ASSUME NEW stored \in Seq(Message), Paired(stored), NEW text \in LogTexts,
           \A i \in DOMAIN stored : stored[i].role # "system"
    PROVE  Paired(Opening(stored, text))
<1> DEFINE ms == Opening(stored, text)
           n == Len(stored)
           T == {i + 1 : i \in DOMAIN stored}
           Rest == {1, n + 2}
<1>1. /\ ms \in Seq(Message) /\ n \in Nat /\ DOMAIN stored = 1..n
      /\ DOMAIN ms = 1..(n + 2)
      /\ ms[1] = Persona /\ ms[n + 2] = UserMsg(text)
      /\ \A i \in DOMAIN stored : ms[i + 1] = stored[i]
  BY OpeningProperties
<1> HIDE DEF ms, n
<1>2. \A i \in DOMAIN stored : i + 1 \in DOMAIN ms
  BY <1>1
<1>3. PairedOn(ms, T)
  <2>1. \A i \in DOMAIN stored : i + 1 \in DOMAIN ms /\ ms[i + 1] = stored[i]
    BY <1>1, <1>2
  <2>2. /\ stored \in Seq(Message) /\ ms \in Seq(Message) /\ 1 \in Nat
        /\ DOMAIN stored \in SUBSET DOMAIN stored
    BY <1>1
  <2>3. PairedOn(stored, DOMAIN stored) /\ T = {i + 1 : i \in DOMAIN stored}
    BY DEF Paired
  <2> HIDE DEF T
  <2> QED
    BY ONLY <2>1, <2>2, <2>3, ShiftedPairs
<1>4. \A i \in Rest : ms[i].role \in {"system", "user"}
  BY <1>1 DEF Persona, SystemMsg, UserMsg
<1>5. DOMAIN ms = T \cup Rest
  <2>1. ASSUME NEW i \in DOMAIN ms, i \notin Rest PROVE i \in T
    <3>1. i - 1 \in DOMAIN stored /\ i = (i - 1) + 1
      BY <1>1, <2>1
    <3> QED
      BY <3>1
  <2> QED
    BY <1>1, <1>2, <2>1
<1>6. PairedOn(ms, T \cup Rest)
  <2> HIDE DEF T, Rest
  <2> QED
    BY <1>3, <1>4, NeutralPairs
<1> QED
  BY <1>5, <1>6 DEF Paired, ms

LEMMA NextTurnKeeps ==
    ASSUME SInv, NextTurn
    PROVE  SInv'
<1>1. /\ turn < MaxTurns /\ turn' = turn + 1 /\ saved' = FALSE
      /\ node' = "intake" /\ iteration' = 0 /\ last' = NoResponse /\ sent' = {} /\ report' = NoReport
      /\ CReset
      /\ UNCHANGED <<session, cuts>>
  BY DEF NextTurn
<1>2. PICK text \in LogTexts : messages' = Opening(session, text)
  BY DEF NextTurn
<1>3. session \in Seq(Message) /\ \A i \in DOMAIN session : session[i].role # "system"
  BY DEF SInv, STypeOK, SessionPlain
<1>4. messages' \in Seq(Message)
  BY <1>2, <1>3, OpeningProperties
<1>5. TypeOK'
  <2>1. CTypeOK'
    BY <1>1, EmptySeq DEF CReset, CTypeOK, Attempts
  <2>2. last' \in Response
    BY <1>1, EmptySeq DEF NoResponse, Response, Fallbacks
  <2> QED
    BY <1>1, <1>4, <2>1, <2>2 DEF TypeOK, Nodes, Report, NoReport
<1>6. STypeOK'
  <2>1. turn + 1 \in 1..MaxTurns
    BY <1>1, SessionAssumption DEF SInv, STypeOK
  <2> QED
    BY <1>1, <1>5, <2>1 DEF SInv, STypeOK
<1>7. SessionPlain' /\ StoredSound'
  BY <1>1 DEF SInv, SessionPlain, StoredSound, PairedOn, CallsAnswered, ToolsRequested, Answers
<1>8. Opened'
  BY <1>1, <1>2 DEF Opened, Opening, Persona, SystemMsg, UserMsg
<1>9. HintGiven' /\ Underway' /\ SavedEnded' /\ RunSound'
  BY <1>1 DEF HintGiven, Underway, SavedEnded, RunSound
<1>10. Uncut'
  <2> SUFFICES ASSUME cuts = {} PROVE LoopInv'
    BY <1>1 DEF Uncut
  <2>1. Paired(session)
    BY DEF SInv, StoredSound, Paired
  <2>2. Paired(messages')
    BY <1>2, <1>3, <2>1, OpeningPaired
  <2>3. RequestsPaired'
    BY <1>1 DEF RequestsPaired, PairedOn, CallsAnswered, ToolsRequested
  <2> QED
    BY <1>1, <1>5, <2>2, <2>3 DEF LoopInv, FirstRequestToCome, ConversationPaired, CallsOpen,
       OutcomeAgrees, MarkAgrees, NoResponse
<1> QED
  BY <1>6, <1>7, <1>8, <1>9, <1>10 DEF SInv

LEMMA StutterKeeps ==
    ASSUME SInv, UNCHANGED allvars
    PROVE  SInv'
<1>1. UNCHANGED <<node, messages, iteration, last, sent, report, cvars, session, turn, saved, cuts>>
      /\ UNCHANGED vars
  BY DEF allvars, vars, loopvars, svars
<1>2. STypeOK' /\ SessionPlain' /\ Opened'
  BY <1>1 DEF SInv, STypeOK, TypeOK, CTypeOK, cvars, SessionPlain, Opened, Opening, Persona,
     SystemMsg, UserMsg
<1>3. HintGiven' /\ Underway' /\ SavedEnded'
  BY <1>1 DEF SInv, HintGiven, Underway, SavedEnded, Fronted, BuiltOn, Persona, SystemMsg
<1>4. RunSound' /\ StoredSound'
  BY <1>1 DEF SInv, RunSound, StoredSound, Sound, EndsOpen, Open, PairedOn, CallsAnswered,
     ToolsRequested, Answers
<1>5. Uncut'
  BY <1>1, InvLater DEF SInv, Uncut
<1> QED
  BY <1>2, <1>3, <1>4, <1>5 DEF SInv

---------------------------------------------------------------------------
LEMMA SInitially == SInit => SInv
<1> SUFFICES ASSUME SInit PROVE SInv
  OBVIOUS
<1>1. /\ session = <<>> /\ cuts = {} /\ turn = 1 /\ saved = FALSE /\ node = "intake" /\ Init
  BY DEF SInit, Init
<1>2. LoopInv
  BY <1>1, InvInitially
<1>3. session \in Seq(Message) /\ DOMAIN session = {}
  BY <1>1, EmptySeq
<1>4. STypeOK
  <2>1. TypeOK
    BY <1>2 DEF LoopInv
  <2>2. 1 \in 1..MaxTurns
    BY SessionAssumption
  <2> QED
    BY <1>1, <1>3, <2>1, <2>2 DEF STypeOK
<1>5. \E text \in LogTexts : messages = Opening(session, text)
  BY <1>1, SessionAssumption DEF Init
<1>6. SessionPlain /\ StoredSound
  BY <1>1, <1>3 DEF SessionPlain, StoredSound, PairedOn, CallsAnswered, ToolsRequested
<1> QED
  BY <1>1, <1>2, <1>4, <1>5, <1>6
     DEF SInv, Opened, HintGiven, Underway, SavedEnded, RunSound, Uncut

LEMMA SStep == SInv /\ [SNext]_allvars => SInv'
BY RunKeeps, SaveTurnKeeps, SaveFailsKeeps, NextTurnKeeps, StutterKeeps DEF SNext, SStopped

LEMMA SAlways == SSpec => []SInv
BY SInitially, SStep, PTL DEF SSpec

(***************************************************************************)
(* The variables hold what the endpoint puts there, in every turn.         *)
(***************************************************************************)
THEOREM STypeCorrect == SSpec => []STypeOK
<1>1. SInv => STypeOK
  BY DEF SInv
<1> QED
  BY <1>1, SAlways, PTL

(***************************************************************************)
(* A session accumulates: no turn alters or drops a stored message, though *)
(* every turn stores a list that was rebuilt and filtered (app.py,         *)
(* session.messages).                                                      *)
(***************************************************************************)
THEOREM SessionsGrow == SSpec => SessionOnlyGrows
<1> DEFINE Grows == /\ Len(session) <= Len(session')
                    /\ \A i \in DOMAIN session : session'[i] = session[i]
<1>1. ASSUME SInv, [SNext]_allvars PROVE Grows
  <2>1. session \in Seq(Message) /\ Len(session) \in Nat
    BY <1>1, LenProperties DEF SInv, STypeOK
  <2>2. CASE SaveTurn
    BY <1>1, <2>1, <2>2, StoredGrows
  <2>3. CASE UNCHANGED session
    BY <2>1, <2>3
  <2> QED
    BY <1>1, <2>2, <2>3 DEF SNext, Run, SaveFails, NextTurn, SStopped, allvars, svars
<1>2. SInv /\ [SNext]_allvars => [Grows]_allvars
  BY <1>1
<1> QED
  BY <1>2, SAlways, PTL DEF SSpec, SessionOnlyGrows

(***************************************************************************)
(* However many turns a session has, the LLM reads the persona once and    *)
(* the hint once, in front of everything else.                             *)
(***************************************************************************)
THEOREM PersonaAndHintOnce == SSpec => []OnePersonaOneHint
<1>1. SInv => OnePersonaOneHint
  <2> SUFFICES ASSUME SInv, node # "intake"
               PROVE  /\ \A i \in DOMAIN messages : messages[i].role = "system" <=> i <= 2
                      /\ {messages[1], messages[2]} = {Persona, SystemMsg("intake")}
    BY DEF OnePersonaOneHint
  <2>1. Fronted(messages) /\ DOMAIN messages = 1..Len(messages) /\ Len(messages) \in Nat
    BY LenProperties DEF SInv, HintGiven, STypeOK, TypeOK
  <2>2. Persona.role = "system" /\ SystemMsg("intake").role = "system"
    BY DEF Persona, SystemMsg
  <2>3. ASSUME NEW i \in DOMAIN messages PROVE messages[i].role = "system" <=> i <= 2
    <3>1. i = 1 \/ i = 2 \/ i \in 3..Len(messages)
      BY <2>1
    <3> QED
      BY <2>1, <2>2, <3>1 DEF Fronted
  <2> QED
    BY <2>1, <2>3 DEF Fronted
<1> QED
  BY <1>1, SAlways, PTL

(***************************************************************************)
(* A stored session can be sent again but for the last calls of turns that *)
(* were cut by max_iters; a session without such a turn only makes         *)
(* requests a provider accepts.                                            *)
(***************************************************************************)
THEOREM OnlyCutsDangle == SSpec => []DanglingOnlyWhereCut
<1>1. SInv => DanglingOnlyWhereCut
  BY DEF SInv, StoredSound, Uncut, LoopInv, DanglingOnlyWhereCut
<1> QED
  BY <1>1, SAlways, PTL
=============================================================================
