------------------------ MODULE ConversationProofs ------------------------
(***************************************************************************)
(* Facts about conversations that hold for every message list: what        *)
(* truncation, the intake hint, a reply and a round of answers do to the   *)
(* pairing of tool calls. AgentLoopProofs rests on them.                   *)
(***************************************************************************)
EXTENDS Conversation, FiniteSetTheorems, FunctionTheorems, SequenceTheorems, WellFoundedInduction,
        TLAPS

\* The fields of a message, and the domain of a conversation.
LEMMA MessageFields ==
    ASSUME NEW ms \in Seq(Message), NEW i \in DOMAIN ms
    PROVE  /\ DOMAIN ms = 1..Len(ms)
           /\ Len(ms) \in Nat
           /\ i \in Nat
           /\ ms[i] \in Message
           /\ ms[i].calls \in Seq(CallIds)
           /\ DOMAIN ms[i].calls = 1..Len(ms[i].calls)
           /\ Len(ms[i].calls) \in Nat
PROOF
<1>1. DOMAIN ms = 1..Len(ms) /\ Len(ms) \in Nat
  BY LenProperties
<1>2. ms[i] \in Message
  BY <1>1, ElementOfSeq
<1>3. ms[i].calls \in Seq(CallIds)
  BY <1>2 DEF Message
<1> QED
  BY <1>1, <1>2, <1>3, LenProperties

(***************************************************************************)
(* Removing whole groups keeps the pairing, whichever groups they are:     *)
(* the reason why _truncate_messages may stop after any of them.           *)
(***************************************************************************)
LEMMA RemovingGroupsKeepsPairs ==
    ASSUME NEW ms \in Seq(Message), Paired(ms), NEW R \in SUBSET Heads(ms)
    PROVE  PairedOn(ms, DOMAIN ms \ UNION {Group(ms, h) : h \in R})
PROOF
<1> DEFINE S == DOMAIN ms \ UNION {Group(ms, h) : h \in R}
<1>0. DOMAIN ms = 1..Len(ms) /\ Len(ms) \in Nat
  BY LenProperties
<1>1. ASSUME NEW i \in DOMAIN ms, IsHead(ms[i]), NEW k \in 1..Len(ms[i].calls)
      PROVE  i + k \in DOMAIN ms /\ Answers(ms, i, k)
  BY <1>1 DEF Paired, PairedOn, CallsAnswered
<1>2. ASSUME NEW i \in S, IsHead(ms[i]), NEW k \in 1..Len(ms[i].calls)
      PROVE  i + k \in S /\ Answers(ms, i, k)
  <2>1. i \in DOMAIN ms
    OBVIOUS
  <2>2. i + k \in DOMAIN ms /\ Answers(ms, i, k)
    BY <1>1, <1>2, <2>1
  <2>3. ASSUME NEW h \in R, i + k \in Group(ms, h)
        PROVE  FALSE
    <3>1. h \in DOMAIN ms /\ IsHead(ms[h]) /\ ms[h].role = "assistant"
      BY DEF Heads, IsHead
    <3>2. ms[i + k].role = "tool"
      BY <2>2 DEF Answers
    <3>3. i + k > h /\ \A x \in (h + 1)..(i + k) : ms[x].role = "tool"
      BY <2>3, <3>1, <3>2 DEF Group
    <3>4. ms[i].role = "assistant"
      BY <1>2 DEF IsHead
    <3>5. i <= h
      BY <3>3, <3>4, <2>1, <3>1, <1>0
    <3>6. i # h
      BY DEF Group
    <3>7. h - i \in 1..Len(ms[i].calls) /\ i + (h - i) = h
      BY <3>3, <3>5, <3>6, <2>1, <3>1, <1>0, MessageFields
    <3>8. ms[h].role = "tool"
      BY <3>7, <1>1, <1>2, <2>1 DEF Answers
    <3> QED
      BY <3>8, <3>1
  <2> QED
    BY <2>2, <2>3
<1>3. ASSUME NEW j \in S, ms[j].role = "tool"
      PROVE  \E i \in S : /\ IsHead(ms[i])
                          /\ \E k \in 1..Len(ms[i].calls) : j = i + k /\ Answers(ms, i, k)
  <2>1. PICK i \in DOMAIN ms :
            /\ IsHead(ms[i])
            /\ \E k \in 1..Len(ms[i].calls) : j = i + k /\ Answers(ms, i, k)
    BY <1>3 DEF Paired, PairedOn, ToolsRequested
  <2>2. PICK k \in 1..Len(ms[i].calls) : j = i + k /\ Answers(ms, i, k)
    BY <2>1
  <2>3. ASSUME NEW h \in R, i \in Group(ms, h)
        PROVE  FALSE
    <3>1. h \in DOMAIN ms /\ IsHead(ms[h])
      BY DEF Heads
    <3>2. i = h
      BY <2>1, <2>3, <3>1, <1>0 DEF Group, IsHead
    <3>3. \A x \in (h + 1)..j : ms[x].role = "tool"
      <4> SUFFICES ASSUME NEW x \in (h + 1)..j
                   PROVE  ms[x].role = "tool"
        OBVIOUS
      <4>1. x - h \in 1..Len(ms[h].calls) /\ h + (x - h) = x
        BY <2>2, <3>2, <3>1, <1>0, MessageFields
      <4> QED
        BY <4>1, <1>1, <3>1 DEF Answers
    <3>4. ms[j].cid = ms[h].calls[k] /\ k \in DOMAIN ms[h].calls
      BY <2>2, <3>2, <3>1, MessageFields DEF Answers
    <3>5. j > h
      BY <2>2, <3>2, <3>1, <1>0, MessageFields
    <3>6. j \in Group(ms, h)
      BY <3>3, <3>4, <3>5 DEF Group
    <3> QED
      BY <3>6
  <2>4. i \in S
    BY <2>3
  <2> QED
    BY <2>1, <2>4
<1> QED
  BY <1>2, <1>3 DEF PairedOn, CallsAnswered, ToolsRequested

\* What _truncate_messages sends of a paired conversation is paired.
LEMMA TruncateKeepsPairs ==
    ASSUME NEW ms \in Seq(Message), Paired(ms), NEW limit, NEW failAt
    PROVE  /\ Truncate(ms, limit, failAt) \subseteq DOMAIN ms
           /\ PairedOn(ms, Truncate(ms, limit, failAt))
PROOF
<1> DEFINE n == GroupsRemoved(ms, limit, failAt)
<1>1. OldestRemovable(ms, n) \subseteq Heads(ms)
  BY DEF OldestRemovable, Removable
<1>2. PairedOn(ms, DOMAIN ms \ UNION {Group(ms, h) : h \in OldestRemovable(ms, n)})
  BY <1>1, RemovingGroupsKeepsPairs
<1> QED
  BY <1>2 DEF Truncate, Without

---------------------------------------------------------------------------
(***************************************************************************)
(* Pairing on a set of positions only looks at those positions: whatever   *)
(* is appended later does not disturb it.                                  *)
(***************************************************************************)
LEMMA PairingIsLocal ==
    ASSUME NEW ms \in Seq(Message), NEW more \in Seq(Message), NEW S \in SUBSET DOMAIN ms,
           Len(ms) <= Len(more), \A i \in DOMAIN ms : more[i] = ms[i],
           PairedOn(ms, S)
    PROVE  PairedOn(more, S)
PROOF
<1>1. ASSUME NEW i \in S
      PROVE  more[i] = ms[i] /\ i \in DOMAIN ms
  OBVIOUS
<1>2. ASSUME NEW i \in S, NEW k, i + k \in S
      PROVE  Answers(more, i, k) <=> Answers(ms, i, k)
  BY <1>1, <1>2 DEF Answers
<1>3. CallsAnswered(more, S)
  BY <1>1, <1>2 DEF PairedOn, CallsAnswered
<1>4. ToolsRequested(more, S)
  <2> SUFFICES ASSUME NEW j \in S, more[j].role = "tool"
               PROVE  \E i \in S : /\ IsHead(more[i])
                                   /\ \E k \in 1..Len(more[i].calls) :
                                          j = i + k /\ Answers(more, i, k)
    BY DEF ToolsRequested
  <2>1. PICK i \in S : /\ IsHead(ms[i])
                       /\ \E k \in 1..Len(ms[i].calls) : j = i + k /\ Answers(ms, i, k)
    BY <1>1 DEF PairedOn, ToolsRequested
  <2> QED
    BY <2>1, <1>1, <1>2
<1> QED
  BY <1>3, <1>4 DEF PairedOn

\* A message that neither calls nor answers a tool may be appended anywhere.
LEMMA AppendKeepsPairsOn ==
    ASSUME NEW ms \in Seq(Message), NEW S \in SUBSET DOMAIN ms, PairedOn(ms, S),
           NEW m \in Message, ~ IsHead(m), m.role # "tool"
    PROVE  PairedOn(Append(ms, m), S \cup {Len(ms) + 1})
PROOF
<1> DEFINE more == Append(ms, m)
<1>1. /\ more \in Seq(Message)
      /\ Len(more) = Len(ms) + 1
      /\ \A i \in DOMAIN ms : more[i] = ms[i]
      /\ more[Len(ms) + 1] = m
      /\ DOMAIN ms = 1..Len(ms) /\ Len(ms) \in Nat
  BY AppendProperties, LenProperties
<1> HIDE DEF more
<1>2. PairedOn(more, S)
  BY <1>1, PairingIsLocal
<1>3. CallsAnswered(more, S \cup {Len(ms) + 1})
  BY <1>1, <1>2 DEF PairedOn, CallsAnswered
<1>4. ToolsRequested(more, S \cup {Len(ms) + 1})
  BY <1>1, <1>2 DEF PairedOn, ToolsRequested
<1> QED
  BY <1>3, <1>4 DEF PairedOn, more

LEMMA AppendKeepsPairs ==
    ASSUME NEW ms \in Seq(Message), Paired(ms), NEW m \in Message,
           ~ IsHead(m), m.role # "tool"
    PROVE  Paired(Append(ms, m))
PROOF
<1>1. /\ DOMAIN ms = 1..Len(ms) /\ Len(ms) \in Nat
      /\ DOMAIN Append(ms, m) = 1..(Len(ms) + 1)
  BY AppendProperties, LenProperties
<1>2. DOMAIN Append(ms, m) = DOMAIN ms \cup {Len(ms) + 1}
  BY <1>1
<1> QED
  BY <1>2, AppendKeepsPairsOn DEF Paired

(***************************************************************************)
(* One answer per call, in the order of the calls, right behind them,      *)
(* pairs the calls of the last message.                                    *)
(***************************************************************************)
LEMMA AnswersPairTheCallsOn ==
    ASSUME NEW ms \in Seq(Message), ms # <<>>, IsHead(ms[Len(ms)]),
           NEW S \in SUBSET (1..(Len(ms) - 1)), PairedOn(ms, S),
           NEW answers \in Seq(Message), Len(answers) = Len(ms[Len(ms)].calls),
           \A k \in 1..Len(answers) : /\ answers[k].role = "tool"
                                      /\ answers[k].cid = ms[Len(ms)].calls[k]
    PROVE  PairedOn(ms \o answers, S \cup Len(ms)..(Len(ms) + Len(answers)))
PROOF
<1> DEFINE more == ms \o answers
           last == Len(ms)
           T == S \cup last..(last + Len(answers))
<1>1. /\ more \in Seq(Message)
      /\ Len(more) = Len(ms) + Len(answers)
      /\ \A i \in 1..(Len(ms) + Len(answers)) :
            more[i] = IF i <= Len(ms) THEN ms[i] ELSE answers[i - Len(ms)]
  <2>1. ms \in Seq(Message) /\ answers \in Seq(Message)
    OBVIOUS
  <2> QED
    BY ONLY <2>1, ConcatProperties
<1>2. /\ DOMAIN ms = 1..last /\ last \in Nat \ {0}
      /\ DOMAIN answers = 1..Len(answers) /\ Len(answers) \in Nat
      /\ DOMAIN more = 1..(last + Len(answers))
  BY <1>1, LenProperties, EmptySeq
<1>3. \A i \in DOMAIN ms : more[i] = ms[i]
  BY <1>1, <1>2
<1>4. \A k \in 1..Len(answers) : more[last + k] = answers[k]
  BY <1>1, <1>2
<1> HIDE DEF more
<1>5. PairedOn(more, S)
  <2>1. Len(ms) <= Len(more)
    BY <1>1, <1>2
  <2>2. S \in SUBSET DOMAIN ms
    BY <1>2
  <2> QED
    BY <1>1, <1>3, <2>1, <2>2, PairingIsLocal
<1>6. last \in T /\ more[last] = ms[last]
  BY <1>2, <1>3
<1>7. \A k \in 1..Len(more[last].calls) : last + k \in T /\ Answers(more, last, k)
  BY <1>2, <1>4, <1>6 DEF Answers
<1>10. \A i \in T : i \in S \/ i = last \/ i > last
  <2>1. last \in Nat /\ last + Len(answers) \in Nat
    BY <1>2
  <2> HIDE DEF last
  <2>2. ASSUME NEW i \in last..(last + Len(answers)) PROVE i = last \/ i > last
    BY <2>1
  <2> QED
    BY <2>2
<1>8. CallsAnswered(more, T)
  <2> SUFFICES ASSUME NEW i \in T, IsHead(more[i]),
                      NEW k \in 1..Len(more[i].calls)
               PROVE  i + k \in T /\ Answers(more, i, k)
    BY DEF CallsAnswered
  <2>1. CASE i \in S
    BY <2>1, <1>5 DEF PairedOn, CallsAnswered
  <2>2. CASE i = last
    BY <2>2, <1>7
  <2>3. CASE i > last
    <3>1. i \in last..(last + Len(answers))
      BY <2>3, <1>2
    <3>2. i - last \in 1..Len(answers) /\ last + (i - last) = i
      BY <2>3, <3>1, <1>2
    <3>3. more[i].role = "tool"
      BY <3>2, <1>4
    <3> QED
      BY <3>3 DEF IsHead
  <2> QED
    BY <2>1, <2>2, <2>3, <1>10
<1>9. ToolsRequested(more, T)
  <2> SUFFICES ASSUME NEW j \in T, more[j].role = "tool"
               PROVE  \E i \in T : /\ IsHead(more[i])
                                   /\ \E k \in 1..Len(more[i].calls) :
                                          j = i + k /\ Answers(more, i, k)
    BY DEF ToolsRequested
  <2>1. CASE j \in S
    <3>1. PICK i \in S : /\ IsHead(more[i])
                         /\ \E k \in 1..Len(more[i].calls) : j = i + k /\ Answers(more, i, k)
      BY <2>1, <1>5 DEF PairedOn, ToolsRequested
    <3> QED
      BY <3>1
  <2>2. CASE j = last
    BY <2>2, <1>6 DEF IsHead
  <2>3. CASE j > last
    <3>1. j \in last..(last + Len(answers))
      BY <2>3, <1>2
    <3>2. j - last \in 1..Len(more[last].calls) /\ j = last + (j - last)
      BY <2>3, <3>1, <1>2, <1>6
    <3> QED
      BY <3>2, <1>6, <1>7
  <2> QED
    BY <2>1, <2>2, <2>3, <1>10
<1> QED
  BY <1>8, <1>9 DEF PairedOn, more

LEMMA AnswersPairTheCalls ==
    ASSUME NEW ms \in Seq(Message), ms # <<>>,
           IsHead(ms[Len(ms)]), PairedOn(ms, 1..(Len(ms) - 1)),
           NEW answers \in Seq(Message), Len(answers) = Len(ms[Len(ms)].calls),
           \A k \in 1..Len(answers) : /\ answers[k].role = "tool"
                                      /\ answers[k].cid = ms[Len(ms)].calls[k]
    PROVE  Paired(ms \o answers)
PROOF
<1>1. /\ ms \o answers \in Seq(Message)
      /\ Len(ms \o answers) = Len(ms) + Len(answers)
  <2>1. ms \in Seq(Message) /\ answers \in Seq(Message)
    OBVIOUS
  <2> QED
    BY ONLY <2>1, ConcatProperties
<1>3. /\ Len(ms) \in Nat \ {0} /\ Len(answers) \in Nat
      /\ DOMAIN (ms \o answers) = 1..(Len(ms) + Len(answers))
  BY <1>1, LenProperties, EmptySeq
<1>2. DOMAIN (ms \o answers) = 1..(Len(ms) - 1) \cup Len(ms)..(Len(ms) + Len(answers))
  BY <1>3
<1> QED
  BY <1>2, AnswersPairTheCallsOn DEF Paired

\* The last message's calls are without answers: there is nothing behind them.
LEMMA OpenCallsUnpaired ==
    ASSUME NEW ms \in Seq(Message), ms # <<>>, IsHead(ms[Len(ms)])
    PROVE  ~ Paired(ms)
PROOF
<1>1. DOMAIN ms = 1..Len(ms) /\ Len(ms) \in Nat \ {0}
  BY LenProperties, EmptySeq
<1>2. Len(ms[Len(ms)].calls) \in Nat \ {0}
  <2>1. ms[Len(ms)].calls \in Seq(CallIds) /\ ms[Len(ms)].calls # <<>>
    BY <1>1, MessageFields DEF IsHead
  <2> QED
    BY <2>1, EmptySeq
<1>3. 1 \in 1..Len(ms[Len(ms)].calls) /\ Len(ms) + 1 \notin DOMAIN ms
  BY <1>1, <1>2
<1> QED
  BY <1>1, <1>3 DEF Paired, PairedOn, CallsAnswered

---------------------------------------------------------------------------
(***************************************************************************)
(* No message belongs to two groups, so that removing one round of tools   *)
(* never takes an answer from another.                                     *)
(***************************************************************************)
LEMMA GroupsAreDisjoint ==
    ASSUME NEW ms \in Seq(Message), NEW g \in Heads(ms), NEW h \in Heads(ms), g # h
    PROVE  Group(ms, g) \cap Group(ms, h) = {}
PROOF
<1>1. ASSUME NEW x \in Heads(ms), NEW y \in Heads(ms), x < y,
             NEW p \in Group(ms, x), p \in Group(ms, y)
      PROVE  FALSE
  <2>1. x \in Nat /\ y \in Nat /\ p \in Nat
    BY LenProperties DEF Heads, Group
  <2>2. p >= y
    BY <1>1, <2>1 DEF Group
  <2>3. \A k \in (x + 1)..p : ms[k].role = "tool"
    BY <1>1, <2>1, <2>2 DEF Group
  <2>4. ms[y].role = "tool"
    BY <1>1, <2>1, <2>2, <2>3
  <2> QED
    BY <2>4 DEF Heads, IsHead
<1>2. g \in Nat /\ h \in Nat
  BY LenProperties DEF Heads
<1> QED
  BY <1>1, <1>2

\* A group that goes has at least two younger ones.
LEMMA OnlyOldGroupsGo ==
    ASSUME NEW ms \in Seq(Message), NEW limit, NEW failAt,
           NEW p \in DOMAIN ms \ Truncate(ms, limit, failAt)
    PROVE  \E h \in Heads(ms) : /\ p \in Group(ms, h)
                                /\ Cardinality({g \in Heads(ms) : g > h}) >= 2
  BY DEF Truncate, Without, OldestRemovable, Removable

---------------------------------------------------------------------------
\* A minimal counterexample: what the inductions below rest on.
LEMMA SmallestNat ==
    ASSUME NEW T, T \subseteq Nat, T # {}
    PROVE  \E y \in T : \A z \in T : y <= z
<1>1. PICK y \in T : \A z \in T : <<z, y>> \notin OpToRel(<, Nat)
  BY WFMin, NatLessThanWellFounded, Zenon
<1>2. ASSUME NEW z \in T PROVE z \in Nat /\ y \in Nat /\ ~ (z < y)
  BY <1>1, Zenon DEF OpToRel
<1>3. ASSUME NEW z \in T PROVE y <= z
  BY <1>2
<1> QED
  BY <1>3

---------------------------------------------------------------------------
(***************************************************************************)
(* The place of a position among those that are kept.                      *)
(***************************************************************************)
Place(S, i) == Cardinality({j \in S : j <= i})

\* Positions of a conversation are finitely many natural numbers.
LEMMA PositionsAre ==
    ASSUME NEW ms \in Seq(Message), NEW S \in SUBSET DOMAIN ms
    PROVE  /\ S \subseteq Nat
           /\ IsFiniteSet(S)
           /\ Cardinality(S) \in Nat
<1>1. DOMAIN ms = 1..Len(ms) /\ Len(ms) \in Nat
  BY LenProperties
<1>2. IsFiniteSet(1..Len(ms))
  BY <1>1, FS_Interval
<1>3. IsFiniteSet(S)
  BY <1>1, <1>2, FS_Subset
<1> QED
  BY <1>1, <1>3, FS_CardinalityType

\* Places are in the order of the positions.
LEMMA PlacesRise ==
    ASSUME NEW S \in SUBSET Nat, IsFiniteSet(S)
    PROVE  /\ \A i \in S : Place(S, i) \in 1..Cardinality(S)
           /\ \A i, k \in S : i < k => Place(S, i) < Place(S, k)
<1>1. Cardinality(S) \in Nat
  BY FS_CardinalityType
<1>2. ASSUME NEW i \in S PROVE Place(S, i) \in 1..Cardinality(S)
  <2> DEFINE B == {j \in S : j <= i}
  <2>1. IsFiniteSet(B) /\ Cardinality(B) <= Cardinality(S)
    BY FS_Subset
  <2>2. i \in B
    OBVIOUS
  <2>3. Cardinality(B) \in Nat /\ Cardinality(B) # 0
    BY <2>1, <2>2, FS_CardinalityType, FS_EmptySet
  <2> QED
    BY <1>1, <2>1, <2>3 DEF Place
<1>3. ASSUME NEW i \in S, NEW k \in S, i < k PROVE Place(S, i) < Place(S, k)
  <2> DEFINE B == {j \in S : j <= i}
             C == {j \in S : j <= k}
  <2>1. IsFiniteSet(C) /\ Cardinality(C) \in Nat
    BY FS_Subset, FS_CardinalityType
  <2>2. B \subseteq C /\ k \in C /\ k \notin B
    <3>1. \A j \in S : j \in Int
      OBVIOUS
    <3>2. ASSUME NEW j \in S, j <= i PROVE j <= k
      BY <1>3, <3>1, <3>2
    <3>3. ~ (k <= i) /\ k <= k
      BY <1>3, <3>1
    <3> QED
      BY <3>2, <3>3, Zenon
  <2> HIDE DEF B, C
  <2>3. IsFiniteSet(B) /\ Cardinality(B) <= Cardinality(C) /\ Cardinality(B) # Cardinality(C)
    BY <2>1, <2>2, FS_Subset
  <2>4. Cardinality(B) \in Nat
    BY <2>3, FS_CardinalityType
  <2> QED
    BY <2>1, <2>3, <2>4 DEF Place, B, C
<1> QED
  BY <1>2, <1>3

\* The places of S are numbered without gaps.
LEMMA PlacesAreNumbered ==
    ASSUME NEW S \in SUBSET Nat, IsFiniteSet(S)
    PROVE  /\ Cardinality(S) \in Nat
           /\ \A i, k \in S : Place(S, i) = Place(S, k) => i = k
           /\ \A n \in 1..Cardinality(S) : \E i \in S : Place(S, i) = n
<1> DEFINE f == [i \in S |-> Place(S, i)]
<1>1. Cardinality(S) \in Nat
  BY FS_CardinalityType
<1>2. f \in [S -> 1..Cardinality(S)]
  BY PlacesRise
<1>3. ASSUME NEW i \in S, NEW k \in S, Place(S, i) = Place(S, k) PROVE i = k
  <2>1. Place(S, i) \in Int /\ Place(S, k) \in Int
    BY PlacesRise
  <2>2. ~ (i < k) /\ ~ (k < i)
    BY <1>3, <2>1, PlacesRise
  <2>3. i \in Nat /\ k \in Nat
    OBVIOUS
  <2> QED
    BY <2>2, <2>3
<1>4. f \in Injection(S, 1..Cardinality(S))
  BY <1>2, <1>3, Fun_IsInj
<1>5. IsFiniteSet(1..Cardinality(S)) /\ Cardinality(1..Cardinality(S)) = Cardinality(S)
  BY <1>1, FS_Interval
<1>6. f \in Surjection(S, 1..Cardinality(S))
  BY <1>4, <1>5, FS_Injection
<1>7. \A n \in 1..Cardinality(S) : \E i \in S : f[i] = n
  BY <1>6 DEF Surjection
<1> QED
  BY <1>1, <1>3, <1>7

\* The list that is sent has the kept messages at their places.
LEMMA KeptIs ==
    ASSUME NEW ms \in Seq(Message), NEW S \in SUBSET DOMAIN ms
    PROVE  /\ Kept(ms, S) \in Seq(Message)
           /\ Len(Kept(ms, S)) = Cardinality(S)
           /\ DOMAIN Kept(ms, S) = 1..Cardinality(S)
           /\ \A i \in S : Place(S, i) \in 1..Cardinality(S)
                           /\ Kept(ms, S)[Place(S, i)] = ms[i]
<1> DEFINE at(n) == CHOOSE i \in S : Place(S, i) = n
<1>1. S \in SUBSET Nat /\ IsFiniteSet(S) /\ Cardinality(S) \in Nat
  BY PositionsAre
<1>2. ASSUME NEW i \in S
      PROVE  Place(S, i) \in 1..Cardinality(S) /\ at(Place(S, i)) = i
  <2>1. Place(S, i) \in 1..Cardinality(S)
    BY <1>1, PlacesRise
  <2>2. at(Place(S, i)) \in S /\ Place(S, at(Place(S, i))) = Place(S, i)
    OBVIOUS
  <2> QED
    BY <1>1, <2>1, <2>2, PlacesAreNumbered
<1>3. ASSUME NEW n \in 1..Cardinality(S) PROVE at(n) \in S
  <2>1. \E i \in S : Place(S, i) = n
    BY <1>1, PlacesAreNumbered
  <2> QED
    BY <2>1
<1>4. Kept(ms, S) = [n \in 1..Cardinality(S) |-> ms[at(n)]]
  BY DEF Kept, Place
<1>5. \A n \in 1..Cardinality(S) : ms[at(n)] \in Message
  BY <1>3, MessageFields
<1> HIDE DEF at
<1>6. [n \in 1..Cardinality(S) |-> ms[at(n)]] \in Seq(Message)
  BY ONLY <1>1, <1>5, IsASeq
<1>7. Kept(ms, S) \in Seq(Message) /\ DOMAIN Kept(ms, S) = 1..Cardinality(S)
  BY <1>4, <1>6
<1>8. Len(Kept(ms, S)) = Cardinality(S)
  BY <1>1, <1>7, LenProperties
<1>9. \A i \in S : Kept(ms, S)[Place(S, i)] = ms[i]
  BY <1>2, <1>4
<1> QED
  BY <1>2, <1>7, <1>8, <1>9

\* A list with the kept messages at their places is the list that is kept.
LEMMA IsKept ==
    ASSUME NEW ms \in Seq(Message), NEW S \in SUBSET DOMAIN ms, NEW list \in Seq(Message),
           Len(list) = Cardinality(S), \A i \in S : list[Place(S, i)] = ms[i]
    PROVE  list = Kept(ms, S)
<1>1. S \in SUBSET Nat /\ IsFiniteSet(S) /\ Cardinality(S) \in Nat
  BY PositionsAre
<1>2. ASSUME NEW n \in 1..Len(list) PROVE list[n] = Kept(ms, S)[n]
  <2>1. PICK i \in S : Place(S, i) = n
    BY <1>1, PlacesAreNumbered
  <2> QED
    BY <2>1, KeptIs
<1>3. Kept(ms, S) \in Seq(Message) /\ Len(Kept(ms, S)) = Len(list)
  BY KeptIs
<1> QED
  BY <1>2, <1>3, SeqEqual

\* A conversation that is kept whole is sent as it is.
LEMMA AllIsKept ==
    ASSUME NEW ms \in Seq(Message)
    PROVE  Kept(ms, DOMAIN ms) = ms
<1>1. DOMAIN ms = 1..Len(ms) /\ Len(ms) \in Nat
  BY LenProperties
<1>2. Cardinality(DOMAIN ms) = Len(ms)
  BY <1>1, FS_Interval
<1>3. ASSUME NEW i \in DOMAIN ms PROVE Place(DOMAIN ms, i) = i
  <2>1. {j \in DOMAIN ms : j <= i} = 1..i
    BY <1>1
  <2>2. i \in Nat \ {0}
    BY <1>1
  <2>3. Cardinality(1..i) = i
    BY <2>2, FS_Interval
  <2> QED
    BY <2>1, <2>3, Zenon DEF Place
<1> QED
  BY <1>2, <1>3, IsKept

(***************************************************************************)
(* What truncation counts: the sum of the sizes at the positions that are  *)
(* kept. The count is a fold; its equation is what these proofs use of it. *)
(***************************************************************************)
\* The equation of the fold, over sizes.
Sums(f, w, S) == f = [s \in SUBSET S |->
    IF s = {} THEN 0 ELSE w[CHOOSE x \in s : TRUE].size + f[s \ {CHOOSE x \in s : TRUE}]]

\* The count is the fold that the equation has.
LEMMA CountIsFold ==
    ASSUME NEW w, NEW S
    PROVE  TokenCount(w, S) = (CHOOSE f : Sums(f, w, S))[S]
  BY DEF TokenCount, MapThenSumSet, MapThenFoldSet, Sums

\* Without one member a finite set has one less.
LEMMA SmallerSet ==
    ASSUME NEW S, IsFiniteSet(S), NEW x \in S
    PROVE  /\ IsFiniteSet(S \ {x})
           /\ Cardinality(S) \in Nat \ {0}
           /\ Cardinality(S \ {x}) = Cardinality(S) - 1
<1>1. IsFiniteSet(S \ {x}) /\ Cardinality(S \ {x}) = Cardinality(S) - 1
  BY FS_RemoveElement
<1>2. Cardinality(S) \in Nat /\ Cardinality(S) # 0
  BY FS_CardinalityType, FS_EmptySet
<1> QED
  BY <1>1, <1>2

\* There is a function that satisfies it: one for the sets of up to n members makes
\* one for those of n + 1.
LEMMA FoldExists ==
    ASSUME NEW w, NEW S, IsFiniteSet(S), \A x \in S : w[x].size \in Nat
    PROVE  \E f \in [SUBSET S -> Nat] : Sums(f, w, S)
<1> DEFINE c(s) == CHOOSE x \in s : TRUE
           Eq(f, s) == f[s] = IF s = {} THEN 0 ELSE w[c(s)].size + f[s \ {c(s)}]
           Up(n) == \E f \in [SUBSET S -> Nat] :
                        \A s \in SUBSET S : Cardinality(s) <= n => Eq(f, s)
<1>1. \A s \in SUBSET S : s # {} => c(s) \in s
  OBVIOUS
<1> HIDE DEF c
<1>2. \A s \in SUBSET S : IsFiniteSet(s) /\ Cardinality(s) \in Nat
  BY FS_Subset, FS_CardinalityType
<1>3. ASSUME NEW s \in SUBSET S, s # {}
      PROVE  /\ s \ {c(s)} \in SUBSET S
             /\ Cardinality(s) \in Nat \ {0}
             /\ Cardinality(s \ {c(s)}) = Cardinality(s) - 1
             /\ w[c(s)].size \in Nat
  BY <1>1, <1>2, <1>3, SmallerSet
<1>4. Up(0)
  <2> DEFINE f == [s \in SUBSET S |-> 0]
  <2>1. f \in [SUBSET S -> Nat]
    OBVIOUS
  <2>2. ASSUME NEW s \in SUBSET S, Cardinality(s) <= 0 PROVE Eq(f, s)
    <3>1. s = {}
      <4>1. Cardinality(s) = 0
        BY <1>2, <2>2
      <4>2. IsFiniteSet(s)
        BY <1>2
      <4> QED
        BY <4>1, <4>2, FS_EmptySet
    <3> QED
      BY <3>1
  <2> HIDE DEF f
  <2> QED
    BY <2>1, <2>2
<1>5. ASSUME NEW n \in Nat, Up(n) PROVE Up(n + 1)
  <2>1. PICK f \in [SUBSET S -> Nat] : \A s \in SUBSET S : Cardinality(s) <= n => Eq(f, s)
    BY <1>5
  <2> DEFINE g == [s \in SUBSET S |-> IF Cardinality(s) <= n THEN f[s]
                                      ELSE IF s = {} THEN 0 ELSE w[c(s)].size + f[s \ {c(s)}]]
  <2>2. g \in [SUBSET S -> Nat]
    <3> SUFFICES ASSUME NEW s \in SUBSET S
                 PROVE  g[s] \in Nat
      BY DEF g
    <3>1. f[s] \in Nat
      OBVIOUS
    <3>2. s # {} => w[c(s)].size + f[s \ {c(s)}] \in Nat
      <4> SUFFICES ASSUME s # {} PROVE w[c(s)].size + f[s \ {c(s)}] \in Nat
        OBVIOUS
      <4>1. w[c(s)].size \in Nat /\ s \ {c(s)} \in SUBSET S
        BY <1>3
      <4>2. f[s \ {c(s)}] \in Nat
        BY <4>1
      <4> QED
        BY <4>1, <4>2
    <3> QED
      BY <3>1, <3>2
  <2>3. ASSUME NEW s \in SUBSET S, Cardinality(s) <= n + 1 PROVE Eq(g, s)
    <3>1. CASE s = {}
      <4>1. g[s] = IF Cardinality(s) <= n THEN f[s] ELSE 0
        BY <3>1
      <4>2. Cardinality(s) <= n => f[s] = 0
        BY <2>1, <3>1
      <4> QED
        BY <3>1, <4>1, <4>2
    <3>2. CASE s # {}
      <4>1. Cardinality(s \ {c(s)}) <= n /\ s \ {c(s)} \in SUBSET S
        BY <1>3, <2>3, <3>2
      <4>2. g[s \ {c(s)}] = f[s \ {c(s)}]
        BY <4>1
      <4>3. f[s] = w[c(s)].size + f[s \ {c(s)}] \/ ~ (Cardinality(s) <= n)
        BY <2>1, <3>2
      <4>4. g[s] = w[c(s)].size + f[s \ {c(s)}]
        BY <3>2, <4>3
      <4> HIDE DEF g
      <4> QED
        BY <3>2, <4>2, <4>4
    <3> QED
      BY <3>1, <3>2
  <2> HIDE DEF g
  <2> QED
    BY <2>2, <2>3
<1>6. Up(Cardinality(S))
  <2> DEFINE Bad == {n \in Nat : ~ Up(n)}
  <2> HIDE DEF Up
  <2>1. SUFFICES ASSUME Bad # {} PROVE FALSE
    BY FS_CardinalityType
  <2>2. PICK n \in Bad : \A z \in Bad : n <= z
    BY <2>1, SmallestNat
  <2>3. n \in Nat /\ n # 0
    BY <1>4
  <2>4. n - 1 \in Nat /\ (n - 1) + 1 = n /\ ~ (n <= n - 1)
    BY <2>3
  <2>5. n - 1 \notin Bad
    BY <2>2, <2>4
  <2>6. Up(n)
    BY <1>5, <2>4, <2>5
  <2> QED
    BY <2>6
<1>7. PICK f \in [SUBSET S -> Nat] :
          \A s \in SUBSET S : Cardinality(s) <= Cardinality(S) => Eq(f, s)
  BY <1>6
<1>8. \A s \in SUBSET S : Eq(f, s)
  BY <1>7, FS_Subset
<1>9. f = [s \in SUBSET S |-> IF s = {} THEN 0 ELSE w[c(s)].size + f[s \ {c(s)}]]
  <2> DEFINE g == [s \in SUBSET S |-> IF s = {} THEN 0 ELSE w[c(s)].size + f[s \ {c(s)}]]
  <2>1. \A s \in SUBSET S : f[s] = g[s]
    BY <1>8
  <2>2. DOMAIN g = SUBSET S /\ DOMAIN f = SUBSET S
    OBVIOUS
  <2>3. g = [s \in SUBSET S |-> g[s]] /\ f = [s \in SUBSET S |-> f[s]]
    OBVIOUS
  <2> HIDE DEF g
  <2>4. f = g
    BY <2>1, <2>3
  <2> QED
    BY <2>4 DEF g
<1> QED
  BY <1>9 DEF Sums, c

\* What the count then is, for sets of any size: any member may be taken first.
AnyFirst(f, w, S) ==
    /\ f[{}] = 0
    /\ \A s \in SUBSET S : \A x \in s : f[s] = w[x].size + f[s \ {x}]

\* The fold does not depend on which member it takes first.
LEMMA FoldAnyFirst ==
    ASSUME NEW w, NEW S, IsFiniteSet(S), \A x \in S : w[x].size \in Nat
    PROVE  \A f \in [SUBSET S -> Nat] : Sums(f, w, S) => AnyFirst(f, w, S)
<1> SUFFICES ASSUME NEW f \in [SUBSET S -> Nat], Sums(f, w, S)
             PROVE  AnyFirst(f, w, S)
  OBVIOUS
<1> DEFINE c(s) == CHOOSE x \in s : TRUE
           Ok(s) == \A x \in s : f[s] = w[x].size + f[s \ {x}]
           Bad == {n \in Nat : \E s \in SUBSET S : Cardinality(s) = n /\ ~ Ok(s)}
<1>1. \A s \in SUBSET S : f[s] = IF s = {} THEN 0 ELSE w[c(s)].size + f[s \ {c(s)}]
  BY DEF Sums
<1>2. \A s \in SUBSET S : s # {} => c(s) \in s
  OBVIOUS
<1> HIDE DEF c
<1>3. ASSUME NEW s \in SUBSET S, NEW x \in s
      PROVE  /\ s \ {x} \in SUBSET S
             /\ Cardinality(s) \in Nat \ {0}
             /\ Cardinality(s \ {x}) = Cardinality(s) - 1
             /\ w[x].size \in Nat
  BY FS_Subset, SmallerSet
<1>4. f[{}] = 0
  BY <1>1
<1>5. Bad = {}
  <2> SUFFICES ASSUME Bad # {} PROVE FALSE
    OBVIOUS
  <2>1. PICK n \in Bad : \A z \in Bad : n <= z
    <3> HIDE DEF Bad
    <3> QED
      BY SmallestNat DEF Bad
  <2>2. n \in Nat /\ \E s \in SUBSET S : Cardinality(s) = n /\ ~ Ok(s)
    OBVIOUS
  <2>3. PICK s \in SUBSET S : Cardinality(s) = n /\ ~ Ok(s)
    BY <2>2
  <2>4. ASSUME NEW t \in SUBSET S, Cardinality(t) \in Nat, Cardinality(t) < n PROVE Ok(t)
    <3>1. Cardinality(t) \notin Bad
      BY <2>1, <2>2, <2>4
    <3> QED
      BY <2>4, <3>1
  <2>5. PICK x \in s : f[s] # w[x].size + f[s \ {x}]
    BY <2>3
  <2> DEFINE y == c(s)
             both == (s \ {x}) \ {y}
  <2>6. y \in s /\ f[s] = w[y].size + f[s \ {y}]
    BY <1>1, <1>2
  <2> HIDE DEF y, Ok, Bad
  <2>7. x # y
    BY <2>5, <2>6
  <2>8. Ok(s \ {x}) /\ Ok(s \ {y})
    <3>1. /\ s \ {x} \in SUBSET S /\ Cardinality(s \ {x}) \in Nat /\ Cardinality(s \ {x}) < n
          /\ s \ {y} \in SUBSET S /\ Cardinality(s \ {y}) \in Nat /\ Cardinality(s \ {y}) < n
      BY <1>3, <2>3, <2>6
    <3> QED
      BY <2>4, <3>1
  <2>9. /\ f[s \ {x}] = w[y].size + f[both]
        /\ f[s \ {y}] = w[x].size + f[both]
    <3>1. y \in s \ {x} /\ x \in s \ {y} /\ (s \ {y}) \ {x} = both
      BY <2>6, <2>7
    <3> QED
      BY <2>8, <3>1 DEF Ok
  <2>10. w[x].size \in Nat /\ w[y].size \in Nat /\ f[both] \in Nat
    BY <1>3, <2>6
  <2> QED
    BY <2>5, <2>6, <2>9, <2>10
<1>6. \A s \in SUBSET S : Ok(s)
  <2> SUFFICES ASSUME NEW s \in SUBSET S PROVE Ok(s)
    OBVIOUS
  <2>1. Cardinality(s) \in Nat
    BY FS_Subset, FS_CardinalityType
  <2>2. Cardinality(s) \notin Bad
    BY <1>5
  <2> QED
    BY <2>1, <2>2
<1> QED
  BY <1>4, <1>6 DEF AnyFirst

\* The count of a part, by the fold of the whole.
LEMMA FoldCounts ==
    ASSUME NEW w, NEW S, IsFiniteSet(S), \A x \in S : w[x].size \in Nat
    PROVE  \E f \in [SUBSET S -> Nat] :
              /\ Sums(f, w, S)
              /\ \A s \in SUBSET S : TokenCount(w, s) = f[s]
<1>1. PICK f \in [SUBSET S -> Nat] : Sums(f, w, S)
  BY FoldExists
<1>2. ASSUME NEW s \in SUBSET S PROVE TokenCount(w, s) = f[s]
  <2> DEFINE g == CHOOSE g : Sums(g, w, s)
  <2>1. IsFiniteSet(s) /\ \A x \in s : w[x].size \in Nat
    BY FS_Subset
  <2>2. \E h \in [SUBSET s -> Nat] : Sums(h, w, s)
    BY <2>1, FoldExists
  <2>3. Sums(g, w, s)
    BY <2>2
  <2>4. TokenCount(w, s) = g[s]
    BY CountIsFold
  <2> HIDE DEF g
  <2> DEFINE c(t) == CHOOSE x \in t : TRUE
             Bad == {n \in Nat : \E t \in SUBSET s : Cardinality(t) = n /\ g[t] # f[t]}
  <2>5. \A t \in SUBSET s : /\ g[t] = IF t = {} THEN 0 ELSE w[c(t)].size + g[t \ {c(t)}]
                            /\ f[t] = IF t = {} THEN 0 ELSE w[c(t)].size + f[t \ {c(t)}]
    BY <1>1, <2>3 DEF Sums
  <2>6. \A t \in SUBSET s : t # {} => c(t) \in t
    OBVIOUS
  <2> HIDE DEF c
  <2>7. Bad = {}
    <3> SUFFICES ASSUME Bad # {} PROVE FALSE
      OBVIOUS
    <3>1. PICK n \in Bad : \A z \in Bad : n <= z
      <4> HIDE DEF Bad
      <4> QED
        BY SmallestNat DEF Bad
    <3>2. n \in Nat /\ \E t \in SUBSET s : Cardinality(t) = n /\ g[t] # f[t]
      OBVIOUS
    <3>3. PICK t \in SUBSET s : Cardinality(t) = n /\ g[t] # f[t]
      BY <3>2
    <3>4. t # {} /\ g[t \ {c(t)}] # f[t \ {c(t)}]
      BY <2>5, <3>3
    <3>5. c(t) \in t /\ IsFiniteSet(t)
      BY <2>1, <2>6, <3>4, FS_Subset
    <3>6. Cardinality(t \ {c(t)}) = n - 1 /\ n - 1 \in Nat /\ ~ (n <= n - 1)
      <4>1. Cardinality(t \ {c(t)}) = Cardinality(t) - 1 /\ Cardinality(t) \in Nat \ {0}
        BY <3>5, SmallerSet
      <4> QED
        BY <3>2, <3>3, <4>1
    <3>7. n - 1 \in Bad
      BY <3>4, <3>6
    <3> HIDE DEF Bad
    <3> QED
      BY <3>1, <3>6, <3>7
  <2>8. Cardinality(s) \in Nat
    BY <2>1, FS_CardinalityType
  <2>9. g[s] = f[s]
    BY <2>7, <2>8
  <2> QED
    BY <2>4, <2>9
<1> QED
  BY <1>1, <1>2

\* What the proofs about counts rest on: its type, and its equation for any member.
LEMMA CountIs ==
    ASSUME NEW w, NEW S, IsFiniteSet(S), \A x \in S : w[x].size \in Nat
    PROVE  /\ TokenCount(w, S) \in Nat
           /\ TokenCount(w, {}) = 0
           /\ \A x \in S : TokenCount(w, S) = w[x].size + TokenCount(w, S \ {x})
<1>1. PICK f \in [SUBSET S -> Nat] : /\ Sums(f, w, S)
                                     /\ \A s \in SUBSET S : TokenCount(w, s) = f[s]
  BY FoldCounts
<1>2. \A s \in SUBSET S : f[s] \in Nat
  OBVIOUS
<1>3. {} \in SUBSET S /\ S \in SUBSET S /\ \A x \in S : S \ {x} \in SUBSET S
  OBVIOUS
<1>4. /\ f[{}] = 0
      /\ \A x \in S : f[S] = w[x].size + f[S \ {x}]
  <2>1. AnyFirst(f, w, S)
    BY <1>1, FoldAnyFirst
  <2> QED
    BY <1>3, <2>1 DEF AnyFirst
<1> QED
  BY <1>1, <1>2, <1>3, <1>4

(***************************************************************************)
(* Messages that are moved to other places, no two to the same, count as   *)
(* before.                                                                 *)
(***************************************************************************)
LEMMA CountIsMoved ==
    ASSUME NEW w, NEW S, IsFiniteSet(S), \A x \in S : w[x].size \in Nat,
           NEW v, NEW r, \A x \in S : v[r[x]].size = w[x].size,
           \A x, y \in S : r[x] = r[y] => x = y
    PROVE  TokenCount(v, {r[x] : x \in S}) = TokenCount(w, S)
<1> DEFINE Im(s) == {r[x] : x \in s}
           Bad == {n \in Nat : \E s \in SUBSET S :
                       Cardinality(s) = n /\ TokenCount(v, Im(s)) # TokenCount(w, s)}
<1>1. ASSUME NEW s \in SUBSET S
      PROVE  /\ IsFiniteSet(s) /\ Cardinality(s) \in Nat
             /\ IsFiniteSet(Im(s))
             /\ \A y \in Im(s) : v[y].size \in Nat
             /\ \A x \in s : w[x].size \in Nat /\ r[x] \in Im(s) /\ Im(s) \ {r[x]} = Im(s \ {x})
  <2>1. IsFiniteSet(s) /\ Cardinality(s) \in Nat
    BY FS_Subset, FS_CardinalityType
  <2>2. IsFiniteSet(Im(s))
    <3> DEFINE h == [x \in s |-> r[x]]
    <3>1. h \in Surjection(s, Im(s))
      BY Fun_IsSurj
    <3> HIDE DEF h
    <3> QED
      BY <2>1, <3>1, FS_Surjection
  <2> QED
    BY <2>1, <2>2
<1>2. Bad = {}
  <2> SUFFICES ASSUME Bad # {} PROVE FALSE
    OBVIOUS
  <2>1. PICK n \in Bad : \A z \in Bad : n <= z
    <3> HIDE DEF Bad
    <3> QED
      BY SmallestNat DEF Bad
  <2>2. n \in Nat /\ \E s \in SUBSET S :
                        Cardinality(s) = n /\ TokenCount(v, Im(s)) # TokenCount(w, s)
    OBVIOUS
  <2>3. PICK s \in SUBSET S : Cardinality(s) = n /\ TokenCount(v, Im(s)) # TokenCount(w, s)
    BY <2>2
  <2>4. s # {}
    <3> SUFFICES ASSUME s = {} PROVE FALSE
      OBVIOUS
    <3>1. Im(s) = {}
      OBVIOUS
    <3>2. TokenCount(v, {}) = 0 /\ TokenCount(w, {}) = 0
      BY FS_EmptySet, CountIs
    <3> QED
      BY <2>3, <3>1, <3>2
  <2>5. PICK x \in s : TRUE
    BY <2>4
  <2>6. /\ TokenCount(w, s) = w[x].size + TokenCount(w, s \ {x})
        /\ TokenCount(v, Im(s)) = v[r[x]].size + TokenCount(v, Im(s) \ {r[x]})
    <3> HIDE DEF Im
    <3>3. IsFiniteSet(s) /\ (\A y \in s : w[y].size \in Nat)
      BY <1>1
    <3>1. TokenCount(w, s) = w[x].size + TokenCount(w, s \ {x})
      BY <3>3, CountIs
    <3>2. IsFiniteSet(Im(s)) /\ (\A y \in Im(s) : v[y].size \in Nat) /\ r[x] \in Im(s)
      BY <1>1
    <3> QED
      BY <3>1, <3>2, CountIs
  <2>7. TokenCount(v, Im(s \ {x})) # TokenCount(w, s \ {x})
    <3>1. Im(s) \ {r[x]} = Im(s \ {x}) /\ v[r[x]].size = w[x].size
      BY <1>1
    <3> HIDE DEF Im
    <3> QED
      BY <2>3, <2>6, <3>1
  <2>8. Cardinality(s \ {x}) = n - 1 /\ n - 1 \in Nat /\ ~ (n <= n - 1)
    <3>1. IsFiniteSet(s)
      BY <1>1
    <3>2. Cardinality(s \ {x}) = Cardinality(s) - 1 /\ Cardinality(s) \in Nat \ {0}
      BY <3>1, SmallerSet
    <3> QED
      BY <2>2, <2>3, <3>2
  <2>9. n - 1 \in Bad
    BY <2>7, <2>8
  <2> HIDE DEF Bad
  <2> QED
    BY <2>1, <2>8, <2>9
<1>3. Cardinality(S) \in Nat
  BY FS_CardinalityType
<1> QED
  BY <1>2, <1>3

\* A list that is sent counts as the messages that were kept do.
LEMMA CountOfKept ==
    ASSUME NEW ms \in Seq(Message), NEW S \in SUBSET DOMAIN ms
    PROVE  TokenCount(Kept(ms, S), DOMAIN Kept(ms, S)) = TokenCount(ms, S)
<1> DEFINE r == [i \in S |-> Place(S, i)]
<1>1. S \in SUBSET Nat /\ IsFiniteSet(S)
  BY PositionsAre
<1>2. \A i \in S : ms[i].size \in Nat
  BY MessageFields DEF Message
<1>3. {r[i] : i \in S} = DOMAIN Kept(ms, S)
  <2>1. DOMAIN Kept(ms, S) = 1..Cardinality(S)
    BY KeptIs
  <2>2. \A i \in S : r[i] \in 1..Cardinality(S)
    BY <1>1, PlacesRise
  <2>3. \A n \in 1..Cardinality(S) : \E i \in S : r[i] = n
    BY <1>1, PlacesAreNumbered
  <2> QED
    BY <2>1, <2>2, <2>3
<1>4. \A i \in S : Kept(ms, S)[r[i]].size = ms[i].size
  BY KeptIs
<1>5. \A i, k \in S : r[i] = r[k] => i = k
  BY <1>1, PlacesAreNumbered
<1> HIDE DEF r
<1>6. TokenCount(Kept(ms, S), {r[i] : i \in S}) = TokenCount(ms, S)
  BY <1>1, <1>2, <1>4, <1>5, CountIsMoved
<1> QED
  BY <1>3, <1>6, Zenon

(***************************************************************************)
(* A request keeps a list of messages that is paired as the list it sends: *)
(* answers that stand directly behind their calls in the conversation, and *)
(* are kept, do so in the shorter list.                                    *)
(***************************************************************************)
LEMMA PlacesFollow ==
    ASSUME NEW S \in SUBSET Nat, IsFiniteSet(S), NEW i \in S, NEW k \in Nat,
           (i + 1)..(i + k) \subseteq S
    PROVE  Place(S, i + k) = Place(S, i) + k
<1> DEFINE A == {j \in S : j <= i}
           B == (i + 1)..(i + k)
<1>1. IsFiniteSet(A) /\ Cardinality(A) \in Nat
  BY FS_Subset, FS_CardinalityType
<1>2. IsFiniteSet(B) /\ Cardinality(B) = k
  <2>1. i + 1 \in Int /\ i + k \in Int /\ (i + k) - (i + 1) + 1 = k
    OBVIOUS
  <2>2. IsFiniteSet(B) /\ Cardinality(B) = IF i + 1 > i + k THEN 0 ELSE (i + k) - (i + 1) + 1
    BY <2>1, FS_Interval
  <2>3. i + 1 > i + k => k = 0
    OBVIOUS
  <2> QED
    BY <2>1, <2>2, <2>3
<1>3. {j \in S : j <= i + k} = A \cup B
  <2>1. \A j \in S : j <= i + k <=> j <= i \/ j \in B
    OBVIOUS
  <2> QED
    BY <2>1
<1>4. A \cap B = {}
  OBVIOUS
<1> HIDE DEF A, B
<1>5. Cardinality(A \cup B) = Cardinality(A) + Cardinality(B) - Cardinality(A \cap B)
  BY <1>1, <1>2, FS_Union
<1>6. Cardinality(A \cap B) = 0
  BY <1>4, FS_EmptySet
<1> QED
  BY <1>1, <1>2, <1>3, <1>5, <1>6 DEF Place, A

\* The list that is sent is paired if the positions that are kept are.
LEMMA KeptIsPaired ==
    ASSUME NEW ms \in Seq(Message), NEW S \in SUBSET DOMAIN ms, PairedOn(ms, S)
    PROVE  Paired(Kept(ms, S))
<1> DEFINE list == Kept(ms, S)
<1>1. S \in SUBSET Nat /\ IsFiniteSet(S) /\ Cardinality(S) \in Nat
  BY PositionsAre
<1>2. /\ DOMAIN list = 1..Cardinality(S)
      /\ \A i \in S : Place(S, i) \in 1..Cardinality(S) /\ list[Place(S, i)] = ms[i]
  BY KeptIs
<1>3. \A n \in DOMAIN list : \E i \in S : Place(S, i) = n
  BY <1>1, <1>2, PlacesAreNumbered
<1> HIDE DEF list
<1>4. ASSUME NEW i \in S, IsHead(ms[i]), NEW k \in 1..Len(ms[i].calls)
      PROVE  /\ Place(S, i) + k \in DOMAIN list
             /\ Place(S, i + k) = Place(S, i) + k
             /\ i + k \in S
             /\ Answers(list, Place(S, i), k)
  <2>1. Len(ms[i].calls) \in Nat
    BY MessageFields, LenProperties
  <2>2. \A n \in 1..Len(ms[i].calls) : i + n \in S /\ Answers(ms, i, n)
    BY <1>4 DEF PairedOn, CallsAnswered
  <2>3. (i + 1)..(i + k) \subseteq S
    <3> SUFFICES ASSUME NEW j \in (i + 1)..(i + k) PROVE j \in S
      OBVIOUS
    <3>1. i \in Nat /\ k \in Nat /\ k <= Len(ms[i].calls)
      BY <1>1, <2>1
    <3>2. j - i \in 1..Len(ms[i].calls) /\ i + (j - i) = j
      BY <2>1, <3>1
    <3> QED
      BY <2>2, <3>2
  <2>4. i + k \in S /\ Answers(ms, i, k)
    BY <2>2
  <2>5. Place(S, i + k) = Place(S, i) + k
    <3>1. k \in Nat
      BY <2>1
    <3> QED
      BY <1>1, <2>3, <3>1, PlacesFollow
  <2>6. list[Place(S, i) + k] = ms[i + k] /\ list[Place(S, i)] = ms[i]
    BY <1>2, <2>4, <2>5
  <2> QED
    BY <1>2, <2>4, <2>5, <2>6 DEF Answers
<1>5. CallsAnswered(list, DOMAIN list)
  <2> SUFFICES ASSUME NEW n \in DOMAIN list, IsHead(list[n]), NEW k \in 1..Len(list[n].calls)
               PROVE  n + k \in DOMAIN list /\ Answers(list, n, k)
    BY DEF CallsAnswered
  <2>1. PICK i \in S : Place(S, i) = n
    BY <1>3
  <2>2. list[n] = ms[i]
    BY <1>2, <2>1
  <2> QED
    BY <1>4, <2>1, <2>2
<1>6. ToolsRequested(list, DOMAIN list)
  <2> SUFFICES ASSUME NEW n \in DOMAIN list, list[n].role = "tool"
               PROVE  \E m \in DOMAIN list :
                         /\ IsHead(list[m])
                         /\ \E k \in 1..Len(list[m].calls) : n = m + k /\ Answers(list, m, k)
    BY DEF ToolsRequested
  <2>1. PICK j \in S : Place(S, j) = n
    BY <1>3
  <2>2. ms[j].role = "tool"
    BY <1>2, <2>1
  <2>3. PICK i \in S : /\ IsHead(ms[i])
                       /\ \E k \in 1..Len(ms[i].calls) : j = i + k /\ Answers(ms, i, k)
    BY <2>2 DEF PairedOn, ToolsRequested
  <2>4. PICK k \in 1..Len(ms[i].calls) : j = i + k
    BY <2>3
  <2>5. Place(S, i) \in DOMAIN list /\ list[Place(S, i)] = ms[i]
    BY <1>2
  <2>6. n = Place(S, i) + k /\ Answers(list, Place(S, i), k)
    BY <1>4, <2>1, <2>3, <2>4
  <2> QED
    BY <2>3, <2>5, <2>6
<1> QED
  BY <1>5, <1>6 DEF Paired, PairedOn, list
===========================================================================
