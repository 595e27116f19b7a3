------------------------- MODULE GatewayToolsProofs -------------------------
(***************************************************************************)
(* What the two callees of the agent loop return: LLMGateway.complete, for *)
(* every text and every behaviour of a provider, a reply as the loop takes *)
(* it for granted; the tools, for files, searches and limits of any size,  *)
(* answers the LLM may rely on.                                            *)
(***************************************************************************)
EXTENDS Gateway, Tools, FiniteSetTheorems, SequenceTheorems, TLAPS

\* How a request may end. A text has no more calls than there are ids: those are unbounded.
Endings ==
    {Answered(calls, text) :
        calls \in Seq(CallIds),
        text \in {t \in ModelTexts : Len(t.matches) <= Len(FallbackIds)}}
    \cup {ToolUseFailed, NoChoices, Failed}

\* A provider that was offered no tools does not call any.
Toolless == {e \in Endings : e.kind = "answer" => e.calls = <<>>}

\* The calls that are found are at most as many as the matches.
LEMMA UsableIsFinite ==
    ASSUME NEW text \in ModelTexts
    PROVE  /\ IsFiniteSet(Usable(text))
           /\ Cardinality(Usable(text)) \in 0..Len(text.matches)
           /\ Usable(text) # {} => Cardinality(Usable(text)) # 0
PROOF
<1>1. text.matches \in Seq(Match)
  BY DEF ModelTexts
<1>2. DOMAIN text.matches = 1..Len(text.matches) /\ Len(text.matches) \in Nat
  BY <1>1, LenProperties
<1>3. Usable(text) \subseteq 1..Len(text.matches)
  BY <1>2 DEF Usable
<1>4. IsFiniteSet(1..Len(text.matches)) /\ Cardinality(1..Len(text.matches)) = Len(text.matches)
  BY <1>2, FS_Interval
<1>5. IsFiniteSet(Usable(text)) /\ Cardinality(Usable(text)) <= Len(text.matches)
  BY <1>3, <1>4, FS_Subset
<1>6. Cardinality(Usable(text)) \in Nat
  BY <1>5, FS_CardinalityType
<1>7. Usable(text) # {} => Cardinality(Usable(text)) # 0
  BY <1>5, FS_EmptySet
<1> QED
  BY <1>2, <1>5, <1>6, <1>7

(***************************************************************************)
(* Whatever the provider does, complete raises or returns a reply: an      *)
(* answer marked by layer 2 has calls and one marked by layer 1 has none,  *)
(* which is what AgentLoop assumes of its Replies; the ids given to calls  *)
(* found in a text are distinct; the provider's own calls are not touched. *)
(***************************************************************************)
THEOREM CompleteReplies ==
    ASSUME NEW kwargs, "tools" \in kwargs,
           NEW first \in Endings, NEW second \in Toolless,
           Complete(kwargs, first, second).kind = "reply"
    PROVE  LET reply == Complete(kwargs, first, second)
           IN  /\ IsReply(reply)
               /\ reply.used = "layer2_regex_inject" =>
                     \A j, k \in DOMAIN reply.calls : reply.calls[j] = reply.calls[k] => j = k
               /\ first.kind = "answer" /\ first.calls # <<>> =>
                     reply.calls = first.calls /\ reply.used = "none"
PROOF
<1> DEFINE retried == Len(Requested(kwargs, first)) = 2
           out == IF retried THEN second ELSE first
           found == IF out.kind = "answer" /\ out.calls = <<>> THEN Usable(out.text) ELSE {}
           ids == [k \in 1..Cardinality(found) |-> FallbackIds[k]]
           reply == Complete(kwargs, first, second)
<1>1. retried <=> first.kind = "tool_use_failed"
  BY DEF Requested
<1>2. first \in Endings /\ second \in Endings
  BY DEF Toolless
<1>3. out.kind = "answer"
  BY DEF Complete, Raised
<1>4. reply = [kind |-> "reply",
               calls |-> IF found = {} THEN out.calls ELSE ids,
               text |-> out.text.content,
               used |-> IF found # {} THEN "layer2_regex_inject"
                        ELSE IF retried THEN "layer1_no_tools_retry" ELSE "none",
               pattern |-> IF found = {} THEN "none" ELSE FirstPattern(out.text)]
  BY DEF Complete, Raised
<1> HIDE DEF reply, retried
<1>5. PICK calls \in Seq(CallIds), text \in {t \in ModelTexts : Len(t.matches) <= Len(FallbackIds)} :
          out = Answered(calls, text)
  BY <1>2, <1>3 DEF Endings, ToolUseFailed, NoChoices, Failed
<1>6. out.calls \in Seq(CallIds) /\ out.text = text /\ out.text.content \in Texts
  BY <1>5 DEF Answered, ModelTexts
<1> HIDE DEF out
<1>7. found # {} => /\ ids \in Seq(CallIds)
                    /\ ids # <<>>
                    /\ \A j, k \in DOMAIN ids : ids[j] = ids[k] => j = k
  <2> SUFFICES ASSUME found # {}
               PROVE  /\ ids \in Seq(CallIds)
                      /\ ids # <<>>
                      /\ \A j, k \in DOMAIN ids : ids[j] = ids[k] => j = k
    OBVIOUS
  <2>1. found = Usable(text)
    BY <1>6
  <2>2. Cardinality(found) \in 0..Len(text.matches) /\ Cardinality(found) # 0
    BY <1>5, <2>1, UsableIsFinite
  <2>3. text.matches \in Seq(Match) /\ Len(text.matches) \in Nat
    <3>1. text.matches \in Seq(Match)
      BY <1>5 DEF ModelTexts
    <3> QED
      BY <3>1, LenProperties
  <2>4. /\ FallbackIds \in Seq(CallIds)
        /\ DOMAIN FallbackIds = 1..Len(FallbackIds) /\ Len(FallbackIds) \in Nat
        /\ \A j, k \in DOMAIN FallbackIds : FallbackIds[j] = FallbackIds[k] => j = k
    BY FallbackIdsAssumption, LenProperties
  <2> HIDE DEF found
  <2>5. Cardinality(found) \in Nat \ {0} /\ Cardinality(found) <= Len(FallbackIds)
    BY <1>5, <2>2, <2>3, <2>4
  <2>6. \A k \in 1..Cardinality(found) : k \in DOMAIN FallbackIds /\ FallbackIds[k] \in CallIds
    BY <2>4, <2>5, ElementOfSeq
  <2>7. ids \in Seq(CallIds)
    BY <2>5, <2>6, IsASeq
  <2>8. DOMAIN ids = 1..Cardinality(found) /\ 1 \in DOMAIN ids
    BY <2>5
  <2>9. ids # <<>>
    BY <2>8, EmptySeq
  <2> QED
    BY <2>4, <2>6, <2>7, <2>8, <2>9
<1>8. retried => out.calls = <<>>
  BY <1>3 DEF out, Toolless
<1>9. first.kind = "answer" => ~ retried /\ out = first
  BY <1>1 DEF out
<1> HIDE DEF ids
<1>10. IsReply(reply)
  BY <1>4, <1>6, <1>7, <1>8 DEF IsReply, Fallbacks
<1>11. reply.used = "layer2_regex_inject" => found # {} /\ reply.calls = ids
  BY <1>4
<1>12. first.kind = "answer" /\ first.calls # <<>> => reply.calls = first.calls /\ reply.used = "none"
  BY <1>4, <1>9
<1> QED
  BY <1>7, <1>10, <1>11, <1>12 DEF reply

(***************************************************************************)
(* complete refuses none of the service's own calls for its parameters: no *)
(* request of a chat client or of an analysis, and no crystallizing call,  *)
(* names one outside the list.                                             *)
(***************************************************************************)
THEOREM ServiceIsAllowed == \A kwargs \in ServiceKwargs : kwargs \subseteq AllowedKwargs
  BY DEF ServiceKwargs, RawKwargs, LoopKwargs, CrystallizeKwargs, ChatParameters,
         AnalyzeParameters, Defaults, AllowedKwargs

-----------------------------------------------------------------------------
\* A slice with an end that does not count from the back.
LEMMA SliceIs ==
    ASSUME NEW S, NEW s \in Seq(S), NEW from \in Nat, NEW to \in Nat
    PROVE  /\ Slice(s, from, to) \in Seq(S)
           /\ Len(Slice(s, from, to)) =
                  IF from < Lesser(to, Len(s)) THEN Lesser(to, Len(s)) - from ELSE 0
           /\ \A i \in 1..Len(Slice(s, from, to)) : Slice(s, from, to)[i] = s[from + i]
<1> DEFINE m == Lesser(to, Len(s))
<1>1. Len(s) \in Nat /\ m \in Nat /\ m <= Len(s) /\ Slice(s, from, to) = SubSeq(s, from + 1, m)
  BY DEF Lesser, Slice
<1> HIDE DEF m
<1>2. \A i \in (from + 1)..m : i \in 1..Len(s)
  BY <1>1
<1>3. /\ SubSeq(s, from + 1, m) \in Seq(S)
      /\ Len(SubSeq(s, from + 1, m)) = IF from + 1 <= m THEN m - (from + 1) + 1 ELSE 0
      /\ \A i \in 1..(m - (from + 1) + 1) : SubSeq(s, from + 1, m)[i] = s[(from + 1) + i - 1]
  BY <1>1, <1>2, SubSeqProperties
<1>4. Len(Slice(s, from, to)) = IF from < m THEN m - from ELSE 0
  BY <1>1, <1>3
<1>5. \A i \in 1..Len(Slice(s, from, to)) : Slice(s, from, to)[i] = s[from + i]
  BY <1>1, <1>3, <1>4
<1> QED
  BY <1>1, <1>3, <1>4, <1>5 DEF m

\* A sequence with the members of a part of another is that part.
LEMMA IsSubSeq ==
    ASSUME NEW S, NEW s \in Seq(S), NEW c \in Seq(S), NEW m \in Nat \ {0}, NEW n \in Nat,
           m <= n, n <= Len(s), Len(c) = n - m + 1,
           \A i \in 1..Len(c) : c[i] = s[m + i - 1]
    PROVE  c = SubSeq(s, m, n)
<1> DEFINE t == SubSeq(s, m, n)
<1>1. \A i \in m..n : s[i] \in S
  BY ElementOfSeq
<1>2. /\ t \in Seq(S)
      /\ Len(t) = n - m + 1
      /\ \A i \in 1..(n - m + 1) : t[i] = s[m + i - 1]
  BY <1>1, SubSeqProperties
<1> HIDE DEF t
<1>3. Len(c) = Len(t) /\ \A i \in 1..Len(c) : c[i] = t[i]
  BY <1>2
<1>4. c = t
  BY <1>2, <1>3, SeqEqual
<1> QED
  BY <1>4 DEF t

---------------------------------------------------------------------------
\* What an answer of read_file is, for count lines behind the line from.
IsWindow(w, S, lines, from, count, maxLines) ==
    /\ w.content \in Seq(S)
    /\ Len(w.content) = IF count > maxLines THEN maxLines ELSE count
    /\ \A i \in 1..Len(w.content) : w.content[i] = lines[from + i]
    /\ w.truncated <=> count > maxLines
    /\ w.content # <<>> => w.start = from + 1 /\ w.end = from + Len(w.content)

\* How many lines are asked for.
Count(from, to) == IF from < to THEN to - from ELSE 0

LEMMA IndicesAre ==
    ASSUME NEW total \in Nat, NEW start \in Int, NEW end \in Nat
    PROVE  /\ StartIdx(start) \in Nat
           /\ EndIdx(total, end) \in Nat
           /\ EndIdx(total, end) <= total
  BY DEF StartIdx, EndIdx, Larger, Lesser

LEMMA WindowIs ==
    ASSUME NEW S, NEW lines \in Seq(S), NEW start \in Int, NEW end \in Nat,
           NEW maxLines \in Nat \ {0}
    PROVE  IsWindow(Window(lines, start, end, maxLines), S, lines, StartIdx(start),
                    Count(StartIdx(start), EndIdx(Len(lines), end)), maxLines)
<1> SUFFICES ASSUME NEW from, from = StartIdx(start),
                    NEW to, to = EndIdx(Len(lines), end),
                    NEW w, w = Window(lines, start, end, maxLines),
                    NEW count, count = Count(from, to)
             PROVE  IsWindow(w, S, lines, from, count, maxLines)
  OBVIOUS
<1> DEFINE asked == Slice(lines, from, to)
           cut == Slice(asked, 0, maxLines)
           shown == IF Len(asked) > maxLines THEN cut ELSE asked
<1>1. from \in Nat /\ to \in Nat /\ to <= Len(lines) /\ Len(lines) \in Nat
  BY IndicesAre
<1>2. w = [content |-> shown,
           total |-> Len(lines),
           start |-> IF shown = <<>> THEN 0 ELSE from + 1,
           end |-> IF shown = <<>> THEN 0
                   ELSE IF Len(asked) > maxLines THEN from + maxLines ELSE to,
           truncated |-> Len(asked) > maxLines]
  BY Zenon DEF Window
<1> HIDE DEF shown
<1>3. /\ w.content = shown
      /\ w.truncated = (Len(asked) > maxLines)
      /\ w.start = IF shown = <<>> THEN 0 ELSE from + 1
      /\ w.end = IF shown = <<>> THEN 0
                 ELSE IF Len(asked) > maxLines THEN from + maxLines ELSE to
  BY <1>2
<1>4. /\ asked \in Seq(S)
      /\ Len(asked) = count /\ count \in Nat
      /\ \A i \in 1..Len(asked) : asked[i] = lines[from + i]
  <2>1. Lesser(to, Len(lines)) = to
    BY <1>1 DEF Lesser
  <2>2. asked = Slice(lines, from, to)
    OBVIOUS
  <2> HIDE DEF asked, cut, shown
  <2>3. /\ asked \in Seq(S)
        /\ Len(asked) = IF from < Lesser(to, Len(lines)) THEN Lesser(to, Len(lines)) - from ELSE 0
        /\ \A i \in 1..Len(asked) : asked[i] = lines[from + i]
    BY <1>1, <2>2, SliceIs
  <2> QED
    BY <1>1, <2>1, <2>3 DEF Count
<1> HIDE DEF asked
<1>5. /\ cut \in Seq(S)
      /\ Len(asked) > maxLines => Len(cut) = maxLines
      /\ \A i \in 1..Len(cut) : cut[i] = asked[0 + i]
  <2>1. Len(asked) > maxLines => Lesser(maxLines, Len(asked)) = maxLines
    BY <1>1, <1>4 DEF Lesser
  <2>2. /\ cut \in Seq(S)
        /\ Len(cut) = IF 0 < Lesser(maxLines, Len(asked))
                      THEN Lesser(maxLines, Len(asked)) - 0 ELSE 0
        /\ \A i \in 1..Len(cut) : cut[i] = asked[0 + i]
    BY <1>4, SliceIs
  <2> HIDE DEF cut
  <2> QED
    BY <2>1, <2>2
<1> HIDE DEF cut
<1>6. CASE count > maxLines
  <2>1. shown = cut /\ Len(cut) = maxLines /\ maxLines < Len(asked)
    BY <1>1, <1>4, <1>5, <1>6 DEF shown
  <2>2. w.content = cut /\ w.truncated /\ (cut # <<>> => w.start = from + 1 /\ w.end = from + maxLines)
    BY <1>3, <2>1
  <2>3. \A i \in 1..Len(cut) : cut[i] = lines[from + i]
    <3> TAKE i \in 1..Len(cut)
    <3>1. i \in 1..Len(asked) /\ 0 + i = i
      BY <1>1, <1>4, <2>1
    <3> QED
      BY <1>4, <1>5, <3>1
  <2> QED
    BY <1>1, <1>5, <1>6, <2>1, <2>2, <2>3 DEF IsWindow
<1>7. CASE ~ (count > maxLines)
  <2>1. shown = asked /\ ~ (Len(asked) > maxLines)
    BY <1>1, <1>4, <1>7 DEF shown
  <2>2. w.content = asked /\ ~ w.truncated /\ (asked # <<>> => w.start = from + 1 /\ w.end = to)
    BY <1>3, <2>1
  <2>3. asked # <<>> => count # 0
    BY <1>4, EmptySeq
  <2>4. asked # <<>> => to = from + Len(asked)
    BY <1>1, <1>4, <2>3 DEF Count
  <2> QED
    BY <1>1, <1>4, <1>7, <2>2, <2>4 DEF IsWindow
<1> QED
  BY <1>6, <1>7

(***************************************************************************)
(* What read_file claims of its answer is true: with an end_line that is   *)
(* not negative and a positive max_lines the lines shown are those from    *)
(* start_line to end_line of the file, they begin where they were asked    *)
(* for, they are no more than allowed, and truncated says exactly that     *)
(* lines asked for are missing behind them. An answer without lines means  *)
(* that the file has none there. (builtin.py, read_file. A negative        *)
(* end_line counts from the back of the file, and is reported as it is.)   *)
(***************************************************************************)
THEOREM WindowIsTrue ==
    ASSUME NEW S, NEW lines \in Seq(S), NEW start \in Int, NEW end \in Nat,
           NEW maxLines \in Nat \ {0},
           NEW to, to = EndIdx(Len(lines), end),
           NEW w, w = Window(lines, start, end, maxLines)
    PROVE  /\ w.content # <<>> =>
                  /\ w.start = Larger(1, start)
                  /\ w.start <= w.end /\ w.end <= Len(lines)
                  /\ w.content = SubSeq(lines, w.start, w.end)
                  /\ Len(w.content) <= maxLines
                  /\ w.truncated <=> w.end < to
           /\ w.content = <<>> => ~ w.truncated /\ StartIdx(start) >= to
<1> DEFINE from == StartIdx(start)
           count == Count(from, to)
<1>1. from + 1 = Larger(1, start)
  BY DEF StartIdx, Larger
<1>2. from \in Nat /\ to \in Nat /\ to <= Len(lines) /\ Len(lines) \in Nat
  BY IndicesAre
<1>3. IsWindow(w, S, lines, from, count, maxLines)
  BY WindowIs
<1> HIDE DEF from
<1>4. count \in Nat /\ (count > 0 => from + count = to) /\ (count = 0 <=> from >= to)
  BY <1>2 DEF Count
<1>5. /\ from \in Nat /\ to \in Nat /\ to <= Len(lines) /\ Len(lines) \in Nat
      /\ count \in Nat /\ (count > 0 => from + count = to) /\ (count = 0 <=> from >= to)
      /\ w.content \in Seq(S)
      /\ Len(w.content) = IF count > maxLines THEN maxLines ELSE count
      /\ \A i \in 1..Len(w.content) : w.content[i] = lines[from + i]
      /\ w.truncated <=> count > maxLines
      /\ w.content # <<>> => w.start = from + 1 /\ w.end = from + Len(w.content)
  BY <1>2, <1>3, <1>4 DEF IsWindow
<1> HIDE DEF count
<1>6. w.content # <<>> => Len(w.content) > 0
  <2>1. w.content # <<>> => Len(w.content) # 0
    BY <1>5, EmptySeq
  <2> QED
    BY <1>5, <2>1
<1>7. ASSUME w.content # <<>>
      PROVE  w.content = SubSeq(lines, w.start, w.end)
  <2>1. w.start = from + 1 /\ w.end = from + Len(w.content) /\ w.end <= Len(lines)
    BY <1>5, <1>6, <1>7
  <2>2. \A i \in 1..Len(w.content) : w.content[i] = lines[w.start + i - 1]
    BY <1>5, <2>1
  <2> QED
    BY <1>5, <1>6, <1>7, <2>1, <2>2, IsSubSeq
<1>8. w.content # <<>> =>
          /\ w.start = Larger(1, start)
          /\ w.start <= w.end /\ w.end <= Len(lines)
          /\ Len(w.content) <= maxLines
          /\ w.truncated <=> w.end < to
  BY <1>5, <1>1, <1>6
<1>9. w.content = <<>> => ~ w.truncated /\ from >= to
  <2>1. w.content = <<>> => Len(w.content) = 0
    OBVIOUS
  <2> QED
    BY <1>5, <2>1
<1> QED
  BY <1>7, <1>8, <1>9 DEF from

(***************************************************************************)
(* Reading on works: after a truncated answer, the call with the same      *)
(* end_line and a start_line one behind the last line shown shows the next *)
(* line, and never one behind those asked for at first (read_file).        *)
(***************************************************************************)
THEOREM ReadingOnContinues ==
    ASSUME NEW S, NEW lines \in Seq(S), NEW start \in Int, NEW end \in Nat,
           NEW maxLines \in Nat \ {0},
           NEW w, w = Window(lines, start, end, maxLines),
           w.truncated,
           NEW v, v = Window(lines, w.end + 1, end, maxLines)
    PROVE  /\ v.content # <<>>
           /\ v.start = w.end + 1
           /\ v.end <= EndIdx(Len(lines), end)
<1> DEFINE from == StartIdx(start)
           to == EndIdx(Len(lines), end)
<1>1. Len(<<>>) = 0 /\ Len(lines) \in Nat
  OBVIOUS
<1>2. from \in Nat /\ to \in Nat
  BY <1>1, IndicesAre
<1>3. IsWindow(w, S, lines, from, Count(from, to), maxLines)
  BY WindowIs
<1> HIDE DEF from, to
<1>4. w.end \in Nat /\ w.end < to /\ w.end + 1 \in Int
  BY <1>1, <1>2, <1>3 DEF IsWindow, Count
<1>5. StartIdx(w.end + 1) = w.end
  BY <1>4 DEF StartIdx, Larger
<1>6. IsWindow(v, S, lines, w.end, Count(w.end, to), maxLines)
  BY <1>4, <1>5, WindowIs DEF to
<1> QED
  BY <1>1, <1>2, <1>4, <1>6 DEF IsWindow, Count, to
=============================================================================
