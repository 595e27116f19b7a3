------------------------- MODULE TruncateLoopProofs -------------------------
(***************************************************************************)
(* The loops of _truncate_messages return what Conversation says they do,  *)
(* for conversations of any length. A head is known by its number among    *)
(* the heads, a message of a group by its place in the group, a message    *)
(* that is left by its place among those that are left: the pops keep the  *)
(* list that is left only because the groups are disjoint and go in the    *)
(* order they stand in.                                                    *)
(***************************************************************************)
EXTENDS TruncateLoop, ConversationProofs

\* The number of the head h among the heads: the index of its group in groups.
Number(ms, h) == Place(Heads(ms), h)

\* Heads are finitely many positions.
LEMMA HeadsAre ==
    ASSUME NEW ms \in Seq(Message)
    PROVE  /\ DOMAIN ms = 1..Len(ms)
           /\ Len(ms) \in Nat
           /\ Heads(ms) \in SUBSET DOMAIN ms
           /\ Heads(ms) \in SUBSET Nat
           /\ IsFiniteSet(Heads(ms))
           /\ Cardinality(Heads(ms)) \in Nat
<1>1. Heads(ms) \in SUBSET DOMAIN ms
  BY DEF Heads
<1> QED
  BY <1>1, PositionsAre, LenProperties

\* The groups stand behind one another.
LEMMA GroupsAreInOrder ==
    ASSUME NEW ms \in Seq(Message), NEW h \in Heads(ms)
    PROVE  /\ h \in Group(ms, h)
           /\ Group(ms, h) \in SUBSET DOMAIN ms
           /\ Group(ms, h) \in SUBSET Nat
           /\ IsFiniteSet(Group(ms, h))
           /\ \A j \in Group(ms, h) : h <= j
           /\ \A g \in Heads(ms) : g < h => \A j \in Group(ms, g) : j < h
<1>1. h \in DOMAIN ms /\ h \in Nat /\ DOMAIN ms = 1..Len(ms) /\ Len(ms) \in Nat
  BY HeadsAre
<1>2. Group(ms, h) \in SUBSET DOMAIN ms /\ h \in Group(ms, h)
  BY <1>1 DEF Group
<1>3. ASSUME NEW j \in Group(ms, h) PROVE h <= j
  BY <1>1, <1>3 DEF Group
<1>4. ASSUME NEW g \in Heads(ms), g < h, NEW j \in Group(ms, g) PROVE j < h
  <2>1. g \in Nat /\ g \in DOMAIN ms
    BY HeadsAre
  <2>2. j = g \/ (j \in DOMAIN ms /\ \A k \in (g + 1)..j : ms[k].role = "tool")
    BY DEF Group
  <2>3. ms[h].role = "assistant"
    BY DEF Heads, IsHead
  <2>4. h \notin (g + 1)..j \/ j = g
    BY <2>2, <2>3
  <2> QED
    BY <1>1, <1>4, <2>1, <2>2, <2>4
<1> QED
  BY <1>1, <1>2, <1>3, <1>4, PositionsAre

\* The positions of a set one after the other, each at its place.
LEMMA IncreasingIs ==
    ASSUME NEW S \in SUBSET Nat, IsFiniteSet(S)
    PROVE  /\ Increasing(S) \in Seq(S)
           /\ Len(Increasing(S)) = Cardinality(S)
           /\ \A n \in 1..Cardinality(S) :
                 Increasing(S)[n] \in S /\ Place(S, Increasing(S)[n]) = n
<1> DEFINE at(n) == CHOOSE i \in S : Place(S, i) = n
<1>1. Cardinality(S) \in Nat
  BY FS_CardinalityType
<1>2. ASSUME NEW n \in 1..Cardinality(S) PROVE at(n) \in S /\ Place(S, at(n)) = n
  <2>1. \E i \in S : Place(S, i) = n
    BY PlacesAreNumbered
  <2> QED
    BY <2>1
<1>3. Increasing(S) = [n \in 1..Cardinality(S) |-> at(n)]
  BY DEF Increasing, Place
<1> HIDE DEF at
<1>4. [n \in 1..Cardinality(S) |-> at(n)] \in Seq(S)
  BY ONLY <1>1, <1>2, IsASeq
<1>5. Increasing(S) \in Seq(S) /\ DOMAIN Increasing(S) = 1..Cardinality(S)
  BY <1>3, <1>4
<1>6. Len(Increasing(S)) = Cardinality(S)
  BY <1>1, <1>5, LenProperties
<1> QED
  BY <1>2, <1>3, <1>5, <1>6

---------------------------------------------------------------------------
(***************************************************************************)
(* The scan behind a head collects its group, and passes no other head.    *)
(***************************************************************************)
LEMMA PastToolsIs ==
    ASSUME NEW ms \in Seq(Message), NEW i \in DOMAIN ms
    PROVE  /\ PastTools(ms, i) \in (i + 1)..(Len(ms) + 1)
           /\ PastTools(ms, i) = Len(ms) + 1 \/ ms[PastTools(ms, i)].role # "tool"
           /\ \A k \in (i + 1)..(PastTools(ms, i) - 1) : ms[k].role = "tool"
<1> DEFINE T == {j \in (i + 1)..(Len(ms) + 1) : j = Len(ms) + 1 \/ ms[j].role # "tool"}
<1>1. i \in Nat /\ Len(ms) \in Nat /\ i <= Len(ms)
  BY HeadsAre
<1>2. T \subseteq Nat /\ Len(ms) + 1 \in T
  BY <1>1
<1>3. \E y \in T : \A z \in T : y <= z
  <2> HIDE DEF T
  <2> QED
    BY <1>2, SmallestNat
<1>4. PastTools(ms, i) = CHOOSE y \in T : \A z \in T : y <= z
  BY DEF PastTools, Min
<1>5. PastTools(ms, i) \in T /\ \A z \in T : PastTools(ms, i) <= z
  <2> HIDE DEF T
  <2> QED
    BY <1>3, <1>4
<1>6. ASSUME NEW k \in (i + 1)..(PastTools(ms, i) - 1) PROVE ms[k].role = "tool"
  <2>1. k \in Nat /\ PastTools(ms, i) \in Nat /\ PastTools(ms, i) <= Len(ms) + 1
    BY <1>1, <1>5
  <2>2. k \in (i + 1)..(Len(ms) + 1) /\ ~ (PastTools(ms, i) <= k)
    BY <1>1, <2>1
  <2> QED
    BY <1>5, <2>2
<1> QED
  BY <1>5, <1>6

LEMMA ScanFindsGroup ==
    ASSUME NEW ms \in Seq(Message), NEW h \in Heads(ms)
    PROVE  {h} \cup {j \in (h + 1)..(PastTools(ms, h) - 1) : ms[j].cid \in Expected(ms, h)}
             = Group(ms, h)
<1> DEFINE past == PastTools(ms, h)
           A == {j \in (h + 1)..(past - 1) : ms[j].cid \in Expected(ms, h)}
<1>1. h \in DOMAIN ms /\ h \in Nat /\ DOMAIN ms = 1..Len(ms) /\ Len(ms) \in Nat
  BY HeadsAre
<1>2. /\ past \in (h + 1)..(Len(ms) + 1)
      /\ past = Len(ms) + 1 \/ ms[past].role # "tool"
      /\ \A k \in (h + 1)..(past - 1) : ms[k].role = "tool"
  BY <1>1, PastToolsIs
<1> HIDE DEF past
<1>3. ASSUME NEW j \in A PROVE j \in Group(ms, h)
  <2>1. j \in DOMAIN ms /\ j > h /\ \A k \in (h + 1)..j : ms[k].role = "tool"
    BY <1>1, <1>2
  <2>2. \E c \in DOMAIN ms[h].calls : ms[j].cid = ms[h].calls[c]
    BY DEF Expected
  <2> QED
    BY <2>1, <2>2 DEF Group
<1>4. ASSUME NEW j \in Group(ms, h), j # h PROVE j \in A
  <2>1. /\ j \in DOMAIN ms /\ j > h
        /\ \A k \in (h + 1)..j : ms[k].role = "tool"
        /\ \E c \in DOMAIN ms[h].calls : ms[j].cid = ms[h].calls[c]
    BY <1>4 DEF Group
  <2>2. past \notin (h + 1)..j
    <3> SUFFICES ASSUME past \in (h + 1)..j PROVE FALSE
      OBVIOUS
    <3>1. ms[past].role = "tool"
      BY <2>1
    <3>2. past # Len(ms) + 1
      BY <1>1, <2>1
    <3> QED
      BY <1>2, <3>1, <3>2
  <2>3. j \in (h + 1)..(past - 1)
    BY <1>1, <1>2, <2>1, <2>2
  <2> QED
    BY <2>1, <2>3 DEF Expected
<1>5. {h} \cup A = Group(ms, h)
  <2>1. h \in Group(ms, h)
    BY DEF Group
  <2> HIDE DEF A
  <2> QED
    BY <1>3, <1>4, <2>1
<1> QED
  BY <1>5 DEF past

---------------------------------------------------------------------------
(***************************************************************************)
(* Which groups may go, by their numbers: all but the last two; the oldest *)
(* n of them are the first n of all.                                       *)
(***************************************************************************)
LEMMA RemovableAre ==
    ASSUME NEW ms \in Seq(Message)
    PROVE  LET count == Cardinality(Heads(ms)) - 2
           IN  /\ Removable(ms) = {h \in Heads(ms) : Number(ms, h) <= count}
               /\ Cardinality(Removable(ms)) = IF count > 0 THEN count ELSE 0
<1> DEFINE H == Heads(ms)
           count == Cardinality(H) - 2
<1>1. H \in SUBSET Nat /\ IsFiniteSet(H) /\ Cardinality(H) \in Nat
  BY HeadsAre
<1>2. ASSUME NEW h \in H
      PROVE  /\ Number(ms, h) \in 1..Cardinality(H)
             /\ Cardinality({g \in H : g > h}) = Cardinality(H) - Number(ms, h)
  <2> DEFINE A == {g \in H : g <= h}
             B == {g \in H : g > h}
  <2>1. A \cup B = H /\ A \cap B = {}
    BY <1>1
  <2>2. IsFiniteSet(A) /\ IsFiniteSet(B) /\ Cardinality(A) \in Nat /\ Cardinality(B) \in Nat
    BY <1>1, FS_Subset, FS_CardinalityType
  <2>3. Number(ms, h) = Cardinality(A)
    BY DEF Number, Place
  <2> HIDE DEF A, B
  <2>4. Cardinality(A \cup B) = Cardinality(A) + Cardinality(B) - Cardinality(A \cap B)
    BY <2>2, FS_Union
  <2>5. Cardinality(A \cap B) = 0
    BY <2>1, FS_EmptySet
  <2>6. Cardinality(B) = Cardinality(H) - Number(ms, h)
    <3>1. Cardinality(A \cup B) = Cardinality(H)
      BY <2>1, Zenon
    <3> QED
      BY <2>2, <2>3, <2>4, <2>5, <3>1
  <2>7. Number(ms, h) \in 1..Cardinality(H)
    BY <1>1, PlacesRise DEF Number
  <2> QED
    BY <2>6, <2>7 DEF B
<1>3. Removable(ms) = {h \in H : Number(ms, h) <= count}
  <2>1. \A h \in H : Cardinality({g \in H : g > h}) >= 2 <=> Number(ms, h) <= count
    BY <1>1, <1>2
  <2> QED
    BY <2>1 DEF Removable
<1>4. CASE count > 0
  <2>1. count \in 1..Cardinality(H)
    BY <1>1, <1>4
  <2>2. PICK h \in H : Place(H, h) = count
    BY <1>1, <2>1, PlacesAreNumbered
  <2>3. \A g \in H : Place(H, g) <= count <=> g <= h
    <3> SUFFICES ASSUME NEW g \in H PROVE Place(H, g) <= count <=> g <= h
      OBVIOUS
    <3>1. /\ g < h => Place(H, g) < Place(H, h)
          /\ h < g => Place(H, h) < Place(H, g)
          /\ Place(H, g) \in Nat
      BY <1>1, PlacesRise
    <3>2. g \in Nat /\ h \in Nat /\ count \in Nat
      BY <1>1, <2>1
    <3> QED
      BY <2>2, <3>1, <3>2
  <2>4. {g \in H : Number(ms, g) <= count} = {g \in H : g <= h}
    BY <2>3 DEF Number
  <2>5. Cardinality(Removable(ms)) = count
    BY <1>3, <2>2, <2>4 DEF Place
  <2> QED
    BY <1>3, <1>4, <2>5
<1>5. CASE ~ (count > 0)
  <2>1. ASSUME NEW h \in H PROVE ~ (Number(ms, h) <= count)
    <3>1. Number(ms, h) \in 1..Cardinality(H)
      BY <1>2
    <3> QED
      BY <1>1, <1>5, <3>1
  <2>2. Removable(ms) = {}
    BY <1>3, <2>1
  <2>3. Cardinality(Removable(ms)) = 0
    BY <2>2, FS_EmptySet
  <2> QED
    BY <1>3, <1>5, <2>3
<1> QED
  BY <1>4, <1>5

\* The oldest n removable groups are the first n groups.
LEMMA OldestAre ==
    ASSUME NEW ms \in Seq(Message), NEW n \in 0..Cardinality(Removable(ms))
    PROVE  OldestRemovable(ms, n) = {h \in Heads(ms) : Number(ms, h) <= n}
<1> DEFINE H == Heads(ms)
           R == Removable(ms)
           count == Cardinality(H) - 2
<1>1. H \in SUBSET Nat /\ IsFiniteSet(H) /\ Cardinality(H) \in Nat
  BY HeadsAre
<1>2. R = {h \in H : Number(ms, h) <= count} /\ Cardinality(R) = IF count > 0 THEN count ELSE 0
  BY RemovableAre
<1>3. \A h \in H : Number(ms, h) \in 1..Cardinality(H)
  BY <1>1, PlacesRise DEF Number
<1>4. ASSUME NEW h \in R PROVE {g \in R : g <= h} = {g \in H : g <= h}
  <2> SUFFICES ASSUME NEW g \in H, g <= h PROVE Number(ms, g) <= count
    BY <1>2
  <2>1. h \in H /\ Number(ms, h) <= count
    BY <1>2
  <2>2. g = h \/ g < h
    BY <1>1, <2>1
  <2>3. g < h => Number(ms, g) < Number(ms, h)
    BY <1>1, <2>1, PlacesRise DEF Number
  <2> QED
    BY <1>1, <1>3, <2>1, <2>2, <2>3
<1>5. ASSUME NEW h \in H PROVE Number(ms, h) <= n => h \in R
  BY <1>1, <1>2, <1>3
<1>6. \A h \in R : Cardinality({g \in R : g <= h}) = Number(ms, h)
  BY <1>4 DEF Number, Place
<1>7. OldestRemovable(ms, n) = {h \in R : Number(ms, h) <= n}
  BY <1>6 DEF OldestRemovable
<1> QED
  BY <1>2, <1>5, <1>7

\* Without none of its groups a conversation is whole.
LEMMA NothingGoes ==
    ASSUME NEW ms \in Seq(Message)
    PROVE  Without(ms, 0) = DOMAIN ms
<1>1. /\ Heads(ms) \in SUBSET Nat
      /\ IsFiniteSet(Heads(ms))
      /\ Cardinality(Heads(ms)) \in Nat
  BY HeadsAre
<1>2. \A h \in Heads(ms) : ~ (Number(ms, h) <= 0)
  BY <1>1, PlacesRise DEF Number
<1>3. 0 \in 0..Cardinality(Removable(ms))
  BY <1>1, RemovableAre
<1>4. OldestRemovable(ms, 0) = {}
  BY <1>2, <1>3, OldestAre
<1> QED
  BY <1>4 DEF Without

---------------------------------------------------------------------------
(***************************************************************************)
(* The positions that are gone when the pops are at member m of group g.   *)
(***************************************************************************)
Popped(ms, g, m) ==
    {j \in DOMAIN ms : \E h \in Heads(ms) :
        /\ j \in Group(ms, h)
        /\ \/ Number(ms, h) < g
           \/ Number(ms, h) = g /\ Place(Group(ms, h), j) < m}

\* Before the first pop of a group exactly the older groups are gone.
LEMMA PoppedIsWithout ==
    ASSUME NEW ms \in Seq(Message), NEW n \in 0..Cardinality(Removable(ms))
    PROVE  DOMAIN ms \ Popped(ms, n + 1, 1) = Without(ms, n)
<1>1. /\ Heads(ms) \in SUBSET Nat
      /\ IsFiniteSet(Heads(ms))
      /\ Cardinality(Heads(ms)) \in Nat
  BY HeadsAre
<1>2. n \in Nat
  BY <1>1, RemovableAre
<1>3. ASSUME NEW h \in Heads(ms), NEW j \in Group(ms, h)
      PROVE  /\ Number(ms, h) \in Nat
             /\ j \in DOMAIN ms
             /\ ~ (Place(Group(ms, h), j) < 1)
  <2>1. Number(ms, h) \in 1..Cardinality(Heads(ms))
    BY <1>1, PlacesRise DEF Number
  <2>2. /\ Group(ms, h) \in SUBSET Nat
        /\ IsFiniteSet(Group(ms, h))
        /\ Group(ms, h) \in SUBSET DOMAIN ms
    BY GroupsAreInOrder
  <2>3. Place(Group(ms, h), j) \in 1..Cardinality(Group(ms, h))
    BY <2>2, PlacesRise
  <2>4. Cardinality(Group(ms, h)) \in Nat
    BY <2>2, FS_CardinalityType
  <2> QED
    BY <1>1, <2>1, <2>2, <2>3, <2>4
<1>4. Popped(ms, n + 1, 1)
        = {j \in DOMAIN ms : \E h \in Heads(ms) : j \in Group(ms, h) /\ Number(ms, h) <= n}
  <2>1. \A h \in Heads(ms) : \A j \in Group(ms, h) :
           \/ Number(ms, h) < n + 1
           \/ Number(ms, h) = n + 1 /\ Place(Group(ms, h), j) < 1
           <=> Number(ms, h) <= n
    BY <1>2, <1>3
  <2> QED
    BY <2>1 DEF Popped
<1>5. OldestRemovable(ms, n) = {h \in Heads(ms) : Number(ms, h) <= n}
  BY OldestAre
<1> QED
  BY <1>4, <1>5 DEF Without

\* After its last pop the group is gone.
LEMMA GroupIsPopped ==
    ASSUME NEW ms \in Seq(Message), NEW h \in Heads(ms)
    PROVE  Popped(ms, Number(ms, h), Cardinality(Group(ms, h)) + 1)
             = Popped(ms, Number(ms, h) + 1, 1)
<1> DEFINE g == Number(ms, h)
           last == Cardinality(Group(ms, h)) + 1
<1>1. /\ Heads(ms) \in SUBSET Nat
      /\ IsFiniteSet(Heads(ms))
      /\ Cardinality(Heads(ms)) \in Nat
  BY HeadsAre
<1>2. ASSUME NEW k \in Heads(ms), NEW j \in Group(ms, k)
      PROVE  /\ Number(ms, k) \in Nat
             /\ Number(ms, k) = g => k = h
             /\ Cardinality(Group(ms, k)) \in Nat
             /\ Place(Group(ms, k), j) \in 1..Cardinality(Group(ms, k))
  <2>1. Number(ms, k) \in 1..Cardinality(Heads(ms))
    BY <1>1, PlacesRise DEF Number
  <2>2. Number(ms, k) = g => k = h
    BY <1>1, PlacesAreNumbered DEF Number
  <2>3. Group(ms, k) \in SUBSET Nat /\ IsFiniteSet(Group(ms, k))
    BY GroupsAreInOrder
  <2>4. Place(Group(ms, k), j) \in 1..Cardinality(Group(ms, k))
    BY <2>3, PlacesRise
  <2>5. Cardinality(Group(ms, k)) \in Nat
    BY <2>3, FS_CardinalityType
  <2> QED
    BY <2>1, <2>2, <2>4, <2>5
<1>3. g \in Nat
  BY <1>1, <1>2, GroupsAreInOrder
<1> HIDE DEF g
<1>4. \A k \in Heads(ms) : \A j \in Group(ms, k) :
         (Number(ms, k) < g \/ (Number(ms, k) = g /\ Place(Group(ms, k), j) < last))
         <=> (Number(ms, k) < g + 1 \/ (Number(ms, k) = g + 1 /\ Place(Group(ms, k), j) < 1))
  <2> SUFFICES ASSUME NEW k \in Heads(ms), NEW j \in Group(ms, k)
               PROVE  (Number(ms, k) < g \/ (Number(ms, k) = g /\ Place(Group(ms, k), j) < last))
                       <=> (Number(ms, k) < g + 1
                             \/ (Number(ms, k) = g + 1 /\ Place(Group(ms, k), j) < 1))
    OBVIOUS
  <2>1. /\ Number(ms, k) \in Nat
        /\ Number(ms, k) = g => k = h
        /\ Cardinality(Group(ms, k)) \in Nat
        /\ Place(Group(ms, k), j) \in 1..Cardinality(Group(ms, k))
    BY <1>2
  <2>2. Number(ms, k) = g => Place(Group(ms, k), j) < last
    BY <2>1
  <2>3. ~ (Place(Group(ms, k), j) < 1)
    BY <2>1
  <2> QED
    BY <1>3, <2>1, <2>2, <2>3
<1>5. Popped(ms, g, last) = Popped(ms, g + 1, 1)
  BY <1>4 DEF Popped
<1> QED
  BY <1>5 DEF g

\* A pop takes one more position, behind all that are gone.
LEMMA PoppedGrows ==
    ASSUME NEW ms \in Seq(Message), NEW h \in Heads(ms), NEW x \in Group(ms, h)
    PROVE  LET m == Place(Group(ms, h), x)
               gone == Popped(ms, Number(ms, h), m)
           IN  /\ Popped(ms, Number(ms, h), m + 1) = gone \cup {x}
               /\ x \in DOMAIN ms \ gone
               /\ \A j \in gone : j < x
<1> DEFINE g == Number(ms, h)
           m == Place(Group(ms, h), x)
           G == Group(ms, h)
           Before(k, j, n) == Number(ms, k) < g \/ (Number(ms, k) = g /\ Place(Group(ms, k), j) < n)
<1>1. /\ Heads(ms) \in SUBSET Nat
      /\ IsFiniteSet(Heads(ms))
      /\ Cardinality(Heads(ms)) \in Nat
  BY HeadsAre
<1>2. G \in SUBSET Nat /\ IsFiniteSet(G) /\ G \in SUBSET DOMAIN ms
  BY GroupsAreInOrder
<1>3. \A j \in G : Place(G, j) \in Nat
  <2>1. Cardinality(G) \in Nat
    BY <1>2, FS_CardinalityType
  <2> QED
    BY <1>2, <2>1, PlacesRise
<1>4. \A k \in Heads(ms) : Number(ms, k) \in Nat /\ (Number(ms, k) = g => k = h)
  BY <1>1, PlacesRise, PlacesAreNumbered DEF Number
<1>5. ASSUME NEW k \in Heads(ms), NEW j \in Group(ms, k), Number(ms, k) < g
      PROVE  j < x /\ j # x
  <2>1. k < h
    <3>1. k \in Nat /\ h \in Nat
      BY <1>1
    <3>2. h < k => Number(ms, h) < Number(ms, k)
      BY <1>1, PlacesRise DEF Number
    <3>3. k # h /\ ~ (h < k)
      BY <1>4, <1>5, <3>2
    <3> QED
      BY <3>1, <3>3
  <2>2. j < h
    BY <2>1, GroupsAreInOrder
  <2>3. h <= x /\ h \in Nat /\ x \in Nat /\ j \in Nat
    BY <1>1, <1>2, GroupsAreInOrder
  <2> QED
    BY <2>2, <2>3
<1>6. ASSUME NEW j \in G, Place(G, j) < m PROVE j < x /\ j # x
  <2>1. j \in Nat /\ x \in Nat
    BY <1>2
  <2>2. x < j => m < Place(G, j)
    BY <1>2, PlacesRise
  <2>3. j # x /\ ~ (x < j)
    BY <1>3, <1>6, <2>2
  <2> QED
    BY <2>1, <2>3
<1>7. ASSUME NEW j \in Popped(ms, g, m) PROVE j < x /\ j # x
  <2>1. PICK k \in Heads(ms) : j \in Group(ms, k) /\ Before(k, j, m)
    BY DEF Popped
  <2>2. CASE Number(ms, k) < g
    BY <1>5, <2>1, <2>2
  <2>3. CASE Number(ms, k) = g /\ Place(Group(ms, k), j) < m
    BY <1>4, <1>6, <2>1, <2>3
  <2> QED
    BY <2>1, <2>2, <2>3
<1>8. ASSUME NEW k \in Heads(ms), NEW j \in Group(ms, k)
      PROVE  Before(k, j, m + 1) <=> Before(k, j, m) \/ (k = h /\ j = x)
  <2>1. CASE Number(ms, k) = g
    <3>1. k = h /\ Place(G, j) \in Nat /\ m \in Nat
      BY <1>3, <1>4, <2>1
    <3>2. Place(G, j) = m => j = x
      BY <1>2, <3>1, PlacesAreNumbered
    <3> QED
      BY <2>1, <3>1, <3>2
  <2>2. CASE Number(ms, k) # g
    BY <2>2
  <2> QED
    BY <2>1, <2>2
<1>9. Popped(ms, g, m + 1) = Popped(ms, g, m) \cup {x}
  <2>1. Popped(ms, g, m) = {j \in DOMAIN ms : \E k \in Heads(ms) :
                               j \in Group(ms, k) /\ Before(k, j, m)}
    BY DEF Popped
  <2>2. Popped(ms, g, m + 1) = {j \in DOMAIN ms : \E k \in Heads(ms) :
                                   j \in Group(ms, k) /\ Before(k, j, m + 1)}
    BY DEF Popped
  <2> HIDE DEF Before
  <2> QED
    BY <1>2, <1>8, <2>1, <2>2
<1>10. x \in DOMAIN ms \ Popped(ms, g, m)
  BY <1>2, <1>7
<1> QED
  BY <1>7, <1>9, <1>10

---------------------------------------------------------------------------
(***************************************************************************)
(* The index a pop computes: the position less the number of pops so far   *)
(* is its place among what is left, as all that is gone stood before it.   *)
(***************************************************************************)
LEMMA OffsetIsRight ==
    ASSUME NEW ms \in Seq(Message), NEW P \in SUBSET DOMAIN ms, NEW x \in DOMAIN ms \ P,
           \A j \in P : j < x
    PROVE  /\ Cardinality(P) \in Nat
           /\ Cardinality(DOMAIN ms \ P) = Len(ms) - Cardinality(P)
           /\ Place(DOMAIN ms \ P, x) = x - Cardinality(P)
<1>1. DOMAIN ms = 1..Len(ms) /\ Len(ms) \in Nat /\ x \in Nat \ {0} /\ x <= Len(ms)
  BY HeadsAre
<1>2. IsFiniteSet(P) /\ Cardinality(P) \in Nat
  BY PositionsAre
<1>3. IsFiniteSet(1..x) /\ Cardinality(1..x) = x
  BY <1>1, FS_Interval
<1>4. Cardinality(DOMAIN ms) = Len(ms) /\ IsFiniteSet(DOMAIN ms)
  <2>1. \A n \in Nat \ {0} : IsFiniteSet(1..n) /\ Cardinality(1..n) = n
    BY FS_Interval
  <2>2. Len(ms) \in Nat \ {0}
    BY <1>1
  <2> QED
    BY <1>1, <2>1, <2>2
<1>5. DOMAIN ms \cap P = P /\ (1..x) \cap P = P
  <2>1. \A j \in P : j \in Nat \ {0} /\ j <= x
    BY <1>1
  <2> QED
    BY <1>1, <2>1
<1>6. Cardinality(DOMAIN ms \ P) = Len(ms) - Cardinality(P)
  <2>1. Cardinality(DOMAIN ms \ P) = Cardinality(DOMAIN ms) - Cardinality(DOMAIN ms \cap P)
    BY <1>4, FS_Difference
  <2> QED
    BY <1>4, <1>5, <2>1, Zenon
<1>7. {j \in DOMAIN ms \ P : j <= x} = (1..x) \ P
  BY <1>1
<1>8. Cardinality((1..x) \ P) = x - Cardinality(P)
  <2>1. Cardinality((1..x) \ P) = Cardinality(1..x) - Cardinality((1..x) \cap P)
    BY <1>3, FS_Difference
  <2> QED
    BY <1>3, <1>5, <2>1, Zenon
<1> QED
  BY <1>2, <1>6, <1>7, <1>8 DEF Place

\* Popping the message at the place of x leaves the list without x.
LEMMA DropIsKept ==
    ASSUME NEW ms \in Seq(Message), NEW S \in SUBSET DOMAIN ms, NEW x \in S
    PROVE  DropAt(Kept(ms, S), Place(S, x)) = Kept(ms, S \ {x})
<1> DEFINE list == DropAt(Kept(ms, S), Place(S, x))
           T == S \ {x}
<1>1. S \in SUBSET Nat /\ IsFiniteSet(S) /\ Cardinality(S) \in Nat \ {0}
  <2>1. S \in SUBSET Nat /\ IsFiniteSet(S)
    BY PositionsAre
  <2> QED
    BY <2>1, SmallerSet
<1>2. T \in SUBSET DOMAIN ms /\ Cardinality(T) = Cardinality(S) - 1
  BY <1>1, FS_RemoveElement
<1>3. /\ Kept(ms, S) \in Seq(Message)
      /\ Len(Kept(ms, S)) = Cardinality(S)
      /\ \A i \in S : Place(S, i) \in 1..Cardinality(S) /\ Kept(ms, S)[Place(S, i)] = ms[i]
  BY KeptIs
<1>4. list = [n \in 1..Cardinality(T) |->
                 IF n < Place(S, x) THEN Kept(ms, S)[n] ELSE Kept(ms, S)[n + 1]]
  BY <1>2, <1>3 DEF DropAt
<1>5. \A n \in 1..Cardinality(T) : list[n] \in Message
  <2> SUFFICES ASSUME NEW n \in 1..Cardinality(T) PROVE list[n] \in Message
    OBVIOUS
  <2>1. n \in 1..Len(Kept(ms, S)) /\ n + 1 \in 1..Len(Kept(ms, S))
    BY <1>1, <1>2, <1>3
  <2>2. Kept(ms, S)[n] \in Message /\ Kept(ms, S)[n + 1] \in Message
    BY <1>3, <2>1, ElementOfSeq
  <2> QED
    BY <1>4, <2>2
<1> HIDE DEF list
<1>6. list \in [1..Cardinality(T) -> Message]
  BY <1>4, <1>5
<1>7. list \in Seq(Message)
  <2>1. Cardinality(T) \in Nat
    BY <1>1, <1>2
  <2> HIDE DEF T
  <2> QED
    BY <1>6, <2>1
<1>8. list \in Seq(Message) /\ Len(list) = Cardinality(T)
  <2>1. list \in Seq(Message) /\ DOMAIN list = 1..Cardinality(T)
    BY <1>6, <1>7
  <2> QED
    BY <1>1, <1>2, <2>1, LenProperties
<1>9. ASSUME NEW i \in T PROVE list[Place(T, i)] = ms[i]
  <2> DEFINE A == {j \in S : j <= i}
             B == {j \in T : j <= i}
  <2>1. i \in Nat /\ x \in Nat /\ i # x /\ i \in S
    BY <1>1
  <2>2. IsFiniteSet(A) /\ Cardinality(A) \in Nat \ {0}
    <3>1. i \in A /\ IsFiniteSet(A)
      BY <1>1, <2>1, FS_Subset
    <3> QED
      BY <3>1, SmallerSet
  <2>3. Place(S, i) = Cardinality(A) /\ Place(T, i) = Cardinality(B)
    BY DEF Place
  <2>4. CASE i < x
    <3>1. B = A
      BY <2>1, <2>4
    <3>2. Place(S, i) < Place(S, x)
      BY <1>1, <2>1, <2>4, PlacesRise
    <3>3. Place(T, i) = Place(S, i)
      BY <2>3, <3>1
    <3>4. Place(S, i) \in 1..Cardinality(T)
      <4>1. Place(S, i) \in 1..Cardinality(S) /\ Place(S, x) \in 1..Cardinality(S)
        BY <1>3, <2>1
      <4> QED
        BY <1>1, <1>2, <3>2, <4>1
    <3> QED
      BY <1>3, <1>4, <2>1, <3>2, <3>3, <3>4
  <2>5. CASE x < i
    <3>1. B = A \ {x} /\ x \in A
      BY <2>1, <2>5
    <3>2. Cardinality(B) = Cardinality(A) - 1
      <4> HIDE DEF A, B
      <4> QED
        BY <2>2, <3>1, FS_RemoveElement
    <3>3. Place(S, x) < Place(S, i)
      BY <1>1, <2>1, <2>5, PlacesRise
    <3>4. Place(S, i) \in 1..Cardinality(S) /\ Place(S, x) \in 1..Cardinality(S)
      BY <1>3, <2>1
    <3> HIDE DEF A, B
    <3>5. /\ Place(T, i) \in 1..Cardinality(T)
          /\ Place(T, i) + 1 = Place(S, i)
          /\ ~ (Place(T, i) < Place(S, x))
      BY <1>1, <1>2, <2>2, <2>3, <3>2, <3>3, <3>4
    <3>6. list[Place(T, i)] = Kept(ms, S)[Place(S, i)]
      BY <1>4, <3>5
    <3> QED
      BY <1>3, <2>1, <3>6
  <2> QED
    BY <2>1, <2>4, <2>5
<1>10. list = Kept(ms, T)
  BY <1>2, <1>8, <1>9, IsKept
<1> QED
  BY <1>10 DEF list

---------------------------------------------------------------------------
(***************************************************************************)
(* When the removal loop goes on behind its n-th group, and what that says *)
(* of the number of groups that are removed.                               *)
(***************************************************************************)
GoesOn(ms, lim, fail, n) ==
    /\ n # fail
    /\ n # Cardinality(Removable(ms))
    /\ ~ (TokenCount(ms, Without(ms, n)) <= Target(lim))

\* The first group behind which the loop does not go on is the number of groups removed.
LEMMA GroupsRemovedIs ==
    ASSUME NEW ms \in Seq(Message), NEW lim \in Int, NEW fail,
           lim > 0, fail # 0, ~ (TokenCount(ms, DOMAIN ms) <= HighWatermark(lim)),
           NEW n \in 1..Cardinality(Removable(ms)),
           ~ GoesOn(ms, lim, fail, n),
           \A k \in 1..(n - 1) : GoesOn(ms, lim, fail, k)
    PROVE  GroupsRemoved(ms, lim, fail) = n
<1> DEFINE last == Cardinality(Removable(ms))
           T == {k \in 1..last : ~ GoesOn(ms, lim, fail, k)}
<1>1. last \in Nat
  BY HeadsAre, RemovableAre
<1>2. last # 0 /\ n \in Nat
  BY <1>1
<1>3. GroupsRemoved(ms, lim, fail) = Min(T)
  <2>1. T = {k \in 1..last : \/ k = fail
                             \/ k = last
                             \/ TokenCount(ms, Without(ms, k)) <= Target(lim)}
    BY DEF GoesOn
  <2>2. ~ (lim <= 0)
    OBVIOUS
  <2> HIDE DEF T
  <2> QED
    BY <1>2, <2>1, <2>2, Zenon DEF GroupsRemoved
<1>4. n \in T /\ \A k \in T : n <= k
  <2>1. ASSUME NEW k \in T PROVE n <= k
    <3>1. k \in Nat /\ k \notin 1..(n - 1) /\ k >= 1
      BY <1>1
    <3> QED
      BY <1>2, <3>1
  <2> QED
    BY <2>1
<1>5. T \subseteq Nat
  BY <1>1
<1> HIDE DEF T
<1>6. Min(T) \in T /\ \A k \in T : Min(T) <= k
  <2>1. \E y \in T : \A k \in T : y <= k
    BY <1>4
  <2> QED
    BY <2>1 DEF Min
<1>7. Min(T) = n
  <2> DEFINE m == Min(T)
  <2>1. m \in T /\ m <= n /\ n <= m
    BY <1>4, <1>6
  <2> HIDE DEF m
  <2>2. m \in Nat /\ n \in Nat
    BY <1>4, <1>5, <2>1
  <2>3. m = n
    BY <2>1, <2>2
  <2> QED
    BY <2>3 DEF m
<1> QED
  BY <1>3, <1>7

---------------------------------------------------------------------------
(***************************************************************************)
(* The inductive invariant. The groups found so far are those of the heads *)
(* the scan has passed, each at its head's number. The list that is left   *)
(* is the conversation without the positions that are popped, and no group *)
(* before the present one was enough.                                      *)
(***************************************************************************)
GroupsFound ==
    /\ Len(groups) = Cardinality({h \in Heads(input) : h < scan})
    /\ \A h \in Heads(input) :
          h < scan => groups[Number(input, h)] = Increasing(Group(input, h))

Untouched == pc \in {"count", "scan"} => working = input /\ group = 1 /\ member = 1

WorthIt ==
    pc \in {"scan", "pop", "recount"} =>
        /\ limit > 0
        /\ failAt # 0
        /\ ~ (TokenCount(input, DOMAIN input) <= HighWatermark(limit))

NoneBefore == \A n \in 1..(group - 1) : GoesOn(input, limit, failAt, n)

Popping ==
    pc \in {"pop", "recount"} =>
        /\ scan = Len(input) + 1
        /\ group \in 1..Cardinality(Removable(input))
        /\ member \in 1..(Len(groups[group]) + 1)
        /\ pc = "recount" => member = Len(groups[group]) + 1
        /\ working = Kept(input, DOMAIN input \ Popped(input, group, member))
        /\ NoneBefore

Returned ==
    pc = "done" =>
       \/ working = input /\ GroupsRemoved(input, limit, failAt) = 0
       \/ /\ group \in 1..Cardinality(Removable(input))
          /\ GroupsRemoved(input, limit, failAt) = group
          /\ ~ GoesOn(input, limit, failAt, group)
          /\ NoneBefore
          /\ working = Kept(input, Without(input, group))

IInv == TypeOK /\ GroupsFound /\ Untouched /\ WorthIt /\ Popping /\ Returned

\* The types of the parts of the state.
LEMMA InputIs ==
    ASSUME TypeOK
    PROVE  /\ input \in Seq(Message)
           /\ DOMAIN input = 1..Len(input)
           /\ Len(input) \in Nat
           /\ limit \in Int
           /\ Len(working) \in Nat
           /\ Len(groups) \in Nat
           /\ DOMAIN groups = 1..Len(groups)
           /\ scan \in Nat
           /\ group \in Nat
           /\ \A g \in 1..Len(groups) : Len(groups[g]) \in Nat
           /\ Cardinality(Removable(input)) \in Nat
<1>1. input \in Seq(Message) /\ limit \in Int
  BY TruncateLoopAssumption DEF TypeOK
<1>2. Len(input) \in Nat /\ DOMAIN input = 1..Len(input)
  BY <1>1, LenProperties
<1>3. Len(working) \in Nat
  BY LenProperties DEF TypeOK
<1>4. groups \in Seq(Seq(DOMAIN input)) /\ Len(groups) \in Nat /\ DOMAIN groups = 1..Len(groups)
  BY LenProperties DEF TypeOK
<1>5. \A g \in 1..Len(groups) : Len(groups[g]) \in Nat
  <2> SUFFICES ASSUME NEW g \in 1..Len(groups) PROVE Len(groups[g]) \in Nat
    OBVIOUS
  <2>1. groups[g] \in Seq(DOMAIN input)
    BY <1>4, ElementOfSeq
  <2> QED
    BY <2>1, LenProperties
<1>6. scan \in Nat /\ group \in Nat
  BY <1>2, <1>4 DEF TypeOK
<1>7. Cardinality(Removable(input)) \in Nat
  BY <1>1, HeadsAre, RemovableAre
<1> QED
  BY <1>1, <1>2, <1>3, <1>4, <1>5, <1>6, <1>7

\* At the end of the scan groups has every group.
LEMMA AllGroupsFound ==
    ASSUME TypeOK, GroupsFound, scan > Len(input)
    PROVE  /\ scan = Len(input) + 1
           /\ Len(groups) = Cardinality(Heads(input))
           /\ RemovableGroups > 0 => Cardinality(Removable(input)) = RemovableGroups
           /\ ~ (RemovableGroups > 0) => Cardinality(Removable(input)) = 0
           /\ \A g \in 1..Len(groups) : \E h \in Heads(input) :
                 Number(input, h) = g /\ groups[g] = Increasing(Group(input, h))
<1>1. /\ input \in Seq(Message)
      /\ Len(input) \in Nat
      /\ scan = Len(input) + 1
  BY InputIs DEF TypeOK
<1>2. /\ DOMAIN input = 1..Len(input)
      /\ Heads(input) \in SUBSET DOMAIN input
      /\ Heads(input) \in SUBSET Nat
      /\ IsFiniteSet(Heads(input))
  BY <1>1, HeadsAre
<1>3. \A h \in Heads(input) : h < scan
  BY <1>1, <1>2
<1>4. Len(groups) = Cardinality(Heads(input))
  <2>1. {h \in Heads(input) : h < scan} = Heads(input)
    BY <1>3
  <2> QED
    BY <2>1 DEF GroupsFound
<1>5. ASSUME NEW g \in 1..Len(groups)
      PROVE  \E h \in Heads(input) : Number(input, h) = g /\ groups[g] = Increasing(Group(input, h))
  <2>1. PICK h \in Heads(input) : Number(input, h) = g
    BY <1>2, <1>4, PlacesAreNumbered DEF Number
  <2>2. groups[Number(input, h)] = Increasing(Group(input, h))
    BY <1>3 DEF GroupsFound
  <2> QED
    BY <2>1, <2>2
<1>6. Cardinality(Removable(input)) = IF RemovableGroups > 0 THEN RemovableGroups ELSE 0
  BY <1>1, <1>4, RemovableAre DEF RemovableGroups
<1> QED
  BY <1>1, <1>4, <1>5, <1>6

\* After its last pop a group is gone: what is left is what Conversation says.
LEMMA GroupIsGone ==
    ASSUME TypeOK, GroupsFound, Popping, pc = "recount"
    PROVE  /\ Popped(input, group, member) = Popped(input, group + 1, 1)
           /\ working = Kept(input, Without(input, group))
           /\ Tokens(working) = TokenCount(input, Without(input, group))
<1>1. /\ input \in Seq(Message) /\ Len(input) \in Nat /\ scan = Len(input) + 1
      /\ group \in 1..Cardinality(Removable(input))
      /\ member = Len(groups[group]) + 1
      /\ working = Kept(input, DOMAIN input \ Popped(input, group, member))
  BY InputIs DEF Popping
<1>2. group \in 1..Len(groups) /\ group \in 0..Cardinality(Removable(input))
  <2>1. scan > Len(input) /\ Cardinality(Removable(input)) \in Nat /\ Len(groups) \in Nat
    BY <1>1, InputIs
  <2>2. Cardinality(Removable(input)) \in {Len(groups) - 2, 0}
    BY <2>1, AllGroupsFound DEF RemovableGroups
  <2> QED
    BY <1>1, <2>1, <2>2
<1>3. PICK h \in Heads(input) :
          Number(input, h) = group /\ groups[group] = Increasing(Group(input, h))
  BY <1>1, <1>2, AllGroupsFound
<1>4. Len(groups[group]) = Cardinality(Group(input, h))
  BY <1>1, <1>3, GroupsAreInOrder, IncreasingIs
<1>5. Popped(input, group, member) = Popped(input, group + 1, 1)
  BY <1>1, <1>3, <1>4, GroupIsPopped
<1>6. working = Kept(input, Without(input, group))
  BY <1>1, <1>2, <1>5, PoppedIsWithout
<1>7. Tokens(working) = TokenCount(input, Without(input, group))
  BY <1>1, <1>6, CountOfKept DEF Tokens, Without
<1> QED
  BY <1>5, <1>6, <1>7

\* It holds before the first count.
LEMMA InitHolds == Init => IInv
<1> SUFFICES ASSUME Init PROVE IInv
  OBVIOUS
<1>1. input \in Seq(Message) /\ limit \in Int
  BY TruncateLoopAssumption DEF Init
<1>2. DOMAIN input = 1..Len(input) /\ Len(input) \in Nat
  BY <1>1, HeadsAre
<1>3. Cardinality(Removable(input)) \in Nat /\ Cardinality(Removable(input)) <= Len(input)
  <2>0. ASSUME NEW n \in Nat PROVE IsFiniteSet(1..n) /\ Cardinality(1..n) = n
    BY FS_Interval
  <2>1. IsFiniteSet(1..Len(input)) /\ Cardinality(1..Len(input)) = Len(input)
    BY <1>2, <2>0
  <2>2. Removable(input) \in SUBSET DOMAIN input
    BY DEF Removable, Heads
  <2>3. Removable(input) \in SUBSET (1..Len(input))
    BY <1>2, <2>2
  <2> QED
    BY <2>1, <2>3, FS_Subset, FS_CardinalityType
<1>4. TypeOK
  <2>1. failAt \in 0..(Len(input) + 1)
    BY <1>2, <1>3 DEF Init
  <2> QED
    BY <1>1, <1>2, <2>1 DEF Init, TypeOK
<1>5. GroupsFound
  <2>1. \A h \in Heads(input) : ~ (h < 1)
    BY <1>1, <1>2, HeadsAre
  <2>2. {h \in Heads(input) : h < scan} = {}
    BY <2>1 DEF Init
  <2>3. Len(groups) = 0
    BY DEF Init
  <2> QED
    BY <2>1, <2>2, <2>3, FS_EmptySet DEF Init, GroupsFound
<1> QED
  BY <1>4, <1>5 DEF Init, IInv, Untouched, WorthIt, Popping, Returned

---------------------------------------------------------------------------
(***************************************************************************)
(* Each step keeps the invariant.                                          *)
(***************************************************************************)
LEMMA CountFirstKeeps == ASSUME IInv, CountFirst PROVE IInv'
<1>1. /\ pc = "count"
      /\ UNCHANGED <<input, limit, failAt, groups, scan, working, offset, group, member>>
      /\ pc' \in {"done", "scan"}
      /\ working = input /\ group = 1 /\ member = 1
  BY DEF CountFirst, IInv, Untouched
<1>2. TypeOK' /\ GroupsFound'
  BY <1>1 DEF IInv, TypeOK, GroupsFound
<1>3. limit \in Int
  BY InputIs DEF IInv
<1>4. CASE pc' = "done"
  <2>1. limit <= 0 \/ failAt = 0 \/ TokenCount(input, DOMAIN input) <= HighWatermark(limit)
    BY <1>1, <1>4 DEF CountFirst, Tokens
  <2>2. GroupsRemoved(input, limit, failAt) = 0
    BY <2>1, Zenon DEF GroupsRemoved
  <2>3. Returned'
    BY <1>1, <2>2 DEF Returned
  <2> QED
    BY <1>2, <1>4, <2>3 DEF IInv, Untouched, WorthIt, Popping
<1>5. CASE pc' = "scan"
  <2>1. ~ (limit <= 0) /\ failAt # 0 /\ ~ (TokenCount(input, DOMAIN input) <= HighWatermark(limit))
    BY <1>1, <1>5 DEF CountFirst, Tokens
  <2>2. WorthIt'
    BY <1>1, <1>3, <2>1 DEF WorthIt
  <2>3. Untouched'
    BY <1>1 DEF Untouched
  <2> QED
    BY <1>2, <1>5, <2>2, <2>3 DEF IInv, Popping, Returned
<1> QED
  BY <1>1, <1>4, <1>5

LEMMA ScanHeadKeeps == ASSUME IInv, ScanHead PROVE IInv'
<1> DEFINE past == PastTools(input, scan)
           H == Heads(input)
           before == {h \in H : h < scan}
           found == Increasing(Group(input, scan))
<1>1. /\ TypeOK /\ GroupsFound
      /\ pc = "scan" /\ scan <= Len(input) /\ IsHead(input[scan])
      /\ UNCHANGED <<pc, input, limit, failAt, working, offset, group, member>>
      /\ scan' = past
      /\ groups' = Append(groups, Increasing({scan} \cup
             {j \in (scan + 1)..(past - 1) : input[j].cid \in Expected(input, scan)}))
      /\ working = input /\ group = 1 /\ member = 1
  BY DEF ScanHead, IInv, Untouched
<1>2. /\ input \in Seq(Message) /\ Len(input) \in Nat /\ Len(groups) \in Nat
      /\ scan \in DOMAIN input /\ scan \in H /\ scan \in Nat /\ scan >= 1
  BY <1>1, InputIs DEF TypeOK, Heads
<1>3. /\ H \in SUBSET Nat /\ IsFiniteSet(H) /\ H \in SUBSET DOMAIN input
      /\ DOMAIN input = 1..Len(input)
  BY <1>2, HeadsAre
<1>4. groups' = Append(groups, found)
  BY <1>1, <1>2, ScanFindsGroup
<1>5. found \in Seq(DOMAIN input)
  <2>1. Group(input, scan) \in SUBSET Nat /\ IsFiniteSet(Group(input, scan))
        /\ Group(input, scan) \in SUBSET DOMAIN input
    BY <1>2, GroupsAreInOrder
  <2>2. found \in Seq(Group(input, scan))
    BY <2>1, IncreasingIs
  <2> HIDE DEF found
  <2> QED
    BY <2>1, <2>2, SeqMonotonic
<1> HIDE DEF found
<1>6. /\ groups' \in Seq(Seq(DOMAIN input))
      /\ Len(groups') = Len(groups) + 1
      /\ \A g \in 1..Len(groups) : groups'[g] = groups[g]
      /\ groups'[Len(groups) + 1] = found
  <2>1. groups \in Seq(Seq(DOMAIN input))
    BY <1>1 DEF TypeOK
  <2> QED
    BY <1>4, <1>5, <2>1, AppendProperties
<1>7. /\ past \in (scan + 1)..(Len(input) + 1)
      /\ \A k \in (scan + 1)..(past - 1) : input[k].role = "tool"
  BY <1>2, PastToolsIs
<1> HIDE DEF past
<1>8. TypeOK'
  <2>1. scan' \in 1..(Len(input) + 1)
    BY <1>1, <1>2, <1>7
  <2>2. group' \in 1..(Len(groups') + 1)
    BY <1>1, <1>2, <1>6
  <2> QED
    BY <1>1, <1>6, <2>1, <2>2 DEF TypeOK
<1>9. \A h \in H : h < past <=> h < scan \/ h = scan
  <2> SUFFICES ASSUME NEW h \in H, h < past, h > scan PROVE FALSE
    BY <1>2, <1>3, <1>7
  <2>1. h \in (scan + 1)..(past - 1)
    BY <1>2, <1>3, <1>7
  <2>2. input[h].role = "assistant"
    BY DEF Heads, IsHead
  <2> QED
    BY <1>7, <2>1, <2>2
<1>10. /\ {h \in H : h < past} = before \cup {scan}
       /\ {h \in H : h <= scan} = before \cup {scan}
       /\ scan \notin before
  BY <1>2, <1>3, <1>9
<1>11. IsFiniteSet(before) /\ Cardinality(before) = Len(groups)
  BY <1>1, <1>3, FS_Subset DEF GroupsFound
<1>12. Cardinality(before \cup {scan}) = Len(groups) + 1
  <2> HIDE DEF before
  <2> QED
    BY <1>10, <1>11, FS_AddElement
<1>13. Number(input, scan) = Len(groups) + 1
  BY <1>10, <1>12 DEF Number, Place
<1>14. ASSUME NEW h \in H, h < past
       PROVE  groups'[Number(input, h)] = Increasing(Group(input, h))
  <2>1. CASE h = scan
    BY <1>6, <1>13, <2>1 DEF found
  <2>2. CASE h < scan
    <3>1. groups[Number(input, h)] = Increasing(Group(input, h))
      BY <1>1, <2>2 DEF GroupsFound
    <3>2. Number(input, h) < Number(input, scan)
      BY <1>2, <1>3, <2>2, PlacesRise DEF Number
    <3>3. Number(input, h) \in 1..Cardinality(H) /\ Cardinality(H) \in Nat
      BY <1>3, PlacesRise, FS_CardinalityType DEF Number
    <3>4. Number(input, h) \in 1..Len(groups)
      BY <1>2, <1>13, <3>2, <3>3
    <3> QED
      BY <1>6, <3>1, <3>4
  <2> QED
    BY <1>9, <1>14, <2>1, <2>2
<1>15. GroupsFound'
  BY <1>1, <1>6, <1>10, <1>12, <1>14 DEF GroupsFound
<1>16. Untouched' /\ WorthIt' /\ Popping' /\ Returned'
  BY <1>1 DEF IInv, Untouched, WorthIt, Popping, Returned
<1> QED
  BY <1>8, <1>15, <1>16 DEF IInv

LEMMA ScanOtherKeeps == ASSUME IInv, ScanOther PROVE IInv'
<1>1. /\ TypeOK /\ GroupsFound
      /\ pc = "scan" /\ scan <= Len(input) /\ ~ IsHead(input[scan])
      /\ UNCHANGED <<pc, input, limit, failAt, groups, working, offset, group, member>>
      /\ scan' = scan + 1
  BY DEF ScanOther, IInv
<1>2. input \in Seq(Message) /\ Len(input) \in Nat /\ scan \in Nat /\ scan >= 1
  BY <1>1, InputIs DEF TypeOK
<1>3. Heads(input) \in SUBSET Nat
  BY <1>2, HeadsAre
<1>4. \A h \in Heads(input) : h < scan + 1 <=> h < scan
  <2>1. scan \notin Heads(input)
    BY <1>1 DEF Heads
  <2> QED
    BY <1>2, <1>3, <2>1
<1>5. GroupsFound'
  <2>1. {h \in Heads(input) : h < scan + 1} = {h \in Heads(input) : h < scan}
    BY <1>4
  <2> QED
    BY <1>1, <1>4, <2>1 DEF GroupsFound
<1>6. TypeOK'
  <2>1. scan' \in 1..(Len(input) + 1)
    BY <1>1, <1>2
  <2> QED
    BY <1>1, <2>1 DEF TypeOK
<1>7. Untouched' /\ WorthIt' /\ Popping' /\ Returned'
  BY <1>1 DEF IInv, Untouched, WorthIt, Popping, Returned
<1> QED
  BY <1>5, <1>6, <1>7 DEF IInv

LEMMA ScanEndKeeps == ASSUME IInv, ScanEnd PROVE IInv'
<1>1. /\ TypeOK /\ GroupsFound
      /\ pc = "scan" /\ scan > Len(input)
      /\ UNCHANGED <<input, limit, failAt, groups, scan, working, offset, group, member>>
      /\ pc' = IF RemovableGroups > 0 THEN "pop" ELSE "done"
      /\ working = input /\ group = 1 /\ member = 1
      /\ limit > 0 /\ failAt # 0
      /\ ~ (TokenCount(input, DOMAIN input) <= HighWatermark(limit))
  BY DEF ScanEnd, IInv, Untouched, WorthIt
<1>2. /\ input \in Seq(Message) /\ limit \in Int
      /\ Len(groups) \in Nat /\ Cardinality(Removable(input)) \in Nat
      /\ \A g \in 1..Len(groups) : Len(groups[g]) \in Nat
  BY <1>1, InputIs
<1>3. /\ scan = Len(input) + 1
      /\ RemovableGroups > 0 => Cardinality(Removable(input)) = RemovableGroups
      /\ ~ (RemovableGroups > 0) => Cardinality(Removable(input)) = 0
  BY <1>1, AllGroupsFound
<1>4. TypeOK' /\ GroupsFound'
  BY <1>1 DEF TypeOK, GroupsFound
<1>5. CASE RemovableGroups > 0
  <2>1. pc' = "pop" /\ 1 \in 1..Len(groups) /\ 1 \in 1..Cardinality(Removable(input))
    BY <1>1, <1>2, <1>3, <1>5 DEF RemovableGroups
  <2>2. 1 \in 1..(Len(groups[1]) + 1)
    BY <1>2, <2>1
  <2>3. DOMAIN input \ Popped(input, 1, 1) = DOMAIN input
    <3>1. 0 \in 0..Cardinality(Removable(input)) /\ 0 + 1 = 1
      BY <1>2
    <3>2. DOMAIN input \ Popped(input, 0 + 1, 1) = Without(input, 0)
      BY <1>2, <3>1, PoppedIsWithout
    <3>3. Popped(input, 0 + 1, 1) = Popped(input, 1, 1)
      BY <3>1, Zenon
    <3>4. Without(input, 0) = DOMAIN input
      BY <1>2, NothingGoes
    <3> QED
      BY <3>2, <3>3, <3>4, Zenon
  <2>4. input = Kept(input, DOMAIN input \ Popped(input, 1, 1))
    BY <1>2, <2>3, AllIsKept
  <2>5. Popping'
    <3>1. NoneBefore'
      BY <1>1 DEF NoneBefore
    <3> QED
      BY <1>1, <1>3, <2>1, <2>2, <2>4, <3>1 DEF Popping
  <2>6. Untouched' /\ WorthIt' /\ Returned'
    BY <1>1, <2>1 DEF Untouched, WorthIt, Returned
  <2> QED
    BY <1>4, <2>5, <2>6 DEF IInv
<1>6. CASE ~ (RemovableGroups > 0)
  <2>1. pc' = "done"
    BY <1>1, <1>6
  <2>2. GroupsRemoved(input, limit, failAt) = 0
    <3>1. Cardinality(Removable(input)) = 0
      BY <1>3, <1>6
    <3> QED
      BY <3>1, Zenon DEF GroupsRemoved
  <2> QED
    BY <1>1, <1>4, <2>1, <2>2 DEF IInv, Untouched, WorthIt, Popping, Returned
<1> QED
  BY <1>5, <1>6

\* What a pop takes: the next member of its group, at its place in the list that is left.
LEMMA PopTakes ==
    ASSUME IInv, Pop
    PROVE  LET P == Popped(input, group, member)
               x == groups[group][member]
               S == DOMAIN input \ P
           IN  /\ S \in SUBSET DOMAIN input
               /\ x \in S
               /\ working = Kept(input, S)
               /\ x - offset = Place(S, x)
               /\ x - offset \in DOMAIN working
               /\ DOMAIN input \ Popped(input, group, member + 1) = S \ {x}
               /\ member + 1 \in 1..(Len(groups[group]) + 1)
<1> DEFINE P == Popped(input, group, member)
           x == groups[group][member]
           S == DOMAIN input \ P
<1>1. /\ TypeOK /\ GroupsFound
      /\ pc = "pop" /\ scan = Len(input) + 1 /\ member <= Len(groups[group])
      /\ group \in 1..Cardinality(Removable(input))
      /\ member \in 1..(Len(groups[group]) + 1)
      /\ working = Kept(input, S)
  BY DEF Pop, IInv, Popping
<1>2. /\ input \in Seq(Message) /\ Len(input) \in Nat
      /\ Len(groups) \in Nat /\ Cardinality(Removable(input)) \in Nat
      /\ \A g \in 1..Len(groups) : Len(groups[g]) \in Nat
  BY <1>1, InputIs
<1>3. group \in 1..Len(groups)
  <2>1. Cardinality(Removable(input)) \in {Len(groups) - 2, 0}
    BY <1>1, <1>2, AllGroupsFound DEF RemovableGroups
  <2> QED
    BY <1>1, <1>2, <2>1
<1>4. Len(groups[group]) \in Nat /\ member \in 1..Len(groups[group])
  BY <1>1, <1>2, <1>3
<1>5. PICK h \in Heads(input) :
          Number(input, h) = group /\ groups[group] = Increasing(Group(input, h))
  BY <1>1, <1>2, <1>3, AllGroupsFound
<1>6. x \in Group(input, h) /\ Place(Group(input, h), x) = member
  <2>1. Group(input, h) \in SUBSET Nat /\ IsFiniteSet(Group(input, h))
    BY <1>2, GroupsAreInOrder
  <2>2. Len(groups[group]) = Cardinality(Group(input, h))
    BY <1>5, <2>1, IncreasingIs
  <2> QED
    BY <1>4, <1>5, <2>1, <2>2, IncreasingIs
<1> HIDE DEF x
<1>7. /\ Popped(input, group, member + 1) = P \cup {x}
      /\ x \in DOMAIN input \ P
      /\ \A j \in P : j < x
  BY <1>2, <1>5, <1>6, PoppedGrows
<1>8. P \in SUBSET DOMAIN input
  BY DEF Popped
<1> HIDE DEF P
<1>9. /\ Cardinality(P) \in Nat
      /\ Cardinality(S) = Len(input) - Cardinality(P)
      /\ Place(S, x) = x - Cardinality(P)
  BY <1>2, <1>7, <1>8, OffsetIsRight
<1>10. /\ Len(working) = Cardinality(S)
       /\ DOMAIN working = 1..Cardinality(S)
       /\ Place(S, x) \in 1..Cardinality(S)
  BY <1>1, <1>2, <1>7, KeptIs
<1>11. x - offset = Place(S, x)
  <2>1. offset = Len(input) - Len(working)
    BY <1>1 DEF TypeOK
  <2>2. offset = Len(input) - (Len(input) - Cardinality(P))
    BY <1>9, <1>10, <2>1
  <2> QED
    BY <1>2, <1>9, <2>2
<1>12. DOMAIN input \ Popped(input, group, member + 1) = S \ {x}
  BY <1>7
<1>13. member + 1 \in 1..(Len(groups[group]) + 1)
  BY <1>4
<1> QED
  BY <1>1, <1>7, <1>10, <1>11, <1>12, <1>13 DEF P, x

LEMMA PopKeeps == ASSUME IInv, Pop PROVE IInv'
<1> DEFINE P == Popped(input, group, member)
           x == groups[group][member]
           S == DOMAIN input \ P
<1>1. /\ S \in SUBSET DOMAIN input
      /\ x \in S
      /\ working = Kept(input, S)
      /\ x - offset = Place(S, x)
      /\ x - offset \in DOMAIN working
      /\ DOMAIN input \ Popped(input, group, member + 1) = S \ {x}
      /\ member + 1 \in 1..(Len(groups[group]) + 1)
  BY PopTakes
<1> HIDE DEF x, P
<1>2. /\ pc = "pop"
      /\ working' = DropAt(working, x - offset) /\ offset' = offset + 1
      /\ member' = member + 1
      /\ UNCHANGED <<pc, input, limit, failAt, groups, scan, group>>
  BY <1>1 DEF Pop, x
<1>3. /\ TypeOK /\ GroupsFound /\ Popping /\ WorthIt
      /\ input \in Seq(Message) /\ Len(input) \in Nat
      /\ offset = Len(input) - Len(working)
      /\ member \in Nat
  BY InputIs DEF IInv, TypeOK
<1>4. working' = Kept(input, S \ {x})
  BY <1>1, <1>2, <1>3, DropIsKept
<1>5. working' \in Seq(Message) /\ Len(working') = Len(working) - 1 /\ Len(working) \in Nat
  <2>1. S \ {x} \in SUBSET DOMAIN input
    BY <1>1
  <2>2. working' \in Seq(Message) /\ Len(working') = Cardinality(S \ {x})
    BY <1>3, <1>4, <2>1, KeptIs
  <2>3. Len(working) = Cardinality(S)
    BY <1>1, <1>3, KeptIs
  <2>4. IsFiniteSet(S) /\ Cardinality(S) \in Nat
    BY <1>1, <1>3, PositionsAre
  <2>5. Cardinality(S \ {x}) = Cardinality(S) - 1
    BY <1>1, <2>4, FS_RemoveElement
  <2> QED
    BY <2>2, <2>3, <2>4, <2>5
<1>6. TypeOK'
  <2>1. offset' = Len(input) - Len(working')
    BY <1>2, <1>3, <1>5
  <2>2. member' \in Nat
    BY <1>2, <1>3
  <2> QED
    BY <1>2, <1>3, <1>5, <2>1, <2>2 DEF TypeOK
<1>7. Popping'
  <2>1. working' = Kept(input, DOMAIN input \ Popped(input, group, member'))
    BY <1>1, <1>2, <1>4
  <2> QED
    BY <1>1, <1>2, <1>3, <2>1 DEF Popping, NoneBefore
<1>8. GroupsFound' /\ Untouched' /\ WorthIt' /\ Returned'
  BY <1>2, <1>3 DEF GroupsFound, Untouched, WorthIt, Returned
<1> QED
  BY <1>6, <1>7, <1>8 DEF IInv

LEMMA PopEndKeeps == ASSUME IInv, PopEnd PROVE IInv'
<1>1. /\ TypeOK /\ GroupsFound /\ Popping /\ WorthIt
      /\ pc = "pop" /\ pc' = "recount" /\ member > Len(groups[group])
      /\ UNCHANGED <<input, limit, failAt, groups, scan, working, offset, group, member>>
  BY DEF PopEnd, IInv
<1>2. member = Len(groups[group]) + 1
  <2>1. group \in 1..Len(groups)
    <3>1. group \in 1..Cardinality(Removable(input)) /\ scan = Len(input) + 1
      BY <1>1 DEF Popping
    <3>2. Len(groups) \in Nat /\ Len(input) \in Nat
      BY <1>1, InputIs
    <3>3. Cardinality(Removable(input)) \in {Len(groups) - 2, 0}
      BY <1>1, <3>1, <3>2, AllGroupsFound DEF RemovableGroups
    <3> QED
      BY <3>1, <3>2, <3>3
  <2>2. Len(groups[group]) \in Nat
    BY <1>1, <2>1, InputIs
  <2>3. member \in 1..(Len(groups[group]) + 1)
    BY <1>1 DEF Popping
  <2> QED
    BY <1>1, <2>2, <2>3
<1>3. TypeOK' /\ GroupsFound'
  BY <1>1 DEF TypeOK, GroupsFound
<1>4. Popping'
  BY <1>1, <1>2 DEF Popping, NoneBefore
<1>5. Untouched' /\ WorthIt' /\ Returned'
  BY <1>1 DEF Untouched, WorthIt, Returned
<1> QED
  BY <1>3, <1>4, <1>5 DEF IInv

LEMMA RecountKeeps == ASSUME IInv, Recount PROVE IInv'
<1> DEFINE last == Cardinality(Removable(input))
           enough == Enough \/ group = RemovableGroups
<1>1. /\ TypeOK /\ GroupsFound /\ Popping /\ WorthIt
      /\ pc = "recount"
      /\ UNCHANGED <<input, limit, failAt, groups, scan, working, offset>>
      /\ enough => pc' = "done" /\ UNCHANGED <<group, member>>
      /\ ~ enough => pc' = "pop" /\ group' = group + 1 /\ member' = 1
  BY DEF Recount, IInv
<1>2. /\ scan = Len(input) + 1 /\ group \in 1..last
      /\ working = Kept(input, DOMAIN input \ Popped(input, group, member))
      /\ NoneBefore
      /\ limit > 0 /\ failAt # 0
      /\ ~ (TokenCount(input, DOMAIN input) <= HighWatermark(limit))
  BY <1>1 DEF Popping, WorthIt
<1>3. /\ input \in Seq(Message) /\ limit \in Int /\ Len(input) \in Nat
      /\ Len(groups) \in Nat /\ last \in Nat
      /\ \A g \in 1..Len(groups) : Len(groups[g]) \in Nat
  BY <1>1, InputIs
<1>4. last = RemovableGroups /\ last = Len(groups) - 2
  <2>1. /\ RemovableGroups > 0 => last = RemovableGroups
        /\ ~ (RemovableGroups > 0) => last = 0
    BY <1>1, <1>2, <1>3, AllGroupsFound
  <2> QED
    BY <1>2, <1>3, <2>1 DEF RemovableGroups
<1>5. /\ Popped(input, group, member) = Popped(input, group + 1, 1)
      /\ working = Kept(input, Without(input, group))
      /\ Tokens(working) = TokenCount(input, Without(input, group))
  BY <1>1, GroupIsGone
<1>6. enough <=> ~ GoesOn(input, limit, failAt, group)
  BY <1>4, <1>5, Zenon DEF GoesOn, Enough
<1> HIDE DEF enough
<1>7. CASE enough
  <2>1. pc' = "done" /\ UNCHANGED <<group, member>>
    BY <1>1, <1>7
  <2>2. GroupsRemoved(input, limit, failAt) = group
    BY <1>2, <1>3, <1>6, <1>7, GroupsRemovedIs DEF NoneBefore
  <2>3. Returned'
    BY <1>1, <1>2, <1>5, <1>6, <1>7, <2>1, <2>2 DEF Returned, NoneBefore
  <2>4. TypeOK' /\ GroupsFound'
    BY <1>1, <2>1 DEF TypeOK, GroupsFound
  <2> QED
    BY <2>1, <2>3, <2>4 DEF IInv, Untouched, WorthIt, Popping
<1>8. CASE ~ enough
  <2>1. pc' = "pop" /\ group' = group + 1 /\ member' = 1
    BY <1>1, <1>8
  <2>2. group # last
    BY <1>6, <1>8 DEF GoesOn
  <2>3. group + 1 \in 1..last /\ group + 1 \in 1..Len(groups)
    BY <1>2, <1>3, <1>4, <2>2
  <2>4. 1 \in 1..(Len(groups[group + 1]) + 1)
    BY <1>3, <2>3
  <2>5. NoneBefore'
    <3>1. \A n \in 1..((group + 1) - 1) : n \in 1..(group - 1) \/ n = group
      BY <1>2, <1>3
    <3>2. \A n \in 1..((group + 1) - 1) : GoesOn(input, limit, failAt, n)
      BY <1>2, <1>6, <1>8, <3>1 DEF NoneBefore
    <3> QED
      BY <1>1, <2>1, <3>2 DEF NoneBefore
  <2>6. Popping'
    BY <1>1, <1>2, <1>5, <2>1, <2>3, <2>4, <2>5 DEF Popping
  <2>7. TypeOK'
    <3>1. group' \in 1..(Len(groups) + 1) /\ member' \in Nat
      BY <1>3, <2>1, <2>3
    <3> QED
      BY <1>1, <2>1, <3>1 DEF TypeOK
  <2>8. GroupsFound' /\ Untouched' /\ WorthIt' /\ Returned'
    BY <1>1, <2>1 DEF GroupsFound, Untouched, WorthIt, Returned
  <2> QED
    BY <2>6, <2>7, <2>8 DEF IInv
<1> QED
  BY <1>7, <1>8

LEMMA StepKeeps == IInv /\ [Next]_vars => IInv'
<1> SUFFICES ASSUME IInv, [Next]_vars PROVE IInv'
  OBVIOUS
<1>1. CASE CountFirst BY <1>1, CountFirstKeeps
<1>2. CASE ScanHead BY <1>2, ScanHeadKeeps
<1>3. CASE ScanOther BY <1>3, ScanOtherKeeps
<1>4. CASE ScanEnd BY <1>4, ScanEndKeeps
<1>5. CASE Pop BY <1>5, PopKeeps
<1>6. CASE PopEnd BY <1>6, PopEndKeeps
<1>7. CASE Recount BY <1>7, RecountKeeps
<1>8. CASE Stopped \/ UNCHANGED vars
  <2>1. UNCHANGED vars
    BY <1>8 DEF Stopped
  <2> QED
    BY <2>1 DEF vars, IInv, TypeOK, GroupsFound, Untouched, WorthIt, Popping, NoneBefore, Returned
<1> QED
  BY <1>1, <1>2, <1>3, <1>4, <1>5, <1>6, <1>7, <1>8 DEF Next

---------------------------------------------------------------------------
\* The invariant holds in every reachable state, for conversations of any length.
LEMMA Holds == Spec => []IInv
<1> QED
  BY InitHolds, StepKeeps, PTL DEF Spec

(***************************************************************************)
(* The state is of its types: a pop never leaves the list and every group  *)
(* the removal loop is at exists.                                          *)
(***************************************************************************)
THEOREM TypeCorrect == Spec => []TypeOK
<1>1. IInv => TypeOK
  BY DEF IInv
<1> QED
  BY <1>1, Holds, PTL

(***************************************************************************)
(* Unless a recount raises, the loops of _truncate_messages, with their    *)
(* running offset, return what Truncate says: the conversation without its *)
(* oldest groups, as few of them as bring it within the target.            *)
(***************************************************************************)
THEOREM LoopIsTruncate == Spec => []LoopMatchesTruncate
<1>1. IInv => LoopMatchesTruncate
  <2> SUFFICES ASSUME IInv, pc = "done"
               PROVE  working = Kept(input, Truncate(input, limit, failAt))
    BY DEF LoopMatchesTruncate
  <2>1. input \in Seq(Message)
    BY InputIs DEF IInv
  <2>2. CASE working = input /\ GroupsRemoved(input, limit, failAt) = 0
    <3>1. Truncate(input, limit, failAt) = DOMAIN input
      BY <2>1, <2>2, NothingGoes DEF Truncate
    <3> QED
      BY <2>1, <2>2, <3>1, AllIsKept
  <2>3. CASE /\ GroupsRemoved(input, limit, failAt) = group
             /\ working = Kept(input, Without(input, group))
    BY <2>3 DEF Truncate
  <2> QED
    BY <2>2, <2>3 DEF IInv, Returned
<1> QED
  BY <1>1, Holds, PTL

\* Positions that some group takes are fewer than those there were.
LEMMA GroupsTakeSome ==
    ASSUME NEW ms \in Seq(Message), NEW n \in 1..Cardinality(Removable(ms))
    PROVE  Cardinality(Without(ms, n)) < Len(ms)
<1>1. Heads(ms) \in SUBSET Nat /\ IsFiniteSet(Heads(ms)) /\ Cardinality(Heads(ms)) \in Nat
  BY HeadsAre
<1> DEFINE len == Len(ms)
<1>2. DOMAIN ms = 1..len /\ len \in Nat
  BY LenProperties
<1>3. Cardinality(Removable(ms)) \in Nat /\ Cardinality(Removable(ms)) <= Cardinality(Heads(ms))
  BY <1>1, RemovableAre
<1>4. PICK h \in Heads(ms) : Number(ms, h) = 1
  <2>1. 1 \in 1..Cardinality(Heads(ms))
    BY <1>1, <1>3
  <2> QED
    BY <1>1, <2>1, PlacesAreNumbered DEF Number
<1>5. h \in OldestRemovable(ms, n)
  BY <1>3, <1>4, OldestAre
<1>6. h \in DOMAIN ms /\ h \notin Without(ms, n)
  BY <1>5 DEF Heads, Without, Group
<1>7. Without(ms, n) \subseteq DOMAIN ms \ {h}
  BY <1>6 DEF Without
<1>8. IsFiniteSet(DOMAIN ms) /\ Cardinality(DOMAIN ms) = len
  <2> HIDE DEF len
  <2>1. IsFiniteSet(1..len) /\ Cardinality(1..len) = len
    BY <1>2, FS_Interval
  <2> QED
    BY <1>2, <2>1
<1>9. IsFiniteSet(DOMAIN ms \ {h}) /\ Cardinality(DOMAIN ms \ {h}) = len - 1
  BY <1>6, <1>8, FS_RemoveElement
<1>10. Cardinality(Without(ms, n)) <= Cardinality(DOMAIN ms \ {h})
  BY <1>7, <1>9, FS_Subset
<1>11. Cardinality(Without(ms, n)) \in Nat
  BY <1>7, PositionsAre
<1> QED
  BY <1>2, <1>9, <1>10, <1>11

(***************************************************************************)
(* A recount that raises never has the original list returned, which is    *)
(* what the docstring says of a failing counter: the groups that went      *)
(* before are gone, those and no other.                                    *)
(***************************************************************************)
THEOREM FailedRecountReturnsPart == Spec => []FailedRecountLeavesPart
<1>1. IInv => FailedRecountLeavesPart
  <2> SUFFICES ASSUME IInv, pc = "done", RecountRaises(input, limit, failAt)
               PROVE  /\ working = Kept(input, Without(input, failAt))
                      /\ Len(working) < Len(input)
    BY DEF FailedRecountLeavesPart
  <2>1. input \in Seq(Message)
    BY InputIs DEF IInv
  <2>2. GroupsRemoved(input, limit, failAt) = failAt /\ ~ (failAt = 0)
    BY DEF RecountRaises
  <2>3. /\ failAt \in 1..Cardinality(Removable(input))
        /\ working = Kept(input, Without(input, failAt))
    BY <2>2 DEF IInv, Returned
  <2>4. Without(input, failAt) \in SUBSET DOMAIN input
    BY DEF Without
  <2>5. Len(working) = Cardinality(Without(input, failAt))
    BY <2>1, <2>3, <2>4, KeptIs
  <2> QED
    BY <2>1, <2>3, <2>5, GroupsTakeSome
<1> QED
  BY <1>1, Holds, PTL

(***************************************************************************)
(* Whenever the removal loop may stop, the list is fit to be sent if the   *)
(* conversation was.                                                       *)
(***************************************************************************)
THEOREM StaysPaired == Spec => []WorkingStaysPaired
<1>1. IInv => WorkingStaysPaired
  <2> SUFFICES ASSUME IInv, pc \in {"recount", "done"}, Paired(input) PROVE Paired(working)
    BY DEF WorkingStaysPaired
  <2>1. input \in Seq(Message)
    BY InputIs DEF IInv
  <2>2. working = input \/ working = Kept(input, Without(input, group))
    <3>1. pc = "recount" => working = Kept(input, Without(input, group))
      BY GroupIsGone DEF IInv
    <3> QED
      BY <3>1 DEF IInv, Returned
  <2>3. PairedOn(input, Without(input, group))
    <3>1. OldestRemovable(input, group) \in SUBSET Heads(input)
      BY DEF OldestRemovable, Removable
    <3> QED
      BY <2>1, <3>1, RemovingGroupsKeepsPairs DEF Without
  <2>4. Paired(Kept(input, Without(input, group)))
    <3>1. Without(input, group) \in SUBSET DOMAIN input
      BY DEF Without
    <3> QED
      BY <2>1, <2>3, <3>1, KeptIsPaired
  <2> QED
    BY <2>2, <2>4
<1> QED
  BY <1>1, Holds, PTL

(***************************************************************************)
(* Unless a recount raises, no group goes that did not have to, and the    *)
(* list is over the target only if nothing more could go.                  *)
(***************************************************************************)
THEOREM NeitherLessNorMore == Spec => []RemovesNeitherLessNorMore
<1>1. IInv => RemovesNeitherLessNorMore
  <2> SUFFICES ASSUME IInv, pc = "done", offset > 0, ~ RecountRaises(input, limit, failAt)
               PROVE  /\ Tokens(working) > Target(limit)
                           => group = Cardinality(Removable(input))
                      /\ group > 1 => TokenCount(input, Without(input, group - 1)) > Target(limit)
    BY DEF RemovesNeitherLessNorMore
  <2>1. input \in Seq(Message) /\ limit \in Int /\ offset = Len(input) - Len(working)
        /\ Len(input) \in Nat /\ group \in Nat
    BY InputIs DEF IInv, TypeOK
  <2>2. working # input
    BY <2>1
  <2>3. /\ group \in 1..Cardinality(Removable(input))
        /\ ~ GoesOn(input, limit, failAt, group)
        /\ NoneBefore
        /\ working = Kept(input, Without(input, group))
        /\ GroupsRemoved(input, limit, failAt) = group
    BY <2>2 DEF IInv, Returned
  <2>4. ASSUME NEW n PROVE TokenCount(input, Without(input, n)) \in Nat
    <3> DEFINE S == Without(input, n)
    <3>1. S \in SUBSET DOMAIN input
      BY DEF Without
    <3> HIDE DEF S
    <3>2. IsFiniteSet(S)
      BY <2>1, <3>1, PositionsAre
    <3>3. \A i \in S : input[i].size \in Nat
      BY <2>1, <3>1, MessageFields DEF Message
    <3>4. TokenCount(input, S) \in Nat
      BY <3>2, <3>3, CountIs
    <3> QED
      BY <3>4 DEF S
  <2>5. Target(limit) \in Int
    BY <2>1 DEF Target
  <2>6. Tokens(working) = TokenCount(input, Without(input, group))
    <3>1. Without(input, group) \in SUBSET DOMAIN input
      BY DEF Without
    <3> QED
      BY <2>1, <2>3, <3>1, CountOfKept DEF Tokens
  <2>7. ASSUME Tokens(working) > Target(limit)
        PROVE  group = Cardinality(Removable(input))
    <3>1. ~ (TokenCount(input, Without(input, group)) <= Target(limit))
      BY <2>4, <2>5, <2>6, <2>7
    <3>2. group # failAt
      <4>1. group > 0
        BY <2>1, <2>2, <2>3
      <4> QED
        BY <2>3, <4>1 DEF RecountRaises
    <3> QED
      BY <2>3, <3>1, <3>2 DEF GoesOn
  <2>8. ASSUME group > 1 PROVE TokenCount(input, Without(input, group - 1)) > Target(limit)
    <3>1. group - 1 \in 1..(group - 1)
      BY <2>1, <2>8
    <3>2. ~ (TokenCount(input, Without(input, group - 1)) <= Target(limit))
      BY <2>3, <3>1 DEF NoneBefore, GoesOn
    <3> QED
      BY <2>4, <2>5, <3>2
  <2> QED
    BY <2>7, <2>8
<1> QED
  BY <1>1, Holds, PTL

---------------------------------------------------------------------------
\* StepsLeft, loop by loop.
StepsAre ==
    /\ pc = "count" => StepsLeft = 4 * Len(input) + 2
    /\ pc = "scan" =>
          StepsLeft = 3 * (Len(input) + 1 - scan) + 2 * Len(groups) + Len(input) + 1
    /\ pc = "pop" => StepsLeft = 2 * (Len(groups) - 2 - group) + Len(working) + 2
    /\ pc = "recount" => StepsLeft = 2 * (Len(groups) - 2 - group) + Len(working) + 1
    /\ pc = "done" => StepsLeft = 0

LEMMA StepsLeftAt == StepsAre
BY DEF StepsAre, StepsLeft, RemovableGroups

LEMMA StepsLeftNext == StepsAre'
BY StepsLeftAt, PTL

\* The removal loop is at one of the groups that may go.
MayGo ==
    pc \in {"pop", "recount"} => Len(groups) - 2 \in Nat /\ group <= Len(groups) - 2

LEMMA GroupMayGo == IInv => MayGo
<1> SUFFICES ASSUME IInv, pc \in {"pop", "recount"}
             PROVE  Len(groups) - 2 \in Nat /\ group <= Len(groups) - 2
  BY DEF MayGo
<1>1. /\ TypeOK /\ GroupsFound /\ scan = Len(input) + 1
      /\ group \in 1..Cardinality(Removable(input))
  BY DEF IInv, Popping
<1>2. Len(input) \in Nat /\ Len(groups) \in Nat /\ Cardinality(Removable(input)) \in Nat
  BY <1>1, InputIs
<1>3. Len(groups) - 2 > 0 /\ Cardinality(Removable(input)) = Len(groups) - 2
  BY <1>1, <1>2, AllGroupsFound DEF RemovableGroups
<1> QED
  BY <1>1, <1>2, <1>3

LEMMA GroupMayGoNext == IInv' => MayGo'
BY GroupMayGo, PTL

\* The scan starts with no group, at the first message.
ScanToCome == pc = "count" => groups = <<>> /\ scan = 1

LEMMA ScanComes == Spec => []ScanToCome
<1>1. Init => ScanToCome
  BY DEF Init, ScanToCome
<1>2. ScanToCome /\ [Next]_vars => ScanToCome'
  BY DEF ScanToCome, Next, CountFirst, ScanHead, ScanOther, ScanEnd, Pop, PopEnd, Recount,
         Stopped, vars
<1> QED
  BY <1>1, <1>2, PTL DEF Spec

\* A group more, and at least one message less to scan.
LEMMA FewerAfterHead ==
    ASSUME NEW len \in Nat, NEW found \in Nat, NEW i \in Nat, NEW j \in Nat,
           i + 1 <= j, j <= len + 1
    PROVE  3 * (len + 1 - j) + 2 * (found + 1) + len + 1
             \in 0..((3 * (len + 1 - i) + 2 * found + len + 1) - 1)
OBVIOUS

(***************************************************************************)
(* The loops of _truncate_messages end, after 4 * Len(input) + 2 steps at  *)
(* most: j of the inner scan passes i, and every pop takes a message.      *)
(***************************************************************************)
THEOREM LoopsEnd == Spec => LoopsAdvance
<1> DEFINE Advances == StepsLeft' \in 0..(StepsLeft - 1)
<1>1. IInv /\ IInv' /\ ScanToCome /\ [Next]_vars => [Advances]_vars
  <2> SUFFICES ASSUME IInv, IInv', ScanToCome, Next, vars' # vars PROVE Advances
    OBVIOUS
  <2>1. /\ Len(input) \in Nat /\ Len(groups) \in Nat /\ Len(working) \in Nat
        /\ scan \in Nat /\ group \in Nat /\ input \in Seq(Message)
        /\ DOMAIN input = 1..Len(input)
        /\ scan \in 1..(Len(input) + 1) /\ groups \in Seq(Seq(DOMAIN input))
        /\ working \in Seq(Message)
    BY InputIs DEF IInv, TypeOK
  <2>2. StepsAre /\ StepsAre'
    BY StepsLeftAt, StepsLeftNext
  <2>3. CASE CountFirst
    <3>1. CASE pc' = "done"
      BY <2>1, <2>2, <2>3, <3>1 DEF CountFirst, StepsAre
    <3>2. CASE pc' = "scan"
      <4>1. groups = <<>> /\ scan = 1
        BY <2>3 DEF CountFirst, ScanToCome
      <4> QED
        BY <2>1, <2>2, <2>3, <3>2, <4>1 DEF CountFirst, StepsAre
    <3> QED
      BY <2>3, <3>1, <3>2 DEF CountFirst
  <2>4. CASE ScanHead
    <3> DEFINE found == Increasing({scan} \cup
            {j \in (scan + 1)..(PastTools(input, scan) - 1) :
                input[j].cid \in Expected(input, scan)})
    <3>1. /\ pc = "scan" /\ pc' = "scan" /\ input' = input
          /\ scan' = PastTools(input, scan)
          /\ groups' = Append(groups, found)
          /\ scan \in DOMAIN input
      BY <2>1, <2>4 DEF ScanHead
    <3> HIDE DEF found
    <3>2. Len(groups') = Len(groups) + 1
      BY <2>1, <3>1
    <3>3. scan' \in (scan + 1)..(Len(input) + 1)
      BY <2>1, <3>1, PastToolsIs
    <3>4. scan' \in Nat /\ scan + 1 <= scan' /\ scan' <= Len(input) + 1
      BY <2>1, <3>3
    <3>5. StepsLeft = 3 * (Len(input) + 1 - scan) + 2 * Len(groups) + Len(input) + 1
      BY <2>2, <3>1 DEF StepsAre
    <3>6. StepsLeft' = 3 * (Len(input) + 1 - scan') + 2 * (Len(groups) + 1) + Len(input) + 1
      BY <2>2, <3>1, <3>2 DEF StepsAre
    <3> QED
      BY <2>1, <3>4, <3>5, <3>6, FewerAfterHead
  <2>5. CASE ScanOther
    BY <2>1, <2>2, <2>5 DEF ScanOther, StepsAre
  <2>6. CASE ScanEnd
    <3>1. scan = Len(input) + 1 /\ working = input /\ group = 1
      BY <2>1, <2>6 DEF ScanEnd, IInv, Untouched
    <3>2. CASE pc' = "done"
      BY <2>1, <2>2, <2>6, <3>1, <3>2 DEF ScanEnd, StepsAre
    <3>3. CASE pc' = "pop"
      BY <2>1, <2>2, <2>6, <3>1, <3>3, GroupMayGoNext
         DEF ScanEnd, StepsAre, MayGo
    <3> QED
      BY <2>6, <3>2, <3>3 DEF ScanEnd
  <2>7. CASE Pop
    <3>1. groups[group][member] - offset \in DOMAIN working
      BY <2>7, PopTakes
    <3>2. Len(working') = Len(working) - 1 /\ pc = "pop" /\ pc' = "pop"
          /\ UNCHANGED <<groups, group>>
      <4>1. working' = DropAt(working, groups[group][member] - offset)
        BY <2>7, <3>1, Zenon DEF Pop
      <4>2. pc = "pop" /\ pc' = "pop" /\ UNCHANGED <<groups, group>>
        BY <2>7 DEF Pop
      <4>3. Len(working) - 1 \in Nat
        BY <2>1, <3>1
      <4>4. \A i : Len(DropAt(working, i)) = Len(working) - 1
        BY <4>3 DEF DropAt
      <4> QED
        BY <4>1, <4>2, <4>4
    <3> QED
      BY <2>1, <2>2, <3>2, GroupMayGo DEF StepsAre, MayGo
  <2>8. CASE PopEnd
    <3>1. pc = "pop" /\ pc' = "recount" /\ UNCHANGED <<groups, group, working>>
      BY <2>8 DEF PopEnd
    <3> QED
      BY <2>1, <2>2, <3>1, GroupMayGo DEF StepsAre, MayGo
  <2>9. CASE Recount
    <3>1. pc = "recount" /\ UNCHANGED <<groups, working>>
      BY <2>9 DEF Recount
    <3>2. CASE pc' = "done"
      BY <2>1, <2>2, <3>1, <3>2, GroupMayGo DEF StepsAre, MayGo
    <3>3. CASE pc' = "pop" /\ group' = group + 1
      BY <2>1, <2>2, <3>1, <3>3, GroupMayGo, GroupMayGoNext DEF StepsAre, MayGo
    <3> QED
      BY <2>9, <3>2, <3>3 DEF Recount
  <2> QED
    BY <2>3, <2>4, <2>5, <2>6, <2>7, <2>8, <2>9 DEF Next, Stopped
<1> QED
  BY <1>1, Holds, ScanComes, PTL DEF Spec, LoopsAdvance
===========================================================================
