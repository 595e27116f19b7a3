------------------------ MODULE KnowledgeBaseProofs ------------------------
(***************************************************************************)
(* What the knowledge base promises, for every number of runs, and for     *)
(* every order in which their threads and the event loop take their steps. *)
(***************************************************************************)
EXTENDS KnowledgeBase, TLAPS

\* Who has a store that was opened has a table, and keeps it.
TableBeforeStore ==
    /\ toolStore => ToolFile \in tables
    /\ \A r \in Runs : at[r] \in {"opened", "searching"} => ToolFile \in tables

\* What was archived is in the file the tool opens.
OneBase == archived \subseteq rows[ToolFile]

\* A retrieval began no later than now.
BeforeWasArchived == \A r \in Runs : before[r] \subseteq archived

BaseInv ==
    /\ TypeOK
    /\ TableBeforeStore
    /\ OneBase
    /\ BeforeWasArchived
    /\ BestCasesFound

(***************************************************************************)
(* What LIMIT leaves out is not better than what it returns, and it leaves *)
(* something out only if it returns as many as were asked for.             *)
(***************************************************************************)
LEMMA BestLeavesOutTheWorse ==
    ASSUME NEW k, NEW m, NEW s \in Best(k, m), NEW c \in m \ s
    PROVE  /\ Cardinality(s) = k
           /\ \A d \in s : c.confidence <= d.confidence
    BY DEF Best

LEMMA BaseInvInit == Init => BaseInv
<1>1. SUFFICES ASSUME Init PROVE BaseInv
    OBVIOUS
<1>2. TypeOK
    <2>1. /\ rows \in [Files -> SUBSET Cases]
          /\ matching \in [Runs -> SUBSET Runs]
          /\ found \in [Runs -> SUBSET Cases]
          /\ before \in [Runs -> SUBSET Cases]
        BY <1>1 DEF Init
    <2>2. at \in [Runs -> Places]
        BY <1>1 DEF Init, Places
    <2>3. calls \in [Runs -> 0..MaxCalls] /\ topK \in [Runs -> 1..MaxTopK]
        BY <1>1, BaseAssumption DEF Init
    <2>4. QED
        BY <1>1, <2>1, <2>2, <2>3 DEF Init, TypeOK
<1>3. QED
    BY <1>1, <1>2 DEF Init, BaseInv, TableBeforeStore, OneBase, BeforeWasArchived,
        BestCasesFound, ToolFile, Files

LEMMA TypeStep == TypeOK /\ [Next]_vars => TypeOK'
<1>1. SUFFICES ASSUME TypeOK, [Next]_vars PROVE TypeOK'
    OBVIOUS
<1> USE <1>1 DEF TypeOK
<1>2. ASSUME NEW r \in Runs, RefuseArguments(r) PROVE TypeOK'
    BY <1>2, BaseAssumption DEF RefuseArguments, base, stores
<1>3. ASSUME NEW r \in Runs, Call(r) PROVE TypeOK'
    BY <1>3, BaseAssumption DEF Call, TopKs, Go, Places, InTool, base, stores
<1>4. ASSUME NEW r \in Runs, CheckStore(r) PROVE TypeOK'
    BY <1>4 DEF CheckStore, Go, Places, InTool, base, stores, retrieval
<1>5. ASSUME NEW r \in Runs, MakeDirectory(r) PROVE TypeOK'
    BY <1>5 DEF MakeDirectory, Go, Places, InTool, ToolFile, Files, stores, retrieval
<1>6. ASSUME NEW r \in Runs, Open(r) PROVE TypeOK'
    BY <1>6 DEF Open, Go, Places, InTool, ToolFile, Files, stores, retrieval
<1>7. ASSUME NEW r \in Runs, Publish(r) PROVE TypeOK'
    BY <1>7 DEF Publish, Go, Places, InTool, base, retrieval
<1>8. ASSUME NEW r \in Runs, Search(r) PROVE TypeOK'
    <2>1. rows[ToolFile] \subseteq Cases
        BY DEF ToolFile, Files
    <2>2. PICK s \in SUBSET Cases : found' = [found EXCEPT ![r] = s]
        BY <1>8, <2>1 DEF Search, Best, Matches
    <2>3. QED
        BY <1>8, <2>2 DEF Search, Go, Places, InTool, base, stores, retrieval
<1>9. ASSUME NEW r \in Runs, NEW p \in Places, Leave(r, p), UNCHANGED <<base, stores, found, archived>>
      PROVE TypeOK'
    BY <1>9, BaseAssumption DEF Leave, Go, base, stores
<1>10. ASSUME NEW r \in Runs, Archive(r) PROVE TypeOK'
    <2>1. PICK x \in Confidences :
            LET case == [run |-> r, confidence |-> x]
            IN  /\ rows' = [rows EXCEPT !["named"] = @ \cup {case}]
                /\ archived' = archived \cup {case}
        BY <1>10 DEF Archive
    <2>2. [run |-> r, confidence |-> x] \in Cases
        BY DEF Cases
    <2>3. QED
        BY <1>10, <2>1, <2>2 DEF Archive, AppOpens, Go, Places, Files, retrieval
<1>11. ASSUME NEW r \in Runs, ArchiveFails(r) PROVE TypeOK'
    BY <1>11 DEF ArchiveFails, AppOpens, Go, Places, Files, retrieval
<1>12. ASSUME NEW r \in Runs, AppOpenFails(r) \/ NoArchive(r) PROVE TypeOK'
    BY <1>12 DEF AppOpenFails, NoArchive, Go, Places, base, stores, retrieval
<1>13. CASE UNCHANGED vars
    BY <1>13 DEF vars, base, stores, retrieval
<1>14. ASSUME NEW r \in Runs,
              NoDirectory(r) \/ DatabaseFails(r) \/ AnswerEmpty(r) \/ AnswerUnserialisable(r)
       PROVE  TypeOK'
    BY <1>14, <1>9 DEF NoDirectory, DatabaseFails, AnswerEmpty, AnswerUnserialisable, Places
<1>15. QED
    BY <1>2, <1>3, <1>4, <1>5, <1>6, <1>7, <1>8, <1>10, <1>11, <1>12, <1>13, <1>14
    DEF Next, AllEnded

LEMMA TablesStep == TypeOK /\ TableBeforeStore /\ [Next]_vars => TableBeforeStore'
<1>1. SUFFICES ASSUME TypeOK, TableBeforeStore, [Next]_vars PROVE TableBeforeStore'
    OBVIOUS
<1> USE DEF TypeOK, TableBeforeStore, ToolFile
<1>2. path' = path
    BY <1>1 DEF Next, vars, base, AllEnded, RefuseArguments, Call, CheckStore, MakeDirectory,
        NoDirectory, Open, Publish, Search, DatabaseFails, AnswerEmpty, AnswerUnserialisable,
        Archive, ArchiveFails, AppOpenFails, NoArchive
<1>3. tables \subseteq tables'
    BY <1>1 DEF Next, vars, base, AllEnded, RefuseArguments, Call, CheckStore, MakeDirectory,
        NoDirectory, Open, Publish, Search, DatabaseFails, AnswerEmpty, AnswerUnserialisable,
        Archive, ArchiveFails, AppOpens, AppOpenFails, NoArchive
<1>4. toolStore' => ToolFile \in tables
    BY <1>1 DEF Next, vars, stores, AllEnded, RefuseArguments, Call, CheckStore, MakeDirectory,
        NoDirectory, Open, Publish, Search, DatabaseFails, AnswerEmpty, AnswerUnserialisable,
        Archive, ArchiveFails, AppOpenFails, NoArchive
<1>5. ASSUME NEW q \in Runs, at'[q] \in {"opened", "searching"} PROVE ToolFile \in tables'
    <2>1. CASE at'[q] = at[q]
        BY <1>1, <1>3, <1>5, <2>1
    <2>2. ASSUME NEW r \in Runs, CheckStore(r) PROVE ToolFile \in tables'
        BY <1>1, <1>3, <1>5, <2>2 DEF CheckStore, Go
    <2>3. ASSUME NEW r \in Runs, Open(r) PROVE ToolFile \in tables'
        BY <2>3 DEF Open
    <2>4. ASSUME NEW r \in Runs, Publish(r) PROVE ToolFile \in tables'
        BY <1>1, <1>3, <2>4 DEF Publish
    <2>5. ASSUME NEW r \in Runs, NEW p, Go(r, p), p \notin {"opened", "searching"}
          PROVE  at'[q] = at[q]
        BY <1>1, <1>5, <2>5 DEF Go
    <2>6. ASSUME NEW r \in Runs, RefuseArguments(r) PROVE at'[q] = at[q]
        BY <2>6 DEF RefuseArguments
    <2>7. ASSUME NEW r \in Runs,
                 \/ Call(r) \/ MakeDirectory(r) \/ Search(r)
                 \/ Archive(r) \/ ArchiveFails(r) \/ AppOpenFails(r) \/ NoArchive(r)
          PROVE  at'[q] = at[q]
        BY <2>5, <2>7 DEF Call, MakeDirectory, Search, Archive, ArchiveFails, AppOpenFails, NoArchive
    <2>8. ASSUME NEW r \in Runs,
                 NoDirectory(r) \/ DatabaseFails(r) \/ AnswerEmpty(r) \/ AnswerUnserialisable(r)
          PROVE  at'[q] = at[q]
        BY <2>5, <2>8 DEF NoDirectory, DatabaseFails, AnswerEmpty, AnswerUnserialisable, Leave
    <2>9. CASE UNCHANGED vars
        BY <2>1, <2>9 DEF vars
    <2>10. QED
        BY <1>1, <2>1, <2>2, <2>3, <2>4, <2>6, <2>7, <2>8, <2>9 DEF Next, AllEnded
<1>6. QED
    BY <1>2, <1>3, <1>4, <1>5

LEMMA OneBaseStep == TypeOK /\ OneBase /\ [Next]_vars => OneBase'
<1>1. SUFFICES ASSUME TypeOK, OneBase, [Next]_vars PROVE OneBase'
    OBVIOUS
<1>2. ASSUME UNCHANGED <<path, rows, archived>> PROVE OneBase'
    BY <1>1, <1>2 DEF OneBase, ToolFile
<1>3. ASSUME NEW r \in Runs, Archive(r) PROVE OneBase'
    <2>1. PICK x \in Confidences :
            LET case == [run |-> r, confidence |-> x]
            IN  /\ rows' = [rows EXCEPT !["named"] = @ \cup {case}]
                /\ archived' = archived \cup {case}
        BY <1>3 DEF Archive
    <2>2. ToolFile = "named" /\ ToolFile' = "named"
        BY <1>3 DEF Archive, ToolFile
    <2>3. QED
        BY <1>1, <2>1, <2>2 DEF TypeOK, OneBase, Files
<1>4. QED
    BY <1>1, <1>2, <1>3 DEF Next, vars, base, AllEnded, RefuseArguments, Call, CheckStore,
        MakeDirectory, NoDirectory, Open, Publish, Search, DatabaseFails, AnswerEmpty,
        AnswerUnserialisable, ArchiveFails, AppOpenFails, NoArchive

LEMMA BeforeStep == TypeOK /\ BeforeWasArchived /\ [Next]_vars => BeforeWasArchived'
<1>1. SUFFICES ASSUME TypeOK, BeforeWasArchived, [Next]_vars PROVE BeforeWasArchived'
    OBVIOUS
<1> USE DEF TypeOK, BeforeWasArchived
<1>2. archived \subseteq archived'
    BY <1>1 DEF Next, vars, AllEnded, RefuseArguments, Call, CheckStore, MakeDirectory,
        NoDirectory, Open, Publish, Search, DatabaseFails, AnswerEmpty, AnswerUnserialisable,
        Archive, ArchiveFails, AppOpenFails, NoArchive
<1>3. CASE before' = before
    BY <1>1, <1>2, <1>3
<1>4. ASSUME NEW r \in Runs, Call(r) PROVE BeforeWasArchived'
    BY <1>1, <1>4 DEF Call
<1>5. ASSUME NEW r \in Runs, NEW p, Leave(r, p) PROVE BeforeWasArchived'
    BY <1>1, <1>2, <1>5 DEF Leave
<1>6. QED
    BY <1>1, <1>3, <1>4, <1>5 DEF Next, vars, retrieval, AllEnded, RefuseArguments, CheckStore,
        MakeDirectory, NoDirectory, Open, Publish, Search, DatabaseFails, AnswerEmpty,
        AnswerUnserialisable, Archive, ArchiveFails, AppOpenFails, NoArchive

\* BestCasesFound, of one run.
BestFoundBy(r) ==
    at[r] = "serialising" =>
        \A c \in Matches(r, before[r]) \ found[r] :
            /\ Cardinality(found[r]) = topK[r]
            /\ \A d \in found[r] : c.confidence <= d.confidence

LEMMA BestStep == BaseInv /\ [Next]_vars => BestCasesFound'
<1>1. SUFFICES ASSUME BaseInv, [Next]_vars, NEW q \in Runs PROVE BestFoundBy(q)'
    BY DEF BestFoundBy, BestCasesFound
<1>2. TypeOK /\ BestFoundBy(q)
    BY <1>1 DEF BaseInv, BestCasesFound, BestFoundBy
<1>3. ASSUME UNCHANGED <<at[q], matching[q], topK[q], before[q], found[q]>> PROVE BestFoundBy(q)'
    BY <1>2, <1>3 DEF BestFoundBy, Matches
<1>4. ASSUME at'[q] # "serialising" PROVE BestFoundBy(q)'
    BY <1>4 DEF BestFoundBy
<1>5. ASSUME Search(q) PROVE BestFoundBy(q)'
    <2>1. before[q] \subseteq rows[ToolFile]
        BY <1>1 DEF BaseInv, BeforeWasArchived, OneBase
    <2>2. PICK s \in Best(topK[q], Matches(q, rows[ToolFile])) : found' = [found EXCEPT ![q] = s]
        BY <1>5 DEF Search
    <2>3. found'[q] = s /\ UNCHANGED <<matching, topK, before>>
        BY <1>2, <1>5, <2>2 DEF TypeOK, Search, retrieval
    <2>4. Matches(q, before[q])' \ s \subseteq Matches(q, rows[ToolFile]) \ s
        BY <2>1, <2>3 DEF Matches
    <2>5. QED
        BY <2>2, <2>3, <2>4, BestLeavesOutTheWorse DEF BestFoundBy
<1>6. ASSUME NEW r \in Runs, NEW p, Go(r, p), p # "serialising", UNCHANGED <<retrieval, found>>
      PROVE  BestFoundBy(q)'
    BY <1>2, <1>3, <1>4, <1>6 DEF TypeOK, Go, retrieval
<1>7. ASSUME NEW r \in Runs, Search(r) PROVE BestFoundBy(q)'
    <2>1. CASE r = q
        BY <1>5, <1>7, <2>1
    <2>2. CASE r # q
        <3>1. PICK s : found' = [found EXCEPT ![r] = s]
            BY <1>7 DEF Search
        <3>2. QED
            BY <1>2, <1>3, <1>7, <2>2, <3>1 DEF TypeOK, Search, Go, retrieval
    <2>3. QED
        BY <2>1, <2>2
<1>8. ASSUME NEW r \in Runs, Call(r) PROVE BestFoundBy(q)'
    <2>1. PICK m \in SUBSET Runs, k \in TopKs :
                matching' = [matching EXCEPT ![r] = m] /\ topK' = [topK EXCEPT ![r] = k]
        BY <1>8 DEF Call
    <2>2. CASE r = q
        BY <1>2, <1>4, <1>8, <2>2 DEF TypeOK, Call, Go
    <2>3. CASE r # q
        BY <1>2, <1>3, <1>8, <2>1, <2>3 DEF TypeOK, Call, Go
    <2>4. QED
        BY <2>2, <2>3
<1>9. ASSUME NEW r \in Runs, NEW p, Leave(r, p), p # "serialising", UNCHANGED found
      PROVE  BestFoundBy(q)'
    BY <1>2, <1>3, <1>4, <1>9 DEF TypeOK, Leave, Go
<1>10. ASSUME NEW r \in Runs, RefuseArguments(r) PROVE BestFoundBy(q)'
    BY <1>3, <1>10 DEF RefuseArguments
<1>11. CASE UNCHANGED vars
    BY <1>3, <1>11 DEF vars, retrieval
<1>12. ASSUME NEW r \in Runs,
              \/ CheckStore(r) \/ MakeDirectory(r) \/ Open(r) \/ Publish(r)
              \/ Archive(r) \/ ArchiveFails(r) \/ AppOpenFails(r) \/ NoArchive(r)
       PROVE  BestFoundBy(q)'
    BY <1>6, <1>12 DEF CheckStore, MakeDirectory, Open, Publish, Archive, ArchiveFails,
        AppOpenFails, NoArchive
<1>13. ASSUME NEW r \in Runs,
              NoDirectory(r) \/ DatabaseFails(r) \/ AnswerEmpty(r) \/ AnswerUnserialisable(r)
       PROVE  BestFoundBy(q)'
    BY <1>9, <1>13 DEF NoDirectory, DatabaseFails, AnswerEmpty, AnswerUnserialisable
<1>14. QED
    BY <1>1, <1>7, <1>8, <1>10, <1>11, <1>12, <1>13 DEF Next, AllEnded

LEMMA BaseInvStep == BaseInv /\ [Next]_vars => BaseInv'
    BY TypeStep, TablesStep, OneBaseStep, BeforeStep, BestStep DEF BaseInv

LEMMA BaseInvAlways == Spec => []BaseInv
    BY BaseInvInit, BaseInvStep, PTL DEF Spec

(***************************************************************************)
(* The variables of the knowledge base hold what the code puts there; the  *)
(* LIMIT of a search is within _TOP_K_MAX.                                 *)
(***************************************************************************)
THEOREM BaseTypeCorrect == Spec => []TypeOK
<1>1. BaseInv => TypeOK
    BY DEF BaseInv
<1>2. QED
    BY <1>1, BaseInvAlways, PTL

(***************************************************************************)
(* The unlocked singleton of builtin.py is safe to share: whichever        *)
(* threads make it at the same time, none searches before there is a table.*)
(***************************************************************************)
THEOREM SearchesHaveTheTable == Spec => []SearchHasTable
<1>1. BaseInv => SearchHasTable
    BY DEF BaseInv, TableBeforeStore, SearchHasTable
<1>2. QED
    BY <1>1, BaseInvAlways, PTL

(***************************************************************************)
(* A search returns the most confident of the matching cases that had been *)
(* archived when it was asked for, wherever the base is and whoever opened *)
(* it.                                                                     *)
(***************************************************************************)
THEOREM SearchesFindTheBest == Spec => []BestCasesFound
<1>1. BaseInv => BestCasesFound
    BY DEF BaseInv
<1>2. QED
    BY <1>1, BaseInvAlways, PTL
=============================================================================
