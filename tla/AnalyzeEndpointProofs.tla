------------------------ MODULE AnalyzeEndpointProofs -----------------------
(***************************************************************************)
(* Proofs about AnalyzeEndpoint, for every set of clients, every workload  *)
(* and every number of crashes: a turn is lost to nothing but a request    *)
(* beside it, sessions are histories, cases belong to stored turns, and    *)
(* for clients that wait the endpoint implements SessionLog.               *)
(***************************************************************************)
EXTENDS AnalyzeEndpoint, SequenceTheorems, TLAPS

(***************************************************************************)
(* The inductive invariant.                                                *)
(***************************************************************************)
\* Nothing of the request is in the store, or in any overlap.
Before == {"unsent", "sent", "running"}
Early == {"unsent", "sent"}
Stored == {"stored", "ok"}

\* A request that is to come, and one that was not begun.
NotYet ==
    \A r \in Requests :
        /\ r[2] > asked[r[1]] => status[r] = "unsent"
        /\ status[r] = "unsent" => sid[r] = NoSession
        /\ status[r] \in Early => context[r] = <<>>

\* Who waits has asked.
Asked == \A c \in Clients : waiting[c] => asked[c] > 0

\* What is in a list of turns has been written, to the session the list is of.
Written(turns, s) == \A t \in Range(turns) : status[t] \notin Before /\ sid[t] = s

History(turns) ==
    \A i, j \in DOMAIN turns :
        i < j => turns[i] # turns[j] /\ ~ Overlapped(turns[i], turns[j])

SessionsGood == \A s \in DOMAIN sessions : Written(sessions[s], s) /\ History(sessions[s])

\* What a request loaded is what came before it.
ContextsGood ==
    \A r \in Requests :
        /\ Written(context[r], sid[r]) /\ History(context[r])
        /\ \A t \in Range(context[r]) : ~ Overlapped(r, t)

OverlapsBegan ==
    \A r, q \in Requests : <<r, q>> \in overlaps => status[r] \notin Early /\ status[q] \notin Early

\* A session is of one client, and a client knows only its own.
OwnSessions ==
    /\ \A r, q \in Requests : sid[r] = sid[q] /\ sid[r] # NoSession => r[1] = q[1]
    /\ \A c \in Clients : known[c] # NoSession =>
          \E r \in Requests : r[1] = c /\ status[r] = "ok" /\ sid[r] = known[c]

InStore ==
    /\ \A r \in Requests : status[r] = "running" => sid[r] \in DOMAIN sessions
    /\ \A r \in Requests : status[r] = "stored" =>
          sid[r] \in DOMAIN sessions /\ r \in Range(sessions[sid[r]])
    /\ \A r \in cases : status[r] = "ok" /\ sid[r] \in DOMAIN sessions

\* Requests that run on one session have met.
RunnersMet ==
    \A r, q \in Requests :
        status[r] = "running" /\ status[q] = "running" /\ sid[r] = sid[q] /\ r # q =>
            Overlapped(r, q)

\* A turn is in a list, or lost to a turn in it.
Accounted(r, turns) == r \in Range(turns) \/ \E q \in Range(turns) : Overlapped(r, q)

LoadedAccount ==
    \A x, r \in Requests :
        status[x] = "running" /\ status[r] \in Stored /\ sid[r] = sid[x] =>
            Accounted(r, context[x]) \/ Overlapped(r, x)

StoreAccounts ==
    \A r \in Requests :
        status[r] \in Stored /\ sid[r] \in DOMAIN sessions => Accounted(r, sessions[sid[r]])

IInv ==
    /\ TypeOK
    /\ NotYet
    /\ Asked
    /\ SessionsGood
    /\ ContextsGood
    /\ OverlapsBegan
    /\ OwnSessions
    /\ InStore
    /\ RunnersMet
    /\ LoadedAccount
    /\ StoreAccounts

---------------------------------------------------------------------------
LEMMA RequestPairs ==
    /\ \A r \in Requests : r[1] \in Clients /\ r[2] \in 1..MaxAsks /\ r = <<r[1], r[2]>>
    /\ \A c \in Clients, n \in 1..MaxAsks :
          <<c, n>> \in Requests /\ <<c, n>>[1] = c /\ <<c, n>>[2] = n
BY DEF Requests

LEMMA RangeOfAppend ==
    ASSUME NEW S, NEW seq \in Seq(S), NEW e \in S
    PROVE  Range(Append(seq, e)) = Range(seq) \cup {e}
<1>1. /\ DOMAIN Append(seq, e) = 1..(Len(seq) + 1) /\ DOMAIN seq = 1..Len(seq)
      /\ Len(seq) \in Nat
      /\ \A i \in 1..Len(seq) : Append(seq, e)[i] = seq[i]
      /\ Append(seq, e)[Len(seq) + 1] = e
  OBVIOUS
<1>2. ASSUME NEW t \in Range(Append(seq, e)) PROVE t \in Range(seq) \cup {e}
  BY <1>1, <1>2 DEF Range
<1>3. ASSUME NEW t \in Range(seq) PROVE t \in Range(Append(seq, e))
  BY <1>1, <1>3 DEF Range
<1>4. e \in Range(Append(seq, e))
  BY <1>1 DEF Range
<1> QED
  BY <1>2, <1>3, <1>4

LEMMA RangeOfNone == Range(<<>>) = {}
BY DEF Range

LEMMA MembersAreRequests ==
    ASSUME NEW seq \in Seq(Requests), NEW t \in Range(seq)
    PROVE  t \in Requests
BY DEF Range

---------------------------------------------------------------------------
LEMMA InitIInv == Init => IInv
<1> SUFFICES ASSUME Init PROVE IInv
  OBVIOUS
<1>1. TypeOK
  <2>1. /\ status \in [Requests -> Statuses] /\ sid \in [Requests -> 0..issued]
        /\ context \in [Requests -> Seq(Requests)]
    BY DEF Init, Statuses, NoSession
  <2>2. /\ asked \in [Clients -> 0..MaxAsks] /\ waiting \in [Clients -> BOOLEAN]
        /\ known \in [Clients -> 0..issued]
        /\ \A c \in Clients : asked[c] \in 0..workload.asks[c]
    BY EndpointAssumption DEF Init, NoSession
  <2>3. /\ DOMAIN sessions \subseteq 1..issued
        /\ \A s \in DOMAIN sessions : sessions[s] \in Seq(Requests)
    BY DEF Init
  <2> QED
    <3>1. /\ issued \in Nat /\ crashes \in 0..MaxCrashes /\ workload \in Workloads
          /\ cases \subseteq Requests /\ overlaps \subseteq Requests \X Requests
      BY EndpointAssumption DEF Init
    <3>2. {kbOpen, archiving, up} \subseteq BOOLEAN
      BY DEF Init
    <3> QED
      BY <2>1, <2>2, <2>3, <3>1, <3>2 DEF TypeOK
<1>2. NotYet /\ Asked /\ SessionsGood /\ OverlapsBegan /\ OwnSessions /\ InStore /\ RunnersMet
      /\ LoadedAccount /\ StoreAccounts
  BY RequestPairs DEF Init, NotYet, Asked, SessionsGood, OverlapsBegan, OwnSessions, InStore,
     RunnersMet, LoadedAccount, StoreAccounts, Stored, Early
<1>3. ContextsGood
  BY RangeOfNone DEF Init, ContextsGood, Written, History
<1> QED
  BY <1>1, <1>2, <1>3 DEF IInv

---------------------------------------------------------------------------
(***************************************************************************)
(* The clients.                                                            *)
(***************************************************************************)
LEMMA AskKeeps ==
    ASSUME IInv, NEW c \in Clients, Ask(c)
    PROVE  IInv'
<1> DEFINE r == <<c, asked[c] + 1>>
<1>1. /\ asked[c] \in 0..MaxAsks /\ asked[c] + 1 \in 1..MaxAsks
      /\ asked[c] + 1 \in 0..workload.asks[c]
  BY EndpointAssumption DEF IInv, TypeOK, Ask
<1>2. r \in Requests /\ r[1] = c /\ r[2] = asked[c] + 1
  BY <1>1, RequestPairs
<1>3. status[r] = "unsent" /\ sid[r] = NoSession /\ context[r] = <<>>
  BY <1>1, <1>2 DEF IInv, NotYet, Early
<1>4. /\ status' = [status EXCEPT ![r] = IF up THEN "sent" ELSE "lost"]
      /\ sid' = [sid EXCEPT ![r] = known[c]]
      /\ asked' = [asked EXCEPT ![c] = asked[c] + 1]
      /\ waiting' = [waiting EXCEPT ![c] = TRUE]
      /\ UNCHANGED <<store, process, context, workload, known, overlaps>>
  BY DEF Ask
<1> HIDE DEF r
<1>5. /\ \A q \in Requests : q # r => status'[q] = status[q] /\ sid'[q] = sid[q]
      /\ status'[r] \in {"sent", "lost"} /\ sid'[r] = known[c]
  BY <1>2, <1>4 DEF IInv, TypeOK
<1>6. /\ UNCHANGED <<sessions, issued, cases, context, overlaps, known>>
      /\ \A s \in DOMAIN sessions : r \notin Range(sessions[s])
      /\ \A q \in Requests : r \notin Range(context[q])
  BY <1>3, <1>4 DEF store, IInv, SessionsGood, ContextsGood, Written, Before
<1>7. TypeOK'
  <2>1. status' \in [Requests -> Statuses] /\ sid' \in [Requests -> 0..issued]
    BY <1>2, <1>4 DEF IInv, TypeOK, Statuses
  <2>2. /\ asked' \in [Clients -> 0..MaxAsks] /\ waiting' \in [Clients -> BOOLEAN]
        /\ \A d \in Clients : asked'[d] \in 0..workload.asks[d]
    BY <1>1, <1>4 DEF IInv, TypeOK
  <2> QED
    BY <1>4, <2>1, <2>2 DEF IInv, TypeOK, store, process
<1>8. NotYet'
  <2>1. ASSUME NEW q \in Requests, q # r
        PROVE  q[2] > asked'[q[1]] => q[2] > asked[q[1]]
    BY <1>1, <1>2, <1>4, <2>1, RequestPairs DEF IInv, TypeOK
  <2>2. ~ (r[2] > asked'[r[1]])
    BY <1>1, <1>2, <1>4 DEF IInv, TypeOK
  <2> QED
    BY <1>3, <1>5, <1>6, <2>1, <2>2 DEF IInv, NotYet, Early
<1>14. Asked'
  BY <1>1, <1>4 DEF IInv, TypeOK, Asked
<1>9. SessionsGood' /\ ContextsGood'
  <2>1. ASSUME NEW seq \in Seq(Requests), NEW s, r \notin Range(seq), Written(seq, s)
        PROVE  Written(seq, s)'
    BY <1>5, <2>1, MembersAreRequests DEF Written
  <2>2. \A seq : History(seq)' <=> History(seq)
    BY <1>6 DEF History, Overlapped
  <2>3. SessionsGood'
    BY <1>6, <2>1, <2>2 DEF IInv, TypeOK, SessionsGood
  <2>4. ASSUME NEW q \in Requests, NEW t \in Range(context[q])
        PROVE  status'[t] \notin Before /\ sid'[t] = sid'[q]
    <3>1. q # r
      BY <1>3, RangeOfNone
    <3>2. t \in Requests /\ t # r
      BY <1>6, MembersAreRequests DEF IInv, TypeOK
    <3> QED
      BY <1>5, <3>1, <3>2 DEF IInv, ContextsGood, Written
  <2>5. ContextsGood'
    BY <1>6, <2>2, <2>4 DEF IInv, ContextsGood, Written, Overlapped
  <2> QED
    BY <2>3, <2>5
<1>10. OverlapsBegan'
  BY <1>3, <1>5, <1>6 DEF IInv, OverlapsBegan, Early
<1>11. OwnSessions'
  <2>1. ASSUME NEW q \in Requests, q # r, sid[q] = known[c], known[c] # NoSession
        PROVE  q[1] = c
    BY <2>1 DEF IInv, OwnSessions
  <2>2. ASSUME NEW d \in Clients, known[d] # NoSession
        PROVE  \E q \in Requests : q[1] = d /\ status'[q] = "ok" /\ sid'[q] = known[d]
    BY <1>3, <1>5, <2>2 DEF IInv, OwnSessions
  <2> QED
    BY <1>2, <1>5, <1>6, <2>1, <2>2 DEF IInv, OwnSessions
<1>12. InStore' /\ RunnersMet'
  BY <1>3, <1>5, <1>6 DEF IInv, TypeOK, InStore, RunnersMet, Overlapped
<1>13. LoadedAccount' /\ StoreAccounts'
  <2>1. \A q, seq : Accounted(q, seq)' <=> Accounted(q, seq)
    BY <1>6 DEF Accounted, Overlapped
  <2>2. \A p, q : Overlapped(p, q)' <=> Overlapped(p, q)
    BY <1>6 DEF Overlapped
  <2> QED
    BY <1>5, <1>6, <2>1, <2>2 DEF IInv, LoadedAccount, StoreAccounts, Stored
<1> QED
  BY <1>7, <1>8, <1>14, <1>9, <1>10, <1>11, <1>12, <1>13 DEF IInv

\* What a handler leaves alone while a client hears of it, or not.
LEMMA ClientKeeps ==
    ASSUME IInv, UNCHANGED <<store, process, request, workload, asked>>,
           waiting' \in [Clients -> BOOLEAN], \A c \in Clients : waiting'[c] => waiting[c],
           \/ known' = known
           \/ \E c \in Clients, r \in Requests :
                 /\ r[1] = c /\ status[r] = "ok"
                 /\ known' = [known EXCEPT ![c] = sid[r]]
    PROVE  IInv'
<1>1. TypeOK'
  BY DEF IInv, TypeOK, store, process, request
<1>2. NotYet' /\ Asked' /\ SessionsGood' /\ ContextsGood' /\ OverlapsBegan'
  BY DEF IInv, NotYet, Asked, SessionsGood, ContextsGood, Written, History, Overlapped, OverlapsBegan,
     store, request
<1>3. InStore' /\ RunnersMet' /\ LoadedAccount' /\ StoreAccounts'
  BY DEF IInv, InStore, RunnersMet, LoadedAccount, StoreAccounts, Accounted, Overlapped,
     store, request
<1>4. OwnSessions'
  <2>1. UNCHANGED <<sid, status>>
    BY DEF request
  <2>2. ASSUME NEW d \in Clients, known'[d] # NoSession
        PROVE  \E r \in Requests : r[1] = d /\ status[r] = "ok" /\ sid[r] = known'[d]
    <3>1. CASE known'[d] = known[d]
      BY <2>2, <3>1 DEF IInv, OwnSessions
    <3>2. CASE known'[d] # known[d]
      BY <3>2 DEF IInv, TypeOK
    <3> QED
      BY <3>1, <3>2
  <2> QED
    BY <2>1, <2>2 DEF IInv, OwnSessions
<1> QED
  BY <1>1, <1>2, <1>3, <1>4 DEF IInv

LEMMA ReceiveKeeps ==
    ASSUME IInv, NEW c \in Clients, Receive(c)
    PROVE  IInv'
<1> DEFINE r == <<c, asked[c]>>
<1>1. /\ UNCHANGED <<store, process, request, workload, asked>>
      /\ waiting' = [waiting EXCEPT ![c] = FALSE]
      /\ known' = IF status[r] = "ok" /\ known[c] = NoSession
                  THEN [known EXCEPT ![c] = sid[r]] ELSE known
  BY DEF Receive
<1>2. /\ waiting' \in [Clients -> BOOLEAN]
      /\ \A d \in Clients : waiting'[d] => waiting[d]
  BY <1>1 DEF IInv, TypeOK
<1>3. asked[c] \in 1..MaxAsks
  BY EndpointAssumption DEF IInv, TypeOK, Asked, Receive
<1>4. r \in Requests /\ r[1] = c
  BY <1>3, RequestPairs
<1> HIDE DEF r
<1> QED
  BY <1>1, <1>2, <1>4, ClientKeeps

LEMMA GiveUpKeeps ==
    ASSUME IInv, NEW c \in Clients, GiveUp(c)
    PROVE  IInv'
<1>1. /\ waiting' \in [Clients -> BOOLEAN]
      /\ \A d \in Clients : waiting'[d] => waiting[d]
  BY DEF IInv, TypeOK, GiveUp
<1> QED
  BY <1>1, ClientKeeps DEF GiveUp

---------------------------------------------------------------------------
(***************************************************************************)
(* The handler: its start.                                                 *)
(***************************************************************************)
\* The session of the request is there: it is read.
LEMMA LoadKnownKeeps ==
    ASSUME IInv, NEW r \in Requests, Load(r), sid[r] \in DOMAIN sessions
    PROVE  IInv'
<1>1. /\ status[r] = "sent"
      /\ status' = [status EXCEPT ![r] = "running"]
      /\ context' = [context EXCEPT ![r] = sessions[sid[r]]]
      /\ overlaps' = overlaps \cup (InProgress(sid[r]) \X {r})
      /\ UNCHANGED <<sessions, issued, sid, cases, process, client>>
      /\ up /\ \A q \in Requests : status[q] # "stored"
  BY DEF Load, LoopFree
<1>2. /\ \A q \in Requests : q # r => status'[q] = status[q] /\ context'[q] = context[q]
      /\ status'[r] = "running" /\ context'[r] = sessions[sid[r]]
      /\ sessions[sid[r]] \in Seq(Requests)
  BY <1>1 DEF IInv, TypeOK
<1>3. /\ \A s \in DOMAIN sessions : r \notin Range(sessions[s])
      /\ \A q \in Requests : r \notin Range(context[q])
  BY <1>1 DEF IInv, SessionsGood, ContextsGood, Written, Before
<1>4. \A p, q \in Requests : <<p, q>> \in overlaps' <=>
          <<p, q>> \in overlaps \/ (q = r /\ status[p] = "running" /\ sid[p] = sid[r])
  BY <1>1 DEF InProgress
<1>5. ASSUME NEW p \in Requests, NEW q \in Requests, p # r, q # r
      PROVE  Overlapped(p, q)' <=> Overlapped(p, q)
  BY <1>4, <1>5 DEF Overlapped
<1>6. \A p, q \in Requests : Overlapped(p, q) => Overlapped(p, q)'
  BY <1>4 DEF Overlapped
<1>7. ASSUME NEW p \in Requests, status[p] # "running", p # r
      PROVE  ~ Overlapped(r, p)'
  BY <1>1, <1>4, <1>7 DEF IInv, OverlapsBegan, Overlapped, Early
<1>8. TypeOK'
  <2>1. status' \in [Requests -> Statuses] /\ context' \in [Requests -> Seq(Requests)]
    BY <1>1, <1>2 DEF IInv, TypeOK, Statuses
  <2>2. overlaps' \subseteq Requests \X Requests
    BY <1>1 DEF IInv, TypeOK, InProgress
  <2> QED
    BY <1>1, <2>1, <2>2 DEF IInv, TypeOK, process, client
<1>9. NotYet' /\ Asked'
  BY <1>1, <1>2 DEF IInv, NotYet, Asked, client, Early
<1>10. ASSUME NEW turns \in Seq(Requests), r \notin Range(turns)
       PROVE  /\ History(turns) => History(turns)'
              /\ \A s : Written(turns, s) => Written(turns, s)'
  <2>1. \A i \in DOMAIN turns : turns[i] \in Requests /\ turns[i] # r
    BY <1>10 DEF Range
  <2>2. \A t \in Range(turns) : t \in Requests /\ t # r
    BY <1>10, MembersAreRequests
  <2> QED
    BY <1>1, <1>2, <1>5, <2>1, <2>2 DEF History, Written
<1>11. SessionsGood'
  BY <1>1, <1>3, <1>10 DEF IInv, TypeOK, SessionsGood
<1>12. ContextsGood'
  <2> SUFFICES ASSUME NEW q \in Requests
               PROVE  /\ \A t \in Range(context'[q]) : status'[t] \notin Before /\ sid[t] = sid[q]
                      /\ History(context[q])'
                      /\ \A t \in Range(context'[q]) : ~ Overlapped(q, t)'
    BY <1>1 DEF ContextsGood, Written
  <2>1. CASE q = r
    <3>1. Written(sessions[sid[r]], sid[r])' /\ History(sessions[sid[r]])'
      BY <1>1, <1>2, <1>3, <1>10 DEF IInv, SessionsGood
    <3>2. ASSUME NEW t \in Range(sessions[sid[r]])
          PROVE  t \in Requests /\ t # r /\ status[t] # "running"
      BY <1>2, <1>3, MembersAreRequests DEF IInv, SessionsGood, Written, Before
    <3> QED
      BY <2>1, <1>1, <1>2, <1>7, <3>1, <3>2 DEF Written, History
  <2>2. CASE q # r
    <3>1. context'[q] = context[q] /\ context[q] \in Seq(Requests)
      BY <1>2, <2>2 DEF IInv, TypeOK
    <3>2. Written(context[q], sid[q])' /\ History(context[q])'
      BY <1>1, <1>3, <1>10, <3>1 DEF IInv, ContextsGood, Written, History
    <3>3. ASSUME NEW t \in Range(context[q]) PROVE ~ Overlapped(q, t)'
      BY <1>3, <1>5, <2>2, <3>1, MembersAreRequests DEF IInv, ContextsGood
    <3> QED
      BY <1>1, <3>1, <3>2, <3>3 DEF Written
  <2> QED
    BY <2>1, <2>2
<1>13. OverlapsBegan'
  BY <1>1, <1>2, <1>4 DEF IInv, OverlapsBegan, Early
<1>14. OwnSessions' /\ InStore'
  BY <1>1, <1>2 DEF IInv, TypeOK, OwnSessions, InStore, client
<1>15. RunnersMet'
  <2>1. ASSUME NEW q \in Requests, q # r, status[q] = "running", sid[q] = sid[r]
        PROVE  Overlapped(q, r)' /\ Overlapped(r, q)'
    BY <1>4, <2>1 DEF Overlapped
  <2> QED
    BY <1>1, <1>2, <1>6, <2>1 DEF IInv, RunnersMet
<1>16. ASSUME NEW q \in Requests, NEW turns \in Seq(Requests), Accounted(q, turns)
       PROVE  Accounted(q, turns)'
  BY <1>6, <1>16, MembersAreRequests DEF Accounted
<1>17. LoadedAccount'
  <2> SUFFICES ASSUME NEW x \in Requests, NEW q \in Requests,
                      status'[x] = "running", status'[q] \in Stored, sid[q] = sid[x]
               PROVE  Accounted(q, context[x])' \/ Overlapped(q, x)'
    BY <1>1 DEF LoadedAccount
  <2>1. status[q] \in Stored
    BY <1>2 DEF Stored
  <2>2. CASE x = r
    <3>1. Accounted(q, sessions[sid[r]])
      BY <2>1, <2>2 DEF IInv, StoreAccounts
    <3>2. Accounted(q, sessions[sid[r]])'
      BY <3>1, <1>1, <1>2, <1>16 DEF Accounted
    <3> QED
      BY <2>2, <3>2, <1>1, <1>2 DEF Accounted
  <2>3. CASE x # r
    <3>1. context'[x] = context[x] /\ context[x] \in Seq(Requests) /\ status[x] = "running"
      BY <1>2, <2>3 DEF IInv, TypeOK
    <3>2. Accounted(q, context[x]) \/ Overlapped(q, x)
      BY <2>1, <3>1 DEF IInv, LoadedAccount
    <3> QED
      BY <1>6, <1>16, <3>1, <3>2 DEF Accounted
  <2> QED
    BY <2>2, <2>3
<1>18. StoreAccounts'
  <2>1. ASSUME NEW q \in Requests, status'[q] \in Stored, sid[q] \in DOMAIN sessions
        PROVE  Accounted(q, sessions[sid[q]])'
    BY <1>1, <1>2, <1>16, <2>1 DEF IInv, TypeOK, StoreAccounts, Stored, Accounted
  <2> QED
    BY <1>1, <2>1 DEF StoreAccounts
<1> QED
  BY <1>8, <1>9, <1>11, <1>12, <1>13, <1>14, <1>15, <1>17, <1>18 DEF IInv

\* It is not, or the request names none: one is made, under a new id.
LEMMA LoadNewKeeps ==
    ASSUME IInv, NEW r \in Requests, Load(r), sid[r] \notin DOMAIN sessions
    PROVE  IInv'
<1> DEFINE n == issued + 1
<1>1. /\ status[r] = "sent"
      /\ status' = [status EXCEPT ![r] = "running"]
      /\ issued' = n
      /\ sid' = [sid EXCEPT ![r] = n]
      /\ sessions' = [s \in DOMAIN sessions \cup {n} |-> IF s = n THEN <<>> ELSE sessions[s]]
      /\ UNCHANGED <<context, overlaps, cases, process, client>>
      /\ \A q \in Requests : status[q] # "stored"
  BY DEF Load, LoopFree
<1>2. /\ issued \in Nat /\ n \in Nat /\ n > issued
      /\ \A q \in Requests : sid[q] \in 0..issued
      /\ n \notin DOMAIN sessions
  BY DEF IInv, TypeOK
<1>3. /\ \A q \in Requests : q # r => status'[q] = status[q] /\ sid'[q] = sid[q]
      /\ status'[r] = "running" /\ sid'[r] = n
      /\ \A q \in Requests : sid[q] # n /\ (q # r => sid'[q] # n)
      /\ context[r] = <<>>
  BY <1>1, <1>2 DEF IInv, TypeOK, NotYet, Early
<1>4. /\ DOMAIN sessions' = DOMAIN sessions \cup {n}
      /\ \A s \in DOMAIN sessions : sessions'[s] = sessions[s]
      /\ sessions'[n] = <<>>
  BY <1>1, <1>2
<1> HIDE DEF n
<1>5. /\ \A s \in DOMAIN sessions : r \notin Range(sessions[s])
      /\ \A q \in Requests : r \notin Range(context[q])
      /\ \A s \in DOMAIN sessions : \A t \in Range(sessions[s]) : t \in Requests
      /\ \A q \in Requests : \A t \in Range(context[q]) : t \in Requests
  BY <1>1, MembersAreRequests DEF IInv, TypeOK, SessionsGood, ContextsGood, Written, Before
<1>6. TypeOK'
  <2>1. status' \in [Requests -> Statuses]
    BY <1>1 DEF IInv, TypeOK, Statuses
  <2>2. sid' \in [Requests -> 0..issued'] /\ known \in [Clients -> 0..issued']
    BY <1>1, <1>2 DEF IInv, TypeOK
  <2>3. /\ DOMAIN sessions' \subseteq 1..issued'
        /\ \A s \in DOMAIN sessions' : sessions'[s] \in Seq(Requests)
    BY <1>1, <1>2, <1>4 DEF IInv, TypeOK
  <2> QED
    BY <1>1, <1>2, <2>1, <2>2, <2>3 DEF IInv, TypeOK, process, client
<1>7. NotYet' /\ Asked'
  BY <1>1, <1>3 DEF IInv, NotYet, Asked, client, Early
<1>8. \A p, q : Overlapped(p, q)' <=> Overlapped(p, q)
  BY <1>1 DEF Overlapped
<1>9. SessionsGood'
  <2>1. ASSUME NEW s \in DOMAIN sessions
        PROVE  Written(sessions[s], s)' /\ History(sessions[s])'
    BY <1>3, <1>4, <1>5, <1>8, <2>1 DEF IInv, SessionsGood, Written, History
  <2>2. ASSUME NEW s, s = n PROVE Written(sessions[s], s)' /\ History(sessions[s])'
    BY <1>4, <2>2, RangeOfNone DEF Written, History
  <2> QED
    BY <1>4, <2>1, <2>2 DEF SessionsGood
<1>10. ContextsGood'
  <2> SUFFICES ASSUME NEW q \in Requests
               PROVE  /\ \A t \in Range(context[q]) : status'[t] \notin Before /\ sid'[t] = sid'[q]
                      /\ History(context[q])
                      /\ \A t \in Range(context[q]) : ~ Overlapped(q, t)
    BY <1>1, <1>8 DEF ContextsGood, Written, History
  <2>1. /\ Written(context[q], sid[q]) /\ History(context[q])
        /\ \A t \in Range(context[q]) : ~ Overlapped(q, t)
    BY DEF IInv, ContextsGood
  <2>2. CASE q = r
    BY <2>1, <2>2, <1>3, RangeOfNone
  <2>3. CASE q # r
    BY <2>1, <2>3, <1>3, <1>5 DEF Written
  <2> QED
    BY <2>2, <2>3
<1>11. OverlapsBegan'
  BY <1>1, <1>3 DEF IInv, OverlapsBegan, Early
<1>12. OwnSessions'
  <2>1. known' = known /\ \A q \in Requests : status[q] = "ok" => q # r
    BY <1>1 DEF client
  <2>2. ASSUME NEW c \in Clients, known[c] # NoSession
        PROVE  \E q \in Requests : q[1] = c /\ status'[q] = "ok" /\ sid'[q] = known[c]
    BY <1>3, <2>1, <2>2 DEF IInv, OwnSessions
  <2> QED
    BY <1>3, <2>1, <2>2 DEF IInv, OwnSessions
<1>13. InStore'
  BY <1>1, <1>3, <1>4 DEF IInv, TypeOK, InStore
<1>14. RunnersMet'
  BY <1>3, <1>8 DEF IInv, RunnersMet
<1>15. \A q, turns : Accounted(q, turns)' <=> Accounted(q, turns)
  BY <1>8 DEF Accounted
<1>16. LoadedAccount'
  BY <1>1, <1>3, <1>8, <1>15 DEF IInv, LoadedAccount, Stored
<1>17. StoreAccounts'
  BY <1>3, <1>4, <1>15 DEF IInv, StoreAccounts, Stored
<1> QED
  BY <1>6, <1>7, <1>9, <1>10, <1>11, <1>12, <1>13, <1>14, <1>16, <1>17 DEF IInv

---------------------------------------------------------------------------
(***************************************************************************)
(* The handler: its end.                                                   *)
(***************************************************************************)
\* An error before or behind the write of the session, or the answer behind it.
EndsWith(r, outcome) ==
    /\ status[r] \in {"sent", "running", "stored"}
    /\ outcome = "ok" => status[r] = "stored"
    /\ status' = [status EXCEPT ![r] = outcome]
    /\ cases' = cases \/ (outcome = "ok" /\ cases' = cases \cup {r})
    /\ kbOpen' \in BOOLEAN
    /\ UNCHANGED <<sessions, issued, archiving, up, crashes, sid, context, overlaps, client>>

LEMMA Endings ==
    ASSUME NEW r \in Requests,
           \/ LoadFails(r) \/ RunOrSaveFails(r) \/ KbInitFails(r)
           \/ Archive(r) \/ ArchiveFails(r) \/ NoArchive(r),
           TypeOK
    PROVE  \E outcome \in {"ok", "error"} : EndsWith(r, outcome)
<1>1. CASE LoadFails(r) \/ RunOrSaveFails(r) \/ KbInitFails(r)
  <2>1. EndsWith(r, "error")
    BY <1>1 DEF LoadFails, RunOrSaveFails, KbInitFails, Refuse, EndsWith, store, process, TypeOK
  <2> QED
    BY <2>1
<1>2. CASE Archive(r) \/ ArchiveFails(r) \/ NoArchive(r)
  <2>1. EndsWith(r, "ok")
    BY <1>2 DEF Archive, ArchiveFails, NoArchive, Answer, EndsWith, store, process, TypeOK
  <2> QED
    BY <2>1
<1> QED
  BY <1>1, <1>2

LEMMA EndingKeeps ==
    ASSUME IInv, NEW r \in Requests, NEW outcome \in {"ok", "error"}, EndsWith(r, outcome)
    PROVE  IInv'
<1>1. /\ status' = [status EXCEPT ![r] = outcome]
      /\ UNCHANGED <<sessions, issued, archiving, up, crashes, sid, context, overlaps, client>>
  BY DEF EndsWith
<1>2. /\ \A q \in Requests : q # r => status'[q] = status[q]
      /\ status'[r] = outcome
      /\ status[r] \in {"sent", "running", "stored"}
  BY <1>1 DEF IInv, TypeOK, EndsWith
<1>3. \A q \in Requests : status[q] \notin Before => status'[q] \notin Before
  BY <1>2 DEF Before
<1>4. \A q \in Requests : status'[q] \in Stored => status[q] \in Stored
  BY <1>2 DEF Stored, EndsWith
<1>5. TypeOK'
  BY <1>1 DEF IInv, TypeOK, EndsWith, client, Statuses
<1>6. NotYet' /\ Asked'
  BY <1>1, <1>2 DEF IInv, NotYet, Asked, client, Early
<1>7. \A p, q : Overlapped(p, q)' <=> Overlapped(p, q)
  BY <1>1 DEF Overlapped
<1>8. SessionsGood'
  <2>1. \A s \in DOMAIN sessions : \A t \in Range(sessions[s]) : t \in Requests
    BY MembersAreRequests DEF IInv, TypeOK
  <2> QED
    BY <1>1, <1>3, <1>7, <2>1 DEF IInv, SessionsGood, Written, History
<1>9. ContextsGood'
  <2>1. \A q \in Requests : \A t \in Range(context[q]) : t \in Requests
    BY MembersAreRequests DEF IInv, TypeOK
  <2> QED
    BY <1>1, <1>3, <1>7, <2>1 DEF IInv, ContextsGood, Written, History
<1>10. OverlapsBegan' /\ OwnSessions' /\ RunnersMet'
  BY <1>1, <1>2, <1>7 DEF IInv, OverlapsBegan, OwnSessions, RunnersMet, Early, client
<1>11. InStore'
  BY <1>1, <1>2 DEF IInv, TypeOK, InStore, EndsWith
<1>12. \A q, turns : Accounted(q, turns)' <=> Accounted(q, turns)
  BY <1>7 DEF Accounted
<1>13. LoadedAccount' /\ StoreAccounts'
  BY <1>1, <1>2, <1>4, <1>7, <1>12 DEF IInv, LoadedAccount, StoreAccounts
<1> QED
  BY <1>5, <1>6, <1>8, <1>9, <1>10, <1>11, <1>13 DEF IInv

\* The turn is written behind what was loaded.
LEMMA SaveKeeps ==
    ASSUME IInv, NEW r \in Requests, Save(r)
    PROVE  IInv'
<1> DEFINE s == sid[r]
           turns == Append(context[r], r)
<1>1. /\ status[r] = "running"
      /\ status' = [status EXCEPT ![r] = "stored"]
      /\ sessions' = [t \in DOMAIN sessions \cup {s} |-> IF t = s THEN turns ELSE sessions[t]]
      /\ UNCHANGED <<issued, cases, process, sid, context, overlaps, client>>
      /\ \A q \in Requests : status[q] # "stored"
  BY DEF Save, LoopFree
<1>2. s \in DOMAIN sessions /\ context[r] \in Seq(Requests) /\ turns \in Seq(Requests)
  BY <1>1 DEF IInv, TypeOK, InStore
<1>3. /\ Range(turns) = Range(context[r]) \cup {r}
      /\ Len(context[r]) \in Nat
      /\ DOMAIN context[r] = 1..Len(context[r]) /\ DOMAIN turns = 1..(Len(context[r]) + 1)
      /\ \A i \in DOMAIN context[r] : turns[i] = context[r][i] /\ context[r][i] \in Range(context[r])
      /\ turns[Len(context[r]) + 1] = r
  BY <1>2, RangeOfAppend DEF Range
<1> HIDE DEF turns
<1>4. /\ \A q \in Requests : q # r => status'[q] = status[q]
      /\ status'[r] = "stored"
  BY <1>1 DEF IInv, TypeOK
<1>5. /\ DOMAIN sessions' = DOMAIN sessions /\ sessions'[s] = turns
      /\ \A t \in DOMAIN sessions : t # s => sessions'[t] = sessions[t]
  BY <1>1, <1>2
<1> HIDE DEF s
<1>6. \A q \in Requests : status[q] \notin Before => status'[q] \notin Before
  BY <1>4 DEF Before
<1>7. \A p, q : Overlapped(p, q)' <=> Overlapped(p, q)
  BY <1>1 DEF Overlapped
<1>8. \A q, ts : Accounted(q, ts)' <=> Accounted(q, ts)
  BY <1>7 DEF Accounted
<1>9. TypeOK'
  <2>1. status' \in [Requests -> Statuses]
    BY <1>1 DEF IInv, TypeOK, Statuses
  <2>2. \A t \in DOMAIN sessions' : sessions'[t] \in Seq(Requests)
    BY <1>2, <1>5 DEF IInv, TypeOK
  <2> QED
    BY <1>1, <1>5, <2>1, <2>2 DEF IInv, TypeOK, process, client
<1>10. NotYet' /\ Asked'
  BY <1>1, <1>4 DEF IInv, NotYet, Asked, client, Early
<1>11. /\ Written(context[r], s) /\ History(context[r])
       /\ \A t \in Range(context[r]) : t \in Requests /\ t # r /\ ~ Overlapped(r, t)
  BY <1>1, <1>2, MembersAreRequests DEF s, IInv, ContextsGood, Written, Before
<1>12. SessionsGood'
  <2>1. History(turns)
    BY <1>3, <1>11 DEF History, Overlapped
  <2>2. ASSUME NEW t \in Range(turns) PROVE status'[t] \notin Before /\ sid[t] = s
    BY <1>3, <1>4, <1>6, <1>11, <2>2 DEF Written, Before, s
  <2>3. ASSUME NEW t \in DOMAIN sessions, t # s
        PROVE  Written(sessions[t], t)' /\ History(sessions[t])'
    <3>1. /\ Written(sessions[t], t) /\ History(sessions[t])
          /\ \A q \in Range(sessions[t]) : q \in Requests
      BY MembersAreRequests DEF IInv, TypeOK, SessionsGood
    <3> QED
      BY <1>1, <1>5, <1>6, <1>7, <2>3, <3>1 DEF Written, History
  <2>4. ASSUME NEW t, t = s PROVE Written(sessions[t], t)' /\ History(sessions[t])'
    BY <1>1, <1>5, <1>7, <2>1, <2>2, <2>4 DEF Written, History
  <2> QED
    BY <1>5, <2>3, <2>4 DEF SessionsGood
<1>13. ContextsGood'
  <2>1. \A q \in Requests : \A t \in Range(context[q]) : t \in Requests
    BY MembersAreRequests DEF IInv, TypeOK
  <2> QED
    BY <1>1, <1>6, <1>7, <2>1 DEF IInv, ContextsGood, Written, History
<1>14. OverlapsBegan' /\ OwnSessions' /\ RunnersMet'
  BY <1>1, <1>4, <1>7 DEF IInv, OverlapsBegan, OwnSessions, RunnersMet, Early, client
<1>15. InStore'
  <2>1. r \in Range(turns)
    BY <1>3
  <2> QED
    BY <1>1, <1>4, <1>5, <2>1 DEF IInv, TypeOK, InStore, s
<1>16. LoadedAccount'
  <2> SUFFICES ASSUME NEW x \in Requests, NEW q \in Requests,
                      status'[x] = "running", status'[q] \in Stored, sid[q] = sid[x]
               PROVE  Accounted(q, context[x]) \/ Overlapped(q, x)
    BY <1>1, <1>7, <1>8 DEF LoadedAccount
  <2>1. x # r /\ status[x] = "running"
    BY <1>4
  <2>2. CASE q = r
    BY <1>1, <2>1, <2>2 DEF IInv, RunnersMet
  <2>3. CASE q # r
    BY <1>4, <2>1, <2>3 DEF IInv, LoadedAccount
  <2> QED
    BY <2>2, <2>3
<1>17. StoreAccounts'
  <2> SUFFICES ASSUME NEW q \in Requests, status'[q] \in Stored, sid[q] \in DOMAIN sessions
               PROVE  Accounted(q, sessions'[sid[q]])
    BY <1>1, <1>5, <1>8 DEF StoreAccounts
  <2>1. CASE q = r
    BY <1>3, <1>5, <2>1 DEF Accounted, s
  <2>2. CASE q # r /\ sid[q] = s
    <3>1. Accounted(q, context[r]) \/ Overlapped(q, r)
      BY <1>1, <1>4, <2>2 DEF IInv, LoadedAccount, s
    <3> QED
      BY <1>3, <1>5, <2>2, <3>1 DEF Accounted
  <2>3. CASE q # r /\ sid[q] # s
    BY <1>4, <1>5, <2>3 DEF IInv, StoreAccounts
  <2> QED
    BY <2>1, <2>2, <2>3
<1> QED
  BY <1>9, <1>10, <1>12, <1>13, <1>14, <1>15, <1>16, <1>17 DEF IInv

---------------------------------------------------------------------------
(***************************************************************************)
(* The process ends, with the databases or without them.                   *)
(***************************************************************************)
LEMMA DieKeeps ==
    ASSUME IInv, Die,
           UNCHANGED <<sessions, cases>> \/ (sessions' = <<>> /\ cases' = {})
    PROVE  IInv'
<1>1. /\ status' = [r \in Requests |->
              IF status[r] \in {"sent", "running", "stored"} THEN "lost" ELSE status[r]]
      /\ UNCHANGED <<issued, archiving, sid, context, overlaps, client>>
  BY DEF Die
<1>2. \A q \in Requests : /\ status'[q] \notin {"sent", "running", "stored"}
                           /\ (status'[q] = status[q] \/ (status'[q] = "lost" /\ status[q] # "unsent"))
                           /\ status'[q] = "ok" <=> status[q] = "ok"
  BY <1>1 DEF IInv, TypeOK, Statuses
<1>3. \A q \in Requests : status[q] \notin Before => status'[q] \notin Before
  BY <1>1 DEF Before
<1>4. \A p, q : Overlapped(p, q)' <=> Overlapped(p, q)
  BY <1>1 DEF Overlapped
<1>5. \A s \in DOMAIN sessions' : s \in DOMAIN sessions /\ sessions'[s] = sessions[s]
  OBVIOUS
<1>6. TypeOK'
  <2>1. status' \in [Requests -> Statuses]
    BY <1>1 DEF IInv, TypeOK, Statuses
  <2>2. crashes' \in 0..MaxCrashes /\ up' = FALSE /\ kbOpen' = FALSE
    BY EndpointAssumption DEF IInv, TypeOK, Die
  <2>3. cases' \subseteq Requests
    BY DEF IInv, TypeOK
  <2>4. /\ DOMAIN sessions' \subseteq 1..issued
        /\ \A s \in DOMAIN sessions' : sessions'[s] \in Seq(Requests)
    BY <1>5 DEF IInv, TypeOK
  <2> QED
    BY <1>1, <2>1, <2>2, <2>3, <2>4 DEF IInv, TypeOK, client
<1>7. NotYet' /\ Asked'
  BY <1>1, <1>2 DEF IInv, NotYet, Asked, client, Early
<1>8. SessionsGood'
  <2>1. \A s \in DOMAIN sessions : \A t \in Range(sessions[s]) : t \in Requests
    BY MembersAreRequests DEF IInv, TypeOK
  <2> QED
    BY <1>1, <1>3, <1>4, <1>5, <2>1 DEF IInv, SessionsGood, Written, History
<1>9. ContextsGood'
  <2>1. \A q \in Requests : \A t \in Range(context[q]) : t \in Requests
    BY MembersAreRequests DEF IInv, TypeOK
  <2> QED
    BY <1>1, <1>3, <1>4, <2>1 DEF IInv, ContextsGood, Written, History
<1>10. OverlapsBegan' /\ OwnSessions'
  BY <1>1, <1>2 DEF IInv, OverlapsBegan, OwnSessions, Early, client
<1>11. InStore' /\ RunnersMet' /\ LoadedAccount'
  BY <1>1, <1>2 DEF IInv, TypeOK, InStore, RunnersMet, LoadedAccount
<1>12. StoreAccounts'
  BY <1>1, <1>2, <1>4, <1>5 DEF IInv, StoreAccounts, Stored, Accounted
<1> QED
  BY <1>6, <1>7, <1>8, <1>9, <1>10, <1>11, <1>12 DEF IInv

\* Where nothing changes but that the process runs.
LEMMA RestartKeeps ==
    ASSUME IInv, UNCHANGED <<store, kbOpen, archiving, crashes, request, client>>, up' \in BOOLEAN
    PROVE  IInv'
<1>1. TypeOK'
  BY DEF IInv, TypeOK, store, request, client
<1>2. NotYet' /\ Asked' /\ SessionsGood' /\ ContextsGood' /\ OverlapsBegan' /\ OwnSessions'
  BY DEF IInv, NotYet, Asked, SessionsGood, ContextsGood, Written, History, Overlapped,
     OverlapsBegan, OwnSessions, store, request, client
<1>3. InStore' /\ RunnersMet' /\ LoadedAccount' /\ StoreAccounts'
  BY DEF IInv, InStore, RunnersMet, LoadedAccount, StoreAccounts, Accounted, Overlapped,
     store, request
<1> QED
  BY <1>1, <1>2, <1>3 DEF IInv

LEMMA NextIInv == IInv /\ [Next]_vars => IInv'
<1> SUFFICES ASSUME IInv, [Next]_vars PROVE IInv'
  OBVIOUS
<1>1. ASSUME NEW c \in Clients, Ask(c) \/ Receive(c) \/ GiveUp(c) PROVE IInv'
  BY <1>1, AskKeeps, ReceiveKeeps, GiveUpKeeps
<1>2. ASSUME NEW r \in Requests, Handle(r) PROVE IInv'
  <2>1. CASE Load(r)
    BY <2>1, LoadKnownKeeps, LoadNewKeeps
  <2>2. CASE Save(r)
    BY <2>2, SaveKeeps
  <2>3. CASE ~ Load(r) /\ ~ Save(r)
    <3>1. PICK outcome \in {"ok", "error"} : EndsWith(r, outcome)
      BY <1>2, <2>3, Endings DEF IInv, Handle
    <3> QED
      BY <3>1, EndingKeeps
  <2> QED
    BY <2>1, <2>2, <2>3
<1>3. CASE Crash \/ Replaced
  BY <1>3, DieKeeps DEF Crash, Replaced
<1>4. CASE Restart
  BY <1>4, RestartKeeps DEF Restart
<1>5. CASE UNCHANGED vars
  <2>1. up' \in BOOLEAN
    BY <1>5 DEF IInv, TypeOK, vars, process
  <2> QED
    BY <1>5, <2>1, RestartKeeps DEF vars, process
<1> QED
  BY <1>1, <1>2, <1>3, <1>4, <1>5 DEF Next, AllAsked

LEMMA Always == Spec => []IInv
BY InitIInv, NextIInv, PTL DEF Spec

---------------------------------------------------------------------------
(***************************************************************************)
(* The tables, the handlers and the clients hold what the code puts there. *)
(***************************************************************************)
THEOREM TypeCorrect == Spec => []TypeOK
BY Always, PTL DEF IInv

(***************************************************************************)
(* An answered turn is lost to nothing but a request that was in progress  *)
(* beside it (app.py, between the read of the session and its update).     *)
(***************************************************************************)
THEOREM OnlyOverlapsLose == Spec => []LostOnlyToOverlap
<1>1. IInv => LostOnlyToOverlap
  BY DEF IInv, StoreAccounts, Stored, Accounted, LostOnlyToOverlap
<1> QED
  BY <1>1, Always, PTL

(***************************************************************************)
(* A stored session is a history of one client: each turn was loaded when  *)
(* the one before it had been stored.                                      *)
(***************************************************************************)
THEOREM SessionsAreHistories == Spec => []SessionIsAHistory
<1>1. IInv => SessionIsAHistory
  <2> SUFFICES ASSUME IInv, NEW s \in DOMAIN sessions
               PROVE  /\ History(sessions[s])
                      /\ \A i, j \in DOMAIN sessions[s] : sessions[s][i][1] = sessions[s][j][1]
    BY DEF SessionIsAHistory, History
  <2>1. ASSUME NEW i \in DOMAIN sessions[s]
        PROVE  sessions[s][i] \in Requests /\ sid[sessions[s][i]] = s
    BY DEF IInv, TypeOK, SessionsGood, Written, Range
  <2>2. s # NoSession
    BY DEF IInv, TypeOK, NoSession
  <2> QED
    BY <2>1, <2>2 DEF IInv, SessionsGood, OwnSessions
<1> QED
  BY <1>1, Always, PTL

(***************************************************************************)
(* A case in the knowledge base belongs to a turn that was stored, for     *)
(* every failure and crash between the two writes.                         *)
(***************************************************************************)
THEOREM CasesAreOfStoredTurns == Spec => []ArchivedWasStored
<1>1. IInv => ArchivedWasStored
  BY DEF IInv, TypeOK, InStore, StoreAccounts, Stored, Accounted, ArchivedWasStored
<1> QED
  BY <1>1, Always, PTL

---------------------------------------------------------------------------
(***************************************************************************)
(* Clients that wait: the sessions of theirs implement SessionLog. One     *)
(* that waits has one request in the service, so that what it loaded is    *)
(* still what is stored when it is written.                                *)
(***************************************************************************)
InService == {"sent", "running", "stored"}

OneAtATime ==
    \A r \in PatientRequests :
        status[r] \in InService => waiting[r[1]] /\ r[2] = asked[r[1]]

LoadedIsStored ==
    \A r \in PatientRequests : status[r] = "running" => context[r] = sessions[sid[r]]

PatientInv == IInv /\ OneAtATime /\ LoadedIsStored

LEMMA OneRequestEach ==
    ASSUME OneAtATime, NEW r \in PatientRequests, NEW q \in PatientRequests,
           status[r] \in InService, status[q] \in InService, r[1] = q[1]
    PROVE  r = q
BY RequestPairs DEF OneAtATime, PatientRequests

LEMMA OneAtATimeStep ==
    ASSUME IInv, OneAtATime, [Next]_vars
    PROVE  OneAtATime'
<1>1. ASSUME UNCHANGED <<workload, asked, waiting>>,
             \A r \in Requests : status'[r] \in InService => status[r] \in InService
      PROVE  OneAtATime'
  BY <1>1 DEF OneAtATime, PatientRequests
<1>2. ASSUME NEW c \in Clients, Ask(c) PROVE OneAtATime'
  <2>1. /\ ~ waiting[c] /\ workload' = workload
        /\ asked' = [asked EXCEPT ![c] = asked[c] + 1]
        /\ waiting' = [waiting EXCEPT ![c] = TRUE]
        /\ status' = [status EXCEPT ![<<c, asked[c] + 1>>] = IF up THEN "sent" ELSE "lost"]
    BY <1>2 DEF Ask
  <2>2. ASSUME NEW r \in PatientRequests, status'[r] \in InService
        PROVE  waiting'[r[1]] /\ r[2] = asked'[r[1]]
    <3>1. r \in Requests /\ r[1] \in Clients /\ r = <<r[1], r[2]>>
      BY RequestPairs DEF PatientRequests
    <3>2. CASE r = <<c, asked[c] + 1>>
      BY <2>1, <3>1, <3>2 DEF IInv, TypeOK
    <3>3. CASE r # <<c, asked[c] + 1>>
      <4>1. status[r] \in InService
        BY <2>1, <2>2, <3>1, <3>3 DEF IInv, TypeOK
      <4>2. waiting[r[1]] /\ r[2] = asked[r[1]]
        BY <4>1 DEF OneAtATime
      <4> QED
        BY <2>1, <3>1, <4>2 DEF IInv, TypeOK
    <3> QED
      BY <3>2, <3>3
  <2> QED
    BY <2>1, <2>2 DEF OneAtATime, PatientRequests
<1>3. ASSUME NEW c \in Clients, Receive(c) PROVE OneAtATime'
  <2>1. /\ status[<<c, asked[c]>>] \in Ended
        /\ waiting' = [waiting EXCEPT ![c] = FALSE]
        /\ UNCHANGED <<status, workload, asked>>
    BY <1>3 DEF Receive, request
  <2>2. ASSUME NEW r \in PatientRequests, status[r] \in InService PROVE waiting'[r[1]]
    <3>1. r[1] \in Clients /\ r = <<r[1], r[2]>> /\ waiting[r[1]] /\ r[2] = asked[r[1]]
      BY <2>2, RequestPairs DEF OneAtATime, PatientRequests
    <3>2. r[1] # c
      BY <2>1, <2>2, <3>1 DEF InService, Ended
    <3> QED
      BY <2>1, <3>1, <3>2 DEF IInv, TypeOK
  <2> QED
    BY <2>1, <2>2 DEF OneAtATime, PatientRequests
<1>4. ASSUME NEW c \in Clients, GiveUp(c) PROVE OneAtATime'
  <2>1. /\ c \in workload.impatient
        /\ waiting' = [waiting EXCEPT ![c] = FALSE]
        /\ UNCHANGED <<status, workload, asked>>
    BY <1>4 DEF GiveUp, request
  <2>2. ASSUME NEW r \in PatientRequests PROVE r[1] # c /\ r[1] \in Clients
    BY <2>1, RequestPairs DEF PatientRequests
  <2> QED
    BY <2>1, <2>2 DEF IInv, TypeOK, OneAtATime, PatientRequests
<1>5. ASSUME NEW r \in Requests, Handle(r) PROVE OneAtATime'
  <2>1. CASE Load(r) \/ Save(r)
    BY <1>1, <2>1 DEF Load, Save, client, IInv, TypeOK, InService
  <2>2. CASE ~ Load(r) /\ ~ Save(r)
    <3>1. PICK outcome \in {"ok", "error"} : EndsWith(r, outcome)
      BY <1>5, <2>2, Endings DEF IInv, Handle
    <3> QED
      BY <1>1, <3>1 DEF EndsWith, client, IInv, TypeOK, InService
  <2> QED
    BY <2>1, <2>2
<1>6. CASE Crash \/ Replaced
  BY <1>1, <1>6 DEF Crash, Replaced, Die, client, InService
<1>7. CASE Restart \/ UNCHANGED vars
  BY <1>1, <1>7 DEF Restart, vars, request, client
<1> QED
  BY <1>2, <1>3, <1>4, <1>5, <1>6, <1>7 DEF Next, AllAsked

LEMMA LoadedIsStoredStep ==
    ASSUME PatientInv, [Next]_vars
    PROVE  LoadedIsStored'
<1>1. ASSUME UNCHANGED workload,
             \A r \in PatientRequests : status'[r] = "running" =>
                 /\ status[r] = "running"
                 /\ sessions'[sid'[r]] = sessions[sid[r]] /\ context'[r] = context[r]
      PROVE  LoadedIsStored'
  BY <1>1 DEF PatientInv, LoadedIsStored, PatientRequests
<1>2. ASSUME NEW c \in Clients, Ask(c) PROVE LoadedIsStored'
  <2>1. /\ UNCHANGED <<sessions, context, workload>>
        /\ status' = [status EXCEPT ![<<c, asked[c] + 1>>] = IF up THEN "sent" ELSE "lost"]
        /\ sid' = [sid EXCEPT ![<<c, asked[c] + 1>>] = known[c]]
    BY <1>2 DEF Ask, store
  <2>2. ASSUME NEW r \in PatientRequests, status'[r] = "running"
        PROVE  r # <<c, asked[c] + 1>> /\ status[r] = "running" /\ sid'[r] = sid[r]
    BY <2>1, <2>2 DEF PatientInv, IInv, TypeOK, PatientRequests
  <2> QED
    BY <1>1, <2>1, <2>2
<1>3. ASSUME NEW c \in Clients, Receive(c) \/ GiveUp(c) PROVE LoadedIsStored'
  BY <1>1, <1>3 DEF Receive, GiveUp, store, request
<1>4. ASSUME NEW r \in Requests, Load(r) PROVE LoadedIsStored'
  <2>1. workload' = workload /\ status[r] = "sent"
    BY <1>4 DEF Load, client
  <2>2. ASSUME NEW q \in PatientRequests, q # r, status'[q] = "running"
        PROVE  context'[q] = sessions'[sid'[q]]
    <3>1. q \in Requests /\ status[q] = "running" /\ context[q] = sessions[sid[q]]
      BY <1>4, <2>2 DEF Load, PatientInv, IInv, TypeOK, LoadedIsStored, PatientRequests
    <3>2. sid[q] \in DOMAIN sessions /\ sid[q] # issued + 1
      BY <3>1 DEF PatientInv, IInv, TypeOK, InStore
    <3> QED
      BY <1>4, <2>2, <3>1, <3>2 DEF Load, PatientInv, IInv, TypeOK
  <2>3. context'[r] = sessions'[sid'[r]]
    <3>1. CASE sid[r] \in DOMAIN sessions
      BY <1>4, <3>1 DEF Load, PatientInv, IInv, TypeOK
    <3>2. CASE sid[r] \notin DOMAIN sessions
      BY <1>4, <2>1, <3>2 DEF Load, PatientInv, IInv, TypeOK, NotYet, Early
    <3> QED
      BY <3>1, <3>2
  <2> QED
    BY <2>1, <2>2, <2>3 DEF LoadedIsStored, PatientRequests
<1>5. ASSUME NEW r \in Requests, Save(r) PROVE LoadedIsStored'
  <2>1. /\ status[r] = "running" /\ UNCHANGED <<workload, sid, context>>
        /\ status' = [status EXCEPT ![r] = "stored"]
        /\ sessions' = [s \in DOMAIN sessions \cup {sid[r]} |->
                            IF s = sid[r] THEN Append(context[r], r) ELSE sessions[s]]
    BY <1>5 DEF Save, client
  <2>2. ASSUME NEW q \in PatientRequests, status'[q] = "running"
        PROVE  status[q] = "running" /\ sessions'[sid[q]] = sessions[sid[q]]
    <3>1. q \in Requests /\ q # r /\ status[q] = "running"
      BY <2>1, <2>2 DEF PatientInv, IInv, TypeOK, PatientRequests
    <3>2. sid[q] \in DOMAIN sessions /\ sid[q] # NoSession
      BY <3>1 DEF PatientInv, IInv, TypeOK, InStore, NoSession
    <3>3. sid[q] # sid[r]
      <4> SUFFICES ASSUME sid[q] = sid[r] PROVE FALSE
        OBVIOUS
      <4>1. q[1] = r[1]
        BY <3>1, <3>2 DEF PatientInv, IInv, OwnSessions
      <4>2. r \in PatientRequests
        BY <4>1 DEF PatientRequests
      <4> QED
        BY <2>1, <3>1, <4>1, <4>2, OneRequestEach DEF PatientInv, InService
    <3> QED
      BY <2>1, <3>1, <3>2, <3>3
  <2> QED
    BY <1>1, <2>1, <2>2
<1>6. ASSUME NEW r \in Requests, NEW outcome \in {"ok", "error"}, EndsWith(r, outcome)
      PROVE  LoadedIsStored'
  BY <1>1, <1>6 DEF EndsWith, client, PatientInv, IInv, TypeOK, PatientRequests
<1>7. ASSUME NEW r \in Requests, Handle(r), ~ Load(r), ~ Save(r)
      PROVE  \E outcome \in {"ok", "error"} : EndsWith(r, outcome)
  BY <1>7, Endings DEF PatientInv, IInv, Handle
<1>8. CASE Crash \/ Replaced
  <2>1. workload' = workload /\ \A r \in Requests : status'[r] # "running"
    BY <1>8 DEF Crash, Replaced, Die, client
  <2> QED
    BY <2>1 DEF LoadedIsStored, PatientRequests
<1>9. CASE Restart \/ UNCHANGED vars
  BY <1>1, <1>9 DEF Restart, vars, store, request, client
<1> QED
  BY <1>2, <1>3, <1>4, <1>5, <1>6, <1>7, <1>8, <1>9 DEF Next, AllAsked

LEMMA PatientInvAlways == Spec => []PatientInv
<1>1. Init => PatientInv
  BY InitIInv DEF Init, PatientInv, OneAtATime, LoadedIsStored, PatientRequests, InService
<1>2. PatientInv /\ [Next]_vars => PatientInv'
  BY NextIInv, OneAtATimeStep, LoadedIsStoredStep DEF PatientInv
<1> QED
  BY <1>1, <1>2, PTL DEF Spec

---------------------------------------------------------------------------
\* What the refinement maps log and acked to.
PLog == [s \in PatientSessions |-> sessions[s]]
PAcked == {r \in PatientRequests : status[r] = "ok"}

LEMMA SameLog ==
    ASSUME PatientSessions' = PatientSessions,
           \A s \in PatientSessions : sessions'[s] = sessions[s]
    PROVE  PLog' = PLog
BY DEF PLog

LEMMA SameAcked ==
    ASSUME UNCHANGED workload,
           \A r \in Requests : status'[r] = "ok" <=> status[r] = "ok"
    PROVE  PAcked' = PAcked
BY DEF PAcked, PatientRequests

LEMMA NoSessions ==
    ASSUME sessions = <<>>
    PROVE  PLog = <<>>
<1>1. PatientSessions = {}
  BY DEF PatientSessions
<1> QED
  BY <1>1 DEF PLog

LEMMA LogInitially == Init => PatientLog!LogInit
<1> SUFFICES ASSUME Init PROVE PatientLog!LogInit
  OBVIOUS
<1>1. PLog = <<>>
  BY NoSessions DEF Init
<1>2. PAcked = {}
  BY DEF Init, PAcked, PatientRequests
<1> QED
  BY <1>1, <1>2 DEF PatientLog!LogInit, PLog, PAcked

\* The steps of the abstract log, with the mapping put in.
LogStep ==
    \/ \E s \in DOMAIN PLog' \ DOMAIN PLog :
          /\ PLog' = [t \in DOMAIN PLog \cup {s} |-> IF t = s THEN <<>> ELSE PLog[t]]
          /\ PAcked' = PAcked
    \/ \E s \in DOMAIN PLog, turn \in Requests :
          /\ turn \notin PAcked /\ \A t \in DOMAIN PLog : turn \notin Range(PLog[t])
          /\ PLog' = [PLog EXCEPT ![s] = Append(@, turn)]
          /\ PAcked' = PAcked
    \/ \E turn \in Requests \ PAcked :
          /\ \E t \in DOMAIN PLog : turn \in Range(PLog[t])
          /\ PAcked' = PAcked \cup {turn}
          /\ PLog' = PLog
    \/ PLog' = <<>> /\ PAcked' = PAcked
    \/ PLog' = PLog /\ PAcked' = PAcked

LEMMA LogStepIs == LogStep => [PatientLog!LogNext]_(PatientLog!logvars)
<1> SUFFICES ASSUME LogStep PROVE [PatientLog!LogNext]_(PatientLog!logvars)
  OBVIOUS
<1>1. PatientLog!Logged = UNION {Range(PLog[s]) : s \in DOMAIN PLog}
  BY DEF PatientLog!Logged, PatientLog!Range, Range, PLog
<1>2. ASSUME NEW s \in DOMAIN PLog' \ DOMAIN PLog,
             PLog' = [t \in DOMAIN PLog \cup {s} |-> IF t = s THEN <<>> ELSE PLog[t]],
             PAcked' = PAcked
      PROVE  PatientLog!Open
  BY <1>2 DEF PatientLog!Open, PLog, PAcked
<1>3. ASSUME NEW s \in DOMAIN PLog, NEW turn \in Requests,
             turn \notin PAcked, \A t \in DOMAIN PLog : turn \notin Range(PLog[t]),
             PLog' = [PLog EXCEPT ![s] = Append(@, turn)], PAcked' = PAcked
      PROVE  PatientLog!AppendTurn
  <2>1. turn \in Requests \ (PatientLog!Logged \cup PAcked)
    BY <1>1, <1>3
  <2> QED
    BY <1>3, <2>1 DEF PatientLog!AppendTurn, PLog, PAcked
<1>4. ASSUME NEW turn \in Requests \ PAcked, \E t \in DOMAIN PLog : turn \in Range(PLog[t]),
             PAcked' = PAcked \cup {turn}, PLog' = PLog
      PROVE  PatientLog!Acknowledge
  <2>1. turn \in PatientLog!Logged \ PAcked
    BY <1>1, <1>4
  <2> QED
    BY <1>4, <2>1 DEF PatientLog!Acknowledge, PLog, PAcked
<1>5. ASSUME PLog' = <<>>, PAcked' = PAcked PROVE PatientLog!StartOver
  BY <1>5 DEF PatientLog!StartOver, PLog, PAcked
<1>6. ASSUME PLog' = PLog, PAcked' = PAcked PROVE UNCHANGED PatientLog!logvars
  BY <1>6 DEF PatientLog!logvars, PLog, PAcked
<1> QED
  BY <1>2, <1>3, <1>4, <1>5, <1>6 DEF LogStep, PatientLog!LogNext

---------------------------------------------------------------------------
(***************************************************************************)
(* Each action is a step of the log, or none.                              *)
(***************************************************************************)
LEMMA NothingLogged ==
    ASSUME PatientSessions' = PatientSessions,
           \A s \in PatientSessions : sessions'[s] = sessions[s],
           UNCHANGED workload,
           \A r \in Requests : status'[r] = "ok" <=> status[r] = "ok"
    PROVE  LogStep
BY SameLog, SameAcked DEF LogStep

LEMMA AskLogs ==
    ASSUME PatientInv, NEW c \in Clients, Ask(c)
    PROVE  LogStep
<1> DEFINE r == <<c, asked[c] + 1>>
<1>1. /\ asked[c] \in 0..MaxAsks /\ asked[c] + 1 \in 1..MaxAsks
  BY EndpointAssumption DEF PatientInv, IInv, TypeOK, Ask
<1>2. r \in Requests /\ r[1] = c /\ r[2] = asked[c] + 1
  BY <1>1, RequestPairs
<1>3. status[r] = "unsent" /\ sid[r] = NoSession
  BY <1>1, <1>2 DEF PatientInv, IInv, NotYet
<1>4. /\ status' = [status EXCEPT ![r] = IF up THEN "sent" ELSE "lost"]
      /\ sid' = [sid EXCEPT ![r] = known[c]]
      /\ UNCHANGED <<sessions, workload>>
  BY DEF Ask, store
<1> HIDE DEF r
<1>5. /\ \A q \in Requests : q # r => status'[q] = status[q] /\ sid'[q] = sid[q]
      /\ status'[r] \in {"sent", "lost"} /\ sid'[r] = known[c]
  BY <1>2, <1>4 DEF PatientInv, IInv, TypeOK
<1>6. ASSUME NEW s \in DOMAIN sessions
      PROVE  (\E q \in PatientRequests : sid'[q] = s) <=> (\E q \in PatientRequests : sid[q] = s)
  <2>1. s # NoSession
    BY DEF PatientInv, IInv, TypeOK, NoSession
  <2>2. ASSUME NEW q \in PatientRequests, sid'[q] = s
        PROVE  \E p \in PatientRequests : sid[p] = s
    <3>1. CASE q # r
      BY <1>5, <2>2, <3>1 DEF PatientRequests
    <3>2. CASE q = r
      <4>1. PICK p \in Requests : p[1] = c /\ sid[p] = known[c]
        BY <1>5, <2>1, <2>2, <3>2 DEF PatientInv, IInv, OwnSessions
      <4> QED
        BY <1>2, <1>5, <2>2, <3>2, <4>1 DEF PatientRequests
    <3> QED
      BY <3>1, <3>2
  <2>3. ASSUME NEW q \in PatientRequests, sid[q] = s
        PROVE  sid'[q] = s
    BY <1>3, <1>5, <2>1, <2>3 DEF PatientRequests
  <2> QED
    BY <2>2, <2>3
<1>7. PatientSessions' = PatientSessions
  BY <1>4, <1>6 DEF PatientSessions, PatientRequests
<1> QED
  BY <1>3, <1>4, <1>5, <1>7, NothingLogged

LEMMA LoadLogs ==
    ASSUME PatientInv, NEW r \in Requests, Load(r)
    PROVE  LogStep
<1>1. /\ status[r] = "sent" /\ status' = [status EXCEPT ![r] = "running"]
      /\ UNCHANGED workload
  BY DEF Load, client
<1>2. \A q \in Requests : status'[q] = "ok" <=> status[q] = "ok"
  BY <1>1 DEF PatientInv, IInv, TypeOK
<1>3. CASE sid[r] \in DOMAIN sessions
  <2>1. UNCHANGED <<sessions, sid>>
    BY <1>3 DEF Load
  <2> QED
    BY <1>1, <1>2, <2>1, NothingLogged DEF PatientSessions, PatientRequests
<1>4. CASE sid[r] \notin DOMAIN sessions
  <2> DEFINE n == issued + 1
  <2>1. /\ sid' = [sid EXCEPT ![r] = n]
        /\ sessions' = [s \in DOMAIN sessions \cup {n} |-> IF s = n THEN <<>> ELSE sessions[s]]
    BY <1>4 DEF Load
  <2>2. n \notin DOMAIN sessions /\ \A q \in Requests : sid[q] # n
    BY DEF PatientInv, IInv, TypeOK
  <2> HIDE DEF n
  <2>3. /\ DOMAIN sessions' = DOMAIN sessions \cup {n} /\ sessions'[n] = <<>>
        /\ \A s \in DOMAIN sessions : sessions'[s] = sessions[s] /\ s # n
    BY <2>1, <2>2
  <2>4. sid'[r] = n /\ \A q \in Requests : q # r => sid'[q] = sid[q]
    BY <2>1 DEF PatientInv, IInv, TypeOK
  <2>5. ASSUME NEW s \in DOMAIN sessions
        PROVE  (\E q \in PatientRequests : sid'[q] = s) <=> (\E q \in PatientRequests : sid[q] = s)
    BY <1>4, <2>3, <2>4 DEF PatientRequests
  <2>6. (\E q \in PatientRequests : sid'[q] = n) <=> r \in PatientRequests
    BY <2>2, <2>4 DEF PatientRequests
  <2>7. PatientRequests' = PatientRequests
    BY <1>1 DEF PatientRequests
  <2>8. CASE r \notin PatientRequests
    <3>1. PatientSessions' = PatientSessions
      BY <2>3, <2>5, <2>6, <2>7, <2>8 DEF PatientSessions
    <3> QED
      BY <1>1, <1>2, <2>3, <3>1, NothingLogged DEF PatientSessions
  <2>9. CASE r \in PatientRequests
    <3>1. PatientSessions' = PatientSessions \cup {n} /\ n \notin PatientSessions
      BY <2>2, <2>3, <2>5, <2>6, <2>7, <2>9 DEF PatientSessions
    <3>2. PLog' = [t \in DOMAIN PLog \cup {n} |-> IF t = n THEN <<>> ELSE PLog[t]]
      BY <2>3, <3>1 DEF PLog, PatientSessions
    <3>3. n \in DOMAIN PLog' \ DOMAIN PLog
      BY <3>1 DEF PLog
    <3>4. PAcked' = PAcked
      BY <1>1, <1>2, SameAcked
    <3> QED
      BY <3>2, <3>3, <3>4 DEF LogStep
  <2> QED
    BY <2>8, <2>9
<1> QED
  BY <1>3, <1>4

LEMMA SaveLogs ==
    ASSUME PatientInv, NEW r \in Requests, Save(r)
    PROVE  LogStep
<1>1. /\ status[r] = "running" /\ UNCHANGED <<workload, sid>>
      /\ status' = [status EXCEPT ![r] = "stored"]
      /\ sessions' = [s \in DOMAIN sessions \cup {sid[r]} |->
                          IF s = sid[r] THEN Append(context[r], r) ELSE sessions[s]]
  BY DEF Save, client
<1>2. sid[r] \in DOMAIN sessions /\ sid[r] # NoSession
  BY <1>1 DEF PatientInv, IInv, TypeOK, InStore, NoSession
<1>3. /\ DOMAIN sessions' = DOMAIN sessions
      /\ sessions'[sid[r]] = Append(context[r], r)
      /\ \A s \in DOMAIN sessions : s # sid[r] => sessions'[s] = sessions[s]
  BY <1>1, <1>2
<1>4. \A q \in Requests : status'[q] = "ok" <=> status[q] = "ok"
  BY <1>1 DEF PatientInv, IInv, TypeOK
<1>5. PatientSessions' = PatientSessions
  BY <1>1, <1>3 DEF PatientSessions, PatientRequests
<1>6. CASE r \notin PatientRequests
  <2>1. sid[r] \notin PatientSessions
    BY <1>2, <1>6 DEF PatientInv, IInv, OwnSessions, PatientSessions, PatientRequests
  <2> QED
    BY <1>1, <1>3, <1>4, <1>5, <2>1, NothingLogged DEF PatientSessions
<1>7. CASE r \in PatientRequests
  <2>1. sid[r] \in PatientSessions /\ context[r] = sessions[sid[r]]
    BY <1>1, <1>2, <1>7 DEF PatientInv, LoadedIsStored, PatientSessions
  <2>2. PLog' = [PLog EXCEPT ![sid[r]] = Append(@, r)]
    BY <1>3, <1>5, <2>1 DEF PLog, PatientSessions
  <2>3. \A t \in DOMAIN PLog : r \notin Range(PLog[t])
    BY <1>1 DEF PLog, PatientSessions, PatientInv, IInv, SessionsGood, Written, Before
  <2>4. PAcked' = PAcked /\ r \notin PAcked
    BY <1>1, <1>4, SameAcked DEF PAcked
  <2> QED
    BY <2>1, <2>2, <2>3, <2>4 DEF LogStep, PLog
<1> QED
  BY <1>6, <1>7

LEMMA EndingLogs ==
    ASSUME PatientInv, NEW r \in Requests, NEW outcome \in {"ok", "error"}, EndsWith(r, outcome)
    PROVE  LogStep
<1>1. /\ status[r] \in {"sent", "running", "stored"}
      /\ status' = [status EXCEPT ![r] = outcome]
      /\ UNCHANGED <<sessions, sid, workload>>
  BY DEF EndsWith, client
<1>2. PatientSessions' = PatientSessions /\ PatientRequests' = PatientRequests
  BY <1>1 DEF PatientSessions, PatientRequests
<1>3. \A q \in Requests : q # r => status'[q] = status[q]
  BY <1>1 DEF PatientInv, IInv, TypeOK
<1>4. status'[r] = outcome
  BY <1>1 DEF PatientInv, IInv, TypeOK
<1>5. CASE outcome = "error"
  BY <1>1, <1>2, <1>3, <1>4, <1>5, NothingLogged
<1>6. CASE outcome = "ok" /\ r \notin PatientRequests
  <2>1. PAcked' = PAcked
    BY <1>2, <1>3, <1>6 DEF PAcked, PatientRequests
  <2> QED
    BY <1>1, <1>2, <2>1, SameLog DEF LogStep
<1>7. CASE outcome = "ok" /\ r \in PatientRequests
  <2>1. status[r] = "stored"
    BY <1>7 DEF EndsWith
  <2>2. sid[r] \in PatientSessions /\ r \in Range(sessions[sid[r]])
    BY <1>7, <2>1 DEF PatientInv, IInv, InStore, PatientSessions
  <2>3. PLog' = PLog
    BY <1>1, <1>2, SameLog
  <2>4. PAcked' = PAcked \cup {r} /\ r \in Requests \ PAcked
    BY <1>2, <1>3, <1>4, <1>7, <2>1 DEF PAcked, PatientRequests
  <2>5. \E t \in DOMAIN PLog : r \in Range(PLog[t])
    BY <2>2 DEF PLog
  <2> QED
    BY <2>3, <2>4, <2>5 DEF LogStep
<1> QED
  BY <1>5, <1>6, <1>7

LEMMA DieLogs ==
    ASSUME PatientInv, Crash \/ Replaced
    PROVE  LogStep
<1>1. /\ UNCHANGED <<sid, workload>>
      /\ \A q \in Requests : status'[q] = "ok" <=> status[q] = "ok"
  BY DEF Crash, Replaced, Die, client
<1>2. CASE Crash
  BY <1>1, <1>2, NothingLogged DEF Crash, PatientSessions, PatientRequests
<1>3. CASE Replaced
  <2>1. PatientSessions' = {}
    BY <1>3 DEF Replaced, PatientSessions
  <2>2. PLog' = <<>>
    BY <2>1 DEF PLog
  <2> QED
    BY <1>1, <2>2, SameAcked DEF LogStep
<1> QED
  BY <1>2, <1>3

LEMMA StepsLog == PatientInv /\ [Next]_vars => LogStep
<1> SUFFICES ASSUME PatientInv, [Next]_vars PROVE LogStep
  OBVIOUS
<1>1. ASSUME UNCHANGED <<sessions, sid, status, workload>> PROVE LogStep
  BY <1>1, NothingLogged DEF PatientSessions, PatientRequests
<1>2. ASSUME NEW c \in Clients, Ask(c) PROVE LogStep
  BY <1>2, AskLogs
<1>3. ASSUME NEW c \in Clients, Receive(c) \/ GiveUp(c) PROVE LogStep
  BY <1>1, <1>3 DEF Receive, GiveUp, store, request
<1>4. ASSUME NEW r \in Requests, Handle(r) PROVE LogStep
  <2>1. CASE Load(r) \/ Save(r)
    BY <2>1, LoadLogs, SaveLogs
  <2>2. CASE ~ Load(r) /\ ~ Save(r)
    <3>1. PICK outcome \in {"ok", "error"} : EndsWith(r, outcome)
      BY <1>4, <2>2, Endings DEF PatientInv, IInv, Handle
    <3> QED
      BY <3>1, EndingLogs
  <2> QED
    BY <2>1, <2>2
<1>5. CASE Crash \/ Replaced
  BY <1>5, DieLogs
<1>6. CASE Restart \/ UNCHANGED vars
  BY <1>1, <1>6 DEF Restart, vars, store, request, client
<1> QED
  BY <1>2, <1>3, <1>4, <1>5, <1>6 DEF Next, AllAsked

---------------------------------------------------------------------------
(***************************************************************************)
(* To the clients that wait for their answers, sessions accumulate (02     *)
(* section 5.4), whatever other clients, crashes and failing stores do:    *)
(* the endpoint implements SessionLog for them.                            *)
(***************************************************************************)
THEOREM SessionsOfPatientAccumulate == Spec => PatientAccumulates
BY LogInitially, PatientInvAlways, StepsLog, LogStepIs, PTL
   DEF Spec, PatientAccumulates, PatientLog!LogSpec
=============================================================================
