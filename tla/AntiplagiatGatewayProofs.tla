---------------------- MODULE AntiplagiatGatewayProofs ----------------------
(***************************************************************************)
(* Proofs about AntiplagiatGateway, for any requests and any pool.         *)
(***************************************************************************)
EXTENDS AntiplagiatGateway, FiniteSetTheorems, TLAPS

(* A step is one of one request, and needs a free thread.                    *)
LEMMA StepsNeedThreads == Next => ~Exhausted
BY DEF Next, HandleRequest, BodyArrives, ServiceAnswers, HealthAnswers, ThreadIsFree

(* Every step either lets its request wait for something or answers it.      *)
LEMMA StepsWaitOrReply ==
    Next => \E r \in Requests :
               /\ waiting[r] # "nothing"
               /\ \/ \E event \in Services \cup {"body", "files health", "analysis health"} :
                        WaitsFor(r, event)
                  \/ \E status \in {"2xx", "404", "405", "502"} : Replies(r, status)
<1> SUFFICES ASSUME NEW r \in Requests,
                    HandleRequest(r) \/ BodyArrives(r) \/ ServiceAnswers(r) \/ HealthAnswers(r)
             PROVE  /\ waiting[r] # "nothing"
                    /\ \/ \E event \in Services \cup {"body", "files health", "analysis health"} :
                             WaitsFor(r, event)
                       \/ \E status \in {"2xx", "404", "405", "502"} : Replies(r, status)
  BY DEF Next
<1>1. Target(r) \in Services
  BY DEF Target, Services
<1>2. Status(r) \in {"2xx", "404", "405"}
  BY DEF Status
<1>3. CASE HandleRequest(r)
  BY <1>1, <1>3 DEF HandleRequest
<1>4. CASE BodyArrives(r)
  BY <1>1, <1>4 DEF BodyArrives
<1>5. CASE ServiceAnswers(r)
  BY <1>2, <1>5 DEF ServiceAnswers, Services
<1>6. CASE HealthAnswers(r)
  BY <1>6 DEF HealthAnswers
<1> QED
  BY <1>3, <1>4, <1>5, <1>6

(* No path through the handlers replies twice, or ends without a reply.      *)
THEOREM TypeCorrect == Spec => []TypeOK
<1>1. Init => TypeOK
  BY DEF Init, TypeOK
<1>2. TypeOK /\ [Next]_vars => TypeOK'
  <2> SUFFICES ASSUME TypeOK, [Next]_vars PROVE TypeOK'
    OBVIOUS
  <2>1. CASE Next
    BY <2>1, StepsWaitOrReply DEF TypeOK, WaitsFor, Replies, Services
  <2>2. CASE UNCHANGED vars
    BY <2>2 DEF TypeOK, vars
  <2> QED
    BY <2>1, <2>2
<1> QED
  BY <1>1, <1>2, PTL DEF Spec

-----------------------------------------------------------------------------
(* A step makes at most one more request wait, so those that wait never      *)
(* outnumber the threads: Exhausted is reached, and never passed.            *)
Waiters == {r \in Requests : Blocked(r)}

AtMostThreads == IsFiniteSet(Waiters) /\ Cardinality(Waiters) <= Threads

THEOREM PoolIsNeverExceeded == Spec => []AtMostThreads
<1>1. Init => AtMostThreads
  <2> SUFFICES ASSUME Init PROVE AtMostThreads
    OBVIOUS
  <2>1. Waiters = {}
    BY DEF Init, Waiters, Blocked, Services
  <2> QED
    BY <2>1, FS_EmptySet, ThreadsAssumption DEF AtMostThreads
<1>2. TypeOK /\ AtMostThreads /\ [Next]_vars => AtMostThreads'
  <2> SUFFICES ASSUME TypeOK, AtMostThreads, [Next]_vars PROVE AtMostThreads'
    OBVIOUS
  <2>1. CASE Next
    <3>1. PICK r \in Requests : \A q \in Requests \ {r} : waiting'[q] = waiting[q]
      BY <2>1, StepsWaitOrReply DEF TypeOK, WaitsFor, Replies
    <3>2. Waiters' \subseteq Waiters \cup {r}
      BY <3>1 DEF Waiters, Blocked
    <3>3. /\ IsFiniteSet(Waiters \cup {r})
          /\ Cardinality(Waiters \cup {r}) <= Cardinality(Waiters) + 1
      BY FS_AddElement, FS_CardinalityType DEF AtMostThreads
    <3>4. IsFiniteSet(Waiters') /\ Cardinality(Waiters') <= Cardinality(Waiters \cup {r})
      BY <3>2, <3>3, FS_Subset
    <3>5. Cardinality(Waiters) < Threads
      BY <2>1, StepsNeedThreads, FS_CardinalityType, ThreadsAssumption
         DEF Exhausted, Waiters, AtMostThreads
    <3>6. Cardinality(Waiters) \in Nat /\ Cardinality(Waiters') \in Nat
          /\ Cardinality(Waiters \cup {r}) \in Nat
      BY <3>3, <3>4, FS_CardinalityType DEF AtMostThreads
    <3> QED
      BY <3>3, <3>4, <3>5, <3>6, ThreadsAssumption DEF AtMostThreads
  <2>2. CASE UNCHANGED vars
    BY <2>2 DEF AtMostThreads, Waiters, Blocked, vars
  <2> QED
    BY <2>1, <2>2
<1> QED
  BY <1>1, <1>2, TypeCorrect, PTL DEF Spec
=============================================================================
