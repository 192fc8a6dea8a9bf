----------------------------- MODULE ShopProofs -----------------------------
(***************************************************************************)
(* Proofs about Shop, for any users, orders, sockets and bounds: from the  *)
(* promises of the three services, what the page shows as paid is paid,    *)
(* and requests that do not overtake each other leave it with the right    *)
(* orders.  The first invariant follows a verdict on its way: on record,   *)
(* announced, in a socket's box, in the list; the second one the requests  *)
(* of the page; the third one its sockets; the last one its types.         *)
(***************************************************************************)
EXTENDS Shop, FiniteSetTheorems, SequenceTheorems, TLAPS

(* The entries the list may have: NEW, or what is on record for the order.   *)
Judged(entry) ==
    \E a \in results : a.order = entry.id /\ entry.status = Status(a)

Honest ==
    {entry \in [id : Orders, status : {"NEW", "FINISHED", "CANCELLED"}] :
        entry.status = "NEW" \/ Judged(entry)}

ListInv == list \in Seq(Honest)

Loads == [user : Users, phase : {"sent", "read", "done"}, orders : SUBSET Orders]

LoadsInv == placed \subseteq Orders /\ loads \in Seq(Loads)

RecordInv == announced \subseteq results /\ results \subseteq Answers

BoxInv == box \in [Sockets -> Seq(results)]

IInv == ListInv /\ LoadsInv /\ RecordInv /\ BoxInv

-----------------------------------------------------------------------------
(* What the helpers of the page return.                                      *)

LEMMA OrdersFinite ==
    ASSUME NEW S \in SUBSET Orders
    PROVE  IsFiniteSet(S)
<1>1. 1 \in Int /\ MaxOrders \in Int
    BY PageAssumption
<1>2. IsFiniteSet(1 .. MaxOrders)
    BY <1>1, FS_Interval
<1>3. QED
    BY <1>2, FS_Subset DEF Orders

(* The list of a finite set holds its elements and nothing else.             *)
LEMMA SetToSeqType ==
    ASSUME NEW S, IsFiniteSet(S)
    PROVE  SetToSeq(S) \in Seq(S)
<1>1. Cardinality(S) \in Nat /\ ExistsBijection(1 .. Cardinality(S), S)
    BY FS_CardinalityType
<1>2. \E f \in [1 .. Cardinality(S) -> S] : IsInjective(f)
    BY <1>1 DEF ExistsBijection, Bijection, Injection
<1>3. SetToSeq(S) \in [1 .. Cardinality(S) -> S]
    BY <1>2 DEF SetToSeq
<1>4. QED
    BY <1>1, <1>3, SeqDef

(* A loaded list says NEW of every order in it.                              *)
LEMMA LoadedHonest ==
    ASSUME NEW S \in SUBSET Orders
    PROVE  Loaded(S) \in Seq(Honest)
<1> DEFINE E == {Entry(o, "NEW") : o \in S}
<1>1. IsFiniteSet(E)
    <2> DEFINE f == [o \in S |-> Entry(o, "NEW")]
    <2>1. f \in Surjection(S, E)
        BY DEF Surjection
    <2>2. IsFiniteSet(S)
        BY OrdersFinite
    <2> HIDE DEF f, E
    <2>3. QED
        BY <2>1, <2>2, FS_Surjection
<1>2. E \subseteq Honest
    BY DEF Entry, Honest
<1>3. SetToSeq(E) \in Seq(E)
    BY <1>1, SetToSeqType
<1>4. SetToSeq(E) \in Seq(Honest)
    BY <1>2, <1>3, SeqMonotonic
<1>5. QED
    BY <1>4 DEF Loaded

(* A status with a result behind it keeps the list honest.                   *)
LEMMA UpdatedHonest ==
    ASSUME ListInv, NEW a \in results, RecordInv
    PROVE  Updated(a.order, Status(a)) \in Seq(Honest)
<1>1. Len(list) \in Nat /\ list \in [1 .. Len(list) -> Honest] /\ DOMAIN list = 1 .. Len(list)
    BY LenProperties DEF ListInv
<1>2. Status(a) \in {"FINISHED", "CANCELLED"}
    BY DEF Status
<1>3. ASSUME NEW i \in DOMAIN list, list[i].id = a.order
      PROVE  [list[i] EXCEPT !.status = Status(a)] \in Honest
    BY <1>1, <1>2, <1>3 DEF Honest, Judged
<1>4. Updated(a.order, Status(a)) \in [1 .. Len(list) -> Honest]
    BY <1>1, <1>3 DEF Updated
<1>5. QED
    BY <1>1, <1>4, SeqDef

-----------------------------------------------------------------------------
(* One part of the invariant after the other.                                *)
USE DEF vars, pageVars, listVars, socketVars, requestVars, serverVars, historyVars,
        ordersVars, paymentsVars, notifierVars

LEMMA RecordStep == IInv /\ [Next]_vars => RecordInv' /\ results \subseteq results'
<1> SUFFICES ASSUME IInv, [Next]_vars PROVE RecordInv' /\ results \subseteq results'
    OBVIOUS
<1> USE DEF IInv, RecordInv
<1>1. CASE UNCHANGED <<results, announced>>
    BY <1>1
<1>2. CASE \E a \in Answers : Deciding(a)
    BY <1>2 DEF Deciding, Payments!Decide, Payments!Announce
<1>3. UNCHANGED <<results, announced>> \/ \E a \in Answers : Deciding(a)
    BY DEF Next, Rendering, Editing, Reading, Loading, OrderStep, Clicking, Placing,
           Confirming, Creating, Requesting, Closed, Notifying, Opening, Hearing, Broken
<1>4. QED
    BY <1>1, <1>2, <1>3

LEMMA BoxStep == IInv /\ [Next]_vars => BoxInv'
<1> SUFFICES ASSUME IInv, [Next]_vars PROVE BoxInv'
    OBVIOUS
<1>1. results \subseteq results'
    BY RecordStep
<1>2. ASSUME box' \in [Sockets -> Seq(results)] PROVE BoxInv'
    BY <1>1, <1>2, SeqMonotonic DEF BoxInv
<1>3. box \in [Sockets -> Seq(results)]
    BY DEF IInv, BoxInv
<1>4. CASE UNCHANGED box
    BY <1>2, <1>3, <1>4
<1>5. ASSUME NEW ended, Notifier!End(ended) PROVE BoxInv'
    BY <1>2, <1>3, <1>5, EmptySeq DEF Notifier!End
<1>6. ASSUME NEW a \in Answers, Notifying(a) PROVE BoxInv'
    <2>1. a \in results
        BY <1>6 DEF Notifying, IInv, RecordInv
    <2>2. \A s \in Sockets : Append(box[s], a) \in Seq(results)
        BY <1>3, <2>1, AppendProperties
    <2>3. QED
        BY <1>2, <1>3, <1>6, <2>2 DEF Notifying, Notifier!Push
<1>7. ASSUME NEW s \in Sockets, Hearing(s) PROVE BoxInv'
    <2>1. Tail(box[s]) \in Seq(results)
        BY <1>3, <1>7, HeadTailProperties DEF Hearing
    <2>2. QED
        BY <1>2, <1>3, <1>7, <2>1 DEF Hearing, Notifier!Deliver
<1>8. CASE Rendering
    BY <1>5, <1>8 DEF Rendering
<1>9. ASSUME NEW u \in Users, Editing(u) PROVE BoxInv'
    BY <1>5, <1>9 DEF Editing
<1>10. ASSUME NEW s \in Sockets, Broken(s) PROVE BoxInv'
    BY <1>5, <1>10 DEF Broken
<1>11. \/ UNCHANGED box
       \/ Rendering
       \/ \E u \in Users : Editing(u)
       \/ \E a \in Answers : Notifying(a)
       \/ \E s \in Sockets : Hearing(s) \/ Broken(s)
    BY DEF Next, Reading, Loading, OrderStep, Clicking, Placing,
           Confirming, Creating, Requesting, Closed, Deciding, Opening, Notifier!Join
<1>12. QED
    BY <1>4, <1>6, <1>7, <1>8, <1>9, <1>10, <1>11

LEMMA LoadsStep == IInv /\ [Next]_vars => LoadsInv'
<1> SUFFICES ASSUME IInv, [Next]_vars PROVE LoadsInv'
    OBVIOUS
<1>1. placed \subseteq Orders /\ loads \in Seq(Loads)
    BY DEF IInv, LoadsInv
<1>2. Len(loads) \in Nat /\ DOMAIN loads = 1 .. Len(loads) /\ \A k \in DOMAIN loads : loads[k] \in Loads
    BY <1>1, LenProperties
<1>3. CASE UNCHANGED <<placed, loads>>
    BY <1>3 DEF IInv, LoadsInv
<1>4. ASSUME NEW u \in Users, Editing(u) PROVE LoadsInv'
    <2>1. Load(u) \in Loads
        BY DEF Load, Loads
    <2>2. loads' = Append(loads, Load(u)) /\ UNCHANGED placed
        BY <1>4 DEF Editing, EditUser
    <2>3. Append(loads, Load(u)) \in Seq(Loads)
        BY <1>1, <2>1, AppendProperties
    <2>4. QED
        BY <1>1, <2>2, <2>3 DEF LoadsInv
<1>5. ASSUME NEW k \in DOMAIN loads, Reading(k) \/ Loading(k) PROVE LoadsInv'
    <2>1. PICK l \in Loads : loads' \in {loads, [loads EXCEPT ![k] = l]}
        <3>1. {o \in placed : owner[o] = loads[k].user} \in SUBSET Orders
            BY <1>1
        <3>2. loads[k] \in Loads
            BY <1>2, <1>5
        <3>3. CASE Reading(k)
            <4> DEFINE l == [loads[k] EXCEPT !.phase = "read", !.orders = {o \in placed : owner[o] = loads[k].user}]
            <4>1. l \in Loads
                BY <3>1, <3>2 DEF Loads
            <4>2. loads' = [loads EXCEPT ![k] = l]
                BY <1>2, <3>3 DEF Reading, LoadReads
            <4>3. QED
                BY <4>1, <4>2
        <3>4. CASE LoadArrives(k)
            BY <1>2, <3>2, <3>4 DEF LoadArrives, Loads
        <3>5. CASE LoadFails(k)
            BY <1>2, <3>2, <3>5 DEF LoadFails, Loads
        <3>6. QED
            BY <1>5, <3>3, <3>4, <3>5 DEF Loading
    <2>2. [loads EXCEPT ![k] = l] \in Seq(Loads)
        BY <1>1, <1>2, ExceptSeq
    <2>3. UNCHANGED placed
        BY <1>5 DEF Reading, Loading
    <2>4. QED
        BY <1>1, <2>1, <2>2, <2>3 DEF LoadsInv
<1>6. ASSUME NEW o \in Orders, Placing(o) PROVE LoadsInv'
    BY <1>1, <1>6 DEF Placing, Placement!Place, LoadsInv
<1>7. \/ UNCHANGED <<placed, loads>>
      \/ \E u \in Users : Editing(u)
      \/ \E k \in DOMAIN loads : Reading(k) \/ Loading(k)
      \/ \E o \in Orders : Placing(o)
    BY DEF Next, Rendering, Render, OrderStep, Clicking, Click, Confirming, PostAnswered,
           Placement!Confirm, Creating, PostArrives, PostFails, Requesting,
           Placement!RequestPayment, Closed, Closes, Deciding, Notifying, Opening, Opens,
           Hearing, MessageArrives, Broken, Breaks
<1>8. QED
    BY <1>3, <1>4, <1>5, <1>6, <1>7

LEMMA ListStep == IInv /\ [Next]_vars => ListInv'
<1> SUFFICES ASSUME IInv, [Next]_vars PROVE ListInv'
    OBVIOUS
<1>1. Honest \subseteq Honest'
    BY RecordStep DEF Honest, Judged
<1>2. ASSUME list' \in Seq(Honest) PROVE ListInv'
    BY <1>1, <1>2, SeqMonotonic DEF ListInv
<1>3. CASE UNCHANGED list
    BY <1>2, <1>3 DEF IInv, ListInv
<1>4. ASSUME NEW k \in DOMAIN loads, LoadArrives(k) PROVE ListInv'
    <2>1. loads[k].orders \in SUBSET Orders
        <3>1. loads[k] \in Loads
            BY LenProperties DEF IInv, LoadsInv
        <3>2. QED
            BY <3>1 DEF Loads
    <2>2. QED
        BY <1>2, <1>4, <2>1, LoadedHonest DEF LoadArrives
<1>5. ASSUME NEW o \in Orders, PostArrives(o) PROVE ListInv'
    <2>1. <<Entry(o, "NEW")>> \in Seq(Honest)
        BY DEF Honest, Entry
    <2>2. <<Entry(o, "NEW")>> \o list \in Seq(Honest)
        BY <2>1, ConcatProperties DEF IInv, ListInv
    <2>3. QED
        BY <1>2, <1>5, <2>2 DEF PostArrives
<1>6. ASSUME NEW s \in Sockets, Hearing(s) PROVE ListInv'
    <2>1. Head(box[s]) \in results
        BY <1>6, HeadTailProperties DEF Hearing, IInv, BoxInv
    <2>2. QED
        BY <1>2, <1>6, <2>1, UpdatedHonest DEF Hearing, MessageArrives, IInv
<1>7. \/ UNCHANGED list
      \/ \E k \in DOMAIN loads : LoadArrives(k)
      \/ \E o \in Orders : PostArrives(o)
      \/ \E s \in Sockets : Hearing(s)
    BY DEF Next, Rendering, Render, Editing, EditUser, Reading, LoadReads, Loading, LoadFails,
           OrderStep, Clicking, Click, Placing, Confirming, PostAnswered, Creating, PostFails,
           Requesting, Closed, Closes, Deciding, Notifying, Opening, Opens, Broken, Breaks
<1>8. QED
    BY <1>3, <1>4, <1>5, <1>6, <1>7

-----------------------------------------------------------------------------
LEMMA InvariantInit == Init => IInv
<1> SUFFICES ASSUME Init PROVE IInv
    OBVIOUS
<1> USE EmptySeq DEF Init, PageInit
<1>1. ListInv
    BY DEF ListInv
<1>2. LoadsInv
    <2>1. Load(FirstUser) \in Loads
        BY PageAssumption DEF Load, Loads
    <2>2. QED
        BY <2>1 DEF LoadsInv, Placement!PlacementInit
<1>3. RecordInv
    BY DEF RecordInv, Payments!VerdictsInit
<1>4. BoxInv
    BY DEF BoxInv, Notifier!NotificationsInit
<1>5. QED
    BY <1>1, <1>2, <1>3, <1>4 DEF IInv

LEMMA Invariant == Spec => []IInv
<1>1. IInv /\ [Next]_vars => IInv'
    BY ListStep, LoadsStep, RecordStep, BoxStep DEF IInv
<1>2. QED
    BY <1>1, InvariantInit, PTL DEF Spec

(* A page never shows an order as paid, or as refused, that the payments     *)
(* service has no such result for.                                           *)
THEOREM ShownIsDecided == Spec => []StatusIsVerdict
<1>1. IInv => StatusIsVerdict
    <2> SUFFICES ASSUME IInv, NEW i \in DOMAIN list, list[i].status # "NEW"
                 PROVE  \E a \in results :
                            /\ a.order = list[i].id
                            /\ list[i].status = IF a.success THEN "FINISHED" ELSE "CANCELLED"
        BY DEF StatusIsVerdict
    <2>1. list[i] \in Honest
        BY LenProperties DEF IInv, ListInv
    <2>2. QED
        BY <2>1 DEF Honest, Judged, Status
<1>2. QED
    BY <1>1, Invariant, PTL

-----------------------------------------------------------------------------
(* The list and the requests under way.                                      *)

(* These orders, each once.                                                  *)
Lists(entries, orders) ==
    /\ Ids(entries) = orders
    /\ \A i, j \in DOMAIN entries : entries[i].id = entries[j].id => i = j

PendingLoads == {k \in DOMAIN loads : loads[k].phase # "done"}
PendingPosts == {o \in Orders : post[o] \in {"sent", "created"}}

(* The user's orders, and those whose 201 has reached the page.              *)
Mine == {o \in placed : owner[o] = user}
Heard == {o \in Mine : post[o] = "done"}

PostsInv ==
    /\ user \in Users
    /\ post \in [Orders -> {"none", "sent", "created", "done", "failed"}]
    /\ owner \in [Orders -> Users \cup {None}]
    /\ \A o \in Orders : /\ post[o] = "none" => o \notin placed
                         /\ post[o] \in {"created", "done"} => o \in placed

RenderInv == ~queued => shown = list

(* At most one request is on its way, for the user of the page, and a list   *)
(* that was read is not outdated when it arrives.                            *)
OneRequest ==
    /\ \A o \in Orders : post[o] # "failed"
    /\ \A k, l \in PendingLoads : k = l
    /\ \A o, p \in PendingPosts : o = p
    /\ PendingLoads = {} \/ PendingPosts = {}
    /\ \A o \in PendingPosts : owner[o] = user
    /\ \A k \in PendingLoads :
          loads[k].user = user /\ (loads[k].phase = "read" => loads[k].orders = Mine)

ListedInv == alone => OneRequest /\ (PendingLoads = {} => Lists(list, Heard))

LInv == PostsInv /\ RenderInv /\ ListedInv

LEMMA NoneWaiting == LoadsInv /\ Waiting = 0 => PendingLoads = {} /\ PendingPosts = {}
<1> SUFFICES ASSUME LoadsInv, Waiting = 0 PROVE PendingLoads = {} /\ PendingPosts = {}
    OBVIOUS
<1>1. IsFiniteSet(PendingLoads)
    <2>1. Len(loads) \in Nat /\ DOMAIN loads = 1 .. Len(loads)
        BY LenProperties DEF LoadsInv
    <2>2. IsFiniteSet(1 .. Len(loads))
        BY <2>1, FS_Interval
    <2>3. PendingLoads \in SUBSET (1 .. Len(loads))
        BY <2>1 DEF PendingLoads
    <2>4. QED
        BY <2>2, <2>3, FS_Subset
<1>2. IsFiniteSet(PendingPosts)
    BY OrdersFinite DEF PendingPosts
<1>3. Cardinality(PendingLoads) \in Nat /\ Cardinality(PendingPosts) \in Nat
    BY <1>1, <1>2, FS_CardinalityType
<1>4. Cardinality(PendingLoads) + Cardinality(PendingPosts) = 0
    BY DEF Waiting, PendingLoads, PendingPosts
<1>5. Cardinality(PendingLoads) = 0 /\ Cardinality(PendingPosts) = 0
    BY <1>3, <1>4
<1>6. QED
    BY <1>1, <1>2, <1>5, FS_EmptySet

(* A loaded list has the orders of the answer, each once.                    *)
LEMMA LoadedLists ==
    ASSUME NEW S \in SUBSET Orders
    PROVE  Lists(Loaded(S), S)
<1> DEFINE E == {Entry(o, "NEW") : o \in S}
           n == Cardinality(E)
           f == SetToSeq(E)
<1>1. IsFiniteSet(E)
    <2> DEFINE g == [o \in S |-> Entry(o, "NEW")]
    <2>1. g \in Surjection(S, E)
        BY DEF Surjection
    <2>2. IsFiniteSet(S)
        BY OrdersFinite
    <2> HIDE DEF g, E
    <2>3. QED
        BY <2>1, <2>2, FS_Surjection
<1> HIDE DEF E
<1>2. n \in Nat /\ ExistsBijection(1 .. n, E)
    BY <1>1, FS_CardinalityType
<1>3. f \in [1 .. n -> E] /\ IsInjective(f)
    BY <1>2 DEF SetToSeq, ExistsBijection, Bijection, Injection
<1>4. f \in Injection(1 .. n, E)
    BY <1>3 DEF Injection
<1>5. f \in Surjection(1 .. n, E)
    <2>1. IsFiniteSet(1 .. n) /\ Cardinality(1 .. n) = n
        BY <1>2, FS_Interval
    <2> HIDE DEF n
    <2>2. Cardinality(1 .. n) = Cardinality(E)
        BY <2>1 DEF n
    <2>3. QED
        BY <1>1, <1>4, <2>2, FS_Injection
<1>6. \A e \in E : \E i \in 1 .. n : f[i] = e
    BY <1>5 DEF Surjection
<1> HIDE DEF f, n
<1>7. DOMAIN f = 1 .. n /\ \A i \in 1 .. n : f[i] \in E
    BY <1>3
<1>8. Ids(f) = S
    <2>1. \A e \in E : e.id \in S
        BY DEF E, Entry
    <2>2. \A o \in S : Entry(o, "NEW") \in E /\ Entry(o, "NEW").id = o
        BY DEF E, Entry
    <2>3. \A o \in S : \E i \in DOMAIN f : f[i].id = o
        BY <1>6, <1>7, <2>2
    <2>4. QED
        BY <1>7, <2>1, <2>3 DEF Ids
<1>9. \A i, j \in DOMAIN f : f[i].id = f[j].id => i = j
    <2>1. \A d, e \in E : d.id = e.id => d = e
        BY DEF E, Entry
    <2>2. QED
        BY <1>3, <1>7, <2>1 DEF IsInjective
<1>10. QED
    BY <1>8, <1>9 DEF Lists, Loaded, E, f

(* The list after a 201.                                                     *)
LEMMA CreatedIds ==
    ASSUME ListInv, NEW o \in Orders
    PROVE  Ids(<<Entry(o, "NEW")>> \o list) = Ids(list) \cup {o}
<1> DEFINE new == <<Entry(o, "NEW")>> \o list
           n == Len(list)
<1>1. n \in Nat /\ DOMAIN list = 1 .. n
    BY LenProperties DEF ListInv
<1>2. <<Entry(o, "NEW")>> \in Seq(Honest)
    BY DEF Honest, Entry
<1>3. /\ new \in Seq(Honest) /\ Len(new) = 1 + n
      /\ \A i \in 1 .. 1 + n : new[i] = IF i = 1 THEN Entry(o, "NEW") ELSE list[i - 1]
    BY <1>1, <1>2, ConcatProperties DEF ListInv
<1> HIDE DEF new, n
<1>4. DOMAIN new = 1 .. 1 + n
    BY <1>3, LenProperties
<1>5. \A i \in DOMAIN new : i = 1 \/ i - 1 \in DOMAIN list
    BY <1>1, <1>4
<1>6. new[1].id = o
    BY <1>1, <1>3 DEF Entry
<1>7. \A i \in DOMAIN list : new[i + 1] = list[i] /\ i + 1 \in DOMAIN new
    BY <1>1, <1>3, <1>4
<1>8. \A i \in DOMAIN new : new[i].id \in Ids(list) \cup {o}
    BY <1>1, <1>3, <1>4, <1>5, <1>6 DEF Ids
<1>9. \A x \in Ids(list) \cup {o} : \E i \in DOMAIN new : new[i].id = x
    BY <1>1, <1>4, <1>6, <1>7 DEF Ids
<1>10. QED
    BY <1>8, <1>9 DEF Ids, new

(* ... whose order was not in it.                                            *)
LEMMA CreatedLists ==
    ASSUME ListInv, NEW S, Lists(list, S), NEW o \in Orders, o \notin S
    PROVE  Lists(<<Entry(o, "NEW")>> \o list, S \cup {o})
<1> DEFINE new == <<Entry(o, "NEW")>> \o list
           n == Len(list)
<1>1. n \in Nat /\ DOMAIN list = 1 .. n
    BY LenProperties DEF ListInv
<1>2. <<Entry(o, "NEW")>> \in Seq(Honest)
    BY DEF Honest, Entry
<1>3. /\ new \in Seq(Honest) /\ Len(new) = 1 + n
      /\ \A i \in 1 .. 1 + n : new[i] = IF i = 1 THEN Entry(o, "NEW") ELSE list[i - 1]
    BY <1>1, <1>2, ConcatProperties DEF ListInv
<1> HIDE DEF new, n
<1>4. DOMAIN new = 1 .. 1 + n
    BY <1>3, LenProperties
<1>5. \A i \in DOMAIN new : i = 1 \/ i - 1 \in DOMAIN list
    BY <1>1, <1>4
<1>6. new[1].id = o
    BY <1>1, <1>3 DEF Entry
<1>7. Ids(new) = S \cup {o}
    BY CreatedIds DEF Lists, new
<1>8. \A i, j \in DOMAIN new : new[i].id = new[j].id => i = j
    <2> SUFFICES ASSUME NEW i \in DOMAIN new, NEW j \in DOMAIN new, new[i].id = new[j].id
                 PROVE  i = j
        OBVIOUS
    <2>1. \A k \in DOMAIN list : list[k].id # o
        BY DEF Lists, Ids
    <2>2. CASE i = 1 \/ j = 1
        BY <1>1, <1>3, <1>4, <1>5, <1>6, <2>1, <2>2
    <2>3. CASE i # 1 /\ j # 1
        <3>1. /\ i - 1 \in DOMAIN list /\ j - 1 \in DOMAIN list
              /\ list[i - 1].id = list[j - 1].id
            BY <1>3, <1>4, <1>5, <2>3
        <3>2. i - 1 = j - 1
            BY <3>1 DEF Lists
        <3>3. QED
            BY <1>1, <1>4, <3>2
    <2>4. QED
        BY <2>2, <2>3
<1>9. QED
    BY <1>7, <1>8 DEF Lists, new

(* A status changes no id.                                                   *)
LEMMA UpdatedLists ==
    ASSUME ListInv, NEW S, Lists(list, S), NEW o, NEW status
    PROVE  Lists(Updated(o, status), S)
<1>1. \A i \in DOMAIN list : list[i] \in Honest
    BY LenProperties DEF ListInv
<1>2. /\ DOMAIN Updated(o, status) = DOMAIN list
      /\ \A i \in DOMAIN list : Updated(o, status)[i].id = list[i].id
    BY <1>1 DEF Updated, Honest
<1>3. Ids(Updated(o, status)) = Ids(list)
    BY <1>2 DEF Ids
<1>4. QED
    BY <1>2, <1>3 DEF Lists

(* What the steps of everybody else leave alone.                             *)
Unconcerned ==
    /\ UNCHANGED <<user, loads, post, owner, placed>>
    /\ alone' => alone

LEMMA UnconcernedStep ==
    ASSUME LInv, Unconcerned, list' = list \/ (ListInv /\ \E o, status : list' = Updated(o, status))
    PROVE  PostsInv' /\ ListedInv'
<1>1. PostsInv'
    BY DEF LInv, PostsInv, Unconcerned
<1>2. /\ PendingLoads' = PendingLoads /\ PendingPosts' = PendingPosts
      /\ Mine' = Mine /\ Heard' = Heard
    BY DEF Unconcerned, PendingLoads, PendingPosts, Mine, Heard
<1>3. ASSUME alone' PROVE OneRequest' /\ (PendingLoads' = {} => Lists(list', Heard'))
    <2>1. OneRequest /\ (PendingLoads = {} => Lists(list, Heard))
        BY <1>3 DEF LInv, ListedInv, Unconcerned
    <2>2. OneRequest'
        BY <1>2, <2>1 DEF OneRequest, Unconcerned
    <2>3. PendingLoads = {} => Lists(list', Heard)
        BY <2>1, UpdatedLists
    <2>4. QED
        BY <1>2, <2>2, <2>3
<1>4. ListedInv'
    BY <1>3 DEF ListedInv
<1>5. QED
    BY <1>1, <1>4

LEMMA ListedStep == IInv /\ LInv /\ [Next]_vars => LInv'
<1> SUFFICES ASSUME IInv, LInv, [Next]_vars PROVE LInv'
    OBVIOUS
<1>1. PostsInv /\ RenderInv /\ ListedInv /\ ListInv /\ LoadsInv
    BY DEF LInv, IInv
<1>2. /\ user \in Users
      /\ post \in [Orders -> {"none", "sent", "created", "done", "failed"}]
      /\ owner \in [Orders -> Users \cup {None}]
      /\ placed \subseteq Orders
      /\ Len(loads) \in Nat /\ DOMAIN loads = 1 .. Len(loads)
      /\ \A k \in DOMAIN loads : loads[k] \in Loads
    BY <1>1, LenProperties DEF PostsInv, LoadsInv
<1>3. ASSUME Waiting = 0, alone
      PROVE  PendingLoads = {} /\ PendingPosts = {} /\ OneRequest /\ Lists(list, Heard)
    BY <1>1, <1>3, NoneWaiting DEF ListedInv
<1>4. ASSUME Unconcerned, list' = list, RenderInv' PROVE LInv'
    BY <1>1, <1>4, UnconcernedStep DEF LInv
<1>5. CASE Rendering
    BY <1>1, <1>4, <1>5
       DEF Rendering, Render, RenderInv, Unconcerned
<1>6. ASSUME NEW u \in Users, Editing(u) PROVE LInv'
    <2>1. /\ loads' = Append(loads, Load(u)) /\ user' = u /\ alone' = (alone /\ Waiting = 0)
          /\ UNCHANGED <<post, owner, placed, list, shown, queued>>
        BY <1>6 DEF Editing, EditUser
    <2>2. PostsInv' /\ RenderInv'
        BY <1>1, <2>1 DEF PostsInv, RenderInv
    <2>3. ASSUME alone' PROVE OneRequest' /\ PendingLoads' # {}
        <3>1. PendingLoads = {} /\ PendingPosts = {} /\ OneRequest
            BY <1>3, <2>1, <2>3
        <3>2. /\ DOMAIN loads' = 1 .. Len(loads) + 1
              /\ loads'[Len(loads) + 1] = Load(u)
              /\ \A k \in 1 .. Len(loads) : loads'[k] = loads[k]
            <4>1. Load(u) \in Loads
                BY DEF Load, Loads
            <4>2. loads' \in Seq(Loads) /\ Len(loads') = Len(loads) + 1
                BY <1>1, <2>1, <4>1, AppendProperties DEF LoadsInv
            <4>3. DOMAIN loads' = 1 .. Len(loads')
                BY <4>2, LenProperties
            <4>4. QED
                BY <1>1, <2>1, <4>1, <4>2, <4>3, AppendProperties DEF LoadsInv
        <3>3. PendingLoads' = {Len(loads) + 1}
            BY <1>2, <3>1, <3>2 DEF PendingLoads, Load
        <3>4. PendingPosts' = {}
            BY <2>1, <3>1 DEF PendingPosts
        <3>5. QED
            BY <2>1, <3>1, <3>2, <3>3, <3>4 DEF OneRequest, Load
    <2>4. QED
        BY <2>2, <2>3 DEF LInv, ListedInv
<1>7. ASSUME NEW k \in DOMAIN loads, Reading(k) PROVE LInv'
    <2>1. /\ loads[k].phase = "sent"
          /\ UNCHANGED <<user, post, owner, placed, list, shown, queued, alone>>
        BY <1>7 DEF Reading, LoadReads
    <2>2. /\ DOMAIN loads' = DOMAIN loads
          /\ loads'[k].phase = "read" /\ loads'[k].user = loads[k].user
          /\ loads'[k].orders = {o \in placed : owner[o] = loads[k].user}
          /\ \A l \in DOMAIN loads \ {k} : loads'[l] = loads[l]
        BY <1>2, <1>7 DEF Reading, LoadReads, Loads
    <2>3. /\ PendingLoads' = PendingLoads /\ PendingPosts' = PendingPosts /\ k \in PendingLoads
          /\ Mine' = Mine
        BY <2>1, <2>2 DEF PendingLoads, PendingPosts, Mine
    <2>4. ASSUME alone PROVE OneRequest'
        <3>1. OneRequest /\ loads[k].user = user
            BY <1>1, <2>3, <2>4 DEF ListedInv, OneRequest
        <3>2. loads'[k].orders = Mine
            BY <2>2, <3>1 DEF Mine
        <3>3. QED
            BY <2>1, <2>2, <2>3, <3>1, <3>2 DEF OneRequest
    <2>5. PostsInv' /\ RenderInv'
        BY <1>1, <2>1 DEF PostsInv, RenderInv
    <2>6. QED
        BY <2>1, <2>3, <2>4, <2>5 DEF LInv, ListedInv
<1>8. ASSUME NEW k \in DOMAIN loads, LoadArrives(k), UNCHANGED <<serverVars, historyVars>>
      PROVE  LInv'
    <2>1. /\ loads[k].phase = "read" /\ list' = Loaded(loads[k].orders) /\ queued' = TRUE
          /\ UNCHANGED <<user, post, owner, placed, alone>>
        BY <1>8 DEF LoadArrives
    <2>2. /\ DOMAIN loads' = DOMAIN loads /\ loads'[k].phase = "done"
          /\ \A l \in DOMAIN loads \ {k} : loads'[l] = loads[l]
        BY <1>2, <1>8 DEF LoadArrives, Loads
    <2>3. k \in PendingLoads
        BY <2>1 DEF PendingLoads
    <2>4. ASSUME alone PROVE OneRequest' /\ Lists(list', Heard')
        <3>1. OneRequest
            BY <1>1, <2>4 DEF ListedInv
        <3>2. PendingPosts = {} /\ PendingPosts' = {} /\ PendingLoads' = {}
            BY <2>1, <2>2, <2>3, <3>1 DEF OneRequest, PendingLoads, PendingPosts
        <3>3. OneRequest'
            BY <2>1, <3>1, <3>2 DEF OneRequest
        <3>4. loads[k].orders = Mine
            BY <2>1, <2>3, <3>1 DEF OneRequest
        <3>5. Heard' = Mine
            <4>1. \A o \in Mine : post[o] = "done"
                BY <1>1, <1>2, <3>1, <3>2 DEF Mine, OneRequest, PendingPosts, PostsInv
            <4>2. QED
                BY <2>1, <4>1 DEF Heard, Mine
        <3>6. Mine \in SUBSET Orders
            BY <1>2 DEF Mine
        <3>7. QED
            BY <2>1, <3>3, <3>4, <3>5, <3>6, LoadedLists
    <2>5. PostsInv' /\ RenderInv'
        BY <1>1, <2>1 DEF PostsInv, RenderInv
    <2>6. QED
        BY <2>1, <2>4, <2>5 DEF LInv, ListedInv
<1>9. ASSUME NEW k \in DOMAIN loads, LoadFails(k), alone' = FALSE,
             UNCHANGED <<serverVars, disowned>>
      PROVE  LInv'
    BY <1>1, <1>9 DEF LoadFails, LInv, PostsInv, RenderInv, ListedInv
<1>10. ASSUME NEW o \in Orders, Clicking(o) PROVE LInv'
    <2>1. /\ post[o] = "none" /\ post' = [post EXCEPT ![o] = "sent"]
          /\ owner' = [owner EXCEPT ![o] = user]
          /\ alone' = (alone /\ Waiting = 0)
          /\ UNCHANGED <<user, loads, placed, list, shown, queued>>
        <3>1. o \in 1 .. o
            BY PageAssumption DEF Orders
        <3>2. QED
            BY <1>10, <3>1 DEF Clicking, Click
    <2>2. /\ o \notin placed
          /\ \A p \in Orders : post'[p] = IF p = o THEN "sent" ELSE post[p]
          /\ \A p \in Orders : owner'[p] = IF p = o THEN user ELSE owner[p]
        BY <1>1, <1>2, <2>1 DEF PostsInv
    <2>3. PostsInv' /\ RenderInv'
        BY <1>1, <1>2, <2>1, <2>2 DEF PostsInv, RenderInv
    <2>4. ASSUME alone' PROVE OneRequest' /\ Lists(list', Heard')
        <3>1. PendingLoads = {} /\ PendingPosts = {} /\ OneRequest /\ Lists(list, Heard)
            BY <1>3, <2>1, <2>4
        <3>2. PendingLoads' = {} /\ PendingPosts' = {o}
            BY <2>1, <2>2, <3>1 DEF PendingLoads, PendingPosts
        <3>3. OneRequest'
            BY <2>1, <2>2, <3>1, <3>2 DEF OneRequest
        <3>4. Heard' = Heard
            BY <1>2, <2>1, <2>2 DEF Heard, Mine
        <3>5. QED
            BY <2>1, <3>1, <3>3, <3>4
    <2>5. QED
        BY <2>3, <2>4 DEF LInv, ListedInv
<1>11. ASSUME NEW o \in Orders, Placing(o) PROVE LInv'
    <2>1. /\ post[o] # "none" /\ o \notin placed /\ placed' = placed \cup {o}
          /\ UNCHANGED <<user, loads, post, owner, list, shown, queued, alone>>
        BY <1>11 DEF Placing, Placement!Place
    <2>2. PostsInv' /\ RenderInv'
        BY <1>1, <2>1 DEF PostsInv, RenderInv
    <2>3. ASSUME alone PROVE OneRequest' /\ Heard' = Heard /\ PendingLoads' = PendingLoads
        <3>1. OneRequest /\ post[o] = "sent"
            BY <1>1, <1>2, <2>1, <2>3 DEF ListedInv, OneRequest, PostsInv
        <3>2. /\ PendingLoads' = PendingLoads /\ PendingPosts' = PendingPosts
              /\ PendingLoads = {}
            BY <2>1, <3>1 DEF PendingLoads, PendingPosts, OneRequest
        <3>3. QED
            BY <2>1, <3>1, <3>2 DEF OneRequest, Heard, Mine
    <2>4. QED
        BY <1>1, <2>1, <2>2, <2>3 DEF LInv, ListedInv
<1>12. ASSUME NEW o \in Orders, Confirming(o) PROVE LInv'
    <2>1. /\ post[o] = "sent" /\ post' = [post EXCEPT ![o] = "created"] /\ o \in placed
          /\ UNCHANGED <<user, loads, owner, placed, list, shown, queued, alone>>
        BY <1>12 DEF Confirming, PostAnswered, Placement!Confirm
    <2>2. \A p \in Orders : post'[p] = IF p = o THEN "created" ELSE post[p]
        BY <1>2, <2>1
    <2>3. PostsInv' /\ RenderInv'
        BY <1>1, <1>2, <2>1, <2>2 DEF PostsInv, RenderInv
    <2>4. /\ PendingLoads' = PendingLoads /\ PendingPosts' = PendingPosts
          /\ Mine' = Mine /\ Heard' = Heard
        BY <1>2, <2>1, <2>2 DEF PendingLoads, PendingPosts, Mine, Heard
    <2>5. ASSUME alone PROVE OneRequest'
        BY <1>1, <2>1, <2>2, <2>4, <2>5 DEF ListedInv, OneRequest
    <2>6. QED
        BY <1>1, <2>1, <2>3, <2>4, <2>5 DEF LInv, ListedInv
<1>13. ASSUME NEW o \in Orders, PostArrives(o), UNCHANGED <<serverVars, historyVars>> PROVE LInv'
    <2>1. /\ post[o] = "created" /\ post' = [post EXCEPT ![o] = "done"]
          /\ list' = <<Entry(o, "NEW")>> \o list /\ queued' = TRUE
          /\ UNCHANGED <<user, loads, owner, placed, alone>>
        BY <1>13 DEF PostArrives
    <2>2. o \in placed /\ \A p \in Orders : post'[p] = IF p = o THEN "done" ELSE post[p]
        BY <1>1, <1>2, <2>1 DEF PostsInv
    <2>3. PostsInv' /\ RenderInv'
        BY <1>1, <1>2, <2>1, <2>2 DEF PostsInv, RenderInv
    <2>4. ASSUME alone PROVE OneRequest' /\ Lists(list', Heard')
        <3>1. OneRequest /\ o \in PendingPosts /\ PendingLoads = {} /\ Lists(list, Heard)
            BY <1>1, <2>1, <2>4 DEF ListedInv, OneRequest, PendingPosts
        <3>2. PendingLoads' = {} /\ PendingPosts' = {}
            BY <2>1, <2>2, <3>1 DEF PendingLoads, PendingPosts, OneRequest
        <3>3. OneRequest'
            BY <2>1, <2>2, <3>1, <3>2 DEF OneRequest
        <3>4. o \notin Heard /\ Heard' = Heard \cup {o}
            BY <1>2, <2>1, <2>2, <3>1 DEF Heard, Mine, OneRequest
        <3>5. QED
            BY <1>1, <2>1, <3>1, <3>3, <3>4, CreatedLists
    <2>5. QED
        BY <2>1, <2>3, <2>4 DEF LInv, ListedInv
<1>14. ASSUME NEW o \in Orders, PostFails(o), alone' = FALSE, UNCHANGED <<serverVars, disowned>>
       PROVE  LInv'
    <2>1. PostsInv'
        <3>1. /\ post[o] = "sent" /\ post' = [post EXCEPT ![o] = "failed"]
              /\ UNCHANGED <<user, owner, placed>>
            BY <1>14 DEF PostFails
        <3>2. \A p \in Orders : post'[p] = IF p = o THEN "failed" ELSE post[p]
            BY <1>2, <3>1
        <3>3. QED
            BY <1>1, <1>2, <3>1, <3>2 DEF PostsInv
    <2>2. RenderInv' /\ ListedInv'
        BY <1>1, <1>14 DEF PostFails, RenderInv, ListedInv
    <2>3. QED
        BY <2>1, <2>2 DEF LInv
<1>15. ASSUME NEW s \in Sockets, Hearing(s) PROVE LInv'
    <2>1. /\ \E o, status : list' = Updated(o, status)
          /\ queued' = TRUE /\ Unconcerned
        BY <1>15 DEF Hearing, MessageArrives, Unconcerned
    <2>2. RenderInv'
        BY <2>1 DEF RenderInv
    <2>3. QED
        BY <1>1, <2>1, <2>2, UnconcernedStep DEF LInv
<1>16. CASE UNCHANGED <<user, list, shown, queued, loads, post, owner, placed, alone>>
    BY <1>1, <1>4, <1>16 DEF Unconcerned, RenderInv
<1>17. \/ UNCHANGED <<user, list, shown, queued, loads, post, owner, placed, alone>>
       \/ Rendering
       \/ \E u \in Users : Editing(u)
       \/ \E k \in DOMAIN loads : Reading(k) \/ Loading(k)
       \/ \E o \in Orders : Clicking(o) \/ Placing(o) \/ Confirming(o) \/ Creating(o)
       \/ \E s \in Sockets : Hearing(s)
    BY DEF Next, OrderStep, Requesting, Placement!RequestPayment, Closed, Closes, Deciding,
           Notifying, Opening, Opens, Broken, Breaks
<1>18. QED
    BY <1>5, <1>6, <1>7, <1>8, <1>9, <1>10, <1>11, <1>12, <1>13, <1>14, <1>15, <1>16, <1>17
       DEF Loading, Creating

LEMMA ListedInit == Init => LInv
<1> SUFFICES ASSUME Init PROVE LInv
    OBVIOUS
<1> USE DEF Init, PageInit, Placement!PlacementInit
<1>1. PostsInv
    BY PageAssumption DEF PostsInv
<1>2. PendingLoads = {1} /\ PendingPosts = {}
    BY DEF PendingLoads, PendingPosts, Load
<1>3. OneRequest
    BY <1>2 DEF OneRequest, Load
<1>4. QED
    BY <1>1, <1>2, <1>3 DEF LInv, RenderInv, ListedInv

(* While no request overtakes another one and none fails, the rendered page  *)
(* shows the orders of its user, each once, whatever is pushed meanwhile.    *)
THEOREM ListHolds == Spec => []ListIsRight
<1>1. IInv /\ LInv => ListIsRight
    <2> SUFFICES ASSUME IInv, LInv, alone, Waiting = 0, ~queued
                 PROVE  /\ Ids(shown) = {o \in placed : owner[o] = user}
                        /\ Len(shown) = Cardinality(Ids(shown))
        BY DEF ListIsRight
    <2>1. PendingPosts = {} /\ OneRequest /\ Lists(list, Heard) /\ shown = list
        BY NoneWaiting DEF IInv, LInv, RenderInv, ListedInv
    <2>2. Heard = Mine
        BY <2>1 DEF Heard, Mine, OneRequest, PendingPosts, LInv, PostsInv, IInv, LoadsInv
    <2>3. Len(list) = Cardinality(Ids(list))
        <3> DEFINE n == Len(list)
                   f == [i \in 1 .. n |-> list[i].id]
        <3>1. n \in Nat /\ DOMAIN list = 1 .. n
            BY LenProperties DEF IInv, ListInv
        <3> HIDE DEF n
        <3>2. IsFiniteSet(1 .. n) /\ Cardinality(1 .. n) = n
            BY <3>1, FS_Interval
        <3>3. f \in Bijection(1 .. n, Ids(list))
            BY <2>1, <3>1 DEF Lists, Ids, Bijection, Injection, Surjection, IsInjective
        <3>4. Cardinality(Ids(list)) = Cardinality(1 .. n)
            BY <3>2, <3>3, FS_Bijection DEF ExistsBijection
        <3>5. QED
            BY <3>2, <3>4 DEF n
    <2>4. QED
        BY <2>1, <2>2, <2>3 DEF Lists, Mine
<1>2. IInv /\ LInv /\ [Next]_vars => LInv'
    BY ListedStep
<1>3. QED
    BY <1>1, <1>2, Invariant, ListedInit, PTL DEF Spec

-----------------------------------------------------------------------------
(* The socket map and the connections.                                       *)

LEMMA InjectionExists ==
    ASSUME NEW A, NEW B, IsFiniteSet(A), IsFiniteSet(B), Cardinality(A) <= Cardinality(B)
    PROVE  \E f \in Injection(A, B) : TRUE
<1> DEFINE n == Cardinality(A)
           m == Cardinality(B)
<1>1. /\ n \in Nat /\ m \in Nat
      /\ ExistsBijection(1 .. n, A) /\ ExistsBijection(1 .. m, B)
    BY FS_CardinalityType
<1>2. n <= m
    OBVIOUS
<1> HIDE DEF n, m
<1>3. PICK f \in [1 .. n -> A] : \A a \in A : \E i \in 1 .. n : f[i] = a
    BY <1>1 DEF ExistsBijection, Bijection, Surjection
<1>4. PICK g \in [1 .. m -> B] : \A i, j \in 1 .. m : g[i] = g[j] => i = j
    BY <1>1 DEF ExistsBijection, Bijection, Injection, IsInjective
<1> DEFINE at(a) == CHOOSE i \in 1 .. n : f[i] = a
           h == [a \in A |-> g[at(a)]]
<1>5. \A a \in A : at(a) \in 1 .. n /\ f[at(a)] = a
    BY <1>3
<1> HIDE DEF at
<1>6. \A a \in A : at(a) \in 1 .. m
    BY <1>1, <1>2, <1>5
<1>7. h \in [A -> B]
    BY <1>4, <1>6
<1>8. \A a, b \in A : h[a] = h[b] => a = b
    BY <1>4, <1>5, <1>6
<1>9. h \in Injection(A, B)
    BY <1>7, <1>8 DEF Injection, IsInjective
<1>10. QED
    BY <1>9

(* What the effect does to the map and the connections.                      *)
LEMMA EffectDoes ==
    ASSUME NEW entries, Ids(entries) \subseteq Orders, NEW map, NEW closed,
           Effect(entries, map, closed)
    PROVE  LET opened == Unwatched(entries, map)
               gone == closed \cup Dropped(entries, map)
           IN \E f \in [opened -> Free] :
                /\ \A o, p \in opened : f[o] = f[p] => o = p
                /\ sockets' = [o \in Orders |-> IF o \in opened THEN f[o]
                                                ELSE IF o \in Ids(entries) THEN map[o] ELSE None]
                /\ \A s \in Sockets :
                      conn'[s] = IF s \in gone THEN Over
                                 ELSE IF \E o \in opened : f[o] = s
                                 THEN [order |-> CHOOSE o \in opened : f[o] = s, state |-> "connecting"]
                                 ELSE conn[s]
                /\ conn' = [s \in Sockets |-> conn'[s]]
                /\ \A o \in Orders :
                      closing'[o] = closing[o] + Cardinality({s \in gone : conn[s].order = o})
                /\ closing' = [o \in Orders |-> closing'[o]]
<1> DEFINE opened == Unwatched(entries, map)
           fresh == CHOOSE f \in Injection(opened, Free) : TRUE
<1>1. IsFiniteSet(opened)
    <2>1. opened \in SUBSET Orders
        BY DEF Unwatched
    <2>2. QED
        BY <2>1, OrdersFinite
<1>2. IsFiniteSet(Free)
    BY PageAssumption, FS_Subset DEF Free
<1>3. Cardinality(opened) <= Cardinality(Free)
    BY DEF Effect
<1>4. fresh \in Injection(opened, Free)
    BY <1>1, <1>2, <1>3, InjectionExists
<1>5. fresh \in [opened -> Free] /\ \A o, p \in opened : fresh[o] = fresh[p] => o = p
    BY <1>4 DEF Injection, IsInjective
<1>6. QED
    BY <1>5 DEF Effect, Range

Live(s) == conn[s].state # "over"

SocketsInv ==
    /\ sockets \in [Orders -> Sockets \cup {None}]
    /\ conn \in [Sockets -> [order : Orders \cup {None}, state : {"connecting", "open", "over"}]]
    /\ Ids(shown) \subseteq Orders
    /\ \A o \in Orders : sockets[o] # None => Live(sockets[o]) /\ conn[sockets[o]].order = o
    /\ \A s \in Sockets :
          \/ conn[s] = Over
          \/ /\ Live(s) /\ conn[s].order \in Orders
             /\ sockets[conn[s].order] = s \/ s \in disowned

(* The numbers behind Upsets, which never decreases.                         *)
CountsInv ==
    /\ closing \in [Orders -> Nat]
    /\ breaks \in Nat
    /\ Len(loads) >= 1

(* An order of the page that is in no later list: the one list was read      *)
(* before the order was placed, and arrived after its 201.                   *)
Gone(o) == post[o] = "done" /\ \A k \in DOMAIN loads : loads[k].phase = "done"

(* Without upsets there is one list, and until it arrives the page knows the *)
(* orders it has a 201 for; an order the list takes away does not come back. *)
UndisturbedInv ==
    Upsets = 0 =>
        /\ \A o \in Orders : sockets[o] # None <=> o \in Ids(shown)
        /\ \A o \in Ids(shown) \ Ids(list) : Gone(o)
        /\ \A o \in Orders : closing[o] > 0 => o \notin Ids(shown) \cup Ids(list) /\ Gone(o)
        /\ (\E k \in DOMAIN loads : loads[k].phase # "done") =>
              \A o \in Ids(shown) \cup Ids(list) : post[o] = "done"

SInv == SocketsInv /\ CountsInv /\ UndisturbedInv

(* The effect on a map whose sockets were closed, or not, leaves each order  *)
(* it was given with a socket, each live socket with its owner, and the      *)
(* close events to come to orders it was not given.                          *)
LEMMA EffectKeeps ==
    ASSUME SocketsInv, CountsInv,
           NEW entries, Ids(entries) \subseteq Orders,
           NEW map \in [Orders -> Sockets \cup {None}],
           NEW closed \in SUBSET Mapped(sockets),
           \A o \in Orders : map[o] # None => map[o] = sockets[o] /\ map[o] \notin closed,
           \A o \in Orders : sockets[o] # None /\ map[o] = None => sockets[o] \in closed,
           Effect(entries, map, closed), disowned' = disowned \ Ended, Ids(shown)' \subseteq Orders
    PROVE  /\ SocketsInv'
           /\ closing' \in [Orders -> Nat]
           /\ \A o \in Orders : sockets'[o] # None <=> o \in Ids(entries)
           /\ closed = {} =>
                 \A o \in Orders : closing'[o] > 0 =>
                    closing[o] > 0 \/ (o \notin Ids(entries) /\ sockets[o] # None)
<1> DEFINE opened == Unwatched(entries, map)
           gone == closed \cup Dropped(entries, map)
<1>1. PICK f \in [opened -> Free] :
         /\ \A o, p \in opened : f[o] = f[p] => o = p
         /\ sockets' = [o \in Orders |-> IF o \in opened THEN f[o]
                                         ELSE IF o \in Ids(entries) THEN map[o] ELSE None]
         /\ \A s \in Sockets :
               conn'[s] = IF s \in gone THEN Over
                          ELSE IF \E o \in opened : f[o] = s
                          THEN [order |-> CHOOSE o \in opened : f[o] = s, state |-> "connecting"]
                          ELSE conn[s]
         /\ conn' = [s \in Sockets |-> conn'[s]]
         /\ \A o \in Orders :
               closing'[o] = closing[o] + Cardinality({s \in gone : conn[s].order = o})
         /\ closing' = [o \in Orders |-> closing'[o]]
    BY EffectDoes
<1>2. /\ opened = {o \in Ids(entries) : map[o] = None}
      /\ \A s \in gone : \E o \in Orders : s = sockets[o] /\ s # None /\ (map[o] # None => o \notin Ids(entries))
    BY DEF Unwatched, Dropped, Mapped
<1>3. /\ sockets \in [Orders -> Sockets \cup {None}]
      /\ conn \in [Sockets -> [order : Orders \cup {None}, state : {"connecting", "open", "over"}]]
      /\ \A o \in Orders : sockets[o] # None => Live(sockets[o]) /\ conn[sockets[o]].order = o
      /\ \A s \in Sockets :
            \/ conn[s] = Over
            \/ /\ Live(s) /\ conn[s].order \in Orders
               /\ sockets[conn[s].order] = s \/ s \in disowned
    BY DEF SocketsInv
<1>4. \A o \in opened : f[o] \in Sockets /\ conn[f[o]] = Over /\ f[o] # None /\ f[o] \notin gone
    BY <1>1, <1>2, <1>3, PageAssumption DEF Free, Live, Over
<1>5. \A o \in Ids(entries) \ opened :
         map[o] # None /\ map[o] = sockets[o] /\ sockets[o] \in Sockets \ gone
    BY <1>2, <1>3
<1>6. \A o \in Orders : sockets'[o] = IF o \in opened THEN f[o]
                                      ELSE IF o \in Ids(entries) THEN map[o] ELSE None
    BY <1>1
<1>7. \A o \in Orders : sockets'[o] # None <=> o \in Ids(entries)
    BY <1>2, <1>4, <1>5, <1>6
<1> DEFINE chosen(s) == CHOOSE o \in opened : f[o] = s
<1>8. \A o \in opened : chosen(f[o]) = o
    BY <1>1
<1>9. \A s \in Sockets : conn'[s] = IF s \in gone THEN Over
                          ELSE IF \E o \in opened : f[o] = s
                          THEN [order |-> chosen(s), state |-> "connecting"]
                          ELSE conn[s]
    BY <1>1
<1> HIDE DEF chosen, opened, gone
<1>10. \A o \in opened : conn'[f[o]] = [order |-> o, state |-> "connecting"]
    BY <1>4, <1>8, <1>9
<1>11. \A s \in Sockets : \/ s \in gone /\ conn'[s] = Over
                          \/ \E o \in opened : s = f[o] /\ conn'[s] = [order |-> o, state |-> "connecting"]
                          \/ s \notin gone /\ (\A o \in opened : f[o] # s) /\ conn'[s] = conn[s]
    <2> TAKE s \in Sockets
    <2>1. CASE s \in gone
        BY <1>9, <2>1
    <2>2. ASSUME s \notin gone, NEW o \in opened, f[o] = s
          PROVE  conn'[s] = [order |-> o, state |-> "connecting"]
        BY <1>10, <2>2
    <2>3. ASSUME s \notin gone, \A o \in opened : f[o] # s
          PROVE  conn'[s] = conn[s]
        BY <1>9, <2>3
    <2>4. QED
        BY <2>1, <2>2, <2>3
<1>12. opened \subseteq Orders
    BY <1>2
<1>13. conn' \in [Sockets -> [order : Orders \cup {None}, state : {"connecting", "open", "over"}]]
    <2>1. \A s \in Sockets : conn'[s] \in [order : Orders \cup {None}, state : {"connecting", "open", "over"}]
        <3> TAKE s \in Sockets
        <3>1. CASE conn'[s] = Over
            BY <3>1 DEF Over
        <3>2. ASSUME NEW o \in opened, conn'[s] = [order |-> o, state |-> "connecting"]
              PROVE  conn'[s] \in [order : Orders \cup {None}, state : {"connecting", "open", "over"}]
            BY <1>12, <3>2
        <3>3. CASE conn'[s] = conn[s]
            BY <1>3, <3>3
        <3>4. QED
            BY <1>11, <3>1, <3>2, <3>3
    <2>2. QED
        BY <1>1, <2>1
<1>14. sockets' \in [Orders -> Sockets \cup {None}]
    <2>1. \A o \in Orders : sockets'[o] \in Sockets \cup {None}
        BY <1>4, <1>6
    <2>2. QED
        BY <1>1, <2>1
<1>15. \A o \in Orders : sockets'[o] # None =>
         conn'[sockets'[o]].state # "over" /\ conn'[sockets'[o]].order = o
    <2> SUFFICES ASSUME NEW o \in Orders, sockets'[o] # None
                 PROVE  conn'[sockets'[o]].state # "over" /\ conn'[sockets'[o]].order = o
        OBVIOUS
    <2>1. CASE o \in opened
        <3>1. conn'[sockets'[o]] = [order |-> o, state |-> "connecting"]
            BY <1>6, <1>10, <2>1
        <3>2. QED
            BY <3>1
    <2>2. CASE o \notin opened
        <3>1. sockets'[o] = sockets[o] /\ sockets[o] \in Sockets \ gone
            BY <1>5, <1>6, <1>7, <2>2
        <3>2. Live(sockets[o]) /\ conn[sockets[o]].order = o
            BY <1>3, <3>1, PageAssumption
        <3>3. \A p \in opened : f[p] # sockets[o]
            BY <1>4, <3>2 DEF Live, Over
        <3>4. conn'[sockets[o]] = conn[sockets[o]]
            BY <1>11, <3>1, <3>3
        <3>5. QED
            BY <3>1, <3>2, <3>4 DEF Live
    <2>3. QED
        BY <2>1, <2>2
<1>16. ASSUME NEW s \in Sockets, conn'[s] # Over
       PROVE  /\ conn'[s].state # "over" /\ conn'[s].order \in Orders
              /\ sockets'[conn'[s].order] = s \/ s \in disowned'
    <2>1. CASE \E o \in opened : s = f[o] /\ conn'[s] = [order |-> o, state |-> "connecting"]
        BY <1>6, <1>12, <2>1
    <2>2. CASE s \notin gone /\ conn'[s] = conn[s]
        <3>1. Live(s) /\ conn[s].order \in Orders /\ (sockets[conn[s].order] = s \/ s \in disowned)
            BY <1>3, <1>16, <2>2
        <3>2. CASE s \in disowned
            BY <1>16, <2>2, <3>1, <3>2 DEF Ended, Live
        <3>3. CASE sockets[conn[s].order] = s
            <4> DEFINE o == conn[s].order
            <4>1. o \in Orders /\ sockets[o] # None
                BY <3>1, <3>3, PageAssumption
            <4>2. map[o] # None
                BY <2>2, <3>3, <4>1 DEF gone
            <4>3. o \in Ids(entries)
                BY <2>2, <3>3, <4>1, <4>2 DEF gone, Dropped
            <4>4. o \notin opened /\ map[o] = s
                BY <1>2, <3>3, <4>1, <4>2
            <4>5. QED
                BY <1>6, <2>2, <3>1, <4>1, <4>3, <4>4 DEF Live
        <3>4. QED
            BY <3>1, <3>2, <3>3
    <2>3. QED
        BY <1>11, <1>16, <2>1, <2>2
<1>17. SocketsInv'
    BY <1>13, <1>14, <1>15, <1>16 DEF SocketsInv, Live
<1> DEFINE count(o) == Cardinality({s \in gone : conn[s].order = o})
<1>18. \A o \in Orders : count(o) \in Nat /\ (count(o) > 0 => \E s \in gone : conn[s].order = o)
    <2> TAKE o \in Orders
    <2>1. gone \subseteq Sockets
        BY <1>2, <1>3 DEF gone
    <2> DEFINE S == {s \in gone : conn[s].order = o}
    <2>2. IsFiniteSet(S)
        BY <2>1, PageAssumption, FS_Subset
    <2> HIDE DEF S
    <2>3. Cardinality(S) \in Nat /\ (Cardinality(S) > 0 => S # {})
        BY <2>2, FS_CardinalityType, FS_EmptySet
    <2>4. QED
        BY <2>3 DEF S
<1>19. \A o \in Orders : closing'[o] = closing[o] + count(o)
    BY <1>1
<1> HIDE DEF count
<1>20. closing' \in [Orders -> Nat]
    <2>1. \A o \in Orders : closing'[o] \in Nat
        BY <1>18, <1>19 DEF CountsInv
    <2>2. QED
        BY <1>1, <2>1
<1>21. ASSUME closed = {}, NEW o \in Orders, closing'[o] > 0, ~(closing[o] > 0)
       PROVE  o \notin Ids(entries) /\ sockets[o] # None
    <2>1. closing[o] \in Nat /\ closing'[o] = closing[o] + count(o) /\ count(o) \in Nat
        BY <1>18, <1>19 DEF CountsInv
    <2>2. count(o) > 0
        BY <1>21, <2>1
    <2>3. PICK s \in gone : conn[s].order = o
        BY <1>18, <2>2
    <2>4. PICK p \in Orders : s = sockets[p] /\ s # None /\ p \notin Ids(entries)
        BY <1>21 DEF gone, Dropped
    <2>5. p = o
        BY <1>3, <2>3, <2>4
    <2>6. QED
        BY <2>4, <2>5
<1>22. QED
    BY <1>7, <1>17, <1>20, <1>21

LEMMA ListTyped ==
    ASSUME NEW H, \A entry \in H : entry.id \in Orders, NEW l \in Seq(H)
    PROVE  Ids(l) \subseteq Orders
BY LenProperties DEF Ids

LEMMA HonestTyped == \A entry \in Honest : entry.id \in Orders
BY DEF Honest

(* Steps that neither connect nor close anything, and take no order from the *)
(* list: answers stay and no list is asked for.                              *)
Settling ==
    /\ UNCHANGED <<shown, sockets, conn, closing, breaks, disowned>>
    /\ \A o \in Orders : post[o] = "done" => post'[o] = "done"
    /\ DOMAIN loads' = DOMAIN loads
    /\ \A k \in DOMAIN loads : loads[k].phase = "done" => loads'[k].phase = "done"

LEMMA SettlingStep ==
    ASSUME SInv, LoadsInv, LoadsInv', ListInv, Settling
    PROVE  /\ SocketsInv' /\ CountsInv' /\ Upsets' = Upsets
           /\ Ids(list)' = Ids(list) => UndisturbedInv'
<1>1. SocketsInv'
    BY DEF SInv, SocketsInv, Settling, Live
<1>2. Len(loads') = Len(loads) /\ Len(loads) \in Nat
    <2>1. /\ Len(loads) \in Nat /\ DOMAIN loads = 1 .. Len(loads)
          /\ Len(loads') \in Nat /\ DOMAIN loads' = 1 .. Len(loads')
        BY LenProperties DEF LoadsInv
    <2>2. QED
        BY <2>1 DEF Settling
<1>3. CountsInv'
    BY <1>2 DEF SInv, CountsInv, Settling
<1>4. Upsets' = Upsets
    BY <1>2 DEF Upsets, Settling
<1>5. ASSUME Ids(list)' = Ids(list), Upsets' = 0
      PROVE  /\ \A o \in Orders : sockets'[o] # None <=> o \in Ids(shown)'
             /\ \A o \in Ids(shown)' \ Ids(list)' : Gone(o)'
             /\ \A o \in Orders : closing'[o] > 0 => o \notin Ids(shown)' \cup Ids(list)' /\ Gone(o)'
             /\ (\E k \in DOMAIN loads' : loads'[k].phase # "done") =>
                   \A o \in Ids(shown)' \cup Ids(list)' : post'[o] = "done"
    <2>1. Ids(shown)' = Ids(shown) /\ Ids(shown) \subseteq Orders
        BY DEF Settling, SInv, SocketsInv
    <2>2. \A o \in Orders : Gone(o) => Gone(o)'
        BY DEF Gone, Settling
    <2>3. /\ \A o \in Orders : sockets[o] # None <=> o \in Ids(shown)
          /\ \A o \in Ids(shown) \ Ids(list) : Gone(o)
          /\ \A o \in Orders : closing[o] > 0 => o \notin Ids(shown) \cup Ids(list) /\ Gone(o)
          /\ (\E k \in DOMAIN loads : loads[k].phase # "done") =>
                \A o \in Ids(shown) \cup Ids(list) : post[o] = "done"
        BY <1>4, <1>5 DEF SInv, UndisturbedInv
    <2>4. UNCHANGED <<sockets, closing>>
        BY DEF Settling
    <2>5. (\E k \in DOMAIN loads' : loads'[k].phase # "done") => \E k \in DOMAIN loads : loads[k].phase # "done"
        BY DEF Settling
    <2>6. Ids(list) \subseteq Orders
        BY ListTyped, HonestTyped DEF ListInv
    <2>7. QED
        BY <1>5, <2>1, <2>2, <2>3, <2>4, <2>5, <2>6 DEF Settling
<1>6. QED
    BY <1>1, <1>3, <1>4, <1>5 DEF UndisturbedInv

LEMMA SocketsStep == IInv /\ LInv /\ SInv /\ [Next]_vars => SInv'
<1> SUFFICES ASSUME IInv, LInv, SInv, [Next]_vars PROVE SInv'
    OBVIOUS
<1>1. SocketsInv /\ CountsInv /\ UndisturbedInv /\ ListInv /\ LoadsInv /\ LoadsInv'
    BY LoadsStep DEF SInv, IInv
<1>2. /\ Ids(list) \subseteq Orders /\ Ids(shown) \subseteq Orders
      /\ sockets \in [Orders -> Sockets \cup {None}]
      /\ post \in [Orders -> {"none", "sent", "created", "done", "failed"}]
      /\ closing \in [Orders -> Nat] /\ breaks \in Nat
    BY <1>1, ListTyped, HonestTyped DEF SocketsInv, CountsInv, LInv, PostsInv, ListInv
<1>3. /\ Len(loads) \in Nat /\ DOMAIN loads = 1 .. Len(loads) /\ Len(loads) >= 1
      /\ \A k \in DOMAIN loads : loads[k] \in Loads
    BY <1>1, LenProperties DEF LoadsInv, CountsInv
<1>4. ASSUME Settling, Ids(list)' = Ids(list) PROVE SInv'
    BY <1>1, <1>4, SettlingStep DEF SInv
<1>5. CASE Rendering
    <2>1. PICK e, m : e = list /\ m = sockets
        OBVIOUS
    <2>2. /\ Effect(e, m, {}) /\ disowned' = disowned \ Ended
          /\ shown' = list /\ UNCHANGED <<list, loads, post, breaks>>
        BY <1>5, <2>1 DEF Rendering, Render
    <2>3. Ids(shown)' \subseteq Orders /\ Ids(shown)' = Ids(list) /\ Ids(list)' = Ids(list) /\ Ids(e) = Ids(list)
        BY <1>2, <2>1, <2>2
    <2>4. /\ m \in [Orders -> Sockets \cup {None}]
          /\ {} \in SUBSET Mapped(sockets)
          /\ \A o \in Orders : m[o] # None => m[o] = sockets[o] /\ m[o] \notin {}
          /\ \A o \in Orders : sockets[o] # None /\ m[o] = None => sockets[o] \in {}
        BY <1>2, <2>1
    <2>5. /\ SocketsInv'
          /\ closing' \in [Orders -> Nat]
          /\ \A o \in Orders : sockets'[o] # None <=> o \in Ids(e)
          /\ \A o \in Orders : closing'[o] > 0 =>
                closing[o] > 0 \/ (o \notin Ids(e) /\ sockets[o] # None)
        BY <1>1, <1>2, <2>2, <2>3, <2>4, EffectKeeps
    <2>6. CountsInv'
        BY <1>1, <2>2, <2>5 DEF CountsInv
    <2>7. UndisturbedInv'
        <3>1. SUFFICES ASSUME Upsets' = 0
              PROVE  /\ \A o \in Orders : closing'[o] > 0 => o \notin Ids(list) /\ Gone(o)'
                     /\ (\E k \in DOMAIN loads : loads[k].phase # "done") =>
                           \A o \in Ids(list) : post[o] = "done"
            BY <2>2, <2>3, <2>5 DEF UndisturbedInv
        <3>2. Upsets = 0
            BY <2>2, <3>1 DEF Upsets
        <3>3. \A o \in Orders : Gone(o)' <=> Gone(o)
            BY <2>2 DEF Gone
        <3>4. /\ \A o \in Orders : sockets[o] # None <=> o \in Ids(shown)
              /\ \A o \in Ids(shown) \ Ids(list) : Gone(o)
              /\ \A o \in Orders : closing[o] > 0 => o \notin Ids(shown) \cup Ids(list) /\ Gone(o)
              /\ (\E k \in DOMAIN loads : loads[k].phase # "done") =>
                    \A o \in Ids(shown) \cup Ids(list) : post[o] = "done"
            BY <1>1, <3>2 DEF UndisturbedInv
        <3>5. QED
            BY <2>3, <2>5, <3>3, <3>4
    <2>8. QED
        BY <2>5, <2>6, <2>7 DEF SInv
<1>6. ASSUME NEW u \in Users, Editing(u) PROVE SInv'
    <2>1. PICK e, m, c : e = shown /\ m = NoSockets /\ c = Mapped(sockets)
        OBVIOUS
    <2>2. /\ Effect(e, m, c) /\ disowned' = disowned \ Ended
          /\ loads' = Append(loads, Load(u)) /\ UNCHANGED <<shown, breaks>>
        BY <1>6, <2>1 DEF Editing, EditUser
    <2>3. Ids(shown)' \subseteq Orders /\ Ids(e) \subseteq Orders
        BY <1>2, <2>1, <2>2
    <2>4. /\ m \in [Orders -> Sockets \cup {None}]
          /\ c \in SUBSET Mapped(sockets)
          /\ \A o \in Orders : m[o] # None => m[o] = sockets[o] /\ m[o] \notin c
          /\ \A o \in Orders : sockets[o] # None /\ m[o] = None => sockets[o] \in c
        BY <1>2, <2>1 DEF NoSockets, Mapped
    <2>5. SocketsInv' /\ closing' \in [Orders -> Nat]
        BY <1>1, <2>2, <2>3, <2>4, EffectKeeps
    <2>6. Len(loads') = Len(loads) + 1
        <3>1. Load(u) \in Loads
            BY DEF Load, Loads
        <3>2. QED
            BY <1>1, <2>2, <3>1, AppendProperties DEF LoadsInv
    <2>7. CountsInv' /\ ~(Upsets' = 0)
        <3>1. UNCHANGED breaks
            BY <2>2
        <3>2. QED
            BY <1>2, <1>3, <2>5, <2>6, <3>1 DEF CountsInv, Upsets
    <2>8. QED
        BY <2>5, <2>7 DEF SInv, UndisturbedInv
<1>7. ASSUME NEW s \in Sockets, Opening(s) PROVE SInv'
    <2>1. /\ conn[s].state = "connecting" /\ conn' = [conn EXCEPT ![s].state = "open"]
          /\ UNCHANGED <<list, shown, sockets, closing, loads, post, breaks, disowned>>
        BY <1>7 DEF Opening, Opens
    <2>2. SocketsInv'
        <3>1. /\ conn'[s] = [conn[s] EXCEPT !.state = "open"]
              /\ \A t \in Sockets \ {s} : conn'[t] = conn[t]
              /\ conn' \in [Sockets -> [order : Orders \cup {None}, state : {"connecting", "open", "over"}]]
            BY <1>1, <2>1 DEF SocketsInv
        <3>2. /\ conn'[s].order = conn[s].order /\ conn'[s].state = "open"
              /\ Live(s) /\ conn[s].order \in Orders /\ (sockets[conn[s].order] = s \/ s \in disowned)
            BY <1>1, <2>1, <3>1 DEF SocketsInv, Live, Over
        <3>3. \A t \in Sockets : conn'[t].order = conn[t].order /\ (Live(t) => conn'[t].state # "over")
            BY <3>1, <3>2 DEF Live
        <3>4. \A o \in Orders : sockets[o] # None => conn'[sockets[o]].state # "over" /\ conn'[sockets[o]].order = o
            BY <1>1, <1>2, <3>3 DEF SocketsInv
        <3>5. \A t \in Sockets :
                 \/ conn'[t] = Over
                 \/ /\ conn'[t].state # "over" /\ conn'[t].order \in Orders
                    /\ sockets[conn'[t].order] = t \/ t \in disowned
            BY <1>1, <3>1, <3>2, <3>3 DEF SocketsInv
        <3>6. QED
            BY <1>1, <2>1, <3>1, <3>4, <3>5 DEF SocketsInv, Live
    <2>3. QED
        BY <1>1, <2>1, <2>2 DEF SInv, CountsInv, UndisturbedInv, Upsets, Gone
<1>8. ASSUME NEW o \in Orders, Closed(o) PROVE SInv'
    <2>1. /\ closing[o] > 0 /\ closing' = [closing EXCEPT ![o] = @ - 1]
          /\ sockets' = [sockets EXCEPT ![o] = None]
          /\ disowned' = disowned \cup {t \in Sockets \ {None} : sockets[o] = t}
          /\ UNCHANGED <<list, shown, conn, loads, post, breaks>>
        BY <1>8 DEF Closed, Closes, Unmapped, Disowned
    <2>2. /\ \A p \in Orders : sockets'[p] = IF p = o THEN None ELSE sockets[p]
          /\ sockets' \in [Orders -> Sockets \cup {None}]
        BY <1>2, <2>1
    <2>3. SocketsInv'
        <3>1. \A p \in Orders : sockets'[p] # None => Live(sockets'[p]) /\ conn[sockets'[p]].order = p
            BY <1>1, <2>2 DEF SocketsInv
        <3>2. \A s \in Sockets :
                 \/ conn[s] = Over
                 \/ /\ Live(s) /\ conn[s].order \in Orders
                    /\ sockets'[conn[s].order] = s \/ s \in disowned'
            BY <1>1, <2>1, <2>2, PageAssumption DEF SocketsInv
        <3>3. QED
            BY <1>1, <2>1, <2>2, <3>1, <3>2 DEF SocketsInv, Live
    <2>4. /\ closing' \in [Orders -> Nat]
          /\ \A p \in Orders : closing'[p] > 0 => closing[p] > 0
        BY <1>2, <2>1
    <2>5. CountsInv'
        BY <1>1, <2>1, <2>4 DEF CountsInv
    <2>6. UndisturbedInv'
        <3>1. SUFFICES ASSUME Upsets = 0
              PROVE  /\ \A p \in Orders : sockets'[p] # None <=> p \in Ids(shown)
                     /\ \A p \in Ids(shown) \ Ids(list) : Gone(p)
                     /\ \A p \in Orders : closing'[p] > 0 => p \notin Ids(shown) \cup Ids(list) /\ Gone(p)
                     /\ (\E k \in DOMAIN loads : loads[k].phase # "done") =>
                           \A p \in Ids(shown) \cup Ids(list) : post[p] = "done"
            BY <2>1 DEF UndisturbedInv, Upsets, Gone
        <3>2. o \notin Ids(shown)
            BY <1>1, <2>1, <3>1 DEF UndisturbedInv
        <3>3. QED
            BY <1>1, <2>2, <2>4, <3>1, <3>2 DEF UndisturbedInv
    <2>7. QED
        BY <2>3, <2>5, <2>6 DEF SInv
<1>9. ASSUME NEW s \in Sockets, Broken(s) PROVE SInv'
    <2> DEFINE o == conn[s].order
    <2>1. /\ conn[s] # Over /\ breaks' = breaks + 1 /\ conn' = [conn EXCEPT ![s] = Over]
          /\ sockets' = [sockets EXCEPT ![o] = None]
          /\ disowned' = (disowned \ {s}) \cup {t \in Sockets \ {s} : sockets[o] = t}
          /\ UNCHANGED <<list, shown, closing, loads, post>>
        BY <1>9 DEF Broken, Breaks, Unmapped, Disowned
    <2>2. o \in Orders
        BY <1>1, <2>1 DEF SocketsInv
    <2>3. /\ \A p \in Orders : sockets'[p] = IF p = o THEN None ELSE sockets[p]
          /\ sockets' \in [Orders -> Sockets \cup {None}]
          /\ conn'[s] = Over /\ \A t \in Sockets \ {s} : conn'[t] = conn[t]
          /\ conn' \in [Sockets -> [order : Orders \cup {None}, state : {"connecting", "open", "over"}]]
        <3>1. conn \in [Sockets -> [order : Orders \cup {None}, state : {"connecting", "open", "over"}]]
            BY <1>1 DEF SocketsInv
        <3>2. Over \in [order : Orders \cup {None}, state : {"connecting", "open", "over"}]
            BY DEF Over
        <3>3. QED
            BY <1>2, <2>1, <2>2, <3>1, <3>2
    <2> HIDE DEF o
    <2>4. SocketsInv'
        <3>1. ASSUME NEW p \in Orders, sockets'[p] # None
              PROVE  conn'[sockets'[p]].state # "over" /\ conn'[sockets'[p]].order = p
            <4>1. p # o /\ sockets'[p] = sockets[p] /\ sockets[p] \in Sockets
                BY <1>2, <2>3, <3>1
            <4>2. Live(sockets[p]) /\ conn[sockets[p]].order = p
                BY <1>1, <3>1, <4>1 DEF SocketsInv
            <4>3. sockets[p] # s
                BY <4>1, <4>2 DEF o
            <4>4. QED
                BY <2>3, <4>1, <4>2, <4>3 DEF Live
        <3>2. ASSUME NEW t \in Sockets, conn'[t] # Over
              PROVE  /\ conn'[t].state # "over" /\ conn'[t].order \in Orders
                     /\ sockets'[conn'[t].order] = t \/ t \in disowned'
            <4>1. t # s /\ conn'[t] = conn[t]
                BY <2>3, <3>2
            <4>2. /\ Live(t) /\ conn[t].order \in Orders
                  /\ sockets[conn[t].order] = t \/ t \in disowned
                BY <1>1, <3>2, <4>1 DEF SocketsInv
            <4>3. sockets[conn[t].order] = t => sockets'[conn[t].order] = t \/ t \in disowned'
                BY <2>1, <2>3, <4>1, <4>2
            <4>4. QED
                BY <2>1, <4>1, <4>2, <4>3 DEF Live
        <3>3. QED
            BY <1>1, <2>1, <2>3, <3>1, <3>2 DEF SocketsInv, Live
    <2>5. CountsInv' /\ ~(Upsets' = 0)
        BY <1>1, <1>2, <1>3, <2>1 DEF CountsInv, Upsets
    <2>6. QED
        BY <2>4, <2>5 DEF SInv, UndisturbedInv
<1>10. ASSUME NEW k \in DOMAIN loads, LoadArrives(k), UNCHANGED historyVars PROVE SInv'
    <2>1. /\ loads[k].phase = "read" /\ DOMAIN loads' = DOMAIN loads
          /\ loads'[k].phase = "done" /\ \A l \in DOMAIN loads \ {k} : loads'[l] = loads[l]
          /\ UNCHANGED <<shown, sockets, conn, closing, post, breaks, disowned>>
        BY <1>3, <1>10 DEF LoadArrives, Loads
    <2>2. Settling
        BY <2>1 DEF Settling
    <2>3. SocketsInv' /\ CountsInv' /\ Upsets' = Upsets
        BY <1>1, <2>2, SettlingStep
    <2>4. UndisturbedInv'
        <3>1. SUFFICES ASSUME Upsets = 0
              PROVE  /\ \A o \in Orders : sockets[o] # None <=> o \in Ids(shown)
                     /\ \A o \in Ids(shown) : post[o] = "done"
                     /\ \A o \in Orders : ~(closing[o] > 0)
                     /\ \A l \in DOMAIN loads' : loads'[l].phase = "done"
            BY <1>2, <2>1, <2>3 DEF UndisturbedInv, Gone
        <3>2. DOMAIN loads = {k}
            BY <1>2, <1>3, <1>10, <3>1 DEF Upsets
        <3>3. QED
            BY <1>1, <2>1, <3>1, <3>2 DEF UndisturbedInv, Gone
    <2>5. QED
        BY <2>3, <2>4 DEF SInv
<1>11. ASSUME NEW o \in Orders, PostArrives(o), UNCHANGED historyVars PROVE SInv'
    <2>1. /\ post[o] = "created" /\ post' = [post EXCEPT ![o] = "done"]
          /\ list' = <<Entry(o, "NEW")>> \o list
          /\ UNCHANGED <<shown, sockets, conn, closing, loads, breaks, disowned>>
        BY <1>11 DEF PostArrives
    <2>2. Ids(list)' = Ids(list) \cup {o}
        BY <1>1, <2>1, CreatedIds
    <2>3. \A p \in Orders : post'[p] = IF p = o THEN "done" ELSE post[p]
        BY <1>2, <2>1
    <2>4. Settling
        BY <1>2, <2>1, <2>3 DEF Settling
    <2>5. SocketsInv' /\ CountsInv' /\ Upsets' = Upsets
        BY <1>1, <2>4, SettlingStep
    <2>6. UndisturbedInv'
        <3>1. SUFFICES ASSUME Upsets = 0
              PROVE  /\ \A p \in Orders : sockets[p] # None <=> p \in Ids(shown)
                     /\ \A p \in Ids(shown) \ Ids(list)' : Gone(p)'
                     /\ \A p \in Orders : closing[p] > 0 => p \notin Ids(shown) \cup Ids(list)' /\ Gone(p)'
                     /\ (\E k \in DOMAIN loads : loads[k].phase # "done") =>
                           \A p \in Ids(shown) \cup Ids(list)' : post'[p] = "done"
            BY <2>1, <2>5 DEF UndisturbedInv
        <3>2. \A p \in Orders : Gone(p) => Gone(p)' /\ p # o
            BY <2>1, <2>3 DEF Gone
        <3>3. QED
            BY <1>1, <1>2, <2>2, <2>3, <3>1, <3>2 DEF UndisturbedInv
    <2>7. QED
        BY <2>5, <2>6 DEF SInv
<1>12. ASSUME NEW k \in DOMAIN loads, Reading(k) \/ (LoadFails(k) /\ UNCHANGED disowned) PROVE SInv'
    <2>1. /\ loads[k].phase = "sent" /\ DOMAIN loads' = DOMAIN loads
          /\ \A l \in DOMAIN loads \ {k} : loads'[l] = loads[l]
          /\ UNCHANGED <<list, shown, sockets, conn, closing, post, breaks, disowned>>
        BY <1>3, <1>12 DEF Reading, LoadReads, LoadFails
    <2>2. QED
        BY <1>4, <2>1 DEF Settling
<1>13. ASSUME NEW o \in Orders, Clicking(o) \/ Confirming(o) \/ (PostFails(o) /\ UNCHANGED disowned)
       PROVE  SInv'
    <2>1. /\ post[o] # "done" /\ \A p \in Orders \ {o} : post'[p] = post[p]
          /\ UNCHANGED <<list, shown, sockets, conn, closing, loads, breaks, disowned>>
        <3>1. o \in 1 .. o
            BY PageAssumption DEF Orders
        <3>2. QED
            BY <1>2, <1>13, <3>1 DEF Clicking, Click, Confirming, PostAnswered, PostFails
    <2>2. QED
        BY <1>4, <2>1 DEF Settling
<1>14. ASSUME NEW s \in Sockets, Hearing(s) PROVE SInv'
    <2>1. /\ list' = Updated(Head(box[s]).order, Status(Head(box[s])))
          /\ UNCHANGED <<shown, sockets, conn, closing, loads, post, breaks, disowned>>
        BY <1>14 DEF Hearing, MessageArrives
    <2>2. Ids(list)' = Ids(list)
        <3>1. DOMAIN list' = DOMAIN list
            BY <2>1 DEF Updated
        <3>2. \A i \in DOMAIN list : list[i] \in Honest
            BY <1>1, LenProperties DEF ListInv
        <3>3. \A i \in DOMAIN list : list'[i].id = list[i].id
            BY <2>1, <3>2 DEF Updated, Honest
        <3>4. QED
            BY <3>1, <3>3 DEF Ids
    <2>3. QED
        BY <1>4, <2>1, <2>2 DEF Settling
<1>15. CASE UNCHANGED <<pageVars, disowned>>
    BY <1>4, <1>15 DEF Settling
<1>16. \/ UNCHANGED <<pageVars, disowned>>
       \/ Rendering
       \/ \E u \in Users : Editing(u)
       \/ \E k \in DOMAIN loads : \/ Reading(k) \/ (LoadFails(k) /\ UNCHANGED disowned)
                                  \/ LoadArrives(k) /\ UNCHANGED historyVars
       \/ \E o \in Orders : \/ Clicking(o) \/ Confirming(o) \/ (PostFails(o) /\ UNCHANGED disowned)
                            \/ PostArrives(o) /\ UNCHANGED historyVars
                            \/ Closed(o)
       \/ \E s \in Sockets : Opening(s) \/ Hearing(s) \/ Broken(s)
    BY DEF Next, OrderStep, Loading, Creating, Placing, Requesting, Deciding, Notifying
<1>17. QED
    BY <1>5, <1>6, <1>7, <1>8, <1>9, <1>10, <1>11, <1>12, <1>13, <1>14, <1>15, <1>16

LEMMA SocketsInit == Init => SInv
<1> SUFFICES ASSUME Init PROVE SInv
    OBVIOUS
<1>1. /\ list = <<>> /\ shown = <<>> /\ sockets = NoSockets /\ conn = [s \in Sockets |-> Over]
      /\ closing = [o \in Orders |-> 0] /\ loads = <<Load(FirstUser)>> /\ breaks = 0
    BY DEF Init, PageInit
<1>2. Ids(list) = {} /\ Ids(shown) = {}
    BY <1>1 DEF Ids
<1>3. SocketsInv
    BY <1>1, <1>2 DEF SocketsInv, NoSockets, Over
<1>4. CountsInv
    BY <1>1 DEF CountsInv
<1>5. UndisturbedInv
    BY <1>1, <1>2 DEF UndisturbedInv, NoSockets
<1>6. QED
    BY <1>3, <1>4, <1>5 DEF SInv

(* A live socket is in the map of the page, or another socket's close has    *)
(* taken its entry; before the first upset every order shown has a socket.   *)
THEOREM SocketsHold == Spec => []SocketsAreOwned
<1>1. SInv => SocketsAreOwned
    BY DEF SInv, SocketsInv, UndisturbedInv, SocketsAreOwned
<1>2. IInv /\ LInv /\ [Next]_vars => LInv'
    BY ListedStep
<1>3. IInv /\ LInv /\ SInv /\ [Next]_vars => SInv'
    BY SocketsStep
<1>4. QED
    BY <1>1, <1>2, <1>3, Invariant, ListedInit, SocketsInit, PTL DEF Spec

-----------------------------------------------------------------------------
(* Types.                                                                    *)

FollowsInv ==
    /\ follows \in [Sockets -> Orders \cup {None}]
    /\ \A s \in Sockets : follows[s] \in {None, conn[s].order}

ShownInv ==
    /\ shown \in Entries
    /\ queued \in BOOLEAN /\ alone \in BOOLEAN
    /\ consumed \in [Orders -> 0 .. MaxCopies]

LEMMA ListEntries == ListInv => list \in Entries
<1>1. Honest \subseteq [id : Orders, status : {"NEW", "FINISHED", "CANCELLED"}]
    BY DEF Honest
<1> QED  BY <1>1, SeqMonotonic DEF ListInv, Entries

(* The effect uses no socket for another order before it is over.            *)
LEMMA EffectReuses ==
    ASSUME NEW entries, Ids(entries) \subseteq Orders, NEW map, NEW closed,
           Effect(entries, map, closed), NEW s \in Sockets
    PROVE  conn'[s] = conn[s] \/ conn'[s] = Over \/ conn[s] = Over
<1> DEFINE opened == Unwatched(entries, map)
           gone == closed \cup Dropped(entries, map)
<1>1. PICK f \in [opened -> Free] :
         \A t \in Sockets :
            conn'[t] = IF t \in gone THEN Over
                       ELSE IF \E o \in opened : f[o] = t
                       THEN [order |-> CHOOSE o \in opened : f[o] = t, state |-> "connecting"]
                       ELSE conn[t]
    BY EffectDoes
<1>2. \A o \in opened : conn[f[o]] = Over
    BY <1>1 DEF Free
<1> HIDE DEF opened, gone
<1> QED  BY <1>1, <1>2

LEMMA FollowsEnd ==
    ASSUME FollowsInv, Notifier!End(Ended),
           \A s \in Sockets : conn'[s] = conn[s] \/ conn'[s] = Over \/ conn[s] = Over
    PROVE  FollowsInv'
<1>1. follows' = [s \in Sockets |-> IF s \in Ended THEN None ELSE follows[s]]
    BY DEF Notifier!End
<1>2. ASSUME NEW s \in Sockets PROVE follows'[s] \in {None, conn'[s].order}
    BY <1>1, <1>2 DEF FollowsInv, Ended, Over
<1> QED  BY <1>1, <1>2 DEF FollowsInv

LEMMA FollowsStep == LInv /\ SInv /\ IInv /\ FollowsInv /\ [Next]_vars => FollowsInv'
<1> SUFFICES ASSUME LInv, SInv, IInv, FollowsInv, [Next]_vars PROVE FollowsInv'
    OBVIOUS
<1>1. /\ Ids(list) \subseteq Orders /\ Ids(shown) \subseteq Orders
      /\ conn \in [Sockets -> [order : Orders \cup {None}, state : {"connecting", "open", "over"}]]
      /\ \A s \in Sockets : conn[s] = Over \/ conn[s].order \in Orders
    BY ListTyped, HonestTyped DEF SInv, SocketsInv, IInv, ListInv
<1>2. CASE UNCHANGED <<follows, conn>>
    BY <1>2 DEF FollowsInv
<1>3. CASE Rendering
    <2>1. Effect(list, sockets, {}) /\ Notifier!End(Ended)
        BY <1>3 DEF Rendering, Render
    <2> QED  BY <1>1, <2>1, EffectReuses, FollowsEnd
<1>4. ASSUME NEW u \in Users, Editing(u) PROVE FollowsInv'
    <2>1. Effect(shown, NoSockets, Mapped(sockets)) /\ Notifier!End(Ended)
        BY <1>4 DEF Editing, EditUser
    <2> QED  BY <1>1, <2>1, EffectReuses, FollowsEnd
<1>5. ASSUME NEW s \in Sockets, Opening(s) PROVE FollowsInv'
    <2>1. /\ conn[s].state = "connecting"
          /\ conn' = [conn EXCEPT ![s].state = "open"]
          /\ follows' = [follows EXCEPT ![s] = conn[s].order]
        BY <1>5 DEF Opening, Opens, Notifier!Join
    <2>2. \A t \in Sockets : conn'[t].order = conn[t].order
        BY <1>1, <2>1
    <2>3. conn[s].order \in Orders
        BY <1>1, <2>1 DEF Over
    <2> QED  BY <2>1, <2>2, <2>3 DEF FollowsInv
<1>6. ASSUME NEW s \in Sockets, Broken(s) PROVE FollowsInv'
    <2>1. /\ conn' = [conn EXCEPT ![s] = Over]
          /\ follows' = [t \in Sockets |-> IF t \in {s} THEN None ELSE follows[t]]
        BY <1>6 DEF Broken, Breaks, Notifier!End
    <2> QED  BY <1>1, <2>1 DEF FollowsInv
<1>7. \/ UNCHANGED <<follows, conn>>
      \/ Rendering
      \/ \E u \in Users : Editing(u)
      \/ \E s \in Sockets : Opening(s) \/ Broken(s)
    BY DEF Next, Reading, LoadReads, Loading, LoadArrives, LoadFails, OrderStep, Clicking, Click,
           Placing, Confirming, PostAnswered, Creating, PostArrives, PostFails, Requesting, Closed,
           Closes, Deciding, Notifying, Notifier!Push, Hearing, MessageArrives, Notifier!Deliver
<1> QED  BY <1>2, <1>3, <1>4, <1>5, <1>6, <1>7

LEMMA ShownStep == IInv /\ ShownInv /\ [Next]_vars => ShownInv'
<1> SUFFICES ASSUME IInv, ShownInv, [Next]_vars PROVE ShownInv'
    OBVIOUS
<1>1. list \in Entries
    BY ListEntries DEF IInv
<1>2. shown' \in Entries
    <2>1. shown' \in {list, shown}
        BY DEF Next, Rendering, Render, Editing, EditUser, Reading, LoadReads, Loading, LoadArrives,
               LoadFails, OrderStep, Clicking, Click, Placing, Confirming, PostAnswered, Creating,
               PostArrives, PostFails, Requesting, Closed, Closes, Deciding, Notifying, Opening,
               Opens, Hearing, MessageArrives, Broken, Breaks
    <2> QED  BY <1>1, <2>1 DEF ShownInv
<1>3. queued' \in BOOLEAN /\ alone' \in BOOLEAN
    <2>1. queued' \in {TRUE, FALSE, queued} /\ alone' \in {FALSE, alone, alone /\ Waiting = 0}
        BY DEF Next, Rendering, Render, Editing, EditUser, Reading, LoadReads, Loading, LoadArrives,
               LoadFails, OrderStep, Clicking, Click, Placing, Confirming, PostAnswered, Creating,
               PostArrives, PostFails, Requesting, Closed, Closes, Deciding, Notifying, Opening,
               Opens, Hearing, MessageArrives, Broken, Breaks
    <2> QED  BY <2>1 DEF ShownInv
<1>4. consumed' \in [Orders -> 0 .. MaxCopies]
    <2>1. CASE UNCHANGED consumed
        BY <2>1 DEF ShownInv
    <2>2. ASSUME NEW a \in Answers, Notifying(a) PROVE consumed' \in [Orders -> 0 .. MaxCopies]
        <3>1. a.order \in Orders /\ consumed[a.order] < MaxCopies
              /\ consumed' = [consumed EXCEPT ![a.order] = consumed[a.order] + 1]
            BY <2>2 DEF Notifying, Notifier!Push, Answers
        <3>2. consumed[a.order] \in 0 .. MaxCopies
            BY <3>1 DEF ShownInv
        <3>3. consumed[a.order] + 1 \in 0 .. MaxCopies
            BY <3>1, <3>2, BoundsAssumption
        <3> QED  BY <3>1, <3>3 DEF ShownInv
    <2>3. UNCHANGED consumed \/ \E a \in Answers : Notifying(a)
        BY DEF Next, Rendering, Editing, Reading, Loading, OrderStep, Clicking, Placing, Confirming,
               Creating, Requesting, Closed, Deciding, Opening, Notifier!Join, Hearing,
               Notifier!Deliver, Broken, Notifier!End
    <2> QED  BY <2>1, <2>2, <2>3
<1> QED  BY <1>2, <1>3, <1>4 DEF ShownInv

(* Every variable has its type, the socket the page has for an order is one  *)
(* it opened for that order, and no socket follows another order than its    *)
(* own, through user changes, broken connections and sockets used again.     *)
THEOREM TypeCorrect == Spec => []TypeOK
<1>1. Init => FollowsInv /\ ShownInv
    <2> SUFFICES ASSUME Init PROVE FollowsInv /\ ShownInv
        OBVIOUS
    <2>1. FollowsInv
        BY DEF Init, PageInit, Notifier!NotificationsInit, FollowsInv
    <2>2. <<>> \in Entries /\ shown = <<>> /\ queued = FALSE /\ alone = TRUE
          /\ consumed = [o \in Orders |-> 0] /\ 0 \in 0 .. MaxCopies
        BY EmptySeq, BoundsAssumption DEF Init, PageInit, Notifier!NotificationsInit, Entries
    <2> QED  BY <2>1, <2>2 DEF ShownInv
<1>2. IInv /\ LInv /\ [Next]_vars => LInv'
    BY ListedStep
<1>3. IInv /\ LInv /\ SInv /\ [Next]_vars => SInv'
    BY SocketsStep
<1>4. LInv /\ SInv /\ IInv /\ FollowsInv /\ [Next]_vars => FollowsInv'
    BY FollowsStep
<1>5. IInv /\ ShownInv /\ [Next]_vars => ShownInv'
    BY ShownStep
<1>6. IInv /\ LInv /\ SInv /\ FollowsInv /\ ShownInv => TypeOK
    <2> SUFFICES ASSUME IInv, LInv, SInv, FollowsInv, ShownInv PROVE TypeOK
        OBVIOUS
    <2>1. list \in Entries
        BY ListEntries DEF IInv
    <2>2. loads \in Seq([user : Users, phase : {"sent", "read", "done"}, orders : SUBSET Orders])
        BY DEF IInv, LoadsInv, Loads
    <2> QED
        BY <2>1, <2>2 DEF LInv, PostsInv, SInv, SocketsInv, CountsInv, FollowsInv, ShownInv, TypeOK
<1> QED  BY <1>1, <1>2, <1>3, <1>4, <1>5, <1>6, Invariant, ListedInit, SocketsInit, PTL DEF Spec
=============================================================================
