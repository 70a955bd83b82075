-------------------------- MODULE UploadGateProofs --------------------------
(***************************************************************************)
(* Theorems about UploadGate for any number of files, retries, processes and *)
(* threads and any limits: the types, the bound on the items of a session,   *)
(* and the sliding window.                                                  *)
(***************************************************************************)
EXTENDS UploadGate, FiniteSetTheorems, TLAPS

\* There are finitely many attempts.
LEMMA AttemptsFinite == IsFiniteSet(Attempts)
  <1>1. IsFiniteSet(0..Retries)
    BY GateAssumption, FS_Interval
  <1>2. IsFiniteSet(Files \X (0..Retries))
    BY <1>1, GateAssumption, FS_Product
  <1> QED
    BY <1>2 DEF Attempts

\* Every variable keeps its type.
THEOREM GateTypeCorrect == Spec => []TypeOK
  <1>1. Init => TypeOK
    BY DEF Init, TypeOK, Locations
  <1>2. TypeOK /\ [Next]_vars => TypeOK'
    <2> SUFFICES ASSUME TypeOK, [Next]_vars PROVE TypeOK'
      OBVIOUS
    <2> USE DEF TypeOK, Locations, Serving
    <2>1. ASSUME NEW f \in Files, NEW k \in 0..Retries, Send(f, k) PROVE TypeOK'
      <3>1. <<f, k>> \in Attempts
        BY DEF Attempts
      <3>2. pc' \in [Attempts -> Locations]
        BY <2>1, <3>1 DEF Send, Goto
      <3> QED
        BY <2>1, <3>2 DEF Send
    <2>2. ASSUME NEW r \in Attempts, TakeStamp(r) PROVE TypeOK'
      BY <2>2 DEF TakeStamp, Goto
    <2>3. ASSUME NEW r \in Attempts, ExecutePipeline(r) PROVE TypeOK'
      <3>1. zset' \in SUBSET Nat
        BY <2>3 DEF ExecutePipeline, Live
      <3>2. Decide(r, "refused", "zrem") \/ Decide(r, "allowed", "count")
        BY <2>3 DEF ExecutePipeline
      <3> QED
        BY <2>3, <3>1, <3>2 DEF ExecutePipeline, Decide, Goto
    <2>4. ASSUME NEW r \in Attempts, PipelineFails(r) PROVE TypeOK'
      <3>1. zset' \in SUBSET Nat
        BY <2>4 DEF PipelineFails, Live
      <3> QED
        BY <2>4, <3>1 DEF PipelineFails, Decide, Goto
    <2>5. ASSUME NEW r \in Attempts, Withdraw(r) \/ WithdrawFails(r) PROVE TypeOK'
      BY <2>5 DEF Withdraw, WithdrawFails, Decide, Goto
    <2>6. ASSUME NEW r \in Attempts, AskMemory(r) PROVE TypeOK'
      BY <2>6 DEF AskMemory, Decide, Goto, Recent
    <2>7. ASSUME NEW r \in Attempts, CountItems(r) \/ RejectFile(r) PROVE TypeOK'
      BY <2>7 DEF CountItems, RejectFile, Goto
    <2>8. ASSUME NEW r \in Attempts, AddItem(r) PROVE TypeOK'
      BY <2>8 DEF AddItem, Goto
    <2>9. ASSUME NEW r \in Attempts, RemoveItem(r) \/ LoseConnection(r) PROVE TypeOK'
      BY <2>9 DEF RemoveItem, LoseConnection, serverVars
    <2>10. CASE Tick
      BY <2>10 DEF Tick, serverVars
    <2>11. CASE UNCHANGED vars
      BY <2>11 DEF vars
    <2> QED
      BY <2>1, <2>2, <2>3, <2>4, <2>5, <2>6, <2>7, <2>8, <2>9, <2>10, <2>11 DEF Next, Serve
  <1> QED
    BY <1>1, <1>2, PTL DEF Spec

-----------------------------------------------------------------------------
(***************************************************************************)
(* ItemLimit: what has passed the count and is not added yet counts as if it *)
(* were, and all of it is being served.                                     *)
(***************************************************************************)
InService == {r \in Attempts : pc[r] \in Serving}
Passed    == {r \in Attempts : pc[r] = "save"}

Seats ==
  /\ Cardinality(InService) <= Threads
  /\ Cardinality(items) + Cardinality(Passed) + 1 <= MaxItems + Threads

\* What is counted is finite.
LEMMA SeatsFinite ==
  ASSUME TypeOK
  PROVE  /\ IsFiniteSet(InService) /\ Cardinality(InService) \in Nat
         /\ IsFiniteSet(Passed) /\ Cardinality(Passed) \in Nat
         /\ IsFiniteSet(items) /\ Cardinality(items) \in Nat
         /\ Cardinality(Passed) <= Cardinality(InService)
  <1>1. /\ InService \in SUBSET Attempts /\ Passed \in SUBSET InService
        /\ items \in SUBSET Attempts
    BY DEF InService, Passed, TypeOK, Serving
  <1>2. IsFiniteSet(InService) /\ IsFiniteSet(items)
    BY <1>1, AttemptsFinite, FS_Subset
  <1> QED
    BY <1>1, <1>2, FS_Subset, FS_CardinalityType

\* A step in which no set grows keeps the bound.
LEMMA FewerSeats ==
  ASSUME TypeOK, TypeOK', Seats,
         InService' \subseteq InService, Passed' \subseteq Passed, items' \subseteq items
  PROVE  Seats'
  <1>1. /\ Cardinality(InService') <= Cardinality(InService)
        /\ Cardinality(Passed') <= Cardinality(Passed)
        /\ Cardinality(items') <= Cardinality(items)
    BY SeatsFinite, FS_Subset
  <1>2. /\ Cardinality(InService') \in Nat /\ Cardinality(Passed') \in Nat
        /\ Cardinality(items') \in Nat
    BY SeatsFinite, FS_Subset, FS_CardinalityType
  <1> QED
    BY <1>1, <1>2, SeatsFinite, GateAssumption DEF Seats

\* A request is only taken up by a free thread.
LEMMA SendSeats ==
  ASSUME TypeOK, Seats, NEW f \in Files, NEW k \in 0..Retries, Send(f, k)
  PROVE  Seats'
  <1>1. /\ InService' = InService \cup {<<f, k>>} /\ Passed' = Passed /\ items' = items
        /\ Cardinality(InService) < Threads
    BY DEF Send, Goto, InService, Passed, Serving, TypeOK, Attempts
  <1>2. Cardinality(InService') <= Threads
    <2> DEFINE grown == InService \cup {<<f, k>>}
    <2>1. Cardinality(grown) \in {Cardinality(InService), Cardinality(InService) + 1}
      BY SeatsFinite, FS_AddElement
    <2> HIDE DEF grown
    <2>2. Cardinality(grown) <= Threads
      BY <1>1, <2>1, SeatsFinite, GateAssumption
    <2> QED
      BY <1>1, <2>2 DEF grown
  <1> QED
    BY <1>1, <1>2 DEF Seats

\* Passing the count takes one of the threads' places above the limit.
LEMMA CountSeats ==
  ASSUME TypeOK, TypeOK', Seats, NEW r \in Attempts, CountItems(r)
  PROVE  Seats'
  <1>1. CASE Cardinality(items) >= MaxItems
    <2>1. /\ InService' \subseteq InService /\ Passed' \subseteq Passed /\ items' = items
      BY <1>1 DEF CountItems, Goto, InService, Passed, Serving, TypeOK
    <2> QED
      BY <2>1, FewerSeats
  <1>2. CASE ~ (Cardinality(items) >= MaxItems)
    <2>1. InService' = InService /\ items' = items
      BY <1>2 DEF CountItems, Goto, InService, Serving, TypeOK
    <2>2. Passed' \in SUBSET InService
      BY <1>2 DEF CountItems, Goto, InService, Passed, Serving, TypeOK
    <2>3. Cardinality(Passed') <= Cardinality(InService) /\ Cardinality(Passed') \in Nat
      BY <2>2, SeatsFinite, FS_Subset, FS_CardinalityType
    <2> QED
      BY <1>2, <2>1, <2>3, SeatsFinite, GateAssumption DEF Seats
  <1> QED
    BY <1>1, <1>2

\* Adding the row turns a place into an item.
LEMMA AddSeats ==
  ASSUME TypeOK, Seats, NEW r \in Attempts, AddItem(r)
  PROVE  Seats'
  <1>1. /\ InService' = InService \ {r} /\ Passed' = Passed \ {r} /\ r \in Passed
        /\ r \in InService /\ items' = items \cup {r}
    BY DEF AddItem, Goto, InService, Passed, Serving, TypeOK
  <1>2. /\ Cardinality(InService') = Cardinality(InService) - 1
        /\ Cardinality(Passed') = Cardinality(Passed) - 1
    BY <1>1, SeatsFinite, FS_RemoveElement
  <1>3. Cardinality(items') \in {Cardinality(items), Cardinality(items) + 1}
    BY <1>1, SeatsFinite, FS_AddElement
  <1> QED
    BY <1>2, <1>3, SeatsFinite, GateAssumption DEF Seats

\* Every step keeps the bound.
LEMMA NextSeats == TypeOK /\ TypeOK' /\ Seats /\ [Next]_vars => Seats'
  <1> SUFFICES ASSUME TypeOK, TypeOK', Seats, [Next]_vars PROVE Seats'
    OBVIOUS
  <1> DEFINE Fewer == InService' \subseteq InService /\ Passed' \subseteq Passed /\ items' \subseteq items
  <1> USE DEF TypeOK, InService, Passed, Serving
  <1>1. ASSUME NEW f \in Files, NEW k \in 0..Retries, Send(f, k) PROVE Seats'
    BY <1>1, SendSeats
  <1>2. ASSUME NEW r \in Attempts, TakeStamp(r) PROVE Fewer
    BY <1>2 DEF TakeStamp, Goto
  <1>3. ASSUME NEW r \in Attempts, ExecutePipeline(r) \/ PipelineFails(r) PROVE Fewer
    BY <1>3 DEF ExecutePipeline, PipelineFails, Decide, Goto
  <1>4. ASSUME NEW r \in Attempts, Withdraw(r) \/ WithdrawFails(r) PROVE Fewer
    BY <1>4 DEF Withdraw, WithdrawFails, Decide, Goto
  <1>5. ASSUME NEW r \in Attempts, AskMemory(r) PROVE Fewer
    BY <1>5 DEF AskMemory, Decide, Goto
  <1>6. ASSUME NEW r \in Attempts, CountItems(r) PROVE Seats'
    BY <1>6, CountSeats
  <1>7. ASSUME NEW r \in Attempts, RejectFile(r) PROVE Fewer
    BY <1>7 DEF RejectFile, Goto
  <1>8. ASSUME NEW r \in Attempts, AddItem(r) PROVE Seats'
    BY <1>8, AddSeats
  <1>9. ASSUME NEW r \in Attempts, RemoveItem(r) \/ LoseConnection(r) PROVE Fewer
    BY <1>9 DEF RemoveItem, LoseConnection, serverVars
  <1>10. ASSUME Tick PROVE Fewer
    BY <1>10 DEF Tick, serverVars
  <1>11. ASSUME UNCHANGED vars PROVE Fewer
    BY <1>11 DEF vars
  <1> QED
    BY <1>1, <1>2, <1>3, <1>4, <1>5, <1>6, <1>7, <1>8, <1>9, <1>10, <1>11, FewerSeats DEF Next, Serve

\* The rows of a session never pass MAX_QUEUE_ITEMS by more than the other requests
\* that are served at the same time.
THEOREM ItemsBounded == Spec => []ItemLimit
  <1>1. Init => Seats
    <2> SUFFICES ASSUME Init PROVE Seats
      OBVIOUS
    <2>1. InService = {} /\ Passed = {} /\ items = {}
      BY DEF Init, InService, Passed, Serving
    <2> QED
      BY <2>1, FS_EmptySet, GateAssumption DEF Seats
  <1>2. TypeOK /\ Seats => ItemLimit
    BY SeatsFinite, GateAssumption DEF Seats, ItemLimit
  <1> QED
    BY <1>1, <1>2, GateTypeCorrect, NextSeats, PTL DEF Spec

-----------------------------------------------------------------------------
(***************************************************************************)
(* AllowedPerWindow: an allowed request whose stamp nobody shares is          *)
(* remembered, in the sorted set or in the list of its process, until the    *)
(* clock is a whole window past it.  A request decides at most MaxDelay after *)
(* its stamp, so it still sees every allowed request of a window that is     *)
(* MaxDelay shorter, and it is only allowed when those are few enough.       *)
(***************************************************************************)
Own(r) == \A q \in ByRedis : stamp[q] = stamp[r] => q = r

Old(r) == stamp[r] + Window <= clock

StampsInTime ==
  \A r \in Attempts :
    /\ pc[r] \in {"unsent", "limiter"} => stamp[r] = 0
    /\ pc[r] \in {"unsent", "limiter", "execute"} => verdict[r] = "none"
    /\ pc[r] = "execute" => clock <= stamp[r] + MaxDelay
    /\ pc[r] = "zrem" => verdict[r] = "refused" /\ InRedis(r)
    /\ pc[r] = "execute" \/ verdict[r] = "allowed" => stamp[r] > 0
    /\ stamp[r] <= clock

Remembered ==
  /\ \A r \in ByRedis : verdict[r] = "allowed" /\ Own(r) => stamp[r] \in zset \/ Old(r)
  /\ \A p \in Processes \ Online : \A r \in ByHost(p) :
       verdict[r] = "allowed" => r \in bucket[p] \/ Old(r)

MemoryFinite == IsFiniteSet(zset)

WindowInv == StampsInTime /\ Remembered /\ MemoryFinite /\ \A x \in Nat : WindowHolds(x)

\* Nothing was allowed at the start.
LEMMA InitWindow == Init => WindowInv
  <1> SUFFICES ASSUME Init PROVE WindowInv
    OBVIOUS
  <1>1. StampsInTime /\ Remembered /\ MemoryFinite
    BY FS_EmptySet DEF Init, StampsInTime, Remembered, MemoryFinite, ByRedis, ByHost
  <1>2. ASSUME NEW x \in Nat PROVE WindowHolds(x)
    <2>1. \A R \in SUBSET Attempts : Allowed(InWindow(R, x)) = {}
      BY DEF Init, Allowed, InWindow
    <2>2. ByRedis \in SUBSET Attempts /\ \A p \in Processes : ByHost(p) \in SUBSET Attempts
      BY DEF ByRedis, ByHost
    <2>3. Cardinality({}) <= Limit
      BY FS_EmptySet, GateAssumption
    <2> QED
      BY <2>1, <2>2, <2>3 DEF WindowHolds
  <1> QED
    BY <1>1, <1>2 DEF WindowInv

\* A step keeps the windows when it allows nobody and changes no stamp but that of
\* a request the limiter has not decided on.
LEMMA QuietWindows ==
  ASSUME TypeOK, WindowInv, host' = host,
         \A r \in Attempts : verdict'[r] = "allowed" => verdict[r] = "allowed",
         \A r \in Attempts : stamp'[r] = stamp[r] \/ (stamp[r] = 0 /\ verdict'[r] # "allowed")
  PROVE  \A x \in Nat : WindowHolds(x)'
  <1> TAKE x \in Nat
  <1>1. ByRedis' = ByRedis /\ \A p \in Processes : ByHost(p)' = ByHost(p)
    BY DEF ByRedis, ByHost, InRedis
  <1>2. ASSUME NEW R \in SUBSET Attempts
        PROVE  /\ Allowed(InWindow(R, x))' \in SUBSET Allowed(InWindow(R, x))
               /\ Distinct(InWindow(R, x))' => Distinct(InWindow(R, x))
    BY GateAssumption DEF Allowed, InWindow, Distinct, TypeOK
  <1>3. ASSUME NEW R \in SUBSET Attempts
        PROVE  /\ Cardinality(Allowed(InWindow(R, x))') <= Cardinality(Allowed(InWindow(R, x)))
               /\ Cardinality(Allowed(InWindow(R, x))') \in Nat
               /\ Cardinality(Allowed(InWindow(R, x))) \in Nat
    <2>1. Allowed(InWindow(R, x)) \in SUBSET Attempts
      BY DEF Allowed, InWindow
    <2> QED
      BY <1>2, <2>1, AttemptsFinite, FS_Subset, FS_CardinalityType
  <1>4. ByRedis \in SUBSET Attempts /\ \A p \in Processes : ByHost(p) \in SUBSET Attempts
    BY DEF ByRedis, ByHost
  <1> QED
    BY <1>1, <1>2, <1>3, <1>4, GateAssumption DEF WindowInv, WindowHolds

\* Allowing r in Redis keeps every window: what r finds in the sorted set are all the
\* allowed requests of a window that r lies in.
LEMMA AllowInRedis ==
  ASSUME TypeOK, WindowInv, NEW r \in ByRedis, pc[r] = "execute", host' = host, stamp' = stamp,
         zset' = Live(r) \cup {stamp[r]}, IsFiniteSet(zset'), Cardinality(zset') <= Limit,
         verdict' = [verdict EXCEPT ![r] = "allowed"],
         NEW x \in Nat
  PROVE  Distinct(InWindow(ByRedis, x))' =>
           Cardinality(Allowed(InWindow(ByRedis, x))') <= Limit
  <1> DEFINE W == InWindow(ByRedis, x)
             A == {q \in W : verdict'[q] = "allowed"}
  <1>1. W \in SUBSET Attempts /\ A \in SUBSET Attempts /\ r \in Attempts /\ InRedis(r)
    BY DEF InWindow, ByRedis
  <1>2. InWindow(ByRedis, x)' = W /\ Allowed(InWindow(ByRedis, x))' = A
    BY DEF InWindow, ByRedis, InRedis, Allowed
  <1>3. Distinct(InWindow(ByRedis, x))' = Distinct(W)
    BY <1>2 DEF Distinct
  <1> SUFFICES ASSUME Distinct(W) PROVE Cardinality(A) <= Limit
    BY <1>2, <1>3
  <1>4. IsFiniteSet(A) /\ Cardinality(A) \in Nat /\ Cardinality(zset') \in Nat
    BY <1>1, AttemptsFinite, FS_Subset, FS_CardinalityType
  <1>5. CASE r \notin W
    <2>1. A = Allowed(W)
      BY <1>1, <1>5 DEF Allowed, TypeOK
    <2> QED
      BY <2>1 DEF WindowInv, WindowHolds
  <1>6. CASE r \in W
    <2>1. ASSUME NEW q \in A PROVE stamp[q] \in zset'
      <3>1. CASE q = r
        BY <3>1
      <3>2. CASE q # r
        <4>1. verdict[q] = "allowed" /\ q \in ByRedis
          BY <3>2, <1>1 DEF InWindow, ByRedis, TypeOK
        <4>2. Own(q)
          BY DEF Distinct, Own, InWindow
        <4>3. clock < stamp[q] + Window
          BY <1>1, <1>6, GateAssumption DEF InWindow, WindowInv, StampsInTime, TypeOK
        <4>4. stamp[q] \in zset
          BY <4>1, <4>2, <4>3, <1>1, GateAssumption DEF WindowInv, Remembered, Old, TypeOK
        <4>5. stamp[r] < stamp[q] + Window
          BY <1>1, <1>6, GateAssumption DEF InWindow, TypeOK
        <4> QED
          BY <4>4, <4>5 DEF Live
      <3> QED
        BY <3>1, <3>2
    <2> DEFINE f == [q \in A |-> stamp[q]]
    <2>2. f \in [A -> zset']
      BY <2>1
    <2>3. \A p, q \in A : f[p] = f[q] => p = q
      BY DEF Distinct
    <2>4. ~ (Cardinality(zset') < Cardinality(A))
      <3> HIDE DEF f, A
      <3> QED
        BY <2>2, <2>3, <1>4, FS_PigeonHole
    <2> QED
      BY <2>4, <1>4, GateAssumption
  <1> QED
    BY <1>5, <1>6

\* Allowing r in the memory of its process does, too.
LEMMA AllowInMemory ==
  ASSUME TypeOK, WindowInv, NEW r \in Attempts, pc[r] = "execute", ~InRedis(r),
         host' = host, stamp' = stamp, Cardinality(Recent(r)) < Limit,
         verdict' = [verdict EXCEPT ![r] = "allowed"],
         NEW p \in Processes \ Online, NEW x \in Nat
  PROVE  Cardinality(Allowed(InWindow(ByHost(p), x))') <= Limit
  <1> DEFINE W == InWindow(ByHost(p), x)
             A == {q \in W : verdict'[q] = "allowed"}
  <1>1. A \in SUBSET Attempts /\ Allowed(InWindow(ByHost(p), x))' = A
    BY DEF InWindow, ByHost, Allowed
  <1>2. CASE r \notin W
    <2>1. A = Allowed(W)
      BY <1>2 DEF Allowed, InWindow, ByHost, TypeOK
    <2> QED
      BY <1>1, <2>1 DEF WindowInv, WindowHolds
  <1>3. CASE r \in W
    <2>1. host[r] = p
      BY <1>3 DEF InWindow, ByHost
    <2>2. A \subseteq Recent(r) \cup {r}
      <3> SUFFICES ASSUME NEW q \in A, q # r PROVE q \in Recent(r)
        OBVIOUS
      <3>1. verdict[q] = "allowed" /\ q \in ByHost(p) /\ q \in Attempts
        BY DEF InWindow, ByHost, TypeOK
      <3>2. clock < stamp[q] + Window /\ stamp[r] < stamp[q] + Window
        BY <1>3, <3>1, GateAssumption DEF InWindow, WindowInv, StampsInTime, TypeOK
      <3>3. q \in bucket[p]
        BY <3>1, <3>2, GateAssumption DEF WindowInv, Remembered, Old, TypeOK
      <3> QED
        BY <2>1, <3>2, <3>3 DEF Recent
    <2>3. IsFiniteSet(Recent(r)) /\ Cardinality(Recent(r)) \in Nat
      <3>1. Recent(r) \in SUBSET Attempts
        BY DEF Recent, TypeOK
      <3> QED
        BY <3>1, AttemptsFinite, FS_Subset, FS_CardinalityType
    <2>4. /\ IsFiniteSet(Recent(r) \cup {r})
          /\ Cardinality(Recent(r) \cup {r}) \in {Cardinality(Recent(r)), Cardinality(Recent(r)) + 1}
      BY <2>3, FS_AddElement
    <2>5. Cardinality(A) <= Cardinality(Recent(r) \cup {r}) /\ Cardinality(A) \in Nat
          /\ Cardinality(Recent(r) \cup {r}) \in Nat
      BY <2>2, <2>4, FS_Subset, FS_CardinalityType
    <2> QED
      BY <1>1, <2>3, <2>4, <2>5, GateAssumption
  <1> QED
    BY <1>2, <1>3

\* A step that touches neither clock nor window keeps the invariant.
LEMMA CalmWindow ==
  ASSUME TypeOK, WindowInv, UNCHANGED <<clock, host, stamp, zset, bucket, verdict>>,
         \A r \in Attempts : \/ pc'[r] = pc[r]
                             \/ pc[r] = "unsent" /\ pc'[r] = "limiter"
                             \/ pc'[r] \in {"save", "ok", "failed"}
  PROVE  WindowInv'
  <1>1. StampsInTime'
    BY DEF WindowInv, StampsInTime, InRedis
  <1>2. Remembered' /\ MemoryFinite'
    BY DEF WindowInv, Remembered, MemoryFinite, ByRedis, ByHost, InRedis, Own, Old
  <1>3. \A x \in Nat : WindowHolds(x)'
    BY QuietWindows
  <1> QED
    BY <1>1, <1>2, <1>3 DEF WindowInv

\* Time only makes requests old, and waits for those that have a stamp.
LEMMA TickWindow ==
  ASSUME TypeOK, WindowInv, Tick
  PROVE  WindowInv'
  <1> USE DEF Tick, serverVars
  <1>1. StampsInTime'
    BY GateAssumption DEF WindowInv, StampsInTime, InRedis, TypeOK
  <1>2. Remembered' /\ MemoryFinite'
    BY GateAssumption
    DEF WindowInv, Remembered, MemoryFinite, ByRedis, ByHost, InRedis, Own, Old, TypeOK
  <1>3. \A x \in Nat : WindowHolds(x)'
    BY QuietWindows
  <1> QED
    BY <1>1, <1>2, <1>3 DEF WindowInv

\* A new stamp is the clock's.
LEMMA StampWindow ==
  ASSUME TypeOK, WindowInv, NEW r \in Attempts, TakeStamp(r)
  PROVE  WindowInv'
  <1> USE DEF TakeStamp, Goto
  <1>0. clock > 0
    BY DEF TypeOK
  <1>1. StampsInTime'
    BY <1>0, GateAssumption DEF WindowInv, StampsInTime, InRedis, TypeOK
  <1>2. ASSUME NEW q \in Attempts, verdict[q] = "allowed"
        PROVE  stamp'[q] = stamp[q] /\ stamp[q] > 0 /\ q # r /\ (Own(q)' => Own(q))
    BY <1>2 DEF WindowInv, StampsInTime, Own, ByRedis, InRedis, TypeOK
  <1>3. Remembered' /\ MemoryFinite'
    BY <1>2 DEF WindowInv, Remembered, MemoryFinite, ByRedis, ByHost, InRedis, Old
  <1>4. \A x \in Nat : WindowHolds(x)'
    BY QuietWindows DEF WindowInv, StampsInTime, TypeOK
  <1> QED
    BY <1>1, <1>3, <1>4 DEF WindowInv

\* What an update of the sorted set by r forgets is old.
LEMMA LiveRemembers ==
  ASSUME TypeOK, WindowInv, NEW r \in Attempts, NEW q \in ByRedis,
         stamp[q] \in zset \/ Old(q)
  PROVE  stamp[q] \in Live(r) \/ Old(q)
  BY GateAssumption DEF WindowInv, StampsInTime, ByRedis, Live, Old, TypeOK

\* The sorted set stays finite.
LEMMA LiveFinite ==
  ASSUME WindowInv, NEW r \in Attempts
  PROVE  IsFiniteSet(Live(r) \cup {stamp[r]})
  <1>1. Live(r) \in SUBSET zset
    BY DEF Live
  <1> QED
    BY <1>1, FS_Subset, FS_AddElement DEF WindowInv, MemoryFinite

\* The decision of Redis keeps the invariant.
LEMMA PipelineWindow ==
  ASSUME TypeOK, WindowInv, NEW r \in Attempts, ExecutePipeline(r) \/ PipelineFails(r)
  PROVE  WindowInv'
  <1>0. /\ UNCHANGED <<clock, host, stamp, bucket>> /\ pc[r] = "execute" /\ InRedis(r)
        /\ zset' \in {zset, Live(r) \cup {stamp[r]}}
        /\ r \in ByRedis
    BY DEF ExecutePipeline, PipelineFails, ByRedis
  <1>1. \/ Decide(r, "refused", "zrem") \/ Decide(r, "broken", "failed")
        \/ /\ Decide(r, "allowed", "count") /\ zset' = Live(r) \cup {stamp[r]}
           /\ ~ (Cardinality(zset') > Limit)
    BY DEF ExecutePipeline, PipelineFails
  <1>2. StampsInTime'
    BY <1>0, <1>1 DEF Decide, Goto, WindowInv, StampsInTime, InRedis, TypeOK
  <1>3. MemoryFinite'
    BY <1>0, LiveFinite DEF WindowInv, MemoryFinite
  <1>4. Remembered'
    <2>1. ASSUME NEW q \in ByRedis, verdict'[q] = "allowed", Own(q) PROVE stamp[q] \in zset' \/ Old(q)
      <3>1. CASE q = r
        BY <3>1, <2>1, <1>0, <1>1 DEF Decide, TypeOK
      <3>2. CASE q # r
        <4>1. stamp[q] \in zset \/ Old(q)
          BY <3>2, <2>1, <1>1 DEF Decide, TypeOK, WindowInv, Remembered, ByRedis
        <4> QED
          BY <4>1, <1>0, LiveRemembers
      <3> QED
        BY <3>1, <3>2
    <2>2. ASSUME NEW p \in Processes \ Online, NEW q \in ByHost(p), verdict'[q] = "allowed"
          PROVE  q \in bucket[p] \/ Old(q)
      BY <2>2, <1>0, <1>1 DEF Decide, TypeOK, WindowInv, Remembered, ByHost, InRedis
    <2> QED
      BY <2>1, <2>2, <1>0 DEF Remembered, ByRedis, ByHost, InRedis, Own, Old
  <1>5. \A x \in Nat : WindowHolds(x)'
    <2>1. CASE Decide(r, "refused", "zrem") \/ Decide(r, "broken", "failed")
      BY <2>1, <1>0, QuietWindows DEF Decide, TypeOK
    <2>2. CASE /\ Decide(r, "allowed", "count") /\ zset' = Live(r) \cup {stamp[r]}
               /\ ~ (Cardinality(zset') > Limit)
      <3> TAKE x \in Nat
      <3>1. IsFiniteSet(zset') /\ Cardinality(zset') <= Limit
        BY <1>3, <2>2, FS_CardinalityType, GateAssumption DEF MemoryFinite
      <3>2. Distinct(InWindow(ByRedis, x))' => Cardinality(Allowed(InWindow(ByRedis, x))') <= Limit
        BY <3>1, <1>0, <2>2, AllowInRedis DEF Decide
      <3>3. ASSUME NEW p \in Processes \ Online
            PROVE  Allowed(InWindow(ByHost(p), x))' = Allowed(InWindow(ByHost(p), x))
        BY <1>0, <2>2 DEF Decide, Allowed, InWindow, ByHost, InRedis, TypeOK
      <3> QED
        BY <3>2, <3>3 DEF WindowInv, WindowHolds
    <2> QED
      BY <1>1, <2>1, <2>2
  <1> QED
    BY <1>2, <1>3, <1>4, <1>5 DEF WindowInv

\* A withdrawal takes out no stamp that an allowed request has for itself.
LEMMA WithdrawWindow ==
  ASSUME TypeOK, WindowInv, NEW r \in Attempts, Withdraw(r) \/ WithdrawFails(r)
  PROVE  WindowInv'
  <1>0. /\ UNCHANGED <<clock, host, stamp, bucket>> /\ pc[r] = "zrem"
        /\ zset' \in {zset, zset \ {stamp[r]}}
        /\ Decide(r, "denied", "failed") \/ Decide(r, "broken", "failed")
    BY DEF Withdraw, WithdrawFails
  <1>1. StampsInTime'
    BY <1>0 DEF Decide, Goto, WindowInv, StampsInTime, InRedis, TypeOK
  <1>2. MemoryFinite'
    BY <1>0, FS_RemoveElement DEF WindowInv, MemoryFinite
  <1>3. \A q \in Attempts : verdict'[q] = "allowed" => verdict[q] = "allowed" /\ q # r
    BY <1>0 DEF Decide, TypeOK
  <1>4. Remembered'
    <2>1. ASSUME NEW q \in ByRedis, verdict'[q] = "allowed", Own(q) PROVE stamp[q] \in zset' \/ Old(q)
      <3>1. stamp[q] \in zset \/ Old(q)
        BY <2>1, <1>3 DEF WindowInv, Remembered, ByRedis
      <3>2. stamp[q] # stamp[r]
        BY <2>1, <1>0, <1>3 DEF Own, ByRedis, WindowInv, StampsInTime
      <3> QED
        BY <3>1, <3>2, <1>0
    <2> QED
      BY <2>1, <1>0, <1>3 DEF WindowInv, Remembered, ByRedis, ByHost, InRedis, Own, Old
  <1>5. \A x \in Nat : WindowHolds(x)'
    BY <1>0, <1>3, QuietWindows
  <1> QED
    BY <1>1, <1>2, <1>4, <1>5 DEF WindowInv

\* The decision of a process without Redis keeps the invariant.
LEMMA MemoryWindow ==
  ASSUME TypeOK, WindowInv, NEW r \in Attempts, AskMemory(r)
  PROVE  WindowInv'
  <1>0. UNCHANGED <<clock, host, stamp, zset>> /\ pc[r] = "execute" /\ ~InRedis(r) /\ host[r] \in Processes
    BY DEF AskMemory, TypeOK
  <1>1. \/ Decide(r, "denied", "failed") /\ bucket' = bucket
        \/ /\ Decide(r, "allowed", "count") /\ ~ (Cardinality(Recent(r)) >= Limit)
           /\ bucket' = [bucket EXCEPT ![host[r]] = Recent(r) \cup {r}]
    BY DEF AskMemory
  <1>2. StampsInTime'
    BY <1>0, <1>1 DEF Decide, Goto, WindowInv, StampsInTime, InRedis, TypeOK
  <1>3. MemoryFinite'
    BY <1>0 DEF WindowInv, MemoryFinite
  <1>4. Remembered'
    <2>1. ASSUME NEW p \in Processes \ Online, NEW q \in ByHost(p), verdict'[q] = "allowed"
          PROVE  q \in bucket'[p] \/ Old(q)
      <3>1. q \in Attempts /\ host[q] = p
        BY DEF ByHost
      <3>2. CASE q = r
        BY <3>1, <3>2, <2>1, <1>0, <1>1 DEF Decide, TypeOK
      <3>3. CASE q # r
        <4>1. q \in bucket[p] \/ Old(q)
          BY <3>1, <3>3, <2>1, <1>1 DEF Decide, TypeOK, WindowInv, Remembered
        <4>2. stamp[r] <= clock
          BY DEF WindowInv, StampsInTime
        <4> QED
          BY <3>1, <4>1, <4>2, <1>0, <1>1, GateAssumption DEF Recent, Old, TypeOK
      <3> QED
        BY <3>2, <3>3
    <2>2. \A q \in ByRedis : verdict'[q] = verdict[q]
      BY <1>0, <1>1 DEF Decide, ByRedis, TypeOK
    <2> QED
      BY <2>1, <2>2, <1>0 DEF WindowInv, Remembered, ByRedis, ByHost, InRedis, Own, Old
  <1>5. \A x \in Nat : WindowHolds(x)'
    <2>1. CASE Decide(r, "denied", "failed")
      BY <2>1, <1>0, QuietWindows DEF Decide, TypeOK
    <2>2. CASE Decide(r, "allowed", "count") /\ ~ (Cardinality(Recent(r)) >= Limit)
      <3> TAKE x \in Nat
      <3>1. Recent(r) \in SUBSET Attempts
        BY <1>0 DEF Recent, TypeOK
      <3>2. Cardinality(Recent(r)) < Limit
        BY <2>2, <3>1, AttemptsFinite, FS_Subset, FS_CardinalityType, GateAssumption
      <3>3. ASSUME NEW p \in Processes \ Online
            PROVE  Cardinality(Allowed(InWindow(ByHost(p), x))') <= Limit
        BY <1>0, <2>2, <3>2, AllowInMemory DEF Decide
      <3>4. /\ Allowed(InWindow(ByRedis, x))' = Allowed(InWindow(ByRedis, x))
            /\ Distinct(InWindow(ByRedis, x))' = Distinct(InWindow(ByRedis, x))
        BY <1>0, <2>2 DEF Decide, Allowed, InWindow, ByRedis, InRedis, Distinct, TypeOK
      <3> QED
        BY <3>3, <3>4 DEF WindowInv, WindowHolds
    <2> QED
      BY <1>1, <2>1, <2>2
  <1> QED
    BY <1>2, <1>3, <1>4, <1>5 DEF WindowInv

\* Every step keeps the invariant.
LEMMA NextWindow == TypeOK /\ WindowInv /\ [Next]_vars => WindowInv'
  <1> SUFFICES ASSUME TypeOK, WindowInv, [Next]_vars PROVE WindowInv'
    OBVIOUS
  <1>1. ASSUME NEW f \in Files, NEW k \in 0..Retries, Send(f, k) PROVE WindowInv'
    <2>1. /\ UNCHANGED <<clock, host, stamp, zset, bucket, verdict>>
          /\ \A r \in Attempts : pc'[r] = pc[r] \/ (pc[r] = "unsent" /\ pc'[r] = "limiter")
      BY <1>1 DEF Send, Goto, TypeOK
    <2> QED
      BY <2>1, CalmWindow
  <1>2. ASSUME NEW r \in Attempts, CountItems(r) \/ RejectFile(r) \/ AddItem(r) PROVE WindowInv'
    <2>1. /\ UNCHANGED <<clock, host, stamp, zset, bucket, verdict>>
          /\ \A q \in Attempts : pc'[q] = pc[q] \/ pc'[q] \in {"save", "ok", "failed"}
      BY <1>2 DEF CountItems, RejectFile, AddItem, Goto, TypeOK
    <2> QED
      BY <2>1, CalmWindow
  <1>3. ASSUME NEW r \in Attempts, RemoveItem(r) \/ LoseConnection(r) PROVE WindowInv'
    BY <1>3, CalmWindow DEF RemoveItem, LoseConnection, serverVars
  <1>4. CASE UNCHANGED vars
    BY <1>4, CalmWindow DEF vars
  <1> QED
    BY <1>1, <1>2, <1>3, <1>4, TickWindow, StampWindow, PipelineWindow, WithdrawWindow, MemoryWindow
    DEF Next, Serve

\* The sliding window keeps its limit in every reachable state, for any number of
\* requests, in Redis as in memory.
THEOREM WindowLimit == Spec => []AllowedPerWindow
  <1>1. TypeOK /\ WindowInv => AllowedPerWindow
    BY DEF WindowInv, AllowedPerWindow, TypeOK
  <1> QED
    BY <1>1, GateTypeCorrect, InitWindow, NextWindow, PTL DEF Spec

-----------------------------------------------------------------------------
(***************************************************************************)
(* SecondRowNeedsLoss: an attempt is sent when the one before it has failed  *)
(* or was lost, and so had each one before that.                            *)
(***************************************************************************)
Chain ==
  /\ \A r \in added : pc[r] = "ok"
  /\ \A r \in lost : pc[r] # "unsent"
  /\ \A f \in Files, j, k \in 0..Retries :
       j < k /\ pc[<<f, k>>] # "unsent" => pc[<<f, j>>] = "failed" \/ <<f, j>> \in lost

\* A step that sends nothing keeps the chain when it ends nothing twice.
LEMMA ServedChain ==
  ASSUME TypeOK, TypeOK', Chain, lost \subseteq lost',
         \A r \in Attempts : pc'[r] = "unsent" <=> pc[r] = "unsent",
         \A r \in Attempts : pc[r] \in {"ok", "failed"} => pc'[r] = pc[r],
         \A r \in lost' : r \in lost \/ pc[r] # "unsent",
         \A r \in added' : r \in added \/ pc'[r] = "ok"
  PROVE  Chain'
  <1>1. \A f \in Files, k \in 0..Retries : <<f, k>> \in Attempts
    BY DEF Attempts
  <1>2. \A r \in added' \cup lost' \cup added \cup lost : r \in Attempts
    BY DEF TypeOK
  <1>3. \A r \in added' : pc'[r] = "ok"
    BY <1>2 DEF Chain
  <1>4. \A r \in lost' : pc'[r] # "unsent"
    BY <1>2 DEF Chain
  <1>5. ASSUME NEW f \in Files, NEW j \in 0..Retries, NEW k \in 0..Retries,
               j < k, pc'[<<f, k>>] # "unsent"
        PROVE  pc'[<<f, j>>] = "failed" \/ <<f, j>> \in lost'
    BY <1>1, <1>5 DEF Chain
  <1> QED
    BY <1>3, <1>4, <1>5 DEF Chain

\* The page sends an attempt when it has given up the one before, and that one was sent
\* when it had given up those before.
LEMMA SentChain ==
  ASSUME TypeOK, Chain, NEW f \in Files, NEW k \in 0..Retries, Send(f, k)
  PROVE  Chain'
  <1>1. \A g \in Files, j \in 0..Retries : <<g, j>> \in Attempts
    BY DEF Attempts
  <1>2. /\ UNCHANGED <<added, lost>>
        /\ pc[<<f, k>>] = "unsent" /\ pc' = [pc EXCEPT ![<<f, k>>] = "limiter"]
        /\ k > 0 => pc[<<f, k - 1>>] = "failed" \/ <<f, k - 1>> \in lost
    BY DEF Send, Goto
  <1>3. \A r \in added \cup lost : r # <<f, k>> /\ pc'[r] = pc[r]
    BY <1>2 DEF Chain, TypeOK
  <1>4. \A j \in 0..Retries : j < k => pc[<<f, j>>] = "failed" \/ <<f, j>> \in lost
    <2> TAKE j \in 0..Retries
    <2> HAVE j < k
    <2>1. k - 1 \in 0..Retries /\ k > 0 /\ (j = k - 1 \/ j < k - 1)
      BY GateAssumption
    <2>2. pc[<<f, k - 1>>] # "unsent"
      BY <1>2, <2>1 DEF Chain
    <2> QED
      BY <1>2, <2>1, <2>2 DEF Chain
  <1>5. ASSUME NEW g \in Files, NEW i \in 0..Retries, NEW j \in 0..Retries,
               i < j, pc'[<<g, j>>] # "unsent"
        PROVE  pc'[<<g, i>>] = "failed" \/ <<g, i>> \in lost'
    <2>1. pc[<<g, i>>] = "failed" \/ <<g, i>> \in lost
      <3>1. CASE <<g, j>> = <<f, k>>
        BY <1>4, <1>5, <3>1
      <3>2. CASE <<g, j>> # <<f, k>>
        BY <1>1, <1>2, <1>5, <3>2 DEF Chain, TypeOK
      <3> QED
        BY <3>1, <3>2
    <2>2. pc[<<g, i>>] = "failed" => <<g, i>> # <<f, k>>
      BY <1>2
    <2> QED
      BY <1>1, <1>2, <2>1, <2>2 DEF TypeOK
  <1> QED
    BY <1>2, <1>3, <1>5 DEF Chain

LEMMA NextChain == TypeOK /\ TypeOK' /\ Chain /\ [Next]_vars => Chain'
  <1> SUFFICES ASSUME TypeOK, TypeOK', Chain, [Next]_vars PROVE Chain'
    OBVIOUS
  <1>1. ASSUME NEW f \in Files, NEW k \in 0..Retries, Send(f, k) PROVE Chain'
    BY <1>1, SentChain
  <1>2. ASSUME NEW r \in Attempts, Serve(r) PROVE Chain'
    <2>1. /\ lost' = lost
          /\ pc[r] \in Serving /\ (added' = added \/ (added' = added \cup {r} /\ pc'[r] = "ok"))
          /\ \E l \in Locations \ {"unsent"} : pc' = [pc EXCEPT ![r] = l]
      BY <1>2 DEF Serve, TakeStamp, ExecutePipeline, PipelineFails, Withdraw, WithdrawFails, AskMemory,
         CountItems, RejectFile, AddItem, Decide, Goto, Serving, Locations, TypeOK
    <2>2. /\ \A q \in Attempts : pc'[q] = "unsent" <=> pc[q] = "unsent"
          /\ \A q \in Attempts : pc[q] \in {"ok", "failed"} => pc'[q] = pc[q]
      BY <2>1 DEF TypeOK, Serving
    <2> QED
      BY <2>1, <2>2, ServedChain
  <1>3. ASSUME NEW r \in Attempts, RemoveItem(r) PROVE Chain'
    BY <1>3, ServedChain DEF RemoveItem, serverVars
  <1>4. ASSUME NEW r \in Attempts, LoseConnection(r) PROVE Chain'
    BY <1>4, ServedChain DEF LoseConnection, serverVars, Serving
  <1>5. CASE Tick \/ UNCHANGED vars
    BY <1>5, ServedChain DEF Tick, vars, serverVars
  <1> QED
    BY <1>1, <1>2, <1>3, <1>4, <1>5 DEF Next

\* A file has a second row only when the page lost the answer to the attempt that got the
\* first, for any number of files, pages and retries.
THEOREM SecondRowWasLost == Spec => []SecondRowNeedsLoss
  <1>1. Init => Chain
    BY DEF Init, Chain, Attempts
  <1>2. Chain => SecondRowNeedsLoss
    BY DEF Chain, SecondRowNeedsLoss
  <1> QED
    BY <1>1, <1>2, GateTypeCorrect, NextChain, PTL DEF Spec

-----------------------------------------------------------------------------
(***************************************************************************)
(* RefusedWhenFull: every stamp in the sorted set, and every entry of a list *)
(* in memory, is one of a request that was let in, is being refused, or met  *)
(* an error.                                                               *)
(***************************************************************************)
Counted == {"allowed", "refused", "broken"}

Sources ==
  /\ \A s \in zset : \E q \in ByRedis : stamp[q] = s /\ verdict[q] \in Counted
  /\ \A p \in Processes : \A q \in bucket[p] : host[q] = p /\ verdict[q] = "allowed"

\* Stamps stay with their requests, and the decided remain in the count, unless a stamp
\* leaves the set.
LEMMA SourcesKept ==
  ASSUME TypeOK, TypeOK', Sources, host' = host, bucket' = bucket, zset' \subseteq zset,
         \A q \in Attempts : verdict[q] = "allowed" => verdict'[q] = "allowed",
         \A q \in Attempts :
           verdict[q] \in Counted => \/ verdict'[q] \in Counted /\ stamp'[q] = stamp[q]
                                     \/ stamp[q] \notin zset'
  PROVE  Sources'
  <1>1. ByRedis' = ByRedis /\ ByRedis \subseteq Attempts
    BY DEF ByRedis, InRedis
  <1>2. \A s \in zset' : \E q \in ByRedis : stamp'[q] = s /\ verdict'[q] \in Counted
    BY <1>1 DEF Sources
  <1>3. \A p \in Processes : \A q \in bucket[p] : q \in Attempts
    BY DEF TypeOK
  <1> QED
    BY <1>1, <1>2, <1>3 DEF Sources

\* The pipeline of r: what stays in the set, and the stamp of r.
LEMMA SourcesGrow ==
  ASSUME TypeOK, TypeOK', Sources, NEW r \in ByRedis, verdict[r] = "none",
         UNCHANGED <<host, bucket, stamp>>, zset' \subseteq zset \cup {stamp[r]},
         NEW v \in Counted, verdict' = [verdict EXCEPT ![r] = v]
  PROVE  Sources'
  <1>1. ByRedis' = ByRedis /\ ByRedis \subseteq Attempts
    BY DEF ByRedis, InRedis
  <1>2. \A q \in Attempts : verdict[q] \in Counted => q # r /\ verdict'[q] = verdict[q]
    BY DEF TypeOK, Counted
  <1>3. verdict'[r] = v
    BY <1>1 DEF TypeOK
  <1>4. \A s \in zset' : \E q \in ByRedis : stamp'[q] = s /\ verdict'[q] \in Counted
    BY <1>1, <1>2, <1>3 DEF Sources
  <1>5. \A p \in Processes : \A q \in bucket[p] : q \in Attempts /\ verdict'[q] = "allowed"
    BY <1>2 DEF TypeOK, Sources, Counted
  <1> QED
    BY <1>1, <1>4, <1>5 DEF Sources

LEMMA NextSources ==
  TypeOK /\ TypeOK' /\ WindowInv /\ Sources /\ [Next]_vars => Sources'
  <1> SUFFICES ASSUME TypeOK, TypeOK', WindowInv, Sources, [Next]_vars PROVE Sources'
    OBVIOUS
  <1>1. ASSUME NEW f \in Files, NEW k \in 0..Retries, Send(f, k) PROVE Sources'
    BY <1>1, SourcesKept DEF Send
  <1>2. ASSUME NEW r \in Attempts, TakeStamp(r) PROVE Sources'
    <2>1. verdict[r] = "none"
      BY <1>2 DEF TakeStamp, WindowInv, StampsInTime
    <2> QED
      BY <1>2, <2>1, SourcesKept DEF TakeStamp, TypeOK, Counted
  <1>3. ASSUME NEW r \in Attempts, ExecutePipeline(r) \/ PipelineFails(r) PROVE Sources'
    <2>1. verdict[r] = "none" /\ r \in ByRedis
      BY <1>3 DEF ExecutePipeline, PipelineFails, WindowInv, StampsInTime, ByRedis
    <2>2. UNCHANGED <<host, bucket, stamp>> /\ zset' \subseteq zset \cup {stamp[r]}
      BY <1>3 DEF ExecutePipeline, PipelineFails, Live
    <2>3. \E v \in Counted : verdict' = [verdict EXCEPT ![r] = v]
      BY <1>3 DEF ExecutePipeline, PipelineFails, Decide, Counted
    <2> QED
      BY <2>1, <2>2, <2>3, SourcesGrow
  <1>4. ASSUME NEW r \in Attempts, Withdraw(r) \/ WithdrawFails(r) PROVE Sources'
    <2>1. verdict[r] = "refused" /\ UNCHANGED <<host, bucket, stamp>> /\ zset' \subseteq zset
      BY <1>4 DEF Withdraw, WithdrawFails, WindowInv, StampsInTime
    <2>2. \/ verdict' = [verdict EXCEPT ![r] = "denied"] /\ stamp[r] \notin zset'
          \/ verdict' = [verdict EXCEPT ![r] = "broken"]
      BY <1>4 DEF Withdraw, WithdrawFails, Decide
    <2> QED
      BY <2>1, <2>2, SourcesKept DEF TypeOK, Counted
  <1>5. ASSUME NEW r \in Attempts, AskMemory(r) PROVE Sources'
    <2>1. verdict[r] = "none" /\ UNCHANGED <<host, stamp, zset>>
      BY <1>5 DEF AskMemory, WindowInv, StampsInTime
    <2>2. \E v \in {"allowed", "denied"} : verdict' = [verdict EXCEPT ![r] = v]
      BY <1>5 DEF AskMemory, Decide
    <2>3. \A q \in Attempts : verdict[q] \in Counted => verdict'[q] = verdict[q]
      BY <2>1, <2>2 DEF TypeOK, Counted
    <2>4. ASSUME NEW p \in Processes, NEW q \in bucket'[p]
          PROVE  host[q] = p /\ verdict'[q] = "allowed"
      <3>1. q \in bucket[p] \/ (q = r /\ p = host[r] /\ verdict'[r] = "allowed")
        BY <1>5, <2>4 DEF AskMemory, Recent, Decide, TypeOK
      <3> QED
        BY <2>3, <3>1 DEF Sources, TypeOK, Counted
    <2>5. ByRedis' = ByRedis /\ ByRedis \subseteq Attempts
      BY <2>1 DEF ByRedis, InRedis
    <2> QED
      BY <2>1, <2>3, <2>4, <2>5 DEF Sources
  <1>6. ASSUME NEW r \in Attempts, CountItems(r) \/ RejectFile(r) \/ AddItem(r) PROVE Sources'
    BY <1>6, SourcesKept DEF CountItems, RejectFile, AddItem
  <1>7. ASSUME NEW r \in Attempts, RemoveItem(r) \/ LoseConnection(r) PROVE Sources'
    BY <1>7, SourcesKept DEF RemoveItem, LoseConnection, serverVars
  <1>8. CASE Tick \/ UNCHANGED vars
    BY <1>8, SourcesKept DEF Tick, vars, serverVars
  <1> QED
    BY <1>1, <1>2, <1>3, <1>4, <1>5, <1>6, <1>7, <1>8 DEF Next, Serve

\* The other requests that use up the limit when r is refused.
Rivals(r) ==
  {q \in Attempts \ {r} :
     /\ verdict[q] \in {"allowed", "refused", "broken"}
     /\ host[q] = host[r] \/ (InRedis(q) /\ InRedis(r))
     /\ stamp[q] + Window > stamp[r]}

LEMMA RivalsFinite ==
  ASSUME NEW r PROVE IsFiniteSet(Rivals(r)) /\ Cardinality(Rivals(r)) \in Nat
  <1>1. Rivals(r) \in SUBSET Attempts
    BY DEF Rivals
  <1> QED
    BY <1>1, AttemptsFinite, FS_Subset, FS_CardinalityType

\* In Redis: each stamp that the pipeline found beside its own has its request.
LEMMA RefusedInRedis ==
  ASSUME TypeOK, WindowInv, Sources, NEW r \in ByRedis, verdict[r] = "none",
         Cardinality(Live(r) \cup {stamp[r]}) > Limit
  PROVE  Cardinality(Rivals(r)) >= Limit
  <1> DEFINE S == Live(r) \ {stamp[r]}
             f == [s \in S |-> CHOOSE q \in Rivals(r) : stamp[q] = s]
  <1>1. IsFiniteSet(S)
    BY FS_Subset DEF WindowInv, MemoryFinite, Live
  <1>2. Live(r) \cup {stamp[r]} = S \cup {stamp[r]}
    OBVIOUS
  <1>3. Cardinality(S) \in Nat /\ Cardinality(S \cup {stamp[r]}) = Cardinality(S) + 1
    BY <1>1, FS_AddElement, FS_CardinalityType
  <1> HIDE DEF S
  <1>4. Cardinality(S) >= Limit
    <2>1. Cardinality(S) + 1 > Limit
      BY <1>2, <1>3
    <2> QED
      BY <1>3, <2>1, GateAssumption
  <1>5. \A s \in S : \E q \in Rivals(r) : stamp[q] = s
    BY DEF S, Sources, Live, Rivals, ByRedis, Counted
  <1>6. f \in [S -> Rivals(r)] /\ \A s \in S : stamp[f[s]] = s
    BY <1>5
  <1> HIDE DEF f
  <1>7. f \in Injection(S, Rivals(r))
    BY <1>6 DEF Injection, IsInjective
  <1>8. Cardinality(S) <= Cardinality(Rivals(r))
    BY <1>7, RivalsFinite, FS_Injection
  <1> QED
    BY <1>3, <1>4, <1>8, RivalsFinite, GateAssumption

\* In memory: each recent entry of the list is a request of the same process.
LEMMA RefusedInMemory ==
  ASSUME TypeOK, Sources, NEW r \in Attempts, verdict[r] = "none",
         Cardinality(Recent(r)) >= Limit
  PROVE  Cardinality(Rivals(r)) >= Limit
  <1>1. Recent(r) \in SUBSET Rivals(r)
    BY DEF Recent, Rivals, Sources, TypeOK
  <1>2. Cardinality(Recent(r)) <= Cardinality(Rivals(r)) /\ Cardinality(Recent(r)) \in Nat
    BY <1>1, RivalsFinite, FS_Subset, FS_CardinalityType
  <1> QED
    BY <1>2, RivalsFinite, GateAssumption

\* Whom the limiter refuses, for any limit and window, it refuses because that many other
\* requests of the window were let in, are about to be withdrawn or met an error of Redis.
THEOREM RefusalIsEarned == Spec => RefusedWhenFull
  <1> DEFINE Earned == \A r \in Attempts :
               verdict[r] = "none" /\ verdict'[r] \in {"refused", "denied"} =>
                 Cardinality(Rivals(r)) >= Limit
  <1>1. Init => Sources
    BY DEF Init, Sources
  <1>2. TypeOK /\ WindowInv /\ Sources /\ [Next]_vars => [Earned]_vars
    <2> SUFFICES ASSUME TypeOK, WindowInv, Sources, Next, NEW r \in Attempts,
                        verdict[r] = "none", verdict'[r] \in {"refused", "denied"}
                 PROVE  Cardinality(Rivals(r)) >= Limit
      OBVIOUS
    <2>1. ASSUME NEW f \in Files, NEW k \in 0..Retries, Send(f, k) PROVE FALSE
      BY <2>1 DEF Send
    <2>2. ASSUME NEW q \in Attempts, ExecutePipeline(q) PROVE Cardinality(Rivals(r)) >= Limit
      <3>1. q = r /\ r \in ByRedis /\ Cardinality(Live(r) \cup {stamp[r]}) > Limit
        BY <2>2 DEF ExecutePipeline, Decide, ByRedis, TypeOK
      <3> QED
        BY <3>1, RefusedInRedis
    <2>3. ASSUME NEW q \in Attempts, AskMemory(q) PROVE Cardinality(Rivals(r)) >= Limit
      <3>1. q = r /\ Cardinality(Recent(r)) >= Limit
        BY <2>3 DEF AskMemory, Decide, TypeOK
      <3> QED
        BY <3>1, RefusedInMemory
    <2>4. ASSUME NEW q \in Attempts, PipelineFails(q) PROVE FALSE
      BY <2>4 DEF PipelineFails, Decide, TypeOK
    <2>5. ASSUME NEW q \in Attempts, Withdraw(q) \/ WithdrawFails(q) PROVE FALSE
      <3>1. verdict[q] = "refused" /\ \A p \in Attempts : p # q => verdict'[p] = verdict[p]
        BY <2>5 DEF Withdraw, WithdrawFails, Decide, WindowInv, StampsInTime, TypeOK
      <3> QED
        BY <3>1
    <2>6. ASSUME NEW q \in Attempts,
                 TakeStamp(q) \/ CountItems(q) \/ RejectFile(q) \/ AddItem(q) PROVE FALSE
      BY <2>6 DEF TakeStamp, CountItems, RejectFile, AddItem
    <2>7. ASSUME NEW q \in Attempts, RemoveItem(q) \/ LoseConnection(q) PROVE FALSE
      BY <2>7 DEF RemoveItem, LoseConnection, serverVars
    <2>8. CASE Tick
      BY <2>8 DEF Tick, serverVars
    <2> QED
      BY <2>1, <2>2, <2>3, <2>4, <2>5, <2>6, <2>7, <2>8 DEF Next, Serve
  <1>3. Spec => [][Earned]_vars
    BY <1>1, <1>2, GateTypeCorrect, InitWindow, NextWindow, NextSources, PTL DEF Spec
  <1> QED
    BY <1>3, PTL DEF RefusedWhenFull, Rivals
=============================================================================
