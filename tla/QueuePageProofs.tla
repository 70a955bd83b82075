-------------------------- MODULE QueuePageProofs --------------------------
(***************************************************************************)
(* LastIsNewest and TypeOK of QueuePage, for any pages, lists, threads and     *)
(* bounds: what queue_events compares with is what its page has or will have, *)
(* and what counts requests and generators never falls below zero.           *)
(***************************************************************************)
EXTENDS QueuePage, SequenceTheorems, TLAPS

\* The part of TypeOK that the argument needs: the fetches and the generators
\* without a page have no part in it.
StreamTypeOK ==
  /\ table \in Lists
  /\ shown \in [Pages -> Lists \cup {Empty}]
  /\ stream \in [Pages -> {"null", "connecting", "open"}]
  /\ last \in [Pages -> Answers]
  /\ pipe \in [Pages -> Seq(Lists)]
  /\ disturbed \in [Pages -> BOOLEAN]

\* A stream that is not open has no generator: nothing sent, nothing on its way.
Fresh(p) == last[p] = NoList /\ pipe[p] = <<>>

\* LastIsNewest of one page.
Newest(p) ==
  IF pipe[p] # <<>> THEN pipe[p][Len(pipe[p])] = last[p]
  ELSE last[p] = NoList \/ shown[p] = last[p] \/ disturbed[p]

IInv == /\ StreamTypeOK
        /\ \A p \in Pages : (stream[p] # "open" => Fresh(p)) /\ Newest(p)

-----------------------------------------------------------------------------
\* What a step of one page leaves of the others.
Others(p) ==
  \A q \in Pages \ {p} : /\ stream'[q] = stream[q] /\ last'[q] = last[q]
                         /\ pipe'[q] = pipe[q]     /\ shown'[q] = shown[q]
                         /\ disturbed'[q] = disturbed[q]

LEMMA OnePage ==
  ASSUME IInv, StreamTypeOK', NEW p \in Pages, Others(p),
         stream'[p] # "open" => Fresh(p)', Newest(p)'
  PROVE  IInv'
  <1> SUFFICES ASSUME NEW q \in Pages PROVE (stream'[q] # "open" => Fresh(q)') /\ Newest(q)'
    BY DEF IInv
  <1>1. CASE q # p
    BY <1>1 DEF IInv, Others, Fresh, Newest
  <1> QED
    BY <1>1

\* The page, or a list that is not a snapshot of its stream, is put on the page.
LEMMA OverwriteKept ==
  ASSUME IInv, NEW p \in Pages, NEW l \in Lists \cup {Empty}, Overwrite(p, l),
         UNCHANGED <<table, streamVars>>
  PROVE  IInv'
  <1> USE DEF IInv, StreamTypeOK, Overwrite, streamVars
  <1>1. StreamTypeOK' /\ Others(p)
    BY DEF Others
  <1>2. Newest(p)'
    BY DEF Newest
  <1> QED
    BY <1>1, <1>2, OnePage DEF Fresh

LEMMA PollKept ==
  ASSUME IInv, NEW p \in Pages, StreamPoll(p)
  PROVE  IInv'
  <1> USE DEF IInv, StreamTypeOK, StreamPoll
  <1>1. /\ pipe[p] \in Seq(Lists) /\ table \in Lists /\ table \in Answers
        /\ pipe'[p] = Append(pipe[p], table) /\ last'[p] = table
    BY DEF Answers
  <1>2. /\ pipe'[p] \in Seq(Lists) /\ pipe'[p] # <<>>
        /\ pipe'[p][Len(pipe'[p])] = table
    BY <1>1, AppendProperties
  <1>3. StreamTypeOK' /\ Others(p)
    BY <1>1, <1>2 DEF Others
  <1>4. Newest(p)' /\ stream'[p] = "open"
    BY <1>1, <1>2 DEF Newest
  <1> QED
    BY <1>3, <1>4, OnePage

LEMMA RenderKept ==
  ASSUME IInv, NEW p \in Pages, Render(p)
  PROVE  IInv'
  <1> USE DEF IInv, StreamTypeOK, Render
  <1>1. /\ pipe[p] \in Seq(Lists) /\ pipe[p] # <<>> /\ stream[p] = "open"
        /\ pipe[p][Len(pipe[p])] = last[p]
        /\ pipe'[p] = Tail(pipe[p]) /\ shown'[p] = Head(pipe[p]) /\ last'[p] = last[p]
    BY DEF Fresh, Newest
  <1>2. /\ Head(pipe[p]) = pipe[p][1] /\ Head(pipe[p]) \in Lists
        /\ Tail(pipe[p]) \in Seq(Lists) /\ Len(Tail(pipe[p])) = Len(pipe[p]) - 1
        /\ \A i \in 1..Len(Tail(pipe[p])) : Tail(pipe[p])[i] = pipe[p][i + 1]
    BY <1>1, HeadTailProperties, ElementOfSeq, EmptySeq
  <1>3. StreamTypeOK' /\ Others(p)
    BY <1>1, <1>2 DEF Others
  <1>4. PICK t \in Seq(Lists) : t = Tail(pipe[p])
    BY <1>2
  <1>5. PICK n \in Nat : n = Len(t) /\ Len(pipe[p]) = n + 1 /\ (t # <<>> => n # 0)
    <2>1. Len(t) \in Nat /\ Len(pipe[p]) \in Nat
      BY <1>1, LenProperties
    <2>2. t # <<>> => Len(t) # 0
      BY EmptySeq
    <2>3. Len(t) = Len(pipe[p]) - 1
      BY <1>2, <1>4
    <2>4. Len(pipe[p]) = Len(t) + 1
      BY <2>1, <2>3
    <2> QED
      BY <2>1, <2>2, <2>4
  <1>6. CASE t = <<>>
    <2>1. Len(<<>>) = 0
      BY EmptySeq
    <2>2. n = 0
      BY <1>5, <1>6, <2>1
    <2>3. pipe[p][1] = last[p]
      BY <1>1, <1>5, <2>2
    <2> QED
      BY <1>1, <1>2, <1>3, <1>4, <1>6, <2>3, OnePage DEF Newest
  <1>7. CASE t # <<>>
    <2>1. n \in 1..n
      BY <1>5, <1>7
    <2>2. t[n] = last[p]
      BY <1>1, <1>2, <1>4, <1>5, <2>1
    <2> QED
      BY <1>1, <1>3, <1>4, <1>5, <1>7, <2>2, OnePage DEF Newest
  <1> QED
    BY <1>6, <1>7

\* The page leaves its stream: nothing is left of it.
LEMMA PartKept ==
  ASSUME IInv, NEW p \in Pages, StreamError(p) \/ Reload(p)
  PROVE  IInv'
  <1> USE DEF IInv, StreamTypeOK, StreamError, Reload, Part
  <1>1. last'[p] = NoList /\ pipe'[p] = <<>>
    BY DEF Answers
  <1>2. StreamTypeOK' /\ Others(p)
    <2>1. <<>> \in Seq(Lists) /\ NoList \in Answers
      BY EmptySeq DEF Answers
    <2> QED
      BY <2>1 DEF Others
  <1> QED
    BY <1>1, <1>2, OnePage DEF Fresh, Newest

LEMMA Begins == Init => IInv
  <1>1. <<>> \in Seq(Lists)
    BY EmptySeq
  <1> QED
    BY <1>1 DEF Init, IInv, StreamTypeOK, Fresh, Newest, Answers

LEMMA Kept == IInv /\ [Next]_vars => IInv'
  <1> SUFFICES ASSUME IInv, [Next]_vars PROVE IInv'
    OBVIOUS
  <1> USE DEF IInv, StreamTypeOK, Fresh, Newest
  <1>1. ASSUME NEW l \in Lists, Change(l) PROVE IInv'
    BY <1>1 DEF Change, streamVars
  <1>2. ASSUME NEW p \in Pages,
               Connect(p) \/ StreamPoll(p) \/ Render(p) \/ StreamError(p) \/ Reload(p)
        PROVE  IInv'
    <2>1. CASE Connect(p)
      BY <2>1 DEF Connect
    <2> QED
      BY <1>2, <2>1, PollKept, RenderKept, PartKept
  <1>3. ASSUME NEW l \in Answers, ZombieEnds(l) PROVE IInv'
    BY <1>3 DEF ZombieEnds, streamVars
  <1>9. ASSUME NEW p \in Pages, OpenItem(p) \/ CloseItem(p) PROVE IInv'
    BY <1>9 DEF OpenItem, CloseItem, streamVars
  <1>10. CASE RunInline \/ WorkEnds
    BY <1>10 DEF RunInline, WorkEnds, streamVars
  <1>4. ASSUME NEW p \in Pages, Poll(p) \/ UserLoads(p) PROVE IInv'
    BY <1>4 DEF Poll, UserLoads, Load, streamVars
  <1>5. ASSUME NEW p \in Pages, NEW f \in Fetches, Serve(p, f) PROVE IInv'
    BY <1>5 DEF Serve, streamVars
  <1>6. ASSUME NEW p \in Pages, NEW f \in Fetches, RenderList(p, f) \/ LoseFetch(p, f) PROVE IInv'
    <2>1. \E l \in Lists \cup {Empty} : Overwrite(p, l)
      BY <1>6 DEF RenderList, LoseFetch, Fetches, Answers
    <2>2. UNCHANGED <<table, streamVars>>
      BY <1>6 DEF RenderList, LoseFetch, streamVars
    <2> QED
      BY <2>1, <2>2, OverwriteKept
  <1>7. ASSUME NEW p \in Pages, NEW l \in Lists, Mark(p, l) PROVE IInv'
    BY <1>7, OverwriteKept DEF Mark, streamVars
  <1>8. CASE UNCHANGED vars
    BY <1>8 DEF vars, streamVars
  <1> QED
    BY <1>1, <1>2, <1>3, <1>4, <1>5, <1>6, <1>7, <1>8, <1>9, <1>10 DEF Next

-----------------------------------------------------------------------------
\* LastIsNewest: what the generator of queue_events takes for its page's list is on the way
\* to the page, or on it, unless something else was written over it.
THEOREM StreamKnowsItsPage == Spec => []LastIsNewest
  <1>1. IInv => LastIsNewest
    BY DEF IInv, Newest, LastIsNewest
  <1> QED
    BY <1>1, Begins, Kept, PTL DEF Spec

-----------------------------------------------------------------------------
\* The rest of TypeOK: requests and generators are counted, and no count falls below zero.
CountsTypeOK ==
  /\ fetches \in [Pages -> [Fetches -> Nat]]
  /\ zombies \in [Answers -> Nat]
  /\ held \in [Pages -> 0..ItemStreams]
  /\ work \in Nat
  /\ events \in 0..MaxEvents

\* One more request of one kind, or one fewer.
LEMMA CountMoves ==
  ASSUME NEW S, NEW c \in [S -> Nat], NEW x \in S
  PROVE  /\ [c EXCEPT ![x] = @ + 1] \in [S -> Nat]
         /\ c[x] > 0 => [c EXCEPT ![x] = @ - 1] \in [S -> Nat]
  OBVIOUS

\* The bound on what happens is kept by the guard that every such action has.
LEMMA HappensOnce == CountsTypeOK /\ Happens => events' \in 0..MaxEvents
  BY PageAssumption DEF CountsTypeOK, Happens

\* A new request, the answer it gets, and the requests of a page that starts.
LEMMA FetchTypes ==
  /\ \A b \in BOOLEAN : NewFetch(b) \in Fetches
  /\ \A f \in Fetches : table \in Lists => [f EXCEPT !.answer = table] \in Fetches
  /\ FirstFetch \in [Fetches -> Nat]
  BY DEF NewFetch, FirstFetch, Fetches, Answers

\* An answer is another fetch than the one it answers: Serve moves one of the page's
\* requests and loses none.
LEMMA CountsKept == IInv /\ CountsTypeOK /\ [Next]_vars => CountsTypeOK'
  <1> SUFFICES ASSUME IInv, CountsTypeOK, [Next]_vars PROVE CountsTypeOK'
    OBVIOUS
  <1>0. table \in Lists /\ shown \in [Pages -> Lists \cup {Empty}] /\ last \in [Pages -> Answers]
    BY DEF IInv, StreamTypeOK
  <1> USE DEF CountsTypeOK, threadVars
  <1>1. ASSUME NEW l \in Lists, Change(l) PROVE CountsTypeOK'
    BY <1>1, HappensOnce DEF Change
  <1>2. ASSUME NEW p \in Pages, Connect(p) \/ StreamPoll(p) \/ Render(p) PROVE CountsTypeOK'
    BY <1>2 DEF Connect, StreamPoll, Render
  <1>3. ASSUME NEW p \in Pages, StreamError(p) \/ Reload(p) PROVE CountsTypeOK'
    <2>0. Part(p, "null") \/ Part(p, "connecting")
      BY <1>3 DEF StreamError, Reload
    <2>1. zombies' \in [Answers -> Nat]
      <3> HIDE DEF CountsTypeOK
      <3>1. zombies \in [Answers -> Nat] /\ last[p] \in Answers
        BY <1>0 DEF CountsTypeOK
      <3>2. zombies' = zombies \/ zombies' = [zombies EXCEPT ![last[p]] = @ + 1]
        BY <2>0 DEF Part
      <3> QED
        BY <3>1, <3>2, CountMoves
    <2>2. fetches' \in [Pages -> [Fetches -> Nat]]
      BY <1>3, FetchTypes DEF StreamError, Reload
    <2>3. held' \in [Pages -> 0..ItemStreams] /\ work' \in Nat
      BY <1>3, PageAssumption DEF StreamError, Reload
    <2> QED
      BY <1>3, <2>1, <2>2, <2>3, HappensOnce DEF StreamError, Reload
  <1>4. ASSUME NEW l \in Answers, ZombieEnds(l) PROVE CountsTypeOK'
    BY <1>4, CountMoves DEF ZombieEnds
  <1>10. ASSUME NEW p \in Pages, OpenItem(p) \/ CloseItem(p) PROVE CountsTypeOK'
    <2>1. held' \in [Pages -> 0..ItemStreams] /\ work' \in Nat
      BY <1>10, PageAssumption DEF OpenItem, CloseItem
    <2> QED
      BY <1>10, <2>1, HappensOnce DEF OpenItem, CloseItem
  <1>11. CASE RunInline \/ WorkEnds
    <2>1. work' \in Nat
      BY <1>11 DEF RunInline, WorkEnds
    <2> QED
      BY <1>11, <2>1, HappensOnce DEF RunInline, WorkEnds
  <1>5. ASSUME NEW p \in Pages, Poll(p) \/ UserLoads(p) PROVE CountsTypeOK'
    <2>1. PICK g \in Fetches : fetches' = [fetches EXCEPT ![p][g] = @ + 1]
      BY <1>5, FetchTypes DEF Poll, UserLoads, Load
    <2>2. fetches[p] \in [Fetches -> Nat]
      OBVIOUS
    <2>3. fetches' \in [Pages -> [Fetches -> Nat]]
      BY <2>1, <2>2
    <2> QED
      BY <1>5, <2>3, HappensOnce DEF Poll, UserLoads, Load
  <1>6. ASSUME NEW p \in Pages, NEW f \in Fetches, Serve(p, f) PROVE CountsTypeOK'
    <2> DEFINE g == [f EXCEPT !.answer = table]
               c == [fetches[p] EXCEPT ![f] = @ - 1]
    <2>1. g \in Fetches /\ g # f
      <3>1. g.answer = table /\ table # NoList
        BY <1>0, PageAssumption DEF Fetches
      <3> QED
        BY <1>0, <1>6, <3>1, FetchTypes DEF Serve
    <2>2. fetches[p] \in [Fetches -> Nat] /\ fetches[p][f] > 0
      BY <1>6 DEF Serve
    <2>3. c \in [Fetches -> Nat]
      BY <2>2, CountMoves
    <2>4. [c EXCEPT ![g] = @ + 1] \in [Fetches -> Nat]
      BY <2>1, <2>3, CountMoves
    <2>5. c[g] = fetches[p][g]
      BY <2>1, <2>2
    <2>6. fetches' = [fetches EXCEPT ![p] = [c EXCEPT ![g] = @ + 1]]
      <3> HIDE DEF g
      <3>1. fetches' = [fetches EXCEPT ![p][f] = @ - 1, ![p][g] = @ + 1]
        BY <1>6 DEF Serve, g
      <3> QED
        BY <2>1, <2>2, <2>5, <3>1
    <2> QED
      BY <1>6, <2>4, <2>6 DEF Serve
  <1>7. ASSUME NEW p \in Pages, NEW f \in Fetches, RenderList(p, f) \/ LoseFetch(p, f)
        PROVE  CountsTypeOK'
    <2>1. fetches[p] \in [Fetches -> Nat] /\ fetches[p][f] > 0
      BY <1>7 DEF RenderList, LoseFetch
    <2>2. fetches' \in [Pages -> [Fetches -> Nat]]
      BY <1>7, <2>1 DEF RenderList, LoseFetch
    <2> QED
      BY <1>7, <2>2, HappensOnce DEF RenderList, LoseFetch
  <1>8. ASSUME NEW p \in Pages, NEW l \in Lists, Mark(p, l) PROVE CountsTypeOK'
    BY <1>8, HappensOnce DEF Mark
  <1>9. CASE UNCHANGED vars
    BY <1>9 DEF vars
  <1> QED
    BY <1>1, <1>2, <1>3, <1>4, <1>5, <1>6, <1>7, <1>8, <1>9, <1>10, <1>11 DEF Next

\* Every variable keeps its type: in particular list_queue never answers a request that
\* is gone, and a generator or an execution gives back the thread it has, once.
THEOREM PageTypeCorrect == Spec => []TypeOK
  <1>1. Init => CountsTypeOK
    BY FetchTypes, PageAssumption DEF Init, CountsTypeOK
  <1>2. IInv /\ CountsTypeOK => TypeOK
    BY DEF IInv, StreamTypeOK, CountsTypeOK, TypeOK
  <1> QED
    BY <1>1, <1>2, Begins, Kept, CountsKept, PTL DEF Spec
=============================================================================
