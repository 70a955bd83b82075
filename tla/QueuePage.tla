------------------------------ MODULE QueuePage ------------------------------
(***************************************************************************)
(* The queue list of one session in the pages that show it: the stream of   *)
(* snapshots from queue_events, the answers of list_queue (app.py), and the  *)
(* page that renders both and polls when it has no stream (app.js).          *)
(*                                                                         *)
(* Streams and fetches share the threads of the gunicorn process that        *)
(* accepted them (start.sh): a stream of the list, and one of an item         *)
(* (queue_stream, see LogStream), holds one for as long as it lives, and a    *)
(* generator whose page has gone lives on until it writes.                  *)
(***************************************************************************)
EXTENDS FiniteSets, Sequences, Functions

CONSTANTS Pages,      \* pages open on the session, served by one process
          Lists,      \* the lists the table may hold
          Empty,      \* the page without items
          NoList,     \* None, or no answer yet
          Threads,    \* WEB_THREADS
          ItemStreams,\* bound: streams of items that a page has at a time
          MaxFetches, \* bound: fetches of /api/queue that a page has on the way
          MaxEvents   \* bound: changes, losses and what users do, together

ASSUME PageAssumption ==
  /\ NoList \notin Lists /\ NoList # Empty
  /\ Threads \in Nat /\ ItemStreams \in Nat /\ MaxFetches \in Nat \ {0} /\ MaxEvents \in Nat

VARIABLES table,      \* the rows of the session, as list_items returns them
          shown,      \* shown[p]: the items on the page
          stream,     \* stream[p]: queueES, null or an EventSource that connects or is open
          last,       \* last[p]: last_state of the generator of p, None before it has sent
          pipe,       \* pipe[p]: snapshots sent and not rendered
          fetches,    \* fetches[p]: how many fetches of each kind p waits for
          zombies,    \* zombies[l]: generators without a page whose last_state is l
          held,       \* held[p]: generators of queue_stream for p
          work,       \* executions in a web thread, generators of queue_stream without a page
          disturbed,  \* history: since its last snapshot something else changed p
          events      \* how much of the bound is used

vars == <<table, shown, stream, last, pipe, fetches, zombies, held, work,
          disturbed, events>>
streamVars == <<stream, last, pipe>>
threadVars == <<zombies, held, work>>

Answers == Lists \cup {NoList}

\* A fetch: whether the page had items when it was sent, and the answer it has.
Fetches == [had : BOOLEAN, answer : Answers]

TypeOK ==
  /\ table \in Lists
  /\ shown \in [Pages -> Lists \cup {Empty}]
  /\ stream \in [Pages -> {"null", "connecting", "open"}]
  /\ last \in [Pages -> Answers]
  /\ pipe \in [Pages -> Seq(Lists)]
  /\ fetches \in [Pages -> [Fetches -> Nat]]
  /\ zombies \in [Answers -> Nat]
  /\ held \in [Pages -> 0..ItemStreams]
  /\ work \in Nat
  /\ disturbed \in [Pages -> BOOLEAN]
  /\ events \in 0..MaxEvents

NewFetch(hasItems) == [had |-> hasItems, answer |-> NoList]

\* The fetches of a page that starts: the one of loadQueue, from an empty page.
FirstFetch == [f \in Fetches |-> IF f = NewFetch(FALSE) THEN 1 ELSE 0]

\* What the script of a page starts with: loadQueue, then connectQueueSSE.
Init ==
  /\ table \in Lists
  /\ shown = [p \in Pages |-> Empty]
  /\ stream = [p \in Pages |-> "connecting"]
  /\ last = [p \in Pages |-> NoList]
  /\ pipe = [p \in Pages |-> <<>>]
  /\ fetches = [p \in Pages |-> FirstFetch]
  /\ zombies = [l \in Answers |-> 0]
  /\ held = [p \in Pages |-> 0]
  /\ work = 0
  /\ disturbed = [p \in Pages |-> FALSE]
  /\ events = 0

-----------------------------------------------------------------------------
\* Threads held by generators and executions; a fetch or a new stream needs another one.
Busy == Cardinality({p \in Pages : stream[p] = "open"}) + SumFunction(zombies)
        + SumFunction(held) + work

FreeThread == Busy < Threads

\* What nobody asks the program for; the bound is on these.
Happens == events < MaxEvents /\ events' = events + 1

\* The page shows l, which is not a snapshot of its stream.
Overwrite(p, l) ==
  /\ shown' = [shown EXCEPT ![p] = l]
  /\ disturbed' = [disturbed EXCEPT ![p] = @ \/ l # shown[p]]

\* An upload, a deletion or a step of an item: the list differs from now on.
Change(l) ==
  /\ Happens
  /\ l # table /\ table' = l
  /\ UNCHANGED <<shown, streamVars, fetches, threadVars, disturbed>>

\* A thread takes up the request and starts the generator.
Connect(p) ==
  /\ stream[p] = "connecting" /\ FreeThread
  /\ stream' = [stream EXCEPT ![p] = "open"]
  /\ UNCHANGED <<table, shown, last, pipe, fetches, threadVars, disturbed, events>>

\* Mutant: the generator sends the list once.
StreamPoll_once(p) ==
  /\ stream[p] = "open" /\ last[p] = NoList
  /\ pipe' = [pipe EXCEPT ![p] = Append(@, table)]
  /\ last' = [last EXCEPT ![p] = table]
  /\ UNCHANGED <<table, shown, stream, fetches, threadVars, disturbed, events>>

\* Every second: the list is sent when it is not the one sent last.
StreamPoll(p) ==
  /\ stream[p] = "open" /\ table # last[p]
  /\ pipe' = [pipe EXCEPT ![p] = Append(@, table)]
  /\ last' = [last EXCEPT ![p] = table]
  /\ UNCHANGED <<table, shown, stream, fetches, threadVars, disturbed, events>>

\* Mutant: of the messages that wait only the first is rendered.
Render_dropsRest(p) ==
  /\ pipe[p] # <<>>
  /\ shown' = [shown EXCEPT ![p] = Head(pipe[p])]
  /\ disturbed' = [disturbed EXCEPT ![p] = FALSE]
  /\ pipe' = [pipe EXCEPT ![p] = <<>>]
  /\ UNCHANGED <<table, stream, last, fetches, threadVars, events>>

\* onmessage.
Render(p) ==
  /\ pipe[p] # <<>>
  /\ shown' = [shown EXCEPT ![p] = Head(pipe[p])]
  /\ disturbed' = [disturbed EXCEPT ![p] = FALSE]
  /\ pipe' = [pipe EXCEPT ![p] = Tail(@)]
  /\ UNCHANGED <<table, stream, last, fetches, threadVars, events>>

\* The page leaves its stream in state next.  The generator ended itself, or does
\* not know of it yet.
Part(p, next) ==
  /\ stream' = [stream EXCEPT ![p] = next]
  /\ pipe' = [pipe EXCEPT ![p] = <<>>]
  /\ last' = [last EXCEPT ![p] = NoList]
  /\ \/ UNCHANGED zombies
     \/ stream[p] = "open" /\ zombies' = [zombies EXCEPT ![last[p]] = @ + 1]

\* onerror: the page closes the stream for good and goes over to polling.
StreamError(p) ==
  /\ Happens
  /\ stream[p] # "null"
  /\ Part(p, "null")
  /\ UNCHANGED <<table, shown, fetches, held, work, disturbed>>

\* The user loads the page anew, which leaves its item streams too.
Reload(p) ==
  /\ Happens
  /\ Part(p, "connecting")
  /\ shown' = [shown EXCEPT ![p] = Empty]
  /\ disturbed' = [disturbed EXCEPT ![p] = FALSE]
  /\ fetches' = [fetches EXCEPT ![p] = FirstFetch]
  /\ held' = [held EXCEPT ![p] = 0]
  /\ work' = work + held[p]
  /\ UNCHANGED table

\* startQueueStream: the page opens the stream of one of its items; while the item waits
\* or is processed the stream keeps its thread.
OpenItem(p) ==
  /\ Happens
  /\ shown[p] # Empty /\ held[p] < ItemStreams /\ FreeThread
  /\ held' = [held EXCEPT ![p] = @ + 1]
  /\ UNCHANGED <<table, shown, streamVars, fetches, zombies, work, disturbed>>

\* The generator ends itself, or the page closes the stream and the generator lives on.
CloseItem(p) ==
  /\ held[p] > 0
  /\ held' = [held EXCEPT ![p] = @ - 1]
  /\ work' \in {work, work + 1}
  /\ UNCHANGED <<table, shown, streamVars, fetches, zombies, disturbed, events>>

\* _process_inline: the request runs the pipeline in its thread.
RunInline ==
  /\ Happens
  /\ FreeThread
  /\ work' = work + 1
  /\ UNCHANGED <<table, shown, streamVars, fetches, zombies, held, disturbed>>

\* The execution ends, or the generator without a page writes.
WorkEnds ==
  /\ work > 0
  /\ work' = work - 1
  /\ UNCHANGED <<table, shown, streamVars, fetches, zombies, held, disturbed, events>>

\* Mutant: no keep-alive, so that only a new list makes a generator write.
ZombieEnds_noKeepAlive(l) ==
  /\ zombies[l] > 0 /\ l # table
  /\ zombies' = [zombies EXCEPT ![l] = @ - 1]
  /\ UNCHANGED <<table, shown, streamVars, fetches, held, work, disturbed, events>>

\* Mutant: the end of a generator gives two threads back.
ZombieEnds_twice(l) ==
  /\ zombies[l] > 0
  /\ zombies' = [zombies EXCEPT ![l] = @ - 2]
  /\ UNCHANGED <<table, shown, streamVars, fetches, held, work, disturbed, events>>

\* A generator without a page ends when it writes: a list, or after 30 s the
\* keep-alive.
ZombieEnds(l) ==
  /\ zombies[l] > 0
  /\ zombies' = [zombies EXCEPT ![l] = @ - 1]
  /\ UNCHANGED <<table, shown, streamVars, fetches, held, work, disturbed, events>>

\* loadQueue, which looks at the page before it asks.
Load(p) ==
  /\ SumFunction(fetches[p]) < MaxFetches
  /\ fetches' = [fetches EXCEPT ![p][NewFetch(shown[p] # Empty)] = @ + 1]
  /\ UNCHANGED <<table, shown, streamVars, threadVars, disturbed>>

\* After an upload or a deletion, with a stream; without one it is like a poll.
UserLoads(p) == Happens /\ stream[p] # "null" /\ Load(p)

\* setInterval: every 15 s, while there is no stream.
Poll(p) == stream[p] = "null" /\ Load(p) /\ UNCHANGED events

\* list_queue.
Serve(p, f) ==
  /\ fetches[p][f] > 0 /\ f.answer = NoList /\ FreeThread
  /\ fetches' = [fetches EXCEPT ![p][f] = @ - 1, ![p][[f EXCEPT !.answer = table]] = @ + 1]
  /\ UNCHANGED <<table, shown, streamVars, threadVars, disturbed, events>>

\* Answers arrive in any order.
RenderList(p, f) ==
  /\ fetches[p][f] > 0 /\ f.answer # NoList
  /\ Overwrite(p, f.answer)
  /\ fetches' = [fetches EXCEPT ![p][f] = @ - 1]
  /\ UNCHANGED <<table, streamVars, threadVars, events>>

\* A fetch that fails empties the page if the page was empty when it was sent.
LoseFetch(p, f) ==
  /\ Happens
  /\ fetches[p][f] > 0
  /\ Overwrite(p, IF f.had THEN shown[p] ELSE Empty)
  /\ fetches' = [fetches EXCEPT ![p][f] = @ - 1]
  /\ UNCHANGED <<table, streamVars, threadVars>>

\* setQueueStatus from a click or from the stream of an item, which know more or
\* less than the list does.
Mark(p, l) ==
  /\ Happens
  /\ shown[p] # Empty /\ l \notin {Empty, shown[p]}
  /\ Overwrite(p, l)
  /\ UNCHANGED <<table, streamVars, fetches, threadVars>>

-----------------------------------------------------------------------------
Next ==
  \/ \E l \in Lists : Change(l)
  \/ \E p \in Pages : Connect(p) \/ StreamPoll(p) \/ Render(p) \/ StreamError(p) \/ Reload(p)
  \/ \E l \in Answers : ZombieEnds(l)
  \/ \E p \in Pages : OpenItem(p) \/ CloseItem(p)
  \/ RunInline \/ WorkEnds
  \/ \E p \in Pages : Poll(p) \/ UserLoads(p)
  \/ \E p \in Pages, f \in Fetches : Serve(p, f) \/ RenderList(p, f) \/ LoseFetch(p, f)
  \/ \E p \in Pages, l \in Lists : Mark(p, l)

Spec == Init /\ [][Next]_vars

\* Threads, generators and browsers that are alive go on; a request that waits for
\* a thread gets one when there is one from some point on.  The stream of an item
\* need not end.
Fairness ==
  /\ \A p \in Pages :
       WF_vars(Connect(p)) /\ WF_vars(StreamPoll(p)) /\ WF_vars(Render(p)) /\ WF_vars(Poll(p))
  /\ \A p \in Pages, f \in Fetches : WF_vars(Serve(p, f)) /\ WF_vars(RenderList(p, f))
  /\ \A l \in Answers : WF_vars(ZombieEnds(l))
  /\ WF_vars(WorkEnds)

FairSpec == Spec /\ Fairness

-----------------------------------------------------------------------------
\* Properties.

\* What the generator takes for the page's list is the newest on its way, or is on
\* the page unless something else was written over it: comparing with last_state
\* is enough, after any loss and reload.
LastIsNewest ==
  \A p \in Pages :
    stream[p] = "open" /\ last[p] # NoList =>
      IF pipe[p] # <<>> THEN pipe[p][Len(pipe[p])] = last[p]
      ELSE shown[p] = last[p] \/ disturbed[p]

\* A page that has lost its stream shows the table in the end, whatever overtook
\* what before, as long as there is a thread for every page and for every item stream
\* the pages may have: generators without a page give theirs back, and late answers are
\* repaired by the next poll.
PollingCatchesUp == \A p \in Pages : <>[](stream[p] # "open" => shown[p] = table)

\* A page with a stream shows the table in the end, but for a fetch's answer or a
\* local mark written over the last snapshot, which the stream does not repeat.
StreamCatchesUp ==
  \A p \in Pages : <>[](stream[p] = "open" => shown[p] = table \/ disturbed[p])
=============================================================================
