----------------------------- MODULE UploadGate -----------------------------
(***************************************************************************)
(* The way of an upload into the queue of one session: uploadWithRetry in    *)
(* the pages of the session (app.js), the sliding window of RateLimiter in   *)
(* Redis or in the memory of a web process (services/rate_limiter.py), and   *)
(* the item limit of upload (app.py).                                       *)
(*                                                                         *)
(* A request is an attempt <<f, k>>, the k-th to send file f.  One action is *)
(* the code between two accesses to shared state: the clock, the window, the *)
(* table.  The key of the limiter is the session, so one key is modelled.    *)
(* RateLimiter.cleanup has no caller in src/ but a test, and EXPIRE only     *)
(* forgets a window whose members are all too old.                          *)
(***************************************************************************)
EXTENDS Naturals, FiniteSets

CONSTANTS Files,      \* files given to the pages, each page in its own order
          Retries,    \* CFG.max_retries
          Processes,  \* gunicorn processes
          Online,     \* those that cached redis_available() = True
          Threads,    \* requests served at the same time
          Limit,      \* RATE_LIMIT_UPLOAD: requests per window
          Window,     \* RATE_LIMIT_WINDOW
          MaxItems,   \* MAX_QUEUE_ITEMS
          MaxDelay,   \* most time from time.time() to the window's update: socket_timeout
          MaxClock    \* bound: the clock stops there

ASSUME GateAssumption ==
  /\ IsFiniteSet(Files) /\ Retries \in Nat
  /\ Online \subseteq Processes
  /\ Threads \in Nat /\ Limit \in Nat /\ Window \in Nat
  /\ MaxItems \in Nat \ {0} /\ MaxDelay \in Nat /\ MaxClock \in Nat

VARIABLES clock,     \* time.time()
          pc,        \* pc[r]: where the server is with attempt r
          host,      \* host[r]: the process that accepts its connection
          stamp,     \* stamp[r]: its `now`, 0 before it is taken
          zset,      \* the sorted set in Redis, whose members are stamps
          bucket,    \* bucket[p]: the attempts whose stamps are in p's list
          verdict,   \* verdict[r]: how the limiter decided on it
          added,     \* attempts that got a row in queue_items
          items,     \* those whose row is still there
          lost       \* attempts whose connection broke before they were answered

serverVars == <<pc, stamp, zset, bucket, verdict>>
vars == <<clock, pc, host, stamp, zset, bucket, verdict, added, items, lost>>

Attempts == Files \X (0..Retries)

Serving   == {"limiter", "execute", "zrem", "count", "save"}
Locations == Serving \cup {"unsent", "ok", "failed"}

TypeOK ==
  /\ clock \in Nat \ {0}
  /\ pc \in [Attempts -> Locations]
  /\ host \in [Attempts -> Processes]
  /\ stamp \in [Attempts -> Nat]
  /\ zset \in SUBSET Nat
  /\ bucket \in [Processes -> SUBSET Attempts]
  /\ verdict \in [Attempts -> {"none", "allowed", "refused", "denied", "broken"}]
  /\ added \in SUBSET Attempts
  /\ items \in SUBSET added
  /\ lost \in SUBSET Attempts

Init ==
  /\ clock = 1
  /\ pc = [r \in Attempts |-> "unsent"]
  /\ host \in [Attempts -> Processes]
  /\ stamp = [r \in Attempts |-> 0]
  /\ zset = {}
  /\ bucket = [p \in Processes |-> {}]
  /\ verdict = [r \in Attempts |-> "none"]
  /\ added = {}
  /\ items = {}
  /\ lost = {}

-----------------------------------------------------------------------------
Goto(r, l) == pc' = [pc EXCEPT ![r] = l]

InRedis(r) == host[r] \in Online

\* A thread takes up the request of an attempt: the first one, or the next one when
\* the page has seen the one before fail.  Nothing waits between two attempts.
Send(f, k) ==
  /\ pc[<<f, k>>] = "unsent"
  /\ k > 0 => pc[<<f, k - 1>>] = "failed" \/ <<f, k - 1>> \in lost
  /\ Cardinality({r \in Attempts : pc[r] \in Serving}) < Threads
  /\ Goto(<<f, k>>, "limiter")
  /\ UNCHANGED <<clock, host, stamp, zset, bucket, verdict, added, items, lost>>

\* now = time.time(), before the pipeline runs and before the lock is taken.
TakeStamp(r) ==
  /\ pc[r] = "limiter"
  /\ stamp' = [stamp EXCEPT ![r] = clock]
  /\ Goto(r, "execute")
  /\ UNCHANGED <<clock, host, zset, bucket, verdict, added, items, lost>>

\* zremrangebyscore leaves the members of the window that ends with r.
Live(r) == {s \in zset : s + Window > stamp[r]}

Decide(r, v, l) ==
  /\ verdict' = [verdict EXCEPT ![r] = v]
  /\ Goto(r, l)

\* Mutant: zcard runs before zadd.
ExecutePipeline_countFirst(r) ==
  /\ pc[r] = "execute" /\ InRedis(r)
  /\ zset' = Live(r) \cup {stamp[r]}
  /\ IF Cardinality(Live(r)) > Limit THEN Decide(r, "refused", "zrem")
                                     ELSE Decide(r, "allowed", "count")
  /\ UNCHANGED <<clock, host, stamp, bucket, added, items, lost>>

\* _redis_is_allowed: the pipeline is one transaction, and equal stamps are one
\* member of the set.
ExecutePipeline(r) ==
  /\ pc[r] = "execute" /\ InRedis(r)
  /\ zset' = Live(r) \cup {stamp[r]}
  /\ IF Cardinality(zset') > Limit THEN Decide(r, "refused", "zrem")
                                   ELSE Decide(r, "allowed", "count")
  /\ UNCHANGED <<clock, host, stamp, bucket, added, items, lost>>

\* Redis is gone: the exception is the request's 500, whatever the pipeline did.
PipelineFails(r) ==
  /\ pc[r] = "execute" /\ InRedis(r)
  /\ zset' \in {zset, Live(r) \cup {stamp[r]}}
  /\ Decide(r, "broken", "failed")
  /\ UNCHANGED <<clock, host, stamp, bucket, added, items, lost>>

\* Mutant: a refused request stays in the window.
Withdraw_keeps(r) ==
  /\ pc[r] = "zrem"
  /\ Decide(r, "denied", "failed")
  /\ UNCHANGED <<clock, host, stamp, zset, bucket, added, items, lost>>

\* The refused request takes its stamp out again: 429.
Withdraw(r) ==
  /\ pc[r] = "zrem"
  /\ zset' = zset \ {stamp[r]}
  /\ Decide(r, "denied", "failed")
  /\ UNCHANGED <<clock, host, stamp, bucket, added, items, lost>>

WithdrawFails(r) ==
  /\ pc[r] = "zrem"
  /\ zset' \in {zset, zset \ {stamp[r]}}
  /\ Decide(r, "broken", "failed")
  /\ UNCHANGED <<clock, host, stamp, bucket, added, items, lost>>

\* The stamps of p's list that the request r does not drop.
Recent(r) == {q \in bucket[host[r]] : stamp[q] + Window > stamp[r]}

\* _memory_is_allowed, under the lock; a refusal leaves the list as it was.
AskMemory(r) ==
  /\ pc[r] = "execute" /\ ~InRedis(r)
  /\ IF Cardinality(Recent(r)) >= Limit
     THEN Decide(r, "denied", "failed") /\ UNCHANGED bucket
     ELSE /\ Decide(r, "allowed", "count")
          /\ bucket' = [bucket EXCEPT ![host[r]] = Recent(r) \cup {r}]
  /\ UNCHANGED <<clock, host, stamp, zset, added, items, lost>>

\* Mutant: one item more than the limit.
CountItems_atMost(r) ==
  /\ pc[r] = "count"
  /\ Goto(r, IF Cardinality(items) > MaxItems THEN "failed" ELSE "save")
  /\ UNCHANGED <<clock, host, stamp, zset, bucket, verdict, added, items, lost>>

\* Mutant: a full queue is a state of its own.
CountItems_full(r) ==
  /\ pc[r] = "count"
  /\ Goto(r, IF Cardinality(items) >= MaxItems THEN "full" ELSE "save")
  /\ UNCHANGED <<clock, host, stamp, zset, bucket, verdict, added, items, lost>>

\* count_items against MAX_QUEUE_ITEMS: 429 again.
CountItems(r) ==
  /\ pc[r] = "count"
  /\ Goto(r, IF Cardinality(items) >= MaxItems THEN "failed" ELSE "save")
  /\ UNCHANGED <<clock, host, stamp, zset, bucket, verdict, added, items, lost>>

\* Mutant: the row is added before the file is looked at.
RejectFile_afterAdd(r) ==
  /\ pc[r] = "save"
  /\ added' = added \cup {r} /\ items' = items \cup {r}
  /\ Goto(r, "failed")
  /\ UNCHANGED <<clock, host, stamp, zset, bucket, verdict, lost>>

\* No file, a wrong extension or a wrong type is a 400, an insert that raises a 500.
RejectFile(r) ==
  /\ pc[r] = "save"
  /\ Goto(r, "failed")
  /\ UNCHANGED <<clock, host, stamp, zset, bucket, verdict, added, items, lost>>

AddItem(r) ==
  /\ pc[r] = "save"
  /\ added' = added \cup {r} /\ items' = items \cup {r}
  /\ Goto(r, "ok")
  /\ UNCHANGED <<clock, host, stamp, zset, bucket, verdict, lost>>

\* The page deletes the row of an item.
RemoveItem(r) ==
  /\ r \in items
  /\ items' = items \ {r}
  /\ UNCHANGED <<clock, host, serverVars, added, lost>>

\* onerror: the server goes on with the request, whose answer nobody will see.
LoseConnection(r) ==
  /\ pc[r] \in Serving /\ r \notin lost
  /\ lost' = lost \cup {r}
  /\ UNCHANGED <<clock, host, serverVars, added, items>>

\* Time passes, and no request keeps the stamp it took for longer than MaxDelay.
Tick ==
  /\ clock < MaxClock
  /\ \A r \in Attempts : pc[r] = "execute" => clock < stamp[r] + MaxDelay
  /\ clock' = clock + 1
  /\ UNCHANGED <<host, serverVars, added, items, lost>>

Serve(r) ==
  \/ TakeStamp(r) \/ ExecutePipeline(r) \/ PipelineFails(r) \/ Withdraw(r) \/ WithdrawFails(r)
  \/ AskMemory(r) \/ CountItems(r) \/ RejectFile(r) \/ AddItem(r)

Next ==
  \/ \E f \in Files, k \in 0..Retries : Send(f, k)
  \/ \E r \in Attempts : Serve(r) \/ RemoveItem(r) \/ LoseConnection(r)
  \/ Tick

Spec == Init /\ [][Next]_vars

-----------------------------------------------------------------------------
\* Requests of R whose stamps lie in the window that starts after time x.  What a
\* late request finds cut off by an earlier one shortens it by MaxDelay.
InWindow(R, x) == {r \in R : x < stamp[r] /\ stamp[r] + MaxDelay <= x + Window}

Allowed(R) == {r \in R : verdict[r] = "allowed"}

Distinct(R) == \A q, r \in R : stamp[q] = stamp[r] => q = r

ByRedis   == {r \in Attempts : InRedis(r)}
ByHost(p) == {r \in Attempts : host[r] = p}

WindowHolds(x) ==
  /\ Distinct(InWindow(ByRedis, x)) => Cardinality(Allowed(InWindow(ByRedis, x))) <= Limit
  /\ \A p \in Processes \ Online : Cardinality(Allowed(InWindow(ByHost(p), x))) <= Limit

\* No window holds more allowed requests than the limit, with any interleaving of
\* stamps, pipelines, withdrawals and lost connections to Redis, as long as no two of
\* its requests took the same stamp: those are one member of the set.  A process
\* without Redis keeps the limit for itself.
AllowedPerWindow == \A x \in 0..clock : WindowHolds(x)

\* A request is only refused when the limit is used up by other requests of its
\* window that were allowed, are about to be withdrawn, or met an error of Redis:
\* what was refused before does not count against a client.
RefusedWhenFull ==
  [][\A r \in Attempts :
       verdict[r] = "none" /\ verdict'[r] \in {"refused", "denied"} =>
         Cardinality({q \in Attempts \ {r} :
                        /\ verdict[q] \in {"allowed", "refused", "broken"}
                        /\ host[q] = host[r] \/ (InRedis(q) /\ InRedis(r))
                        /\ stamp[q] + Window > stamp[r]}) >= Limit]_vars

\* Counting the rows and adding one are far apart, so the limit may be passed, but
\* only by the requests that are served at the same time.
ItemLimit == Cardinality(items) + 1 <= MaxItems + Threads

\* A file gets a second row only when the page lost the answer to an attempt that
\* had been, or was still going to be, successful.
SecondRowNeedsLoss ==
  \A f \in Files : \A j, k \in 0..Retries :
    <<f, j>> \in added /\ <<f, k>> \in added /\ j < k => <<f, j>> \in lost
=============================================================================
