--------------------------- MODULE OwnershipProofs ---------------------------
(***************************************************************************)
(* Who is responsible for an item: StatusProtocol, NoAbandonedItem and       *)
(* NoTempLeak of VideoQueue, for any items, workers, web threads and faults. *)
(* At the end who may execute it: ExclusiveExecution, for one client thread. *)
(***************************************************************************)
EXTENDS VideoQueueProofs

\* Where a process may be with an item that was never enqueued.
FreshCode == {"idle", "clear_file", "enqueue", "rm_job", "rm_file", "rm_unlink", "rm_row",
              "clear_unlink"}

\* An upload nobody has started has no job, and only requests that are about to
\* start or to delete it.
FreshItem(t) ==
  /\ status[t] = "absent" =>
       /\ jobs[t] = 0 /\ t \notin scheduled
       /\ \A p \in Procs : cur[p] # t
       /\ \A r \in Requests : t \notin batch[r]
  /\ status[t] \in {"absent", "uploaded"} /\ t \notin unhandled =>
       /\ jobs[t] = 0 /\ t \notin scheduled
       /\ \A p \in Procs : cur[p] = t => pc[p] \in FreshCode

\* A file goes before its row, but for session_delete, and who has seen that it is gone
\* is right for good.
GoneFile(t) ==
  /\ status[t] = "deleted" /\ t \notin unhandled => t \notin temp
  /\ \A p \in Procs : cur[p] = t /\ pc[p] \in {"rm_row", "missing"} => t \notin temp
  /\ \A r \in Requests :
       t \in batch[r] => t \in todo[r] \/ t \notin temp \/ (cur[r] = t /\ pc[r] = "clear_unlink")

\* Where a process is bound to write the status, to delete the row, or to hand over.
MoverCode == {"enqueue", "push", "rm_file", "rm_unlink", "rm_row", "lookup", "missing", "begin",
              "fail", "copy", "unlink", "commit", "markdone", "failed", "handler"}

\* Between its steps an execution goes on only while it sees "processing", and from
\* finally it reaches the failure handler only with an exception.
Moves(p, t) ==
  /\ cur[p] = t
  /\ \/ pc[p] \in MoverCode
     \/ pc[p] \in {"check", "validate"} /\ status[t] = "processing"
     \/ pc[p] \in {"finally", "cleanup"} /\ exc[p]

Waits(t) == jobs[t] > 0 \/ (WithScheduler /\ t \in scheduled)

\* A cancel_job that works takes away a job it knows nothing of: no job is relied on
\* while an item runs, or while a cancel is under way.
CancelCode == {"cancel_read", "cancel_write", "cancel_job"}

Spared(t) ==
  /\ status[t] # "processing"
  /\ \A r \in Requests : cur[r] = t => pc[r] \notin CancelCode

Relied(t) == Waits(t) /\ (CancelWorks => Spared(t))

Moved(t) ==
  t \notin unhandled /\ status[t] \in {"queued", "processing"} =>
    Relied(t) \/ \E p \in Procs : Moves(p, t)

\* Where a process is bound to remove the file of a settled item, or to hand over.
CleanerCode == {"enqueue", "push", "rm_file", "rm_unlink", "rm_row"} \cup Pipeline \cup AfterJob

Cleans(p, t) == cur[p] = t /\ pc[p] \in CleanerCode

Cleaned(t) ==
  t \notin unhandled /\ status[t] \in {"error", "cancelled"} /\ t \in temp =>
    Relied(t) \/ \E p \in Procs : Cleans(p, t)

\* With such a cancel_job somebody is responsible as long as one client asks for one
\* thing at a time and no process is killed.
OneClient == \A r, s \in Requests : r = s

Accountable == CancelWorks => OneClient /\ ~ Crashes

Responsible(t) == Accountable => Moved(t) /\ Cleaned(t)

\* Nobody but the one client knows an item that is being enqueued.
Alone(r, t) ==
  /\ pc[r] = "enqueue" => status[t] = "uploaded"
  /\ pc[r] = "push" =>
       /\ status[t] = "queued" /\ jobs[t] = 0 /\ t \notin scheduled
       /\ \A p \in Procs \ {r} : cur[p] # t

StartInv ==
  OneClient => \A r \in Requests, t \in Items \ unhandled : cur[r] = t => Alone(r, t)

ItemInv(t) == FreshItem(t) /\ GoneFile(t) /\ Responsible(t)

\* What StatusProtocol says of t.
Protocol(t) ==
  /\ status[t] = "deleted" => status'[t] = "deleted"
  /\ status[t] = "uploaded" =>
       status'[t] \in {"uploaded", "queued", "deleted"} \/ t \in unhandled
  /\ status'[t] = "done" => status[t] = "done" \/ videos[t] = 1

OwnerInv == \A t \in Items : ItemInv(t)

-----------------------------------------------------------------------------
\* A step of process p that concerns item u and no other.
OthersStill(p) ==
  \A q \in Procs \ {p} : pc'[q] = pc[q] /\ cur'[q] = cur[q] /\ exc'[q] = exc[q]

ListsShrink(u) ==
  \A r \in Requests : \A t \in Items \ {u} :
    t \in batch'[r] => t \in batch[r] /\ (t \in todo[r] => t \in todo'[r])

OnlyItem(u) ==
  \A t \in Items \ {u} :
    /\ status'[t] = status[t] /\ jobs'[t] = jobs[t]
    /\ t \in scheduled' <=> t \in scheduled
    /\ t \in temp' <=> t \in temp
    /\ t \in unhandled' <=> t \in unhandled

Only(p, u) ==
  /\ OthersStill(p) /\ ListsShrink(u) /\ OnlyItem(u)
  /\ cur[p] \in {u, NoItem} /\ cur'[p] \in {u, NoItem}

\* What is true of the other items stays true.
LEMMA OtherItems ==
  ASSUME TypeOK, OwnerInv, NEW p \in Procs, NEW u \in Items, Only(p, u),
         NEW t \in Items, t # u
  PROVE  ItemInv(t)' /\ Protocol(t)
  <1> USE DEF Only, OnlyItem, OthersStill
  <1>1. cur[p] # t /\ cur'[p] # t /\ ItemInv(t) /\ status'[t] = status[t]
    BY ProcsAssumption DEF OwnerInv
  <1>2. \A q \in Procs : cur'[q] = t => q # p /\ pc'[q] = pc[q] /\ cur[q] = t
    BY <1>1
  <1>20. Relied(t) => Relied(t)'
    BY <1>1, <1>2 DEF Relied, Waits, Spared, Procs
  <1>3. FreshItem(t)'
    BY <1>1, <1>2 DEF ItemInv, FreshItem, ListsShrink
  <1>4. GoneFile(t)'
    <2>1. \A r \in Requests : cur[r] = t => cur'[r] = t /\ pc'[r] = pc[r]
      BY <1>1 DEF Procs
    <2> QED
      BY <1>1, <1>2, <2>1 DEF ItemInv, GoneFile, ListsShrink
  <1>5. Accountable => Moved(t)'
    <2>1. \A q \in Procs : Moves(q, t) => Moves(q, t)'
      BY <1>1 DEF Moves
    <2> QED
      BY <1>1, <1>20, <2>1 DEF ItemInv, Responsible, Moved
  <1>6. Accountable => Cleaned(t)'
    <2>1. \A q \in Procs : Cleans(q, t) => Cleans(q, t)'
      BY <1>1 DEF Cleans
    <2> QED
      BY <1>1, <1>20, <2>1 DEF ItemInv, Responsible, Cleaned
  <1>7. Protocol(t)
    BY <1>1 DEF Protocol
  <1> QED
    BY <1>3, <1>4, <1>5, <1>6, <1>7 DEF ItemInv, Responsible

\* Nothing changes but where p is with its item u.
Quiet(p, u) ==
  /\ UNCHANGED <<status, temp, unhandled, jobs, scheduled, todo, batch>>
  /\ OthersStill(p) /\ cur[p] = u /\ cur'[p] \in {u, NoItem}

\* Such a move must not start an unstarted item, claim that a file is gone, or
\* drop a responsibility.
LEMMA QuietStep ==
  ASSUME TypeOK, OwnerInv, NEW p \in Procs, NEW u \in Items, Quiet(p, u),
         pc[p] # "clear_unlink",
         cur'[p] = u /\ pc[p] \in FreshCode => pc'[p] \in FreshCode,
         cur'[p] = u /\ pc'[p] \in {"rm_row", "missing"} => u \notin temp,
         cur'[p] = u /\ pc'[p] \in CancelCode => pc[p] \in CancelCode,
         Moves(p, u) /\ status[u] \in {"queued", "processing"} => Moves(p, u)',
         Cleans(p, u) /\ status[u] \in {"error", "cancelled"} /\ u \in temp => Cleans(p, u)'
  PROVE  Only(p, u) /\ ItemInv(u)' /\ Protocol(u)
  <1> USE DEF Quiet
  <1>0. ItemInv(u) /\ u # NoItem
    BY ProcsAssumption DEF OwnerInv
  <1>1. Only(p, u)
    BY DEF Only, ListsShrink, OnlyItem
  <1>10. Relied(u) => Relied(u)'
    BY DEF Relied, Waits, Spared, OthersStill, Procs
  <1>2. FreshItem(u)'
    BY <1>0 DEF ItemInv, FreshItem, OthersStill
  <1>3. GoneFile(u)'
    <2>1. \A r \in Requests : cur[r] = u /\ pc[r] = "clear_unlink" =>
                              cur'[r] = u /\ pc'[r] = "clear_unlink"
      BY DEF OthersStill, Procs
    <2> QED
      BY <1>0, <2>1 DEF ItemInv, GoneFile, OthersStill
  <1>4. Accountable => Moved(u)'
    <2>1. \A q \in Procs \ {p} : Moves(q, u) => Moves(q, u)'
      BY DEF Moves, OthersStill
    <2> QED
      BY <1>0, <1>10, <2>1 DEF ItemInv, Responsible, Moved
  <1>5. Accountable => Cleaned(u)'
    <2>1. \A q \in Procs \ {p} : Cleans(q, u) => Cleans(q, u)'
      BY DEF Cleans, OthersStill
    <2> QED
      BY <1>0, <1>10, <2>1 DEF ItemInv, Responsible, Cleaned
  <1>6. Protocol(u)
    BY DEF Protocol
  <1> QED
    BY <1>1, <1>2, <1>3, <1>4, <1>5, <1>6 DEF ItemInv, Responsible

\* A write of the status by a process that has the item in hand: whatever it writes,
\* somebody stays responsible; a lost write is an unhandled failure.
LEMMA WriteStep ==
  ASSUME TypeOK, OwnerInv, NEW p \in Procs, NEW u \in Items, NEW s \in RowStatus \ {"uploaded"},
         UpdateStatus(u, s), UNCHANGED <<jobs, scheduled, todo, batch>>,
         OthersStill(p), cur[p] = u, cur'[p] \in {u, NoItem},
         pc[p] \in FreshCode => pc[p] = "enqueue" /\ s = "queued",
         pc'[p] \notin {"rm_row", "missing"},
         s = "done" => videos[u] = 1,
         status'[u] = s /\ s \in {"queued", "processing"} => Moves(p, u)',
         s \in {"error", "cancelled"} /\ u \in temp => Cleans(p, u)'
  PROVE  Only(p, u) /\ ItemInv(u)' /\ Protocol(u)
  <1>0. ItemInv(u) /\ u # NoItem /\ status[u] # "absent"
    BY ProcsAssumption DEF OwnerInv, ItemInv, FreshItem
  <1>1. /\ temp' = temp /\ (\A t \in Items \ {u} : status'[t] = status[t])
        /\ unhandled' \in {unhandled, unhandled \cup {u}}
        /\ \/ status'[u] = s /\ HasRow(u)
           \/ status'[u] = status[u] /\ ~ HasRow(u)
           \/ status'[u] = status[u] /\ u \in unhandled'
    BY DEF UpdateStatus, SetStatus, TypeOK, TableTypeOK
  <1>2. Only(p, u)
    BY <1>1 DEF Only, ListsShrink, OnlyItem
  <1>3. FreshItem(u)'
    <2>1. status'[u] # "absent"
      BY <1>0, <1>1 DEF RowStatus
    <2>2. status'[u] = "uploaded" => u \in unhandled'
      BY <1>1 DEF HasRow, RowStatus
    <2> QED
      BY <2>1, <2>2 DEF FreshItem
  <1>4. GoneFile(u)'
    <2>1. status'[u] = "deleted" => status[u] = "deleted"
      BY <1>1 DEF RowStatus
    <2>2. pc[p] # "clear_unlink"
      BY DEF FreshCode
    <2>3. \A r \in Requests : cur[r] = u /\ pc[r] = "clear_unlink" =>
                              cur'[r] = u /\ pc'[r] = "clear_unlink"
      BY <2>2 DEF OthersStill, Procs
    <2> QED
      BY <1>0, <1>1, <2>1, <2>3 DEF ItemInv, GoneFile, OthersStill
  <1>5. Moved(u)'
    BY <1>1 DEF Moved, HasRow, RowStatus
  <1>6. Cleaned(u)'
    BY <1>1 DEF Cleaned, HasRow, RowStatus
  <1>7. Protocol(u)
    <2>1. status[u] = "uploaded" /\ u \notin unhandled => pc[p] \in FreshCode
      BY <1>0 DEF ItemInv, FreshItem
    <2> QED
      BY <1>1, <2>1 DEF Protocol, HasRow, RowStatus
  <1> QED
    BY <1>2, <1>3, <1>4, <1>5, <1>6, <1>7 DEF ItemInv, Responsible

\* A process that gives its item up for good.
LEMMA GiveUpStep ==
  ASSUME TypeOK, OwnerInv, NEW p \in Procs, NEW u \in Items, Release(p), cur[p] = u,
         unhandled' = unhandled \cup {u}, UNCHANGED <<status, temp>>, ListsShrink(NoItem),
         \A t \in Items \ {u} : jobs'[t] = jobs[t] /\ (t \in scheduled' <=> t \in scheduled),
         pc[p] = "clear_unlink" => batch'[p] = {}
  PROVE  Only(p, u) /\ ItemInv(u)' /\ Protocol(u)
  <1>0. ItemInv(u) /\ u # NoItem /\ OthersStill(p) /\ cur'[p] = NoItem
    BY ProcsAssumption DEF OwnerInv, Release, OthersStill, TypeOK, ProcTypeOK
  <1>1. Only(p, u)
    BY <1>0, ProcsAssumption DEF Only, ListsShrink, OnlyItem
  <1>2. FreshItem(u)'
    BY <1>0 DEF ItemInv, FreshItem
  <1>3. GoneFile(u)'
    <2>1. \A r \in Requests : cur[r] = u /\ pc[r] = "clear_unlink" =>
                              r = p \/ (cur'[r] = u /\ pc'[r] = "clear_unlink")
      BY <1>0 DEF OthersStill, Procs
    <2>2. \A r \in Requests : u \in batch'[r] => u \in batch[r] /\ (u \in todo[r] => u \in todo'[r])
      BY ProcsAssumption DEF ListsShrink
    <2> QED
      BY <1>0, <2>1, <2>2 DEF ItemInv, GoneFile, OthersStill
  <1>4. Moved(u)' /\ Cleaned(u)' /\ Protocol(u)
    BY DEF Moved, Cleaned, Protocol
  <1> QED
    BY <1>1, <1>2, <1>3, <1>4 DEF ItemInv, Responsible

\* A process that has removed its item's file.
LEMMA UnlinkStep ==
  ASSUME TypeOK, OwnerInv, NEW p \in Procs, NEW u \in Items,
         temp' = temp \ {u}, UNCHANGED <<status, jobs, scheduled>>,
         unhandled' \in {unhandled, unhandled \cup {u}},
         OthersStill(p), ListsShrink(u), cur[p] = u, cur'[p] \in {u, NoItem},
         cur'[p] = u /\ pc[p] \in FreshCode => pc'[p] \in FreshCode,
         Moves(p, u) => Moves(p, u)' \/ u \in unhandled',
         cur'[p] = u => pc'[p] \notin CancelCode,
         \A r \in Requests : u \in batch'[r] => u \in batch[r]
  PROVE  Only(p, u) /\ ItemInv(u)' /\ Protocol(u)
  <1>0. ItemInv(u) /\ u # NoItem
    BY ProcsAssumption DEF OwnerInv
  <1>1. Only(p, u)
    BY DEF Only, OnlyItem
  <1>2. FreshItem(u)'
    BY <1>0 DEF ItemInv, FreshItem, OthersStill
  <1>3. GoneFile(u)'
    BY DEF GoneFile
  <1>4. Accountable => Moved(u)'
    <2>1. \A q \in Procs \ {p} : Moves(q, u) => Moves(q, u)'
      BY DEF Moves, OthersStill
    <2>2. Relied(u) => Relied(u)'
      BY DEF Relied, Waits, Spared, OthersStill, Procs
    <2> QED
      BY <1>0, <2>1, <2>2 DEF ItemInv, Responsible, Moved
  <1>5. Cleaned(u)' /\ Protocol(u)
    BY DEF Cleaned, Protocol
  <1> QED
    BY <1>1, <1>2, <1>3, <1>4, <1>5 DEF ItemInv, Responsible

\* A process past the start of its item changes its job, and leaves it to RQ or keeps it.
LEMMA BrokerStep ==
  ASSUME TypeOK, OwnerInv, NEW p \in Procs, NEW u \in Items,
         UNCHANGED <<status, temp, unhandled, todo, batch>>,
         OthersStill(p), cur[p] \in {u, NoItem}, cur'[p] \in {u, NoItem}, status[u] # "absent",
         status[u] = "uploaded" => u \in unhandled,
         \A t \in Items \ {u} : jobs'[t] = jobs[t] /\ (t \in scheduled' <=> t \in scheduled),
         pc[p] # "clear_unlink", pc'[p] \notin {"rm_row", "missing"},
         Accountable => u \in unhandled \/ Relied(u)' \/ (Moves(p, u)' /\ Cleans(p, u)')
  PROVE  Only(p, u) /\ ItemInv(u)' /\ Protocol(u)
  <1>0. ItemInv(u) /\ u # NoItem
    BY ProcsAssumption DEF OwnerInv
  <1>1. Only(p, u)
    BY DEF Only, ListsShrink, OnlyItem
  <1>2. FreshItem(u)'
    BY DEF FreshItem
  <1>3. GoneFile(u)'
    <2>1. \A r \in Requests : cur[r] = u /\ pc[r] = "clear_unlink" =>
                              cur'[r] = u /\ pc'[r] = "clear_unlink"
      BY DEF OthersStill, Procs
    <2> QED
      BY <1>0, <2>1 DEF ItemInv, GoneFile, OthersStill
  <1>4. Accountable => Moved(u)' /\ Cleaned(u)'
    BY DEF Moved, Cleaned
  <1>5. Protocol(u)
    BY DEF Protocol
  <1> QED
    BY <1>1, <1>2, <1>3, <1>4, <1>5 DEF ItemInv, Responsible

\* What a step of p has to show.
Kept(p) == \E u \in Items : Only(p, u) /\ ItemInv(u)' /\ Protocol(u)

\* It is enough for the whole table.
LEMMA KeptIsEnough ==
  ASSUME TypeOK, OwnerInv, NEW p \in Procs, Kept(p)
  PROVE  OwnerInv' /\ \A t \in Items : Protocol(t)
  <1> PICK u \in Items : Only(p, u) /\ ItemInv(u)' /\ Protocol(u)
    BY DEF Kept
  <1>1. \A t \in Items : ItemInv(t)' /\ Protocol(t)
    BY OtherItems
  <1> QED
    BY <1>1 DEF OwnerInv

\* Moves of one process leave the others where they are.
LEMMA MoveIsLocal ==
  ASSUME TypeOK, NEW p \in Procs, NEW l, NEW e, NEW t,
         Goto(p, l) \/ Release(p) \/ Leave(p, e) \/ Take(p, t, l)
  PROVE  /\ OthersStill(p)
         /\ Goto(p, l) => pc'[p] = l /\ cur'[p] = cur[p] /\ exc'[p] = exc[p]
         /\ Release(p) => pc'[p] = "idle" /\ cur'[p] = NoItem
         /\ Leave(p, e) => pc'[p] = "finally" /\ cur'[p] = cur[p] /\ exc'[p] = e
         /\ Take(p, t, l) => pc'[p] = l /\ cur'[p] = t /\ exc'[p] = exc[p]
  BY DEF OthersStill, Goto, Release, Leave, Take, TypeOK, ProcTypeOK

\* An exception out of the pipeline is left to the handler, or is unhandled.
LEMMA EscapeKept ==
  ASSUME TypeOK, OwnerInv, NEW p \in Procs, pc[p] \in Pipeline, Escape(p),
         UNCHANGED <<status, temp, jobs, scheduled, todo, batch>>
  PROVE  Kept(p)
  <1>0. cur[p] \in Items /\ pc[p] \notin FreshCode
    BY DEF TypeOK, ProcTypeOK, Pipeline, TryBlock, OutsideTry, FreshCode
  <1>1. CASE p \in Workers
    <2>1. Quiet(p, cur[p]) /\ pc'[p] = "failed" /\ cur'[p] = cur[p]
      BY <1>1 DEF Escape, Quiet, OthersStill, TypeOK, ProcTypeOK
    <2> QED
      BY <1>0, <2>1, QuietStep
      DEF Kept, Moves, MoverCode, Cleans, CleanerCode, AfterJob, FreshCode, CancelCode
  <1>2. CASE p \notin Workers
    BY <1>0, <1>2, GiveUpStep DEF Escape, Unhandled, Kept, ListsShrink, FreshCode
  <1> QED
    BY <1>1, <1>2

LEMMA PipelineKept ==
  ASSUME TypeOK, CustodyInv, OwnerInv, NEW p \in Procs, RunPipeline(p)
  PROVE  Kept(p)
  <1>0. cur[p] \in Items /\ pc[p] \in Pipeline /\ exc[p] \in BOOLEAN
    BY DEF TypeOK, ProcTypeOK, RunPipeline, Pipeline, OutsideTry, TryBlock, At, Lookup, MarkMissing,
           MarkProcessing, CheckCancelled, StepPasses, StepFails, FailStep, MoveCopy, MoveUnlink,
           CommitVideo, MarkDone, Report, Raise, Finally, FinallyRemove
  <1>00. pc[p] \notin FreshCode /\ pc[p] # "clear_unlink"
    BY <1>0 DEF Pipeline, OutsideTry, TryBlock, FreshCode
  <1> DEFINE u == cur[p]
  <1> USE <1>0, <1>00 DEF tableVars, rowVars, brokerVars, listVars, At, CancelCode
  <1>1. CASE Lookup(p)
    <2>1. CASE HasRow(u)
      <3>1. Quiet(p, u) /\ cur'[p] = u /\ pc'[p] = (IF u \in temp THEN "begin" ELSE "missing")
        BY <1>1, <2>1 DEF Lookup, Goto, Quiet, OthersStill, TypeOK, ProcTypeOK
      <3> QED
        BY <3>1, QuietStep DEF Kept, Moves, MoverCode, Cleans, CleanerCode, Pipeline, OutsideTry
    <2>2. CASE ~ HasRow(u)
      <3>1. Quiet(p, u) /\ cur'[p] = NoItem /\ status[u] \notin RowStatus
        BY <1>1, <2>2, MoveIsLocal DEF Lookup, Quiet, HasRow
      <3>2. u # NoItem
        BY ProcsAssumption
      <3> QED
        BY <3>1, <3>2, QuietStep DEF Kept, RowStatus
    <2> QED
      BY <2>1, <2>2
  <1>2. CASE MarkMissing(p)
    <2>1. u \notin temp
      BY <1>2 DEF MarkMissing, OwnerInv, ItemInv, GoneFile
    <2> QED
      BY <1>2, <2>1, MoveIsLocal, WriteStep DEF MarkMissing, Kept, RowStatus
  <1>3. CASE MarkProcessing(p)
    BY <1>3, MoveIsLocal, WriteStep DEF MarkProcessing, Kept, RowStatus, Moves
  <1>4. CASE CheckCancelled(p)
    <2>1. /\ Quiet(p, u) /\ cur'[p] = u /\ pc[p] = "check"
          /\ pc'[p] = (IF status[u] = "processing" THEN "validate" ELSE "finally")
      BY <1>4 DEF CheckCancelled, IsCancelled, Leave, Goto, Quiet, OthersStill, TypeOK, ProcTypeOK
    <2> QED
      BY <2>1, QuietStep DEF Quiet, Kept, Moves, MoverCode, Cleans, CleanerCode, Pipeline, OutsideTry, TryBlock
  <1>5. CASE StepPasses(p)
    <2>1. Quiet(p, u) /\ pc'[p] \in {"check", "copy"} /\ cur'[p] = u
      BY <1>5 DEF StepPasses, Goto, Quiet, OthersStill, TypeOK, ProcTypeOK
    <2> QED
      BY <1>5, <2>1, QuietStep DEF StepPasses, Quiet, Kept, Moves, MoverCode, Cleans, CleanerCode, Pipeline, TryBlock
  <1>6. CASE StepFails(p) \/ MoveCopy(p) \/ CommitVideo(p)
    BY <1>6, MoveIsLocal, QuietStep
    DEF StepFails, MoveCopy, CommitVideo, Kept, Quiet, Moves, MoverCode, Cleans, CleanerCode, Pipeline, TryBlock
  <1>7. CASE FailStep(p)
    BY <1>7, MoveIsLocal, WriteStep DEF FailStep, Kept, RowStatus, Moves
  <1>8. CASE MoveUnlink(p)
    <2>1. ListsShrink(u)
      BY <1>8 DEF MoveUnlink, ListsShrink
    <2> QED
      BY <1>8, <2>1, MoveIsLocal, UnlinkStep DEF MoveUnlink, Unlink, Kept, Moves, MoverCode
  <1>9. CASE MarkDone(p)
    <2>1. videos[u] = 1
      BY <1>9 DEF MarkDone, CustodyInv, DoneAfterCommit
    <2> QED
      BY <1>9, <2>1, MoveIsLocal, WriteStep DEF MarkDone, Kept, RowStatus
  <1>10. CASE Report(p)
    BY <1>10, MoveIsLocal, QuietStep
    DEF Report, Kept, Quiet, Moves, MoverCode, Cleans, CleanerCode, Pipeline, OutsideTry
  <1>11. CASE Raise(p)
    <2>1. CASE pc[p] \in TryBlock /\ Leave(p, TRUE) /\ UNCHANGED unhandled
      BY <1>11, <2>1, MoveIsLocal, QuietStep
      DEF Raise, Kept, Quiet, Moves, Cleans, CleanerCode, Pipeline, OutsideTry
    <2>2. CASE pc[p] \in OutsideTry /\ Escape(p)
      BY <1>11, <2>2, EscapeKept DEF Raise
    <2> QED
      BY <1>11, <2>1, <2>2 DEF Raise
  <1>12. CASE Finally(p)
    <2>1. CASE status[u] \in Settled /\ u \in temp
      BY <1>12, <2>1, MoveIsLocal, QuietStep
      DEF Finally, Kept, Quiet, Moves, MoverCode, Cleans, CleanerCode, Pipeline, OutsideTry
    <2>2. CASE ~ (status[u] \in Settled /\ u \in temp) /\ exc[p]
      BY <1>12, <2>2, EscapeKept DEF Finally, Exit
    <2>3. CASE ~ (status[u] \in Settled /\ u \in temp) /\ ~ exc[p]
      BY <1>12, <2>3, MoveIsLocal, QuietStep
      DEF Finally, Exit, Settled, Kept, Quiet, Moves, MoverCode, Cleans
    <2> QED
      BY <2>1, <2>2, <2>3
  <1>13. CASE FinallyRemove(p)
    <2>1. ListsShrink(u) /\ \A r \in Requests : u \in batch'[r] => u \in batch[r]
      BY <1>13 DEF FinallyRemove, ListsShrink
    <2>2. CASE exc[p] \/ u \notin temp
      <3>1. CASE p \in Workers
        <4>1. /\ OthersStill(p) /\ pc'[p] = "failed" /\ cur'[p] = u /\ UNCHANGED unhandled
          BY <1>13, <2>2, <3>1 DEF FinallyRemove, Exit, Escape, OthersStill, TypeOK, ProcTypeOK
        <4> QED
          BY <1>13, <2>1, <4>1, UnlinkStep DEF FinallyRemove, Kept, Moves, MoverCode
      <3>2. CASE p \notin Workers
        <4>1. Release(p) /\ unhandled' = unhandled \cup {u}
          BY <1>13, <2>2, <3>2 DEF FinallyRemove, Exit, Escape, Unhandled
        <4> QED
          BY <1>13, <2>1, <4>1, MoveIsLocal, UnlinkStep DEF FinallyRemove, Kept
      <3> QED
        BY <3>1, <3>2
    <2>3. CASE ~ (exc[p] \/ u \notin temp)
      <3>1. Release(p) /\ UNCHANGED unhandled
        BY <1>13, <2>3 DEF FinallyRemove, Exit
      <3> QED
        BY <1>13, <2>1, <2>3, <3>1, MoveIsLocal, UnlinkStep DEF FinallyRemove, Kept, Moves, MoverCode
    <2> QED
      BY <2>2, <2>3
  <1> QED
    BY <1>1, <1>2, <1>3, <1>4, <1>5, <1>6, <1>7, <1>8, <1>9, <1>10, <1>11, <1>12, <1>13 DEF RunPipeline

LEMMA WorkerKept ==
  ASSUME TypeOK, CustodyInv, OwnerInv, NEW w \in Workers, WorkerStep(w)
  PROVE  Kept(w)
  <1>0. w \in Procs /\ (pc[w] \in AfterJob => cur[w] \in Items)
    BY DEF Procs, TypeOK, ProcTypeOK, AfterJob
  <1> USE <1>0 DEF tableVars, rowVars, brokerVars, listVars, At, CancelCode
  <1>1. ASSUME NEW t \in Items, WorkerDequeue(w, t) PROVE Kept(w)
    <2>1. ItemInv(t) /\ jobs[t] > 0 /\ status[t] # "absent"
      BY <1>1 DEF WorkerDequeue, Pop, OwnerInv, ItemInv, FreshItem
    <2>2. cur[w] = NoItem /\ (status[t] = "uploaded" => t \in unhandled)
      BY <1>1, <2>1 DEF WorkerDequeue, ItemInv, FreshItem, TypeOK, ProcTypeOK
    <2>3. \A u \in Items \ {t} : jobs'[u] = jobs[u] /\ scheduled' = scheduled
      BY <1>1 DEF WorkerDequeue, Pop, TypeOK, BrokerTypeOK
    <2>4. OthersStill(w) /\ pc'[w] = "lookup" /\ cur'[w] = t
      BY <1>1, MoveIsLocal DEF WorkerDequeue
    <2>5. scheduled' = scheduled /\ UNCHANGED <<status, temp, unhandled, todo, batch>>
      BY <1>1 DEF WorkerDequeue, Pop
    <2>6. Moves(w, t)' /\ Cleans(w, t)'
      BY <2>4 DEF Moves, MoverCode, Cleans, CleanerCode, Pipeline, OutsideTry
    <2>7. pc[w] # "clear_unlink" /\ pc'[w] \notin {"rm_row", "missing"}
      BY <1>1, <2>4 DEF WorkerDequeue
    <2> QED
      BY <2>1, <2>2, <2>3, <2>4, <2>5, <2>6, <2>7, BrokerStep DEF Kept
  <1>2. CASE RunPipeline(w)
    BY <1>2, PipelineKept
  <1>3. ASSUME NEW u \in Items, cur[w] = u, JobFailure(w) PROVE Kept(w)
    <2>1. u \in Items /\ pc[w] = "failed" /\ pc[w] \notin FreshCode
      BY <1>3 DEF JobFailure, AfterJob, FreshCode
    <2>2. status[u] # "absent" /\ (status[u] = "uploaded" => u \in unhandled)
      BY <1>3, <2>1 DEF OwnerInv, ItemInv, FreshItem
    <2>3. OthersStill(w) /\ pc'[w] = "handler" /\ cur'[w] = u
      BY <1>3, MoveIsLocal DEF JobFailure
    <2>4. \A t \in Items \ {u} : jobs'[t] = jobs[t] /\ (t \in scheduled' <=> t \in scheduled)
      BY <1>3 DEF JobFailure, Fail
    <2>5. Moves(w, u)' /\ Cleans(w, u)'
      BY <2>3 DEF Moves, MoverCode, Cleans, CleanerCode, AfterJob
    <2> QED
      BY <1>3, <2>1, <2>2, <2>3, <2>4, <2>5, BrokerStep DEF JobFailure, Kept
  <1>4. ASSUME NEW u \in Items, cur[w] = u, HandlerMark(w) PROVE Kept(w)
    <2>1. u \in Items /\ pc[w] \notin FreshCode
      BY <1>4 DEF HandlerMark, AfterJob, FreshCode
    <2>2. OthersStill(w) /\ pc'[w] = "handler_rm" /\ cur'[w] = u
      BY <1>4, MoveIsLocal DEF HandlerMark
    <2>3. Cleans(w, u)'
      BY <2>2 DEF Cleans, CleanerCode, AfterJob
    <2> QED
      BY <1>4, <2>1, <2>2, <2>3, WriteStep DEF HandlerMark, Kept, RowStatus
  <1>5. ASSUME NEW u \in Items, cur[w] = u, HandlerLookup(w) PROVE Kept(w)
    <2>1. pc[w] \notin FreshCode /\ ~ Moves(w, u) /\ u # NoItem
      BY <1>5, ProcsAssumption DEF HandlerLookup, FreshCode, Moves, MoverCode
    <2>2. CASE HasRow(u) /\ u \in temp
      <3>1. Quiet(w, u) /\ cur'[w] = u /\ pc'[w] = "handler_unlink"
        BY <1>5, <2>2, MoveIsLocal DEF HandlerLookup, Quiet
      <3> QED
        BY <1>5, <2>1, <3>1, QuietStep DEF HandlerLookup, Kept, Cleans, CleanerCode, AfterJob
    <2>3. CASE ~ (HasRow(u) /\ u \in temp)
      <3>1. Quiet(w, u) /\ cur'[w] = NoItem
        BY <1>5, <2>3, MoveIsLocal DEF HandlerLookup, Quiet
      <3> QED
        BY <1>5, <2>1, <2>3, <3>1, QuietStep DEF HandlerLookup, HasRow, RowStatus, Kept
    <2> QED
      BY <2>2, <2>3
  <1>6. ASSUME NEW u \in Items, cur[w] = u, HandlerRemove(w) PROVE Kept(w)
    <2>1. pc[w] \notin FreshCode /\ ~ Moves(w, u) /\ u # NoItem
      BY <1>6, ProcsAssumption DEF HandlerRemove, FreshCode, Moves, MoverCode
    <2>2. OthersStill(w) /\ cur'[w] = NoItem
      BY <1>6, MoveIsLocal DEF HandlerRemove
    <2>3. ListsShrink(u) /\ \A r \in Requests : u \in batch'[r] => u \in batch[r]
      BY <1>6 DEF HandlerRemove, ListsShrink
    <2> QED
      BY <1>6, <2>1, <2>2, <2>3, UnlinkStep DEF HandlerRemove, Unlink, Kept
  <1>7. ASSUME NEW u \in Items, cur[w] = u, HandlerRaises(w) PROVE Kept(w)
    <2>1. /\ Release(w) /\ pc[w] \notin FreshCode /\ pc[w] # "clear_unlink"
          /\ unhandled' = unhandled \cup {u} /\ ListsShrink(NoItem)
      BY <1>7 DEF HandlerRaises, Unhandled, FreshCode, ListsShrink
    <2> QED
      BY <1>7, <2>1, GiveUpStep DEF HandlerRaises, Kept
  <1> QED
    BY <1>1, <1>2, <1>3, <1>4, <1>5, <1>6, <1>7
    DEF WorkerStep, JobFailure, HandlerMark, HandlerLookup, HandlerRemove, HandlerRaises, AfterJob

\* With the cancel_job of an RQ that has none, nothing happens; with one that works,
\* nobody relies on the job: there is a cancel, or this process goes on to delete the item.
LEMMA CancelJobKept ==
  ASSUME TypeOK, OwnerInv, NEW r \in Requests, NEW u \in Items, cur[r] = u, CancelJobStep(r) \/ RemoveJob(r)
  PROVE  Kept(r)
  <1>0. r \in Procs /\ u \in Items /\ u # NoItem /\ ItemInv(u)
    BY ProcsAssumption DEF Procs, TypeOK, ProcTypeOK, OwnerInv, CancelJobStep, RemoveJob, At
  <1>1. /\ OthersStill(r) /\ cur'[r] \in {u, NoItem}
        /\ pc[r] \in {"cancel_job", "rm_job"} /\ (cur'[r] = u => pc'[r] = "rm_file")
        /\ cur'[r] = u => pc[r] = "rm_job"
        /\ UNCHANGED <<status, temp, unhandled, todo, batch>>
    BY <1>0, MoveIsLocal DEF CancelJobStep, RemoveJob, At, tableVars, listVars
  <1>2. CASE UNCHANGED brokerVars
    <2>1. Quiet(r, u)
      BY <1>1, <1>2 DEF Quiet, brokerVars
    <2> QED
      BY <1>0, <1>1, <2>1, QuietStep
      DEF Kept, FreshCode, CancelCode, Moves, MoverCode, Cleans, CleanerCode, Pipeline, TryBlock, OutsideTry,
          AfterJob
  <1>3. CASE CancelWorks /\ CancelJob(u)
    <2>1. /\ \A t \in Items \ {u} : jobs'[t] = jobs[t] /\ (t \in scheduled' <=> t \in scheduled)
          /\ jobs[u] = 0 => jobs'[u] = 0
          /\ u \notin scheduled'
      BY <1>0, <1>3 DEF CancelJob, TypeOK, BrokerTypeOK
    <2>2. Only(r, u)
      BY <1>1, <2>1 DEF Only, ListsShrink, OnlyItem
    <2>3. FreshItem(u)'
      BY <1>0, <1>1, <2>1 DEF ItemInv, FreshItem, FreshCode, OthersStill
    <2>4. GoneFile(u)'
      <3>1. \A q \in Requests : cur[q] = u /\ pc[q] = "clear_unlink" =>
                                cur'[q] = u /\ pc'[q] = "clear_unlink"
        BY <1>1 DEF OthersStill, Procs
      <3> QED
        BY <1>0, <1>1, <3>1 DEF ItemInv, GoneFile, OthersStill
    <2>5. Responsible(u)'
      <3>1. CASE cur'[r] = u
        BY <1>0, <1>1, <3>1 DEF Responsible, Moved, Cleaned, Moves, MoverCode, Cleans, CleanerCode
      <3>2. CASE cur'[r] # u
        <4>1. pc[r] = "cancel_job" /\ ~ Moves(r, u) /\ ~ Cleans(r, u)
          BY <1>0, <1>1, <3>2, MoveIsLocal
          DEF CancelJobStep, RemoveJob, At, Moves, MoverCode, Cleans, CleanerCode, Pipeline, TryBlock, OutsideTry, AfterJob
        <4>2. ~ Relied(u)
          BY <1>3, <4>1 DEF Relied, Spared, CancelCode
        <4>3. \A q \in Procs : (Moves(q, u) => Moves(q, u)') /\ (Cleans(q, u) => Cleans(q, u)')
          BY <1>1, <4>1 DEF Moves, Cleans, OthersStill
        <4> QED
          BY <1>0, <1>1, <4>2, <4>3 DEF ItemInv, Responsible, Moved, Cleaned
      <3> QED
        BY <3>1, <3>2
    <2>6. Protocol(u)
      BY <1>1 DEF Protocol
    <2> QED
      BY <1>0, <2>2, <2>3, <2>4, <2>5, <2>6 DEF Kept, ItemInv
  <1>4. UNCHANGED brokerVars \/ (CancelWorks /\ CancelJob(u))
    BY DEF CancelJobStep, RemoveJob, CancelRqJob, CancelJob
  <1> QED
    BY <1>2, <1>3, <1>4

\* cancel overwrites whatever status it finds now; who was responsible for the item
\* then still finds it cancelled, and removes the file.
LEMMA CancelWriteKept ==
  ASSUME TypeOK, CustodyInv, OwnerInv, NEW r \in Requests, NEW u \in Items, cur[r] = u, CancelWrite(r)
  PROVE  Kept(r)
  <1>0. r \in Procs /\ u \in Items /\ u # NoItem /\ ItemInv(u) /\ pc[r] = "cancel_write"
    BY ProcsAssumption DEF Procs, TypeOK, ProcTypeOK, OwnerInv, CancelWrite, At
  <1>00. /\ pc[r] \notin FreshCode /\ pc[r] # "clear_unlink" /\ ~ Moves(r, u) /\ ~ Cleans(r, u)
    BY <1>0 DEF FreshCode, Moves, MoverCode, Cleans, CleanerCode, Pipeline, TryBlock, OutsideTry, AfterJob
  <1>1. CASE ~ HasRow(u)
    <2>1. Quiet(r, u) /\ cur'[r] = NoItem
      BY <1>0, <1>1, MoveIsLocal DEF CancelWrite, SetStatus, Quiet, brokerVars, listVars
    <2> QED
      BY <1>0, <1>00, <2>1, QuietStep DEF Kept
  <1>2. CASE HasRow(u)
    <2>1. /\ OthersStill(r) /\ pc'[r] = "cancel_job" /\ cur'[r] = u
          /\ status' = [status EXCEPT ![u] = "cancelled"]
          /\ UNCHANGED <<temp, unhandled, jobs, scheduled, todo, batch>>
      BY <1>0, <1>2, MoveIsLocal DEF CancelWrite, SetStatus, brokerVars, listVars
    <2>2. status'[u] = "cancelled" /\ \A t \in Items \ {u} : status'[t] = status[t]
      BY <1>0, <2>1 DEF TypeOK, TableTypeOK
    <2>3. Only(r, u)
      BY <2>1, <2>2 DEF Only, ListsShrink, OnlyItem
    <2>4. FreshItem(u)'
      BY <2>2 DEF FreshItem
    <2>5. GoneFile(u)'
      <3>1. \A q \in Requests : cur[q] = u /\ pc[q] = "clear_unlink" =>
                                cur'[q] = u /\ pc'[q] = "clear_unlink"
        BY <1>0, <2>1 DEF OthersStill, Procs
      <3> QED
        BY <1>0, <2>1, <2>2, <3>1 DEF ItemInv, GoneFile, OthersStill
    <2>6. Moved(u)'
      BY <2>2 DEF Moved
    <2>7. Accountable => Cleaned(u)'
      <3> SUFFICES ASSUME Accountable, u \notin unhandled, u \in temp, ~ Relied(u)'
                   PROVE  \E q \in Procs : Cleans(q, u)'
        BY <1>0, <2>1 DEF Cleaned
      <3>0. ~ Relied(u)
        BY <1>0, <2>1, <2>2 DEF Relied, Waits, Spared, CancelCode
      <3>1. status[u] \in {"queued", "processing", "error", "cancelled"}
        <4>1. status[u] # "uploaded"
          BY <1>0, <1>00 DEF ItemInv, FreshItem
        <4>2. status[u] # "done"
          BY <1>0 DEF CustodyInv, StoredOnce, TempIsFresh
        <4> QED
          BY <1>2, <4>1, <4>2 DEF HasRow, RowStatus
      <3>2. PICK q \in Procs : Moves(q, u) \/ Cleans(q, u)
        BY <1>0, <3>0, <3>1 DEF ItemInv, Responsible, Moved, Cleaned
      <3>3. q # r /\ Cleans(q, u)
        BY <1>00, <3>2 DEF Moves, MoverCode, Cleans, CleanerCode, Pipeline, TryBlock, OutsideTry, AfterJob
      <3> QED
        BY <2>1, <3>3 DEF Cleans, OthersStill
    <2>8. Protocol(u)
      BY <1>0, <1>00, <1>2, <2>2 DEF Protocol, ItemInv, FreshItem, HasRow, RowStatus
    <2> QED
      BY <1>0, <2>3, <2>4, <2>5, <2>6, <2>7, <2>8 DEF Kept, ItemInv, Responsible
  <1> QED
    BY <1>1, <1>2

\* A push, with or without an answer, leaves the job in RQ's list.  The one client that
\* pushes it cancels nothing meanwhile.
LEMMA EnqueueKept ==
  ASSUME TypeOK, OwnerInv, StartInv, NEW r \in Requests, NEW u \in Items, cur[r] = u,
         EnqueueMark(r) \/ EnqueueRefused(r) \/ EnqueuePush(r) \/ EnqueueInline(r)
  PROVE  Kept(r)
  <1>0. /\ r \in Procs /\ u \in Items /\ u # NoItem /\ ItemInv(u)
        /\ pc[r] = "push" => status[u] # "absent" /\ (status[u] = "uploaded" => u \in unhandled)
    BY ProcsAssumption
    DEF Procs, TypeOK, ProcTypeOK, OwnerInv, ItemInv, FreshItem, FreshCode, At,
        EnqueueMark, EnqueueRefused, EnqueuePush, EnqueueInline
  <1> USE <1>0 DEF tableVars, rowVars, brokerVars, listVars, At
  <1>1. CASE EnqueueMark(r)
    <2>1. /\ OthersStill(r) /\ pc'[r] \in {"push", "lookup"} /\ cur'[r] = u /\ Moves(r, u)'
      BY <1>1, MoveIsLocal DEF EnqueueMark, Moves, MoverCode
    <2> QED
      BY <1>1, <2>1, WriteStep DEF EnqueueMark, Kept, RowStatus
  <1>2. CASE EnqueueRefused(r)
    <2>1. ListsShrink(NoItem) /\ unhandled' = unhandled \cup {u}
      BY <1>2 DEF EnqueueRefused, ListsShrink, Unhandled
    <2> QED
      BY <1>2, <2>1, GiveUpStep DEF EnqueueRefused, Kept
  <1>3. ASSUME NEW n \in MaxRetries, Push(u, n)
        PROVE  Waits(u)' /\ \A t \in Items \ {u} : jobs'[t] = jobs[t] /\ scheduled' = scheduled
    BY <1>3 DEF Push, Waits, TypeOK, BrokerTypeOK
  <1>4. CASE EnqueuePush(r)
    <2>1. PICK n \in MaxRetries : Push(u, n)
      BY <1>4 DEF EnqueuePush
    <2>2. OthersStill(r) /\ pc'[r] = "idle" /\ cur'[r] = NoItem
      BY <1>4, MoveIsLocal DEF EnqueuePush
    <2>3. Accountable => u \in unhandled \/ Relied(u)'
      <3> SUFFICES ASSUME CancelWorks, OneClient, u \notin unhandled PROVE Spared(u)'
        BY <1>3, <2>1 DEF Accountable, Relied
      <3>1. status'[u] = "queued"
        BY <1>4 DEF EnqueuePush, StartInv, Alone
      <3>2. \A q \in Requests : cur'[q] # u
        BY <2>2 DEF OneClient
      <3> QED
        BY <3>1, <3>2 DEF Spared
    <2> QED
      BY <1>3, <1>4, <2>1, <2>2, <2>3, BrokerStep DEF EnqueuePush, Kept
  <1>5. CASE EnqueueInline(r)
    <2>1. PICK n \in MaxRetries : Push(u, n) \/ UNCHANGED brokerVars
      BY <1>5 DEF EnqueueInline
    <2>2. OthersStill(r) /\ pc'[r] = "lookup" /\ cur'[r] = u
      BY <1>5, MoveIsLocal DEF EnqueueInline
    <2>3. Moves(r, u)' /\ Cleans(r, u)'
      BY <2>2 DEF Moves, MoverCode, Cleans, CleanerCode, Pipeline, OutsideTry
    <2> QED
      BY <1>3, <1>5, <2>1, <2>2, <2>3, BrokerStep DEF EnqueueInline, Kept
  <1> QED
    BY <1>1, <1>2, <1>4, <1>5

\* remove unlinks before it deletes the row.
LEMMA RemoveKept ==
  ASSUME TypeOK, OwnerInv, NEW r \in Requests, NEW u \in Items, cur[r] = u,
         CancelRead(r) \/ RemoveLookup(r) \/ RemoveUnlink(r) \/ RemoveRow(r)
  PROVE  Kept(r)
  <1>0. r \in Procs /\ u \in Items /\ u # NoItem /\ ItemInv(u)
    BY ProcsAssumption
    DEF Procs, TypeOK, ProcTypeOK, OwnerInv, At, CancelRead, RemoveLookup, RemoveUnlink, RemoveRow
  <1> USE <1>0 DEF tableVars, brokerVars, listVars, At, CancelCode
  <1>1. CASE CancelRead(r)
    <2>1. Quiet(r, u) /\ cur'[r] = u
      BY <1>1, MoveIsLocal DEF CancelRead, Quiet
    <2>2. pc[r] = "cancel_read" /\ pc'[r] \in {"cancel_job", "cancel_write"}
      BY <1>1, MoveIsLocal DEF CancelRead
    <2> QED
      BY <2>1, <2>2, QuietStep
      DEF Kept, FreshCode, Moves, MoverCode, Cleans, CleanerCode, Pipeline, TryBlock, OutsideTry, AfterJob
  <1>2. CASE RemoveLookup(r)
    <2>1. CASE HasRow(u)
      <3>1. /\ Quiet(r, u) /\ cur'[r] = u /\ pc[r] = "rm_file"
            /\ pc'[r] = (IF u \in temp THEN "rm_unlink" ELSE "rm_row")
        BY <1>2, <2>1 DEF RemoveLookup, Goto, Quiet, OthersStill, TypeOK, ProcTypeOK
      <3> QED
        BY <3>1, QuietStep DEF Kept, FreshCode, Moves, MoverCode, Cleans, CleanerCode
    <2>2. CASE ~ HasRow(u)
      <3>1. Quiet(r, u) /\ cur'[r] = NoItem /\ pc[r] = "rm_file" /\ status[u] \notin RowStatus
        BY <1>2, <2>2, MoveIsLocal DEF RemoveLookup, Quiet, HasRow
      <3> QED
        BY <3>1, QuietStep DEF Kept, RowStatus
    <2> QED
      BY <2>1, <2>2
  <1>3. CASE RemoveUnlink(r)
    <2>1. ListsShrink(u) /\ \A q \in Requests : u \in batch'[q] => u \in batch[q]
      BY <1>3 DEF RemoveUnlink, ListsShrink
    <2>2. CASE u \in temp
      <3>1. /\ OthersStill(r) /\ pc'[r] = "rm_row" /\ cur'[r] = u /\ unhandled' = unhandled
            /\ Moves(r, u)'
        BY <1>3, <2>2, MoveIsLocal DEF RemoveUnlink, Moves, MoverCode
      <3> QED
        BY <1>3, <2>1, <3>1, UnlinkStep DEF RemoveUnlink, Kept, FreshCode
    <2>3. CASE u \notin temp
      <3>1. Release(r) /\ unhandled' = unhandled \cup {u}
        BY <1>3, <2>3 DEF RemoveUnlink, Unhandled
      <3> QED
        BY <1>3, <2>1, <3>1, MoveIsLocal, UnlinkStep DEF RemoveUnlink, Kept
    <2> QED
      BY <2>2, <2>3
  <1>4. CASE RemoveRow(r)
    <2>1. OthersStill(r) /\ cur'[r] = NoItem /\ u \notin temp
      BY <1>4, MoveIsLocal DEF RemoveRow, ItemInv, GoneFile
    <2>2. /\ \A t \in Items \ {u} : status'[t] = status[t]
          /\ status'[u] = IF HasRow(u) THEN "deleted" ELSE status[u]
          /\ UNCHANGED <<temp, unhandled, jobs, scheduled, todo, batch>>
      BY <1>4 DEF RemoveRow, DeleteRows
    <2>3. Only(r, u)
      BY <2>1, <2>2 DEF Only, ListsShrink, OnlyItem
    <2>4. status'[u] = "deleted"
      BY <2>2 DEF ItemInv, FreshItem, HasRow, RowStatus, TypeOK, TableTypeOK, Status
    <2>5. FreshItem(u)' /\ GoneFile(u)' /\ Moved(u)' /\ Cleaned(u)' /\ Protocol(u)
      BY <2>1, <2>2, <2>4 DEF FreshItem, GoneFile, Moved, Cleaned, Protocol
    <2> QED
      BY <2>3, <2>5 DEF Kept, ItemInv, Responsible
  <1> QED
    BY <1>1, <1>2, <1>3, <1>4

\* delete_all_queue unlinks every file before it deletes the rows.
LEMMA ClearFilesKept ==
  ASSUME TypeOK, CustodyInv, OwnerInv, NEW r \in Requests, NEW u \in Items,
         ClearLookup(r, u) \/ (ClearUnlink(r) /\ cur[r] = u)
  PROVE  Kept(r)
  <1>0. r \in Procs /\ u # NoItem /\ ItemInv(u)
    BY ProcsAssumption DEF Procs, OwnerInv
  <1>1. CASE ClearLookup(r, u)
    <2>1. /\ pc[r] = "clear_file" /\ cur[r] = NoItem /\ u \in todo[r]
          /\ todo' = [todo EXCEPT ![r] = @ \ {u}] /\ batch' = batch
          /\ UNCHANGED <<status, temp, unhandled, jobs, scheduled>>
      BY <1>0, <1>1 DEF ClearLookup, At, TypeOK, ProcTypeOK, tableVars, brokerVars
    <2>2. CASE u \notin temp
      <3>1. UNCHANGED <<pc, cur, exc>>
        BY <1>1, <2>2 DEF ClearLookup, procVars
      <3>2. Only(r, u)
        BY <2>1, <3>1 DEF Only, OthersStill, OnlyItem, ListsShrink, TypeOK, ListTypeOK
      <3>3. FreshItem(u)' /\ GoneFile(u)' /\ Protocol(u)
        BY <1>0, <2>1, <2>2, <3>1 DEF ItemInv, FreshItem, GoneFile, Protocol
      <3>4. Responsible(u)'
        BY <1>0, <2>1, <3>1
        DEF ItemInv, Responsible, Moved, Cleaned, Relied, Waits, Spared, Moves, Cleans
      <3> QED
        BY <3>2, <3>3, <3>4 DEF Kept, ItemInv
    <2>3. CASE u \in temp
      <3>1. OthersStill(r) /\ pc'[r] = "clear_unlink" /\ cur'[r] = u
        BY <1>0, <1>1, <2>3, MoveIsLocal DEF ClearLookup
      <3>2. Only(r, u)
        BY <2>1, <3>1 DEF Only, OnlyItem, ListsShrink, TypeOK, ListTypeOK
      <3>3. status[u] # "absent"
        BY <2>3 DEF CustodyInv, TempIsFresh
      <3>4. FreshItem(u)' /\ Protocol(u)
        BY <1>0, <2>1, <3>1, <3>3 DEF ItemInv, FreshItem, FreshCode, OthersStill, Protocol
      <3>5. GoneFile(u)'
        <4>1. \A q \in Requests \ {r} : todo'[q] = todo[q]
          BY <2>1 DEF TypeOK, ListTypeOK
        <4>2. \A q \in Requests \ {r} : pc'[q] = pc[q] /\ cur'[q] = cur[q]
          BY <3>1 DEF OthersStill, Procs
        <4> QED
          BY <1>0, <2>1, <3>1, <4>1, <4>2 DEF ItemInv, GoneFile, OthersStill
      <3>6. Responsible(u)'
        <4>1. \A q \in Procs : (Moves(q, u) => Moves(q, u)') /\ (Cleans(q, u) => Cleans(q, u)')
          BY <1>0, <2>1, <3>1 DEF Moves, Cleans, OthersStill
        <4>2. Relied(u) => Relied(u)'
          BY <1>0, <2>1, <3>1 DEF Relied, Waits, Spared, CancelCode, OthersStill, Procs
        <4> QED
          BY <1>0, <2>1, <4>1, <4>2 DEF ItemInv, Responsible, Moved, Cleaned
      <3> QED
        BY <3>2, <3>4, <3>5, <3>6 DEF Kept, ItemInv
    <2> QED
      BY <2>2, <2>3
  <1>2. CASE ClearUnlink(r) /\ cur[r] = u
    <2>1. ListsShrink(u) /\ \A q \in Requests : u \in batch'[q] => u \in batch[q]
      BY <1>2 DEF ClearUnlink, Forget, ListsShrink, listVars, TypeOK, ListTypeOK
    <2>2. OthersStill(r) /\ cur'[r] = NoItem
      BY <1>0, <1>2, MoveIsLocal DEF ClearUnlink
    <2>3. ~ Moves(r, u)
      BY <1>2 DEF ClearUnlink, At, Moves, MoverCode
    <2> QED
      BY <1>0, <1>2, <2>1, <2>2, <2>3, UnlinkStep DEF ClearUnlink, Unlink, Kept, brokerVars
  <1> QED
    BY <1>1, <1>2

\* The requests that concern all items at once: the start and the end of
\* delete_all_queue, session_delete, and the end of a web process.
LEMMA AllItemsKept ==
  ASSUME TypeOK, OwnerInv, NEW r \in Requests,
         DeleteAllQueue(r) \/ ClearRows(r) \/ SessionDelete(r) \/ WebCrash(r)
  PROVE  OwnerInv' /\ \A t \in Items : Protocol(t)
  <1> SUFFICES ASSUME NEW t \in Items PROVE ItemInv(t)' /\ Protocol(t)
    BY DEF OwnerInv
  <1>0. r \in Procs /\ t # NoItem /\ ItemInv(t)
    BY ProcsAssumption DEF Procs, OwnerInv
  <1>1. CASE DeleteAllQueue(r)
    <2>1. /\ pc[r] = "idle" /\ pc'[r] = "clear_file" /\ UNCHANGED <<cur, exc>>
          /\ \A q \in Procs \ {r} : pc'[q] = pc[q]
          /\ UNCHANGED <<status, temp, unhandled, jobs, scheduled>>
      BY <1>0, <1>1 DEF DeleteAllQueue, At, TypeOK, ProcTypeOK, tableVars, brokerVars
    <2>2. /\ todo'[r] = {i \in Items : HasRow(i)} /\ batch'[r] = {i \in Items : HasRow(i)}
          /\ \A q \in Requests \ {r} : todo'[q] = todo[q] /\ batch'[q] = batch[q]
      BY <1>1 DEF DeleteAllQueue, TypeOK, ListTypeOK
    <2>3. FreshItem(t)' /\ Protocol(t)
      BY <1>0, <2>1, <2>2 DEF ItemInv, FreshItem, FreshCode, HasRow, RowStatus, Protocol
    <2>4. GoneFile(t)'
      <3>1. \A q \in Requests \ {r} : pc'[q] = pc[q]
        BY <2>1 DEF Procs
      <3> QED
        BY <1>0, <2>1, <2>2, <3>1 DEF ItemInv, GoneFile
    <2>5. Responsible(t)'
      <3>1. \A q \in Procs : (Moves(q, t) => Moves(q, t)') /\ (Cleans(q, t) => Cleans(q, t)')
        BY <2>1 DEF Moves, MoverCode, Cleans, CleanerCode, Pipeline, TryBlock, OutsideTry, AfterJob
      <3>2. Relied(t) => Relied(t)'
        BY <2>1 DEF Relied, Waits, Spared, CancelCode, Procs
      <3> QED
        BY <1>0, <2>1, <3>1, <3>2 DEF ItemInv, Responsible, Moved, Cleaned
    <2> QED
      BY <2>3, <2>4, <2>5 DEF ItemInv
  <1>2. CASE ClearRows(r)
    <2>1. /\ OthersStill(r) /\ pc[r] = "clear_file" /\ cur[r] = NoItem /\ cur'[r] = NoItem
          /\ pc'[r] = "idle" /\ todo[r] = {} /\ UNCHANGED <<temp, unhandled, jobs, scheduled>>
      BY <1>0, <1>2, MoveIsLocal DEF ClearRows, DeleteRows, At, TypeOK, ProcTypeOK, brokerVars
    <2>2. /\ batch'[r] = {} /\ todo'[r] = {}
          /\ \A q \in Requests \ {r} : todo'[q] = todo[q] /\ batch'[q] = batch[q]
      BY <1>2 DEF ClearRows, Forget, TypeOK, ListTypeOK
    <2>3. /\ status'[t] = "deleted" /\ t \in batch[r] /\ HasRow(t)
          \/ status'[t] = status[t]
      BY <1>2 DEF ClearRows, DeleteRows
    <2>4. FreshItem(t)' /\ Protocol(t)
      BY <1>0, <2>1, <2>2, <2>3 DEF ItemInv, FreshItem, OthersStill, Protocol, HasRow, RowStatus
    <2>5. GoneFile(t)'
      <3>1. \A q \in Requests \ {r} : pc'[q] = pc[q] /\ cur'[q] = cur[q]
        BY <2>1 DEF OthersStill, Procs
      <3>2. t \in batch[r] => t \notin temp
        BY <1>0, <2>1 DEF ItemInv, GoneFile
      <3> QED
        BY <1>0, <2>1, <2>2, <2>3, <3>1, <3>2 DEF ItemInv, GoneFile, OthersStill
    <2>6. Responsible(t)'
      <3>1. status'[t] = status[t] =>
              \A q \in Procs : (Moves(q, t) => Moves(q, t)') /\ (Cleans(q, t) => Cleans(q, t)')
        BY <1>0, <2>1 DEF Moves, Cleans, OthersStill
      <3>2. status'[t] = status[t] /\ Relied(t) => Relied(t)'
        BY <1>0, <2>1 DEF Relied, Waits, Spared, OthersStill, Procs
      <3> QED
        BY <1>0, <2>1, <2>3, <3>1, <3>2 DEF ItemInv, Responsible, Moved, Cleaned
    <2> QED
      BY <2>4, <2>5, <2>6 DEF ItemInv
  <1>3. CASE WebCrash(r)
    <2>1. /\ OthersStill(r) /\ cur'[r] = NoItem /\ pc'[r] = "idle"
          /\ UNCHANGED <<status, temp, jobs, scheduled>>
          /\ unhandled' = unhandled \cup ({cur[r]} \cap Items)
      BY <1>0, <1>3, MoveIsLocal DEF WebCrash, Unhandled, rowVars, brokerVars
    <2>2. /\ batch'[r] = {} /\ todo'[r] = {}
          /\ \A q \in Requests \ {r} : todo'[q] = todo[q] /\ batch'[q] = batch[q]
      BY <1>3 DEF WebCrash, Forget, TypeOK, ListTypeOK
    <2>3. FreshItem(t)' /\ Protocol(t)
      BY <1>0, <2>1, <2>2 DEF ItemInv, FreshItem, OthersStill, Protocol
    <2>4. GoneFile(t)'
      <3>1. \A q \in Requests \ {r} : pc'[q] = pc[q] /\ cur'[q] = cur[q]
        BY <2>1 DEF OthersStill, Procs
      <3> QED
        BY <1>0, <2>1, <2>2, <3>1 DEF ItemInv, GoneFile, OthersStill
    <2>5. Responsible(t)'
      <3>1. t \notin unhandled' =>
              \A q \in Procs : (Moves(q, t) => Moves(q, t)') /\ (Cleans(q, t) => Cleans(q, t)')
        BY <1>0, <2>1 DEF Moves, Cleans, OthersStill
      <3>2. Relied(t) => Relied(t)'
        BY <1>0, <2>1 DEF Relied, Waits, Spared, OthersStill, Procs
      <3> QED
        BY <1>0, <2>1, <3>1, <3>2 DEF ItemInv, Responsible, Moved, Cleaned
    <2> QED
      BY <2>3, <2>4, <2>5 DEF ItemInv
  <1>4. CASE SessionDelete(r)
    <2>1. UNCHANGED <<temp, jobs, scheduled, pc, cur, exc, todo, batch>>
      BY <1>4 DEF SessionDelete, brokerVars, procVars, listVars
    <2>2. /\ IF HasRow(t) THEN status'[t] = "deleted" ELSE status'[t] = status[t]
          /\ unhandled \subseteq unhandled' /\ (HasRow(t) /\ t \in temp => t \in unhandled')
      BY <1>4 DEF SessionDelete
    <2>3. FreshItem(t)' /\ Protocol(t)
      BY <1>0, <2>1, <2>2 DEF ItemInv, FreshItem, Protocol, HasRow, RowStatus
    <2>4. GoneFile(t)'
      BY <1>0, <2>1, <2>2 DEF ItemInv, GoneFile
    <2>5. Responsible(t)'
      BY <1>0, <2>1, <2>2 DEF ItemInv, Responsible, Moved, Cleaned, Relied, Waits, Spared, Moves, Cleans
    <2> QED
      BY <2>3, <2>4, <2>5 DEF ItemInv
  <1> QED
    BY <1>1, <1>2, <1>3, <1>4

LEMMA RequestKept ==
  ASSUME TypeOK, CustodyInv, OwnerInv, StartInv, NEW r \in Requests, RequestStep(r)
  PROVE  OwnerInv' /\ \A t \in Items : Protocol(t)
  <1>0. r \in Procs /\ (pc[r] \in RequestCode \cup {"clear_unlink"} => cur[r] \in Items)
    BY DEF Procs, TypeOK, ProcTypeOK, RequestCode
  <1>1. CASE RunPipeline(r)
    BY <1>0, <1>1, PipelineKept, KeptIsEnough
  <1>2. CASE EnqueueMark(r) \/ EnqueueRefused(r) \/ EnqueuePush(r) \/ EnqueueInline(r)
    <2>1. cur[r] \in Items
      BY <1>0, <1>2 DEF EnqueueMark, EnqueueRefused, EnqueuePush, EnqueueInline, At, RequestCode
    <2> QED
      BY <1>0, <1>2, <2>1, EnqueueKept, KeptIsEnough
  <1>3. CASE CancelRead(r) \/ RemoveLookup(r) \/ RemoveUnlink(r) \/ RemoveRow(r)
    <2>1. cur[r] \in Items
      BY <1>0, <1>3 DEF CancelRead, RemoveLookup, RemoveUnlink, RemoveRow, At, RequestCode
    <2> QED
      BY <1>0, <1>3, <2>1, RemoveKept, KeptIsEnough
  <1>4. CASE CancelWrite(r)
    <2>1. cur[r] \in Items
      BY <1>0, <1>4 DEF CancelWrite, At, RequestCode
    <2> QED
      BY <1>0, <1>4, <2>1, CancelWriteKept, KeptIsEnough
  <1>5. CASE CancelJobStep(r) \/ RemoveJob(r)
    <2>1. cur[r] \in Items
      BY <1>0, <1>5 DEF CancelJobStep, RemoveJob, At, RequestCode
    <2> QED
      BY <1>0, <1>5, <2>1, CancelJobKept, KeptIsEnough
  <1>6. ASSUME NEW t \in Items, ClearLookup(r, t) PROVE OwnerInv' /\ \A i \in Items : Protocol(i)
    BY <1>0, <1>6, ClearFilesKept, KeptIsEnough
  <1>7. CASE ClearUnlink(r)
    <2>1. cur[r] \in Items
      BY <1>0, <1>7 DEF ClearUnlink, At
    <2> QED
      BY <1>0, <1>7, <2>1, ClearFilesKept, KeptIsEnough
  <1>8. CASE ClearRows(r)
    BY <1>8, AllItemsKept
  <1> QED
    BY <1>1, <1>2, <1>3, <1>4, <1>5, <1>6, <1>7, <1>8 DEF RequestStep

\* A request is only begun for an item with a row.
LEMMA UserKept ==
  ASSUME TypeOK, CustodyInv, OwnerInv, User
  PROVE  OwnerInv' /\ \A t \in Items : Protocol(t)
  <1>1. ASSUME NEW u \in Items, Upload(u), NEW t \in Items PROVE ItemInv(t)' /\ Protocol(t)
    <2>0. ItemInv(t)
      BY DEF OwnerInv
    <2>1. /\ UNCHANGED <<unhandled, jobs, scheduled, pc, cur, exc, todo, batch>>
          /\ status[u] = "absent" /\ status' = [status EXCEPT ![u] = "uploaded"]
          /\ temp' = temp \cup {u}
      BY <1>1 DEF Upload, Add, brokerVars, procVars, listVars
    <2>2. status'[t] = (IF t = u THEN "uploaded" ELSE status[t])
      BY <2>1 DEF TypeOK, TableTypeOK
    <2>3. FreshItem(t)' /\ Protocol(t)
      BY <2>0, <2>1, <2>2 DEF ItemInv, FreshItem, Protocol
    <2>4. GoneFile(t)'
      BY <2>0, <2>1, <2>2 DEF ItemInv, FreshItem, GoneFile
    <2>5. Responsible(t)'
      BY <2>0, <2>1, <2>2
      DEF ItemInv, Responsible, Moved, Cleaned, Relied, Waits, Spared, Moves, Cleans
    <2> QED
      BY <2>3, <2>4, <2>5 DEF ItemInv
  <1>2. ASSUME NEW r \in Requests, NEW u \in Items,
               QueueProcess(r, u) \/ QueueCancel(r, u) \/ QueueRemove(r, u)
        PROVE  Kept(r)
    <2>0. r \in Procs /\ u # NoItem /\ ItemInv(u)
      BY ProcsAssumption DEF Procs, OwnerInv
    <2>1. /\ OthersStill(r) /\ cur[r] = NoItem /\ cur'[r] = u /\ pc[r] = "idle"
          /\ pc'[r] \in {"enqueue", "cancel_read", "rm_job"}
          /\ pc'[r] = "cancel_read" => status[u] = "processing"
          /\ status[u] # "absent"
          /\ UNCHANGED <<status, temp, unhandled, jobs, scheduled, todo, batch>>
      BY <1>2, <2>0, MoveIsLocal
      DEF QueueProcess, QueueCancel, QueueRemove, At, HasRow, RowStatus, TypeOK, ProcTypeOK,
          tableVars, brokerVars, listVars
    <2>2. Only(r, u)
      BY <2>1 DEF Only, OnlyItem, ListsShrink
    <2>3. FreshItem(u)' /\ Protocol(u)
      BY <2>0, <2>1 DEF ItemInv, FreshItem, FreshCode, OthersStill, Protocol
    <2>4. GoneFile(u)'
      <3>1. \A q \in Requests \ {r} : pc'[q] = pc[q] /\ cur'[q] = cur[q]
        BY <2>1 DEF OthersStill, Procs
      <3> QED
        BY <2>0, <2>1, <3>1 DEF ItemInv, GoneFile, OthersStill
    <2>5. Responsible(u)'
      <3>1. \A q \in Procs : (Moves(q, u) => Moves(q, u)') /\ (Cleans(q, u) => Cleans(q, u)')
        BY <2>0, <2>1 DEF Moves, Cleans, OthersStill
      <3>2. Relied(u) => Relied(u)'
        BY <2>0, <2>1 DEF Relied, Waits, Spared, CancelCode, OthersStill, Procs
      <3> QED
        BY <2>0, <2>1, <3>1, <3>2 DEF ItemInv, Responsible, Moved, Cleaned
    <2> QED
      BY <2>2, <2>3, <2>4, <2>5 DEF Kept, ItemInv
  <1>3. Requests \subseteq Procs
    BY DEF Procs
  <1>4. ASSUME NEW r \in Requests, DeleteAllQueue(r) \/ SessionDelete(r)
        PROVE  OwnerInv' /\ \A t \in Items : Protocol(t)
    BY <1>4, AllItemsKept
  <1> QED
    BY <1>1, <1>2, <1>3, <1>4, KeptIsEnough DEF User, OwnerInv

\* A promoted retry is a job again; what a killed worker had is a retry, or is unhandled.
LEMMA EnvironmentKept ==
  ASSUME TypeOK, OwnerInv, Environment
  PROVE  OwnerInv' /\ \A t \in Items : Protocol(t)
  <1>1. ASSUME NEW u \in Items, Promote(u), NEW t \in Items PROVE ItemInv(t)' /\ Protocol(t)
    <2>0. ItemInv(t)
      BY DEF OwnerInv
    <2>1. /\ UNCHANGED <<status, temp, unhandled, pc, cur, exc, todo, batch>>
          /\ u \in scheduled /\ WithScheduler
      BY <1>1 DEF Promote, Requeue, tableVars, procVars, listVars
    <2>2. /\ jobs'[t] = (IF t = u THEN jobs[t] + 1 ELSE jobs[t])
          /\ t \in scheduled' <=> t \in scheduled /\ t # u
          /\ jobs[t] \in Nat
      BY <1>1 DEF Promote, Requeue, TypeOK, BrokerTypeOK
    <2>3. Relied(t) => Relied(t)'
      BY <2>1, <2>2 DEF Relied, Waits, Spared
    <2>4. FreshItem(t)' /\ GoneFile(t)' /\ Protocol(t)
      BY <2>0, <2>1, <2>2 DEF ItemInv, FreshItem, GoneFile, Protocol
    <2>5. Responsible(t)'
      BY <2>0, <2>1, <2>3 DEF ItemInv, Responsible, Moved, Cleaned, Moves, Cleans
    <2> QED
      BY <2>4, <2>5 DEF ItemInv
  <1>2. ASSUME NEW w \in Workers, WorkerCrash(w) PROVE Kept(w)
    <2>0. w \in Procs /\ w \notin Requests /\ pc[w] \in Pipeline \cup AfterJob /\ cur[w] \in Items
      BY <1>2, ProcsAssumption DEF WorkerCrash, Procs, TypeOK, ProcTypeOK, Pipeline, TryBlock, OutsideTry, AfterJob
    <2> DEFINE u == cur[w]
    <2>1. pc[w] \notin FreshCode
      BY <2>0 DEF FreshCode, Pipeline, TryBlock, OutsideTry, AfterJob
    <2>2. /\ UNCHANGED <<status, temp, todo, batch>> /\ Release(w)
          /\ \A t \in Items \ {u} : jobs'[t] = jobs[t] /\ (t \in scheduled' <=> t \in scheduled)
      BY <1>2 DEF WorkerCrash, Fail, brokerVars, rowVars, listVars
    <2>3. CASE WithScheduler /\ u \in scheduled'
      <3>1. PICK i \in Items : i = u
        BY <2>0
      <3>2. UNCHANGED unhandled /\ (Accountable => Relied(i)') /\ OthersStill(w) /\ cur'[w] = NoItem /\ pc'[w] = "idle"
        BY <1>2, <2>0, <2>2, <2>3, <3>1, MoveIsLocal DEF WorkerCrash, Relied, Waits, Accountable
      <3>3. status[i] # "absent" /\ (status[i] = "uploaded" => i \in unhandled)
        BY <2>0, <2>1, <3>1 DEF OwnerInv, ItemInv, FreshItem
      <3> QED
        BY <2>0, <2>1, <2>2, <3>1, <3>2, <3>3, BrokerStep DEF Kept, FreshCode
    <2>4. CASE ~ (WithScheduler /\ u \in scheduled')
      <3>1. unhandled' = unhandled \cup {u} /\ ListsShrink(NoItem)
        BY <1>2, <2>0, <2>2, <2>4 DEF WorkerCrash, Unhandled, ListsShrink
      <3> QED
        BY <2>0, <2>1, <2>2, <3>1, GiveUpStep DEF Kept, FreshCode
    <2> QED
      BY <2>3, <2>4
  <1>3. ASSUME NEW r \in Requests, WebCrash(r) PROVE OwnerInv' /\ \A t \in Items : Protocol(t)
    BY <1>3, AllItemsKept
  <1>4. Workers \subseteq Procs
    BY DEF Procs
  <1> QED
    BY <1>1, <1>2, <1>3, <1>4, KeptIsEnough DEF Environment, OwnerInv

-----------------------------------------------------------------------------
\* Before anything is uploaded nobody is responsible for anything.
LEMMA InitOwner == Init => OwnerInv
  <1> SUFFICES ASSUME Init, NEW t \in Items PROVE ItemInv(t)
    BY DEF OwnerInv
  <1>1. /\ status[t] = "absent" /\ t \notin temp /\ jobs[t] = 0 /\ t \notin scheduled
        /\ \A p \in Procs : cur[p] # t
        /\ \A r \in Requests : t \notin batch[r]
    BY ProcsAssumption DEF Init, TableInit, BrokerInit
  <1>2. FreshItem(t)
    BY <1>1 DEF FreshItem
  <1>3. GoneFile(t)
    BY <1>1 DEF GoneFile
  <1> QED
    BY <1>1, <1>2, <1>3 DEF ItemInv, Responsible, Moved, Cleaned

\* Every step keeps the invariant and the protocol.
LEMMA NextOwner ==
  TypeOK /\ CustodyInv /\ OwnerInv /\ StartInv /\ [Next]_vars =>
    OwnerInv' /\ \A t \in Items : Protocol(t)
  <1> SUFFICES ASSUME TypeOK, CustodyInv, OwnerInv, StartInv, [Next]_vars
               PROVE  OwnerInv' /\ \A t \in Items : Protocol(t)
    OBVIOUS
  <1>1. ASSUME NEW w \in Workers, WorkerStep(w) PROVE OwnerInv' /\ \A t \in Items : Protocol(t)
    BY <1>1, WorkerKept, KeptIsEnough DEF Procs
  <1>2. ASSUME NEW r \in Requests, RequestStep(r) PROVE OwnerInv' /\ \A t \in Items : Protocol(t)
    BY <1>2, RequestKept
  <1>3. CASE User
    BY <1>3, UserKept
  <1>4. CASE Environment
    BY <1>4, EnvironmentKept
  <1>5. CASE UNCHANGED vars
    BY <1>5
    DEF vars, OwnerInv, ItemInv, FreshItem, GoneFile, Responsible, Moved, Cleaned, Relied, Waits, Spared,
        Moves, Cleans, Protocol
  <1> QED
    BY <1>1, <1>2, <1>3, <1>4, <1>5 DEF Next

\* Nobody is in the middle of an enqueue at first.
LEMMA InitStart == Init => StartInv
  BY ProcsAssumption DEF Init, StartInv, Procs

\* The one client is alone with an item it enqueues.
LEMMA NobodyElse ==
  ASSUME TypeOK, OwnerInv, StartInv, OneClient, NEW r \in Requests, NEW t \in Items \ unhandled,
         cur[r] = t, pc[r] \in {"enqueue", "push"}
  PROVE  /\ jobs[t] = 0 /\ t \notin scheduled /\ status[t] # "absent"
         /\ \A p \in Procs \ {r} : cur[p] # t
  <1>1. Alone(r, t) /\ ItemInv(t) /\ r \in Procs
    BY DEF StartInv, OwnerInv, Procs
  <1>2. CASE pc[r] = "enqueue"
    <2>1. FreshItem(t) /\ status[t] = "uploaded"
      BY <1>1, <1>2 DEF Alone, ItemInv
    <2>2. ASSUME NEW w \in Workers PROVE cur[w] # t
      <3>1. w \in Procs /\ pc[w] \in {"idle"} \cup Pipeline \cup AfterJob
        BY DEF Procs, TypeOK, ProcTypeOK
      <3>2. pc[w] \in FreshCode => pc[w] = "idle" /\ cur[w] = NoItem
        BY <3>1 DEF FreshCode, Pipeline, TryBlock, OutsideTry, AfterJob, TypeOK, ProcTypeOK
      <3> QED
        BY <2>1, <3>1, <3>2, ProcsAssumption DEF FreshItem
    <2> QED
      BY <2>1, <2>2 DEF FreshItem, OneClient, Procs
  <1>3. CASE pc[r] = "push"
    BY <1>1, <1>3 DEF Alone
  <1> QED
    BY <1>2, <1>3

\* A request that has begun comes to the push only by the mark, and to the mark no more.
LEMMA EntersPush ==
  ASSUME TypeOK, NEW r \in Requests, RequestStep(r), pc'[r] \in {"enqueue", "push"}
  PROVE  EnqueueMark(r) /\ pc'[r] = "push" /\ cur'[r] = cur[r]
  <1>0. r \in Procs
    BY DEF Procs
  <1>1. ~ RunPipeline(r)
    <2>1. RunPipeline(r) => pc'[r] \in {"idle", "failed"} \cup Pipeline
      BY <1>0, MoveIsLocal
      DEF RunPipeline, Lookup, MarkMissing, MarkProcessing, CheckCancelled, StepPasses, StepFails,
          FailStep, MoveCopy, MoveUnlink, CommitVideo, MarkDone, Report, Raise, Finally, FinallyRemove,
          Exit, Escape, Pipeline, TryBlock, OutsideTry, TypeOK, ProcTypeOK
    <2> QED
      BY <2>1 DEF Pipeline, TryBlock, OutsideTry
  <1>2. \A t \in Items : ~ ClearLookup(r, t)
    BY <1>0 DEF ClearLookup, Take, procVars, At, TypeOK, ProcTypeOK
  <1>3. ~ ClearUnlink(r) /\ ~ ClearRows(r)
    BY <1>0 DEF ClearUnlink, ClearRows, Take, Release, TypeOK, ProcTypeOK
  <1>4. ~ RemoveJob(r) /\ ~ RemoveLookup(r) /\ ~ RemoveUnlink(r) /\ ~ RemoveRow(r)
    BY <1>0
    DEF RemoveJob, RemoveLookup, RemoveUnlink, RemoveRow, Goto, Release, TypeOK, ProcTypeOK
  <1>5. ~ CancelRead(r) /\ ~ CancelWrite(r) /\ ~ CancelJobStep(r)
    BY <1>0 DEF CancelRead, CancelWrite, CancelJobStep, Goto, Release, TypeOK, ProcTypeOK
  <1>6. ~ EnqueueRefused(r) /\ ~ EnqueuePush(r) /\ ~ EnqueueInline(r)
    BY <1>0, MoveIsLocal DEF EnqueueRefused, EnqueuePush, EnqueueInline
  <1>7. EnqueueMark(r)
    BY <1>1, <1>2, <1>3, <1>4, <1>5, <1>6 DEF RequestStep
  <1> QED
    BY <1>0, <1>7, MoveIsLocal DEF EnqueueMark

\* A worker comes to an item only by taking its job from the list, and no failure is
\* ever forgotten.
LEMMA WorkerEnters ==
  ASSUME TypeOK, NEW w \in Workers, WorkerStep(w)
  PROVE  /\ \/ pc[w] # "idle" /\ cur'[w] \in {cur[w], NoItem}
            \/ \E i \in Items : jobs[i] > 0 /\ cur'[w] = i
         /\ unhandled \subseteq unhandled'
  <1>0. w \in Procs
    BY DEF Procs
  <1>1. ASSUME NEW i \in Items, WorkerDequeue(w, i)
        PROVE  jobs[i] > 0 /\ cur'[w] = i /\ unhandled' = unhandled
    BY <1>0, <1>1, MoveIsLocal DEF WorkerDequeue, Pop, tableVars
  <1>2. CASE RunPipeline(w)
    <2>1. pc[w] # "idle" /\ cur'[w] \in {cur[w], NoItem}
      BY <1>0, <1>2, MoveIsLocal
      DEF RunPipeline, Lookup, MarkMissing, MarkProcessing, CheckCancelled, StepPasses, StepFails,
          FailStep, MoveCopy, MoveUnlink, CommitVideo, MarkDone, Report, Raise, Finally, FinallyRemove,
          Exit, Escape, TryBlock, OutsideTry, At
    <2>2. unhandled \subseteq unhandled'
      BY <1>2
      DEF RunPipeline, Lookup, MarkMissing, MarkProcessing, CheckCancelled, StepPasses, StepFails,
          FailStep, MoveCopy, MoveUnlink, CommitVideo, MarkDone, Report, Raise, Finally, FinallyRemove,
          Exit, Escape, Unhandled, UpdateStatus, Unlink, tableVars
    <2> QED
      BY <2>1, <2>2
  <1>3. CASE JobFailure(w) \/ HandlerMark(w) \/ HandlerLookup(w) \/ HandlerRemove(w) \/ HandlerRaises(w)
    <2>1. pc[w] # "idle" /\ cur'[w] \in {cur[w], NoItem}
      BY <1>0, <1>3, MoveIsLocal DEF JobFailure, HandlerMark, HandlerLookup, HandlerRemove, HandlerRaises, At
    <2>2. unhandled \subseteq unhandled'
      BY <1>3
      DEF JobFailure, HandlerMark, HandlerLookup, HandlerRemove, HandlerRaises, Unhandled, UpdateStatus,
          Unlink, tableVars
    <2> QED
      BY <2>1, <2>2
  <1> QED
    BY <1>1, <1>2, <1>3 DEF WorkerStep

\* Nothing happens to an item between the two steps of its one client's enqueue.
LEMMA NextStart ==
  TypeOK /\ CustodyInv /\ OwnerInv /\ StartInv /\ [Next]_vars => StartInv'
  <1> SUFFICES ASSUME TypeOK, CustodyInv, OwnerInv, StartInv, [Next]_vars, OneClient,
                      NEW r \in Requests, NEW t \in Items, t \notin unhandled', cur'[r] = t,
                      pc'[r] \in {"enqueue", "push"}
               PROVE  Alone(r, t)'
    BY DEF StartInv, Alone
  <1>0. r \in Procs /\ t # NoItem
    BY ProcsAssumption DEF Procs
  <1>1. ASSUME NEW w \in Workers, WorkerStep(w) PROVE Alone(r, t)'
    <2>1. w \in Procs /\ w # r /\ t \notin unhandled
      BY <1>1, WorkerEnters, ProcsAssumption DEF Procs
    <2>2. PICK u \in Items : Only(w, u)
      BY <1>1, WorkerKept DEF Kept
    <2>3. pc[r] = pc'[r] /\ cur[r] = t
      BY <1>0, <2>1, <2>2 DEF Only, OthersStill
    <2>4. /\ jobs[t] = 0 /\ Alone(r, t)
          /\ \A p \in Procs \ {r} : cur[p] # t
      BY <2>1, <2>3, NobodyElse DEF StartInv
    <2>5. u # t /\ cur'[w] # t
      <3>1. /\ cur[w] # t /\ (pc[w] # "idle" => cur[w] # NoItem)
            /\ cur[w] \in {u, NoItem} /\ cur'[w] \in {u, NoItem}
        BY <2>1, <2>2, <2>4, ProcsAssumption DEF Only, TypeOK, ProcTypeOK, Pipeline, TryBlock, OutsideTry, AfterJob
      <3>2. \/ pc[w] # "idle" /\ cur'[w] \in {cur[w], NoItem}
            \/ \E i \in Items : jobs[i] > 0 /\ cur'[w] = i
        BY <1>1, WorkerEnters
      <3> QED
        BY <1>0, <2>4, <3>1, <3>2, ProcsAssumption
    <2>6. UNCHANGED <<status[t], jobs[t]>> /\ (t \in scheduled' <=> t \in scheduled)
      BY <2>2, <2>5 DEF Only, OnlyItem
    <2>7. \A p \in Procs \ {w} : cur'[p] = cur[p]
      BY <2>2 DEF Only, OthersStill
    <2> QED
      BY <2>3, <2>4, <2>5, <2>6, <2>7 DEF Alone
  <1>2. ASSUME NEW q \in Requests, RequestStep(q) PROVE Alone(r, t)'
    <2>1. EnqueueMark(r) /\ pc'[r] = "push" /\ cur[r] = t
      BY <1>2, EntersPush DEF OneClient
    <2>2. t \notin unhandled /\ UNCHANGED brokerVars /\ OthersStill(r)
      BY <1>0, <2>1, MoveIsLocal DEF EnqueueMark, UpdateStatus
    <2>3. pc[r] = "enqueue" /\ HasRow(t)
      BY <2>1, <2>2 DEF EnqueueMark, At, StartInv, Alone, HasRow, RowStatus
    <2>4. status'[t] = "queued"
      BY <2>1, <2>3 DEF EnqueueMark, UpdateStatus, SetStatus, TypeOK, TableTypeOK
    <2>5. jobs[t] = 0 /\ t \notin scheduled /\ \A p \in Procs \ {r} : cur[p] # t
      BY <2>1, <2>2, <2>3, NobodyElse
    <2> QED
      BY <2>1, <2>2, <2>4, <2>5 DEF Alone, OthersStill, brokerVars
  <1>3. CASE User
    <2>1. ASSUME NEW i \in Items, Upload(i) PROVE Alone(r, t)'
      <3>1. UNCHANGED <<unhandled, pc, cur, jobs, scheduled>>
        BY <2>1 DEF Upload, Add, brokerVars, procVars
      <3>2. Alone(r, t) /\ status[t] # "absent"
        BY <3>1, NobodyElse DEF StartInv
      <3>3. status'[t] = status[t]
        BY <2>1, <3>2 DEF Upload, Add
      <3> QED
        BY <3>1, <3>2, <3>3 DEF Alone
    <2>2. ASSUME NEW q \in Requests, NEW i \in Items, QueueProcess(q, i) PROVE Alone(r, t)'
      BY <1>0, <2>2, MoveIsLocal DEF QueueProcess, OneClient, Alone, tableVars
    <2>3. ASSUME NEW q \in Requests, NEW i \in Items, QueueCancel(q, i) \/ QueueRemove(q, i)
          PROVE  FALSE
      BY <1>0, <2>3, MoveIsLocal DEF QueueCancel, QueueRemove, OneClient
    <2>4. ASSUME NEW q \in Requests, DeleteAllQueue(q) PROVE FALSE
      BY <1>0, <2>4 DEF DeleteAllQueue, OneClient, TypeOK, ProcTypeOK
    <2>5. ASSUME NEW q \in Requests, SessionDelete(q) PROVE FALSE
      BY <1>0, <2>5 DEF SessionDelete, OneClient, At, procVars
    <2> QED
      BY <1>3, <2>1, <2>2, <2>3, <2>4, <2>5 DEF User
  <1>4. CASE Environment
    <2>1. ASSUME NEW i \in Items, Promote(i) PROVE Alone(r, t)'
      <3>1. UNCHANGED <<unhandled, pc, cur, status>> /\ i \in scheduled
        BY <2>1 DEF Promote, Requeue, tableVars, procVars
      <3>2. Alone(r, t) /\ t \notin scheduled
        BY <3>1, NobodyElse DEF StartInv
      <3>3. jobs'[t] = jobs[t] /\ t \notin scheduled'
        BY <2>1, <3>1, <3>2 DEF Promote, Requeue, TypeOK, BrokerTypeOK
      <3> QED
        BY <3>1, <3>2, <3>3 DEF Alone
    <2>2. ASSUME NEW w \in Workers, WorkerCrash(w) PROVE Alone(r, t)'
      <3>1. /\ w \in Procs /\ w # r /\ OthersStill(w) /\ cur'[w] = NoItem
            /\ UNCHANGED status /\ t \notin unhandled
        BY <2>2, MoveIsLocal, ProcsAssumption DEF WorkerCrash, Unhandled, rowVars, Procs
      <3>2. pc[r] = pc'[r] /\ cur[r] = t
        BY <1>0, <3>1 DEF OthersStill
      <3>3. /\ Alone(r, t) /\ t \notin scheduled /\ jobs[t] = 0
            /\ \A p \in Procs \ {r} : cur[p] # t
        BY <3>1, <3>2, NobodyElse DEF StartInv
      <3>4. jobs'[t] = jobs[t] /\ t \notin scheduled'
        BY <2>2, <3>1, <3>3 DEF WorkerCrash, Fail, brokerVars
      <3> QED
        BY <1>0, <3>1, <3>2, <3>3, <3>4 DEF Alone, OthersStill
    <2>3. ASSUME NEW q \in Requests, WebCrash(q) PROVE FALSE
      BY <1>0, <2>3, MoveIsLocal DEF WebCrash, OneClient
    <2> QED
      BY <1>4, <2>1, <2>2, <2>3 DEF Environment
  <1>5. CASE UNCHANGED vars
    BY <1>5 DEF vars, StartInv, Alone
  <1> QED
    BY <1>1, <1>2, <1>3, <1>4, <1>5 DEF Next

\* The invariant holds in every reachable state, with any faults.
LEMMA OwnerInvariant == Spec => [](TypeOK /\ CustodyInv /\ OwnerInv /\ StartInv)
  BY CustodyInvariant, InitOwner, InitStart, NextOwner, NextStart, PTL DEF Spec

\* Whatever runs beside it, a deleted row stays deleted, an uploaded item is enqueued
\* before anything else happens to it, and only a stored item becomes "done".
THEOREM ProtocolKept == Spec => StatusProtocol
  <1>1. TypeOK /\ CustodyInv /\ OwnerInv /\ StartInv /\ [Next]_vars =>
          [\A t \in Items :
             /\ status[t] = "deleted" => status'[t] = "deleted"
             /\ status[t] = "uploaded" =>
                  status'[t] \in {"uploaded", "queued", "deleted"} \/ t \in unhandled
             /\ status'[t] = "done" => status[t] = "done" \/ videos[t] = 1]_vars
    BY NextOwner DEF Protocol
  <1> QED
    BY <1>1, OwnerInvariant, PTL DEF Spec, StatusProtocol

\* With an RQ whose Queue has no cancel_job, or with one client and no process killed, an
\* item that waits or runs is in somebody's hands, unless a failure that no code handles
\* hit it.
THEOREM NothingAbandoned == ASSUME Accountable PROVE Spec => []NoAbandonedItem
  <1>1. OwnerInv => NoAbandonedItem
    <2> SUFFICES ASSUME OwnerInv, NEW t \in Items \ unhandled, status[t] \in {"queued", "processing"}
                 PROVE  Owned(t)
      BY DEF NoAbandonedItem
    <2>1. Waits(t) \/ \E p \in Procs : Moves(p, t)
      BY DEF OwnerInv, ItemInv, Responsible, Moved, Relied
    <2> QED
      BY <2>1 DEF Owned, InCode, Waits, Moves, MoverCode, Pipeline, TryBlock, OutsideTry, AfterJob
  <1> QED
    BY <1>1, OwnerInvariant, PTL

\* Under the same condition, the file of a settled or deleted item is gone once
\* nobody has the item any more.
THEOREM NothingLeaks == ASSUME Accountable PROVE Spec => []NoTempLeak
  <1>1. CustodyInv /\ OwnerInv => NoTempLeak
    <2> SUFFICES ASSUME CustodyInv, OwnerInv, NEW t \in Items \ unhandled,
                        status[t] \in Settled \cup {"deleted"}, t \in temp
                 PROVE  Owned(t)
      BY DEF NoTempLeak
    <2>1. status[t] \in {"error", "cancelled"}
      BY DEF CustodyInv, TempIsFresh, StoredOnce, OwnerInv, ItemInv, GoneFile, Settled
    <2>2. Waits(t) \/ \E p \in Procs : Cleans(p, t)
      BY <2>1 DEF OwnerInv, ItemInv, Responsible, Cleaned, Relied
    <2> QED
      BY <2>2 DEF Owned, InCode, Waits, Cleans, CleanerCode
  <1> QED
    BY <1>1, OwnerInvariant, PTL

-----------------------------------------------------------------------------
(***************************************************************************)
(* ExclusiveExecution: an item has at most one token, the job in RQ's list,  *)
(* the scheduled retry or the execution itself, and none before it is        *)
(* started.                                                                  *)
(***************************************************************************)

\* One client thread, no lost status write, and an enqueue that says what it did: with
\* any of these gone a second token is made.
SingleClient == OneClient /\ ~ DbErrors /\ ~ EnqueueErrors

Unstarted == {"absent", "uploaded"}

Executes(p, t) == cur[p] = t /\ pc[p] \in Pipeline \cup {"failed"}

Starts(r, t) == cur[r] = t /\ pc[r] \in {"enqueue", "push"}

NoToken(t) == jobs[t] = 0 /\ t \notin scheduled

Token(t) ==
  /\ jobs[t] <= 1 /\ (jobs[t] = 1 => t \notin scheduled)
  /\ \A p \in Procs : Executes(p, t) => NoToken(t) /\ \A q \in Procs : Executes(q, t) => q = p
  /\ status[t] \in Unstarted \/ (\E r \in Requests : Starts(r, t)) =>
       NoToken(t) /\ \A p \in Procs : ~ Executes(p, t)
  /\ \A r \in Requests : Starts(r, t) => status[t] # "absent"
  /\ \A r \in Requests : cur[r] = t /\ pc[r] = "push" => status[t] # "uploaded"

TokenInv == \A t \in Items : Token(t)

\* No item gets a token, or goes back to where it had none.
NothingAdded ==
  \A t \in Items :
    /\ jobs'[t] <= jobs[t] /\ (t \in scheduled' => t \in scheduled)
    /\ \A s \in Unstarted : status'[t] = s => status[t] = s

\* The process enters neither the pipeline nor the request that starts an item.
NoEntry(p) ==
  /\ pc'[p] \in Pipeline \cup {"failed"} => pc[p] \in Pipeline \cup {"failed"} /\ cur'[p] = cur[p]
  /\ pc'[p] \notin {"enqueue", "push"}

\* A step that adds no token and enters nothing keeps the tokens.
LEMMA InnerStep ==
  ASSUME TypeOK, TokenInv, NEW p \in Procs, OthersStill(p), NoEntry(p), NothingAdded, TypeOK'
  PROVE  TokenInv'
  <1> SUFFICES ASSUME NEW t \in Items PROVE Token(t)'
    BY DEF TokenInv
  <1>1. \A q \in Procs : Executes(q, t)' => Executes(q, t)
    BY DEF Executes, NoEntry, OthersStill
  <1>2. \A r \in Requests : Starts(r, t)' => Starts(r, t)
    BY DEF Starts, NoEntry, OthersStill, Procs
  <1>3. \A r \in Requests : cur'[r] = t /\ pc'[r] = "push" => cur[r] = t /\ pc[r] = "push"
    BY DEF NoEntry, OthersStill, Procs
  <1>4. jobs[t] \in Nat /\ jobs'[t] \in Nat
    BY DEF TypeOK, BrokerTypeOK
  <1>5. NoToken(t) => NoToken(t)'
    BY <1>4 DEF NoToken, NothingAdded
  <1>6. Token(t) /\ \A s \in Unstarted : status'[t] = s => status[t] = s
    BY DEF TokenInv, NothingAdded
  <1>7. jobs'[t] <= 1 /\ (jobs'[t] = 1 => t \notin scheduled')
    BY <1>4, <1>6 DEF Token, NothingAdded
  <1>8. \A q \in Procs : Executes(q, t)' => NoToken(t)' /\ \A s \in Procs : Executes(s, t)' => s = q
    BY <1>1, <1>5, <1>6 DEF Token
  <1>9. status'[t] \in Unstarted \/ (\E r \in Requests : Starts(r, t)') =>
          NoToken(t)' /\ \A q \in Procs : ~ Executes(q, t)'
    BY <1>1, <1>2, <1>5, <1>6 DEF Token
  <1>10. \A r \in Requests : /\ Starts(r, t)' => status'[t] # "absent"
                             /\ cur'[r] = t /\ pc'[r] = "push" => status'[t] # "uploaded"
    BY <1>2, <1>3, <1>6 DEF Token, Unstarted
  <1> QED
    BY <1>7, <1>8, <1>9, <1>10 DEF Token

\* The status writes of the queue never bring an item back to its beginning.
LEMMA WritesGoOn ==
  ASSUME TypeOK, NEW u \in Items, NEW s \in RowStatus \ {"uploaded"},
         UpdateStatus(u, s) \/ SetStatus(u, s) \/ (\E T \in SUBSET Items : DeleteRows(T))
         \/ UNCHANGED status,
         UNCHANGED <<jobs, scheduled>>
  PROVE  NothingAdded
  <1>1. status \in [Items -> Status] /\ jobs \in [Items -> Nat]
    BY DEF TypeOK, TableTypeOK, BrokerTypeOK
  <1>2. \A t \in Items, w \in Unstarted : status'[t] = w => status[t] = w
    BY <1>1 DEF UpdateStatus, SetStatus, DeleteRows, Unstarted, RowStatus, HasRow
  <1> QED
    BY <1>1, <1>2 DEF NothingAdded

\* An execution keeps its token to its end, also when an exception ends it.
LEMMA PipelineToken ==
  ASSUME TypeOK, TypeOK', TokenInv, NEW p \in Procs, RunPipeline(p)
  PROVE  TokenInv'
  <1>0. cur[p] \in Items /\ pc[p] \in Pipeline /\ exc[p] \in BOOLEAN
    BY DEF TypeOK, ProcTypeOK, RunPipeline, Pipeline, OutsideTry, TryBlock, At, Lookup, MarkMissing,
           MarkProcessing, CheckCancelled, StepPasses, StepFails, FailStep, MoveCopy, MoveUnlink,
           CommitVideo, MarkDone, Report, Raise, Finally, FinallyRemove
  <1>1. OthersStill(p) /\ cur'[p] \in {cur[p], NoItem}
        /\ pc'[p] \in Pipeline \cup {"failed", "idle"}
        /\ (cur'[p] = NoItem => pc'[p] = "idle")
    <2> USE <1>0, ProcsAssumption
        DEF At, TypeOK, ProcTypeOK, OthersStill, Goto, Release, Leave, Pipeline, TryBlock, OutsideTry
    <2>1. CASE Lookup(p) \/ MarkMissing(p) \/ MarkProcessing(p)
      BY <2>1 DEF Lookup, MarkMissing, MarkProcessing
    <2>2. CASE CheckCancelled(p) \/ StepPasses(p) \/ StepFails(p) \/ FailStep(p)
      BY <2>2 DEF CheckCancelled, StepPasses, StepFails, FailStep
    <2>3. CASE MoveCopy(p) \/ MoveUnlink(p) \/ CommitVideo(p) \/ MarkDone(p) \/ Report(p)
      BY <2>3 DEF MoveCopy, MoveUnlink, CommitVideo, MarkDone, Report
    <2>4. ASSUME NEW e \in BOOLEAN, Exit(p, e) \/ Escape(p)
          PROVE  OthersStill(p) /\ cur'[p] \in {cur[p], NoItem} /\ pc'[p] \in {"failed", "idle"}
                 /\ (cur'[p] = NoItem => pc'[p] = "idle")
      BY <2>4 DEF Exit, Escape
    <2>5. CASE Raise(p)
      BY <2>4, <2>5 DEF Raise
    <2>6. CASE Finally(p)
      BY <2>4, <2>6 DEF Finally
    <2>7. CASE FinallyRemove(p)
      BY <2>4, <2>7 DEF FinallyRemove
    <2> QED
      BY <2>1, <2>2, <2>3, <2>5, <2>6, <2>7 DEF RunPipeline
  <1>2. NoEntry(p)
    BY <1>0, <1>1 DEF NoEntry, Pipeline, TryBlock, OutsideTry
  <1>3. UNCHANGED <<jobs, scheduled>>
    BY DEF RunPipeline, Lookup, MarkMissing, MarkProcessing, CheckCancelled, StepPasses, StepFails,
           FailStep, MoveCopy, MoveUnlink, CommitVideo, MarkDone, Report, Raise, Finally,
           FinallyRemove, brokerVars
  <1>4. (\E s \in RowStatus \ {"uploaded"} : UpdateStatus(cur[p], s)) \/ UNCHANGED status
    <2>1. CASE MarkMissing(p) \/ MarkProcessing(p) \/ FailStep(p) \/ MarkDone(p)
      <3>1. {"error", "processing", "queued", "done"} \subseteq RowStatus \ {"uploaded"}
        BY DEF RowStatus
      <3> QED
        BY <2>1, <3>1 DEF MarkMissing, MarkProcessing, FailStep, MarkDone
    <2>2. CASE ~ (MarkMissing(p) \/ MarkProcessing(p) \/ FailStep(p) \/ MarkDone(p))
      BY <2>2 DEF RunPipeline, Lookup, CheckCancelled, StepPasses, StepFails, MoveCopy, MoveUnlink,
                  CommitVideo, Report, Raise, Finally, FinallyRemove, Unlink, tableVars, rowVars
    <2> QED
      BY <2>1, <2>2
  <1>5. NothingAdded
    <2>1. "queued" \in RowStatus \ {"uploaded"}
      BY DEF RowStatus
    <2> QED
      BY <1>0, <1>3, <1>4, <2>1, WritesGoOn
  <1> QED
    BY <1>1, <1>2, <1>5, InnerStep

\* An execution that is over may leave a scheduled retry instead of itself.
LEMMA AttemptEnds ==
  ASSUME TypeOK, TypeOK', TokenInv, NEW p \in Procs, NEW u \in Items, OthersStill(p), cur[p] = u,
         pc[p] \in Pipeline \cup {"failed"},
         pc'[p] \in {"handler", "idle"}, cur'[p] \in {u, NoItem},
         UNCHANGED <<jobs, status>>, scheduled' \in {scheduled, scheduled \cup {u}}
  PROVE  TokenInv'
  <1>1. Token(u) /\ Executes(p, u)
    BY DEF TokenInv, Executes
  <1>2. \A q \in Procs, t \in Items : Executes(q, t)' => q # p /\ Executes(q, t)
    BY DEF Executes, OthersStill, Pipeline, OutsideTry, TryBlock
  <1>3. \A r \in Requests, t \in Items :
          /\ Starts(r, t)' => Starts(r, t)
          /\ cur'[r] = t /\ pc'[r] = "push" => cur[r] = t /\ pc[r] = "push"
    BY DEF Starts, OthersStill, Procs
  <1>4. \A q \in Procs : ~ Executes(q, u)'
    BY <1>1, <1>2 DEF Token
  <1>5. jobs'[u] = 0 /\ status'[u] \notin Unstarted /\ \A r \in Requests : ~ Starts(r, u)
    BY <1>1 DEF Token, NoToken
  <1>6. Token(u)'
    BY <1>3, <1>4, <1>5 DEF Token, Unstarted
  <1>7. ASSUME NEW t \in Items \ {u} PROVE Token(t)'
    BY <1>2, <1>3, <1>7 DEF TokenInv, Token, NoToken
  <1> QED
    BY <1>6, <1>7 DEF TokenInv

\* Taking a job turns it into an execution, and a failed one is scheduled only when it is over.
LEMMA WorkerToken ==
  ASSUME TypeOK, TypeOK', TokenInv, NEW w \in Workers, WorkerStep(w)
  PROVE  TokenInv'
  <1>0. /\ w \in Procs /\ (pc[w] \in AfterJob => cur[w] \in Items)
        /\ jobs \in [Items -> Nat] /\ cur \in [Procs -> Items \cup {NoItem}]
    BY DEF Procs, TypeOK, ProcTypeOK, BrokerTypeOK, AfterJob
  <1> USE <1>0 DEF At
  <1>1. ASSUME NEW u \in Items, WorkerDequeue(w, u) PROVE TokenInv'
    <2>1. OthersStill(w) /\ pc'[w] = "lookup" /\ cur'[w] = u /\ cur[w] = NoItem
      BY <1>1, MoveIsLocal DEF WorkerDequeue, TypeOK, ProcTypeOK
    <2>2. /\ jobs[u] > 0 /\ jobs'[u] = jobs[u] - 1 /\ \A t \in Items \ {u} : jobs'[t] = jobs[t]
          /\ UNCHANGED <<scheduled, status>>
      BY <1>1 DEF WorkerDequeue, Pop, tableVars
    <2>3. jobs[u] = 1 /\ u \notin scheduled /\ (\A p \in Procs : ~ Executes(p, u))
          /\ status[u] \notin Unstarted /\ (\A r \in Requests : ~ Starts(r, u)) /\ Token(u)
      BY <2>2 DEF TokenInv, Token, NoToken
    <2>4. \A p \in Procs, t \in Items : Executes(p, t)' <=> IF p = w THEN t = u ELSE Executes(p, t)
      BY <2>1, ProcsAssumption DEF Executes, OthersStill, Pipeline, OutsideTry
    <2>5. \A r \in Requests, t \in Items :
            /\ Starts(r, t)' => Starts(r, t)
            /\ cur'[r] = t /\ pc'[r] = "push" => cur[r] = t /\ pc[r] = "push"
      BY <2>1 DEF Starts, OthersStill, Procs
    <2>6. ~ Executes(w, u) /\ \A t \in Items : ~ Executes(w, t)
      BY <2>1, ProcsAssumption DEF Executes
    <2>7. Token(u)'
      BY <2>2, <2>3, <2>4, <2>5 DEF Token, NoToken
    <2>8. ASSUME NEW t \in Items \ {u} PROVE Token(t)'
      BY <2>2, <2>4, <2>5, <2>6, <2>8 DEF TokenInv, Token, NoToken
    <2> QED
      BY <2>7, <2>8 DEF TokenInv
  <1>2. CASE RunPipeline(w)
    BY <1>2, PipelineToken
  <1>3. CASE JobFailure(w)
    <2>1. OthersStill(w) /\ pc[w] = "failed" /\ pc'[w] = "handler" /\ cur'[w] = cur[w]
      BY <1>3, MoveIsLocal DEF JobFailure
    <2>2. UNCHANGED <<jobs, status>> /\ scheduled' \in {scheduled, scheduled \cup {cur[w]}}
      BY <1>3 DEF JobFailure, Fail, tableVars
    <2> QED
      BY <2>1, <2>2, AttemptEnds DEF AfterJob
  <1>4. CASE HandlerMark(w)
    <2>1. "error" \in RowStatus \ {"uploaded"}
      BY DEF RowStatus
    <2>2. NothingAdded
      BY <1>4, <2>1, WritesGoOn DEF HandlerMark, brokerVars, AfterJob
    <2>3. OthersStill(w) /\ pc'[w] = "handler_rm"
      BY <1>4, MoveIsLocal DEF HandlerMark
    <2>4. NoEntry(w)
      BY <2>3 DEF NoEntry, Pipeline, OutsideTry, TryBlock
    <2> QED
      BY <2>2, <2>3, <2>4, InnerStep
  <1>5. CASE HandlerLookup(w) \/ HandlerRemove(w) \/ HandlerRaises(w)
    <2>1. UNCHANGED <<status, jobs, scheduled>>
      BY <1>5 DEF HandlerLookup, HandlerRemove, HandlerRaises, brokerVars, tableVars, rowVars, Unlink
    <2>2. Release(w) \/ Goto(w, "handler_unlink")
      BY <1>5 DEF HandlerLookup, HandlerRemove, HandlerRaises
    <2>3. OthersStill(w) /\ pc'[w] \in {"idle", "handler_unlink"}
      BY <2>2, MoveIsLocal
    <2>4. NoEntry(w)
      BY <2>3 DEF NoEntry, Pipeline, OutsideTry, TryBlock
    <2> QED
      BY <2>1, <2>3, <2>4, InnerStep DEF NothingAdded
  <1> QED
    BY <1>1, <1>2, <1>3, <1>4, <1>5 DEF WorkerStep

\* The only client thread gives the item it starts its one token: a job, or itself.
LEMMA Handover ==
  ASSUME TypeOK, TypeOK', TokenInv, SingleClient, NEW r \in Requests, NEW u \in Items,
         Starts(r, u), OthersStill(r), scheduled' = scheduled, status'[u] \notin Unstarted,
         \A t \in Items \ {u} : jobs'[t] = jobs[t] /\ status'[t] = status[t],
         \/ jobs'[u] = jobs[u] + 1 /\ pc'[r] = "idle"
         \/ jobs'[u] = jobs[u] /\ pc'[r] = "lookup" /\ cur'[r] = u
  PROVE  TokenInv'
  <1>1. Token(u) /\ NoToken(u) /\ (\A p \in Procs : ~ Executes(p, u)) /\ r \in Procs /\ cur[r] = u
    BY DEF TokenInv, Token, Procs, Starts
  <1>2. \A q \in Requests, t \in Items :
          ~ Starts(q, t)' /\ ~ (cur'[q] = t /\ pc'[q] = "push")
    BY DEF SingleClient, OneClient, Starts
  <1>3. \A q \in Procs, t \in Items : Executes(q, t)' =>
          \/ Executes(q, t) /\ q # r
          \/ q = r /\ t = u /\ jobs'[u] = jobs[u]
    BY DEF Executes, OthersStill, Pipeline, OutsideTry, TryBlock
  <1>4. Token(u)'
    BY <1>1, <1>2, <1>3 DEF Token, NoToken
  <1>5. ASSUME NEW t \in Items \ {u} PROVE Token(t)'
    BY <1>2, <1>3, <1>5 DEF TokenInv, Token, NoToken
  <1> QED
    BY <1>4, <1>5 DEF TokenInv

\* A request that starts an item.
LEMMA EnqueueToken ==
  ASSUME TypeOK, TypeOK', TokenInv, SingleClient, NEW r \in Requests,
         EnqueueMark(r) \/ EnqueueRefused(r) \/ EnqueuePush(r) \/ EnqueueInline(r)
  PROVE  TokenInv'
  <1>0. r \in Procs /\ cur[r] \in Items /\ pc[r] \in {"enqueue", "push"}
    BY DEF Procs, TypeOK, ProcTypeOK, EnqueueMark, EnqueueRefused, EnqueuePush, EnqueueInline, At
  <1>1. PICK u \in Items : u = cur[r]
    BY <1>0
  <1>2. Starts(r, u) /\ Token(u) /\ status[u] # "absent" /\ (pc[r] = "push" => status[u] # "uploaded")
    BY <1>0, <1>1 DEF Starts, TokenInv, Token
  <1>3. status \in [Items -> Status] /\ jobs \in [Items -> Nat]
    BY DEF TypeOK, TableTypeOK, BrokerTypeOK
  <1> USE <1>0, <1>1 DEF At
  <1>4. CASE EnqueueMark(r)
    <2>1. /\ status'[u] \notin Unstarted /\ \A t \in Items \ {u} : status'[t] = status[t]
          /\ UNCHANGED <<jobs, scheduled>>
      BY <1>2, <1>3, <1>4
      DEF EnqueueMark, UpdateStatus, SetStatus, SingleClient, OneClient, HasRow, Unstarted, RowStatus, brokerVars
    <2>2. CASE Goto(r, "lookup")
      <3>1. OthersStill(r) /\ pc'[r] = "lookup" /\ cur'[r] = u
        BY <2>2, MoveIsLocal
      <3> QED
        BY <1>2, <2>1, <3>1, Handover
    <2>3. CASE Goto(r, "push")
      <3>1. OthersStill(r) /\ pc'[r] = "push" /\ cur'[r] = u
        BY <2>3, MoveIsLocal
      <3>2. \A q \in Procs, t \in Items : Executes(q, t)' => Executes(q, t)
        BY <3>1 DEF Executes, OthersStill, Pipeline, OutsideTry, TryBlock
      <3>3. \A q \in Requests, t \in Items :
              Starts(q, t)' \/ (cur'[q] = t /\ pc'[q] = "push") => t = u
        BY <3>1 DEF SingleClient, OneClient, Starts
      <3>4. Token(u)'
        BY <1>2, <2>1, <3>2 DEF Token, NoToken, Unstarted
      <3>5. ASSUME NEW t \in Items \ {u} PROVE Token(t)'
        BY <2>1, <3>2, <3>3, <3>5 DEF TokenInv, Token, NoToken
      <3> QED
        BY <3>4, <3>5 DEF TokenInv
    <2> QED
      BY <1>4, <2>2, <2>3 DEF EnqueueMark
  <1>5. CASE EnqueueRefused(r)
    <2>1. Release(r) /\ UNCHANGED <<status, jobs, scheduled>>
      BY <1>5 DEF EnqueueRefused, rowVars, brokerVars
    <2>2. OthersStill(r) /\ pc'[r] = "idle"
      BY <2>1, MoveIsLocal
    <2>3. NoEntry(r) /\ NothingAdded
      BY <1>3, <2>1, <2>2 DEF NoEntry, NothingAdded, Pipeline, OutsideTry, TryBlock
    <2> QED
      BY <2>2, <2>3, InnerStep
  <1>6. CASE EnqueuePush(r)
    <2>1. Release(r) /\ UNCHANGED <<status, scheduled>> /\ jobs' = [jobs EXCEPT ![u] = @ + 1]
      BY <1>6 DEF EnqueuePush, Push, tableVars
    <2>2. OthersStill(r) /\ pc'[r] = "idle"
      BY <2>1, MoveIsLocal
    <2>3. jobs'[u] = jobs[u] + 1 /\ \A t \in Items \ {u} : jobs'[t] = jobs[t]
      BY <1>3, <2>1
    <2>4. status'[u] \notin Unstarted
      BY <1>2, <1>6, <2>1 DEF EnqueuePush, Unstarted
    <2> QED
      BY <1>2, <2>1, <2>2, <2>3, <2>4, Handover
  <1>7. ~ EnqueueInline(r)
    BY DEF EnqueueInline, SingleClient, OneClient
  <1> QED
    BY <1>4, <1>5, <1>6, <1>7

\* Every other request writes and deletes, and may take tokens away.
LEMMA RequestToken ==
  ASSUME TypeOK, TypeOK', TokenInv, SingleClient, NEW r \in Requests, RequestStep(r)
  PROVE  TokenInv'
  <1>0. /\ r \in Procs /\ jobs \in [Items -> Nat]
        /\ pc[r] \in RequestCode \cup {"clear_unlink"} => cur[r] \in Items
    BY DEF Procs, TypeOK, ProcTypeOK, BrokerTypeOK, RequestCode
  <1>00. {"idle", "cancel_job", "cancel_write", "rm_file", "rm_unlink", "rm_row", "clear_file",
          "clear_unlink"}
           \cap (Pipeline \cup {"failed", "enqueue", "push"}) = {}
    BY DEF Pipeline, OutsideTry, TryBlock
  <1> USE <1>0 DEF At
  <1>1. CASE EnqueueMark(r) \/ EnqueueRefused(r) \/ EnqueuePush(r) \/ EnqueueInline(r)
    BY <1>1, EnqueueToken
  <1>2. CASE RunPipeline(r)
    BY <1>2, PipelineToken
  <1>3. CASE CancelRead(r) \/ RemoveLookup(r)
    <2>1. UNCHANGED <<status, jobs, scheduled>>
      BY <1>3 DEF CancelRead, RemoveLookup, tableVars, brokerVars
    <2>2. OthersStill(r) /\ pc'[r] \in {"idle", "cancel_job", "cancel_write", "rm_unlink", "rm_row"}
      BY <1>3, MoveIsLocal DEF CancelRead, RemoveLookup
    <2>3. NoEntry(r) /\ NothingAdded
      BY <1>00, <2>1, <2>2 DEF NoEntry, NothingAdded
    <2> QED
      BY <2>2, <2>3, InnerStep
  <1>4. CASE CancelWrite(r)
    <2>1. cur[r] \in Items /\ "cancelled" \in RowStatus \ {"uploaded"}
      BY <1>4 DEF CancelWrite, RequestCode, RowStatus
    <2>2. NothingAdded
      BY <1>4, <2>1, WritesGoOn DEF CancelWrite, brokerVars
    <2>3. OthersStill(r) /\ pc'[r] \in {"idle", "cancel_job"}
      BY <1>4, MoveIsLocal DEF CancelWrite
    <2>4. NoEntry(r)
      BY <1>00, <2>3 DEF NoEntry
    <2> QED
      BY <2>2, <2>3, <2>4, InnerStep
  <1>5. CASE CancelJobStep(r) \/ RemoveJob(r)
    <2>1. CancelJob(cur[r]) \/ UNCHANGED brokerVars
      BY <1>5 DEF CancelJobStep, RemoveJob, CancelRqJob
    <2>2. UNCHANGED status /\ NothingAdded
      BY <1>5, <2>1 DEF CancelJobStep, RemoveJob, CancelJob, NothingAdded, tableVars, brokerVars
    <2>3. OthersStill(r) /\ pc'[r] \in {"idle", "rm_file"}
      BY <1>5, MoveIsLocal DEF CancelJobStep, RemoveJob
    <2>4. NoEntry(r)
      BY <1>00, <2>3 DEF NoEntry
    <2> QED
      BY <2>2, <2>3, <2>4, InnerStep
  <1>6. CASE RemoveUnlink(r)
    <2>1. UNCHANGED <<status, jobs, scheduled>>
      BY <1>6 DEF RemoveUnlink, brokerVars
    <2>2. OthersStill(r) /\ pc'[r] \in {"idle", "rm_row"}
      BY <1>6, MoveIsLocal DEF RemoveUnlink
    <2>3. NoEntry(r) /\ NothingAdded
      BY <1>00, <2>1, <2>2 DEF NoEntry, NothingAdded
    <2> QED
      BY <2>2, <2>3, InnerStep
  <1>7. CASE RemoveRow(r) \/ ClearRows(r)
    <2>1. /\ \E T \in SUBSET Items : DeleteRows(T)
          /\ UNCHANGED <<jobs, scheduled>> /\ Release(r)
      BY <1>7 DEF RemoveRow, ClearRows, RequestCode, brokerVars, TypeOK, ListTypeOK
    <2>2. NothingAdded
      <3>1. "queued" \in RowStatus \ {"uploaded"} /\ (Items # {} => \E u \in Items : TRUE)
        BY DEF RowStatus
      <3> QED
        BY <2>1, <3>1, WritesGoOn DEF NothingAdded
    <2>3. OthersStill(r) /\ pc'[r] = "idle"
      BY <2>1, MoveIsLocal
    <2>4. NoEntry(r)
      BY <1>00, <2>3 DEF NoEntry
    <2> QED
      BY <2>2, <2>3, <2>4, InnerStep
  <1>8. ASSUME NEW t \in Items, ClearLookup(r, t) PROVE TokenInv'
    <2>1. UNCHANGED <<status, jobs, scheduled>>
      BY <1>8 DEF ClearLookup, tableVars, brokerVars
    <2>2. OthersStill(r) /\ pc'[r] \in {"clear_file", "clear_unlink"}
      BY <1>8, MoveIsLocal DEF ClearLookup, OthersStill, procVars
    <2>3. NoEntry(r) /\ NothingAdded
      BY <1>00, <2>1, <2>2 DEF NoEntry, NothingAdded
    <2> QED
      BY <2>2, <2>3, InnerStep
  <1>9. CASE ClearUnlink(r)
    <2>1. UNCHANGED <<status, jobs, scheduled>>
      BY <1>9 DEF ClearUnlink, Unlink, brokerVars
    <2>2. OthersStill(r) /\ pc'[r] \in {"idle", "clear_file"}
      BY <1>9, MoveIsLocal DEF ClearUnlink
    <2>3. NoEntry(r) /\ NothingAdded
      BY <1>00, <2>1, <2>2 DEF NoEntry, NothingAdded
    <2> QED
      BY <2>2, <2>3, InnerStep
  <1> QED
    BY <1>1, <1>2, <1>3, <1>4, <1>5, <1>6, <1>7, <1>8, <1>9 DEF RequestStep

\* What users ask for starts only items that are "uploaded".
LEMMA UserToken ==
  ASSUME TypeOK, TypeOK', TokenInv, User
  PROVE  TokenInv'
  <1>00. {"cancel_read", "rm_job", "clear_file"} \cap (Pipeline \cup {"failed", "enqueue", "push"}) = {}
    BY DEF Pipeline, OutsideTry, TryBlock
  <1>0. Requests \subseteq Procs /\ jobs \in [Items -> Nat] /\ status \in [Items -> Status]
    BY DEF Procs, TypeOK, TableTypeOK, BrokerTypeOK
  <1> USE <1>0 DEF At
  <1>1. ASSUME NEW u \in Items, Upload(u) PROVE TokenInv'
    <2>1. /\ UNCHANGED <<jobs, scheduled, pc, cur>> /\ status[u] = "absent" /\ status'[u] = "uploaded"
          /\ \A t \in Items \ {u} : status'[t] = status[t]
      BY <1>1 DEF Upload, Add, brokerVars, procVars
    <2>2. ASSUME NEW t \in Items PROVE Token(t)'
      BY <2>1 DEF TokenInv, Token, NoToken, Executes, Starts, Unstarted
    <2> QED
      BY <2>2 DEF TokenInv
  <1>2. ASSUME NEW r \in Requests, NEW u \in Items, QueueProcess(r, u) PROVE TokenInv'
    <2>1. /\ UNCHANGED <<status, jobs, scheduled>> /\ status[u] = "uploaded"
          /\ OthersStill(r) /\ pc'[r] = "enqueue" /\ cur'[r] = u
      BY <1>2, MoveIsLocal DEF QueueProcess, tableVars, brokerVars
    <2>2. \A q \in Procs, t \in Items : Executes(q, t)' => Executes(q, t)
      BY <2>1 DEF Executes, OthersStill, Pipeline, OutsideTry, TryBlock
    <2>3. \A q \in Requests, t \in Items :
            /\ Starts(q, t)' => Starts(q, t) \/ t = u
            /\ cur'[q] = t /\ pc'[q] = "push" => cur[q] = t /\ pc[q] = "push"
      BY <2>1 DEF Starts, OthersStill
    <2>4. Token(u)'
      BY <2>1, <2>2, <2>3 DEF TokenInv, Token, NoToken, Unstarted
    <2>5. ASSUME NEW t \in Items \ {u} PROVE Token(t)'
      BY <2>1, <2>2, <2>3, <2>5 DEF TokenInv, Token, NoToken
    <2> QED
      BY <2>4, <2>5 DEF TokenInv
  <1>3. ASSUME NEW r \in Requests, NEW u \in Items, QueueCancel(r, u) \/ QueueRemove(r, u)
        PROVE  TokenInv'
    <2>1. UNCHANGED <<status, jobs, scheduled>>
      BY <1>3 DEF QueueCancel, QueueRemove, tableVars, brokerVars
    <2>2. OthersStill(r) /\ pc'[r] \in {"cancel_read", "rm_job"}
      BY <1>3, MoveIsLocal DEF QueueCancel, QueueRemove
    <2>3. NoEntry(r) /\ NothingAdded
      BY <1>00, <2>1, <2>2 DEF NoEntry, NothingAdded
    <2> QED
      BY <2>2, <2>3, InnerStep
  <1>4. ASSUME NEW r \in Requests, DeleteAllQueue(r) PROVE TokenInv'
    <2>1. UNCHANGED <<status, jobs, scheduled>>
      BY <1>4 DEF DeleteAllQueue, tableVars, brokerVars
    <2>2. OthersStill(r) /\ pc'[r] = "clear_file"
      BY <1>4 DEF DeleteAllQueue, OthersStill, TypeOK, ProcTypeOK
    <2>3. NoEntry(r) /\ NothingAdded
      BY <1>00, <2>1, <2>2 DEF NoEntry, NothingAdded
    <2> QED
      BY <2>2, <2>3, InnerStep
  <1>5. ASSUME NEW r \in Requests, SessionDelete(r) PROVE TokenInv'
    <2>1. UNCHANGED <<jobs, scheduled, pc, cur, exc>> /\ pc[r] = "idle"
      BY <1>5 DEF SessionDelete, brokerVars, procVars
    <2>2. \A t \in Items : status'[t] = (IF HasRow(t) THEN "deleted" ELSE status[t])
      BY <1>5 DEF SessionDelete
    <2>3. NothingAdded
      BY <1>0, <2>1, <2>2 DEF NothingAdded, Unstarted
    <2>4. NoEntry(r) /\ OthersStill(r)
      BY <2>1 DEF NoEntry, OthersStill
    <2> QED
      BY <2>3, <2>4, InnerStep
  <1> QED
    BY <1>1, <1>2, <1>3, <1>4, <1>5 DEF User

\* The scheduler turns a retry into a job, a killed worker leaves a retry at most.
LEMMA EnvironmentToken ==
  ASSUME TypeOK, TypeOK', TokenInv, Environment
  PROVE  TokenInv'
  <1>0. jobs \in [Items -> Nat] /\ "idle" \notin Pipeline \cup {"failed"}
    BY DEF TypeOK, BrokerTypeOK, Pipeline, OutsideTry, TryBlock
  <1>1. ASSUME NEW u \in Items, Promote(u) PROVE TokenInv'
    <2>1. /\ UNCHANGED <<status, pc, cur>> /\ u \in scheduled /\ scheduled' = scheduled \ {u}
          /\ jobs'[u] = jobs[u] + 1 /\ \A t \in Items \ {u} : jobs'[t] = jobs[t]
      BY <1>0, <1>1 DEF Promote, Requeue, tableVars, procVars
    <2>2. Token(u) /\ jobs[u] = 0
      BY <1>0, <2>1 DEF TokenInv, Token
    <2>3. Token(u)'
      BY <2>1, <2>2 DEF Token, NoToken, Executes, Starts
    <2>4. ASSUME NEW t \in Items \ {u} PROVE Token(t)'
      BY <2>1, <2>4 DEF TokenInv, Token, NoToken, Executes, Starts
    <2> QED
      BY <2>3, <2>4 DEF TokenInv
  <1>2. ASSUME NEW w \in Workers, WorkerCrash(w) PROVE TokenInv'
    <2>1. w \in Procs /\ cur[w] \in Items /\ pc[w] \in Pipeline \cup AfterJob
      BY <1>2 DEF WorkerCrash, Procs, TypeOK, ProcTypeOK, Pipeline, TryBlock, OutsideTry, AfterJob
    <2>2. OthersStill(w) /\ pc'[w] = "idle" /\ cur'[w] = NoItem /\ UNCHANGED status
      BY <1>2, <2>1, MoveIsLocal DEF WorkerCrash, rowVars
    <2>3. CASE pc[w] \in AfterJob \ {"failed"}
      <3>1. NoEntry(w) /\ NothingAdded
        BY <1>0, <1>2, <2>2, <2>3 DEF WorkerCrash, NoEntry, NothingAdded, brokerVars
      <3> QED
        BY <2>1, <2>2, <3>1, InnerStep
    <2>4. CASE pc[w] \notin AfterJob \ {"failed"}
      <3>1. UNCHANGED jobs /\ scheduled' \in {scheduled, scheduled \cup {cur[w]}}
        BY <1>2, <2>4 DEF WorkerCrash, Fail
      <3>2. pc[w] \in Pipeline \cup {"failed"}
        BY <2>1, <2>4 DEF AfterJob
      <3> QED
        BY <2>1, <2>2, <3>1, <3>2, AttemptEnds
    <2> QED
      BY <2>3, <2>4
  <1>3. ASSUME NEW r \in Requests, WebCrash(r) PROVE TokenInv'
    <2>1. Release(r) /\ UNCHANGED <<status, jobs, scheduled>> /\ r \in Procs
      BY <1>3 DEF WebCrash, rowVars, brokerVars, Procs
    <2>2. OthersStill(r) /\ pc'[r] = "idle"
      BY <2>1, MoveIsLocal
    <2>3. NoEntry(r) /\ NothingAdded
      BY <1>0, <2>1, <2>2 DEF NoEntry, NothingAdded
    <2> QED
      BY <2>1, <2>2, <2>3, InnerStep
  <1> QED
    BY <1>1, <1>2, <1>3 DEF Environment

\* With one client thread that loses no write and no answer, two executions of an item
\* never overlap, whatever workers and web processes are killed and however often it
\* is retried, cancelled and deleted.
THEOREM NoOverlap == ASSUME SingleClient PROVE Spec => []ExclusiveExecution
  <1>1. Init => TokenInv
    <2> SUFFICES ASSUME Init, NEW t \in Items PROVE Token(t)
      BY DEF TokenInv
    <2>1. jobs[t] = 0 /\ t \notin scheduled /\ \A p \in Procs : cur[p] # t
      BY ProcsAssumption DEF Init, BrokerInit
    <2>2. Requests \subseteq Procs
      BY DEF Procs
    <2> QED
      BY <2>1, <2>2 DEF Token, NoToken, Executes, Starts
  <1>2. TypeOK /\ TypeOK' /\ TokenInv /\ [Next]_vars => TokenInv'
    <2> SUFFICES ASSUME TypeOK, TypeOK', TokenInv, [Next]_vars PROVE TokenInv'
      OBVIOUS
    <2>1. CASE UNCHANGED vars
      BY <2>1 DEF vars, TokenInv, Token, NoToken, Executes, Starts
    <2> QED
      BY <2>1, WorkerToken, RequestToken, UserToken, EnvironmentToken DEF Next
  <1>3. TypeOK /\ TokenInv => ExclusiveExecution
    <2> SUFFICES ASSUME TypeOK, TokenInv, NEW p \in Procs, NEW q \in Procs, p # q, cur[p] = cur[q],
                        pc[p] \in Pipeline, pc[q] \in Pipeline
                 PROVE  FALSE
      BY DEF ExclusiveExecution
    <2>1. cur[p] \in Items
      BY DEF TypeOK, ProcTypeOK, Pipeline, OutsideTry, TryBlock
    <2> QED
      BY <2>1 DEF TokenInv, Token, Executes
  <1> QED
    BY <1>1, <1>2, <1>3, OwnerInvariant, PTL DEF Spec
=============================================================================
