-------------------------- MODULE VideoQueueProofs --------------------------
(***************************************************************************)
(* Theorems about VideoQueue for any sets of items, workers and web         *)
(* threads and any choice of the fault constants.                           *)
(***************************************************************************)
EXTENDS VideoQueue, TLAPS

\* The initial state has the right types.
LEMMA InitTypeOK == Init => TypeOK
  BY ProcsAssumption
  DEF Init, TypeOK, TableInit, BrokerInit, TableTypeOK, BrokerTypeOK, ProcTypeOK, ListTypeOK,
      Status, RowStatus, Procs, Steps, Locations, Pipeline, AfterJob

\* A jump of a busy process keeps the process types.
LEMMA GotoTypeOK ==
  ASSUME ProcTypeOK, NEW p \in Procs, NEW l \in Pipeline \cup AfterJob \cup RequestCode,
         cur[p] \in Items, Goto(p, l),
         p \in Workers => l \in Pipeline \cup AfterJob,
         p \in Requests => l \notin AfterJob
  PROVE  ProcTypeOK'
  BY ProcsAssumption
  DEF ProcTypeOK, Procs, Goto, Locations, Pipeline, TryBlock, OutsideTry, AfterJob, RequestCode

\* So does a process that goes idle.
LEMMA ReleaseTypeOK ==
  ASSUME ProcTypeOK, NEW p \in Procs, Release(p)
  PROVE  ProcTypeOK'
  <1>1. /\ pc' \in [Procs -> Locations]
        /\ cur' \in [Procs -> Items \cup {NoItem}]
        /\ step' \in [Procs -> Steps]
        /\ exc' \in [Procs -> BOOLEAN]
    BY DEF ProcTypeOK, Release, Locations, Steps
  <1>2. \A q \in Procs : IF pc'[q] \in {"idle", "clear_file"} THEN cur'[q] = NoItem ELSE cur'[q] \in Items
    BY DEF ProcTypeOK, Release
  <1>3. /\ \A w \in Workers : pc'[w] \in {"idle"} \cup Pipeline \cup AfterJob
        /\ \A r \in Requests : pc'[r] \notin AfterJob
    BY DEF ProcTypeOK, Release, Procs, AfterJob
  <1> QED
    BY <1>1, <1>2, <1>3 DEF ProcTypeOK

\* So does one that takes up an item.
LEMMA TakeTypeOK ==
  ASSUME ProcTypeOK, NEW p \in Procs, NEW t \in Items \cup {NoItem}, NEW l \in Locations,
         Take(p, t, l),
         IF l = "clear_file" THEN t = NoItem ELSE t \in Items /\ l # "idle",
         p \in Workers => l \in Pipeline,
         p \in Requests => l \notin AfterJob
  PROVE  ProcTypeOK'
  BY ProcsAssumption DEF ProcTypeOK, Procs, Take

\* So does one that leaves the try block of the pipeline.
LEMMA LeaveTypeOK ==
  ASSUME ProcTypeOK, NEW p \in Procs, NEW e \in BOOLEAN, cur[p] \in Items, Leave(p, e)
  PROVE  ProcTypeOK'
  BY ProcsAssumption
  DEF ProcTypeOK, Procs, Leave, Steps, Locations, Pipeline, OutsideTry, AfterJob

\* So does one that an exception takes out of the pipeline.
LEMMA EscapeTypeOK ==
  ASSUME ProcTypeOK, NEW p \in Procs, cur[p] \in Items, Escape(p)
  PROVE  ProcTypeOK'
  <1>1. CASE p \in Workers
    <2>1. /\ pc' \in [Procs -> Locations]
          /\ cur' \in [Procs -> Items \cup {NoItem}]
          /\ step' \in [Procs -> Steps]
          /\ exc' \in [Procs -> BOOLEAN]
      BY <1>1 DEF ProcTypeOK, Escape, Locations, AfterJob, Steps
    <2>2. /\ \A q \in Procs :
               IF pc'[q] \in {"idle", "clear_file"} THEN cur'[q] = NoItem ELSE cur'[q] \in Items
          /\ \A w \in Workers : pc'[w] \in {"idle"} \cup Pipeline \cup AfterJob
          /\ \A r \in Requests : pc'[r] \notin AfterJob
      BY <1>1, ProcsAssumption DEF ProcTypeOK, Escape, Procs, AfterJob
    <2> QED
      BY <2>1, <2>2 DEF ProcTypeOK
  <1>2. CASE p \notin Workers
    BY <1>2, ReleaseTypeOK DEF Escape
  <1> QED
    BY <1>1, <1>2

\* So does one that leaves the pipeline.
LEMMA ExitTypeOK ==
  ASSUME ProcTypeOK, NEW p \in Procs, NEW e \in BOOLEAN, cur[p] \in Items, Exit(p, e)
  PROVE  ProcTypeOK'
  BY EscapeTypeOK, ReleaseTypeOK DEF Exit

\* The history of unhandled failures only ever names items.
LEMMA UnhandledTypeOK ==
  ASSUME TableTypeOK, NEW p, Unhandled(p) \/ UNCHANGED unhandled \/ Exit(p, TRUE)
         \/ Exit(p, FALSE) \/ Escape(p)
  PROVE  unhandled' \in SUBSET Items
  BY DEF TableTypeOK, Unhandled, Exit, Escape

DataTypeOK == TableTypeOK /\ BrokerTypeOK /\ videos \in [Items -> Nat] /\ ListTypeOK

\* A status write keeps the types of the table.
LEMMA UpdateStatusTypeOK ==
  ASSUME TableTypeOK, NEW t \in Items, NEW s \in RowStatus, UpdateStatus(t, s)
  PROVE  TableTypeOK'
  BY DEF TableTypeOK, UpdateStatus, SetStatus, Status

\* A step of the pipeline keeps the types of the shared data.
LEMMA PipelineDataOK ==
  ASSUME DataTypeOK, NEW p \in Procs, RunPipeline(p), pc[p] \in Pipeline => cur[p] \in Items
  PROVE  DataTypeOK'
  <1> USE DEF DataTypeOK, TableTypeOK, BrokerTypeOK, ListTypeOK, tableVars, brokerVars, listVars, rowVars
  <1>1. CASE Lookup(p) \/ CheckCancelled(p) \/ StepPasses(p) \/ StepFails(p) \/ MoveCopy(p)
            \/ Report(p)
    BY <1>1 DEF Lookup, CheckCancelled, StepPasses, StepFails, MoveCopy, Report
  <1>5. CASE Raise(p) \/ Finally(p)
    BY <1>5 DEF Raise, Finally, Exit, Escape, Unhandled
  <1>2. CASE MarkMissing(p) \/ MarkProcessing(p) \/ FailStep(p) \/ MarkDone(p)
    BY <1>2, UpdateStatusTypeOK
    DEF MarkMissing, MarkProcessing, FailStep, MarkDone, RowStatus, At, Pipeline, TryBlock, OutsideTry
  <1>3. CASE MoveUnlink(p) \/ FinallyRemove(p)
    BY <1>3 DEF MoveUnlink, FinallyRemove, Unlink, Exit, Escape, Unhandled
  <1>4. CASE CommitVideo(p)
    <2>1. videos' = [t \in Items |-> IF t = cur[p] THEN videos[t] + 1 ELSE videos[t]]
      BY <1>4 DEF CommitVideo
    <2>2. videos' \in [Items -> Nat]
      BY <2>1
    <2> QED
      BY <1>4, <2>2 DEF CommitVideo
  <1> QED
    BY <1>1, <1>2, <1>3, <1>4, <1>5 DEF RunPipeline

\* A step of the pipeline keeps the types of the processes.
LEMMA PipelineProcOK ==
  ASSUME TypeOK, NEW p \in Procs, RunPipeline(p)
  PROVE  ProcTypeOK'
  <1>0. ProcTypeOK /\ pc[p] \in Pipeline /\ cur[p] \in Items
    BY DEF TypeOK, ProcTypeOK, RunPipeline, Pipeline, OutsideTry, TryBlock, At, Lookup, MarkMissing, MarkProcessing, CheckCancelled, StepPasses, StepFails, FailStep, MoveCopy, MoveUnlink, CommitVideo, MarkDone, Report, Raise, Finally, FinallyRemove
  <1>1. CASE Lookup(p)
    BY <1>0, <1>1, GotoTypeOK, ReleaseTypeOK DEF Lookup, Pipeline, OutsideTry, TryBlock, AfterJob
  <1>2. CASE MarkMissing(p)
    BY <1>0, <1>2, ReleaseTypeOK DEF MarkMissing, Pipeline, OutsideTry, TryBlock, AfterJob
  <1>3. CASE MarkProcessing(p)
    BY <1>0, <1>3, GotoTypeOK DEF MarkProcessing, Pipeline, OutsideTry, TryBlock, AfterJob
  <1>4. CASE CheckCancelled(p)
    BY <1>0, <1>4, LeaveTypeOK, GotoTypeOK DEF CheckCancelled, Pipeline, OutsideTry, TryBlock, AfterJob
  <1>5. CASE StepPasses(p)
    <2>1. CASE step[p] = "analysis"
      BY <1>0, <1>5, <2>1, GotoTypeOK DEF StepPasses, Pipeline, TryBlock, AfterJob
    <2>2. CASE step[p] # "analysis"
      BY <1>0, <1>5, <2>2, ProcsAssumption
      DEF StepPasses, NextStep, ProcTypeOK, Procs, Steps, Locations, Pipeline, TryBlock, AfterJob
    <2> QED
      BY <2>1, <2>2
  <1>6. CASE StepFails(p)
    BY <1>0, <1>6, GotoTypeOK DEF StepFails, Pipeline, OutsideTry, TryBlock, AfterJob
  <1>7. CASE FailStep(p)
    BY <1>0, <1>7, LeaveTypeOK DEF FailStep, Pipeline, OutsideTry, TryBlock, AfterJob
  <1>8. CASE MoveCopy(p)
    BY <1>0, <1>8, GotoTypeOK DEF MoveCopy, Pipeline, OutsideTry, TryBlock, AfterJob
  <1>9. CASE MoveUnlink(p)
    BY <1>0, <1>9, GotoTypeOK DEF MoveUnlink, Pipeline, OutsideTry, TryBlock, AfterJob
  <1>10. CASE CommitVideo(p)
    BY <1>0, <1>10, GotoTypeOK DEF CommitVideo, Pipeline, OutsideTry, TryBlock, AfterJob
  <1>11. CASE MarkDone(p)
    BY <1>0, <1>11, GotoTypeOK DEF MarkDone, Pipeline, OutsideTry, TryBlock, AfterJob
  <1>12. CASE Report(p)
    BY <1>0, <1>12, LeaveTypeOK DEF Report, Pipeline, OutsideTry, TryBlock, AfterJob
  <1>13. CASE Raise(p)
    BY <1>0, <1>13, LeaveTypeOK, EscapeTypeOK DEF Raise, Pipeline, OutsideTry, TryBlock, AfterJob
  <1>14. CASE Finally(p)
    BY <1>0, <1>14, GotoTypeOK, ExitTypeOK DEF Finally, Pipeline, OutsideTry, TryBlock, AfterJob, ProcTypeOK
  <1>15. CASE FinallyRemove(p)
    BY <1>0, <1>15, ExitTypeOK DEF FinallyRemove, Pipeline, OutsideTry, TryBlock, AfterJob, ProcTypeOK
  <1> QED
    BY <1>1, <1>2, <1>3, <1>4, <1>5, <1>6, <1>7, <1>8, <1>9, <1>10, <1>11, <1>12, <1>13, <1>14, <1>15 DEF RunPipeline

\* A worker keeps the types.
LEMMA WorkerTypeOK ==
  ASSUME TypeOK, NEW w \in Workers, WorkerStep(w)
  PROVE  TypeOK'
  <1>0. w \in Procs /\ ProcTypeOK /\ DataTypeOK /\ (pc[w] \in AfterJob => cur[w] \in Items)
    BY DEF TypeOK, DataTypeOK, ProcTypeOK, Procs, AfterJob
  <1>1. ASSUME NEW t \in Items, WorkerDequeue(w, t) PROVE TypeOK'
    <2>1. ProcTypeOK'
      BY <1>0, <1>1, TakeTypeOK DEF WorkerDequeue, Locations, Pipeline, OutsideTry, AfterJob
    <2> QED
      BY <1>0, <1>1, <2>1
      DEF WorkerDequeue, Pop, TypeOK, DataTypeOK, TableTypeOK, BrokerTypeOK, ListTypeOK, tableVars, listVars
  <1>2. CASE RunPipeline(w)
    BY <1>0, <1>2, PipelineDataOK, PipelineProcOK
    DEF TypeOK, DataTypeOK, ProcTypeOK, Pipeline, TryBlock, OutsideTry
  <1>3. CASE JobFailure(w)
    <2>1. ProcTypeOK'
      BY <1>0, <1>3, GotoTypeOK, ProcsAssumption DEF JobFailure, At, AfterJob
    <2>2. BrokerTypeOK'
      BY <1>0, <1>3 DEF JobFailure, Fail, DataTypeOK, BrokerTypeOK, At, AfterJob
    <2> QED
      BY <1>0, <1>3, <2>1, <2>2
      DEF JobFailure, TypeOK, DataTypeOK, TableTypeOK, ListTypeOK, tableVars, listVars
  <1>4. CASE HandlerMark(w)
    <2>1. ProcTypeOK'
      BY <1>0, <1>4, GotoTypeOK, ProcsAssumption DEF HandlerMark, At, AfterJob
    <2>2. TableTypeOK'
      BY <1>0, <1>4, UpdateStatusTypeOK DEF HandlerMark, At, AfterJob, DataTypeOK, RowStatus
    <2> QED
      BY <1>0, <1>4, <2>1, <2>2
      DEF HandlerMark, TypeOK, DataTypeOK, BrokerTypeOK, ListTypeOK, brokerVars, listVars
  <1>5. CASE HandlerLookup(w)
    <2>1. ProcTypeOK'
      BY <1>0, <1>5, GotoTypeOK, ReleaseTypeOK, ProcsAssumption DEF HandlerLookup, At, AfterJob
    <2> QED
      BY <1>0, <1>5, <2>1
      DEF HandlerLookup, TypeOK, DataTypeOK, TableTypeOK, BrokerTypeOK, ListTypeOK, tableVars, brokerVars, listVars
  <1>6. CASE HandlerRemove(w) \/ HandlerRaises(w)
    <2>1. ProcTypeOK'
      BY <1>0, <1>6, ReleaseTypeOK DEF HandlerRemove, HandlerRaises
    <2>2. TableTypeOK'
      BY <1>0, <1>6 DEF HandlerRemove, HandlerRaises, Unhandled, Unlink, DataTypeOK, TableTypeOK, rowVars
    <2> QED
      BY <1>0, <1>6, <2>1, <2>2
      DEF HandlerRemove, HandlerRaises, TypeOK, DataTypeOK, BrokerTypeOK, ListTypeOK, brokerVars, listVars
  <1> QED
    BY <1>1, <1>2, <1>3, <1>4, <1>5, <1>6 DEF WorkerStep

\* A web thread that goes on with its request keeps the types of the processes.
LEMMA RequestProcOK ==
  ASSUME TypeOK, NEW r \in Requests, RequestStep(r)
  PROVE  ProcTypeOK'
  <1>0. /\ r \in Procs /\ r \notin Workers /\ ProcTypeOK
        /\ pc[r] \in RequestCode \cup {"clear_unlink"} => cur[r] \in Items
    BY ProcsAssumption DEF TypeOK, ProcTypeOK, Procs, RequestCode
  <1>1. CASE EnqueueMark(r)
    BY <1>0, <1>1, GotoTypeOK
    DEF EnqueueMark, At, Locations, Pipeline, OutsideTry, AfterJob, RequestCode, ClearCode
  <1>2. CASE EnqueueRefused(r)
    BY <1>0, <1>2, ReleaseTypeOK
    DEF EnqueueRefused, At, Locations, Pipeline, OutsideTry, AfterJob, RequestCode, ClearCode
  <1>3. CASE EnqueuePush(r)
    BY <1>0, <1>3, ReleaseTypeOK
    DEF EnqueuePush, At, Locations, Pipeline, OutsideTry, AfterJob, RequestCode, ClearCode
  <1>4. CASE EnqueueInline(r)
    BY <1>0, <1>4, GotoTypeOK
    DEF EnqueueInline, At, Locations, Pipeline, OutsideTry, AfterJob, RequestCode, ClearCode
  <1>5. CASE CancelRead(r)
    BY <1>0, <1>5, GotoTypeOK
    DEF CancelRead, At, Locations, Pipeline, OutsideTry, AfterJob, RequestCode, ClearCode
  <1>6. CASE CancelWrite(r)
    BY <1>0, <1>6, GotoTypeOK, ReleaseTypeOK
    DEF CancelWrite, At, Locations, Pipeline, OutsideTry, AfterJob, RequestCode, ClearCode
  <1>7. CASE CancelJobStep(r)
    BY <1>0, <1>7, ReleaseTypeOK
    DEF CancelJobStep, At, Locations, Pipeline, OutsideTry, AfterJob, RequestCode, ClearCode
  <1>8. CASE RemoveJob(r)
    BY <1>0, <1>8, GotoTypeOK
    DEF RemoveJob, At, Locations, Pipeline, OutsideTry, AfterJob, RequestCode, ClearCode
  <1>9. CASE RemoveLookup(r)
    BY <1>0, <1>9, GotoTypeOK, ReleaseTypeOK
    DEF RemoveLookup, At, Locations, Pipeline, OutsideTry, AfterJob, RequestCode, ClearCode
  <1>10. CASE RemoveUnlink(r)
    BY <1>0, <1>10, GotoTypeOK, ReleaseTypeOK
    DEF RemoveUnlink, At, Locations, Pipeline, OutsideTry, AfterJob, RequestCode, ClearCode
  <1>11. CASE RemoveRow(r)
    BY <1>0, <1>11, ReleaseTypeOK
    DEF RemoveRow, At, Locations, Pipeline, OutsideTry, AfterJob, RequestCode, ClearCode
  <1>12. CASE ClearUnlink(r)
    BY <1>0, <1>12, TakeTypeOK, ReleaseTypeOK
    DEF ClearUnlink, At, Locations, Pipeline, OutsideTry, AfterJob, RequestCode, ClearCode
  <1>13. CASE ClearRows(r)
    BY <1>0, <1>13, ReleaseTypeOK
    DEF ClearRows, At, Locations, Pipeline, OutsideTry, AfterJob, RequestCode, ClearCode
  <1>14. ASSUME NEW t \in Items, ClearLookup(r, t) PROVE ProcTypeOK'
    BY <1>0, <1>14, TakeTypeOK
    DEF ClearLookup, procVars, ProcTypeOK, Locations, ClearCode, AfterJob
  <1>15. CASE RunPipeline(r)
    BY <1>0, <1>15, PipelineProcOK
  <1> QED
    BY <1>1, <1>2, <1>3, <1>4, <1>5, <1>6, <1>7, <1>8, <1>9, <1>10, <1>11, <1>12, <1>13, <1>14, <1>15
    DEF RequestStep

\* ... and the types of the shared data.
LEMMA RequestDataOK ==
  ASSUME TypeOK, NEW r \in Requests, RequestStep(r)
  PROVE  DataTypeOK'
  <1>0. /\ r \in Procs /\ DataTypeOK /\ (pc[r] \in RequestCode => cur[r] \in Items)
    BY DEF TypeOK, DataTypeOK, ProcTypeOK, Procs, RequestCode
  <1> USE <1>0 DEF DataTypeOK, TableTypeOK, BrokerTypeOK, ListTypeOK, tableVars, brokerVars, listVars, rowVars
  <1>1. CASE EnqueueMark(r)
    BY <1>1, UpdateStatusTypeOK DEF EnqueueMark, At, RequestCode, RowStatus
  <1>2. CASE EnqueuePush(r)
    BY <1>2, MaxRetriesAssumption DEF EnqueuePush, Push, RetryAccepted, At, RequestCode
  <1>12. CASE EnqueueInline(r)
    <2>1. ASSUME NEW n \in MaxRetries, RetryAccepted(n), Push(cur[r], n) PROVE BrokerTypeOK'
      BY <1>12, <2>1, MaxRetriesAssumption DEF EnqueueInline, Push, RetryAccepted, At, RequestCode
    <2>2. BrokerTypeOK'
      BY <1>12, <2>1 DEF EnqueueInline
    <2> QED
      BY <1>12, <2>2 DEF EnqueueInline
  <1>3. CASE EnqueueRefused(r) \/ CancelRead(r) \/ RemoveLookup(r)
    BY <1>3 DEF EnqueueRefused, CancelRead, RemoveLookup, Unhandled
  <1>4. CASE CancelWrite(r)
    BY <1>4 DEF CancelWrite, SetStatus, Status, RowStatus
  <1>5. CASE CancelJobStep(r) \/ RemoveJob(r)
    BY <1>5 DEF CancelJobStep, RemoveJob, CancelRqJob, CancelJob
  <1>6. CASE RemoveUnlink(r)
    BY <1>6 DEF RemoveUnlink, Unhandled
  <1>7. CASE RemoveRow(r)
    BY <1>7 DEF RemoveRow, DeleteRows, Status
  <1>8. ASSUME NEW t \in Items, ClearLookup(r, t) PROVE DataTypeOK'
    BY <1>8 DEF ClearLookup
  <1>9. CASE ClearUnlink(r)
    BY <1>9 DEF ClearUnlink, Unlink, Forget
  <1>10. CASE ClearRows(r)
    BY <1>10 DEF ClearRows, DeleteRows, Status, Forget
  <1>11. CASE RunPipeline(r)
    BY <1>11, PipelineDataOK DEF TypeOK, ProcTypeOK, Pipeline, TryBlock, OutsideTry
  <1> QED
    BY <1>1, <1>2, <1>3, <1>4, <1>5, <1>6, <1>7, <1>8, <1>9, <1>10, <1>11, <1>12 DEF RequestStep

\* What users start keeps the types.
LEMMA UserTypeOK ==
  ASSUME TypeOK, User
  PROVE  TypeOK'
  <1> USE DEF TypeOK
  <1>1. ASSUME NEW t \in Items, Upload(t) PROVE TypeOK'
    BY <1>1
    DEF Upload, Add, TableTypeOK, Status, RowStatus, BrokerTypeOK, ProcTypeOK, ListTypeOK,
        brokerVars, procVars, listVars
  <1>2. ASSUME NEW r \in Requests, NEW t \in Items,
               QueueProcess(r, t) \/ QueueCancel(r, t) \/ QueueRemove(r, t)
        PROVE  TypeOK'
    <2>1. ProcTypeOK'
      BY <1>2, TakeTypeOK, ProcsAssumption
      DEF QueueProcess, QueueCancel, QueueRemove, Procs, Locations, RequestCode, AfterJob
    <2> QED
      BY <1>2, <2>1
      DEF QueueProcess, QueueCancel, QueueRemove, TableTypeOK, BrokerTypeOK, ListTypeOK,
          tableVars, brokerVars, listVars
  <1>3. ASSUME NEW r \in Requests, DeleteAllQueue(r) PROVE TypeOK'
    <2>1. ProcTypeOK'
      BY <1>3, ProcsAssumption DEF DeleteAllQueue, ProcTypeOK, Procs, Locations, ClearCode, AfterJob, At
    <2>2. ListTypeOK'
      BY <1>3 DEF DeleteAllQueue, ListTypeOK
    <2> QED
      BY <1>3, <2>1, <2>2 DEF DeleteAllQueue, TableTypeOK, BrokerTypeOK, tableVars, brokerVars
  <1>4. ASSUME NEW r \in Requests, SessionDelete(r) PROVE TypeOK'
    BY <1>4
    DEF SessionDelete, TableTypeOK, Status, BrokerTypeOK, ProcTypeOK, ListTypeOK, brokerVars, procVars, listVars
  <1> QED
    BY <1>1, <1>2, <1>3, <1>4 DEF User

\* The scheduler and the crashes keep the types.
LEMMA EnvironmentTypeOK ==
  ASSUME TypeOK, Environment
  PROVE  TypeOK'
  <1> USE DEF TypeOK
  <1>1. ASSUME NEW t \in Items, Promote(t) PROVE TypeOK'
    BY <1>1
    DEF Promote, Requeue, BrokerTypeOK, TableTypeOK, ProcTypeOK, ListTypeOK, tableVars, procVars, listVars
  <1>2. ASSUME NEW w \in Workers, WorkerCrash(w) PROVE TypeOK'
    <2>0. w \in Procs /\ cur[w] \in Items
      BY <1>2 DEF WorkerCrash, ProcTypeOK, Procs, Pipeline, TryBlock, OutsideTry, AfterJob
    <2>1. ProcTypeOK'
      BY <1>2, <2>0, ReleaseTypeOK DEF WorkerCrash
    <2>2. BrokerTypeOK'
      BY <1>2, <2>0 DEF WorkerCrash, Fail, BrokerTypeOK, brokerVars
    <2> QED
      BY <1>2, <2>1, <2>2 DEF WorkerCrash, Unhandled, TableTypeOK, ListTypeOK, rowVars, listVars
  <1>3. ASSUME NEW r \in Requests, WebCrash(r) PROVE TypeOK'
    <2>1. ProcTypeOK'
      BY <1>3, ReleaseTypeOK DEF WebCrash, Procs
    <2> QED
      BY <1>3, <2>1
      DEF WebCrash, Forget, Unhandled, ListTypeOK, TableTypeOK, BrokerTypeOK, rowVars, brokerVars
  <1> QED
    BY <1>1, <1>2, <1>3 DEF Environment

\* Every step keeps the types.
LEMMA NextTypeOK == TypeOK /\ [Next]_vars => TypeOK'
  <1> SUFFICES ASSUME TypeOK, [Next]_vars PROVE TypeOK'
    OBVIOUS
  <1>1. ASSUME NEW w \in Workers, WorkerStep(w) PROVE TypeOK'
    BY <1>1, WorkerTypeOK
  <1>2. ASSUME NEW r \in Requests, RequestStep(r) PROVE TypeOK'
    BY <1>2, RequestProcOK, RequestDataOK DEF TypeOK, DataTypeOK
  <1>3. CASE User
    BY <1>3, UserTypeOK
  <1>4. CASE Environment
    BY <1>4, EnvironmentTypeOK
  <1>5. CASE UNCHANGED vars
    BY <1>5 DEF vars, TypeOK, TableTypeOK, BrokerTypeOK, ProcTypeOK, ListTypeOK
  <1> QED
    BY <1>1, <1>2, <1>3, <1>4, <1>5 DEF Next

\* Every variable keeps its type, a busy process has an item, and RQ's failure
\* handling only runs in workers.
THEOREM TypeCorrect == Spec => []TypeOK
  BY InitTypeOK, NextTypeOK, PTL DEF Spec

-----------------------------------------------------------------------------
(***************************************************************************)
(* AtMostOneVideo and DoneImpliesStored are not inductive: a video may be    *)
(* committed by whoever is at "commit", so the invariant says who can be     *)
(* there.  The file in temp is the token: while it is there nothing was      *)
(* stored, the one process that unlinked it is alone at "commit", and the    *)
(* file never comes back because uploads get fresh ids.                     *)
(***************************************************************************)
TempIsFresh == \A t \in temp : videos[t] = 0 /\ status[t] # "absent"

HolderIsAlone ==
  \A p \in Procs :
    pc[p] = "commit" =>
      /\ cur[p] \notin temp /\ videos[cur[p]] = 0 /\ status[cur[p]] # "absent"
      /\ \A q \in Procs \ {p} : pc[q] = "commit" => cur[q] # cur[p]

StoredOnce ==
  \A t \in Items :
    /\ videos[t] = 0 \/ videos[t] = 1
    /\ videos[t] = 1 => status[t] # "absent"
    /\ status[t] = "done" => videos[t] = 1

DoneAfterCommit == \A p \in Procs : pc[p] = "markdone" => videos[cur[p]] = 1

CustodyInv == TempIsFresh /\ HolderIsAlone /\ StoredOnce /\ DoneAfterCommit

\* Nothing is stored or claimed in this step, no file appears, no id becomes fresh
\* again, and "done" is only written for stored items.
Steady ==
  /\ temp' \subseteq temp
  /\ videos' = videos
  /\ \A t \in Items : status[t] # "absent" => status'[t] # "absent"
  /\ \A t \in Items : status'[t] = "done" => status[t] = "done" \/ videos[t] = 1
  /\ \A p \in Procs : pc'[p] \in {"commit", "markdone"} => pc'[p] = pc[p] /\ cur'[p] = cur[p]

\* The invariant holds before anything is uploaded.
LEMMA InitCustody == Init => CustodyInv
  BY DEF Init, TableInit, CustodyInv, TempIsFresh, HolderIsAlone, StoredOnce, DoneAfterCommit, Procs

\* A steady step keeps the invariant.
LEMMA SteadyCustody ==
  ASSUME TypeOK, CustodyInv, Steady
  PROVE  CustodyInv'
  <1> USE DEF CustodyInv, Steady
  <1>0. \A p \in Procs : pc[p] \in {"commit", "markdone"} => cur[p] \in Items
    BY DEF TypeOK, ProcTypeOK
  <1>1. TempIsFresh'
    BY DEF TempIsFresh, TypeOK, TableTypeOK
  <1>2. HolderIsAlone'
    BY <1>0 DEF HolderIsAlone
  <1>3. StoredOnce'
    BY DEF StoredOnce
  <1>4. DoneAfterCommit'
    BY DEF DoneAfterCommit
  <1> QED
    BY <1>1, <1>2, <1>3, <1>4

\* A status write keeps the ids used, and "done" to those it is written for.
LEMMA UpdateStatusSteady ==
  ASSUME TypeOK, NEW t \in Items, NEW s \in RowStatus, UpdateStatus(t, s),
         s = "done" => videos[t] = 1
  PROVE  /\ temp' = temp
         /\ \A u \in Items : status[u] # "absent" => status'[u] # "absent"
         /\ \A u \in Items : status'[u] = "done" => status[u] = "done" \/ videos[u] = 1
  BY DEF TypeOK, TableTypeOK, UpdateStatus, SetStatus, RowStatus

\* Every step of the pipeline is steady but the two that claim and store.
LEMMA PipelineSteady ==
  ASSUME TypeOK, CustodyInv, NEW p \in Procs, RunPipeline(p), ~ MoveUnlink(p), ~ CommitVideo(p)
  PROVE  Steady
  <1>0. /\ pc \in [Procs -> Locations] /\ cur \in [Procs -> Items \cup {NoItem}]
        /\ pc[p] \in Pipeline => cur[p] \in Items
    BY DEF TypeOK, ProcTypeOK, Pipeline, TryBlock, OutsideTry
  <1> USE <1>0 DEF Steady, rowVars, tableVars, brokerVars, listVars
  <1>1. CASE Lookup(p)
    BY <1>1 DEF Lookup, At, Goto, Release
  <1>2. CASE MarkMissing(p)
    BY <1>2, UpdateStatusSteady DEF MarkMissing, At, Release, Pipeline, TryBlock, OutsideTry, RowStatus
  <1>3. CASE MarkProcessing(p)
    BY <1>3, UpdateStatusSteady DEF MarkProcessing, At, Goto, Pipeline, TryBlock, OutsideTry, RowStatus
  <1>4. CASE CheckCancelled(p)
    BY <1>4 DEF CheckCancelled, At, Leave, Goto
  <1>5. CASE StepPasses(p)
    BY <1>5 DEF StepPasses, At, Goto
  <1>6. CASE StepFails(p)
    BY <1>6 DEF StepFails, At, Goto
  <1>7. CASE FailStep(p)
    BY <1>7, UpdateStatusSteady DEF FailStep, At, Leave, Pipeline, TryBlock, OutsideTry, RowStatus
  <1>8. CASE MoveCopy(p)
    BY <1>8 DEF MoveCopy, At, Goto
  <1>9. CASE MarkDone(p)
    BY <1>9, UpdateStatusSteady
    DEF MarkDone, CustodyInv, DoneAfterCommit, At, Goto, Pipeline, TryBlock, OutsideTry, RowStatus
  <1>10. CASE Report(p)
    BY <1>10 DEF Report, At, Leave
  <1>11. CASE Raise(p)
    BY <1>11 DEF Raise, Leave, Escape, Release
  <1>12. CASE Finally(p)
    BY <1>12 DEF Finally, At, Goto, Exit, Escape, Release
  <1>13. CASE FinallyRemove(p)
    BY <1>13 DEF FinallyRemove, At, Exit, Escape, Release
  <1> QED
    BY <1>1, <1>2, <1>3, <1>4, <1>5, <1>6, <1>7, <1>8, <1>9, <1>10, <1>11, <1>12, <1>13 DEF RunPipeline

\* Unlinking the temp file makes its process the only holder.
LEMMA ClaimCustody ==
  ASSUME TypeOK, CustodyInv, NEW p \in Procs, MoveUnlink(p)
  PROVE  CustodyInv'
  <1> USE DEF MoveUnlink, Unlink, At, Goto, CustodyInv
  <1>0. /\ \A q \in Procs : pc[q] \in {"unlink", "commit", "markdone"} => cur[q] \in Items
        /\ pc \in [Procs -> Locations]
    BY DEF TypeOK, ProcTypeOK
  <1>1. TempIsFresh'
    BY DEF TempIsFresh
  <1>2. HolderIsAlone'
    BY <1>0 DEF HolderIsAlone, TempIsFresh
  <1>3. StoredOnce'
    BY DEF StoredOnce
  <1>4. DoneAfterCommit'
    BY <1>0 DEF DoneAfterCommit
  <1> QED
    BY <1>1, <1>2, <1>3, <1>4

\* The holder stores the upload that nobody stored before.
LEMMA StoreCustody ==
  ASSUME TypeOK, CustodyInv, NEW p \in Procs, CommitVideo(p)
  PROVE  CustodyInv'
  <1> USE DEF CommitVideo, At, Goto, CustodyInv, tableVars
  <1>0. /\ \A q \in Procs : pc[q] \in {"commit", "markdone"} => cur[q] \in Items
        /\ pc \in [Procs -> Locations] /\ videos \in [Items -> Nat] /\ temp \subseteq Items
    BY DEF TypeOK, ProcTypeOK, TableTypeOK
  <1>1. videos[cur[p]] = 0 /\ cur[p] \in Items /\ cur[p] \notin temp /\ status[cur[p]] # "absent"
    BY <1>0 DEF HolderIsAlone
  <1>2. videos' = [t \in Items |-> IF t = cur[p] THEN 1 ELSE videos[t]]
    <2>1. videos' = [t \in Items |-> IF t = cur[p] THEN videos[cur[p]] + 1 ELSE videos[t]]
      BY <1>0
    <2>2. videos[cur[p]] + 1 = 1
      BY <1>1
    <2> QED
      BY <2>1, <2>2
  <1>3. TempIsFresh'
    BY <1>0, <1>1, <1>2 DEF TempIsFresh
  <1>4. HolderIsAlone'
    BY <1>0, <1>1, <1>2 DEF HolderIsAlone
  <1>5. StoredOnce'
    BY <1>1, <1>2 DEF StoredOnce
  <1>6. DoneAfterCommit'
    BY <1>0, <1>1, <1>2 DEF DoneAfterCommit
  <1> QED
    BY <1>3, <1>4, <1>5, <1>6

\* So every step of the pipeline keeps the invariant.
LEMMA PipelineCustody ==
  ASSUME TypeOK, CustodyInv, NEW p \in Procs, RunPipeline(p)
  PROVE  CustodyInv'
  BY PipelineSteady, SteadyCustody, ClaimCustody, StoreCustody

\* A worker keeps the invariant.
LEMMA WorkerCustody ==
  ASSUME TypeOK, CustodyInv, NEW w \in Workers, WorkerStep(w)
  PROVE  CustodyInv'
  <1>0. /\ w \in Procs
        /\ pc \in [Procs -> Locations] /\ cur \in [Procs -> Items \cup {NoItem}]
        /\ pc[w] \in AfterJob => cur[w] \in Items
    BY DEF TypeOK, ProcTypeOK, Procs, AfterJob
  <1>1. ASSUME NEW t \in Items, WorkerDequeue(w, t) PROVE Steady
    BY <1>0, <1>1 DEF Steady, WorkerDequeue, Take, At, tableVars
  <1>2. CASE RunPipeline(w)
    BY <1>0, <1>2, PipelineCustody
  <1>3. CASE JobFailure(w)
    <2>1. Steady
      BY <1>0, <1>3 DEF Steady, JobFailure, Goto, At, tableVars
    <2> QED
      BY <2>1, SteadyCustody
  <1>4. CASE HandlerMark(w)
    <2>1. Steady
      BY <1>0, <1>4, UpdateStatusSteady DEF Steady, HandlerMark, Goto, At, AfterJob, RowStatus
    <2> QED
      BY <2>1, SteadyCustody
  <1>5. CASE HandlerLookup(w) \/ HandlerRemove(w) \/ HandlerRaises(w)
    <2>1. Steady
      BY <1>0, <1>5
      DEF Steady, HandlerLookup, HandlerRemove, HandlerRaises, Unlink, Goto, Release, At, tableVars, rowVars
    <2> QED
      BY <2>1, SteadyCustody
  <1> QED
    BY <1>1, <1>2, <1>3, <1>4, <1>5, SteadyCustody DEF WorkerStep

\* A web thread keeps the invariant.
LEMMA RequestCustody ==
  ASSUME TypeOK, CustodyInv, NEW r \in Requests, RequestStep(r)
  PROVE  CustodyInv'
  <1>0. /\ r \in Procs
        /\ pc \in [Procs -> Locations] /\ cur \in [Procs -> Items \cup {NoItem}]
        /\ pc[r] \in RequestCode => cur[r] \in Items
        /\ status \in [Items -> Status]
    BY DEF TypeOK, ProcTypeOK, TableTypeOK, Procs, RequestCode
  <1> USE <1>0 DEF Steady, tableVars, rowVars
  <1>1. ASSUME EnqueueMark(r) PROVE Steady
    BY <1>1, UpdateStatusSteady DEF EnqueueMark, At, Goto, RequestCode, RowStatus
  <1>2. ASSUME EnqueueRefused(r) PROVE Steady
    BY <1>2 DEF EnqueueRefused, At, Release
  <1>3. ASSUME EnqueuePush(r) PROVE Steady
    BY <1>3 DEF EnqueuePush, At, Push, Release
  <1>4. ASSUME EnqueueInline(r) PROVE Steady
    BY <1>4 DEF EnqueueInline, At, Push, Goto
  <1>5. ASSUME CancelRead(r) PROVE Steady
    BY <1>5 DEF CancelRead, At, Goto
  <1>6. ASSUME CancelWrite(r) PROVE Steady
    BY <1>6 DEF CancelWrite, At, SetStatus, Goto, Release
  <1>7. ASSUME CancelJobStep(r) PROVE Steady
    BY <1>7 DEF CancelJobStep, At, CancelRqJob, CancelJob, Release
  <1>8. ASSUME RemoveJob(r) PROVE Steady
    BY <1>8 DEF RemoveJob, At, CancelRqJob, CancelJob, Goto
  <1>9. ASSUME RemoveLookup(r) PROVE Steady
    BY <1>9 DEF RemoveLookup, At, Goto, Release
  <1>10. ASSUME RemoveUnlink(r) PROVE Steady
    BY <1>10 DEF RemoveUnlink, At, Goto, Release
  <1>11. ASSUME RemoveRow(r) PROVE Steady
    BY <1>11 DEF RemoveRow, At, DeleteRows, Release
  <1>12. ASSUME ClearUnlink(r) PROVE Steady
    BY <1>12 DEF ClearUnlink, At, Unlink, Take, Release, Forget
  <1>13. ASSUME ClearRows(r) PROVE Steady
    BY <1>13 DEF ClearRows, At, DeleteRows, Release, Forget
  <1>14. ASSUME NEW t \in Items, ClearLookup(r, t) PROVE Steady
    BY <1>14 DEF ClearLookup, Take, procVars, At
  <1>15. ASSUME RunPipeline(r) PROVE CustodyInv'
    BY <1>15, PipelineCustody
  <1> QED
    BY <1>1, <1>2, <1>3, <1>4, <1>5, <1>6, <1>7, <1>8, <1>9, <1>10, <1>11, <1>12, <1>13, <1>14, <1>15,
       SteadyCustody
    DEF RequestStep

\* An upload is a fresh id, so its file is one nobody stored.
LEMMA UploadCustodyKept ==
  ASSUME TypeOK, CustodyInv, NEW t \in Items, Upload(t)
  PROVE  CustodyInv'
  <1> USE DEF Upload, Add, procVars, CustodyInv
  <1>0. /\ \A q \in Procs : pc[q] \in {"commit", "markdone"} => cur[q] \in Items
        /\ status \in [Items -> Status] /\ temp \subseteq Items
    BY DEF TypeOK, ProcTypeOK, TableTypeOK
  <1>1. TempIsFresh'
    BY <1>0 DEF TempIsFresh, StoredOnce
  <1>2. HolderIsAlone'
    BY <1>0 DEF HolderIsAlone
  <1>3. StoredOnce'
    BY <1>0 DEF StoredOnce
  <1>4. DoneAfterCommit'
    BY DEF DoneAfterCommit
  <1> QED
    BY <1>1, <1>2, <1>3, <1>4

\* What users start keeps the invariant.
LEMMA UserCustody ==
  ASSUME TypeOK, CustodyInv, User
  PROVE  CustodyInv'
  <1>0. pc \in [Procs -> Locations] /\ cur \in [Procs -> Items \cup {NoItem}] /\ Requests \subseteq Procs
    BY DEF TypeOK, ProcTypeOK, Procs
  <1>1. ASSUME NEW t \in Items, Upload(t) PROVE CustodyInv'
    BY <1>1, UploadCustodyKept
  <1>2. ASSUME NEW r \in Requests, NEW t \in Items,
               QueueProcess(r, t) \/ QueueCancel(r, t) \/ QueueRemove(r, t)
        PROVE  Steady
    BY <1>0, <1>2 DEF Steady, QueueProcess, QueueCancel, QueueRemove, Take, tableVars
  <1>3. ASSUME NEW r \in Requests, DeleteAllQueue(r) PROVE Steady
    BY <1>0, <1>3 DEF Steady, DeleteAllQueue, tableVars
  <1>4. ASSUME NEW r \in Requests, SessionDelete(r) PROVE Steady
    BY <1>4 DEF Steady, SessionDelete, HasRow, RowStatus, procVars
  <1> QED
    BY <1>1, <1>2, <1>3, <1>4, SteadyCustody DEF User

\* The scheduler and the crashes keep the invariant.
LEMMA EnvironmentCustody ==
  ASSUME TypeOK, CustodyInv, Environment
  PROVE  CustodyInv'
  <1>0. /\ pc \in [Procs -> Locations] /\ cur \in [Procs -> Items \cup {NoItem}]
        /\ Workers \subseteq Procs /\ Requests \subseteq Procs
    BY DEF TypeOK, ProcTypeOK, Procs
  <1>1. ASSUME NEW t \in Items, Promote(t) PROVE Steady
    BY <1>1 DEF Steady, Promote, tableVars, procVars
  <1>2. ASSUME NEW w \in Workers, WorkerCrash(w) PROVE Steady
    BY <1>0, <1>2 DEF Steady, WorkerCrash, Release, rowVars
  <1>3. ASSUME NEW r \in Requests, WebCrash(r) PROVE Steady
    BY <1>0, <1>3 DEF Steady, WebCrash, Release, rowVars
  <1> QED
    BY <1>1, <1>2, <1>3, SteadyCustody DEF Environment

\* Every step keeps the invariant.
LEMMA NextCustody == TypeOK /\ CustodyInv /\ [Next]_vars => CustodyInv'
  <1> SUFFICES ASSUME TypeOK, CustodyInv, [Next]_vars PROVE CustodyInv'
    OBVIOUS
  <1>1. CASE \E w \in Workers : WorkerStep(w)
    BY <1>1, WorkerCustody
  <1>2. CASE \E r \in Requests : RequestStep(r)
    BY <1>2, RequestCustody
  <1>3. CASE User
    BY <1>3, UserCustody
  <1>4. CASE Environment
    BY <1>4, EnvironmentCustody
  <1>5. CASE UNCHANGED vars
    BY <1>5
    DEF vars, CustodyInv, TempIsFresh, HolderIsAlone, StoredOnce, DoneAfterCommit
  <1> QED
    BY <1>1, <1>2, <1>3, <1>4, <1>5 DEF Next

\* The token invariant holds in every reachable state, with any faults.
LEMMA CustodyInvariant == Spec => [](TypeOK /\ CustodyInv)
  BY TypeCorrect, InitCustody, NextCustody, PTL DEF Spec

\* However often an item is enqueued, retried, run side by side, or interrupted by
\* a crash, at most one video row is made from it.
THEOREM StoredAtMostOnce == Spec => []AtMostOneVideo
  <1>1. ASSUME CustodyInv, NEW t \in Items PROVE videos[t] <= 1
    <2>1. videos[t] = 0 \/ videos[t] = 1
      BY <1>1 DEF CustodyInv, StoredOnce
    <2> QED
      BY <2>1
  <1>2. CustodyInv => AtMostOneVideo
    BY <1>1 DEF AtMostOneVideo
  <1> QED
    BY <1>2, CustodyInvariant, PTL

\* No race, retry or fault makes the table say "done" for an item without a video.
THEOREM DoneIsStored == Spec => []DoneImpliesStored
  <1>1. CustodyInv => DoneImpliesStored
    BY DEF CustodyInv, StoredOnce, DoneImpliesStored
  <1> QED
    BY <1>1, CustodyInvariant, PTL

-----------------------------------------------------------------------------
(***************************************************************************)
(* The queue implements UploadCustody: an upload, a claim and a store are     *)
(* steps of the abstract specification; any other step of the queue keeps the *)
(* bytes where they are or gives up those of one item.                       *)
(***************************************************************************)

bytes == [t \in Items |-> CustodyOf(t)]

Held(t) == InCode(t, {"commit"}) # {}

\* A step in which only the file or the holder of item u may go.
Confined(u) ==
  /\ videos' = videos
  /\ temp' = temp \/ temp' = temp \ {u}
  /\ \A t \in Items : status'[t] = "absent" <=> status[t] = "absent"
  /\ \A p \in Procs : pc'[p] = "commit" => pc[p] = "commit" /\ cur'[p] = cur[p]
  /\ \A p \in Procs : pc[p] = "commit" /\ cur[p] # u => pc'[p] = "commit"

\* The item of whoever is at "commit" is one whose bytes are nowhere else.
Exclusive(t) ==
  /\ Held(t) => t \notin temp /\ videos[t] = 0 /\ status[t] # "absent"
  /\ t \in temp => videos[t] = 0 /\ status[t] # "absent"
  /\ videos[t] = 0 \/ videos[t] = 1
  /\ videos[t] = 1 => status[t] # "absent"

\* Where the bytes are.
PlaceOf(t) ==
  IF videos[t] = 1 THEN "stored" ELSE IF Held(t) THEN "held"
  ELSE IF t \in temp THEN "temp" ELSE IF status[t] = "absent" THEN "none" ELSE "lost"

\* The token invariant makes the places exclusive, before and after a step.
LEMMA Places ==
  ASSUME CustodyInv, CustodyInv', NEW t \in Items
  PROVE  /\ Exclusive(t) /\ Exclusive(t)'
         /\ CustodyOf(t) = PlaceOf(t) /\ CustodyOf(t)' = PlaceOf(t)'
  <1>1. Exclusive(t)
    BY DEF CustodyInv, TempIsFresh, HolderIsAlone, StoredOnce, Exclusive, Held, InCode
  <1>2. Exclusive(t)'
    BY DEF CustodyInv, TempIsFresh, HolderIsAlone, StoredOnce, Exclusive, Held, InCode
  <1>3. \A n : n = 0 \/ n = 1 => (n > 0 <=> n = 1)
    OBVIOUS
  <1>4. CustodyOf(t) = PlaceOf(t)
    BY <1>1, <1>3 DEF CustodyOf, PlaceOf, Held, Exclusive
  <1>5. CustodyOf(t)' = PlaceOf(t)'
    BY <1>2, <1>3 DEF CustodyOf, PlaceOf, Held, Exclusive
  <1> QED
    BY <1>1, <1>2, <1>4, <1>5

\* If the bytes of all other items stay where they are and those of u make one of the
\* moves, the queue makes a step of UploadCustody.
LEMMA OneMove ==
  ASSUME NEW u \in Items,
         \A t \in Items \ {u} : CustodyOf(t)' = CustodyOf(t),
         \/ CustodyOf(u)' = CustodyOf(u)
         \/ CustodyOf(u) = "none" /\ CustodyOf(u)' = "temp"
         \/ CustodyOf(u) = "temp" /\ CustodyOf(u)' \in {"held", "lost"}
         \/ CustodyOf(u) = "held" /\ CustodyOf(u)' \in {"stored", "lost"}
  PROVE  [Custody!CustodyNext]_bytes
  <1>1. CASE CustodyOf(u)' = CustodyOf(u)
    BY <1>1 DEF bytes
  <1>2. ASSUME NEW from, NEW to, CustodyOf(u) = from, CustodyOf(u)' = to
        PROVE  Custody!Transfer(u, from, to)
    BY <1>2 DEF Custody!Transfer
  <1> QED
    BY <1>1, <1>2
    DEF Custody!CustodyNext, Custody!Receive, Custody!Claim, Custody!Keep, Custody!Discard, Custody!Drop

-----------------------------------------------------------------------------
\* A confined step keeps the bytes or loses those of u.
LEMMA ConfinedMove ==
  ASSUME TypeOK, CustodyInv, CustodyInv', NEW u, Confined(u)
  PROVE  [Custody!CustodyNext]_bytes
  <1>1. ASSUME NEW t \in Items, t # u PROVE CustodyOf(t)' = CustodyOf(t)
    <2>1. Held(t)' <=> Held(t)
      BY <1>1 DEF Confined, Held, InCode
    <2>2. videos'[t] = videos[t] /\ (t \in temp' <=> t \in temp) /\ (status'[t] = "absent" <=> status[t] = "absent")
      BY <1>1 DEF Confined
    <2> QED
      BY <2>1, <2>2, Places DEF PlaceOf
  <1>2. CASE u \notin Items
    BY <1>1, <1>2 DEF bytes
  <1>3. CASE u \in Items
    <2>1. CustodyOf(u)' = CustodyOf(u) \/ (CustodyOf(u) \in {"temp", "held"} /\ CustodyOf(u)' = "lost")
      <3>1. Held(u)' => Held(u)
        BY DEF Confined, Held, InCode
      <3>2. /\ videos'[u] = videos[u] /\ (u \in temp' => u \in temp)
            /\ status'[u] = "absent" <=> status[u] = "absent"
        BY <1>3 DEF Confined
      <3> QED
        BY <1>3, <3>1, <3>2, Places DEF PlaceOf, Exclusive
    <2> QED
      BY <1>1, <1>3, <2>1, OneMove
  <1> QED
    BY <1>2, <1>3

\* An upload receives the bytes of a fresh item.
LEMMA UploadMove ==
  ASSUME TypeOK, CustodyInv, CustodyInv', NEW u \in Items, Upload(u)
  PROVE  [Custody!CustodyNext]_bytes
  <1>1. /\ \A t \in Items : Held(t)' <=> Held(t)
        /\ videos' = videos /\ temp' = temp \cup {u} /\ status[u] = "absent"
        /\ \A t \in Items \ {u} : status'[t] = status[t]
    BY DEF Upload, Add, procVars, Held, InCode, TypeOK, TableTypeOK
  <1>2. \A t \in Items \ {u} : CustodyOf(t)' = CustodyOf(t)
    BY <1>1, Places DEF PlaceOf
  <1>3. CustodyOf(u) = "none" /\ CustodyOf(u)' = "temp"
    BY <1>1, Places DEF PlaceOf, Exclusive
  <1> QED
    BY <1>2, <1>3, OneMove

\* Unlinking the source of the move claims the bytes.
LEMMA ClaimMove ==
  ASSUME TypeOK, CustodyInv, CustodyInv', NEW p \in Procs, MoveUnlink(p)
  PROVE  [Custody!CustodyNext]_bytes
  <1>u. PICK u \in Items : u = cur[p]
    BY DEF MoveUnlink, TypeOK, TableTypeOK
  <1>0. u \in temp /\ u = cur[p] /\ pc \in [Procs -> Locations]
    BY <1>u DEF MoveUnlink, TypeOK, ProcTypeOK
  <1>1. /\ videos' = videos /\ status' = status /\ temp' = temp \ {u} /\ cur' = cur
        /\ pc' = [pc EXCEPT ![p] = "commit"] /\ pc[p] = "unlink"
    BY <1>0 DEF MoveUnlink, Unlink, Goto, At
  <1>2. Held(u)' /\ \A t \in Items \ {u} : Held(t)' <=> Held(t)
    BY <1>0, <1>1 DEF Held, InCode
  <1>3. \A t \in Items \ {u} : CustodyOf(t)' = CustodyOf(t)
    BY <1>1, <1>2, Places DEF PlaceOf
  <1>4. CustodyOf(u) = "temp" /\ CustodyOf(u)' = "held"
    BY <1>0, <1>1, <1>2, Places DEF PlaceOf, Exclusive
  <1> QED
    BY <1>0, <1>3, <1>4, OneMove

\* The commit of the videos row keeps them.
LEMMA KeepMove ==
  ASSUME TypeOK, CustodyInv, CustodyInv', NEW p \in Procs, CommitVideo(p)
  PROVE  [Custody!CustodyNext]_bytes
  <1>u. PICK u \in Items : u = cur[p]
    BY DEF CommitVideo, At, TypeOK, ProcTypeOK
  <1>0. /\ u = cur[p] /\ pc[p] = "commit"
        /\ pc \in [Procs -> Locations] /\ videos \in [Items -> Nat]
    BY <1>u DEF CommitVideo, At, TypeOK, ProcTypeOK
  <1>1. /\ status' = status /\ temp' = temp /\ cur' = cur
        /\ pc' = [pc EXCEPT ![p] = "markdone"]
        /\ \A t \in Items \ {u} : videos'[t] = videos[t]
    BY <1>0 DEF CommitVideo, Goto, tableVars
  <1>2. Held(u) /\ \A t \in Items \ {u} : Held(t)' <=> Held(t)
    BY <1>0, <1>1 DEF Held, InCode
  <1>3. videos[u] = 0 /\ videos'[u] = 1
    <2>1. videos[u] = 0
      BY <1>0, <1>2, Places DEF Exclusive
    <2>2. videos'[u] = videos[u] + 1
      BY <1>0 DEF CommitVideo
    <2> QED
      BY <2>1, <2>2
  <1>4. \A t \in Items \ {u} : CustodyOf(t)' = CustodyOf(t)
    BY <1>1, <1>2, Places DEF PlaceOf
  <1>5. CustodyOf(u) = "held" /\ CustodyOf(u)' = "stored"
    BY <1>0, <1>2, <1>3, Places DEF PlaceOf
  <1> QED
    BY <1>0, <1>4, <1>5, OneMove

-----------------------------------------------------------------------------
\* A status write neither makes an id fresh again nor uses one.
LEMMA UpdateStatusConfined ==
  ASSUME TypeOK, NEW v, NEW s \in RowStatus, UpdateStatus(v, s)
  PROVE  temp' = temp /\ \A t \in Items : status'[t] = "absent" <=> status[t] = "absent"
  BY DEF TypeOK, TableTypeOK, UpdateStatus, SetStatus, HasRow, RowStatus

\* So is every step of the pipeline but the two above.
LEMMA PipelineConfined ==
  ASSUME TypeOK, NEW p \in Procs, RunPipeline(p), ~ MoveUnlink(p), ~ CommitVideo(p)
  PROVE  Confined(cur[p])
  <1>0. pc \in [Procs -> Locations] /\ cur \in [Procs -> Items \cup {NoItem}]
    BY DEF TypeOK, ProcTypeOK
  <1> USE <1>0 DEF Confined, At, Goto, Release, Leave, rowVars, tableVars
  <1>1. CASE Lookup(p)
    BY <1>1 DEF Lookup
  <1>2. CASE MarkMissing(p)
    BY <1>2, UpdateStatusConfined DEF MarkMissing, RowStatus
  <1>3. CASE MarkProcessing(p)
    BY <1>3, UpdateStatusConfined DEF MarkProcessing, RowStatus
  <1>4. CASE CheckCancelled(p)
    BY <1>4 DEF CheckCancelled
  <1>5. CASE StepPasses(p)
    BY <1>5 DEF StepPasses
  <1>6. CASE StepFails(p)
    BY <1>6 DEF StepFails
  <1>7. CASE FailStep(p)
    BY <1>7, UpdateStatusConfined DEF FailStep, RowStatus
  <1>8. CASE MoveCopy(p)
    BY <1>8 DEF MoveCopy
  <1>9. CASE MarkDone(p)
    BY <1>9, UpdateStatusConfined DEF MarkDone, RowStatus
  <1>10. CASE Report(p)
    BY <1>10 DEF Report
  <1>11. CASE Raise(p)
    BY <1>11 DEF Raise, Escape
  <1>12. CASE Finally(p)
    BY <1>12 DEF Finally, Exit, Escape
  <1>13. CASE FinallyRemove(p)
    BY <1>13 DEF FinallyRemove, Exit, Escape
  <1> QED
    BY <1>1, <1>2, <1>3, <1>4, <1>5, <1>6, <1>7, <1>8, <1>9, <1>10, <1>11, <1>12, <1>13 DEF RunPipeline

\* And whatever else a worker does.
LEMMA WorkerConfined ==
  ASSUME TypeOK, NEW w \in Workers, WorkerStep(w), ~ RunPipeline(w)
  PROVE  Confined(cur[w])
  <1>0. w \in Procs /\ pc \in [Procs -> Locations] /\ cur \in [Procs -> Items \cup {NoItem}]
    BY DEF TypeOK, ProcTypeOK, Procs
  <1> USE <1>0 DEF Confined, At, Goto, Release, tableVars
  <1>1. ASSUME NEW t \in Items, WorkerDequeue(w, t) PROVE Confined(cur[w])
    BY <1>1 DEF WorkerDequeue, Take
  <1>2. CASE JobFailure(w)
    BY <1>2 DEF JobFailure
  <1>3. CASE HandlerMark(w)
    BY <1>3, UpdateStatusConfined DEF HandlerMark, RowStatus
  <1>4. CASE HandlerLookup(w) \/ HandlerRemove(w) \/ HandlerRaises(w)
    BY <1>4 DEF HandlerLookup, HandlerRemove, HandlerRaises, Unlink, rowVars
  <1> QED
    BY <1>1, <1>2, <1>3, <1>4 DEF WorkerStep

\* And whatever else a web thread does.
LEMMA RequestConfined ==
  ASSUME TypeOK, NEW r \in Requests, RequestStep(r), ~ RunPipeline(r)
  PROVE  Confined(cur[r])
  <1>0. /\ r \in Procs /\ pc \in [Procs -> Locations] /\ cur \in [Procs -> Items \cup {NoItem}]
        /\ status \in [Items -> Status]
    BY DEF TypeOK, TableTypeOK, ProcTypeOK, Procs
  <1> USE <1>0 DEF Confined, At, Goto, Release, tableVars, rowVars
  <1>1. CASE EnqueueMark(r)
    BY <1>1, UpdateStatusConfined DEF EnqueueMark, RowStatus
  <1>2. CASE EnqueueRefused(r)
    BY <1>2 DEF EnqueueRefused
  <1>3. CASE EnqueuePush(r)
    BY <1>3 DEF EnqueuePush
  <1>4. CASE EnqueueInline(r)
    BY <1>4 DEF EnqueueInline
  <1>5. CASE CancelRead(r)
    BY <1>5 DEF CancelRead
  <1>6. CASE CancelWrite(r)
    BY <1>6 DEF CancelWrite, SetStatus, HasRow, RowStatus
  <1>7. CASE CancelJobStep(r)
    BY <1>7 DEF CancelJobStep
  <1>8. CASE RemoveJob(r)
    BY <1>8 DEF RemoveJob
  <1>9. CASE RemoveLookup(r)
    BY <1>9 DEF RemoveLookup
  <1>10. CASE RemoveUnlink(r)
    BY <1>10 DEF RemoveUnlink
  <1>11. CASE RemoveRow(r)
    BY <1>11 DEF RemoveRow, DeleteRows, HasRow, RowStatus
  <1>12. ASSUME NEW t \in Items, ClearLookup(r, t) PROVE Confined(cur[r])
    BY <1>12 DEF ClearLookup, Take, procVars
  <1>13. CASE ClearUnlink(r)
    BY <1>13 DEF ClearUnlink, Unlink, Take
  <1>14. CASE ClearRows(r)
    BY <1>14 DEF ClearRows, DeleteRows, HasRow, RowStatus
  <1> QED
    BY <1>1, <1>2, <1>3, <1>4, <1>5, <1>6, <1>7, <1>8, <1>9, <1>10, <1>11, <1>12, <1>13, <1>14
    DEF RequestStep

\* A process that runs moves bytes as UploadCustody does.
LEMMA ProcessMove ==
  ASSUME TypeOK, CustodyInv, CustodyInv', NEW p \in Procs,
         RunPipeline(p) \/ (p \in Workers /\ WorkerStep(p)) \/ (p \in Requests /\ RequestStep(p))
  PROVE  [Custody!CustodyNext]_bytes
  <1>1. CASE MoveUnlink(p)
    BY <1>1, ClaimMove
  <1>2. CASE CommitVideo(p)
    BY <1>2, KeepMove
  <1>3. CASE ~ MoveUnlink(p) /\ ~ CommitVideo(p)
    <2>1. Confined(cur[p])
      BY <1>3, PipelineConfined, WorkerConfined, RequestConfined
    <2> QED
      BY <2>1, ConfinedMove
  <1> QED
    BY <1>1, <1>2, <1>3

\* What users start takes no bytes but those uploaded.
LEMMA UserMove ==
  ASSUME TypeOK, CustodyInv, CustodyInv', User
  PROVE  [Custody!CustodyNext]_bytes
  <1>0. pc \in [Procs -> Locations] /\ cur \in [Procs -> Items \cup {NoItem}] /\ Requests \subseteq Procs
    BY DEF TypeOK, ProcTypeOK, Procs
  <1>1. ASSUME NEW t \in Items, Upload(t) PROVE [Custody!CustodyNext]_bytes
    BY <1>1, UploadMove
  <1>2. ASSUME NEW r \in Requests, NEW t \in Items,
               QueueProcess(r, t) \/ QueueCancel(r, t) \/ QueueRemove(r, t)
        PROVE  Confined(t)
    BY <1>0, <1>2 DEF Confined, QueueProcess, QueueCancel, QueueRemove, Take, At, tableVars
  <1>3. ASSUME NEW r \in Requests, DeleteAllQueue(r) PROVE Confined(NoItem)
    BY <1>0, <1>3 DEF Confined, DeleteAllQueue, At, tableVars
  <1>4. ASSUME NEW r \in Requests, SessionDelete(r) PROVE Confined(NoItem)
    BY <1>4 DEF Confined, SessionDelete, HasRow, RowStatus, procVars
  <1> QED
    BY <1>1, <1>2, <1>3, <1>4, ConfinedMove DEF User

\* A crash loses what its process held, and nothing else.
LEMMA EnvironmentMove ==
  ASSUME TypeOK, CustodyInv, CustodyInv', Environment
  PROVE  [Custody!CustodyNext]_bytes
  <1>0. /\ pc \in [Procs -> Locations] /\ cur \in [Procs -> Items \cup {NoItem}]
        /\ Workers \subseteq Procs /\ Requests \subseteq Procs
    BY DEF TypeOK, ProcTypeOK, Procs
  <1>1. ASSUME NEW t \in Items, Promote(t) PROVE Confined(t)
    BY <1>1 DEF Confined, Promote, tableVars, procVars
  <1>2. ASSUME NEW w \in Workers, WorkerCrash(w) PROVE Confined(cur[w])
    BY <1>0, <1>2 DEF Confined, WorkerCrash, Release, rowVars
  <1>3. ASSUME NEW r \in Requests, WebCrash(r) PROVE Confined(cur[r])
    BY <1>0, <1>3 DEF Confined, WebCrash, Release, rowVars
  <1> QED
    BY <1>1, <1>2, <1>3, ConfinedMove DEF Environment

\* Every step maps to a step of UploadCustody or to a stutter.
LEMMA NextMove ==
  TypeOK /\ CustodyInv /\ CustodyInv' /\ [Next]_vars => [Custody!CustodyNext]_bytes
  <1> SUFFICES ASSUME TypeOK, CustodyInv, CustodyInv', [Next]_vars PROVE [Custody!CustodyNext]_bytes
    OBVIOUS
  <1>1. ASSUME NEW w \in Workers, WorkerStep(w) PROVE [Custody!CustodyNext]_bytes
    BY <1>1, ProcessMove DEF Procs
  <1>2. ASSUME NEW r \in Requests, RequestStep(r) PROVE [Custody!CustodyNext]_bytes
    BY <1>2, ProcessMove DEF Procs
  <1>3. CASE User
    BY <1>3, UserMove
  <1>4. CASE Environment
    BY <1>4, EnvironmentMove
  <1>5. CASE UNCHANGED vars
    BY <1>5 DEF vars, bytes, CustodyOf, InCode
  <1> QED
    BY <1>1, <1>2, <1>3, <1>4, <1>5 DEF Next

\* The initial states map to the initial state.
LEMMA InitMove == Init => Custody!CustodyInit
  BY DEF Init, TableInit, CustodyOf, InCode, Custody!CustodyInit, Procs

\* The queue implements UploadCustody: whatever races, retries and faults do, the
\* bytes of an upload are in one place at a time and go one way.
THEOREM ImplementsCustody == Spec => CustodyKept
  <1>1. TypeOK /\ CustodyInv /\ CustodyInv' /\ [Next]_vars =>
          [Custody!CustodyNext]_([t \in Items |-> CustodyOf(t)])
    BY NextMove DEF bytes
  <1> QED
    BY <1>1, InitMove, CustodyInvariant, PTL DEF Spec, CustodyKept, Custody!CustodySpec
=============================================================================
