----------------------------- MODULE VideoQueue -----------------------------
(***************************************************************************)
(* The processing queue: web threads that start, cancel and delete queue    *)
(* items (app.py, services/queue.py), and the pipeline that turns an item    *)
(* into a stored video (services/pipeline.py), run by RQ workers             *)
(* (worker.py) or by the web thread itself when Redis is not there.         *)
(*                                                                         *)
(* Every process has a program counter pc[p]; one action is the code from    *)
(* one access to the shared state (table, temp files, videos, RQ) to the     *)
(* next.  The pcs of a web thread:                                          *)
(*   enqueue, push                            QueueManager.enqueue           *)
(*   cancel_read, cancel_write, cancel_job    QueueManager.cancel            *)
(*   rm_job, rm_file, rm_unlink, rm_row       QueueManager.remove            *)
(*   clear_file, clear_unlink                 delete_all_queue               *)
(* (session_delete takes its rows in one step, from "idle"),                 *)
(* and of whoever runs the pipeline:                                        *)
(*   lookup, missing, begin, check, validate, fail, copy, unlink, commit,    *)
(*   markdone, report, finally, cleanup       _process_with_queue            *)
(*   failed, handler, handler_rm,                                           *)
(*   handler_unlink                           RQ and worker._handle_failure  *)
(***************************************************************************)
EXTENDS QueueTable, RQBroker

CONSTANTS Workers,        \* RQ worker processes
          Requests,       \* web threads
          NoItem,         \* cur of an idle process
          Offline,        \* TRUE: some web process cached redis_available() = False
          EnqueueErrors,  \* TRUE: Queue.enqueue may raise, before or after the push
          Crashes,        \* TRUE: workers and web processes may be killed
          MaxJobs         \* bound: nobody asks again for an item queued so often

ASSUME ProcsAssumption ==
  /\ Workers \cap Requests = {}
  /\ Offline \in BOOLEAN
  /\ NoItem \notin Items
  /\ EnqueueErrors \in BOOLEAN
  /\ Crashes \in BOOLEAN
  /\ MaxJobs \in Nat

VARIABLES videos,   \* videos[t]: rows of the videos table ever made from upload t
          pc,       \* where each process is
          cur,      \* the item it works on
          step,     \* the pipeline step it is in, the first one when it is in none
          exc,      \* TRUE: it is leaving the pipeline with an exception
          todo,     \* delete_all_queue: items whose file is still to be looked at
          batch     \* delete_all_queue: the rows its query returned

procVars == <<pc, cur, step, exc>>
listVars == <<todo, batch>>
vars     == <<status, temp, unhandled, jobs, scheduled, retriesLeft, videos,
              pc, cur, step, exc, todo, batch>>

Procs == Workers \cup Requests

Steps == {"size", "mime", "clamav", "analysis"}

\* The order of the steps in _process_with_queue.
NextStep == [size |-> "mime", mime |-> "clamav", clamav |-> "analysis"]

\* The steps that cannot succeed once the temp file is gone: os.path.getsize and
\* ffprobe raise, while clamscan's exit status lets the item through and the
\* mimetypes fallback of validate_mime_type never opens the file.
NeedsFile == {"size", "analysis"}

TryBlock    == {"check", "validate", "fail", "copy", "unlink", "commit", "markdone", "report"}
OutsideTry  == {"lookup", "missing", "begin", "finally", "cleanup"}
Pipeline    == TryBlock \cup OutsideTry
AfterJob    == {"failed", "handler", "handler_rm", "handler_unlink"}
RequestCode == {"enqueue", "push", "cancel_read", "cancel_write", "cancel_job",
                "rm_job", "rm_file", "rm_unlink", "rm_row"}
ClearCode   == {"clear_file", "clear_unlink"}

Locations == {"idle"} \cup Pipeline \cup AfterJob \cup RequestCode \cup ClearCode

\* Only a thread inside delete_all_queue is busy without an item; only workers
\* come to the failure handling of RQ, only web threads to the request code.
ProcTypeOK ==
  /\ pc \in [Procs -> Locations]
  /\ cur \in [Procs -> Items \cup {NoItem}]
  /\ step \in [Procs -> Steps]
  /\ exc \in [Procs -> BOOLEAN]
  /\ \A p \in Procs : IF pc[p] \in {"idle", "clear_file"} THEN cur[p] = NoItem ELSE cur[p] \in Items
  /\ \A w \in Workers : pc[w] \in {"idle"} \cup Pipeline \cup AfterJob
  /\ \A r \in Requests : pc[r] \notin AfterJob

ListTypeOK ==
  /\ todo \in [Requests -> SUBSET Items]
  /\ batch \in [Requests -> SUBSET Items]

TypeOK ==
  /\ TableTypeOK
  /\ BrokerTypeOK
  /\ videos \in [Items -> Nat]
  /\ ProcTypeOK
  /\ ListTypeOK

Init ==
  /\ TableInit
  /\ BrokerInit
  /\ videos = [t \in Items |-> 0]
  /\ pc = [p \in Procs |-> "idle"]
  /\ cur = [p \in Procs |-> NoItem]
  /\ step = [p \in Procs |-> "size"]
  /\ exc = [p \in Procs |-> FALSE]
  /\ todo = [r \in Requests |-> {}]
  /\ batch = [r \in Requests |-> {}]

-----------------------------------------------------------------------------
\* Moves of one process.  Goto keeps everything but the pc.

At(p, l) == pc[p] = l

Goto(p, l) ==
  /\ pc' = [pc EXCEPT ![p] = l]
  /\ UNCHANGED <<cur, step, exc>>

\* An idle process takes up item t.
Take(p, t, l) ==
  /\ pc' = [pc EXCEPT ![p] = l]
  /\ cur' = [cur EXCEPT ![p] = t]
  /\ UNCHANGED <<step, exc>>

\* The process has nothing more to do for its item.
Release(p) ==
  /\ pc' = [pc EXCEPT ![p] = "idle"]
  /\ cur' = [cur EXCEPT ![p] = NoItem]
  /\ step' = [step EXCEPT ![p] = "size"]
  /\ exc' = [exc EXCEPT ![p] = FALSE]

\* Leaving the try block: to `finally`, with or without an exception.
Leave(p, e) ==
  /\ pc' = [pc EXCEPT ![p] = "finally"]
  /\ step' = [step EXCEPT ![p] = "size"]
  /\ exc' = [exc EXCEPT ![p] = e]
  /\ UNCHANGED cur

\* The item of p is left as it is, and nothing will look at it again.
Unhandled(p) == unhandled' = unhandled \cup ({cur[p]} \cap Items)

\* process_video raises: the exception reaches RQ in a worker, and in a web thread
\* it is the request's 500, with no failure handler and no retry.
Escape(p) ==
  IF p \in Workers
  THEN /\ pc' = [pc EXCEPT ![p] = "failed"]
       /\ exc' = [exc EXCEPT ![p] = FALSE]
       /\ UNCHANGED <<cur, step, unhandled>>
  ELSE Release(p) /\ Unhandled(p)

\* process_video is over, with or without an exception.
Exit(p, e) == IF e THEN Escape(p) ELSE Release(p) /\ UNCHANGED unhandled

-----------------------------------------------------------------------------
\* Web threads.

\* POST /api/upload, as far as the queue sees it.
Upload(t) ==
  /\ Add(t)
  /\ UNCHANGED <<brokerVars, videos, procVars, listVars>>

\* Mutant: queue_process enqueues an item in any state.
QueueProcess_anyState(r, t) ==
  /\ At(r, "idle") /\ HasRow(t)
  /\ jobs[t] < MaxJobs
  /\ Take(r, t, "enqueue")
  /\ UNCHANGED <<tableVars, brokerVars, videos, listVars>>

\* queue_process: the item must be "uploaded"; nothing holds it in that state.
\* When the write of "queued" is lost the same item can be enqueued any number of
\* times; MaxJobs bounds that.
QueueProcess(r, t) ==
  /\ At(r, "idle") /\ status[t] = "uploaded"
  /\ jobs[t] < MaxJobs
  /\ Take(r, t, "enqueue")
  /\ UNCHANGED <<tableVars, brokerVars, videos, listVars>>

\* enqueue: write "queued" and ask redis_available, whose first answer is kept.
EnqueueMark(r) ==
  /\ At(r, "enqueue")
  /\ UpdateStatus(cur[r], "queued")
  /\ \/ Goto(r, "push")
     \/ Offline /\ Goto(r, "lookup")
  /\ UNCHANGED <<brokerVars, videos, listVars>>

\* Retry(max = 0) raises outside the try block: the request fails.
EnqueueRefused(r) ==
  /\ At(r, "push") /\ \E n \in MaxRetries : ~RetryAccepted(n)
  /\ Release(r) /\ Unhandled(r)
  /\ UNCHANGED <<rowVars, brokerVars, videos, listVars>>

EnqueuePush(r) ==
  /\ At(r, "push")
  /\ \E n \in MaxRetries : RetryAccepted(n) /\ Push(cur[r], n)
  /\ Release(r)
  /\ UNCHANGED <<tableVars, videos, listVars>>

\* Queue.enqueue raises: Redis was not reached, or its answer was lost after the
\* push.  The thread runs the pipeline itself.
EnqueueInline(r) ==
  /\ At(r, "push") /\ EnqueueErrors
  /\ \E n \in MaxRetries : RetryAccepted(n) /\ (Push(cur[r], n) \/ UNCHANGED brokerVars)
  /\ Goto(r, "lookup")
  /\ UNCHANGED <<tableVars, videos, listVars>>

\* Mutant: queue_cancel takes a waiting item too.
QueueCancel_waiting(r, t) ==
  /\ At(r, "idle") /\ status[t] \in {"queued", "processing"}
  /\ Take(r, t, "cancel_read")
  /\ UNCHANGED <<tableVars, brokerVars, videos, listVars>>

\* queue_cancel: only an item in "processing".
QueueCancel(r, t) ==
  /\ At(r, "idle") /\ status[t] = "processing"
  /\ Take(r, t, "cancel_read")
  /\ UNCHANGED <<tableVars, brokerVars, videos, listVars>>

\* cancel: reads the row again ...
CancelRead(r) ==
  /\ At(r, "cancel_read")
  /\ Goto(r, IF IsCancelled(cur[r]) THEN "cancel_job" ELSE "cancel_write")
  /\ UNCHANGED <<tableVars, brokerVars, videos, listVars>>

\* ... and writes what it decided then.  A row deleted meanwhile makes the commit
\* raise, and the request ends there.
CancelWrite(r) ==
  /\ At(r, "cancel_write")
  /\ SetStatus(cur[r], "cancelled")
  /\ IF HasRow(cur[r]) THEN Goto(r, "cancel_job") ELSE Release(r)
  /\ UNCHANGED <<temp, unhandled, brokerVars, videos, listVars>>

\* _cancel_rq_job, which does nothing without Redis.
CancelRqJob(t) == CancelJob(t) \/ (Offline /\ UNCHANGED brokerVars)

CancelJobStep(r) ==
  /\ At(r, "cancel_job")
  /\ CancelRqJob(cur[r])
  /\ Release(r)
  /\ UNCHANGED <<tableVars, videos, listVars>>

\* queue_remove: any item that is not in "processing".
QueueRemove(r, t) ==
  /\ At(r, "idle") /\ HasRow(t) /\ status[t] # "processing"
  /\ Take(r, t, "rm_job")
  /\ UNCHANGED <<tableVars, brokerVars, videos, listVars>>

RemoveJob(r) ==
  /\ At(r, "rm_job")
  /\ CancelRqJob(cur[r])
  /\ Goto(r, "rm_file")
  /\ UNCHANGED <<tableVars, videos, listVars>>

\* remove: the row is gone, or its file exists, or only the row is left.
RemoveLookup(r) ==
  /\ At(r, "rm_file")
  /\ IF HasRow(cur[r])
     THEN Goto(r, IF cur[r] \in temp THEN "rm_unlink" ELSE "rm_row")
     ELSE Release(r)
  /\ UNCHANGED <<tableVars, brokerVars, videos, listVars>>

\* os.remove raises when somebody else removed the file: the row stays, and its
\* job may have been cancelled.
RemoveUnlink(r) ==
  /\ At(r, "rm_unlink")
  /\ temp' = temp \ {cur[r]}
  /\ IF cur[r] \in temp
     THEN Goto(r, "rm_row") /\ UNCHANGED unhandled
     ELSE Release(r) /\ Unhandled(r)
  /\ UNCHANGED <<status, brokerVars, videos, listVars>>

RemoveRow(r) ==
  /\ At(r, "rm_row")
  /\ DeleteRows({cur[r]})
  /\ Release(r)
  /\ UNCHANGED <<brokerVars, videos, listVars>>

\* delete_all_queue: every row of the session, whatever its status, and no job.
DeleteAllQueue(r) ==
  /\ At(r, "idle")
  /\ \E t \in Items : HasRow(t)
  /\ pc' = [pc EXCEPT ![r] = "clear_file"]
  /\ todo' = [todo EXCEPT ![r] = {t \in Items : HasRow(t)}]
  /\ batch' = [batch EXCEPT ![r] = {t \in Items : HasRow(t)}]
  /\ UNCHANGED <<tableVars, brokerVars, videos, cur, step, exc>>

ClearLookup(r, t) ==
  /\ At(r, "clear_file") /\ t \in todo[r]
  /\ IF t \in temp THEN Take(r, t, "clear_unlink") ELSE UNCHANGED procVars
  /\ todo' = [todo EXCEPT ![r] = @ \ {t}]
  /\ UNCHANGED <<tableVars, brokerVars, videos, batch>>

\* The request is over: its lists are forgotten.
Forget(r) ==
  /\ todo' = [todo EXCEPT ![r] = {}]
  /\ batch' = [batch EXCEPT ![r] = {}]

\* An os.remove that raises leaves every row in place.
ClearUnlink(r) ==
  /\ At(r, "clear_unlink")
  /\ Unlink(cur[r])
  /\ IF cur[r] \in temp
     THEN Take(r, NoItem, "clear_file") /\ UNCHANGED listVars
     ELSE Release(r) /\ Forget(r)
  /\ UNCHANGED <<brokerVars, videos>>

\* The single commit at the end deletes all the rows of the query.
ClearRows(r) ==
  /\ At(r, "clear_file") /\ todo[r] = {}
  /\ DeleteRows(batch[r])
  /\ Release(r) /\ Forget(r)
  /\ UNCHANGED <<brokerVars, videos>>

\* session_delete: the rows go with their session in one transaction, whatever their
\* status; their files and jobs are left, and nothing looks for those files again.
SessionDelete(r) ==
  /\ At(r, "idle")
  /\ \E t \in Items : HasRow(t)
  /\ status' = [t \in Items |-> IF HasRow(t) THEN "deleted" ELSE status[t]]
  /\ unhandled' = unhandled \cup {t \in temp : HasRow(t)}
  /\ UNCHANGED <<temp, brokerVars, videos, procVars, listVars>>

-----------------------------------------------------------------------------
\* The pipeline, run by p for cur[p].

WorkerDequeue(w, t) ==
  /\ At(w, "idle")
  /\ Pop(t)
  /\ Take(w, t, "lookup")
  /\ UNCHANGED <<tableVars, videos, listVars>>

\* A row that is gone ends the job, a file that is gone ends the item.
Lookup(p) ==
  /\ At(p, "lookup")
  /\ IF HasRow(cur[p])
     THEN Goto(p, IF cur[p] \in temp THEN "begin" ELSE "missing")
     ELSE Release(p)
  /\ UNCHANGED <<tableVars, brokerVars, videos, listVars>>

\* Mutant: an item without its file is given up silently.
MarkMissing_silent(p) ==
  /\ At(p, "missing")
  /\ Release(p)
  /\ UNCHANGED <<tableVars, brokerVars, videos, listVars>>

MarkMissing(p) ==
  /\ At(p, "missing")
  /\ UpdateStatus(cur[p], "error")
  /\ Release(p)
  /\ UNCHANGED <<brokerVars, videos, listVars>>

MarkProcessing(p) ==
  /\ At(p, "begin")
  /\ UpdateStatus(cur[p], "processing")
  /\ Goto(p, "check")
  /\ UNCHANGED <<brokerVars, videos, listVars>>

\* Every step starts by asking is_cancelled, and returns when it is.
CheckCancelled(p) ==
  /\ At(p, "check")
  /\ IF IsCancelled(cur[p]) THEN Leave(p, FALSE) ELSE Goto(p, "validate")
  /\ UNCHANGED <<tableVars, brokerVars, videos, listVars>>

StepPasses(p) ==
  /\ At(p, "validate")
  /\ step[p] \in NeedsFile => cur[p] \in temp
  /\ IF step[p] = "analysis"
     THEN Goto(p, "copy")
     ELSE /\ pc' = [pc EXCEPT ![p] = "check"]
          /\ step' = [step EXCEPT ![p] = NextStep[@]]
          /\ UNCHANGED <<cur, exc>>
  /\ UNCHANGED <<tableVars, brokerVars, videos, listVars>>

StepFails(p) ==
  /\ At(p, "validate")
  /\ step[p] # "mime" => cur[p] \in temp
  /\ Goto(p, "fail")
  /\ UNCHANGED <<tableVars, brokerVars, videos, listVars>>

\* Mutant: a status nothing else knows.
FailStep_failed(p) ==
  /\ At(p, "fail")
  /\ UpdateStatus(cur[p], "failed")
  /\ Leave(p, TRUE)
  /\ UNCHANGED <<brokerVars, videos, listVars>>

\* _fail_step: back to "queued" for the retry, and raise PipelineError.
FailStep(p) ==
  /\ At(p, "fail")
  /\ UpdateStatus(cur[p], "queued")
  /\ Leave(p, TRUE)
  /\ UNCHANGED <<brokerVars, videos, listVars>>

\* shutil.move from the temp volume to the uploads volume: a copy, then an unlink
\* that raises when the source has gone meanwhile.
MoveCopy(p) ==
  /\ At(p, "copy") /\ cur[p] \in temp
  /\ Goto(p, "unlink")
  /\ UNCHANGED <<tableVars, brokerVars, videos, listVars>>

\* Mutant: shutil.copy instead of shutil.move.
MoveUnlink_copyOnly(p) ==
  /\ At(p, "unlink")
  /\ Goto(p, "commit")
  /\ UNCHANGED <<tableVars, brokerVars, videos, listVars>>

\* Mutant: the unlink of a source that has gone is ignored.
MoveUnlink_missingOk(p) ==
  /\ At(p, "unlink")
  /\ Unlink(cur[p])
  /\ Goto(p, "commit")
  /\ UNCHANGED <<brokerVars, videos, listVars>>

MoveUnlink(p) ==
  /\ At(p, "unlink") /\ cur[p] \in temp
  /\ Unlink(cur[p])
  /\ Goto(p, "commit")
  /\ UNCHANGED <<brokerVars, videos, listVars>>

\* Mutant: a failed insert is swallowed, as the queue's own writes are.
CommitVideo_swallowed(p) ==
  /\ At(p, "commit")
  /\ videos' = [videos EXCEPT ![cur[p]] = @ + 1] \/ UNCHANGED videos
  /\ Goto(p, "markdone")
  /\ UNCHANGED <<tableVars, brokerVars, listVars>>

\* Hash, thumbnail, and the commit of the videos row.
CommitVideo(p) ==
  /\ At(p, "commit")
  /\ videos' = [videos EXCEPT ![cur[p]] = @ + 1]
  /\ Goto(p, "markdone")
  /\ UNCHANGED <<tableVars, brokerVars, listVars>>

MarkDone(p) ==
  /\ At(p, "markdone")
  /\ UpdateStatus(cur[p], "done")
  /\ Goto(p, "report")
  /\ UNCHANGED <<brokerVars, videos, listVars>>

\* The result lines, logged after the item is done.
Report(p) ==
  /\ At(p, "report")
  /\ Leave(p, FALSE)
  /\ UNCHANGED <<tableVars, brokerVars, videos, listVars>>

\* Any exception: a missing file, a full disk, the database, the job timeout of
\* RQ, a video deleted under to_dict or getsize.
Raise(p) ==
  /\ \/ pc[p] \in TryBlock /\ Leave(p, TRUE) /\ UNCHANGED unhandled
     \/ pc[p] \in OutsideTry /\ Escape(p)
  /\ UNCHANGED <<rowVars, brokerVars, videos, listVars>>

\* Mutant: finally forgets the cancelled items.
Finally_keepsCancelled(p) ==
  /\ At(p, "finally")
  /\ IF status[cur[p]] \in {"done", "error"} /\ cur[p] \in temp
     THEN Goto(p, "cleanup") /\ UNCHANGED unhandled
     ELSE Exit(p, exc[p])
  /\ UNCHANGED <<rowVars, brokerVars, videos, listVars>>

\* finally: a settled item loses the temp file that is still there ...
Finally(p) ==
  /\ At(p, "finally")
  /\ IF status[cur[p]] \in Settled /\ cur[p] \in temp
     THEN Goto(p, "cleanup") /\ UNCHANGED unhandled
     ELSE Exit(p, exc[p])
  /\ UNCHANGED <<rowVars, brokerVars, videos, listVars>>

\* ... and os.remove raises when somebody else was faster.
FinallyRemove(p) ==
  /\ At(p, "cleanup")
  /\ temp' = temp \ {cur[p]}
  /\ Exit(p, exc[p] \/ cur[p] \notin temp)
  /\ UNCHANGED <<status, brokerVars, videos, listVars>>

\* RQ handles the failure of the job before it calls the exception handlers.
JobFailure(w) ==
  /\ At(w, "failed")
  /\ Fail(cur[w])
  /\ Goto(w, "handler")
  /\ UNCHANGED <<tableVars, videos, listVars>>

\* Mutant: the handler of the worker does not write the status.
HandlerMark_noStatus(w) ==
  /\ At(w, "handler")
  /\ Goto(w, "handler_rm")
  /\ UNCHANGED <<tableVars, brokerVars, videos, listVars>>

\* _handle_failure, called after every failed attempt, the last one or not.
HandlerMark(w) ==
  /\ At(w, "handler")
  /\ UpdateStatus(cur[w], "error")
  /\ Goto(w, "handler_rm")
  /\ UNCHANGED <<brokerVars, videos, listVars>>

\* It reads the row and looks for the file ...
HandlerLookup(w) ==
  /\ At(w, "handler_rm")
  /\ IF HasRow(cur[w]) /\ cur[w] \in temp THEN Goto(w, "handler_unlink") ELSE Release(w)
  /\ UNCHANGED <<tableVars, brokerVars, videos, listVars>>

\* Mutant: the handler looks for the file and leaves it.
HandlerRemove_keeps(w) ==
  /\ At(w, "handler_unlink")
  /\ Release(w)
  /\ UNCHANGED <<tableVars, brokerVars, videos, listVars>>

\* ... and removes it, or finds that somebody else did, which raises to no effect.
HandlerRemove(w) ==
  /\ At(w, "handler_unlink")
  /\ Unlink(cur[w])
  /\ Release(w)
  /\ UNCHANGED <<brokerVars, videos, listVars>>

\* The handler swallows what its queue.get or its os.remove raise: the file stays.
HandlerRaises(w) ==
  /\ pc[w] \in {"handler_rm", "handler_unlink"}
  /\ Release(w) /\ Unhandled(w)
  /\ UNCHANGED <<rowVars, brokerVars, videos, listVars>>

-----------------------------------------------------------------------------
\* The environment.

Promote(t) ==
  /\ Requeue(t)
  /\ UNCHANGED <<tableVars, videos, procVars, listVars>>

\* A killed work horse runs no Python handler: RQ only records the failure, unless
\* it had done so already, and a retry is all that may come of it.
WorkerCrash(w) ==
  /\ Crashes /\ pc[w] # "idle"
  /\ IF pc[w] \in AfterJob \ {"failed"} THEN UNCHANGED brokerVars ELSE Fail(cur[w])
  /\ Release(w)
  /\ IF WithScheduler /\ cur[w] \in scheduled' THEN UNCHANGED unhandled ELSE Unhandled(w)
  /\ UNCHANGED <<rowVars, videos, listVars>>

\* A killed web process loses what its thread had not committed.
WebCrash(r) ==
  /\ Crashes /\ pc[r] # "idle"
  /\ Release(r) /\ Unhandled(r) /\ Forget(r)
  /\ UNCHANGED <<rowVars, brokerVars, videos>>

-----------------------------------------------------------------------------
\* What a process does for the item it has taken up.
RunPipeline(p) ==
  \/ Lookup(p) \/ MarkMissing(p) \/ MarkProcessing(p)
  \/ CheckCancelled(p) \/ StepPasses(p) \/ StepFails(p) \/ FailStep(p)
  \/ MoveCopy(p) \/ MoveUnlink(p) \/ CommitVideo(p) \/ MarkDone(p) \/ Report(p)
  \/ Raise(p) \/ Finally(p) \/ FinallyRemove(p)

WorkerStep(w) ==
  \/ \E t \in Items : WorkerDequeue(w, t)
  \/ RunPipeline(w)
  \/ JobFailure(w)
  \/ HandlerMark(w) \/ HandlerLookup(w) \/ HandlerRemove(w) \/ HandlerRaises(w)

RequestStep(r) ==
  \/ EnqueueMark(r) \/ EnqueueRefused(r) \/ EnqueuePush(r) \/ EnqueueInline(r)
  \/ CancelRead(r) \/ CancelWrite(r) \/ CancelJobStep(r)
  \/ RemoveJob(r) \/ RemoveLookup(r) \/ RemoveUnlink(r) \/ RemoveRow(r)
  \/ (\E t \in Items : ClearLookup(r, t)) \/ ClearUnlink(r) \/ ClearRows(r)
  \/ RunPipeline(r)

\* What users ask for; nothing obliges them to.
User ==
  \/ \E t \in Items : Upload(t)
  \/ \E r \in Requests, t \in Items :
       QueueProcess(r, t) \/ QueueCancel(r, t) \/ QueueRemove(r, t)
  \/ \E r \in Requests : DeleteAllQueue(r) \/ SessionDelete(r)

Environment ==
  \/ \E t \in Items : Promote(t)
  \/ \E w \in Workers : WorkerCrash(w)
  \/ \E r \in Requests : WebCrash(r)

Next ==
  \/ \E w \in Workers : WorkerStep(w)
  \/ \E r \in Requests : RequestStep(r)
  \/ User
  \/ Environment

Spec == Init /\ [][Next]_vars

\* Threads and workers that are alive keep running, and the scheduler, where there
\* is one, keeps promoting; users and crashes owe nothing.
Fairness ==
  /\ \A w \in Workers : WF_vars(WorkerStep(w))
  /\ \A r \in Requests : WF_vars(RequestStep(r))
  /\ \A t \in Items : WF_vars(Promote(t))

FairSpec == Spec /\ Fairness

-----------------------------------------------------------------------------
\* Properties.

\* Processes that have taken up item t and are in one of the pcs L.
InCode(t, L) == {p \in Procs : cur[p] = t /\ pc[p] \in L}

\* Moving the temp file away is what makes storing exclusive: however often an
\* item is enqueued, retried or run side by side, _store_video commits one row.
AtMostOneVideo == \A t \in Items : videos[t] <= 1

\* A status "done" is only ever shown for an item whose video row is committed,
\* also when a cancel, a retry or a second execution writes the status between.
DoneImpliesStored == \A t \in Items : status[t] = "done" => videos[t] = 1

\* Somebody has the item: a job in RQ's list, a retry that the scheduler is going to
\* start, or a process that is going to write its status, to clean up or to delete it.
Owned(t) ==
  \/ jobs[t] > 0
  \/ WithScheduler /\ t \in scheduled
  \/ InCode(t, {"enqueue", "push", "rm_file", "rm_unlink", "rm_row"}
               \cup Pipeline \cup AfterJob) # {}

\* An item shown as waiting or running is owned; otherwise it could not leave the
\* state, since queue_process only takes "uploaded" items.  What the code handles,
\* from a double enqueue to the retry of a killed worker's job, keeps that so; only a
\* lost status write, an exception in a web thread, a refused Retry, or the end of a
\* process that no retry follows may end it (the rest of `unhandled` concerns files).
NoAbandonedItem ==
  \A t \in Items \ unhandled : status[t] \in {"queued", "processing"} => Owned(t)

\* Once an item is settled or deleted and nobody has it any more, its temp file is
\* gone: every path through finally, the handler and remove cleans up.  Exempt are
\* the same failures, an exception that the handler swallows, and the items that
\* session_delete took the row of.
NoTempLeak ==
  \A t \in Items \ unhandled : status[t] \in Settled \cup {"deleted"} /\ t \in temp => Owned(t)

\* A row that was deleted is not brought back by a worker that still runs, an
\* item waits for its process request before anything else happens to it unless
\* the write of "queued" was lost, and only an item whose video is stored becomes "done".
StatusProtocol ==
  [][\A t \in Items :
       /\ status[t] = "deleted" => status'[t] = "deleted"
       /\ status[t] = "uploaded" =>
            status'[t] \in {"uploaded", "queued", "deleted"} \/ t \in unhandled
       /\ status'[t] = "done" => status[t] = "done" \/ videos[t] = 1]_vars

\* With one client thread, two executions of the same item never overlap: the
\* "uploaded" check admits one enqueue, and a retry starts after the attempt.
ExclusiveExecution ==
  \A p, q \in Procs :
    p # q /\ cur[p] = cur[q] => ~ (pc[p] \in Pipeline /\ pc[q] \in Pipeline)

\* An item that is waiting or running is eventually settled or deleted.
EventuallySettled ==
  \A t \in Items : status[t] \in {"queued", "processing"} ~>
                   status[t] \in Settled \cup {"deleted"}

\* The place where the bytes of upload t are.
CustodyOf(t) ==
  IF videos[t] > 0 THEN "stored"
  ELSE IF InCode(t, {"commit"}) # {} THEN "held"
  ELSE IF t \in temp THEN "temp"
  ELSE IF status[t] = "absent" THEN "none"
  ELSE "lost"

Custody == INSTANCE UploadCustody WITH custody <- [t \in Items |-> CustodyOf(t)]

\* The queue implements UploadCustody: the whole life of an upload, with every
\* race and crash, is one pass through none, temp, held and stored or lost.
CustodyKept == Custody!CustodySpec

\* pipeline.py:17 and README.md:29 promise that a failed item is retried: while
\* the retry is pending and nobody works on the item, its file must be there.
PendingRetryHasFile ==
  \A t \in scheduled :
    status[t] \in {"queued", "error"} /\ InCode(t, Pipeline \cup AfterJob) = {} => t \in temp

\* CHANGELOG.md:23 leaves the recovery of stuck items to RQ's Retry: an item in
\* "processing" is in the hands of a process, a queued job or a retry that the
\* scheduler will start.
StuckItemRecovered ==
  \A t \in Items : status[t] = "processing" => Owned(t)
=============================================================================
