----------------------------- MODULE LogStream -----------------------------
(***************************************************************************)
(* What the pages of a session see of one queue item.  The executions of     *)
(* the pipeline log into the row and write its status (pipeline.py,          *)
(* QueueManager.log); queue_stream (app.py) polls the row and sends what is  *)
(* new; the page (app.js) opens a stream when it asked for the item or sees  *)
(* it active in the list, closes it at the first complete or error event, a  *)
(* lost connection included, and deletes the item soon after.                *)
(*                                                                           *)
(* log and cancel read the list of entries, append to their copy and write   *)
(* it back.  What decides whether a file is missing or a step fails is left  *)
(* to VideoQueue and either may happen here.  One step stands for the four   *)
(* validation and analysis steps, which log, ask and fail alike; of its      *)
(* entries the one that announces it and the one of its failure are kept.    *)
(* The lines of the result, logged when the item is done and the stream may  *)
(* have ended, are left out: nothing is said of them.                        *)
(***************************************************************************)
EXTENDS Naturals, Sequences

CONSTANTS Attempts,   \* executions of the pipeline (retries, or jobs enqueued twice), numbered
                      \* in the order in which they begin
          Pages,      \* open pages of the session
          MaxFailures \* bound: lost writes, jobs and executions

ASSUME StreamAssumption ==
  /\ Attempts \subseteq Nat
  /\ Attempts \cap Pages = {}
  /\ MaxFailures \in Nat

VARIABLES status,   \* status of the row, "deleted" once it is gone
          logs,     \* its logs: entries [by, what]
          lost,     \* history: some write dropped an entry
          enqueued, \* a job was put into RQ, or an execution into a web thread
          abandoned,\* history: a status write, the job or an execution was lost
          failures, \* how many writes, jobs and executions were lost
          pc,       \* where each execution, and each page's cancel request, is
          what,     \* the entry it is logging
          copy,     \* the list it read
          stream,   \* stream[p]: "closed" or "open", or the event that ended it
          sent,     \* sent[p]: what the latest stream of p has shown, until it ends in error
          inbox,    \* an answer on its way to p: of its process request, or a list
          timer     \* timer[p]: p is going to delete the item

fate     == <<enqueued, abandoned, failures>>
row      == <<status, logs, lost, fate>>
runs     == <<pc, what, copy>>
pages    == <<stream, sent, inbox, timer>>
vars     == <<status, logs, lost, enqueued, abandoned, failures, pc, what, copy,
              stream, sent, inbox, timer>>

Writers == Attempts \cup Pages
Settled == {"done", "error", "cancelled"}
Active  == {"queued", "processing"}
Kinds   == {"checking", "failed", "missing", "complete", "cancel"}
Entries == [by : Writers, what : Kinds]

TypeOK ==
  /\ status \in {"uploaded", "deleted"} \cup Active \cup Settled
  /\ logs \in Seq(Entries)
  /\ lost \in BOOLEAN /\ enqueued \in BOOLEAN /\ abandoned \in BOOLEAN /\ failures \in 0..MaxFailures
  /\ pc \in [Writers -> {"idle", "lookup", "log", "write", "ask", "validate", "fail", "handler",
                         "store", "markdone", "over"}]
  /\ what \in [Writers -> Kinds \cup {"none"}]
  /\ copy \in [Writers -> Seq(Entries)]
  /\ stream \in [Pages -> {"closed", "open", "complete", "error"}]
  /\ sent \in [Pages -> Seq(Entries)]
  /\ inbox \in [Pages -> {"none", "start", "list"}]
  /\ timer \in [Pages -> BOOLEAN]

Init ==
  /\ status = "uploaded" /\ logs = << >> /\ lost = FALSE
  /\ enqueued = FALSE /\ abandoned = FALSE /\ failures = 0
  /\ pc = [x \in Writers |-> "idle"]
  /\ what = [x \in Writers |-> "none"]
  /\ copy = [x \in Writers |-> << >>]
  /\ stream = [p \in Pages |-> "closed"]
  /\ sent = [p \in Pages |-> << >>]
  /\ inbox = [p \in Pages |-> "none"]
  /\ timer = [p \in Pages |-> FALSE]

At(x, l)   == pc[x] = l
Goto(x, l) == pc' = [pc EXCEPT ![x] = l] /\ UNCHANGED <<what, copy>>

\* The next thing x does is to log an entry of kind k.
Log(x, k) ==
  /\ pc' = [pc EXCEPT ![x] = "log"]
  /\ what' = [what EXCEPT ![x] = k]
  /\ UNCHANGED copy

\* One more of the failures that leave something undone.
Fail == failures < MaxFailures /\ failures' = failures + 1

\* A status is written, unless the row is gone; a commit that fails is swallowed.
WriteStatus(s) ==
  \/ status' = (IF status = "deleted" THEN "deleted" ELSE s) /\ UNCHANGED <<abandoned, failures>>
  \/ Fail /\ abandoned' = TRUE /\ UNCHANGED status

\* update_status.
SetStatus(s) == WriteStatus(s) /\ UNCHANGED <<logs, lost, enqueued>>

\* The entry x is logging.
Entry(x) == [by |-> x, what |-> what[x]]

\* x writes back the list it read with its entry.
WriteBack(x) ==
  /\ logs' = Append(copy[x], Entry(x))
  /\ lost' = (lost \/ copy[x] # logs)

-----------------------------------------------------------------------------
\* Executions of the pipeline.

\* A job was enqueued; its worker, or another one, runs it.
RunBegin(a) ==
  /\ enqueued /\ At(a, "idle")
  /\ \A b \in Attempts : b < a => ~ At(b, "idle")
  /\ Goto(a, IF status = "deleted" THEN "over" ELSE "lookup")
  /\ UNCHANGED <<row, pages>>

FileMissing(a) ==
  /\ At(a, "lookup")
  /\ Log(a, "missing")
  /\ UNCHANGED <<row, pages>>

MarkProcessing(a) ==
  /\ At(a, "lookup")
  /\ SetStatus("processing")
  /\ Log(a, "checking")
  /\ UNCHANGED pages

\* What follows the entry that was logged.
AfterLog == [checking |-> "ask", failed |-> "fail", missing |-> "handler",
             complete |-> "markdone"]

\* x has written its entry and goes on to l.
Proceed(x, l) ==
  /\ pc' = [pc EXCEPT ![x] = l]
  /\ what' = [what EXCEPT ![x] = "none"]
  /\ copy' = [copy EXCEPT ![x] = << >>]

\* QueueManager.log: read the row, unless it has gone, ...
LogRead(a) ==
  /\ At(a, "log")
  /\ IF status = "deleted" THEN Proceed(a, AfterLog[what[a]])
     ELSE /\ pc' = [pc EXCEPT ![a] = "write"]
          /\ copy' = [copy EXCEPT ![a] = logs]
          /\ UNCHANGED what
  /\ UNCHANGED <<row, pages>>

\* Mutant: the entry is put before the others.
LogWrite_before(a) ==
  /\ At(a, "write")
  /\ logs' = IF status = "deleted" THEN logs ELSE <<Entry(a)>> \o logs
  /\ Proceed(a, AfterLog[what[a]])
  /\ UNCHANGED <<status, lost, fate, pages>>

\* ... and write back.  A commit that fails, as when the row has gone, is swallowed.
LogWrite(a) ==
  /\ At(a, "write")
  /\ \/ status # "deleted" /\ WriteBack(a) /\ UNCHANGED failures
     \/ status # "deleted" /\ Fail /\ lost' = TRUE /\ UNCHANGED logs
     \/ status = "deleted" /\ UNCHANGED <<logs, lost, failures>>
  /\ UNCHANGED <<status, enqueued, abandoned>>
  /\ Proceed(a, AfterLog[what[a]])
  /\ UNCHANGED pages

\* is_cancelled, between the entry that announces a step and the step.
AskCancelled(a) ==
  /\ At(a, "ask")
  /\ Goto(a, IF status = "processing" THEN "validate" ELSE "over")
  /\ UNCHANGED <<row, pages>>

\* The step fails, or passes and the video is to be stored.
Validate(a) ==
  /\ At(a, "validate")
  /\ Log(a, "failed") \/ Goto(a, "store")
  /\ UNCHANGED <<row, pages>>

\* _fail_step puts the item back to "queued" and raises ...
FailStep(a) ==
  /\ At(a, "fail")
  /\ SetStatus("queued")
  /\ Goto(a, "handler")
  /\ UNCHANGED pages

\* Mutant: the handler writes a status that nothing knows.
MarkError_failed(a) ==
  /\ At(a, "handler")
  /\ SetStatus("failed")
  /\ Goto(a, "over")
  /\ UNCHANGED pages

\* ... and the handler of the worker, like the missing-file branch, ends it in "error".
MarkError(a) ==
  /\ At(a, "handler")
  /\ SetStatus("error")
  /\ Goto(a, "over")
  /\ UNCHANGED pages

\* Mutant: the item is done before its last entry is logged.
Store_doneFirst(a) ==
  /\ At(a, "store")
  /\ Log(a, "complete")
  /\ SetStatus("done")
  /\ UNCHANGED pages

\* The video is stored (SessionStore has the steps).
Store(a) ==
  /\ At(a, "store")
  /\ Log(a, "complete")
  /\ UNCHANGED <<row, pages>>

\* The status follows the last entry; what follows the status may raise: getsize does,
\* when the video was deleted.
MarkDone(a) ==
  /\ At(a, "markdone")
  /\ SetStatus("done")
  /\ Goto(a, "over") \/ Goto(a, "handler")
  /\ UNCHANGED pages

Running(a) == pc[a] \notin {"idle", "over"}

\* What is neither log nor update_status may raise, and RQ calls the handler ...
Raise(a) ==
  /\ pc[a] \in {"lookup", "ask", "validate", "store", "markdone"}
  /\ Proceed(a, "handler")
  /\ UNCHANGED <<row, pages>>

\* ... unless the execution is one of a web thread (_process_inline) or its worker is
\* killed: then nobody writes a status.
BreakOff(a) ==
  /\ Running(a)
  /\ Proceed(a, "over")
  /\ Fail /\ abandoned' = TRUE
  /\ UNCHANGED <<status, logs, lost, enqueued, pages>>

\* The job of an item that waits is lost: cancel_job takes it, or Redis.
JobLost ==
  /\ status = "queued"
  /\ Fail /\ abandoned' = TRUE
  /\ UNCHANGED <<status, logs, lost, enqueued, runs, pages>>

-----------------------------------------------------------------------------
\* Requests of the pages.

\* _processItem and queue_process: the answer opens the stream.
Process(p) ==
  /\ status = "uploaded" /\ inbox[p] = "none"
  /\ WriteStatus("queued")
  /\ enqueued' = TRUE
  /\ inbox' = [inbox EXCEPT ![p] = "start"]
  /\ UNCHANGED <<logs, lost, runs, stream, sent, timer>>

\* With MAX_RETRIES = 1, Retry(max=0) raises after the status was written: there is
\* no job, and no answer.
ProcessRaises(p) ==
  /\ status = "uploaded" /\ inbox[p] = "none"
  /\ status' \in {"uploaded", "queued"}
  /\ Fail /\ abandoned' = TRUE
  /\ UNCHANGED <<logs, lost, enqueued, runs, pages>>

\* list_queue or queue_events answer with the item active.
ListItems(p) ==
  /\ status \in Active /\ inbox[p] = "none" /\ stream[p] # "open"
  /\ inbox' = [inbox EXCEPT ![p] = "list"]
  /\ UNCHANGED <<row, runs, stream, sent, timer>>

\* The stop button comes with the first entry and works once (bound: once for a page);
\* cancel reads the row ...
CancelRead(p) ==
  /\ At(p, "idle") /\ status = "processing"
  /\ stream[p] = "open" /\ sent[p] # << >>
  /\ pc' = [pc EXCEPT ![p] = "write"]
  /\ what' = [what EXCEPT ![p] = "cancel"]
  /\ copy' = [copy EXCEPT ![p] = logs]
  /\ UNCHANGED <<row, pages>>

\* ... and writes status and list, unless the row has gone or the commit fails.
CancelWrite(p) ==
  /\ At(p, "write")
  /\ \/ status # "deleted" /\ WriteBack(p) /\ status' = "cancelled"
     \/ UNCHANGED <<status, logs, lost>>
  /\ Proceed(p, "over")
  /\ UNCHANGED <<fate, pages>>

\* _removeQueueItem, 2 s after complete and 3 s after error: queue_remove refuses an
\* item in "processing", and may fail.
RemoveItem(p) ==
  /\ timer[p]
  /\ timer' = [timer EXCEPT ![p] = FALSE]
  /\ \/ status # "processing" /\ status' = "deleted" /\ logs' = << >> /\ lost' = FALSE
     \/ UNCHANGED <<status, logs, lost>>
  /\ UNCHANGED <<fate, runs, stream, sent, inbox>>

-----------------------------------------------------------------------------
\* The stream of a page.

\* startQueueStream: an answer to process replaces the stream, a list only opens a
\* missing one.  A new stream sends the entries from the first.
StartStream(p) ==
  /\ inbox[p] # "none"
  /\ inbox' = [inbox EXCEPT ![p] = "none"]
  /\ IF inbox[p] = "list" /\ stream[p] = "open"
     THEN UNCHANGED <<stream, sent>>
     ELSE /\ stream' = [stream EXCEPT ![p] = "open"]
          /\ sent' = [sent EXCEPT ![p] = << >>]
  /\ UNCHANGED <<row, runs, timer>>

\* The entries of the row that a stream which sent n of them has not sent yet.
New(n) == IF n < Len(logs) THEN SubSeq(logs, n + 1, Len(logs)) ELSE << >>

\* The events that end a stream close it and start the timer.
End(p, e) ==
  /\ stream' = [stream EXCEPT ![p] = e]
  /\ timer' = [timer EXCEPT ![p] = TRUE]

\* The last entries are sent before the error; then nothing asks what was shown.
EndInError(p) ==
  /\ End(p, "error")
  /\ sent' = [sent EXCEPT ![p] = << >>]

\* Mutant: the generator does not end for a cancelled item.
StreamPoll_ignoresCancelled(p) ==
  /\ stream[p] = "open"
  /\ \/ status \in {"deleted", "error"} /\ EndInError(p)
     \/ /\ status \notin {"deleted", "error"}
        /\ sent' = [sent EXCEPT ![p] = @ \o New(Len(@))]
        /\ IF status = "done" THEN End(p, "complete") ELSE UNCHANGED <<stream, timer>>
  /\ UNCHANGED <<row, runs, inbox>>

\* One turn of queue_stream: one read of the row, the new entries, then perhaps the end.
StreamPoll(p) ==
  /\ stream[p] = "open"
  /\ \/ status \in {"deleted", "error", "cancelled"} /\ EndInError(p)
     \/ /\ status \notin {"deleted", "error", "cancelled"}
        /\ sent' = [sent EXCEPT ![p] = @ \o New(Len(@))]
        /\ IF status = "done" THEN End(p, "complete") ELSE UNCHANGED <<stream, timer>>
  /\ UNCHANGED <<row, runs, inbox>>

\* EventSource reports a lost connection as an error event without data.
ConnectionLost(p) ==
  /\ stream[p] = "open"
  /\ EndInError(p)
  /\ UNCHANGED <<row, runs, inbox>>

-----------------------------------------------------------------------------
Run(a) ==
  \/ FileMissing(a) \/ MarkProcessing(a) \/ LogRead(a) \/ LogWrite(a) \/ AskCancelled(a)
  \/ Validate(a) \/ FailStep(a) \/ MarkError(a) \/ Store(a) \/ MarkDone(a)

Page(p) == StreamPoll(p) \/ StartStream(p) \/ RemoveItem(p) \/ CancelWrite(p)

Next ==
  \/ \E a \in Attempts : RunBegin(a) \/ Run(a) \/ Raise(a) \/ BreakOff(a)
  \/ JobLost
  \/ \E p \in Pages : \/ Page(p)
                      \/ Process(p) \/ ProcessRaises(p) \/ ListItems(p) \/ CancelRead(p)
                      \/ ConnectionLost(p)

Spec == Init /\ [][Next]_vars

\* A queued item whose job was not lost is run; an execution that began goes on; the
\* server polls for every open stream, and answers and timers arrive.
Fairness ==
  /\ WF_vars(status = "queued" /\ ~ abandoned /\ \E a \in Attempts : RunBegin(a))
  /\ \A a \in Attempts : WF_vars(Run(a))
  /\ \A p \in Pages : WF_vars(Page(p))

FairSpec == Spec /\ Fairness

-----------------------------------------------------------------------------
\* Properties.

\* However writers overwrite each other's lists, a stream never shows an entry of an
\* execution twice: queue_stream counts what it sent, and an entry never moves to a
\* later place.
NoLineTwice ==
  \A p \in Pages : \A i, j \in 1..Len(sent[p]) :
    sent[p][i] = sent[p][j] /\ sent[p][i].by \in Attempts => i = j

\* An entry is missed only if a write dropped one, by overwriting another list or by
\* failing (lost): without that, a stream has shown a prefix of the log, and when
\* queue_stream ended it with complete the entry that says so was among them.
NothingMissed ==
  ~lost =>
    \A p \in Pages : status # "deleted" =>
      /\ Len(sent[p]) <= Len(logs)
      /\ sent[p] = SubSeq(logs, 1, Len(sent[p]))
      /\ stream[p] = "complete" => \E i \in 1..Len(sent[p]) : sent[p][i].what = "complete"

\* A stream stays open only for an item that a failure has left behind: in "queued" or
\* "processing" (or "uploaded", when even that write was lost) with no execution running,
\* after a status write, its job or an execution was lost.  A failure that a later
\* execution makes good does not keep it open.
LeftBehind ==
  /\ abandoned /\ status \in {"uploaded"} \cup Active
  /\ \A a \in Attempts : ~ Running(a)

StreamEnds == \A p \in Pages : stream[p] = "open" ~> stream[p] # "open" \/ LeftBehind
=============================================================================
