----------------------------- MODULE QueueTable -----------------------------
(***************************************************************************)
(* The state QueueManager keeps outside the process: the queue_items table *)
(* (the column `status`) and the files under TEMP_FOLDER.  Every operator   *)
(* is one database transaction or one file-system call of                  *)
(* services/queue.py, so the other threads and workers run between two of  *)
(* them.  The column `logs` and the texts of `error` and `result` are left  *)
(* out: nothing in the control flow of the queue reads them.               *)
(***************************************************************************)
EXTENDS Config

CONSTANT DbErrors    \* TRUE: a status write may fail and be rolled back

ASSUME DbErrorsAssumption == DbErrors \in BOOLEAN

VARIABLES status,     \* status[t]: the row's status; "absent" and "deleted" mean no row
          temp,       \* the items whose temp_path exists
          unhandled   \* history: items that a failure or session_delete hit and no code looks after

rowVars   == <<status, temp>>
tableVars == <<status, temp, unhandled>>

RowStatus == {"uploaded", "queued", "processing", "done", "error", "cancelled"}
Status    == RowStatus \cup {"absent", "deleted"}

\* The statuses for which the pipeline's `finally` removes the temp file.
Settled   == {"done", "error", "cancelled"}

HasRow(t) == status[t] \in RowStatus

TableTypeOK ==
  /\ status \in [Items -> Status]
  /\ temp \in SUBSET Items
  /\ unhandled \in SUBSET Items

TableInit ==
  /\ status = [t \in Items |-> "absent"]
  /\ temp = {}
  /\ unhandled = {}

-----------------------------------------------------------------------------
\* file.save, then QueueManager.add.  Until the row is committed nobody else
\* knows the temp_id, so the two are one step here.
Add(t) ==
  /\ status[t] = "absent"
  /\ status' = [status EXCEPT ![t] = "uploaded"]
  /\ temp' = temp \cup {t}
  /\ UNCHANGED unhandled

\* Mutant: the write creates the row when it is not there.
SetStatus_upsert(t, s) == status' = [status EXCEPT ![t] = s]

\* The write of one status column: a row that is gone is left alone.
SetStatus(t, s) ==
  status' = IF HasRow(t) THEN [status EXCEPT ![t] = s] ELSE status

\* update_status (and the first half of enqueue): the exception of a failed
\* transaction is swallowed and rolled back, and the caller goes on.
UpdateStatus(t, s) ==
  /\ \/ SetStatus(t, s) /\ UNCHANGED unhandled
     \/ DbErrors /\ unhandled' = unhandled \cup {t} /\ UNCHANGED status
  /\ UNCHANGED temp

IsCancelled(t) == status[t] # "processing"

\* os.remove of a file that is there.
Unlink(t) ==
  /\ temp' = temp \ {t}
  /\ UNCHANGED <<status, unhandled>>

\* session.delete and commit: deleting a row that is gone only warns.
DeleteRows(T) ==
  /\ status' = [t \in Items |-> IF t \in T /\ HasRow(t) THEN "deleted" ELSE status[t]]
  /\ UNCHANGED <<temp, unhandled>>
=============================================================================
