---------------------------- MODULE SessionStore ----------------------------
(***************************************************************************)
(* Sessions and what hangs on them: the rows of the tables sessions,        *)
(* queue_items and video (with the foreign keys PostgreSQL enforces), the    *)
(* temp files, and a session's folder with its videos and thumbnails.  Web   *)
(* threads upload and delete (app.py), a worker stores videos (the end of    *)
(* services/pipeline.py), and the CleanupDaemon (services/cleanup.py) reaps  *)
(* sessions nobody used for SESSION_DAYS.  A row id names its files too: the *)
(* video made from upload u is called u.                                    *)
(*                                                                         *)
(* The pcs:  save                              upload                       *)
(*           move, move_unlink, store_thumb,                                *)
(*           store_commit                      _store_video                 *)
(*           file, unlink, thumb, unlink_thumb,                             *)
(*           bulk, rmdir                       delete, delete_all_videos and *)
(*                                             session_delete (see mode)     *)
(*           reap                              CleanupDaemon._cleanup       *)
(***************************************************************************)
CONSTANTS Codes,      \* session codes
          Uploads,    \* ids of uploads and their videos
          Owner,      \* Owner[u]: the session that uploads u
          Requests,   \* web threads
          Workers,    \* RQ workers
          Cleaner,    \* the thread of the CleanupDaemon
          Nothing,    \* no upload, no session
          SweepErrors \* TRUE: the daemon's rmtree or its commit may fail

ASSUME StoreAssumption ==
  /\ Owner \in [Uploads -> Codes]
  /\ Requests \cap Workers = {}
  /\ Cleaner \notin Requests \cup Workers
  /\ Nothing \notin Uploads \cup Codes
  /\ SweepErrors \in BOOLEAN

VARIABLES session,   \* session[c]: "none", "active", "expired" (last_active < cutoff) or "gone"
          dirs,      \* sessions whose upload folder exists
          items,     \* rows of queue_items
          temps,     \* files in TEMP_FOLDER
          videos,    \* rows of video
          files,     \* video files that were moved into the session folders
          thumbs,    \* thumbnails in the session folders
          used,      \* ids handed out by upload
          copies,    \* workers whose shutil.move has made its copy and not unlinked the source
          litter,    \* sessions whose folder holds what a _store_video that raised left there
          forgotten, \* uploads whose request failed or was killed after the save
          pc, code, cur, mode, todo, batch   \* the processes; code[p]: the session p acts for

left  == <<copies, litter, forgotten>>
store == <<session, dirs, items, temps, videos, files, thumbs, used, left>>
procs == <<pc, code, cur, mode, todo, batch>>
vars  == <<session, dirs, items, temps, videos, files, thumbs, used, copies, litter, forgotten,
           pc, code, cur, mode, todo, batch>>

Procs == Requests \cup Workers \cup {Cleaner}
Modes == {"delete", "delete_all", "session_delete"}

Locations == {"idle", "save", "move", "move_unlink", "store_thumb", "store_commit", "file", "unlink",
              "thumb", "unlink_thumb", "bulk", "rmdir", "reap"}

Exists(c) == session[c] \in {"active", "expired"}
Of(c, S)  == {u \in S : Owner[u] = c}

\* The foreign keys hold, and a file is in a folder.
TypeOK ==
  /\ session \in [Codes -> {"none", "active", "expired", "gone"}]
  /\ dirs \subseteq Codes
  /\ items \subseteq Uploads /\ temps \subseteq Uploads /\ videos \subseteq Uploads
  /\ files \subseteq Uploads /\ thumbs \subseteq Uploads /\ used \subseteq Uploads
  /\ \A u \in items \cup videos : Exists(Owner[u])
  /\ \A u \in files \cup thumbs : Owner[u] \in dirs
  /\ litter \subseteq dirs
  /\ \A w \in copies : w \in Workers /\ pc[w] = "move_unlink" /\ code[w] \in dirs
  /\ forgotten \subseteq Uploads
  /\ pc \in [Procs -> Locations]
  /\ code \in [Procs -> Codes \cup {Nothing}]
  /\ cur \in [Procs -> Uploads \cup {Nothing}]
  /\ mode \in [Procs -> Modes]
  /\ todo \in [Procs -> SUBSET (Uploads \cup Codes)]
  /\ batch \in [Procs -> SUBSET (Uploads \cup Codes)]

Init ==
  /\ session = [c \in Codes |-> "none"]
  /\ dirs = {} /\ items = {} /\ temps = {} /\ videos = {} /\ files = {} /\ thumbs = {} /\ used = {}
  /\ copies = {} /\ litter = {} /\ forgotten = {}
  /\ pc = [p \in Procs |-> "idle"]
  /\ code = [p \in Procs |-> Nothing]
  /\ cur = [p \in Procs |-> Nothing]
  /\ mode = [p \in Procs |-> "delete"]
  /\ todo = [p \in Procs |-> {}]
  /\ batch = [p \in Procs |-> {}]

At(p, l) == pc[p] = l

Goto(p, l) == pc' = [pc EXCEPT ![p] = l] /\ UNCHANGED <<code, cur, mode, todo, batch>>

\* The request, the job or the sweep is over.
Finish(p) ==
  /\ pc' = [pc EXCEPT ![p] = "idle"]
  /\ code' = [code EXCEPT ![p] = Nothing]
  /\ cur' = [cur EXCEPT ![p] = Nothing]
  /\ mode' = [mode EXCEPT ![p] = "delete"]
  /\ todo' = [todo EXCEPT ![p] = {}]
  /\ batch' = [batch EXCEPT ![p] = {}]

\* An idle process starts on upload u for session c, with the rows S of its query.
Start(p, l, c, u, m, S) ==
  /\ At(p, "idle")
  /\ pc' = [pc EXCEPT ![p] = l]
  /\ code' = [code EXCEPT ![p] = c]
  /\ cur' = [cur EXCEPT ![p] = u]
  /\ mode' = [mode EXCEPT ![p] = m]
  /\ todo' = [todo EXCEPT ![p] = S]
  /\ batch' = [batch EXCEPT ![p] = S]

\* _session_required: the session must exist, and its last_active becomes now.
Touch(c) == Exists(c) /\ session' = [session EXCEPT ![c] = "active"]

-----------------------------------------------------------------------------
\* index, session_view: a new code for a client without a session.
CreateSession(c) ==
  /\ session[c] = "none"
  /\ session' = [session EXCEPT ![c] = "active"]
  /\ UNCHANGED <<dirs, items, temps, videos, files, thumbs, used, left, procs>>

\* SESSION_DAYS pass without a request.
Expire(c) ==
  /\ session[c] = "active"
  /\ session' = [session EXCEPT ![c] = "expired"]
  /\ UNCHANGED <<dirs, items, temps, videos, files, thumbs, used, left, procs>>

\* upload: the file is saved first, ...
Upload(r, u) ==
  /\ u \notin used
  /\ Touch(Owner[u])
  /\ Start(r, "save", Owner[u], u, "delete", {})
  /\ used' = used \cup {u}
  /\ temps' = temps \cup {u}
  /\ UNCHANGED <<dirs, items, videos, files, thumbs, left>>

\* ... is refused when its MIME type is not one of a video ...
RejectUpload(r) ==
  /\ At(r, "save")
  /\ temps' = temps \ {cur[r]}
  /\ Finish(r)
  /\ UNCHANGED <<session, dirs, items, videos, files, thumbs, used, left>>

\* Mutant: a table without its foreign key.
AddItem_noKey(r) ==
  /\ At(r, "save")
  /\ items' = items \cup {cur[r]}
  /\ Finish(r)
  /\ UNCHANGED <<session, dirs, temps, videos, files, thumbs, used, left>>

\* ... and gets its row: without its session the insert raises and the file stays.
AddItem(r) ==
  /\ At(r, "save")
  /\ items' = IF Exists(Owner[cur[r]]) THEN items \cup {cur[r]} ELSE items
  /\ Finish(r)
  /\ UNCHANGED <<session, dirs, temps, videos, files, thumbs, used, left>>

\* Mutant: remove leaves the temp file.
DropItem_keepsFile(u) ==
  /\ u \in items /\ Touch(Owner[u])
  /\ items' = items \ {u}
  /\ UNCHANGED <<dirs, temps, videos, files, thumbs, used, left, procs>>

\* A client deletes an item of its queue (VideoQueue has the steps).
DropItem(u) ==
  /\ u \in items /\ Touch(Owner[u])
  /\ items' = items \ {u}
  /\ temps' = temps \ {u}
  /\ UNCHANGED <<dirs, videos, files, thumbs, used, left, procs>>

\* A failed or cancelled item loses its file and keeps its row.
DiscardTemp(u) ==
  /\ u \in items /\ u \in temps
  /\ temps' = temps \ {u}
  /\ UNCHANGED <<session, dirs, items, videos, files, thumbs, used, left, procs>>

\* A worker has read the row of an item and validated its file; from the last
\* is_cancelled on it does not look at the row again.
PipelineReaches(w, u) ==
  /\ u \in items /\ u \in temps
  /\ Start(w, "move", Owner[u], u, "delete", {})
  /\ UNCHANGED store

\* What worker w has put into the folder of its session.
HasPut(w) == w \in copies \/ (pc[w] \in {"store_thumb", "store_commit"} /\ cur[w] \in files)

\* _store_video raises, or its worker is killed: what it put there stays, under a name
\* that nobody knows.
GiveUp(w) ==
  /\ litter' = IF HasPut(w) THEN litter \cup {code[w]} ELSE litter
  /\ files' = IF pc[w] \in {"store_thumb", "store_commit"} THEN files \ {cur[w]} ELSE files
  /\ copies' = copies \ {w}
  /\ Finish(w)

\* _store_video: the folder is made when it is missing.  shutil.move goes from one
\* volume to another: it copies the file, ...
StoreCopy(w) ==
  /\ At(w, "move")
  /\ dirs' = dirs \cup {code[w]}
  /\ IF cur[w] \in temps
     THEN copies' = copies \cup {w} /\ Goto(w, "move_unlink")
     ELSE Finish(w) /\ UNCHANGED copies
  /\ UNCHANGED <<session, items, temps, videos, files, thumbs, used, litter, forgotten>>

\* ... and unlinks the source, which raises when a deletion was faster.  A copy that went
\* with its folder is missed by the hash.
StoreUnlink(w) ==
  /\ At(w, "move_unlink")
  /\ temps' = temps \ {cur[w]}
  /\ IF cur[w] \in temps /\ w \in copies
     THEN /\ files' = files \cup {cur[w]}
          /\ copies' = copies \ {w}
          /\ Goto(w, "store_thumb") /\ UNCHANGED litter
     ELSE GiveUp(w)
  /\ UNCHANGED <<session, dirs, items, videos, thumbs, used, forgotten>>

\* The hash needs the file; the thumbnail may succeed or be skipped.
StoreThumb(w) ==
  /\ At(w, "store_thumb")
  /\ IF cur[w] \in files
     THEN /\ thumbs' \in {thumbs, thumbs \cup {cur[w]}}
          /\ Goto(w, "store_commit") /\ UNCHANGED <<files, copies, litter>>
     ELSE GiveUp(w) /\ UNCHANGED thumbs
  /\ UNCHANGED <<session, dirs, items, temps, videos, used, forgotten>>

\* getsize needs the file and the row its session.
StoreCommit(w) ==
  /\ At(w, "store_commit")
  /\ IF cur[w] \in files /\ Exists(Owner[cur[w]])
     THEN videos' = videos \cup {cur[w]} /\ Finish(w) /\ UNCHANGED <<files, copies, litter>>
     ELSE GiveUp(w) /\ UNCHANGED videos
  /\ UNCHANGED <<session, dirs, items, temps, thumbs, used, forgotten>>

\* Any other exception and a kill: a copy that broke off may leave a part.
StoreRaises(w) ==
  /\ \/ pc[w] \in {"move_unlink", "store_thumb", "store_commit"} /\ GiveUp(w) /\ UNCHANGED dirs
     \/ /\ At(w, "move") /\ Finish(w)
        /\ \/ UNCHANGED <<dirs, litter>>
           \/ dirs' = dirs \cup {code[w]} /\ litter' \in {litter, litter \cup {code[w]}}
        /\ UNCHANGED <<files, copies>>
  /\ UNCHANGED <<session, items, temps, videos, thumbs, used, forgotten>>

-----------------------------------------------------------------------------
\* Deleting one video, all of them, or the session: all three first remove the
\* files of the rows their query returned, one after the other.

DeleteVideo(r, v) ==
  /\ v \in videos
  /\ Touch(Owner[v])
  /\ Start(r, "file", Owner[v], Nothing, "delete", {v})
  /\ UNCHANGED <<dirs, items, temps, videos, files, thumbs, used, left>>

DeleteAllVideos(r, c) ==
  /\ Touch(c)
  /\ Start(r, "file", c, Nothing, "delete_all", Of(c, videos))
  /\ UNCHANGED <<dirs, items, temps, videos, files, thumbs, used, left>>

SessionDelete(r, c) ==
  /\ Touch(c)
  /\ Start(r, "file", c, Nothing, "session_delete", Of(c, videos))
  /\ UNCHANGED <<dirs, items, temps, videos, files, thumbs, used, left>>

\* Only delete_all_videos goes on to the thumbnail.
AfterFile(r) == IF mode[r] = "delete_all" THEN "thumb" ELSE "file"

LookFile(r, v) ==
  /\ At(r, "file") /\ v \in todo[r]
  /\ pc' = [pc EXCEPT ![r] = IF v \in files THEN "unlink" ELSE AfterFile(r)]
  /\ cur' = [cur EXCEPT ![r] = v]
  /\ todo' = [todo EXCEPT ![r] = @ \ {v}]
  /\ UNCHANGED <<store, code, mode, batch>>

\* Mutant: the row goes, the file stays.
UnlinkFile_keeps(r) ==
  /\ At(r, "unlink")
  /\ Goto(r, AfterFile(r))
  /\ UNCHANGED store

\* os.remove of a file another process removed raises: nothing is committed.
UnlinkFile(r) ==
  /\ At(r, "unlink")
  /\ files' = files \ {cur[r]}
  /\ IF cur[r] \in files THEN Goto(r, AfterFile(r)) ELSE Finish(r)
  /\ UNCHANGED <<session, dirs, items, temps, videos, thumbs, used, left>>

LookThumb(r) ==
  /\ At(r, "thumb")
  /\ Goto(r, IF cur[r] \in thumbs THEN "unlink_thumb" ELSE "file")
  /\ UNCHANGED store

UnlinkThumb(r) ==
  /\ At(r, "unlink_thumb")
  /\ thumbs' = thumbs \ {cur[r]}
  /\ IF cur[r] \in thumbs THEN Goto(r, "file") ELSE Finish(r)
  /\ UNCHANGED <<session, dirs, items, temps, videos, files, used, left>>

CommitDeletes(r) ==
  /\ At(r, "file") /\ todo[r] = {} /\ mode[r] # "session_delete"
  /\ videos' = videos \ batch[r]
  /\ Finish(r)
  /\ UNCHANGED <<session, dirs, items, temps, files, thumbs, used, left>>

\* The bulk delete of queue_items, inside the transaction; todo now holds the rows
\* it found.  Their temp files stay.
BulkDelete(r) ==
  /\ At(r, "file") /\ todo[r] = {} /\ mode[r] = "session_delete"
  /\ pc' = [pc EXCEPT ![r] = "bulk"]
  /\ todo' = [todo EXCEPT ![r] = Of(code[r], items)]
  /\ UNCHANGED <<store, code, cur, mode, batch>>

\* A row that refers to session c and is not deleted with it.
Referenced(c, Rows, Vids) == Of(c, items) \ Rows # {} \/ Of(c, videos) \ Vids # {}

\* The foreign keys refuse the commit when a row came in since the queries; the
\* transaction is rolled back, the files are not.
CommitSession(r) ==
  /\ At(r, "bulk")
  /\ IF Referenced(code[r], todo[r], batch[r])
     THEN Finish(r) /\ UNCHANGED <<session, items, videos>>
     ELSE /\ session' = [session EXCEPT ![code[r]] = "gone"]
          /\ items' = items \ todo[r]
          /\ videos' = videos \ batch[r]
          /\ Goto(r, "rmdir")
  /\ UNCHANGED <<dirs, temps, files, thumbs, used, left>>

\* What the folder of session c holds.
EmptyDir(c) ==
  Of(c, files \cup thumbs) = {} /\ c \notin litter /\ \A w \in copies : code[w] # c

\* os.rmdir refuses a folder that still holds something, and that is ignored.
RemoveDir(r) ==
  /\ At(r, "rmdir")
  /\ dirs' = IF EmptyDir(code[r]) THEN dirs \ {code[r]} ELSE dirs
  /\ Finish(r)
  /\ UNCHANGED <<session, items, temps, videos, files, thumbs, used, left>>

\* A request that raises for any other reason, or whose process is killed, commits
\* nothing; an upload that got as far as its file leaves it.
RequestRaises(r) ==
  /\ pc[r] # "idle"
  /\ Finish(r)
  /\ forgotten' = IF At(r, "save") THEN forgotten \cup {cur[r]} ELSE forgotten
  /\ UNCHANGED <<session, dirs, items, temps, videos, files, thumbs, used, copies, litter>>

-----------------------------------------------------------------------------
\* CleanupDaemon: the sessions that were expired when it asked ...
CleanupQuery ==
  /\ \E c \in Codes : session[c] = "expired"
  /\ Start(Cleaner, "reap", Nothing, Nothing, "delete", {c \in Codes : session[c] = "expired"})
  /\ UNCHANGED store

\* ... lose their folders one by one ...
CleanupTree(c) ==
  /\ At(Cleaner, "reap") /\ c \in todo[Cleaner]
  /\ dirs' = dirs \ {c}
  /\ files' = files \ Of(c, files)
  /\ thumbs' = thumbs \ Of(c, thumbs)
  /\ copies' = {w \in copies : code[w] # c}
  /\ litter' = litter \ {c}
  /\ todo' = [todo EXCEPT ![Cleaner] = @ \ {c}]
  /\ UNCHANGED <<session, items, temps, videos, used, forgotten, pc, code, cur, mode, batch>>

\* ... and their rows in one transaction, which one row that refers to any of them
\* rolls back; the loop swallows the error.
CleanupCommit ==
  /\ At(Cleaner, "reap") /\ todo[Cleaner] = {}
  /\ session' = IF \E c \in batch[Cleaner] : Referenced(c, {}, {})
                THEN session
                ELSE [c \in Codes |-> IF c \in batch[Cleaner] THEN "gone" ELSE session[c]]
  /\ Finish(Cleaner)
  /\ UNCHANGED <<dirs, items, temps, videos, files, thumbs, used, left>>

\* An rmtree that fails, as when a worker puts a file into the folder it empties, leaves
\* the rest and the rows; so does a commit that fails.
SweepRaises ==
  /\ SweepErrors /\ At(Cleaner, "reap")
  /\ \/ UNCHANGED <<files, thumbs>>
     \/ \E c \in todo[Cleaner] :
          /\ \E F \in SUBSET Of(c, files) : files' = files \ F
          /\ \E T \in SUBSET Of(c, thumbs) : thumbs' = thumbs \ T
  /\ Finish(Cleaner)
  /\ UNCHANGED <<session, dirs, items, temps, videos, used, left>>

-----------------------------------------------------------------------------
RequestStep(r) ==
  \/ RejectUpload(r) \/ AddItem(r)
  \/ \E v \in Uploads : LookFile(r, v)
  \/ UnlinkFile(r) \/ LookThumb(r) \/ UnlinkThumb(r) \/ CommitDeletes(r)
  \/ BulkDelete(r) \/ CommitSession(r) \/ RemoveDir(r)

WorkerStep(w) == StoreCopy(w) \/ StoreUnlink(w) \/ StoreThumb(w) \/ StoreCommit(w)

CleanerStep == CleanupQuery \/ CleanupCommit \/ \E c \in Codes : CleanupTree(c)

User ==
  \/ \E c \in Codes : CreateSession(c) \/ Expire(c)
  \/ \E u \in Uploads : DropItem(u)
  \/ \E r \in Requests :
       \/ \E u \in Uploads : Upload(r, u) \/ DeleteVideo(r, u)
       \/ \E c \in Codes : DeleteAllVideos(r, c) \/ SessionDelete(r, c)

Next ==
  \/ \E r \in Requests : RequestStep(r) \/ RequestRaises(r)
  \/ \E w \in Workers :
       WorkerStep(w) \/ StoreRaises(w) \/ \E u \in Uploads : PipelineReaches(w, u)
  \/ \E u \in Uploads : DiscardTemp(u)
  \/ CleanerStep \/ SweepRaises
  \/ User

Spec == Init /\ [][Next]_vars

\* The daemon's loop comes back every hour; whoever started a step goes on.
Fairness ==
  /\ \A r \in Requests : WF_vars(RequestStep(r))
  /\ \A w \in Workers : WF_vars(WorkerStep(w))
  /\ WF_vars(CleanerStep)

FairSpec == Spec /\ Fairness

-----------------------------------------------------------------------------
\* Properties.

\* Every video file that was moved into a session's folder can be found again: it has
\* its row, or the worker that moved it is about to write the row.  No order of uploads,
\* deletions, refused commits, broken-off requests and sweeps loses one.  Not counted is
\* what a _store_video that raised leaves: its copy when delete_all_queue was faster than
\* the unlink, or the moved file when the row was refused (litter).
NoOrphanFile ==
  \A u \in files :
    \/ u \in videos
    \/ \E w \in Workers : cur[w] = u /\ pc[w] \in {"store_thumb", "store_commit"}

\* Likewise every temp file has its queue row or an upload that is about to add it,
\* unless its session is gone, or that upload failed for a reason of its own.
NoOrphanTemp ==
  \A u \in temps \ forgotten :
    \/ u \in items
    \/ session[Owner[u]] = "gone"
    \/ \E r \in Requests : cur[r] = u /\ pc[r] = "save"

\* README.md:33 promises that expired sessions are cleaned up: an expired session
\* does not stay one for ever.
ExpiredSessionsReaped == \A c \in Codes : session[c] = "expired" ~> session[c] # "expired"
=============================================================================
