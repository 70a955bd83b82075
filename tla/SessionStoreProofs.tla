------------------------- MODULE SessionStoreProofs -------------------------
(***************************************************************************)
(* The foreign keys, NoOrphanFile and NoOrphanTemp of SessionStore, for any   *)
(* sessions, uploads, web threads and workers.                              *)
(***************************************************************************)
EXTENDS SessionStore, TLAPS

\* The types of TypeOK: of the data and of the processes.
DataTypeOK ==
  /\ session \in [Codes -> {"none", "active", "expired", "gone"}]
  /\ dirs \subseteq Codes
  /\ items \subseteq Uploads /\ temps \subseteq Uploads /\ videos \subseteq Uploads
  /\ files \subseteq Uploads /\ thumbs \subseteq Uploads /\ used \subseteq Uploads
  /\ forgotten \subseteq Uploads

ProcTypeOK ==
  /\ pc \in [Procs -> Locations]
  /\ code \in [Procs -> Codes \cup {Nothing}]
  /\ cur \in [Procs -> Uploads \cup {Nothing}]
  /\ mode \in [Procs -> Modes]
  /\ todo \in [Procs -> SUBSET (Uploads \cup Codes)]
  /\ batch \in [Procs -> SUBSET (Uploads \cup Codes)]

\* A row has its session, and a file its folder.
ForeignKeys ==
  /\ \A u \in items \cup videos : Exists(Owner[u])
  /\ \A u \in files \cup thumbs : Owner[u] \in dirs
  /\ litter \subseteq dirs
  /\ \A w \in copies : w \in Workers /\ pc[w] = "move_unlink" /\ code[w] \in dirs

\* Where a process has an upload, and where it acts for the owner of the upload.
HasUpload == {"save", "move", "move_unlink", "store_thumb", "store_commit", "unlink", "thumb", "unlink_thumb"}
ForOwner  == {"save", "move", "move_unlink", "store_thumb", "store_commit"}
Storing   == {"store_thumb", "store_commit"}
Deleting  == {"file", "unlink", "thumb", "unlink_thumb", "bulk", "rmdir"}

ActsFor ==
  \A p \in Procs :
    /\ pc[p] \in HasUpload => cur[p] \in Uploads
    /\ pc[p] \in ForOwner => code[p] = Owner[cur[p]]
    /\ pc[p] \in Deleting => code[p] \in Codes
    /\ pc[p] = "bulk" => \A u \in todo[p] : u \in Uploads /\ Owner[u] = code[p]

\* An id is handed out once, for a session that exists then, and its bytes come into
\* the session's folder by leaving the temp folder.
OneWay ==
  /\ temps \subseteq used
  /\ \A u \in used : session[Owner[u]] # "none"
  /\ \A u \in videos \cup files : u \in used \ temps
  /\ \A p \in Procs : pc[p] \in Storing => cur[p] \in used \ temps
  /\ \A r \in Requests : \A v \in batch[r] : v \in used \ temps

\* A file is gone once a deletion has passed it.
Passed ==
  \A r \in Requests : \A v \in batch[r] :
    /\ pc[r] \in {"file", "thumb", "unlink_thumb"} => v \in todo[r] \/ v \notin files
    /\ pc[r] = "unlink" => v \in todo[r] \/ v \notin files \/ v = cur[r]
    /\ pc[r] = "bulk" => v \notin files

StoreInv == ActsFor /\ OneWay /\ Passed /\ NoOrphanFile /\ NoOrphanTemp

IInv == DataTypeOK /\ ProcTypeOK /\ ForeignKeys /\ StoreInv

\* The type invariant, in its parts.
LEMMA TypeParts == TypeOK <=> DataTypeOK /\ ProcTypeOK /\ ForeignKeys
  BY DEF TypeOK, DataTypeOK, ProcTypeOK, ForeignKeys

\* Nothing exists at first.
LEMMA InitInv == Init => IInv
  BY DEF Init, IInv, DataTypeOK, ProcTypeOK, ForeignKeys, StoreInv, ActsFor, OneWay, Passed,
         NoOrphanFile, NoOrphanTemp, Procs, Modes, Locations, HasUpload, ForOwner, Storing, Deleting

-----------------------------------------------------------------------------
\* A refused upload takes its file with it.
LEMMA RejectUploadKept ==
  ASSUME IInv, NEW r \in Requests, RejectUpload(r)
  PROVE  IInv'
  <1> USE StoreAssumption DEF IInv, StoreInv, RejectUpload
  <1>1. DataTypeOK' /\ ProcTypeOK' /\ ForeignKeys'
    BY DEF left, Locations, DataTypeOK, ProcTypeOK, ForeignKeys, Procs, Modes, Finish, Exists
  <1>2. ActsFor' /\ OneWay' /\ Passed'
    BY DEF left, ProcTypeOK, ActsFor, OneWay, Passed, HasUpload, ForOwner, Storing, Deleting, Finish, At
  <1>3. NoOrphanFile' /\ NoOrphanTemp'
    BY DEF left, NoOrphanFile, NoOrphanTemp, Finish
  <1> QED
    BY <1>1, <1>2, <1>3

\* The row is added while the session exists; otherwise the file stays with a session that has gone.
LEMMA AddItemKept ==
  ASSUME IInv, NEW r \in Requests, AddItem(r)
  PROVE  IInv'
  <1> USE StoreAssumption DEF IInv, StoreInv, AddItem
  <1>1. DataTypeOK' /\ ProcTypeOK' /\ ForeignKeys'
    BY DEF left, Locations, DataTypeOK, ProcTypeOK, ForeignKeys, ActsFor, Procs, HasUpload, Modes, Finish, At,
           Exists
  <1>2. ActsFor' /\ OneWay' /\ Passed'
    BY DEF left, ProcTypeOK, ActsFor, OneWay, Passed, HasUpload, ForOwner, Storing, Deleting, Finish, At
  <1>3. NoOrphanFile' /\ NoOrphanTemp'
    BY DEF left, DataTypeOK, OneWay, NoOrphanFile, NoOrphanTemp, Finish, Exists
  <1> QED
    BY <1>1, <1>2, <1>3

\* Looking for a file moves it from the list to the hand, or finds it gone.
LEMMA LookFileKept ==
  ASSUME IInv, NEW r \in Requests, NEW v \in Uploads, LookFile(r, v)
  PROVE  IInv'
  <1> USE StoreAssumption DEF IInv, StoreInv, LookFile
  <1>1. DataTypeOK' /\ ProcTypeOK' /\ ForeignKeys'
    BY DEF left, Locations, DataTypeOK, ProcTypeOK, ForeignKeys, Procs, AfterFile, Exists, store
  <1>2. ActsFor' /\ OneWay' /\ Passed'
    BY DEF left, ProcTypeOK, ActsFor, OneWay, Passed, ForOwner, Storing, Deleting, AfterFile, At, store
  <1>3. NoOrphanFile' /\ NoOrphanTemp'
    BY DEF left, NoOrphanFile, NoOrphanTemp, At, store
  <1> QED
    BY <1>1, <1>2, <1>3

\* A file is removed, or was before.
LEMMA UnlinkFileKept ==
  ASSUME IInv, NEW r \in Requests, UnlinkFile(r)
  PROVE  IInv'
  <1> USE StoreAssumption DEF IInv, StoreInv, UnlinkFile
  <1>1. DataTypeOK' /\ ProcTypeOK' /\ ForeignKeys'
    BY DEF left, Locations, DataTypeOK, ProcTypeOK, ForeignKeys, Modes, AfterFile, Goto, Finish, Exists,
           Procs, At
  <1>2. ActsFor' /\ OneWay' /\ Passed'
    BY DEF left, ProcTypeOK, ActsFor, OneWay, Passed, Procs, HasUpload, ForOwner, Storing, Deleting,
           AfterFile, Goto, Finish, At
  <1>3. NoOrphanFile' /\ NoOrphanTemp'
    BY DEF left, ProcTypeOK, NoOrphanFile, NoOrphanTemp, Procs, Goto, Finish, At
  <1> QED
    BY <1>1, <1>2, <1>3

\* Looking for a thumbnail changes nothing else.
LEMMA LookThumbKept ==
  ASSUME IInv, NEW r \in Requests, LookThumb(r)
  PROVE  IInv'
  <1> USE StoreAssumption DEF IInv, StoreInv, LookThumb
  <1>1. DataTypeOK' /\ ProcTypeOK' /\ ForeignKeys'
    BY DEF left, Locations, DataTypeOK, ProcTypeOK, ForeignKeys, Procs, Goto, Exists, store
  <1>2. ActsFor' /\ OneWay' /\ Passed'
    BY DEF left, ActsFor, OneWay, Passed, HasUpload, ForOwner, Storing, Deleting, Goto, At, store
  <1>3. NoOrphanFile' /\ NoOrphanTemp'
    BY DEF left, NoOrphanFile, NoOrphanTemp, Goto, At, store
  <1> QED
    BY <1>1, <1>2, <1>3

\* No thumbnail is needed by anybody.
LEMMA UnlinkThumbKept ==
  ASSUME IInv, NEW r \in Requests, UnlinkThumb(r)
  PROVE  IInv'
  <1> USE StoreAssumption DEF IInv, StoreInv, UnlinkThumb
  <1>1. DataTypeOK' /\ ProcTypeOK' /\ ForeignKeys'
    BY DEF left, Locations, DataTypeOK, ProcTypeOK, ForeignKeys, Procs, At, Modes, Goto, Finish, Exists
  <1>2. ActsFor' /\ OneWay' /\ Passed'
    BY DEF left, ProcTypeOK, ActsFor, OneWay, Passed, Procs, HasUpload, ForOwner, Storing, Deleting,
           Goto, Finish, At
  <1>3. NoOrphanFile' /\ NoOrphanTemp'
    BY DEF left, ProcTypeOK, NoOrphanFile, NoOrphanTemp, Procs, Goto, Finish, At
  <1> QED
    BY <1>1, <1>2, <1>3

\* The rows go whose files have been passed.
LEMMA CommitDeletesKept ==
  ASSUME IInv, NEW r \in Requests, CommitDeletes(r)
  PROVE  IInv'
  <1> USE StoreAssumption DEF IInv, StoreInv, CommitDeletes
  <1>1. DataTypeOK' /\ ProcTypeOK' /\ ForeignKeys'
    BY DEF left, Locations, DataTypeOK, ProcTypeOK, ForeignKeys, Procs, Modes, Finish, Exists
  <1>2. ActsFor' /\ OneWay' /\ Passed'
    BY DEF left, ProcTypeOK, ActsFor, OneWay, Passed, HasUpload, ForOwner, Storing, Deleting, Finish, At
  <1>3. NoOrphanFile' /\ NoOrphanTemp'
    BY DEF left, Passed, NoOrphanFile, NoOrphanTemp, Finish, At
  <1> QED
    BY <1>1, <1>2, <1>3

\* The query of the bulk delete finds rows of the session only.
LEMMA BulkDeleteKept ==
  ASSUME IInv, NEW r \in Requests, BulkDelete(r)
  PROVE  IInv'
  <1> USE StoreAssumption DEF IInv, StoreInv, BulkDelete
  <1>1. DataTypeOK' /\ ProcTypeOK' /\ ForeignKeys'
    BY DEF left, Locations, DataTypeOK, ProcTypeOK, ForeignKeys, Procs, Exists, Of, store
  <1>2. ActsFor' /\ OneWay' /\ Passed'
    BY DEF left, DataTypeOK, ActsFor, OneWay, Passed, HasUpload, ForOwner, Storing, Deleting, At, Of,
           store
  <1>3. NoOrphanFile' /\ NoOrphanTemp'
    BY DEF left, NoOrphanFile, NoOrphanTemp, At, store
  <1> QED
    BY <1>1, <1>2, <1>3

\* A session goes with all its rows, or not at all.
LEMMA CommitSessionKept ==
  ASSUME IInv, NEW r \in Requests, CommitSession(r)
  PROVE  IInv'
  <1> USE StoreAssumption DEF IInv, StoreInv, CommitSession
  <1>1. DataTypeOK' /\ ProcTypeOK' /\ ForeignKeys'
    BY DEF left, Locations, DataTypeOK, ProcTypeOK, ForeignKeys, Modes, Referenced, Goto, Finish,
           Exists, Of, Procs, At
  <1>2. ActsFor' /\ OneWay' /\ Passed'
    BY DEF left, DataTypeOK, ProcTypeOK, ActsFor, OneWay, Passed, Procs, HasUpload, ForOwner, Storing,
           Deleting, Goto, Finish, At
  <1>3. NoOrphanFile' /\ NoOrphanTemp'
    BY DEF left, DataTypeOK, ProcTypeOK, ActsFor, Passed, NoOrphanFile, NoOrphanTemp, Procs, Goto,
           Finish, At
  <1> QED
    BY <1>1, <1>2, <1>3

\* Only an empty folder is removed.
LEMMA RemoveDirKept ==
  ASSUME IInv, NEW r \in Requests, RemoveDir(r)
  PROVE  IInv'
  <1> USE StoreAssumption DEF IInv, StoreInv, RemoveDir
  <1>1. DataTypeOK' /\ ProcTypeOK' /\ ForeignKeys'
    BY DEF left, Locations, DataTypeOK, ProcTypeOK, ForeignKeys, Procs, Modes, Finish,
           Exists, Of, EmptyDir, At
  <1>2. ActsFor' /\ OneWay' /\ Passed'
    BY DEF left, ProcTypeOK, ActsFor, OneWay, Passed, HasUpload, ForOwner, Storing, Deleting, Finish, At
  <1>3. NoOrphanFile' /\ NoOrphanTemp'
    BY DEF left, NoOrphanFile, NoOrphanTemp, Finish, At
  <1> QED
    BY <1>1, <1>2, <1>3

\* An upload gets a fresh id and a session that exists.
LEMMA UploadKept ==
  ASSUME IInv, NEW r \in Requests, NEW v \in Uploads, Upload(r, v)
  PROVE  IInv'
  <1> USE StoreAssumption DEF IInv, StoreInv, Upload
  <1>1. DataTypeOK' /\ ProcTypeOK' /\ ForeignKeys'
    BY DEF left, Locations, DataTypeOK, ProcTypeOK, ForeignKeys, Procs, Modes, Start, Touch, Exists
  <1>2. ActsFor' /\ OneWay' /\ Passed'
    BY DEF left, ProcTypeOK, ActsFor, OneWay, Passed, Storing, Start, Touch, Exists
  <1>3. /\ \A q \in Procs : pc[q] # "idle" => pc'[q] = pc[q] /\ cur'[q] = cur[q]
        /\ pc'[r] = "save" /\ cur'[r] = v
    BY DEF left, ProcTypeOK, Procs, Start, At
  <1>4. NoOrphanFile' /\ NoOrphanTemp'
    BY <1>3 DEF left, NoOrphanFile, NoOrphanTemp, Touch, Exists, Procs
  <1> QED
    BY <1>1, <1>2, <1>4

\* A deletion starts on a row that is there, ...
LEMMA DeleteVideoKept ==
  ASSUME IInv, NEW r \in Requests, NEW v \in Uploads, DeleteVideo(r, v)
  PROVE  IInv'
  <1> USE StoreAssumption DEF IInv, StoreInv, DeleteVideo
  <1>1. DataTypeOK' /\ ProcTypeOK' /\ ForeignKeys'
    BY DEF left, Locations, DataTypeOK, ProcTypeOK, ForeignKeys, Procs, Modes, Start, Touch, Exists
  <1>2. ActsFor' /\ OneWay' /\ Passed'
    BY DEF left, ProcTypeOK, ActsFor, OneWay, Passed, HasUpload, ForOwner, Storing, Start, Touch
  <1>3. \A q \in Procs : pc[q] # "idle" => pc'[q] = pc[q] /\ cur'[q] = cur[q]
    BY DEF left, ProcTypeOK, Procs, Start, At
  <1>4. NoOrphanFile' /\ NoOrphanTemp'
    BY <1>3 DEF left, NoOrphanFile, NoOrphanTemp, Touch, Exists, Procs
  <1> QED
    BY <1>1, <1>2, <1>4

\* ... on all of a session, ...
LEMMA DeleteAllVideosKept ==
  ASSUME IInv, NEW r \in Requests, NEW c \in Codes, DeleteAllVideos(r, c)
  PROVE  IInv'
  <1> USE StoreAssumption DEF IInv, StoreInv, DeleteAllVideos
  <1>1. DataTypeOK' /\ ProcTypeOK' /\ ForeignKeys'
    BY DEF left, Locations, DataTypeOK, ProcTypeOK, ForeignKeys, Procs, Modes, Start, Touch, Exists, Of
  <1>2. ActsFor' /\ OneWay' /\ Passed'
    BY DEF left, ProcTypeOK, ActsFor, OneWay, Passed, HasUpload, ForOwner, Storing, Start, Touch, Of
  <1>3. \A q \in Procs : pc[q] # "idle" => pc'[q] = pc[q] /\ cur'[q] = cur[q]
    BY DEF left, ProcTypeOK, Procs, Start, At
  <1>4. NoOrphanFile' /\ NoOrphanTemp'
    BY <1>3 DEF left, NoOrphanFile, NoOrphanTemp, Touch, Exists, Procs
  <1> QED
    BY <1>1, <1>2, <1>4

\* ... or on the session.
LEMMA SessionDeleteKept ==
  ASSUME IInv, NEW r \in Requests, NEW c \in Codes, SessionDelete(r, c)
  PROVE  IInv'
  <1> USE StoreAssumption DEF IInv, StoreInv, SessionDelete
  <1>1. DataTypeOK' /\ ProcTypeOK' /\ ForeignKeys'
    BY DEF left, Locations, DataTypeOK, ProcTypeOK, ForeignKeys, Procs, Modes, Start, Touch, Exists, Of
  <1>2. ActsFor' /\ OneWay' /\ Passed'
    BY DEF left, ProcTypeOK, ActsFor, OneWay, Passed, HasUpload, ForOwner, Storing, Start, Touch, Of
  <1>3. \A q \in Procs : pc[q] # "idle" => pc'[q] = pc[q] /\ cur'[q] = cur[q]
    BY DEF left, ProcTypeOK, Procs, Start, At
  <1>4. NoOrphanFile' /\ NoOrphanTemp'
    BY <1>3 DEF left, NoOrphanFile, NoOrphanTemp, Touch, Exists, Procs
  <1> QED
    BY <1>1, <1>2, <1>4

\* A worker that gives up takes no row with it and leaves no file it could have found
\* again: the folder holds litter instead.
LEMMA GiveUpKept ==
  ASSUME IInv, NEW w \in Workers, GiveUp(w),
         pc[w] \in {"move_unlink", "store_thumb", "store_commit"}, temps' \subseteq temps,
         \A u \in temps : u \notin temps' => u = cur[w],
         UNCHANGED <<session, dirs, items, videos, thumbs, used, forgotten>>
  PROVE  IInv'
  <1> USE StoreAssumption DEF IInv, StoreInv, GiveUp
  <1>1. DataTypeOK' /\ ProcTypeOK'
    BY DEF DataTypeOK, ProcTypeOK, Procs, Modes, Finish, Locations
  <1>2. ForeignKeys'
    <2>1. HasPut(w) => code[w] \in dirs
      BY DEF HasPut, ForeignKeys, ActsFor, ForOwner, Procs
    <2>2. \A q \in Procs : q # w => pc'[q] = pc[q] /\ code'[q] = code[q]
      BY DEF ProcTypeOK, Finish
    <2> QED
      BY <2>1, <2>2 DEF ForeignKeys, Exists, Procs
  <1>3. ActsFor' /\ OneWay' /\ Passed'
    BY DEF ProcTypeOK, ActsFor, OneWay, Passed, Procs, HasUpload, ForOwner, Storing, Deleting, Finish
  <1>4. /\ \A q \in Procs : q # w => pc'[q] = pc[q] /\ cur'[q] = cur[q]
        /\ pc[w] \in Storing => files' = files \ {cur[w]}
        /\ pc[w] \notin Storing => files' = files
    BY DEF ProcTypeOK, Finish, Storing
  <1>5. NoOrphanFile'
    BY <1>4 DEF NoOrphanFile, Storing, Procs
  <1>6. NoOrphanTemp'
    BY <1>4 DEF NoOrphanTemp, Procs
  <1> QED
    BY <1>1, <1>2, <1>3, <1>5, <1>6

\* A copy is made in a folder.
LEMMA StoreCopyKept ==
  ASSUME IInv, NEW w \in Workers, StoreCopy(w)
  PROVE  IInv'
  <1> USE StoreAssumption DEF IInv, StoreInv, StoreCopy
  <1>1. DataTypeOK' /\ ProcTypeOK' /\ ForeignKeys'
    BY DEF DataTypeOK, ProcTypeOK, ForeignKeys, ActsFor, Procs, HasUpload, ForOwner, Modes, Goto,
           Finish, At, Exists, Locations
  <1>2. ActsFor' /\ OneWay' /\ Passed'
    BY DEF ProcTypeOK, ActsFor, OneWay, Passed, Procs, HasUpload, ForOwner, Storing, Deleting,
           Goto, Finish, At
  <1>3. NoOrphanFile' /\ NoOrphanTemp'
    BY DEF ProcTypeOK, NoOrphanFile, NoOrphanTemp, Procs, Goto, Finish, At
  <1> QED
    BY <1>1, <1>2, <1>3

\* The unlink takes a file that no deletion has passed, since its id was never a video.
LEMMA StoreUnlinkKept ==
  ASSUME IInv, NEW w \in Workers, StoreUnlink(w)
  PROVE  IInv'
  <1> USE StoreAssumption DEF IInv, StoreInv, StoreUnlink
  <1>1. CASE cur[w] \in temps /\ w \in copies
    <2>1. DataTypeOK' /\ ProcTypeOK' /\ ForeignKeys'
      BY <1>1 DEF DataTypeOK, ProcTypeOK, ForeignKeys, ActsFor, Procs, HasUpload, ForOwner, Modes, Goto,
             At, Exists, Locations
    <2>2. ActsFor' /\ OneWay' /\ Passed'
      BY <1>1 DEF DataTypeOK, ProcTypeOK, ActsFor, OneWay, Passed, Procs, HasUpload, ForOwner, Storing,
             Deleting, Goto, At
    <2>3. NoOrphanFile' /\ NoOrphanTemp'
      BY <1>1 DEF ProcTypeOK, NoOrphanFile, NoOrphanTemp, Procs, Goto, At
    <2> QED
      BY <2>1, <2>2, <2>3
  <1>2. CASE ~(cur[w] \in temps /\ w \in copies)
    BY <1>2, GiveUpKept DEF At
  <1> QED
    BY <1>1, <1>2

\* A thumbnail is made next to a file.
LEMMA StoreThumbKept ==
  ASSUME IInv, NEW w \in Workers, StoreThumb(w)
  PROVE  IInv'
  <1> USE StoreAssumption DEF IInv, StoreInv, StoreThumb
  <1>1. CASE cur[w] \in files
    <2>1. DataTypeOK' /\ ProcTypeOK' /\ ForeignKeys'
      BY <1>1 DEF DataTypeOK, ProcTypeOK, ForeignKeys, Modes, Goto, Exists, Locations, At, Procs
    <2>2. ActsFor' /\ OneWay' /\ Passed'
      BY <1>1 DEF ProcTypeOK, ActsFor, OneWay, Passed, Procs, HasUpload, ForOwner, Storing, Deleting,
             Goto, At
    <2>3. NoOrphanFile' /\ NoOrphanTemp'
      BY <1>1 DEF ProcTypeOK, NoOrphanFile, NoOrphanTemp, Procs, Goto, At
    <2> QED
      BY <2>1, <2>2, <2>3
  <1>2. CASE cur[w] \notin files
    BY <1>2, GiveUpKept DEF At
  <1> QED
    BY <1>1, <1>2

\* The row names a file that is there, in a session that exists.
LEMMA StoreCommitKept ==
  ASSUME IInv, NEW w \in Workers, StoreCommit(w)
  PROVE  IInv'
  <1> USE StoreAssumption DEF IInv, StoreInv, StoreCommit
  <1>1. CASE cur[w] \in files /\ Exists(Owner[cur[w]])
    <2>1. DataTypeOK' /\ ProcTypeOK'
      BY <1>1 DEF DataTypeOK, ProcTypeOK, Procs, Modes, Finish, Locations
    <2>2. ForeignKeys'
      BY <1>1 DEF ProcTypeOK, ForeignKeys, Procs, Finish, At, Exists
    <2>3. ActsFor' /\ OneWay' /\ Passed'
      BY <1>1 DEF At, Procs, DataTypeOK, ProcTypeOK, ActsFor, OneWay, Passed, HasUpload, ForOwner, Storing,
             Deleting,
             Finish
    <2>4. NoOrphanFile' /\ NoOrphanTemp'
      BY <1>1 DEF ProcTypeOK, NoOrphanFile, NoOrphanTemp, Procs, Finish, At
    <2> QED
      BY <2>1, <2>2, <2>3, <2>4
  <1>2. CASE ~(cur[w] \in files /\ Exists(Owner[cur[w]]))
    BY <1>2, GiveUpKept DEF At
  <1> QED
    BY <1>1, <1>2

\* A store that breaks off leaves litter, in a folder.
LEMMA StoreRaisesKept ==
  ASSUME IInv, NEW w \in Workers, StoreRaises(w)
  PROVE  IInv'
  <1> USE StoreAssumption DEF IInv, StoreInv, StoreRaises
  <1>1. CASE GiveUp(w) /\ pc[w] \in {"move_unlink", "store_thumb", "store_commit"} /\ UNCHANGED dirs
    BY <1>1, GiveUpKept
  <1>2. CASE /\ At(w, "move") /\ Finish(w)
             /\ \/ UNCHANGED <<dirs, litter>>
                \/ dirs' = dirs \cup {code[w]} /\ litter' \in {litter, litter \cup {code[w]}}
             /\ UNCHANGED <<files, copies>>
    <2>1. DataTypeOK' /\ ProcTypeOK' /\ ForeignKeys'
      BY <1>2 DEF DataTypeOK, ProcTypeOK, ForeignKeys, ActsFor, Procs, HasUpload, ForOwner, Modes,
             Finish, At, Exists, Locations
    <2>2. ActsFor' /\ OneWay' /\ Passed'
      BY <1>2 DEF ProcTypeOK, ActsFor, OneWay, Passed, Procs, HasUpload, ForOwner, Storing, Deleting,
             Finish, At
    <2>3. NoOrphanFile' /\ NoOrphanTemp'
      BY <1>2 DEF ProcTypeOK, NoOrphanFile, NoOrphanTemp, Procs, Finish, At
    <2> QED
      BY <2>1, <2>2, <2>3
  <1> QED
    BY <1>1, <1>2

\* A worker takes up an item of the session that owns it.
LEMMA PipelineReachesKept ==
  ASSUME IInv, NEW w \in Workers, NEW v \in Uploads, PipelineReaches(w, v)
  PROVE  IInv'
  <1> USE StoreAssumption DEF IInv, StoreInv, PipelineReaches
  <1>1. DataTypeOK' /\ ProcTypeOK' /\ ForeignKeys'
    BY DEF left, Locations, DataTypeOK, ProcTypeOK, ForeignKeys, Procs, Modes, Start,
           Exists, store, At
  <1>2. ActsFor' /\ OneWay' /\ Passed'
    BY DEF left, ProcTypeOK, ActsFor, OneWay, Passed, Storing, Start, store
  <1>3. \A q \in Procs : pc[q] # "idle" => pc'[q] = pc[q] /\ cur'[q] = cur[q]
    BY DEF left, ProcTypeOK, Procs, Start, At
  <1>4. NoOrphanFile' /\ NoOrphanTemp'
    BY <1>3 DEF left, NoOrphanFile, NoOrphanTemp, store, Procs
  <1> QED
    BY <1>1, <1>2, <1>4

\* A discarded file had its row.
LEMMA DiscardTempKept ==
  ASSUME IInv, NEW v \in Uploads, DiscardTemp(v)
  PROVE  IInv'
  <1> USE StoreAssumption DEF IInv, StoreInv, DiscardTemp
  <1>1. DataTypeOK' /\ ProcTypeOK' /\ ForeignKeys'
    BY DEF left, Locations, DataTypeOK, ProcTypeOK, ForeignKeys, Exists, procs
  <1>2. ActsFor' /\ OneWay' /\ Passed'
    BY DEF left, ActsFor, OneWay, Passed, procs
  <1>3. NoOrphanFile' /\ NoOrphanTemp'
    BY DEF left, NoOrphanFile, NoOrphanTemp, procs
  <1> QED
    BY <1>1, <1>2, <1>3

\* The daemon's list holds sessions.
LEMMA CleanupQueryKept ==
  ASSUME IInv, CleanupQuery
  PROVE  IInv'
  <1> USE StoreAssumption DEF IInv, StoreInv, CleanupQuery
  <1>1. DataTypeOK' /\ ProcTypeOK' /\ ForeignKeys'
    BY DEF left, Locations, DataTypeOK, ProcTypeOK, ForeignKeys, Procs, Modes, Start, Exists, store
  <1>2. ActsFor' /\ OneWay' /\ Passed'
    BY DEF left, ProcTypeOK, ActsFor, OneWay, Passed, HasUpload, ForOwner, Storing, Deleting, Start,
           store
  <1>3. NoOrphanFile' /\ NoOrphanTemp'
    BY DEF left, NoOrphanFile, NoOrphanTemp, Start, store
  <1> QED
    BY <1>1, <1>2, <1>3

\* Sessions go that no row refers to.
LEMMA CleanupCommitKept ==
  ASSUME IInv, CleanupCommit
  PROVE  IInv'
  <1> USE StoreAssumption DEF IInv, StoreInv, CleanupCommit
  <1>1. DataTypeOK' /\ ProcTypeOK' /\ ForeignKeys'
    BY DEF left, Locations, DataTypeOK, ProcTypeOK, ForeignKeys, Procs, Modes, Referenced, Finish, Exists, Of
  <1>2. ActsFor' /\ OneWay' /\ Passed'
    BY DEF left, DataTypeOK, ActsFor, OneWay, Passed, HasUpload, ForOwner, Storing, Deleting, Finish, At
  <1>3. NoOrphanFile' /\ NoOrphanTemp'
    BY DEF left, DataTypeOK, NoOrphanFile, NoOrphanTemp, Finish
  <1> QED
    BY <1>1, <1>2, <1>3

\* A folder goes with everything in it.
LEMMA CleanupTreeKept ==
  ASSUME IInv, NEW c \in Codes, CleanupTree(c)
  PROVE  IInv'
  <1> USE StoreAssumption DEF IInv, StoreInv, CleanupTree
  <1>1. DataTypeOK' /\ ProcTypeOK' /\ ForeignKeys'
    BY DEF left, Locations, DataTypeOK, ProcTypeOK, ForeignKeys, Procs, Exists, Of
  <1>2. ActsFor' /\ OneWay' /\ Passed'
    BY DEF left, ActsFor, OneWay, Passed
  <1>3. NoOrphanFile' /\ NoOrphanTemp'
    BY DEF left, NoOrphanFile, NoOrphanTemp
  <1> QED
    BY <1>1, <1>2, <1>3

\* A new session changes nothing that exists.
LEMMA CreateSessionKept ==
  ASSUME IInv, NEW c \in Codes, CreateSession(c)
  PROVE  IInv'
  <1> USE StoreAssumption DEF IInv, StoreInv, CreateSession
  <1>1. DataTypeOK' /\ ProcTypeOK' /\ ForeignKeys'
    BY DEF left, Locations, DataTypeOK, ProcTypeOK, ForeignKeys, Exists, procs
  <1>2. ActsFor' /\ OneWay' /\ Passed'
    BY DEF left, ActsFor, OneWay, Passed, procs
  <1>3. NoOrphanFile' /\ NoOrphanTemp'
    BY DEF left, NoOrphanFile, NoOrphanTemp, procs
  <1> QED
    BY <1>1, <1>2, <1>3

\* Nor does time.
LEMMA ExpireKept ==
  ASSUME IInv, NEW c \in Codes, Expire(c)
  PROVE  IInv'
  <1> USE StoreAssumption DEF IInv, StoreInv, Expire
  <1>1. DataTypeOK' /\ ProcTypeOK' /\ ForeignKeys'
    BY DEF left, Locations, DataTypeOK, ProcTypeOK, ForeignKeys, Exists, procs
  <1>2. ActsFor' /\ OneWay' /\ Passed'
    BY DEF left, ActsFor, OneWay, Passed, procs
  <1>3. NoOrphanFile' /\ NoOrphanTemp'
    BY DEF left, NoOrphanFile, NoOrphanTemp, procs
  <1> QED
    BY <1>1, <1>2, <1>3

\* Item and file go together.
LEMMA DropItemKept ==
  ASSUME IInv, NEW v \in Uploads, DropItem(v)
  PROVE  IInv'
  <1> USE StoreAssumption DEF IInv, StoreInv, DropItem
  <1>1. DataTypeOK' /\ ProcTypeOK' /\ ForeignKeys'
    BY DEF left, Locations, DataTypeOK, ProcTypeOK, ForeignKeys, Touch, Exists, procs
  <1>2. ActsFor' /\ OneWay' /\ Passed'
    BY DEF left, ActsFor, OneWay, Passed, Touch, procs
  <1>3. NoOrphanFile' /\ NoOrphanTemp'
    BY DEF left, NoOrphanFile, NoOrphanTemp, Touch, Exists, procs
  <1> QED
    BY <1>1, <1>2, <1>3

\* A request that breaks off leaves at most the file of its upload.
LEMMA RequestRaisesKept ==
  ASSUME IInv, NEW r \in Requests, RequestRaises(r)
  PROVE  IInv'
  <1> USE StoreAssumption DEF IInv, StoreInv, RequestRaises
  <1>1. DataTypeOK' /\ ProcTypeOK' /\ ForeignKeys'
    BY DEF DataTypeOK, ProcTypeOK, ForeignKeys, ActsFor, HasUpload, Procs, Modes, Finish, Exists, At,
           Locations
  <1>2. ActsFor' /\ OneWay' /\ Passed'
    BY DEF ProcTypeOK, ActsFor, OneWay, Passed, HasUpload, ForOwner, Storing, Deleting, Finish, At
  <1>3. NoOrphanFile' /\ NoOrphanTemp'
    BY DEF ProcTypeOK, NoOrphanFile, NoOrphanTemp, Procs, Finish, At
  <1> QED
    BY <1>1, <1>2, <1>3

\* A sweep that breaks off has removed files and no row.
LEMMA SweepRaisesKept ==
  ASSUME IInv, SweepRaises
  PROVE  IInv'
  <1> USE StoreAssumption DEF IInv, StoreInv, SweepRaises
  <1>0. files' \subseteq files /\ thumbs' \subseteq thumbs
    OBVIOUS
  <1>1. DataTypeOK' /\ ProcTypeOK'
    BY <1>0 DEF DataTypeOK, ProcTypeOK, Procs, Modes, Finish, Locations, left
  <1>2. ForeignKeys'
    BY <1>0 DEF ProcTypeOK, ForeignKeys, Procs, Finish, Exists, left
  <1>3. ActsFor' /\ OneWay' /\ Passed'
    BY <1>0 DEF ProcTypeOK, ActsFor, OneWay, Passed, HasUpload, ForOwner, Storing, Deleting, Finish,
           At, left
  <1>4. NoOrphanFile' /\ NoOrphanTemp'
    BY <1>0 DEF ProcTypeOK, NoOrphanFile, NoOrphanTemp, Procs, Finish, At, left
  <1> QED
    BY <1>1, <1>2, <1>3, <1>4

-----------------------------------------------------------------------------
\* Every step keeps the invariant.
LEMMA NextInv == IInv /\ [Next]_vars => IInv'
  <1> SUFFICES ASSUME IInv, [Next]_vars PROVE IInv'
    OBVIOUS
  <1>1. ASSUME NEW r \in Requests, RequestStep(r) \/ RequestRaises(r) PROVE IInv'
    BY <1>1, RequestRaisesKept, RejectUploadKept, AddItemKept,
       LookFileKept, UnlinkFileKept, LookThumbKept, UnlinkThumbKept,
       CommitDeletesKept, BulkDeleteKept, CommitSessionKept, RemoveDirKept
    DEF RequestStep
  <1>2. ASSUME NEW w \in Workers, WorkerStep(w) \/ StoreRaises(w) \/ \E u \in Uploads : PipelineReaches(w, u)
       PROVE  IInv'
    BY <1>2, StoreRaisesKept, StoreCopyKept, StoreUnlinkKept,
       StoreThumbKept, StoreCommitKept, PipelineReachesKept DEF WorkerStep
  <1>3. ASSUME NEW u \in Uploads, DiscardTemp(u) PROVE IInv'
    BY <1>3, DiscardTempKept
  <1>4. CASE CleanerStep \/ SweepRaises
    BY <1>4, SweepRaisesKept, CleanupQueryKept, CleanupCommitKept, CleanupTreeKept DEF CleanerStep
  <1>5. CASE User
    BY <1>5, CreateSessionKept, ExpireKept, DropItemKept, UploadKept, DeleteVideoKept, DeleteAllVideosKept,
       SessionDeleteKept
    DEF User
  <1>6. CASE UNCHANGED vars
    BY <1>6
    DEF vars, IInv, DataTypeOK, ProcTypeOK, ForeignKeys, StoreInv, ActsFor, OneWay, Passed, NoOrphanFile,
        NoOrphanTemp, Exists
  <1> QED
    BY <1>1, <1>2, <1>3, <1>4, <1>5, <1>6 DEF Next

\* The invariant holds in every reachable state.
LEMMA StoreInvariant == Spec => []IInv
  BY InitInv, NextInv, PTL DEF Spec

\* The foreign keys hold in every reachable state: no row outlives its session, and no
\* file its folder.
THEOREM StoreTypeCorrect == Spec => []TypeOK
  <1>1. IInv => TypeOK
    BY TypeParts DEF IInv
  <1> QED
    BY <1>1, StoreInvariant, PTL

\* No order of uploads, copies, unlinks, deletions, refused commits, failures and sweeps
\* loses track of a video file that was moved into a session's folder: it has its row, or
\* the worker that is about to write it (what a store that raised left is litter).
THEOREM FilesAreFound == Spec => []NoOrphanFile
  <1>1. IInv => NoOrphanFile
    BY DEF IInv, StoreInv
  <1> QED
    BY <1>1, StoreInvariant, PTL

\* Nor of a temp file whose upload did not itself break off between the save and the row.
THEOREM TempsAreFound == Spec => []NoOrphanTemp
  <1>1. IInv => NoOrphanTemp
    BY DEF IInv, StoreInv
  <1> QED
    BY <1>1, StoreInvariant, PTL
=============================================================================
