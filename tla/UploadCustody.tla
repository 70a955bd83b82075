---------------------------- MODULE UploadCustody ----------------------------
(***************************************************************************)
(* What the queue promises about one upload, whoever works on it and however *)
(* often: its bytes are in one place at a time.  They are received into the *)
(* temp folder, may be claimed by one execution of the pipeline, and end as *)
(* a stored video or are lost (deleted, refused, or dropped by a failure).   *)
(* Nothing is stored twice, and nothing comes back.                         *)
(***************************************************************************)
CONSTANT Items

VARIABLE custody   \* custody[t]: "none", "temp", "held", "stored" or "lost"

CustodyInit == custody = [t \in Items |-> "none"]

Transfer(t, from, to) ==
  /\ custody[t] = from
  /\ custody' = [custody EXCEPT ![t] = to]

Receive(t) == Transfer(t, "none", "temp")
Claim(t)   == Transfer(t, "temp", "held")
Keep(t)    == Transfer(t, "held", "stored")
Discard(t) == Transfer(t, "temp", "lost")
Drop(t)    == Transfer(t, "held", "lost")

CustodyNext == \E t \in Items : Receive(t) \/ Claim(t) \/ Keep(t) \/ Discard(t) \/ Drop(t)

CustodySpec == CustodyInit /\ [][CustodyNext]_custody
=============================================================================
