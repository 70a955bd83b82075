---------------------------- MODULE SchemaUpgrade ----------------------------
(***************************************************************************)
(* What those who use the database see of an upgrade of its schema, whoever  *)
(* upgrades it, at the same time and however often cut off.  The revision    *)
(* only goes up, and never before its parts.  Where the upgrade is atomic     *)
(* nobody sees a schema between the revision it starts from and the last.     *)
(* Containers come and go, and are admitted only to the last revision.        *)
(***************************************************************************)
EXTENDS Naturals

CONSTANTS Containers,
          Parts,    \* tables and columns
          Last,     \* the last revision
          Needs     \* Needs[n]: the parts of revision n

VARIABLES atomic, schema, revision, admitted

upgradeVars == <<atomic, schema, revision, admitted>>

UpgradeInit ==
  /\ atomic \in BOOLEAN
  /\ revision \in 0..Last
  /\ schema \in SUBSET Parts /\ Needs[revision] \subseteq schema
  /\ admitted = {}

AddPart(p) ==
  /\ ~ atomic
  /\ schema' = schema \cup {p}
  /\ UNCHANGED revision

GoUp ==
  /\ ~ atomic /\ revision < Last
  /\ revision' = revision + 1
  /\ Needs[revision'] \subseteq schema
  /\ UNCHANGED schema

Complete ==
  /\ atomic /\ revision < Last
  /\ revision' = Last /\ schema' = Parts

\* Any may leave; who is new meets the last revision.
Admit == admitted' \subseteq admitted \cup (IF revision' = Last THEN Containers ELSE {})

UpgradeNext ==
  /\ (\E p \in Parts : AddPart(p)) \/ GoUp \/ Complete \/ UNCHANGED <<schema, revision>>
  /\ Admit
  /\ UNCHANGED atomic

UpgradeSpec == UpgradeInit /\ [][UpgradeNext]_upgradeVars
=============================================================================
