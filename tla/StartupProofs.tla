---------------------------- MODULE StartupProofs ----------------------------
(***************************************************************************)
(* Theorems about Startup for any hosts, any databases and any number of     *)
(* failures and kills.                                                      *)
(***************************************************************************)
EXTENDS Startup, TLAPS

\* The place of each statement in the plan.
LEMMA Places ==
  ASSUME NEW h, NEW s, About(h, s), at[h] \in 0..12
  PROVE  /\ s = "check" => at[h] = 1
         /\ s = "alembic_version" => at[h] = 2
         /\ s \in Tables => at[h] \in 3..5
         /\ s \in Columns => at[h] \in {6, 8, 9, 10}
         /\ s \in Stamps => at[h] \in {7, 11}
         /\ s = Plan[at[h]] /\ Running(h)
  BY DEF About, Plan, Tables, Columns, Stamps

LEMMA InitTypeOK == Init => TypeOK
  BY StartupAssumption DEF Init, TypeOK, Objects, Initial, Tables, Columns, Stamps

\* The end of a transaction keeps the types of what describes a host.
LEMMA FinishTypeOK ==
  ASSUME TypeOK, NEW h \in Hosts, NEW l \in {"down", "script", "import", "serving"}, Finish(h, l)
  PROVE  /\ pc' \in [Hosts -> {"down", "script", "import", "serving"}]
         /\ at' \in [Hosts -> 0..12]
         /\ rev' \in [Hosts -> Stamps]
         /\ made' \in [Hosts -> SUBSET Objects]
         /\ wrote' \in [Hosts -> BOOLEAN]
         /\ waited' \in [Hosts -> BOOLEAN]
  BY DEF TypeOK, Finish, Stamps

LEMMA RaiseTypeOK ==
  ASSUME TypeOK, NEW h \in Hosts, Raise(h), faults' \in 0..MaxFaults
  PROVE  TypeOK'
  BY FinishTypeOK DEF Raise, TypeOK, dbVars

\* A statement that has run, or was passed over.
LEMMA CreateTypeOK ==
  ASSUME TypeOK, NEW h \in Hosts, NEW s \in Objects, Create(h, s) \/ Skip(h),
         at[h] \in 1..11, UNCHANGED faults
  PROVE  TypeOK'
  <1>1. at' \in [Hosts -> 0..12] /\ waited' \in [Hosts -> BOOLEAN]
    <2>1. /\ at' = [at EXCEPT ![h] = at[h] + 1]
          /\ waited' = [waited EXCEPT ![h] = FALSE]
      BY DEF Create, Skip, Advance
    <2>2. at[h] + 1 \in 0..12
      OBVIOUS
    <2> QED
      BY <2>1, <2>2 DEF TypeOK
  <1>2. made' \in [Hosts -> SUBSET Objects] /\ objs' \in SUBSET Objects
    BY DEF TypeOK, Create, Skip, dbVars
  <1> QED
    BY <1>1, <1>2 DEF TypeOK, Create, Skip, Advance, dbVars

\* An upgrade keeps the types.
LEMMA UpgradeTypeOK ==
  ASSUME TypeOK, NEW h \in Hosts, Upgrade(h)
  PROVE  TypeOK'
  <1>0. at[h] \in 0..12
    BY DEF TypeOK
  <1>1. CASE ReadRevision(h)
    BY <1>1 DEF ReadRevision, TypeOK, Begin, Stamps, dbVars
  <1>2. CASE CheckVersionTable(h)
    BY <1>2 DEF CheckVersionTable, TypeOK, dbVars
  <1>3. CASE CreateVersionTable(h)
    BY <1>0, <1>3, RaiseTypeOK, CreateTypeOK DEF CreateVersionTable, About, Objects, TypeOK
  <1>4. ASSUME NEW s \in Tables, Wait(h, s) PROVE TypeOK'
    BY <1>4 DEF Wait, TypeOK, dbVars
  <1>5. ASSUME NEW s \in Tables, CreateTable(h, s) PROVE TypeOK'
    BY <1>0, <1>5, RaiseTypeOK, CreateTypeOK DEF CreateTable, About, Objects, TypeOK
  <1>6. ASSUME NEW s \in Columns, AddColumn(h, s) PROVE TypeOK'
    BY <1>0, <1>6, CreateTypeOK DEF AddColumn, About, Objects
  <1>7. ASSUME NEW s \in Stamps, WriteStamp(h, s) PROVE TypeOK'
    <2>1. CASE wrote[h] \/ stamp = rev[h]
      <3>1. at[h] + 1 \in 0..12
        BY <1>7 DEF WriteStamp, About
      <3>2. at' \in [Hosts -> 0..12] /\ waited' \in [Hosts -> BOOLEAN] /\ rev' \in [Hosts -> Stamps]
        BY <1>7, <2>1, <3>1 DEF WriteStamp, Advance, TypeOK
      <3> QED
        BY <1>7, <2>1, <3>2 DEF WriteStamp, Advance, TypeOK
    <2>2. CASE ~ (wrote[h] \/ stamp = rev[h])
      BY <1>7, <2>2, RaiseTypeOK DEF WriteStamp, TypeOK
    <2> QED
      BY <2>1, <2>2
  <1>8. CASE Commit(h)
    BY <1>8, FinishTypeOK DEF Commit, Publish, TypeOK
  <1> QED
    BY <1>1, <1>2, <1>3, <1>4, <1>5, <1>6, <1>7, <1>8 DEF Upgrade

\* Every step keeps the types.
LEMMA NextTypeOK == TypeOK /\ [Next]_vars => TypeOK'
  <1> SUFFICES ASSUME TypeOK, [Next]_vars PROVE TypeOK'
    OBVIOUS
  <1>0. MaxFaults \in Nat
    BY StartupAssumption
  <1>1. ASSUME NEW h \in Hosts, Upgrade(h) PROVE TypeOK'
    BY <1>1, UpgradeTypeOK
  <1>2. ASSUME NEW h \in Hosts, Start(h) PROVE TypeOK'
    BY <1>2 DEF Start, TypeOK, dbVars, runVars
  <1>3. ASSUME NEW h \in Hosts, NEW s \in Columns, AlterFails(h, s) PROVE TypeOK'
    <2>1. at' \in [Hosts -> 0..12] /\ waited' \in [Hosts -> BOOLEAN]
      BY <1>3, Places DEF AlterFails, Advance, TypeOK
    <2>2. faults' \in 0..MaxFaults
      BY <1>0, <1>3 DEF AlterFails, TypeOK
    <2> QED
      BY <1>3, <2>1, <2>2 DEF AlterFails, Advance, TypeOK, dbVars
  <1>4. ASSUME NEW h \in Hosts, DatabaseFails(h) PROVE TypeOK'
    BY <1>0, <1>4, RaiseTypeOK DEF DatabaseFails, TypeOK
  <1>5. ASSUME NEW h \in Hosts, CommitAnswerLost(h) PROVE TypeOK'
    BY <1>0, <1>5, FinishTypeOK DEF CommitAnswerLost, Publish, TypeOK
  <1>6. ASSUME NEW h \in Hosts, Kill(h) PROVE TypeOK'
    BY <1>0, <1>6, FinishTypeOK DEF Kill, TypeOK, dbVars
  <1>7. CASE UNCHANGED vars
    BY <1>7 DEF vars, dbVars, runVars, TypeOK
  <1> QED
    BY <1>1, <1>2, <1>3, <1>4, <1>5, <1>6, <1>7 DEF Next

\* Every variable keeps its type.
THEOREM StartupTypeCorrect == Spec => []TypeOK
  BY InitTypeOK, NextTypeOK, PTL DEF Spec

-----------------------------------------------------------------------------
(***************************************************************************)
(* StampedIsMigrated and ServingIsMigrated need what is true of an upgrade   *)
(* on its way: its place in the plan tells the revision it believes in, what *)
(* stands before that place is there, and a revision it has not written      *)
(* itself it has read from the table, which never goes back.                *)
(***************************************************************************)

\* What h may rely on: what is committed, its own, and what was passed over.
Reach(h) == objs \cup made[h] \cup swallowed

RevisionOfPlace ==
  \A h \in Hosts :
    rev[h] = IF at[h] < 8 THEN "none" ELSE IF at[h] < 12 THEN "initial" ELSE "enriched"

PlanDone ==
  \A h \in Hosts :
    /\ at[h] >= 4 => "sessions" \in Reach(h)
    /\ at[h] >= 5 => "video" \in Reach(h)
    /\ at[h] >= 6 => "queue_items" \in Reach(h)
    /\ at[h] >= 7 => "sha256" \in Reach(h)
    /\ at[h] >= 9 => "duration" \in Reach(h)
    /\ at[h] >= 10 => "bitrate" \in Reach(h)
    /\ at[h] >= 11 => "has_thumbnail" \in Reach(h)

\* Only an open transaction has stamped anything, and SQLite has none.
OwnStamp ==
  \A h \in Hosts :
    /\ at[h] = 12 /\ ~ wrote[h] => stamp = "enriched"
    /\ dialect = "sqlite" => made[h] = {} /\ ~ wrote[h]

UpgradeInv == RevisionOfPlace /\ PlanDone /\ OwnStamp /\ StampedIsMigrated /\ ServingIsMigrated

\* The database only moves forward in this step.
Forward ==
  /\ objs \subseteq objs' /\ swallowed \subseteq swallowed'
  /\ stamp = "enriched" => stamp' = "enriched"
  /\ dialect' = dialect

\* Nothing changes for g.
Still(g) ==
  /\ pc'[g] = pc[g] /\ at'[g] = at[g] /\ rev'[g] = rev[g]
  /\ made'[g] = made[g] /\ wrote'[g] = wrote[g]

LEMMA InitUpgrade == Init => UpgradeInv
  BY StartupAssumption
  DEF Init, UpgradeInv, RevisionOfPlace, PlanDone, OwnStamp, StampedIsMigrated, ServingIsMigrated, Initial

\* What h has to show for its step; the other hosts only see the database move.
LEMMA HostStep ==
  ASSUME TypeOK, UpgradeInv, NEW h \in Hosts, Forward, \A g \in Hosts \ {h} : Still(g),
         StampedIsMigrated',
         rev'[h] = IF at'[h] < 8 THEN "none" ELSE IF at'[h] < 12 THEN "initial" ELSE "enriched",
         /\ at'[h] >= 4 => "sessions" \in Reach(h)'
         /\ at'[h] >= 5 => "video" \in Reach(h)'
         /\ at'[h] >= 6 => "queue_items" \in Reach(h)'
         /\ at'[h] >= 7 => "sha256" \in Reach(h)'
         /\ at'[h] >= 9 => "duration" \in Reach(h)'
         /\ at'[h] >= 10 => "bitrate" \in Reach(h)'
         /\ at'[h] >= 11 => "has_thumbnail" \in Reach(h)',
         at'[h] = 12 /\ ~ wrote'[h] => stamp' = "enriched",
         dialect = "sqlite" => made'[h] = {} /\ ~ wrote'[h],
         h \in Scripted /\ pc'[h] \in {"import", "serving"} => stamp' = "enriched"
  PROVE  UpgradeInv'
  <1> USE DEF UpgradeInv, Forward, Still
  <1>1. RevisionOfPlace'
    BY DEF RevisionOfPlace
  <1>2. PlanDone'
    BY DEF PlanDone, Reach
  <1>3. OwnStamp'
    BY DEF OwnStamp
  <1>4. ServingIsMigrated'
    BY StartupAssumption DEF ServingIsMigrated
  <1> QED
    BY <1>1, <1>2, <1>3, <1>4

\* A host that gives up its transaction; only a script's commit lets a container on.
LEMMA FinishInv ==
  ASSUME TypeOK, UpgradeInv, NEW h \in Hosts, NEW l, Finish(h, l),
         Forward, StampedIsMigrated',
         h \in Scripted /\ l \in {"import", "serving"} => stamp' = "enriched"
  PROVE  UpgradeInv'
  <1>1. /\ \A g \in Hosts \ {h} : Still(g)
        /\ pc'[h] = l /\ at'[h] = 0 /\ rev'[h] = "none" /\ made'[h] = {} /\ wrote'[h] = FALSE
    BY DEF Finish, Still, TypeOK
  <1> QED
    BY <1>1, HostStep

\* An error ends the script, and changes nothing for a program that has passed it.
LEMMA RaiseInv ==
  ASSUME TypeOK, UpgradeInv, NEW h \in Hosts, Running(h), Raise(h)
  PROVE  UpgradeInv'
  <1>1. Forward /\ StampedIsMigrated'
    BY DEF Raise, Forward, dbVars, UpgradeInv, StampedIsMigrated
  <1>2. h \in Scripted /\ (IF pc[h] = "script" THEN "down" ELSE "serving") \in {"import", "serving"}
          => stamp' = "enriched"
    BY DEF Running, Raise, dbVars, UpgradeInv, ServingIsMigrated
  <1> QED
    BY <1>1, <1>2, FinishInv DEF Raise

\* A statement before a stamp is done, or was there, or is passed over.
LEMMA AdvanceInv ==
  ASSUME TypeOK, UpgradeInv, NEW h \in Hosts, NEW s, About(h, s), s \notin Stamps, s # "check",
         Advance(h), UNCHANGED <<stamp, rev, wrote>>,
         objs \subseteq objs', swallowed \subseteq swallowed', s \in Reach(h)',
         made[h] \subseteq made'[h], dialect = "sqlite" => made' = made,
         \A g \in Hosts \ {h} : made'[g] = made[g]
  PROVE  UpgradeInv'
  <1>0. at[h] \in 0..12
    BY DEF TypeOK
  <1>1. /\ \A g \in Hosts \ {h} : Still(g)
        /\ pc'[h] = pc[h] /\ at'[h] = at[h] + 1 /\ Forward
    BY DEF Advance, Still, TypeOK, Forward
  <1>2. at[h] \in {2, 3, 4, 5, 6, 8, 9, 10} /\ s = Plan[at[h]]
    BY <1>0 DEF About, Plan, Stamps
  <1>3. StampedIsMigrated'
    BY <1>1 DEF Forward, UpgradeInv, StampedIsMigrated
  <1>4. Reach(h) \subseteq Reach(h)'
    BY DEF Reach
  <1>5. /\ at'[h] >= 4 => "sessions" \in Reach(h)'
        /\ at'[h] >= 5 => "video" \in Reach(h)'
        /\ at'[h] >= 6 => "queue_items" \in Reach(h)'
        /\ at'[h] >= 7 => "sha256" \in Reach(h)'
        /\ at'[h] >= 9 => "duration" \in Reach(h)'
        /\ at'[h] >= 10 => "bitrate" \in Reach(h)'
        /\ at'[h] >= 11 => "has_thumbnail" \in Reach(h)'
    BY <1>1, <1>2, <1>4 DEF UpgradeInv, PlanDone, Plan
  <1>6. rev'[h] = IF at'[h] < 8 THEN "none" ELSE IF at'[h] < 12 THEN "initial" ELSE "enriched"
    BY <1>1, <1>2 DEF UpgradeInv, RevisionOfPlace
  <1>7. /\ at'[h] = 12 /\ ~ wrote'[h] => stamp' = "enriched"
        /\ dialect = "sqlite" => made'[h] = {} /\ ~ wrote'[h]
        /\ h \in Scripted /\ pc'[h] \in {"import", "serving"} => stamp' = "enriched"
    BY <1>1, <1>2 DEF UpgradeInv, OwnStamp, ServingIsMigrated
  <1> QED
    BY <1>1, <1>3, <1>5, <1>6, <1>7, HostStep

\* Creating is such a step, and so is leaving alone what exists.
LEMMA CreateInv ==
  ASSUME TypeOK, UpgradeInv, NEW h \in Hosts, NEW s \in Objects, About(h, s),
         Create(h, s) \/ (Skip(h) /\ Exists(h, s))
  PROVE  UpgradeInv'
  <1>1. s \notin Stamps /\ s # "check"
    BY DEF Objects, Tables, Columns, Stamps
  <1>2. CASE Create(h, s)
    <2>1. /\ Advance(h) /\ UNCHANGED <<stamp, rev, wrote>> /\ objs \subseteq objs'
          /\ swallowed \subseteq swallowed' /\ s \in Reach(h)'
          /\ made[h] \subseteq made'[h] /\ (dialect = "sqlite" => made' = made)
          /\ \A g \in Hosts \ {h} : made'[g] = made[g]
      BY <1>2 DEF Create, Reach, TypeOK
    <2> QED
      BY <1>1, <2>1, AdvanceInv
  <1>3. CASE Skip(h) /\ Exists(h, s)
    <2>1. /\ Advance(h) /\ UNCHANGED <<stamp, rev, wrote>> /\ objs \subseteq objs'
          /\ swallowed \subseteq swallowed' /\ s \in Reach(h)'
          /\ made[h] \subseteq made'[h] /\ (dialect = "sqlite" => made' = made)
          /\ \A g \in Hosts \ {h} : made'[g] = made[g]
      BY <1>3 DEF Skip, Exists, Reach, dbVars
    <2> QED
      BY <1>1, <2>1, AdvanceInv
  <1> QED
    BY <1>2, <1>3

\* Reading the revision puts h at a place whose past the stamp vouches for.
LEMMA ReadInv ==
  ASSUME TypeOK, UpgradeInv, NEW h \in Hosts, ReadRevision(h)
  PROVE  UpgradeInv'
  <1>1. /\ \A g \in Hosts \ {h} : Still(g)
        /\ pc'[h] = pc[h] /\ at'[h] = Begin[stamp] /\ rev'[h] = stamp
        /\ made' = made /\ wrote' = wrote /\ stamp' = stamp /\ objs' = objs /\ swallowed' = swallowed
        /\ Forward /\ stamp \in {"none", "initial", "enriched"}
    BY DEF ReadRevision, Still, TypeOK, Forward, dbVars, Stamps
  <1>2. Begin["none"] = 1 /\ Begin["initial"] = 8 /\ Begin["enriched"] = 12
    BY DEF Begin
  <1>3. StampedIsMigrated'
    BY <1>1 DEF UpgradeInv, StampedIsMigrated
  <1>4. /\ at'[h] >= 4 => "sessions" \in Reach(h)'
        /\ at'[h] >= 5 => "video" \in Reach(h)'
        /\ at'[h] >= 6 => "queue_items" \in Reach(h)'
        /\ at'[h] >= 7 => "sha256" \in Reach(h)'
        /\ at'[h] >= 9 => "duration" \in Reach(h)'
        /\ at'[h] >= 10 => "bitrate" \in Reach(h)'
        /\ at'[h] >= 11 => "has_thumbnail" \in Reach(h)'
    BY <1>1, <1>2, <1>3 DEF StampedIsMigrated, Initial, Enriched, Tables, Reach
  <1>5. rev'[h] = IF at'[h] < 8 THEN "none" ELSE IF at'[h] < 12 THEN "initial" ELSE "enriched"
    BY <1>1, <1>2
  <1>6. /\ at'[h] = 12 /\ ~ wrote'[h] => stamp' = "enriched"
        /\ dialect = "sqlite" => made'[h] = {} /\ ~ wrote'[h]
        /\ h \in Scripted /\ pc'[h] \in {"import", "serving"} => stamp' = "enriched"
    BY <1>1, <1>2 DEF UpgradeInv, OwnStamp, ServingIsMigrated
  <1> QED
    BY <1>1, <1>3, <1>4, <1>5, <1>6, HostStep

\* Looking for alembic's version table, or waiting, moves h among the places
\* before the first table, or not at all.
LEMMA LookInv ==
  ASSUME TypeOK, UpgradeInv, NEW h \in Hosts,
         CheckVersionTable(h) \/ \E s \in Tables : Wait(h, s)
  PROVE  UpgradeInv'
  <1>0. at[h] \in 0..12
    BY DEF TypeOK
  <1>1. /\ \A g \in Hosts \ {h} : Still(g)
        /\ pc' = pc /\ rev' = rev /\ made' = made /\ wrote' = wrote
        /\ stamp' = stamp /\ objs' = objs /\ swallowed' = swallowed /\ Forward
    BY DEF CheckVersionTable, Wait, Still, TypeOK, Forward, dbVars
  <1>2. at'[h] = at[h] \/ (at[h] = 1 /\ at'[h] \in {2, 3})
    BY <1>0, Places DEF CheckVersionTable, Wait, TypeOK
  <1>3. StampedIsMigrated'
    BY <1>1 DEF UpgradeInv, StampedIsMigrated
  <1>4. /\ at'[h] >= 4 => "sessions" \in Reach(h)'
        /\ at'[h] >= 5 => "video" \in Reach(h)'
        /\ at'[h] >= 6 => "queue_items" \in Reach(h)'
        /\ at'[h] >= 7 => "sha256" \in Reach(h)'
        /\ at'[h] >= 9 => "duration" \in Reach(h)'
        /\ at'[h] >= 10 => "bitrate" \in Reach(h)'
        /\ at'[h] >= 11 => "has_thumbnail" \in Reach(h)'
    BY <1>1, <1>2 DEF UpgradeInv, PlanDone, Reach
  <1>5. rev'[h] = IF at'[h] < 8 THEN "none" ELSE IF at'[h] < 12 THEN "initial" ELSE "enriched"
    BY <1>1, <1>2 DEF UpgradeInv, RevisionOfPlace
  <1>6. /\ at'[h] = 12 /\ ~ wrote'[h] => stamp' = "enriched"
        /\ dialect = "sqlite" => made'[h] = {} /\ ~ wrote'[h]
        /\ h \in Scripted /\ pc'[h] \in {"import", "serving"} => stamp' = "enriched"
    BY <1>1, <1>2 DEF UpgradeInv, OwnStamp, ServingIsMigrated
  <1> QED
    BY <1>1, <1>3, <1>4, <1>5, <1>6, HostStep

\* A stamp follows the statements of its revision.
LEMMA StampInv ==
  ASSUME TypeOK, UpgradeInv, NEW h \in Hosts, NEW s \in Stamps, WriteStamp(h, s)
  PROVE  UpgradeInv'
  <1>0. at[h] \in 0..12 /\ About(h, s)
    BY DEF TypeOK, WriteStamp
  <1>1. CASE ~ (wrote[h] \/ stamp = rev[h])
    BY <1>0, <1>1, RaiseInv DEF WriteStamp, About
  <1>2. CASE wrote[h] \/ stamp = rev[h]
    <2>1. /\ \/ at[h] = 7 /\ s = "initial"
             \/ at[h] = 11 /\ s = "enriched"
          /\ at'[h] = at[h] + 1 /\ rev'[h] = s
      BY <1>0, <1>2 DEF WriteStamp, Advance, About, Plan, Stamps, TypeOK
    <2>2. /\ \A g \in Hosts \ {h} : Still(g)
          /\ pc' = pc /\ made' = made /\ objs' = objs /\ swallowed' = swallowed
      BY <1>2 DEF WriteStamp, Advance, Still, TypeOK
    <2>3. /\ dialect = "sqlite" => stamp' = s /\ wrote'[h] = FALSE /\ stamp = rev[h] /\ made[h] = {}
          /\ dialect # "sqlite" => stamp' = stamp /\ wrote'[h] = TRUE
      BY <1>2 DEF WriteStamp, UpgradeInv, OwnStamp, TypeOK
    <2>4. Forward
      <3>1. stamp = "enriched" => dialect # "sqlite"
        BY <2>1, <2>3 DEF UpgradeInv, RevisionOfPlace
      <3> QED
        BY <1>2, <2>2, <2>3, <3>1 DEF WriteStamp, Advance, Forward
    <2>5. /\ Initial \subseteq Reach(h)
          /\ s = "enriched" => Enriched \subseteq Reach(h)
      BY <2>1 DEF UpgradeInv, PlanDone, Initial, Enriched, Tables
    <2>6. StampedIsMigrated'
      BY <2>2, <2>3, <2>5 DEF UpgradeInv, StampedIsMigrated, Reach
    <2>7. /\ at'[h] >= 4 => "sessions" \in Reach(h)'
          /\ at'[h] >= 5 => "video" \in Reach(h)'
          /\ at'[h] >= 6 => "queue_items" \in Reach(h)'
          /\ at'[h] >= 7 => "sha256" \in Reach(h)'
          /\ at'[h] >= 9 => "duration" \in Reach(h)'
          /\ at'[h] >= 10 => "bitrate" \in Reach(h)'
          /\ at'[h] >= 11 => "has_thumbnail" \in Reach(h)'
      BY <2>1, <2>2, <2>5 DEF Initial, Enriched, Tables, Reach
    <2>8. rev'[h] = IF at'[h] < 8 THEN "none" ELSE IF at'[h] < 12 THEN "initial" ELSE "enriched"
      BY <2>1
    <2>9. /\ at'[h] = 12 /\ ~ wrote'[h] => stamp' = "enriched"
          /\ dialect = "sqlite" => made'[h] = {} /\ ~ wrote'[h]
          /\ h \in Scripted /\ pc'[h] \in {"import", "serving"} => stamp' = "enriched"
      BY <2>1, <2>2, <2>3, <2>4 DEF Forward, UpgradeInv, ServingIsMigrated
    <2> QED
      BY <2>2, <2>4, <2>6, <2>7, <2>8, <2>9, HostStep
  <1> QED
    BY <1>1, <1>2

\* A commit publishes what its transaction has stamped and made, and leaves the
\* last revision in the table.
LEMMA CommitInv ==
  ASSUME TypeOK, UpgradeInv, NEW h \in Hosts, at[h] = 12, Publish(h), NEW l, Finish(h, l),
         UNCHANGED <<dialect, swallowed>>
  PROVE  UpgradeInv'
  <1>1. rev[h] = "enriched" /\ stamp' = "enriched"
    BY DEF UpgradeInv, RevisionOfPlace, OwnStamp, Publish, TypeOK
  <1>2. Forward
    BY <1>1 DEF Forward, Publish
  <1>3. StampedIsMigrated'
    BY DEF UpgradeInv, PlanDone, StampedIsMigrated, Publish, Reach, Initial, Enriched, Tables
  <1> QED
    BY <1>1, <1>2, <1>3, FinishInv

\* Every step keeps the invariant.
LEMMA NextUpgrade == TypeOK /\ UpgradeInv /\ [Next]_vars => UpgradeInv'
  <1> SUFFICES ASSUME TypeOK, UpgradeInv, [Next]_vars PROVE UpgradeInv'
    OBVIOUS
  <1>1. ASSUME NEW h \in Hosts, Upgrade(h) PROVE UpgradeInv'
    <2>1. CASE ReadRevision(h)
      BY <2>1, ReadInv
    <2>2. CASE CheckVersionTable(h) \/ \E s \in Tables : Wait(h, s)
      BY <2>2, LookInv
    <2>3. CASE CreateVersionTable(h)
      BY <2>3, RaiseInv, CreateInv DEF CreateVersionTable, About, Objects
    <2>4. ASSUME NEW s \in Tables, CreateTable(h, s) PROVE UpgradeInv'
      BY <2>4, RaiseInv, CreateInv DEF CreateTable, About, Objects
    <2>5. ASSUME NEW s \in Columns, AddColumn(h, s) PROVE UpgradeInv'
      BY <2>5, CreateInv DEF AddColumn, Objects
    <2>6. ASSUME NEW s \in Stamps, WriteStamp(h, s) PROVE UpgradeInv'
      BY <2>6, StampInv
    <2>7. CASE Commit(h)
      BY <2>7, CommitInv DEF Commit
    <2> QED
      BY <1>1, <2>1, <2>2, <2>3, <2>4, <2>5, <2>6, <2>7 DEF Upgrade
  <1>2. ASSUME NEW h \in Hosts, Start(h) PROVE UpgradeInv'
    <2>1. h \in Scripted => pc'[h] = "script"
      BY <1>2 DEF Start, TypeOK
    <2>2. \A g \in Hosts \ {h} : pc'[g] = pc[g]
      BY <1>2 DEF Start, TypeOK
    <2>3. ServingIsMigrated'
      BY <1>2, <2>1, <2>2, StartupAssumption DEF Start, UpgradeInv, ServingIsMigrated, dbVars
    <2> QED
      BY <1>2, <2>3
      DEF Start, UpgradeInv, RevisionOfPlace, PlanDone, OwnStamp, StampedIsMigrated, Reach, dbVars, runVars
  <1>3. ASSUME NEW h \in Hosts, NEW s \in Columns, AlterFails(h, s) PROVE UpgradeInv'
    <2>1. s \notin Stamps /\ s # "check" /\ s \in Reach(h)'
      BY <1>3 DEF Columns, Stamps, Reach, AlterFails, dbVars
    <2> QED
      BY <1>3, <2>1, AdvanceInv DEF AlterFails, dbVars
  <1>4. ASSUME NEW h \in Hosts, DatabaseFails(h) PROVE UpgradeInv'
    BY <1>4, RaiseInv DEF DatabaseFails
  <1>5. ASSUME NEW h \in Hosts, CommitAnswerLost(h) PROVE UpgradeInv'
    BY <1>5, CommitInv DEF CommitAnswerLost
  <1>6. ASSUME NEW h \in Hosts, Kill(h) PROVE UpgradeInv'
    <2>1. Forward /\ StampedIsMigrated'
      BY <1>6 DEF Kill, Forward, dbVars, UpgradeInv, StampedIsMigrated
    <2> QED
      BY <1>6, <2>1, FinishInv DEF Kill
  <1>7. CASE UNCHANGED vars
    BY <1>7
    DEF vars, dbVars, runVars, UpgradeInv, RevisionOfPlace, PlanDone, OwnStamp, StampedIsMigrated,
        ServingIsMigrated, Reach
  <1> QED
    BY <1>1, <1>2, <1>3, <1>4, <1>5, <1>6, <1>7 DEF Next

\* The invariant holds in every reachable state.
LEMMA UpgradeInvariant == Spec => [](TypeOK /\ UpgradeInv)
  BY StartupTypeCorrect, InitUpgrade, NextUpgrade, PTL DEF Spec

\* However many hosts upgrade at once, fail, lose answers or are killed, a revision
\* in alembic_version has its tables and columns, but for those SQLite passed over.
THEOREM StampMeansSchema == Spec => []StampedIsMigrated
  <1>1. UpgradeInv => StampedIsMigrated
    BY DEF UpgradeInv
  <1> QED
    BY <1>1, UpgradeInvariant, PTL

\* A container that has passed its script finds the last revision, for good.
THEOREM ServedSchema == Spec => []ServingIsMigrated
  <1>1. UpgradeInv => ServingIsMigrated
    BY DEF UpgradeInv
  <1> QED
    BY <1>1, UpgradeInvariant, PTL

-----------------------------------------------------------------------------
(***************************************************************************)
(* The refinement.  That a commit publishes a whole upgrade, and that a       *)
(* revision goes up only, is a matter of transactions: TransactionInv says    *)
(* what the locks of the revision's row make of them.                        *)
(***************************************************************************)

\* Of the transactions on the way at most one has stamped, and the revision it started
\* from is still the one in the table; one that has not stamped when it gets to its commit
\* has made nothing; and a revision, or a place behind the check, has its version table.
TransactionInv ==
  /\ stamp # "none" => "alembic_version" \in objs
  /\ \A h \in Hosts :
       /\ at[h] >= 3 => "alembic_version" \in objs \cup made[h]
       /\ at[h] = 0 \/ (at[h] = 12 /\ ~ wrote[h]) => made[h] = {}
       /\ wrote[h] => stamp # "enriched" /\ at[h] >= 8 /\ \A g \in Hosts \ {h} : ~ wrote[g]

\* True of the databases a start may find.
LEMMA InitTransaction == Init => TransactionInv
  BY DEF Init, TransactionInv

\* What h has to show for its step.
LEMMA OwnTransaction ==
  ASSUME TypeOK, TransactionInv, NEW h \in Hosts, \A g \in Hosts \ {h} : Still(g),
         objs \subseteq objs',
         stamp' # "none" => "alembic_version" \in objs',
         at'[h] >= 3 => "alembic_version" \in objs' \cup made'[h],
         at'[h] = 0 \/ (at'[h] = 12 /\ ~ wrote'[h]) => made'[h] = {},
         wrote'[h] => stamp' # "enriched" /\ at'[h] >= 8,
         \A g \in Hosts \ {h} : wrote[g] => stamp' # "enriched" /\ ~ wrote'[h]
  PROVE  TransactionInv'
  <1> SUFFICES ASSUME NEW k \in Hosts
               PROVE  /\ at'[k] >= 3 => "alembic_version" \in objs' \cup made'[k]
                      /\ at'[k] = 0 \/ (at'[k] = 12 /\ ~ wrote'[k]) => made'[k] = {}
                      /\ wrote'[k] => /\ stamp' # "enriched" /\ at'[k] >= 8
                                      /\ \A g \in Hosts \ {k} : ~ wrote'[g]
    BY DEF TransactionInv
  <1>1. CASE k = h
    BY <1>1 DEF Still
  <1>2. CASE k # h
    <2>1. /\ at'[k] = at[k] /\ made'[k] = made[k] /\ wrote'[k] = wrote[k]
          /\ \A g \in Hosts \ {h} : wrote'[g] = wrote[g]
      BY <1>2 DEF Still
    <2>2. wrote[k] => at[k] >= 8 /\ \A g \in Hosts \ {k} : ~ wrote[g]
      BY DEF TransactionInv
    <2>3. wrote'[k] => \A g \in Hosts \ {k} : ~ wrote'[g]
      BY <1>2, <2>1, <2>2
    <2> QED
      BY <1>2, <2>1, <2>2, <2>3 DEF TransactionInv
  <1> QED
    BY <1>1, <1>2

\* A transaction that ends without a commit, or had nothing to commit.
LEMMA FinishTransaction ==
  ASSUME TypeOK, TransactionInv, NEW h \in Hosts, NEW l, Finish(h, l), UNCHANGED <<objs, stamp>>
  PROVE  TransactionInv'
  <1>1. /\ \A g \in Hosts \ {h} : Still(g)
        /\ at'[h] = 0 /\ made'[h] = {} /\ wrote'[h] = FALSE
    BY DEF Finish, Still, TypeOK
  <1> QED
    BY <1>1, OwnTransaction DEF TransactionInv

\* A statement that is no stamp, done or passed over.
LEMMA AdvanceTransaction ==
  ASSUME TypeOK, UpgradeInv, TransactionInv, NEW h \in Hosts, NEW s, About(h, s),
         s \notin Stamps, s # "check",
         Advance(h), UNCHANGED <<stamp, rev, wrote>>, objs \subseteq objs',
         made[h] \subseteq made'[h], \A g \in Hosts \ {h} : made'[g] = made[g],
         s = "alembic_version" => s \in objs' \cup made'[h]
  PROVE  TransactionInv'
  <1>0. at[h] \in 0..12
    BY DEF TypeOK
  <1>1. /\ \A g \in Hosts \ {h} : Still(g)
        /\ at'[h] = at[h] + 1 /\ wrote'[h] = wrote[h]
    BY DEF Advance, Still, TypeOK
  <1>2. at[h] \in {2, 3, 4, 5, 6, 8, 9, 10} /\ s = Plan[at[h]]
    BY <1>0 DEF About, Plan, Stamps
  <1>3. at'[h] >= 3 => "alembic_version" \in objs' \cup made'[h]
    BY <1>1, <1>2 DEF TransactionInv, Plan
  <1>4. at'[h] # 0 /\ at'[h] # 12
    BY <1>1, <1>2
  <1>5. wrote'[h] => stamp' # "enriched" /\ at'[h] >= 8
    BY <1>1, <1>2 DEF TransactionInv
  <1>6. \A g \in Hosts \ {h} : wrote[g] => stamp' # "enriched" /\ ~ wrote'[h]
    BY <1>1 DEF TransactionInv
  <1>7. stamp' # "none" => "alembic_version" \in objs'
    BY DEF TransactionInv
  <1> QED
    BY <1>1, <1>3, <1>4, <1>5, <1>6, <1>7, OwnTransaction

\* CREATE and ADD COLUMN are such statements, and so is leaving alone what exists.
LEMMA CreateTransaction ==
  ASSUME TypeOK, UpgradeInv, TransactionInv, NEW h \in Hosts, NEW s \in Objects, About(h, s),
         Create(h, s) \/ (Skip(h) /\ Exists(h, s))
  PROVE  TransactionInv'
  <1>1. s \notin Stamps /\ s # "check"
    BY DEF Objects, Tables, Columns, Stamps
  <1>2. CASE Create(h, s)
    <2>1. /\ Advance(h) /\ UNCHANGED <<stamp, rev, wrote>> /\ objs \subseteq objs'
          /\ s \in objs' \cup made'[h]
          /\ made[h] \subseteq made'[h] /\ \A g \in Hosts \ {h} : made'[g] = made[g]
      BY <1>2 DEF Create, TypeOK
    <2> QED
      BY <1>1, <2>1, AdvanceTransaction
  <1>3. CASE Skip(h) /\ Exists(h, s)
    <2>1. /\ Advance(h) /\ UNCHANGED <<stamp, rev, wrote>> /\ objs \subseteq objs'
          /\ s \in objs' \cup made'[h]
          /\ made[h] \subseteq made'[h] /\ \A g \in Hosts \ {h} : made'[g] = made[g]
      BY <1>3 DEF Skip, Exists, dbVars
    <2> QED
      BY <1>1, <2>1, AdvanceTransaction
  <1> QED
    BY <1>2, <1>3

\* The row of the revision is locked by the transaction that writes it.
LEMMA StampTransaction ==
  ASSUME TypeOK, UpgradeInv, TransactionInv, NEW h \in Hosts, NEW s \in Stamps, WriteStamp(h, s)
  PROVE  TransactionInv'
  <1>0. at[h] \in 0..12 /\ About(h, s) /\ stamp \in Stamps /\ wrote[h] \in BOOLEAN
    BY DEF TypeOK, WriteStamp
  <1>1. CASE ~ (wrote[h] \/ stamp = rev[h])
    <2>1. Raise(h)
      BY <1>1 DEF WriteStamp
    <2> QED
      BY <2>1, FinishTransaction DEF Raise, dbVars
  <1>2. CASE wrote[h] \/ stamp = rev[h]
    <2>1. /\ \/ at[h] = 7 /\ s = "initial" /\ rev[h] = "none"
             \/ at[h] = 11 /\ s = "enriched" /\ rev[h] = "initial"
          /\ at'[h] = at[h] + 1
      BY <1>0, <1>2 DEF WriteStamp, Advance, About, Plan, Stamps, TypeOK, UpgradeInv, RevisionOfPlace
    <2>2. /\ \A g \in Hosts \ {h} : Still(g) /\ ~ wrote[g]
          /\ made' = made /\ objs' = objs
      BY <1>0, <1>2 DEF WriteStamp, Advance, Still, TypeOK, Held
    <2>3. stamp # "enriched"
      BY <1>2, <2>1 DEF TransactionInv
    <2>4. "alembic_version" \in objs \cup made[h]
      BY <2>1 DEF TransactionInv
    <2>5. CASE dialect = "sqlite"
      <3>1. made[h] = {} /\ wrote' = wrote /\ ~ wrote[h]
        BY <1>2, <2>5 DEF WriteStamp, UpgradeInv, OwnStamp
      <3> QED
        BY <2>1, <2>2, <2>4, <3>1, OwnTransaction
    <2>6. CASE dialect # "sqlite"
      <3>1. stamp' = stamp /\ wrote'[h] = TRUE
        BY <1>2, <2>6 DEF WriteStamp, TypeOK
      <3>2. stamp' # "none" => "alembic_version" \in objs'
        BY <2>2, <3>1 DEF TransactionInv
      <3> QED
        BY <2>1, <2>2, <2>3, <2>4, <3>1, <3>2, OwnTransaction
    <2> QED
      BY <2>5, <2>6
  <1> QED
    BY <1>1, <1>2

\* The commit of the one that has stamped leaves nobody who has.
LEMMA PublishTransaction ==
  ASSUME TypeOK, UpgradeInv, TransactionInv, NEW h \in Hosts, at[h] = 12, Publish(h),
         NEW l, Finish(h, l)
  PROVE  TransactionInv'
  <1>1. /\ \A g \in Hosts \ {h} : Still(g)
        /\ at'[h] = 0 /\ made'[h] = {} /\ wrote'[h] = FALSE
    BY DEF Finish, Still, TypeOK
  <1>2. /\ objs' = objs \cup made[h] /\ "alembic_version" \in objs'
    BY DEF Publish, TransactionInv
  <1>3. \A g \in Hosts \ {h} : wrote[g] => stamp' # "enriched"
    BY DEF Publish, TransactionInv
  <1> QED
    BY <1>1, <1>2, <1>3, OwnTransaction

\* Every step keeps it.
LEMMA NextTransaction == TypeOK /\ UpgradeInv /\ TransactionInv /\ [Next]_vars => TransactionInv'
  <1> SUFFICES ASSUME TypeOK, UpgradeInv, TransactionInv, [Next]_vars PROVE TransactionInv'
    OBVIOUS
  <1>a. ASSUME NEW h \in Hosts, Raise(h) PROVE TransactionInv'
    BY <1>a, FinishTransaction DEF Raise, dbVars
  <1>1. ASSUME NEW h \in Hosts, Upgrade(h) PROVE TransactionInv'
    <2>0. at[h] \in 0..12 /\ stamp \in {"none", "initial", "enriched"}
      BY DEF TypeOK, Stamps
    <2>1. CASE ReadRevision(h)
      <3>1. /\ \A g \in Hosts \ {h} : Still(g)
            /\ at[h] = 0 /\ at'[h] = Begin[stamp]
            /\ made' = made /\ wrote' = wrote /\ stamp' = stamp /\ objs' = objs
        BY <2>1 DEF ReadRevision, Still, TypeOK, dbVars
      <3>2. /\ made[h] = {} /\ ~ wrote[h]
        BY <3>1 DEF TransactionInv
      <3>3. at'[h] >= 3 => stamp # "none"
        BY <2>0, <3>1 DEF Begin
      <3> QED
        BY <3>1, <3>2, <3>3, OwnTransaction DEF TransactionInv
    <2>2. CASE CheckVersionTable(h) \/ \E s \in Tables : Wait(h, s)
      <3>1. /\ \A g \in Hosts \ {h} : Still(g)
            /\ made' = made /\ wrote' = wrote /\ stamp' = stamp /\ objs' = objs
        BY <2>2 DEF CheckVersionTable, Wait, Still, TypeOK, dbVars
      <3>2. \/ at'[h] = at[h]
            \/ at[h] = 1 /\ at'[h] = 2
            \/ at[h] = 1 /\ at'[h] = 3 /\ Exists(h, "alembic_version")
        BY <2>0, <2>2, Places DEF CheckVersionTable, Wait, TypeOK
      <3>3. ~ wrote[h] \/ at'[h] = at[h]
        BY <3>2 DEF TransactionInv
      <3> QED
        BY <3>1, <3>2, <3>3, OwnTransaction DEF TransactionInv, Exists
    <2>3. CASE CreateVersionTable(h)
      BY <1>a, <2>3, CreateTransaction DEF CreateVersionTable, About, Objects
    <2>4. ASSUME NEW s \in Tables, CreateTable(h, s) PROVE TransactionInv'
      BY <1>a, <2>4, CreateTransaction DEF CreateTable, About, Objects
    <2>5. ASSUME NEW s \in Columns, AddColumn(h, s) PROVE TransactionInv'
      BY <2>5, CreateTransaction DEF AddColumn, Objects
    <2>6. ASSUME NEW s \in Stamps, WriteStamp(h, s) PROVE TransactionInv'
      BY <2>6, StampTransaction
    <2>7. CASE Commit(h)
      BY <2>7, PublishTransaction DEF Commit
    <2> QED
      BY <1>1, <2>1, <2>2, <2>3, <2>4, <2>5, <2>6, <2>7 DEF Upgrade
  <1>2. ASSUME NEW h \in Hosts, Start(h) PROVE TransactionInv'
    BY <1>2 DEF Start, TransactionInv, dbVars, runVars
  <1>3. ASSUME NEW h \in Hosts, NEW s \in Columns, AlterFails(h, s) PROVE TransactionInv'
    <2>1. s \notin Stamps /\ s # "check" /\ s # "alembic_version"
      BY DEF Columns, Stamps
    <2> QED
      BY <1>3, <2>1, AdvanceTransaction DEF AlterFails, dbVars
  <1>4. ASSUME NEW h \in Hosts, DatabaseFails(h) PROVE TransactionInv'
    BY <1>a, <1>4 DEF DatabaseFails
  <1>5. ASSUME NEW h \in Hosts, CommitAnswerLost(h) PROVE TransactionInv'
    BY <1>5, PublishTransaction DEF CommitAnswerLost
  <1>6. ASSUME NEW h \in Hosts, Kill(h) PROVE TransactionInv'
    BY <1>6, FinishTransaction DEF Kill, dbVars
  <1>7. CASE UNCHANGED vars
    BY <1>7 DEF vars, dbVars, runVars, TransactionInv
  <1> QED
    BY <1>1, <1>2, <1>3, <1>4, <1>5, <1>6, <1>7 DEF Next

-----------------------------------------------------------------------------
\* What a step of Startup may do to the database, in the words of SchemaUpgrade.
DatabaseStep ==
  \/ \E p \in Objects : Schema!AddPart(p)
  \/ Schema!GoUp \/ Schema!Complete
  \/ UNCHANGED <<objs \cup swallowed, Level[stamp]>>

\* Most steps leave it alone.
LEMMA Pass ==
  ASSUME UNCHANGED <<dbVars, swallowed>>
  PROVE  DatabaseStep
  BY DEF dbVars, DatabaseStep

\* Only on SQLite is a statement seen, or passed over, before the commit.
LEMMA SqlitePart ==
  ASSUME TypeOK, NEW h \in Hosts, NEW s \in Objects, Create(h, s) \/ AlterFails(h, s)
  PROVE  DatabaseStep
  <1>1. CASE dialect = "sqlite"
    <2>1. /\ (objs \cup swallowed)' = objs \cup swallowed \cup {s}
          /\ stamp' = stamp
      BY <1>1 DEF Create, AlterFails, dbVars
    <2>2. dialect # "postgresql"
      BY <1>1
    <2>3. Schema!AddPart(s)
      BY <2>1, <2>2 DEF Schema!AddPart
    <2> QED
      BY <2>3 DEF DatabaseStep
  <1>2. CASE dialect # "sqlite"
    <2>1. UNCHANGED <<dbVars, swallowed>>
      BY <1>2 DEF Create, AlterFails, dbVars
    <2> QED
      BY <2>1, Pass
  <1> QED
    BY <1>1, <1>2

\* The values of the mapping.
LEMMA NeedsOf ==
  /\ RevisionNeeds[0] = {}
  /\ RevisionNeeds[1] = Initial \cup {"alembic_version"}
  /\ RevisionNeeds[2] = Objects
  /\ Objects = Initial \cup Enriched \cup {"alembic_version"}
  /\ Level["none"] = 0 /\ Level["initial"] = 1 /\ Level["enriched"] = 2
  BY DEF RevisionNeeds, Objects, Initial, Enriched, Columns, Level

\* What is there before a stamp.
LEMMA DoneBefore ==
  ASSUME TypeOK, UpgradeInv, TransactionInv, NEW h \in Hosts
  PROVE  /\ at[h] >= 7 => RevisionNeeds[1] \subseteq Reach(h)
         /\ at[h] >= 11 => Objects \subseteq Reach(h)
  <1>1. at[h] \in 0..12
    BY DEF TypeOK
  <1>2. at[h] >= 7 => Initial \subseteq Reach(h) /\ "alembic_version" \in Reach(h)
    BY <1>1 DEF UpgradeInv, PlanDone, TransactionInv, Initial, Tables, Reach
  <1>3. at[h] >= 11 => Enriched \subseteq Reach(h)
    BY <1>1 DEF UpgradeInv, PlanDone, Enriched
  <1> QED
    BY <1>1, <1>2, <1>3, NeedsOf

\* On SQLite a stamp goes up by one, on PostgreSQL it stays in the transaction.
LEMMA SqliteStamp ==
  ASSUME TypeOK, UpgradeInv, TransactionInv, NEW h \in Hosts, NEW s \in Stamps, WriteStamp(h, s)
  PROVE  DatabaseStep
  <1>0. at[h] \in 0..12 /\ About(h, s)
    BY DEF TypeOK, WriteStamp
  <1>1. CASE ~ (wrote[h] \/ stamp = rev[h])
    BY <1>1, Pass DEF WriteStamp, Raise
  <1>2. CASE (wrote[h] \/ stamp = rev[h]) /\ dialect # "sqlite"
    BY <1>2, Pass DEF WriteStamp, dbVars
  <1>3. CASE (wrote[h] \/ stamp = rev[h]) /\ dialect = "sqlite"
    <2>1. /\ stamp' = s /\ stamp = rev[h] /\ made[h] = {}
          /\ (objs \cup swallowed)' = objs \cup swallowed
      BY <1>3 DEF WriteStamp, UpgradeInv, OwnStamp
    <2>2. \/ at[h] = 7 /\ s = "initial" /\ rev[h] = "none"
          \/ at[h] = 11 /\ s = "enriched" /\ rev[h] = "initial"
      BY <1>0 DEF About, Plan, Stamps, UpgradeInv, RevisionOfPlace
    <2>3. /\ Level[stamp] < 2 /\ Level[stamp'] = Level[stamp] + 1
          /\ RevisionNeeds[Level[stamp']] \subseteq objs \cup swallowed
      BY <2>1, <2>2, NeedsOf, DoneBefore DEF Reach
    <2>4. Schema!GoUp
      BY <1>3, <2>1, <2>3 DEF Schema!GoUp
    <2> QED
      BY <2>4 DEF DatabaseStep
  <1> QED
    BY <1>1, <1>2, <1>3

\* The commit of a transaction that has stamped brings all that was missing; any other is
\* the commit of nothing.
LEMMA PublishCompletes ==
  ASSUME TypeOK, UpgradeInv, TransactionInv, NEW h \in Hosts, at[h] = 12, Publish(h),
         UNCHANGED swallowed
  PROVE  DatabaseStep
  <1>1. CASE wrote[h]
    <2>1. dialect = "postgresql"
      BY <1>1, StartupAssumption DEF UpgradeInv, OwnStamp, TypeOK
    <2>2. stamp' = "enriched" /\ stamp \in {"none", "initial"}
      BY <1>1 DEF Publish, UpgradeInv, RevisionOfPlace, TransactionInv, TypeOK, Stamps
    <2>3. (objs \cup swallowed)' = Objects
      <3>1. (objs \cup swallowed)' = Reach(h)
        BY DEF Publish, Reach
      <3>2. Objects \subseteq Reach(h)
        BY DoneBefore
      <3>3. Reach(h) \subseteq Objects
        BY DEF TypeOK, Reach, Objects
      <3> QED
        BY <3>1, <3>2, <3>3
    <2>4. Level[stamp] < 2 /\ Level[stamp'] = 2
      BY <2>2, NeedsOf
    <2>5. Schema!Complete
      BY <2>1, <2>3, <2>4 DEF Schema!Complete
    <2> QED
      BY <2>5 DEF DatabaseStep
  <1>2. CASE ~ wrote[h]
    <2>1. UNCHANGED <<dbVars, swallowed>>
      BY <1>2 DEF Publish, TransactionInv, dbVars
    <2> QED
      BY <2>1, Pass
  <1> QED
    BY <1>1, <1>2

\* Every step is one of these.
LEMMA NextDatabase ==
  ASSUME TypeOK, UpgradeInv, TransactionInv, [Next]_vars
  PROVE  DatabaseStep /\ dialect' = dialect
  <1>1. ASSUME NEW h \in Hosts, Upgrade(h) PROVE DatabaseStep /\ dialect' = dialect
    <2>1. CASE ReadRevision(h) \/ CheckVersionTable(h) \/ \E s \in Tables : Wait(h, s)
      BY <2>1, Pass DEF ReadRevision, CheckVersionTable, Wait
    <2>2. CASE CreateVersionTable(h)
      BY <2>2, Pass, SqlitePart DEF CreateVersionTable, Raise, Create, Advance, Objects
    <2>3. ASSUME NEW s \in Tables, CreateTable(h, s) PROVE DatabaseStep /\ dialect' = dialect
      BY <2>3, Pass, SqlitePart DEF CreateTable, Raise, Skip, Create, Advance, Objects
    <2>4. ASSUME NEW s \in Columns, AddColumn(h, s) PROVE DatabaseStep /\ dialect' = dialect
      BY <2>4, Pass, SqlitePart DEF AddColumn, Skip, Create, Advance, Objects
    <2>5. ASSUME NEW s \in Stamps, WriteStamp(h, s) PROVE DatabaseStep /\ dialect' = dialect
      BY <2>5, SqliteStamp DEF WriteStamp, Raise, Advance
    <2>6. CASE Commit(h)
      BY <2>6, PublishCompletes DEF Commit
    <2> QED
      BY <1>1, <2>1, <2>2, <2>3, <2>4, <2>5, <2>6 DEF Upgrade
  <1>2. ASSUME NEW h \in Hosts, Start(h) \/ DatabaseFails(h) \/ Kill(h)
        PROVE  DatabaseStep /\ dialect' = dialect
    BY <1>2, Pass DEF Start, DatabaseFails, Raise, Kill
  <1>3. ASSUME NEW h \in Hosts, NEW s \in Columns, AlterFails(h, s)
        PROVE  DatabaseStep /\ dialect' = dialect
    BY <1>3, SqlitePart DEF AlterFails, Advance, Objects
  <1>4. ASSUME NEW h \in Hosts, CommitAnswerLost(h) PROVE DatabaseStep /\ dialect' = dialect
    BY <1>4, PublishCompletes DEF CommitAnswerLost
  <1>5. CASE UNCHANGED vars
    BY <1>5, Pass DEF vars
  <1> QED
    BY <1>1, <1>2, <1>3, <1>4, <1>5 DEF Next

\* Who gets past a script finds the last revision, by ServingIsMigrated.
LEMMA StepUpgrades ==
  ASSUME TypeOK, UpgradeInv, TransactionInv, [Next]_vars, TypeOK', UpgradeInv'
  PROVE  Schema!UpgradeNext
  <1> DEFINE admitted == {h \in Scripted : pc[h] \in {"import", "serving"}}
  <1>1. admitted' \subseteq admitted \cup (IF Level[stamp'] = 2 THEN Scripted ELSE {})
    <2>1. CASE stamp' = "enriched"
      BY <2>1, NeedsOf
    <2>2. CASE stamp' # "enriched"
      BY <2>2 DEF UpgradeInv, ServingIsMigrated
    <2> QED
      BY <2>1, <2>2
  <1>2. Schema!Admit
    BY <1>1 DEF Schema!Admit
  <1>3. DatabaseStep /\ dialect' = dialect
    BY NextDatabase
  <1> QED
    BY <1>2, <1>3 DEF DatabaseStep, Schema!UpgradeNext

\* The mapping of an initial state is one.
LEMMA InitUpgrades == Init => Schema!UpgradeInit
  <1> SUFFICES ASSUME Init PROVE Schema!UpgradeInit
    OBVIOUS
  <1>1. /\ Level[stamp] \in 0..2
        /\ objs \cup swallowed \in SUBSET Objects
        /\ RevisionNeeds[Level[stamp]] \subseteq objs \cup swallowed
    BY NeedsOf DEF Init, Objects, Initial
  <1>2. {h \in Scripted : pc[h] \in {"import", "serving"}} = {}
    BY StartupAssumption DEF Init
  <1> QED
    BY <1>1, <1>2 DEF Schema!UpgradeInit

\* The start implements SchemaUpgrade, for any containers and any failures: alembic's revision
\* is never taken back, nobody sees half of an upgrade on PostgreSQL, and a script lets its
\* container go on only to the last revision.
THEOREM ImplementsSchemaUpgrade == Spec => SchemaUpgraded
  <1>1. Init => Schema!UpgradeInit
    BY InitUpgrades
  <1>2. TypeOK /\ UpgradeInv /\ TransactionInv /\ TypeOK' /\ UpgradeInv' /\ [Next]_vars
          => [Schema!UpgradeNext]_(Schema!upgradeVars)
    BY StepUpgrades
  <1> QED
    BY <1>1, <1>2, UpgradeInvariant, InitTransaction, NextTransaction, PTL
    DEF Spec, SchemaUpgraded, Schema!UpgradeSpec
=============================================================================
