------------------------------- MODULE Startup -------------------------------
(***************************************************************************)
(* How the program starts on a database: each container runs its script      *)
(* (start.sh, start-worker.sh), which upgrades the schema with alembic and    *)
(* then starts processes that import app.py, whose _init_db upgrades it       *)
(* again.  The containers start together and docker restarts one that ends.   *)
(* alembic itself is external: it reads the revision, creates its version     *)
(* table, runs the statements of the missing revisions and stamps each; on    *)
(* PostgreSQL in one transaction (env.py), on SQLite statement by statement.  *)
(***************************************************************************)
EXTENDS Naturals, Sequences, FiniteSets

CONSTANTS Hosts,      \* what starts: containers, or processes started by hand
          Scripted,   \* those that run a script before the program
          Dialects,   \* the databases considered
          MaxFaults   \* bound: failures and kills together

ASSUME StartupAssumption ==
  /\ Scripted \subseteq Hosts
  /\ Dialects \subseteq {"postgresql", "sqlite"}
  /\ MaxFaults \in Nat

Tables  == {"sessions", "video", "queue_items"}
Columns == {"sha256", "duration", "bitrate", "has_thumbnail"}
Objects == {"alembic_version"} \cup Tables \cup Columns

\* Revision 43a3414f1996 and revision 3f7c1a9d2b4e: what they create.
Initial  == Tables \cup {"sha256"}
Enriched == {"duration", "bitrate", "has_thumbnail"}
Stamps   == {"none", "initial", "enriched"}

\* Mutant: the second revision is stamped before its statements.
Plan_stampFirst ==
  <<"check", "alembic_version", "sessions", "video", "queue_items", "sha256", "initial",
    "enriched", "duration", "bitrate", "has_thumbnail">>

\* What an upgrade of an empty database executes, in order.
Plan ==
  <<"check", "alembic_version", "sessions", "video", "queue_items", "sha256", "initial",
    "duration", "bitrate", "has_thumbnail", "enriched">>

\* Where an upgrade from each revision starts in it.
Begin == [none |-> 1, initial |-> 8, enriched |-> 12]

VARIABLES dialect,    \* the database that is used
          objs,       \* tables and columns that exist, committed
          stamp,      \* the revision in alembic_version, committed
          pc,         \* pc[h]: down, in its script, importing app.py, or serving
          at,         \* at[h]: its place in Plan; 0 before it has read the revision
          rev,        \* rev[h]: the revision its upgrade believes in
          made,       \* made[h]: what its open transaction has created
          wrote,      \* wrote[h]: its open transaction has stamped
          waited,     \* waited[h]: its statement had to wait for another transaction
          swallowed,  \* history: columns whose ALTER failed and was passed over
          faults      \* how much of the bound is used

dbVars  == <<objs, stamp>>
runVars == <<at, rev, made, wrote, waited>>
vars == <<dialect, dbVars, pc, runVars, swallowed, faults>>

TypeOK ==
  /\ dialect \in Dialects
  /\ objs \in SUBSET Objects
  /\ stamp \in Stamps
  /\ pc \in [Hosts -> {"down", "script", "import", "serving"}]
  /\ at \in [Hosts -> 0..12]
  /\ rev \in [Hosts -> Stamps]
  /\ made \in [Hosts -> SUBSET Objects]
  /\ wrote \in [Hosts -> BOOLEAN]
  /\ waited \in [Hosts -> BOOLEAN]
  /\ swallowed \in SUBSET Columns
  /\ faults \in 0..MaxFaults

\* A new database, one that was downgraded, one with the tables of a version before
\* alembic, or one that was last upgraded before the second revision.
Init ==
  /\ dialect \in Dialects
  /\ \/ stamp = "none" /\ objs \in {{}, {"alembic_version"}, Tables}
     \/ stamp = "initial" /\ objs = Initial \cup {"alembic_version"}
  /\ pc = [h \in Hosts |-> "down"]
  /\ at = [h \in Hosts |-> 0]
  /\ rev = [h \in Hosts |-> "none"]
  /\ made = [h \in Hosts |-> {}]
  /\ wrote = [h \in Hosts |-> FALSE]
  /\ waited = [h \in Hosts |-> FALSE]
  /\ swallowed = {}
  /\ faults = 0

-----------------------------------------------------------------------------
\* One upgrade.

Running(h) == pc[h] \in {"script", "import"}

\* Host h is about to execute statement s.
About(h, s) == Running(h) /\ at[h] \in 1..11 /\ Plan[at[h]] = s

\* Another transaction has touched what statement s touches: the row of the
\* revision, the table video, or a table of the same name.
Held(h, s) ==
  \E g \in Hosts \ {h} :
    IF s \in Stamps THEN wrote[g]
    ELSE made[g] \cap (IF s \in Columns THEN Columns \cup {"video"} ELSE {s}) # {}

Exists(h, s) == s \in objs \cup made[h]

\* The transaction is over, and h is in phase l, at the start of an upgrade.
Finish(h, l) ==
  /\ pc' = [pc EXCEPT ![h] = l]
  /\ at' = [at EXCEPT ![h] = 0]
  /\ rev' = [rev EXCEPT ![h] = "none"]
  /\ made' = [made EXCEPT ![h] = {}]
  /\ wrote' = [wrote EXCEPT ![h] = FALSE]
  /\ waited' = [waited EXCEPT ![h] = FALSE]

\* Mutant: nothing restarts a container whose script ended with an error.
Raise_noRestart(h) ==
  /\ Finish(h, IF pc[h] = "script" THEN "exited" ELSE "serving")
  /\ UNCHANGED <<dialect, dbVars, swallowed>>

\* Mutant: a script without set -e.
Raise_goesOn(h) ==
  /\ Finish(h, IF pc[h] = "script" THEN "import" ELSE "serving")
  /\ UNCHANGED <<dialect, dbVars, swallowed>>

\* An error ends the script (set -e), while _init_db only logs it.
Raise(h) ==
  /\ Finish(h, IF pc[h] = "script" THEN "down" ELSE "serving")
  /\ UNCHANGED <<dialect, dbVars, swallowed>>

\* On to the next statement.
Advance(h) ==
  /\ at' = [at EXCEPT ![h] = @ + 1]
  /\ waited' = [waited EXCEPT ![h] = FALSE]
  /\ UNCHANGED <<dialect, pc>>

\* Mutant: every statement commits itself, on PostgreSQL too.
Create_autocommit(h, s) ==
  /\ objs' = objs \cup {s}
  /\ Advance(h)
  /\ UNCHANGED <<stamp, rev, made, wrote, swallowed>>

\* The statement takes effect: for everybody on SQLite, inside h's transaction on
\* PostgreSQL.
Create(h, s) ==
  /\ IF dialect = "sqlite"
     THEN objs' = objs \cup {s} /\ UNCHANGED made
     ELSE made' = [made EXCEPT ![h] = @ \cup {s}] /\ UNCHANGED objs
  /\ Advance(h)
  /\ UNCHANGED <<stamp, rev, wrote, swallowed>>

Skip(h) == Advance(h) /\ UNCHANGED <<dbVars, rev, made, wrote, swallowed>>

ReadRevision(h) ==
  /\ Running(h) /\ at[h] = 0
  /\ rev' = [rev EXCEPT ![h] = stamp]
  /\ at' = [at EXCEPT ![h] = Begin[stamp]]
  /\ UNCHANGED <<dialect, dbVars, pc, made, wrote, waited, swallowed, faults>>

\* alembic's version table: looked for, and created when it was not there.
CheckVersionTable(h) ==
  /\ About(h, "check")
  /\ at' = [at EXCEPT ![h] = IF Exists(h, "alembic_version") THEN 3 ELSE 2]
  /\ UNCHANGED <<dialect, dbVars, pc, rev, made, wrote, waited, swallowed, faults>>

CreateVersionTable(h) ==
  /\ About(h, "alembic_version") /\ ~ Held(h, "alembic_version")
  /\ IF Exists(h, "alembic_version") THEN Raise(h) ELSE Create(h, "alembic_version")
  /\ UNCHANGED faults

\* The statement waits for the transaction that has the same table.
Wait(h, s) ==
  /\ About(h, s) /\ Held(h, s) /\ ~ waited[h]
  /\ waited' = [waited EXCEPT ![h] = TRUE]
  /\ UNCHANGED <<dialect, dbVars, pc, at, rev, made, wrote, swallowed, faults>>

\* Mutant: CREATE TABLE without IF NOT EXISTS.
CreateTable_strict(h, s) ==
  /\ About(h, s) /\ ~ Held(h, s)
  /\ IF Exists(h, s) THEN Raise(h) ELSE Create(h, s)
  /\ UNCHANGED faults

\* CREATE TABLE IF NOT EXISTS looks for the table once: a table that was created
\* while the statement waited makes it fail.
CreateTable(h, s) ==
  /\ About(h, s) /\ ~ Held(h, s)
  /\ IF ~ Exists(h, s) THEN Create(h, s)
     ELSE IF waited[h] THEN Raise(h) ELSE Skip(h)
  /\ UNCHANGED faults

\* ADD COLUMN: IF NOT EXISTS on PostgreSQL, and on SQLite an error that is passed
\* over; either way a column that is there is left alone.
AddColumn(h, s) ==
  /\ About(h, s) /\ ~ Held(h, s)
  /\ IF Exists(h, s) THEN Skip(h) ELSE Create(h, s)
  /\ UNCHANGED faults

\* On SQLite every other error is passed over too, a locked database among them.
AlterFails(h, s) ==
  /\ About(h, s) /\ dialect = "sqlite"
  /\ faults < MaxFaults /\ faults' = faults + 1
  /\ swallowed' = swallowed \cup ({s} \ objs)
  /\ Advance(h)
  /\ UNCHANGED <<dbVars, rev, made, wrote>>

\* The row of the revision: an INSERT that must not find one, an UPDATE that must
\* find the revision read before.
WriteStamp(h, s) ==
  /\ About(h, s) /\ ~ Held(h, s)
  /\ IF wrote[h] \/ stamp = rev[h]
     THEN /\ rev' = [rev EXCEPT ![h] = s]
          /\ IF dialect = "sqlite"
             THEN stamp' = s /\ UNCHANGED wrote
             ELSE wrote' = [wrote EXCEPT ![h] = TRUE] /\ UNCHANGED stamp
          /\ Advance(h)
          /\ UNCHANGED <<objs, made, swallowed>>
     ELSE Raise(h)
  /\ UNCHANGED faults

\* What the commit of h's transaction makes of the database.
Publish(h) ==
  /\ objs' = objs \cup made[h]
  /\ stamp' = IF wrote[h] THEN rev[h] ELSE stamp

\* After the script the program is imported, after _init_db it serves.
Commit(h) ==
  /\ Running(h) /\ at[h] = 12
  /\ Publish(h)
  /\ Finish(h, IF pc[h] = "script" THEN "import" ELSE "serving")
  /\ UNCHANGED <<dialect, swallowed, faults>>

-----------------------------------------------------------------------------
\* The environment.

\* A container starts or is started again; its script waits for the database for a
\* minute at most, and goes on.
Start(h) ==
  /\ pc[h] = "down"
  /\ pc' = [pc EXCEPT ![h] = IF h \in Scripted THEN "script" ELSE "import"]
  /\ UNCHANGED <<dialect, dbVars, runVars, swallowed, faults>>

\* The database cannot be reached, or is locked.
DatabaseFails(h) ==
  /\ faults < MaxFaults /\ faults' = faults + 1
  /\ Running(h)
  /\ Raise(h)

\* The commit takes effect and its answer is lost.
CommitAnswerLost(h) ==
  /\ faults < MaxFaults /\ faults' = faults + 1
  /\ Running(h) /\ at[h] = 12
  /\ Publish(h)
  /\ Finish(h, IF pc[h] = "script" THEN "down" ELSE "serving")
  /\ UNCHANGED <<dialect, swallowed>>

Kill(h) ==
  /\ faults < MaxFaults /\ faults' = faults + 1
  /\ pc[h] # "down"
  /\ Finish(h, "down")
  /\ UNCHANGED <<dialect, dbVars, swallowed>>

-----------------------------------------------------------------------------
Upgrade(h) ==
  \/ ReadRevision(h) \/ CheckVersionTable(h) \/ CreateVersionTable(h)
  \/ \E s \in Tables : Wait(h, s) \/ CreateTable(h, s)
  \/ \E s \in Columns : AddColumn(h, s)
  \/ \E s \in Stamps : WriteStamp(h, s)
  \/ Commit(h)

Next ==
  \E h \in Hosts :
    \/ Upgrade(h)
    \/ Start(h)
    \/ \E s \in Columns : AlterFails(h, s)
    \/ DatabaseFails(h) \/ CommitAnswerLost(h) \/ Kill(h)

Spec == Init /\ [][Next]_vars

\* A running upgrade goes on, and docker restarts the containers.
Fairness ==
  /\ \A h \in Hosts : WF_vars(Upgrade(h))
  /\ \A h \in Scripted : WF_vars(Start(h))

FairSpec == Spec /\ Fairness

-----------------------------------------------------------------------------
\* Properties.

\* A revision is never stamped without its tables and columns, whoever upgrades at
\* the same time or is killed within it, unless SQLite's "except: pass" passed over
\* the error of a column that is missing.
StampedIsMigrated ==
  /\ stamp \in {"initial", "enriched"} => Initial \subseteq objs \cup swallowed
  /\ stamp = "enriched" => Enriched \subseteq objs \cup swallowed

\* A container that has passed its script serves the schema of the last revision;
\* its own _init_db, which passes over errors, is never what that depends on.
ServingIsMigrated ==
  \A h \in Scripted : pc[h] \in {"import", "serving"} => stamp = "enriched"

\* Every container comes to serve: the upgrade that loses a race raises, and after
\* the restart finds the work done; one that was cut off is completed by the next.
EventuallyServing == \A h \in Scripted : <>[](pc[h] = "serving")

\* The revisions in their order, with all that each of them has.
Level == [none |-> 0, initial |-> 1, enriched |-> 2]

RevisionNeeds ==
  [n \in 0..2 |-> IF n = 0 THEN {}
                  ELSE IF n = 1 THEN Initial \cup {"alembic_version"} ELSE Objects]

\* What was passed over counts as there: that is what the upgrade believes.
Schema ==
  INSTANCE SchemaUpgrade
    WITH Containers <- Scripted, Parts <- Objects, Last <- 2, Needs <- RevisionNeeds,
         atomic   <- dialect = "postgresql",
         schema   <- objs \cup swallowed,
         revision <- Level[stamp],
         admitted <- {h \in Scripted : pc[h] \in {"import", "serving"}}

\* The start implements SchemaUpgrade: whatever races, fails or is killed, a revision is
\* never taken back, on PostgreSQL (env.py's transaction) no half of an upgrade is ever
\* seen, and a container gets past its script only to the last revision.
SchemaUpgraded == Schema!UpgradeSpec
=============================================================================
