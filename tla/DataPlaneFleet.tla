--------------------------- MODULE DataPlaneFleet ---------------------------
(***************************************************************************)
(* The processes of a deployment starting, dying and starting again: the   *)
(* schema migrations each of them runs first, the identity a query data    *)
(* plane takes for itself, and the two daemon threads it starts, the       *)
(* prewarm consumer and the residency writer that publishes which shards   *)
(* its SSD tier holds.                                                     *)
(*                                                                         *)
(* Postgres is modelled from how it is used: a transaction's changes       *)
(* appear when it commits and vanish when its process dies; an advisory    *)
(* transaction lock goes with the transaction.  The SSD tier (ShardTier)   *)
(* is the set of URIs it holds.  RB_SKIP_MIGRATE is unset except for the   *)
(* one-shot job, which forces its way past it.                             *)
(***************************************************************************)
EXTENDS Integers, FiniteSets, Functions

CONSTANTS
  Procs,        \* data-plane processes, on one CACHE_DIR volume
  Named,        \* those with RB_DP_ID or HOSTNAME set
  Job,          \* scripts/migrate.py
  NoProc,       \* nobody holds the migration lock
  Versions,     \* the migrations, numbered in their order
  LegacyDepths, \* the last version databases of the ledger-less code may have
  Uris,         \* shards
  MaxStarts,    \* bound: starts of processes, all told
  MaxFaults     \* bound: failed calls

ASSUME VersionsAssumption == IsFiniteSet(Versions) /\ Versions \subseteq Nat \ {0}

ASSUME DepthsAssumption == LegacyDepths \subseteq Nat

ASSUME ProcsAssumption == NoProc \notin Procs \cup {Job} /\ Job \notin Procs

Databases == {"control", "recall"}
Starters  == Procs \cup {Job}

VARIABLES
  ledger,   \* schema_migrations of each database; <<>> while there is none
  ran,      \* how often each migration has been executed
  legacy,   \* history: those that code without a ledger had executed
  mlock,    \* holder of the migration advisory lock of each database
  boot,     \* where each process is
  lives,    \* how often each has been started
  idfile,   \* CACHE_DIR/.dp_id: whether it exists, and the id in it (<<>>: empty)
  ident,    \* the id each process goes by, memoised; <<>> before it is resolved
  warm,     \* the shards each process's tier holds
  writer,   \* its residency writer
  registry, \* dp_shard_residency: pairs of id and URI
  prewarms, \* URIs with a PREWARM_SHARD message waiting
  faults    \* history: failed calls

schemaVars == <<ledger, ran, legacy, mlock>>
nameVars   == <<idfile, ident>>
warmVars   == <<warm, writer, registry, prewarms>>
fleetVars == <<schemaVars, boot, lives, nameVars, warmVars, faults>>

Down == [pc |-> "down"]

\* The writer starts without a previous snapshot.
Waiting(previous) == [pc |-> "wait", previous |-> previous]

\* A database is fresh, or was made by code that kept no ledger, with the versions
\* there were at that time: the control database's first five of nine, or all.
FleetInit ==
  /\ ledger = [d \in Databases |-> <<>>]
  /\ \E depth \in LegacyDepths : legacy = {v \in Versions : v <= depth}
  /\ ran = [d \in Databases |->
              [v \in Versions |-> IF d = "control" /\ v \in legacy THEN 1 ELSE 0]]
  /\ mlock = [d \in Databases |-> NoProc]
  /\ boot = [p \in Starters |-> Down]
  /\ lives = [p \in Starters |-> 0]
  /\ idfile = [exists |-> FALSE, id |-> <<>>]
  /\ ident = [p \in Procs |-> <<>>]
  /\ warm = [p \in Procs |-> {}]
  /\ writer = [p \in Procs |-> Waiting({})]
  /\ registry = {} /\ prewarms = {}
  /\ faults = 0

Fault == /\ faults < MaxFaults
         /\ faults' = faults + 1

-----------------------------------------------------------------------------
(* Migrations *)

Migrating(d) == [pc |-> "migrating", db |-> d]

Start(p) ==
  /\ boot[p].pc \in {"down", "finished"}
  /\ FoldFunction(+, 0, lives) < MaxStarts
  /\ lives' = [lives EXCEPT ![p] = @ + 1]
  /\ boot' = [boot EXCEPT ![p] = Migrating("control")]
  /\ UNCHANGED <<schemaVars, nameVars, warmVars, faults>>

\* Version 1 makes the tenants table, by which a legacy schema is recognised.
Legacy(d) == d = "control" /\ \E v \in Versions : ran[d][v] > 0

\* What the transaction finds applied: the ledger, or, when it has to create the
\* ledger, every version if a schema is already there.
Applied(d) == IF ledger[d] # <<>> THEN ledger[d][1]
              ELSE IF Legacy(d) THEN Versions ELSE {}

\* Mutant: the ledger is read before the lock is waited for.
LedgerReadUnlocked(p) ==
  /\ boot[p].pc = "migrating"
  /\ boot' = [boot EXCEPT ![p] = [pc |-> "applying", db |-> boot[p].db,
                                  applied |-> Applied(boot[p].db), done |-> {}]]
  /\ mlock' = [mlock EXCEPT ![boot[p].db] = IF @ = NoProc THEN p ELSE @]
  /\ UNCHANGED <<ledger, ran, legacy, lives, nameVars, warmVars, faults>>

\* pg_advisory_xact_lock blocks; behind it, the ledger is created or read.
LockAndReadLedger(p) ==
  /\ boot[p].pc = "migrating"
  /\ mlock[boot[p].db] = NoProc
  /\ mlock' = [mlock EXCEPT ![boot[p].db] = p]
  /\ boot' = [boot EXCEPT ![p] = [pc |-> "applying", db |-> boot[p].db,
                                  applied |-> Applied(boot[p].db), done |-> {}]]
  /\ UNCHANGED <<ledger, ran, legacy, lives, nameVars, warmVars, faults>>

\* The next version the ledger does not have is executed, inside the transaction.
ApplyNext(p) ==
  /\ boot[p].pc = "applying"
  /\ \E v \in Versions \ (boot[p].applied \cup boot[p].done) :
       /\ \A w \in Versions \ (boot[p].applied \cup boot[p].done) : v <= w
       /\ boot' = [boot EXCEPT ![p].done = @ \cup {v}]
  /\ UNCHANGED <<schemaVars, lives, nameVars, warmVars, faults>>

Unlocked(p) == [d \in Databases |-> IF mlock[d] = p THEN NoProc ELSE mlock[d]]

\* A data plane goes on to start its threads; the job to the recall database, and
\* exits.
AfterCommit(p, d) == CASE p \in Procs                -> [pc |-> "up"]
                       [] p = Job /\ d = "control"   -> Migrating("recall")
                       [] p = Job /\ d = "recall"    -> [pc |-> "finished"]

\* The commit: scripts, ledger rows and the default tenant's row together.
CommitMigrations(p) ==
  /\ boot[p].pc = "applying"
  /\ boot[p].applied \cup boot[p].done = Versions
  /\ LET d == boot[p].db
     IN  /\ ledger' = [ledger EXCEPT ![d] = <<Versions>>]
         /\ ran' = [ran EXCEPT ![d] =
              [v \in Versions |-> ran[d][v] + IF v \in boot[p].done THEN 1 ELSE 0]]
         /\ boot' = [boot EXCEPT ![p] = AfterCommit(p, d)]
  /\ mlock' = Unlocked(p)
  /\ UNCHANGED <<legacy, lives, nameVars, warmVars, faults>>

\* What a process has in memory goes with it: its transaction, its name, the
\* writer's snapshot and the tier's table, whose files stay but are admitted again
\* only on use.  The residency rows stay.
Gone(p) ==
  /\ boot' = [boot EXCEPT ![p] = Down]
  /\ mlock' = Unlocked(p)
  /\ ident' = [q \in Procs |-> IF q = p THEN <<>> ELSE ident[q]]
  /\ writer' = [q \in Procs |-> IF q = p THEN Waiting({}) ELSE writer[q]]
  /\ warm' = [q \in Procs |-> IF q = p THEN {} ELSE warm[q]]
  /\ UNCHANGED <<ledger, ran, legacy, lives, idfile, registry, prewarms>>

\* A process dies, or its startup raises.
Dies(p) ==
  /\ boot[p].pc \notin {"down", "finished"}
  /\ Fault
  /\ Gone(p)

\* An orderly shutdown lets the writer end its cycle; it writes no farewell.
on_stop(p) ==
  /\ boot[p].pc = "up" /\ writer[p].pc = "wait"
  /\ Gone(p)
  /\ UNCHANGED faults

-----------------------------------------------------------------------------
(* The data plane's identity *)

\* A uuid4 of this life.
Generated(p) == <<p, lives[p]>>

\* Resolved once per process; the cycle that asked goes on to its writes.
Resolved(p, id) == /\ ident' = [ident EXCEPT ![p] = id]
                   /\ writer' = [writer EXCEPT ![p].pc = "writing"]

Naming(p, pc) == boot[p].pc = "up" /\ writer[p].pc = pc

\* The explicit name, else the persisted id; an empty file is no id.
KnownId(p) == IF p \in Named THEN <<p>> ELSE idfile.id

_resolve(p) ==
  /\ Naming(p, "naming")
  /\ \/ KnownId(p) # <<>> /\ Resolved(p, KnownId(p))
     \/ /\ KnownId(p) = <<>>
        /\ writer' = [writer EXCEPT ![p].pc = "creating"]
        /\ UNCHANGED ident
  /\ UNCHANGED <<schemaVars, boot, lives, idfile, warm, registry, prewarms, faults>>

\* O_CREAT | O_EXCL: one process creates the file; another adopts what is in it by
\* now, or keeps its own id when there is nothing in it yet.
CreateFile(p) ==
  /\ Naming(p, "creating")
  /\ \/ /\ ~idfile.exists
        /\ idfile' = [idfile EXCEPT !.exists = TRUE]
        /\ writer' = [writer EXCEPT ![p].pc = "filling"]
        /\ UNCHANGED ident
     \/ /\ idfile.exists
        /\ Resolved(p, IF idfile.id # <<>> THEN idfile.id ELSE Generated(p))
        /\ UNCHANGED idfile
  /\ UNCHANGED <<schemaVars, boot, lives, warm, registry, prewarms, faults>>

_write_persisted(p) ==
  /\ Naming(p, "filling")
  /\ idfile' = [idfile EXCEPT !.id = Generated(p)]
  /\ Resolved(p, Generated(p))
  /\ UNCHANGED <<schemaVars, boot, lives, warm, registry, prewarms, faults>>

-----------------------------------------------------------------------------
(* The tier and the prewarm consumer *)

\* A query's fetch or admin_prewarm admits a shard; admissions evict others.
Admit(p, u) ==
  /\ boot[p].pc = "up" /\ u \notin warm[p]
  /\ warm' = [warm EXCEPT ![p] = @ \cup {u}]
  /\ UNCHANGED <<schemaVars, boot, lives, nameVars, writer, registry, prewarms, faults>>

Evict(p, u) ==
  /\ boot[p].pc = "up" /\ u \in warm[p]
  /\ warm' = [warm EXCEPT ![p] = @ \ {u}]
  /\ UNCHANGED <<schemaVars, boot, lives, nameVars, writer, registry, prewarms, faults>>

\* The builder's PREWARM_SHARD after a commit.
PublishPrewarm(u) ==
  /\ u \notin prewarms
  /\ prewarms' = prewarms \cup {u}
  /\ UNCHANGED <<schemaVars, boot, lives, nameVars, warm, writer, registry, faults>>

\* _dispatch_one: prewarm and ack; on a rejection or any other exception nack, which
\* leaves the message for another try or dead-letters it.
_dispatch_one(p, u) ==
  /\ boot[p].pc = "up" /\ u \in prewarms
  /\ \/ /\ warm' = [warm EXCEPT ![p] = @ \cup {u}]
        /\ prewarms' = prewarms \ {u}
     \/ /\ prewarms' \in {prewarms, prewarms \ {u}}
        /\ UNCHANGED warm
  /\ UNCHANGED <<schemaVars, boot, lives, nameVars, writer, registry, faults>>

-----------------------------------------------------------------------------
(* The residency writer *)

\* Mutant: only what is new since the last good cycle is registered.
SnapshotNewOnly(p) ==
  /\ boot[p].pc = "up" /\ writer[p].pc = "wait"
  /\ writer' = [writer EXCEPT ![p] =
       [pc |-> IF ident[p] = <<>> THEN "naming" ELSE "writing",
        previous |-> writer[p].previous, current |-> warm[p],
        drop |-> writer[p].previous \ warm[p], add |-> warm[p] \ writer[p].previous]]
  /\ UNCHANGED <<schemaVars, boot, lives, nameVars, warm, registry, prewarms, faults>>

\* A cycle: the tier's residency, compared with the one of the last good cycle.
ReconcileSnapshot(p) ==
  /\ boot[p].pc = "up" /\ writer[p].pc = "wait"
  /\ writer' = [writer EXCEPT ![p] =
       [pc |-> IF ident[p] = <<>> THEN "naming" ELSE "writing",
        previous |-> writer[p].previous, current |-> warm[p],
        drop |-> writer[p].previous \ warm[p], add |-> warm[p]]]
  /\ UNCHANGED <<schemaVars, boot, lives, nameVars, warm, registry, prewarms, faults>>

\* One DELETE per dropped URI first, then one UPSERT per current URI, each on its
\* own.
WriteOne(p) ==
  /\ boot[p].pc = "up" /\ writer[p].pc = "writing"
  /\ \/ \E u \in writer[p].drop :
          /\ registry' = registry \ {<<ident[p], u>>}
          /\ writer' = [writer EXCEPT ![p].drop = @ \ {u}]
     \/ /\ writer[p].drop = {}
        /\ \E u \in writer[p].add :
             /\ registry' = registry \cup {<<ident[p], u>>}
             /\ writer' = [writer EXCEPT ![p].add = @ \ {u}]
  /\ UNCHANGED <<schemaVars, boot, lives, nameVars, warm, prewarms, faults>>

CycleDone(p) ==
  /\ boot[p].pc = "up" /\ writer[p].pc = "writing"
  /\ writer[p].drop = {} /\ writer[p].add = {}
  /\ writer' = [writer EXCEPT ![p] = Waiting(writer[p].current)]
  /\ UNCHANGED <<schemaVars, boot, lives, nameVars, warm, registry, prewarms, faults>>

\* A write that fails, of a row or of the id file, ends the cycle; the previous
\* snapshot is kept.
CycleFails(p) ==
  /\ boot[p].pc = "up" /\ writer[p].pc # "wait"
  /\ Fault
  /\ writer' = [writer EXCEPT ![p] = Waiting(writer[p].previous)]
  /\ UNCHANGED <<schemaVars, boot, lives, nameVars, warm, registry, prewarms>>

-----------------------------------------------------------------------------

MigrationStep(p) == LockAndReadLedger(p) \/ ApplyNext(p) \/ CommitMigrations(p)

OnDatabase(p, d) == boot[p].pc \in {"migrating", "applying"} /\ boot[p].db = d

_apply_migrations(p) == OnDatabase(p, "control") /\ MigrationStep(p)

_apply_recall_migrations(p) == OnDatabase(p, "recall") /\ MigrationStep(p)

migrate(p) == Start(p) \/ _apply_migrations(p) \/ _apply_recall_migrations(p)

dp_id(p) == _resolve(p) \/ CreateFile(p) \/ _write_persisted(p)

_reconcile_once(p) == ReconcileSnapshot(p) \/ dp_id(p) \/ WriteOne(p) \/ CycleDone(p)

FleetNext ==
  \/ \E p \in Starters : migrate(p) \/ Dies(p)
  \/ \E p \in Procs :
       \/ _reconcile_once(p) \/ CycleFails(p) \/ on_stop(p)
       \/ \E u \in Uris : Admit(p, u) \/ Evict(p, u) \/ _dispatch_one(p, u)
  \/ \E u \in Uris : PublishPrewarm(u)

FleetSpec == FleetInit /\ [][FleetNext]_fleetVars

\* The writer is a loop that wakes every RB_DP_RESIDENCY_SYNC_S.
Fairness == \A p \in Procs : WF_fleetVars(_reconcile_once(p))

FairSpec == FleetSpec /\ Fairness

-----------------------------------------------------------------------------
(* Properties *)

\* What the bootstrap of a database without a ledger enters into it unexecuted.
Unexecuted(d) == IF d = "control" /\ legacy # {} THEN Versions \ legacy ELSE {}

\* However many processes start and die at once, no migration is executed twice (two
\* of them drop tables) and none before a lower one.  Once a database has a ledger
\* exactly the versions in it were executed, with one exception: what a legacy control
\* database lacked when it got its ledger is in the ledger and never executed.  A
\* process that serves finds every other version executed.
SchemaOnce ==
  /\ \A d \in Databases, v \in Versions :
       /\ ran[d][v] <= 1
       /\ ran[d][v] = 1 => \A w \in Versions : w < v => ran[d][w] = 1
       /\ ledger[d] # <<>> =>
            (ran[d][v] = 1 <=> v \in ledger[d][1] /\ v \notin Unexecuted(d))
  /\ \A p \in Procs :
       boot[p].pc = "up" =>
         \A v \in Versions \ Unexecuted("control") : ran["control"][v] = 1

\* A shard that stays in the tier of a process that stays up is listed for it again
\* and again, whatever writes failed before, and although a process that goes by the
\* same persisted id deletes the row whenever it evicts its own copy.
WarmIsListed ==
  \A p \in Procs, u \in Uris :
    <>[](boot[p].pc = "up" /\ u \in warm[p]) => []<>(<<ident[p], u>> \in registry)
=============================================================================
