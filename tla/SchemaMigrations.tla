--------------------------- MODULE SchemaMigrations ---------------------------
(***************************************************************************)
(* The schema migration runner and the start-up gate of the services       *)
(* (internal/infra/pg/migrations.go, schema_manifest.go).                  *)
(*                                                                         *)
(* A release embeds a set of immutable migration files and the fingerprint *)
(* of its flat schema.  The migrate command takes an exclusive advisory    *)
(* lock, compares the ledger of the database with its own chain, applies   *)
(* what is pending and stamps the fingerprint, all in one transaction; the *)
(* worker and the API take the same lock shared and refuse to start unless *)
(* the database is exactly at their release.  Several commands of several  *)
(* releases and several services run at once, and any of them may die at   *)
(* any step.                                                               *)
(*                                                                         *)
(* Advisory locks, transactions (READ COMMITTED) and the operator who      *)
(* repairs rows or removes an object by hand are Postgres' and the         *)
(* operator's; they are modelled from how the runner uses them.            *)
(***************************************************************************)
EXTENDS Naturals, FiniteSets

CONSTANTS
    Commands,    \* runs of the migrate command
    Services,    \* worker and API processes
    Releases,    \* builds of the program
    Files,       \* Files[r]: the migration files of release r, records
                 \*   [version, sum, hash, wellFormed, adds]
    SchemaHash,  \* SchemaHash[r]: the fingerprint of r's schema.sql
    Baseline,    \* objects every database has before the first migration
    Manifest,    \* Manifest[r]: objects release r requires beyond the baseline
    Databases,   \* the databases a deployment may start from
    MaxDrift     \* bound: objects removed by hand

ASSUME MigrationAssumption ==
    /\ Files \in [Releases -> SUBSET [version : Nat, sum : Nat, hash : Nat, wellFormed : BOOLEAN, adds : SUBSET STRING]]
    /\ SchemaHash \in [Releases -> Nat]
    /\ Manifest \in [Releases -> SUBSET STRING] /\ Baseline \subseteq STRING
    /\ \A r \in Releases : Baseline \cap Manifest[r] = {}
    /\ Databases \subseteq [ledger : {{}}, stamp : {0}, objects : SUBSET STRING, dirty : SUBSET Nat]

VARIABLES
    db,      \* the committed database: [ledger, stamp, objects, dirty]
    cmd,     \* cmd[c]: a migrate command: [pc, release, tx]
    svc,     \* svc[s]: a service: [pc, release]
    drift    \* objects an operator removed since the last committed migration

migrationVars == <<db, cmd, svc, drift>>

\* ensureMigrationLedger creates an empty ledger; to the checks a ledger that
\* is missing and one that is empty are the same.
NoLedger == {}
NoStamp == 0
NoRelease == "none"
NoTx == [ledger |-> NoLedger, stamp |-> NoStamp, objects |-> {}, dirty |-> {}]

-----------------------------------------------------------------------------
(* The embedded chain *)

\* readAppliedMigrations / the ledger row of a file: what the comparison reads.
Row(f) == [version |-> f.version, sum |-> f.sum, hash |-> f.hash]

\* loadMigrations: a file without a fingerprint line, or with transaction
\* control, stops every command, and so do two files of one version.
Loadable(r) ==
    /\ \A f \in Files[r] : f.wellFormed
    /\ \A f, g \in Files[r] : f.version = g.version => f = g

\* The chain is the files in the order of their versions.
First(files, f) == f \in files /\ \A g \in files : f.version <= g.version
Newest(files, f) == f \in files /\ \A g \in files : g.version <= f.version

\* validateMigrationTarget: the newest file leads to this release's schema.
ValidTarget(r) == \E f \in Files[r] : Newest(Files[r], f) /\ f.hash = SchemaHash[r]

Rows(r) == {Row(f) : f \in Files[r]}
Versions(rows) == {row.version : row \in rows}

\* Migrate, first half of its checks: rows of known versions are the embedded
\* ones, and the ledger has no version this release does not know.
AppliedAreEmbedded(r, ledger) ==
    \A row \in ledger : row.version \in Versions(Rows(r)) => row \in Rows(r)

NoUnknown(r, ledger) == Versions(ledger) \subseteq Versions(Rows(r))

\* Mutant: the ledger is not searched for gaps.
MutNoGap(r, ledger) == TRUE

\* A file applied after one that is still pending is a gap.
NoGap(r, ledger) ==
    \A f, g \in Files[r] :
        f.version < g.version /\ g.version \in Versions(ledger) => f.version \in Versions(ledger)

\* validateAppliedMigrations: the gate of the services wants the whole chain.
AppliedIsChain(r, ledger) ==
    /\ Rows(r) \subseteq ledger
    /\ NoUnknown(r, ledger)

\* requireRelation, requireExtension and the catalogue queries beside them.
Present(names, objects) == names \subseteq objects

\* verifyBaselineSchema and verifyCurrentSchema.
BaselineHolds(objects) == Present(Baseline, objects)
CurrentHolds(r, objects) == BaselineHolds(objects) /\ Present(Manifest[r], objects)

-----------------------------------------------------------------------------
(* The advisory lock: held by a transaction from its grant to its end. *)

Migrating == {c \in Commands : cmd[c].pc \in {"locked", "applying", "verified"}}
Verifying == {s \in Services : svc[s].pc = "verifying"}

ExclusiveFree == Migrating = {} /\ Verifying = {}
SharedFree == Migrating = {}

-----------------------------------------------------------------------------
(* The migrate command *)

Ended(pc) == [pc |-> pc, release |-> NoRelease, tx |-> NoTx]

\* A command of release r starts: load and target checks need no database.
StartMigrate(c, r) ==
    /\ cmd[c].pc = "idle"
    /\ cmd' = [cmd EXCEPT ![c] = IF Loadable(r) /\ ValidTarget(r)
                                 THEN [pc |-> "waiting", release |-> r, tx |-> NoTx]
                                 ELSE Ended("failed")]
    /\ UNCHANGED <<db, svc, drift>>

\* pg_advisory_xact_lock is granted.
LockMigrate(c) ==
    /\ cmd[c].pc = "waiting"
    /\ ExclusiveFree
    /\ cmd' = [cmd EXCEPT ![c].pc = "locked"]
    /\ UNCHANGED <<db, svc, drift>>

\* ensureMigrationLedger, the baseline and the ledger checks: the rest of the
\* transaction works on what these statements read after the lock.
CheckLedger(c) ==
    /\ cmd[c].pc = "locked"
    /\ LET r == cmd[c].release
           passed == /\ BaselineHolds(db.objects)
                     /\ AppliedAreEmbedded(r, db.ledger)
                     /\ NoUnknown(r, db.ledger)
                     /\ NoGap(r, db.ledger)
       IN cmd' = [cmd EXCEPT ![c] = IF passed
                                    THEN [pc |-> "applying", release |-> r, tx |-> db]
                                    ELSE Ended("failed")]
    /\ UNCHANGED <<db, svc, drift>>

Pending(c) == {f \in Files[cmd[c].release] : f.version \notin Versions(cmd[c].tx.ledger)}

\* A file creates its objects and records its row.
Applied(tx, f) == [tx EXCEPT !.ledger = @ \cup {Row(f)}, !.objects = @ \cup f.adds]

\* Mutant: every file commits on its own.
MutApplyMigration(c) ==
    /\ cmd[c].pc = "applying"
    /\ \E f \in Pending(c) :
        /\ First(Pending(c), f)
        /\ cmd' = [cmd EXCEPT ![c].tx = Applied(@, f)]
        /\ db' = Applied(db, f)
    /\ UNCHANGED <<svc, drift>>

\* The first pending file is executed and recorded.  A preflight over rows
\* that break its constraint aborts the transaction.
ApplyMigration(c) ==
    /\ cmd[c].pc = "applying"
    /\ \E f \in Pending(c) :
        /\ First(Pending(c), f)
        /\ cmd' = [cmd EXCEPT ![c] = IF f.version \in db.dirty
                                     THEN Ended("failed")
                                     ELSE [@ EXCEPT !.tx = Applied(cmd[c].tx, f)]]
    /\ UNCHANGED <<db, svc, drift>>

\* The manifest is verified over everything and the fingerprint stamped.
VerifyAndStamp(c) ==
    /\ cmd[c].pc = "applying"
    /\ Pending(c) = {}
    /\ LET r == cmd[c].release IN
        IF CurrentHolds(r, cmd[c].tx.objects)
        THEN cmd' = [cmd EXCEPT ![c] = [pc |-> "verified", release |-> r,
                                        tx |-> [cmd[c].tx EXCEPT !.stamp = SchemaHash[r]]]]
        ELSE cmd' = [cmd EXCEPT ![c] = Ended("failed")]
    /\ UNCHANGED <<db, svc, drift>>

\* Commit makes every statement of the transaction visible at once.
CommitMigrate(c) ==
    /\ cmd[c].pc = "verified"
    /\ db' = [cmd[c].tx EXCEPT !.dirty = db.dirty]
    /\ drift' = {}
    /\ cmd' = [cmd EXCEPT ![c] = Ended("done")]
    /\ UNCHANGED svc

\* The process dies, the connection breaks or a statement fails: the deferred
\* Rollback, or the server, discards the transaction and frees the lock.
AbortMigrate(c) ==
    /\ cmd[c].pc \in {"waiting", "locked", "applying", "verified"}
    /\ cmd' = [cmd EXCEPT ![c] = Ended("failed")]
    /\ UNCHANGED <<db, svc, drift>>

\* The operator runs the command again.
RerunMigrate(c) ==
    /\ cmd[c].pc \in {"failed", "done"}
    /\ cmd' = [cmd EXCEPT ![c] = Ended("idle")]
    /\ UNCHANGED <<db, svc, drift>>

-----------------------------------------------------------------------------
(* Services *)

\* The worker and the API of release r start and call VerifyMigrations.
StartService(s, r) ==
    /\ svc[s].pc = "down"
    /\ svc' = [svc EXCEPT ![s] = IF Loadable(r) /\ ValidTarget(r)
                                 THEN [pc |-> "waiting", release |-> r]
                                 ELSE [pc |-> "refused", release |-> NoRelease]]
    /\ UNCHANGED <<db, cmd, drift>>

\* pg_advisory_xact_lock_shared waits for a migration in progress.
LockVerify(s) ==
    /\ svc[s].pc = "waiting"
    /\ SharedFree
    /\ svc' = [svc EXCEPT ![s].pc = "verifying"]
    /\ UNCHANGED <<db, cmd, drift>>

\* Under the shared lock: ledger, manifest and stamp, then the service runs.
VerifyMigrations(s) ==
    /\ svc[s].pc = "verifying"
    /\ LET r == svc[s].release
           passed == /\ AppliedIsChain(r, db.ledger)
                     /\ CurrentHolds(r, db.objects)
                     /\ db.stamp = SchemaHash[r]
       IN svc' = [svc EXCEPT ![s] = IF passed
                                    THEN [pc |-> "running", release |-> r]
                                    ELSE [pc |-> "refused", release |-> NoRelease]]
    /\ UNCHANGED <<db, cmd, drift>>

\* A service stops, or died at its gate; its container starts it again.
StopService(s) ==
    /\ svc[s].pc \in {"running", "refused", "waiting", "verifying"}
    /\ svc' = [svc EXCEPT ![s] = [pc |-> "down", release |-> NoRelease]]
    /\ UNCHANGED <<db, cmd, drift>>

-----------------------------------------------------------------------------
(* The operator *)

\* Rows that fail a preflight are repaired by hand.
RepairRows(v) ==
    /\ v \in db.dirty
    /\ db' = [db EXCEPT !.dirty = @ \ {v}]
    /\ UNCHANGED <<cmd, svc, drift>>

\* An object is removed by hand while no migration runs.
DropObject(o) ==
    /\ Cardinality(drift) < MaxDrift
    /\ Migrating = {}
    /\ o \in db.objects
    /\ db' = [db EXCEPT !.objects = @ \ {o}]
    /\ drift' = drift \cup {o}
    /\ UNCHANGED <<cmd, svc>>

-----------------------------------------------------------------------------

MigrationInit ==
    /\ db \in Databases
    /\ cmd = [c \in Commands |-> Ended("idle")]
    /\ svc = [s \in Services |-> [pc |-> "down", release |-> NoRelease]]
    /\ drift = {}

MigrationNext ==
    \/ \E c \in Commands :
        \/ \E r \in Releases : StartMigrate(c, r)
        \/ LockMigrate(c)
        \/ CheckLedger(c)
        \/ ApplyMigration(c)
        \/ VerifyAndStamp(c)
        \/ CommitMigrate(c)
        \/ AbortMigrate(c)
        \/ RerunMigrate(c)
    \/ \E s \in Services :
        \/ \E r \in Releases : StartService(s, r)
        \/ LockVerify(s)
        \/ VerifyMigrations(s)
        \/ StopService(s)
    \/ \E v \in db.dirty : RepairRows(v)
    \/ \E o \in db.objects : DropObject(o)

MigrationSpec == MigrationInit /\ [][MigrationNext]_migrationVars

-----------------------------------------------------------------------------
(* Properties *)

\* Whatever commands of whatever releases ran, failed or died, the committed
\* ledger is empty or the complete chain of one release, stamped with that
\* release's fingerprint, and every object the release requires is there
\* unless an operator removed it after that commit: migrations of a chain
\* become visible together or not at all, and an older release never restamps
\* a newer database (migrations.go:54-126).
CommittedIsRelease ==
    \/ db.ledger = NoLedger /\ db.stamp = NoStamp
    \/ \E r \in Releases :
        /\ db.ledger = Rows(r)
        /\ db.stamp = SchemaHash[r]
        /\ Baseline \cup Manifest[r] \subseteq db.objects \cup drift

\* While a service runs, the migrations it was built with stay the first ones
\* of the ledger: a later migration only extends them, and a file merged with
\* an older version is never slipped in below a running release
\* (migrations.go:83-93, 209-228).
RunningChainIsPrefix ==
    \A s \in Services :
        svc[s].pc = "running" =>
            LET r == svc[s].release IN
            /\ Rows(r) \subseteq db.ledger
            /\ \A row \in db.ledger \ Rows(r), f \in Files[r] : f.version < row.version

=============================================================================
