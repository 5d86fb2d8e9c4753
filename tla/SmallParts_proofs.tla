--------------------------- MODULE SmallParts_proofs ---------------------------
(***************************************************************************)
(* Safety of the parts that meet no other part of the model: the migration *)
(* runner, for any number of commands, services, releases and files and    *)
(* any databases whose ledger is still empty; the fetch window of ingest,  *)
(* for any runs, leagues, rosters, schedules and lookahead; the shared     *)
(* cookie file of the browser services, for any number of services,        *)
(* requests, logins, rotations and faults; the clock check of a clip, for  *)
(* any moments of a match, any tolerance and any number of frames; and the *)
(* repeated searches of a goal, for any feed, screen, scrolls and stop.    *)
(***************************************************************************)
EXTENDS SchemaMigrations, IngestWindow, TwitterSession, MatchClock, SearchScan, FiniteSetTheorems,
        SequenceTheorems, WellFoundedInduction, NaturalsInduction, TLAPS

-----------------------------------------------------------------------------
(* SchemaMigrations *)

Database ==
    [ledger : SUBSET [version : Nat, sum : Nat, hash : Nat], stamp : Nat,
     objects : SUBSET STRING, dirty : SUBSET Nat]

MigrationTypeOK ==
    /\ db \in Database
    /\ cmd \in [Commands ->
          [pc : {"idle", "waiting", "locked", "applying", "verified", "done", "failed"},
           release : Releases \cup {NoRelease}, tx : Database]]
    /\ svc \in [Services ->
          [pc : {"down", "waiting", "verifying", "running", "refused"},
           release : Releases \cup {NoRelease}]]
    /\ drift \in SUBSET STRING

(* The lock is exclusive, and its holder waited for it with a loaded chain. *)
LockIsExclusive ==
    \A c, d \in Commands : c \in Migrating /\ d \in Migrating => c = d

ReleasesAreLoadable ==
    /\ \A c \in Commands :
          cmd[c].pc \in {"waiting", "locked", "applying", "verified"} =>
              cmd[c].release \in Releases /\ Loadable(cmd[c].release)
    /\ \A s \in Services :
          svc[s].pc \in {"waiting", "verifying", "running"} =>
              svc[s].release \in Releases /\ Loadable(svc[s].release)

(* A transaction extends the committed ledger, which is a prefix of the    *)
(* chain it applies, by files of that chain only.                          *)
TransactionExtends ==
    \A c \in Commands :
        cmd[c].pc \in {"applying", "verified"} =>
            /\ NoGap(cmd[c].release, db.ledger)
            /\ db.ledger \subseteq cmd[c].tx.ledger
            /\ cmd[c].tx.ledger \subseteq Rows(cmd[c].release)

(* A verified transaction is the whole release.                            *)
VerifiedIsRelease ==
    \A c \in Commands :
        cmd[c].pc = "verified" =>
            /\ cmd[c].tx.ledger = Rows(cmd[c].release)
            /\ cmd[c].tx.stamp = SchemaHash[cmd[c].release]
            /\ CurrentHolds(cmd[c].release, cmd[c].tx.objects)

(* No two rows of the committed ledger share a version.                    *)
LedgerIsKeyed ==
    \A row1, row2 \in db.ledger : row1.version = row2.version => row1 = row2

MigrationInv ==
    /\ MigrationTypeOK
    /\ LockIsExclusive
    /\ ReleasesAreLoadable
    /\ TransactionExtends
    /\ VerifiedIsRelease
    /\ LedgerIsKeyed
    /\ CommittedIsRelease
    /\ RunningChainIsPrefix

-----------------------------------------------------------------------------
(* Type correctness. *)

(* A ledger row is what is recorded of a file (migrations.go:106-111).     *)
LEMMA RowsAreTyped ==
    ASSUME NEW r \in Releases
    PROVE  /\ \A f \in Files[r] : /\ f.version \in Nat /\ f.adds \in SUBSET STRING
                                  /\ Row(f) \in [version : Nat, sum : Nat, hash : Nat]
                                  /\ Row(f).version = f.version /\ Row(f) \in Rows(r)
           /\ Rows(r) \subseteq [version : Nat, sum : Nat, hash : Nat]
           /\ SchemaHash[r] \in Nat
  <1>1. \A f \in Files[r] : f \in [version : Nat, sum : Nat, hash : Nat, wellFormed : BOOLEAN, adds : SUBSET STRING]
    BY MigrationAssumption
  <1>2. \A f \in Files[r] : /\ f.version \in Nat /\ f.adds \in SUBSET STRING
                            /\ Row(f) \in [version : Nat, sum : Nat, hash : Nat]
                            /\ Row(f).version = f.version
    BY <1>1 DEF Row
  <1>3. \A f \in Files[r] : Row(f) \in Rows(r)
    BY DEF Rows
  <1>4. Rows(r) \subseteq [version : Nat, sum : Nat, hash : Nat]
    BY <1>2 DEF Rows
  <1> QED BY <1>2, <1>3, <1>4, MigrationAssumption

(* The initial state is typed (migrations.go:39-58).                       *)
LEMMA InitTyped == MigrationInit => MigrationTypeOK
  <1> SUFFICES ASSUME MigrationInit PROVE MigrationTypeOK
    OBVIOUS
  <1>1. db \in Database
    BY MigrationAssumption DEF MigrationInit, Database
  <1>2. NoTx \in Database
    BY DEF NoTx, NoLedger, NoStamp, Database
  <1> QED BY <1>1, <1>2 DEF MigrationInit, MigrationTypeOK, Ended

(* Every step of the runner, of a service and of the operator keeps the    *)
(* types (migrations.go:39-202).                                           *)
LEMMA StepTyped ==
    MigrationTypeOK /\ ReleasesAreLoadable /\ [MigrationNext]_migrationVars => MigrationTypeOK'
  <1> SUFFICES ASSUME MigrationTypeOK, ReleasesAreLoadable, [MigrationNext]_migrationVars
               PROVE  MigrationTypeOK'
    OBVIOUS
  <1>tx. NoTx \in Database
    BY DEF NoTx, NoLedger, NoStamp, Database
  <1> USE DEF MigrationTypeOK
  <1>1. ASSUME NEW c \in Commands, NEW r \in Releases, StartMigrate(c, r)
        PROVE  MigrationTypeOK'
    BY <1>1, <1>tx DEF StartMigrate, Ended
  <1>2. ASSUME NEW c \in Commands, LockMigrate(c)
        PROVE  MigrationTypeOK'
    BY <1>2 DEF LockMigrate
  <1>3. ASSUME NEW c \in Commands, CheckLedger(c)
        PROVE  MigrationTypeOK'
    BY <1>3, <1>tx DEF CheckLedger, Ended
  <1>4. ASSUME NEW c \in Commands, ApplyMigration(c)
        PROVE  MigrationTypeOK'
    <2>1. PICK f \in Pending(c) :
              cmd' = [cmd EXCEPT ![c] = IF f.version \in db.dirty
                                        THEN Ended("failed")
                                        ELSE [@ EXCEPT !.tx = Applied(cmd[c].tx, f)]]
      BY <1>4 DEF ApplyMigration
    <2>2. cmd[c].release \in Releases
      BY <1>4 DEF ApplyMigration, ReleasesAreLoadable
    <2>3. Row(f) \in [version : Nat, sum : Nat, hash : Nat] /\ f.adds \in SUBSET STRING
      BY <2>2, RowsAreTyped DEF Pending
    <2>4. Applied(cmd[c].tx, f) \in Database
      BY <2>3 DEF Applied, Database
    <2> QED BY <1>4, <1>tx, <2>1, <2>4 DEF ApplyMigration, Ended
  <1>5. ASSUME NEW c \in Commands, VerifyAndStamp(c)
        PROVE  MigrationTypeOK'
    <2>1. cmd[c].release \in Releases /\ SchemaHash[cmd[c].release] \in Nat
      BY <1>5, RowsAreTyped DEF VerifyAndStamp, ReleasesAreLoadable
    <2>2. CASE cmd' = [cmd EXCEPT ![c] = Ended("failed")]
      BY <1>5, <1>tx, <2>2 DEF VerifyAndStamp, Ended
    <2>3. CASE cmd' = [cmd EXCEPT ![c] = [pc |-> "verified", release |-> cmd[c].release,
                                          tx |-> [cmd[c].tx EXCEPT !.stamp = SchemaHash[cmd[c].release]]]]
      <3>1. [cmd[c].tx EXCEPT !.stamp = SchemaHash[cmd[c].release]] \in Database
        BY <2>1 DEF Database
      <3> QED BY <1>5, <2>3, <3>1 DEF VerifyAndStamp
    <2> QED BY <1>5, <2>2, <2>3 DEF VerifyAndStamp
  <1>6. ASSUME NEW c \in Commands, CommitMigrate(c)
        PROVE  MigrationTypeOK'
    BY <1>6, <1>tx DEF CommitMigrate, Ended, Database
  <1>7. ASSUME NEW c \in Commands, AbortMigrate(c) \/ RerunMigrate(c)
        PROVE  MigrationTypeOK'
    <2>1. CASE AbortMigrate(c)
      BY <2>1, <1>tx DEF AbortMigrate, Ended
    <2>2. CASE RerunMigrate(c)
      BY <2>2, <1>tx DEF RerunMigrate, Ended
    <2> QED BY <1>7, <2>1, <2>2
  <1>8. ASSUME NEW s \in Services, NEW r \in Releases, StartService(s, r)
        PROVE  MigrationTypeOK'
    BY <1>8 DEF StartService
  <1>9. ASSUME NEW s \in Services, LockVerify(s) \/ VerifyMigrations(s) \/ StopService(s)
        PROVE  MigrationTypeOK'
    BY <1>9 DEF LockVerify, VerifyMigrations, StopService
  <1>10. ASSUME NEW v \in db.dirty, RepairRows(v)
         PROVE  MigrationTypeOK'
    BY <1>10 DEF RepairRows, Database
  <1>11. ASSUME NEW o \in db.objects, DropObject(o)
         PROVE  MigrationTypeOK'
    BY <1>11 DEF DropObject, Database
  <1>12. CASE UNCHANGED migrationVars
    BY <1>12 DEF migrationVars
  <1> QED BY <1>1, <1>2, <1>3, <1>4, <1>5, <1>6, <1>7, <1>8, <1>9, <1>10, <1>11, <1>12 DEF MigrationNext

-----------------------------------------------------------------------------
(* The lock and the loaded chains. *)

(* A command or a service works only with a chain that loaded: the check   *)
(* precedes the lock (migrations.go:44-58, 149-163).                       *)
LEMMA StepLoadable ==
    MigrationTypeOK /\ ReleasesAreLoadable /\ [MigrationNext]_migrationVars => ReleasesAreLoadable'
  <1> SUFFICES ASSUME MigrationTypeOK, ReleasesAreLoadable, [MigrationNext]_migrationVars
               PROVE  ReleasesAreLoadable'
    OBVIOUS
  <1> USE DEF MigrationTypeOK, ReleasesAreLoadable, Loadable
  <1>1. ASSUME NEW c \in Commands, NEW r \in Releases, StartMigrate(c, r)
        PROVE  ReleasesAreLoadable'
    BY <1>1 DEF StartMigrate, Ended
  <1>2. ASSUME NEW c \in Commands, LockMigrate(c)
        PROVE  ReleasesAreLoadable'
    BY <1>2 DEF LockMigrate
  <1>3. ASSUME NEW c \in Commands, CheckLedger(c)
        PROVE  ReleasesAreLoadable'
    BY <1>3 DEF CheckLedger, Ended
  <1>4. ASSUME NEW c \in Commands, ApplyMigration(c)
        PROVE  ReleasesAreLoadable'
    BY <1>4 DEF ApplyMigration, Ended
  <1>5. ASSUME NEW c \in Commands, VerifyAndStamp(c)
        PROVE  ReleasesAreLoadable'
    BY <1>5 DEF VerifyAndStamp, Ended
  <1>6. ASSUME NEW c \in Commands, CommitMigrate(c) \/ AbortMigrate(c) \/ RerunMigrate(c)
        PROVE  ReleasesAreLoadable'
    BY <1>6 DEF CommitMigrate, AbortMigrate, RerunMigrate, Ended
  <1>7. ASSUME NEW s \in Services, NEW r \in Releases, StartService(s, r)
        PROVE  ReleasesAreLoadable'
    BY <1>7 DEF StartService
  <1>8. ASSUME NEW s \in Services, LockVerify(s) \/ VerifyMigrations(s) \/ StopService(s)
        PROVE  ReleasesAreLoadable'
    BY <1>8 DEF LockVerify, VerifyMigrations, StopService
  <1>9. CASE (\E v \in db.dirty : RepairRows(v)) \/ (\E o \in db.objects : DropObject(o)) \/ UNCHANGED migrationVars
    BY <1>9 DEF RepairRows, DropObject, migrationVars
  <1> QED BY <1>1, <1>2, <1>3, <1>4, <1>5, <1>6, <1>7, <1>8, <1>9 DEF MigrationNext

(* At most one command is past the advisory lock (migrations.go:59-62).    *)
LEMMA StepExclusive ==
    MigrationTypeOK /\ LockIsExclusive /\ [MigrationNext]_migrationVars => LockIsExclusive'
  <1> SUFFICES ASSUME MigrationTypeOK, LockIsExclusive, [MigrationNext]_migrationVars
               PROVE  LockIsExclusive'
    OBVIOUS
  <1> USE DEF MigrationTypeOK, LockIsExclusive, Migrating
  <1>1. ASSUME NEW c \in Commands, LockMigrate(c)
        PROVE  LockIsExclusive'
    BY <1>1 DEF LockMigrate, ExclusiveFree
  <1>2. ASSUME NEW c \in Commands, cmd[c].pc \in {"locked", "applying", "verified"} \/ cmd'[c].pc \notin {"locked", "applying", "verified"},
               \A d \in Commands \ {c} : cmd'[d] = cmd[d]
        PROVE  LockIsExclusive'
    BY <1>2
  <1>3. ASSUME NEW c \in Commands, NEW r \in Releases, StartMigrate(c, r)
        PROVE  LockIsExclusive'
    BY <1>3, <1>2 DEF StartMigrate, Ended
  <1>4. ASSUME NEW c \in Commands, CheckLedger(c) \/ ApplyMigration(c) \/ VerifyAndStamp(c)
        PROVE  LockIsExclusive'
    BY <1>4, <1>2 DEF CheckLedger, ApplyMigration, VerifyAndStamp
  <1>5. ASSUME NEW c \in Commands, CommitMigrate(c) \/ AbortMigrate(c) \/ RerunMigrate(c)
        PROVE  LockIsExclusive'
    BY <1>5, <1>2 DEF CommitMigrate, AbortMigrate, RerunMigrate, Ended
  <1>6. CASE UNCHANGED cmd
    BY <1>6
  <1>7. ASSUME NEW s \in Services, (\E r \in Releases : StartService(s, r)) \/ LockVerify(s) \/ VerifyMigrations(s) \/ StopService(s)
        PROVE  UNCHANGED cmd
    BY <1>7 DEF StartService, LockVerify, VerifyMigrations, StopService
  <1>8. CASE (\E v \in db.dirty : RepairRows(v)) \/ (\E o \in db.objects : DropObject(o)) \/ UNCHANGED migrationVars
    BY <1>6, <1>8 DEF RepairRows, DropObject, migrationVars
  <1> QED BY <1>1, <1>3, <1>4, <1>5, <1>6, <1>7, <1>8 DEF MigrationNext

-----------------------------------------------------------------------------
(* Facts about ledgers and chains. *)

(* The two comparisons of the ledger with the chain leave only embedded    *)
(* rows (migrations.go:74-87).                                             *)
LEMMA ComparedIsEmbedded ==
    ASSUME NEW r \in Releases, NEW ledger,
           AppliedAreEmbedded(r, ledger), NoUnknown(r, ledger)
    PROVE  ledger \subseteq Rows(r)
  BY DEF AppliedAreEmbedded, NoUnknown, Versions

(* A ledger of embedded rows with every version is the whole chain.        *)
LEMMA AllVersionsIsAllRows ==
    ASSUME NEW r \in Releases, Loadable(r), NEW ledger, ledger \subseteq Rows(r),
           \A f \in Files[r] : f.version \in Versions(ledger)
    PROVE  ledger = Rows(r)
  <1> SUFFICES ASSUME NEW f \in Files[r] PROVE Row(f) \in ledger
    BY DEF Rows
  <1>1. PICK row \in ledger : row.version = f.version
    BY DEF Versions
  <1>2. PICK g \in Files[r] : row = Row(g)
    BY <1>1 DEF Rows
  <1>3. g.version = f.version
    BY <1>1, <1>2, RowsAreTyped
  <1> QED BY <1>2, <1>3 DEF Loadable

(* The rows of a chain that loaded have different versions.                *)
LEMMA ChainIsKeyed ==
    ASSUME NEW r \in Releases, Loadable(r), NEW row1 \in Rows(r), NEW row2 \in Rows(r),
           row1.version = row2.version
    PROVE  row1 = row2
  <1>1. PICK f \in Files[r] : row1 = Row(f)
    BY DEF Rows
  <1>2. PICK g \in Files[r] : row2 = Row(g)
    BY DEF Rows
  <1>3. f.version = g.version
    BY <1>1, <1>2, RowsAreTyped
  <1> QED BY <1>1, <1>2, <1>3 DEF Loadable

(* What a chain adds to a ledger without gaps is later than everything     *)
(* that was in it (migrations.go:88-98).                                   *)
LEMMA AddedIsLater ==
    ASSUME NEW r \in Releases, Loadable(r), NEW ledger, ledger \subseteq Rows(r), NoGap(r, ledger),
           NEW old \in ledger, NEW row \in Rows(r) \ ledger
    PROVE  old.version < row.version
  <1>1. PICK f \in Files[r] : row = Row(f)
    BY DEF Rows
  <1>2. PICK g \in Files[r] : old = Row(g)
    BY DEF Rows
  <1>3. f.version \in Nat /\ g.version \in Nat /\ row.version = f.version /\ old.version = g.version
    BY <1>1, <1>2, RowsAreTyped
  <1>4. f.version \notin Versions(ledger)
    BY <1>3, ChainIsKeyed DEF Versions
  <1>5. g.version \in Versions(ledger)
    BY <1>3 DEF Versions
  <1>6. ~ (f.version < g.version)
    BY <1>4, <1>5 DEF NoGap
  <1>7. f.version # g.version
    BY <1>4, <1>5
  <1> QED BY <1>3, <1>6, <1>7

-----------------------------------------------------------------------------
(* The transaction and what it commits. *)

(* A command holds a transaction that extends the committed ledger, and    *)
(* verifies it only when it is the whole release (migrations.go:63-127).   *)
LEMMA StepTransaction ==
    ASSUME MigrationTypeOK, LockIsExclusive, ReleasesAreLoadable, TransactionExtends, VerifiedIsRelease,
           [MigrationNext]_migrationVars
    PROVE  TransactionExtends' /\ VerifiedIsRelease'
  <1> USE DEF MigrationTypeOK, NoGap
  <1>1. ASSUME NEW c \in Commands, CheckLedger(c)
        PROVE  TransactionExtends' /\ VerifiedIsRelease'
    <2>1. cmd[c].release \in Releases
      BY <1>1 DEF CheckLedger, ReleasesAreLoadable
    <2>2. ASSUME cmd'[c].pc \in {"applying", "verified"}
          PROVE  /\ cmd'[c].pc = "applying" /\ cmd'[c].release = cmd[c].release /\ cmd'[c].tx = db
                 /\ NoGap(cmd[c].release, db.ledger) /\ db.ledger \subseteq Rows(cmd[c].release)
      BY <1>1, <2>1, <2>2, ComparedIsEmbedded DEF CheckLedger, Ended
    <2>3. \A d \in Commands \ {c} : cmd'[d] = cmd[d]
      BY <1>1 DEF CheckLedger
    <2>4. UNCHANGED db
      BY <1>1 DEF CheckLedger
    <2> QED BY <2>2, <2>3, <2>4 DEF TransactionExtends, VerifiedIsRelease
  <1>2. ASSUME NEW c \in Commands, ApplyMigration(c)
        PROVE  TransactionExtends' /\ VerifiedIsRelease'
    <2>1. cmd[c].release \in Releases
      BY <1>2 DEF ApplyMigration, ReleasesAreLoadable
    <2>2. PICK f \in Pending(c) :
              cmd' = [cmd EXCEPT ![c] = IF f.version \in db.dirty
                                        THEN Ended("failed")
                                        ELSE [@ EXCEPT !.tx = Applied(cmd[c].tx, f)]]
      BY <1>2 DEF ApplyMigration
    <2>3. Row(f) \in Rows(cmd[c].release)
      BY <2>1, RowsAreTyped DEF Pending
    <2>4. Applied(cmd[c].tx, f).ledger = cmd[c].tx.ledger \cup {Row(f)}
      BY DEF Applied, Database
    <2>5. ASSUME cmd'[c].pc \in {"applying", "verified"}
          PROVE  /\ cmd'[c].pc = "applying" /\ cmd'[c].release = cmd[c].release
                 /\ cmd'[c].tx.ledger = cmd[c].tx.ledger \cup {Row(f)}
      BY <1>2, <2>2, <2>4, <2>5 DEF ApplyMigration, Ended
    <2>6. \A d \in Commands \ {c} : cmd'[d] = cmd[d]
      BY <2>2
    <2>7. UNCHANGED db /\ cmd[c].pc = "applying"
      BY <1>2 DEF ApplyMigration
    <2> QED BY <2>3, <2>5, <2>6, <2>7 DEF TransactionExtends, VerifiedIsRelease
  <1>3. ASSUME NEW c \in Commands, VerifyAndStamp(c)
        PROVE  TransactionExtends' /\ VerifiedIsRelease'
    <2>1. cmd[c].release \in Releases /\ Loadable(cmd[c].release) /\ cmd[c].pc = "applying" /\ UNCHANGED db
      BY <1>3 DEF VerifyAndStamp, ReleasesAreLoadable
    <2>2. cmd[c].tx.ledger = Rows(cmd[c].release)
      BY <1>3, <2>1, AllVersionsIsAllRows DEF VerifyAndStamp, Pending, TransactionExtends
    <2>3. ASSUME cmd'[c].pc \in {"applying", "verified"}
          PROVE  /\ cmd'[c].release = cmd[c].release
                 /\ cmd'[c].tx = [cmd[c].tx EXCEPT !.stamp = SchemaHash[cmd[c].release]]
                 /\ CurrentHolds(cmd[c].release, cmd[c].tx.objects)
      BY <1>3, <2>3 DEF VerifyAndStamp, Ended
    <2>4. ASSUME cmd'[c].pc \in {"applying", "verified"}
          PROVE  /\ cmd'[c].tx.ledger = cmd[c].tx.ledger
                 /\ cmd'[c].tx.objects = cmd[c].tx.objects
                 /\ cmd'[c].tx.stamp = SchemaHash[cmd[c].release]
      BY <2>3, <2>4 DEF Database
    <2>5. \A d \in Commands \ {c} : cmd'[d] = cmd[d]
      BY <1>3 DEF VerifyAndStamp
    <2> QED BY <2>1, <2>2, <2>3, <2>4, <2>5 DEF TransactionExtends, VerifiedIsRelease
  <1>4. ASSUME NEW c \in Commands, CommitMigrate(c)
        PROVE  TransactionExtends' /\ VerifiedIsRelease'
    <2>1. \A d \in Commands : cmd'[d].pc \notin {"applying", "verified"}
      BY <1>4 DEF CommitMigrate, Ended, LockIsExclusive, Migrating
    <2> QED BY <2>1 DEF TransactionExtends, VerifiedIsRelease
  <1>5. ASSUME db'.ledger = db.ledger,
               \A d \in Commands : cmd'[d] = cmd[d] \/ cmd'[d].pc \notin {"applying", "verified"}
        PROVE  TransactionExtends' /\ VerifiedIsRelease'
    BY <1>5 DEF TransactionExtends, VerifiedIsRelease
  <1>6. ASSUME NEW c \in Commands, (\E r \in Releases : StartMigrate(c, r)) \/ LockMigrate(c) \/ AbortMigrate(c) \/ RerunMigrate(c)
        PROVE  TransactionExtends' /\ VerifiedIsRelease'
    BY <1>5, <1>6 DEF StartMigrate, LockMigrate, AbortMigrate, RerunMigrate, Ended
  <1>7. ASSUME NEW s \in Services, (\E r \in Releases : StartService(s, r)) \/ LockVerify(s) \/ VerifyMigrations(s) \/ StopService(s)
        PROVE  TransactionExtends' /\ VerifiedIsRelease'
    BY <1>5, <1>7 DEF StartService, LockVerify, VerifyMigrations, StopService
  <1>8. CASE (\E v \in db.dirty : RepairRows(v)) \/ (\E o \in db.objects : DropObject(o)) \/ UNCHANGED migrationVars
    BY <1>5, <1>8 DEF RepairRows, DropObject, migrationVars, Database
  <1> QED BY <1>1, <1>2, <1>3, <1>4, <1>6, <1>7, <1>8 DEF MigrationNext

(* Only a commit changes the ledger and the stamp, and it installs the     *)
(* whole verified release; objects disappear only by hand                  *)
(* (migrations.go:117-130).                                                *)
LEMMA OnlyCommitChangesLedger ==
    ASSUME MigrationTypeOK, [MigrationNext]_migrationVars
    PROVE  \/ \E c \in Commands : CommitMigrate(c)
           \/ /\ db'.ledger = db.ledger /\ db'.stamp = db.stamp
              /\ db.objects \cup drift \subseteq db'.objects \cup drift'
  <1> USE DEF MigrationTypeOK
  <1>1. ASSUME NEW c \in Commands,
               \/ \E r \in Releases : StartMigrate(c, r)
               \/ LockMigrate(c) \/ CheckLedger(c) \/ ApplyMigration(c) \/ VerifyAndStamp(c)
               \/ AbortMigrate(c) \/ RerunMigrate(c)
        PROVE  UNCHANGED <<db, drift>>
    BY <1>1 DEF StartMigrate, LockMigrate, CheckLedger, ApplyMigration, VerifyAndStamp, AbortMigrate, RerunMigrate
  <1>2. ASSUME NEW s \in Services, (\E r \in Releases : StartService(s, r)) \/ LockVerify(s) \/ VerifyMigrations(s) \/ StopService(s)
        PROVE  UNCHANGED <<db, drift>>
    BY <1>2 DEF StartService, LockVerify, VerifyMigrations, StopService
  <1>3. CASE (\E v \in db.dirty : RepairRows(v)) \/ (\E o \in db.objects : DropObject(o)) \/ UNCHANGED migrationVars
    BY <1>3 DEF RepairRows, DropObject, migrationVars, Database
  <1> QED BY <1>1, <1>2, <1>3 DEF MigrationNext

(* The committed database stays empty or one release, with one row per     *)
(* version, whatever the step (migrations.go:117-130).                     *)
LEMMA StepCommitted ==
    ASSUME MigrationTypeOK, ReleasesAreLoadable, VerifiedIsRelease, LedgerIsKeyed, CommittedIsRelease,
           [MigrationNext]_migrationVars
    PROVE  LedgerIsKeyed' /\ CommittedIsRelease'
  <1>1. ASSUME NEW c \in Commands, CommitMigrate(c)
        PROVE  LedgerIsKeyed' /\ CommittedIsRelease'
    <2> DEFINE r == cmd[c].release
    <2>1. r \in Releases /\ Loadable(r)
      BY <1>1 DEF CommitMigrate, ReleasesAreLoadable
    <2>2. /\ db'.ledger = cmd[c].tx.ledger /\ db'.stamp = cmd[c].tx.stamp
          /\ db'.objects = cmd[c].tx.objects /\ drift' = {}
      BY <1>1 DEF CommitMigrate, MigrationTypeOK, Database
    <2>3. db'.ledger = Rows(r) /\ db'.stamp = SchemaHash[r] /\ CurrentHolds(r, db'.objects)
      BY <1>1, <2>2 DEF CommitMigrate, VerifiedIsRelease
    <2>4. LedgerIsKeyed'
      BY <2>1, <2>3, ChainIsKeyed DEF LedgerIsKeyed
    <2>5. Baseline \cup Manifest[r] \subseteq db'.objects \cup drift'
      BY <2>3 DEF CurrentHolds, BaselineHolds, Present
    <2> QED BY <2>1, <2>3, <2>4, <2>5 DEF CommittedIsRelease
  <1>2. CASE /\ db'.ledger = db.ledger /\ db'.stamp = db.stamp
             /\ db.objects \cup drift \subseteq db'.objects \cup drift'
    BY <1>2 DEF LedgerIsKeyed, CommittedIsRelease, NoLedger, NoStamp
  <1> QED BY <1>1, <1>2, OnlyCommitChangesLedger

(* A running service's chain stays the beginning of the ledger: its gate   *)
(* saw exactly its chain, and a commit adds later rows only                *)
(* (migrations.go:83-98, 214-232).                                         *)
LEMMA StepRunning ==
    ASSUME MigrationTypeOK, ReleasesAreLoadable, TransactionExtends, VerifiedIsRelease, LedgerIsKeyed,
           RunningChainIsPrefix, [MigrationNext]_migrationVars
    PROVE  RunningChainIsPrefix'
  <1> USE DEF MigrationTypeOK
  <1>1. ASSUME NEW c \in Commands, CommitMigrate(c)
        PROVE  RunningChainIsPrefix'
    <2> DEFINE q == cmd[c].release
    <2>1. q \in Releases /\ Loadable(q)
      BY <1>1 DEF CommitMigrate, ReleasesAreLoadable
    <2>2. db'.ledger = Rows(q)
      BY <1>1 DEF CommitMigrate, VerifiedIsRelease, Database
    <2>3. db.ledger \subseteq Rows(q) /\ NoGap(q, db.ledger)
      BY <1>1 DEF CommitMigrate, TransactionExtends
    <2> SUFFICES ASSUME NEW s \in Services, svc[s].pc = "running"
                 PROVE  /\ Rows(svc[s].release) \subseteq Rows(q)
                        /\ \A row \in Rows(q) \ Rows(svc[s].release), f \in Files[svc[s].release] : f.version < row.version
      BY <1>1, <2>2 DEF CommitMigrate, RunningChainIsPrefix
    <2>4. Rows(svc[s].release) \subseteq db.ledger
      BY DEF RunningChainIsPrefix
    <2>5. ASSUME NEW row \in Rows(q) \ Rows(svc[s].release), NEW f \in Files[svc[s].release]
          PROVE  f.version < row.version
      <3>1. svc[s].release \in Releases
        BY DEF ReleasesAreLoadable
      <3>2. Row(f) \in db.ledger /\ Row(f).version = f.version
        BY <2>4, <3>1, RowsAreTyped
      <3>3. CASE row \in db.ledger
        BY <3>3 DEF RunningChainIsPrefix
      <3>4. CASE row \notin db.ledger
        BY <2>1, <2>3, <3>2, <3>4, AddedIsLater
      <3> QED BY <3>3, <3>4
    <2> QED BY <2>3, <2>4, <2>5
  <1>2. ASSUME NEW s \in Services, VerifyMigrations(s)
        PROVE  RunningChainIsPrefix'
    <2> DEFINE r == svc[s].release
    <2>1. r \in Releases /\ Loadable(r)
      BY <1>2 DEF VerifyMigrations, ReleasesAreLoadable
    <2>2. UNCHANGED db /\ \A t \in Services \ {s} : svc'[t] = svc[t]
      BY <1>2 DEF VerifyMigrations
    <2>3. ASSUME svc'[s].pc = "running"
          PROVE  svc'[s].release = r /\ Rows(r) \subseteq db.ledger /\ NoUnknown(r, db.ledger)
      BY <1>2, <2>3 DEF VerifyMigrations, AppliedIsChain
    <2>4. ASSUME svc'[s].pc = "running"
          PROVE  db.ledger \subseteq Rows(r)
      <3> SUFFICES ASSUME NEW row \in db.ledger PROVE row \in Rows(r)
        OBVIOUS
      <3>1. row.version \in Versions(Rows(r))
        BY <2>3, <2>4 DEF NoUnknown, Versions
      <3>2. PICK known \in Rows(r) : known.version = row.version
        BY <3>1 DEF Versions
      <3> QED BY <2>3, <2>4, <3>2 DEF LedgerIsKeyed
    <2> QED BY <2>2, <2>3, <2>4 DEF RunningChainIsPrefix
  <1>3. ASSUME db'.ledger = db.ledger,
               \A s \in Services : svc'[s] = svc[s] \/ svc'[s].pc # "running"
        PROVE  RunningChainIsPrefix'
    BY <1>3 DEF RunningChainIsPrefix
  <1>4. ASSUME NEW s \in Services, (\E r \in Releases : StartService(s, r)) \/ LockVerify(s) \/ StopService(s)
        PROVE  RunningChainIsPrefix'
    BY <1>3, <1>4 DEF StartService, LockVerify, StopService
  <1>5. ASSUME NEW c \in Commands,
               \/ \E r \in Releases : StartMigrate(c, r)
               \/ LockMigrate(c) \/ CheckLedger(c) \/ ApplyMigration(c) \/ VerifyAndStamp(c)
               \/ AbortMigrate(c) \/ RerunMigrate(c)
        PROVE  RunningChainIsPrefix'
    BY <1>3, <1>5 DEF StartMigrate, LockMigrate, CheckLedger, ApplyMigration, VerifyAndStamp, AbortMigrate, RerunMigrate
  <1>6. CASE (\E v \in db.dirty : RepairRows(v)) \/ (\E o \in db.objects : DropObject(o)) \/ UNCHANGED migrationVars
    BY <1>3, <1>6 DEF RepairRows, DropObject, migrationVars, Database
  <1> QED BY <1>1, <1>2, <1>4, <1>5, <1>6 DEF MigrationNext

-----------------------------------------------------------------------------
(* The theorems. *)

(* The inductive invariant holds of every behaviour of the runner, the     *)
(* services and the operator (migrations.go:39-202).                       *)
THEOREM MigrationInvariance == MigrationSpec => []MigrationInv
  <1>1. MigrationInit => MigrationInv
    <2> SUFFICES ASSUME MigrationInit PROVE MigrationInv
      OBVIOUS
    <2>1. db.ledger = NoLedger /\ db.stamp = NoStamp
      BY MigrationAssumption DEF MigrationInit, NoLedger, NoStamp
    <2>2. CommittedIsRelease /\ LedgerIsKeyed
      BY <2>1 DEF CommittedIsRelease, LedgerIsKeyed, NoLedger
    <2>3. /\ LockIsExclusive /\ ReleasesAreLoadable /\ TransactionExtends
          /\ VerifiedIsRelease /\ RunningChainIsPrefix
      BY DEF MigrationInit, Ended, LockIsExclusive, Migrating, ReleasesAreLoadable, TransactionExtends,
             VerifiedIsRelease, RunningChainIsPrefix
    <2> QED BY <2>2, <2>3, InitTyped DEF MigrationInv
  <1>2. MigrationInv /\ [MigrationNext]_migrationVars => MigrationInv'
    BY StepTyped, StepLoadable, StepExclusive, StepTransaction, StepCommitted, StepRunning DEF MigrationInv
  <1> QED BY <1>1, <1>2, PTL DEF MigrationSpec

(* Migrations of a chain become visible together or not at all: the        *)
(* committed ledger is empty or one release's whole chain with its         *)
(* fingerprint and its objects (migrations.go:54-130).                     *)
THEOREM CommittedReleaseTheorem == MigrationSpec => []CommittedIsRelease
  <1>1. MigrationInv => CommittedIsRelease
    BY DEF MigrationInv
  <1> QED BY <1>1, MigrationInvariance, PTL

(* A running service's migrations stay the first ones of the ledger        *)
(* (migrations.go:83-98, 214-232).                                         *)
THEOREM RunningPrefixTheorem == MigrationSpec => []RunningChainIsPrefix
  <1>1. MigrationInv => RunningChainIsPrefix
    BY DEF MigrationInv
  <1> QED BY <1>1, MigrationInvariance, PTL

(* A recorded migration is never undone: no command, of an older release   *)
(* or a newer one, and no failure takes a row out of the committed ledger  *)
(* (migrations.go:74-115).                                                 *)
THEOREM LedgerOnlyGrows == MigrationSpec => [][db.ledger \subseteq db'.ledger]_migrationVars
  <1>1. MigrationInv /\ [MigrationNext]_migrationVars => db.ledger \subseteq db'.ledger
    <2> SUFFICES ASSUME MigrationInv, [MigrationNext]_migrationVars
                 PROVE  db.ledger \subseteq db'.ledger
      OBVIOUS
    <2>1. ASSUME NEW c \in Commands, CommitMigrate(c)
          PROVE  db.ledger \subseteq db'.ledger
      BY <2>1 DEF CommitMigrate, MigrationInv, MigrationTypeOK, Database, TransactionExtends
    <2> QED BY <2>1, OnlyCommitChangesLedger DEF MigrationInv
  <1> QED BY <1>1, MigrationInvariance, PTL DEF MigrationSpec

-----------------------------------------------------------------------------
(* IngestWindow *)

(* The fixtures of a day, for given kickoffs and a given cache.            *)
OnDay(k, c, day) == {f \in Fixtures : k[f] = day /\ TeamsOf[f] \cap TeamsIn(c) # {}}

(* CacheRows carry no time later than the last fetch of their league.           *)
NotNewer(rows, at) == \A row \in rows : row.at <= at[row.league]

(* What a refresh q has read and collected: rows of the cache as it was,   *)
(* and rows of its own time.                                               *)
RefreshSound(q, at) ==
    /\ NotNewer(q.existing, at)
    /\ \A row \in q.got : row.at = q.now

(* What a daily run q has kept when it has come to its step.               *)
Kept(k, c, q, from, to) == \A d \in from .. to : OnDay(k, c, d) \subseteq q.kept
Empty(k, c, from, to) == \A d \in from .. to : OnDay(k, c, d) = {}

ScanSound(k, c, q) ==
    q.alone /\ q.future =>
        /\ q.pc # "ids"
        /\ q.pc = "tomorrow" => Kept(k, c, q, q.anchor, q.anchor)
        /\ q.pc = "dayafter" => /\ Kept(k, c, q, q.anchor, q.anchor + 1)
                                /\ OnDay(k, c, q.anchor + 1) # {}
        /\ q.pc \in {"look", "after"} => /\ q.offset \in 2 .. MaxLookaheadDays
                                         /\ Empty(k, c, q.anchor + 1, q.anchor + q.offset - 1)
        /\ q.pc = "look" => Kept(k, c, q, q.anchor, q.anchor + q.offset - 1)
        /\ q.pc = "after" => /\ Kept(k, c, q, q.anchor, q.anchor + q.offset)
                             /\ OnDay(k, c, q.anchor + q.offset) # {}
        /\ q.pc = "categorize" =>
              /\ Kept(k, c, q, q.anchor, q.anchor + 2)
              /\ \/ Empty(k, c, q.anchor + 1, q.anchor + MaxLookaheadDays)
                 \/ \E n \in 1 .. MaxLookaheadDays :
                       /\ Empty(k, c, q.anchor + 1, q.anchor + n - 1)
                       /\ OnDay(k, c, q.anchor + n) # {}
                       /\ Kept(k, c, q, q.anchor + n, q.anchor + n + 1)

RunSound(q) == RefreshSound(q, fetchedAt) /\ ScanSound(provider.kickoff, cached, q)

WindowInv ==
    /\ WindowTypeOK
    /\ NotNewer(cached, fetchedAt)
    /\ \A r \in Runs : RunSound(run[r])

(* The steps of a run.                                                     *)
Steps == {"idle", "refresh", "leagues", "ids", "categorize"} \cup Scanning

(* The least element of a set of naturals.                                 *)
LEMMA MinIsLeast ==
    ASSUME NEW S \in SUBSET Nat, S # {}
    PROVE  Min(S) \in S /\ \A y \in S : Min(S) <= y
  <1>1. \E x \in S : \A y \in S : ~ (<<y, x>> \in OpToRel(<, Nat))
    BY NatLessThanWellFounded, WFMin
  <1>2. \E x \in S : \A y \in S : x <= y
    <2>1. PICK x \in S : \A y \in S : ~ (<<y, x>> \in OpToRel(<, Nat))
      BY <1>1
    <2>2. ASSUME NEW y \in S PROVE x <= y
      <3>1. ~ (<<y, x>> \in {ss \in Nat \X Nat : ss[1] < ss[2]})
        BY <2>1 DEF OpToRel
      <3> QED BY <3>1
    <2> QED BY <2>2
  <1> QED BY <1>2 DEF Min

LEMMA MaxOfTwo ==
    ASSUME NEW a \in Nat, NEW b \in Nat
    PROVE  Max({a, b}) \in Nat /\ a <= Max({a, b}) /\ b <= Max({a, b})
  <1>1. \E x \in {a, b} : \A y \in {a, b} : x >= y
    OBVIOUS
  <1>2. Max({a, b}) \in {a, b} /\ \A y \in {a, b} : Max({a, b}) >= y
    BY <1>1 DEF Max
  <1> QED BY <1>2

LEMMA DayIsOnDay ==
    ASSUME NEW day PROVE FetchFixturesForDay(day) = OnDay(provider.kickoff, cached, day)
  BY DEF FetchFixturesForDay, OnDay, TrackedSet

(* A step of one run over the same cache and rosters.                      *)
LEMMA OneRun ==
    ASSUME WindowInv, NEW r \in Runs, NEW q \in IngestRuns, RunSound(q),
           run' = [run EXCEPT ![r] = q], upsets' \in 0 .. MaxUpsets,
           UNCHANGED <<today, provider, configured, cached, fetchedAt>>
    PROVE  WindowInv'
  <1>1. /\ run \in [Runs -> IngestRuns] /\ today \in 0 .. LastToday /\ cached \subseteq CacheRows
        /\ provider \in [roster : Rosters, kickoff : Schedules] /\ configured \subseteq Leagues
        /\ fetchedAt \in [Leagues -> Nat] /\ NotNewer(cached, fetchedAt)
        /\ \A u \in Runs : RunSound(run[u])
    BY DEF WindowInv, WindowTypeOK
  <1>2. run' \in [Runs -> IngestRuns]
    BY <1>1
  <1>3. WindowTypeOK'
    BY <1>1, <1>2 DEF WindowTypeOK
  <1>4. NotNewer(cached', fetchedAt')
    BY <1>1
  <1>5. ASSUME NEW u \in Runs
        PROVE  RefreshSound(run'[u], fetchedAt') /\ ScanSound(provider'.kickoff, cached', run'[u])
    <2>1. run'[u] = IF u = r THEN q ELSE run[u]
      BY <1>1
    <2>2. RunSound(run'[u])
      BY <1>1, <2>1
    <2> QED BY <2>2 DEF RunSound
  <1> QED BY <1>3, <1>4, <1>5 DEF WindowInv, RunSound, NotNewer, RefreshSound, ScanSound, Kept, Empty, OnDay, TeamsIn

(* A run that is not between two days of its scan, or does not answer for  *)
(* the days to come, has nothing to have kept.                             *)
LEMMA NothingScanned ==
    ASSUME NEW k, NEW c, NEW q,
           \/ q.pc \notin {"ids", "tomorrow", "dayafter", "look", "after", "categorize"}
           \/ ~q.future \/ ~q.alone
    PROVE  ScanSound(k, c, q)
  BY DEF ScanSound

(* A run that has nothing of a refresh in hand.                            *)
LEMMA NothingRead ==
    ASSUME NEW at, NEW q, q.existing = {}, q.got = {}
    PROVE  RefreshSound(q, at)
  BY DEF RefreshSound, NotNewer

LEMMA QuietRun == Quiet \in IngestRuns /\ Quiet.pc = "idle" /\ Quiet.future = FALSE
                  /\ Quiet.existing = {} /\ Quiet.got = {} /\ Quiet.alone = TRUE
  BY DEF Quiet, IngestRuns, Scanning

LEMMA OfRun ==
    ASSUME WindowInv, NEW r \in Runs
    PROVE  /\ run[r] \in IngestRuns /\ RefreshSound(run[r], fetchedAt)
           /\ ScanSound(provider.kickoff, cached, run[r])
           /\ NotNewer(cached, fetchedAt) /\ cached \subseteq CacheRows
           /\ run \in [Runs -> IngestRuns] /\ fetchedAt \in [Leagues -> Nat]
           /\ today \in Nat /\ configured \subseteq Leagues
           /\ provider \in [roster : Rosters, kickoff : Schedules]
           /\ upsets \in 0 .. MaxUpsets
  BY WindowAssumption DEF WindowInv, WindowTypeOK, RunSound

LEMMA StartStep ==
    ASSUME WindowInv, NEW r \in Runs, NEW day \in 0 .. LastToday, NEW ids \in SUBSET Fixtures,
           StartScheduled(r) \/ StartManual(r, day) \/ StartByIDs(r, ids)
    PROVE  WindowInv'
  <1>1. upsets' \in 0 .. MaxUpsets /\ UNCHANGED <<today, provider, configured, cached, fetchedAt>>
    BY OfRun DEF StartScheduled, StartManual, StartByIDs
  <1>2. today \in Nat /\ day \in Nat
    BY OfRun, WindowAssumption
  <1>3. PICK q : /\ run' = [run EXCEPT ![r] = q]
                 /\ \/ q = [Quiet EXCEPT !.pc = "refresh", !.anchor = today, !.future = TRUE]
                    \/ q = [Quiet EXCEPT !.pc = "refresh", !.anchor = day]
                    \/ q = [Quiet EXCEPT !.pc = "ids", !.left = ids]
    BY DEF StartScheduled, StartManual, StartByIDs
  <1>4. /\ q \in IngestRuns /\ q.existing = {} /\ q.got = {}
        /\ q.pc = "refresh" \/ ~q.future
    <2>1. CASE q = [Quiet EXCEPT !.pc = "refresh", !.anchor = today, !.future = TRUE]
      BY <1>2, <2>1 DEF Quiet, IngestRuns
    <2>2. CASE q = [Quiet EXCEPT !.pc = "refresh", !.anchor = day]
      BY <1>2, <2>2 DEF Quiet, IngestRuns
    <2>3. CASE q = [Quiet EXCEPT !.pc = "ids", !.left = ids]
      BY <2>3 DEF Quiet, IngestRuns
    <2> QED BY <1>3, <2>1, <2>2, <2>3
  <1>5. RunSound(q)
    BY <1>4, NothingScanned, NothingRead DEF RunSound
  <1> QED BY <1>1, <1>3, <1>4, <1>5, OneRun

LEMMA RefreshStep ==
    ASSUME WindowInv, NEW r \in Runs, RefreshTrackedTeamsIfStale(r)
    PROVE  WindowInv'
  <1>1. upsets' \in 0 .. MaxUpsets /\ UNCHANGED <<today, provider, configured, cached, fetchedAt>>
    BY OfRun DEF RefreshTrackedTeamsIfStale
  <1>2. PICK q : /\ run' = [run EXCEPT ![r] = q]
                 /\ \/ q = [run[r] EXCEPT !.pc = "scan"]
                    \/ q = [run[r] EXCEPT !.pc = "leagues", !.existing = cached, !.now = today,
                                          !.todo = configured, !.got = {}]
    BY OfRun DEF RefreshTrackedTeamsIfStale
  <1>3. q \in IngestRuns /\ q.pc \in {"scan", "leagues"}
    <2> DEFINE C == SUBSET CacheRows
               R == [pc : Steps, anchor : Nat, future : BOOLEAN, existing : C, now : Nat,
                     todo : SUBSET Leagues, got : C, attempt : Nat, offset : Nat, kept : SUBSET Fixtures,
                     left : SUBSET Fixtures, alone : BOOLEAN]
    <2>1. run[r] \in R
      BY OfRun DEF IngestRuns, Steps
    <2>2. cached \in C /\ {} \in C /\ today \in Nat /\ configured \in SUBSET Leagues
      BY OfRun
    <2>3. "scan" \in Steps /\ "leagues" \in Steps
      BY DEF Steps, Scanning
    <2> HIDE DEF C
    <2>4. CASE q = [run[r] EXCEPT !.pc = "scan"]
      <3>1. q \in R /\ q.pc = "scan"
        BY <2>1, <2>3, <2>4
      <3> QED BY <3>1 DEF IngestRuns, Steps, C
    <2>5. CASE q = [run[r] EXCEPT !.pc = "leagues", !.existing = cached, !.now = today,
                                  !.todo = configured, !.got = {}]
      <3>1. q \in R /\ q.pc = "leagues"
        BY <2>1, <2>2, <2>3, <2>5
      <3> QED BY <3>1 DEF IngestRuns, Steps, C
    <2> QED BY <1>2, <2>4, <2>5
  <1>4. RefreshSound(q, fetchedAt)
    BY <1>2, OfRun DEF RefreshSound, NotNewer, IngestRuns
  <1>5. RunSound(q)
    BY <1>3, <1>4, NothingScanned DEF RunSound
  <1> QED BY <1>1, <1>2, <1>3, <1>5, OneRun

LEMMA LeagueStep ==
    ASSUME WindowInv, NEW r \in Runs, NEW l \in Leagues, RefreshLeague(r, l) \/ RefreshLeagueFails(r, l)
    PROVE  WindowInv'
  <1> DEFINE new == {[team |-> t, league |-> l, at |-> run[r].now] :
                        t \in provider.roster[l] \ TeamsIn(run[r].got)}
  <1>1. upsets' \in 0 .. MaxUpsets /\ UNCHANGED <<today, provider, configured, cached, fetchedAt>>
    BY OfRun, WindowAssumption DEF RefreshLeague, RefreshLeagueFails
  <1>2. new \in SUBSET CacheRows /\ \A row \in new : row.at = run[r].now
    <2>1. provider.roster[l] \subseteq Teams /\ run[r].now \in Nat
      BY OfRun, WindowAssumption DEF IngestRuns
    <2> QED BY <2>1 DEF CacheRows
  <1>3. PICK got \in {run[r].got, run[r].got \cup new} :
            run' = [run EXCEPT ![r] = [run[r] EXCEPT !.todo = run[r].todo \ {l}, !.got = got]]
    <2>1. CASE RefreshLeague(r, l)
      BY <2>1, OfRun DEF RefreshLeague, IngestRuns
    <2>2. CASE RefreshLeagueFails(r, l)
      <3>1. [run[r] EXCEPT !.todo = run[r].todo \ {l}] =
            [run[r] EXCEPT !.todo = run[r].todo \ {l}, !.got = run[r].got]
        BY OfRun DEF IngestRuns
      <3> QED BY <2>2, <3>1, OfRun DEF RefreshLeagueFails
    <2> QED BY <2>1, <2>2
  <1> DEFINE q == [run[r] EXCEPT !.todo = run[r].todo \ {l}, !.got = got]
  <1> HIDE DEF new
  <1>4. /\ q \in IngestRuns /\ q.pc = run[r].pc /\ q.existing = run[r].existing /\ q.now = run[r].now
        /\ q.got = got
    BY <1>2, <1>3, OfRun, ZenonT(40) DEF IngestRuns
  <1>5. run[r].pc = "leagues"
    BY DEF RefreshLeague, RefreshLeagueFails
  <1> HIDE DEF q
  <1>6. RefreshSound(q, fetchedAt)
    BY <1>2, <1>3, <1>4, OfRun DEF RefreshSound
  <1>7. RunSound(q)
    BY <1>4, <1>5, <1>6, NothingScanned DEF RunSound
  <1>8. run' = [run EXCEPT ![r] = q]
    BY <1>3 DEF q
  <1> QED BY <1>1, <1>4, <1>7, <1>8, OneRun

(* A refresh that failed as a whole has nothing in hand any more.          *)
LEMMA FailedRefresh ==
    ASSUME NEW q \in IngestRuns, NEW f, f = RefreshFailed(q)
    PROVE  f \in IngestRuns /\ f.existing = {} /\ f.got = {} /\ f.pc \in {"refresh", "scan"}
  <1>1. q.attempt \in Nat
    BY DEF IngestRuns
  <1>2. PICK n \in Nat, at \in {"refresh", "scan"} :
            f = [q EXCEPT !.pc = at, !.attempt = n, !.existing = {}, !.now = 0, !.got = {}]
    <2>1. CASE q.attempt < ActivityAttempts
      <3>1. PICK n \in Nat : n = q.attempt + 1
        BY <1>1
      <3>2. f = [q EXCEPT !.pc = "refresh", !.attempt = n, !.existing = {}, !.now = 0, !.got = {}]
        BY <2>1, <3>1 DEF RefreshFailed
      <3> QED BY <3>2
    <2>2. CASE ~(q.attempt < ActivityAttempts)
      <3>1. f = [q EXCEPT !.pc = "scan", !.attempt = 1, !.existing = {}, !.now = 0, !.got = {}]
        BY <2>2 DEF RefreshFailed
      <3> QED BY <3>1
    <2> QED BY <2>1, <2>2
  <1>3. at \in {"idle", "refresh", "leagues", "ids", "categorize"} \cup Scanning
    BY <1>2 DEF Scanning
  <1>4. f \in IngestRuns
    <2>1. n \in Nat /\ {} \in SUBSET CacheRows /\ 0 \in Nat
      BY <1>2
    <2> DEFINE P == {"idle", "refresh", "leagues", "ids", "categorize"} \cup Scanning
               C == SUBSET CacheRows
    <2>2. q \in [pc : P, anchor : Nat, future : BOOLEAN, existing : C, now : Nat, todo : SUBSET Leagues,
                 got : C, attempt : Nat, offset : Nat, kept : SUBSET Fixtures,
                 left : SUBSET Fixtures, alone : BOOLEAN]
      BY DEF IngestRuns
    <2>3. at \in P /\ {} \in C
      BY <1>3
    <2> HIDE DEF P, C
    <2>4. f \in [pc : P, anchor : Nat, future : BOOLEAN, existing : C, now : Nat, todo : SUBSET Leagues,
                 got : C, attempt : Nat, offset : Nat, kept : SUBSET Fixtures,
                 left : SUBSET Fixtures, alone : BOOLEAN]
      BY <1>2, <2>1, <2>2, <2>3
    <2> QED BY <2>4 DEF IngestRuns, P, C
  <1>5. f.existing = {} /\ f.got = {} /\ f.pc = at
    BY <1>2 DEF IngestRuns
  <1> QED BY <1>2, <1>4, <1>5

(* Replace: the rows that came back and those carried over are no newer    *)
(* than the fetches that are now recorded.                                 *)
LEMMA ReplaceStep ==
    ASSUME WindowInv, NEW r \in Runs, ReplaceCache(r)
    PROVE  WindowInv'
  <1> DEFINE q == run[r]
             rows == q.got \cup Preserved(q)
             done == [q EXCEPT !.pc = "scan", !.attempt = 1, !.existing = {}, !.now = 0,
                               !.got = {}, !.alone = TRUE]
  <1>1. /\ q \in IngestRuns /\ q.now \in Nat /\ q.got \subseteq CacheRows /\ q.existing \subseteq CacheRows
        /\ q.attempt \in Nat
        /\ NotNewer(q.existing, fetchedAt) /\ \A row \in q.got : row.at = q.now
    BY OfRun DEF IngestRuns, RefreshSound
  <1>2. upsets' \in 0 .. MaxUpsets /\ UNCHANGED <<today, provider, configured>>
    BY OfRun DEF ReplaceCache
  <1>3. CASE /\ run' = [run EXCEPT ![r] = RefreshFailed(q)]
             /\ UNCHANGED <<cached, fetchedAt>>
    <2>1. PICK f : f = RefreshFailed(q)
      OBVIOUS
    <2>2. f \in IngestRuns /\ f.existing = {} /\ f.got = {} /\ f.pc \in {"refresh", "scan"}
      BY <1>1, <2>1, FailedRefresh
    <2>3. RunSound(f)
      BY <2>2, NothingScanned, NothingRead DEF RunSound
    <2> QED BY <1>2, <1>3, <2>1, <2>2, <2>3, OneRun
  <1>4. CASE /\ cached' = rows
             /\ fetchedAt' = [l \in Leagues |-> IF l \in LeaguesIn(q.got)
                                THEN Max({row.at : row \in {x \in q.got : x.league = l}} \cup {fetchedAt[l]})
                                ELSE fetchedAt[l]]
             /\ run' = [Disturb(r) EXCEPT ![r] = done]
    <2>1. ASSUME NEW l \in Leagues
          PROVE  /\ fetchedAt'[l] \in Nat /\ fetchedAt[l] <= fetchedAt'[l]
                 /\ \A row \in q.got : row.league = l => row.at <= fetchedAt'[l]
      <3>1. fetchedAt[l] \in Nat
        BY OfRun
      <3>2. CASE l \in LeaguesIn(q.got)
        <4>1. {row.at : row \in {x \in q.got : x.league = l}} \cup {fetchedAt[l]} = {q.now, fetchedAt[l]}
          BY <1>1, <3>2 DEF LeaguesIn
        <4>2. fetchedAt'[l] = Max({q.now, fetchedAt[l]})
          BY <1>4, <3>2, <4>1
        <4> QED BY <1>1, <3>1, <4>2, MaxOfTwo
      <3>3. CASE l \notin LeaguesIn(q.got)
        BY <1>4, <3>1, <3>3 DEF LeaguesIn
      <3> QED BY <3>2, <3>3
    <2>2. fetchedAt' \in [Leagues -> Nat]
      BY <1>4, <2>1
    <2>3. ASSUME NEW S \in SUBSET CacheRows, NotNewer(S, fetchedAt)
          PROVE  NotNewer(S, fetchedAt')
      <3>1. ASSUME NEW row \in S PROVE row.at <= fetchedAt'[row.league]
        <4>1. row.league \in Leagues /\ row.at \in Nat /\ row.at <= fetchedAt[row.league]
          BY <2>3 DEF CacheRows, NotNewer
        <4>2. fetchedAt[row.league] \in Nat
          BY <4>1, OfRun
        <4> QED BY <2>1, <4>1, <4>2
      <3> QED BY <3>1 DEF NotNewer
    <2>4. cached' \subseteq CacheRows /\ NotNewer(cached', fetchedAt')
      <3>1. Preserved(q) \subseteq q.existing
        BY DEF Preserved
      <3>2. NotNewer(q.existing, fetchedAt')
        BY <1>1, <2>3
      <3>3. NotNewer(q.got, fetchedAt')
        BY <1>1, <2>1 DEF NotNewer, CacheRows
      <3> QED BY <1>1, <1>4, <3>1, <3>2, <3>3 DEF NotNewer
    <2>5. ASSUME NEW u \in Runs
          PROVE  /\ run'[u] \in IngestRuns /\ RefreshSound(run'[u], fetchedAt')
                 /\ ScanSound(provider'.kickoff, cached', run'[u])
      <3>1. CASE u = r
        <4>1. run'[u] = done
          BY <1>4, <3>1 DEF Disturb
        <4>2. done \in IngestRuns /\ done.existing = {} /\ done.got = {} /\ done.pc = "scan"
          BY <1>1 DEF IngestRuns, Scanning
        <4> QED BY <4>1, <4>2, NothingScanned, NothingRead
      <3>2. CASE u # r
        <4> DEFINE v == [run[u] EXCEPT !.alone = (run[u].pc = "idle")]
        <4>1. run'[u] = v
          BY <1>4, <3>2 DEF Disturb
        <4>2. /\ v \in IngestRuns /\ v.existing = run[u].existing /\ v.got = run[u].got /\ v.now = run[u].now
              /\ v.existing \subseteq CacheRows
          BY OfRun, ZenonT(40) DEF IngestRuns
        <4>3. v.pc = "idle" \/ ~v.alone
          BY OfRun DEF IngestRuns
        <4>4. RefreshSound(run[u], fetchedAt)
          BY OfRun
        <4> HIDE DEF v
        <4>5. RefreshSound(v, fetchedAt')
          BY <2>3, <4>2, <4>4 DEF RefreshSound
        <4> QED BY <4>1, <4>2, <4>3, <4>5, NothingScanned
      <3> QED BY <3>1, <3>2
    <2>6. run' \in [Runs -> IngestRuns]
      <3>1. run' = [u \in Runs |-> run'[u]]
        BY <1>4 DEF Disturb
      <3> QED BY <2>5, <3>1
    <2>7. WindowTypeOK'
      BY <1>2, <2>2, <2>4, <2>6 DEF WindowInv, WindowTypeOK
    <2> QED BY <2>4, <2>5, <2>7 DEF WindowInv, RunSound, NotNewer, RefreshSound, ScanSound, Kept, Empty, OnDay, TeamsIn
  <1> QED BY <1>3, <1>4 DEF ReplaceCache, Disturb

(* A run of which the step, the offset and the fixtures kept changed.      *)
Scanned(q, at, n, K) == [q EXCEPT !.pc = at, !.offset = n, !.kept = K]

LEMMA ScannedRun ==
    ASSUME NEW q \in IngestRuns, NEW at \in Steps, NEW n \in Nat, NEW K \in SUBSET Fixtures,
           NEW g, g = Scanned(q, at, n, K)
    PROVE  /\ g \in IngestRuns /\ g.pc = at /\ g.offset = n /\ g.kept = K
           /\ g.anchor = q.anchor /\ g.future = q.future /\ g.alone = q.alone
           /\ g.existing = q.existing /\ g.got = q.got /\ g.now = q.now
  <1> DEFINE C == SUBSET CacheRows
  <1> DEFINE R == [pc : Steps, anchor : Nat, future : BOOLEAN, existing : C, now : Nat, todo : SUBSET Leagues,
                   got : C, attempt : Nat, offset : Nat, kept : SUBSET Fixtures,
                   left : SUBSET Fixtures, alone : BOOLEAN]
  <1>1. q \in R
    BY DEF IngestRuns, Steps
  <1> HIDE DEF C
  <1>2. g \in R
    BY <1>1 DEF Scanned
  <1>3. g.pc = at /\ g.offset = n /\ g.kept = K
        /\ g.anchor = q.anchor /\ g.future = q.future /\ g.alone = q.alone
        /\ g.existing = q.existing /\ g.got = q.got /\ g.now = q.now
    BY <1>1 DEF Scanned
  <1> QED BY <1>2, <1>3 DEF IngestRuns, Steps, C

(* The step and the offset that follow a day.                              *)
Follows(q, found, at, n) ==
    \/ q.pc = "scan" /\ q.future /\ at = "tomorrow"
    \/ q.pc = "scan" /\ ~q.future /\ at = "categorize"
    \/ q.pc = "tomorrow" /\ found /\ at = "dayafter"
    \/ q.pc = "tomorrow" /\ ~found /\ at = "look" /\ n = 2
    \/ q.pc = "look" /\ found /\ at = "after" /\ n = q.offset
    \/ q.pc = "look" /\ ~found /\ q.offset < MaxLookaheadDays /\ at = "look" /\ n = q.offset + 1
    \/ q.pc = "look" /\ ~found /\ ~(q.offset < MaxLookaheadDays) /\ at = "categorize" /\ n = q.offset
    \/ q.pc \in {"dayafter", "after"} /\ at = "categorize" /\ n = q.offset

LEMMA DayFollows ==
    ASSUME NEW q \in IngestRuns, q.pc \in Scanning, NEW found \in BOOLEAN
    PROVE  \E at \in Steps, n \in Nat :
              Follows(q, found, at, n) /\ AfterDay(q, found) = [q EXCEPT !.pc = at, !.offset = n]
  <1>1. q.offset \in Nat
    BY DEF IngestRuns
  <1>2. ASSUME NEW p PROVE [q EXCEPT !.pc = p] = [q EXCEPT !.pc = p, !.offset = q.offset]
    BY DEF IngestRuns
  <1>3. [q EXCEPT !.offset = q.offset + 1] = [q EXCEPT !.pc = q.pc, !.offset = q.offset + 1]
    BY DEF IngestRuns
  <1>4. CASE q.pc = "scan"
    <2>1. AfterDay(q, found) = [q EXCEPT !.pc = IF q.future THEN "tomorrow" ELSE "categorize"]
      BY <1>4 DEF AfterDay
    <2>2. CASE q.future
      BY <1>1, <1>2, <1>4, <2>1, <2>2, ZenonT(40) DEF Follows, Steps, Scanning
    <2>3. CASE ~q.future
      <3>1. AfterDay(q, found) = [q EXCEPT !.pc = "categorize", !.offset = q.offset]
        BY <1>2, <2>1, <2>3
      <3>2. "categorize" \in Steps /\ Follows(q, found, "categorize", q.offset)
        BY <1>4, <2>3 DEF Follows, Steps, Scanning
      <3> QED BY <1>1, <3>1, <3>2
    <2> QED BY <2>2, <2>3
  <1>5. CASE q.pc = "tomorrow" /\ found
    <2>1. AfterDay(q, found) = [q EXCEPT !.pc = "dayafter"]
      BY <1>5 DEF AfterDay
    <2>2. AfterDay(q, found) = [q EXCEPT !.pc = "dayafter", !.offset = q.offset]
      BY <1>2, <2>1
    <2>3. "dayafter" \in Steps /\ Follows(q, found, "dayafter", q.offset)
      BY <1>5 DEF Follows, Steps, Scanning
    <2> QED BY <1>1, <2>2, <2>3
  <1>6. CASE q.pc = "tomorrow" /\ ~found
    <2>1. AfterDay(q, found) = [q EXCEPT !.pc = "look", !.offset = 2]
      BY <1>6 DEF AfterDay
    <2> QED BY <1>6, <2>1 DEF Follows, Steps, Scanning
  <1>7. CASE q.pc = "look" /\ found
    <2>1. AfterDay(q, found) = [q EXCEPT !.pc = "after"]
      BY <1>7 DEF AfterDay
    <2>2. AfterDay(q, found) = [q EXCEPT !.pc = "after", !.offset = q.offset]
      BY <1>2, <2>1
    <2>3. "after" \in Steps /\ Follows(q, found, "after", q.offset)
      BY <1>7 DEF Follows, Steps, Scanning
    <2> QED BY <1>1, <2>2, <2>3
  <1>8. CASE q.pc = "look" /\ ~found /\ q.offset < MaxLookaheadDays
    <2>1. AfterDay(q, found) = [q EXCEPT !.offset = q.offset + 1]
      BY <1>8 DEF AfterDay
    <2>2. PICK n \in Nat : n = q.offset + 1
      BY <1>1
    <2>3. AfterDay(q, found) = [q EXCEPT !.pc = "look", !.offset = n]
      BY <1>3, <1>8, <2>1, <2>2
    <2>4. "look" \in Steps /\ Follows(q, found, "look", n)
      BY <1>8, <2>2 DEF Follows, Steps, Scanning
    <2> QED BY <2>3, <2>4
  <1>9. CASE \/ q.pc = "look" /\ ~found /\ ~(q.offset < MaxLookaheadDays)
             \/ q.pc \in {"dayafter", "after"}
    <2>1. AfterDay(q, found) = [q EXCEPT !.pc = "categorize"]
      BY <1>9 DEF AfterDay
    <2> QED BY <1>1, <1>2, <1>9, <2>1 DEF Follows, Steps, Scanning
  <1> QED BY <1>4, <1>5, <1>6, <1>7, <1>8, <1>9 DEF Scanning

(* The day of a step.                                                      *)
LEMMA DayOfStep ==
    ASSUME NEW q
    PROVE  /\ q.pc = "scan" => DayOf(q) = q.anchor + 0
           /\ q.pc = "tomorrow" => DayOf(q) = q.anchor + 1
           /\ q.pc = "dayafter" => DayOf(q) = q.anchor + 2
           /\ q.pc = "look" => DayOf(q) = q.anchor + q.offset
           /\ q.pc = "after" => DayOf(q) = q.anchor + (q.offset + 1)
  BY DEF DayOf

(* What the answer of one more day adds to a run's knowledge.              *)
LEMMA DaySound ==
    ASSUME NEW k, NEW c, NEW q, NEW g, NEW F, NEW at, NEW n \in Nat,
           q.anchor \in Nat, q.offset \in Nat,
           ScanSound(k, c, q), F = OnDay(k, c, DayOf(q)), Follows(q, F # {}, at, n),
           g.pc = at, g.offset = n, g.kept = q.kept \cup F,
           g.anchor = q.anchor, g.future = q.future, g.alone = q.alone
    PROVE  ScanSound(k, c, g)
  <1> SUFFICES ASSUME q.alone, q.future PROVE ScanSound(k, c, g)
    BY DEF ScanSound
  <1> DEFINE A == q.anchor
             O(d) == OnDay(k, c, d)
  <1>0. MaxLookaheadDays \in Nat /\ MaxLookaheadDays >= 2
    BY WindowAssumption
  <1>1. CASE q.pc = "scan" /\ at = "tomorrow"
    <2>1. O(A) \subseteq g.kept
      BY <1>1, DayOfStep
    <2>2. Kept(k, c, g, A, A)
      BY <2>1 DEF Kept
    <2> QED BY <1>1, <2>2 DEF ScanSound
  <1>2. CASE q.pc = "tomorrow" /\ F # {} /\ at = "dayafter"
    <2>1. O(A + 1) \subseteq g.kept /\ O(A + 1) # {}
      BY <1>2, DayOfStep
    <2>2. O(A) \subseteq g.kept
      BY <1>2 DEF ScanSound, Kept
    <2>3. Kept(k, c, g, A, A + 1)
      BY <2>1, <2>2 DEF Kept
    <2> QED BY <1>2, <2>1, <2>3 DEF ScanSound
  <1>3. CASE q.pc = "tomorrow" /\ F = {} /\ at = "look" /\ n = 2
    <2>1. O(A + 1) = {}
      BY <1>3, DayOfStep
    <2>2. O(A) \subseteq g.kept
      BY <1>3 DEF ScanSound, Kept
    <2>3. Kept(k, c, g, A, A + 2 - 1) /\ Empty(k, c, A + 1, A + 2 - 1)
      BY <2>1, <2>2 DEF Kept, Empty
    <2> QED BY <1>0, <1>3, <2>3 DEF ScanSound
  <1>4. CASE q.pc = "look" /\ F # {} /\ at = "after" /\ n = q.offset
    <2>1. O(A + n) \subseteq g.kept /\ O(A + n) # {}
      BY <1>4, DayOfStep
    <2>2. /\ n \in 2 .. MaxLookaheadDays /\ Empty(k, c, A + 1, A + n - 1)
          /\ Kept(k, c, q, A, A + n - 1)
      BY <1>4 DEF ScanSound
    <2>3. Kept(k, c, g, A, A + n)
      BY <2>1, <2>2, <1>0 DEF Kept
    <2> QED BY <1>4, <2>1, <2>2, <2>3 DEF ScanSound
  <1>5. CASE q.pc = "look" /\ F = {} /\ q.offset < MaxLookaheadDays /\ at = "look" /\ n = q.offset + 1
    <2>1. O(A + q.offset) = {}
      BY <1>5, DayOfStep
    <2>2. /\ q.offset \in 2 .. MaxLookaheadDays /\ Empty(k, c, A + 1, A + q.offset - 1)
          /\ Kept(k, c, q, A, A + q.offset - 1)
      BY <1>5 DEF ScanSound
    <2>3. Kept(k, c, g, A, A + n - 1) /\ Empty(k, c, A + 1, A + n - 1) /\ n \in 2 .. MaxLookaheadDays
      BY <1>0, <1>5, <2>1, <2>2 DEF Kept, Empty
    <2> QED BY <1>5, <2>3 DEF ScanSound
  <1>6. CASE q.pc = "look" /\ F = {} /\ ~(q.offset < MaxLookaheadDays) /\ at = "categorize"
    <2>1. O(A + q.offset) = {}
      BY <1>6, DayOfStep
    <2>2. /\ q.offset \in 2 .. MaxLookaheadDays /\ Empty(k, c, A + 1, A + q.offset - 1)
          /\ Kept(k, c, q, A, A + q.offset - 1)
      BY <1>6 DEF ScanSound
    <2>3. q.offset = MaxLookaheadDays
      BY <1>0, <1>6, <2>2
    <2>4. Empty(k, c, A + 1, A + MaxLookaheadDays)
      BY <1>0, <2>1, <2>2, <2>3 DEF Empty
    <2>5. Kept(k, c, g, A, A + 2)
      BY <1>0, <2>1, <2>2, <2>3 DEF Kept
    <2> QED BY <1>6, <2>4, <2>5 DEF ScanSound
  <1>7. CASE q.pc = "dayafter" /\ at = "categorize"
    <2>1. O(A + 2) \subseteq g.kept
      BY <1>7, DayOfStep
    <2>2. Kept(k, c, q, A, A + 1) /\ O(A + 1) # {}
      BY <1>7 DEF ScanSound
    <2>3. Kept(k, c, g, A, A + 2)
      BY <2>1, <2>2 DEF Kept
    <2>4. Kept(k, c, g, A + 1, A + 1 + 1) /\ Empty(k, c, A + 1, A + 1 - 1)
      BY <2>3 DEF Kept, Empty
    <2>5. 1 \in 1 .. MaxLookaheadDays
      BY <1>0
    <2> QED BY <1>7, <2>2, <2>3, <2>4, <2>5 DEF ScanSound
  <1>8. CASE q.pc = "after" /\ at = "categorize"
    <2> DEFINE m == q.offset
    <2>1. O(A + (m + 1)) \subseteq g.kept
      BY <1>8, DayOfStep
    <2>2. /\ m \in 2 .. MaxLookaheadDays /\ Empty(k, c, A + 1, A + m - 1)
          /\ Kept(k, c, q, A, A + m) /\ O(A + m) # {}
      BY <1>8 DEF ScanSound
    <2>3. Kept(k, c, g, A, A + m)
      BY <2>2 DEF Kept
    <2>4. Kept(k, c, g, A, A + 2)
      BY <1>0, <2>2, <2>3 DEF Kept
    <2>5. Kept(k, c, g, A + m, A + m + 1)
      BY <1>0, <2>1, <2>2, <2>3 DEF Kept
    <2>6. m \in 1 .. MaxLookaheadDays
      BY <1>0, <2>2
    <2> QED BY <1>8, <2>2, <2>4, <2>5, <2>6 DEF ScanSound
  <1> QED BY <1>1, <1>2, <1>3, <1>4, <1>5, <1>6, <1>7, <1>8 DEF Follows

LEMMA FetchStep ==
    ASSUME WindowInv, NEW r \in Runs, FetchDay(r)
    PROVE  WindowInv'
  <1> DEFINE q == run[r]
             F == FetchFixturesForDay(DayOf(q))
  <1>1. q \in IngestRuns /\ RefreshSound(q, fetchedAt) /\ ScanSound(provider.kickoff, cached, q)
    BY OfRun
  <1>2. q.pc \in Scanning /\ q.anchor \in Nat /\ q.offset \in Nat /\ q.kept \in SUBSET Fixtures
    BY <1>1 DEF FetchDay, IngestRuns
  <1>3. F = OnDay(provider.kickoff, cached, DayOf(q)) /\ F \in SUBSET Fixtures
    BY DayIsOnDay DEF OnDay
  <1>4. PICK at \in Steps, n \in Nat :
            Follows(q, F # {}, at, n) /\ AfterDay(q, F # {}) = [q EXCEPT !.pc = at, !.offset = n]
    BY <1>1, <1>2, DayFollows, ZenonT(40)
  <1> DEFINE g == [q EXCEPT !.pc = at, !.offset = n, !.kept = q.kept \cup F]
  <1>5. run' = [run EXCEPT ![r] = [AfterDay(q, F # {}) EXCEPT !.kept = AfterDay(q, F # {}).kept \cup F]]
    BY DEF FetchDay
  <1>6. [AfterDay(q, F # {}) EXCEPT !.kept = AfterDay(q, F # {}).kept \cup F] = g
    <2> HIDE DEF F
    <2> QED BY <1>1, <1>4 DEF IngestRuns
  <1>7. run' = [run EXCEPT ![r] = g]
    BY <1>5, <1>6
  <1>8. /\ g \in IngestRuns /\ g.pc = at /\ g.offset = n /\ g.kept = q.kept \cup F
        /\ g.anchor = q.anchor /\ g.future = q.future /\ g.alone = q.alone
        /\ g.existing = q.existing /\ g.got = q.got /\ g.now = q.now
    <2>1. q.kept \cup F \in SUBSET Fixtures
      BY <1>2, <1>3
    <2>2. g = [q EXCEPT !.pc = at, !.offset = n, !.kept = q.kept \cup F]
      OBVIOUS
    <2>3. PICK K \in SUBSET Fixtures : K = q.kept \cup F
      BY <2>1
    <2>4. g = Scanned(q, at, n, K)
      BY <2>2, <2>3 DEF Scanned
    <2>5. q \in IngestRuns /\ at \in Steps /\ n \in Nat
      BY <1>1, <1>4
    <2> HIDE DEF F, q, g
    <2>6. /\ g \in IngestRuns /\ g.pc = at /\ g.offset = n /\ g.kept = K
          /\ g.anchor = q.anchor /\ g.future = q.future /\ g.alone = q.alone
          /\ g.existing = q.existing /\ g.got = q.got /\ g.now = q.now
      BY <2>3, <2>4, <2>5, ScannedRun
    <2> QED BY <2>3, <2>6
  <1>9. upsets' \in 0 .. MaxUpsets /\ UNCHANGED <<today, provider, configured, cached, fetchedAt>>
    BY OfRun DEF FetchDay
  <1> HIDE DEF g, F, q
  <1>10. ScanSound(provider.kickoff, cached, g)
    BY <1>1, <1>2, <1>3, <1>4, <1>8, DaySound
  <1>11. RefreshSound(g, fetchedAt)
    BY <1>1, <1>8 DEF RefreshSound
  <1>12. RunSound(g)
    BY <1>10, <1>11 DEF RunSound
  <1> QED BY <1>7, <1>8, <1>9, <1>12, OneRun

(* A run that ends, or fails, is idle again.                               *)
LEMMA EndStep ==
    ASSUME WindowInv, NEW r \in Runs, RunFails(r) \/ Categorize(r)
    PROVE  WindowInv'
  <1>1. upsets' \in 0 .. MaxUpsets /\ UNCHANGED <<today, provider, configured, cached, fetchedAt>>
    BY OfRun, WindowAssumption DEF RunFails, Categorize
  <1>2. run' = [run EXCEPT ![r] = Quiet]
    BY DEF RunFails, Categorize
  <1>3. RunSound(Quiet)
    BY QuietRun, NothingScanned, NothingRead DEF RunSound
  <1> QED BY <1>1, <1>2, <1>3, QuietRun, OneRun

(* A run by fixture ids answers for no day.                                *)
LEMMA ByIDsStep ==
    ASSUME WindowInv, NEW r \in Runs, NEW missed \in SUBSET Fixtures, FetchFixturesByIDs(r, missed)
    PROVE  WindowInv'
  <1> DEFINE q == run[r]
  <1>1. q \in IngestRuns /\ RefreshSound(q, fetchedAt) /\ ScanSound(provider.kickoff, cached, q)
    BY OfRun
  <1>2. upsets' \in 0 .. MaxUpsets /\ UNCHANGED <<today, provider, configured, cached, fetchedAt>>
    <2>1. upsets \in 0 .. MaxUpsets
      BY OfRun
    <2> QED BY <2>1, WindowAssumption DEF FetchFixturesByIDs
  <1>3. q.pc = "ids" /\ q.kept \in SUBSET Fixtures /\ q.left \in SUBSET Fixtures /\ q.attempt \in Nat
    BY <1>1 DEF FetchFixturesByIDs, IngestRuns
  <1>4. PICK K \in SUBSET Fixtures, n \in Nat, at \in {"ids", "categorize"} :
            run' = [run EXCEPT ![r] = [q EXCEPT !.kept = K, !.left = missed, !.attempt = n, !.pc = at]]
    <2>1. PICK K \in SUBSET Fixtures : K = q.kept \cup (q.left \ missed)
      BY <1>3
    <2>2. PICK n \in Nat : n = q.attempt + 1
      BY <1>3
    <2>3. PICK at \in {"ids", "categorize"} :
              at = IF missed = {} \/ q.attempt = ManualAttempts THEN "categorize" ELSE "ids"
      OBVIOUS
    <2>4. run' = [run EXCEPT ![r] = [q EXCEPT !.kept = q.kept \cup (q.left \ missed), !.left = missed,
                                     !.attempt = q.attempt + 1,
                                     !.pc = IF missed = {} \/ q.attempt = ManualAttempts
                                            THEN "categorize" ELSE "ids"]]
      BY OfRun DEF FetchFixturesByIDs, IngestRuns
    <2> QED BY <2>1, <2>2, <2>3, <2>4
  <1> DEFINE g == [q EXCEPT !.kept = K, !.left = missed, !.attempt = n, !.pc = at]
  <1>5. /\ g.future = q.future /\ g.alone = q.alone /\ g.existing = q.existing /\ g.got = q.got
        /\ g.now = q.now
    BY <1>1 DEF IngestRuns
  <1>6. g \in IngestRuns
    <2>1. at \in Steps
      BY <1>4 DEF Steps
    <2> DEFINE C == SUBSET CacheRows
               R == [pc : Steps, anchor : Nat, future : BOOLEAN, existing : C, now : Nat,
                     todo : SUBSET Leagues, got : C, attempt : Nat, offset : Nat, kept : SUBSET Fixtures,
                     left : SUBSET Fixtures, alone : BOOLEAN]
    <2>2. q \in R
      BY <1>1 DEF IngestRuns, Steps
    <2> HIDE DEF C
    <2>3. g \in R
      BY <1>4, <2>1, <2>2
    <2> QED BY <2>3 DEF IngestRuns, Steps, C
  <1>7. ~q.future \/ ~q.alone
    BY <1>1, <1>3 DEF ScanSound
  <1>8. run' = [run EXCEPT ![r] = g]
    BY <1>4
  <1> HIDE DEF g, q
  <1>9. RunSound(g)
    <2>1. RefreshSound(g, fetchedAt)
      BY <1>1, <1>5 DEF RefreshSound
    <2>2. ScanSound(provider.kickoff, cached, g)
      BY <1>5, <1>7, NothingScanned
    <2> QED BY <2>1, <2>2 DEF RunSound
  <1> QED BY <1>2, <1>6, <1>8, <1>9, OneRun

(* The surroundings change nothing that a run or the cache relies on: the  *)
(* kickoffs are kept.                                                      *)
LEMMA SurroundingsStep ==
    ASSUME WindowInv, NEW ro \in Rosters, NEW leagues \in SUBSET Leagues,
           Midnight \/ RosterChanges(ro) \/ Reconfigure(leagues) \/ UNCHANGED windowVars
    PROVE  WindowInv'
  <1>1. UNCHANGED <<cached, run, fetchedAt>> /\ provider'.kickoff = provider.kickoff
    BY DEF WindowInv, WindowTypeOK, Midnight, RosterChanges, Reconfigure, windowVars
  <1>2. WindowTypeOK
    BY DEF WindowInv
  <1>3. WindowTypeOK'
    <2>1. CASE Midnight
      BY <1>2, <2>1, WindowAssumption DEF Midnight, WindowTypeOK
    <2>2. CASE RosterChanges(ro)
      BY <1>2, <2>2, WindowAssumption DEF RosterChanges, WindowTypeOK
    <2>3. CASE Reconfigure(leagues)
      BY <1>2, <2>3, WindowAssumption DEF Reconfigure, WindowTypeOK
    <2>4. CASE UNCHANGED windowVars
      BY <1>2, <2>4 DEF windowVars, WindowTypeOK
    <2> QED BY <2>1, <2>2, <2>3, <2>4
  <1>4. NotNewer(cached, fetchedAt) /\ \A u \in Runs :
            RefreshSound(run[u], fetchedAt) /\ ScanSound(provider.kickoff, cached, run[u])
    BY DEF WindowInv, RunSound
  <1>5. NotNewer(cached', fetchedAt') /\ \A u \in Runs :
            RefreshSound(run'[u], fetchedAt') /\ ScanSound(provider'.kickoff, cached', run'[u])
    BY <1>1, <1>4
  <1> QED BY <1>3, <1>5 DEF WindowInv, RunSound, NotNewer, RefreshSound, ScanSound, Kept, Empty, OnDay, TeamsIn

LEMMA WindowStarts == WindowInit => WindowInv
  <1> SUFFICES ASSUME WindowInit PROVE WindowInv
    OBVIOUS
  <1>1. WindowTypeOK
    BY QuietRun, WindowAssumption DEF WindowInit, WindowTypeOK
  <1>2. ASSUME NEW r \in Runs PROVE RunSound(run[r])
    BY QuietRun, NothingScanned, NothingRead DEF WindowInit, RunSound
  <1>3. NotNewer(cached, fetchedAt)
    BY DEF WindowInit, NotNewer
  <1> QED BY <1>1, <1>2, <1>3 DEF WindowInv

LEMMA WindowStep == WindowInv /\ [WindowNext]_windowVars => WindowInv'
  <1> SUFFICES ASSUME WindowInv, [WindowNext]_windowVars PROVE WindowInv'
    OBVIOUS
  <1>1. ASSUME NEW r \in Runs, StartScheduled(r) PROVE WindowInv'
    <2>1. 0 \in 0 .. LastToday /\ {} \in SUBSET Fixtures
      BY WindowAssumption
    <2> QED BY <1>1, <2>1, StartStep
  <1>2. ASSUME NEW r \in Runs, NEW day \in 0 .. LastToday, StartManual(r, day) PROVE WindowInv'
    <2>1. {} \in SUBSET Fixtures
      OBVIOUS
    <2> QED BY <1>2, <2>1, StartStep
  <1>3. ASSUME NEW r \in Runs, NEW ids \in SUBSET Fixtures, StartByIDs(r, ids) PROVE WindowInv'
    <2>1. 0 \in 0 .. LastToday
      BY WindowAssumption
    <2> QED BY <1>3, <2>1, StartStep
  <1>4. ASSUME Midnight \/ (\E leagues \in SUBSET Leagues \ {{}} : Reconfigure(leagues))
               \/ UNCHANGED windowVars
        PROVE  WindowInv'
    <2>1. \E ro : ro \in Rosters
      <3>1. provider.roster \in Rosters
        BY DEF WindowInv, WindowTypeOK
      <3> QED BY <3>1
    <2>2. {} \in SUBSET Leagues
      OBVIOUS
    <2> QED BY <1>4, <2>1, <2>2, SurroundingsStep
  <1>5. ASSUME NEW ro \in Rosters, RosterChanges(ro) PROVE WindowInv'
    <2>1. {} \in SUBSET Leagues
      OBVIOUS
    <2> QED BY <1>5, <2>1, SurroundingsStep
  <1> QED
    BY <1>1, <1>2, <1>3, <1>4, <1>5, RefreshStep, LeagueStep, ReplaceStep, FetchStep, EndStep, ByIDsStep
    DEF WindowNext

(* The inductive invariant of the fetch window: the cache and what a       *)
(* refresh has read of it carry no time later than the fetches of their    *)
(* league, and a daily run has kept exactly what its step implies.         *)
THEOREM WindowInvariance == WindowSpec => []WindowInv
  BY WindowStarts, WindowStep, PTL DEF WindowSpec

(* The cache of tracked teams, the provider and the open ingest runs keep  *)
(* their types.                                                            *)
THEOREM WindowTypes == WindowSpec => []WindowTypeOK
  <1>1. WindowInv => WindowTypeOK
    BY DEF WindowInv
  <1> QED BY <1>1, WindowInvariance, PTL

(* A cache that a run trusts without asking the provider stands for a      *)
(* roster of every configured league fetched within the cache's age,       *)
(* however many partial refreshes followed each other.                     *)
THEOREM FreshRosters == WindowSpec => []FreshIsFetched
  <1>1. WindowInv => FreshIsFetched
    <2> SUFFICES ASSUME WindowInv, TrackedTeamCacheFresh(cached), NEW l \in configured
                 PROVE  today - fetchedAt[l] < CacheDays
      BY DEF FreshIsFetched
    <2> DEFINE ats == {row.at : row \in cached}
    <2>1. /\ cached \subseteq CacheRows /\ NotNewer(cached, fetchedAt) /\ today \in Nat
          /\ fetchedAt \in [Leagues -> Nat] /\ configured \subseteq Leagues
      BY WindowAssumption DEF WindowInv, WindowTypeOK
    <2>2. PICK row \in cached : row.league = l
      BY DEF TrackedTeamCacheFresh, LeaguesIn
    <2>3. row.at \in ats /\ ats \in SUBSET Nat
      BY <2>1, <2>2 DEF CacheRows
    <2>4. today - Min(ats) < CacheDays
      BY DEF TrackedTeamCacheFresh
    <2> HIDE DEF ats
    <2>5. Min(ats) \in Nat /\ Min(ats) <= row.at
      BY <2>3, MinIsLeast
    <2>6. row.at \in Nat /\ fetchedAt[l] \in Nat /\ row.at <= fetchedAt[l]
      BY <2>1, <2>2, <2>3 DEF NotNewer
    <2>7. CacheDays \in Nat
      BY WindowAssumption
    <2> QED BY <2>1, <2>4, <2>5, <2>6, <2>7
  <1> QED BY <1>1, WindowInvariance, PTL

(* A scheduled run over a cache nobody replaced meanwhile reaches          *)
(* categorisation with every tracked fixture of the anchor day, of the two *)
(* days after it, and of the next day that has fixtures with the day       *)
(* following it, for every size of the lookahead.                          *)
THEOREM UpcomingFixtures == WindowSpec => []UpcomingIsFetched
  <1>1. WindowInv => UpcomingIsFetched
    <2> SUFFICES ASSUME WindowInv, NEW r \in Runs,
                        run[r].pc = "categorize", run[r].future, run[r].alone
                 PROVE  \A d \in DueDays(run[r]) : FetchFixturesForDay(d) \subseteq run[r].kept
      BY DEF UpcomingIsFetched
    <2> DEFINE k == provider.kickoff
               q == run[r]
               A == q.anchor
               N == NextDays(q)
    <2>1. q.anchor \in Nat /\ ScanSound(k, cached, q)
      BY OfRun DEF IngestRuns
    <2>2. /\ Kept(k, cached, q, A, A + 2)
          /\ \/ Empty(k, cached, A + 1, A + MaxLookaheadDays)
             \/ \E n \in 1 .. MaxLookaheadDays :
                   /\ Empty(k, cached, A + 1, A + n - 1)
                   /\ OnDay(k, cached, A + n) # {}
                   /\ Kept(k, cached, q, A + n, A + n + 1)
      BY <2>1 DEF ScanSound
    <2>3. N = {d \in A + 1 .. A + MaxLookaheadDays : OnDay(k, cached, d) # {}}
      BY DayIsOnDay DEF NextDays
    <2>4. MaxLookaheadDays \in Nat
      BY WindowAssumption
    <2>5. ASSUME N # {}
          PROVE  Kept(k, cached, q, Min(N), Min(N) + 1) /\ Min(N) \in Nat
      <3>1. N \in SUBSET Nat
        BY <2>1, <2>3, <2>4
      <3>2. Min(N) \in N /\ \A y \in N : Min(N) <= y
        BY <2>5, <3>1, MinIsLeast
      <3>3. PICK n \in 1 .. MaxLookaheadDays :
                   /\ Empty(k, cached, A + 1, A + n - 1)
                   /\ OnDay(k, cached, A + n) # {}
                   /\ Kept(k, cached, q, A + n, A + n + 1)
        BY <2>2, <2>3, <2>5 DEF Empty
      <3>4. A + n \in N
        BY <2>1, <2>3, <2>4, <3>3
      <3>5. Min(N) <= A + n /\ Min(N) \in A + 1 .. A + MaxLookaheadDays /\ OnDay(k, cached, Min(N)) # {}
        BY <2>3, <3>2, <3>4
      <3>6. Min(N) \notin A + 1 .. A + n - 1
        BY <3>3, <3>5 DEF Empty
      <3>7. Min(N) = A + n
        BY <2>1, <2>4, <3>3, <3>5, <3>6
      <3> QED BY <2>1, <3>3, <3>7
    <2>6. ASSUME NEW d \in DueDays(q) PROVE OnDay(k, cached, d) \subseteq q.kept
      <3>1. CASE d \in A .. A + 2
        BY <2>2, <3>1 DEF Kept
      <3>2. CASE N # {} /\ d \in {Min(N), Min(N) + 1}
        <4>1. d \in Min(N) .. Min(N) + 1
          BY <2>5, <3>2
        <4> QED BY <2>5, <3>2, <4>1 DEF Kept
      <3> QED BY <2>6, <3>1, <3>2 DEF DueDays
    <2> QED BY <2>6, DayIsOnDay
  <1> QED BY <1>1, WindowInvariance, PTL

-----------------------------------------------------------------------------
(* TwitterSession *)

Service == [up : BOOLEAN, boot : BOOLEAN, state : States, jar : Cookies,
            loaded : Nat, print : Cookies]
Request == [kind : RequestKinds, at : Instances, pc : RequestSteps, seen : Nat, mtime : Nat,
            read : Cookies, warm : BOOLEAN, page : Pages, got : Cookies,
            answer : Answers]

(* What a service last saved or loaded was in the file.                    *)
ServiceOK(service, sets) == service.print \in sets \cup {NoCookies}

(* What a request read was in the file, and so is what it is about to mark *)
(* as saved; it answers once, and its page is of this request.             *)
RequestOK(q, sets) ==
    /\ q.read \in sets \cup {NoCookies}
    /\ q.pc = "mark" => q.got \in sets
    /\ q.pc # "done" => q.answer = "none"
    /\ q.pc \in {"stat", "read", "add"} => q.page = "none"
    /\ q.answer = "ok" /\ q.page = "feed" => q.got \in sets \cup {NoCookies}

SessionInv ==
    /\ SessionTypeOK
    /\ \A c \in published : hasAuthToken(c)
    /\ file.cookies \in published
    /\ \A i \in Instances : ServiceOK(inst[i], published)
    /\ \A r \in Requests : RequestOK(req[r], published)

-----------------------------------------------------------------------------
(* The records a step writes. *)

(* The constants of a request and of a service are typed.                  *)
LEMMA ConstantsTyped ==
    /\ NoCookies \in Cookies
    /\ IdleRequest \in Request
    /\ \A sets : RequestOK(IdleRequest, sets)
  <1>1. NoCookies \in Cookies
    BY ConstantsOK DEF NoCookies, Cookies
  <1>2. IdleRequest \in Request
    BY <1>1, ConstantsOK DEF IdleRequest, Request, RequestKinds, RequestSteps, Pages, Answers
  <1>3. \A sets : RequestOK(IdleRequest, sets)
    BY DEF RequestOK, IdleRequest
  <1> QED BY <1>1, <1>2, <1>3

(* A finished request keeps its page and cookies only when it answered ok  *)
(* (infra/twitter/client.go:199-259).                                      *)
LEMMA AnsweredTyped ==
    ASSUME NEW q \in Request, NEW a \in Answers, NEW sets,
           a = "ok" /\ q.page = "feed" => q.got \in sets \cup {NoCookies}
    PROVE  Answered(q, a) \in Request /\ RequestOK(Answered(q, a), sets)
  <1> DEFINE n == Answered(q, a)
  <1>1. /\ n.pc = "done" /\ n.read = NoCookies /\ n.answer = a
        /\ n.page = (IF a = "ok" THEN q.page ELSE "none")
        /\ n.got = (IF a = "ok" THEN q.got ELSE NoCookies)
    BY DEF Answered, IdleRequest
  <1>2. n \in Request
    BY ConstantsTyped DEF Answered, IdleRequest, Request, RequestSteps, Pages
  <1>3. RequestOK(n, sets)
    BY <1>1 DEF RequestOK
  <1> QED BY <1>2, <1>3

(* A state change of a service leaves what it saved                        *)
(* (twitter/service.go:230-273).                                           *)
LEMMA SetStateTyped ==
    ASSUME NEW service \in Service, NEW s \in States
    PROVE  /\ SetState(service, s) \in Service
           /\ SetState(service, s).print = service.print
           /\ SetState(service, s).jar = service.jar
  BY DEF SetState, Service

(* After the reload a request answers from a warm session or loads a page  *)
(* (twitter/auth.go:84-99).                                                *)
LEMMA ProceedTyped ==
    ASSUME SessionInv, NEW r \in Requests, NEW reloaded \in BOOLEAN, req[r].pc \in {"stat", "read", "add"}
    PROVE  Proceed(r, reloaded) \in Request /\ RequestOK(Proceed(r, reloaded), published)
  <1>1. req[r] \in Request /\ req[r].page = "none" /\ req[r].answer = "none"
    BY DEF SessionInv, SessionTypeOK, Request, RequestOK
  <1>2. CASE req[r].warm /\ ~reloaded
    BY <1>1, <1>2, AnsweredTyped DEF Proceed, Answers
  <1>3. CASE ~(req[r].warm /\ ~reloaded)
    <2> DEFINE n == [req[r] EXCEPT !.pc = "go", !.read = NoCookies, !.mtime = 0, !.seen = 0]
    <2>1. n \in Request /\ n.pc = "go" /\ n.read = NoCookies /\ n.page = "none" /\ n.answer = "none"
      BY <1>1, ConstantsTyped DEF Request, RequestSteps
    <2>2. RequestOK(n, published)
      BY <2>1 DEF RequestOK
    <2> QED BY <1>3, <2>1, <2>2 DEF Proceed
  <1> QED BY <1>2, <1>3

(* What a request reports after the save: a verification is ok only when   *)
(* the cookies were saved (twitter/auth.go:113-123, 373-408).              *)
LEMMA AfterBackupTyped ==
    ASSUME SessionInv, NEW r \in Requests, NEW spare \in BOOLEAN
    PROVE  /\ AfterBackup(r, spare).state \in States
           /\ AfterBackup(r, spare).answer \in Answers
           /\ AfterBackup(r, spare).answer = "ok" => spare
  <1>1. At(r).state \in States
    BY DEF SessionInv, SessionTypeOK, At
  <1>2. CASE req[r].kind = "search"
    BY <1>1, <1>2 DEF AfterBackup, classifyMissingFeed, States, Answers
  <1>3. CASE req[r].kind # "search"
    BY <1>1, <1>3 DEF AfterBackup, VerifyAnswer, Answers
  <1> QED BY <1>2, <1>3

-----------------------------------------------------------------------------
(* RequestSteps of one request on one service. *)

(* A step that rewrites one request keeps the requests in order, while the *)
(* published sets only grow.                                               *)
LEMMA RequestsKept ==
    ASSUME SessionInv, NEW r \in Requests, NEW q \in Request, req' = [req EXCEPT ![r] = q],
           published \subseteq published', RequestOK(q, published')
    PROVE  /\ req' \in [Requests -> Request]
           /\ \A x \in Requests : RequestOK(req'[x], published')
  BY DEF SessionInv, SessionTypeOK, Request, RequestOK

(* The same for one service.                                               *)
LEMMA ServicesKept ==
    ASSUME SessionInv, NEW i \in Instances, NEW service \in Service, inst' = [inst EXCEPT ![i] = service],
           published \subseteq published', ServiceOK(service, published')
    PROVE  /\ inst' \in [Instances -> Service]
           /\ \A x \in Instances : ServiceOK(inst'[x], published')
  BY DEF SessionInv, SessionTypeOK, Service, ServiceOK

(* A step in which one request and its service change, and the file does   *)
(* not.                                                                    *)
LEMMA RequestStep ==
    ASSUME SessionInv, NEW r \in Requests, NEW q \in Request, req' = [req EXCEPT ![r] = q],
           RequestOK(q, published),
           NEW i \in Instances, NEW service \in Service, inst' = [inst EXCEPT ![i] = service],
           ServiceOK(service, published),
           UNCHANGED <<live, logins, profile, captured, file, published>>,
           rotations' \in 0..MaxRotations, faults' \in 0..MaxFaults
    PROVE  SessionInv'
  <1>1. published \subseteq published' /\ published' = published
    OBVIOUS
  <1>2. req' \in [Requests -> Request] /\ \A x \in Requests : RequestOK(req'[x], published')
    BY <1>1, RequestsKept
  <1>3. inst' \in [Instances -> Service] /\ \A x \in Instances : ServiceOK(inst'[x], published')
    BY <1>1, ServicesKept
  <1>4. SessionTypeOK'
    BY <1>2, <1>3 DEF SessionInv, SessionTypeOK, Request, Service
  <1> QED BY <1>2, <1>3, <1>4 DEF SessionInv

(* A step in which only one request changes.                               *)
LEMMA RequestOnlyStep ==
    ASSUME SessionInv, NEW r \in Requests, NEW q \in Request, req' = [req EXCEPT ![r] = q],
           RequestOK(q, published),
           UNCHANGED <<live, logins, profile, captured, file, inst, published>>,
           rotations' \in 0..MaxRotations, faults' \in 0..MaxFaults
    PROVE  SessionInv'
  <1>1. inst[Static] \in Service /\ ServiceOK(inst[Static], published)
    BY ConstantsOK DEF SessionInv, SessionTypeOK, Service
  <1>2. inst' = [inst EXCEPT ![Static] = inst[Static]]
    BY DEF SessionInv, SessionTypeOK
  <1> QED BY <1>1, <1>2, ConstantsOK, RequestStep

(* A request that ends with a state change of its service.                 *)
LEMMA SessionEndStep ==
    ASSUME SessionInv, NEW r \in Requests, NEW state \in States, NEW a \in Answers,
           EnterState(r, state), Answer(r, a),
           a = "ok" /\ req[r].page = "feed" => req[r].got \in published \cup {NoCookies},
           UNCHANGED <<live, logins, profile, captured, file, published>>,
           rotations' \in 0..MaxRotations, faults' \in 0..MaxFaults
    PROVE  SessionInv'
  <1>1. req[r] \in Request /\ req[r].at \in Instances
    BY DEF SessionInv, SessionTypeOK, Request
  <1>2. inst[req[r].at] \in Service /\ ServiceOK(inst[req[r].at], published)
    BY <1>1 DEF SessionInv, SessionTypeOK, Service
  <1> DEFINE q == Answered(req[r], a)
             service == SetState(inst[req[r].at], state)
  <1>3. q \in Request /\ RequestOK(q, published)
    BY <1>1, AnsweredTyped
  <1>4. service \in Service /\ ServiceOK(service, published)
    BY <1>2, SetStateTyped DEF ServiceOK
  <1>5. req' = [req EXCEPT ![r] = q] /\ inst' = [inst EXCEPT ![req[r].at] = service]
    BY DEF EnterState, Answer
  <1> HIDE DEF q, service
  <1> QED BY <1>1, <1>3, <1>4, <1>5, RequestStep

(* A request that goes on with a state change of its service.              *)
LEMMA GoOnStep ==
    ASSUME SessionInv, NEW r \in Requests, NEW state \in States, NEW at \in {"go", "page", "get", "put"},
           req[r].pc # "done", EnterState(r, state), Goto(r, at),
           UNCHANGED <<live, logins, profile, captured, file, published>>,
           rotations' \in 0..MaxRotations, faults' \in 0..MaxFaults
    PROVE  SessionInv'
  <1>1. req[r] \in Request /\ req[r].at \in Instances /\ RequestOK(req[r], published)
    BY DEF SessionInv, SessionTypeOK, Request
  <1>2. inst[req[r].at] \in Service /\ ServiceOK(inst[req[r].at], published)
    BY <1>1 DEF SessionInv, SessionTypeOK, Service
  <1> DEFINE q == [req[r] EXCEPT !.pc = at]
             service == SetState(inst[req[r].at], state)
  <1>3. q \in Request /\ RequestOK(q, published)
    BY <1>1 DEF RequestOK, Request, RequestSteps
  <1>4. service \in Service /\ ServiceOK(service, published)
    BY <1>2, SetStateTyped DEF ServiceOK
  <1>5. req' = [req EXCEPT ![r] = q] /\ inst' = [inst EXCEPT ![req[r].at] = service]
    BY DEF EnterState, Goto
  <1> HIDE DEF q, service
  <1> QED BY <1>1, <1>3, <1>4, <1>5, RequestStep

-----------------------------------------------------------------------------
(* The actions. *)

(* Every step keeps the invariant (twitter/auth.go:70-262,                 *)
(* twitter/search.go, twitter/cookies_backup.go:124-195).                  *)
LEMMA SessionStep == SessionInv /\ [SessionNext]_sessionVars => SessionInv'
  <1> SUFFICES ASSUME SessionInv, [SessionNext]_sessionVars PROVE SessionInv'
    OBVIOUS
  <1>0. /\ rotations \in 0..MaxRotations /\ faults \in 0..MaxFaults
        /\ Fault => faults' \in 0..MaxFaults
        /\ UNCHANGED faults => faults' \in 0..MaxFaults
        /\ UNCHANGED rotations => rotations' \in 0..MaxRotations
    BY ConstantsOK DEF SessionInv, SessionTypeOK, Fault
  <1>r. ASSUME NEW r \in Requests
        PROVE  /\ req[r] \in Request /\ req[r].at \in Instances /\ RequestOK(req[r], published)
               /\ At(r) \in Service /\ ServiceOK(At(r), published)
    <2>1. req[r] \in Request /\ req[r].at \in Instances
      BY DEF SessionInv, SessionTypeOK, Request
    <2> QED BY <2>1 DEF SessionInv, SessionTypeOK, Service, At
  <1>i. \A i \in Instances : inst[i] \in Service /\ ServiceOK(inst[i], published)
    BY DEF SessionInv, SessionTypeOK, Service
  <1>1. ASSUME NEW r \in Requests, NEW i \in Instances, Search(r, i)
        PROVE  SessionInv'
    <2> DEFINE at == SearchTarget(i)
               q == IF inst[at].up THEN [IdleRequest EXCEPT !.at = at, !.pc = "stat", !.seen = inst[at].loaded]
                    ELSE [IdleRequest EXCEPT !.at = at, !.pc = "done", !.answer = "error"]
    <2>1. at \in Instances /\ inst[at].loaded \in Nat
      BY ConstantsOK, <1>i DEF SearchTarget, Service
    <2>2. q \in Request /\ RequestOK(q, published)
      BY <2>1, ConstantsTyped DEF IdleRequest, Request, RequestOK, RequestSteps, Answers
    <2>3. req' = [req EXCEPT ![r] = q] /\ UNCHANGED <<live, logins, profile, captured, file, inst, published, rotations, faults>>
      BY <1>1 DEF Search
    <2> HIDE DEF q, at
    <2> QED BY <1>0, <2>2, <2>3, RequestOnlyStep
  <1>2. ASSUME NEW r \in Requests, NEW i \in Instances, NEW kind \in {"verify", "startup"}, EnsureAuthenticated(r, i, kind)
        PROVE  SessionInv'
    <2> DEFINE q == [IdleRequest EXCEPT !.kind = kind, !.at = i, !.pc = "stat", !.seen = inst[i].loaded,
                                        !.warm = kind = "startup" /\ inst[i].state = "healthy"]
               service == [inst[i] EXCEPT !.boot = @ /\ kind # "startup"]
    <2>1. q \in Request /\ RequestOK(q, published)
      BY <1>i, ConstantsTyped DEF IdleRequest, Request, RequestOK, Service, RequestSteps, RequestKinds
    <2>2. service \in Service /\ ServiceOK(service, published)
      BY <1>i DEF Service, ServiceOK
    <2>3. req' = [req EXCEPT ![r] = q] /\ inst' = [inst EXCEPT ![i] = service]
      BY <1>2 DEF EnsureAuthenticated
    <2>4. UNCHANGED <<live, logins, profile, captured, file, published, rotations, faults>>
      BY <1>2 DEF EnsureAuthenticated
    <2> HIDE DEF q, service
    <2> QED BY <1>0, <2>1, <2>2, <2>3, <2>4, RequestStep
  <1>3. ASSUME NEW r \in Requests, CanarySearch(r)
        PROVE  SessionInv'
    <2> DEFINE q == [IdleRequest EXCEPT !.pc = "stat", !.seen = inst[Static].loaded]
    <2>1. q \in Request /\ RequestOK(q, published)
      BY <1>i, ConstantsOK, ConstantsTyped DEF IdleRequest, Request, RequestOK, Service, RequestSteps
    <2>2. req' = [req EXCEPT ![r] = q] /\ UNCHANGED <<live, logins, profile, captured, file, inst, published, rotations, faults>>
      BY <1>3 DEF CanarySearch, OutsideUnchanged
    <2> HIDE DEF q
    <2> QED BY <1>0, <2>1, <2>2, RequestOnlyStep
  <1>4. ASSUME NEW r \in Requests, StatFile(r)
        PROVE  SessionInv'
    <2> DEFINE q == IF file.mtime > req[r].seen THEN [req[r] EXCEPT !.pc = "read", !.mtime = file.mtime]
                    ELSE Proceed(r, FALSE)
    <2>1. Proceed(r, FALSE) \in Request /\ RequestOK(Proceed(r, FALSE), published)
      BY <1>4, ProceedTyped DEF StatFile
    <2>2. file.mtime \in Nat
      BY DEF SessionInv, SessionTypeOK
    <2>3. q \in Request /\ RequestOK(q, published)
      BY <1>4, <1>r, <2>1, <2>2, ZenonT(40) DEF StatFile, Request, RequestOK, RequestSteps
    <2>4. req' = [req EXCEPT ![r] = q] /\ UNCHANGED <<live, logins, profile, captured, file, inst, published, rotations, faults>>
      BY <1>4 DEF StatFile, OutsideUnchanged
    <2> HIDE DEF q
    <2> QED BY <1>0, <2>3, <2>4, RequestOnlyStep
  <1>5. ASSUME NEW r \in Requests, ReadFile(r)
        PROVE  SessionInv'
    <2>0. UNCHANGED <<live, logins, profile, captured, file, published, rotations, faults>>
      BY <1>5 DEF ReadFile, OutsideUnchanged
    <2>1. CASE Readable
      <3> DEFINE q == [req[r] EXCEPT !.pc = "add", !.read = file.cookies]
                 service == [SetState(At(r), "loading") EXCEPT !.jar = NoCookies]
      <3>1. file.cookies \in Cookies /\ file.cookies \in published
        BY DEF SessionInv, SessionTypeOK
      <3>2. q \in Request /\ RequestOK(q, published)
        BY <1>5, <1>r, <3>1 DEF ReadFile, Request, RequestOK, RequestSteps
      <3>3. SetState(At(r), "loading") \in Service /\ SetState(At(r), "loading").print = At(r).print
        BY <1>r, SetStateTyped DEF States
      <3>4. service \in Service /\ ServiceOK(service, published)
        BY <1>r, <3>3, ConstantsTyped DEF Service, ServiceOK
      <3>5. req' = [req EXCEPT ![r] = q] /\ inst' = [inst EXCEPT ![req[r].at] = service]
        BY <1>5, <2>1 DEF ReadFile, At
      <3> HIDE DEF q, service
      <3> QED BY <1>0, <1>r, <2>0, <3>2, <3>4, <3>5, RequestStep
    <2>2. CASE ~Readable
      <3> DEFINE service == [At(r) EXCEPT !.loaded = req[r].mtime]
      <3>1. Proceed(r, FALSE) \in Request /\ RequestOK(Proceed(r, FALSE), published)
        BY <1>5, ProceedTyped DEF ReadFile
      <3>2. service \in Service /\ ServiceOK(service, published)
        BY <1>r DEF Service, ServiceOK, Request
      <3>3. req' = [req EXCEPT ![r] = Proceed(r, FALSE)] /\ inst' = [inst EXCEPT ![req[r].at] = service]
        BY <1>5, <2>2 DEF ReadFile, At
      <3> HIDE DEF service
      <3> QED BY <1>0, <1>r, <2>0, <3>1, <3>2, <3>3, RequestStep
    <2> QED BY <2>1, <2>2
  <1>6. ASSUME NEW r \in Requests, AddCookies(r)
        PROVE  SessionInv'
    <2> DEFINE service == [At(r) EXCEPT !.jar = req[r].read, !.print = req[r].read, !.loaded = req[r].mtime]
    <2>1. Proceed(r, TRUE) \in Request /\ RequestOK(Proceed(r, TRUE), published)
      BY <1>6, ProceedTyped DEF AddCookies
    <2>2. service \in Service /\ ServiceOK(service, published)
      BY <1>r DEF Service, ServiceOK, Request, RequestOK
    <2>3. req' = [req EXCEPT ![r] = Proceed(r, TRUE)] /\ inst' = [inst EXCEPT ![req[r].at] = service]
      BY <1>6 DEF AddCookies, At
    <2>4. UNCHANGED <<live, logins, profile, captured, file, published, rotations, faults>>
      BY <1>6 DEF AddCookies, OutsideUnchanged
    <2> HIDE DEF service
    <2> QED BY <1>0, <1>r, <2>1, <2>2, <2>3, <2>4, RequestStep
  <1>7. ASSUME NEW r \in Requests, ReplaceCookiesFails(r) \/ NavigateFails(r)
        PROVE  SessionInv'
    BY <1>0, <1>7, SessionEndStep DEF ReplaceCookiesFails, NavigateFails, OutsideUnchanged, States, Answers
  <1>8. ASSUME NEW r \in Requests, Navigate(r)
        PROVE  SessionInv'
    <2>1. PICK page \in ServedPages(At(r).jar), rotated \in BOOLEAN :
              /\ rotated => rotations < MaxRotations
              /\ rotations' = IF rotated THEN rotations + 1 ELSE rotations
              /\ inst' = IF rotated THEN [inst EXCEPT ![req[r].at].jar.rot = rotations + 1] ELSE inst
              /\ req' = [req EXCEPT ![r].pc = "page", ![r].page = page]
      BY <1>8 DEF Navigate
    <2> DEFINE q == [req[r] EXCEPT !.pc = "page", !.page = page]
               service == IF rotated THEN [At(r) EXCEPT !.jar.rot = rotations + 1] ELSE At(r)
    <2>2. page \in Pages
      BY DEF ServedPages, Pages
    <2>3. q \in Request /\ RequestOK(q, published)
      BY <1>8, <1>r, <2>2, ZenonT(40) DEF Navigate, Request, RequestOK, RequestSteps
    <2>4. rotations' \in 0..MaxRotations
      BY <1>0, <2>1, ConstantsOK
    <2>5. service \in Service /\ ServiceOK(service, published)
      BY <1>r, <1>0, <2>1, ConstantsOK DEF Service, ServiceOK, Cookies
    <2>6. inst' = [inst EXCEPT ![req[r].at] = service]
      BY <2>1 DEF At, SessionInv, SessionTypeOK
    <2>7. req' = [req EXCEPT ![r] = q] /\ UNCHANGED <<live, logins, profile, captured, file, published, faults>>
      BY <1>8, <2>1 DEF Navigate, OutsideUnchanged
    <2> HIDE DEF q, service
    <2> QED BY <1>0, <1>r, <2>3, <2>4, <2>5, <2>6, <2>7, RequestStep
  <1>9. ASSUME NEW r \in Requests, SearchPage(r)
        PROVE  SessionInv'
    <2>0. UNCHANGED <<live, logins, profile, captured, file, published, rotations>> /\ req[r].pc = "page"
      BY <1>9 DEF SearchPage, OutsideUnchanged
    <2>1. CASE EnterState(r, "unauthenticated") /\ Answer(r, "login") /\ UNCHANGED faults
      BY <1>0, <2>0, <2>1, SessionEndStep DEF States, Answers
    <2>2. CASE EnterState(r, "healthy") /\ Goto(r, "get") /\ UNCHANGED faults
      BY <1>0, <2>0, <2>2, GoOnStep DEF States
    <2>3. CASE Goto(r, "get") /\ UNCHANGED <<inst, faults>>
      <3> DEFINE q == [req[r] EXCEPT !.pc = "get"]
      <3>1. q \in Request /\ RequestOK(q, published)
        BY <1>r, <2>0 DEF Request, RequestOK, RequestSteps
      <3>2. req' = [req EXCEPT ![r] = q]
        BY <2>3 DEF Goto
      <3> HIDE DEF q
      <3> QED BY <1>0, <2>0, <2>3, <3>1, <3>2, RequestOnlyStep
    <2>4. CASE Fault /\ EnterState(r, "degraded") /\ Answer(r, "error")
      BY <1>0, <2>0, <2>4, SessionEndStep DEF States, Answers
    <2> QED BY <1>9, <2>1, <2>2, <2>3, <2>4 DEF SearchPage
  <1>10. ASSUME NEW r \in Requests, ScrollFails(r)
         PROVE  SessionInv'
    <2>1. Answered(req[r], "error") \in Request /\ RequestOK(Answered(req[r], "error"), published)
      BY <1>r, AnsweredTyped DEF Answers
    <2>2. /\ req' = [req EXCEPT ![r] = Answered(req[r], "error")] /\ Fault
          /\ UNCHANGED <<live, logins, profile, captured, file, inst, published, rotations>>
      BY <1>10 DEF ScrollFails, Answer, OutsideUnchanged
    <2> QED BY <1>0, <2>1, <2>2, RequestOnlyStep
  <1>11. ASSUME NEW r \in Requests, VerifySession(r)
         PROVE  SessionInv'
    <2>0. UNCHANGED <<live, logins, profile, captured, file, published, rotations, faults>> /\ req[r].pc = "page"
      BY <1>11 DEF VerifySession, OutsideUnchanged
    <2>1. CASE req[r].page = "feed"
      BY <1>0, <1>11, <2>0, <2>1, GoOnStep DEF VerifySession, States
    <2>2. CASE req[r].page = "login"
      BY <1>0, <1>11, <2>0, <2>2, SessionEndStep DEF VerifySession, States, Answers
    <2>3. CASE req[r].page = "broken"
      BY <1>0, <1>11, <2>0, <2>3, SessionEndStep DEF VerifySession, States, Answers
    <2> QED BY <1>11, <2>1, <2>2, <2>3 DEF VerifySession
  <1>12. ASSUME NEW r \in Requests, GetCookies(r)
         PROVE  SessionInv'
    <2> DEFINE q == [req[r] EXCEPT !.pc = "put", !.got = At(r).jar]
    <2>1. q \in Request /\ RequestOK(q, published)
      BY <1>12, <1>r DEF GetCookies, Request, RequestOK, Service, RequestSteps
    <2>2. req' = [req EXCEPT ![r] = q] /\ UNCHANGED <<live, logins, profile, captured, file, inst, published, rotations, faults>>
      BY <1>12 DEF GetCookies, OutsideUnchanged
    <2> HIDE DEF q
    <2> QED BY <1>0, <2>1, <2>2, RequestOnlyStep
  <1>f. ASSUME NEW r \in Requests, NEW spare \in BOOLEAN, Finish(r, spare),
               spare => req[r].got \in published \cup {NoCookies},
               UNCHANGED <<live, logins, profile, captured, file, published, rotations>>,
               faults' \in 0..MaxFaults
        PROVE  SessionInv'
    <2>1. AfterBackup(r, spare).state \in States /\ AfterBackup(r, spare).answer \in Answers
      BY AfterBackupTyped
    <2>2. AfterBackup(r, spare).answer = "ok" => req[r].got \in published \cup {NoCookies}
      BY <1>f, AfterBackupTyped
    <2>3. EnterState(r, AfterBackup(r, spare).state) /\ Answer(r, AfterBackup(r, spare).answer)
      BY <1>f DEF Finish
    <2> QED BY <1>0, <1>f, <2>1, <2>2, <2>3, SessionEndStep
  <1>13. ASSUME NEW r \in Requests, BackupUnchanged(r)
         PROVE  SessionInv'
    <2>1. req[r].got \in published \cup {NoCookies}
      BY <1>13, <1>r DEF BackupUnchanged, ServiceOK
    <2> QED BY <1>0, <1>f, <1>13, <2>1 DEF BackupUnchanged, OutsideUnchanged
  <1>14. ASSUME NEW r \in Requests, RefuseBackup(r) \/ FailBackup(r)
         PROVE  SessionInv'
    BY <1>0, <1>f, <1>14 DEF RefuseBackup, FailBackup, OutsideUnchanged
  <1>p. ASSUME NEW cookies \in Cookies, hasAuthToken(cookies), Rename(cookies)
        PROVE  /\ file' \in [cookies : Cookies, mtime : Nat, ok : BOOLEAN]
               /\ published' \subseteq Cookies /\ published \subseteq published'
               /\ file'.cookies \in published' /\ cookies \in published'
               /\ \A c \in published' : hasAuthToken(c)
    BY <1>p DEF Rename, SessionInv, SessionTypeOK
  <1>15. ASSUME NEW r \in Requests, WriteBackup(r)
         PROVE  SessionInv'
    <2>1. req[r].got \in Cookies /\ hasAuthToken(req[r].got) /\ Rename(req[r].got)
      BY <1>15, <1>r DEF WriteBackup, WriteBackupAllows, Request
    <2> DEFINE q == [req[r] EXCEPT !.pc = "mark"]
    <2>2. q \in Request /\ RequestOK(q, published')
      BY <1>15, <1>r, <1>p, <2>1 DEF WriteBackup, BackupChanged, Request, RequestOK, RequestSteps
    <2>3. req' = [req EXCEPT ![r] = q]
      BY <1>15 DEF WriteBackup, Goto
    <2> HIDE DEF q
    <2>4. req' \in [Requests -> Request] /\ \A x \in Requests : RequestOK(req'[x], published')
      BY <1>p, <2>1, <2>2, <2>3, RequestsKept
    <2>5. UNCHANGED <<live, logins, profile, captured, inst, rotations, faults>>
      BY <1>15 DEF WriteBackup, OutsideUnchanged
    <2>6. SessionTypeOK'
      BY <1>p, <2>1, <2>4, <2>5 DEF SessionInv, SessionTypeOK, Request
    <2>7. \A i \in Instances : ServiceOK(inst'[i], published')
      BY <1>i, <1>p, <2>1, <2>5 DEF ServiceOK
    <2> QED BY <1>p, <2>1, <2>4, <2>6, <2>7 DEF SessionInv
  <1>16. ASSUME NEW r \in Requests, MarkBackup(r)
         PROVE  SessionInv'
    <2> DEFINE after == AfterBackup(r, TRUE)
               service == [SetState(At(r), after.state) EXCEPT !.print = req[r].got, !.loaded = file.mtime]
               q == Answered(req[r], after.answer)
    <2>1. after.state \in States /\ after.answer \in Answers
      BY AfterBackupTyped
    <2>2. req[r].got \in published /\ req[r].got \in Cookies
      BY <1>16, <1>r DEF MarkBackup, RequestOK, Request
    <2>3. q \in Request /\ RequestOK(q, published)
      BY <1>r, <2>1, <2>2, AnsweredTyped
    <2>4. SetState(At(r), after.state) \in Service
      BY <1>r, <2>1, SetStateTyped
    <2>5. file.mtime \in Nat
      BY DEF SessionInv, SessionTypeOK
    <2>6. service \in Service /\ ServiceOK(service, published)
      BY <2>2, <2>4, <2>5 DEF Service, ServiceOK
    <2>7. req' = [req EXCEPT ![r] = q] /\ inst' = [inst EXCEPT ![req[r].at] = service]
      BY <1>16 DEF MarkBackup, Answer, At
    <2>8. UNCHANGED <<live, logins, profile, captured, file, published, rotations, faults>>
      BY <1>16 DEF MarkBackup, OutsideUnchanged
    <2> HIDE DEF q, service
    <2> QED BY <1>0, <1>r, <2>3, <2>6, <2>7, <2>8, RequestStep
  <1>17. ASSUME NEW i \in Instances, MarkBrowserExited(i)
         PROVE  SessionInv'
    <2>0. UNCHANGED <<live, logins, profile, captured, file, published, rotations>> /\ faults' \in 0..MaxFaults
      BY <1>0, <1>17 DEF MarkBrowserExited, OutsideUnchanged
    <2>1. \A r \in Requests : req'[r] \in Request /\ RequestOK(req'[r], published)
      <3> SUFFICES ASSUME NEW r \in Requests PROVE req'[r] \in Request /\ RequestOK(req'[r], published)
        OBVIOUS
      <3>1. Answered(req[r], "error") \in Request /\ RequestOK(Answered(req[r], "error"), published)
        BY <1>r, AnsweredTyped DEF Answers
      <3>2. req'[r] = req[r] \/ req'[r] = Answered(req[r], "error")
        BY <1>17 DEF MarkBrowserExited
      <3> QED BY <1>r, <3>1, <3>2
    <2>2. req' \in [Requests -> Request]
      BY <1>17, <2>1 DEF MarkBrowserExited
    <2> DEFINE service == [inst[i] EXCEPT !.up = FALSE, !.state = "failed"]
    <2>3. service \in Service /\ ServiceOK(service, published)
      BY <1>i DEF Service, ServiceOK, States
    <2>4. inst' = [inst EXCEPT ![i] = service]
      BY <1>17 DEF MarkBrowserExited
    <2> HIDE DEF service
    <2>5. inst' \in [Instances -> Service] /\ \A x \in Instances : ServiceOK(inst'[x], published')
      BY <2>0, <2>3, <2>4, ServicesKept
    <2>6. SessionTypeOK'
      BY <2>0, <2>2, <2>5 DEF SessionInv, SessionTypeOK, Request, Service
    <2> QED BY <2>0, <2>1, <2>5, <2>6 DEF SessionInv
  <1>18. ASSUME NEW i \in Instances, Restart(i)
         PROVE  SessionInv'
    <2>1. NewService(inst[i].jar) \in Service /\ ServiceOK(NewService(inst[i].jar), published)
      BY <1>i, ConstantsTyped DEF NewService, Service, ServiceOK, States
    <2>2. inst' = [inst EXCEPT ![i] = NewService(inst[i].jar)]
      BY <1>18 DEF Restart
    <2>3. UNCHANGED <<live, logins, profile, captured, file, req, published, rotations, faults>>
      BY <1>18 DEF Restart, OutsideUnchanged
    <2>4. inst' \in [Instances -> Service] /\ \A x \in Instances : ServiceOK(inst'[x], published')
      BY <2>1, <2>2, <2>3, ServicesKept
    <2>5. SessionTypeOK'
      BY <2>3, <2>4 DEF SessionInv, SessionTypeOK, Service
    <2> QED BY <2>3, <2>4, <2>5 DEF SessionInv
  <1>19. CASE Login
    BY <1>19, ConstantsOK DEF Login, SessionInv, SessionTypeOK
  <1>20. CASE CaptureOnce
    <2>1. ProfileSnapshot \in Cookies /\ hasAuthToken(ProfileSnapshot) /\ Rename(ProfileSnapshot)
      BY <1>20, ConstantsOK DEF CaptureOnce, ProfileSnapshot, Cookies, SessionInv, SessionTypeOK
    <2>2. UNCHANGED <<live, logins, profile, inst, req, rotations, faults>> /\ captured' = ProfileSnapshot
      BY <1>20 DEF CaptureOnce
    <2>3. SessionTypeOK'
      BY <1>p, <2>1, <2>2 DEF SessionInv, SessionTypeOK
    <2>4. \A i \in Instances : ServiceOK(inst'[i], published')
      BY <1>i, <1>p, <2>1, <2>2 DEF ServiceOK
    <2>5. \A r \in Requests : RequestOK(req'[r], published')
      BY <1>r, <1>p, <2>1, <2>2 DEF RequestOK
    <2> QED BY <1>p, <2>1, <2>3, <2>4, <2>5 DEF SessionInv
  <1>21. ASSUME NEW s \in live, Revoke(s)
         PROVE  SessionInv'
    <2>1. live' \subseteq live /\ profile' \in 0..MaxSessions
      BY <1>21, ConstantsOK DEF Revoke, SessionInv, SessionTypeOK
    <2>2. UNCHANGED <<logins, captured, file, inst, req, published, rotations, faults>>
      BY <1>21 DEF Revoke
    <2> QED BY <2>1, <2>2 DEF SessionInv, SessionTypeOK
  <1>22. CASE Corrupt
    <2>1. /\ file' = [file EXCEPT !.ok = FALSE, !.mtime = @ + 1]
          /\ UNCHANGED <<live, logins, profile, captured, inst, req, published, rotations>>
      BY <1>22 DEF Corrupt
    <2>3. file' \in [cookies : Cookies, mtime : Nat, ok : BOOLEAN] /\ file'.cookies = file.cookies
      <3>1. file \in [cookies : Cookies, mtime : Nat, ok : BOOLEAN] /\ file.mtime + 1 \in Nat
        BY DEF SessionInv, SessionTypeOK
      <3> QED BY <2>1, <3>1
    <2>2. SessionTypeOK'
      BY <1>0, <1>22, <2>1, <2>3 DEF Corrupt, SessionInv, SessionTypeOK
    <2> QED BY <2>1, <2>2, <2>3 DEF SessionInv
  <1>23. CASE UNCHANGED sessionVars
    BY <1>23 DEF sessionVars, SessionInv, SessionTypeOK
  <1> QED BY <1>1, <1>2, <1>3, <1>4, <1>5, <1>6, <1>7, <1>8, <1>9, <1>10, <1>11, <1>12, <1>13, <1>14,
             <1>15, <1>16, <1>17, <1>18, <1>19, <1>20, <1>21, <1>22, <1>23 DEF SessionNext

-----------------------------------------------------------------------------
(* The theorems. *)

(* The invariant holds of every behaviour of the services, the login       *)
(* terminal and X (twitter/auth.go:70-262).                                *)
THEOREM SessionInvariance == SessionSpec => []SessionInv
  <1>1. SessionInit => SessionInv
    <2> SUFFICES ASSUME SessionInit PROVE SessionInv
      OBVIOUS
    <2> DEFINE first == [session |-> 1, rot |-> 0]
    <2>1. first \in Cookies /\ hasAuthToken(first)
      BY ConstantsOK DEF Cookies, hasAuthToken
    <2>2. \A i \in Instances : inst[i] \in Service /\ ServiceOK(inst[i], published)
      BY <2>1, ConstantsTyped DEF SessionInit, Service, ServiceOK, RunningService, NewService, States
    <2>3. inst \in [Instances -> Service]
      BY <2>2 DEF SessionInit
    <2>4. req \in [Requests -> Request] /\ \A r \in Requests : RequestOK(req[r], published)
      BY ConstantsTyped DEF SessionInit
    <2>5. SessionTypeOK
      BY <2>1, <2>3, <2>4, ConstantsOK DEF SessionInit, SessionTypeOK, Service, Request
    <2> QED BY <2>1, <2>2, <2>4, <2>5 DEF SessionInit, SessionInv
  <1> QED BY <1>1, SessionStep, PTL DEF SessionSpec

(* The variables keep their types.                                         *)
THEOREM SessionTypes == SessionSpec => []SessionTypeOK
  <1>1. SessionInv => SessionTypeOK
    BY DEF SessionInv
  <1> QED BY <1>1, SessionInvariance, PTL

(* The shared file only ever holds logged-in cookie sets, and whatever a   *)
(* verification answered ok for is one of them (twitter/auth.go:113-123,   *)
(* 197-262; cookies_backup.go:124-195).                                    *)
THEOREM VerifiedPublication == SessionSpec => []VerifiedIsPublished
  <1>1. SessionInv => VerifiedIsPublished
    BY DEF SessionInv, RequestOK, VerifiedIsPublished
  <1> QED BY <1>1, SessionInvariance, PTL

-----------------------------------------------------------------------------
(* MatchClock: what a scorebug is read as. *)

\* The readings a frame can have.
Readings ==
    [minute : Int, alternatives : SUBSET Int, period : Periods \cup {Unknown}, pinned : BOOLEAN,
     stoppage : BOOLEAN, exact : BOOLEAN, ambiguous : BOOLEAN]

\* A reading of one minute of one period that nothing has put in doubt.
ReadAs(r, minute, alternatives, period) ==
    r \in Readings /\ r.minute = minute /\ r.alternatives = alternatives /\ r.period = period /\ ~ r.ambiguous

\* The provider's time of a moment is the minute completed when it happens, in
\* the period it happens in.
LEMMA GoalMinute ==
    ASSUME NEW g \in Moments
    PROVE  /\ Elapsed(g) + Extra(g) - 1 = Completed(g)
           /\ Elapsed(g) \in Nat /\ Extra(g) \in Nat /\ Completed(g) \in Nat
           /\ PeriodOf(Elapsed(g)) = g.period
           /\ Extra(g) > 0 => Extra(g) + Tol <= 45
           /\ g.period \in Periods
<1>1. g.period \in Periods /\ g.minute \in Nat /\ g.minute + Tol < Length(g.period) + 45
  BY MomentsOfMatch
<1>2. \/ g.period = "1H" /\ Length(g.period) = 45 /\ PeriodEnd(g.period) = 45
      \/ g.period = "2H" /\ Length(g.period) = 45 /\ PeriodEnd(g.period) = 90
      \/ g.period = "ET1" /\ Length(g.period) = 15 /\ PeriodEnd(g.period) = 105
      \/ g.period = "ET2" /\ Length(g.period) = 15 /\ PeriodEnd(g.period) = 120
  BY <1>1 DEF Length, PeriodEnd, IsExtraTime, Periods
<1>3. Tol \in Nat
  BY ClockConstants
<1>4. CASE g.minute < Length(g.period)
  <2>1. Elapsed(g) = Completed(g) + 1 /\ Extra(g) = 0
    BY <1>4 DEF Elapsed, Extra, Completed
  <2> QED
    BY <1>1, <1>2, <1>3, <1>4, <2>1 DEF Completed, Start, PeriodOf
<1>5. CASE ~ g.minute < Length(g.period)
  <2>1. Elapsed(g) = PeriodEnd(g.period) /\ Extra(g) = g.minute - Length(g.period) + 1
    BY <1>5 DEF Elapsed, Extra
  <2> QED
    BY <1>1, <1>2, <1>3, <1>5, <2>1 DEF Completed, Start, PeriodOf
<1> QED
  BY <1>4, <1>5

\* A guess of the period is one of the four.
LEMMA PeriodOfIsPeriod ==
    ASSUME NEW m
    PROVE  PeriodOf(m) \in Periods
BY DEF PeriodOf, Periods

\* A fresh reading has the minute and the period it is given, guessed or pinned.
LEMMA FreshReading ==
    ASSUME NEW m \in Int, NEW p \in Periods
    PROVE  /\ LET r == Reading(m, p, FALSE)
              IN ReadAs(r, m, {}, p) /\ ~ r.pinned /\ ~ r.stoppage /\ r.exact
           /\ LET r == Reading(m, p, TRUE)
              IN ReadAs(r, m, {}, p) /\ r.pinned /\ ~ r.stoppage /\ r.exact
BY DEF Reading, ReadAs, Readings

\* A reading whose hints agree is the one of its kind of clock.
LEMMA ClockFieldKept ==
    ASSUME NEW f, ~ (Cardinality(f.hints) > 1), NEW r \in Readings, ~ r.ambiguous,
           r = IF f.kind = "compact" THEN ParseCompact(f) ELSE ParseTimer(f)
    PROVE  /\ ReadAs(ParseClockField(f), r.minute, r.alternatives, r.period)
           /\ ParseClockField(f).pinned = r.pinned
           /\ ParseClockField(f).stoppage = r.stoppage
           /\ ParseClockField(f).exact = r.exact
<1>1. ParseClockField(f) = [r EXCEPT !.ambiguous = @ \/ Cardinality(f.hints) > 1]
  BY DEF ParseClockField
<1>2. (r.ambiguous \/ Cardinality(f.hints) > 1) = FALSE
  OBVIOUS
<1>3. ParseClockField(f) = [r EXCEPT !.ambiguous = FALSE]
  BY <1>1, <1>2
<1> QED
  BY <1>3 DEF ReadAs, Readings

\* A clock without hints is read as displayed, its period a guess.
LEMMA BareTimer ==
    ASSUME NEW f, f.kind = "timer", f.hints = {}, f.minute \in Nat
    PROVE  LET r == ParseClockField(f)
           IN ReadAs(r, f.minute, {}, PeriodOf(f.minute)) /\ ~ r.pinned /\ ~ r.stoppage /\ r.exact
<1> DEFINE r == ParseTimer(f)
<1>1. ~ (Cardinality(f.hints) > 1)
  BY FS_EmptySet
<1>2. r = Reading(f.minute, PeriodOf(f.minute), FALSE)
  BY DEF ParseTimer
<1>3. f.minute \in Int /\ PeriodOf(f.minute) \in Periods
  BY PeriodOfIsPeriod
<1> HIDE DEF r
<1>4. ReadAs(r, f.minute, {}, PeriodOf(f.minute)) /\ ~ r.pinned /\ ~ r.stoppage /\ r.exact
  BY <1>2, <1>3, FreshReading
<1>5. r \in Readings /\ ~ r.ambiguous
  BY <1>4 DEF ReadAs
<1>6. r = IF f.kind = "compact" THEN ParseCompact(f) ELSE ParseTimer(f)
  BY DEF r
<1>7. /\ ReadAs(ParseClockField(f), r.minute, r.alternatives, r.period)
      /\ ParseClockField(f).pinned = r.pinned
      /\ ParseClockField(f).stoppage = r.stoppage
      /\ ParseClockField(f).exact = r.exact
  BY <1>1, <1>5, <1>6, ClockFieldKept
<1> QED
  BY <1>4, <1>7 DEF ReadAs

\* A clock with the hint of a period is one of that period; of extra time, the
\* one its minute falls in.
LEMMA HintedTimer ==
    ASSUME NEW f, f.kind = "timer", NEW h \in {"1H", "2H", "ET"}, f.hints = {h}, f.minute \in 0..44
    PROVE  LET r == ParseClockField(f)
               et == IF f.minute <= 30 THEN 90 + f.minute ELSE f.minute
           IN /\ ReadAs(r, IF h = "1H" THEN f.minute ELSE IF h = "2H" THEN 45 + f.minute ELSE et, {},
                        IF h = "ET" THEN PeriodOf(et) ELSE h)
              /\ r.pinned /\ ~ r.stoppage /\ r.exact
<1> DEFINE et == IF f.minute <= 30 THEN 90 + f.minute ELSE f.minute
           m == IF h = "1H" THEN f.minute ELSE IF h = "2H" THEN 45 + f.minute ELSE et
           p == IF h = "ET" THEN PeriodOf(et) ELSE h
           r == ParseTimer(f)
<1>1. ~ (Cardinality(f.hints) > 1)
  <2>1. Cardinality({h}) = 1
    BY FS_Singleton
  <2> QED
    BY <2>1
<1>2. m \in Int /\ p \in Periods
  BY PeriodOfIsPeriod DEF Periods
<1>3. h = "2H" => r = [Reading(m, p, TRUE) EXCEPT !.alternatives = {}]
  <2> SUFFICES ASSUME h = "2H"
               PROVE  r = [Reading(m, p, TRUE) EXCEPT !.alternatives = {}]
    OBVIOUS
  <2>1. r = [Reading(IF f.minute < 45 THEN 45 + f.minute ELSE f.minute, "2H", TRUE)
               EXCEPT !.alternatives = IF f.minute = 45 THEN {90} ELSE {}]
    BY DEF ParseTimer
  <2>2. (IF f.minute < 45 THEN 45 + f.minute ELSE f.minute) = m
        /\ (IF f.minute = 45 THEN {90} ELSE {}) = {} /\ p = "2H"
    OBVIOUS
  <2> QED
    BY <2>1, <2>2
<1>4. h # "2H" => r = Reading(m, p, TRUE)
  BY DEF ParseTimer
<1>5. ReadAs(Reading(m, p, TRUE), m, {}, p)
      /\ Reading(m, p, TRUE).pinned /\ ~ Reading(m, p, TRUE).stoppage /\ Reading(m, p, TRUE).exact
  <2> HIDE DEF m, p
  <2> QED
    BY <1>2, FreshReading
<1> HIDE DEF m, p, r
<1>6. ReadAs(r, m, {}, p) /\ r.pinned /\ ~ r.stoppage /\ r.exact
  BY <1>3, <1>4, <1>5 DEF ReadAs, Readings
<1>7. r \in Readings /\ ~ r.ambiguous
  BY <1>6 DEF ReadAs
<1>8. r = IF f.kind = "compact" THEN ParseCompact(f) ELSE ParseTimer(f)
  BY DEF r
<1>9. /\ ReadAs(ParseClockField(f), r.minute, r.alternatives, r.period)
      /\ ParseClockField(f).pinned = r.pinned
      /\ ParseClockField(f).stoppage = r.stoppage
      /\ ParseClockField(f).exact = r.exact
  BY <1>1, <1>7, <1>8, ClockFieldKept
<1>10. ReadAs(ParseClockField(f), m, {}, p)
      /\ ParseClockField(f).pinned /\ ~ ParseClockField(f).stoppage /\ ParseClockField(f).exact
  BY <1>6, <1>9 DEF ReadAs
<1> QED
  BY <1>10 DEF m, p

\* A stoppage clock "45+2" is the boundary and the minutes past it.
LEMMA CompactField ==
    ASSUME NEW f, f.kind = "compact", f.hints = {}, f.minute \in Nat, f.second \in Nat
    PROVE  LET r == ParseClockField(f)
           IN ReadAs(r, f.minute + f.second, {}, PeriodOf(f.minute)) /\ r.pinned /\ r.stoppage /\ r.exact
<1> DEFINE m == f.minute + f.second
           p == PeriodOf(f.minute)
           r == ParseCompact(f)
<1>1. ~ (Cardinality(f.hints) > 1)
  BY FS_EmptySet
<1>2. m \in Int /\ p \in Periods
  BY PeriodOfIsPeriod
<1>3. r = [Reading(m, p, TRUE) EXCEPT !.stoppage = TRUE]
  BY DEF ParseCompact, EmbeddedPeriod
<1>4. ReadAs(Reading(m, p, TRUE), m, {}, p) /\ Reading(m, p, TRUE).pinned /\ Reading(m, p, TRUE).exact
  <2> HIDE DEF m, p
  <2> QED
    BY <1>2, FreshReading
<1> HIDE DEF m, p, r
<1>5. ReadAs(r, m, {}, p) /\ r.pinned /\ r.stoppage /\ r.exact
  BY <1>3, <1>4 DEF ReadAs, Readings
<1>6. r \in Readings /\ ~ r.ambiguous
  BY <1>5 DEF ReadAs
<1>7. r = IF f.kind = "compact" THEN ParseCompact(f) ELSE ParseTimer(f)
  BY DEF r
<1>8. /\ ReadAs(ParseClockField(f), r.minute, r.alternatives, r.period)
      /\ ParseClockField(f).pinned = r.pinned
      /\ ParseClockField(f).stoppage = r.stoppage
      /\ ParseClockField(f).exact = r.exact
  BY <1>1, <1>6, <1>7, ClockFieldKept
<1>9. ReadAs(ParseClockField(f), m, {}, p)
      /\ ParseClockField(f).pinned /\ ParseClockField(f).stoppage /\ ParseClockField(f).exact
  BY <1>5, <1>8 DEF ReadAs
<1> QED
  BY <1>9 DEF m, p

\* Without a period field or label there is no evidence to add.
LEMMA NoEvidence ==
    ASSUME NEW f, NEW r, f.label = Null, f.period = Null
    PROVE  WithPeriodEvidence(r, FramePeriodEvidence(f)) = r
BY DEF WithPeriodEvidence, FramePeriodEvidence

\* A period named by the field or by the label alone is the evidence.
LEMMA NamedPeriod ==
    ASSUME NEW f, NEW p \in Periods,
           \/ f.label = Null /\ f.period = p
           \/ f.label = p /\ f.period = Null
    PROVE  FramePeriodEvidence(f) = [hint |-> p, conflict |-> FALSE]
BY DEF FramePeriodEvidence, PeriodFromLabel, Periods, Null

\* Evidence of a period moves a guessed clock into it.
LEMMA EvidenceDecides ==
    ASSUME NEW r, NEW m \in Nat, NEW q, NEW p \in Periods, NEW e,
           ReadAs(r, m, {}, q), ~ r.pinned, ~ r.stoppage, r.exact,
           e.hint = p, ~ e.conflict, NormalizeDisplayedMinute(m, p)[2]
    PROVE  LET n == NormalizeDisplayedMinute(m, p)
               s == WithPeriodEvidence(r, e)
           IN ReadAs(s, n[1], BoundaryAlternatives(m, p, n[1]), p) /\ s.pinned /\ ~ s.stoppage /\ s.exact
<1> DEFINE n == NormalizeDisplayedMinute(m, p)
           al == BoundaryAlternatives(m, p, n[1])
           s == WithPeriodEvidence(r, e)
<1>1. p # Unknown
  BY Zenon DEF Periods, Unknown
<1>2. s = [r EXCEPT !.minute = n[1], !.alternatives = al, !.period = e.hint, !.pinned = TRUE,
                    !.ambiguous = @ \/ ~ n[2]]
  BY <1>1 DEF ReadAs, WithPeriodEvidence
<1>3. (r.ambiguous \/ ~ n[2]) = FALSE
  BY DEF ReadAs
<1>4. n[1] \in Int
  BY DEF NormalizeDisplayedMinute, PeriodEnd
<1>5. al \in SUBSET Int
  BY DEF BoundaryAlternatives
<1> HIDE DEF n, al, s
<1>6. s = [r EXCEPT !.minute = n[1], !.alternatives = al, !.period = e.hint, !.pinned = TRUE, !.ambiguous = FALSE]
  BY <1>2, <1>3
<1>7. ReadAs(s, n[1], al, p) /\ s.pinned /\ ~ s.stoppage /\ s.exact
  BY <1>4, <1>5, <1>6 DEF ReadAs, Readings
<1> QED
  BY <1>7 DEF n, al, s

\* A pinned reading is not moved by an announced allowance.
LEMMA PinnedStays ==
    ASSUME NEW r, NEW a, r.pinned
    PROVE  WithRunningStoppage(r, a) = r
BY DEF WithRunningStoppage

\* A reading outside every recognition window is not moved either, nor is one
\* without an allowance.
LEMMA OutsideWindowStays ==
    ASSUME NEW r, NEW a \in Int,
           a <= 0 \/ \A e \in Ends : ~ (r.minute > e /\ r.minute < e + RecognitionMinutes)
    PROVE  WithRunningStoppage(r, a) = r
<1>1. CASE a <= 0
  BY <1>1 DEF WithRunningStoppage
<1>2. CASE \A e \in Ends : ~ (r.minute > e /\ r.minute < e + RecognitionMinutes)
  <2>1. {e \in Ends : r.minute > e /\ r.minute < e + RecognitionMinutes} = {}
    BY <1>2
  <2> QED
    BY <2>1 DEF WithRunningStoppage
<1> QED
  BY <1>1, <1>2

\* An allowance beside a guessed clock just past a boundary: still that period.
LEMMA AllowanceDecides ==
    ASSUME NEW r, NEW a \in Int, NEW m \in Int, NEW q, NEW end \in Ends,
           a > 0, ReadAs(r, m, {}, q), ~ r.pinned, ~ r.stoppage, r.exact,
           m > end, m < end + RecognitionMinutes
    PROVE  LET s == WithRunningStoppage(r, a)
           IN ReadAs(s, m, {}, PeriodOf(end)) /\ s.pinned /\ s.stoppage /\ s.exact
<1> DEFINE s == WithRunningStoppage(r, a)
           p == PeriodOf(end)
<1>1. {e \in Ends : r.minute > e /\ r.minute < e + RecognitionMinutes} = {end}
  BY DEF Ends, RecognitionMinutes, ReadAs
<1>2. (CHOOSE e \in {end} : TRUE) = end
  OBVIOUS
<1>3. {end} # {} /\ ~ (a <= 0 \/ r.pinned \/ r.ambiguous \/ r.stoppage)
  BY DEF ReadAs
<1>4. s = [r EXCEPT !.period = PeriodOf(CHOOSE e \in {end} : TRUE), !.pinned = TRUE, !.stoppage = TRUE]
  BY <1>1, <1>3 DEF WithRunningStoppage
<1>5. s = [r EXCEPT !.period = p, !.pinned = TRUE, !.stoppage = TRUE]
  BY <1>2, <1>4
<1>6. p \in Periods
  BY PeriodOfIsPeriod
<1> HIDE DEF s, p
<1>7. ReadAs(s, m, {}, p) /\ s.pinned /\ s.stoppage /\ s.exact
  BY <1>5, <1>6 DEF ReadAs, Readings
<1> QED
  BY <1>7 DEF s, p

\* A clock that runs is not a frozen boundary.
LEMMA RunningIsKept ==
    ASSUME NEW f, f.kind = "compact" \/ f.second # 0
    PROVE  ParseFrameClock(f)
             = WithRunningStoppage(WithPeriodEvidence(ParseClockField(f), FramePeriodEvidence(f)), f.added)
BY DEF ParseFrameClock, FrozenBoundary

-----------------------------------------------------------------------------
(* MatchClock: what the conventions let a frame say. *)

\* The reading says which moment it is, a minute later at most.
Told(r, m, o) ==
    r \in Readings /\ ~ r.ambiguous /\ r.exact /\ r.period = m.period /\ r.minute \in Completed(m) .. (Completed(m) + o)
\* The reading says only that the period has run out.
Halted(r, m) ==
    /\ r \in Readings /\ ~ r.ambiguous /\ r.stoppage /\ ~ r.exact /\ r.period = m.period
    /\ r.minute = PeriodEnd(m.period) /\ r.alternatives = {} /\ InStoppage(m)
\* The reading has the minute and guessed the period before it.
Guessed(r, m) ==
    /\ r \in Readings /\ ~ r.ambiguous /\ r.exact /\ r.period # m.period
    /\ r.minute = Completed(m) /\ r.alternatives = {}
    /\ (~ r.pinned /\ ~ r.stoppage /\ r.minute \in Ends) \/ IsExtraTime(m.period)

\* The four periods, spelled out.
LEMMA MomentShape ==
    ASSUME NEW m \in Moments
    PROVE  /\ m.period \in Periods /\ m.minute \in Nat /\ Completed(m) \in Nat
           /\ InStoppage(m) <=> m.minute >= Length(m.period)
           /\ \/ /\ m.period = "1H" /\ Length(m.period) = 45 /\ PeriodEnd(m.period) = 45
                 /\ Completed(m) = m.minute /\ ~ IsExtraTime(m.period)
              \/ /\ m.period = "2H" /\ Length(m.period) = 45 /\ PeriodEnd(m.period) = 90
                 /\ Completed(m) = 45 + m.minute /\ ~ IsExtraTime(m.period)
              \/ /\ m.period = "ET1" /\ Length(m.period) = 15 /\ PeriodEnd(m.period) = 105
                 /\ Completed(m) = 90 + m.minute /\ IsExtraTime(m.period)
              \/ /\ m.period = "ET2" /\ Length(m.period) = 15 /\ PeriodEnd(m.period) = 120
                 /\ Completed(m) = 105 + m.minute /\ IsExtraTime(m.period)
<1>1. m.period \in Periods /\ m.minute \in Nat
  BY MomentsOfMatch
<1>2. \/ m.period = "1H" /\ Length(m.period) = 45 /\ PeriodEnd(m.period) = 45 /\ ~ IsExtraTime(m.period)
      \/ m.period = "2H" /\ Length(m.period) = 45 /\ PeriodEnd(m.period) = 90 /\ ~ IsExtraTime(m.period)
      \/ m.period = "ET1" /\ Length(m.period) = 15 /\ PeriodEnd(m.period) = 105 /\ IsExtraTime(m.period)
      \/ m.period = "ET2" /\ Length(m.period) = 15 /\ PeriodEnd(m.period) = 120 /\ IsExtraTime(m.period)
  BY <1>1 DEF Length, PeriodEnd, IsExtraTime, Periods
<1> QED
  BY <1>1, <1>2 DEF Completed, Start, InStoppage

\* A displayed minute of a period is the minute of the match it stands for.
LEMMA DisplayedMinute ==
    ASSUME NEW m \in Moments, NEW d \in Nat, d = Completed(m) \/ (d = m.minute /\ ~ InStoppage(m))
    PROVE  /\ NormalizeDisplayedMinute(d, m.period)[1] = Completed(m)
           /\ NormalizeDisplayedMinute(d, m.period)[2]
           /\ \/ BoundaryAlternatives(d, m.period, Completed(m)) = {}
              \/ d = 45 /\ m.period = "2H" /\ BoundaryAlternatives(d, m.period, Completed(m)) = {90}
<1> DEFINE p == m.period
<1>1. CASE p = "1H"
  <2>1. Completed(m) = m.minute
    BY <1>1, MomentShape
  <2> QED
    BY <1>1, <2>1 DEF NormalizeDisplayedMinute, BoundaryAlternatives
<1>2. CASE p = "2H"
  <2>1. Completed(m) = 45 + m.minute /\ m.minute \in Nat /\ (~ InStoppage(m) => m.minute < 45)
    BY <1>2, MomentShape
  <2>2. (d < 45 /\ 45 + d = Completed(m)) \/ (~ d < 45 /\ d = Completed(m))
    BY <2>1
  <2>3. (IF d < 45 THEN 45 + d ELSE d) = Completed(m)
    BY <2>2
  <2>4. NormalizeDisplayedMinute(d, p) = <<Completed(m), TRUE>>
    BY <1>2, <2>3 DEF NormalizeDisplayedMinute
  <2>5. BoundaryAlternatives(d, p, Completed(m)) = (IF d = 45 THEN {90} ELSE {}) \ {Completed(m)}
    BY <1>2 DEF BoundaryAlternatives
  <2>6. d = 45 => BoundaryAlternatives(d, p, Completed(m)) = {90}
    <3>1. ASSUME d = 45 PROVE Completed(m) # 90
      BY <2>2, <3>1
    <3> QED
      BY <2>5, <3>1
  <2>7. d # 45 => BoundaryAlternatives(d, p, Completed(m)) = {}
    BY <2>5
  <2>8. NormalizeDisplayedMinute(d, p)[1] = Completed(m) /\ NormalizeDisplayedMinute(d, p)[2]
    BY <2>4
  <2> QED
    BY <1>2, <2>6, <2>7, <2>8
<1>3. CASE p = "ET1"
  <2>1. /\ Completed(m) = 90 + m.minute /\ m.minute \in Nat /\ (~ InStoppage(m) => m.minute < 15)
        /\ PeriodEnd(p) = 105
    BY <1>3, MomentShape
  <2>2. BoundaryAlternatives(d, p, Completed(m)) = {}
    BY <1>3 DEF BoundaryAlternatives
  <2>3. (d <= 15 /\ 105 - 15 + d = Completed(m)) \/ (~ d <= 15 /\ d = Completed(m) /\ d >= 105 - 15)
    BY <2>1
  <2>4. CASE d <= 15
    <3>1. NormalizeDisplayedMinute(d, p) = <<105 - 15 + d, TRUE>>
      BY <1>3, <2>1, <2>4 DEF NormalizeDisplayedMinute
    <3> QED
      BY <2>2, <2>3, <2>4, <3>1
  <2>5. CASE ~ d <= 15
    <3>1. (d >= 105 - 15) = TRUE
      BY <2>3, <2>5
    <3>2. NormalizeDisplayedMinute(d, p) = <<d, TRUE>>
      BY <1>3, <2>1, <2>5, <3>1 DEF NormalizeDisplayedMinute
    <3> QED
      BY <2>2, <2>3, <2>5, <3>2
  <2> QED
    BY <2>4, <2>5
<1>4. CASE p = "ET2"
  <2>1. /\ Completed(m) = 105 + m.minute /\ m.minute \in Nat /\ (~ InStoppage(m) => m.minute < 15)
        /\ PeriodEnd(p) = 120
    BY <1>4, MomentShape
  <2>2. BoundaryAlternatives(d, p, Completed(m)) = {}
    <3>1. d # 15
      BY <2>1
    <3> QED
      BY <1>4, <3>1 DEF BoundaryAlternatives
  <2>3. (d <= 15 /\ 120 - 15 + d = Completed(m)) \/ (~ d <= 30 /\ d = Completed(m) /\ d >= 120 - 15)
    BY <2>1
  <2>4. CASE d <= 15
    <3>1. NormalizeDisplayedMinute(d, p) = <<120 - 15 + d, TRUE>>
      BY <1>4, <2>1, <2>4 DEF NormalizeDisplayedMinute
    <3> QED
      BY <2>2, <2>3, <2>4, <3>1
  <2>5. CASE ~ d <= 15
    <3>1. (d >= 120 - 15) = TRUE
      BY <2>3, <2>5
    <3>2. NormalizeDisplayedMinute(d, p) = <<d, TRUE>>
      BY <1>4, <2>1, <2>3, <2>5, <3>1 DEF NormalizeDisplayedMinute
    <3> QED
      BY <2>2, <2>3, <2>5, <3>2
  <2> QED
    BY <2>4, <2>5
<1> QED
  BY <1>1, <1>2, <1>3, <1>4, MomentShape DEF Periods

\* A running clock with the period beside it tells the moment.
LEMMA NamedFrame ==
    ASSUME NEW m \in Moments, NEW f, f.kind = "timer", f.hints = {}, f.minute \in Nat,
           f.minute = Completed(m) \/ (f.minute = m.minute /\ ~ InStoppage(m)),
           \/ f.label = Null /\ f.period = m.period
           \/ f.label = m.period /\ f.period = Null,
           f.second # 0 \/ (f.minute = Completed(m) /\ Completed(m) \notin Ends)
    PROVE  LET r == ParseFrameClock(f)
           IN Told(r, m, 0) /\ r.pinned /\ (r.alternatives = {} \/ (f.minute = 45 /\ m.period = "2H"))
<1> DEFINE p == m.period
           d == f.minute
           e == FramePeriodEvidence(f)
           r0 == ParseClockField(f)
           r1 == WithPeriodEvidence(r0, e)
           r2 == WithRunningStoppage(r1, f.added)
           al == BoundaryAlternatives(d, p, Completed(m))
<1>1. p \in Periods /\ Completed(m) \in Nat
  BY MomentShape
<1>2. e.hint = p /\ ~ e.conflict
  <2>1. e = [hint |-> p, conflict |-> FALSE]
    BY <1>1, NamedPeriod
  <2> QED
    BY <2>1
<1>3. ReadAs(r0, d, {}, PeriodOf(d)) /\ ~ r0.pinned /\ ~ r0.stoppage /\ r0.exact
  BY BareTimer
<1>4. /\ NormalizeDisplayedMinute(d, p)[1] = Completed(m) /\ NormalizeDisplayedMinute(d, p)[2]
      /\ al = {} \/ (d = 45 /\ p = "2H" /\ al = {90})
  BY DisplayedMinute
<1> HIDE DEF p, d, e, r0
<1>5. ReadAs(r1, Completed(m), al, p) /\ r1.pinned /\ ~ r1.stoppage /\ r1.exact
  <2>1. d \in Nat
    BY DEF d
  <2> HIDE DEF al
  <2>2. LET n == NormalizeDisplayedMinute(d, p)
            s == WithPeriodEvidence(r0, e)
        IN ReadAs(s, n[1], BoundaryAlternatives(d, p, n[1]), p) /\ s.pinned /\ ~ s.stoppage /\ s.exact
    BY <1>1, <1>2, <1>3, <1>4, <2>1, EvidenceDecides
  <2> QED
    BY <1>4, <2>2 DEF al
<1>6. r2 = r1
  BY <1>5, PinnedStays
<1> HIDE DEF r1, r2, al
<1>7. ParseFrameClock(f) = r1
  <2>1. CASE f.second # 0
    BY <1>6, <2>1, RunningIsKept DEF r2, r1, r0, e
  <2>2. CASE f.second = 0
    <3>1. d = Completed(m) /\ Completed(m) \notin Ends
      BY <2>2 DEF d
    <3>2. al = {}
      BY <1>4, <3>1 DEF Ends
    <3>3. PossibleMinutes(r1) = {Completed(m)} /\ r1.period = p
      BY <1>5, <3>2 DEF PossibleMinutes, ReadAs
    <3>4. PeriodEnd(p) \in Ends
      BY DEF PeriodEnd, Ends
    <3>5. ~ FrozenBoundary(r1, f)
      BY <3>1, <3>3, <3>4 DEF FrozenBoundary
    <3> QED
      BY <1>6, <3>5 DEF ParseFrameClock, r2, r1, r0, e
  <2> QED
    BY <2>1, <2>2
<1>8. r1.minute \in Completed(m) .. (Completed(m) + 0)
  BY <1>1, <1>5 DEF ReadAs
<1>9. Told(r1, m, 0)
  BY <1>5, <1>8 DEF Told, ReadAs, p
<1>10. r1.alternatives = {} \/ (f.minute = 45 /\ m.period = "2H")
  BY <1>4, <1>5 DEF ReadAs, p, d
<1> QED
  BY <1>5, <1>7, <1>9, <1>10

\* A clock that restarts with the period tells it: its label stands beside it.
LEMMA ResetTells ==
    ASSUME NEW m \in Moments, ~ InStoppage(m), NEW f \in Reset(m)
    PROVE  LET r == ParseFrameClock(f)
           IN Told(r, m, 0) /\ r.pinned /\ r.alternatives = {}
<1>0. f = [Timer(m.minute, 30) EXCEPT !.label = m.period]
  BY Zenon DEF Reset
<1>1. /\ f.kind = "timer" /\ f.hints = {} /\ f.minute = m.minute /\ f.label = m.period /\ f.period = Null
      /\ f.second # 0
  BY <1>0 DEF Timer, Blank
<1>2. m.minute \in Nat /\ m.minute < 45
  BY MomentShape
<1> QED
  BY <1>1, <1>2, NamedFrame

\* A continuous clock with the period beside it tells the moment.
LEMMA LabelledTells ==
    ASSUME NEW m \in Moments, NEW f \in Labelled(m)
    PROVE  LET r == ParseFrameClock(f)
           IN Told(r, m, 0) /\ r.pinned /\ (r.alternatives = {} \/ (f.minute = 45 /\ m.period = "2H"))
<1>1. PICK s \in {n \in Seconds : Completed(m) \in Ends => n # 0} :
        f \in {[Timer(Completed(m), s) EXCEPT !.period = m.period, !.added = a] : a \in Boards}
  BY Zenon DEF Labelled
<1>2. PICK a \in Boards : f = [Timer(Completed(m), s) EXCEPT !.period = m.period, !.added = a]
  BY <1>1, Zenon
<1>3. /\ f.kind = "timer" /\ f.hints = {} /\ f.minute = Completed(m) /\ f.label = Null /\ f.period = m.period
      /\ f.second = s
  BY <1>2 DEF Timer, Blank
<1>4. f.second # 0 \/ Completed(m) \notin Ends
  <2>1. Completed(m) \in Ends => s # 0
    BY Zenon
  <2> QED
    BY <1>3, <2>1
<1>5. Completed(m) \in Nat
  BY MomentShape
<1> QED
  BY <1>3, <1>4, <1>5, NamedFrame

\* An unlabelled clock in stoppage tells the moment by its board; a regular one
\* tells it or guesses the period before.
LEMMA PlainTells ==
    ASSUME NEW m \in Moments, m.minute < Length(m.period) + RecognitionMinutes, NEW f \in Plain(m)
    PROVE  LET r == ParseFrameClock(f)
           IN /\ r.alternatives = {}
              /\ InStoppage(m) => Told(r, m, 0) /\ r.minute >= 45
              /\ ~ InStoppage(m) => Told(r, m, 0) \/ Guessed(r, m)
<1> DEFINE d == Completed(m)
           p == m.period
           r0 == ParseClockField(f)
           r == ParseFrameClock(f)
<1>1. f = [Timer(d, 30) EXCEPT !.added = IF InStoppage(m) THEN 4 ELSE Absent]
  BY Zenon DEF Plain
<1>2. /\ f.kind = "timer" /\ f.hints = {} /\ f.minute = d /\ f.label = Null /\ f.period = Null /\ f.second # 0
      /\ f.added = IF InStoppage(m) THEN 4 ELSE Absent
  BY <1>1 DEF Timer, Blank
<1>3. d \in Nat /\ p \in Periods /\ PeriodEnd(p) \in Ends
  BY MomentShape DEF PeriodEnd, Ends
<1>4. ReadAs(r0, d, {}, PeriodOf(d)) /\ ~ r0.pinned /\ ~ r0.stoppage /\ r0.exact
  BY <1>2, <1>3, BareTimer
<1>5. r = WithRunningStoppage(r0, f.added)
  <2>1. WithPeriodEvidence(r0, FramePeriodEvidence(f)) = r0
    BY <1>2, NoEvidence
  <2> QED
    BY <1>2, <2>1, RunningIsKept
<1>6. /\ InStoppage(m) => d >= PeriodEnd(p) /\ d < PeriodEnd(p) + RecognitionMinutes /\ PeriodEnd(p) >= 45
      /\ ~ InStoppage(m) => d < PeriodEnd(p)
      /\ PeriodOf(PeriodEnd(p)) = p
  BY MomentShape DEF PeriodOf, RecognitionMinutes
<1> HIDE DEF d, p, r0, r
<1>7. ASSUME InStoppage(m) PROVE Told(r, m, 0) /\ r.minute >= 45 /\ r.alternatives = {}
  <2>1. f.added = 4
    BY <1>2, <1>7
  <2>2. CASE d = PeriodEnd(p)
    <3>1. \A e \in Ends : ~ (r0.minute > e /\ r0.minute < e + RecognitionMinutes)
      BY <1>3, <1>4, <2>2 DEF ReadAs, Ends, RecognitionMinutes
    <3>2. r = r0
      BY <1>5, <2>1, <3>1, OutsideWindowStays
    <3>3. ReadAs(r, d, {}, p) /\ r.exact
      BY <1>4, <1>6, <2>2, <3>2
    <3>4. d >= 45
      BY <1>6, <1>7, <2>2
    <3>5. r.minute = d /\ d \in Completed(m) .. (Completed(m) + 0)
      BY <1>3, <3>3 DEF ReadAs, d
    <3> QED
      BY <3>3, <3>4, <3>5 DEF Told, ReadAs, p
  <2>3. CASE d # PeriodEnd(p)
    <3>1. d > PeriodEnd(p) /\ PeriodEnd(p) \in Int
      BY <1>3, <1>6, <1>7, <2>3 DEF Ends
    <3>2. ReadAs(r, d, {}, PeriodOf(PeriodEnd(p))) /\ r.exact
      BY <1>3, <1>4, <1>5, <1>6, <1>7, <2>1, <3>1, AllowanceDecides
    <3> QED
      BY <1>3, <1>6, <1>7, <3>1, <3>2 DEF Told, ReadAs, d, p
  <2> QED
    BY <2>2, <2>3
<1>8. ASSUME ~ InStoppage(m) PROVE (Told(r, m, 0) \/ Guessed(r, m)) /\ r.alternatives = {}
  <2>1. f.added <= 0 /\ f.added \in Int
    BY <1>2, <1>8 DEF Absent
  <2>2. r = r0
    BY <1>5, <2>1, OutsideWindowStays
  <2>3. PeriodOf(d) = p \/ d \in Ends
    BY <1>8, MomentShape DEF PeriodOf, Ends, d, p
  <2>4. r.minute \in Completed(m) .. (Completed(m) + 0)
    BY <1>3, <1>4, <2>2 DEF ReadAs, d
  <2> QED
    BY <1>4, <2>2, <2>3, <2>4 DEF Told, Guessed, ReadAs, d, p
<1> QED
  BY <1>7, <1>8 DEF r

\* A clock that stops at the boundary tells the moment by its sub-clock, or says
\* by its board that the period has run out.
LEMMA SubclockTells ==
    ASSUME NEW m \in Moments, NEW f \in Subclock(m)
    PROVE  LET r == ParseFrameClock(f)
           IN /\ Halted(r, m) \/ (Told(r, m, 0) /\ (r.pinned \/ r.minute >= 45))
              /\ r.alternatives = {} \/ (f.minute = 45 /\ m.period = "2H")
<1> DEFINE end == PeriodEnd(m.period)
           p == m.period
           past == m.minute - Length(p)
           r0 == ParseClockField(f)
           r == ParseFrameClock(f)
           frozen == Timer(end, 0)
<1>1. CASE ~ InStoppage(m)
  <2>1. f = [Timer(Completed(m), 30) EXCEPT !.label = m.period]
    BY <1>1, Zenon DEF Subclock
  <2>2. /\ f.kind = "timer" /\ f.hints = {} /\ f.minute = Completed(m) /\ f.label = m.period /\ f.period = Null
        /\ f.second # 0
    BY <2>1 DEF Timer, Blank
  <2>3. Completed(m) \in Nat
    BY MomentShape
  <2> QED
    BY <2>2, <2>3, NamedFrame
<1>2. CASE InStoppage(m)
  <2>1. \/ f \in {[frozen EXCEPT !.stop = past, !.added = a] : a \in Boards}
        \/ f = [frozen EXCEPT !.added = 4]
    BY <1>2, Zenon DEF Subclock
  <2>2. /\ f.kind = "timer" /\ f.hints = {} /\ f.minute = end /\ f.label = Null /\ f.period = Null /\ f.second = 0
        /\ f.added \in Int
        /\ f.stop = past \/ (f.stop = Absent /\ f.added = 4)
    <3>1. CASE f = [frozen EXCEPT !.added = 4]
      BY <3>1 DEF Timer, Blank
    <3>2. CASE f \in {[frozen EXCEPT !.stop = past, !.added = a] : a \in Boards}
      <4>1. PICK a \in Boards : f = [frozen EXCEPT !.stop = past, !.added = a]
        BY <3>2, Zenon
      <4>2. a \in Int
        BY DEF Boards, Absent
      <4> HIDE DEF past, end
      <4> QED
        BY <4>1, <4>2 DEF Timer, Blank
    <3> QED
      BY <2>1, <3>1, <3>2, Zenon
  <2>3. end \in Nat /\ end >= 45 /\ end \in Ends /\ PeriodOf(end) = p /\ p \in Periods /\ past \in Nat
        /\ end + past = Completed(m) /\ Completed(m) \in Nat
    BY <1>2, MomentShape DEF Ends, PeriodOf
  <2>4. ReadAs(r0, end, {}, p) /\ ~ r0.pinned /\ ~ r0.stoppage /\ r0.exact
    BY <2>2, <2>3, BareTimer
  <2> HIDE DEF end, p, past, r0, r, frozen
  <2>5. WithPeriodEvidence(r0, FramePeriodEvidence(f)) = r0
    BY <2>2, NoEvidence
  <2>6. WithRunningStoppage(r0, f.added) = r0
    <3>1. \A e \in Ends : ~ (r0.minute > e /\ r0.minute < e + RecognitionMinutes)
      BY <2>3, <2>4 DEF ReadAs, Ends, RecognitionMinutes
    <3> QED
      BY <2>2, <3>1, OutsideWindowStays
  <2>7. FrozenBoundary(r0, f)
    <3>1. p # Unknown
      BY <2>3, Zenon DEF Periods, Unknown
    <3>2. PeriodEnd(p) = end
      BY DEF end, p
    <3> QED
      BY <2>2, <2>4, <3>1, <3>2 DEF FrozenBoundary, PossibleMinutes, ReadAs
  <2>8. r = IF f.stop # Absent THEN [[r0 EXCEPT !.alternatives = {}, !.stoppage = TRUE] EXCEPT !.minute = end + f.stop]
            ELSE IF f.added # Absent
            THEN [[r0 EXCEPT !.alternatives = {}, !.stoppage = TRUE] EXCEPT !.minute = end, !.exact = FALSE]
            ELSE r0
    <3>1. r0.period = p /\ PeriodEnd(p) = end
      BY <2>4 DEF ReadAs, end, p
    <3> QED
      BY <2>5, <2>6, <2>7, <3>1 DEF ParseFrameClock, r, r0
  <2>9. CASE f.stop = past
    <3> DEFINE at == [r0 EXCEPT !.alternatives = {}, !.stoppage = TRUE]
               c == Completed(m)
    <3>1. f.stop # Absent /\ end + f.stop = c
      BY <2>3, <2>9 DEF Absent
    <3>2. r = [at EXCEPT !.minute = end + f.stop]
      BY <2>8, <3>1
    <3>3. at \in Readings /\ at.alternatives = {} /\ at.period = p /\ ~ at.ambiguous /\ at.exact
      BY <2>4 DEF ReadAs, Readings
    <3>4. c \in Int
      BY <2>3
    <3> HIDE DEF at, c
    <3>5. r = [at EXCEPT !.minute = c]
      BY <3>1, <3>2
    <3>6. ReadAs(r, c, {}, p) /\ r.exact
      BY <3>3, <3>4, <3>5 DEF ReadAs, Readings
    <3>7. ReadAs(r, Completed(m), {}, p) /\ r.exact
      BY <3>6 DEF c
    <3>8. r.minute = Completed(m) /\ r.minute >= 45 /\ r.minute \in Completed(m) .. (Completed(m) + 0)
      BY <2>3, <3>7 DEF ReadAs
    <3> QED
      BY <3>7, <3>8 DEF Told, ReadAs, p, r
  <2>10. CASE f.stop = Absent /\ f.added = 4
    <3>1. r = [[r0 EXCEPT !.alternatives = {}, !.stoppage = TRUE] EXCEPT !.minute = end, !.exact = FALSE]
      BY <2>8, <2>10 DEF Absent
    <3>2. ReadAs(r, end, {}, p) /\ ~ r.exact /\ r.stoppage
      BY <2>3, <2>4, <3>1 DEF ReadAs, Readings
    <3> QED
      BY <1>2, <3>2 DEF Halted, ReadAs, p, r, end
  <2> QED
    BY <2>2, <2>9, <2>10
<1> QED
  BY <1>1, <1>2

\* A clock that turns to "45+2" tells the moment, or the minute in play.
LEMMA CompactTells ==
    ASSUME NEW m \in Moments, NEW f \in Compact(m)
    PROVE  LET r == ParseFrameClock(f)
           IN Told(r, m, 1) /\ r.pinned /\ (r.alternatives = {} \/ (f.minute = 45 /\ m.period = "2H"))
<1> DEFINE end == PeriodEnd(m.period)
           p == m.period
           past == m.minute - Length(p)
           r0 == ParseClockField(f)
           r == ParseFrameClock(f)
<1>1. CASE ~ InStoppage(m)
  <2>1. f = [Timer(Completed(m), 30) EXCEPT !.label = m.period]
    BY <1>1, Zenon DEF Compact
  <2>2. /\ f.kind = "timer" /\ f.hints = {} /\ f.minute = Completed(m) /\ f.label = m.period /\ f.period = Null
        /\ f.second # 0
    BY <2>1 DEF Timer, Blank
  <2>3. Completed(m) \in Nat
    BY MomentShape
  <2>4. Told(r, m, 0) /\ r.pinned /\ (r.alternatives = {} \/ (f.minute = 45 /\ m.period = "2H"))
    BY <2>2, <2>3, NamedFrame
  <2> QED
    BY <2>3, <2>4 DEF Told
<1>2. CASE InStoppage(m)
  <2>1. f \in {[Blank EXCEPT !.kind = "compact", !.minute = end, !.second = past + n] : n \in 0..1}
    BY <1>2, Zenon DEF Compact
  <2>2. PICK n \in 0..1 : f = [Blank EXCEPT !.kind = "compact", !.minute = end, !.second = past + n]
    BY <2>1, Zenon
  <2>3. /\ end \in Nat /\ end >= 45 /\ PeriodOf(end) = p /\ p \in Periods /\ past \in Nat
        /\ end + past = Completed(m) /\ Completed(m) \in Nat
    BY <1>2, MomentShape DEF PeriodOf
  <2> DEFINE sec == past + n
  <2>4. sec \in Nat /\ end + sec \in Completed(m) .. (Completed(m) + 1)
    <3> HIDE DEF end, past
    <3> QED
      BY <2>3
  <2> HIDE DEF end, p, past, r0, r, sec
  <2>5. /\ f.kind = "compact" /\ f.hints = {} /\ f.minute = end /\ f.label = Null /\ f.period = Null
        /\ f.second = sec
    <3>1. f = [Blank EXCEPT !.kind = "compact", !.minute = end, !.second = sec]
      BY <2>2 DEF sec
    <3> QED
      BY <3>1 DEF Blank
  <2>6. ReadAs(r0, end + sec, {}, p) /\ r0.pinned /\ r0.stoppage /\ r0.exact
    BY <2>3, <2>4, <2>5, CompactField DEF r0
  <2>7. WithPeriodEvidence(r0, FramePeriodEvidence(f)) = r0
    BY <2>5, NoEvidence
  <2>8. WithRunningStoppage(r0, f.added) = r0
    BY <2>6, PinnedStays
  <2>9. r = r0
    BY <2>5, <2>7, <2>8, RunningIsKept DEF r, r0
  <2>10. r0.minute \in Completed(m) .. (Completed(m) + 1)
    BY <2>4, <2>6 DEF ReadAs
  <2>11. Told(r, m, 1) /\ r.pinned /\ r.alternatives = {}
    BY <2>6, <2>9, <2>10 DEF Told, ReadAs, p
  <2> QED
    BY <2>11 DEF r
<1> QED
  BY <1>1, <1>2

\* A clock that names its half tells the moment; one that says only "ET" tells it
\* or guesses the period its minute falls in.
LEMMA EmbeddedTells ==
    ASSUME NEW m \in Moments, ~ InStoppage(m), NEW f \in Embedded(m)
    PROVE  LET r == ParseFrameClock(f)
           IN /\ r.alternatives = {} /\ r.pinned
              /\ Told(r, m, 0) \/ (IsExtraTime(m.period) /\ Guessed(r, m))
<1> DEFINE d == IF IsExtraTime(m.period) THEN Completed(m) - 90 ELSE m.minute
           h == IF IsExtraTime(m.period) THEN "ET" ELSE m.period
           et == IF d <= 30 THEN 90 + d ELSE d
           r0 == ParseClockField(f)
           r == ParseFrameClock(f)
<1>1. f = [Timer(d, 30) EXCEPT !.hints = {h}]
  BY Zenon DEF Embedded
<1>2. /\ f.kind = "timer" /\ f.hints = {h} /\ f.minute = d /\ f.label = Null /\ f.period = Null /\ f.second # 0
  <2> HIDE DEF d, h
  <2> QED
    BY <1>1 DEF Timer, Blank
<1>3. /\ d \in 0..44 /\ h \in {"1H", "2H", "ET"} /\ Completed(m) \in Nat
      /\ (IF h = "1H" THEN d ELSE IF h = "2H" THEN 45 + d ELSE et) = Completed(m)
  BY MomentShape
<1>4. h # "ET" => h = m.period
  OBVIOUS
<1>5. h = "ET" => IsExtraTime(m.period) /\ et = Completed(m)
  <2>1. m.period # "ET"
    BY MomentShape
  <2>2. h = "ET" => IsExtraTime(m.period)
    BY <2>1
  <2> HIDE DEF d, et
  <2> QED
    BY <1>3, <2>2
<1>6. ReadAs(r0, Completed(m), {}, IF h = "ET" THEN PeriodOf(et) ELSE h) /\ r0.pinned /\ ~ r0.stoppage /\ r0.exact
  <2> HIDE DEF d, h
  <2>1. f.minute \in 0..44 /\ (IF f.minute <= 30 THEN 90 + f.minute ELSE f.minute) = et
    BY <1>2, <1>3
  <2> HIDE DEF et
  <2>2. /\ ReadAs(r0, IF h = "1H" THEN f.minute ELSE IF h = "2H" THEN 45 + f.minute ELSE et, {},
                  IF h = "ET" THEN PeriodOf(et) ELSE h)
        /\ r0.pinned /\ ~ r0.stoppage /\ r0.exact
    BY <1>2, <1>3, <2>1, HintedTimer
  <2> QED
    BY <1>2, <1>3, <2>2
<1> HIDE DEF d, h, et, r0, r
<1>7. WithPeriodEvidence(r0, FramePeriodEvidence(f)) = r0
  BY <1>2, NoEvidence
<1>8. WithRunningStoppage(r0, f.added) = r0
  BY <1>6, PinnedStays
<1>9. r = r0
  BY <1>2, <1>7, <1>8, RunningIsKept DEF r, r0
<1>10. r.minute \in Completed(m) .. (Completed(m) + 0)
  BY <1>3, <1>6, <1>9 DEF ReadAs
<1>11. CASE h # "ET"
  <2>1. Told(r, m, 0)
    BY <1>4, <1>6, <1>9, <1>10, <1>11 DEF Told, ReadAs
  <2> QED
    BY <1>6, <1>9, <2>1 DEF r, ReadAs
<1>12. CASE h = "ET"
  <2>1. Told(r, m, 0) \/ Guessed(r, m)
    BY <1>5, <1>6, <1>9, <1>10, <1>12 DEF Told, Guessed, ReadAs
  <2> QED
    BY <1>5, <1>6, <1>9, <1>12, <2>1 DEF r, ReadAs
<1> QED
  BY <1>11, <1>12

\* What a scorebug of each convention is read as.
LEMMA ScorebugReading ==
    ASSUME NEW c \in Conventions, NEW m \in Moments, Distinct(c, m), NEW f \in Scorebugs(c, m)
    PROVE  LET r == ParseFrameClock(f)
               o == IF c = "compact" THEN 1 ELSE 0
           IN /\ Told(r, m, o) \/ Halted(r, m) \/ Guessed(r, m)
              /\ (c = "plain" => InStoppage(m)) /\ (c = "embedded" => ~ IsExtraTime(m.period))
                   => Halted(r, m) \/ (Told(r, m, o) /\ (r.pinned \/ r.minute >= 45))
              /\ r.alternatives = {} \/ (f.minute = 45 /\ m.period = "2H")
<1>1. c \in {"labelled", "plain", "subclock", "compact", "reset", "embedded"}
  BY ClockConstants
<1>2. CASE c = "labelled"
  BY <1>2, LabelledTells DEF Scorebugs
<1>3. CASE c = "plain"
  BY <1>3, PlainTells DEF Scorebugs, Distinct
<1>4. CASE c = "subclock"
  BY <1>4, SubclockTells DEF Scorebugs
<1>5. CASE c = "compact"
  BY <1>5, CompactTells DEF Scorebugs
<1>6. CASE c = "reset"
  BY <1>6, ResetTells DEF Scorebugs, Distinct
<1>7. CASE c = "embedded"
  BY <1>7, EmbeddedTells DEF Scorebugs, Distinct
<1> QED
  BY <1>1, <1>2, <1>3, <1>4, <1>5, <1>6, <1>7

-----------------------------------------------------------------------------
(* MatchClock: from the readings to the verdict. *)

\* A reading that stands for the goal's own moment verifies, softly keeps, or is
\* a bound that the goal does not exceed.
Spared(r, g) ==
    \/ Verifies(r, g) # {}
    \/ SoftKeeps(r, g)
    \/ ~ r.ambiguous /\ LowerBound(r, g.period)
NotBeyond(r, g) == (~ r.ambiguous /\ LowerBound(r, g.period)) => ~ (Completed(g) + Tol < r.minute)

\* What is read off a clip of the goal's moment spares it.
LEMMA RightReadingSpared ==
    ASSUME NEW g \in Moments, NEW m \in Moments, NEW r, NEW o \in Nat,
           Told(r, m, o) \/ Halted(r, m) \/ Guessed(r, m),
           m.period = g.period, Abs(Completed(m) - Completed(g)) <= Tol - o
    PROVE  Spared(r, g) /\ NotBeyond(r, g)
<1> DEFINE p == g.period
           k == Completed(g)
           c == Completed(m)
<1>1. /\ Elapsed(g) + Extra(g) - 1 = k /\ PeriodOf(Elapsed(g)) = p /\ k \in Nat
      /\ Elapsed(g) \in Nat /\ Extra(g) \in Nat
  BY GoalMinute
<1>2. c \in Nat /\ Tol \in Nat
  BY GoalMinute, ClockConstants
<1>3. c - k <= Tol - o /\ k - c <= Tol - o
  BY <1>1, <1>2 DEF Abs
<1> HIDE DEF p, k, c
<1>4. CASE Told(r, m, o)
  <2>1. r.minute \in Int /\ Abs(r.minute - k) <= Tol /\ r.exact /\ ~ r.ambiguous /\ r.period = p
    <3>1. r.minute \in c .. (c + o) /\ r.exact /\ ~ r.ambiguous /\ r.period = p
      BY <1>4 DEF Told, p, c
    <3> QED
      BY <1>1, <1>2, <1>3, <3>1 DEF Abs
  <2>2. ~ LowerBound(r, p)
    BY <2>1 DEF LowerBound
  <2>3. r.minute \in Verifies(r, g)
    BY <1>1, <2>1, <2>2 DEF Verifies, PossibleMinutes
  <2> QED
    BY <2>2, <2>3 DEF Spared, NotBeyond, p
<1>5. CASE Halted(r, m)
  <2>1. r.minute \in Int /\ r.minute <= c /\ ~ r.ambiguous /\ LowerBound(r, p)
    <3>1. r.minute = PeriodEnd(m.period) /\ PeriodEnd(m.period) \in Int /\ PeriodEnd(m.period) <= c
      BY <1>5, MomentShape DEF Halted, c
    <3> QED
      BY <1>5, <3>1 DEF Halted, LowerBound, p
  <2>2. ~ (k + Tol < r.minute)
    BY <1>1, <1>2, <1>3, <2>1
  <2> QED
    BY <2>1, <2>2 DEF Spared, NotBeyond, p, k
<1>6. CASE Guessed(r, m)
  <2>1. /\ r.minute = c /\ r.exact /\ ~ r.ambiguous /\ r.period # p
        /\ (~ r.pinned /\ ~ r.stoppage /\ r.minute \in Ends) \/ IsExtraTime(p)
    BY <1>6 DEF Guessed, p, c
  <2>2. ~ LowerBound(r, p)
    BY <2>1 DEF LowerBound
  <2>3. Abs(r.minute - k) <= Tol
    BY <1>1, <1>2, <1>3, <2>1 DEF Abs
  <2>4. SoftKeeps(r, g)
    BY <1>1, <2>1, <2>2, <2>3 DEF SoftKeeps, PossibleMinutes
  <2> QED
    BY <2>2, <2>4 DEF Spared, NotBeyond, p
<1> QED
  BY <1>4, <1>5, <1>6

\* What is read off a clip of another moment verifies nothing.
LEMMA WrongReadingVerifiesNone ==
    ASSUME NEW g \in Moments, NEW m \in Moments, NEW r, NEW o \in Nat,
           Halted(r, m) \/ (Told(r, m, o) /\ (r.pinned \/ r.minute >= 45)),
           r.alternatives = {},
           m.period # g.period \/ Abs(Completed(m) - Completed(g)) > Tol + o
    PROVE  Verifies(r, g) = {}
<1> DEFINE p == g.period
           k == Completed(g)
           c == Completed(m)
<1>1. /\ Elapsed(g) + Extra(g) - 1 = k /\ PeriodOf(Elapsed(g)) = p /\ k \in Nat
      /\ Elapsed(g) \in Nat /\ Extra(g) \in Nat /\ (Extra(g) > 0 => Extra(g) + Tol <= 45)
  BY GoalMinute
<1>2. c \in Nat /\ Tol \in Nat
  BY GoalMinute, ClockConstants
<1> HIDE DEF p, k, c
<1>3. r \in Readings /\ r.minute \in Int /\ PossibleMinutes(r) = {r.minute}
  BY DEF Told, Halted, Readings, PossibleMinutes
<1>4. r.pinned \/ r.minute >= 45
  BY MomentShape DEF Halted
<1>5. ~ (Extra(g) > 0 /\ ~ r.pinned /\ Abs(Elapsed(g) + r.minute - k) <= Tol)
  BY <1>1, <1>2, <1>3, <1>4 DEF Abs
<1>6. ~ r.ambiguous /\ ~ LowerBound(r, p)
      => {n \in PossibleMinutes(r) : r.exact /\ r.period = p /\ Abs(n - k) <= Tol} = {}
  <2>1. CASE Halted(r, m)
    BY <2>1 DEF Halted
  <2>2. CASE Told(r, m, o)
    <3>1. CASE m.period # g.period
      BY <2>2, <3>1 DEF Told, p
    <3>2. CASE Abs(c - k) > Tol + o
      <4>1. r.minute \in c .. (c + o)
        BY <2>2 DEF Told, c
      <4>2. ~ (Abs(r.minute - k) <= Tol)
        BY <1>1, <1>2, <3>2, <4>1 DEF Abs
      <4> QED
        BY <1>3, <4>2
    <3> QED
      BY <3>1, <3>2 DEF c, k
  <2> QED
    BY <2>1, <2>2
<1> QED
  BY <1>1, <1>5, <1>6 DEF Verifies

\* The frames that show a clock.
Legible(fs) == {i \in DOMAIN fs : fs[i].kind # "none"}

\* Without one verified minute the verdict is another.
LEMMA NothingVerified ==
    ASSUME NEW fs, NEW g, \A i \in Legible(fs) : Verifies(ParseFrameClock(fs[i]), g) = {}
    PROVE  Evaluate(fs, g).outcome # "verified"
<1> DEFINE matched == UNION {Verifies(r, g) : r \in {ParseFrameClock(fs[i]) : i \in Legible(fs)}}
<1>1. matched = {}
  OBVIOUS
<1> QED
  BY <1>1 DEF Evaluate, Legible

\* Match footage whose every reading spares the clip is not rejected.
LEMMA SparedIsKept ==
    ASSUME NEW fs, NEW g \in Moments, NEW n \in Nat, Len(fs) = n,
           LET soccer == Cardinality({i \in DOMAIN fs : fs[i].soccer})
               screens == Cardinality({i \in DOMAIN fs : fs[i].screen})
           IN /\ soccer \in Nat /\ 2 * soccer > n
              /\ screens = 0,
           \A i \in Legible(fs) : Spared(ParseFrameClock(fs[i]), g) /\ NotBeyond(ParseFrameClock(fs[i]), g)
    PROVE  Evaluate(fs, g).outcome # "rejected"
<1> DEFINE readings == {ParseFrameClock(fs[i]) : i \in Legible(fs)}
           period == PeriodOf(Elapsed(g))
           bounds == {r \in readings : ~ r.ambiguous /\ LowerBound(r, period)}
           exact == \E r \in readings \ bounds : ~ r.ambiguous /\ r.exact
           matched == UNION {Verifies(r, g) : r \in readings}
           majority == (Len(fs) \div 2) + 1
           soccer == Cardinality({i \in DOMAIN fs : fs[i].soccer})
           screens == Cardinality({i \in DOMAIN fs : fs[i].screen})
           beyond == \E r \in bounds : Elapsed(g) + Extra(g) - 1 + Tol < r.minute
           soft == \E r \in readings : SoftKeeps(r, g)
<1>1. ~ (soccer < majority \/ screens >= majority)
  <2>1. majority \in Nat /\ majority > 0 /\ 2 * majority <= n + 2
    OBVIOUS
  <2> HIDE DEF majority, soccer, screens
  <2>2. soccer \in Nat /\ 2 * soccer > n /\ screens = 0
    BY DEF soccer, screens
  <2> QED
    BY <2>1, <2>2
<1>2. Elapsed(g) + Extra(g) - 1 = Completed(g) /\ period = g.period
  BY GoalMinute
<1>3. \A r \in readings : Spared(r, g) /\ NotBeyond(r, g)
  OBVIOUS
<1>4. Evaluate(fs, g) =
        IF soccer < majority \/ screens >= majority
        THEN [outcome |-> "rejected", minutes |-> {}]
        ELSE IF matched # {} THEN [outcome |-> "verified", minutes |-> matched]
        ELSE [minutes |-> {}, outcome |->
              IF readings = {} THEN "unverified"
              ELSE IF beyond THEN "rejected"
              ELSE IF soft THEN "unverified"
              ELSE IF bounds # {} /\ ~ exact THEN "unverified"
              ELSE "rejected"]
  BY DEF Evaluate, Legible
<1> HIDE DEF readings, majority, soccer, screens
<1>5. ~ beyond
  BY <1>2, <1>3 DEF NotBeyond
<1>6. CASE matched # {}
  <2> HIDE DEF matched, bounds, exact, beyond, soft
  <2> QED
    BY <1>1, <1>4, <1>6
<1>7. CASE matched = {}
  <2>1. \A r \in readings : Verifies(r, g) = {}
    BY <1>7
  <2>2. \A r \in readings : SoftKeeps(r, g) \/ r \in bounds
    BY <1>2, <1>3, <2>1 DEF Spared
  <2>3. readings = {} \/ soft \/ (bounds # {} /\ ~ exact)
    BY <2>2
  <2> HIDE DEF matched, bounds, exact, beyond, soft
  <2>4. Evaluate(fs, g).outcome = "unverified"
    BY <1>1, <1>4, <1>5, <1>7, <2>3
  <2> QED
    BY <2>4
<1> QED
  BY <1>6, <1>7

-----------------------------------------------------------------------------
(* MatchClock: the invariant of a clip under judgement. *)

ClipFrames == Scorebugs(convention, clip) \cup {Blank, [Blank EXCEPT !.soccer = FALSE], Misread}
ClockInv ==
    /\ goal \in Moments /\ clip \in Moments /\ convention \in Conventions /\ Distinct(convention, clip)
    /\ frames \in Seq(ClipFrames)
    /\ verdict.outcome = "none" \/ verdict = Evaluate(frames, goal)

\* Every frame comes from the clip, and the verdict is the one of its frames.
LEMMA ClockInvHolds == ClockSpec => []ClockInv
<1>1. ClockInit => ClockInv
  BY EmptySeq DEF ClockInit, ClockInv
<1>2. ClockInv /\ [ClockNext]_clockVars => ClockInv'
  <2> SUFFICES ASSUME ClockInv, [ClockNext]_clockVars
               PROVE  ClockInv'
    OBVIOUS
  <2>1. UNCHANGED <<clip, convention>> => ClipFrames' = ClipFrames
    BY DEF ClipFrames, Misread
  <2>2. CASE ObserveFrame
    <3>1. PICK f \in ClipFrames : frames' = Append(frames, f)
      BY <2>2, Zenon DEF ObserveFrame, ClipFrames
    <3>2. UNCHANGED <<goal, clip, convention, verdict>> /\ verdict.outcome = "none"
      BY <2>2 DEF ObserveFrame
    <3>3. frames' \in Seq(ClipFrames)
      BY <3>1, AppendProperties DEF ClockInv
    <3> QED
      BY <2>1, <3>2, <3>3 DEF ClockInv, Distinct, InStoppage
  <2>3. CASE Judge
    <3>1. UNCHANGED <<goal, clip, convention, frames>> /\ verdict' = Evaluate(frames, goal)
      BY <2>3 DEF Judge
    <3> QED
      BY <2>1, <3>1 DEF ClockInv
  <2>4. CASE UNCHANGED clockVars
    <3>1. UNCHANGED <<goal, clip, convention, frames, verdict>>
      BY <2>4 DEF clockVars
    <3> QED
      BY <2>1, <3>1 DEF ClockInv
  <2> QED
    BY <2>2, <2>3, <2>4 DEF ClockNext
<1> QED
  BY <1>1, <1>2, PTL DEF ClockSpec

\* No scorebug is a screen.
LEMMA ScorebugOnPitch ==
    ASSUME NEW c \in Conventions, NEW m \in Moments, NEW f \in Scorebugs(c, m)
    PROVE  f.screen = FALSE
<1>1. c \in {"labelled", "plain", "subclock", "compact", "reset", "embedded"}
  BY ClockConstants
<1>2. CASE c = "labelled"
  <2>1. PICK s \in {n \in Seconds : Completed(m) \in Ends => n # 0} :
          f \in {[Timer(Completed(m), s) EXCEPT !.period = m.period, !.added = a] : a \in Boards}
    BY <1>2, Zenon DEF Scorebugs, Labelled
  <2>2. PICK a \in Boards : f = [Timer(Completed(m), s) EXCEPT !.period = m.period, !.added = a]
    BY <2>1, Zenon
  <2> QED
    BY <2>2 DEF Timer, Blank
<1>3. CASE c = "plain"
  <2>1. f = [Timer(Completed(m), 30) EXCEPT !.added = IF InStoppage(m) THEN 4 ELSE Absent]
    BY <1>3, Zenon DEF Scorebugs, Plain
  <2> QED
    BY <2>1 DEF Timer, Blank
<1>4. CASE c = "subclock"
  <2> DEFINE frozen == Timer(PeriodEnd(m.period), 0)
             past == m.minute - Length(m.period)
  <2>1. CASE ~ InStoppage(m)
    <3>1. f = [Timer(Completed(m), 30) EXCEPT !.label = m.period]
      BY <1>4, <2>1, Zenon DEF Scorebugs, Subclock
    <3> QED
      BY <3>1 DEF Timer, Blank
  <2>2. CASE InStoppage(m)
    <3>1. \/ f \in {[frozen EXCEPT !.stop = past, !.added = a] : a \in Boards}
          \/ f = [frozen EXCEPT !.added = 4]
      BY <1>4, <2>2, Zenon DEF Scorebugs, Subclock
    <3>2. CASE f = [frozen EXCEPT !.added = 4]
      BY <3>2 DEF Timer, Blank
    <3>3. CASE f \in {[frozen EXCEPT !.stop = past, !.added = a] : a \in Boards}
      <4>1. PICK a \in Boards : f = [frozen EXCEPT !.stop = past, !.added = a]
        BY <3>3, Zenon
      <4> QED
        BY <4>1 DEF Timer, Blank
    <3> QED
      BY <3>1, <3>2, <3>3, Zenon
  <2> QED
    BY <2>1, <2>2
<1>5. CASE c = "compact"
  <2> DEFINE past == m.minute - Length(m.period)
  <2>1. CASE ~ InStoppage(m)
    <3>1. f = [Timer(Completed(m), 30) EXCEPT !.label = m.period]
      BY <1>5, <2>1, Zenon DEF Scorebugs, Compact
    <3> QED
      BY <3>1 DEF Timer, Blank
  <2>2. CASE InStoppage(m)
    <3>1. f \in {[Blank EXCEPT !.kind = "compact", !.minute = PeriodEnd(m.period), !.second = past + n] : n \in 0..1}
      BY <1>5, <2>2, Zenon DEF Scorebugs, Compact
    <3>2. PICK n \in 0..1 :
            f = [Blank EXCEPT !.kind = "compact", !.minute = PeriodEnd(m.period), !.second = past + n]
      BY <3>1, Zenon
    <3> HIDE DEF past
    <3> QED
      BY <3>2 DEF Blank
  <2> QED
    BY <2>1, <2>2
<1>6. CASE c = "reset"
  <2>1. f = [Timer(m.minute, 30) EXCEPT !.label = m.period]
    BY <1>6, Zenon DEF Scorebugs, Reset
  <2> QED
    BY <2>1 DEF Timer, Blank
<1>7. CASE c = "embedded"
  <2> DEFINE d == IF IsExtraTime(m.period) THEN Completed(m) - 90 ELSE m.minute
             h == IF IsExtraTime(m.period) THEN "ET" ELSE m.period
  <2>1. f = [Timer(d, 30) EXCEPT !.hints = {h}]
    BY <1>7, Zenon DEF Scorebugs, Embedded
  <2> HIDE DEF d, h
  <2> QED
    BY <2>1 DEF Timer, Blank
<1> QED
  BY <1>1, <1>2, <1>3, <1>4, <1>5, <1>6, <1>7

\* A frame read as two periods is in doubt.
LEMMA MisreadIsAmbiguous ==
    ASSUME clip \in Moments
    PROVE  ParseFrameClock(Misread).ambiguous /\ Misread.screen = FALSE
<1> DEFINE p == clip.period
           q == IF clip.period = "1H" THEN "2H" ELSE "1H"
           f == Misread
           r0 == ParseClockField(f)
           r1 == WithPeriodEvidence(r0, FramePeriodEvidence(f))
<1>1. p \in Periods /\ Completed(clip) \in Nat /\ p # q /\ p # Null /\ q # Null
  BY MomentShape DEF Null
<1>2. f = [Timer(Completed(clip), 30) EXCEPT !.label = p, !.period = q]
  BY DEF Misread
<1> HIDE DEF p, q, f
<1>3. /\ f.kind = "timer" /\ f.hints = {} /\ f.minute = Completed(clip) /\ f.label = p /\ f.period = q
      /\ f.second = 30 /\ f.screen = FALSE
  BY <1>2 DEF Timer, Blank
<1>4. FramePeriodEvidence(f).conflict
  BY <1>1, <1>3 DEF FramePeriodEvidence, PeriodFromLabel
<1>5. r0 \in Readings
  BY <1>1, <1>3, BareTimer DEF ReadAs
<1>6. r1 = [r0 EXCEPT !.period = Unknown, !.ambiguous = TRUE]
  BY <1>4 DEF WithPeriodEvidence
<1> HIDE DEF r0
<1>7. r1.ambiguous
  BY <1>5, <1>6 DEF Readings
<1>8. WithRunningStoppage(r1, f.added) = r1
  BY <1>7 DEF WithRunningStoppage
<1>9. ParseFrameClock(f) = r1
  BY <1>3, <1>8, RunningIsKept DEF r0
<1> QED
  BY <1>3, <1>7, <1>9 DEF f

\* A frame of the clip shows no screen; with a clock it is a scorebug of the
\* clip's moment or in doubt.
LEMMA FrameOfClip ==
    ASSUME ClockInv, NEW i \in DOMAIN frames
    PROVE  /\ frames[i].screen = FALSE
           /\ \/ frames[i].kind = "none"
              \/ ParseFrameClock(frames[i]).ambiguous
              \/ frames[i] \in Scorebugs(convention, clip)
<1>1. frames[i] \in ClipFrames /\ clip \in Moments /\ convention \in Conventions
  BY ElementOfSeq DEF ClockInv
<1>2. CASE frames[i] \in Scorebugs(convention, clip)
  BY <1>1, <1>2, ScorebugOnPitch
<1>3. CASE frames[i] \in {Blank, [Blank EXCEPT !.soccer = FALSE]}
  BY <1>3 DEF Blank
<1>4. CASE frames[i] = Misread
  BY <1>1, <1>4, MisreadIsAmbiguous
<1> QED
  BY <1>1, <1>2, <1>3, <1>4 DEF ClipFrames

\* evaluate.go:6: a clip of the goal itself, shown by a broadcaster whose clock
\* says which period it is in, is never thrown away: whatever the moment, the
\* convention, the tolerance and the number of frames.
THEOREM RightClipKeptHolds == ClockSpec => []RightClipKept
<1>1. ClockInv => RightClipKept
  <2> SUFFICES ASSUME ClockInv, Judged, MatchFootage, clip.period = goal.period,
                      Abs(Completed(clip) - Completed(goal)) <= Tol - Ordinal
               PROVE  verdict.outcome # "rejected"
    BY DEF RightClipKept
  <2> DEFINE n == Len(frames)
             soccer == {i \in DOMAIN frames : frames[i].soccer}
             screens == {i \in DOMAIN frames : frames[i].screen}
  <2>1. /\ goal \in Moments /\ clip \in Moments /\ convention \in Conventions /\ Distinct(convention, clip)
        /\ verdict = Evaluate(frames, goal)
    BY DEF ClockInv, Judged
  <2>2. n \in Nat /\ DOMAIN frames = 1 .. n
    BY LenProperties DEF ClockInv
  <2>3. Cardinality(soccer) \in Nat /\ 2 * Cardinality(soccer) > n
    <3>1. IsFiniteSet(1 .. n)
      BY <2>2, FS_Interval
    <3>2. IsFiniteSet(soccer)
      BY <2>2, <3>1, FS_Subset
    <3>3. Cardinality(soccer) \in Nat
      BY <3>2, FS_CardinalityType
    <3> QED
      BY <3>3 DEF MatchFootage
  <2>4. Cardinality(screens) = 0
    <3>1. screens = {}
      BY FrameOfClip
    <3> QED
      BY <3>1, FS_EmptySet
  <2>5. ASSUME NEW i \in Legible(frames)
        PROVE  Spared(ParseFrameClock(frames[i]), goal) /\ NotBeyond(ParseFrameClock(frames[i]), goal)
    <3> DEFINE r == ParseFrameClock(frames[i])
    <3>1. i \in DOMAIN frames /\ frames[i].kind # "none"
      BY DEF Legible
    <3>2. r.ambiguous \/ frames[i] \in Scorebugs(convention, clip)
      BY <3>1, FrameOfClip
    <3>3. CASE r.ambiguous
      BY <3>3 DEF Spared, NotBeyond, SoftKeeps
    <3>4. CASE frames[i] \in Scorebugs(convention, clip)
      <4>1. Told(r, clip, Ordinal) \/ Halted(r, clip) \/ Guessed(r, clip)
        BY <2>1, <3>4, ScorebugReading DEF Ordinal
      <4>2. Ordinal \in Nat
        BY DEF Ordinal
      <4> HIDE DEF r
      <4>3. Spared(r, goal) /\ NotBeyond(r, goal)
        BY <2>1, <4>1, <4>2, RightReadingSpared
      <4> QED
        BY <4>3 DEF r
    <3> QED
      BY <3>2, <3>3, <3>4
  <2>6. Evaluate(frames, goal).outcome # "rejected"
    BY <2>1, <2>2, <2>3, <2>4, <2>5, SparedIsKept
  <2> QED
    BY <2>1, <2>6
<1> QED
  BY <1>1, ClockInvHolds, PTL

\* evaluate.go:144: a clip of another period or another minute never enters the
\* verified pool when its scorebug says which moment it shows.
THEOREM WrongClipNotVerifiedHolds == ClockSpec => []WrongClipNotVerified
<1>1. ClockInv => WrongClipNotVerified
  <2> SUFFICES ASSUME ClockInv, Judged, TellsMoment,
                      \/ clip.period # goal.period
                      \/ Abs(Completed(clip) - Completed(goal)) > Tol + Ordinal
               PROVE  verdict.outcome # "verified"
    BY DEF WrongClipNotVerified
  <2>1. /\ goal \in Moments /\ clip \in Moments /\ convention \in Conventions /\ Distinct(convention, clip)
        /\ verdict = Evaluate(frames, goal)
    BY DEF ClockInv, Judged
  <2>2. ASSUME NEW i \in Legible(frames)
        PROVE  Verifies(ParseFrameClock(frames[i]), goal) = {}
    <3> DEFINE r == ParseFrameClock(frames[i])
    <3>1. i \in DOMAIN frames /\ frames[i].kind # "none"
      BY DEF Legible
    <3>2. r.ambiguous \/ frames[i] \in Scorebugs(convention, clip)
      BY <3>1, FrameOfClip
    <3>3. CASE r.ambiguous
      BY <3>3 DEF Verifies
    <3>4. CASE frames[i] \in Scorebugs(convention, clip)
      <4>1. /\ (convention = "plain" => InStoppage(clip)) /\ (convention = "embedded" => ~ IsExtraTime(clip.period))
            /\ ~ (frames[i].minute = 45 /\ clip.period = "2H")
        BY <3>1, Zenon DEF TellsMoment
      <4>2. Halted(r, clip) \/ (Told(r, clip, Ordinal) /\ (r.pinned \/ r.minute >= 45))
        BY <2>1, <3>4, <4>1, ScorebugReading DEF Ordinal
      <4>3. r.alternatives = {}
        BY <2>1, <3>4, <4>1, ScorebugReading
      <4>4. Ordinal \in Nat
        BY DEF Ordinal
      <4> HIDE DEF r
      <4>5. Verifies(r, goal) = {}
        BY <2>1, <4>2, <4>3, <4>4, WrongReadingVerifiesNone
      <4> QED
        BY <4>5 DEF r
    <3> QED
      BY <3>2, <3>3, <3>4
  <2>3. Evaluate(frames, goal).outcome # "verified"
    BY <2>2, NothingVerified
  <2> QED
    BY <2>1, <2>3
<1> QED
  BY <1>1, ClockInvHolds, PTL

-----------------------------------------------------------------------------
(* SearchScan: the walk. *)

\* The walk as the step of one tweet after another.
IsWalk(g, n) == g = [k \in 0..n |-> IF k = 0 THEN NoScan ELSE VisitTweet(g[k - 1], Reach(k))]

\* A walk of every length exists: a shorter one is extended by a step.
LEMMA WalkExists ==
    ASSUME NEW n \in Nat
    PROVE  \E g : IsWalk(g, n)
<1> DEFINE T == {k \in Nat : ~ \E g : IsWalk(g, k)}
<1>1. ASSUME T # {} PROVE FALSE
  <2>1. PICK k \in T : \A j \in T : ~ (<<j, k>> \in OpToRel(<, Nat))
    BY <1>1, NatLessThanWellFounded, WFMin
  <2>2. CASE k = 0
    <3> DEFINE g == [j \in 0..0 |-> NoScan]
    <3>1. IsWalk(g, 0)
      BY DEF IsWalk
    <3> QED
      BY <2>1, <2>2, <3>1
  <2>3. CASE k # 0
    <3>0. k \in Nat
      BY Zenon
    <3> HIDE DEF T
    <3>1. k - 1 \in Nat /\ k - 1 < k /\ k \in Nat
      BY <3>0, <2>3
    <3> USE DEF T
    <3>2. k - 1 \notin T
      BY <2>1, <3>1 DEF OpToRel
    <3>3. PICK g : IsWalk(g, k - 1)
      BY <3>1, <3>2
    <3> DEFINE h == [j \in 0..k |-> IF j = k THEN VisitTweet(g[k - 1], Reach(k)) ELSE g[j]]
    <3>4. ASSUME NEW j \in 0..k
          PROVE  h[j] = IF j = 0 THEN NoScan ELSE VisitTweet(h[j - 1], Reach(j))
      <4>1. CASE j = k
        <5>1. h[j] = VisitTweet(g[k - 1], Reach(k)) /\ h[k - 1] = g[k - 1]
          BY <3>1, <4>1
        <5> HIDE DEF h
        <5> QED
          BY <2>3, <4>1, <5>1
      <4>2. CASE j # k
        <5>1. j \in 0..(k - 1)
          BY <3>1, <4>2
        <5>2. g[j] = IF j = 0 THEN NoScan ELSE VisitTweet(g[j - 1], Reach(j))
          BY <3>3, <5>1 DEF IsWalk
        <5>3. h[j] = g[j] /\ (j # 0 => h[j - 1] = g[j - 1])
          BY <3>1, <4>2
        <5> HIDE DEF h
        <5> QED
          BY <5>2, <5>3
      <4> QED
        BY <4>1, <4>2
    <3>5. IsWalk(h, k)
      <4>1. h = [j \in 0..k |-> h[j]]
        OBVIOUS
      <4> HIDE DEF h
      <4> QED
        BY <3>4, <4>1 DEF IsWalk
    <3> QED
      BY <2>1, <3>5
  <2> QED
    BY <2>2, <2>3
<1> QED
  BY <1>1

\* What the walk found is what one tweet after another found.
LEMMA WalkStep ==
    ASSUME NEW k \in 0..Shown, Shown \in Nat
    PROVE  Walk[k] = IF k = 0 THEN NoScan ELSE VisitTweet(Walk[k - 1], Reach(k))
<1>1. \E g : IsWalk(g, Shown)
  BY WalkExists
<1>2. Walk = CHOOSE g : IsWalk(g, Shown)
  BY Zenon DEF Walk, IsWalk
<1>3. IsWalk(Walk, Shown)
  BY <1>1, <1>2, Zenon
<1> QED
  BY <1>3, Zenon DEF IsWalk

\* What a walk of k tweets has found: everything it passed is known or new; the
\* age stop stands on a tweet below the floor, the shortcut on a known one.
Passed(found, j) ==
    \A id \in j..Len(feed) : feed[id] \in {"clip", "undated"} => id \in exclude \cup found.videos
Found(found, k) ==
    /\ found \in [videos : SUBSET (1..Len(feed)), run : Nat, stop : {"none", "age", "consecutive_seen"}]
    /\ found.stop = "none" => Passed(found, Len(feed) + 1 - k)
    /\ found.stop = "age" => \E j \in 1..Len(feed) : feed[j] = "old" /\ Passed(found, j + 1)
    /\ found.stop = "consecutive_seen" => allow /\ \E j \in 1..Len(feed) : j \in exclude /\ Passed(found, j)
ScanTyped ==
    /\ feed \in Seq(Kinds) /\ exclude \subseteq 1..Len(feed) /\ stored \subseteq 1..Len(feed)
    /\ allow \in BOOLEAN /\ pc \in {"search", "store", "done"}

\* One tweet more.
LEMMA VisitKeepsFound ==
    ASSUME ScanTyped, Shown \in Nat, Shown <= Len(feed), NEW k \in 1..Shown, NEW found, Found(found, k - 1)
    PROVE  Found(VisitTweet(found, Reach(k)), k)
<1> DEFINE n == Len(feed)
           id == n + 1 - k
           kind == feed[id]
           next == VisitTweet(found, Reach(k))
<1>1. n \in Nat /\ k \in Nat /\ id \in 1..n /\ Reach(k) = id /\ n + 1 - (k - 1) = id + 1
  BY LenProperties DEF ScanTyped, Reach
<1>2. kind \in Kinds
  BY <1>1, ElementOfSeq DEF ScanTyped
<1>3. Passed(found, id + 1) /\ (kind \in {"clip", "undated"} => id \in exclude \cup found.videos) => Passed(found, id)
  BY <1>1 DEF Passed
<1> HIDE DEF kind, next
<1>4. CASE found.stop # "none"
  <2>1. next = found
    BY <1>4 DEF VisitTweet, next
  <2> QED
    BY <1>4, <2>1 DEF Found, next
<1>5. CASE found.stop = "none"
  <2>1. Passed(found, id + 1)
    BY <1>1, <1>5 DEF Found
  <2>2. CASE kind = "old"
    <3>1. next = [found EXCEPT !.stop = "age"]
      BY <1>1, <1>5, <2>2 DEF VisitTweet, shouldStopAtTime, next, kind
    <3>2. next.videos = found.videos /\ next.stop = "age" /\ next.run = found.run
          /\ next \in [videos : SUBSET (1..n), run : Nat, stop : {"none", "age", "consecutive_seen"}]
      BY <3>1 DEF Found
    <3>3. Passed(next, id + 1)
      BY <2>1, <3>2 DEF Passed
    <3> QED
      BY <1>1, <2>2, <3>2, <3>3 DEF Found, next, kind
  <2>3. CASE kind \in {"ad", "text"}
    <3>1. next = found
      BY <1>1, <1>5, <2>3 DEF VisitTweet, shouldStopAtTime, next, kind
    <3>2. Passed(found, id)
      BY <1>3, <2>1, <2>3
    <3> QED
      BY <1>5, <3>1, <3>2 DEF Found, next
  <2>4. CASE kind \notin {"old", "ad", "text"} /\ id \in exclude
    <3> DEFINE length == IF found.run < SeenStop THEN found.run + 1 ELSE found.run
               stop == IF found.run + 1 >= SeenStop /\ allow THEN "consecutive_seen" ELSE found.stop
    <3>1. next = [found EXCEPT !.run = length, !.stop = stop]
      BY <1>1, <1>5, <2>4 DEF VisitTweet, shouldStopAtTime, next, kind
    <3>2. length \in Nat /\ stop \in {"none", "consecutive_seen"} /\ (stop = "consecutive_seen" => allow)
      BY <1>5 DEF Found
    <3> HIDE DEF length, stop
    <3>3. next.videos = found.videos /\ next.stop = stop
          /\ next \in [videos : SUBSET (1..n), run : Nat, stop : {"none", "age", "consecutive_seen"}]
      BY <3>1, <3>2 DEF Found
    <3>4. Passed(next, id)
      BY <1>3, <2>1, <2>4, <3>3 DEF Passed
    <3> QED
      BY <1>1, <2>4, <3>2, <3>3, <3>4 DEF Found, next
  <2>5. CASE kind \notin {"old", "ad", "text"} /\ id \notin exclude
    <3>1. next = [found EXCEPT !.run = 0, !.videos = found.videos \cup {id}]
      BY <1>1, <1>5, <2>5 DEF VisitTweet, shouldStopAtTime, next, kind
    <3>2. next.videos = found.videos \cup {id} /\ next.stop = "none"
          /\ next \in [videos : SUBSET (1..n), run : Nat, stop : {"none", "age", "consecutive_seen"}]
      BY <1>1, <1>5, <3>1 DEF Found
    <3>3. Passed(next, id)
      <4>1. \A i \in id..n : i = id \/ i \in (id + 1)..n
        BY <1>1
      <4>2. \A i \in (id + 1)..n : feed[i] \in {"clip", "undated"} => i \in exclude \cup next.videos
        BY <2>1, <3>2 DEF Passed
      <4>3. id \in next.videos
        BY <3>2
      <4> HIDE DEF id, n
      <4>4. \A i \in id..n : feed[i] \in {"clip", "undated"} => i \in exclude \cup next.videos
        BY <4>1, <4>2, <4>3
      <4> QED
        BY <4>4 DEF Passed, n
    <3> QED
      BY <1>1, <3>2, <3>3 DEF Found, next
  <2> QED
    BY <2>2, <2>3, <2>4, <2>5
<1> QED
  BY <1>4, <1>5

\* The whole walk.
LEMMA WalkFinds ==
    ASSUME ScanTyped
    PROVE  Shown \in 0..Len(feed) /\ Found(Walk[Shown], Shown)
<1>1. Shown \in Nat /\ Shown <= Len(feed)
  <2>1. Len(feed) \in Nat
    BY LenProperties DEF ScanTyped
  <2>2. Screen * MaxScrolls \in Nat
    BY ScanConstants
  <2> QED
    BY <2>1, <2>2 DEF Shown
<1>2. Found(NoScan, 0)
  BY LenProperties DEF Found, NoScan, Passed, ScanTyped
<1> DEFINE T == {k \in 0..Shown : ~ Found(Walk[k], k)}
<1>3. ASSUME T # {} PROVE FALSE
  <2>1. PICK k \in T : \A j \in T : ~ (<<j, k>> \in OpToRel(<, Nat))
    <3>1. T \subseteq Nat
      BY <1>1
    <3> HIDE DEF T
    <3> QED
      BY <1>3, <3>1, NatLessThanWellFounded, WFMin
  <2>2. k \in 0..Shown /\ ~ Found(Walk[k], k)
    OBVIOUS
  <2>3. k # 0
    BY <1>1, <1>2, <2>2, WalkStep
  <2>4. k \in 1..Shown /\ k - 1 \in 0..Shown /\ k - 1 < k /\ k \in Nat /\ k - 1 \in Nat
    BY <1>1, <2>2, <2>3
  <2>5. Found(Walk[k - 1], k - 1)
    BY <2>1, <2>4 DEF OpToRel
  <2>6. Walk[k] = VisitTweet(Walk[k - 1], Reach(k))
    BY <1>1, <2>2, <2>3, WalkStep
  <2> QED
    BY <1>1, <2>2, <2>4, <2>5, <2>6, VisitKeepsFound
<1>4. Shown \in 0..Shown
  BY <1>1
<1> QED
  BY <1>1, <1>3, <1>4

\* What a scan answers: the clips it found are tweets of the feed; where it stood
\* on the floor or on a known tweet, everything newer is known or among them.
LEMMA ScanAnswers ==
    ASSUME ScanTyped
    PROVE  LET answer == scrollAndExtract IN
           /\ answer.videos \subseteq 1..Len(feed)
           /\ answer.stop = "age" => \E j \in 1..Len(feed) : feed[j] = "old" /\ Passed(answer, j + 1)
           /\ answer.stop = "consecutive_seen" => allow /\ \E j \in exclude : Passed(answer, j)
<1> DEFINE w == Walk[Shown]
           last == IF Len(feed) <= Screen * (MaxScrolls - 1) THEN "feed_exhausted" ELSE "max_scrolls"
<1>1. Found(w, Shown)
  BY WalkFinds
<1>2. scrollAndExtract = IF w.stop # "none" THEN w ELSE [w EXCEPT !.stop = last]
  BY DEF scrollAndExtract
<1>3. last \notin {"age", "consecutive_seen"}
  OBVIOUS
<1> HIDE DEF w, last
<1>4. CASE w.stop # "none"
  BY <1>1, <1>2, <1>4 DEF Found
<1>5. CASE w.stop = "none"
  <2>1. scrollAndExtract.videos = w.videos /\ scrollAndExtract.stop = last
    BY <1>1, <1>2, <1>5 DEF Found
  <2> QED
    BY <1>1, <1>3, <2>1 DEF Found
<1> QED
  BY <1>4, <1>5

-----------------------------------------------------------------------------
(* SearchScan: the invariant. *)

\* The clips of the window up to tweet n that no scan may miss.
Due(n) == {id \in EligibleClips \cap AboveFloor : id <= n}
\* With the permission every due clip up to some tweet is known, and nothing newer.
Covered == \E n \in 0..Len(feed) : exclude \subseteq 1..n /\ Due(n) \subseteq exclude
ScanInv ==
    /\ ScanTyped
    /\ scan.videos \subseteq 1..Len(feed)
    /\ pc \in {"search", "done"} => exclude \subseteq stored
    /\ pc = "store" => exclude \subseteq stored \cup scan.videos
    /\ allow => Covered

\* A scan that stood on the floor or on a known tweet of a covered feed missed no
\* due clip.
LEMMA StoppedScanCovers ==
    ASSUME ScanInv, NEW answer, answer = scrollAndExtract,
           answer.stop = "age" \/ answer.stop = "consecutive_seen"
    PROVE  EligibleClips \cap AboveFloor \subseteq exclude \cup answer.videos
<1>1. ScanTyped /\ DOMAIN feed = 1..Len(feed) /\ Len(feed) \in Nat
  BY LenProperties DEF ScanInv, ScanTyped
<1> SUFFICES ASSUME NEW id \in EligibleClips \cap AboveFloor
             PROVE  id \in exclude \cup answer.videos
  OBVIOUS
<1>2. id \in 1..Len(feed) /\ feed[id] \in {"clip", "undated"} /\ \A old \in id..Len(feed) : feed[old] # "old"
  BY <1>1 DEF EligibleClips, AboveFloor
<1>3. CASE answer.stop = "age"
  <2>1. PICK j \in 1..Len(feed) : feed[j] = "old" /\ Passed(answer, j + 1)
    BY <1>1, <1>3, ScanAnswers
  <2>2. ~ (j \in id..Len(feed))
    BY <1>2, <2>1
  <2>3. id \in (j + 1)..Len(feed)
    BY <1>1, <1>2, <2>1, <2>2
  <2> QED
    BY <1>2, <2>1, <2>3 DEF Passed
<1>4. CASE answer.stop = "consecutive_seen"
  <2>1. PICK j \in exclude : Passed(answer, j)
    BY <1>1, <1>4, ScanAnswers
  <2>2. allow
    BY <1>1, <1>4, ScanAnswers
  <2>3. PICK n \in 0..Len(feed) : exclude \subseteq 1..n /\ Due(n) \subseteq exclude
    BY <2>2 DEF ScanInv, Covered
  <2>4. j \in 1..n /\ n \in Nat
    BY <2>3, <1>1
  <2>5. CASE id <= n
    BY <2>3, <2>5 DEF Due
  <2>6. CASE ~ (id <= n)
    <3>1. id \in j..Len(feed)
      BY <1>1, <1>2, <2>4, <2>6
    <3> QED
      BY <1>2, <2>1, <3>1 DEF Passed
  <2> QED
    BY <2>5, <2>6
<1> QED
  BY <1>3, <1>4

\* A tweet published later is due at most itself.
LEMMA PublishKeepsCovered ==
    ASSUME ScanInv, Publish
    PROVE  ScanInv'
<1>1. PICK kind \in Kinds \ {"old"} : feed' = Append(feed, kind)
  BY DEF Publish
<1>2. UNCHANGED <<stored, allow, exclude, pc, scan>>
  BY DEF Publish
<1> DEFINE n == Len(feed)
<1>3. feed \in Seq(Kinds) /\ n \in Nat
  BY LenProperties DEF ScanInv, ScanTyped
<1>4. feed' \in Seq(Kinds) /\ Len(feed') = n + 1 /\ \A i \in 1..n : feed'[i] = feed[i]
  BY <1>1, <1>3, AppendProperties
<1>5. DOMAIN feed = 1..n /\ DOMAIN feed' = 1..(n + 1)
  BY <1>3, <1>4, LenProperties
<1>6. ScanTyped'
  BY <1>2, <1>3, <1>4 DEF ScanInv, ScanTyped
<1>7. Covered => Covered'
  <2> SUFFICES ASSUME NEW l \in 0..n, exclude \subseteq 1..l, Due(l) \subseteq exclude
               PROVE  Covered'
    BY DEF Covered
  <2>1. l \in 0..(n + 1)
    BY <1>3
  <2>2. ASSUME NEW id \in Due(l)' PROVE id \in Due(l)
    <3>1. /\ id \in 1..(n + 1) /\ id <= l /\ feed'[id] \in {"clip", "undated"}
          /\ \A old \in id..(n + 1) : feed'[old] # "old"
      BY <1>4, <1>5, <2>2 DEF Due, EligibleClips, AboveFloor
    <3>2. id \in 1..n
      BY <1>3, <3>1
    <3>3. \A old \in id..n : feed[old] # "old"
      BY <1>3, <1>4, <3>1, <3>2
    <3> QED
      BY <1>4, <1>5, <3>1, <3>2, <3>3 DEF Due, EligibleClips, AboveFloor
  <2> QED
    BY <1>2, <1>4, <2>1, <2>2 DEF Covered
<1>8. scan'.videos \subseteq 1..Len(feed')
  BY <1>2, <1>3, <1>4 DEF ScanInv
<1> QED
  BY <1>2, <1>6, <1>7, <1>8 DEF ScanInv

\* A scan that keeps or earns the permission has covered the feed.
LEMMA SearchKeepsCovered ==
    ASSUME ScanInv, SearchRendered
    PROVE  ScanInv'
<1> DEFINE answer == scrollAndExtract
           n == Len(feed)
<1>1. /\ scan' = answer /\ allow' = WindowAfter(allow, answer.stop) /\ exclude' = exclude \cup answer.videos
      /\ pc = "search" /\ pc' = "store" /\ UNCHANGED <<feed, stored>>
  BY DEF SearchRendered
<1>2. ScanTyped /\ n \in Nat /\ DOMAIN feed = 1..n
  BY LenProperties DEF ScanInv, ScanTyped
<1>3. answer.videos \subseteq 1..n
  BY <1>2, ScanAnswers
<1>4. allow' => answer.stop = "age" \/ answer.stop = "consecutive_seen"
  BY <1>1 DEF WindowAfter
<1>5. allow' \in BOOLEAN
  BY <1>1, <1>2 DEF WindowAfter, ScanTyped
<1>6. allow' => Covered'
  <2> SUFFICES ASSUME allow' PROVE Covered'
    OBVIOUS
  <2>1. EligibleClips \cap AboveFloor \subseteq exclude \cup answer.videos
    BY <1>4, StoppedScanCovers
  <2>2. EligibleClips' = EligibleClips /\ AboveFloor' = AboveFloor /\ n' = n
    BY <1>1 DEF EligibleClips, AboveFloor
  <2>3. Due(n)' \subseteq exclude'
    BY <1>1, <2>1, <2>2 DEF Due
  <2>4. exclude' \subseteq 1..n'
    BY <1>1, <1>2, <1>3 DEF ScanTyped
  <2>5. n' \in 0..n'
    BY <1>1, <1>2
  <2> HIDE DEF n
  <2>6. n' = Len(feed)' /\ Due(n') = {id \in (EligibleClips \cap AboveFloor) : id <= n'}
    BY DEF n, Due
  <2>7. \E l \in 0..Len(feed)' : exclude' \subseteq 1..l /\ Due(l)' \subseteq exclude'
    BY <2>2, <2>3, <2>4, <2>5, <2>6 DEF Due
  <2> QED
    BY <2>7 DEF Covered
<1>7. ScanTyped'
  BY <1>1, <1>2, <1>3, <1>5 DEF ScanTyped
<1> HIDE DEF answer
<1>8. exclude' \subseteq stored' \cup scan'.videos
  BY <1>1 DEF ScanInv
<1> QED
  BY <1>1, <1>3, <1>6, <1>7, <1>8 DEF ScanInv

\* The permission stands only over a covered feed, and a search starts from stored
\* candidates.
LEMMA ScanInvHolds == ScanSpec => []ScanInv
<1>1. ScanInit => ScanInv
  <2> SUFFICES ASSUME ScanInit PROVE ScanInv
    OBVIOUS
  <2>1. feed \in Seq(Kinds)
    BY ScanConstants DEF ScanInit
  <2> QED
    BY <2>1 DEF ScanInit, ScanInv, ScanTyped, NoScan
<1>2. ScanInv /\ [ScanNext]_scanVars => ScanInv'
  <2> SUFFICES ASSUME ScanInv, [ScanNext]_scanVars
               PROVE  ScanInv'
    OBVIOUS
  <2>1. ASSUME UNCHANGED <<feed, exclude>>, allow' => allow
        PROVE  allow' => Covered'
    BY <2>1 DEF ScanInv, Covered, Due, EligibleClips, AboveFloor
  <2>2. CASE Publish
    BY <2>2, PublishKeepsCovered
  <2>3. CASE SearchRendered
    BY <2>3, SearchKeepsCovered
  <2>4. CASE SearchEmpty
    <3>1. ~ allow' /\ allow' \in BOOLEAN
      BY <2>4 DEF SearchEmpty, WindowAfter
    <3> QED
      BY <2>4, <3>1 DEF SearchEmpty, ScanInv, ScanTyped
  <2>5. CASE SearchUnavailable
    <3>1. ~ allow' /\ allow' \in BOOLEAN
      BY <2>5 DEF SearchUnavailable, WindowAfter
    <3> QED
      BY <2>5, <3>1 DEF SearchUnavailable, ScanInv, ScanTyped
  <2>6. CASE StoreCandidate
    BY <2>1, <2>6 DEF StoreCandidate, ScanInv, ScanTyped
  <2>7. CASE RecordDiscoveryProgress
    BY <2>1, <2>7 DEF RecordDiscoveryProgress, ScanInv, ScanTyped, NoScan
  <2>8. CASE Recover
    BY <2>8 DEF Recover, ScanInv, ScanTyped, NoScan
  <2>9. CASE UNCHANGED scanVars
    BY <2>1, <2>9 DEF scanVars, ScanInv, ScanTyped
  <2> QED
    BY <2>2, <2>3, <2>4, <2>5, <2>6, <2>7, <2>8, <2>9 DEF ScanNext
<1> QED
  BY <1>1, <1>2, PTL DEF ScanSpec

\* A scan that stops early on known tweets loses no clip of the window that was in
\* the feed: it is stored or in the answer, whatever earlier scans were cut short,
\* unavailable or lost with their run (search_scroll.go scrollAndExtract, window.go
\* SearchWindow.After, search_window.go loadSearchWindow).
THEOREM ShortcutLosesNothingHolds == ScanSpec => ShortcutLosesNothing
<1>1. ScanInv /\ [ScanNext]_scanVars =>
        [SearchRendered /\ scan'.stop = "consecutive_seen"
           => (EligibleClips \cap AboveFloor) \subseteq (stored \cup scan'.videos)]_scanVars
  <2> SUFFICES ASSUME ScanInv, SearchRendered, scan'.stop = "consecutive_seen"
               PROVE  EligibleClips \cap AboveFloor \subseteq stored \cup scan'.videos
    OBVIOUS
  <2>1. scan' = scrollAndExtract /\ exclude \subseteq stored
    BY DEF SearchRendered, ScanInv
  <2>2. EligibleClips \cap AboveFloor \subseteq exclude \cup scan'.videos
    BY <2>1, StoppedScanCovers
  <2> QED
    BY <2>1, <2>2
<1> QED
  BY <1>1, ScanInvHolds, PTL DEF ScanSpec, ShortcutLosesNothing
=============================================================================
