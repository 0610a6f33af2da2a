--------------------------- MODULE ProvisioningProofs ---------------------------
(* Proofs about Provisioning, for any instances, options and slugs.  What is *)
(* committed only grows; what a session or the script relies on is therefore *)
(* true when it has looked and stays so.                                     *)
EXTENDS Provisioning, TLAPS

Migrating == {"lookup", "insert", "migrated"}
Seeding == {"catalog", "new catalog", "collection", "new collection", "commit"}
AfterExtensions == {"migrate", "migrating", "vectors", "seed", "seeding", "verify"}

Revisions == {0, 11, Head}
Sessions ==
  [pc : SessionSteps, cat : BOOLEAN, coll : {"", jobSlug, ServiceSlug}, retried : BOOLEAN,
   since : Revisions]
Commands == [dry : BOOLEAN, skipMigrate : BOOLEAN, skipSeed : BOOLEAN, reset : BOOLEAN]
Bases == [owner : {"none", "app", "other"}, hardened : BOOLEAN, ext : BOOLEAN, rev : Revisions]
Scripts == [pc : ScriptSteps, opt : Commands, dbExisted : BOOLEAN, exit : {-1, 0, 1, 3}]

(* TypeOK, with the shape of the records. *)
Types ==
  /\ role \in {"none", "old", "configured"} /\ member \in BOOLEAN
  /\ base \in Bases
  /\ catalog \in BOOLEAN /\ colls \subseteq Slugs \cup {ServiceSlug}
  /\ script \in Scripts
  /\ session \in [Processes -> Sessions]
  /\ jobSlug \in Slugs

(* Rows and revision. *)
RowsSound ==
  /\ colls # {} => catalog
  /\ catalog => base.rev # 0
  /\ base.rev = Head => catalog /\ jobSlug \in colls

(* A session past a look-up has the row it asked about, or will commit it. *)
SessionSound(p) ==
  /\ session[p].pc \in Seeding \ {"catalog"} => base.rev # 0
  /\ session[p].pc \in {"collection", "new collection", "commit", "insert", "migrated"} =>
       session[p].cat \/ catalog
  /\ session[p].pc = "commit" => session[p].coll = ServiceSlug \/ ServiceSlug \in colls
  /\ session[p].pc \in {"insert", "migrated"} => session[p].coll = jobSlug \/ jobSlug \in colls
  /\ session[p].pc \in Migrating => base.owner = "app"
  /\ session[p].retried => ServiceSlug \in colls

InstanceSound(i) ==
  /\ session[i].pc \notin Migrating
  /\ session[i].pc = "kept" => ServiceSlug \in colls
  /\ session[i].since = Head => base.rev = Head /\ session[i].pc \notin {"new catalog", "failed"}

(* The script's session goes with its step. *)
ScriptSession ==
  /\ script.pc \notin {"migrating", "seeding"} => session["script"] = NoSession
  /\ script.pc = "migrating" => session["script"].pc \in Migrating \cup {"kept", "failed"}
  /\ script.pc = "seeding" => session["script"].pc \in Seeding \cup {"kept", "failed"}
  /\ script.pc = "seeding" /\ session["script"].pc = "kept" => ServiceSlug \in colls
  /\ session["job"].pc \notin Seeding

(* What the steps so far have made is there. *)
ScriptSound ==
  /\ script.pc \in {"harden", "extensions"} /\ Live => base.owner = "app"
  /\ script.pc = "extensions" /\ Live => base.hardened
  /\ script.pc \in AfterExtensions => Live /\ base.owner = "app" /\ base.hardened /\ base.ext
  /\ script.pc = "verify" /\ ~script.opt.skipSeed => ServiceSlug \in colls

IInv ==
  /\ Types /\ RowsSound
  /\ \A p \in Processes : SessionSound(p)
  /\ \A i \in Instances : InstanceSound(i)
  /\ ScriptSession /\ ScriptSound /\ ReadyOnZero

(* Nothing that is committed is taken back. *)
Grows ==
  /\ role = "configured" => role' = "configured"
  /\ base.owner = "app" => base'.owner = "app"
  /\ base.hardened => base'.hardened
  /\ base.ext => base'.ext
  /\ base.rev # 0 => base'.rev # 0
  /\ base.rev = Head => base'.rev = Head
  /\ catalog => catalog'
  /\ colls \subseteq colls'
  /\ jobSlug' = jobSlug

Facts == Types /\ Grows /\ Types'

-----------------------------------------------------------------------------

LEMMA Distinct == /\ "script" \in Processes /\ "job" \in Processes
                  /\ "script" \notin Instances /\ "job" \notin Instances
                  /\ Instances \subseteq Processes
  BY InstancesAssumption DEF Processes

LEMMA InitInv == Init => IInv
  <1> SUFFICES ASSUME Init PROVE IInv
    OBVIOUS
  <1>1. Types
    BY DEF Init, Revisions, Head, Types, Bases, Scripts, ScriptSteps, SessionSteps, Sessions,
         Commands, NoSession,
           Unlaunched
  <1>2. RowsSound
    <2>1. base.rev \in {0, 11}
      BY DEF Init
    <2>2. catalog \in IF base.rev = 11 THEN BOOLEAN ELSE {FALSE}
      BY Zenon DEF Init
    <2>3. colls = IF catalog THEN {ServiceSlug} ELSE {}
      BY Zenon DEF Init
    <2>4. colls # {} => catalog
      BY <2>3
    <2>5. catalog => base.rev # 0
      <3>1. base.rev = 0 => base.rev # 11
        OBVIOUS
      <3> QED BY <2>2, <3>1, Zenon
    <2> QED BY <2>1, <2>4, <2>5 DEF RowsSound, Head
  <1>3. \A p \in Processes : session[p] = NoSession
    BY DEF Init
  <1>4. \A p \in Processes : SessionSound(p)
    <2> TAKE p \in Processes
    <2>1. session[p] = NoSession
      BY <1>3
    <2>2. NoSession.pc = "none" /\ NoSession.retried = FALSE
      BY DEF NoSession
    <2> QED BY <2>1, <2>2 DEF SessionSound, Seeding, Migrating
  <1>5. \A i \in Instances : InstanceSound(i)
    <2> TAKE i \in Instances
    <2>1. session[i] = NoSession
      BY <1>3, Distinct
    <2>2. NoSession.pc = "none" /\ NoSession.since = 0
      BY DEF NoSession
    <2> QED BY <2>1, <2>2 DEF InstanceSound, Migrating, Head
  <1>6. session["script"] = NoSession /\ session["job"] = NoSession /\ NoSession.pc = "none"
    <2>1. session["script"] = NoSession /\ session["job"] = NoSession
      BY <1>3, Distinct
    <2>2. NoSession.pc = "none"
      BY DEF NoSession
    <2> QED BY <2>1, <2>2
  <1>7. script.pc = "off" /\ script.exit = -1
    BY DEF Init
  <1>8. ScriptSession /\ ScriptSound /\ ReadyOnZero
    BY <1>6, <1>7 DEF ScriptSession, ScriptSound, ReadyOnZero, AfterExtensions, Seeding
  <1> QED BY <1>1, <1>2, <1>4, <1>5, <1>8 DEF IInv

(* What others do leaves a session's knowledge true. *)
LEMMA SessionStays ==
  ASSUME NEW p \in Processes, Types, Grows, SessionSound(p), session'[p] = session[p]
  PROVE  SessionSound(p)'
  BY DEF SessionSound, Grows, Types

LEMMA InstanceStays ==
  ASSUME NEW i \in Instances, Types, Grows, InstanceSound(i), session'[i] = session[i]
  PROVE  InstanceSound(i)'
  BY DEF InstanceSound, Grows, Types

LEMMA ScriptStays ==
  ASSUME Types, Grows, ScriptSound, ReadyOnZero, script' = script
  PROVE  ScriptSound' /\ ReadyOnZero'
  <1>1. ScriptSound'
    BY DEF ScriptSound, Grows, Types, Live
  <1>2. ReadyOnZero'
    BY DEF ReadyOnZero, Ready, Grows, Types, Live, ScriptAt
  <1> QED BY <1>1, <1>2

-----------------------------------------------------------------------------
(* Types, and that what is committed grows, action by action.              *)

LEMMA RecordTypes ==
  ASSUME Types
  PROVE  /\ base.owner \in {"none", "app", "other"} /\ base.rev \in Revisions
         /\ base.hardened \in BOOLEAN /\ base.ext \in BOOLEAN
         /\ script.opt \in Commands /\ script.pc \in ScriptSteps
         /\ script.dbExisted \in BOOLEAN
  BY DEF Types, Bases, Scripts

LEMMA NextGrows == IInv /\ [Next]_vars => Grows
  <1> SUFFICES ASSUME IInv, [Next]_vars PROVE Grows
    OBVIOUS
  <1>0. Types /\ RowsSound /\ \A p \in Processes : SessionSound(p)
    BY DEF IInv
  <1> USE <1>0 DEF Types, Bases, Scripts, Grows
  <1>1. CASE UNCHANGED vars
    BY <1>1 DEF vars
  <1>2. CASE \E opt \in Options : Launch(opt)
    BY <1>2 DEF Launch
  <1>3. CASE EnsureRole
    BY <1>3 DEF EnsureRole
  <1>4. CASE EnsureDatabase
    BY <1>4 DEF EnsureDatabase
  <1>5. CASE HardenDatabase
    BY <1>5 DEF HardenDatabase, Live
  <1>6. CASE EnsureExtensions
    BY <1>6 DEF EnsureExtensions, Live
  <1>7. CASE RunMigrations \/ MigrationsReturn \/ CheckHashVectors \/ Seed \/ SeedReturns \/ Verify
    BY <1>7 DEF RunMigrations, MigrationsReturn, CheckHashVectors, Seed, SeedReturns, Verify
  <1>8. CASE CrashScript
    BY <1>8 DEF CrashScript
  <1>9. CASE HandOver
    BY <1>9 DEF HandOver
  <1>10. CASE RunMigrateJob
    BY <1>10 DEF RunMigrateJob, UnchangedButSession
  <1>11. ASSUME NEW i \in Instances, StartInstance(i) \/ SkipBootstrap(i) \/ StopInstance(i)
         PROVE  Grows
    BY <1>11 DEF StartInstance, SkipBootstrap, StopInstance, UnchangedButSession
  <1>12. ASSUME NEW p \in Processes, EnsurePublicCollection(p)
         PROVE  Grows
    <2>1. CASE FindCatalog(p) \/ CreateCatalog(p) \/ FindCollection(p) \/ CreateCollection(p)
      BY <2>1 DEF FindCatalog, CreateCatalog, FindCollection, CreateCollection, UnchangedButSession
    <2>2. CASE CommitCollection(p)
      BY <2>2 DEF CommitCollection
    <2> QED BY <1>12, <2>1, <2>2 DEF EnsurePublicCollection
  <1>13. ASSUME NEW p \in {"script", "job"}, Migrate(p)
         PROVE  Grows
    <2>1. CASE LookUp(p) \/ InsertRows(p)
      BY <2>1 DEF LookUp, InsertRows, UnchangedButSession
    <2>2. CASE CommitMigration(p)
      <3>1. base' = [base EXCEPT !.rev = Head] /\ catalog' = (catalog \/ session[p].cat)
            /\ colls \subseteq colls' /\ role' = role /\ jobSlug' = jobSlug
        BY <2>2 DEF CommitMigration
      <3> QED BY <3>1 DEF Head
    <2> QED BY <1>13, <2>1, <2>2 DEF Migrate
  <1> QED
    BY <1>1, <1>2, <1>3, <1>4, <1>5, <1>6, <1>7, <1>8, <1>9, <1>10, <1>11, <1>12, <1>13
    DEF Next, ScriptStep

-----------------------------------------------------------------------------
(* Preservation.  A step moves at most one session and the script.         *)

LEMMA RowsStay ==
  ASSUME RowsSound, catalog' = catalog, colls' = colls, jobSlug' = jobSlug, base'.rev = base.rev
  PROVE  RowsSound'
  BY DEF RowsSound

LEMMA SessionsMove ==
  ASSUME IInv, Grows, NEW p \in Processes,
         \A q \in Processes \ {p} : session'[q] = session[q],
         SessionSound(p)', p \in Instances => InstanceSound(p)'
  PROVE  /\ \A q \in Processes : SessionSound(q)'
         /\ \A i \in Instances : InstanceSound(i)'
  <1>1. ASSUME NEW q \in Processes PROVE SessionSound(q)'
    <2>1. CASE q = p
      BY <2>1
    <2>2. CASE q # p
      BY <2>2, SessionStays DEF IInv
    <2> QED BY <2>1, <2>2
  <1>2. ASSUME NEW i \in Instances PROVE InstanceSound(i)'
    <2>1. CASE i = p
      BY <2>1
    <2>2. CASE i # p
      BY <2>2, InstanceStays, Distinct DEF IInv
    <2> QED BY <2>1, <2>2
  <1> QED BY <1>1, <1>2

LEMMA SessionsStay ==
  ASSUME IInv, Grows, session' = session
  PROVE  /\ \A q \in Processes : SessionSound(q)'
         /\ \A i \in Instances : InstanceSound(i)'
  BY SessionStays, InstanceStays, Distinct DEF IInv

(* The steps of the script that leave the sessions alone. *)
LEMMA ScriptMoves ==
  ASSUME IInv, Grows, session' = session, catalog' = catalog, colls' = colls,
         base'.rev = base.rev, script.pc \notin {"migrating", "seeding"},
         script'.pc \notin {"migrating", "seeding"},
         Types', ScriptSound', ReadyOnZero'
  PROVE  IInv'
  <1>1. RowsSound'
    BY RowsStay DEF IInv, Grows
  <1>2. (\A q \in Processes : SessionSound(q)') /\ (\A i \in Instances : InstanceSound(i)')
    BY SessionsStay
  <1>3. ScriptSession'
    BY DEF IInv, ScriptSession, NoSession
  <1> QED BY <1>1, <1>2, <1>3 DEF IInv

LEMMA ScriptTypes ==
  ASSUME Types, session' = session, catalog' = catalog, colls' = colls, jobSlug' = jobSlug,
         role' \in {"none", "old", "configured"}, member' \in BOOLEAN,
         base' \in Bases, script' \in Scripts
  PROVE  Types'
  <1>1. Sessions' = Sessions
    BY DEF Sessions
  <1> QED BY <1>1 DEF Types

LEMMA LaunchKeeps == IInv /\ Grows /\ (\E opt \in Options : Launch(opt)) => IInv'
  <1> SUFFICES ASSUME IInv, Grows, NEW opt \in Options, Launch(opt) PROVE IInv'
    OBVIOUS
  <1>0. Types /\ opt \in Commands
    BY OptionsAssumption DEF IInv, Commands
  <1>1. /\ script' = [pc |-> "role", opt |-> opt, dbExisted |-> FALSE, exit |-> -1]
        /\ script.pc = "off"
    BY DEF Launch, ScriptAt
  <1>2. UNCHANGED <<role, member, base, catalog, colls, session, jobSlug>>
    BY DEF Launch
  <1>3. Types'
    <2>1. base' \in Bases /\ script' \in Scripts
      BY <1>0, <1>1, <1>2 DEF Types, Bases, Scripts, ScriptSteps
    <2> QED BY <1>0, <1>1, <1>2, <2>1, ScriptTypes DEF Types
  <1>4. script'.pc = "role"
    BY <1>1
  <1>5. ScriptSound' /\ ReadyOnZero'
    BY <1>4 DEF ScriptSound, ReadyOnZero, ScriptAt, AfterExtensions
  <1> QED BY <1>1, <1>2, <1>3, <1>4, <1>5, ScriptMoves

LEMMA EnsureRoleKeeps == IInv /\ Grows /\ EnsureRole => IInv'
  <1> SUFFICES ASSUME IInv, Grows, EnsureRole PROVE IInv'
    OBVIOUS
  <1>0. Types
    BY DEF IInv
  <1>1. script' = [script EXCEPT !.pc = "database"] /\ script.pc = "role"
    BY DEF EnsureRole, ScriptTo, ScriptAt
  <1>2. /\ UNCHANGED <<member, base, catalog, colls, session, jobSlug>>
        /\ role' \in {role, "configured"}
    BY DEF EnsureRole
  <1>3. Types'
    <2>1. base' \in Bases /\ script' \in Scripts
      BY <1>0, <1>1, <1>2 DEF Types, Bases, Scripts, ScriptSteps
    <2> QED BY <1>0, <1>1, <1>2, <2>1, ScriptTypes DEF Types
  <1>4. script'.pc = "database"
    BY <1>0, <1>1 DEF Types, Bases, Scripts
  <1>5. ScriptSound' /\ ReadyOnZero'
    BY <1>4 DEF ScriptSound, ReadyOnZero, ScriptAt, AfterExtensions
  <1> QED BY <1>1, <1>2, <1>3, <1>4, <1>5, ScriptMoves

LEMMA EnsureDatabaseKeeps == IInv /\ Grows /\ EnsureDatabase => IInv'
  <1> SUFFICES ASSUME IInv, Grows, EnsureDatabase PROVE IInv'
    OBVIOUS
  <1>0. Types
    BY DEF IInv
  <1>1. /\ script.pc = "database" /\ UNCHANGED <<role, catalog, colls, session, jobSlug>>
        /\ member' = (member \/ Live)
        /\ base' = IF Live /\ base.owner = "none" THEN [base EXCEPT !.owner = "app"] ELSE base
    BY DEF EnsureDatabase, ScriptAt
  <1>2. base' = [base EXCEPT !.owner = "app"] \/ base' = base
    BY <1>1
  <1>3. CASE base.owner = "other"
    <2>1. script' = [script EXCEPT !.pc = "off", !.exit = 1]
      BY <1>3 DEF EnsureDatabase, Exit
    <2>2. Types'
      <3>1. base' \in Bases /\ script' \in Scripts
        BY <1>0, <1>1, <1>2, <2>1 DEF Types, Bases, Scripts, ScriptSteps
      <3> QED BY <1>0, <1>1, <1>2, <3>1, ScriptTypes DEF Types
    <2>3. script'.pc = "off" /\ script'.exit = 1
      BY <1>0, <2>1 DEF Types, Bases, Scripts
    <2>4. ScriptSound' /\ ReadyOnZero'
      BY <2>3 DEF ScriptSound, ReadyOnZero, ScriptAt, AfterExtensions
    <2>5. base'.rev = base.rev
      BY <1>0, <1>2 DEF Types, Bases, Scripts
    <2> QED BY <1>1, <2>2, <2>3, <2>4, <2>5, ScriptMoves
  <1>4. CASE base.owner # "other"
    <2>1. script' = [script EXCEPT !.pc = "harden", !.dbExisted = (base.owner = "app")]
      BY <1>4 DEF EnsureDatabase
    <2>2. Types'
      <3>1. base' \in Bases /\ script' \in Scripts
        BY <1>0, <1>1, <1>2, <2>1 DEF Types, Bases, Scripts, ScriptSteps
      <3> QED BY <1>0, <1>1, <1>2, <3>1, ScriptTypes DEF Types
    <2>3. script'.pc = "harden" /\ script'.opt = script.opt
      BY <1>0, <2>1 DEF Types, Bases, Scripts
    <2>4. Live' => base'.owner = "app"
      <3>1. Live' => Live
        BY <2>3 DEF Live
      <3>2. base.owner \in {"none", "app"}
        BY <1>0, <1>4, RecordTypes
      <3>3. CASE Live /\ base.owner = "none"
        BY <1>0, <1>1, <3>3 DEF Types, Bases, Scripts
      <3>4. CASE ~Live
        BY <3>1, <3>4
      <3>5. CASE Live /\ base.owner = "app"
        BY <1>1, <3>5
      <3> QED BY <3>2, <3>3, <3>4, <3>5
    <2>5. ScriptSound' /\ ReadyOnZero'
      BY <2>3, <2>4 DEF ScriptSound, ReadyOnZero, ScriptAt, AfterExtensions
    <2>6. base'.rev = base.rev
      BY <1>0, <1>2 DEF Types, Bases, Scripts
    <2> QED BY <1>1, <2>2, <2>3, <2>5, <2>6, ScriptMoves
  <1> QED BY <1>3, <1>4

LEMMA HardenDatabaseKeeps == IInv /\ Grows /\ HardenDatabase => IInv'
  <1> SUFFICES ASSUME IInv, Grows, HardenDatabase PROVE IInv'
    OBVIOUS
  <1>0. Types /\ ScriptSound
    BY DEF IInv
  <1>1. /\ script.pc = "harden" /\ UNCHANGED <<role, member, catalog, colls, session, jobSlug>>
        /\ base' = [base EXCEPT !.hardened = base.hardened \/ Live]
    BY DEF HardenDatabase, ScriptAt
  <1>2. base' = [base EXCEPT !.hardened = TRUE] \/ base' = base
    <2>1. CASE base.hardened = TRUE \/ Live
      <3>1. (base.hardened \/ Live) = TRUE
        BY <2>1
      <3> QED BY <1>1, <3>1
    <2>2. CASE ~(base.hardened = TRUE \/ Live)
      <3>1. base.hardened = FALSE
        BY <1>0, <2>2, RecordTypes
      <3>2. (base.hardened \/ Live) = FALSE
        BY <2>2, <3>1
      <3>3. base' = [base EXCEPT !.hardened = FALSE]
        BY <1>1, <3>2
      <3> QED BY <1>0, <3>1, <3>3 DEF Types, Bases, Scripts
    <2> QED BY <2>1, <2>2
  <1>3. base'.rev = base.rev /\ base'.owner = base.owner
    BY <1>0, <1>2 DEF Types, Bases, Scripts
  <1>4. Live => base'.hardened
    <2> SUFFICES ASSUME Live PROVE base'.hardened
      OBVIOUS
    <2>1. (base.hardened \/ Live) = TRUE
      OBVIOUS
    <2>2. base' = [base EXCEPT !.hardened = TRUE]
      BY <1>1, <2>1
    <2> QED BY <1>0, <2>2 DEF Types, Bases, Scripts
  <1>5. CASE Live \/ script.dbExisted
    <2>1. script' = [script EXCEPT !.pc = "extensions"]
      BY <1>5, Zenon DEF HardenDatabase, ScriptTo
    <2>2. Types'
      <3>1. base' \in Bases /\ script' \in Scripts
        BY <1>0, <1>1, <1>2, <2>1 DEF Types, Bases, Scripts, ScriptSteps
      <3> QED BY <1>0, <1>1, <1>2, <3>1, ScriptTypes DEF Types
    <2>3. script'.pc = "extensions" /\ script'.opt = script.opt
      BY <1>0, <2>1 DEF Types, Bases, Scripts
    <2>4. Live' => Live
      BY <2>3 DEF Live
    <2>5. Live' => base'.owner = "app" /\ base'.hardened
      BY <1>0, <1>1, <1>3, <1>4, <2>4 DEF ScriptSound
    <2>6. ScriptSound' /\ ReadyOnZero'
      BY <2>3, <2>5 DEF ScriptSound, ReadyOnZero, ScriptAt, AfterExtensions
    <2> QED BY <1>1, <1>3, <2>2, <2>3, <2>6, ScriptMoves
  <1>6. CASE ~(Live \/ script.dbExisted)
    <2>1. script' = [script EXCEPT !.pc = "off", !.exit = 0]
      BY <1>6, Zenon DEF HardenDatabase, Exit
    <2>2. Types'
      <3>1. base' \in Bases /\ script' \in Scripts
        BY <1>0, <1>1, <1>2, <2>1 DEF Types, Bases, Scripts, ScriptSteps
      <3> QED BY <1>0, <1>1, <1>2, <3>1, ScriptTypes DEF Types
    <2>3. script'.pc = "off" /\ script'.opt = script.opt
      BY <1>0, <2>1 DEF Types, Bases, Scripts
    <2>4. ~Live'
      BY <1>6, <2>3 DEF Live
    <2>5. ScriptSound' /\ ReadyOnZero'
      BY <2>3, <2>4 DEF ScriptSound, ReadyOnZero, ScriptAt, AfterExtensions
    <2> QED BY <1>1, <1>3, <2>2, <2>3, <2>5, ScriptMoves
  <1> QED BY <1>5, <1>6

LEMMA EnsureExtensionsKeeps == IInv /\ Grows /\ EnsureExtensions => IInv'
  <1> SUFFICES ASSUME IInv, Grows, EnsureExtensions PROVE IInv'
    OBVIOUS
  <1>0. Types /\ ScriptSound
    BY DEF IInv
  <1>1. /\ script.pc = "extensions" /\ UNCHANGED <<role, member, catalog, colls, session, jobSlug>>
        /\ base' = [base EXCEPT !.ext = base.ext \/ Live]
    BY DEF EnsureExtensions, ScriptAt
  <1>2. base' = [base EXCEPT !.ext = TRUE] \/ base' = base
    <2>1. CASE base.ext = TRUE \/ Live
      <3>1. (base.ext \/ Live) = TRUE
        BY <2>1
      <3> QED BY <1>1, <3>1
    <2>2. CASE ~(base.ext = TRUE \/ Live)
      <3>1. base.ext = FALSE
        BY <1>0, <2>2, RecordTypes
      <3>2. (base.ext \/ Live) = FALSE
        BY <2>2, <3>1
      <3>3. base' = [base EXCEPT !.ext = FALSE]
        BY <1>1, <3>2
      <3> QED BY <1>0, <3>1, <3>3 DEF Types, Bases, Scripts
    <2> QED BY <2>1, <2>2
  <1>3. base'.rev = base.rev /\ base'.owner = base.owner /\ base'.hardened = base.hardened
    BY <1>0, <1>2 DEF Types, Bases, Scripts
  <1>4. Live => base'.ext
    <2> SUFFICES ASSUME Live PROVE base'.ext
      OBVIOUS
    <2>1. (base.ext \/ Live) = TRUE
      OBVIOUS
    <2>2. base' = [base EXCEPT !.ext = TRUE]
      BY <1>1, <2>1
    <2> QED BY <1>0, <2>2 DEF Types, Bases, Scripts
  <1>5. CASE Live
    <2>1. script' = [script EXCEPT !.pc = "migrate"]
      BY <1>5, Zenon DEF EnsureExtensions, ScriptTo
    <2>2. Types'
      <3>1. base' \in Bases /\ script' \in Scripts
        BY <1>0, <1>1, <1>2, <2>1 DEF Types, Bases, Scripts, ScriptSteps
      <3> QED BY <1>0, <1>1, <1>2, <3>1, ScriptTypes DEF Types
    <2>3. script'.pc = "migrate" /\ script'.opt = script.opt
      BY <1>0, <2>1 DEF Types, Bases, Scripts
    <2>4. Live'
      BY <1>5, <2>3 DEF Live
    <2>5. base'.owner = "app" /\ base'.hardened /\ base'.ext
      BY <1>0, <1>1, <1>3, <1>4, <1>5 DEF ScriptSound
    <2>6. ScriptSound' /\ ReadyOnZero'
      BY <2>3, <2>4, <2>5 DEF ScriptSound, ReadyOnZero, ScriptAt, AfterExtensions
    <2> QED BY <1>1, <1>3, <2>2, <2>3, <2>6, ScriptMoves
  <1>6. CASE ~Live
    <2>1. script' = [script EXCEPT !.pc = "off", !.exit = 0]
      BY <1>6, Zenon DEF EnsureExtensions, Exit
    <2>2. Types'
      <3>1. base' \in Bases /\ script' \in Scripts
        BY <1>0, <1>1, <1>2, <2>1 DEF Types, Bases, Scripts, ScriptSteps
      <3> QED BY <1>0, <1>1, <1>2, <3>1, ScriptTypes DEF Types
    <2>3. script'.pc = "off" /\ script'.opt = script.opt
      BY <1>0, <2>1 DEF Types, Bases, Scripts
    <2>4. ~Live'
      BY <1>6, <2>3 DEF Live
    <2>5. ScriptSound' /\ ReadyOnZero'
      BY <2>3, <2>4 DEF ScriptSound, ReadyOnZero, ScriptAt, AfterExtensions
    <2> QED BY <1>1, <1>3, <2>2, <2>3, <2>5, ScriptMoves
  <1> QED BY <1>5, <1>6

LEMMA CheckHashVectorsKeeps == IInv /\ Grows /\ CheckHashVectors => IInv'
  <1> SUFFICES ASSUME IInv, Grows, CheckHashVectors PROVE IInv'
    OBVIOUS
  <1>0. Types /\ ScriptSound
    BY DEF IInv
  <1>1. script.pc = "vectors" /\ UNCHANGED <<role, member, base, catalog, colls, session, jobSlug>>
    BY DEF CheckHashVectors, ScriptAt
  <1>2. \/ script' = [script EXCEPT !.pc = "seed"]
        \/ script' = [script EXCEPT !.pc = "off", !.exit = 1]
    BY DEF CheckHashVectors, ScriptTo, Exit
  <1>3. Types'
    <2>1. base' \in Bases /\ script' \in Scripts
      BY <1>0, <1>1, <1>2 DEF Types, Bases, Scripts, ScriptSteps
    <2> QED BY <1>0, <1>1, <1>2, <2>1, ScriptTypes DEF Types
  <1>4. /\ script'.pc = "seed" \/ (script'.pc = "off" /\ script'.exit = 1)
        /\ script'.opt = script.opt
    BY <1>0, <1>2 DEF Types, Scripts
  <1>5. Live /\ base.owner = "app" /\ base.hardened /\ base.ext
    BY <1>0, <1>1 DEF ScriptSound, AfterExtensions
  <1>6. ScriptSound' /\ ReadyOnZero'
    BY <1>1, <1>4, <1>5 DEF ScriptSound, ReadyOnZero, ScriptAt, AfterExtensions, Live
  <1> QED BY <1>1, <1>3, <1>4, <1>6, ScriptMoves

LEMMA VerifyKeeps == IInv /\ Grows /\ Verify => IInv'
  <1> SUFFICES ASSUME IInv, Grows, Verify PROVE IInv'
    OBVIOUS
  <1>0. Types /\ ScriptSound /\ RowsSound
    BY DEF IInv
  <1>1. script.pc = "verify" /\ UNCHANGED <<role, member, base, catalog, colls, session, jobSlug>>
    BY DEF Verify, ScriptAt
  <1>2. script' = [script EXCEPT !.pc = "off",
                     !.exit = IF role # "configured" THEN 1 ELSE IF Drift THEN 3 ELSE 0]
    BY DEF Verify, Exit
  <1>3. Types'
    <2>1. base' \in Bases /\ script' \in Scripts
      BY <1>0, <1>1, <1>2 DEF Types, Bases, Scripts, ScriptSteps
    <2> QED BY <1>0, <1>1, <1>2, <2>1, ScriptTypes DEF Types
  <1>4. /\ script'.pc = "off" /\ script'.opt = script.opt
        /\ script'.exit = 0 => role = "configured" /\ ~Drift
    BY <1>0, <1>2 DEF Types, Scripts
  <1>5. /\ Live /\ base.owner = "app" /\ base.hardened
        /\ ~script.opt.skipSeed => ServiceSlug \in colls
    BY <1>0, <1>1 DEF ScriptSound, AfterExtensions
  <1>6. ScriptSound'
    BY <1>4 DEF ScriptSound, AfterExtensions
  <1>7. ReadyOnZero'
    <2> SUFFICES ASSUME script'.exit = 0
                 PROVE  /\ Ready'
                        /\ jobSlug' = ServiceSlug \/ ~script'.opt.skipSeed => ServiceSlug \in colls'
      BY DEF ReadyOnZero
    <2>1. role = "configured" /\ base.rev = Head /\ base.ext /\ catalog /\ colls # {}
      BY <1>4 DEF Drift
    <2>2. Ready'
      BY <1>1, <1>5, <2>1 DEF Ready, Head
    <2>3. jobSlug \in colls
      BY <1>0, <2>1 DEF RowsSound
    <2> QED BY <1>1, <1>4, <1>5, <2>2, <2>3
  <1> QED BY <1>1, <1>3, <1>4, <1>6, <1>7, ScriptMoves

-----------------------------------------------------------------------------
(* The steps of one session.                                               *)

LEMMA SessionTypes ==
  ASSUME Types, jobSlug' = jobSlug, role' \in {"none", "old", "configured"},
         member' = member, base' \in Bases,
         catalog' \in BOOLEAN, colls' \subseteq Slugs \cup {ServiceSlug}, script' \in Scripts,
         NEW p \in Processes, NEW s \in Sessions, session' = [session EXCEPT ![p] = s]
  PROVE  Types' /\ session'[p] = s /\ \A q \in Processes \ {p} : session'[q] = session[q]
  <1>1. Sessions' = Sessions
    BY DEF Sessions
  <1>2. session' \in [Processes -> Sessions]
    BY DEF Types
  <1>3. session'[p] = s /\ \A q \in Processes \ {p} : session'[q] = session[q]
    BY DEF Types
  <1> QED BY <1>1, <1>2, <1>3 DEF Types

(* What a new record s of process p has to satisfy. *)
SoundWith(s) ==
  /\ s.pc \in Seeding \ {"catalog"} => base.rev # 0
  /\ s.pc \in {"collection", "new collection", "commit", "insert", "migrated"} => s.cat \/ catalog
  /\ s.pc = "commit" => s.coll = ServiceSlug \/ ServiceSlug \in colls
  /\ s.pc \in {"insert", "migrated"} => s.coll = jobSlug \/ jobSlug \in colls
  /\ s.pc \in Migrating => base.owner = "app"
  /\ s.retried => ServiceSlug \in colls

LEMMA SessionMoves ==
  ASSUME IInv, Grows, script' = script, role' = role, member' = member, base' \in Bases,
         catalog' \in BOOLEAN, colls' \subseteq Slugs \cup {ServiceSlug}, RowsSound',
         NEW p \in Processes, NEW s \in Sessions, session' = [session EXCEPT ![p] = s],
         SoundWith(s)',
         p \in Instances =>
           /\ s.pc \notin Migrating
           /\ s.pc = "kept" => ServiceSlug \in colls'
           /\ s.since = Head => base'.rev = Head /\ s.pc \notin {"new catalog", "failed"},
         p = "job" => s.pc \notin Seeding,
         p = "script" =>
           \/ script.pc = "migrating" /\ s.pc \in Migrating \cup {"kept", "failed"}
           \/ /\ script.pc = "seeding" /\ s.pc \in Seeding \cup {"kept", "failed"}
              /\ s.pc = "kept" => ServiceSlug \in colls'
  PROVE  IInv'
  <1>0. Types /\ ScriptSession /\ ScriptSound /\ ReadyOnZero
    BY DEF IInv
  <1>1. Types' /\ session'[p] = s /\ \A q \in Processes \ {p} : session'[q] = session[q]
    BY <1>0, SessionTypes DEF Types, Grows
  <1>2. SessionSound(p)'
    BY <1>1 DEF SessionSound, SoundWith
  <1>3. p \in Instances => InstanceSound(p)'
    BY <1>1 DEF InstanceSound
  <1>4. (\A q \in Processes : SessionSound(q)') /\ (\A i \in Instances : InstanceSound(i)')
    BY <1>1, <1>2, <1>3, SessionsMove
  <1>5. ScriptSession'
    <2>1. session'["job"].pc \notin Seeding
      BY <1>0, <1>1, Distinct DEF ScriptSession
    <2>2. CASE p # "script"
      <3>1. session'["script"] = session["script"]
        BY <1>1, <2>2, Distinct
      <3> QED BY <1>0, <2>1, <3>1 DEF ScriptSession, Grows
    <2>3. CASE p = "script"
      BY <1>1, <2>1, <2>3 DEF ScriptSession
    <2> QED BY <2>2, <2>3
  <1>6. ScriptSound' /\ ReadyOnZero'
    BY <1>0, ScriptStays
  <1> QED BY <1>1, <1>4, <1>5, <1>6 DEF IInv

(* Whose sessions these are. *)
LEMMA WhoseSession ==
  ASSUME IInv, NEW p \in Processes
  PROVE  /\ session[p].pc \in Seeding => p # "job" /\ (p = "script" => script.pc = "seeding")
         /\ session[p].pc \in Migrating =>
              p \notin Instances /\ (p = "script" => script.pc = "migrating")
  <1>1. ScriptSession /\ (p \in Instances => InstanceSound(p))
    BY DEF IInv
  <1>2. session[p].pc \in Seeding => session[p].pc \notin Migrating \cup {"none", "kept", "failed"}
    BY DEF Seeding, Migrating
  <1>3. session[p].pc \in Migrating => session[p].pc \notin Seeding \cup {"none", "kept", "failed"}
    BY DEF Seeding, Migrating
  <1>4. NoSession.pc = "none"
    BY DEF NoSession
  <1>5. session[p].pc \in Seeding => p # "job" /\ (p = "script" => script.pc = "seeding")
    BY <1>1, <1>2, <1>4, Zenon DEF ScriptSession
  <1>6. session[p].pc \in Migrating => p \notin Instances
    BY <1>1, Zenon DEF InstanceSound
  <1>7. session[p].pc \in Migrating => (p = "script" => script.pc = "migrating")
    BY <1>1, <1>3, <1>4, Zenon DEF ScriptSession
  <1> QED BY <1>5, <1>6, <1>7

(* An update of a record of Sessions. *)
LEMMA NewRecords ==
  ASSUME Types, NEW p \in Processes
  PROVE  /\ session[p] \in Sessions
         /\ \A pc \in SessionSteps :
              /\ [NoSession EXCEPT !.pc = pc] \in Sessions
              /\ [NoSession EXCEPT !.pc = pc].pc = pc
              /\ [NoSession EXCEPT !.pc = pc].retried = FALSE
              /\ [NoSession EXCEPT !.pc = pc].since = 0
         /\ \A pc \in SessionSteps :
              /\ [session[p] EXCEPT !.pc = pc] \in Sessions
              /\ [session[p] EXCEPT !.pc = pc].pc = pc
              /\ [session[p] EXCEPT !.pc = pc].cat = session[p].cat
              /\ [session[p] EXCEPT !.pc = pc].coll = session[p].coll
              /\ [session[p] EXCEPT !.pc = pc].retried = session[p].retried
              /\ [session[p] EXCEPT !.pc = pc].since = session[p].since
  <1>1. session[p] \in Sessions
    BY DEF Types
  <1> QED BY <1>1 DEF Sessions, NoSession, Revisions

(* A session that has failed knows nothing and holds nothing. *)
LEMMA FailKeeps ==
  ASSUME IInv, Grows, NEW p \in Processes, FailSession(p), UnchangedButSession,
         session[p].pc \in Seeding \cup Migrating, p \in Instances => session[p].since # Head
  PROVE  IInv'
  <1>0. Types /\ RowsSound
    BY DEF IInv
  <1> DEFINE t == [NoSession EXCEPT !.pc = "failed", !.since = session[p].since]
  <1>1. t \in Sessions /\ t.pc = "failed" /\ t.retried = FALSE /\ t.since = session[p].since
    <2>1. session[p].since \in Revisions
      BY <1>0, NewRecords DEF Sessions
    <2>2. NoSession \in Sessions /\ NoSession.retried = FALSE
      BY DEF NoSession, Sessions, SessionSteps, Revisions
    <2>3. "failed" \in SessionSteps
      BY DEF SessionSteps
    <2> QED BY <2>1, <2>2, <2>3 DEF Sessions
  <1>2. PICK s \in Sessions : s = t /\ session' = [session EXCEPT ![p] = s]
    <2> HIDE DEF t
    <2> SUFFICES session' = [session EXCEPT ![p] = t]
      BY <1>1
    <2> QED BY DEF FailSession, t
  <1>3. UNCHANGED <<role, member, base, catalog, colls, script, jobSlug>>
    BY DEF UnchangedButSession
  <1>4. s.pc = "failed" /\ s.retried = FALSE /\ s.since = session[p].since
    BY <1>1, <1>2
  <1>5. SoundWith(s)'
    BY <1>4 DEF SoundWith, Seeding, Migrating
  <1>6. /\ s.pc \notin Seeding \cup Migrating /\ s.pc # "kept"
        /\ p = "script" => script.pc \in {"seeding", "migrating"}
    BY <1>4, WhoseSession DEF Seeding, Migrating
  <1>7. RowsSound' /\ base' \in Bases /\ catalog' \in BOOLEAN
       /\ colls' \subseteq Slugs \cup {ServiceSlug}
    BY <1>0, <1>3, RowsStay DEF Types
  <1> QED BY <1>2, <1>3, <1>4, <1>5, <1>6, <1>7, SessionMoves

(* A step to another place of ensure_public_collection. *)
LEMMA SeedingKeeps ==
  ASSUME IInv, Grows, NEW p \in Processes, UnchangedButSession, session[p].pc \in Seeding,
         NEW s \in Sessions, session' = [session EXCEPT ![p] = s],
         s.pc \in Seeding, s.since = session[p].since, SoundWith(s),
         s.pc = "new catalog" => ~catalog
  PROVE  IInv'
  <1>0. Types /\ RowsSound /\ (p \in Instances => InstanceSound(p))
    BY DEF IInv
  <1>1. UNCHANGED <<role, member, base, catalog, colls, script, jobSlug>>
    BY DEF UnchangedButSession
  <1>2. SoundWith(s)'
    BY <1>1 DEF SoundWith
  <1>3. s.pc \notin Migrating /\ s.pc # "kept" /\ s.pc # "failed"
    BY DEF Seeding, Migrating
  <1>4. p \in Instances => (s.since = Head => base'.rev = Head /\ s.pc # "new catalog")
    BY <1>0, <1>1 DEF InstanceSound, RowsSound
  <1>5. RowsSound' /\ base' \in Bases /\ catalog' \in BOOLEAN
       /\ colls' \subseteq Slugs \cup {ServiceSlug}
    BY <1>0, <1>1, RowsStay DEF Types
  <1>6. p # "job" /\ (p = "script" => script.pc = "seeding")
    BY WhoseSession
  <1> QED BY <1>1, <1>2, <1>3, <1>4, <1>5, <1>6, SessionMoves

LEMMA FindCatalogKeeps ==
  ASSUME IInv, Grows, NEW p \in Processes, FindCatalog(p)
  PROVE  IInv'
  <1>0. /\ Types /\ SessionSound(p) /\ (p \in Instances => InstanceSound(p))
        /\ session[p].pc = "catalog" /\ UnchangedButSession
    BY DEF IInv, FindCatalog
  <1>1. session[p].pc \in Seeding
    BY <1>0 DEF Seeding
  <1>2. CASE base.rev = 0
    <2>1. p \in Instances => session[p].since # Head
      BY <1>0, <1>2 DEF InstanceSound, Head
    <2>2. FailSession(p)
      BY <1>2 DEF FindCatalog
    <2> QED BY <1>0, <1>1, <2>1, <2>2, FailKeeps
  <1>3. CASE base.rev # 0
    <2>1. PICK pc \in {"collection", "new catalog"} :
            /\ session' = [session EXCEPT ![p].pc = pc]
            /\ pc = "collection" => catalog
            /\ pc = "new catalog" => ~catalog
      BY <1>3 DEF FindCatalog, GoTo
    <2> DEFINE s == [session[p] EXCEPT !.pc = pc]
    <2>2. s \in Sessions /\ s.pc = pc /\ s.retried = session[p].retried
         /\ s.since = session[p].since
      <3>1. pc \in SessionSteps
        BY DEF SessionSteps
      <3> QED BY <1>0, <3>1, NewRecords, Zenon
    <2>3. session' = [session EXCEPT ![p] = s]
      BY <2>1
    <2>4. SoundWith(s)
      BY <1>0, <1>3, <2>1, <2>2 DEF SoundWith, SessionSound, Seeding, Migrating
    <2>5. s.pc \in Seeding
      BY <2>2 DEF Seeding
    <2> HIDE DEF s
    <2> QED BY <1>0, <1>1, <2>1, <2>2, <2>3, <2>4, <2>5, SeedingKeeps
  <1> QED BY <1>2, <1>3

LEMMA CreateCatalogKeeps ==
  ASSUME IInv, Grows, NEW p \in Processes, CreateCatalog(p)
  PROVE  IInv'
  <1>0. /\ Types /\ SessionSound(p) /\ (p \in Instances => InstanceSound(p))
        /\ session[p].pc = "new catalog" /\ UnchangedButSession
    BY DEF IInv, CreateCatalog
  <1>1. session[p].pc \in Seeding
    BY <1>0 DEF Seeding
  <1>2. CASE catalog
    <2>1. p \in Instances => session[p].since # Head
      BY <1>0 DEF InstanceSound
    <2>2. FailSession(p)
      BY <1>2 DEF CreateCatalog
    <2> QED BY <1>0, <1>1, <2>1, <2>2, FailKeeps
  <1>3. CASE ~catalog
    <2> DEFINE s == [session[p] EXCEPT !.cat = TRUE, !.pc = "collection"]
    <2>1. session[p] \in Sessions
      BY <1>0, NewRecords
    <2>2. /\ s \in Sessions /\ s.pc = "collection" /\ s.cat = TRUE
          /\ s.retried = session[p].retried /\ s.since = session[p].since
      BY <2>1 DEF Sessions, SessionSteps
    <2>3. session' = [session EXCEPT ![p] = s]
      BY <1>3 DEF CreateCatalog
    <2>4. SoundWith(s)
      BY <1>0, <2>2 DEF SoundWith, SessionSound, Seeding, Migrating
    <2>5. s.pc \in Seeding
      BY <2>2 DEF Seeding
    <2> HIDE DEF s
    <2> QED BY <1>0, <1>1, <2>2, <2>3, <2>4, <2>5, SeedingKeeps
  <1> QED BY <1>2, <1>3

LEMMA FindCollectionKeeps ==
  ASSUME IInv, Grows, NEW p \in Processes, FindCollection(p)
  PROVE  IInv'
  <1>0. /\ Types /\ SessionSound(p) /\ session[p].pc = "collection" /\ UnchangedButSession
    BY DEF IInv, FindCollection
  <1>1. session[p].pc \in Seeding
    BY <1>0 DEF Seeding
  <1>2. PICK pc \in {"commit", "new collection"} :
          /\ session' = [session EXCEPT ![p].pc = pc]
          /\ pc = "commit" => ServiceSlug \in colls
    BY <1>0 DEF FindCollection, GoTo, SessionSound
  <1> DEFINE s == [session[p] EXCEPT !.pc = pc]
  <1>3. /\ s \in Sessions /\ s.pc = pc /\ s.cat = session[p].cat
        /\ s.retried = session[p].retried /\ s.since = session[p].since
    <2>1. pc \in SessionSteps
      BY DEF SessionSteps
    <2> QED BY <1>0, <2>1, NewRecords, Zenon
  <1>4. session' = [session EXCEPT ![p] = s]
    BY <1>2
  <1>5. SoundWith(s)
    BY <1>0, <1>2, <1>3 DEF SoundWith, SessionSound, Seeding, Migrating
  <1>6. s.pc \in Seeding /\ s.pc # "new catalog"
    BY <1>3 DEF Seeding
  <1> HIDE DEF s
  <1> QED BY <1>0, <1>1, <1>3, <1>4, <1>5, <1>6, SeedingKeeps

LEMMA CreateCollectionKeeps ==
  ASSUME IInv, Grows, NEW p \in Processes, CreateCollection(p)
  PROVE  IInv'
  <1>0. /\ Types /\ RowsSound /\ SessionSound(p) /\ session[p].pc = "new collection"
        /\ UnchangedButSession
    BY DEF IInv, CreateCollection
  <1>1. session[p].pc \in Seeding /\ session[p] \in Sessions
    BY <1>0, NewRecords DEF Seeding
  <1>2. CASE ServiceSlug \in colls
    <2> DEFINE s == [session[p] EXCEPT !.pc = "catalog", !.cat = FALSE, !.retried = TRUE]
    <2>1. s \in Sessions /\ s.pc = "catalog" /\ s.since = session[p].since
      BY <1>1 DEF Sessions, SessionSteps
    <2>2. session' = [session EXCEPT ![p] = s]
      BY <1>2 DEF CreateCollection
    <2>3. SoundWith(s)
      BY <1>2, <2>1 DEF SoundWith, Seeding, Migrating
    <2>4. s.pc \in Seeding /\ s.pc # "new catalog"
      BY <2>1 DEF Seeding
    <2> HIDE DEF s
    <2> QED BY <1>0, <1>1, <2>1, <2>2, <2>3, <2>4, SeedingKeeps
  <1>3. CASE ServiceSlug \notin colls
    <2> DEFINE s == [session[p] EXCEPT !.pc = "commit", !.coll = ServiceSlug]
    <2>1. /\ s \in Sessions /\ s.pc = "commit" /\ s.coll = ServiceSlug
          /\ s.cat = session[p].cat /\ s.retried = session[p].retried /\ s.since = session[p].since
      BY <1>1 DEF Sessions, SessionSteps
    <2>2. session' = [session EXCEPT ![p] = s]
      BY <1>3 DEF CreateCollection
    <2>3. SoundWith(s)
      BY <1>0, <2>1 DEF SoundWith, SessionSound, Seeding, Migrating
    <2>4. s.pc \in Seeding /\ s.pc # "new catalog"
      BY <2>1 DEF Seeding
    <2> HIDE DEF s
    <2> QED BY <1>0, <1>1, <2>1, <2>2, <2>3, <2>4, SeedingKeeps
  <1> QED BY <1>2, <1>3

(* A transaction that ends well. *)
LEMMA EndKeeps ==
  ASSUME IInv, Grows, NEW p \in Processes, script' = script, role' = role, member' = member,
       base' \in Bases,
         catalog' \in BOOLEAN, colls' \subseteq Slugs \cup {ServiceSlug}, RowsSound',
         EndSession(p, "kept"), session[p].pc \in Seeding \cup Migrating,
         session[p].pc \in Seeding => ServiceSlug \in colls'
  PROVE  IInv'
  <1>1. PICK s \in Sessions : /\ session' = [session EXCEPT ![p] = s]
                              /\ s.pc = "kept" /\ s.retried = FALSE /\ s.since = 0
    <2>1. "kept" \in SessionSteps
      BY DEF SessionSteps
    <2>2. Types /\ session' = [session EXCEPT ![p] = [NoSession EXCEPT !.pc = "kept"]]
      BY DEF EndSession, IInv
    <2> QED BY <2>1, <2>2, NewRecords, Zenon
  <1>2. SoundWith(s)'
    BY <1>1 DEF SoundWith, Seeding, Migrating
  <1>3. s.pc \notin Seeding \cup Migrating /\ s.since # Head
    <2>1. s.since = 0 /\ s.pc = "kept"
      BY <1>1
    <2>2. s.since # Head
      BY <2>1 DEF Head
    <2> QED BY <2>1, <2>2 DEF Seeding, Migrating
  <1>4. p \in Instances => ServiceSlug \in colls'
    BY WhoseSession
  <1>5. p = "script" => \/ script.pc = "migrating"
                        \/ script.pc = "seeding" /\ ServiceSlug \in colls'
    BY WhoseSession
  <1> QED BY <1>1, <1>2, <1>3, <1>4, <1>5, SessionMoves

LEMMA CommitCollectionKeeps ==
  ASSUME IInv, Grows, NEW p \in Processes, CommitCollection(p)
  PROVE  IInv'
  <1>0. Types /\ RowsSound /\ SessionSound(p) /\ session[p].pc = "commit"
    BY DEF IInv, CommitCollection
  <1>1. session[p] \in Sessions /\ session[p].pc \in Seeding
    BY <1>0, NewRecords DEF Seeding
  <1>2. /\ UNCHANGED <<role, member, base, script, jobSlug>>
        /\ catalog' = (catalog \/ session[p].cat)
        /\ colls' = colls \cup ({session[p].coll} \ {""})
    BY DEF CommitCollection
  <1>3. catalog' \in BOOLEAN /\ catalog'
    BY <1>0, <1>2, Zenon DEF SessionSound
  <1>4. colls' \subseteq Slugs \cup {ServiceSlug}
    BY <1>0, <1>1, <1>2 DEF Types, Sessions
  <1>5. ServiceSlug \in colls'
    BY <1>0, <1>2, SlugsAssumption DEF SessionSound
  <1>6. base.rev # 0
    BY <1>0 DEF SessionSound, Seeding
  <1>7. RowsSound'
    BY <1>0, <1>2, <1>3, <1>6 DEF RowsSound
  <1>8. base' \in Bases /\ EndSession(p, "kept")
    BY <1>0, <1>2 DEF Types, CommitCollection
  <1> QED BY <1>1, <1>2, <1>3, <1>4, <1>5, <1>7, <1>8, EndKeeps

LEMMA EnsurePublicCollectionKeeps ==
  ASSUME IInv, Grows, NEW p \in Processes, EnsurePublicCollection(p)
  PROVE  IInv'
  BY FindCatalogKeeps, CreateCatalogKeeps, FindCollectionKeeps, CreateCollectionKeeps,
     CommitCollectionKeeps DEF EnsurePublicCollection

(* A step of a run of the migrations. *)
LEMMA MigratingKeeps ==
  ASSUME IInv, Grows, NEW p \in Processes, UnchangedButSession, session[p].pc \in Migrating,
         NEW s \in Sessions, session' = [session EXCEPT ![p] = s],
         s.pc \in Migrating, SoundWith(s)
  PROVE  IInv'
  <1>0. Types /\ RowsSound
    BY DEF IInv
  <1>1. UNCHANGED <<role, member, base, catalog, colls, script, jobSlug>>
    BY DEF UnchangedButSession
  <1>2. SoundWith(s)'
    BY <1>1 DEF SoundWith
  <1>3. s.pc \notin Seeding
    BY DEF Seeding, Migrating
  <1>4. RowsSound' /\ base' \in Bases /\ catalog' \in BOOLEAN
       /\ colls' \subseteq Slugs \cup {ServiceSlug}
    BY <1>0, <1>1, RowsStay DEF Types
  <1>5. p \notin Instances /\ (p = "script" => script.pc = "migrating")
    BY WhoseSession
  <1> QED BY <1>1, <1>2, <1>3, <1>4, <1>5, SessionMoves

LEMMA LookUpKeeps ==
  ASSUME IInv, Grows, NEW p \in Processes, LookUp(p)
  PROVE  IInv'
  <1>0. /\ Types /\ RowsSound /\ SessionSound(p) /\ session[p].pc = "lookup"
        /\ UnchangedButSession
    BY DEF IInv, LookUp
  <1>1. session[p].pc \in Migrating /\ session[p].pc \notin Seeding /\ session[p] \in Sessions
    BY <1>0, NewRecords DEF Migrating, Seeding
  <1>2. CASE base.rev = Head
    <2>1. EndSession(p, "kept")
      BY <1>2 DEF LookUp, EndSession
    <2>2. UNCHANGED <<role, member, base, catalog, colls, script, jobSlug>>
      BY <1>0 DEF UnchangedButSession
    <2>3. RowsSound' /\ base' \in Bases /\ catalog' \in BOOLEAN
         /\ colls' \subseteq Slugs \cup {ServiceSlug}
      BY <1>0, <2>2, RowsStay DEF Types
    <2> QED BY <1>1, <2>1, <2>2, <2>3, EndKeeps
  <1>3. CASE base.rev # Head
    <2>1. PICK cat \in BOOLEAN, coll \in {"", jobSlug} :
            /\ session' = [session EXCEPT ![p] = [session[p] EXCEPT !.pc = "insert",
                             !.since = base.rev, !.coll = coll, !.cat = cat]]
            /\ coll = jobSlug \/ jobSlug \in colls
            /\ cat \/ catalog
      <3>1. (jobSlug \notin colls /\ ~catalog) \/ catalog
        BY <1>0, Zenon DEF RowsSound
      <3> QED BY <1>3, <3>1 DEF LookUp
    <2> DEFINE s == [session[p] EXCEPT !.pc = "insert", !.since = base.rev, !.coll = coll,
                                       !.cat = cat]
    <2>2. base.rev \in Revisions
      BY <1>0, RecordTypes
    <2>3. /\ s \in Sessions /\ s.pc = "insert" /\ s.coll = coll /\ s.cat = cat
          /\ s.retried = session[p].retried
      BY <1>1, <2>2 DEF Sessions, SessionSteps
    <2>4. session' = [session EXCEPT ![p] = s]
      BY <2>1
    <2>5. SoundWith(s)
      BY <1>0, <2>1, <2>3 DEF SoundWith, SessionSound, Seeding, Migrating
    <2>6. s.pc \in Migrating
      BY <2>3 DEF Migrating
    <2> HIDE DEF s
    <2> QED BY <1>0, <1>1, <2>3, <2>4, <2>5, <2>6, MigratingKeeps
  <1> QED BY <1>2, <1>3

LEMMA InsertRowsKeeps ==
  ASSUME IInv, Grows, NEW p \in Processes, InsertRows(p)
  PROVE  IInv'
  <1>0. /\ Types /\ SessionSound(p) /\ session[p].pc = "insert" /\ UnchangedButSession
        /\ FailSession(p) \/ GoTo(p, "migrated")
    BY DEF IInv, InsertRows
  <1>1. session[p].pc \in Migrating /\ p \notin Instances
    BY <1>0, WhoseSession DEF Migrating
  <1>2. CASE FailSession(p)
    BY <1>0, <1>1, <1>2, FailKeeps
  <1>3. CASE GoTo(p, "migrated")
    <2> DEFINE s == [session[p] EXCEPT !.pc = "migrated"]
    <2>1. /\ s \in Sessions /\ s.pc = "migrated" /\ s.coll = session[p].coll
          /\ s.cat = session[p].cat /\ s.retried = session[p].retried
      <3>1. "migrated" \in SessionSteps
        BY DEF SessionSteps
      <3> QED BY <1>0, <3>1, NewRecords, Zenon
    <2>2. session' = [session EXCEPT ![p] = s]
      BY <1>3 DEF GoTo
    <2>3. SoundWith(s)
      BY <1>0, <2>1 DEF SoundWith, SessionSound, Seeding, Migrating
    <2>4. s.pc \in Migrating
      BY <2>1 DEF Migrating
    <2> HIDE DEF s
    <2> QED BY <1>0, <1>1, <2>1, <2>2, <2>3, <2>4, MigratingKeeps
  <1> QED BY <1>0, <1>2, <1>3

LEMMA CommitMigrationKeeps ==
  ASSUME IInv, Grows, NEW p \in Processes, CommitMigration(p)
  PROVE  IInv'
  <1>0. Types /\ RowsSound /\ SessionSound(p) /\ session[p].pc = "migrated"
    BY DEF IInv, CommitMigration
  <1>1. session[p] \in Sessions /\ session[p].pc \in Migrating /\ session[p].pc \notin Seeding
    BY <1>0, NewRecords DEF Migrating, Seeding
  <1>2. /\ UNCHANGED <<role, member, script, jobSlug>> /\ base' = [base EXCEPT !.rev = Head]
        /\ catalog' = (catalog \/ session[p].cat)
        /\ colls' = colls \cup ({session[p].coll} \ {""})
    BY DEF CommitMigration
  <1>3. catalog' \in BOOLEAN /\ catalog'
    BY <1>0, <1>2, Zenon DEF SessionSound
  <1>4. colls' \subseteq Slugs \cup {ServiceSlug}
    BY <1>0, <1>1, <1>2 DEF Types, Sessions
  <1>5. jobSlug \in colls'
    BY <1>0, <1>2, SlugsAssumption DEF SessionSound, Types
  <1>6. base' \in Bases /\ base'.rev = Head
    BY <1>0, <1>2 DEF Types, Bases, Revisions
  <1>7. RowsSound'
    <2>1. base'.rev # 0
      BY <1>6 DEF Head
    <2>2. jobSlug' \in colls'
      BY <1>2, <1>5
    <2> QED BY <1>3, <2>1, <2>2, Zenon DEF RowsSound
  <1>8. EndSession(p, "kept")
    BY DEF CommitMigration
  <1> QED BY <1>1, <1>2, <1>3, <1>4, <1>6, <1>7, <1>8, EndKeeps

-----------------------------------------------------------------------------
(* The job, the instances, and the script's own sessions.                  *)

LEMMA FreshRecords ==
  /\ NoSession \in Sessions /\ NoSession.pc = "none" /\ NoSession.retried = FALSE
  /\ NoSession.since = 0
  BY DEF NoSession, Sessions, SessionSteps, Revisions

LEMMA OutsideKeeps ==
  ASSUME IInv, Grows, UnchangedButSession, NEW p \in Processes, p # "script",
         NEW s \in Sessions, session' = [session EXCEPT ![p] = s], s.retried = FALSE,
         \/ p \in Instances /\ s.pc \in {"none", "skipped"} /\ s.since = 0
         \/ p \in Instances /\ s.pc = "catalog" /\ s.since = base.rev
         \/ p = "job" /\ s.pc = "lookup" /\ base.owner = "app"
  PROVE  IInv'
  <1>0. Types /\ RowsSound
    BY DEF IInv
  <1>1. UNCHANGED <<role, member, base, catalog, colls, script, jobSlug>>
    BY DEF UnchangedButSession
  <1>2. SoundWith(s)'
    BY <1>1 DEF SoundWith, Seeding, Migrating
  <1>3. p \in Instances =>
          /\ s.pc \notin Migrating /\ s.pc \notin {"kept", "new catalog", "failed"}
          /\ s.since = Head => base'.rev = Head
    <2>1. s.since = 0 => s.since # Head
      BY DEF Head
    <2> QED BY <1>1, <2>1, Distinct DEF Migrating
  <1>4. p = "job" => s.pc \notin Seeding
    BY Distinct DEF Seeding
  <1>5. RowsSound' /\ base' \in Bases /\ catalog' \in BOOLEAN
       /\ colls' \subseteq Slugs \cup {ServiceSlug}
    BY <1>0, <1>1, RowsStay DEF Types
  <1> QED BY <1>1, <1>2, <1>3, <1>4, <1>5, SessionMoves

LEMMA JobAndInstancesKeep ==
  ASSUME IInv, Grows,
         \/ RunMigrateJob
         \/ \E i \in Instances : StartInstance(i) \/ SkipBootstrap(i) \/ StopInstance(i)
  PROVE  IInv'
  <1>0. Types
    BY DEF IInv
  <1>1. CASE RunMigrateJob
    <2>1. PICK s \in Sessions : /\ session' = [session EXCEPT !["job"] = s]
                                /\ s.pc = "lookup" /\ s.retried = FALSE
      <3>1. session' = [session EXCEPT !["job"] = [NoSession EXCEPT !.pc = "lookup"]]
        BY <1>1 DEF RunMigrateJob
      <3>2. "lookup" \in SessionSteps
        BY DEF SessionSteps
      <3> QED BY <1>0, <3>1, <3>2, Distinct, NewRecords, Zenon
    <2>2. UnchangedButSession /\ base.owner = "app"
      BY <1>1 DEF RunMigrateJob, Reachable
    <2> QED BY <2>1, <2>2, Distinct, OutsideKeeps
  <1>2. ASSUME NEW i \in Instances, StartInstance(i) PROVE IInv'
    <2>1. PICK s \in Sessions : /\ session' = [session EXCEPT ![i] = s]
                                /\ s.pc = "catalog" /\ s.retried = FALSE /\ s.since = base.rev
      <3> DEFINE t == [NoSession EXCEPT !.pc = "catalog", !.since = base.rev]
      <3>1. session' = [session EXCEPT ![i] = t]
        BY <1>2 DEF StartInstance
      <3>2. base.rev \in Revisions /\ "catalog" \in SessionSteps
        BY <1>0, RecordTypes DEF SessionSteps
      <3>3. t \in Sessions /\ t.pc = "catalog" /\ t.retried = FALSE /\ t.since = base.rev
        BY <3>2, FreshRecords DEF Sessions
      <3> HIDE DEF t
      <3> QED BY <3>1, <3>3
    <2>2. UnchangedButSession /\ i # "script" /\ i \in Processes
      BY <1>2, Distinct DEF StartInstance
    <2> QED BY <2>1, <2>2, OutsideKeeps
  <1>3. ASSUME NEW i \in Instances, SkipBootstrap(i) PROVE IInv'
    <2>1. PICK s \in Sessions : /\ session' = [session EXCEPT ![i] = s]
                                /\ s.pc = "skipped" /\ s.retried = FALSE /\ s.since = 0
      <3>1. session' = [session EXCEPT ![i] = [NoSession EXCEPT !.pc = "skipped"]]
        BY <1>3 DEF SkipBootstrap, EndSession
      <3>2. "skipped" \in SessionSteps
        BY DEF SessionSteps
      <3> QED BY <1>0, <3>1, <3>2, Distinct, NewRecords, Zenon
    <2>2. UnchangedButSession /\ i # "script" /\ i \in Processes
      BY <1>3, Distinct DEF SkipBootstrap
    <2> QED BY <2>1, <2>2, OutsideKeeps
  <1>4. ASSUME NEW i \in Instances, StopInstance(i) PROVE IInv'
    <2>1. session' = [session EXCEPT ![i] = NoSession]
      BY <1>4 DEF StopInstance
    <2>2. UnchangedButSession /\ i # "script" /\ i \in Processes
      BY <1>4, Distinct DEF StopInstance
    <2> QED BY <2>1, <2>2, FreshRecords, OutsideKeeps
  <1> QED BY <1>1, <1>2, <1>3, <1>4

LEMMA HandOverKeeps == IInv /\ Grows /\ HandOver => IInv'
  <1> SUFFICES ASSUME IInv, Grows, HandOver PROVE IInv'
    OBVIOUS
  <1>0. Types /\ RowsSound /\ ScriptSession /\ ScriptSound /\ ReadyOnZero
    BY DEF IInv
  <1>1. /\ UNCHANGED <<role, member, catalog, colls, script, session, jobSlug>>
        /\ base' = [base EXCEPT !.owner = "app"]
    BY DEF HandOver
  <1>2. base' \in Bases /\ base'.rev = base.rev /\ script' \in Scripts
    BY <1>0, <1>1 DEF Types, Bases
  <1>3. Types'
    BY <1>0, <1>1, <1>2, ScriptTypes DEF Types
  <1>4. RowsSound'
    BY <1>0, <1>1, <1>2, RowsStay
  <1>5. (\A q \in Processes : SessionSound(q)') /\ (\A i \in Instances : InstanceSound(i)')
    BY <1>1, SessionsStay
  <1>6. ScriptSession'
    BY <1>0, <1>1 DEF ScriptSession
  <1>7. ScriptSound' /\ ReadyOnZero'
    BY <1>0, <1>1, ScriptStays
  <1> QED BY <1>3, <1>4, <1>5, <1>6, <1>7 DEF IInv

(* The steps of the script that begin or end a session of its own. *)
LEMMA ScriptAndSession ==
  ASSUME IInv, Grows, UNCHANGED <<role, member, base, catalog, colls, jobSlug>>,
       script' \in Scripts,
         NEW s \in Sessions, session' = [session EXCEPT !["script"] = s], SoundWith(s),
         \/ script'.pc \notin {"migrating", "seeding"} /\ s = NoSession
         \/ script'.pc = "migrating" /\ s.pc = "lookup"
         \/ script'.pc = "seeding" /\ s.pc = "catalog",
         ScriptSound', ReadyOnZero'
  PROVE  IInv'
  <1>0. Types /\ RowsSound /\ ScriptSession
    BY DEF IInv
  <1>1. base' \in Bases /\ catalog' \in BOOLEAN /\ colls' \subseteq Slugs \cup {ServiceSlug}
        /\ role' \in {"none", "old", "configured"}
    BY <1>0 DEF Types
  <1>2. /\ Types' /\ session'["script"] = s
        /\ \A q \in Processes \ {"script"} : session'[q] = session[q]
    BY <1>0, <1>1, Distinct, SessionTypes
  <1>3. SoundWith(s)'
    BY DEF SoundWith
  <1>4. SessionSound("script")'
    BY <1>2, <1>3 DEF SessionSound, SoundWith
  <1>5. (\A q \in Processes : SessionSound(q)') /\ (\A i \in Instances : InstanceSound(i)')
    BY <1>2, <1>4, Distinct, SessionsMove
  <1>6. session'["job"].pc \notin Seeding
    BY <1>0, <1>2, Distinct DEF ScriptSession
  <1>7. ScriptSession'
    BY <1>2, <1>6 DEF ScriptSession, Migrating, Seeding
  <1>8. RowsSound'
    BY <1>0, RowsStay
  <1> QED BY <1>2, <1>5, <1>7, <1>8 DEF IInv

LEMMA SkippedStepKeeps ==
  ASSUME IInv, Grows, UNCHANGED <<role, member, base, catalog, colls, jobSlug, session>>,
         \/ /\ script.pc = "migrate" /\ script' = [script EXCEPT !.pc = "seed"]
         \/ /\ script.pc = "seed" /\ script.opt.skipSeed
            /\ script' = [script EXCEPT !.pc = "verify"]
         \/ /\ script.pc \in {"migrate", "seed"}
            /\ script' = [script EXCEPT !.pc = "off", !.exit = 1]
  PROVE  IInv'
  <1>0. Types /\ ScriptSound
    BY DEF IInv
  <1>1. base' \in Bases /\ script' \in Scripts
    BY <1>0 DEF Types, Scripts, ScriptSteps
  <1>2. Types'
    BY <1>0, <1>1, ScriptTypes DEF Types
  <1>3. /\ script'.opt = script.opt
        /\ \/ script'.pc = "seed"
           \/ script'.pc = "verify" /\ script.opt.skipSeed
           \/ script'.pc = "off" /\ script'.exit = 1
    BY <1>0 DEF Types, Scripts
  <1>4. Live /\ base.owner = "app" /\ base.hardened /\ base.ext
    BY <1>0 DEF ScriptSound, AfterExtensions
  <1>5. ScriptSound' /\ ReadyOnZero'
    BY <1>3, <1>4 DEF ScriptSound, ReadyOnZero, ScriptAt, AfterExtensions, Live
  <1>6. script'.pc \notin {"migrating", "seeding"}
    BY <1>3
  <1> QED BY <1>2, <1>5, <1>6, ScriptMoves

LEMMA BegunStepKeeps ==
  ASSUME IInv, Grows, UNCHANGED <<role, member, base, catalog, colls, jobSlug>>,
         NEW pc \in {"lookup", "catalog"}, GoTo("script", pc),
         \/ script.pc = "migrate" /\ pc = "lookup" /\ script' = [script EXCEPT !.pc = "migrating"]
         \/ script.pc = "seed" /\ pc = "catalog" /\ script' = [script EXCEPT !.pc = "seeding"]
  PROVE  IInv'
  <1>0. Types /\ ScriptSession /\ ScriptSound
    BY DEF IInv
  <1>1. session["script"] = NoSession
    BY <1>0 DEF ScriptSession
  <1>2. PICK s \in Sessions : /\ session' = [session EXCEPT !["script"] = s]
                              /\ s.pc = pc /\ s.retried = FALSE
    <2>1. session' = [session EXCEPT !["script"] = [NoSession EXCEPT !.pc = pc]]
      BY <1>1 DEF GoTo
    <2>2. pc \in SessionSteps
      BY DEF SessionSteps
    <2> QED BY <1>0, <2>1, <2>2, Distinct, NewRecords, Zenon
  <1>3. script' \in Scripts
    BY <1>0 DEF Types, Scripts, ScriptSteps
  <1>4. Live /\ base.owner = "app" /\ base.hardened /\ base.ext
    BY <1>0 DEF ScriptSound, AfterExtensions
  <1>5. SoundWith(s)
    BY <1>2, <1>4 DEF SoundWith, Seeding, Migrating
  <1>6. /\ script'.opt = script.opt
        /\ \/ script'.pc = "migrating" /\ s.pc = "lookup"
           \/ script'.pc = "seeding" /\ s.pc = "catalog"
    BY <1>0, <1>2 DEF Types, Scripts
  <1>7. ScriptSound' /\ ReadyOnZero'
    BY <1>4, <1>6 DEF ScriptSound, ReadyOnZero, ScriptAt, AfterExtensions, Live
  <1> QED BY <1>2, <1>3, <1>5, <1>6, <1>7, ScriptAndSession

LEMMA RunMigrationsKeeps == IInv /\ Grows /\ RunMigrations => IInv'
  <1> SUFFICES ASSUME IInv, Grows, RunMigrations PROVE IInv'
    OBVIOUS
  <1>1. script.pc = "migrate" /\ UNCHANGED <<role, member, base, catalog, colls, jobSlug>>
    BY DEF RunMigrations, ScriptAt
  <1>2. \/ script' = [script EXCEPT !.pc = "seed"] /\ session' = session
        \/ script' = [script EXCEPT !.pc = "off", !.exit = 1] /\ session' = session
        \/ script' = [script EXCEPT !.pc = "migrating"] /\ GoTo("script", "lookup")
    BY DEF RunMigrations, ScriptTo, Exit
  <1> QED BY <1>1, <1>2, SkippedStepKeeps, BegunStepKeeps

LEMMA SeedKeeps == IInv /\ Grows /\ Seed => IInv'
  <1> SUFFICES ASSUME IInv, Grows, Seed PROVE IInv'
    OBVIOUS
  <1>1. script.pc = "seed" /\ UNCHANGED <<role, member, base, catalog, colls, jobSlug>>
    BY DEF Seed, ScriptAt
  <1>2. \/ /\ script.opt.skipSeed /\ script' = [script EXCEPT !.pc = "verify"]
           /\ session' = session
        \/ script' = [script EXCEPT !.pc = "off", !.exit = 1] /\ session' = session
        \/ script' = [script EXCEPT !.pc = "seeding"] /\ GoTo("script", "catalog")
    BY DEF Seed, ScriptTo, Exit
  <1> QED BY <1>1, <1>2, SkippedStepKeeps, BegunStepKeeps

(* The session has ended, or ends with the script that is killed. *)
LEMMA EndedStepKeeps ==
  ASSUME IInv, Grows, UNCHANGED <<role, member, base, catalog, colls, jobSlug>>,
         session' = [session EXCEPT !["script"] = NoSession],
         \/ script' = [script EXCEPT !.pc = "off", !.exit = 1]
         \/ script.pc = "migrating" /\ script' = [script EXCEPT !.pc = "vectors"]
         \/ /\ script.pc = "seeding" /\ session["script"].pc = "kept"
            /\ script' = [script EXCEPT !.pc = "verify"]
  PROVE  IInv'
  <1>0. Types /\ ScriptSession /\ ScriptSound
    BY DEF IInv
  <1>1. script' \in Scripts
    BY <1>0 DEF Types, Scripts, ScriptSteps
  <1>2. SoundWith(NoSession)
    BY FreshRecords DEF SoundWith, Seeding, Migrating
  <1>3. /\ script'.opt = script.opt
        /\ \/ script'.pc = "off" /\ script'.exit = 1
           \/ script'.pc = "vectors" /\ script.pc = "migrating"
           \/ script'.pc = "verify" /\ script.pc = "seeding" /\ ServiceSlug \in colls
    BY <1>0 DEF Types, Scripts, ScriptSession
  <1>4. script.pc \in {"migrating", "seeding"} =>
          Live /\ base.owner = "app" /\ base.hardened /\ base.ext
    BY <1>0 DEF ScriptSound, AfterExtensions
  <1>5. ScriptSound' /\ ReadyOnZero'
    BY <1>3, <1>4 DEF ScriptSound, ReadyOnZero, ScriptAt, AfterExtensions, Live
  <1> QED BY <1>1, <1>2, <1>3, <1>5, FreshRecords, ScriptAndSession

LEMMA ReturnsKeep ==
  IInv /\ Grows /\ (MigrationsReturn \/ SeedReturns \/ CrashScript) => IInv'
  <1> SUFFICES ASSUME IInv, Grows, MigrationsReturn \/ SeedReturns \/ CrashScript PROVE IInv'
    OBVIOUS
  <1>1. CASE MigrationsReturn
    BY <1>1, EndedStepKeeps DEF MigrationsReturn, ScriptAt, ScriptTo, Exit
  <1>2. CASE SeedReturns
    BY <1>2, EndedStepKeeps DEF SeedReturns, ScriptAt, ScriptTo, Exit
  <1>3. CASE CrashScript
    BY <1>3, EndedStepKeeps DEF CrashScript, Exit
  <1> QED BY <1>1, <1>2, <1>3

LEMMA StutterKeeps == IInv /\ UNCHANGED vars => IInv'
  <1> SUFFICES ASSUME IInv, UNCHANGED vars PROVE IInv'
    OBVIOUS
  <1>0. /\ UNCHANGED <<role, member, base, catalog, colls, script, session, jobSlug>>
        /\ Types /\ RowsSound /\ ScriptSession /\ ScriptSound /\ ReadyOnZero
    BY DEF vars, IInv
  <1>1. Grows
    BY <1>0 DEF Grows
  <1>2. Types' /\ RowsSound' /\ ScriptSession'
    BY <1>0 DEF Types, Sessions, RowsSound, ScriptSession
  <1>3. (\A q \in Processes : SessionSound(q)') /\ (\A i \in Instances : InstanceSound(i)')
    BY <1>0, <1>1, SessionsStay
  <1>4. ScriptSound' /\ ReadyOnZero'
    BY <1>0, <1>1, ScriptStays
  <1> QED BY <1>2, <1>3, <1>4 DEF IInv

LEMMA NextInv == IInv /\ [Next]_vars => IInv'
  <1> SUFFICES ASSUME IInv, [Next]_vars PROVE IInv'
    OBVIOUS
  <1>0. Grows
    BY NextGrows
  <1>1. CASE UNCHANGED vars
    BY <1>1, StutterKeeps
  <1>2. CASE \E opt \in Options : Launch(opt)
    BY <1>0, <1>2, LaunchKeeps
  <1>3. CASE ScriptStep
    BY <1>0, <1>3, EnsureRoleKeeps, EnsureDatabaseKeeps, HardenDatabaseKeeps,
       EnsureExtensionsKeeps, RunMigrationsKeeps, CheckHashVectorsKeeps, SeedKeeps,
       ReturnsKeep, VerifyKeeps
    DEF ScriptStep
  <1>4. CASE CrashScript \/ HandOver
    BY <1>0, <1>4, ReturnsKeep, HandOverKeeps
  <1>5. CASE \/ RunMigrateJob
             \/ \E i \in Instances : StartInstance(i) \/ SkipBootstrap(i) \/ StopInstance(i)
    BY <1>0, <1>5, JobAndInstancesKeep
  <1>6. ASSUME NEW p \in Processes, EnsurePublicCollection(p) PROVE IInv'
    BY <1>0, <1>6, EnsurePublicCollectionKeeps
  <1>7. ASSUME NEW p \in {"script", "job"}, Migrate(p) PROVE IInv'
    BY <1>0, <1>7, Distinct, LookUpKeeps, InsertRowsKeeps, CommitMigrationKeeps DEF Migrate
  <1> QED BY <1>1, <1>2, <1>3, <1>4, <1>5, <1>6, <1>7 DEF Next

LEMMA Invariant == Spec => []IInv
  BY InitInv, NextInv, PTL DEF Spec

-----------------------------------------------------------------------------

(* Every variable keeps its type, collections have a catalog and a catalog *)
(* a schema: what is created is created in that order.                     *)
THEOREM TypeCorrect == Spec => []TypeOK
  <1>1. IInv => TypeOK
    <2> SUFFICES ASSUME Types, RowsSound PROVE TypeOK
      BY DEF IInv
    <2>1. base.rev \in Revisions
      BY RecordTypes
    <2>2. (colls # {} => catalog) /\ (catalog => base.rev > 0)
      BY <2>1 DEF RowsSound, Revisions, Head
    <2>3. \A p \in Processes : /\ session[p].pc \in SessionSteps
                               /\ session[p].coll \in {"", jobSlug, ServiceSlug}
      BY DEF Types, Sessions
    <2> QED BY <2>2, <2>3 DEF TypeOK, Types, Bases, Scripts, Revisions
  <1> QED BY Invariant, <1>1, PTL

(* An instance that starts on a migrated database never dies in its        *)
(* bootstrap, whoever else is creating the public collection.              *)
THEOREM MigratedStartsSucceed == Spec => []StartsOnceMigrated
  <1>1. IInv => StartsOnceMigrated
    BY DEF IInv, InstanceSound, StartsOnceMigrated
  <1> QED BY Invariant, <1>1, PTL

(* Exit code 0 of the script means that the database is ready.             *)
THEOREM ZeroMeansReady == Spec => []ReadyOnZero
  <1>1. IInv => ReadyOnZero
    BY DEF IInv
  <1> QED BY Invariant, <1>1, PTL

(* The collection of anonymous places is there when 0012 or a bootstrap    *)
(* has seen to it.                                                         *)
THEOREM PublicCollectionExists == Spec => []PublicCollectionThere
  <1>1. IInv => PublicCollectionThere
    BY DEF IInv, InstanceSound, RowsSound, PublicCollectionThere
  <1> QED BY Invariant, <1>1, PTL

(* What each step does to role and database. *)
LEMMA NextTouches ==
  ASSUME IInv, Next
  PROVE  /\ role' # role => EnsureRole
         /\ base' # base => \/ EnsureDatabase \/ HardenDatabase \/ EnsureExtensions \/ HandOver
                            \/ \E p \in {"script", "job"} : CommitMigration(p)
         /\ script' # script => \/ \E opt \in Options : Launch(opt)
                                \/ ScriptStep \/ CrashScript
  <1> USE DEF UnchangedButSession
  <1>1. CASE (\E opt \in Options : Launch(opt)) \/ ScriptStep \/ CrashScript
    BY <1>1 DEF ScriptStep, Launch, EnsureRole, EnsureDatabase, HardenDatabase, EnsureExtensions,
       RunMigrations, MigrationsReturn, CheckHashVectors, Seed, SeedReturns, Verify, CrashScript
  <1>2. CASE HandOver
    BY <1>2 DEF HandOver
  <1>3. CASE \/ RunMigrateJob
             \/ \E i \in Instances : StartInstance(i) \/ SkipBootstrap(i) \/ StopInstance(i)
    BY <1>3 DEF RunMigrateJob, StartInstance, SkipBootstrap, StopInstance
  <1>4. ASSUME NEW p \in Processes, EnsurePublicCollection(p)
        PROVE  UNCHANGED <<role, member, base, script>>
    BY <1>4 DEF EnsurePublicCollection, FindCatalog, CreateCatalog, FindCollection,
                CreateCollection, CommitCollection
  <1>5. ASSUME NEW p \in {"script", "job"}, Migrate(p)
        PROVE  UNCHANGED <<role, member, script>> /\ (base' = base \/ CommitMigration(p))
    BY <1>5 DEF Migrate, LookUp, InsertRows, CommitMigration
  <1> QED BY <1>1, <1>2, <1>3, <1>4, <1>5 DEF Next

LEMMA DryStep ==
  ASSUME IInv, Next, ~ScriptAt("off"), script.opt.dry, script' # script
  PROVE  UNCHANGED <<role, member, base, catalog, colls, session>>
  <1>0. Types /\ ScriptSession /\ ScriptSound /\ ~Live /\ script.pc # "off"
    BY DEF IInv, Live, ScriptAt
  <1>1. script.pc \notin AfterExtensions /\ session["script"] = NoSession
    BY <1>0 DEF ScriptSound, ScriptSession, AfterExtensions
  <1>2. ScriptStep \/ CrashScript
    BY <1>0, NextTouches DEF Launch, ScriptAt
  <1>3. \/ EnsureRole \/ EnsureDatabase \/ HardenDatabase \/ EnsureExtensions \/ CrashScript
    BY <1>1, <1>2 DEF ScriptStep, RunMigrations, MigrationsReturn, CheckHashVectors, Seed,
       SeedReturns, Verify, ScriptAt, AfterExtensions
  <1>4. CASE EnsureRole
    BY <1>0, <1>4 DEF EnsureRole
  <1>5. CASE EnsureDatabase
    <2>1. (member \/ Live) = member
      BY <1>0, Zenon DEF Types
    <2>2. member' = member
      BY <1>5, <2>1 DEF EnsureDatabase
    <2> QED BY <1>0, <1>5, <2>2 DEF EnsureDatabase
  <1>6. CASE HardenDatabase
    <2>1. base' = [base EXCEPT !.hardened = (base.hardened \/ Live)]
      BY <1>6 DEF HardenDatabase
    <2>2. (base.hardened \/ Live) = base.hardened
      BY <1>0, RecordTypes, Zenon
    <2>3. base' = base
      BY <1>0, <2>1, <2>2 DEF Types, Bases
    <2> QED BY <1>6, <2>3 DEF HardenDatabase
  <1>7. CASE EnsureExtensions
    <2>1. base' = [base EXCEPT !.ext = (base.ext \/ Live)]
      BY <1>7 DEF EnsureExtensions
    <2>2. (base.ext \/ Live) = base.ext
      BY <1>0, RecordTypes, Zenon
    <2>3. base' = base
      BY <1>0, <2>1, <2>2 DEF Types, Bases
    <2> QED BY <1>7, <2>3 DEF EnsureExtensions
  <1>8. CASE CrashScript
    <2>1. session' = [session EXCEPT !["script"] = NoSession]
      BY <1>8 DEF CrashScript
    <2>2. session' = session
      BY <1>0, <1>1, <2>1, Distinct DEF Types
    <2> QED BY <1>8, <2>2 DEF CrashScript
  <1> QED BY <1>3, <1>4, <1>5, <1>6, <1>7, <1>8

(* A dry run changes nothing, whatever it finds, and holds no transaction  *)
(* that being killed could roll back.                                      *)
THEOREM DryRunsMutateNothing == Spec => DryRunMutatesNothing
  <1>1. IInv /\ [Next]_vars =>
          [ ~ScriptAt("off") /\ script.opt.dry /\ script' # script =>
              UNCHANGED <<role, member, base, catalog, colls, session>> ]_vars
    <2> SUFFICES ASSUME IInv, Next
                 PROVE  ~ScriptAt("off") /\ script.opt.dry /\ script' # script =>
                          UNCHANGED <<role, member, base, catalog, colls, session>>
      OBVIOUS
    <2> QED BY DryStep
  <1> QED BY Invariant, <1>1, PTL DEF Spec, DryRunMutatesNothing

LEMMA AdoptingStep ==
  ASSUME IInv, Next
  PROVE  /\ role = "old" /\ role' # "old" => script.opt.reset /\ Live
         /\ base.owner = "other" /\ base' # base =>
              script' = script /\ base' = [base EXCEPT !.owner = "app"]
  <1>0. Types /\ ScriptSound /\ \A p \in Processes : SessionSound(p)
    BY DEF IInv
  <1>1. ASSUME role = "old", role' # "old" PROVE script.opt.reset /\ Live
    BY <1>1, NextTouches, Zenon DEF EnsureRole
  <1>2. ASSUME base.owner = "other", base' # base
        PROVE  script' = script /\ base' = [base EXCEPT !.owner = "app"]
    <2>1. ~EnsureDatabase
      BY <1>2 DEF EnsureDatabase
    <2>2. ASSUME HardenDatabase PROVE FALSE
      <3>1. ~Live /\ base' = [base EXCEPT !.hardened = (base.hardened \/ Live)]
        BY <1>0, <1>2, <2>2 DEF HardenDatabase, ScriptAt, ScriptSound
      <3>2. (base.hardened \/ Live) = base.hardened
        BY <1>0, <3>1, RecordTypes, Zenon
      <3>3. base' = base
        BY <1>0, <3>1, <3>2 DEF Types, Bases
      <3> QED BY <1>2, <3>3
    <2>3. ASSUME EnsureExtensions PROVE FALSE
      <3>1. ~Live /\ base' = [base EXCEPT !.ext = (base.ext \/ Live)]
        BY <1>0, <1>2, <2>3 DEF EnsureExtensions, ScriptAt, ScriptSound
      <3>2. (base.ext \/ Live) = base.ext
        BY <1>0, <3>1, RecordTypes, Zenon
      <3>3. base' = base
        BY <1>0, <3>1, <3>2 DEF Types, Bases
      <3> QED BY <1>2, <3>3
    <2>4. ASSUME NEW p \in {"script", "job"}, CommitMigration(p) PROVE FALSE
      BY <1>0, <1>2, <2>4, Distinct DEF CommitMigration, SessionSound, Migrating
    <2>5. HandOver
      BY <1>2, <2>1, <2>2, <2>3, <2>4, NextTouches
    <2> QED BY <2>5 DEF HandOver
  <1> QED BY <1>1, <1>2

(* An existing role and somebody else's database are touched on request    *)
(* only.                                                                   *)
THEOREM NothingAdopted == Spec => AdoptsNothing
  <1>1. IInv /\ [Next]_vars =>
          [ /\ role = "old" /\ role' # "old" => script.opt.reset /\ Live
            /\ base.owner = "other" /\ base' # base =>
                 script' = script /\ base' = [base EXCEPT !.owner = "app"] ]_vars
    BY AdoptingStep
  <1> QED BY Invariant, <1>1, PTL DEF Spec, AdoptsNothing
=============================================================================
