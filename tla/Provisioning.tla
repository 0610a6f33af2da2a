----------------------------- MODULE Provisioning -----------------------------
(* How an empty PostgreSQL instance becomes a database the service can use: *)
(* the operator's script (scripts/bootstrap_db.py), the migrate job         *)
(* (cli.run_migrate) and the start of instances (main.lifespan), which may  *)
(* overlap, fail half-way and be run again.  SchemaMigrations has the       *)
(* migrations one by one; here a run takes the schema to the head revision  *)
(* and, as 0012 does, creates the default catalog and a collection if they  *)
(* are missing.                                                             *)
EXTENDS Integers, FiniteSets

CONSTANTS
  Instances,     \* instances of the service that start and stop
  Options,       \* the command lines the operator uses
  Slugs,         \* the slugs GEOID_PUBLIC_COLLECTION may have in a migration
  ServiceSlug,   \* the one it has in the service
  MaxCrashes     \* bound on the number of times the script is killed

ASSUME InstancesAssumption == {"script", "job"} \cap Instances = {}
ASSUME SlugsAssumption == "" \notin Slugs \cup {ServiceSlug}
ASSUME OptionsAssumption ==
  Options \subseteq [dry : BOOLEAN, skipMigrate : BOOLEAN, skipSeed : BOOLEAN, reset : BOOLEAN]

VARIABLES
  role,      \* the app role: "none", or whose password it has: "old", "configured"
  member,    \* has the administrator, another role, been granted the app role?
  base,      \* the database: owner, hardened, ext (extensions), rev
  catalog,   \* is the default catalog committed?
  colls,     \* slugs of the committed collections
  script,    \* the operator's run: where it is, its options, what it found, its exit code
  session,   \* transactions that create catalog and collection, by process
  jobSlug,   \* GEOID_PUBLIC_COLLECTION of the migrations
  crashes    \* number of times the script was killed

vars == <<role, member, base, catalog, colls, script, session, jobSlug, crashes>>

Head == 13
Processes == Instances \cup {"script", "job"}
NoSession == [pc |-> "none", cat |-> FALSE, coll |-> "", retried |-> FALSE, since |-> 0]
Unlaunched == [dry |-> FALSE, skipMigrate |-> FALSE, skipSeed |-> FALSE, reset |-> FALSE]

ScriptSteps ==
  {"off", "role", "database", "harden", "extensions", "migrate", "migrating", "vectors",
   "seed", "seeding", "verify"}
SessionSteps ==
  {"none", "catalog", "new catalog", "collection", "new collection", "commit",
   "lookup", "insert", "migrated", "kept", "failed", "skipped"}

TypeOK ==
  /\ role \in {"none", "old", "configured"} /\ member \in BOOLEAN
  /\ base \in [owner : {"none", "app", "other"}, hardened : BOOLEAN, ext : BOOLEAN,
              rev : {0, 11, Head}]
  /\ catalog \in BOOLEAN /\ colls \subseteq Slugs \cup {ServiceSlug}
  /\ script.pc \in ScriptSteps /\ script.exit \in {-1, 0, 1, 3}
  /\ \A p \in Processes :
       /\ session[p].pc \in SessionSteps
       /\ session[p].coll \in {"", jobSlug, ServiceSlug}
  /\ (colls # {} => catalog) /\ (catalog => base.rev > 0)

(* A new instance, one with a role or a database somebody made, and a      *)
(* deployment of an earlier release, started or not.                       *)
Init ==
  /\ role \in {"none", "old"}
  /\ member \in BOOLEAN /\ (member => role = "old")
  /\ base \in [owner : {"none", "other", "app"}, hardened : {FALSE}, ext : BOOLEAN, rev : {0, 11}]
  /\ base.rev = 11 => base.owner = "app" /\ base.ext
  /\ base.owner = "app" => role = "old"
  /\ base.owner = "none" => ~base.ext
  /\ catalog \in IF base.rev = 11 THEN BOOLEAN ELSE {FALSE}
  /\ colls = IF catalog THEN {ServiceSlug} ELSE {}
  /\ script = [pc |-> "off", opt |-> Unlaunched, dbExisted |-> FALSE, exit |-> -1]
  /\ session = [p \in Processes |-> NoSession]
  /\ jobSlug \in Slugs
  /\ crashes = 0

-----------------------------------------------------------------------------
(* ensure_public_collection, in one transaction per process.               *)

HoldsCatalog(p) ==
  session[p].cat /\ session[p].pc \in {"collection", "new collection", "commit", "migrated"}
HoldsCollection(p, slug) ==
  session[p].coll = slug /\ session[p].pc \in {"commit", "migrated"}
OthersHoldCatalog(p) == \E q \in Processes \ {p} : HoldsCatalog(q)
OthersHold(p, slug) == \E q \in Processes \ {p} : HoldsCollection(q, slug)

GoTo(p, pc) == session' = [session EXCEPT ![p].pc = pc]
EndSession(p, how) ==
  session' = [session EXCEPT ![p] = [NoSession EXCEPT !.pc = how]]
FailSession(p) ==
  session' = [session EXCEPT ![p] = [NoSession EXCEPT !.pc = "failed", !.since = session[p].since]]

UnchangedButSession == UNCHANGED <<role, member, base, catalog, colls, script, jobSlug, crashes>>

(* get_or_create_default: before the tables exist, an error nobody expects. *)
FindCatalog(p) ==
  /\ session[p].pc = "catalog"
  /\ IF base.rev = 0 THEN FailSession(p)
     ELSE GoTo(p, IF catalog THEN "collection" ELSE "new catalog")
  /\ UnchangedButSession

(* The INSERT waits for an open row with the slug.  An IntegrityError here *)
(* is outside the try of ensure_public_collection.                         *)
CreateCatalog(p) ==
  /\ session[p].pc = "new catalog" /\ ~OthersHoldCatalog(p)
  /\ IF catalog THEN FailSession(p)
     ELSE session' = [session EXCEPT ![p].cat = TRUE, ![p].pc = "collection"]
  /\ UnchangedButSession

FindCollection(p) ==
  /\ session[p].pc = "collection"
  /\ IF ServiceSlug \in colls THEN GoTo(p, "commit")
     ELSE IF session[p].retried THEN FailSession(p)
     ELSE GoTo(p, "new collection")
  /\ UnchangedButSession

(* Mutant: the error of the loser is not caught. *)
CreateCollectionUncaught(p) ==
  /\ session[p].pc = "new collection" /\ ~OthersHold(p, ServiceSlug)
  /\ IF ServiceSlug \in colls THEN FailSession(p)
     ELSE session' = [session EXCEPT ![p].pc = "commit", ![p].coll = ServiceSlug]
  /\ UnchangedButSession

(* The loser of a race rolls back, its catalog included, and looks again.  *)
CreateCollection(p) ==
  /\ session[p].pc = "new collection" /\ ~OthersHold(p, ServiceSlug)
  /\ session' = [session EXCEPT ![p] =
       IF ServiceSlug \in colls
       THEN [@ EXCEPT !.pc = "catalog", !.cat = FALSE, !.retried = TRUE]
       ELSE [@ EXCEPT !.pc = "commit", !.coll = ServiceSlug]]
  /\ UnchangedButSession

(* Mutant: the caller takes the flush of ensure_public_collection for a commit. *)
CommitCollectionNot(p) ==
  /\ session[p].pc = "commit"
  /\ EndSession(p, "kept")
  /\ UNCHANGED <<role, member, base, catalog, colls, script, jobSlug, crashes>>

CommitCollection(p) ==
  /\ session[p].pc = "commit"
  /\ catalog' = (catalog \/ session[p].cat)
  /\ colls' = colls \cup ({session[p].coll} \ {""})
  /\ EndSession(p, "kept")
  /\ UNCHANGED <<role, member, base, script, jobSlug, crashes>>

EnsurePublicCollection(p) ==
  \/ FindCatalog(p) \/ CreateCatalog(p) \/ FindCollection(p)
  \/ CreateCollection(p) \/ CommitCollection(p)

-----------------------------------------------------------------------------
(* A run of the migrations to head, as one transaction.                    *)

(* Mutant: 0012 counts on a catalog that only a start of the service makes. *)
LookUpNoCatalog(p) ==
  /\ session[p].pc = "lookup"
  /\ session' = [session EXCEPT ![p] =
       IF base.rev = Head THEN [NoSession EXCEPT !.pc = "kept"]
       ELSE [@ EXCEPT !.pc = "insert", !.since = base.rev,
                      !.coll = IF jobSlug \in colls THEN "" ELSE jobSlug]]
  /\ UnchangedButSession

(* 0012 looks the collection up by its slug, then the catalog. *)
LookUp(p) ==
  /\ session[p].pc = "lookup"
  /\ session' = [session EXCEPT ![p] =
       IF base.rev = Head THEN [NoSession EXCEPT !.pc = "kept"]
       ELSE [@ EXCEPT !.pc = "insert", !.since = base.rev,
                      !.coll = IF jobSlug \in colls THEN "" ELSE jobSlug,
                      !.cat = jobSlug \notin colls /\ ~catalog]]
  /\ UnchangedButSession

(* Its INSERTs, and the DDL that keeps other runs waiting.  A row or a     *)
(* revision somebody else has committed meanwhile fails the run.           *)
InsertRows(p) ==
  /\ session[p].pc = "insert"
  /\ \A q \in Processes \ {p} : session[q].pc # "migrated"
  /\ session[p].cat => ~OthersHoldCatalog(p)
  /\ session[p].coll # "" => ~OthersHold(p, session[p].coll)
  /\ IF base.rev # session[p].since \/ (session[p].cat /\ catalog) \/ session[p].coll \in colls
     THEN FailSession(p) ELSE GoTo(p, "migrated")
  /\ UnchangedButSession

CommitMigration(p) ==
  /\ session[p].pc = "migrated"
  /\ base' = [base EXCEPT !.rev = Head]
  /\ catalog' = (catalog \/ session[p].cat)
  /\ colls' = colls \cup ({session[p].coll} \ {""})
  /\ EndSession(p, "kept")
  /\ UNCHANGED <<role, member, script, jobSlug, crashes>>

Migrate(p) == LookUp(p) \/ InsertRows(p) \/ CommitMigration(p)

-----------------------------------------------------------------------------
(* The operator's run of bootstrap_db.main, one action per step.           *)

ScriptAt(pc) == script.pc = pc
ScriptTo(pc) == script' = [script EXCEPT !.pc = pc]
Exit(code) == script' = [script EXCEPT !.pc = "off", !.exit = code]
Live == ~script.opt.dry

Launch(opt) ==
  /\ ScriptAt("off")
  /\ script' = [pc |-> "role", opt |-> opt, dbExisted |-> FALSE, exit |-> -1]
  /\ UNCHANGED <<role, member, base, catalog, colls, session, jobSlug, crashes>>

EnsureRole ==
  /\ ScriptAt("role")
  /\ ScriptTo("database")
  /\ role' = IF Live /\ (role = "none" \/ script.opt.reset) THEN "configured" ELSE role
  /\ UNCHANGED <<member, base, catalog, colls, session, jobSlug, crashes>>

(* Mutants: the owner of an existing database is not looked at, and an     *)
(* existing database is an error.                                          *)
EnsureDatabaseAdopts ==
  /\ ScriptAt("database")
  /\ script' = [script EXCEPT !.pc = "harden", !.dbExisted = base.owner # "none"]
  /\ base' = IF Live /\ base.owner = "none" THEN [base EXCEPT !.owner = "app"] ELSE base
  /\ member' = (member \/ Live)
  /\ UNCHANGED <<role, catalog, colls, session, jobSlug, crashes>>
EnsureDatabaseOnce ==
  /\ ScriptAt("database")
  /\ IF base.owner # "none" THEN Exit(1) ELSE ScriptTo("harden")
  /\ base' = IF Live /\ base.owner = "none" THEN [base EXCEPT !.owner = "app"] ELSE base
  /\ member' = (member \/ Live)
  /\ UNCHANGED <<role, catalog, colls, session, jobSlug, crashes>>

(* The GRANT of the app role to the administrator comes before the look at *)
(* the owner: a run that refuses the database has made it too.             *)
EnsureDatabase ==
  /\ ScriptAt("database")
  /\ IF base.owner = "other" THEN Exit(1)
     ELSE script' = [script EXCEPT !.pc = "harden", !.dbExisted = base.owner = "app"]
  /\ base' = IF Live /\ base.owner = "none" THEN [base EXCEPT !.owner = "app"] ELSE base
  /\ member' = (member \/ Live)
  /\ UNCHANGED <<role, catalog, colls, session, jobSlug, crashes>>

(* Mutant: the statement is sent without _run. *)
HardenDatabaseDry ==
  /\ ScriptAt("harden")
  /\ IF Live \/ script.dbExisted THEN ScriptTo("extensions") ELSE Exit(0)
  /\ base' = [base EXCEPT !.hardened = TRUE]
  /\ UNCHANGED <<role, member, catalog, colls, session, jobSlug, crashes>>

(* A dry run that found no database ends here. *)
HardenDatabase ==
  /\ ScriptAt("harden")
  /\ IF Live \/ script.dbExisted THEN ScriptTo("extensions") ELSE Exit(0)
  /\ base' = [base EXCEPT !.hardened = @ \/ Live]
  /\ UNCHANGED <<role, member, catalog, colls, session, jobSlug, crashes>>

(* The privileges checked here come with the ownership. *)
EnsureExtensions ==
  /\ ScriptAt("extensions")
  /\ IF Live THEN ScriptTo("migrate") ELSE Exit(0)
  /\ base' = [base EXCEPT !.ext = @ \/ Live]
  /\ UNCHANGED <<role, member, catalog, colls, session, jobSlug, crashes>>

(* `geoid migrate` in a process of its own, connecting as the app role. *)
RunMigrations ==
  /\ ScriptAt("migrate")
  /\ IF script.opt.skipMigrate THEN ScriptTo("seed") /\ UNCHANGED session
     ELSE IF role # "configured" THEN Exit(1) /\ UNCHANGED session
     ELSE ScriptTo("migrating") /\ GoTo("script", "lookup")
  /\ UNCHANGED <<role, member, base, catalog, colls, jobSlug, crashes>>

MigrationsReturn ==
  /\ ScriptAt("migrating") /\ session["script"].pc \in {"kept", "failed"}
  /\ IF session["script"].pc = "failed" THEN Exit(1) ELSE ScriptTo("vectors")
  /\ session' = [session EXCEPT !["script"] = NoSession]
  /\ UNCHANGED <<role, member, base, catalog, colls, jobSlug, crashes>>

(* At the head revision the deployed recipe is the reference's. *)
CheckHashVectors ==
  /\ ScriptAt("vectors")
  /\ IF base.rev = Head THEN ScriptTo("seed") ELSE Exit(1)
  /\ UNCHANGED <<role, member, base, catalog, colls, session, jobSlug, crashes>>

Seed ==
  /\ ScriptAt("seed")
  /\ IF script.opt.skipSeed THEN ScriptTo("verify") /\ UNCHANGED session
     ELSE IF role # "configured" THEN Exit(1) /\ UNCHANGED session
     ELSE ScriptTo("seeding") /\ GoTo("script", "catalog")
  /\ UNCHANGED <<role, member, base, catalog, colls, jobSlug, crashes>>

SeedReturns ==
  /\ ScriptAt("seeding") /\ session["script"].pc \in {"kept", "failed"}
  /\ IF session["script"].pc = "failed" THEN Exit(1) ELSE ScriptTo("verify")
  /\ session' = [session EXCEPT !["script"] = NoSession]
  /\ UNCHANGED <<role, member, base, catalog, colls, jobSlug, crashes>>

(* Mutant: the revision read back is printed and not compared. *)
DriftAnyRevision == base.rev = 0 \/ ~base.ext \/ ~catalog \/ colls = {}
Drift == base.rev # Head \/ ~base.ext \/ ~catalog \/ colls = {}

Verify ==
  /\ ScriptAt("verify")
  /\ Exit(IF role # "configured" THEN 1 ELSE IF Drift THEN 3 ELSE 0)
  /\ UNCHANGED <<role, member, base, catalog, colls, session, jobSlug, crashes>>

ScriptStep ==
  \/ EnsureRole \/ EnsureDatabase \/ HardenDatabase \/ EnsureExtensions
  \/ RunMigrations \/ MigrationsReturn \/ CheckHashVectors
  \/ Seed \/ SeedReturns \/ Verify

(* Killed between two steps, or with a transaction open. *)
CrashScript ==
  /\ ~ScriptAt("off") /\ crashes < MaxCrashes
  /\ Exit(1)
  /\ session' = [session EXCEPT !["script"] = NoSession]
  /\ crashes' = crashes + 1
  /\ UNCHANGED <<role, member, base, catalog, colls, jobSlug>>

(* What the message of ensure_database asks the administrator to run, and  *)
(* what takes a member of the role that is to own the database.            *)
HandOver ==
  /\ base.owner = "other" /\ member
  /\ base' = [base EXCEPT !.owner = "app"]
  /\ UNCHANGED <<role, member, catalog, colls, script, session, jobSlug, crashes>>

-----------------------------------------------------------------------------
(* The migrate job and the instances, deployed with the configured password *)

Reachable == base.owner = "app" /\ base.ext /\ role = "configured"

RunMigrateJob ==
  /\ Reachable
  /\ session["job"].pc \in {"none", "kept", "failed"}
  /\ session' = [session EXCEPT !["job"] = [NoSession EXCEPT !.pc = "lookup"]]
  /\ UnchangedButSession

StartInstance(i) ==
  /\ Reachable
  /\ session[i].pc \in {"none", "failed"}
  /\ session' = [session EXCEPT ![i] = [NoSession EXCEPT !.pc = "catalog", !.since = base.rev]]
  /\ UnchangedButSession

(* The database does not answer, or not to the end: what the session held   *)
(* is rolled back, and the instance serves without its bootstrap.           *)
SkipBootstrap(i) ==
  /\ session[i].pc \in {"catalog", "new catalog", "collection", "new collection", "commit"}
  /\ EndSession(i, "skipped")
  /\ UnchangedButSession

StopInstance(i) ==
  /\ session[i].pc \in {"kept", "skipped"}
  /\ session' = [session EXCEPT ![i] = NoSession]
  /\ UnchangedButSession

Next ==
  \/ \E opt \in Options : Launch(opt)
  \/ ScriptStep \/ CrashScript \/ HandOver \/ RunMigrateJob
  \/ \E i \in Instances : StartInstance(i) \/ SkipBootstrap(i) \/ StopInstance(i)
  \/ \E p \in Processes : EnsurePublicCollection(p)
  \/ \E p \in {"script", "job"} : Migrate(p)

(* Transactions end and those that wait get their turn, the script goes on  *)
(* until it exits, the administrator hands the database over when told to   *)
(* and tries again with a full run.                                         *)
FullRun == [Unlaunched EXCEPT !.reset = TRUE]
Fairness ==
  /\ WF_vars(ScriptStep) /\ WF_vars(HandOver) /\ SF_vars(Launch(FullRun))
  /\ \A p \in Processes \ {"script"} : WF_vars(EnsurePublicCollection(p))
  /\ WF_vars(Migrate("job"))
  /\ SF_vars(Migrate("script") \/ EnsurePublicCollection("script"))

Spec == Init /\ [][Next]_vars /\ Fairness

-----------------------------------------------------------------------------
(* Properties.                                                             *)

Ready ==
  /\ role = "configured" /\ base.owner = "app" /\ base.hardened /\ base.ext
  /\ base.rev = Head /\ catalog /\ colls # {}

(* An instance that starts on a migrated database never dies in its        *)
(* bootstrap, whoever else is creating the public collection: 0012 has     *)
(* made the catalog, and the loser of the race for the collection adopts   *)
(* the winner's (bootstrap.py:20-23, :44-47).                              *)
StartsOnceMigrated ==
  \A i \in Instances : session[i].since = Head => session[i].pc # "failed"

(* Exit code 0 of a run that is not dry means that the service can start:  *)
(* every step of the script is done, whichever were skipped, and the       *)
(* collection the service writes anonymous places to is there unless the   *)
(* seed was skipped and 0012 ran with another slug.                        *)
ReadyOnZero ==
  ScriptAt("off") /\ script.exit = 0 /\ Live =>
    /\ Ready
    /\ jobSlug = ServiceSlug \/ ~script.opt.skipSeed => ServiceSlug \in colls

(* A dry run changes nothing, whatever it finds ("nothing mutated",        *)
(* bootstrap_db.py:627 and :642).                                          *)
DryRunMutatesNothing ==
  [][ ~ScriptAt("off") /\ script.opt.dry /\ script' # script =>
        UNCHANGED <<role, member, base, catalog, colls, session>> ]_vars

(* The password of a role and the database of another owner are touched    *)
(* only on request: --reset-app-password, or an ALTER DATABASE made by     *)
(* hand (bootstrap_db.py:290-295 and :326-336).                            *)
AdoptsNothing ==
  [][ /\ role = "old" /\ role' # "old" => script.opt.reset /\ Live
      /\ base.owner = "other" /\ base' # base =>
           script' = script /\ base' = [base EXCEPT !.owner = "app"] ]_vars

(* The collection of anonymous places exists once 0012 has run with the    *)
(* service's slug, and while an instance serves whose bootstrap was not    *)
(* skipped.                                                                *)
PublicCollectionThere ==
  \/ base.rev = Head /\ jobSlug = ServiceSlug
  \/ \E i \in Instances : session[i].pc = "kept"
  => ServiceSlug \in colls

(* Whatever was there at first, however often the script is killed or      *)
(* beaten by an instance or by the migrate job, repeating it ends with a   *)
(* database the service can use, for good.                                 *)
Converges == <>[](Ready /\ ServiceSlug \in colls)

=============================================================================
