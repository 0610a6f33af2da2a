# GeoID: specifications, model checks and proofs

GeoID registers geometries. A submitted geometry is reduced to canonical bytes,
the bytes to a hash, the hash to its **geoid**; one geometry has one geoid,
whoever submits it, however often, in whichever listing of its vertices. Behind
the HTTP API (FastAPI, SQLAlchemy asyncio) there is one PostgreSQL database, and
every rule of the registry is enforced by a constraint, a trigger or a statement
of it. What is hard about the program is therefore what happens when requests
overlap, retry, fail half-way or crash, and whether two implementations of the
same canonical form (Python and SQL) are one function. That is what the modules
of this directory are about.

Paths below are relative to the repository.

## 1. Inventory

| Component | State it keeps | Operations | Talks to |
|---|---|---|---|
| Mint path: `services/registry_service.py`, `repositories/place_repo.py`, `api/places.py` | `geoid_registry`, `place` | `create_place` (one feature), `create_places_bulk` (a batch in one transaction, a SAVEPOINT per feature), `insert_place`, `_resolve_incumbent` | grants (authorization), identity recipe (the hash, in SQL), session, error mapping |
| Grants and authorization: `api/grants.py`, `services/authz_service.py`, `repositories/grant_repo.py` | `collection_grant`: role and recorded subject by email | `load_caller_grant`, `backfill_subject`, `create_grant`, `delete_grant`, last-owner guard | every protected endpoint; the token's subject and email |
| Session: `db.py` | the open transaction, the pool | `get_session`: yield, commit, rollback; `statement_timeout` | every handler |
| Error mapping: `api/errors.py`, `services/exceptions.py` | none | exception to status and body | every handler |
| Identity recipe v2: `domain/geometry_identity.py` and migration `0008` | none (pure) | `canonical_bytes`, `geoid_canonical_bytes_v2` | the schema (is it degenerate?), `insert_place` (the hash) |
| Identifiers: `domain/identifiers.py` | `_last_ms`, `_counter` | `uuid7`, `geoid_from_geom_hash` | mint path, change log |
| Schema and migrations: `migrations/` | tables, constraints, unique indexes, triggers, functions, `dedup_recipe_stamp` | upgrade and downgrade of thirteen revisions, one transaction a run | everything; instances that mint meanwhile |
| Bootstrap: `services/bootstrap.py`, `main.py`, `repositories/catalog_repo.py` | default catalog, public collection | `ensure_public_collection`, lifespan | session, migration `0012` |
| Deployment scripts: `scripts/bootstrap_db.py`, `cli.py` | role, database, extensions | create, harden, migrate, verify the hash, seed, verify; dry run | migrations, bootstrap |
| Reads and resolver: `api/responses.py`, `api/places.py`, `services/listing_service.py` | none; the caches of clients and CDNs | resolve, list, bulk resolve, ETag and 304 | `place`, grants (visibility) |
| Place schema and formats: `schemas/place.py`, `domain/geometry_format.py` | none | parse, validate, reject | identity recipe |
| Authentication: `auth/oidc.py`, `deps.py` | cached JWKS | verify a token | authorization |
| Change log | `change_log` | one row per place, by trigger | mint path |
| Configuration, health, OGC pages | settings | static documents | - |

**What is hard.** `PROJECT.json` lists the hazards line by line. In short:

- *Two unique indexes, one arbiter.* `INSERT ... ON CONFLICT` names the
  `geom_hash` constraint; a racing twin may meet the primary key instead and
  get a 23505 the arbiter does not absorb. One retry follows.
- *Snapshots.* A statement that lost to a row committed after its snapshot does
  not see that row; `_resolve_incumbent` reads again.
- *Two legs.* Registry and place rows are two INSERTs; the second may fail after
  the first, in a batch without ending the transaction.
- *Rollback scopes.* A SAVEPOINT in a batch, the whole transaction in a single
  mint; the authorization has already written in it.
- *Waiting.* A uniqueness check waits for the open transaction that holds the
  key. Batches hold many keys and take them in submission order.
- *Check, then write.* The last-owner guard counts and then deletes or demotes;
  `load_caller_grant` reads and then records the caller's subject.
- *Two twins of one recipe.* Rounding ties, repeated vertices, pinch points,
  direction, start vertex, order of holes and parts.
- *After the answer.* The commit comes after the response has been sent.
- *Schema under load.* A migration is one transaction of many statements. Some
  lock the tables instances write, some do not, and one of them checks that the
  registry is empty before it has locked anything.
- *Cold starts.* The script, the migrate job and any number of instances create
  the same catalog and the same collection, each in its own transaction, and each
  may be killed or repeated.
- *Copies.* Responses are cached by others under a validator that is computed
  without looking at the body, or with no cache header at all, while releases roll
  and grants are withdrawn.
- *One counter, one clock.* Threads share a millisecond and a counter, and the
  clock may be set back.

**What makes each component correct.** Registry: at most one geoid for a
geometry, registry and place rows in pairs, an `external_id` names one place of
a managed collection, what was reported as accepted resolves, resubmission is
safe, every request ends. Grants: a recorded subject is not replaced or
bypassed, owners come from sysadmins, a collection that has an owner keeps one.
Identity: the same shape has the same bytes, different shapes have different
ones, the twins agree. Identifiers: strictly increasing. Schema: a database has
the schema of its revision whatever way it took there, guards on, one recipe,
rows that fit the constraints. Provisioning: exit code 0 means ready, a dry run
changes nothing, nobody else's role or database is taken, repeating the script
converges. Resolver: a 304 never stands for another body, metadata reaches those
entitled to it at that moment, but for what a private cache keeps of a release
without caching (section 8).

## 2. Plan

Built, in this order, the most important behaviour first:

1. `GeoidRegistry` (abstract) and `MintTransactions`, which implements it.
2. `CollectionGrants`.
3. `GeometryIdentity`.
4. `SchemaMigrations`: thirteen migrations, with instances that mint beside them.
5. `Provisioning`: script, migrate job, cold starts of instances.
6. `ResolverCache`.
7. `Uuid7`.

Each module has its proofs in a module next to it (section 10).
What would come next:

- `GrantedMint`, the composition of mints and grants: a write under a grant that
  is revoked before the commit. The code decides once per request, as both
  modules do, and no document asks for more; there is no property to state yet.
- A refinement of `Provisioning`'s migration step by `SchemaMigrations`: they share
  the revision and the collections, but the one has the script's processes and the
  other the statements.
- A Point in `GeometryIdentity`, and the floating-point product before the
  rounding, which would need a model of IEEE arithmetic.

## 3. The mint path

### `MintTransactions` and the code

A request is one transaction under READ COMMITTED. `pc` says where it is, and a
step ends where the database may make the request wait or another one may see a
difference.

| `pc` | Where the code is | Actions that leave it |
|---|---|---|
| `new` | before authorization | `RefuseMalformed` (413, 404, 422), `Authorize` (`_authorize_write`: the grant, its subject, 403) |
| `next` | before a feature, or at the end | `RejectSchema`, `RejectGeometry` (no geometry or no hash, so no row), `FailOnNul`, `BeginInsert`, `Respond` |
| `arbiter` | in `insert_place`, the statement has its snapshot | `Arbitrate`: ON CONFLICT looks at committed rows and its own |
| `insert` | the registry row goes in | `InsertRegistry`: the primary key may still refuse it, `LoseRace` |
| `place` | the place leg of the same statement, the registry row is written | `RejectPlace`: a CHECK of `place` (23514) refuses it, `InsertPlace`: the `external_id` index may |
| `resolve` | dedup loser, incumbent unseen | `ResolveIncumbent`, a fresh snapshot per read |
| `answered` | response sent, `get_session` resumes | `Commit` |
| `kept`, `lost` | ended | - |

`regs`, `plcs` and `binds` are the open rows of a transaction; `registry`,
`place` and `bound` the committed ones. `Reject` and `LoseRace` hold the
difference between the paths: a batch rolls back to the feature's SAVEPOINT, a
single mint rolls back everything and, after a lost race, starts over.
A geometry the database refuses is one of two kinds: an *unhashable* one fails the
statement before its first row (PostGIS cannot read it, or the recipe raises), an
*invalid* one has a hash, goes through the arbiter and its waits like any other, and
is refused by the CHECKs of `place` when the registry row is there already. A listing
of the second kind whose hash is registered is therefore accepted, as the code does.
`Crash`, `StatementTimeout` and `DeadlockDetected` may end a request at any
place where the code or the database can.

What it abstracts: a geometry is its canonical hash (`GeometryIdentity` is about
that step), so the drift guard can only fire because of a race, which is the
question; a place stands for itself and its change-log row, which a trigger
writes in the same transaction; a sysadmin's mint is a mint with a grant that
writes; a SAVEPOINT is the set of rows to take back. A statement is timed out
only while it waits. The subject of a grant is recorded or not; whose it is, is
`CollectionGrants`' business.

### `GeoidRegistry`

What the registry promises: a geometry has at most one owner, a request claims
geometries and is then kept, all its claims registered at once, or lost without
a trace. `MintTransactions` implements it under the mapping at the end of the
module: `owner` is read off the committed registry rows, `claims` are the
features reported as accepted, `fate` is the transaction's. From that
specification alone it follows that kept claims are registered and that an owner
never changes (section 10).

### Runs

| Run | Question | Bounds |
|---|---|---|
| `mint_requests` | Safety, `RegisteredNeverRejected`, the refinement, and whether every request ends | either two requests of 21 jobs each (both paths, two geometries in both orders, one `external_id` on two geometries, twins in a batch, five kinds of feature, refused callers, public collection), or three of four jobs over three geometries that can wait in a ring or for an `external_id` |
| `v_nul` | "one bad feature never aborts the batch" | one batch |
| `v_subject` | "records the subject on first authorized access" | two first writes |

Why two requests are enough for the wide choice of jobs: each check of the code
involves one request and one holder of the key, or one that has committed; the
third request only adds longer wait chains, which the jobs around the ring have
(where there are two, the third request is one that is refused at once). Two
geometries and one `external_id` are what it takes to lock in opposite orders and
to put one id on two geometries. `MaxFeatures` is 3 so that one of the jobs
exceeds it; `SlugRetries` is the code's 3. The proofs remove these bounds from
every safety property (section 10).

**Fairness.** `Handle(t)` is weakly fair: the event loop resumes a handler whose
statement has returned, and nothing in the code parks one. `DeadlockDetected(t)`
is weakly fair: PostgreSQL looks for a cycle after `deadlock_timeout` and breaks
it. No fairness on `Crash` or `StatementTimeout`: `EveryRequestEnds` holds
without anybody being shot. It is the property that fails when an error path
leaves its transaction open (its mutant), since the keys of that transaction
then block others for ever.

## 4. Grants

`CollectionGrants` has one collection's table, `email -> role and subject`. A
request loads its caller's grant (`LoadCallerGrant`: an admin has none looked
up, one recorded for another subject is not honored), records the subject
(`BackfillSubject`: `UPDATE ... WHERE principal_subject IS NULL`, the loaded
grant is returned whatever the UPDATE matched), then mints, grants,
revokes, or reads: `Read` is `list_grants` and the resolver of external ids, which
change no grant but may record the subject of their caller.
`ReadTarget` and `CountOwners` are the last-owner guard, two statements before
the one that writes. A write waits for the transaction that has written the
row, and then applies to what that one committed; an UPDATE or DELETE does not
wait for a row that is only being inserted. Emails are normalised and verified
already; a caller without one is a caller whose address has no row.

| Run | Question | Bounds |
|---|---|---|
| `grants_overlap` | What holds however requests overlap, what is lost to an overlap only, and that they end | three requests of eight kinds that wait for, undo or race each other; from tables with two owners, with one and without any |
| `v_last_owner` | The guard "Keeps the invariant one rule with no bypass tier" | two overlapping requests |
| `v_subject_race` | "A grant whose recorded sub differs from the caller's is NOT honored" | two first accesses at once |

The last two are disagreements (section 11): the guard counts without a lock, and a
grant is honored as it was loaded. `GrantsHistory` says what is left of the two rules
when requests overlap as they may. It adds two history variables, and no step, to
`CollectionGrants`: `ownersMoved[t]`, whether the owners have changed since `t` passed
the guard, and `grantMoved[t]`, whether who holds the grant of `t`'s caller has changed
since `t` loaded it. `LastOwnerLostToOverlap`: the request that takes the last owner
away is one behind whose back the owners have changed, so that no order of grants,
demotions and revocations does it otherwise, with whatever else under way.
`HonoredUnlessOvertaken`: a request served on a grant leaves it recorded for its own
caller's subject, unless it revokes it or somebody else has changed who holds it. Both
fail at once if the guard leaves out demotions, or if the email alone decides.

Three requests allow a cycle of two and an outsider who changes the row they
wait for. Three emails are a caller, a target and a bystander who decides
whether an owner is left. Fairness is that of the mint path.

## 5. The identity recipe

`GeometryIdentity` has both implementations side by side, translated line by
line: `CanonRing` (a forward pass over what was kept, a rotation by `min`) and
`SqlCanonRing` (a `lag()` filter, a loop over the starts that tie), and the
bodies of polygons, multipolygons and multipoints built from either. The loops are
recursive functions, a sort is any permutation that is in order: what the proofs
of section 10 are about is what TLC evaluates. Positions
are listed in half cells, so that every other coordinate is a rounding tie; a
word is taken modulo `WordSize`, so that negative coordinates sort as bytes do,
after the positive ones. Next to them stands the reference: `Cycle`, the cells a ring goes
through, and `SameShape`, equality up to start, direction and order of holes,
parts and points.

The behaviours are a client's: it registers a listing, then lists the same
geometry otherwise, one change at a time (`Relist`), repeating a vertex with
another position of the same cell included. `identity_recipe` checks in every
state that the bytes are the registered ones (`SameShapeSameGeoid`), that the
twins agree, on rejection too (`TwinsAgree`; the schema asks the Python one, the
database stores the SQL one), and that a listing with the bytes of another
registered geometry is a listing of that geometry (`DistinctShapesApart`).

Bounds: 315 registered geometries. All triangles and quadrangles over four
cells (of which many collapse), five rings of six vertices that pass through
their least vertex twice, which is what the tie-break is for, polygons with two
holes, multipolygons with and without holes, multipoints of up to three
points with duplicates. `MaxRepeats = 2` lets the forward pass and the
wrap-around trim each have more than one vertex to drop; `MaxPositions = 8` keeps
rings of multi-part geometries from growing, whose rings go through the same
operator. `WordSize = 16` is wide enough for the cells and the counts, as 2^64 is
for the program (|coordinate| <= 1.8e9).

What the service takes is `IsListing`: positions in bounds (`Fits`), not empty
(`_validate_lonlat_bounds`), rings closed (geojson-pydantic). TLC evaluates it for
the registered geometries (`ListingAssumption`); that a relisting keeps it is proved.
A MultiPolygon with a polygon that has no ring at all is left out: the Python recipe
has no bytes for it, the SQL recipe finds a ring of no vertices and raises.

Left out: the floating-point product before the rounding, SHA-256, the stamping
of the digest, and a Point, whose bytes are its two words.

## 6. Schema and migrations

`SchemaMigrations` has the thirteen migrations, up and down, as operators that take
a database through their statements, `d ++ statement ++ statement`. A statement
is what PostgreSQL is asked to do to one object: create, replace, drop, alter,
stamp the recipe, demand an empty `place`, erase properties, or refuse. Objects are the tables,
columns, constraints, indexes, functions and triggers the migrations name; a
*form* tells the versions of one object apart (the recipe a hash function computes,
whether its `search_path` is pinned, whether a trigger is enabled). `Execute` is the
database: `Effect` is what a statement does, and `Refused` what fails: a `create` of
what exists, a `drop` of what does not or of what something else references, a SQL
function whose callee is missing, a constraint that rows violate (`Violated`), an
UPDATE that the immutability trigger refuses. A statement that fails rolls the whole
run back, since `migrations/env.py` opens one transaction per run. Of
`dedup_recipe_stamp` the model keeps the latest row. `SchemaAt(rev)`, which the runs
compare with, is a table of which objects live at a revision and in which form; it
shares nothing with the migrations but the names.

A run (`ReadVersion`, `CheckEmpty`, `Migrate` for each migration, `CommitRun`,
`CrashRun`) goes from the revision it reads to any other, up or down. DDL on `place`
and `collection` waits for open mints and keeps new ones out until the commit
(`Locking` says which migrations do); until it has locked `place`, a run sees the rows
that others commit (`Work`). A second run waits for the first and then finds its own
UPDATE of `alembic_version` without a row to match. Around it instances mint rows of
the kinds the constraints tell apart, and create the public collection at their start.
`quiet` says that the service is stopped while a migration runs; both are tried, since
nothing in the repository demands it.
`jobSlug` is `GEOID_PUBLIC_COLLECTION` in the migrate job: `0012` reads it from its
environment, so it may differ from the service's.

| Run | Question | Bounds |
|---|---|---|
| `schema_history` | Does every way up and down, past failures, crashes and mints, lead to the schema of the revision, with its guards on, its functions resolvable, its stamp true and rows that fit? | two migrators, three runs to any revision (enough for up, down and up again, and for two at once), one instance, three kinds of submission (a polygon twice, a point, an `external_id` shared) |
| `v_recipe_guard` | "this migration REFUSES to run on a non-empty registry" | one migrator, two runs, one instance |

`RecipeSwitchesEmpty` is conditional, and `v_recipe_guard` shows that the condition
is needed: a run that starts exactly at 0007, or goes
down from 0008, has the empty-registry guard (`0008:68`) as its first statement,
before anything is locked, and a mint that commits between the guard and the
function's replacement leaves a v1 row under v2. With the service stopped, or in a
run that has locked `place` before, that cannot happen, and the property says so.
`PublicCollectionExempt` assumes that job and service are configured alike;
without that the index exempts a collection nobody writes anonymously to. Slugs are
fixed in the model: a public collection that is renamed or made again after `0012`
leaves the exemption behind, which its docstring calls a known ceiling. The run
may stop when its runs are used up, so deadlock is not checked.

## 7. Provisioning

`Provisioning` puts together the processes that turn an empty PostgreSQL into a
database the service can use. `script` is the operator's `bootstrap_db.main`, one
action per step (`EnsureRole` to `Verify`), each committed by itself; it can be
killed between any two, or with a transaction of its own open. `session[p]` is a
transaction of process `p` in `ensure_public_collection` (`FindCatalog` to
`CommitCollection`) or in a run of the migrations (`LookUp`, `InsertRows`,
`CommitMigration`), where `0012` creates the same two rows. INSERTs wait for an open
row with the same slug and then fail on the committed one; what happens then
differs: the bootstrap looks again for the collection (`bootstrap.py:44-47`) and
dies of the catalog (`:25` is outside the `try`), a migration fails.
`SkipBootstrap` is an instance whose database did not answer (`main.py:78`): it
serves without its bootstrap until it is started again. `EnsureDatabase` grants the script's role to the administrator before it looks at the
owner (`member`): the one statement a run sends before it may refuse. It takes nothing from
anybody, which is what `AdoptsNothing` asks; a dry run does not send it. The administrator's
`HandOver` is the `ALTER DATABASE` the script prints for a database somebody else
owns. Migrations are one step to the head revision here; 11 stands for a
deployment of an earlier release.

| Run | Question | Bounds |
|---|---|---|
| `provisioning` | What do an exit code, a dry run, a start and a served instance mean, and does repeating the script converge? | two instances (a winner and a loser), the migrate job, the script killed at most once (`MaxCrashes`), four command lines (full, dry, `--skip-migrate`, `--skip-seed`), every initial role, owner, revision and catalog, two slugs |

**Fairness.** The script goes on until it exits, transactions of others end, the
administrator hands the database over when told to: weak fairness. The full run
is launched again and again, and a step of the script's own session is taken if it
is possible again and again: strong fairness, since others' sessions disable it
while they hold a key, and PostgreSQL serves waiters in order. Nothing forces an
instance to start or to stop.

Read off the model while it was written, and stated by the properties only as far
as they hold: with `--skip-seed` and another slug in the migrate job the script
exits 0 without the service's collection; `--skip-migrate` on a fresh database
without `--skip-seed` ends in a traceback and exit code 1; an instance that starts
on revision 11 without a catalog can lose the race for it and die.

## 8. Resolver and caches

`ResolverCache` has the two single-place resolvers as HTTP sees them: content
negotiation, the validator built from id, format and release salt, the directives of
`responses.resolver_cache`, If-None-Match in its three shapes, and one stored
response. That is in the shared cache or in the cache of one user agent
(`Agents`), and is reused as RFC 9111 allows: URL and Vary match, and it is fresh,
or freshened by a 304 that carries its tag. Releases with another version, another base
URL or without caching roll meanwhile, two of them may serve at once, places are
minted, grants come and go. Releases of one version are taken to have one code.

`Keepers` says who may store an answer. A 200 marked `public` any cache may. One marked
`private, no-store` none does. A release with `resolver_cache_max_age` 0, the default,
sends neither Cache-Control nor Vary: such a 200 may be kept for a while of the cache's
choosing (RFC 9111, 4.2.2) by a user agent's cache, metadata included, and by a shared
one if the request had no `Authorization` (3.5); it is then found by its URL alone. So a
user agent may show its user metadata after his grant is withdrawn, or to whoever
else uses the agent. `MetadataStaysPrivate` says that this is all that can happen: metadata
that reaches somebody who may not see it at that moment was sent by a release with
caching off, to the same agent, and comes from that agent's own cache. No shared
cache ever has any, and a release with caching on adds nothing, also while
releases of both kinds serve next to each other. No document of the repository says
what a private cache may do, so this is not a disagreement with one.

One copy is enough because both properties are about one answer and the copy it was
made from.

| Run | Question | Bounds |
|---|---|---|
| `resolver_cache` | Is a 304 always true, and where can metadata come from that reaches somebody not entitled to it? | one place, four releases that differ in version, base and caching, a shared cache and two agents, a creator, a reader, an administrator, an anonymous and a badly authenticated caller |

Left out: heuristic freshness of a 404, which carries no validator, and
listings, which the code gives no cache headers.

## 9. Identifiers

`Uuid7` has `uuid7` step by step, for threads that share `_last_ms` and
`_counter`: the lock, the clock it reads after it has the lock, the seeded counter,
the overflow into a millisecond that has not come yet, the snapshot taken before the
lock is released. The clock may be set anywhere between two steps.

| Run | Question | Bounds |
|---|---|---|
| `uuid7` | Do ids increase? | two threads, a counter of three values so that it overflows often, three clock values; `_last_ms` may pass the clock by one (`ClockMax`), after which `Advance` is not taken any more, so deadlock is not checked |

## 10. Proofs

All proofs are checked by TLAPS from the named assumptions in the modules
(`NothingAssumption`, `CollAssumption`, `GrantAssumption`, `BoundAssumption`,
`JobAssumption`; `SubjectAssumption`, `EmailAssumption`,
`TableAssumption`, `JobAssumption` of the grants; `SubmissionAssumption` and
`MaxRunsAssumption` of the migrations; `WordAssumption` and `ListingAssumption` of
the identity recipe; `CallersAssumption` and `AgentsAssumption` of the resolvers), for
any number of requests, geometries, collections, grants, features, alembic runs and
instances, listings of any length, and any `SlugRetries >= 1`. Every invariant and
every action property that a passing run checks is proved.

**Mint path** (`MintProofs`, `MintImplements`). None of the safety properties is
inductive. `GeoidUnique` needs to know that a geometry open in one transaction
is neither committed nor open in another (`GeomsExclusive`), which needs what the
waits guarantee at `InsertRegistry`; `NoOrphanRows` needs that open rows go in
pairs but for the row the current statement has just written (`LegsAgree`);
`AcceptedResolves` and `NoSpuriousDrift` need that a dedup loser's winner is
committed or its own (`StatementSound`); `OneRetrySuffices` needs that the
winner of a lost race is committed when the race is lost (`RetrySound`).
`RegistryInv` is their conjunction with the types, and is inductive; `IInv` adds
the `external_id` side (`ExtIdsExclusive`) and `RowsReported`, that a transaction
commits nothing it has not reported. From them:

| Theorem | States |
|---|---|
| `TypeCorrect`, `OneGeoidPerGeometry`, `RowsInPairs`, `ReportsResolve`, `NoDriftFromRaces`, `RetryFindsWinner` | `[]` of `TypeOK`, `GeoidUnique`, `NoOrphanRows`, `AcceptedResolves`, `NoSpuriousDrift`, `OneRetrySuffices` |
| `OnePlacePerExternalId` | `[]ExternalIdUnique` |
| `KeptBatchesRecordSubjects` | `[]KeptBatchRecordsSubject`: a batch under way has its caller's subject recorded or in its own transaction (`SubjectHeld`) |
| `ResubmissionNeverRejected` | the action property `RegisteredNeverRejected` |
| `MintImplementsRegistry` | the refinement `ImplementsRegistry` |
| `KeptClaimsRegistered`, `FirstOwnerKeepsIt` | what the abstract registry promises, from its specification alone |
| `AcceptedIsRegistered`, `FirstCollectionStays` | the same of the mint transactions, through the refinement: what a committed request reported as accepted is registered, and the first collection stays |

The step lemmas go action by action. Most actions touch one request, so
`LocalStep` reduces the invariant to what that request's own record must
satisfy; `Commit` and the two INSERTs are proved against the whole.

**Grants** (`GrantsProofs`). `WriteSound` compares what a transaction has written
with the committed row it will replace: a subject is only ever added, the
owner role only given by a sysadmin, and up to its write a request has touched
at most its caller's row. It is stable because nobody else may commit that row
meanwhile (`RowsExclusive`). `PhaseSound` keeps what was decided before the wait.
From them `GrantsTypeCorrect`, `SubjectsStay`, `OwnersComeFromSysadmins` and
`RevocationsRemove`, for `Spec`.

`OnlyOverlapsLoseOwners` and `OnlyOverlapsHonorOthers` are about `HSpec` and any
interleaving. Neither property is inductive. `GuardHolds` says that past the guard, and
as long as the owners have not moved, an owner other than the target is left
(`SpareOwner`), and that after the write the transaction's own view of the table
has an owner. `HeldByCaller` says that as long as the caller's grant has not
moved, a grant found without a subject is still without one when it is recorded, and is
read with the caller's subject from then on. A step of another request keeps both because
a commit that changes what they are about raises the history variable. The runs
`v_last_owner` and `v_subject_race` show that what the two theorems leave open does happen.

**Provisioning** (`ProvisioningProofs`). None of the invariants is inductive.
`ReadyOnZero` needs to know at every step of the script what the steps before it
have made (`ScriptSound`), `PublicCollectionThere` and `StartsOnceMigrated` what a
session that has looked a row up may rely on (`SessionSound`: it is committed, or
the session will commit it), and both that rows and revision belong together
(`RowsSound`). What makes it work is `Grows`: nothing that is committed is taken
back by any step, proved action by action, so what a process has learnt stays true
while others move, and a step has to be looked at only for the process that takes
it. From the invariant `TypeCorrect`, `MigratedStartsSucceed`, `ZeroMeansReady`,
`PublicCollectionExists`, and the action properties `DryRunsMutateNothing` and
`NothingAdopted`, for any number of instances, any slugs, any options and any number
of kills. Assumed: instances have names of their own, slugs are not empty, options
have the four switches.

**Identifiers** (`Uuid7Proofs`). `IdsIncreaseAlways`, for any number of threads, any
`_COUNTER_MAX` and any clock: an id in the hands of a thread lies between what was
returned before its call and the pair under the lock, and two of them differ
because the second is larger.

**Resolver** (`ResolverCacheProofs`). `NotModifiedIsTrueAlways` and
`MetadataStaysPrivateAlways`, for any places, releases, agents and readers. A stored copy
with a tag is the anonymous body of the release the tag names, so a tag that matches
names the body a 200 would have; a copy with metadata has no tag, is in an agent's cache, and
was sent by a release with caching off.

**Schema and migrations** (`MigrationsProofs`). The proof has three layers.

1. *Statements.* `Succeeds` says once, for any statement, what its success means:
   what it did to the schema and the stamp, that the rows still satisfy the
   constraints, and that rows, collections and exemption are otherwise kept. It
   rests on `EffectFits`: a statement that adds a constraint has validated the rows,
   any other only makes constraints weaker or rows fewer.
2. *Migrations.* Each of the 26 (`Up1` to `Up13`, `Down1` to `Down13`) is a chain
   of such facts, and leads from the schema of one revision to that of the next.
   That the chain ends there is a lemma about the schema alone (`SchemaUp1`, ...),
   in stretches for the long ones, where `Partly` is the schema half way. `UpMoves`
   and `DownMoves` sum up: a database `Sound` at a revision (its schema, stamp and
   exempted id, rows that fit) is sound at the one the migration leads to, or the
   migration has failed.
3. *Interleaving.* No property is inductive: what a run commits depends on what it
   has worked on, and that on what others committed meanwhile. `IInv` says that
   the committed database is sound at its revision, open mints counted among its
   rows (`DbInv`), and that what a run works on is sound at the revision it has got
   to (`RunInv`). As long as it has locked nothing it has left the row
   constraints as they were (`UnlockedKeepsConstraints`), so the rows others
   commit fit its work as well as the database; once it has locked `place`, no mint
   is open, and what it found (no rows, no properties) stays so. At most one run
   changes anything at a time, and the database stays at the revision it began
   from.

| Theorem | States |
|---|---|
| `TypesHold` | `[]TypeOK` |
| `SchemaIsOfRevision` | `[]SchemaOfRevision`: whatever way it took, the schema is the one of its revision |
| `SchemasAreWhole` | `[]SchemaWhole`: functions resolve, one recipe, seven triggers on |
| `StampsAreTrue` | `[]LatestStampIsRecipe` |
| `CommittedRowsAlwaysFit` | `[]CommittedRowsFit` |
| `PublicCollectionIsExempt` | `[]PublicCollectionExempt` |
| `RecipesSwitchEmpty` | the action property `RecipeSwitchesEmpty` |
| `PropertiesAreErased` | the action property `PropertiesErased` |

They hold for any number of runs and instances, any slugs and any submissions,
and any number of ways up and down; a run of TLC has at most three. What the proof
assumes is that submissions have the four switches as Booleans and that `MaxRuns`,
the bound TLC needs, is a number.

**Identity recipe** (`IdentityProofs`). TLC looks at 315 geometries of at most
eight vertices; the theorems are about listings of any length, with any word size
that holds the cells.

| Theorem | States |
|---|---|
| `SameShapeKeepsItsGeoid` | `[]SameShapeSameGeoid` |
| `TwinsAlwaysAgree` | `[]TwinsAgree` |
| `DistinctShapesStayApart` | `[]DistinctShapesApart` |
| `BytesAreTheShape` | of two listings whose bytes the recipe takes, the bytes are equal exactly when the shapes are |

The invariant is `IInv`: what is listed is a listing (`IsListing`) and has the bytes
that were minted; TLC has checked it on the instance of `identity_recipe`. That it
is inductive is the whole difficulty, since a relisting may change any place
of a sequence. The argument, in the order of the module:

1. *Loops.* A loop over a sequence is a recursive function; `Iterate` shows that it
   has a value at every step, by induction on the naturals (`UpTo`, from the least
   counterexample, `NatLeast`). What the two recipes leave of consecutive duplicates
   is characterised without a loop: `Traces(f, q, k)`, a walk `f` along the listed
   cells `q` that stays in a place of `k` or goes on to the next. There is one such
   `k` (`TracedIsLag`), and both recipes compute it (`ForwardIsLag`). The order of
   vertices is a strict total one (`LexTotal`), so the least rotation is one
   sequence although several starts may give it (`OneLeastRotation`), and the
   tie-break loop of the SQL recipe finds it (`SqlBestStartIsLeast`). Hence
   `TwinRings`: both recipes give `Canonical` of what is kept of the ring.
2. *Relisting.* A ring started elsewhere, reversed, or with a vertex repeated in
   its cell keeps the same vertices up to rotation and direction (`StartedKept`,
   `ReversedKept`, `RepeatedRing`); the area is unchanged by the one and the
   opposite under the other (`TurnedSum`, `ReversedSum`), so the direction the
   recipe chooses is the same, and the least rotation of a rotation is the same
   (`RotatedLeast`). Holes, points and parts are permuted, and a sort forgets
   in which order it got them (`SortLexPermuted`).
3. *Reading the bytes back.* For `DistinctShapesApart` the bytes are parsed. Within
   bounds a word tells its coordinate (`WordInjective`), so the bytes of a ring tell
   a rotation of what was kept, or of its reverse (`CanonicalTells`), and `Cycle`,
   the reference, goes through the same cells from another start (`CycleIsKept`). The
   bytes of rings, and those of polygons, are codes: followed by anything, they
   tell where they end (`IsCode`), because the counts come first. So what is joined
   can be taken apart (`JoinsTell`), and two lists that sort to the same one are
   matched member by member (`SortedMatch`). The type is the second byte (`TagTells`).
4. *The converse*, `SameShapeSameBytes`, closes the equivalence of `BytesAreTheShape`:
   a shape has no second geoid, listed in however many steps or none.

The counts, `int4` in the code, are numbers in the model.

**Only model-checked**: `EveryRequestEnds` in both modules and `Converges`, since
liveness under fairness is outside the prover's reach.

## 11. Disagreements with the documentation

Each has a run that must end in a counterexample, and an entry under `findings`
in `PROJECT.json` with the quoted line.

- `v_nul`: a NUL in one feature's id takes down the batch.
- `v_subject`: a single mint that loses the registry race rolls back the
  recording of its caller's subject, and mints without it.
- `v_last_owner`: two requests that overlap remove the last two owners.
- `v_subject_race`: two subjects that use one email's grant for the first time
  at once are both honored.
- `v_recipe_guard`: a mint commits between the empty-registry guard and the commit of
  `0008`, whose recipe then has a v1 row under it.

Three more can be read off the actions of `MintTransactions`, without a run of
their own: a batch can be aborted by a deadlock (`DeadlockDetected`) and then answers
500 instead of its report; a batch whose client has gone (`"undelivered"`) is
committed all the same, since no handler looks at the connection, while the endpoint's
description says that "a timeout or disconnect before then keeps nothing"
(`api/places.py:181-182`); and with the pinned FastAPI (0.136.3) `Commit` follows
`Respond`, so a crash between them loses what the report said. `ImplementsRegistry`
allows that: in `GeoidRegistry` a request may be lost after its last claim.

## 12. Not modelled

- *Listings, bulk resolve, OGC pages, health*: reads of one statement that change no
  state and are not cached.
- *Token verification*: PyJWT's; it yields the callers of `CollectionGrants` and
  `ResolverCache`, and a bad token is a 401 there.
- *Parsing of GeoJSON and WKT*: data validation without state; its verdicts are
  the kinds of a feature in `MintTransactions`.
- *The connection pool*: SQLAlchemy's, with its own queue and timeout.
- *Settings*: those the models depend on are constants or variables of them (slug,
  base URL, version, cache), the others have no behaviour a property could be about.
- *The other scripts*: `dedup_vectors.py` compares the two recipes on a fixed corpus
  (`Provisioning` has its verdict, `GeometryIdentity` the comparison); `smoke_test.py`,
  `seed_samples.py` and `loadtest.py` are clients of the HTTP API.
- *Floating point, SHA-256, PostGIS*: see section 5.
- *Readers of the change log*: there are none in the code.

## 13. Files

| File | |
|---|---|
| `GeoidRegistry` | the abstract registry |
| `MintTransactions`, `MintInvariant`, `MCMint`, `MintProofs`, `MintImplements` | the mint path, its invariant, instances, proofs, the refinement and what follows from it |
| `CollectionGrants`, `GrantsHistory`, `GrantsInvariant`, `MCGrants`, `GrantsProofs` | the grants, what only overlaps do to them, their invariants, instances, proofs |
| `GeometryIdentity`, `MCIdentity`, `IdentityProofs` | the identity recipe, instances, proofs |
| `SchemaMigrations`, `MCMigrations`, `MigrationsProofs` | the migrations, instances, proofs |
| `Provisioning`, `MCProvisioning`, `ProvisioningProofs` | script, migrate job, cold starts |
| `ResolverCache`, `MCResolverCache`, `ResolverCacheProofs` | the resolvers and their caches |
| `Uuid7`, `Uuid7Proofs` | identifiers |
| `*.cfg` | one per run, named as in the tables above |

Operators whose comment begins with "Mutant:" stand in the modules for plausible
bugs: put in the place of the definition they follow, each makes one property
fail in its run. Nothing refers to them otherwise.
