--------------------------- MODULE SchemaMigrations ---------------------------
(* The database's schema and the thirteen migrations that make it          *)
(* (migrations/versions), as the statements they execute: a statement that *)
(* PostgreSQL refuses rolls back the whole alembic run (migrations/env.py  *)
(* has one transaction per run).  Around them, what may overlap a run:     *)
(* another run, and instances that mint and create the public collection.  *)
(*                                                                         *)
(* A schema gives each object its form, which tells its versions apart:    *)
(* the recipe a hash function computes, whether its search_path is pinned, *)
(* whether a trigger is enabled.  A row of place is a geometry with what   *)
(* the constraints and migrations look at.                                 *)
EXTENDS Integers, FiniteSets

CONSTANTS
  Migrators,     \* concurrent alembic runs
  Instances,     \* instances of the service
  Submissions,   \* what clients may submit
  Slugs,         \* the slugs GEOID_PUBLIC_COLLECTION may have in the migrate job
  ServiceSlug,   \* the one it has in the service
  MaxRuns        \* bound on the number of alembic runs

ASSUME SubmissionAssumption ==
  \A s \in Submissions : {s.point, s.public, s.ext, s.props} \subseteq BOOLEAN

ASSUME MaxRunsAssumption == MaxRuns \in Nat

VARIABLES
  db,       \* the committed database
  jobs,     \* [Migrators -> the state of an alembic run]
  open,     \* [Instances -> the uncommitted rows of place, at most one]
  runs,     \* number of alembic runs so far
  quiet,    \* the service is stopped while a migration runs
  jobSlug   \* GEOID_PUBLIC_COLLECTION in the migrate job

vars == <<db, jobs, open, runs, quiet, jobSlug>>

LastRevision == 13
NoId == 0
Managed == -1     \* stands for the id of a collection other than the public ones

-----------------------------------------------------------------------------
(* Objects and their forms.                                                *)

GuardTriggers ==
  {"place_block_mutation_bud", "place_block_truncate_bt",
   "geoid_registry_append_only_bud", "geoid_registry_append_only_bt",
   "change_log_append_only_bud", "change_log_append_only_bt"}
UserTriggers == GuardTriggers \cup {"place_after_insert_ai"}

FunctionsV2 ==
  {"geoid_quantize_v2", "geoid_canon_ring_v2", "geoid_canon_polygon_body_v2",
   "geoid_canonical_bytes_v2", "geoid_geom_hash_v2"}

Objects ==
  UserTriggers \cup FunctionsV2 \cup
  {"catalog", "collection", "place", "geoid_registry", "change_log", "authority_assertion",
   "api_key", "dedup_recipe_stamp", "collection_grant",
   "collection.writable_anon", "collection.public_write", "collection.public_read",
   "place.predecessor_id",
   "ck_place_geom_is_polygonal", "ck_place_geom_is_supported", "ck_place_geom_not_empty",
   "uq_place_collection_external_id", "ck_collection_grant_email_normalized",
   "place_geom_gix", "place_collection_created_id_idx", "place_provenance_created_by_idx",
   "collection_grant_principal_email_idx",
   "place_after_insert", "place_block_mutation", "geoid_append_only_block",
   "geoid_geom_hash", "geoid_geom_hash_default", "geoid_from_geom_hash", "geoid_id_default"}

Gone == "gone"    \* the form of an object that is not there
Made == "made"    \* the form of an object that has one version

(* What a table takes with it when it is dropped. *)
PartOf(obj, table) ==
  \/ table = "place" /\ obj \in
       {"place.predecessor_id", "ck_place_geom_is_polygonal", "ck_place_geom_is_supported",
        "ck_place_geom_not_empty", "uq_place_collection_external_id", "place_after_insert_ai",
        "place_block_mutation_bud", "place_block_truncate_bt", "place_geom_gix",
        "place_collection_created_id_idx", "place_provenance_created_by_idx"}
  \/ table = "collection" /\ obj \in
       {"collection.writable_anon", "collection.public_write", "collection.public_read"}
  \/ table = "geoid_registry" /\ obj \in
       {"geoid_registry_append_only_bud", "geoid_registry_append_only_bt"}
  \/ table = "change_log" /\ obj \in {"change_log_append_only_bud", "change_log_append_only_bt"}
  \/ table = "collection_grant" /\ obj \in
       {"ck_collection_grant_email_normalized", "collection_grant_principal_email_idx"}
Taken(obj) == { o \in Objects : o = obj \/ PartOf(o, obj) }

(* What an object needs and keeps from being dropped: foreign keys, and the *)
(* functions of triggers.                                                   *)
References(obj, other) ==
  \/ obj = "collection" /\ other = "catalog"
  \/ obj \in {"place", "collection_grant"} /\ other = "collection"
  \/ obj = "place_after_insert_ai" /\ other = "place_after_insert"
  \/ /\ obj \in {"place_block_mutation_bud", "place_block_truncate_bt"}
     /\ other = "place_block_mutation"
  \/ /\ obj \in GuardTriggers \ {"place_block_mutation_bud", "place_block_truncate_bt"}
     /\ other = "geoid_append_only_block"

(* What the body of a function calls.  PostgreSQL looks at it when it       *)
(* creates a function in LANGUAGE sql, and never again.                     *)
Calls(obj, form, other) ==
  \/ /\ obj = "geoid_geom_hash_default" /\ form \in {"v1", "v1_pinned"}
     /\ other = "geoid_geom_hash"
  \/ obj = "geoid_geom_hash_default" /\ form = "v2_pinned" /\ other = "geoid_geom_hash_v2"
  \/ obj = "geoid_id_default" /\ other \in {"geoid_from_geom_hash", "geoid_geom_hash_default"}
  \/ obj = "geoid_geom_hash_v2" /\ other = "geoid_canonical_bytes_v2"
  \/ /\ obj = "geoid_canonical_bytes_v2"
     /\ other \in {"geoid_canon_polygon_body_v2", "geoid_quantize_v2"}
  \/ obj = "geoid_canon_polygon_body_v2" /\ other = "geoid_canon_ring_v2"
  \/ obj = "geoid_canon_ring_v2" /\ other = "geoid_quantize_v2"
PlPgSql == {"geoid_canonical_bytes_v2", "geoid_canon_ring_v2"}

Recipe(schema) ==
  IF schema["geoid_geom_hash_default"] = Gone THEN "none"
  ELSE IF schema["geoid_geom_hash_default"] = "v2_pinned" THEN "v2" ELSE "v1"

-----------------------------------------------------------------------------
(* What a statement does to a database.  A database is a record: revision, *)
(* schema, latest recipe stamp, rows of place, collections, the id that    *)
(* the predicate of the partial external_id index exempts, and whether all *)
(* statements so far have succeeded.                                       *)

EmptyDb ==
  [ok |-> TRUE, rev |-> 0, schema |-> [o \in Objects |-> Gone], stamp |-> "none", rows |-> {},
   collections |-> {}, exempt |-> NoId]

Failed == [EmptyDb EXCEPT !.ok = FALSE]    \* what is left of it is rolled back
There(d, obj) == d.schema[obj] # Gone

Statement(op, obj, form) == [op |-> op, obj |-> obj, form |-> form]
Create(obj) == Statement("create", obj, Made)
CreateAs(obj, form) == Statement("create", obj, form)
Replace(obj, form) == Statement("create_or_replace", obj, form)
Alter(obj, form) == Statement("alter", obj, form)
Drop(obj) == Statement("drop", obj, Gone)
DropIf(obj) == Statement("drop_if_exists", obj, Gone)
Stamp(recipe) == Statement("stamp", "dedup_recipe_stamp", recipe)
RequireEmpty == Statement("require_empty", "place", Made)
RestampProvenance == Statement("restamp_provenance", "place", Made)
Refuse == Statement("refuse", "place", Made)

Puts == {"create", "create_or_replace", "alter"}
Drops == {"drop", "drop_if_exists"}

(* A row of place against the constraints of a schema and the other rows. *)
RowFits(d, rows, r) ==
  /\ r.point => ~There(d, "ck_place_geom_is_polygonal")
  /\ \A q \in rows \ {r} :
       /\ <<q.geom, q.recipe>> # <<r.geom, r.recipe>>
       /\ r.ext /\ q.ext /\ q.coll = r.coll =>
            \/ ~There(d, "uq_place_collection_external_id")
            \/ d.schema["uq_place_collection_external_id"] = "partial_index" /\ r.coll = d.exempt
RowsFit(d) == \A r \in d.rows : RowFits(d, d.rows, r)

(* What it does when it succeeds. *)
SchemaAfter(schema, s) ==
  [o \in Objects |-> IF s.op \in Puts /\ o = s.obj THEN s.form
                     ELSE IF s.op \in Drops /\ o \in Taken(s.obj) THEN Gone ELSE schema[o]]
RowsAfter(rows, s) ==
  IF s.op \in Drops /\ s.obj = "place" THEN {}
  ELSE IF s.op = "restamp_provenance" THEN { [r EXCEPT !.props = FALSE] : r \in rows }
  ELSE rows
StampAfter(stamp, s) ==
  IF s.op = "stamp" THEN s.form
  ELSE IF s.op \in Drops /\ s.obj = "dedup_recipe_stamp" THEN "none" ELSE stamp
Effect(d, s) ==
  [ok |-> d.ok, rev |-> d.rev,
   schema |-> SchemaAfter(d.schema, s), stamp |-> StampAfter(d.stamp, s),
   rows |-> RowsAfter(d.rows, s),
   collections |-> IF s.op \in Drops /\ s.obj = "collection" THEN {} ELSE d.collections,
   exempt |-> d.exempt]

(* Mutant: constraints are added NOT VALID. *)
NeverViolated(d, s) == FALSE

(* Adding a constraint or a unique index validates the rows that are there. *)
Violated(d, s) == s.op \in Puts /\ ~RowsFit(Effect(d, s))

(* What PostgreSQL, or the migration itself, refuses. *)
Refused(d, s) ==
  \/ Violated(d, s)
  \/ s.op \in {"alter", "drop", "stamp"} /\ ~There(d, s.obj)
  \/ s.op = "create" /\ There(d, s.obj)
  \/ s.op = "create" /\ \E o \in Objects : References(s.obj, o) /\ ~There(d, o)
  \/ /\ s.op \in {"create", "create_or_replace"} /\ s.obj \notin PlPgSql
     /\ \E o \in Objects : Calls(s.obj, s.form, o) /\ ~There(d, o)
  \/ /\ s.op \in Drops
     /\ \E o \in Objects \ Taken(s.obj) : References(o, s.obj) /\ There(d, o)
  \/ s.op = "require_empty" /\ d.rows # {}
  \* the guard refuses an UPDATE if it is on and there is a row to change
  \/ /\ s.op = "restamp_provenance"
     /\ d.schema["place_block_mutation_bud"] = "on" /\ \E r \in d.rows : r.props
  \/ s.op = "refuse"

Execute(d, s) == IF d.ok /\ ~Refused(d, s) THEN Effect(d, s) ELSE Failed

d ++ s == Execute(d, s)

PublicId(d, slug) ==
  IF \E c \in d.collections : c.slug = slug
  THEN (CHOOSE c \in d.collections : c.slug = slug).id ELSE NoId
NewCollection(d, slug) == [id |-> Cardinality(d.collections) + 1, slug |-> slug]

(* Mutant: the id generated for the INSERT is used although the row was there. *)
FindPublicCollectionByNewId(d, slug) ==
  LET new == NewCollection(d, slug)
  IN  [d EXCEPT !.collections = IF PublicId(d, slug) = NoId THEN @ \cup {new} ELSE @,
                !.exempt = new.id]

(* The row with the migrate job's slug, created if there is none; its id    *)
(* goes into the predicate of the index.                                    *)
FindPublicCollection(d, slug) ==
  LET there == IF PublicId(d, slug) = NoId
               THEN [d EXCEPT !.collections = @ \cup {NewCollection(d, slug)}] ELSE d
  IN  [there EXCEPT !.exempt = PublicId(there, slug)]

-----------------------------------------------------------------------------
(* The migrations, statement by statement.                                 *)

Tables0001(d) ==
  d ++ Create("catalog") ++ Create("collection") ++ Create("collection.writable_anon")
    ++ Create("place") ++ Create("place.predecessor_id") ++ Create("ck_place_geom_is_polygonal")
    ++ CreateAs("uq_place_collection_external_id", "constraint") ++ Create("geoid_registry")
    ++ Create("change_log") ++ Create("authority_assertion") ++ Create("api_key")
Recipe0001(d) ==
  d ++ Replace("geoid_geom_hash", "v1") ++ Replace("geoid_geom_hash_default", "v1")
Guards0001(d) ==
  d ++ Replace("place_after_insert", Made) ++ CreateAs("place_after_insert_ai", "on")
    ++ Replace("place_block_mutation", "with_predecessor_id")
    ++ CreateAs("place_block_mutation_bud", "on") ++ CreateAs("place_block_truncate_bt", "on")
    ++ Replace("geoid_append_only_block", Made)
    ++ CreateAs("geoid_registry_append_only_bud", "on")
    ++ CreateAs("geoid_registry_append_only_bt", "on")
    ++ CreateAs("change_log_append_only_bud", "on")
    ++ CreateAs("change_log_append_only_bt", "on") ++ Create("place_geom_gix")
Upgrade0001(d) == Guards0001(Recipe0001(Tables0001(d)))
Downgrade0001(d) ==
  d ++ DropIf("place_geom_gix") ++ DropIf("change_log_append_only_bt")
    ++ DropIf("change_log_append_only_bud") ++ DropIf("geoid_registry_append_only_bt")
    ++ DropIf("geoid_registry_append_only_bud") ++ DropIf("geoid_append_only_block")
    ++ DropIf("place_block_truncate_bt") ++ DropIf("place_block_mutation_bud")
    ++ DropIf("place_after_insert_ai") ++ DropIf("place_block_mutation")
    ++ DropIf("place_after_insert") ++ DropIf("geoid_geom_hash_default")
    ++ DropIf("geoid_geom_hash") ++ DropIf("api_key") ++ DropIf("authority_assertion")
    ++ DropIf("change_log") ++ DropIf("geoid_registry") ++ DropIf("place")
    ++ DropIf("collection") ++ DropIf("catalog")

Upgrade0002(d) == d ++ Create("place_collection_created_id_idx")
Downgrade0002(d) == d ++ Drop("place_collection_created_id_idx")

Upgrade0003(d) == d ++ Create("dedup_recipe_stamp") ++ Stamp("v1")
Downgrade0003(d) == d ++ DropIf("dedup_recipe_stamp")

Upgrade0004(d) ==
  d ++ Replace("geoid_from_geom_hash", "plain") ++ Replace("geoid_id_default", "plain")
    ++ Stamp("v1")
Downgrade0004(d) == d ++ DropIf("geoid_id_default") ++ DropIf("geoid_from_geom_hash")

Upgrade0005(d) ==
  d ++ Drop("ck_place_geom_is_polygonal") ++ Create("ck_place_geom_is_supported")
    ++ Create("ck_place_geom_not_empty")
Downgrade0005(d) ==
  d ++ Drop("ck_place_geom_not_empty") ++ Drop("ck_place_geom_is_supported")
    ++ Create("ck_place_geom_is_polygonal")

Upgrade0006(d) ==
  d ++ Create("collection_grant") ++ Create("collection_grant_principal_email_idx")
Downgrade0006(d) ==
  d ++ DropIf("collection_grant_principal_email_idx") ++ DropIf("collection_grant")

Upgrade0007(d) ==
  d ++ Create("ck_collection_grant_email_normalized") ++ Replace("geoid_geom_hash", "v1_pinned")
    ++ Replace("geoid_geom_hash_default", "v1_pinned")
    ++ Replace("geoid_from_geom_hash", "pinned") ++ Replace("geoid_id_default", "pinned")
    ++ DropIf("place_collection_created_id_idx")
(* Mutant: the downgrade forgets the paging index its upgrade dropped. *)
Downgrade0007NoIndex(d) ==
  d ++ Replace("geoid_id_default", "plain") ++ Replace("geoid_from_geom_hash", "plain")
    ++ Replace("geoid_geom_hash_default", "v1") ++ Replace("geoid_geom_hash", "v1")
    ++ Drop("ck_collection_grant_email_normalized")
Downgrade0007(d) ==
  d ++ Create("place_collection_created_id_idx") ++ Replace("geoid_id_default", "plain")
    ++ Replace("geoid_from_geom_hash", "plain") ++ Replace("geoid_geom_hash_default", "v1")
    ++ Replace("geoid_geom_hash", "v1") ++ Drop("ck_collection_grant_email_normalized")

Functions0008(d) ==
  d ++ CreateAs("geoid_quantize_v2", "pinned") ++ CreateAs("geoid_canon_ring_v2", "pinned")
    ++ CreateAs("geoid_canon_polygon_body_v2", "pinned")
    ++ CreateAs("geoid_canonical_bytes_v2", "pinned")
    ++ CreateAs("geoid_geom_hash_v2", "pinned")
SwitchTo2(d) ==
  Functions0008(d) ++ Replace("geoid_geom_hash_default", "v2_pinned") ++ Drop("geoid_geom_hash")
    ++ Stamp("v2")
(* Mutant: no guard; the registry is taken to be empty. *)
Upgrade0008Unguarded(d) == SwitchTo2(d)
Upgrade0008(d) == SwitchTo2(d ++ RequireEmpty)

(* Mutant: the downgrade leaves the v2 stamp as the latest. *)
SwitchTo1NoStamp(d) ==
  d ++ Replace("geoid_geom_hash", "v1_pinned") ++ Replace("geoid_geom_hash_default", "v1_pinned")
    ++ DropIf("geoid_geom_hash_v2") ++ DropIf("geoid_canonical_bytes_v2")
    ++ DropIf("geoid_canon_polygon_body_v2") ++ DropIf("geoid_canon_ring_v2")
    ++ DropIf("geoid_quantize_v2")
SwitchTo1(d) ==
  d ++ Replace("geoid_geom_hash", "v1_pinned") ++ Replace("geoid_geom_hash_default", "v1_pinned")
    ++ DropIf("geoid_geom_hash_v2") ++ DropIf("geoid_canonical_bytes_v2")
    ++ DropIf("geoid_canon_polygon_body_v2") ++ DropIf("geoid_canon_ring_v2")
    ++ DropIf("geoid_quantize_v2") ++ Stamp("v1")
Downgrade0008(d) == SwitchTo1(d ++ RequireEmpty)

Upgrade0009(d) ==
  d ++ Create("collection.public_read") ++ Create("place_provenance_created_by_idx")
Downgrade0009(d) ==
  d ++ DropIf("place_provenance_created_by_idx") ++ Drop("collection.public_read")

(* Mutant: the guard is not enabled again. *)
Upgrade0010LeftOff(d) ==
  d ++ Alter("place_block_mutation_bud", "off") ++ RestampProvenance
Upgrade0010(d) ==
  d ++ Alter("place_block_mutation_bud", "off") ++ RestampProvenance
    ++ Alter("place_block_mutation_bud", "on")
Downgrade0010(d) == d ++ Refuse

(* A column renamed is one column gone and one there. *)
Upgrade0011(d) ==
  d ++ Drop("collection.writable_anon") ++ Create("collection.public_write")
Downgrade0011(d) ==
  d ++ Drop("collection.public_write") ++ Create("collection.writable_anon")

Upgrade0012(d, slug) ==
  FindPublicCollection(d, slug) ++ Drop("uq_place_collection_external_id")
    ++ CreateAs("uq_place_collection_external_id", "partial_index")
Downgrade0012(d) ==
  d ++ Drop("uq_place_collection_external_id")
    ++ CreateAs("uq_place_collection_external_id", "constraint")

Upgrade0013(d) ==
  d ++ Drop("place.predecessor_id") ++ Replace("place_block_mutation", "without_predecessor_id")
Downgrade0013(d) ==
  d ++ Create("place.predecessor_id") ++ Replace("place_block_mutation", "with_predecessor_id")

(* One migration, from a revision to the next or to the one before. *)
Upgrade(d, rev, slug) ==
  CASE rev = 1 -> Upgrade0001(d) [] rev = 2 -> Upgrade0002(d) [] rev = 3 -> Upgrade0003(d)
    [] rev = 4 -> Upgrade0004(d) [] rev = 5 -> Upgrade0005(d) [] rev = 6 -> Upgrade0006(d)
    [] rev = 7 -> Upgrade0007(d) [] rev = 8 -> Upgrade0008(d) [] rev = 9 -> Upgrade0009(d)
    [] rev = 10 -> Upgrade0010(d) [] rev = 11 -> Upgrade0011(d)
    [] rev = 12 -> Upgrade0012(d, slug) [] rev = 13 -> Upgrade0013(d)
Downgrade(d, rev) ==
  CASE rev = 1 -> Downgrade0001(d) [] rev = 2 -> Downgrade0002(d) [] rev = 3 -> Downgrade0003(d)
    [] rev = 4 -> Downgrade0004(d) [] rev = 5 -> Downgrade0005(d) [] rev = 6 -> Downgrade0006(d)
    [] rev = 7 -> Downgrade0007(d) [] rev = 8 -> Downgrade0008(d) [] rev = 9 -> Downgrade0009(d)
    [] rev = 10 -> Downgrade0010(d) [] rev = 11 -> Downgrade0011(d) [] rev = 12 -> Downgrade0012(d)
    [] rev = 13 -> Downgrade0013(d)

(* The migrations between two revisions. *)
Crossed(from, to) == IF from < to THEN from + 1 .. to ELSE to + 1 .. from

Migration(d, from, to, slug) == IF from < to THEN Upgrade(d, to, slug) ELSE Downgrade(d, from)

(* The empty-registry guard is the first statement of a run only from here; *)
(* a run that gets to 0008 from elsewhere has locked place on its way.      *)
GuardFirst(from, to) == \/ from = 7 /\ to > 7
                        \/ from = 8 /\ to < 8
AfterGuard(d, from, to) == IF from < to THEN SwitchTo2(d) ELSE SwitchTo1(d)

-----------------------------------------------------------------------------
(* An alembic run: one transaction from the revision it reads to the one   *)
(* it was asked for, a migration at a time.                                *)

Idle == [pc |-> "idle", from |-> 0, at |-> 0, work |-> EmptyDb]

TypeOK ==
  /\ db.ok /\ db.rev \in 0..LastRevision /\ db.exempt \in Nat
  /\ db.stamp \in {"none", "v1", "v2"}
  /\ \A r \in db.rows : r.recipe \in {"v1", "v2"}
  /\ \A m \in Migrators : jobs[m].pc \in {"idle", "read", "checked", "running"}
  /\ runs \in 0..MaxRuns /\ quiet \in BOOLEAN /\ jobSlug \in Slugs

Init ==
  /\ db = EmptyDb
  /\ jobs = [m \in Migrators |-> Idle]
  /\ open = [i \in Instances |-> {}]
  /\ runs = 0
  /\ quiet \in BOOLEAN
  /\ jobSlug \in Slugs

OpenRows == UNION { open[i] : i \in Instances }
Running == { m \in Migrators : jobs[m].pc # "idle" }
Changing == { m \in Migrators : jobs[m].pc = "running" }

(* Mutant: 0010 switches the trigger off for its session only, which locks nothing. *)
LockingBut10 == {1, 2, 5, 7, 9, 11, 12, 13}

(* The migrations whose DDL locks place, or collection against readers:    *)
(* they wait for open mints and keep new ones out until the commit.        *)
Locking == {1, 2, 5, 7, 9, 10, 11, 12, 13}
LocksOut(from, to) == Crossed(from, to) \cap Locking # {}

(* alembic reads alembic_version. *)
ReadVersion(m) ==
  /\ jobs[m].pc = "idle" /\ runs < MaxRuns
  /\ quiet => OpenRows = {}
  /\ jobs' = [jobs EXCEPT ![m] = [pc |-> "read", from |-> db.rev, at |-> db.rev, work |-> EmptyDb]]
  /\ runs' = runs + 1
  /\ UNCHANGED <<db, open, quiet, jobSlug>>

(* The guard reads what is committed and locks nothing.                    *)
CheckEmpty(m) ==
  /\ jobs[m].pc = "read" /\ jobs[m].from \in {7, 8}
  /\ jobs' = [jobs EXCEPT ![m] = IF db.rows = {} THEN [@ EXCEPT !.pc = "checked"] ELSE Idle]
  /\ UNCHANGED <<db, open, runs, quiet, jobSlug>>

(* What a run sees: its own work, and until it has locked place, the rows  *)
(* that others commit.                                                     *)
Work(m) ==
  IF jobs[m].pc # "running" THEN db
  ELSE IF LocksOut(jobs[m].from, jobs[m].at) THEN jobs[m].work
  ELSE [jobs[m].work EXCEPT !.rows = db.rows]

Result(m, to) ==
  IF jobs[m].pc = "checked" THEN AfterGuard(Work(m), jobs[m].at, to)
  ELSE Migration(Work(m), jobs[m].at, to, jobSlug)

(* The run is asked to get to to, or further. *)
MayGoTo(m, to) ==
  /\ jobs[m].pc # "idle" /\ to \in {jobs[m].at - 1, jobs[m].at + 1} \cap 0..LastRevision
  /\ jobs[m].from < jobs[m].at => to > jobs[m].at
  /\ jobs[m].from > jobs[m].at => to < jobs[m].at
  /\ jobs[m].pc = "checked" <=> jobs[m].pc # "running" /\ GuardFirst(jobs[m].at, to)
  /\ Changing \subseteq {m}
  /\ LocksOut(jobs[m].at, to) => OpenRows = {}

(* Mutant: a statement that fails does not end the run. *)
MigrateOn(m, to) ==
  /\ MayGoTo(m, to)
  /\ jobs' = [jobs EXCEPT ![m] =
                IF db.rev = @.from
                THEN [pc |-> "running", from |-> @.from, at |-> to,
                      work |-> [Result(m, to) EXCEPT !.rev = to]]
                ELSE Idle]
  /\ UNCHANGED <<db, open, runs, quiet, jobSlug>>

(* The statements of a migration.  They wait for the DDL of another open   *)
(* run, and then find its result: the UPDATE of alembic_version that ends  *)
(* a migration matches no row if somebody has moved the database meanwhile. *)
Migrate(m, to) ==
  /\ MayGoTo(m, to)
  /\ jobs' = [jobs EXCEPT ![m] =
                IF Result(m, to).ok /\ db.rev = @.from
                THEN [pc |-> "running", from |-> @.from, at |-> to,
                      work |-> [Result(m, to) EXCEPT !.rev = to]]
                ELSE Idle]
  /\ UNCHANGED <<db, open, runs, quiet, jobSlug>>

(* Commit of everything the run did; rows minted beside it are not its own. *)
CommitRun(m) ==
  /\ jobs[m].pc = "running"
  /\ db' = Work(m)
  /\ jobs' = [jobs EXCEPT ![m] = Idle]
  /\ UNCHANGED <<open, runs, quiet, jobSlug>>

(* A run that dies, or whose connection does, leaves nothing. *)
CrashRun(m) ==
  /\ jobs[m].pc # "idle"
  /\ jobs' = [jobs EXCEPT ![m] = Idle]
  /\ UNCHANGED <<db, open, runs, quiet, jobSlug>>

-----------------------------------------------------------------------------
(* Instances.  Before revision 11 they are of a release that reads         *)
(* writable_anon; some of those stored what a client submitted.            *)

LockedOut == \E m \in Changing : LocksOut(jobs[m].from, jobs[m].at)

RowOf(s) ==
  [geom |-> s.geom, point |-> s.point, ext |-> s.ext,
   coll |-> IF s.public THEN PublicId(db, ServiceSlug) ELSE Managed,
   props |-> s.props /\ There(db, "collection.writable_anon"),
   recipe |-> Recipe(db.schema)]

(* The INSERT of a mint, on the committed schema. *)
Mint(i, s) ==
  /\ open[i] = {}
  /\ db.rev > 0 /\ ~LockedOut
  /\ quiet => Running = {}
  /\ s.public => PublicId(db, ServiceSlug) # NoId
  /\ RowFits(db, db.rows \cup OpenRows, RowOf(s))
  /\ RowOf(s) \notin db.rows \cup OpenRows
  /\ open' = [open EXCEPT ![i] = {RowOf(s)}]
  /\ UNCHANGED <<db, jobs, runs, quiet, jobSlug>>

EndMint(i) ==
  /\ open[i] # {}
  /\ db' \in { db, [db EXCEPT !.rows = @ \cup open[i]] }    \* rollback, commit
  /\ open' = [open EXCEPT ![i] = {}]
  /\ UNCHANGED <<jobs, runs, quiet, jobSlug>>

(* An instance that starts creates the public collection if it is missing; *)
(* the unique slug makes it wait for a run that may be creating it.        *)
StartInstance ==
  /\ db.rev > 0 /\ Changing = {}
  /\ quiet => Running = {}
  /\ PublicId(db, ServiceSlug) = NoId
  /\ db' = [db EXCEPT !.collections = @ \cup {NewCollection(db, ServiceSlug)}]
  /\ UNCHANGED <<jobs, open, runs, quiet, jobSlug>>

Next ==
  \/ \E m \in Migrators :
       \/ ReadVersion(m) \/ CheckEmpty(m) \/ CommitRun(m) \/ CrashRun(m)
       \/ \E to \in 0..LastRevision : Migrate(m, to)
  \/ \E i \in Instances : EndMint(i) \/ \E s \in Submissions : Mint(i, s)
  \/ StartInstance

Spec == Init /\ [][Next]_vars

-----------------------------------------------------------------------------
(* Properties.                                                             *)

(* The revisions that have an object. *)
LivesAt(obj, rev) ==
  /\ rev \in 1 .. LastRevision
  /\ obj = "place_collection_created_id_idx" => rev \in 2 .. 6
  /\ obj = "dedup_recipe_stamp" => rev >= 3
  /\ obj \in {"geoid_from_geom_hash", "geoid_id_default"} => rev >= 4
  /\ obj = "ck_place_geom_is_polygonal" => rev < 5
  /\ obj \in {"ck_place_geom_is_supported", "ck_place_geom_not_empty"} => rev >= 5
  /\ obj \in {"collection_grant", "collection_grant_principal_email_idx"} => rev >= 6
  /\ obj = "ck_collection_grant_email_normalized" => rev >= 7
  /\ obj = "geoid_geom_hash" => rev < 8
  /\ obj \in FunctionsV2 => rev >= 8
  /\ obj \in {"collection.public_read", "place_provenance_created_by_idx"} => rev >= 9
  /\ obj = "collection.writable_anon" => rev < 11
  /\ obj = "collection.public_write" => rev >= 11
  /\ obj = "place.predecessor_id" => rev < 13

(* The form it has in those. *)
FormAt(obj, rev) ==
  IF obj \in UserTriggers THEN "on"
  ELSE IF obj \in FunctionsV2 THEN "pinned"
  ELSE IF obj \in {"geoid_from_geom_hash", "geoid_id_default"}
    THEN IF rev < 7 THEN "plain" ELSE "pinned"
  ELSE IF obj \in {"geoid_geom_hash", "geoid_geom_hash_default"}
    THEN IF rev < 7 THEN "v1" ELSE IF rev = 7 THEN "v1_pinned" ELSE "v2_pinned"
  ELSE IF obj = "place_block_mutation"
    THEN IF rev < 13 THEN "with_predecessor_id" ELSE "without_predecessor_id"
  ELSE IF obj = "uq_place_collection_external_id"
    THEN IF rev < 12 THEN "constraint" ELSE "partial_index"
  ELSE Made

SchemaAt(rev) == [o \in Objects |-> IF LivesAt(o, rev) THEN FormAt(o, rev) ELSE Gone]

(* Whatever way the database took up and down, past failures, crashes and  *)
(* other runs, its schema is the one of its revision: each downgrade undoes *)
(* its upgrade ("the downgrade genuinely restores the old schema", 0013).  *)
SchemaOfRevision == db.schema = SchemaAt(db.rev)

(* Functions call functions that are there, and no second recipe stays     *)
(* callable next to the one in use.                                        *)
FunctionsResolve ==
  /\ \A f, g \in Objects : There(db, f) /\ Calls(f, db.schema[f], g) => There(db, g)
  /\ ~(There(db, "geoid_geom_hash") /\ There(db, "geoid_geom_hash_v2"))

(* The seven triggers are there and enabled: no run, however it ends,      *)
(* leaves the append-only tables unguarded.                                *)
GuardsOn == db.rev > 0 => \A t \in UserTriggers : db.schema[t] = "on"

(* Every committed schema can be used: its functions resolve, its guards   *)
(* are on.                                                                 *)
SchemaWhole == FunctionsResolve /\ GuardsOn

(* The latest stamp names the recipe hashes are computed with, which is    *)
(* what an operator reads off dedup_recipe_stamp (0003) and bootstrap_db   *)
(* verifies.                                                               *)
LatestStampIsRecipe == db.stamp # "none" => db.stamp = Recipe(db.schema)

(* The recipe changes over an empty registry with no mint under way, if    *)
(* the service is stopped or the run has locked place before the guard.    *)
RecipeSwitchesEmpty ==
  [][ \A m \in Migrators :
        /\ jobs[m].pc = "running" /\ jobs'[m].pc = "idle" /\ db'.rev # db.rev
        /\ {Recipe(db.schema), Recipe(db'.schema)} = {"v1", "v2"}
        /\ quiet \/ ~GuardFirst(jobs[m].from, jobs[m].at)
        => db'.rows = {} /\ OpenRows = {} ]_vars

(* 0008_identity_recipe_v2.py:62: "Both directions re-mint identity, so     *)
(* both refuse a non-empty registry": no recipe is replaced under rows.    *)
RecipeRefusesRows ==
  [][ {Recipe(db.schema), Recipe(db'.schema)} = {"v1", "v2"} => db'.rows = {} ]_vars

(* Committed rows satisfy the committed constraints, which migrations add, *)
(* drop and replace while instances mint.                                  *)
CommittedRowsFit == RowsFit(db)

(* Migration 0010 leaves nothing of what clients had submitted, mints that *)
(* were open when it began included.                                       *)
PropertiesErased ==
  [][ db.rev < 10 /\ db'.rev >= 10 => \A r \in db'.rows \cup OpenRows : ~r.props ]_vars

(* The index exempts the collection the service uses, if the migrate job   *)
(* and the service are configured alike, whichever of them created it.     *)
PublicCollectionExempt ==
  db.rev >= 12 /\ jobSlug = ServiceSlug => db.exempt = PublicId(db, ServiceSlug)
=============================================================================
