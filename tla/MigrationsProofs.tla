--------------------------- MODULE MigrationsProofs ---------------------------
(* Proofs about SchemaMigrations, for any number of runs, instances and    *)
(* slugs and whatever is submitted.                                        *)
(*                                                                         *)
(* A statement that succeeds has a known effect on the schema and the      *)
(* stamp, and keeps the rows in their constraints (Succeeds).  Chained,    *)
(* the statements of a migration take a database that is sound at one      *)
(* revision to one that is sound at the next (UpMoves, DownMoves).  The    *)
(* invariant IInv says that the committed database is sound at its         *)
(* revision, uncommitted rows included, and so is what the run that has    *)
(* begun to change it works on, at the revision it has got to.             *)
EXTENDS SchemaMigrations, FiniteSetTheorems, TLAPS

-----------------------------------------------------------------------------
(* Databases and what the statements keep of them.                         *)

(* What the rows of place can be. *)
Rows ==
  [geom : {s.geom : s \in Submissions}, point : BOOLEAN, ext : BOOLEAN, coll : Int,
   props : BOOLEAN, recipe : {"v1", "v2"}]

(* A record with the parts of a database. *)
IsDb(d) ==
  d = [ok |-> d.ok, rev |-> d.rev, schema |-> d.schema, stamp |-> d.stamp, rows |-> d.rows,
       collections |-> d.collections, exempt |-> d.exempt]

(* Its rows satisfy its constraints. *)
Consistent(d) ==
  /\ d.rows \subseteq Rows /\ RowsFit(d)
  /\ IsFiniteSet(d.collections) /\ \A c \in d.collections : c.id \in Nat \ {NoId}
  /\ d.exempt \in Nat

(* A database some of whose statements may have failed. *)
Ok(d) == d.ok
Good(d) == IsDb(d) /\ (d.ok => Consistent(d))

(* The parts of a database, closed to the provers where they chain statements. *)
SchemaOf(d) == d.schema
StampOf(d) == d.stamp
ExemptOf(d) == d.exempt
CollectionsOf(d) == d.collections
NoRows(d) == d.rows = {}
NoProps(rows) == \A r \in rows : ~r.props
Clean(d) == NoProps(d.rows)

(* What every statement that succeeds keeps.  It is transitive. *)
Follows(d, e) ==
  /\ Ok(d)
  /\ NoRows(d) => NoRows(e)
  /\ Clean(d) => Clean(e)
  /\ ExemptOf(e) = ExemptOf(d)

(* Only dropping the table touches the rows of collection. *)
KeepsCollections(s) == ~(s.op \in Drops /\ s.obj = "collection")

(* What a statement that succeeded did. *)
Did(d, e, s) ==
  /\ Follows(d, e)
  /\ SchemaOf(e) = SchemaAfter(SchemaOf(d), s)
  /\ StampOf(e) = StampAfter(StampOf(d), s)
  /\ KeepsCollections(s) => CollectionsOf(e) = CollectionsOf(d)
  /\ s = RequireEmpty => NoRows(d)
  /\ s = RestampProvenance => Clean(e)
  /\ s # Refuse

(* The parts of a database that was changed. *)
LEMMA EffectFields ==
  ASSUME NEW d, NEW s, IsDb(d)
  PROVE  /\ IsDb(Effect(d, s)) /\ Effect(d, s).ok = d.ok
         /\ Effect(d, s).schema = SchemaAfter(d.schema, s)
         /\ Effect(d, s).rows = RowsAfter(d.rows, s)
         /\ Effect(d, s).stamp = StampAfter(d.stamp, s)
         /\ Effect(d, s).exempt = d.exempt
         /\ Effect(d, s).collections
            = IF s.op \in Drops /\ s.obj = "collection" THEN {} ELSE d.collections
BY DEF IsDb, Effect

LEMMA EmptyIsDb == IsDb(EmptyDb) /\ EmptyDb.rows = {}
BY DEF IsDb, EmptyDb

LEMMA ExceptFields ==
  ASSUME NEW d, IsDb(d), NEW x
  PROVE  /\ [d EXCEPT !.ok = x] = [ok |-> x, rev |-> d.rev, schema |-> d.schema, stamp |-> d.stamp,
              rows |-> d.rows, collections |-> d.collections, exempt |-> d.exempt]
         /\ [d EXCEPT !.rev = x] = [ok |-> d.ok, rev |-> x, schema |-> d.schema, stamp |-> d.stamp,
              rows |-> d.rows, collections |-> d.collections, exempt |-> d.exempt]
         /\ [d EXCEPT !.rows = x] = [ok |-> d.ok, rev |-> d.rev, schema |-> d.schema,
              stamp |-> d.stamp, rows |-> x, collections |-> d.collections, exempt |-> d.exempt]
         /\ [d EXCEPT !.collections = x] = [ok |-> d.ok, rev |-> d.rev, schema |-> d.schema,
              stamp |-> d.stamp, rows |-> d.rows, collections |-> x, exempt |-> d.exempt]
         /\ [d EXCEPT !.exempt = x] = [ok |-> d.ok, rev |-> d.rev, schema |-> d.schema,
              stamp |-> d.stamp, rows |-> d.rows, collections |-> d.collections, exempt |-> x]
BY DEF IsDb

LEMMA FailFails == IsDb(Failed) /\ ~Failed.ok
<1>1. Failed = [ok |-> FALSE, rev |-> EmptyDb.rev, schema |-> EmptyDb.schema,
                stamp |-> EmptyDb.stamp, rows |-> EmptyDb.rows,
                collections |-> EmptyDb.collections, exempt |-> EmptyDb.exempt]
  BY EmptyIsDb, ExceptFields DEF Failed
<1> QED BY <1>1 DEF IsDb

(* Migration 0010 erases properties and nothing else of a row. *)
LEMMA RestampedRows ==
  ASSUME NEW r \in Rows
  PROVE  /\ [r EXCEPT !.props = FALSE] \in Rows
         /\ ~[r EXCEPT !.props = FALSE].props
BY DEF Rows

LEMMA RowsAfterRows ==
  ASSUME NEW rows \in SUBSET Rows, NEW s
  PROVE  /\ RowsAfter(rows, s) \in SUBSET Rows
         /\ rows = {} => RowsAfter(rows, s) = {}
         /\ NoProps(rows) => NoProps(RowsAfter(rows, s))
         /\ s.op = "restamp_provenance" => NoProps(RowsAfter(rows, s))
<1>1. CASE s.op = "restamp_provenance"
  <2>1. RowsAfter(rows, s) = { [r EXCEPT !.props = FALSE] : r \in rows }
    BY <1>1 DEF RowsAfter, Drops
  <2>2. \A r \in rows : [r EXCEPT !.props = FALSE] \in Rows /\ ~[r EXCEPT !.props = FALSE].props
    BY RestampedRows
  <2> QED BY <2>1, <2>2, Zenon DEF NoProps
<1>2. CASE s.op # "restamp_provenance"
  BY <1>2 DEF RowsAfter, NoProps
<1> QED BY <1>1, <1>2

(* Rows that satisfy the constraints of a database together. *)
Fits(d, rows) == \A r \in rows : RowFits(d, rows, r)

(* The constraints on rows in e are among those in d. *)
Weaker(d, e) ==
  /\ There(e, "ck_place_geom_is_polygonal") => There(d, "ck_place_geom_is_polygonal")
  /\ There(e, "uq_place_collection_external_id") =>
       /\ e.schema["uq_place_collection_external_id"] = d.schema["uq_place_collection_external_id"]
       /\ \/ e.exempt = d.exempt
          \/ d.schema["uq_place_collection_external_id"] # "partial_index"

(* Fewer rows and weaker constraints fit, and so do rows without properties. *)
LEMMA FitsWeaker ==
  ASSUME NEW d, NEW e, NEW rows, NEW some \in SUBSET rows, Fits(d, rows), Weaker(d, e)
  PROVE  Fits(e, some)
<1> SUFFICES ASSUME NEW r \in some PROVE RowFits(e, some, r)
  BY DEF Fits
<1>1. RowFits(d, rows, r)
  BY DEF Fits
<1> QED BY <1>1 DEF RowFits, Weaker, There

LEMMA FitsRestamped ==
  ASSUME NEW d, NEW rows \in SUBSET Rows, Fits(d, rows)
  PROVE  Fits(d, { [r EXCEPT !.props = FALSE] : r \in rows })
<1> DEFINE after == { [r EXCEPT !.props = FALSE] : r \in rows }
<1> SUFFICES ASSUME NEW r \in after PROVE RowFits(d, after, r)
  BY DEF Fits
<1>1. PICK p \in rows : r = [p EXCEPT !.props = FALSE]
  OBVIOUS
<1>2. /\ r.geom = p.geom /\ r.point = p.point /\ r.ext = p.ext
      /\ r.coll = p.coll /\ r.recipe = p.recipe
  BY <1>1 DEF Rows
<1>3. RowFits(d, rows, p)
  BY DEF Fits
<1>4. ASSUME NEW q \in after \ {r}
      PROVE  /\ <<q.geom, q.recipe>> # <<r.geom, r.recipe>>
             /\ r.ext /\ q.ext /\ q.coll = r.coll =>
                  \/ ~There(d, "uq_place_collection_external_id")
                  \/ /\ d.schema["uq_place_collection_external_id"] = "partial_index"
                     /\ r.coll = d.exempt
  <2>1. PICK o \in rows : q = [o EXCEPT !.props = FALSE]
    OBVIOUS
  <2>2. o # p
    BY <1>1, <2>1
  <2>3. q.geom = o.geom /\ q.ext = o.ext /\ q.coll = o.coll /\ q.recipe = o.recipe
    BY <2>1 DEF Rows
  <2>4. /\ <<o.geom, o.recipe>> # <<p.geom, p.recipe>>
        /\ p.ext /\ o.ext /\ o.coll = p.coll =>
             \/ ~There(d, "uq_place_collection_external_id")
             \/ /\ d.schema["uq_place_collection_external_id"] = "partial_index"
                /\ p.coll = d.exempt
    BY <1>3, <2>2 DEF RowFits
  <2> QED BY <1>2, <2>3, <2>4
<1>5. r.point => ~There(d, "ck_place_geom_is_polygonal")
  BY <1>2, <1>3 DEF RowFits
<1> QED BY <1>4, <1>5 DEF RowFits

(* A statement that is not refused leaves rows that fit: one that adds a   *)
(* constraint validates them, the others add none.                         *)
LEMMA EffectFits ==
  ASSUME NEW d, NEW s, IsDb(d), d.rows \in SUBSET Rows, RowsFit(d), ~Refused(d, s)
  PROVE  RowsFit(Effect(d, s))
<1> DEFINE e == Effect(d, s)
<1>1. CASE s.op \in Puts
  BY <1>1 DEF Refused, Violated
<1>2. CASE s.op \notin Puts
  <2>1. \A o \in Objects : e.schema[o] \in {d.schema[o], Gone}
    <3>1. e.schema = SchemaAfter(d.schema, s)
      BY EffectFields
    <3> QED BY <1>2, <3>1 DEF SchemaAfter
  <2>2. {"ck_place_geom_is_polygonal", "uq_place_collection_external_id"} \subseteq Objects
    BY DEF Objects
  <2>3. Weaker(d, e)
    BY <2>1, <2>2, EffectFields DEF There, Weaker
  <2>4. Fits(d, d.rows)
    BY DEF Fits, RowsFit
  <2>5. Fits(d, e.rows)
    BY <2>4, FitsRestamped, EffectFields DEF RowsAfter, Fits
  <2>6. Fits(e, e.rows)
    BY <2>3, <2>5, FitsWeaker
  <2> QED BY <2>6 DEF Fits, RowsFit
<1> QED BY <1>1, <1>2

LEMMA ExecuteSucceeds ==
  ASSUME NEW d, NEW s, Good(d)
  PROVE  Good(Execute(d, s)) /\ (Execute(d, s).ok => Did(d, Execute(d, s), s))
<1>1. CASE d.ok /\ ~Refused(d, s)
  <2>1. Execute(d, s) = Effect(d, s)
    BY <1>1 DEF Execute
  <2>2. IsDb(d) /\ Consistent(d)
    BY <1>1 DEF Good
  <2>3. d.rows \in SUBSET Rows
    BY <2>2 DEF Consistent
  <2>4. /\ RowsAfter(d.rows, s) \in SUBSET Rows
        /\ d.rows = {} => RowsAfter(d.rows, s) = {}
        /\ NoProps(d.rows) => NoProps(RowsAfter(d.rows, s))
        /\ s.op = "restamp_provenance" => NoProps(RowsAfter(d.rows, s))
    BY <2>3, RowsAfterRows
  <2>5. Consistent(Effect(d, s))
    <3>1. RowsFit(Effect(d, s))
      BY <1>1, <2>2, <2>3, EffectFits DEF Consistent
    <3>2. /\ Effect(d, s).rows = RowsAfter(d.rows, s)
          /\ Effect(d, s).collections \in {{}, d.collections}
          /\ Effect(d, s).exempt = d.exempt
      BY <2>2, EffectFields
    <3> QED BY <2>2, <2>4, <3>1, <3>2, FS_EmptySet DEF Consistent
  <2>6. (s = RequireEmpty => d.rows = {}) /\ s # Refuse
    <3>1. (s.op = "require_empty" => d.rows = {}) /\ s.op # "refuse"
      BY <1>1 DEF Refused
    <3>2. RequireEmpty.op = "require_empty" /\ Refuse.op = "refuse"
      BY DEF RequireEmpty, Refuse, Statement
    <3> QED BY <3>1, <3>2
  <2>7. /\ IsDb(Effect(d, s))
        /\ Effect(d, s).schema = SchemaAfter(d.schema, s)
        /\ Effect(d, s).rows = RowsAfter(d.rows, s)
        /\ Effect(d, s).stamp = StampAfter(d.stamp, s)
        /\ Effect(d, s).exempt = d.exempt
        /\ KeepsCollections(s) => Effect(d, s).collections = d.collections
    BY <2>2, EffectFields DEF KeepsCollections
  <2>8. Good(Effect(d, s))
    BY <2>5, <2>7 DEF Good
  <2>9. s = RestampProvenance => NoProps(RowsAfter(d.rows, s))
    <3>1. RestampProvenance.op = "restamp_provenance"
      BY DEF RestampProvenance, Statement
    <3> QED BY <2>4, <3>1
  <2>10. Did(d, Effect(d, s), s)
    BY <1>1, <2>4, <2>6, <2>7, <2>9
    DEF Did, Follows, SchemaOf, StampOf, ExemptOf, CollectionsOf, NoRows, Clean, Ok
  <2> QED BY <2>1, <2>8, <2>10
<1>2. CASE ~(d.ok /\ ~Refused(d, s))
  BY <1>2, FailFails DEF Execute, Good
<1> QED BY <1>1, <1>2

(* What the provers chain: one fact about any statement. *)
LEMMA Succeeds ==
  \A d, s : Good(d) => Good(d ++ s) /\ (Ok(d ++ s) => Did(d, d ++ s, s))
BY ExecuteSucceeds DEF ++, Ok

(* Which statements change the stamp and the collections. *)
LEMMA StampRules ==
  \A stamp, obj, form :
    /\ StampAfter(stamp, Create(obj)) = stamp
    /\ StampAfter(stamp, CreateAs(obj, form)) = stamp
    /\ StampAfter(stamp, Replace(obj, form)) = stamp
    /\ StampAfter(stamp, Alter(obj, form)) = stamp
    /\ StampAfter(stamp, Stamp(form)) = form
    /\ obj # "dedup_recipe_stamp" => /\ StampAfter(stamp, Drop(obj)) = stamp
                                     /\ StampAfter(stamp, DropIf(obj)) = stamp
    /\ StampAfter(stamp, DropIf("dedup_recipe_stamp")) = "none"
    /\ StampAfter(stamp, RequireEmpty) = stamp
    /\ StampAfter(stamp, RestampProvenance) = stamp
BY
DEF StampAfter, Create, CreateAs, Replace, Alter, Stamp, Drop, DropIf, RequireEmpty,
       RestampProvenance, Statement, Drops

LEMMA CollectionRules ==
  \A obj, form :
    /\ KeepsCollections(Create(obj)) /\ KeepsCollections(Replace(obj, form))
    /\ KeepsCollections(CreateAs(obj, form))
    /\ obj # "collection" => KeepsCollections(Drop(obj))
BY DEF KeepsCollections, Create, CreateAs, Replace, Drop, Statement, Drops

-----------------------------------------------------------------------------
(* What the statements of each migration make of the schema.               *)

(* A statement applied to a schema alone.  The migrations that touch many  *)
(* objects are cut into stretches a prover can evaluate.                   *)
schema -- s == SchemaAfter(schema, s)

USE DEF --, SchemaAfter, SchemaAt, Statement, Create, CreateAs, Replace, Alter, Drop, DropIf,
         Stamp, RequireEmpty, RestampProvenance, Puts, Drops, Taken, PartOf, Objects,
         UserTriggers, GuardTriggers, FunctionsV2, LivesAt, FormAt, Gone, Made, LastRevision

(* A schema on its way from one revision to another, with some objects done. *)
Partly(done, from, to) == [o \in Objects |-> SchemaAt(IF o \in done THEN to ELSE from)[o]]

Up1a ==
  {"catalog", "collection", "collection.writable_anon", "place"}

LEMMA SchemaUp1a ==
  SchemaAt(0) -- Create("catalog") -- Create("collection") -- Create("collection.writable_anon")
    -- Create("place")
  = Partly(Up1a, 0, 1)
BY SMTT(60) DEF Partly, Up1a

Up1b ==
  Up1a \cup
  {"place.predecessor_id", "ck_place_geom_is_polygonal", "uq_place_collection_external_id",
   "geoid_registry"}

LEMMA SchemaUp1b ==
  Partly(Up1a, 0, 1) -- Create("place.predecessor_id") -- Create("ck_place_geom_is_polygonal")
    -- CreateAs("uq_place_collection_external_id", "constraint") -- Create("geoid_registry")
  = Partly(Up1b, 0, 1)
BY SMTT(60) DEF Partly, Up1b

Up1c ==
  Up1b \cup
  {"change_log", "authority_assertion", "api_key"}

LEMMA SchemaUp1c ==
  Partly(Up1b, 0, 1) -- Create("change_log") -- Create("authority_assertion")
    -- Create("api_key")
  = Partly(Up1c, 0, 1)
BY SMTT(60) DEF Partly, Up1c

Up1d ==
  Up1c \cup
  {"geoid_geom_hash", "geoid_geom_hash_default"}

LEMMA SchemaUp1d ==
  Partly(Up1c, 0, 1) -- Replace("geoid_geom_hash", "v1")
    -- Replace("geoid_geom_hash_default", "v1")
  = Partly(Up1d, 0, 1)
BY SMTT(60) DEF Partly, Up1d

Up1e ==
  Up1d \cup
  {"place_after_insert", "place_after_insert_ai", "place_block_mutation"}

LEMMA SchemaUp1e ==
  Partly(Up1d, 0, 1) -- Replace("place_after_insert", Made)
    -- CreateAs("place_after_insert_ai", "on")
    -- Replace("place_block_mutation", "with_predecessor_id")
  = Partly(Up1e, 0, 1)
BY SMTT(60) DEF Partly, Up1e

Up1f ==
  Up1e \cup
  {"place_block_mutation_bud", "place_block_truncate_bt", "geoid_append_only_block",
   "geoid_registry_append_only_bud"}

LEMMA SchemaUp1f ==
  Partly(Up1e, 0, 1) -- CreateAs("place_block_mutation_bud", "on")
    -- CreateAs("place_block_truncate_bt", "on") -- Replace("geoid_append_only_block", Made)
    -- CreateAs("geoid_registry_append_only_bud", "on")
  = Partly(Up1f, 0, 1)
BY SMTT(60) DEF Partly, Up1f

Up1g ==
  Up1f \cup
  {"geoid_registry_append_only_bt", "change_log_append_only_bud", "change_log_append_only_bt",
   "place_geom_gix"}

LEMMA SchemaUp1g ==
  Partly(Up1f, 0, 1) -- CreateAs("geoid_registry_append_only_bt", "on")
    -- CreateAs("change_log_append_only_bud", "on")
    -- CreateAs("change_log_append_only_bt", "on") -- Create("place_geom_gix")
  = Partly(Up1g, 0, 1)
BY SMTT(60) DEF Partly, Up1g

LEMMA SchemaUp1 == Partly(Up1g, 0, 1) = SchemaAt(1)
BY SMTT(60) DEF Partly, Up1a, Up1b, Up1c, Up1d, Up1e, Up1f, Up1g

Down1a ==
  {"place_geom_gix", "change_log_append_only_bt", "change_log_append_only_bud"}

LEMMA SchemaDown1a ==
  SchemaAt(1) -- DropIf("place_geom_gix") -- DropIf("change_log_append_only_bt")
    -- DropIf("change_log_append_only_bud")
  = Partly(Down1a, 1, 0)
BY SMTT(60) DEF Partly, Down1a

Down1b ==
  Down1a \cup
  {"geoid_registry_append_only_bt", "geoid_registry_append_only_bud", "geoid_append_only_block"}

LEMMA SchemaDown1b ==
  Partly(Down1a, 1, 0) -- DropIf("geoid_registry_append_only_bt")
    -- DropIf("geoid_registry_append_only_bud") -- DropIf("geoid_append_only_block")
  = Partly(Down1b, 1, 0)
BY SMTT(60) DEF Partly, Down1b

Down1c ==
  Down1b \cup
  {"place_block_truncate_bt", "place_block_mutation_bud", "place_after_insert_ai",
   "place_block_mutation"}

LEMMA SchemaDown1c ==
  Partly(Down1b, 1, 0) -- DropIf("place_block_truncate_bt") -- DropIf("place_block_mutation_bud")
    -- DropIf("place_after_insert_ai") -- DropIf("place_block_mutation")
  = Partly(Down1c, 1, 0)
BY SMTT(60) DEF Partly, Down1c

Down1d ==
  Down1c \cup
  {"place_after_insert", "geoid_geom_hash_default", "geoid_geom_hash", "api_key"}

LEMMA SchemaDown1d ==
  Partly(Down1c, 1, 0) -- DropIf("place_after_insert") -- DropIf("geoid_geom_hash_default")
    -- DropIf("geoid_geom_hash") -- DropIf("api_key")
  = Partly(Down1d, 1, 0)
BY SMTT(60) DEF Partly, Down1d

Down1e ==
  Down1d \cup
  {"authority_assertion", "change_log", "change_log_append_only_bud",
   "change_log_append_only_bt", "geoid_registry", "geoid_registry_append_only_bud",
   "geoid_registry_append_only_bt"}

LEMMA SchemaDown1e ==
  Partly(Down1d, 1, 0) -- DropIf("authority_assertion") -- DropIf("change_log")
    -- DropIf("geoid_registry")
  = Partly(Down1e, 1, 0)
BY SMTT(60) DEF Partly, Down1e

Down1f ==
  Down1e \cup
  {"place", "place.predecessor_id", "ck_place_geom_is_polygonal",
   "uq_place_collection_external_id", "place_after_insert_ai", "place_block_mutation_bud",
   "place_block_truncate_bt", "place_geom_gix", "collection", "collection.writable_anon",
   "catalog"}

LEMMA SchemaDown1f ==
  Partly(Down1e, 1, 0) -- DropIf("place") -- DropIf("collection") -- DropIf("catalog")
  = Partly(Down1f, 1, 0)
BY SMTT(60) DEF Partly, Down1f

LEMMA SchemaDown1 == Partly(Down1f, 1, 0) = SchemaAt(0)
BY SMTT(60) DEF Partly, Down1a, Down1b, Down1c, Down1d, Down1e, Down1f

LEMMA SchemaUp2 ==
  SchemaAt(1) -- Create("place_collection_created_id_idx")
  = SchemaAt(2)
BY SMTT(60)

LEMMA SchemaDown2 ==
  SchemaAt(2) -- Drop("place_collection_created_id_idx")
  = SchemaAt(1)
BY SMTT(60)

LEMMA SchemaUp3 ==
  SchemaAt(2) -- Create("dedup_recipe_stamp") -- Stamp("v1")
  = SchemaAt(3)
BY SMTT(60)

LEMMA SchemaDown3 ==
  SchemaAt(3) -- DropIf("dedup_recipe_stamp")
  = SchemaAt(2)
BY SMTT(60)

LEMMA SchemaUp4 ==
  SchemaAt(3) -- Replace("geoid_from_geom_hash", "plain")
    -- Replace("geoid_id_default", "plain") -- Stamp("v1")
  = SchemaAt(4)
BY SMTT(60)

LEMMA SchemaDown4 ==
  SchemaAt(4) -- DropIf("geoid_id_default") -- DropIf("geoid_from_geom_hash")
  = SchemaAt(3)
BY SMTT(60)

LEMMA SchemaUp5 ==
  SchemaAt(4) -- Drop("ck_place_geom_is_polygonal") -- Create("ck_place_geom_is_supported")
    -- Create("ck_place_geom_not_empty")
  = SchemaAt(5)
BY SMTT(60)

LEMMA SchemaDown5 ==
  SchemaAt(5) -- Drop("ck_place_geom_not_empty") -- Drop("ck_place_geom_is_supported")
    -- Create("ck_place_geom_is_polygonal")
  = SchemaAt(4)
BY SMTT(60)

LEMMA SchemaUp6 ==
  SchemaAt(5) -- Create("collection_grant") -- Create("collection_grant_principal_email_idx")
  = SchemaAt(6)
BY SMTT(60)

LEMMA SchemaDown6 ==
  SchemaAt(6) -- DropIf("collection_grant_principal_email_idx") -- DropIf("collection_grant")
  = SchemaAt(5)
BY SMTT(60)

LEMMA SchemaUp7 ==
  SchemaAt(6) -- Create("ck_collection_grant_email_normalized")
    -- Replace("geoid_geom_hash", "v1_pinned")
    -- Replace("geoid_geom_hash_default", "v1_pinned")
    -- Replace("geoid_from_geom_hash", "pinned") -- Replace("geoid_id_default", "pinned")
    -- DropIf("place_collection_created_id_idx")
  = SchemaAt(7)
BY SMTT(60)

LEMMA SchemaDown7 ==
  SchemaAt(7) -- Create("place_collection_created_id_idx")
    -- Replace("geoid_id_default", "plain") -- Replace("geoid_from_geom_hash", "plain")
    -- Replace("geoid_geom_hash_default", "v1") -- Replace("geoid_geom_hash", "v1")
    -- Drop("ck_collection_grant_email_normalized")
  = SchemaAt(6)
BY SMTT(60)

Up8a ==
  {"geoid_quantize_v2", "geoid_canon_ring_v2", "geoid_canon_polygon_body_v2"}

LEMMA SchemaUp8a ==
  SchemaAt(7) -- CreateAs("geoid_quantize_v2", "pinned")
    -- CreateAs("geoid_canon_ring_v2", "pinned")
    -- CreateAs("geoid_canon_polygon_body_v2", "pinned")
  = Partly(Up8a, 7, 8)
BY SMTT(60) DEF Partly, Up8a

Up8b ==
  Up8a \cup
  {"geoid_canonical_bytes_v2", "geoid_geom_hash_v2"}

LEMMA SchemaUp8b ==
  Partly(Up8a, 7, 8) -- CreateAs("geoid_canonical_bytes_v2", "pinned")
    -- CreateAs("geoid_geom_hash_v2", "pinned")
  = Partly(Up8b, 7, 8)
BY SMTT(60) DEF Partly, Up8b

Up8c ==
  Up8b \cup
  {"geoid_geom_hash_default", "geoid_geom_hash"}

LEMMA SchemaUp8c ==
  Partly(Up8b, 7, 8) -- Replace("geoid_geom_hash_default", "v2_pinned")
    -- Drop("geoid_geom_hash") -- Stamp("v2")
  = Partly(Up8c, 7, 8)
BY SMTT(60) DEF Partly, Up8c

LEMMA SchemaUp8 == Partly(Up8c, 7, 8) = SchemaAt(8)
BY SMTT(60) DEF Partly, Up8a, Up8b, Up8c

Down8a ==
  {"geoid_geom_hash", "geoid_geom_hash_default"}

LEMMA SchemaDown8a ==
  SchemaAt(8) -- Replace("geoid_geom_hash", "v1_pinned")
    -- Replace("geoid_geom_hash_default", "v1_pinned")
  = Partly(Down8a, 8, 7)
BY SMTT(60) DEF Partly, Down8a

Down8b ==
  Down8a \cup
  {"geoid_geom_hash_v2", "geoid_canonical_bytes_v2"}

LEMMA SchemaDown8b ==
  Partly(Down8a, 8, 7) -- DropIf("geoid_geom_hash_v2") -- DropIf("geoid_canonical_bytes_v2")
  = Partly(Down8b, 8, 7)
BY SMTT(60) DEF Partly, Down8b

Down8c ==
  Down8b \cup
  {"geoid_canon_polygon_body_v2", "geoid_canon_ring_v2", "geoid_quantize_v2"}

LEMMA SchemaDown8c ==
  Partly(Down8b, 8, 7) -- DropIf("geoid_canon_polygon_body_v2") -- DropIf("geoid_canon_ring_v2")
    -- DropIf("geoid_quantize_v2") -- Stamp("v1")
  = Partly(Down8c, 8, 7)
BY SMTT(60) DEF Partly, Down8c

LEMMA SchemaDown8 == Partly(Down8c, 8, 7) = SchemaAt(7)
BY SMTT(60) DEF Partly, Down8a, Down8b, Down8c

LEMMA SchemaUp9 ==
  SchemaAt(8) -- Create("collection.public_read") -- Create("place_provenance_created_by_idx")
  = SchemaAt(9)
BY SMTT(60)

LEMMA SchemaDown9 ==
  SchemaAt(9) -- DropIf("place_provenance_created_by_idx") -- Drop("collection.public_read")
  = SchemaAt(8)
BY SMTT(60)

LEMMA SchemaUp10 ==
  SchemaAt(9) -- Alter("place_block_mutation_bud", "off") -- RestampProvenance
    -- Alter("place_block_mutation_bud", "on")
  = SchemaAt(10)
BY SMTT(60)

LEMMA SchemaUp11 ==
  SchemaAt(10) -- Drop("collection.writable_anon") -- Create("collection.public_write")
  = SchemaAt(11)
BY SMTT(60)

LEMMA SchemaDown11 ==
  SchemaAt(11) -- Drop("collection.public_write") -- Create("collection.writable_anon")
  = SchemaAt(10)
BY SMTT(60)

LEMMA SchemaUp12 ==
  SchemaAt(11) -- Drop("uq_place_collection_external_id")
    -- CreateAs("uq_place_collection_external_id", "partial_index")
  = SchemaAt(12)
BY SMTT(60)

LEMMA SchemaDown12 ==
  SchemaAt(12) -- Drop("uq_place_collection_external_id")
    -- CreateAs("uq_place_collection_external_id", "constraint")
  = SchemaAt(11)
BY SMTT(60)

LEMMA SchemaUp13 ==
  SchemaAt(12) -- Drop("place.predecessor_id")
    -- Replace("place_block_mutation", "without_predecessor_id")
  = SchemaAt(13)
BY SMTT(60)

LEMMA SchemaDown13 ==
  SchemaAt(13) -- Create("place.predecessor_id")
    -- Replace("place_block_mutation", "with_predecessor_id")
  = SchemaAt(12)
BY SMTT(60)

HIDE DEF --, SchemaAfter, SchemaAt, Statement, Create, CreateAs, Replace, Alter, Drop, DropIf,
          Stamp, RequireEmpty, RestampProvenance, Puts, Drops, Taken, PartOf, Objects,
          UserTriggers, GuardTriggers, FunctionsV2, LivesAt, FormAt, Gone, Made, LastRevision

-----------------------------------------------------------------------------
(* One migration.                                                          *)

(* The latest stamp at a revision. *)
StampAt(rev) == IF rev < 3 THEN "none" ELSE IF rev < 8 THEN "v1" ELSE "v2"

(* The index exempts the service's public collection, if it is configured  *)
(* alike.                                                                  *)
Exempts(d, rev, slug) ==
  rev >= 12 /\ slug = ServiceSlug =>
    ExemptOf(d) # NoId /\ ExemptOf(d) = PublicId(d, ServiceSlug)

(* A database as it is at a revision. *)
Sound(d, rev, slug) ==
  /\ Good(d) /\ Ok(d)
  /\ SchemaOf(d) = SchemaAt(rev) /\ StampOf(d) = StampAt(rev)
  /\ Exempts(d, rev, slug)

LEMMA FollowsTransitive ==
  ASSUME NEW d, NEW e, NEW f, Follows(d, e), Follows(e, f)
  PROVE  Follows(d, f)
BY DEF Follows

LEMMA SameExemption ==
  ASSUME NEW d, NEW e, NEW from, NEW to, NEW slug, Exempts(d, from, slug), from >= 12,
         ExemptOf(e) = ExemptOf(d), CollectionsOf(e) = CollectionsOf(d)
  PROVE  Exempts(e, to, slug)
<1>1. PublicId(e, ServiceSlug) = PublicId(d, ServiceSlug)
  BY DEF PublicId, CollectionsOf
<1> QED BY <1>1 DEF Exempts

(* The guard of 0008 lets an empty registry through, unchanged. *)
LEMMA RequiresEmpty ==
  ASSUME NEW d, NEW rev \in 7..8, NEW slug, Sound(d, rev, slug), Ok(d ++ RequireEmpty)
  PROVE  Sound(d ++ RequireEmpty, rev, slug) /\ Follows(d, d ++ RequireEmpty) /\ NoRows(d)
<1>1. SchemaAfter(SchemaOf(d), RequireEmpty) = SchemaOf(d)
  BY DEF Sound, SchemaAt, SchemaAfter, RequireEmpty, Statement, Puts, Drops
<1> QED BY <1>1, Succeeds, StampRules DEF Did, Sound, Exempts

(* Each migration, up and down, from its statements. *)
LEMMA Tables0001Made ==
  ASSUME NEW d, Good(d)
  PROVE  /\ Good(Tables0001(d))
         /\ Ok(Tables0001(d)) =>
              /\ Follows(d, Tables0001(d)) /\ StampOf(Tables0001(d)) = StampOf(d)
              /\ SchemaOf(d) = SchemaAt(0) =>
                   SchemaOf(Tables0001(d)) = Partly(Up1c, 0, 1)
<1>1. /\ Good(Tables0001(d))
      /\ Ok(Tables0001(d)) =>
           /\ Follows(d, Tables0001(d)) /\ StampOf(Tables0001(d)) = StampOf(d)
           /\ SchemaOf(Tables0001(d))
              = SchemaOf(d) -- Create("catalog") -- Create("collection")
                  -- Create("collection.writable_anon") -- Create("place")
                  -- Create("place.predecessor_id") -- Create("ck_place_geom_is_polygonal")
                  -- CreateAs("uq_place_collection_external_id", "constraint")
                  -- Create("geoid_registry") -- Create("change_log")
                  -- Create("authority_assertion") -- Create("api_key")
  BY SMTT(60), Succeeds, StampRules DEF Tables0001, Did, Follows, --
<1> QED BY SMTT(60), <1>1, SchemaUp1a, SchemaUp1b, SchemaUp1c

LEMMA Recipe0001Made ==
  ASSUME NEW d, Good(d)
  PROVE  /\ Good(Recipe0001(d))
         /\ Ok(Recipe0001(d)) =>
              /\ Follows(d, Recipe0001(d)) /\ StampOf(Recipe0001(d)) = StampOf(d)
              /\ SchemaOf(d) = Partly(Up1c, 0, 1) =>
                   SchemaOf(Recipe0001(d)) = Partly(Up1d, 0, 1)
BY SMTT(60), Succeeds, StampRules, SchemaUp1d DEF Recipe0001, Did, Follows, --

LEMMA Guards0001Made ==
  ASSUME NEW d, Good(d)
  PROVE  /\ Good(Guards0001(d))
         /\ Ok(Guards0001(d)) =>
              /\ Follows(d, Guards0001(d)) /\ StampOf(Guards0001(d)) = StampOf(d)
              /\ SchemaOf(d) = Partly(Up1d, 0, 1) =>
                   SchemaOf(Guards0001(d)) = SchemaAt(1)
<1>1. /\ Good(Guards0001(d))
      /\ Ok(Guards0001(d)) =>
           /\ Follows(d, Guards0001(d)) /\ StampOf(Guards0001(d)) = StampOf(d)
           /\ SchemaOf(Guards0001(d))
              = SchemaOf(d) -- Replace("place_after_insert", Made)
                  -- CreateAs("place_after_insert_ai", "on")
                  -- Replace("place_block_mutation", "with_predecessor_id")
                  -- CreateAs("place_block_mutation_bud", "on")
                  -- CreateAs("place_block_truncate_bt", "on")
                  -- Replace("geoid_append_only_block", Made)
                  -- CreateAs("geoid_registry_append_only_bud", "on")
                  -- CreateAs("geoid_registry_append_only_bt", "on")
                  -- CreateAs("change_log_append_only_bud", "on")
                  -- CreateAs("change_log_append_only_bt", "on") -- Create("place_geom_gix")
  BY SMTT(60), Succeeds, StampRules DEF Guards0001, Did, Follows, --
<1> QED BY SMTT(60), <1>1, SchemaUp1e, SchemaUp1f, SchemaUp1g, SchemaUp1

LEMMA Up1 ==
  ASSUME NEW d, NEW slug, Sound(d, 0, slug), Ok(Upgrade0001(d))
  PROVE  Sound(Upgrade0001(d), 1, slug) /\ Follows(d, Upgrade0001(d))
<1> DEFINE tables == Tables0001(d)
           recipe == Recipe0001(tables)
<1>1. Good(d)
  BY DEF Sound
<1>2. Good(tables) /\ Good(recipe) /\ Good(Upgrade0001(d))
  BY <1>1, Tables0001Made, Recipe0001Made, Guards0001Made DEF Upgrade0001
<1>3. Ok(recipe) /\ Follows(recipe, Upgrade0001(d))
  BY <1>2, Guards0001Made DEF Upgrade0001, Follows
<1>4. Ok(tables) /\ Follows(tables, recipe)
  BY <1>2, <1>3, Recipe0001Made DEF Follows
<1>5. Follows(d, tables)
  BY <1>1, <1>4, Tables0001Made
<1>6. SchemaOf(Upgrade0001(d)) = SchemaAt(1) /\ StampOf(Upgrade0001(d)) = StampOf(d)
  BY <1>1, <1>2, <1>3, <1>4, Tables0001Made, Recipe0001Made, Guards0001Made
  DEF Upgrade0001, Sound
<1>7. Follows(d, Upgrade0001(d))
  BY <1>3, <1>4, <1>5, FollowsTransitive
<1> QED BY <1>2, <1>6, <1>7 DEF Sound, Exempts, StampAt

LEMMA Down1 ==
  ASSUME NEW d, NEW slug, Sound(d, 1, slug), Ok(Downgrade0001(d))
  PROVE  Sound(Downgrade0001(d), 0, slug) /\ Follows(d, Downgrade0001(d))
BY SMTT(60), Succeeds, StampRules, SchemaDown1a, SchemaDown1b, SchemaDown1c, SchemaDown1d,
   SchemaDown1e, SchemaDown1f, SchemaDown1
DEF Downgrade0001, Did, Follows, Sound, Exempts, StampAt, --

LEMMA Up2 ==
  ASSUME NEW d, NEW slug, Sound(d, 1, slug), Ok(Upgrade0002(d))
  PROVE  Sound(Upgrade0002(d), 2, slug) /\ Follows(d, Upgrade0002(d))
BY SMTT(60), Succeeds, StampRules, SchemaUp2
DEF Upgrade0002, Did, Follows, Sound, Exempts, StampAt, --

LEMMA Down2 ==
  ASSUME NEW d, NEW slug, Sound(d, 2, slug), Ok(Downgrade0002(d))
  PROVE  Sound(Downgrade0002(d), 1, slug) /\ Follows(d, Downgrade0002(d))
BY SMTT(60), Succeeds, StampRules, SchemaDown2
DEF Downgrade0002, Did, Follows, Sound, Exempts, StampAt, --

LEMMA Up3 ==
  ASSUME NEW d, NEW slug, Sound(d, 2, slug), Ok(Upgrade0003(d))
  PROVE  Sound(Upgrade0003(d), 3, slug) /\ Follows(d, Upgrade0003(d))
BY SMTT(60), Succeeds, StampRules, SchemaUp3
DEF Upgrade0003, Did, Follows, Sound, Exempts, StampAt, --

LEMMA Down3 ==
  ASSUME NEW d, NEW slug, Sound(d, 3, slug), Ok(Downgrade0003(d))
  PROVE  Sound(Downgrade0003(d), 2, slug) /\ Follows(d, Downgrade0003(d))
BY SMTT(60), Succeeds, StampRules, SchemaDown3
DEF Downgrade0003, Did, Follows, Sound, Exempts, StampAt, --

LEMMA Up4 ==
  ASSUME NEW d, NEW slug, Sound(d, 3, slug), Ok(Upgrade0004(d))
  PROVE  Sound(Upgrade0004(d), 4, slug) /\ Follows(d, Upgrade0004(d))
BY SMTT(60), Succeeds, StampRules, SchemaUp4
DEF Upgrade0004, Did, Follows, Sound, Exempts, StampAt, --

LEMMA Down4 ==
  ASSUME NEW d, NEW slug, Sound(d, 4, slug), Ok(Downgrade0004(d))
  PROVE  Sound(Downgrade0004(d), 3, slug) /\ Follows(d, Downgrade0004(d))
BY SMTT(60), Succeeds, StampRules, SchemaDown4
DEF Downgrade0004, Did, Follows, Sound, Exempts, StampAt, --

LEMMA Up5 ==
  ASSUME NEW d, NEW slug, Sound(d, 4, slug), Ok(Upgrade0005(d))
  PROVE  Sound(Upgrade0005(d), 5, slug) /\ Follows(d, Upgrade0005(d))
BY SMTT(60), Succeeds, StampRules, SchemaUp5
DEF Upgrade0005, Did, Follows, Sound, Exempts, StampAt, --

LEMMA Down5 ==
  ASSUME NEW d, NEW slug, Sound(d, 5, slug), Ok(Downgrade0005(d))
  PROVE  Sound(Downgrade0005(d), 4, slug) /\ Follows(d, Downgrade0005(d))
BY SMTT(60), Succeeds, StampRules, SchemaDown5
DEF Downgrade0005, Did, Follows, Sound, Exempts, StampAt, --

LEMMA Up6 ==
  ASSUME NEW d, NEW slug, Sound(d, 5, slug), Ok(Upgrade0006(d))
  PROVE  Sound(Upgrade0006(d), 6, slug) /\ Follows(d, Upgrade0006(d))
BY SMTT(60), Succeeds, StampRules, SchemaUp6
DEF Upgrade0006, Did, Follows, Sound, Exempts, StampAt, --

LEMMA Down6 ==
  ASSUME NEW d, NEW slug, Sound(d, 6, slug), Ok(Downgrade0006(d))
  PROVE  Sound(Downgrade0006(d), 5, slug) /\ Follows(d, Downgrade0006(d))
BY SMTT(60), Succeeds, StampRules, SchemaDown6
DEF Downgrade0006, Did, Follows, Sound, Exempts, StampAt, --

LEMMA Up7 ==
  ASSUME NEW d, NEW slug, Sound(d, 6, slug), Ok(Upgrade0007(d))
  PROVE  Sound(Upgrade0007(d), 7, slug) /\ Follows(d, Upgrade0007(d))
BY SMTT(60), Succeeds, StampRules, SchemaUp7
DEF Upgrade0007, Did, Follows, Sound, Exempts, StampAt, --

LEMMA Down7 ==
  ASSUME NEW d, NEW slug, Sound(d, 7, slug), Ok(Downgrade0007(d))
  PROVE  Sound(Downgrade0007(d), 6, slug) /\ Follows(d, Downgrade0007(d))
BY SMTT(60), Succeeds, StampRules, SchemaDown7
DEF Downgrade0007, Did, Follows, Sound, Exempts, StampAt, --

LEMMA Switch2 ==
  ASSUME NEW d, NEW slug, Sound(d, 7, slug), Ok(SwitchTo2(d))
  PROVE  Sound(SwitchTo2(d), 8, slug) /\ Follows(d, SwitchTo2(d))
BY SMTT(60), Succeeds, StampRules, SchemaUp8a, SchemaUp8b, SchemaUp8c, SchemaUp8
DEF SwitchTo2, Functions0008, Did, Follows, Sound, Exempts, StampAt, --

LEMMA Up8 ==
  ASSUME NEW d, NEW slug, Sound(d, 7, slug), Ok(Upgrade0008(d))
  PROVE  Sound(Upgrade0008(d), 8, slug) /\ Follows(d, Upgrade0008(d)) /\ NoRows(d)
<1> DEFINE e == d ++ RequireEmpty
<1>1. Good(e)
  BY Succeeds DEF Sound
<1>2. Ok(e)
  BY <1>1, Succeeds DEF Upgrade0008, SwitchTo2, Did, Follows, Functions0008
<1>3. Sound(e, 7, slug) /\ Follows(d, e) /\ NoRows(d)
  BY <1>2, RequiresEmpty
<1>4. Sound(SwitchTo2(e), 8, slug) /\ Follows(e, SwitchTo2(e))
  BY <1>3, Switch2 DEF Upgrade0008
<1> QED BY <1>3, <1>4, FollowsTransitive DEF Upgrade0008

LEMMA Switch1 ==
  ASSUME NEW d, NEW slug, Sound(d, 8, slug), Ok(SwitchTo1(d))
  PROVE  Sound(SwitchTo1(d), 7, slug) /\ Follows(d, SwitchTo1(d))
BY SMTT(60), Succeeds, StampRules, SchemaDown8a, SchemaDown8b, SchemaDown8c, SchemaDown8
DEF SwitchTo1, Did, Follows, Sound, Exempts, StampAt, --

LEMMA Down8 ==
  ASSUME NEW d, NEW slug, Sound(d, 8, slug), Ok(Downgrade0008(d))
  PROVE  Sound(Downgrade0008(d), 7, slug) /\ Follows(d, Downgrade0008(d)) /\ NoRows(d)
<1> DEFINE e == d ++ RequireEmpty
<1>1. Good(e)
  BY Succeeds DEF Sound
<1>2. Ok(e)
  BY <1>1, Succeeds DEF Downgrade0008, SwitchTo1, Did, Follows
<1>3. Sound(e, 8, slug) /\ Follows(d, e) /\ NoRows(d)
  BY <1>2, RequiresEmpty
<1>4. Sound(SwitchTo1(e), 7, slug) /\ Follows(e, SwitchTo1(e))
  BY <1>3, Switch1 DEF Downgrade0008
<1> QED BY <1>3, <1>4, FollowsTransitive DEF Downgrade0008

LEMMA Up9 ==
  ASSUME NEW d, NEW slug, Sound(d, 8, slug), Ok(Upgrade0009(d))
  PROVE  Sound(Upgrade0009(d), 9, slug) /\ Follows(d, Upgrade0009(d))
BY SMTT(60), Succeeds, StampRules, SchemaUp9
DEF Upgrade0009, Did, Follows, Sound, Exempts, StampAt, --

LEMMA Down9 ==
  ASSUME NEW d, NEW slug, Sound(d, 9, slug), Ok(Downgrade0009(d))
  PROVE  Sound(Downgrade0009(d), 8, slug) /\ Follows(d, Downgrade0009(d))
BY SMTT(60), Succeeds, StampRules, SchemaDown9
DEF Downgrade0009, Did, Follows, Sound, Exempts, StampAt, --

LEMMA Up10 ==
  ASSUME NEW d, NEW slug, Sound(d, 9, slug), Ok(Upgrade0010(d))
  PROVE  Sound(Upgrade0010(d), 10, slug) /\ Follows(d, Upgrade0010(d)) /\ Clean(Upgrade0010(d))
BY SMTT(60), Succeeds, StampRules, SchemaUp10
DEF Upgrade0010, Did, Follows, Sound, Exempts, StampAt, --

LEMMA Up11 ==
  ASSUME NEW d, NEW slug, Sound(d, 10, slug), Ok(Upgrade0011(d))
  PROVE  Sound(Upgrade0011(d), 11, slug) /\ Follows(d, Upgrade0011(d))
BY SMTT(60), Succeeds, StampRules, SchemaUp11
DEF Upgrade0011, Did, Follows, Sound, Exempts, StampAt, --

LEMMA Down11 ==
  ASSUME NEW d, NEW slug, Sound(d, 11, slug), Ok(Downgrade0011(d))
  PROVE  Sound(Downgrade0011(d), 10, slug) /\ Follows(d, Downgrade0011(d))
BY SMTT(60), Succeeds, StampRules, SchemaDown11
DEF Downgrade0011, Did, Follows, Sound, Exempts, StampAt, --

LEMMA Down12 ==
  ASSUME NEW d, NEW slug, Sound(d, 12, slug), Ok(Downgrade0012(d))
  PROVE  Sound(Downgrade0012(d), 11, slug) /\ Follows(d, Downgrade0012(d))
BY SMTT(60), Succeeds, StampRules, SchemaDown12
DEF Downgrade0012, Did, Follows, Sound, Exempts, StampAt, --

(* 0013 runs at revisions where the exemption has to be kept. *)
LEMMA Up13 ==
  ASSUME NEW d, NEW slug, Sound(d, 12, slug), Ok(Upgrade0013(d))
  PROVE  Sound(Upgrade0013(d), 13, slug) /\ Follows(d, Upgrade0013(d))
<1>1. /\ Good(Upgrade0013(d)) /\ Follows(d, Upgrade0013(d))
      /\ SchemaOf(Upgrade0013(d)) = SchemaAt(13) /\ StampOf(Upgrade0013(d)) = StampAt(13)
  BY Succeeds, StampRules, SchemaUp13 DEF Upgrade0013, Did, Follows, Sound, StampAt, --
<1>2. CollectionsOf(Upgrade0013(d)) = CollectionsOf(d)
  BY Succeeds, CollectionRules DEF Upgrade0013, Did, Follows, Sound
<1>3. Exempts(Upgrade0013(d), 13, slug)
  BY <1>1, <1>2, SameExemption DEF Follows, Sound
<1> QED BY <1>1, <1>3 DEF Sound

LEMMA Down13 ==
  ASSUME NEW d, NEW slug, Sound(d, 13, slug), Ok(Downgrade0013(d))
  PROVE  Sound(Downgrade0013(d), 12, slug) /\ Follows(d, Downgrade0013(d))
<1>1. /\ Good(Downgrade0013(d)) /\ Follows(d, Downgrade0013(d))
      /\ SchemaOf(Downgrade0013(d)) = SchemaAt(12) /\ StampOf(Downgrade0013(d)) = StampAt(12)
  BY Succeeds, StampRules, SchemaDown13 DEF Downgrade0013, Did, Follows, Sound, StampAt, --
<1>2. CollectionsOf(Downgrade0013(d)) = CollectionsOf(d)
  BY Succeeds, CollectionRules DEF Downgrade0013, Did, Follows, Sound
<1>3. Exempts(Downgrade0013(d), 12, slug)
  BY <1>1, <1>2, SameExemption DEF Follows, Sound
<1> QED BY <1>1, <1>3 DEF Sound

(* There is no way down from revision 10. *)
LEMMA Down10 ==
  ASSUME NEW d, NEW slug, Sound(d, 10, slug)
  PROVE  ~Ok(Downgrade0010(d))
BY Succeeds DEF Downgrade0010, Did, Sound

-----------------------------------------------------------------------------
(* The invariant.                                                          *)

(* A run at one revision may go on to another. *)
Beyond(from, at, to) ==
  /\ to \in {at - 1, at + 1} \cap 0 .. LastRevision
  /\ from < at => to > at
  /\ from > at => to < at

(* A run that has not locked place has left the constraints on rows alone. *)
LEMMA UnlockedKeepsConstraints ==
  ASSUME NEW d, NEW e, NEW from \in 0 .. LastRevision, NEW to \in 0 .. LastRevision,
         NEW slug, Sound(d, from, slug), Sound(e, to, slug), ~LocksOut(from, to),
         ExemptOf(e) = ExemptOf(d)
  PROVE  Weaker(d, e)
<1>1. ~(from < 1 /\ to >= 1) /\ ~(from >= 1 /\ to < 1) /\ ~(from < 5 /\ to >= 5)
      /\ ~(from >= 5 /\ to < 5) /\ ~(from < 12 /\ to >= 12) /\ ~(from >= 12 /\ to < 12)
  BY DEF LocksOut, Crossed, Locking, LastRevision
<1>2. \A o \in {"ck_place_geom_is_polygonal", "uq_place_collection_external_id"} :
        /\ o \in Objects
        /\ SchemaAt(from)[o] = SchemaAt(to)[o]
  BY <1>1 DEF SchemaAt, LivesAt, FormAt, Objects, UserTriggers, GuardTriggers, FunctionsV2,
              LastRevision
<1> QED BY <1>2 DEF Sound, Weaker, There, SchemaOf, ExemptOf

(* A run that has executed statements.  Until it has locked place it works *)
(* on the rows others commit; once it has, no mint is open.                *)
RunInv(m) ==
  LET from == jobs[m].from   at == jobs[m].at
  IN  /\ from = db.rev /\ at # from
      /\ Sound(Work(m), at, jobSlug) /\ Work(m).rev = at
      /\ LocksOut(from, at) => OpenRows = {}
      /\ ~LocksOut(from, at) => ExemptOf(Work(m)) = ExemptOf(db)
      /\ NoRows(db) => NoRows(Work(m))
      /\ from < 10 /\ at >= 10 => Clean(Work(m))
      /\ 8 \in Crossed(from, at) /\ (quiet \/ ~GuardFirst(from, at)) =>
           NoRows(Work(m)) /\ OpenRows = {}

(* What the state of a run can be. *)
IsJob(j) ==
  /\ j = [pc |-> j.pc, from |-> j.from, at |-> j.at, work |-> j.work]
  /\ j.pc \in {"idle", "read", "checked", "running"}
  /\ j.from \in 0 .. LastRevision /\ j.at \in 0 .. LastRevision
  /\ IsDb(j.work)
  /\ j.pc \in {"read", "checked"} => j.at = j.from

(* The committed database; open mints fit into it. *)
DbInv ==
  /\ db.rev \in 0 .. LastRevision /\ Sound(db, db.rev, jobSlug)
  /\ Fits(db, db.rows \cup OpenRows)

(* The types the proofs need. *)
Typed ==
  /\ jobs = [m \in Migrators |-> jobs[m]] /\ \A m \in Migrators : IsJob(jobs[m])
  /\ open \in [Instances -> SUBSET Rows]
  /\ runs \in 0 .. MaxRuns /\ quiet \in BOOLEAN /\ jobSlug \in Slugs

(* The inductive invariant. *)
IInv ==
  /\ Typed
  /\ DbInv
  /\ \A m \in Changing : RunInv(m)
  /\ \A m, n \in Changing : m = n
  /\ quiet /\ Running # {} => OpenRows = {}
  /\ \A m \in Migrators : jobs[m].pc = "checked" /\ quiet => NoRows(db)

-----------------------------------------------------------------------------
(* Databases that differ in one part.                                      *)

(* A database with other rows, or another revision. *)
LEMMA WithRows ==
  ASSUME NEW d, IsDb(d), NEW rows
  PROVE  LET e == [d EXCEPT !.rows = rows]
         IN  /\ IsDb(e) /\ (Ok(e) <=> Ok(d)) /\ SchemaOf(e) = SchemaOf(d) /\ StampOf(e) = StampOf(d)
             /\ ExemptOf(e) = ExemptOf(d) /\ CollectionsOf(e) = CollectionsOf(d)
             /\ e.rev = d.rev /\ e.rows = rows
<1>1. [d EXCEPT !.rows = rows]
      = [ok |-> d.ok, rev |-> d.rev, schema |-> d.schema, stamp |-> d.stamp, rows |-> rows,
         collections |-> d.collections, exempt |-> d.exempt]
  BY ExceptFields
<1> QED BY <1>1 DEF IsDb, Ok, SchemaOf, StampOf, ExemptOf, CollectionsOf

LEMMA WithRev ==
  ASSUME NEW d, IsDb(d), NEW rev
  PROVE  LET e == [d EXCEPT !.rev = rev]
         IN  /\ IsDb(e) /\ (Ok(e) <=> Ok(d)) /\ SchemaOf(e) = SchemaOf(d) /\ StampOf(e) = StampOf(d)
             /\ ExemptOf(e) = ExemptOf(d) /\ CollectionsOf(e) = CollectionsOf(d)
             /\ e.rev = rev /\ e.rows = d.rows
<1>1. [d EXCEPT !.rev = rev]
      = [ok |-> d.ok, rev |-> rev, schema |-> d.schema, stamp |-> d.stamp, rows |-> d.rows,
         collections |-> d.collections, exempt |-> d.exempt]
  BY ExceptFields
<1> QED BY <1>1 DEF IsDb, Ok, SchemaOf, StampOf, ExemptOf, CollectionsOf

(* Whether rows fit depends on the schema and the exemption only. *)
LEMMA SameFit ==
  ASSUME NEW d, NEW e, NEW rows, Fits(d, rows), SchemaOf(e) = SchemaOf(d),
         ExemptOf(e) = ExemptOf(d)
  PROVE  Fits(e, rows)
BY DEF Fits, RowFits, There, SchemaOf, ExemptOf

LEMMA SamePublicId ==
  ASSUME NEW d, NEW e, CollectionsOf(e) = CollectionsOf(d)
  PROVE  PublicId(e, ServiceSlug) = PublicId(d, ServiceSlug)
BY DEF PublicId, CollectionsOf

(* A sound database is sound with other rows that fit. *)
LEMMA Refreshed ==
  ASSUME NEW d, NEW rev, NEW slug, Sound(d, rev, slug), NEW rows \in SUBSET Rows, Fits(d, rows)
  PROVE  Sound([d EXCEPT !.rows = rows], rev, slug)
<1> DEFINE e == [d EXCEPT !.rows = rows]
<1>1. IsDb(d) /\ Consistent(d)
  BY DEF Sound, Good, Ok
<1>2. /\ IsDb(e) /\ (Ok(e) <=> Ok(d)) /\ SchemaOf(e) = SchemaOf(d) /\ StampOf(e) = StampOf(d)
      /\ ExemptOf(e) = ExemptOf(d) /\ CollectionsOf(e) = CollectionsOf(d)
      /\ e.rev = d.rev /\ e.rows = rows
  BY <1>1, WithRows
<1>3. Fits(e, e.rows)
  BY <1>2, SameFit
<1>4. Consistent(e)
  BY <1>1, <1>2, <1>3 DEF Consistent, RowsFit, Fits, ExemptOf, CollectionsOf
<1>5. Exempts(e, rev, slug)
  BY <1>2, SamePublicId DEF Exempts, Sound
<1> HIDE DEF e
<1>6. Sound(e, rev, slug)
  BY <1>2, <1>4, <1>5 DEF Sound, Good
<1> QED BY <1>6 DEF e

(* Its revision is what a run writes at the end of each migration. *)
LEMMA Renumbered ==
  ASSUME NEW d, NEW rev, NEW slug, Sound(d, rev, slug), NEW to
  PROVE  Sound([d EXCEPT !.rev = to], rev, slug)
<1> DEFINE e == [d EXCEPT !.rev = to]
<1>1. IsDb(d) /\ Consistent(d)
  BY DEF Sound, Good, Ok
<1>2. /\ IsDb(e) /\ (Ok(e) <=> Ok(d)) /\ SchemaOf(e) = SchemaOf(d) /\ StampOf(e) = StampOf(d)
      /\ ExemptOf(e) = ExemptOf(d) /\ CollectionsOf(e) = CollectionsOf(d)
      /\ e.rows = d.rows
  BY <1>1, WithRev
<1>3. Fits(e, e.rows)
  BY <1>1, <1>2, SameFit DEF Consistent, RowsFit, Fits
<1>4. Consistent(e)
  BY <1>1, <1>2, <1>3 DEF Consistent, RowsFit, Fits, ExemptOf, CollectionsOf
<1>5. Exempts(e, rev, slug)
  BY <1>2, SamePublicId DEF Exempts, Sound
<1> HIDE DEF e
<1>6. Sound(e, rev, slug)
  BY <1>2, <1>4, <1>5 DEF Sound, Good
<1> QED BY <1>6 DEF e

(* Migration 0012 finds the collection, or creates it. *)
LEMMA NewCollectionId ==
  ASSUME NEW d, NEW slug, IsFiniteSet(d.collections)
  PROVE  /\ NewCollection(d, slug).id \in Nat \ {NoId}
         /\ NewCollection(d, slug).slug = slug
BY FS_CardinalityType DEF NewCollection, NoId

LEMMA FoundPublic ==
  ASSUME NEW d, NEW slug, IsDb(d), Consistent(d)
  PROVE  LET e == FindPublicCollection(d, slug)
         IN  /\ IsDb(e) /\ e.ok = d.ok /\ e.schema = d.schema /\ e.stamp = d.stamp
             /\ e.rows = d.rows
             /\ IsFiniteSet(e.collections) /\ \A c \in e.collections : c.id \in Nat \ {NoId}
             /\ e.exempt = PublicId(e, slug) /\ e.exempt \in Nat \ {NoId}
<1> DEFINE new == NewCollection(d, slug)
           there == IF PublicId(d, slug) = NoId
                    THEN [d EXCEPT !.collections = @ \cup {new}] ELSE d
           e == [there EXCEPT !.exempt = PublicId(there, slug)]
<1>1. new.id \in Nat \ {NoId} /\ new.slug = slug
  BY NewCollectionId DEF Consistent
<1>2. /\ IsDb(there) /\ there.ok = d.ok /\ there.schema = d.schema /\ there.stamp = d.stamp
      /\ there.rows = d.rows
      /\ there.collections = IF PublicId(d, slug) = NoId THEN d.collections \cup {new}
                             ELSE d.collections
  <2>1. [d EXCEPT !.collections = d.collections \cup {new}]
        = [ok |-> d.ok, rev |-> d.rev, schema |-> d.schema, stamp |-> d.stamp, rows |-> d.rows,
           collections |-> d.collections \cup {new}, exempt |-> d.exempt]
    BY ExceptFields
  <2> QED BY <2>1 DEF IsDb
<1>3. IsFiniteSet(there.collections) /\ \A c \in there.collections : c.id \in Nat \ {NoId}
  BY <1>1, <1>2, FS_AddElement DEF Consistent
<1>4. \E c \in there.collections : c.slug = slug
  BY <1>1, <1>2 DEF PublicId
<1>5. PublicId(there, slug) \in Nat \ {NoId}
  BY <1>3, <1>4 DEF PublicId
<1> HIDE DEF there
<1>6. e = [ok |-> there.ok, rev |-> there.rev, schema |-> there.schema, stamp |-> there.stamp,
           rows |-> there.rows, collections |-> there.collections,
           exempt |-> PublicId(there, slug)]
  BY <1>2, ExceptFields
<1>7. PublicId(e, slug) = PublicId(there, slug)
  BY <1>6 DEF PublicId
<1>8. e = FindPublicCollection(d, slug)
  BY DEF FindPublicCollection, there
<1> HIDE DEF e
<1> QED BY <1>2, <1>3, <1>5, <1>6, <1>7, <1>8 DEF IsDb

LEMMA Up12 ==
  ASSUME NEW d, NEW slug, Sound(d, 11, slug), Ok(Upgrade0012(d, slug))
  PROVE  /\ Sound(Upgrade0012(d, slug), 12, slug)
         /\ NoRows(d) => NoRows(Upgrade0012(d, slug))
         /\ Clean(d) => Clean(Upgrade0012(d, slug))
<1> DEFINE f == FindPublicCollection(d, slug)
           e == f ++ Drop("uq_place_collection_external_id")
                  ++ CreateAs("uq_place_collection_external_id", "partial_index")
<1>1. IsDb(d) /\ Consistent(d)
  BY DEF Sound, Good, Ok
<1>2. /\ IsDb(f) /\ f.ok = d.ok /\ f.schema = d.schema /\ f.stamp = d.stamp /\ f.rows = d.rows
      /\ IsFiniteSet(f.collections) /\ \A c \in f.collections : c.id \in Nat \ {NoId}
      /\ f.exempt = PublicId(f, slug) /\ f.exempt \in Nat \ {NoId}
  BY <1>1, FoundPublic
<1>3. e = Upgrade0012(d, slug)
  BY DEF Upgrade0012
<1> HIDE DEF f
<1>4. Good(f)
  <2>1. d.schema["uq_place_collection_external_id"] = "constraint"
    BY DEF Sound, SchemaOf, SchemaAt, Objects, LivesAt, FormAt, UserTriggers, GuardTriggers,
           FunctionsV2, LastRevision
  <2>2. Weaker(d, f)
    BY <1>2, <2>1 DEF Weaker, There
  <2>3. Fits(f, f.rows)
    BY <1>1, <1>2, <2>2, FitsWeaker DEF Consistent, RowsFit, Fits
  <2> QED BY <1>1, <1>2, <2>3 DEF Good, Consistent, RowsFit, Fits
<1>5. SchemaOf(f) = SchemaAt(11) /\ StampOf(f) = StampAt(11)
  BY <1>2 DEF Sound, SchemaOf, StampOf
<1>6. /\ Good(e) /\ Follows(f, e) /\ SchemaOf(e) = SchemaAt(12) /\ StampOf(e) = StampAt(12)
      /\ CollectionsOf(e) = CollectionsOf(f)
  BY <1>3, <1>4, <1>5, Succeeds, StampRules, CollectionRules, SchemaUp12
  DEF Did, Follows, StampAt, --
<1> HIDE DEF e
<1>7. Exempts(e, 12, slug)
  <2>1. PublicId(e, ServiceSlug) = PublicId(f, ServiceSlug)
    BY <1>6, SamePublicId
  <2>2. ExemptOf(e) = f.exempt
    BY <1>6 DEF Follows, ExemptOf
  <2> QED BY <1>2, <2>1, <2>2 DEF Exempts
<1>8. Sound(e, 12, slug)
  BY <1>3, <1>6, <1>7 DEF Sound
<1>9. (NoRows(d) => NoRows(f)) /\ (Clean(d) => Clean(f))
  BY <1>2 DEF NoRows, Clean
<1> QED BY <1>3, <1>6, <1>8, <1>9 DEF Follows

(* What a migration from a sound database makes, when it succeeds.         *)
Moved(d, e, from, to, slug) ==
  /\ Sound(e, to, slug)
  /\ NoRows(d) => NoRows(e)
  /\ Clean(d) => Clean(e)
  /\ to # 12 => ExemptOf(e) = ExemptOf(d)
  /\ from < 8 /\ to = 8 => NoRows(d)
  /\ from = 8 /\ to < 8 => NoRows(d)
  /\ from < 10 /\ to = 10 => Clean(e)

LEMMA UpMoves ==
  ASSUME NEW d, NEW from \in 0 .. LastRevision - 1, NEW slug, Sound(d, from, slug),
         Ok(Upgrade(d, from + 1, slug))
  PROVE  Moved(d, Upgrade(d, from + 1, slug), from, from + 1, slug)
<1>1. from \in {0, 1, 2, 3, 4, 5, 6, 7, 8, 9, 10, 11, 12}
  BY DEF LastRevision
<1>2. CASE from = 0
  <2>1. Upgrade(d, 1, slug) = Upgrade0001(d)
    BY DEF Upgrade
  <2> QED BY <1>2, <2>1, Up1 DEF Moved, Follows
<1>3. CASE from = 1
  <2>1. Upgrade(d, 2, slug) = Upgrade0002(d)
    BY DEF Upgrade
  <2> QED BY <1>3, <2>1, Up2 DEF Moved, Follows
<1>4. CASE from = 2
  <2>1. Upgrade(d, 3, slug) = Upgrade0003(d)
    BY DEF Upgrade
  <2> QED BY <1>4, <2>1, Up3 DEF Moved, Follows
<1>5. CASE from = 3
  <2>1. Upgrade(d, 4, slug) = Upgrade0004(d)
    BY DEF Upgrade
  <2> QED BY <1>5, <2>1, Up4 DEF Moved, Follows
<1>6. CASE from = 4
  <2>1. Upgrade(d, 5, slug) = Upgrade0005(d)
    BY DEF Upgrade
  <2> QED BY <1>6, <2>1, Up5 DEF Moved, Follows
<1>7. CASE from = 5
  <2>1. Upgrade(d, 6, slug) = Upgrade0006(d)
    BY DEF Upgrade
  <2> QED BY <1>7, <2>1, Up6 DEF Moved, Follows
<1>8. CASE from = 6
  <2>1. Upgrade(d, 7, slug) = Upgrade0007(d)
    BY DEF Upgrade
  <2> QED BY <1>8, <2>1, Up7 DEF Moved, Follows
<1>9. CASE from = 7
  <2>1. Upgrade(d, 8, slug) = Upgrade0008(d)
    BY DEF Upgrade
  <2> QED BY <1>9, <2>1, Up8 DEF Moved, Follows
<1>10. CASE from = 8
  <2>1. Upgrade(d, 9, slug) = Upgrade0009(d)
    BY DEF Upgrade
  <2> QED BY <1>10, <2>1, Up9 DEF Moved, Follows
<1>11. CASE from = 9
  <2>1. Upgrade(d, 10, slug) = Upgrade0010(d)
    BY DEF Upgrade
  <2> QED BY <1>11, <2>1, Up10 DEF Moved, Follows
<1>12. CASE from = 10
  <2>1. Upgrade(d, 11, slug) = Upgrade0011(d)
    BY DEF Upgrade
  <2> QED BY <1>12, <2>1, Up11 DEF Moved, Follows
<1>13. CASE from = 11
  <2>1. Upgrade(d, 12, slug) = Upgrade0012(d, slug)
    BY DEF Upgrade
  <2> QED BY <1>13, <2>1, Up12 DEF Moved, Follows
<1>14. CASE from = 12
  <2>1. Upgrade(d, 13, slug) = Upgrade0013(d)
    BY DEF Upgrade
  <2> QED BY <1>14, <2>1, Up13 DEF Moved, Follows
<1> QED
  BY <1>1, <1>2, <1>3, <1>4, <1>5, <1>6, <1>7, <1>8, <1>9, <1>10, <1>11, <1>12, <1>13, <1>14

LEMMA DownMoves ==
  ASSUME NEW d, NEW from \in 1 .. LastRevision, NEW slug, Sound(d, from, slug),
         Ok(Downgrade(d, from))
  PROVE  Moved(d, Downgrade(d, from), from, from - 1, slug)
<1>1. from \in {1, 2, 3, 4, 5, 6, 7, 8, 9, 10, 11, 12, 13}
  BY DEF LastRevision
<1>2. CASE from = 1
  <2>1. Downgrade(d, 1) = Downgrade0001(d)
    BY DEF Downgrade
  <2> QED BY <1>2, <2>1, Down1 DEF Moved, Follows
<1>3. CASE from = 2
  <2>1. Downgrade(d, 2) = Downgrade0002(d)
    BY DEF Downgrade
  <2> QED BY <1>3, <2>1, Down2 DEF Moved, Follows
<1>4. CASE from = 3
  <2>1. Downgrade(d, 3) = Downgrade0003(d)
    BY DEF Downgrade
  <2> QED BY <1>4, <2>1, Down3 DEF Moved, Follows
<1>5. CASE from = 4
  <2>1. Downgrade(d, 4) = Downgrade0004(d)
    BY DEF Downgrade
  <2> QED BY <1>5, <2>1, Down4 DEF Moved, Follows
<1>6. CASE from = 5
  <2>1. Downgrade(d, 5) = Downgrade0005(d)
    BY DEF Downgrade
  <2> QED BY <1>6, <2>1, Down5 DEF Moved, Follows
<1>7. CASE from = 6
  <2>1. Downgrade(d, 6) = Downgrade0006(d)
    BY DEF Downgrade
  <2> QED BY <1>7, <2>1, Down6 DEF Moved, Follows
<1>8. CASE from = 7
  <2>1. Downgrade(d, 7) = Downgrade0007(d)
    BY DEF Downgrade
  <2> QED BY <1>8, <2>1, Down7 DEF Moved, Follows
<1>9. CASE from = 8
  <2>1. Downgrade(d, 8) = Downgrade0008(d)
    BY DEF Downgrade
  <2> QED BY <1>9, <2>1, Down8 DEF Moved, Follows
<1>10. CASE from = 9
  <2>1. Downgrade(d, 9) = Downgrade0009(d)
    BY DEF Downgrade
  <2> QED BY <1>10, <2>1, Down9 DEF Moved, Follows
<1>11. CASE from = 10
  <2>1. Downgrade(d, 10) = Downgrade0010(d)
    BY DEF Downgrade
  <2> QED BY <1>11, <2>1, Down10
<1>12. CASE from = 11
  <2>1. Downgrade(d, 11) = Downgrade0011(d)
    BY DEF Downgrade
  <2> QED BY <1>12, <2>1, Down11 DEF Moved, Follows
<1>13. CASE from = 12
  <2>1. Downgrade(d, 12) = Downgrade0012(d)
    BY DEF Downgrade
  <2> QED BY <1>13, <2>1, Down12 DEF Moved, Follows
<1>14. CASE from = 13
  <2>1. Downgrade(d, 13) = Downgrade0013(d)
    BY DEF Downgrade
  <2> QED BY <1>14, <2>1, Down13 DEF Moved, Follows
<1> QED
  BY <1>1, <1>2, <1>3, <1>4, <1>5, <1>6, <1>7, <1>8, <1>9, <1>10, <1>11, <1>12, <1>13, <1>14

-----------------------------------------------------------------------------
(* The invariant holds at first and runs keep it.                          *)

LEMMA EmptyIsSound == ASSUME NEW slug PROVE Sound(EmptyDb, 0, slug)
<1>1. /\ EmptyDb.ok /\ EmptyDb.rows = {} /\ EmptyDb.collections = {} /\ EmptyDb.exempt = 0
      /\ EmptyDb.stamp = "none" /\ EmptyDb.schema = [o \in Objects |-> Gone]
  BY DEF EmptyDb, NoId
<1>2. SchemaAt(0) = [o \in Objects |-> Gone]
  BY DEF SchemaAt, LivesAt
<1>3. Consistent(EmptyDb)
  BY <1>1, FS_EmptySet DEF Consistent, RowsFit
<1> QED BY <1>1, <1>2, <1>3, EmptyIsDb DEF Sound, Good, Ok, SchemaOf, StampOf, StampAt, Exempts

LEMMA IdleIsJob == IsJob(Idle) /\ Idle.pc = "idle"
BY EmptyIsDb DEF IsJob, Idle, LastRevision

LEMMA InitIInv == ASSUME Init PROVE IInv
<1>1. \A m \in Migrators : jobs[m] = Idle
  BY DEF Init
<1>2. Typed
  BY <1>1, IdleIsJob, MaxRunsAssumption DEF Init, Typed
<1>3. OpenRows = {}
  BY DEF Init, OpenRows
<1>4. DbInv
  <2>1. db = EmptyDb
    BY DEF Init
  <2>2. EmptyDb.rev = 0 /\ EmptyDb.rows = {}
    BY DEF EmptyDb
  <2>3. Sound(db, db.rev, jobSlug)
    BY <2>1, <2>2, EmptyIsSound
  <2> QED BY <1>3, <2>1, <2>2, <2>3 DEF DbInv, Fits, LastRevision
<1>5. Changing = {} /\ \A m \in Migrators : jobs[m].pc = "idle"
  BY <1>1, IdleIsJob DEF Changing
<1> QED BY <1>2, <1>3, <1>4, <1>5 DEF IInv

(* What a run crosses. *)
LEMMA CrossedFurther ==
  ASSUME NEW from \in 0 .. LastRevision, NEW at \in 0 .. LastRevision, NEW to,
         Beyond(from, at, to)
  PROVE  /\ to \in 0 .. LastRevision /\ to # from /\ to # at
         /\ Crossed(from, to) = Crossed(from, at) \cup Crossed(at, to)
         /\ LocksOut(from, to) <=> LocksOut(from, at) \/ LocksOut(at, to)
         /\ from < 10 /\ to >= 10 => (from < 10 /\ at >= 10) \/ (at < 10 /\ to = 10)
         /\ to = 12 => LocksOut(at, to)
<1>1. to \in 0 .. LastRevision /\ to # from /\ to # at
  BY DEF Beyond, LastRevision
<1>2. Crossed(from, to) = Crossed(from, at) \cup Crossed(at, to)
  BY DEF Beyond, Crossed, LastRevision
<1>3. LocksOut(from, to) <=> LocksOut(from, at) \/ LocksOut(at, to)
  BY <1>2 DEF LocksOut
<1>4. from < 10 /\ to >= 10 => (from < 10 /\ at >= 10) \/ (at < 10 /\ to = 10)
  BY DEF Beyond, LastRevision
<1>5. to = 12 => LocksOut(at, to)
  BY DEF Beyond, LocksOut, Crossed, Locking, LastRevision
<1> QED BY <1>1, <1>2, <1>3, <1>4, <1>5

(* Unless its guard comes first, a run locks place before it switches the  *)
(* recipe; and before it erases properties.                                *)
LEMMA SwitchLocks ==
  ASSUME NEW from \in 0 .. LastRevision, NEW at \in 0 .. LastRevision
  PROVE  /\ 8 \in Crossed(from, at) /\ ~GuardFirst(from, at) => LocksOut(from, at)
         /\ from < 10 /\ at >= 10 => LocksOut(from, at)
BY DEF Crossed, GuardFirst, LocksOut, Locking, LastRevision

(* A run does not mind steps that change neither it nor the database. *)
LEMMA RunInvStays ==
  ASSUME NEW n, RunInv(n), jobs'[n] = jobs[n], UNCHANGED <<db, open, quiet, jobSlug>>
  PROVE  RunInv(n)'
BY DEF RunInv, Work, OpenRows

(* The job of a run changes, and it does not execute statements. *)
LEMMA JobOff ==
  ASSUME IInv, NEW m \in Migrators, NEW CONSTANT j, IsJob(j), j.pc # "running",
         jobs' = [jobs EXCEPT ![m] = j], UNCHANGED <<db, open, quiet, jobSlug>>,
         runs' \in 0 .. MaxRuns, quiet /\ j.pc # "idle" => OpenRows = {},
         j.pc = "checked" /\ quiet => NoRows(db)
  PROVE  IInv'
<1>1. \A n \in Migrators : jobs'[n] = IF n = m THEN j ELSE jobs[n]
  BY DEF IInv, Typed
<1>2. Typed'
  BY <1>1 DEF IInv, Typed
<1>3. OpenRows' = OpenRows
  BY DEF OpenRows
<1>4. DbInv'
  BY <1>3 DEF IInv, DbInv
<1>5. Changing' \subseteq Changing \ {m} /\ Running' \subseteq Running \cup {m}
      /\ (j.pc = "idle" => Running' \subseteq Running)
  BY <1>1 DEF Changing, Running
<1>6. \A n \in Changing' : RunInv(n)'
  <2> SUFFICES ASSUME NEW n \in Changing' PROVE RunInv(n)'
    OBVIOUS
  <2>1. n \in Changing /\ jobs'[n] = jobs[n]
    BY <1>1, <1>5 DEF Changing
  <2> QED BY <2>1, RunInvStays DEF IInv
<1>7. \A n, o \in Changing' : n = o
  BY <1>5 DEF IInv
<1>8. quiet' /\ Running' # {} => OpenRows' = {}
  BY <1>3, <1>5 DEF IInv
<1>9. \A n \in Migrators : jobs'[n].pc = "checked" /\ quiet' => NoRows(db')
  BY <1>1 DEF IInv
<1> QED BY <1>2, <1>4, <1>6, <1>7, <1>8, <1>9 DEF IInv

LEMMA ReadVersionInv ==
  ASSUME IInv, NEW m \in Migrators, ReadVersion(m)
  PROVE  IInv'
<1> DEFINE j == [pc |-> "read", from |-> db.rev, at |-> db.rev, work |-> EmptyDb]
<1>1. IsJob(j) /\ j.pc = "read"
  BY EmptyIsDb DEF IsJob, IInv, DbInv
<1>2. jobs' = [jobs EXCEPT ![m] = j] /\ UNCHANGED <<db, open, quiet, jobSlug>>
  BY DEF ReadVersion
<1>3. runs' \in 0 .. MaxRuns /\ (quiet => OpenRows = {})
  BY MaxRunsAssumption DEF ReadVersion, IInv, Typed
<1> HIDE DEF j
<1> QED BY <1>1, <1>2, <1>3, JobOff

LEMMA JobEnds ==
  ASSUME IInv, NEW m \in Migrators, jobs' = [jobs EXCEPT ![m] = Idle],
         UNCHANGED <<db, open, runs, quiet, jobSlug>>
  PROVE  IInv'
<1>1. runs' \in 0 .. MaxRuns
  BY DEF IInv, Typed
<1> QED BY <1>1, IdleIsJob, JobOff

LEMMA CheckEmptyInv ==
  ASSUME IInv, NEW m \in Migrators, CheckEmpty(m)
  PROVE  IInv'
<1>1. CASE db.rows # {}
  BY <1>1, JobEnds DEF CheckEmpty
<1>2. CASE db.rows = {}
  <2> DEFINE j == [jobs[m] EXCEPT !.pc = "checked"]
  <2>1. jobs' = [jobs EXCEPT ![m] = j] /\ UNCHANGED <<db, open, runs, quiet, jobSlug>>
    BY <1>2 DEF CheckEmpty
  <2>2. jobs[m].pc = "read" /\ IsJob(jobs[m])
    BY DEF CheckEmpty, IInv, Typed
  <2>3. j = [pc |-> "checked", from |-> jobs[m].from, at |-> jobs[m].at, work |-> jobs[m].work]
    BY <2>2 DEF IsJob
  <2>4. IsJob(j) /\ j.pc = "checked"
    BY <2>2, <2>3 DEF IsJob
  <2>5. quiet => OpenRows = {}
    BY <2>2 DEF IInv, Running
  <2>6. runs' \in 0 .. MaxRuns /\ NoRows(db)
    BY <1>2, <2>1 DEF IInv, Typed, NoRows
  <2> HIDE DEF j
  <2> QED BY <2>1, <2>4, <2>5, <2>6, JobOff
<1> QED BY <1>1, <1>2

(* What a run works on is the database at the revision it has got to. *)
LEMMA WorkSound ==
  ASSUME IInv, NEW m \in Migrators, jobs[m].pc # "idle", jobs[m].from = db.rev
  PROVE  /\ Sound(Work(m), jobs[m].at, jobSlug)
         /\ jobs[m].from \in 0 .. LastRevision /\ jobs[m].at \in 0 .. LastRevision
         /\ jobs[m].pc # "running" => Work(m) = db /\ jobs[m].at = jobs[m].from
         /\ jobs[m].pc = "running" => RunInv(m)
<1>1. IsJob(jobs[m])
  BY DEF IInv, Typed
<1>2. CASE jobs[m].pc = "running"
  BY <1>1, <1>2 DEF IInv, Changing, RunInv, IsJob
<1>3. CASE jobs[m].pc # "running"
  BY <1>1, <1>3 DEF IInv, DbInv, IsJob, Work
<1> QED BY <1>2, <1>3

(* And so is what its next migration makes, if no statement fails. *)
LEMMA ResultMoved ==
  ASSUME IInv, NEW m \in Migrators, NEW to, MayGoTo(m, to), jobs[m].from = db.rev,
         Ok(Result(m, to))
  PROVE  /\ Sound(Result(m, to), to, jobSlug)
         /\ NoRows(Work(m)) => NoRows(Result(m, to))
         /\ Clean(Work(m)) => Clean(Result(m, to))
         /\ to # 12 => ExemptOf(Result(m, to)) = ExemptOf(Work(m))
         /\ jobs[m].at < 10 /\ to = 10 => Clean(Result(m, to))
         /\ jobs[m].pc # "checked" /\ 8 \in Crossed(jobs[m].at, to) => NoRows(Work(m))
<1> DEFINE at == jobs[m].at
           w == Work(m)
<1>1. Sound(w, at, jobSlug) /\ at \in 0 .. LastRevision
  BY WorkSound DEF MayGoTo
<1>2. to \in {at - 1, at + 1} /\ to \in 0 .. LastRevision
  BY DEF MayGoTo
<1>3. CASE jobs[m].pc = "checked"
  <2>1. GuardFirst(at, to)
    BY <1>3 DEF MayGoTo
  <2>2. \/ at = 7 /\ to = 8 /\ Result(m, to) = SwitchTo2(w)
        \/ at = 8 /\ to = 7 /\ Result(m, to) = SwitchTo1(w)
    BY <1>2, <1>3, <2>1 DEF GuardFirst, Result, AfterGuard
  <2> QED BY <1>1, <1>3, <2>2, Switch1, Switch2 DEF Follows
<1>4. CASE jobs[m].pc # "checked"
  <2>1. Result(m, to) = Migration(w, at, to, jobSlug)
    BY <1>4 DEF Result
  <2>2. CASE to = at + 1
    <3>1. Result(m, to) = Upgrade(w, at + 1, jobSlug) /\ at \in 0 .. LastRevision - 1
      BY <1>1, <1>2, <2>1, <2>2 DEF Migration, LastRevision
    <3>2. Moved(w, Result(m, to), at, to, jobSlug)
      BY <1>1, <2>2, <3>1, UpMoves
    <3>3. 8 \in Crossed(at, to) => at < 8 /\ to = 8
      BY <1>1, <2>2 DEF Crossed, LastRevision
    <3> QED BY <3>2, <3>3 DEF Moved
  <2>3. CASE to = at - 1
    <3>1. Result(m, to) = Downgrade(w, at) /\ at \in 1 .. LastRevision
      BY <1>1, <1>2, <2>1, <2>3 DEF Migration, LastRevision
    <3>2. Moved(w, Result(m, to), at, to, jobSlug)
      BY <1>1, <2>3, <3>1, DownMoves
    <3>3. 8 \in Crossed(at, to) => at = 8 /\ to < 8
      BY <1>1, <2>3 DEF Crossed, LastRevision
    <3> QED BY <1>1, <2>3, <3>2, <3>3 DEF Moved
  <2> QED BY <1>2, <2>2, <2>3
<1> QED BY <1>3, <1>4

(* The rows a run that has not locked place sees fit into what it works on. *)
LEMMA UnlockedFits ==
  ASSUME NEW d, NEW e, NEW from \in 0 .. LastRevision, NEW to \in 0 .. LastRevision, NEW slug,
         NEW rows, Sound(d, from, slug), Sound(e, to, slug), ~LocksOut(from, to),
         ExemptOf(e) = ExemptOf(d), Fits(d, rows)
  PROVE  Fits(e, rows)
BY UnlockedKeepsConstraints, FitsWeaker

(* A migration ends the run, or takes its work one revision further. *)
LEMMA MigrateInv ==
  ASSUME IInv, NEW m \in Migrators, NEW to, Migrate(m, to)
  PROVE  IInv'
<1> DEFINE from == jobs[m].from
           at == jobs[m].at
           w == Work(m)
           e == Result(m, to)
           done == [e EXCEPT !.rev = to]
           j == [pc |-> "running", from |-> from, at |-> to, work |-> done]
<1>1. CASE ~(e.ok /\ db.rev = from)
  BY <1>1, JobEnds DEF Migrate
<1>2. CASE e.ok /\ db.rev = from
  <2>1. /\ jobs[m].pc # "idle" /\ MayGoTo(m, to) /\ Changing \subseteq {m}
        /\ LocksOut(at, to) => OpenRows = {}
    BY DEF Migrate, MayGoTo
  <2>2. jobs' = [jobs EXCEPT ![m] = j] /\ UNCHANGED <<db, open, runs, quiet, jobSlug>>
    BY <1>2 DEF Migrate
  <2>3. /\ Sound(w, at, jobSlug) /\ from \in 0 .. LastRevision /\ at \in 0 .. LastRevision
        /\ jobs[m].pc # "running" => w = db /\ at = from
        /\ jobs[m].pc = "running" => RunInv(m)
    BY <1>2, <2>1, WorkSound
  <2>4. /\ Sound(e, to, jobSlug)
        /\ NoRows(w) => NoRows(e)
        /\ Clean(w) => Clean(e)
        /\ to # 12 => ExemptOf(e) = ExemptOf(w)
        /\ at < 10 /\ to = 10 => Clean(e)
        /\ jobs[m].pc # "checked" /\ 8 \in Crossed(at, to) => NoRows(w)
    BY <1>2, <2>1, ResultMoved DEF Ok
  <2>5. Beyond(from, at, to)
    BY <2>1 DEF MayGoTo, Beyond
  <2>6. /\ to \in 0 .. LastRevision /\ to # from
        /\ Crossed(from, to) = Crossed(from, at) \cup Crossed(at, to)
        /\ LocksOut(from, to) <=> LocksOut(from, at) \/ LocksOut(at, to)
        /\ from < 10 /\ to >= 10 => (from < 10 /\ at >= 10) \/ (at < 10 /\ to = 10)
        /\ to = 12 => LocksOut(at, to)
    BY <2>3, <2>5, CrossedFurther
  <2>7. /\ IsDb(done) /\ Sound(done, to, jobSlug) /\ done.rev = to /\ done.rows = e.rows
        /\ ExemptOf(done) = ExemptOf(e)
    BY <2>4, WithRev, Renumbered DEF Sound, Good
  <2> HIDE DEF e, done
  <2>8. \A n \in Migrators : jobs'[n] = IF n = m THEN j ELSE jobs[n]
    BY <2>2 DEF IInv, Typed
  <2>9. OpenRows' = OpenRows
    BY <2>2 DEF OpenRows
  <2>10. /\ Sound(db, from, jobSlug) /\ Fits(db, db.rows) /\ db.rows \in SUBSET Rows
         /\ IsDb(db)
    <3>1. Sound(db, from, jobSlug) /\ Fits(db, db.rows \cup OpenRows)
      BY <1>2 DEF IInv, DbInv
    <3>2. Weaker(db, db)
      BY DEF Weaker
    <3> QED BY <3>1, <3>2, FitsWeaker DEF Sound, Good, Ok, Consistent
  <2>11. Work(m)' = IF LocksOut(from, to) THEN done ELSE [done EXCEPT !.rows = db.rows]
    BY <2>2, <2>8 DEF Work
  <2>12. ~LocksOut(from, to) => ExemptOf(done) = ExemptOf(db)
    BY <2>3, <2>4, <2>6, <2>7 DEF RunInv
  <2>13. LocksOut(from, to) => OpenRows = {}
    BY <2>1, <2>3, <2>6 DEF RunInv
  <2>14. Sound(Work(m)', to, jobSlug) /\ Work(m)'.rev = to
    <3>1. CASE LocksOut(from, to)
      BY <2>7, <2>11, <3>1
    <3>2. CASE ~LocksOut(from, to)
      <4>1. Fits(done, db.rows)
        BY <2>3, <2>6, <2>7, <2>10, <2>12, <3>2, UnlockedFits
      <4> QED BY <2>7, <2>10, <2>11, <3>2, <4>1, Refreshed, WithRows
    <3> QED BY <3>1, <3>2
  <2>15. ~LocksOut(from, to) => ExemptOf(Work(m)') = ExemptOf(db)
    BY <2>7, <2>11, <2>12, WithRows
  <2>16. ~LocksOut(from, to) => Work(m)'.rows = db.rows
    BY <2>7, <2>11, WithRows
  <2>17. NoRows(w) => NoRows(done)
    BY <2>4, <2>7 DEF NoRows
  <2>18. NoRows(db) => NoRows(Work(m)')
    BY <2>3, <2>11, <2>16, <2>17 DEF RunInv, NoRows
  <2>19. from < 10 /\ to >= 10 => Clean(Work(m)')
    <3> SUFFICES ASSUME from < 10, to >= 10 PROVE Clean(Work(m)')
      OBVIOUS
    <3>1. LocksOut(from, to)
      BY <2>3, <2>6, SwitchLocks
    <3>2. Clean(w) \/ Clean(e)
      BY <2>3, <2>4, <2>6 DEF RunInv
    <3> QED BY <2>4, <2>7, <2>11, <3>1, <3>2 DEF Clean
  <2>20. 8 \in Crossed(from, to) /\ (quiet \/ ~GuardFirst(from, to)) =>
           NoRows(Work(m)') /\ OpenRows = {}
    <3> SUFFICES ASSUME 8 \in Crossed(from, to), quiet \/ ~GuardFirst(from, to)
                 PROVE  NoRows(Work(m)') /\ OpenRows = {}
      OBVIOUS
    <3>1. quiet => OpenRows = {}
      BY <2>1 DEF IInv, Running
    <3>2. ~GuardFirst(from, to) => LocksOut(from, to)
      BY <2>3, <2>6, SwitchLocks
    <3>3. OpenRows = {}
      BY <2>13, <3>1, <3>2
    <3>4. NoRows(w)
      <4>1. CASE 8 \in Crossed(from, at)
        <5>1. jobs[m].pc = "running"
          BY <2>3, <4>1 DEF Crossed, LastRevision
        <5>2. GuardFirst(from, at) => GuardFirst(from, to)
          BY <2>3, <2>5, <4>1 DEF GuardFirst, Beyond, Crossed, LastRevision
        <5> QED BY <2>3, <4>1, <5>1, <5>2 DEF RunInv
      <4>2. CASE 8 \notin Crossed(from, at) /\ jobs[m].pc # "checked"
        BY <2>4, <2>6, <4>2
      <4>3. CASE jobs[m].pc = "checked"
        <5>1. GuardFirst(from, to)
          BY <2>1, <2>3, <4>3 DEF MayGoTo
        <5> QED BY <2>3, <4>3, <5>1 DEF IInv
      <4> QED BY <4>1, <4>2, <4>3
    <3>5. NoRows(Work(m)')
      <4>1. CASE LocksOut(from, to)
        BY <2>11, <2>17, <3>4, <4>1
      <4>2. CASE ~LocksOut(from, to)
        <5>1. w.rows = db.rows
          BY <2>3, <2>6, <4>2, WithRows DEF Work, IInv, Typed, IsJob
        <5> QED BY <2>16, <3>4, <4>2, <5>1 DEF NoRows
      <4> QED BY <4>1, <4>2
    <3> QED BY <3>3, <3>5
  <2>21. RunInv(m)'
    BY <1>2, <2>2, <2>6, <2>8, <2>9, <2>13, <2>14, <2>15, <2>18, <2>19, <2>20 DEF RunInv
  <2>22. Changing' \subseteq {m} /\ Running' \subseteq Running
    BY <2>1, <2>8 DEF Changing, Running
  <2>23. Typed'
    BY <2>2, <2>3, <2>6, <2>7, <2>8 DEF IInv, Typed, IsJob
  <2>24. DbInv'
    BY <2>2, <2>9 DEF IInv, DbInv
  <2>25. \A n \in Migrators : jobs'[n].pc = "checked" /\ quiet' => NoRows(db')
    BY <2>2, <2>8 DEF IInv
  <2>26. quiet' /\ Running' # {} => OpenRows' = {}
    BY <2>2, <2>9, <2>22 DEF IInv
  <2> QED BY <2>21, <2>22, <2>23, <2>24, <2>25, <2>26 DEF IInv
<1> QED BY <1>1, <1>2

(* The end of a run. *)
LEMMA CrashRunInv ==
  ASSUME IInv, NEW m \in Migrators, CrashRun(m)
  PROVE  IInv'
BY JobEnds DEF CrashRun

LEMMA CommitRunInv ==
  ASSUME IInv, NEW m \in Migrators, CommitRun(m)
  PROVE  IInv'
<1> DEFINE from == jobs[m].from
           at == jobs[m].at
           w == Work(m)
<1>1. /\ m \in Changing /\ db' = w /\ jobs' = [jobs EXCEPT ![m] = Idle]
      /\ UNCHANGED <<open, runs, quiet, jobSlug>>
  BY DEF CommitRun, Changing
<1>2. RunInv(m) /\ IsJob(jobs[m])
  BY <1>1 DEF IInv, Typed
<1>3. /\ Sound(w, at, jobSlug) /\ w.rev = at /\ from = db.rev
      /\ LocksOut(from, at) => OpenRows = {}
      /\ ~LocksOut(from, at) => ExemptOf(w) = ExemptOf(db)
      /\ NoRows(db) => NoRows(w)
      /\ from \in 0 .. LastRevision /\ at \in 0 .. LastRevision /\ IsDb(jobs[m].work)
  BY <1>2 DEF RunInv, IsJob
<1>4. Fits(w, w.rows \cup OpenRows)
  <2>1. CASE LocksOut(from, at)
    <3>1. RowsFit(w) /\ OpenRows = {}
      BY <1>3, <2>1 DEF Sound, Good, Ok, Consistent
    <3> QED BY <3>1 DEF RowsFit, Fits
  <2>2. CASE ~LocksOut(from, at)
    <3>1. w.rows = db.rows
      <4>1. w = [jobs[m].work EXCEPT !.rows = db.rows]
        BY <1>1, <2>2 DEF Work, Changing
      <4> QED BY <1>3, <4>1, WithRows
    <3>2. Sound(db, from, jobSlug) /\ Fits(db, db.rows \cup OpenRows)
      BY <1>3 DEF IInv, DbInv
    <3>3. Fits(w, db.rows \cup OpenRows)
      BY <1>3, <2>2, <3>2, UnlockedFits
    <3> QED BY <3>1, <3>3
  <2> QED BY <2>1, <2>2
<1> HIDE DEF w
<1>5. \A n \in Migrators : jobs'[n] = IF n = m THEN Idle ELSE jobs[n]
  BY <1>1 DEF IInv, Typed
<1>6. OpenRows' = OpenRows
  BY <1>1 DEF OpenRows
<1>7. DbInv'
  BY <1>1, <1>3, <1>4, <1>6 DEF DbInv
<1>8. Typed'
  BY <1>1, <1>5, IdleIsJob DEF IInv, Typed
<1>9. Changing' = {} /\ Running' \subseteq Running
  <2>1. \A n \in Changing : n = m
    BY <1>1 DEF IInv
  <2> QED BY <1>5, <2>1, IdleIsJob DEF Changing, Running
<1>10. \A n \in Migrators : jobs'[n].pc = "checked" /\ quiet' => NoRows(db')
  BY <1>1, <1>3, <1>5, IdleIsJob DEF IInv
<1>11. quiet' /\ Running' # {} => OpenRows' = {}
  BY <1>1, <1>6, <1>9 DEF IInv
<1> QED BY <1>7, <1>8, <1>9, <1>10, <1>11 DEF IInv

-----------------------------------------------------------------------------
(* Instances keep it.                                                      *)

(* The recipe at a revision. *)
LEMMA RecipeAt ==
  ASSUME NEW rev \in 0 .. LastRevision
  PROVE  Recipe(SchemaAt(rev)) = IF rev = 0 THEN "none" ELSE IF rev < 8 THEN "v1" ELSE "v2"
<1>1. "geoid_geom_hash_default" \in Objects
  BY DEF Objects
<1>2. LivesAt("geoid_geom_hash_default", rev) <=> rev # 0
  BY DEF LivesAt, FunctionsV2, LastRevision
<1>3. rev # 0 => FormAt("geoid_geom_hash_default", rev)
                 = IF rev < 7 THEN "v1" ELSE IF rev = 7 THEN "v1_pinned" ELSE "v2_pinned"
  BY DEF FormAt, UserTriggers, GuardTriggers, FunctionsV2
<1> QED BY <1>1, <1>2, <1>3 DEF Recipe, SchemaAt, Gone, LastRevision

LEMMA PublicIdNat ==
  ASSUME NEW d, Consistent(d), NEW slug
  PROVE  PublicId(d, slug) \in Nat
BY DEF PublicId, Consistent, NoId

(* A mint into a sound database makes a row that has a recipe. *)
LEMMA RowOfRows ==
  ASSUME DbInv, db.rev > 0, NEW s \in Submissions
  PROVE  RowOf(s) \in Rows
<1>1. Consistent(db) /\ db.schema = SchemaAt(db.rev) /\ db.rev \in 0 .. LastRevision
  BY DEF DbInv, Sound, Good, Ok, SchemaOf
<1>2. Recipe(db.schema) \in {"v1", "v2"}
  BY <1>1, RecipeAt
<1>3. PublicId(db, ServiceSlug) \in Nat
  BY <1>1, PublicIdNat
<1>4. s.point \in BOOLEAN /\ s.ext \in BOOLEAN
  BY SubmissionAssumption
<1>5. (s.props /\ There(db, "collection.writable_anon")) \in BOOLEAN
  OBVIOUS
<1>6. (IF s.public THEN PublicId(db, ServiceSlug) ELSE Managed) \in Int
  BY <1>3 DEF Managed
<1> QED BY <1>2, <1>4, <1>5, <1>6 DEF Rows, RowOf

(* One more row that fits. *)
LEMMA FitsOneMore ==
  ASSUME NEW d, NEW rows, Fits(d, rows), NEW new, RowFits(d, rows, new)
  PROVE  Fits(d, rows \cup {new})
<1> SUFFICES ASSUME NEW r \in rows \cup {new} PROVE RowFits(d, rows \cup {new}, r)
  BY DEF Fits
<1>1. CASE r = new
  BY <1>1 DEF RowFits
<1>2. CASE r \in rows /\ r # new
  <2>1. RowFits(d, rows, r)
    BY <1>2 DEF Fits
  <2> QED BY <1>2, <2>1 DEF RowFits
<1> QED BY <1>1, <1>2

(* A mint finds no run that has locked it out, and adds a row that fits. *)
LEMMA MintInv ==
  ASSUME IInv, NEW i \in Instances, NEW s \in Submissions, Mint(i, s)
  PROVE  IInv'
<1> DEFINE row == RowOf(s)
<1>1. /\ db.rev > 0 /\ ~LockedOut /\ (quiet => Running = {}) /\ open[i] = {}
      /\ RowFits(db, db.rows \cup OpenRows, row)
      /\ open' = [open EXCEPT ![i] = {row}] /\ UNCHANGED <<db, jobs, runs, quiet, jobSlug>>
  BY DEF Mint
<1>2. row \in Rows
  BY <1>1, RowOfRows DEF IInv
<1> HIDE DEF row
<1>3. Typed'
  BY <1>1, <1>2 DEF IInv, Typed
<1>4. OpenRows' = OpenRows \cup {row}
  <2>1. \A j \in Instances : open'[j] = IF j = i THEN {row} ELSE open[j]
    BY <1>1 DEF IInv, Typed
  <2> QED BY <1>1, <2>1 DEF OpenRows
<1>5. DbInv'
  <2>1. Fits(db, (db.rows \cup OpenRows) \cup {row})
    BY <1>1, FitsOneMore DEF IInv, DbInv
  <2>2. db.rows \cup (OpenRows \cup {row}) = (db.rows \cup OpenRows) \cup {row}
    OBVIOUS
  <2> QED BY <1>1, <1>4, <2>1, <2>2 DEF IInv, DbInv
<1>6. Changing' = Changing /\ Running' = Running
  BY <1>1 DEF Changing, Running
<1>7. \A n \in Changing : RunInv(n)'
  <2> SUFFICES ASSUME NEW n \in Changing PROVE RunInv(n)'
    OBVIOUS
  <2>1. RunInv(n) /\ ~LocksOut(jobs[n].from, jobs[n].at)
    BY <1>1 DEF IInv, LockedOut
  <2>2. n \in Running /\ IsJob(jobs[n])
    BY DEF Changing, Running, IInv, Typed
  <2>3. ~quiet
    BY <1>1, <2>2
  <2>4. 8 \in Crossed(jobs[n].from, jobs[n].at) => GuardFirst(jobs[n].from, jobs[n].at)
    BY <2>1, <2>2, SwitchLocks DEF IsJob
  <2>5. Work(n)' = Work(n)
    BY <1>1 DEF Work
  <2> QED BY <1>1, <2>1, <2>3, <2>4, <2>5 DEF RunInv
<1> QED BY <1>1, <1>3, <1>5, <1>6, <1>7 DEF IInv

(* A commit of a mint shows its row to a run that has not locked place. *)
LEMMA EndMintInv ==
  ASSUME IInv, NEW i \in Instances, EndMint(i)
  PROVE  IInv'
<1>1. /\ open[i] # {} /\ db' \in { db, [db EXCEPT !.rows = @ \cup open[i]] }
      /\ open' = [open EXCEPT ![i] = {}] /\ UNCHANGED <<jobs, runs, quiet, jobSlug>>
  BY DEF EndMint
<1>2. /\ Sound(db, db.rev, jobSlug) /\ db.rev \in 0 .. LastRevision /\ IsDb(db)
      /\ db.rows \in SUBSET Rows /\ Fits(db, db.rows \cup OpenRows)
  BY DEF IInv, DbInv, Sound, Good, Ok, Consistent
<1>3. open \in [Instances -> SUBSET Rows]
  BY DEF IInv, Typed
<1>4. /\ OpenRows # {} /\ open[i] \subseteq OpenRows /\ OpenRows \in SUBSET Rows
      /\ OpenRows' \subseteq OpenRows
  BY <1>1, <1>3 DEF OpenRows
<1>5. PICK rows \in SUBSET (db.rows \cup OpenRows) :
        /\ db' = [db EXCEPT !.rows = rows]
        /\ db.rows \subseteq rows
  <2>1. CASE db' = db
    <3>1. db = [db EXCEPT !.rows = db.rows]
      BY <1>2, ExceptFields DEF IsDb
    <3> QED BY <2>1, <3>1
  <2>2. CASE db' = [db EXCEPT !.rows = db.rows \cup open[i]]
    BY <1>4, <2>2
  <2> QED BY <1>1, <2>1, <2>2
<1>6. /\ db'.rev = db.rev /\ db'.rows = rows /\ ExemptOf(db') = ExemptOf(db)
      /\ SchemaOf(db') = SchemaOf(db)
  BY <1>2, <1>5, WithRows
<1>7. Weaker(db, db)
  BY DEF Weaker
<1>8. /\ rows \in SUBSET Rows /\ Fits(db, rows)
      /\ rows \cup OpenRows' \in SUBSET (db.rows \cup OpenRows)
  BY <1>2, <1>4, <1>5, <1>7, FitsWeaker
<1>9. Sound(db', db.rev, jobSlug)
  BY <1>2, <1>5, <1>8, Refreshed
<1>10. Fits(db', rows \cup OpenRows')
  BY <1>2, <1>6, <1>7, <1>8, FitsWeaker, SameFit
<1>11. DbInv'
  BY <1>1, <1>2, <1>6, <1>9, <1>10 DEF DbInv
<1>12. Typed'
  BY <1>1, <1>3 DEF IInv, Typed
<1>13. Changing' = Changing /\ Running' = Running
  BY <1>1 DEF Changing, Running
<1>14. ~(quiet /\ Running # {})
  BY <1>4 DEF IInv
<1>15. \A n \in Changing : RunInv(n)'
  <2> SUFFICES ASSUME NEW n \in Changing PROVE RunInv(n)'
    OBVIOUS
  <2> DEFINE from == jobs[n].from
             at == jobs[n].at
             w == Work(n)
  <2>1. RunInv(n) /\ IsJob(jobs[n]) /\ jobs[n].pc = "running"
    BY DEF IInv, Typed, Changing
  <2>2. ~LocksOut(from, at) /\ from \in 0 .. LastRevision /\ at \in 0 .. LastRevision
        /\ IsDb(jobs[n].work)
    BY <1>4, <2>1 DEF RunInv, IsJob
  <2>3. Sound(w, at, jobSlug) /\ from = db.rev /\ ExemptOf(w) = ExemptOf(db) /\ w.rev = at
        /\ at # from
    BY <2>1, <2>2 DEF RunInv
  <2>4. w = [jobs[n].work EXCEPT !.rows = db.rows]
        /\ Work(n)' = [jobs[n].work EXCEPT !.rows = rows]
    BY <1>1, <1>6, <2>1, <2>2 DEF Work
  <2>5. Work(n)' = [w EXCEPT !.rows = rows]
    BY <2>2, <2>4, ExceptFields, WithRows
  <2>6. Fits(w, rows)
    BY <1>2, <1>8, <2>2, <2>3, UnlockedFits
  <2>7. Sound(Work(n)', at, jobSlug)
    BY <1>8, <2>3, <2>5, <2>6, Refreshed
  <2>8. IsDb(w)
    BY <2>3 DEF Sound, Good
  <2> HIDE DEF w
  <2>9. Work(n)'.rev = at /\ Work(n)'.rows = rows /\ ExemptOf(Work(n)') = ExemptOf(db)
    BY <2>3, <2>5, <2>8, WithRows
  <2>10. /\ ~(from < 10 /\ at >= 10)
         /\ ~(8 \in Crossed(from, at) /\ (quiet \/ ~GuardFirst(from, at)))
    <3>1. ~(8 \in Crossed(from, at) /\ (quiet \/ ~GuardFirst(from, at)))
      BY <1>4, <2>1 DEF RunInv
    <3> QED BY <2>2, <3>1, SwitchLocks
  <2> QED BY <1>1, <1>6, <2>2, <2>3, <2>7, <2>9, <2>10 DEF RunInv, NoRows
<1>16. \A n \in Migrators : jobs'[n].pc = "checked" /\ quiet' => NoRows(db')
  BY <1>1, <1>14 DEF Running
<1> QED BY <1>1, <1>11, <1>12, <1>13, <1>14, <1>15, <1>16 DEF IInv

(* The public collection is created only while nothing is exempted for it. *)
LEMMA StartInstanceInv ==
  ASSUME IInv, StartInstance
  PROVE  IInv'
<1> DEFINE new == NewCollection(db, ServiceSlug)
           all == db.collections \cup {new}
<1>1. /\ Changing = {} /\ PublicId(db, ServiceSlug) = NoId
      /\ db' = [db EXCEPT !.collections = all] /\ UNCHANGED <<jobs, open, runs, quiet, jobSlug>>
  BY DEF StartInstance
<1>2. /\ Sound(db, db.rev, jobSlug) /\ db.rev \in 0 .. LastRevision /\ IsDb(db) /\ Consistent(db)
      /\ Fits(db, db.rows \cup OpenRows)
  BY DEF IInv, DbInv, Sound, Good, Ok
<1>3. IsFiniteSet(all) /\ \A c \in all : c.id \in Nat \ {NoId}
  BY <1>2, NewCollectionId, FS_AddElement DEF Consistent
<1> HIDE DEF all
<1>4. db' = [ok |-> db.ok, rev |-> db.rev, schema |-> db.schema, stamp |-> db.stamp,
             rows |-> db.rows, collections |-> all, exempt |-> db.exempt]
  BY <1>1, <1>2, ExceptFields
<1>5. /\ IsDb(db') /\ db'.ok = db.ok /\ db'.rev = db.rev /\ db'.schema = db.schema
      /\ db'.stamp = db.stamp /\ db'.rows = db.rows /\ db'.collections = all
      /\ db'.exempt = db.exempt
  BY <1>4 DEF IsDb
<1>6. Fits(db', db.rows \cup OpenRows) /\ Fits(db', db.rows)
  <2>1. Fits(db, db.rows)
    BY <1>2 DEF Consistent, RowsFit, Fits
  <2> QED BY <1>2, <1>5, <2>1, SameFit DEF SchemaOf, ExemptOf
<1>7. Consistent(db')
  BY <1>2, <1>3, <1>5, <1>6 DEF Consistent, RowsFit, Fits
<1>8. ~(db.rev >= 12 /\ jobSlug = ServiceSlug)
  BY <1>1, <1>2 DEF Sound, Exempts
<1>9. Exempts(db', db'.rev, jobSlug)
  BY <1>5, <1>8 DEF Exempts
<1>10. Sound(db', db'.rev, jobSlug)
  BY <1>2, <1>5, <1>7, <1>9 DEF Sound, Good, Ok, SchemaOf, StampOf
<1>11. OpenRows' = OpenRows
  BY <1>1 DEF OpenRows
<1>12. DbInv'
  BY <1>1, <1>2, <1>5, <1>6, <1>10, <1>11 DEF DbInv
<1>13. Typed'
  BY <1>1 DEF IInv, Typed
<1>14. Changing' = {} /\ Running' = Running
  BY <1>1 DEF Changing, Running
<1>15. \A n \in Migrators : jobs'[n].pc = "checked" /\ quiet' => NoRows(db')
  BY <1>1, <1>5 DEF IInv, NoRows
<1> QED BY <1>1, <1>11, <1>12, <1>13, <1>14, <1>15 DEF IInv

-----------------------------------------------------------------------------
(* What follows from it.                                                   *)

LEMMA NextIInv ==
  ASSUME IInv, [Next]_vars
  PROVE  IInv'
<1>1. CASE UNCHANGED vars
  <2>1. /\ UNCHANGED <<db, jobs, open, runs, quiet, jobSlug>>
        /\ OpenRows' = OpenRows /\ Changing' = Changing /\ Running' = Running
    BY <1>1 DEF vars, OpenRows, Changing, Running
  <2>2. \A m \in Changing : RunInv(m)'
    BY <2>1, RunInvStays DEF IInv
  <2>3. Typed' /\ DbInv'
    BY <2>1 DEF IInv, Typed, DbInv
  <2> QED BY <2>1, <2>2, <2>3 DEF IInv
<1>2. ASSUME NEW m \in Migrators,
             \/ ReadVersion(m) \/ CheckEmpty(m) \/ CommitRun(m) \/ CrashRun(m)
             \/ \E to \in 0 .. LastRevision : Migrate(m, to)
      PROVE  IInv'
  BY <1>2, ReadVersionInv, CheckEmptyInv, CommitRunInv, CrashRunInv, MigrateInv
<1>3. ASSUME NEW i \in Instances, EndMint(i) \/ \E s \in Submissions : Mint(i, s)
      PROVE  IInv'
  BY <1>3, EndMintInv, MintInv
<1>4. CASE StartInstance
  BY <1>4, StartInstanceInv
<1> QED BY <1>1, <1>2, <1>3, <1>4 DEF Next

LEMMA SpecIInv == Spec => []IInv
<1>1. Init => IInv
  BY InitIInv
<1>2. IInv /\ [Next]_vars => IInv'
  BY NextIInv
<1> QED BY <1>1, <1>2, PTL DEF Spec

(* The committed database has succeeded, is at a revision there is, and    *)
(* holds rows and a stamp of a recipe; runs are in one of four states.     *)
THEOREM TypesHold == Spec => []TypeOK
<1>1. IInv => TypeOK
  <2> SUFFICES ASSUME IInv PROVE TypeOK
    OBVIOUS
  <2>1. /\ db.ok /\ db.exempt \in Nat /\ db.stamp = StampAt(db.rev) /\ db.rows \subseteq Rows
        /\ db.rev \in 0 .. LastRevision
    BY DEF IInv, DbInv, Sound, Good, Ok, Consistent, StampOf
  <2>2. db.stamp \in {"none", "v1", "v2"}
    BY <2>1 DEF StampAt
  <2>3. \A r \in db.rows : r.recipe \in {"v1", "v2"}
    BY <2>1 DEF Rows
  <2> QED BY <2>1, <2>2, <2>3 DEF TypeOK, IInv, Typed, IsJob
<1> QED BY <1>1, SpecIInv, PTL

(* Whatever runs and instances do, the committed schema is the one of its  *)
(* revision: every downgrade restores what its upgrade found.              *)
THEOREM SchemaIsOfRevision == Spec => []SchemaOfRevision
<1>1. IInv => SchemaOfRevision
  BY DEF IInv, DbInv, Sound, SchemaOf, SchemaOfRevision
<1> QED BY <1>1, SpecIInv, PTL

(* The schemas of the revisions are whole. *)
LEMMA GuardsOnAt ==
  ASSUME NEW rev \in 1 .. LastRevision, NEW t \in UserTriggers
  PROVE  SchemaAt(rev)[t] = "on"
BY
DEF SchemaAt, LivesAt, FormAt, Objects, UserTriggers, GuardTriggers, FunctionsV2, LastRevision

LEMMA FunctionsResolveAt ==
  ASSUME NEW rev \in 0 .. LastRevision
  PROVE  /\ \A f, g \in Objects :
              SchemaAt(rev)[f] # Gone /\ Calls(f, SchemaAt(rev)[f], g) => SchemaAt(rev)[g] # Gone
         /\ ~(/\ SchemaAt(rev)["geoid_geom_hash"] # Gone
              /\ SchemaAt(rev)["geoid_geom_hash_v2"] # Gone)
<1>1. \A o \in Objects :
        SchemaAt(rev)[o] # Gone => LivesAt(o, rev) /\ SchemaAt(rev)[o] = FormAt(o, rev)
  BY DEF SchemaAt
<1>2. \A o \in Objects : LivesAt(o, rev) => SchemaAt(rev)[o] = FormAt(o, rev)
  BY DEF SchemaAt
<1>3. \A o \in Objects : FormAt(o, rev) # Gone
  BY DEF FormAt, Gone, Made
<1>4. ASSUME NEW f \in Objects, NEW g \in Objects, LivesAt(f, rev), Calls(f, FormAt(f, rev), g)
      PROVE  LivesAt(g, rev)
  BY <1>4 DEF Calls, LivesAt, FormAt, UserTriggers, GuardTriggers, FunctionsV2, LastRevision
<1>5. ~(LivesAt("geoid_geom_hash", rev) /\ LivesAt("geoid_geom_hash_v2", rev))
  BY DEF LivesAt, FunctionsV2
<1>6. {"geoid_geom_hash", "geoid_geom_hash_v2"} \subseteq Objects
  BY DEF Objects, FunctionsV2
<1> QED BY <1>1, <1>2, <1>3, <1>4, <1>5, <1>6

(* In every committed schema functions find what they call, one recipe is  *)
(* there, and the seven triggers that guard the tables are enabled.        *)
THEOREM SchemasAreWhole == Spec => []SchemaWhole
<1>1. IInv => SchemaWhole
  <2> SUFFICES ASSUME IInv PROVE SchemaWhole
    OBVIOUS
  <2>1. db.schema = SchemaAt(db.rev) /\ db.rev \in 0 .. LastRevision
    BY DEF IInv, DbInv, Sound, SchemaOf
  <2>2. FunctionsResolve
    BY <2>1, FunctionsResolveAt DEF FunctionsResolve, There
  <2>3. GuardsOn
    BY <2>1, GuardsOnAt DEF GuardsOn, LastRevision
  <2> QED BY <2>2, <2>3 DEF SchemaWhole
<1> QED BY <1>1, SpecIInv, PTL

(* The latest stamp names the recipe the hash functions compute.           *)
THEOREM StampsAreTrue == Spec => []LatestStampIsRecipe
<1>1. IInv => LatestStampIsRecipe
  <2> SUFFICES ASSUME IInv PROVE LatestStampIsRecipe
    OBVIOUS
  <2>1. /\ db.schema = SchemaAt(db.rev) /\ db.rev \in 0 .. LastRevision
        /\ db.stamp = StampAt(db.rev)
    BY DEF IInv, DbInv, Sound, SchemaOf, StampOf
  <2> QED BY <2>1, RecipeAt DEF LatestStampIsRecipe, StampAt, LastRevision
<1> QED BY <1>1, SpecIInv, PTL

(* Committed rows satisfy the constraints of the committed schema, however *)
(* mints and migrations interleave.                                        *)
THEOREM CommittedRowsAlwaysFit == Spec => []CommittedRowsFit
<1>1. IInv => CommittedRowsFit
  BY DEF IInv, DbInv, Sound, Good, Ok, Consistent, CommittedRowsFit
<1> QED BY <1>1, SpecIInv, PTL

(* From 0012 on the external_id index exempts the service's public         *)
(* collection, if the migrate job was configured like the service.         *)
THEOREM PublicCollectionIsExempt == Spec => []PublicCollectionExempt
<1>1. IInv => PublicCollectionExempt
  BY DEF IInv, DbInv, Sound, Exempts, ExemptOf, PublicCollectionExempt
<1> QED BY <1>1, SpecIInv, PTL

(* Only the commit of a run changes the revision. *)
LEMMA RevisionMoves ==
  ASSUME IInv, [Next]_vars, db'.rev # db.rev
  PROVE  /\ \E m \in Migrators : CommitRun(m)
         /\ \A m \in Migrators : jobs[m].pc = "running" /\ jobs'[m].pc = "idle" => CommitRun(m)
<1>1. IsDb(db)
  BY DEF IInv, DbInv, Sound, Good
<1>2. ASSUME NEW i \in Instances, EndMint(i) PROVE FALSE
  <2>1. PICK rows : db' = db \/ db' = [db EXCEPT !.rows = rows]
    BY <1>2 DEF EndMint
  <2>2. [db EXCEPT !.rows = rows].rev = db.rev
    BY <1>1, WithRows
  <2> QED BY <2>1, <2>2
<1>3. ~StartInstance
  <2> SUFFICES ASSUME StartInstance PROVE FALSE
    OBVIOUS
  <2> DEFINE all == db.collections \cup {NewCollection(db, ServiceSlug)}
  <2>1. db' = [db EXCEPT !.collections = all]
    BY DEF StartInstance
  <2> HIDE DEF all
  <2> QED BY <1>1, <2>1, ExceptFields
<1>4. PICK m \in Migrators : CommitRun(m)
  BY <1>2, <1>3 DEF Next, vars, ReadVersion, CheckEmpty, CrashRun, Migrate, Mint
<1>5. \A n \in Migrators : n # m => jobs'[n] = jobs[n]
  BY <1>4 DEF CommitRun, IInv, Typed
<1> QED BY <1>4, <1>5

(* A run that commits another recipe commits it over an empty registry     *)
(* with no mint open, if the service is stopped or it had locked place     *)
(* before its guard read the registry.                                     *)
THEOREM RecipesSwitchEmpty == Spec => RecipeSwitchesEmpty
<1> DEFINE Switches(m) ==
             /\ jobs[m].pc = "running" /\ jobs'[m].pc = "idle" /\ db'.rev # db.rev
             /\ {Recipe(db.schema), Recipe(db'.schema)} = {"v1", "v2"}
             /\ quiet \/ ~GuardFirst(jobs[m].from, jobs[m].at)
<1>1. ASSUME IInv, [Next]_vars, NEW m \in Migrators, Switches(m)
      PROVE  db'.rows = {} /\ OpenRows = {}
  <2>1. CommitRun(m)
    BY <1>1, RevisionMoves
  <2>2. RunInv(m) /\ IsJob(jobs[m]) /\ db' = Work(m)
    BY <1>1, <2>1 DEF CommitRun, Changing, IInv, Typed
  <2>3. /\ db.schema = SchemaAt(jobs[m].from) /\ db'.schema = SchemaAt(jobs[m].at)
        /\ jobs[m].from \in 0 .. LastRevision /\ jobs[m].at \in 0 .. LastRevision
    BY <1>1, <2>2 DEF RunInv, IInv, DbInv, Sound, SchemaOf, IsJob
  <2>4. 8 \in Crossed(jobs[m].from, jobs[m].at)
    BY <1>1, <2>3, RecipeAt DEF Crossed, LastRevision
  <2> QED BY <1>1, <2>2, <2>4 DEF RunInv, NoRows
<1>2. IInv /\ [Next]_vars => \A m \in Migrators : Switches(m) => db'.rows = {} /\ OpenRows = {}
  BY <1>1
<1> QED BY <1>2, SpecIInv, PTL DEF Spec, RecipeSwitchesEmpty

(* The step that commits 0010 leaves no properties a client submitted, in  *)
(* committed rows or in open mints.                                        *)
THEOREM PropertiesAreErased == Spec => PropertiesErased
<1>1. ASSUME IInv, [Next]_vars, db.rev < 10, db'.rev >= 10
      PROVE  \A r \in db'.rows \cup OpenRows : ~r.props
  <2>1. PICK m \in Migrators : CommitRun(m)
    BY <1>1, RevisionMoves DEF IInv, DbInv
  <2>2. RunInv(m) /\ IsJob(jobs[m]) /\ db' = Work(m)
    BY <1>1, <2>1 DEF CommitRun, Changing, IInv, Typed
  <2>3. jobs[m].from < 10 /\ jobs[m].at >= 10
    BY <1>1, <2>2 DEF RunInv
  <2>4. LocksOut(jobs[m].from, jobs[m].at)
    BY <2>2, <2>3, SwitchLocks DEF IsJob
  <2> QED BY <2>2, <2>3, <2>4 DEF RunInv, Clean, NoProps
<1>2. IInv /\ [Next]_vars =>
        (db.rev < 10 /\ db'.rev >= 10 => \A r \in db'.rows \cup OpenRows : ~r.props)
  BY <1>1
<1> QED BY <1>2, SpecIInv, PTL DEF Spec, PropertiesErased
===============================================================================
