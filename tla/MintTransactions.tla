-------------------------- MODULE MintTransactions --------------------------
(***************************************************************************)
(* The mint path of GeoID: POST /items (one feature) and POST /items/bulk  *)
(* (many), each request one PostgreSQL transaction under READ COMMITTED.   *)
(*                                                                         *)
(* Requests interleave at every point where the database can make one wait *)
(* for another: the arbiter's look at the geom_hash index, the registry    *)
(* row's primary key, the external_id index of the place row, the grant    *)
(* row a first write records its caller in.  Rows are visible to others    *)
(* when their transaction commits; the database lets a uniqueness check    *)
(* wait for the transaction that holds the key.                            *)
(*                                                                         *)
(* A geometry stands for its canonical hash, and for the geoid derived     *)
(* from that hash.                                                         *)
(***************************************************************************)
EXTENDS Integers, Sequences

CONSTANTS
  Requests,      \* mint requests
  Jobs,          \* what a request may ask for, see JobAssumption
  Geoms,         \* geometries up to identity
  ExtIds,        \* external_id values
  NoExt,         \* a feature without an id member
  Colls,         \* existing collections
  PublicColl,    \* the public collection, outside the external_id index
  PublicWrite,   \* collections anyone may write to
  NoColl,        \* a slug no collection has
  Grants,        \* rows of collection_grant with a verified email
  EditorGrants,  \* those whose role is editor or owner
  NoGrant,       \* the caller has no grant on the collection
  MaxFeatures,   \* settings.bulk_max_features
  SlugRetries    \* _INCUMBENT_SLUG_RETRIES

(* What a submitted feature is to the code:                                *)
(*   valid       the schema and the database accept it;                    *)
(*   schema      PlaceCreate rejects it;                                   *)
(*   unhashable  the schema accepts it, the statement fails on it before   *)
(*               it writes a row: PostGIS cannot read the geometry (XX000, *)
(*               22023) or the recipe raises (GD001 degenerate, 23514      *)
(*               empty or of an unsupported type);                         *)
(*   invalid     it has a hash, but the CHECKs of place refuse it (23514,  *)
(*               a ring that crosses itself);                              *)
(*   nul         a NUL byte in its id member: the INSERT cannot be bound   *)
(*               (22021).                                                  *)
FeatureKinds == {"valid", "schema", "unhashable", "invalid", "nul"}
Hashed == {"valid", "invalid"}

Features == [kind : FeatureKinds, geom : Geoms, ext : ExtIds \cup {NoExt}]

ASSUME NothingAssumption ==
  /\ NoExt \notin ExtIds
  /\ NoColl \notin Colls
  /\ NoGrant \notin Grants
ASSUME CollAssumption == PublicColl \in PublicWrite /\ PublicWrite \subseteq Colls
ASSUME GrantAssumption == EditorGrants \subseteq Grants
ASSUME BoundAssumption == MaxFeatures \in Nat /\ SlugRetries \in Nat \ {0}

(* A single mint carries one feature; the public collection is always      *)
(* written anonymously (api/places.py, _target_principal).                 *)
ASSUME JobAssumption ==
  \A j \in Jobs :
    /\ j \in [bulk : BOOLEAN, coll : Colls \cup {NoColl},
              grant : Grants \cup {NoGrant}, feats : Seq(Features)]
    /\ j.feats # <<>>
    /\ ~j.bulk => Len(j.feats) = 1
    /\ j.coll = PublicColl => j.grant = NoGrant

VARIABLES
  registry,  \* committed rows of geoid_registry
  place,     \* committed rows of place, each with its change_log row
  bound,     \* grants whose principal_subject is recorded
  job,       \* what each request asks for
  pc,        \* where each request is
  regs,      \* registry rows its open transaction has written
  plcs,      \* place rows its open transaction has written
  binds,     \* the grants its open transaction has recorded a subject in
  stmt,      \* the statement a request is in
  report,    \* the outcome of each feature handled so far
  answer     \* what the client has been told

dbVars == <<registry, place, bound>>
txVars == <<regs, plcs, binds>>
vars == <<dbVars, txVars, job, pc, stmt, report, answer>>

Phases == {"new", "next", "arbiter", "insert", "place", "resolve",
           "answered", "kept", "lost"}
Finished == {"kept", "lost"}

Outcomes == {"accepted", "schema_invalid", "invalid_geometry",
             "external_id_conflict", "geoid_conflict"}

RegistryRows == [geom : Geoms, coll : Colls]
PlaceRows == [geom : Geoms, coll : Colls, ext : ExtIds \cup {NoExt}]
Statements == [seen : SUBSET Geoms, retried : BOOLEAN, reads : 0 .. SlugRetries]
Answers == {"none", "report", "undelivered", "refused", "rejected",
            "drift", "timeout", "deadlock"}

TypeOK ==
  /\ registry \in SUBSET RegistryRows
  /\ place \in SUBSET PlaceRows
  /\ bound \in SUBSET Grants
  /\ job \in [Requests -> Jobs]
  /\ pc \in [Requests -> Phases]
  /\ regs \in [Requests -> SUBSET RegistryRows]
  /\ plcs \in [Requests -> SUBSET PlaceRows]
  /\ binds \in [Requests -> SUBSET Grants]
  /\ stmt \in [Requests -> Statements]
  /\ report \in [Requests -> Seq(Outcomes)]
  /\ answer \in [Requests -> Answers]

-----------------------------------------------------------------------------
(* Reading the state *)

GeomsOf(rows) == {row.geom : row \in rows}

MoreFeatures(t) == Len(report[t]) < Len(job[t].feats)
Feature(t) == job[t].feats[Len(report[t]) + 1]
Geom(t) == Feature(t).geom

RegistryRow(t) == [geom |-> Geom(t), coll |-> job[t].coll]
PlaceRow(t) == [geom |-> Geom(t), coll |-> job[t].coll, ext |-> Feature(t).ext]

(* The geometries a new statement of t sees: committed, or its own. *)
Visible(t) == GeomsOf(registry) \cup GeomsOf(regs[t])

(* Rows of the same (collection, external_id), where the index covers it. *)
SameExternalId(p, q) ==
  p.coll = q.coll /\ p.ext = q.ext /\ p.ext # NoExt /\ p.coll # PublicColl

(* services/authz_service.py: an editor grant or a public_write collection. *)
CanWrite(j) == j.grant \in EditorGrants \/ j.coll \in PublicWrite

(* Answered before the caller's grant is looked at: 413 and 404. *)
Malformed(j) == \/ j.bulk /\ Len(j.feats) > MaxFeatures
                \/ ~j.bulk /\ j.feats[1].kind = "schema"
                \/ j.coll = NoColl

(* Mutant: forgets that a caller may have no grant. *)
BindsAnyone(t) == job[t].grant \notin bound

(* Recording the subject is the UPDATE of a grant row whose subject is null. *)
NeedsBinding(t) == job[t].grant \in Grants \ bound

(* u holds the key t's next write is checked against. *)
HoldsKeyOf(u, t) ==
  \/ /\ pc[t] \in {"arbiter", "insert"}
     /\ Geom(t) \in GeomsOf(regs[u])
  \/ /\ pc[t] = "place"
     /\ Feature(t).kind = "valid"
     /\ \E p \in plcs[u] : SameExternalId(PlaceRow(t), p)
  \/ /\ pc[t] = "new"
     /\ ~Malformed(job[t])
     /\ job[t].grant \in binds[u]

Blocked(t) == \E u \in Requests \ {t} : HoldsKeyOf(u, t)

(* t waits for itself through others: the cycle the deadlock detector of   *)
(* the database looks for.                                                 *)
InWaitCycle(t) ==
  \E S \in SUBSET Requests :
    /\ t \in S
    /\ \A s \in S : \E u \in S \ {s} : HoldsKeyOf(u, s)
    /\ \A u \in S : \E s \in S \ {u} : HoldsKeyOf(u, s)

-----------------------------------------------------------------------------
(* Ending a statement, and ending a request *)

NoStatement == [seen |-> {}, retried |-> FALSE, reads |-> 0]
SecondAttempt == [seen |-> {}, retried |-> TRUE, reads |-> 0]

Report(t, outcome) ==
  /\ report' = [report EXCEPT ![t] = Append(@, outcome)]
  /\ pc' = [pc EXCEPT ![t] = "next"]
  /\ stmt' = [stmt EXCEPT ![t] = NoStatement]
  /\ UNCHANGED answer

RollBack(t) ==
  /\ regs' = [regs EXCEPT ![t] = {}]
  /\ plcs' = [plcs EXCEPT ![t] = {}]
  /\ binds' = [binds EXCEPT ![t] = {}]

(* Mutant: the session goes back to the pool with its transaction open. *)
FailWithoutRollback(t, code) ==
  /\ pc' = [pc EXCEPT ![t] = "lost"]
  /\ stmt' = [stmt EXCEPT ![t] = NoStatement]
  /\ answer' = [answer EXCEPT ![t] = code]
  /\ UNCHANGED <<txVars, report>>

(* An exception leaves the handler: get_session rolls back and the error   *)
(* handlers answer.                                                        *)
Fail(t, code) ==
  /\ RollBack(t)
  /\ pc' = [pc EXCEPT ![t] = "lost"]
  /\ stmt' = [stmt EXCEPT ![t] = NoStatement]
  /\ answer' = [answer EXCEPT ![t] = code]
  /\ UNCHANGED report

(* Mutant: no SAVEPOINT around a feature of a batch. *)
RejectWithoutSavepoint(t, reason, undo) ==
  IF job[t].bulk
  THEN Report(t, reason) /\ UNCHANGED txVars
  ELSE Fail(t, "rejected")

(* The INSERT of the current feature aborts after writing the registry     *)
(* rows "undo".  A bulk request rolls back to the feature's SAVEPOINT and  *)
(* reports a rejected row; a single one fails.                             *)
Reject(t, reason, undo) ==
  IF job[t].bulk
  THEN /\ Report(t, reason)
       /\ regs' = [regs EXCEPT ![t] = @ \ undo]
       /\ UNCHANGED <<plcs, binds>>
  ELSE Fail(t, "rejected")

(* Mutant: a batch, too, starts over from an empty transaction. *)
LoseRaceRollingBack(t) ==
  IF stmt[t].retried
  THEN Reject(t, "geoid_conflict", {})
  ELSE /\ pc' = [pc EXCEPT ![t] = "next"]
       /\ stmt' = [stmt EXCEPT ![t] = SecondAttempt]
       /\ RollBack(t)
       /\ UNCHANGED <<report, answer>>

(* 23505 on the registry: the winner has committed, try the INSERT again.  *)
(* The single path rolls its whole transaction back first.                 *)
LoseRace(t) ==
  IF stmt[t].retried
  THEN Reject(t, "geoid_conflict", {})
  ELSE /\ pc' = [pc EXCEPT ![t] = "next"]
       /\ stmt' = [stmt EXCEPT ![t] = SecondAttempt]
       /\ IF job[t].bulk THEN UNCHANGED txVars ELSE RollBack(t)
       /\ UNCHANGED <<report, answer>>

-----------------------------------------------------------------------------
(* The steps of a request *)

Init ==
  /\ registry = {}
  /\ place = {}
  /\ bound = {}
  /\ job \in [Requests -> Jobs]
  /\ pc = [t \in Requests |-> "new"]
  /\ regs = [t \in Requests |-> {}]
  /\ plcs = [t \in Requests |-> {}]
  /\ binds = [t \in Requests |-> {}]
  /\ stmt = [t \in Requests |-> NoStatement]
  /\ report = [t \in Requests |-> <<>>]
  /\ answer = [t \in Requests |-> "none"]

(* 413, 404 or a 422 of the request schema, before the grant is read. *)
RefuseMalformed(t) ==
  /\ pc[t] = "new"
  /\ Malformed(job[t])
  /\ Fail(t, "refused")
  /\ UNCHANGED <<dbVars, job>>

(* _authorize_write: load_caller_grant records the caller's subject on a   *)
(* grant that has none, whatever can_write then says; a 403 rolls it back. *)
Authorize(t) ==
  /\ pc[t] = "new"
  /\ ~Malformed(job[t])
  /\ ~Blocked(t)
  /\ IF CanWrite(job[t])
     THEN /\ pc' = [pc EXCEPT ![t] = "next"]
          /\ binds' = [binds EXCEPT ![t] = IF NeedsBinding(t) THEN {job[t].grant} ELSE {}]
          /\ UNCHANGED <<regs, plcs, stmt, report, answer>>
     ELSE Fail(t, "refused")
  /\ UNCHANGED <<dbVars, job>>

(* A batch validates each feature by itself. *)
RejectSchema(t) ==
  /\ pc[t] = "next"
  /\ MoreFeatures(t)
  /\ Feature(t).kind = "schema"
  /\ Report(t, "schema_invalid")
  /\ UNCHANGED <<dbVars, txVars, job>>

(* Mutant: the external_id is looked up before the geometry. *)
BeginWithExternalId(t) ==
  /\ pc[t] = "next"
  /\ MoreFeatures(t)
  /\ Feature(t).kind \in Hashed
  /\ IF \E p \in place \cup plcs[t] : SameExternalId(PlaceRow(t), p)
     THEN Reject(t, "external_id_conflict", {})
     ELSE /\ pc' = [pc EXCEPT ![t] = "arbiter"]
          /\ stmt' = [stmt EXCEPT ![t].seen = Visible(t)]
          /\ UNCHANGED <<txVars, report, answer>>
  /\ UNCHANGED <<dbVars, job>>

(* insert_place starts: the statement takes its snapshot. *)
BeginInsert(t) ==
  /\ pc[t] = "next"
  /\ MoreFeatures(t)
  /\ Feature(t).kind \in Hashed
  /\ pc' = [pc EXCEPT ![t] = "arbiter"]
  /\ stmt' = [stmt EXCEPT ![t].seen = Visible(t)]
  /\ UNCHANGED <<dbVars, txVars, job, report, answer>>

(* The statement fails before its first row: it has no geometry, or no     *)
(* hash, to go on with.                                                    *)
RejectGeometry(t) ==
  /\ pc[t] = "next"
  /\ MoreFeatures(t)
  /\ Feature(t).kind = "unhashable"
  /\ Reject(t, "invalid_geometry", {})
  /\ UNCHANGED <<dbVars, job>>

(* 22021 is in no branch of _mint_one or create_place: the request fails.  *)
FailOnNul(t) ==
  /\ pc[t] = "next"
  /\ MoreFeatures(t)
  /\ Feature(t).kind = "nul"
  /\ Fail(t, "rejected")
  /\ UNCHANGED <<dbVars, job>>

(* Mutant: a row another transaction has not committed counts as there. *)
ArbitrateDirty(t) ==
  /\ pc[t] = "arbiter"
  /\ IF \E u \in Requests : Geom(t) \in Visible(u)
     THEN Report(t, "accepted")
     ELSE /\ pc' = [pc EXCEPT ![t] = "insert"]
          /\ UNCHANGED <<stmt, report, answer>>
  /\ UNCHANGED <<dbVars, txVars, job>>

(* ON CONFLICT ON CONSTRAINT uq_geoid_registry_geom_hash: the arbiter      *)
(* looks for the geometry among all rows, committed since the snapshot or  *)
(* not.  DO NOTHING makes t a dedup loser, which needs to see the          *)
(* incumbent: in the statement's own snapshot, or by reading again.        *)
Arbitrate(t) ==
  /\ pc[t] = "arbiter"
  /\ ~Blocked(t)
  /\ IF Geom(t) \in Visible(t)
     THEN IF Geom(t) \in stmt[t].seen
          THEN Report(t, "accepted")
          ELSE /\ pc' = [pc EXCEPT ![t] = "resolve"]
               /\ UNCHANGED <<stmt, report, answer>>
     ELSE /\ pc' = [pc EXCEPT ![t] = "insert"]
          /\ UNCHANGED <<stmt, report, answer>>
  /\ UNCHANGED <<dbVars, txVars, job>>

(* Mutant: the primary key is not there. *)
InsertUnchecked(t) ==
  /\ pc[t] = "insert"
  /\ pc' = [pc EXCEPT ![t] = "place"]
  /\ regs' = [regs EXCEPT ![t] = @ \cup {RegistryRow(t)}]
  /\ UNCHANGED <<dbVars, job, plcs, binds, stmt, report, answer>>

(* Mutant: the race is called lost before its winner has committed. *)
InsertImpatiently(t) ==
  /\ pc[t] = "insert"
  /\ IF Geom(t) \in GeomsOf(registry) \/ Blocked(t)
     THEN LoseRace(t)
     ELSE /\ pc' = [pc EXCEPT ![t] = "place"]
          /\ regs' = [regs EXCEPT ![t] = @ \cup {RegistryRow(t)}]
          /\ UNCHANGED <<plcs, binds, stmt, report, answer>>
  /\ UNCHANGED <<dbVars, job>>

(* The registry row enters the table.  Its primary key is no arbiter: a    *)
(* row that got there since the arbiter looked is a unique violation.      *)
InsertRegistry(t) ==
  /\ pc[t] = "insert"
  /\ ~Blocked(t)
  /\ IF Geom(t) \in GeomsOf(registry)
     THEN LoseRace(t)
     ELSE /\ pc' = [pc EXCEPT ![t] = "place"]
          /\ regs' = [regs EXCEPT ![t] = @ \cup {RegistryRow(t)}]
          /\ UNCHANGED <<plcs, binds, stmt, report, answer>>
  /\ UNCHANGED <<dbVars, job>>

(* The place leg fails a CHECK, after the registry row and before any      *)
(* index: 23514 undoes both legs and waits for nobody.                     *)
RejectPlace(t) ==
  /\ pc[t] = "place"
  /\ Feature(t).kind = "invalid"
  /\ Reject(t, "invalid_geometry", {RegistryRow(t)})
  /\ UNCHANGED <<dbVars, job>>

(* Mutant: external_id is looked up, not constrained. *)
InsertPlaceUnconstrained(t) ==
  /\ pc[t] = "place"
  /\ Feature(t).kind = "valid"
  /\ IF \E p \in place : SameExternalId(PlaceRow(t), p)
     THEN Reject(t, "external_id_conflict", {RegistryRow(t)})
     ELSE /\ Report(t, "accepted")
          /\ plcs' = [plcs EXCEPT ![t] = @ \cup {PlaceRow(t)}]
          /\ UNCHANGED <<regs, binds>>
  /\ UNCHANGED <<dbVars, job>>

(* The place leg of the same statement, checked against external_id. *)
InsertPlace(t) ==
  /\ pc[t] = "place"
  /\ Feature(t).kind = "valid"
  /\ ~Blocked(t)
  /\ IF \E p \in place \cup plcs[t] : SameExternalId(PlaceRow(t), p)
     THEN Reject(t, "external_id_conflict", {RegistryRow(t)})
     ELSE /\ Report(t, "accepted")
          /\ plcs' = [plcs EXCEPT ![t] = @ \cup {PlaceRow(t)}]
          /\ UNCHANGED <<regs, binds>>
  /\ UNCHANGED <<dbVars, job>>

(* Mutant: REPEATABLE READ, every read in the snapshot of the INSERT. *)
ResolveInSnapshot(t) ==
  /\ pc[t] = "resolve"
  /\ IF Geom(t) \in stmt[t].seen
     THEN Report(t, "accepted") /\ UNCHANGED txVars
     ELSE IF stmt[t].reads + 1 < SlugRetries
          THEN /\ stmt' = [stmt EXCEPT ![t].reads = @ + 1]
               /\ UNCHANGED <<txVars, pc, report, answer>>
          ELSE Fail(t, "drift")
  /\ UNCHANGED <<dbVars, job>>

(* _resolve_incumbent: every read is a statement with a snapshot of its    *)
(* own.  Giving up is the drift guard's RegistryConsistencyError.          *)
ResolveIncumbent(t) ==
  /\ pc[t] = "resolve"
  /\ IF Geom(t) \in Visible(t)
     THEN Report(t, "accepted") /\ UNCHANGED txVars
     ELSE IF stmt[t].reads + 1 < SlugRetries
          THEN /\ stmt' = [stmt EXCEPT ![t].reads = @ + 1]
               /\ UNCHANGED <<txVars, pc, report, answer>>
          ELSE Fail(t, "drift")
  /\ UNCHANGED <<dbVars, job>>

(* The handler returns.  FastAPI (0.118 and later; uv.lock pins 0.136.3)   *)
(* sends the response and then lets get_session go on after its yield.  A  *)
(* client that has gone away does not stop the handler.                    *)
Respond(t) ==
  /\ pc[t] = "next"
  /\ ~MoreFeatures(t)
  /\ pc' = [pc EXCEPT ![t] = "answered"]
  /\ \E told \in {"report", "undelivered"} : answer' = [answer EXCEPT ![t] = told]
  /\ UNCHANGED <<dbVars, txVars, job, stmt, report>>

(* await session.commit() *)
Commit(t) ==
  /\ pc[t] = "answered"
  /\ registry' = registry \cup regs[t]
  /\ place' = place \cup plcs[t]
  /\ bound' = bound \cup binds[t]
  /\ RollBack(t)
  /\ pc' = [pc EXCEPT ![t] = "kept"]
  /\ UNCHANGED <<job, stmt, report, answer>>

-----------------------------------------------------------------------------
(* What may happen to a request *)

(* Mutant: AUTOCOMMIT, a row is kept the moment it is written. *)
CrashAutocommitted(t) ==
  /\ pc[t] \notin Finished
  /\ registry' = registry \cup regs[t]
  /\ place' = place \cup plcs[t]
  /\ RollBack(t)
  /\ pc' = [pc EXCEPT ![t] = "lost"]
  /\ stmt' = [stmt EXCEPT ![t] = NoStatement]
  /\ UNCHANGED <<bound, job, report, answer>>

(* The process, the connection or the database dies under the request. *)
Crash(t) ==
  /\ pc[t] \notin Finished
  /\ RollBack(t)
  /\ pc' = [pc EXCEPT ![t] = "lost"]
  /\ stmt' = [stmt EXCEPT ![t] = NoStatement]
  /\ UNCHANGED <<dbVars, job, report, answer>>

(* 57014: the statement waited for longer than statement_timeout. *)
StatementTimeout(t) ==
  /\ Blocked(t)
  /\ Fail(t, "timeout")
  /\ UNCHANGED <<dbVars, job>>

(* 40P01: the database breaks a cycle at one of its members. *)
DeadlockDetected(t) ==
  /\ InWaitCycle(t)
  /\ Fail(t, "deadlock")
  /\ UNCHANGED <<dbVars, job>>

(* Every request has come to its end. *)
Quiescent ==
  /\ \A t \in Requests : pc[t] \in Finished
  /\ UNCHANGED vars

Handle(t) ==
  \/ RefuseMalformed(t)
  \/ Authorize(t)
  \/ RejectSchema(t)
  \/ BeginInsert(t)
  \/ RejectGeometry(t)
  \/ FailOnNul(t)
  \/ Arbitrate(t)
  \/ InsertRegistry(t)
  \/ RejectPlace(t)
  \/ InsertPlace(t)
  \/ ResolveIncumbent(t)
  \/ Respond(t)
  \/ Commit(t)

Next ==
  \/ \E t \in Requests :
       \/ Handle(t)
       \/ Crash(t)
       \/ StatementTimeout(t)
       \/ DeadlockDetected(t)
  \/ Quiescent

Spec == Init /\ [][Next]_vars

(* The event loop runs every handler on, and the database looks for        *)
(* deadlocks; nothing forces a crash or a timeout.                         *)
Fairness ==
  \A t \in Requests : WF_vars(Handle(t)) /\ WF_vars(DeadlockDetected(t))

FairSpec == Spec /\ Fairness

-----------------------------------------------------------------------------
(* Properties *)

(* The geometries a request has reported, or will report, as accepted. *)
Accepted(t) ==
  {job[t].feats[i].geom : i \in {k \in DOMAIN report[t] : report[t][k] = "accepted"}}

(* One geometry, one geoid: no two committed registry rows share a         *)
(* geometry, although the arbiter names one of the two unique indexes only *)
(* (insert_place).                                                         *)
GeoidUnique ==
  \A r, q \in registry : r.geom = q.geom => r = q

(* A registry row without its place row would be a geoid that does not     *)
(* resolve, a place row without its registry row a second identity: the    *)
(* two legs of the arbiter statement stand or fall together, also when an  *)
(* external_id or a CHECK aborts the place leg inside a batch.             *)
NoOrphanRows ==
  registry = {[geom |-> p.geom, coll |-> p.coll] : p \in place}

(* An external_id names one place of a managed collection, whatever        *)
(* requests submit it together (uq_place_collection_external_id).          *)
ExternalIdUnique ==
  \A p, q \in place : SameExternalId(p, q) => p = q

(* A geoid a request counts as accepted is committed or among its own      *)
(* rows, so it resolves once the request is kept: a dedup loser never      *)
(* reports a winner that can still roll back.                              *)
AcceptedResolves ==
  \A t \in Requests : pc[t] # "lost" => Accepted(t) \subseteq Visible(t)

(* The drift guard (RegistryConsistencyError, a 500) never fires on a race *)
(* that _resolve_incumbent is there to absorb.                             *)
NoSpuriousDrift ==
  \A t \in Requests : answer[t] # "drift"

(* A request that retries after a lost registry race finds the winner      *)
(* committed: the retry takes DO NOTHING, one retry is enough and          *)
(* geoid_conflict is never reported (_lost_registry_race).                 *)
OneRetrySuffices ==
  \A t \in Requests :
    stmt[t].retried => /\ MoreFeatures(t)
                       /\ Geom(t) \in GeomsOf(registry)
                       /\ pc[t] \notin {"insert", "place"}

(* A batch that was kept has recorded its caller in the grant it wrote     *)
(* under: a lost race rolls a batch back to a SAVEPOINT, never past the    *)
(* authorization.                                                          *)
KeptBatchRecordsSubject ==
  \A t \in Requests :
    pc[t] = "kept" /\ job[t].bulk /\ job[t].grant # NoGrant => job[t].grant \in bound

(* The step a request took rejects its current feature. *)
RejectsNow(t) ==
  \/ Len(report'[t]) > Len(report[t]) /\ report'[t][Len(report'[t])] # "accepted"
  \/ answer'[t] = "rejected" /\ answer[t] # "rejected"

(* Resubmitting is safe: a feature that hashes to a registered geometry is *)
(* never turned down, neither for its external_id nor by the CHECKs of     *)
(* place, since the geometry arbiter comes first (dual-violation           *)
(* precedence of insert_place).                                            *)
RegisteredNeverRejected ==
  [][\A t \in Requests :
       MoreFeatures(t) /\ Feature(t).kind \in Hashed /\ Geom(t) \in GeomsOf(registry)
         => ~RejectsNow(t)]_vars

(* The registry the mint path implements: a request claims what it reports *)
(* as accepted, and its fate is its transaction's.                         *)
Owner(g) ==
  IF g \in GeomsOf(registry)
  THEN (CHOOSE r \in registry : r.geom = g).coll
  ELSE NoColl

Fate(t) == IF pc[t] \in Finished THEN pc[t] ELSE "open"

Registry == INSTANCE GeoidRegistry WITH
  owner <- [g \in Geoms |-> Owner(g)],
  claims <- [t \in Requests |-> Accepted(t)],
  fate <- [t \in Requests |-> Fate(t)]

(* The mint transactions implement the abstract registry: whatever races,  *)
(* retries and crashes, a commit registers all a request claimed, a        *)
(* failure leaves nothing, and no owner is ever replaced.                  *)
ImplementsRegistry == Registry!Spec

(* No request is stuck: the waits the uniqueness checks cause end, by a    *)
(* commit, a rollback or the deadlock detector.                            *)
EveryRequestEnds == \A t \in Requests : <>(pc[t] \in Finished)

-----------------------------------------------------------------------------
(* What the documentation says and the code does not do *)

(* schemas/place.py:282: "one bad feature never aborts the batch". *)
BadFeatureNeverAbortsBatch ==
  \A t \in Requests : job[t].bulk => answer[t] # "rejected"

(* authz_service.py:44: the caller's sub "is backfilled now (records the   *)
(* subject on first authorized access)".                                   *)
KeptWriteRecordsSubject ==
  \A t \in Requests : pc[t] = "kept" /\ job[t].grant # NoGrant => job[t].grant \in bound
=============================================================================
