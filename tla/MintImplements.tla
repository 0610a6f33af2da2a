--------------------------- MODULE MintImplements ---------------------------
(* What the mint transactions promise beyond their registry rows: the      *)
(* external_id of a managed collection, the precedence of the geometry     *)
(* over it, the abstract registry, and the subject of a batch's caller.    *)
EXTENDS MintProofs

-----------------------------------------------------------------------------
(* External ids *)

ExtIdInv == ExternalIdUnique /\ ExtIdsExclusive

(* Rolling place rows back cannot bring two holders of a key together. *)
LEMMA RollBackKeepsExtIds ==
  ASSUME ExtIdInv, place' = place,
         \A u \in Requests : plcs'[u] \subseteq plcs[u]
  PROVE  ExtIdInv'
<1>1. ExternalIdUnique'
  BY DEF ExtIdInv, ExternalIdUnique, SameExternalId
<1>2. ASSUME NEW t \in Requests
      PROVE  /\ \A p, q \in plcs'[t] : SameExternalId(p, q) => p = q
             /\ \A p \in plcs'[t], q \in place' : ~SameExternalId(p, q)
             /\ \A u \in Requests \ {t} : \A p \in plcs'[t], q \in plcs'[u] : ~SameExternalId(p, q)
  BY DEF ExtIdInv, ExtIdsExclusive
<1>3. ExtIdsExclusive'
  BY <1>2 DEF ExtIdsExclusive, SameExternalId
<1> QED BY <1>1, <1>3 DEF ExtIdInv

(* All that Fail, LoseRace and a rejected feature do to the place rows. *)
LEMMA FailRollsBack ==
  ASSUME WellTyped, NEW t \in Requests, NEW code, Fail(t, code)
  PROVE  \A u \in Requests : plcs'[u] \subseteq plcs[u]
BY DEF Fail, RollBack, WellTyped, TypeOK

LEMMA RejectRollsBack ==
  ASSUME WellTyped, NEW t \in Requests, NEW reason, NEW undo, Reject(t, reason, undo)
  PROVE  \A u \in Requests : plcs'[u] \subseteq plcs[u]
BY FailRollsBack DEF Reject

(* The unique index admits a place row only past every row that holds its  *)
(* key, committed or of an open transaction.                               *)
LEMMA InsertPlaceKeepsExtIds ==
  ASSUME WellTyped, ExtIdInv, NEW t \in Requests, InsertPlace(t)
  PROVE  ExtIdInv'
<1>1. CASE Reject(t, "external_id_conflict", {RegistryRow(t)})
  BY <1>1, RejectRollsBack, RollBackKeepsExtIds DEF InsertPlace, dbVars
<1>2. CASE /\ \A p \in place \cup plcs[t] : ~SameExternalId(PlaceRow(t), p)
           /\ plcs' = [plcs EXCEPT ![t] = @ \cup {PlaceRow(t)}]
  <2> DEFINE new == PlaceRow(t)
  <2>1. /\ pc[t] = "place" /\ Feature(t).kind = "valid"
        /\ ~Blocked(t) /\ place' = place
    BY DEF InsertPlace, dbVars
  <2>2. ASSUME NEW u \in Requests \ {t}, NEW p \in plcs[u] PROVE ~SameExternalId(new, p)
    BY <2>1, <2>2 DEF Blocked, HoldsKeyOf
  <2>3. \A p, q : SameExternalId(p, q) <=> SameExternalId(q, p)
    BY DEF SameExternalId
  <2>4. /\ plcs'[t] = plcs[t] \cup {new}
        /\ \A u \in Requests \ {t} : plcs'[u] = plcs[u]
    BY <1>2 DEF WellTyped, TypeOK
  <2> HIDE DEF new
  <2>5. /\ \A p \in place \cup plcs[t] : ~SameExternalId(new, p) /\ ~SameExternalId(p, new)
        /\ \A u \in Requests \ {t} :
             \A p \in plcs[u] : ~SameExternalId(new, p) /\ ~SameExternalId(p, new)
    BY <1>2, <2>2, <2>3 DEF new
  <2>6. ASSUME NEW a \in Requests
        PROVE  /\ \A p, q \in plcs'[a] : SameExternalId(p, q) => p = q
               /\ \A p \in plcs'[a], q \in place' : ~SameExternalId(p, q)
               /\ \A b \in Requests \ {a} :
                    \A p \in plcs'[a], q \in plcs'[b] : ~SameExternalId(p, q)
    <3>1. CASE a = t
      BY <2>1, <2>4, <2>5, <3>1 DEF ExtIdInv, ExtIdsExclusive
    <3>2. CASE a # t
      BY <2>1, <2>4, <2>5, <3>2 DEF ExtIdInv, ExtIdsExclusive
    <3> QED BY <3>1, <3>2
  <2>7. ExtIdsExclusive'
    BY <2>6 DEF ExtIdsExclusive, SameExternalId
  <2>8. ExternalIdUnique'
    BY <2>1 DEF ExtIdInv, ExternalIdUnique, SameExternalId
  <2> QED BY <2>7, <2>8 DEF ExtIdInv
<1> QED BY <1>1, <1>2 DEF InsertPlace

LEMMA CommitKeepsExtIds ==
  ASSUME WellTyped, ExtIdInv, NEW t \in Requests, Commit(t)
  PROVE  ExtIdInv'
<1>1. /\ place' = place \cup plcs[t]
      /\ plcs'[t] = {} /\ \A u \in Requests \ {t} : plcs'[u] = plcs[u]
  BY DEF Commit, RollBack, WellTyped, TypeOK
<1>2. \A p, q : SameExternalId(p, q) <=> SameExternalId(q, p)
  BY DEF SameExternalId
<1>3. \A p, q \in place' : SameExternalId(p, q) => p = q
  BY <1>1, <1>2 DEF ExtIdInv, ExternalIdUnique, ExtIdsExclusive
<1>4. ExternalIdUnique'
  BY <1>3 DEF ExternalIdUnique, SameExternalId
<1>5. ASSUME NEW a \in Requests
      PROVE  /\ \A p, q \in plcs'[a] : SameExternalId(p, q) => p = q
             /\ \A p \in plcs'[a], q \in place' : ~SameExternalId(p, q)
             /\ \A b \in Requests \ {a} :
                  \A p \in plcs'[a], q \in plcs'[b] : ~SameExternalId(p, q)
  <2>1. CASE a = t
    BY <1>1, <2>1
  <2>2. CASE a # t
    BY <1>1, <2>2 DEF ExtIdInv, ExtIdsExclusive
  <2> QED BY <2>1, <2>2
<1>6. ExtIdsExclusive'
  BY <1>5 DEF ExtIdsExclusive, SameExternalId
<1> QED BY <1>4, <1>6 DEF ExtIdInv

(* Only InsertPlace and Commit are about more than rolling place rows back. *)
LEMMA PlacesShrink ==
  ASSUME WellTyped, NEW t \in Requests,
         \/ Handle(t) /\ ~InsertPlace(t) /\ ~Commit(t)
         \/ Crash(t) \/ StatementTimeout(t) \/ DeadlockDetected(t)
  PROVE  place' = place /\ \A u \in Requests : plcs'[u] \subseteq plcs[u]
<1>1. ASSUME place' = place, plcs' = plcs
      PROVE  place' = place /\ \A u \in Requests : plcs'[u] \subseteq plcs[u]
  BY <1>1
<1>2. ASSUME Handle(t), ~InsertPlace(t), ~Commit(t)
      PROVE  place' = place /\ \A u \in Requests : plcs'[u] \subseteq plcs[u]
  <2>1. CASE RefuseMalformed(t) \/ FailOnNul(t)
    BY <2>1, FailRollsBack DEF RefuseMalformed, FailOnNul, dbVars
  <2>2. CASE Authorize(t)
    <3>1. CASE CanWrite(job[t])
      BY <1>1, <2>2, <3>1 DEF Authorize, dbVars
    <3>2. CASE ~CanWrite(job[t])
      BY <2>2, <3>2, FailRollsBack DEF Authorize, dbVars
    <3> QED BY <3>1, <3>2
  <2>3. CASE RejectSchema(t) \/ BeginInsert(t) \/ Arbitrate(t) \/ Respond(t)
    BY <1>1, <2>3 DEF RejectSchema, BeginInsert, Arbitrate, Respond, dbVars, txVars
  <2>4. CASE RejectGeometry(t) \/ RejectPlace(t)
    BY <2>4, RejectRollsBack DEF RejectGeometry, RejectPlace, dbVars
  <2>5. CASE InsertRegistry(t)
    <3>1. CASE LoseRace(t)
      BY <2>5, <3>1, RejectRollsBack
        DEF InsertRegistry, LoseRace, RollBack, dbVars, txVars, WellTyped, TypeOK
    <3>2. CASE ~LoseRace(t)
      BY <1>1, <2>5, <3>2 DEF InsertRegistry, dbVars
    <3> QED BY <3>1, <3>2
  <2>6. CASE ResolveIncumbent(t)
    <3>1. CASE Fail(t, "drift")
      BY <2>6, <3>1, FailRollsBack DEF ResolveIncumbent, dbVars
    <3>2. CASE UNCHANGED txVars
      BY <1>1, <2>6, <3>2 DEF ResolveIncumbent, dbVars, txVars
    <3> QED BY <2>6, <3>1, <3>2 DEF ResolveIncumbent
  <2> QED BY <1>2, <2>1, <2>2, <2>3, <2>4, <2>5, <2>6 DEF Handle
<1>3. CASE Crash(t)
  BY <1>3 DEF Crash, RollBack, dbVars, WellTyped, TypeOK
<1>4. CASE StatementTimeout(t) \/ DeadlockDetected(t)
  BY <1>4, FailRollsBack DEF StatementTimeout, DeadlockDetected, dbVars
<1> QED BY <1>2, <1>3, <1>4

LEMMA ExtIdStep == WellTyped /\ ExtIdInv /\ [Next]_vars => ExtIdInv'
<1> SUFFICES ASSUME WellTyped, ExtIdInv, [Next]_vars PROVE ExtIdInv'
  OBVIOUS
<1>1. ASSUME NEW t \in Requests,
             Handle(t) \/ Crash(t) \/ StatementTimeout(t) \/ DeadlockDetected(t)
      PROVE  ExtIdInv'
  BY <1>1, PlacesShrink, RollBackKeepsExtIds, InsertPlaceKeepsExtIds, CommitKeepsExtIds
<1>2. ASSUME UNCHANGED vars PROVE ExtIdInv'
  <2>1. place' = place /\ plcs' = plcs
    BY <1>2 DEF vars, dbVars, txVars
  <2> QED BY <2>1, RollBackKeepsExtIds
<1> QED BY <1>1, <1>2 DEF Next, Quiescent

-----------------------------------------------------------------------------
(* The geometry before the external_id *)

(* Another request's step neither moves t nor answers it. *)
LEMMA OthersKeepStill ==
  ASSUME WellTyped, NEW u \in Requests,
         \/ Handle(u) \/ Crash(u) \/ StatementTimeout(u) \/ DeadlockDetected(u),
         NEW t \in Requests \ {u}
  PROVE  report'[t] = report[t] /\ answer'[t] = answer[t] /\ pc'[t] = pc[t]
<1> DEFINE Still == report'[t] = report[t] /\ answer'[t] = answer[t] /\ pc'[t] = pc[t]
<1>1. \A code : Fail(u, code) => Still
  BY DEF Fail, WellTyped, TypeOK
<1>2. \A outcome : Report(u, outcome) => Still
  BY DEF Report, WellTyped, TypeOK
<1>3. \A reason, undo : Reject(u, reason, undo) => Still
  BY <1>1, <1>2 DEF Reject
<1>4. LoseRace(u) => Still
  BY <1>3 DEF LoseRace, WellTyped, TypeOK
<1>5. ASSUME Handle(u) PROVE Still
  <2>1. CASE RefuseMalformed(u) \/ Authorize(u) \/ FailOnNul(u)
    BY <1>1, <2>1 DEF RefuseMalformed, Authorize, FailOnNul, WellTyped, TypeOK
  <2>2. CASE RejectSchema(u) \/ RejectGeometry(u) \/ RejectPlace(u)
    BY <1>2, <1>3, <2>2 DEF RejectSchema, RejectGeometry, RejectPlace
  <2>3. CASE BeginInsert(u) \/ Commit(u)
    BY <2>3 DEF BeginInsert, Commit, WellTyped, TypeOK
  <2>4. CASE Arbitrate(u)
    BY <1>2, <2>4 DEF Arbitrate, WellTyped, TypeOK
  <2>5. CASE InsertRegistry(u)
    BY <1>4, <2>5 DEF InsertRegistry, WellTyped, TypeOK
  <2>6. CASE InsertPlace(u)
    BY <1>2, <1>3, <2>6 DEF InsertPlace
  <2>7. CASE ResolveIncumbent(u)
    BY <1>1, <1>2, <2>7 DEF ResolveIncumbent, WellTyped, TypeOK
  <2>8. CASE Respond(u)
    BY <2>8 DEF Respond, WellTyped, TypeOK
  <2> QED BY <1>5, <2>1, <2>2, <2>3, <2>4, <2>5, <2>6, <2>7, <2>8 DEF Handle
<1>6. CASE Crash(u)
  BY <1>6 DEF Crash, WellTyped, TypeOK
<1>7. CASE StatementTimeout(u) \/ DeadlockDetected(u)
  BY <1>1, <1>7 DEF StatementTimeout, DeadlockDetected
<1> QED BY <1>5, <1>6, <1>7

(* A report that grows by "accepted", and one that does not grow, reject   *)
(* nothing.                                                                *)
LEMMA AcceptRejectsNothing ==
  ASSUME WellTyped, NEW t \in Requests, Report(t, "accepted")
  PROVE  ~RejectsNow(t)
<1>1. report'[t] = Append(report[t], "accepted") /\ answer' = answer
  BY DEF Report, WellTyped, TypeOK
<1>2. report[t] \in Seq(Outcomes)
  BY DEF WellTyped, TypeOK
<1>3. report'[t][Len(report'[t])] = "accepted"
  BY <1>1, <1>2 DEF Outcomes
<1> QED BY <1>1, <1>3 DEF RejectsNow

LEMMA SilenceRejectsNothing ==
  ASSUME WellTyped, NEW t \in Requests,
         report'[t] = report[t], answer'[t] # "rejected" \/ answer'[t] = answer[t]
  PROVE  ~RejectsNow(t)
<1>1. Len(report[t]) \in Nat
  BY DEF WellTyped, TypeOK
<1> QED BY <1>1 DEF RejectsNow

LEMMA FailureRejectsNothing ==
  ASSUME WellTyped, NEW t \in Requests, NEW code, Fail(t, code), code # "rejected"
  PROVE  ~RejectsNow(t)
BY SilenceRejectsNothing DEF Fail, WellTyped, TypeOK

(* A registered geometry is accepted whatever else its feature carries.    *)
LEMMA RegisteredStep ==
  ASSUME RegistryInv, NEW t \in Requests, Handle(t),
         MoreFeatures(t), Feature(t).kind \in Hashed, Geom(t) \in GeomsOf(registry)
  PROVE  ~RejectsNow(t)
<1>0. WellTyped /\ RetrySound(t) /\ LegsAgree(t)
  BY DEF RegistryInv
<1>1. CASE RefuseMalformed(t)
  BY <1>0, <1>1, FailureRejectsNothing DEF RefuseMalformed
<1>2. CASE Authorize(t)
  <2>1. CASE CanWrite(job[t])
    BY <1>0, <1>2, <2>1, SilenceRejectsNothing DEF Authorize
  <2>2. CASE ~CanWrite(job[t])
    BY <1>0, <1>2, <2>2, FailureRejectsNothing DEF Authorize
  <2> QED BY <2>1, <2>2
<1>3. CASE BeginInsert(t) \/ Commit(t)
  BY <1>0, <1>3, SilenceRejectsNothing DEF BeginInsert, Commit
<1>4. CASE Arbitrate(t)
  BY <1>0, <1>4, AcceptRejectsNothing, SilenceRejectsNothing DEF Arbitrate
<1>5. CASE InsertRegistry(t)
  <2>1. ~stmt[t].retried /\ LoseRace(t)
    BY <1>0, <1>5 DEF InsertRegistry, RetrySound
  <2> QED BY <1>0, <2>1, SilenceRejectsNothing DEF LoseRace
<1>6. CASE InsertPlace(t) \/ RejectPlace(t)
  <2>1. Geom(t) \in GeomsOf(regs[t])
    BY <1>0, <1>6 DEF InsertPlace, RejectPlace, LegsAgree
  <2> QED BY <2>1 DEF RegistryInv, GeomsExclusive
<1>7. CASE ResolveIncumbent(t)
  BY <1>0, <1>7, AcceptRejectsNothing DEF ResolveIncumbent, Visible
<1>8. CASE Respond(t)
  BY <1>8 DEF Respond
<1>9. CASE RejectSchema(t) \/ RejectGeometry(t) \/ FailOnNul(t)
  BY <1>9 DEF RejectSchema, RejectGeometry, FailOnNul, Hashed
<1> QED BY <1>1, <1>2, <1>3, <1>4, <1>5, <1>6, <1>7, <1>8, <1>9 DEF Handle

(* Resubmitting is safe: a feature that hashes to a registered geometry is *)
(* never turned down, neither for its external_id nor by the CHECKs of     *)
(* place (insert_place comes to the geometry arbiter before either).       *)
THEOREM ResubmissionNeverRejected == Spec => RegisteredNeverRejected
<1>1. ASSUME RegistryInv, [Next]_vars, NEW t \in Requests,
             MoreFeatures(t), Feature(t).kind \in Hashed, Geom(t) \in GeomsOf(registry)
      PROVE  ~RejectsNow(t)
  <2>0. WellTyped
    BY <1>1 DEF RegistryInv
  <2>1. CASE Handle(t)
    BY <1>1, <2>1, RegisteredStep
  <2>2. CASE Crash(t)
    BY <2>0, <2>2, SilenceRejectsNothing DEF Crash
  <2>3. CASE StatementTimeout(t) \/ DeadlockDetected(t)
    BY <2>0, <2>3, FailureRejectsNothing DEF StatementTimeout, DeadlockDetected
  <2>4. ASSUME NEW u \in Requests, u # t,
               Handle(u) \/ Crash(u) \/ StatementTimeout(u) \/ DeadlockDetected(u)
        PROVE  ~RejectsNow(t)
    BY <2>0, <2>4, OthersKeepStill, SilenceRejectsNothing
  <2>5. CASE UNCHANGED vars
    BY <2>0, <2>5, SilenceRejectsNothing DEF vars
  <2> QED BY <1>1, <2>1, <2>2, <2>3, <2>4, <2>5 DEF Next, Quiescent
<1>2. RegistryInv /\ [Next]_vars =>
        \A t \in Requests :
          MoreFeatures(t) /\ Feature(t).kind \in Hashed /\ Geom(t) \in GeomsOf(registry)
            => ~RejectsNow(t)
  BY <1>1
<1> QED BY <1>2, RegistrySafe, PTL DEF Spec, RegisteredNeverRejected

-----------------------------------------------------------------------------
(* The abstract registry *)

(* What the abstract registry sees of a request. *)
Unseen(t) == Accepted(t)' = Accepted(t) /\ Fate(t)' = Fate(t)

LEMMA FailSeen ==
  ASSUME WellTyped, NEW t \in Requests, NEW code, Fail(t, code), job' = job
  PROVE  Fate(t)' = "lost" /\ Accepted(t)' = Accepted(t)
BY DEF Fail, Fate, Accepted, Finished, WellTyped, TypeOK

LEMMA ReportSeen ==
  ASSUME WellTyped, NEW t \in Requests, NEW outcome \in Outcomes,
         MoreFeatures(t), pc[t] \notin Finished, Report(t, outcome), job' = job
  PROVE  /\ Fate(t)' = Fate(t)
         /\ Accepted(t)' = IF outcome = "accepted" THEN Accepted(t) \cup {Geom(t)}
                                                   ELSE Accepted(t)
<1>1. Fate(t)' = Fate(t)
  BY DEF Report, Fate, Finished, WellTyped, TypeOK
<1> QED BY <1>1, ReportAccepted

(* A step of t in the eyes of the abstract registry. *)
Claims(t) == Fate(t)' = Fate(t) /\ Accepted(t)' = Accepted(t) \cup {Geom(t)} /\ Geom(t) \in Geoms
Loses(t) == Fate(t)' = "lost" /\ Accepted(t)' = Accepted(t)

LEMMA RejectSeen ==
  ASSUME WellTyped, NEW t \in Requests, NEW reason \in Outcomes \ {"accepted"}, NEW undo,
         MoreFeatures(t), pc[t] \notin Finished, Reject(t, reason, undo), job' = job
  PROVE  Unseen(t) \/ Loses(t)
<1>1. CASE job[t].bulk
  BY <1>1, ReportSeen DEF Reject, Unseen
<1>2. CASE ~job[t].bulk
  BY <1>2, FailSeen DEF Reject, Loses
<1> QED BY <1>1, <1>2

LEMMA HandleSeen ==
  ASSUME WellTyped, NEW t \in Requests, Handle(t), ~Commit(t)
  PROVE  /\ Fate(t) = "open"
         /\ Unseen(t) \/ Claims(t) \/ Loses(t)
         /\ registry' = registry
<1> USE DEF Outcomes
<1>0. /\ job[t] \in Jobs
      /\ pc[t] \in InStatement => MoreFeatures(t)
      /\ MoreFeatures(t) => Geom(t) \in Geoms
  BY FeatureShape DEF WellTyped, WellFormed, TypeOK, Features, Geom
<1>1. ASSUME UNCHANGED <<job, report>>, pc[t] \notin Finished, pc'[t] \notin Finished
      PROVE  Unseen(t)
  BY <1>1 DEF Unseen, Accepted, Fate
<1>2. pc[t] \notin Finished
  BY DEF Handle, RefuseMalformed, Authorize, RejectSchema, BeginInsert, RejectGeometry, FailOnNul,
         Arbitrate, InsertRegistry, RejectPlace, InsertPlace, ResolveIncumbent,
         Respond, Finished
<1>3. job' = job /\ registry' = registry
  BY DEF Handle, RefuseMalformed, Authorize, RejectSchema, BeginInsert, RejectGeometry, FailOnNul,
         Arbitrate, InsertRegistry, RejectPlace, InsertPlace, ResolveIncumbent,
         Respond, dbVars
<1>4. Unseen(t) \/ Claims(t) \/ Loses(t)
  <2>1. CASE RefuseMalformed(t) \/ FailOnNul(t)
    BY <1>3, <2>1, FailSeen DEF RefuseMalformed, FailOnNul, Loses
  <2>2. CASE Authorize(t)
    <3>1. CASE CanWrite(job[t])
      BY <1>1, <1>2, <1>3, <2>2, <3>1 DEF Authorize, Finished, WellTyped, TypeOK
    <3>2. CASE ~CanWrite(job[t])
      BY <1>3, <2>2, <3>2, FailSeen DEF Authorize, Loses
    <3> QED BY <3>1, <3>2
  <2>3. CASE RejectSchema(t)
    BY <1>2, <1>3, <2>3, ReportSeen DEF RejectSchema, Unseen
  <2>4. CASE RejectGeometry(t) \/ RejectPlace(t)
    BY <1>0, <1>2, <1>3, <2>4, RejectSeen DEF RejectGeometry, RejectPlace, InStatement
  <2>5. CASE BeginInsert(t) \/ Respond(t)
    BY <1>1, <1>2, <1>3, <2>5 DEF BeginInsert, Respond, Finished, WellTyped, TypeOK
  <2>6. CASE Arbitrate(t)
    <3>1. CASE Report(t, "accepted")
      BY <1>0, <1>2, <1>3, <2>6, <3>1, ReportSeen DEF Arbitrate, InStatement, Claims
    <3>2. CASE pc'[t] \in {"resolve", "insert"} /\ report' = report
      BY <1>1, <1>2, <1>3, <3>2 DEF Finished
    <3> QED BY <2>6, <3>1, <3>2 DEF Arbitrate, WellTyped, TypeOK
  <2>7. CASE InsertRegistry(t)
    <3>1. CASE Reject(t, "geoid_conflict", {})
      BY <1>0, <1>2, <1>3, <2>7, <3>1, RejectSeen DEF InsertRegistry, InStatement
    <3>2. CASE pc'[t] \in {"next", "place"} /\ report' = report
      BY <1>1, <1>2, <1>3, <3>2 DEF Finished
    <3> QED BY <2>7, <3>1, <3>2 DEF InsertRegistry, LoseRace, WellTyped, TypeOK
  <2>8. CASE InsertPlace(t)
    <3>1. CASE Reject(t, "external_id_conflict", {RegistryRow(t)})
      BY <1>0, <1>2, <1>3, <2>8, <3>1, RejectSeen DEF InsertPlace, InStatement
    <3>2. CASE Report(t, "accepted")
      BY <1>0, <1>2, <1>3, <2>8, <3>2, ReportSeen DEF InsertPlace, InStatement, Claims
    <3> QED BY <2>8, <3>1, <3>2 DEF InsertPlace
  <2>9. CASE ResolveIncumbent(t)
    <3>1. CASE Report(t, "accepted")
      BY <1>0, <1>2, <1>3, <2>9, <3>1, ReportSeen DEF ResolveIncumbent, InStatement, Claims
    <3>2. CASE UNCHANGED <<pc, report>>
      BY <1>1, <1>2, <1>3, <3>2
    <3>3. CASE Fail(t, "drift")
      BY <1>3, <3>3, FailSeen DEF Loses
    <3> QED BY <2>9, <3>1, <3>2, <3>3 DEF ResolveIncumbent
  <2> QED BY <2>1, <2>2, <2>3, <2>4, <2>5, <2>6, <2>7, <2>8, <2>9 DEF Handle
<1> QED BY <1>2, <1>3, <1>4 DEF Fate

-----------------------------------------------------------------------------
(* The whole invariant *)

(* A place row is reported by the step that writes it, and no step takes   *)
(* an accepted row of a report back.                                       *)
LEMMA RowsReportedStep == RegistryInv /\ RowsReported /\ [Next]_vars => RowsReported'
<1> SUFFICES ASSUME RegistryInv, RowsReported, [Next]_vars PROVE RowsReported'
  OBVIOUS
<1>0. WellTyped
  BY DEF RegistryInv
<1>1. ASSUME \A u \in Requests : plcs'[u] \subseteq plcs[u] /\ Accepted(u) \subseteq Accepted(u)'
      PROVE  RowsReported'
  BY <1>1 DEF RowsReported, GeomsOf
<1>2. ASSUME NEW t \in Requests,
             Handle(t) \/ Crash(t) \/ StatementTimeout(t) \/ DeadlockDetected(t)
      PROVE  /\ \A u \in Requests \ {t} : Accepted(u)' = Accepted(u)
             /\ Accepted(t) \subseteq Accepted(t)'
  <2>1. job' = job
    BY <1>2 DEF Handle, RefuseMalformed, Authorize, RejectSchema, BeginInsert, RejectGeometry,
       FailOnNul, Arbitrate, InsertRegistry, RejectPlace, InsertPlace, ResolveIncumbent,
       Respond, Commit,
       Crash, StatementTimeout, DeadlockDetected
  <2>2. \A u \in Requests \ {t} : Accepted(u)' = Accepted(u)
    BY <1>0, <1>2, <2>1, OthersKeepStill DEF Accepted
  <2>3. CASE Handle(t) /\ ~Commit(t)
    BY <1>0, <2>2, <2>3, HandleSeen DEF Unseen, Claims, Loses
  <2>4. CASE Commit(t) \/ Crash(t)
    BY <2>2, <2>4 DEF Commit, Crash, Accepted
  <2>5. CASE StatementTimeout(t) \/ DeadlockDetected(t)
    BY <1>0, <2>1, <2>2, <2>5, FailSeen DEF StatementTimeout, DeadlockDetected
  <2> QED BY <1>2, <2>3, <2>4, <2>5
<1>3. ASSUME NEW t \in Requests,
             Handle(t) \/ Crash(t) \/ StatementTimeout(t) \/ DeadlockDetected(t)
      PROVE  RowsReported'
  <2>1. CASE \A u \in Requests : plcs'[u] \subseteq plcs[u]
    BY <1>1, <1>2, <1>3, <2>1
  <2>2. CASE Commit(t)
    BY <1>0, <1>1, <1>2, <1>3, <2>2 DEF Commit, RollBack, WellTyped, TypeOK
  <2>3. CASE InsertPlace(t)
    <3>1. CASE Reject(t, "external_id_conflict", {RegistryRow(t)})
      BY <1>0, <2>1, <3>1, RejectRollsBack
    <3>2. CASE Report(t, "accepted") /\ plcs' = [plcs EXCEPT ![t] = @ \cup {PlaceRow(t)}]
      <4>1. MoreFeatures(t)
        BY <1>0, <2>3 DEF InsertPlace, InStatement, WellTyped, WellFormed
      <4>2. Accepted(t)' = Accepted(t) \cup {Geom(t)}
        BY <1>0, <2>3, <3>2, <4>1, ReportAccepted DEF InsertPlace, Outcomes
      <4>3. PlaceRow(t).geom = Geom(t)
        BY DEF PlaceRow
      <4>4. /\ plcs'[t] = plcs[t] \cup {PlaceRow(t)}
            /\ \A u \in Requests \ {t} : plcs'[u] = plcs[u]
        BY <1>0, <3>2 DEF WellTyped, TypeOK
      <4>5. ASSUME NEW u \in Requests, NEW p \in plcs'[u] PROVE p.geom \in Accepted(u)'
        BY <1>2, <1>3, <4>2, <4>3, <4>4 DEF RowsReported, GeomsOf
      <4> QED BY <4>5 DEF RowsReported, GeomsOf
    <3> QED BY <2>3, <3>1, <3>2 DEF InsertPlace
  <2> QED BY <1>0, <1>3, <2>1, <2>2, <2>3, PlacesShrink
<1>4. ASSUME UNCHANGED vars PROVE RowsReported'
  BY <1>1, <1>4 DEF vars, txVars, Accepted
<1> QED BY <1>3, <1>4 DEF Next, Quiescent

(* IInv is inductive. *)
LEMMA InvariantHolds == Spec => []IInv
<1>1. Init => IInv
  <2> SUFFICES ASSUME Init PROVE IInv
    OBVIOUS
  <2>1. ExternalIdUnique /\ ExtIdsExclusive
    BY DEF Init, ExternalIdUnique, ExtIdsExclusive
  <2>2. RowsReported
    BY DEF Init, RowsReported, GeomsOf
  <2> QED BY <2>1, <2>2, RegistryInit DEF IInv
<1>2. IInv /\ [Next]_vars => IInv'
  BY RegistryStep, ExtIdStep, RowsReportedStep DEF IInv, ExtIdInv, RegistryInv
<1> QED BY <1>1, <1>2, PTL DEF Spec

(* An external_id names one place of a managed collection, whatever        *)
(* requests submit it together (uq_place_collection_external_id).          *)
THEOREM OnePlacePerExternalId == Spec => []ExternalIdUnique
<1>1. IInv => ExternalIdUnique
  BY DEF IInv
<1> QED BY <1>1, InvariantHolds, PTL

-----------------------------------------------------------------------------
(* The refinement *)

LEMMA OwnerOf ==
  ASSUME WellTyped, GeoidUnique, NEW g \in Geoms
  PROVE  /\ Owner(g) # NoColl <=> g \in GeomsOf(registry)
         /\ \A r \in registry : r.geom = g => Owner(g) = r.coll
<1>1. CASE g \in GeomsOf(registry)
  <2>1. PICK r \in registry : r.geom = g
    BY <1>1 DEF GeomsOf
  <2>2. \A q \in registry : q.geom = g => q = r
    BY <2>1 DEF GeoidUnique
  <2>3. (CHOOSE q \in registry : q.geom = g) = r
    BY <2>1, <2>2
  <2>4. r.coll # NoColl
    BY NothingAssumption DEF WellTyped, TypeOK, RegistryRows
  <2> QED BY <1>1, <2>2, <2>3, <2>4 DEF Owner
<1>2. CASE g \notin GeomsOf(registry)
  BY <1>2 DEF Owner, GeomsOf
<1> QED BY <1>1, <1>2

(* A commit is the abstract Keep, for the collection of its request: what  *)
(* it claimed beyond the registered geometries is what it has rows for.    *)
LEMMA CommitKeeps ==
  ASSUME IInv, IInv', NEW t \in Requests, Commit(t)
  PROVE  Registry!Keep(t, job[t].coll) /\ job[t].coll \in Colls
<1> DEFINE c == job[t].coll
<1>0. /\ WellTyped /\ WellTyped' /\ GeoidUnique /\ GeoidUnique'
      /\ pc[t] = "answered" /\ job' = job /\ report' = report
      /\ registry' = registry \cup regs[t]
      /\ pc' = [pc EXCEPT ![t] = "kept"]
  BY DEF Commit, IInv, RegistryInv
<1>1. c \in Colls /\ c # NoColl
  BY <1>0, NothingAssumption DEF WellTyped, WellFormed
<1>2. /\ \A r \in regs[t] : r.coll = c
      /\ GeomsOf(regs[t]) = GeomsOf(plcs[t])
  BY <1>0 DEF IInv, RegistryInv, LegsAgree, GeomsOf
<1>3. Accepted(t) \ GeomsOf(registry) = GeomsOf(regs[t])
  <2>1. GeomsOf(regs[t]) \subseteq Accepted(t)
    BY <1>2 DEF IInv, RowsReported
  <2>2. GeomsOf(regs[t]) \cap GeomsOf(registry) = {}
    BY DEF IInv, RegistryInv, GeomsExclusive
  <2>3. Accepted(t) \subseteq GeomsOf(registry) \cup GeomsOf(regs[t])
    BY <1>0 DEF IInv, RegistryInv, AcceptedResolves, Visible
  <2> QED BY <2>1, <2>2, <2>3
<1>4. ASSUME NEW g \in Geoms
      PROVE  Owner(g)' = IF g \in Accepted(t) /\ Owner(g) = NoColl THEN c ELSE Owner(g)
  <2>1. /\ Owner(g) # NoColl <=> g \in GeomsOf(registry)
        /\ \A r \in registry : r.geom = g => Owner(g) = r.coll
    BY <1>0, OwnerOf
  <2>2. /\ Owner(g)' # NoColl <=> g \in GeomsOf(registry')
        /\ \A r \in registry' : r.geom = g => Owner(g)' = r.coll
    <3>1. /\ (Owner(g) # NoColl)' <=> (g \in GeomsOf(registry))'
          /\ (\A r \in registry : r.geom = g => Owner(g) = r.coll)'
      BY <1>0, OwnerOf, PTL
    <3> QED BY <3>1 DEF GeomsOf
  <2>3. CASE g \in GeomsOf(registry)
    <3>1. PICK r \in registry : r.geom = g
      BY <2>3 DEF GeomsOf
    <3> QED BY <1>0, <2>1, <2>2, <2>3, <3>1
  <2>4. CASE g \in GeomsOf(regs[t])
    <3>1. PICK r \in regs[t] : r.geom = g
      BY <2>4 DEF GeomsOf
    <3>2. g \in Accepted(t) /\ g \notin GeomsOf(registry)
      BY <1>3, <2>4
    <3> QED BY <1>0, <1>2, <2>1, <2>2, <3>1, <3>2
  <2>5. CASE g \notin GeomsOf(registry) /\ g \notin GeomsOf(regs[t])
    <3>1. g \notin GeomsOf(registry') /\ g \notin Accepted(t)
      BY <1>0, <1>3, <2>5 DEF GeomsOf
    <3> QED BY <2>1, <2>2, <2>5, <3>1
  <2> QED BY <2>3, <2>4, <2>5
<1>5. \A u \in Requests : Accepted(u)' = Accepted(u)
  BY <1>0 DEF Accepted
<1>6. \A u \in Requests : Fate(u)' = IF u = t THEN "kept" ELSE Fate(u)
  BY <1>0 DEF Fate, Finished, WellTyped, TypeOK
<1>7. Fate(t) = "open"
  BY <1>0 DEF Fate, Finished
<1> QED BY <1>1, <1>4, <1>5, <1>6, <1>7 DEF Registry!Keep, Registry!Registered

(* Every other step is a Claim, a Lose, or nothing. *)
LEMMA StepImplements ==
  ASSUME IInv, IInv', [Next]_vars
  PROVE  [Registry!Next]_(Registry!registryVars)
<1> DEFINE owners == [g \in Geoms |-> Owner(g)]
           claims == [t \in Requests |-> Accepted(t)]
           fates == [t \in Requests |-> Fate(t)]
<1>0. WellTyped
  BY DEF IInv, RegistryInv
<1>1. registry' = registry => owners' = owners
  BY DEF Owner, GeomsOf
<1>2. ASSUME NEW t \in Requests, ~Commit(t),
             Handle(t) \/ Crash(t) \/ StatementTimeout(t) \/ DeadlockDetected(t)
      PROVE  [Registry!Next]_(Registry!registryVars)
  <2>1. registry' = registry /\ job' = job
    BY <1>2 DEF Handle, RefuseMalformed, Authorize, RejectSchema, BeginInsert, RejectGeometry,
       FailOnNul, Arbitrate, InsertRegistry, RejectPlace, InsertPlace, ResolveIncumbent,
       Respond, Crash, StatementTimeout, DeadlockDetected, dbVars
  <2>2. Fate(t) = "open" /\ (Unseen(t) \/ Claims(t) \/ Loses(t))
    <3>1. CASE Handle(t)
      BY <1>0, <1>2, <3>1, HandleSeen
    <3>2. CASE Crash(t)
      BY <1>0, <2>1, <3>2 DEF Crash, Fate, Accepted, Loses, Finished, WellTyped, TypeOK
    <3>3. CASE StatementTimeout(t) \/ DeadlockDetected(t)
      <4>1. pc[t] \notin Finished
        BY <3>3 DEF StatementTimeout, DeadlockDetected, InWaitCycle, Blocked, HoldsKeyOf, Finished
      <4> QED BY <1>0, <2>1, <3>3, <4>1, FailSeen
            DEF StatementTimeout, DeadlockDetected, Fate, Loses
    <3> QED BY <1>2, <3>1, <3>2, <3>3
  <2>3. \A u \in Requests \ {t} : Accepted(u)' = Accepted(u) /\ Fate(u)' = Fate(u)
    BY <1>0, <1>2, <2>1, OthersKeepStill DEF Accepted, Fate
  <2>4. CASE Unseen(t)
    BY <1>1, <2>1, <2>3, <2>4 DEF Unseen, Registry!registryVars
  <2>5. CASE Claims(t)
    <3>1. Registry!Claim(t, Geom(t))
      BY <1>1, <2>1, <2>2, <2>3, <2>5 DEF Claims, Registry!Claim
    <3> QED BY <2>5, <3>1 DEF Claims, Registry!Next
  <2>6. CASE Loses(t)
    <3>1. Registry!Lose(t)
      BY <1>1, <2>1, <2>2, <2>3, <2>6 DEF Loses, Registry!Lose
    <3> QED BY <3>1 DEF Registry!Next
  <2> QED BY <2>2, <2>4, <2>5, <2>6
<1>3. ASSUME NEW t \in Requests, Commit(t) PROVE Registry!Next
  BY <1>3, CommitKeeps DEF Registry!Next
<1>4. ASSUME UNCHANGED vars PROVE UNCHANGED Registry!registryVars
  <2>1. registry' = registry /\ job' = job /\ pc' = pc /\ report' = report
    BY <1>4 DEF vars, dbVars
  <2> QED BY <1>1, <2>1 DEF Registry!registryVars, Accepted, Fate
<1> QED BY <1>2, <1>3, <1>4 DEF Next, Quiescent

(* The mint transactions implement the abstract registry: whatever races,  *)
(* retries and crashes, a commit registers all a request claimed, a        *)
(* failure leaves nothing, and no owner is ever replaced.                  *)
THEOREM MintImplementsRegistry == Spec => ImplementsRegistry
<1>1. Init => Registry!Init
  <2> SUFFICES ASSUME Init PROVE Registry!Init
    OBVIOUS
  <2>1. \A g \in Geoms : Owner(g) = NoColl
    BY DEF Init, Owner, GeomsOf
  <2>2. ASSUME NEW t \in Requests PROVE Accepted(t) = {} /\ Fate(t) = "open"
    <3>1. report[t] = <<>> /\ pc[t] = "new"
      BY DEF Init
    <3>2. DOMAIN report[t] = {}
      BY <3>1
    <3> QED BY <3>1, <3>2 DEF Accepted, Fate, Finished
  <2> QED BY <2>1, <2>2 DEF Registry!Init
<1>2. IInv /\ IInv' /\ [Next]_vars => [Registry!Next]_(Registry!registryVars)
  BY StepImplements
<1> QED BY <1>1, <1>2, InvariantHolds, PTL DEF Spec, ImplementsRegistry, Registry!Spec

-----------------------------------------------------------------------------
(* The subject of a batch's caller *)

(* A batch that is under way has recorded its caller's subject, or has it  *)
(* in its transaction.                                                     *)
SubjectHeld ==
  \A t \in Requests : job[t].bulk /\ job[t].grant # NoGrant =>
    /\ pc[t] \notin {"new", "kept", "lost"} => job[t].grant \in bound \cup binds[t]
    /\ pc[t] = "kept" => job[t].grant \in bound

OthersKeepBinds(t) == \A u \in Requests \ {t} : binds'[u] = binds[u]
KeepsBinds(t) ==
  /\ binds'[t] = binds[t] /\ bound' = bound
  /\ pc[t] \notin {"new", "kept", "lost"} /\ pc'[t] \notin {"new", "kept", "lost"}

LEMMA FailBinds ==
  ASSUME WellTyped, NEW t \in Requests, NEW code, Fail(t, code)
  PROVE  pc'[t] = "lost" /\ OthersKeepBinds(t)
BY DEF Fail, RollBack, OthersKeepBinds, WellTyped, TypeOK

LEMMA RejectBinds ==
  ASSUME WellTyped, NEW t \in Requests, NEW reason, NEW undo, Reject(t, reason, undo),
         pc[t] \notin {"new", "kept", "lost"}, bound' = bound
  PROVE  OthersKeepBinds(t) /\ (job[t].bulk => pc'[t] = "lost" \/ KeepsBinds(t))
<1>1. CASE job[t].bulk
  BY <1>1 DEF Reject, Report, OthersKeepBinds, KeepsBinds, WellTyped, TypeOK
<1>2. CASE ~job[t].bulk
  BY <1>2, FailBinds DEF Reject
<1> QED BY <1>1, <1>2

LEMMA AuthorizeBinds ==
  ASSUME WellTyped, NEW t \in Requests, Authorize(t)
  PROVE  /\ OthersKeepBinds(t) /\ bound' = bound
         /\ pc'[t] = "lost" \/ /\ pc'[t] = "next"
                               /\ job[t].grant # NoGrant => job[t].grant \in bound \cup binds'[t]
<1>1. CASE CanWrite(job[t])
  <2>1. /\ pc' = [pc EXCEPT ![t] = "next"] /\ bound' = bound
        /\ binds' = [binds EXCEPT ![t] = IF NeedsBinding(t) THEN {job[t].grant} ELSE {}]
    BY <1>1 DEF Authorize, dbVars
  <2>2. job[t].grant \in Grants \cup {NoGrant}
    BY JobShape
  <2>3. pc'[t] = "next" /\ OthersKeepBinds(t)
    BY <2>1 DEF OthersKeepBinds, WellTyped, TypeOK
  <2>4. binds'[t] = IF NeedsBinding(t) THEN {job[t].grant} ELSE {}
    BY <2>1 DEF WellTyped, TypeOK
  <2> QED BY <2>1, <2>2, <2>3, <2>4 DEF NeedsBinding
<1>2. CASE ~CanWrite(job[t])
  BY <1>2, FailBinds DEF Authorize, dbVars
<1> QED BY <1>1, <1>2

LEMMA SubjectStep == WellTyped /\ SubjectHeld /\ [Next]_vars => SubjectHeld'
<1> SUFFICES ASSUME WellTyped, SubjectHeld, [Next]_vars PROVE SubjectHeld'
  OBVIOUS
<1>1. ASSUME NEW t \in Requests,
             Handle(t) \/ Crash(t) \/ StatementTimeout(t) \/ DeadlockDetected(t)
      PROVE  SubjectHeld'
  <2> DEFINE Moves ==
        \/ pc'[t] = "lost"
        \/ pc'[t] = "next" /\ (job[t].grant # NoGrant => job[t].grant \in bound \cup binds'[t])
        \/ job[t].bulk => KeepsBinds(t)
        \/ pc[t] = "answered" /\ pc'[t] = "kept" /\ bound' = bound \cup binds[t]
  <2>1. bound \subseteq bound' /\ job' = job /\ OthersKeepBinds(t) /\ Moves
    <3>1. CASE RefuseMalformed(t) \/ FailOnNul(t)
      BY <3>1, FailBinds DEF RefuseMalformed, FailOnNul, dbVars
    <3>2. CASE Authorize(t)
      BY <3>2, AuthorizeBinds DEF Authorize
    <3>3. CASE RejectSchema(t) \/ BeginInsert(t) \/ Arbitrate(t) \/ Respond(t)
      BY <3>3 DEF RejectSchema, BeginInsert, Arbitrate, Respond, Report, OthersKeepBinds,
         KeepsBinds, dbVars, txVars, WellTyped, TypeOK
    <3>4. CASE RejectGeometry(t) \/ RejectPlace(t)
      BY <3>4, RejectBinds DEF RejectGeometry, RejectPlace, dbVars
    <3>5. CASE InsertRegistry(t)
      <4>1. CASE LoseRace(t)
        <5>1. CASE stmt[t].retried
          BY <3>5, <4>1, <5>1, RejectBinds DEF InsertRegistry, LoseRace, dbVars
        <5>2. CASE ~stmt[t].retried
          BY <3>5, <4>1, <5>2 DEF InsertRegistry, LoseRace, RollBack, OthersKeepBinds, KeepsBinds,
             dbVars, txVars, WellTyped, TypeOK
        <5> QED BY <5>1, <5>2
      <4>2. CASE ~LoseRace(t)
        BY <3>5, <4>2 DEF InsertRegistry, OthersKeepBinds, KeepsBinds, dbVars, WellTyped, TypeOK
      <4> QED BY <4>1, <4>2
    <3>6. CASE InsertPlace(t)
      <4>1. CASE Reject(t, "external_id_conflict", {RegistryRow(t)})
        BY <3>6, <4>1, RejectBinds DEF InsertPlace, dbVars
      <4>2. CASE ~Reject(t, "external_id_conflict", {RegistryRow(t)})
        BY <3>6, <4>2 DEF InsertPlace, Report, OthersKeepBinds, KeepsBinds, dbVars, WellTyped,
             TypeOK
      <4> QED BY <4>1, <4>2
    <3>7. CASE ResolveIncumbent(t)
      <4>1. CASE Fail(t, "drift")
        BY <3>7, <4>1, FailBinds DEF ResolveIncumbent, dbVars
      <4>2. CASE ~Fail(t, "drift")
        BY <3>7, <4>2 DEF ResolveIncumbent, Report, OthersKeepBinds, KeepsBinds, dbVars, txVars,
           WellTyped, TypeOK
      <4> QED BY <4>1, <4>2
    <3>8. CASE Commit(t)
      BY <3>8 DEF Commit, RollBack, OthersKeepBinds, WellTyped, TypeOK
    <3>9. CASE Crash(t)
      BY <3>9 DEF Crash, RollBack, OthersKeepBinds, dbVars, WellTyped, TypeOK
    <3>10. CASE StatementTimeout(t) \/ DeadlockDetected(t)
      BY <3>10, FailBinds DEF StatementTimeout, DeadlockDetected, dbVars
    <3> QED BY <1>1, <3>1, <3>2, <3>3, <3>4, <3>5, <3>6, <3>7, <3>8, <3>9, <3>10 DEF Handle
  <2>2. ASSUME NEW u \in Requests \ {t}, job[u].bulk, job[u].grant # NoGrant
        PROVE  /\ pc'[u] \notin {"new", "kept", "lost"} => job[u].grant \in bound' \cup binds'[u]
               /\ pc'[u] = "kept" => job[u].grant \in bound'
    <3>1. pc'[u] = pc[u] /\ binds'[u] = binds[u]
      BY <1>1, <2>1, <2>2, OthersKeepStill DEF OthersKeepBinds
    <3> QED BY <2>1, <2>2, <3>1 DEF SubjectHeld
  <2>3. ASSUME job[t].bulk, job[t].grant # NoGrant
        PROVE  /\ pc'[t] \notin {"new", "kept", "lost"} => job[t].grant \in bound' \cup binds'[t]
               /\ pc'[t] = "kept" => job[t].grant \in bound'
    <3>1. job[t].grant \in bound \/ pc[t] \in {"new", "kept", "lost"} \/ job[t].grant \in binds[t]
      BY <2>3 DEF SubjectHeld
    <3>2. CASE pc'[t] = "lost"
      BY <3>2
    <3>3. CASE pc'[t] = "next" /\ job[t].grant \in bound \cup binds'[t]
      BY <2>1, <3>3
    <3>4. CASE KeepsBinds(t)
      BY <3>1, <3>4 DEF KeepsBinds
    <3>5. CASE pc[t] = "answered" /\ pc'[t] = "kept" /\ bound' = bound \cup binds[t]
      BY <3>1, <3>5
    <3> QED BY <2>1, <2>3, <3>2, <3>3, <3>4, <3>5
  <2> QED BY <2>1, <2>2, <2>3 DEF SubjectHeld
<1>2. ASSUME UNCHANGED vars PROVE SubjectHeld'
  BY <1>2 DEF vars, dbVars, txVars, SubjectHeld
<1> QED BY <1>1, <1>2 DEF Next, Quiescent

(* A batch that was kept has recorded its caller in the grant it wrote     *)
(* under: a lost race takes it back to a SAVEPOINT, never past the         *)
(* authorization.                                                          *)
THEOREM KeptBatchesRecordSubjects == Spec => []KeptBatchRecordsSubject
<1>1. Init => SubjectHeld
  BY DEF Init, SubjectHeld
<1>2. RegistryInv => WellTyped
  BY DEF RegistryInv
<1>3. SubjectHeld => KeptBatchRecordsSubject
  BY DEF SubjectHeld, KeptBatchRecordsSubject
<1> QED BY <1>1, <1>2, <1>3, SubjectStep, RegistrySafe, PTL DEF Spec

-----------------------------------------------------------------------------
(* What the abstract registry promises follows from its specification      *)
(* alone; the mint transactions implement it, so they keep the promise.    *)

RegistryPromise == Registry!TypeOK /\ Registry!ClaimsKept

LEMMA RegistryPromiseStep ==
  ASSUME RegistryPromise, [Registry!Next]_(Registry!registryVars)
  PROVE  RegistryPromise'
<1>0. NoColl \notin Colls
  BY NothingAssumption
<1>1. CASE UNCHANGED Registry!registryVars
  BY <1>1 DEF RegistryPromise, Registry!TypeOK, Registry!ClaimsKept, Registry!Registered,
     Registry!registryVars
<1>2. ASSUME NEW r \in Requests, NEW g \in Geoms, Registry!Claim(r, g)
      PROVE  RegistryPromise'
  <2>1. /\ Fate(r) = "open"
        /\ \A u \in Requests : Accepted(u)' = IF u = r THEN Accepted(r) \cup {g} ELSE Accepted(u)
        /\ \A u \in Requests : Fate(u)' = Fate(u)
        /\ \A h \in Geoms : Owner(h)' = Owner(h)
    BY <1>2 DEF Registry!Claim
  <2>2. Registry!TypeOK'
    BY <2>1 DEF RegistryPromise, Registry!TypeOK
  <2>3. Registry!ClaimsKept'
    BY <2>1 DEF RegistryPromise, Registry!ClaimsKept, Registry!Registered
  <2> QED BY <2>2, <2>3 DEF RegistryPromise
<1>3. ASSUME NEW r \in Requests, NEW c \in Colls, Registry!Keep(r, c)
      PROVE  RegistryPromise'
  <2>1. Registry!TypeOK'
    BY <1>3 DEF RegistryPromise, Registry!TypeOK, Registry!Keep
  <2>2. Registry!Registered' = Registry!Registered \cup Accepted(r)
    BY <1>0, <1>3 DEF RegistryPromise, Registry!TypeOK, Registry!Registered, Registry!Keep
  <2>3. Registry!ClaimsKept'
    BY <1>3, <2>2 DEF RegistryPromise, Registry!TypeOK, Registry!ClaimsKept, Registry!Keep
  <2> QED BY <2>1, <2>3 DEF RegistryPromise
<1>4. ASSUME NEW r \in Requests, Registry!Lose(r)
      PROVE  RegistryPromise'
  BY <1>4 DEF RegistryPromise, Registry!TypeOK, Registry!ClaimsKept, Registry!Registered,
     Registry!Lose
<1> QED BY <1>1, <1>2, <1>3, <1>4 DEF Registry!Next

(* In the abstract registry a kept request finds every geometry it was     *)
(* told about registered.                                                  *)
THEOREM KeptClaimsRegistered == Registry!Spec => []Registry!ClaimsKept
<1>1. Registry!Init => RegistryPromise
  BY DEF Registry!Init, RegistryPromise, Registry!TypeOK, Registry!ClaimsKept
<1>2. RegistryPromise => Registry!ClaimsKept
  BY DEF RegistryPromise
<1> QED BY <1>1, RegistryPromiseStep, <1>2, PTL DEF Registry!Spec

(* And the first collection to register a geometry keeps it.               *)
THEOREM FirstOwnerKeepsIt == Registry!Spec => Registry!FirstOwnerStays
<1> DEFINE owners == [g \in Geoms |-> Owner(g)]
<1>1. [Registry!Next]_(Registry!registryVars) =>
        [\A g \in Geoms : owners[g] # NoColl => (owners')[g] = owners[g]]_(Registry!registryVars)
  <2> SUFFICES ASSUME Registry!Next
      PROVE \A g \in Geoms : owners[g] # NoColl => (owners')[g] = owners[g]
    OBVIOUS
  <2>1. ASSUME NEW r \in Requests, NEW c \in Colls, Registry!Keep(r, c)
        PROVE  \A g \in Geoms : owners[g] # NoColl => (owners')[g] = owners[g]
    BY <2>1 DEF Registry!Keep, Registry!Registered
  <2>2. ASSUME NEW r \in Requests, NEW g \in Geoms, Registry!Claim(r, g)
        PROVE  owners' = owners
    BY <2>2 DEF Registry!Claim
  <2>3. ASSUME NEW r \in Requests, Registry!Lose(r)
        PROVE  owners' = owners
    BY <2>3 DEF Registry!Lose
  <2> HIDE DEF owners
  <2> QED BY <2>1, <2>2, <2>3 DEF Registry!Next
<1> QED BY <1>1, PTL DEF Registry!Spec, Registry!FirstOwnerStays

(* So it is of the program: once the transaction of a request has          *)
(* committed, every feature it reported as accepted has its geometry in    *)
(* geoid_registry.                                                         *)
COROLLARY AcceptedIsRegistered == Spec => []Registry!ClaimsKept
BY MintImplementsRegistry, KeptClaimsRegistered, PTL DEF ImplementsRegistry

(* And the collection a geoid was first registered with is never replaced, *)
(* whatever races, retries and rollbacks follow.                           *)
COROLLARY FirstCollectionStays == Spec => Registry!FirstOwnerStays
BY MintImplementsRegistry, FirstOwnerKeepsIt, PTL DEF ImplementsRegistry
=============================================================================
