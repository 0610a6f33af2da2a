----------------------------- MODULE MintProofs -----------------------------
(* Proofs about MintTransactions, for any requests, jobs and geometries. *)
EXTENDS MintInvariant, TLAPS

(* A request's job is a record of the right shape, and the feature it is   *)
(* about to handle is one of its features.                                 *)
LEMMA JobShape ==
  ASSUME WellTyped, NEW t \in Requests
  PROVE  /\ job[t].bulk \in BOOLEAN
         /\ job[t].coll \in Colls \cup {NoColl}
         /\ job[t].grant \in Grants \cup {NoGrant}
         /\ job[t].feats \in Seq(Features)
         /\ ~job[t].bulk => Len(job[t].feats) = 1
         /\ Len(report[t]) \in Nat
         /\ Len(job[t].feats) \in Nat
<1>1. job[t] \in Jobs /\ report[t] \in Seq(Outcomes)
  BY DEF WellTyped, TypeOK
<1>2. job[t] \in [bulk : BOOLEAN, coll : Colls \cup {NoColl},
                  grant : Grants \cup {NoGrant}, feats : Seq(Features)]
  BY <1>1, JobAssumption
<1> QED
  BY <1>1, <1>2, JobAssumption

LEMMA FeatureShape ==
  ASSUME WellTyped, NEW t \in Requests, MoreFeatures(t)
  PROVE  /\ Feature(t) \in Features
         /\ Geom(t) \in Geoms
         /\ job[t].coll \in Colls => /\ RegistryRow(t) \in RegistryRows
                                     /\ PlaceRow(t) \in PlaceRows
<1>1. Feature(t) \in Features
  BY JobShape DEF MoreFeatures, Feature
<1> QED
  BY <1>1 DEF Features, Geom, RegistryRow, PlaceRow, RegistryRows, PlaceRows

-----------------------------------------------------------------------------
(* Types *)

(* Failing, reporting and rejecting keep the types. *)
LEMMA FailTyped ==
  ASSUME WellTyped, NEW t \in Requests, NEW code \in Answers,
         Fail(t, code), UNCHANGED <<dbVars, job>>
  PROVE  WellTyped'
<1>1. TypeOK'
  BY BoundAssumption DEF WellTyped, TypeOK, Fail, RollBack, dbVars, Statements, NoStatement, Phases
<1>2. ASSUME NEW u \in Requests PROVE WellFormed(u)'
  BY DEF WellTyped, TypeOK, WellFormed, Fail, dbVars, MoreFeatures, InStatement
<1> QED BY <1>1, <1>2 DEF WellTyped

LEMMA ReportTyped ==
  ASSUME WellTyped, NEW t \in Requests, NEW outcome \in Outcomes,
         MoreFeatures(t), pc[t] \notin {"new", "lost"},
         Report(t, outcome), UNCHANGED <<dbVars, job>>,
         regs' \in [Requests -> SUBSET RegistryRows],
         plcs' \in [Requests -> SUBSET PlaceRows],
         UNCHANGED binds
  PROVE  WellTyped'
<1>1. report' \in [Requests -> Seq(Outcomes)]
  BY DEF WellTyped, TypeOK, Report
<1>2. TypeOK'
  BY <1>1, BoundAssumption DEF WellTyped, TypeOK, Report, dbVars, Statements, NoStatement, Phases
<1>3. ASSUME NEW u \in Requests PROVE WellFormed(u)'
  <2>1. CASE u = t
    BY <2>1, JobShape DEF WellTyped, TypeOK, WellFormed, Report, MoreFeatures, InStatement
  <2>2. CASE u # t
    BY <2>2 DEF WellTyped, TypeOK, WellFormed, Report, MoreFeatures, InStatement
  <2> QED BY <2>1, <2>2
<1> QED BY <1>2, <1>3 DEF WellTyped

LEMMA RejectTyped ==
  ASSUME WellTyped, NEW t \in Requests, NEW undo,
         NEW reason \in Outcomes, MoreFeatures(t), pc[t] \notin {"new", "lost"},
         Reject(t, reason, undo), UNCHANGED <<dbVars, job>>
  PROVE  WellTyped'
<1>1. CASE job[t].bulk
  <2>1. Report(t, reason) /\ UNCHANGED <<plcs, binds>>
        /\ regs' = [regs EXCEPT ![t] = @ \ undo]
    BY <1>1 DEF Reject
  <2>2. /\ regs' \in [Requests -> SUBSET RegistryRows]
        /\ plcs' \in [Requests -> SUBSET PlaceRows]
    BY <2>1 DEF WellTyped, TypeOK
  <2> QED BY <2>1, <2>2, ReportTyped
<1>2. CASE ~job[t].bulk
  <2>1. Fail(t, "rejected")
    BY <1>2 DEF Reject
  <2> QED BY <2>1, FailTyped DEF Answers
<1> QED BY <1>1, <1>2

LEMMA HandleTyped ==
  ASSUME WellTyped, NEW t \in Requests, Handle(t)
  PROVE  WellTyped'
<1>1. CASE RefuseMalformed(t)
  BY <1>1, FailTyped DEF RefuseMalformed, Answers
<1>2. CASE Authorize(t)
  <2>1. CASE CanWrite(job[t])
    <3>1. job[t].coll \in Colls
      BY <1>2, JobShape DEF Authorize, Malformed
    <3>2. binds' \in [Requests -> SUBSET Grants]
      <4>1. (IF NeedsBinding(t) THEN {job[t].grant} ELSE {}) \in SUBSET Grants
        BY DEF NeedsBinding
      <4> QED BY <1>2, <2>1, <4>1 DEF Authorize, WellTyped, TypeOK
    <3>3. TypeOK'
      BY <1>2, <2>1, <3>2 DEF Authorize, WellTyped, TypeOK, dbVars, Phases
    <3>4. ASSUME NEW u \in Requests PROVE WellFormed(u)'
      BY <1>2, <2>1, <3>1
      DEF Authorize, WellTyped, TypeOK, WellFormed, dbVars, MoreFeatures, InStatement
    <3> QED BY <3>3, <3>4 DEF WellTyped
  <2>2. CASE ~CanWrite(job[t])
    BY <1>2, <2>2, FailTyped DEF Authorize, Answers
  <2> QED BY <2>1, <2>2
<1>3. CASE RejectSchema(t)
  <2>1. "schema_invalid" \in Outcomes BY DEF Outcomes
  <2> QED BY <1>3, <2>1, ReportTyped DEF RejectSchema, txVars, WellTyped, TypeOK
<1>4. CASE BeginInsert(t)
  <2>1. Visible(t) \in SUBSET Geoms
    BY DEF WellTyped, TypeOK, Visible, GeomsOf, RegistryRows
  <2>2. stmt' \in [Requests -> Statements]
    BY <1>4, <2>1 DEF BeginInsert, WellTyped, TypeOK, Statements
  <2>3. TypeOK'
    BY <1>4, <2>2 DEF BeginInsert, WellTyped, TypeOK, dbVars, txVars, Phases
  <2>4. ASSUME NEW u \in Requests PROVE WellFormed(u)'
    BY <1>4 DEF BeginInsert, WellTyped, TypeOK, WellFormed, dbVars, MoreFeatures, InStatement
  <2> QED BY <2>3, <2>4 DEF WellTyped
<1>5. CASE RejectGeometry(t) \/ RejectPlace(t)
  <2>1. "invalid_geometry" \in Outcomes BY DEF Outcomes
  <2>2. MoreFeatures(t) /\ pc[t] \notin {"new", "lost"}
    BY <1>5 DEF RejectGeometry, RejectPlace, WellTyped, WellFormed, InStatement
  <2> QED BY <1>5, <2>1, <2>2, RejectTyped DEF RejectGeometry, RejectPlace
<1>6. CASE FailOnNul(t)
  BY <1>6, FailTyped DEF FailOnNul, Answers
<1>7. CASE Arbitrate(t)
  <2>0. MoreFeatures(t) /\ pc[t] \notin {"new", "lost"}
    BY <1>7 DEF Arbitrate, WellTyped, WellFormed, InStatement
  <2>1. CASE Report(t, "accepted")
    BY <1>7, <2>0, <2>1, ReportTyped DEF Arbitrate, txVars, WellTyped, TypeOK, Outcomes
  <2>2. CASE /\ pc' \in {[pc EXCEPT ![t] = "resolve"], [pc EXCEPT ![t] = "insert"]}
             /\ UNCHANGED <<stmt, report, answer>>
    <3>1. TypeOK'
      BY <1>7, <2>2 DEF Arbitrate, WellTyped, TypeOK, dbVars, txVars, Phases
    <3>2. ASSUME NEW u \in Requests PROVE WellFormed(u)'
      BY <1>7, <2>0, <2>2
      DEF Arbitrate, WellTyped, TypeOK, WellFormed, dbVars, MoreFeatures, InStatement
    <3> QED BY <3>1, <3>2 DEF WellTyped
  <2> QED BY <1>7, <2>1, <2>2 DEF Arbitrate
<1>8. CASE InsertRegistry(t)
  <2>0. MoreFeatures(t) /\ pc[t] \notin {"new", "lost"} /\ job[t].coll \in Colls
    BY <1>8 DEF InsertRegistry, WellTyped, WellFormed, InStatement
  <2>1. CASE Reject(t, "geoid_conflict", {})
    BY <1>8, <2>0, <2>1, RejectTyped DEF InsertRegistry, Outcomes
  <2>2. CASE /\ pc' = [pc EXCEPT ![t] = "next"]
             /\ stmt' = [stmt EXCEPT ![t] = SecondAttempt]
             /\ UNCHANGED txVars \/ RollBack(t)
             /\ UNCHANGED <<report, answer>>
    <3>0. SecondAttempt \in Statements
      BY BoundAssumption DEF SecondAttempt, Statements
    <3>4. /\ regs' \in [Requests -> SUBSET RegistryRows]
          /\ plcs' \in [Requests -> SUBSET PlaceRows]
          /\ binds' \in [Requests -> SUBSET Grants]
      <4>1. CASE UNCHANGED txVars
        BY <4>1 DEF WellTyped, TypeOK, txVars
      <4>2. CASE RollBack(t)
        BY <4>2 DEF RollBack, WellTyped, TypeOK
      <4> QED BY <2>2, <4>1, <4>2
    <3>5. stmt' \in [Requests -> Statements]
      BY <2>2, <3>0 DEF WellTyped, TypeOK
    <3>1. TypeOK'
      BY <1>8, <2>2, <3>4, <3>5 DEF InsertRegistry, WellTyped, TypeOK, dbVars, Phases
    <3>2. ASSUME NEW u \in Requests PROVE WellFormed(u)'
      BY <1>8, <2>0, <2>2
      DEF InsertRegistry, WellTyped, TypeOK, WellFormed, dbVars, MoreFeatures, InStatement
    <3> QED BY <3>1, <3>2 DEF WellTyped
  <2>3. CASE /\ pc' = [pc EXCEPT ![t] = "place"]
             /\ regs' = [regs EXCEPT ![t] = @ \cup {RegistryRow(t)}]
             /\ UNCHANGED <<plcs, binds, stmt, report, answer>>
    <3>1. TypeOK'
      BY <1>8, <2>0, <2>3, FeatureShape DEF InsertRegistry, WellTyped, TypeOK, dbVars, Phases
    <3>2. ASSUME NEW u \in Requests PROVE WellFormed(u)'
      BY <1>8, <2>0, <2>3
      DEF InsertRegistry, WellTyped, TypeOK, WellFormed, dbVars, MoreFeatures, InStatement
    <3> QED BY <3>1, <3>2 DEF WellTyped
  <2> QED BY <1>8, <2>1, <2>2, <2>3 DEF InsertRegistry, LoseRace
<1>9. CASE InsertPlace(t)
  <2>0. MoreFeatures(t) /\ pc[t] \notin {"new", "lost"} /\ job[t].coll \in Colls
    BY <1>9 DEF InsertPlace, WellTyped, WellFormed, InStatement
  <2>1. CASE Reject(t, "external_id_conflict", {RegistryRow(t)})
    BY <1>9, <2>0, <2>1, RejectTyped DEF InsertPlace, Outcomes
  <2>2. CASE /\ Report(t, "accepted")
             /\ plcs' = [plcs EXCEPT ![t] = @ \cup {PlaceRow(t)}]
             /\ UNCHANGED <<regs, binds>>
    <3>1. /\ regs' \in [Requests -> SUBSET RegistryRows]
          /\ plcs' \in [Requests -> SUBSET PlaceRows]
      BY <2>0, <2>2, FeatureShape DEF WellTyped, TypeOK
    <3> QED BY <1>9, <2>0, <2>2, <3>1, ReportTyped DEF InsertPlace, Outcomes
  <2> QED BY <1>9, <2>1, <2>2 DEF InsertPlace
<1>10. CASE ResolveIncumbent(t)
  <2>0. MoreFeatures(t) /\ pc[t] \notin {"new", "lost"}
    BY <1>10 DEF ResolveIncumbent, WellTyped, WellFormed, InStatement
  <2>1. CASE Report(t, "accepted") /\ UNCHANGED txVars
    BY <1>10, <2>0, <2>1, ReportTyped DEF ResolveIncumbent, txVars, WellTyped, TypeOK, Outcomes
  <2>2. CASE /\ stmt[t].reads + 1 < SlugRetries
             /\ stmt' = [stmt EXCEPT ![t].reads = @ + 1]
             /\ UNCHANGED <<txVars, pc, report, answer>>
    <3>1. stmt' \in [Requests -> Statements]
      <4>1. stmt[t] \in Statements
        BY DEF WellTyped, TypeOK
      <4>2. stmt[t].reads + 1 \in 0 .. SlugRetries
        BY <2>2, <4>1, BoundAssumption DEF Statements
      <4>3. [stmt[t] EXCEPT !.reads = stmt[t].reads + 1] \in Statements
        BY <4>1, <4>2 DEF Statements
      <4> QED BY <2>2, <4>3 DEF WellTyped, TypeOK
    <3>2. TypeOK'
      BY <1>10, <2>2, <3>1 DEF ResolveIncumbent, WellTyped, TypeOK, dbVars, txVars
    <3>3. ASSUME NEW u \in Requests PROVE WellFormed(u)'
      BY <1>10, <2>2 DEF ResolveIncumbent, WellTyped, WellFormed, dbVars, MoreFeatures
    <3> QED BY <3>2, <3>3 DEF WellTyped
  <2>3. CASE Fail(t, "drift")
    BY <1>10, <2>3, FailTyped DEF ResolveIncumbent, Answers
  <2> QED BY <1>10, <2>1, <2>2, <2>3 DEF ResolveIncumbent
<1>11. CASE Respond(t)
  <2>1. TypeOK'
    BY <1>11 DEF Respond, WellTyped, TypeOK, dbVars, txVars, Phases, Answers
  <2>2. ASSUME NEW u \in Requests PROVE WellFormed(u)'
    BY <1>11 DEF Respond, WellTyped, TypeOK, WellFormed, dbVars, MoreFeatures, InStatement
  <2> QED BY <2>1, <2>2 DEF WellTyped
<1>12. CASE Commit(t)
  <2>1. TypeOK'
    BY <1>12 DEF Commit, RollBack, WellTyped, TypeOK, Phases
  <2>2. ASSUME NEW u \in Requests PROVE WellFormed(u)'
    BY <1>12 DEF Commit, WellTyped, TypeOK, WellFormed, MoreFeatures, InStatement
  <2> QED BY <2>1, <2>2 DEF WellTyped
<1> QED
  BY <1>1, <1>2, <1>3, <1>4, <1>5, <1>6, <1>7, <1>8, <1>9, <1>10, <1>11, <1>12 DEF Handle

LEMMA TypedStep == WellTyped /\ [Next]_vars => WellTyped'
<1> SUFFICES ASSUME WellTyped, [Next]_vars PROVE WellTyped'
  OBVIOUS
<1>1. ASSUME NEW t \in Requests, Handle(t) PROVE WellTyped'
  BY <1>1, HandleTyped
<1>2. ASSUME NEW t \in Requests, Crash(t) PROVE WellTyped'
  <2>1. TypeOK'
    BY <1>2, BoundAssumption
    DEF Crash, RollBack, WellTyped, TypeOK, dbVars, Phases, Statements, NoStatement
  <2>2. ASSUME NEW u \in Requests PROVE WellFormed(u)'
    BY <1>2 DEF Crash, WellTyped, TypeOK, WellFormed, MoreFeatures, InStatement
  <2> QED BY <2>1, <2>2 DEF WellTyped
<1>3. ASSUME NEW t \in Requests, StatementTimeout(t) \/ DeadlockDetected(t) PROVE WellTyped'
  BY <1>3, FailTyped DEF StatementTimeout, DeadlockDetected, Answers
<1>4. ASSUME UNCHANGED vars PROVE WellTyped'
  BY <1>4 DEF vars, dbVars, txVars, WellTyped, TypeOK, WellFormed, MoreFeatures
<1> QED
  BY <1>1, <1>2, <1>3, <1>4 DEF Next, Quiescent

LEMMA TypedInit == Init => WellTyped
<1> SUFFICES ASSUME Init PROVE WellTyped
  OBVIOUS
<1>1. TypeOK
  BY BoundAssumption DEF Init, TypeOK, Statements, NoStatement, Phases, Answers
<1>2. ASSUME NEW t \in Requests PROVE WellFormed(t)
  <2>1. job[t] \in Jobs
    BY DEF Init
  <2>2. Len(job[t].feats) \in Nat
    BY <2>1, JobAssumption
  <2> QED BY <2>2 DEF Init, WellFormed, InStatement
<1> QED BY <1>1, <1>2 DEF WellTyped

(* Every variable keeps its type: rows name existing collections and       *)
(* geometries, statements re-read the incumbent a bounded number of times. *)
THEOREM TypeCorrect == Spec => []TypeOK
<1>1. WellTyped => TypeOK
  BY DEF WellTyped
<1> QED BY <1>1, TypedInit, TypedStep, PTL DEF Spec

-----------------------------------------------------------------------------
(* The registry side of the invariant *)

(* What a report adds to the accepted geometries. *)
LEMMA ReportAccepted ==
  ASSUME WellTyped, NEW t \in Requests, NEW outcome \in Outcomes,
         MoreFeatures(t), Report(t, outcome), UNCHANGED job
  PROVE  Accepted(t)' = IF outcome = "accepted" THEN Accepted(t) \cup {Geom(t)} ELSE Accepted(t)
<1> DEFINE s == report[t]
           Yes(q) == {k \in DOMAIN q : q[k] = "accepted"}
<1>1. s \in Seq(Outcomes) /\ report'[t] = Append(s, outcome)
  BY DEF WellTyped, TypeOK, Report
<1>2. Yes(Append(s, outcome)) = IF outcome = "accepted" THEN Yes(s) \cup {Len(s) + 1} ELSE Yes(s)
  BY <1>1
<1>3. Accepted(t) = {job[t].feats[i].geom : i \in Yes(s)}
  BY DEF Accepted
<1>4. Accepted(t)' = {job[t].feats[i].geom : i \in Yes(Append(s, outcome))}
  BY <1>1 DEF Accepted
<1>5. Geom(t) = job[t].feats[Len(s) + 1].geom
  BY DEF Geom, Feature
<1> HIDE DEF Yes, s
<1> QED BY <1>2, <1>3, <1>4, <1>5

(* A step of t that leaves the committed rows alone preserves the          *)
(* invariant when it keeps t's own part of it.                             *)
LEMMA LocalStep ==
  ASSUME RegistryInv, WellTyped', NEW t \in Requests,
         UNCHANGED <<dbVars, job>>,
         \A u \in Requests \ {t} :
           /\ pc'[u] = pc[u] /\ regs'[u] = regs[u] /\ plcs'[u] = plcs[u]
           /\ stmt'[u] = stmt[u] /\ report'[u] = report[u] /\ answer'[u] = answer[u],
         LegsAgree(t)', StatementSound(t)', RetrySound(t)',
         (pc[t] # "lost" => Accepted(t) \subseteq Visible(t))',
         GeomsOf(regs'[t]) \cap GeomsOf(registry) = {},
         \A u \in Requests \ {t} : GeomsOf(regs'[t]) \cap GeomsOf(regs[u]) = {}
  PROVE  RegistryInv'
<1>1. GeoidUnique' /\ NoOrphanRows'
  BY DEF RegistryInv, GeoidUnique, NoOrphanRows, dbVars
<1>2. GeomsExclusive'
  <2> SUFFICES ASSUME NEW a \in Requests
               PROVE  /\ (GeomsOf(regs[a]) \cap GeomsOf(registry) = {})'
                      /\ \A b \in Requests \ {a} : (GeomsOf(regs[a]) \cap GeomsOf(regs[b]) = {})'
    BY DEF GeomsExclusive
  <2>0. registry' = registry
    BY DEF dbVars
  <2>1. CASE a = t
    BY <2>0, <2>1 DEF GeomsOf
  <2>2. CASE a # t
    <3>1. GeomsOf(regs'[a]) = GeomsOf(regs[a])
      BY <2>2 DEF GeomsOf
    <3>2. (GeomsOf(regs[a]) \cap GeomsOf(registry) = {})'
      BY <2>0, <3>1 DEF RegistryInv, GeomsExclusive, GeomsOf
    <3>3. ASSUME NEW b \in Requests \ {a} PROVE (GeomsOf(regs[a]) \cap GeomsOf(regs[b]) = {})'
      <4>1. CASE b = t
        BY <2>2, <3>1, <4>1 DEF GeomsOf
      <4>2. CASE b # t
        BY <3>1, <4>2 DEF RegistryInv, GeomsExclusive, GeomsOf
      <4> QED BY <4>1, <4>2
    <3> QED BY <3>2, <3>3
  <2> QED BY <2>1, <2>2
<1>3. ASSUME NEW u \in Requests, u # t
      PROVE  /\ LegsAgree(u)' /\ StatementSound(u)' /\ RetrySound(u)'
             /\ (pc[u] # "lost" => Accepted(u) \subseteq Visible(u))'
  <2>1. /\ Accepted(u)' = Accepted(u)
        /\ Visible(u)' = Visible(u)
        /\ Geom(u)' = Geom(u)
        /\ MoreFeatures(u)' = MoreFeatures(u)
    BY <1>3 DEF Accepted, Visible, Geom, Feature, MoreFeatures, GeomsOf, dbVars
  <2>2. LegsAgree(u)'
    BY <1>3, <2>1 DEF RegistryInv, LegsAgree, GeomsOf
  <2>3. StatementSound(u)'
    BY <1>3, <2>1 DEF RegistryInv, StatementSound, GeomsOf
  <2>4. RetrySound(u)'
    BY <1>3, <2>1 DEF RegistryInv, RetrySound, GeomsOf, dbVars
  <2>5. (pc[u] # "lost" => Accepted(u) \subseteq Visible(u))'
    BY <1>3, <2>1 DEF RegistryInv, AcceptedResolves
  <2> QED BY <2>2, <2>3, <2>4, <2>5
<1>4. AcceptedResolves'
  BY <1>3 DEF AcceptedResolves
<1>5. \A u \in Requests : LegsAgree(u)' /\ StatementSound(u)' /\ RetrySound(u)'
  BY <1>3
<1> QED BY <1>1, <1>2, <1>4, <1>5 DEF RegistryInv

LEMMA GoneSound ==
  ASSUME RegistryInv, WellTyped', NEW t \in Requests, RollBack(t),
         pc' = [pc EXCEPT ![t] = "lost"],
         stmt' = [stmt EXCEPT ![t] = NoStatement],
         NEW code \in Answers \ {"drift"},
         answer' = [answer EXCEPT ![t] = code],
         UNCHANGED <<dbVars, job, report>>
  PROVE  RegistryInv'
<1>1. /\ pc'[t] = "lost" /\ regs'[t] = {} /\ plcs'[t] = {} /\ stmt'[t] = NoStatement
      /\ answer'[t] # "drift"
  BY DEF RegistryInv, WellTyped, TypeOK, RollBack
<1>2. GeomsOf(regs'[t]) = {}
  BY <1>1 DEF GeomsOf
<1>3. LegsAgree(t)'
  BY <1>1 DEF LegsAgree
<1>4. StatementSound(t)' /\ RetrySound(t)'
  BY <1>1 DEF StatementSound, RetrySound, NoStatement
<1>5. \A u \in Requests \ {t} :
        /\ pc'[u] = pc[u] /\ regs'[u] = regs[u] /\ plcs'[u] = plcs[u]
        /\ stmt'[u] = stmt[u] /\ report'[u] = report[u] /\ answer'[u] = answer[u]
  BY DEF RegistryInv, WellTyped, TypeOK, RollBack
<1> QED BY <1>1, <1>2, <1>3, <1>4, <1>5, LocalStep

LEMMA FailSound ==
  ASSUME RegistryInv, WellTyped', NEW t \in Requests, NEW code \in Answers \ {"drift"},
         Fail(t, code), UNCHANGED <<dbVars, job>>
  PROVE  RegistryInv'
BY GoneSound DEF Fail

(* A finished statement: the report grows, the rows of t become r and p. *)
LEMMA ReportSound ==
  ASSUME RegistryInv, WellTyped', NEW t \in Requests, NEW outcome \in Outcomes,
         MoreFeatures(t), Report(t, outcome), UNCHANGED <<dbVars, job>>,
         NEW r, NEW p,
         regs' = [regs EXCEPT ![t] = r], plcs' = [plcs EXCEPT ![t] = p],
         GeomsOf(r) \subseteq GeomsOf(regs[t]),
         \A x \in p : x.coll = job[t].coll /\ x.geom \in GeomsOf(r),
         \A x \in r : x.coll = job[t].coll /\ x.geom \in GeomsOf(p),
         Accepted(t) \subseteq GeomsOf(registry) \cup GeomsOf(r),
         outcome = "accepted" => Geom(t) \in GeomsOf(registry) \cup GeomsOf(r)
  PROVE  RegistryInv'
<1>1. /\ pc'[t] = "next" /\ regs'[t] = r /\ plcs'[t] = p /\ stmt'[t] = NoStatement
      /\ answer'[t] = answer[t]
  BY DEF RegistryInv, WellTyped, TypeOK, Report
<1>2. LegsAgree(t)'
  BY <1>1 DEF LegsAgree, Idle
<1>3. StatementSound(t)' /\ RetrySound(t)'
  BY <1>1 DEF RegistryInv, StatementSound, RetrySound, NoStatement
<1>4. Accepted(t)' \subseteq Accepted(t) \cup (IF outcome = "accepted" THEN {Geom(t)} ELSE {})
  BY ReportAccepted DEF RegistryInv
<1>5. Visible(t)' = GeomsOf(registry) \cup GeomsOf(r)
  BY <1>1 DEF Visible, GeomsOf, dbVars
<1>6. (pc[t] # "lost" => Accepted(t) \subseteq Visible(t))'
  BY <1>4, <1>5
<1>7. \A u \in Requests \ {t} :
        /\ pc'[u] = pc[u] /\ regs'[u] = regs[u] /\ plcs'[u] = plcs[u]
        /\ stmt'[u] = stmt[u] /\ report'[u] = report[u] /\ answer'[u] = answer[u]
  BY DEF RegistryInv, WellTyped, TypeOK, Report
<1>8. /\ GeomsOf(regs'[t]) \cap GeomsOf(registry) = {}
      /\ \A u \in Requests \ {t} : GeomsOf(regs'[t]) \cap GeomsOf(regs[u]) = {}
  BY <1>1 DEF RegistryInv, GeomsExclusive
<1> QED BY <1>2, <1>3, <1>6, <1>7, <1>8, LocalStep

(* The rows of a request between two statements are complete. *)
LEMMA RowsComplete ==
  ASSUME RegistryInv, NEW t \in Requests, pc[t] # "place"
  PROVE  /\ \A x \in plcs[t] : x.coll = job[t].coll /\ x.geom \in GeomsOf(regs[t])
         /\ \A x \in regs[t] : x.coll = job[t].coll /\ x.geom \in GeomsOf(plcs[t])
BY DEF RegistryInv, LegsAgree

(* A statement that ends without having written. *)
LEMMA PlainReportSound ==
  ASSUME RegistryInv, WellTyped', NEW t \in Requests, NEW outcome \in Outcomes,
         pc[t] \notin {"place", "lost"},
         MoreFeatures(t), Report(t, outcome), UNCHANGED <<dbVars, txVars, job>>,
         outcome = "accepted" => Geom(t) \in Visible(t)
  PROVE  RegistryInv'
<1>1. regs' = [regs EXCEPT ![t] = regs[t]] /\ plcs' = [plcs EXCEPT ![t] = plcs[t]]
  BY DEF txVars, RegistryInv, WellTyped, TypeOK
<1>2. Accepted(t) \subseteq GeomsOf(registry) \cup GeomsOf(regs[t])
  BY DEF RegistryInv, AcceptedResolves, Visible
<1> QED BY <1>1, <1>2, RowsComplete, ReportSound DEF Visible

LEMMA RejectSound ==
  ASSUME RegistryInv, WellTyped', NEW t \in Requests, NEW reason \in Outcomes \ {"accepted"},
         pc[t] \notin {"place", "lost"}, MoreFeatures(t),
         Reject(t, reason, {}), UNCHANGED <<dbVars, job>>
  PROVE  RegistryInv'
<1>1. CASE job[t].bulk
  <2>1. Report(t, reason) /\ UNCHANGED txVars
    BY <1>1 DEF Reject, txVars, RegistryInv, WellTyped, TypeOK
  <2> QED BY <2>1, PlainReportSound
<1>2. CASE ~job[t].bulk
  BY <1>2, FailSound DEF Reject, Answers
<1> QED BY <1>1, <1>2

(* A request whose rows, report and answer stay as they are. *)
LEMMA QuietSound ==
  ASSUME RegistryInv, WellTyped', NEW t \in Requests, NEW phase, NEW s,
         pc[t] \notin {"place", "lost"} \/ phase = pc[t], phase # "place",
         pc' = [pc EXCEPT ![t] = phase], stmt' = [stmt EXCEPT ![t] = s],
         UNCHANGED <<dbVars, job, regs, plcs, report>>,
         \A u \in Requests \ {t} : answer'[u] = answer[u],
         answer'[t] # "drift",
         phase \in Idle => regs[t] = {} /\ plcs[t] = {},
         s.seen \subseteq Visible(t),
         phase = "insert" => Geom(t) \notin GeomsOf(regs[t]) \cup Accepted(t),
         phase = "resolve" => Geom(t) \in Visible(t),
         s.retried => /\ MoreFeatures(t)
                      /\ Geom(t) \in GeomsOf(registry)
                      /\ phase \in {"next", "arbiter", "resolve"}
  PROVE  RegistryInv'
<1>1. pc'[t] = phase /\ stmt'[t] = s
  BY DEF RegistryInv, WellTyped, TypeOK
<1>2. /\ Accepted(t)' = Accepted(t)
      /\ Visible(t)' = Visible(t)
      /\ Geom(t)' = Geom(t)
      /\ MoreFeatures(t)' = MoreFeatures(t)
  BY DEF Accepted, Visible, Geom, Feature, MoreFeatures, GeomsOf, dbVars
<1>3. LegsAgree(t)'
  BY <1>1, <1>2 DEF RegistryInv, LegsAgree, GeomsOf
<1>4. StatementSound(t)'
  BY <1>1, <1>2 DEF StatementSound, GeomsOf
<1>5. RetrySound(t)'
  BY <1>1, <1>2 DEF RetrySound, GeomsOf, dbVars
<1>6. (pc[t] # "lost" => Accepted(t) \subseteq Visible(t))'
  BY <1>1, <1>2 DEF RegistryInv, AcceptedResolves
<1>7. \A u \in Requests \ {t} :
        /\ pc'[u] = pc[u] /\ regs'[u] = regs[u] /\ plcs'[u] = plcs[u]
        /\ stmt'[u] = stmt[u] /\ report'[u] = report[u] /\ answer'[u] = answer[u]
  BY DEF RegistryInv, WellTyped, TypeOK
<1>8. /\ GeomsOf(regs'[t]) \cap GeomsOf(registry) = {}
      /\ \A u \in Requests \ {t} : GeomsOf(regs'[t]) \cap GeomsOf(regs[u]) = {}
  BY DEF RegistryInv, GeomsExclusive
<1> QED BY <1>3, <1>4, <1>5, <1>6, <1>7, <1>8, LocalStep

LEMMA ArbitrateSound ==
  ASSUME RegistryInv, WellTyped', NEW t \in Requests, Arbitrate(t)
  PROVE  RegistryInv'
<1>1. /\ pc[t] = "arbiter" /\ UNCHANGED <<dbVars, txVars, job>> /\ MoreFeatures(t)
      /\ WellTyped /\ stmt[t].seen \subseteq Visible(t) /\ Accepted(t) \subseteq Visible(t)
      /\ answer[t] # "drift" /\ stmt = [stmt EXCEPT ![t] = stmt[t]]
  BY DEF Arbitrate, RegistryInv, WellTyped, WellFormed, TypeOK, InStatement, StatementSound,
         AcceptedResolves
<1>2. CASE Geom(t) \in stmt[t].seen
  <2>1. Report(t, "accepted") /\ Geom(t) \in Visible(t)
    BY <1>1, <1>2 DEF Arbitrate
  <2> QED BY <1>1, <2>1, PlainReportSound DEF Outcomes
<1>3. CASE Geom(t) \in Visible(t) \ stmt[t].seen
  <2>1. pc' = [pc EXCEPT ![t] = "resolve"] /\ UNCHANGED <<stmt, report, answer>>
    BY <1>3 DEF Arbitrate
  <2>2. stmt[t].retried => MoreFeatures(t) /\ Geom(t) \in GeomsOf(registry)
    BY DEF RegistryInv, RetrySound
  <2> QED BY <1>1, <1>3, <2>1, <2>2, QuietSound DEF txVars, Idle
<1>4. CASE Geom(t) \notin Visible(t)
  <2>1. pc' = [pc EXCEPT ![t] = "insert"] /\ UNCHANGED <<stmt, report, answer>>
    BY <1>4 DEF Arbitrate
  <2>2. ~stmt[t].retried
    BY <1>4 DEF RegistryInv, RetrySound, Visible
  <2>3. Geom(t) \notin GeomsOf(regs[t]) \cup Accepted(t)
    BY <1>1, <1>4 DEF Visible
  <2> QED BY <1>1, <2>1, <2>2, <2>3, QuietSound DEF txVars, Idle
<1> QED BY <1>1, <1>2, <1>3, <1>4

(* The registry row: a lost race leaves the winner committed, a won one    *)
(* adds a geometry nobody else holds.                                      *)
LEMMA InsertRegistrySound ==
  ASSUME RegistryInv, WellTyped', NEW t \in Requests, InsertRegistry(t)
  PROVE  RegistryInv'
<1>1. /\ pc[t] = "insert" /\ UNCHANGED <<dbVars, job>> /\ MoreFeatures(t) /\ WellTyped
      /\ ~stmt[t].retried /\ answer[t] # "drift"
      /\ Geom(t) \notin GeomsOf(regs[t]) \cup Accepted(t)
      /\ stmt[t].seen \subseteq Visible(t) /\ Accepted(t) \subseteq Visible(t)
  BY DEF InsertRegistry, RegistryInv, WellTyped, WellFormed, InStatement, StatementSound,
         RetrySound, AcceptedResolves
<1>2. CASE Geom(t) \in GeomsOf(registry)
  <2>1. /\ pc' = [pc EXCEPT ![t] = "next"]
        /\ stmt' = [stmt EXCEPT ![t] = SecondAttempt]
        /\ IF job[t].bulk THEN UNCHANGED txVars ELSE RollBack(t)
        /\ UNCHANGED <<report, answer>>
    BY <1>1, <1>2 DEF InsertRegistry, LoseRace
  <2>2. CASE job[t].bulk
    BY <1>1, <1>2, <2>1, <2>2, QuietSound DEF txVars, Idle, SecondAttempt
  <2>3. CASE ~job[t].bulk
    <3>1. /\ pc'[t] = "next" /\ regs'[t] = {} /\ plcs'[t] = {} /\ stmt'[t] = SecondAttempt
          /\ GeomsOf(regs'[t]) = {}
      BY <1>1, <2>1, <2>3 DEF RollBack, WellTyped, TypeOK, GeomsOf
    <3>2. Len(report[t]) = 0
      <4>1. Len(job[t].feats) = 1 /\ Len(report[t]) \in Nat
        BY <1>1, <2>3, JobShape
      <4> QED BY <1>1, <4>1 DEF MoreFeatures
    <3>3. Accepted(t)' = {}
      BY <1>1, <2>1, <3>2 DEF WellTyped, TypeOK, Accepted
    <3>4. MoreFeatures(t)' /\ Geom(t)' = Geom(t)
      BY <1>1, <2>1 DEF MoreFeatures, Geom, Feature
    <3>5. LegsAgree(t)'
      BY <3>1 DEF LegsAgree
    <3>6. StatementSound(t)' /\ RetrySound(t)'
      BY <1>1, <1>2, <2>1, <3>1, <3>4 DEF StatementSound, RetrySound, SecondAttempt, GeomsOf, dbVars
    <3>7. \A u \in Requests \ {t} :
            /\ pc'[u] = pc[u] /\ regs'[u] = regs[u] /\ plcs'[u] = plcs[u]
            /\ stmt'[u] = stmt[u] /\ report'[u] = report[u] /\ answer'[u] = answer[u]
      BY <1>1, <2>1, <2>3 DEF RollBack, WellTyped, TypeOK
    <3> QED BY <1>1, <3>1, <3>3, <3>5, <3>6, <3>7, LocalStep
  <2> QED BY <2>2, <2>3
<1>3. CASE Geom(t) \notin GeomsOf(registry)
  <2>1. /\ pc' = [pc EXCEPT ![t] = "place"]
        /\ regs' = [regs EXCEPT ![t] = @ \cup {RegistryRow(t)}]
        /\ UNCHANGED <<plcs, binds, stmt, report, answer>>
    BY <1>3 DEF InsertRegistry
  <2>2. /\ pc'[t] = "place" /\ regs'[t] = regs[t] \cup {RegistryRow(t)}
        /\ plcs'[t] = plcs[t] /\ stmt'[t] = stmt[t] /\ report'[t] = report[t]
    BY <1>1, <2>1 DEF WellTyped, TypeOK
  <2>3. /\ Accepted(t)' = Accepted(t) /\ Geom(t)' = Geom(t)
        /\ RegistryRow(t) = [geom |-> Geom(t), coll |-> job[t].coll]
    BY <1>1, <2>1 DEF Accepted, Geom, Feature, RegistryRow
  <2>4. GeomsOf(regs'[t]) = GeomsOf(regs[t]) \cup {Geom(t)}
    BY <2>2, <2>3 DEF GeomsOf
  <2>5. Visible(t)' = Visible(t) \cup {Geom(t)}
    BY <1>1, <2>4 DEF Visible, GeomsOf, dbVars
  <2>6. LegsAgree(t)'
    BY <1>1, <2>2, <2>3, <2>4, RowsComplete DEF LegsAgree, Idle, GeomsOf
  <2>7. StatementSound(t)' /\ RetrySound(t)'
    BY <1>1, <2>1, <2>2, <2>3, <2>5 DEF StatementSound, RetrySound
  <2>8. \A u \in Requests \ {t} : Geom(t) \notin GeomsOf(regs[u])
    BY <1>1 DEF InsertRegistry, Blocked, HoldsKeyOf
  <2>9. /\ GeomsOf(regs'[t]) \cap GeomsOf(registry) = {}
        /\ \A u \in Requests \ {t} : GeomsOf(regs'[t]) \cap GeomsOf(regs[u]) = {}
    BY <1>3, <2>4, <2>8 DEF RegistryInv, GeomsExclusive
  <2>10. \A u \in Requests \ {t} :
           /\ pc'[u] = pc[u] /\ regs'[u] = regs[u] /\ plcs'[u] = plcs[u]
           /\ stmt'[u] = stmt[u] /\ report'[u] = report[u] /\ answer'[u] = answer[u]
    BY <1>1, <2>1 DEF WellTyped, TypeOK
  <2>11. (pc[t] # "lost" => Accepted(t) \subseteq Visible(t))'
    BY <1>1, <2>3, <2>5
  <2> QED BY <1>1, <2>6, <2>7, <2>9, <2>10, <2>11, LocalStep
<1> QED BY <1>2, <1>3

(* An abort of the place leg takes the registry row of its statement back. *)
LEMMA PlaceAbortSound ==
  ASSUME RegistryInv, WellTyped', NEW t \in Requests, pc[t] = "place",
         NEW reason \in Outcomes \ {"accepted"},
         Reject(t, reason, {RegistryRow(t)}), UNCHANGED <<dbVars, job>>
  PROVE  RegistryInv'
<1>1. /\ MoreFeatures(t) /\ WellTyped
      /\ Geom(t) \in GeomsOf(regs[t]) \ GeomsOf(plcs[t])
      /\ Geom(t) \notin Accepted(t)
      /\ Accepted(t) \subseteq GeomsOf(registry) \cup GeomsOf(regs[t])
  BY DEF RegistryInv, WellTyped, WellFormed, InStatement, StatementSound,
         LegsAgree, AcceptedResolves, Visible
<1>2. /\ \A x \in plcs[t] : x.coll = job[t].coll /\ x.geom \in GeomsOf(regs[t])
      /\ \A x \in regs[t] : /\ x.coll = job[t].coll
                            /\ x.geom \in GeomsOf(plcs[t]) \/ x.geom = Geom(t)
  BY <1>1 DEF RegistryInv, LegsAgree
<1>3. \A x \in regs[t] : x = [geom |-> x.geom, coll |-> x.coll]
  BY <1>1 DEF WellTyped, TypeOK, RegistryRows
<1>4. CASE job[t].bulk
  <2> DEFINE r == regs[t] \ {RegistryRow(t)}
  <2>1. /\ Report(t, reason)
        /\ regs' = [regs EXCEPT ![t] = r] /\ plcs' = [plcs EXCEPT ![t] = plcs[t]]
    BY <1>1, <1>4 DEF Reject, WellTyped, TypeOK
  <2>2. \A x \in regs[t] : x.geom # Geom(t) <=> x \in r
    BY <1>2, <1>3 DEF RegistryRow
  <2>3. /\ \A x \in plcs[t] : x.coll = job[t].coll /\ x.geom \in GeomsOf(r)
        /\ \A x \in r : x.coll = job[t].coll /\ x.geom \in GeomsOf(plcs[t])
    BY <1>1, <1>2, <2>2 DEF GeomsOf
  <2>4. /\ GeomsOf(r) \subseteq GeomsOf(regs[t])
        /\ Accepted(t) \subseteq GeomsOf(registry) \cup GeomsOf(r)
    BY <1>1, <2>2 DEF GeomsOf
  <2> HIDE DEF r
  <2> QED BY <1>1, <2>1, <2>3, <2>4, ReportSound
<1>5. CASE ~job[t].bulk
  BY <1>1, <1>5, FailSound DEF Reject, Answers
<1> QED BY <1>4, <1>5

LEMMA InsertPlaceSound ==
  ASSUME RegistryInv, WellTyped', NEW t \in Requests, InsertPlace(t)
  PROVE  RegistryInv'
<1>1. /\ pc[t] = "place" /\ UNCHANGED <<dbVars, job>> /\ MoreFeatures(t) /\ WellTyped
      /\ Geom(t) \in GeomsOf(regs[t]) \ GeomsOf(plcs[t])
      /\ Accepted(t) \subseteq GeomsOf(registry) \cup GeomsOf(regs[t])
  BY DEF InsertPlace, RegistryInv, WellTyped, WellFormed, InStatement,
         LegsAgree, AcceptedResolves, Visible
<1>2. /\ \A x \in plcs[t] : x.coll = job[t].coll /\ x.geom \in GeomsOf(regs[t])
      /\ \A x \in regs[t] : /\ x.coll = job[t].coll
                            /\ x.geom \in GeomsOf(plcs[t]) \/ x.geom = Geom(t)
  BY <1>1 DEF RegistryInv, LegsAgree
<1>4. CASE Reject(t, "external_id_conflict", {RegistryRow(t)})
  BY <1>1, <1>4, PlaceAbortSound DEF Outcomes
<1>5. CASE /\ Report(t, "accepted")
           /\ plcs' = [plcs EXCEPT ![t] = @ \cup {PlaceRow(t)}]
           /\ UNCHANGED <<regs, binds>>
  <2> DEFINE p == plcs[t] \cup {PlaceRow(t)}
  <2>0. PlaceRow(t).geom = Geom(t)
    BY DEF PlaceRow
  <2>1. /\ Report(t, "accepted")
        /\ regs' = [regs EXCEPT ![t] = regs[t]] /\ plcs' = [plcs EXCEPT ![t] = p]
    BY <1>1, <1>5 DEF WellTyped, TypeOK
  <2>2. GeomsOf(p) = GeomsOf(plcs[t]) \cup {Geom(t)}
    BY <2>0 DEF GeomsOf
  <2>3. \A x \in p : x.coll = job[t].coll /\ x.geom \in GeomsOf(regs[t])
    BY <1>1, <1>2 DEF PlaceRow
  <2>4. \A x \in regs[t] : x.coll = job[t].coll /\ x.geom \in GeomsOf(p)
    BY <1>2, <2>2
  <2>5. "accepted" \in Outcomes
    BY DEF Outcomes
  <2> HIDE DEF p
  <2>6. GeomsOf(regs[t]) \subseteq GeomsOf(regs[t])
    OBVIOUS
  <2> QED BY <1>1, <2>1, <2>3, <2>4, <2>5, <2>6, ReportSound
<1> QED BY <1>4, <1>5 DEF InsertPlace

LEMMA CommitSound ==
  ASSUME RegistryInv, WellTyped', NEW t \in Requests, Commit(t)
  PROVE  RegistryInv'
<1>1. /\ pc[t] = "answered" /\ UNCHANGED <<job, stmt, report, answer>> /\ WellTyped
      /\ registry' = registry \cup regs[t] /\ place' = place \cup plcs[t]
      /\ pc' = [pc EXCEPT ![t] = "kept"]
      /\ regs' = [regs EXCEPT ![t] = {}] /\ plcs' = [plcs EXCEPT ![t] = {}]
  BY DEF Commit, RollBack, RegistryInv
<1>2. /\ \A x \in plcs[t] : x.coll = job[t].coll /\ x.geom \in GeomsOf(regs[t])
      /\ \A x \in regs[t] : x.coll = job[t].coll /\ x.geom \in GeomsOf(plcs[t])
  BY <1>1, RowsComplete
<1>3. \A x \in registry \cup regs[t] : x = [geom |-> x.geom, coll |-> x.coll]
  BY <1>1 DEF WellTyped, TypeOK, RegistryRows
<1>4. GeomsOf(registry') = GeomsOf(registry) \cup GeomsOf(regs[t])
  BY <1>1 DEF GeomsOf
<1>5. GeoidUnique'
  <2>1. \A x, y \in regs[t] : x.geom = y.geom => x = y
    BY <1>2, <1>3
  <2>2. \A x \in regs[t], y \in registry : x.geom # y.geom
    BY DEF RegistryInv, GeomsExclusive, GeomsOf
  <2> QED BY <1>1, <2>1, <2>2 DEF RegistryInv, GeoidUnique
<1>6. NoOrphanRows'
  <2>1. regs[t] = {[geom |-> x.geom, coll |-> x.coll] : x \in plcs[t]}
    BY <1>2, <1>3 DEF GeomsOf
  <2>2. registry = {[geom |-> x.geom, coll |-> x.coll] : x \in place}
    BY DEF RegistryInv, NoOrphanRows
  <2> QED BY <1>1, <2>1, <2>2 DEF NoOrphanRows
<1>7. ASSUME NEW u \in Requests
      PROVE  /\ GeomsOf(regs'[u]) = IF u = t THEN {} ELSE GeomsOf(regs[u])
             /\ plcs'[u] = IF u = t THEN {} ELSE plcs[u]
             /\ pc'[u] = IF u = t THEN "kept" ELSE pc[u]
             /\ Accepted(u)' = Accepted(u) /\ Geom(u)' = Geom(u)
             /\ MoreFeatures(u)' = MoreFeatures(u)
             /\ Visible(u) \subseteq Visible(u)'
  <2>1. GeomsOf(regs'[u]) = IF u = t THEN {} ELSE GeomsOf(regs[u])
    BY <1>1 DEF WellTyped, TypeOK, GeomsOf
  <2>2. Visible(u)' = GeomsOf(registry') \cup GeomsOf(regs'[u])
    BY DEF Visible, GeomsOf
  <2>3. Visible(u) \subseteq Visible(u)'
    BY <1>4, <2>1, <2>2 DEF Visible
  <2> QED BY <1>1, <2>1, <2>3 DEF WellTyped, TypeOK, Accepted, Geom, Feature, MoreFeatures
<1>8. GeomsExclusive'
  <2> SUFFICES ASSUME NEW a \in Requests
               PROVE  /\ GeomsOf(regs'[a]) \cap GeomsOf(registry') = {}
                      /\ \A b \in Requests \ {a} : GeomsOf(regs'[a]) \cap GeomsOf(regs'[b]) = {}
    BY DEF GeomsExclusive, GeomsOf
  <2> QED BY <1>4, <1>7 DEF RegistryInv, GeomsExclusive
<1>9. AcceptedResolves'
  <2> SUFFICES ASSUME NEW u \in Requests, pc'[u] # "lost" PROVE Accepted(u)' \subseteq Visible(u)'
    BY DEF AcceptedResolves
  <2> QED BY <1>1, <1>7 DEF RegistryInv, AcceptedResolves
<1>10. ASSUME NEW u \in Requests PROVE LegsAgree(u)' /\ StatementSound(u)' /\ RetrySound(u)'
  <2>1. CASE u = t
    <3>1. /\ pc'[t] = "kept" /\ regs'[t] = {} /\ plcs'[t] = {}
          /\ stmt' = stmt /\ answer' = answer
      BY <1>1 DEF WellTyped, TypeOK
    <3>2. LegsAgree(t)'
      BY <3>1 DEF LegsAgree
    <3>3. stmt[t].seen \subseteq Visible(t)' /\ answer[t] # "drift"
      BY <1>7 DEF RegistryInv, StatementSound
    <3>4. StatementSound(t)'
      BY <3>1, <3>3 DEF StatementSound
    <3>5. RetrySound(t)'
      BY <1>1, <3>1 DEF RegistryInv, RetrySound
    <3> QED BY <2>1, <3>2, <3>4, <3>5
  <2>2. CASE u # t
    <3>1. regs'[u] = regs[u] /\ plcs'[u] = plcs[u] /\ pc'[u] = pc[u]
      BY <1>1, <2>2 DEF WellTyped, TypeOK
    <3>2. LegsAgree(u)'
      BY <1>1, <1>7, <3>1 DEF RegistryInv, LegsAgree, GeomsOf
    <3>3. StatementSound(u)'
      BY <1>1, <1>7, <3>1 DEF RegistryInv, StatementSound, GeomsOf
    <3>4. RetrySound(u)'
      BY <1>1, <1>4, <1>7, <3>1 DEF RegistryInv, RetrySound, GeomsOf
    <3> QED BY <3>2, <3>3, <3>4
  <2> QED BY <2>1, <2>2
<1> QED BY <1>5, <1>6, <1>8, <1>9, <1>10 DEF RegistryInv

LEMMA HandleSound ==
  ASSUME RegistryInv, WellTyped', NEW t \in Requests, Handle(t)
  PROVE  RegistryInv'
<1> USE DEF Outcomes, Answers
<1>0. /\ WellTyped /\ answer[t] # "drift" /\ stmt[t].seen \subseteq Visible(t)
      /\ RetrySound(t) /\ Len(report[t]) \in Nat
      /\ pc[t] \in InStatement => MoreFeatures(t)
      /\ pc[t] \in Idle => regs[t] = {} /\ plcs[t] = {}
  BY JobShape DEF RegistryInv, StatementSound, WellTyped, WellFormed, LegsAgree
<1>1. CASE RefuseMalformed(t)
  BY <1>1, FailSound DEF RefuseMalformed
<1>2. CASE Authorize(t)
  <2>1. CASE CanWrite(job[t])
    <3>1. ~stmt[t].retried
      BY <1>0, <1>2 DEF Authorize, RetrySound
    <3>2. stmt' = [stmt EXCEPT ![t] = stmt[t]]
      BY <1>0, <1>2, <2>1 DEF Authorize, WellTyped, TypeOK
    <3>3. /\ pc[t] = "new" /\ pc' = [pc EXCEPT ![t] = "next"]
          /\ UNCHANGED <<dbVars, job, regs, plcs, report, answer>>
      BY <1>2, <2>1 DEF Authorize
    <3> QED BY <1>0, <3>1, <3>2, <3>3, QuietSound DEF Idle
  <2>2. CASE ~CanWrite(job[t])
    BY <1>2, <2>2, FailSound DEF Authorize
  <2> QED BY <2>1, <2>2
<1>3. CASE RejectSchema(t)
  BY <1>3, PlainReportSound DEF RejectSchema
<1>4. CASE BeginInsert(t)
  <2> DEFINE s == [stmt[t] EXCEPT !.seen = Visible(t)]
  <2>1. s.seen = Visible(t) /\ s.retried = stmt[t].retried
    BY <1>0 DEF WellTyped, TypeOK, Statements
  <2>2. /\ pc[t] = "next" /\ pc' = [pc EXCEPT ![t] = "arbiter"]
        /\ stmt' = [stmt EXCEPT ![t] = s]
        /\ UNCHANGED <<dbVars, job, regs, plcs, report, answer>>
    BY <1>4 DEF BeginInsert, txVars
  <2>3. s.retried => MoreFeatures(t) /\ Geom(t) \in GeomsOf(registry)
    BY <1>0, <2>1 DEF RetrySound
  <2> HIDE DEF s
  <2> QED BY <1>0, <2>1, <2>2, <2>3, QuietSound DEF Idle
<1>5. CASE RejectGeometry(t)
  BY <1>5, RejectSound DEF RejectGeometry
<1>6. CASE FailOnNul(t)
  BY <1>6, FailSound DEF FailOnNul
<1>7. CASE Arbitrate(t)
  BY <1>7, ArbitrateSound
<1>8. CASE InsertRegistry(t)
  BY <1>8, InsertRegistrySound
<1>9. CASE InsertPlace(t)
  BY <1>9, InsertPlaceSound
<1>13. CASE RejectPlace(t)
  BY <1>13, PlaceAbortSound DEF RejectPlace
<1>10. CASE ResolveIncumbent(t)
  <2>1. Geom(t) \in Visible(t) /\ pc[t] = "resolve" /\ MoreFeatures(t)
    BY <1>0, <1>10 DEF ResolveIncumbent, RegistryInv, StatementSound, InStatement
  <2> QED BY <1>10, <2>1, PlainReportSound DEF ResolveIncumbent, dbVars, txVars
<1>11. CASE Respond(t)
  <2>1. ~stmt[t].retried
    BY <1>0, <1>11 DEF Respond, RetrySound
  <2>2. stmt' = [stmt EXCEPT ![t] = stmt[t]]
    BY <1>0, <1>11 DEF Respond, WellTyped, TypeOK
  <2>3. /\ pc[t] = "next" /\ pc' = [pc EXCEPT ![t] = "answered"]
        /\ UNCHANGED <<dbVars, job, regs, plcs, report>>
        /\ answer'[t] # "drift"
        /\ \A u \in Requests \ {t} : answer'[u] = answer[u]
    BY <1>0, <1>11 DEF Respond, txVars, WellTyped, TypeOK
  <2> QED BY <1>0, <2>1, <2>2, <2>3, QuietSound DEF Idle
<1>12. CASE Commit(t)
  BY <1>12, CommitSound
<1> QED
  BY <1>1, <1>2, <1>3, <1>4, <1>5, <1>6, <1>7, <1>8, <1>9, <1>10, <1>11, <1>12,
     <1>13 DEF Handle

LEMMA RegistryStep == RegistryInv /\ [Next]_vars => RegistryInv'
<1> SUFFICES ASSUME RegistryInv, [Next]_vars PROVE RegistryInv'
  OBVIOUS
<1>0. WellTyped'
  BY TypedStep DEF RegistryInv
<1>1. ASSUME NEW t \in Requests, Handle(t) PROVE RegistryInv'
  BY <1>0, <1>1, HandleSound
<1>2. ASSUME NEW t \in Requests, Crash(t) PROVE RegistryInv'
  <2>1. /\ answer[t] \in Answers \ {"drift"}
        /\ answer' = [answer EXCEPT ![t] = answer[t]]
    BY <1>2 DEF Crash, RegistryInv, WellTyped, TypeOK, StatementSound
  <2> QED BY <1>0, <1>2, <2>1, GoneSound DEF Crash
<1>3. ASSUME NEW t \in Requests, StatementTimeout(t) \/ DeadlockDetected(t) PROVE RegistryInv'
  BY <1>0, <1>3, FailSound DEF StatementTimeout, DeadlockDetected, Answers
<1>4. ASSUME UNCHANGED vars PROVE RegistryInv'
  <2>1. \A t \in Requests : /\ Accepted(t)' = Accepted(t) /\ Visible(t)' = Visible(t)
                            /\ Geom(t)' = Geom(t) /\ MoreFeatures(t)' = MoreFeatures(t)
    BY <1>4 DEF vars, dbVars, txVars, Accepted, Visible, Geom, Feature, MoreFeatures, GeomsOf
  <2>2. /\ registry' = registry /\ place' = place /\ regs' = regs /\ plcs' = plcs
        /\ job' = job /\ pc' = pc /\ stmt' = stmt /\ answer' = answer
    BY <1>4 DEF vars, dbVars, txVars
  <2>3. (GeoidUnique /\ NoOrphanRows /\ GeomsExclusive)'
    BY <2>2 DEF RegistryInv, GeoidUnique, NoOrphanRows, GeomsExclusive, GeomsOf
  <2>4. AcceptedResolves'
    BY <2>1, <2>2 DEF RegistryInv, AcceptedResolves
  <2>5. ASSUME NEW t \in Requests
        PROVE  (LegsAgree(t) /\ StatementSound(t) /\ RetrySound(t))'
    <3>1. LegsAgree(t)'
      BY <2>1, <2>2 DEF RegistryInv, LegsAgree, GeomsOf
    <3>2. StatementSound(t)'
      BY <2>1, <2>2 DEF RegistryInv, StatementSound, GeomsOf
    <3>3. RetrySound(t)'
      BY <2>1, <2>2 DEF RegistryInv, RetrySound, GeomsOf
    <3> QED BY <3>1, <3>2, <3>3
  <2> QED BY <1>0, <2>3, <2>4, <2>5 DEF RegistryInv
<1> QED BY <1>1, <1>2, <1>3, <1>4 DEF Next, Quiescent

LEMMA RegistryInit == Init => RegistryInv
<1> SUFFICES ASSUME Init PROVE RegistryInv
  OBVIOUS
<1>1. ASSUME NEW t \in Requests PROVE Accepted(t) = {}
  <2>1. report[t] = <<>>
    BY DEF Init
  <2>2. DOMAIN report[t] = {}
    BY <2>1
  <2> QED BY <2>2 DEF Accepted
<1> QED BY <1>1, TypedInit
  DEF Init, RegistryInv, GeoidUnique, NoOrphanRows, AcceptedResolves, GeomsExclusive,
      LegsAgree, StatementSound, RetrySound, GeomsOf, NoStatement

LEMMA RegistrySafe == Spec => []RegistryInv
BY RegistryInit, RegistryStep, PTL DEF Spec

(* One geometry has one registry row, whatever requests mint it at once:   *)
(* the arbiter and the primary key together let no second one through.     *)
THEOREM OneGeoidPerGeometry == Spec => []GeoidUnique
<1>1. RegistryInv => GeoidUnique
  BY DEF RegistryInv
<1> QED BY <1>1, RegistrySafe, PTL

(* Registry and place rows are committed in pairs, also when an insert of  *)
(* a batch aborts between its two legs.                                    *)
THEOREM RowsInPairs == Spec => []NoOrphanRows
<1>1. RegistryInv => NoOrphanRows
  BY DEF RegistryInv
<1> QED BY <1>1, RegistrySafe, PTL

(* A geoid a kept request reported is registered, and a dedup loser never  *)
(* reports a winner that can still roll back.                              *)
THEOREM ReportsResolve == Spec => []AcceptedResolves
<1>1. RegistryInv => AcceptedResolves
  BY DEF RegistryInv
<1> QED BY <1>1, RegistrySafe, PTL

(* The drift guard never turns a race into a 500. *)
THEOREM NoDriftFromRaces == Spec => []NoSpuriousDrift
<1>1. RegistryInv => NoSpuriousDrift
  BY DEF RegistryInv, StatementSound, NoSpuriousDrift
<1> QED BY <1>1, RegistrySafe, PTL

(* One retry is enough after a lost registry race. *)
THEOREM RetryFindsWinner == Spec => []OneRetrySuffices
<1>1. RegistryInv => OneRetrySuffices
  BY DEF RegistryInv, RetrySound, OneRetrySuffices
<1> QED BY <1>1, RegistrySafe, PTL
=============================================================================
