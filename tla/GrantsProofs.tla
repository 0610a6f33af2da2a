---------------------------- MODULE GrantsProofs ----------------------------
(* Proofs about CollectionGrants, for any emails, subjects and requests.   *)
EXTENDS GrantsInvariant, FiniteSetTheorems, TLAPS

PartialTables == UNION {[E -> Rows] : E \in SUBSET Emails}

(* What a transaction has written, and what it reads. *)
LEMMA WritesShape ==
  ASSUME TypeOK, NEW t \in Requests
  PROVE  /\ DOMAIN writes[t] \subseteq Emails
         /\ \A e \in DOMAIN writes[t] : writes[t][e] \in Rows
         /\ Table(t) \in [Emails -> Rows]
<1>1. writes[t] \in PartialTables
  BY DEF TypeOK, PartialTables
<1>2. PICK E \in SUBSET Emails : writes[t] \in [E -> Rows]
  BY <1>1 DEF PartialTables
<1> QED BY <1>2 DEF Table, TypeOK

LEMMA WriteTyped ==
  ASSUME TypeOK, NEW t \in Requests, NEW e \in Emails, NEW row \in Rows, Write(t, e, row)
  PROVE  /\ writes' \in [Requests -> PartialTables]
         /\ DOMAIN writes'[t] = DOMAIN writes[t] \cup {e}
         /\ \A x \in DOMAIN writes'[t] : writes'[t][x] = IF x = e THEN row ELSE writes[t][x]
         /\ \A u \in Requests \ {t} : writes'[u] = writes[u]
<1> DEFINE w == [x \in DOMAIN writes[t] \cup {e} |-> IF x = e THEN row ELSE writes[t][x]]
<1>1. w \in [DOMAIN writes[t] \cup {e} -> Rows] /\ DOMAIN writes[t] \cup {e} \in SUBSET Emails
  BY WritesShape
<1>2. w \in PartialTables
  BY <1>1 DEF PartialTables
<1>3. writes \in [Requests -> PartialTables] /\ writes' = [writes EXCEPT ![t] = w]
  BY DEF TypeOK, PartialTables, Write
<1>4. /\ DOMAIN w = DOMAIN writes[t] \cup {e}
      /\ \A x \in DOMAIN w : w[x] = IF x = e THEN row ELSE writes[t][x]
  OBVIOUS
<1> HIDE DEF w
<1> QED BY <1>2, <1>3, <1>4

LEMMA FailTyped ==
  ASSUME TypeOK, NEW t \in Requests, NEW code \in Answers, Fail(t, code)
  PROVE  TypeOK'
<1>1. <<>> \in PartialTables
  <2>1. <<>> \in [{} -> Rows] /\ {} \in SUBSET Emails
    OBVIOUS
  <2> QED BY <2>1 DEF PartialTables
<1>2. writes' \in [Requests -> PartialTables]
  BY <1>1 DEF Fail, TypeOK, PartialTables
<1> QED BY <1>2 DEF Fail, TypeOK, Phases, PartialTables

LEMMA JobShape ==
  ASSUME TypeOK, NEW t \in Requests
  PROVE  /\ job[t].kind \in Kinds /\ job[t].admin \in BOOLEAN /\ job[t].email \in Emails
         /\ job[t].sub \in Subjects /\ job[t].target \in Emails /\ job[t].role \in Roles
<1>1. job[t] \in [kind : Kinds, admin : BOOLEAN, email : Emails, sub : Subjects,
                  target : Emails, role : Roles]
  BY JobAssumption DEF TypeOK
<1> QED BY <1>1

LEMMA TypedStep == TypeOK /\ [Next]_vars => TypeOK'
<1> SUFFICES ASSUME TypeOK, [Next]_vars PROVE TypeOK'
  OBVIOUS
<1> USE DEF Phases, Answers
<1>1. ASSUME NEW t \in Requests, Handle(t) PROVE TypeOK'
  <2>0. /\ job[t].email \in Emails /\ job[t].sub \in Subjects
        /\ job[t].target \in Emails /\ job[t].role \in Roles
        /\ Table(t) \in [Emails -> Rows]
    BY JobShape, WritesShape
  <2>1. CASE LoadCallerGrant(t)
    <3>1. grants[job[t].email].role \in Roles \cup {"none"}
      BY <2>0 DEF TypeOK, Rows
    <3> QED BY <2>1, <3>1 DEF LoadCallerGrant, TypeOK
  <2>2. CASE BackfillSubject(t)
    <3> DEFINE row == [grants[job[t].email] EXCEPT !.sub = job[t].sub]
    <3>1. row \in Rows
      BY <2>0 DEF TypeOK, Rows
    <3>2. writes' \in [Requests -> PartialTables]
      BY <2>0, <2>2, <3>1, WriteTyped DEF BackfillSubject, TypeOK, PartialTables
    <3> QED BY <2>2, <3>2 DEF BackfillSubject, TypeOK, PartialTables
  <2>3. CASE Mint(t) \/ Read(t) \/ GrantOwner(t)
    BY <2>3 DEF Mint, Read, GrantOwner, TypeOK
  <2>4. CASE Refuse(t)
    BY <2>4, FailTyped DEF Refuse
  <2>5. CASE ReadTarget(t)
    <3>1. CASE Fail(t, "notfound")
      BY <3>1, FailTyped
    <3>2. CASE ~Fail(t, "notfound")
      BY <2>5, <3>2 DEF ReadTarget, TypeOK
    <3> QED BY <3>1, <3>2
  <2>6. CASE CountOwners(t)
    <3>1. CASE Fail(t, "lastowner")
      BY <3>1, FailTyped
    <3>2. CASE ~Fail(t, "lastowner")
      BY <2>6, <3>2 DEF CountOwners, TypeOK
    <3> QED BY <3>1, <3>2
  <2>7. CASE UpsertGrant(t)
    <3> DEFINE row == [Table(t)[job[t].target] EXCEPT !.role = job[t].role]
    <3>1. row \in Rows
      BY <2>0 DEF Rows
    <3>2. writes' \in [Requests -> PartialTables]
      BY <2>0, <2>7, <3>1, WriteTyped DEF UpsertGrant
    <3> QED BY <2>7, <3>2 DEF UpsertGrant, Answer, TypeOK, PartialTables
  <2>8. CASE DeleteGrant(t)
    <3>1. CASE Fail(t, "notfound")
      BY <3>1, FailTyped
    <3>2. CASE Write(t, job[t].target, NoRow) /\ Answer(t)
      <4>1. NoRow \in Rows
        BY DEF NoRow, Rows
      <4>2. writes' \in [Requests -> PartialTables]
        BY <2>0, <3>2, <4>1, WriteTyped
      <4> QED BY <3>2, <4>2 DEF Answer, TypeOK, PartialTables
    <3> QED BY <2>8, <3>1, <3>2 DEF DeleteGrant
  <2>9. CASE Commit(t)
    <3>1. <<>> \in PartialTables
      <4>1. <<>> \in [{} -> Rows] /\ {} \in SUBSET Emails
        OBVIOUS
      <4> QED BY <4>1 DEF PartialTables
    <3>2. writes' \in [Requests -> PartialTables]
      BY <2>9, <3>1 DEF Commit, TypeOK, PartialTables
    <3> QED BY <2>0, <2>9, <3>2 DEF Commit, TypeOK, PartialTables
  <2> QED BY <1>1, <2>1, <2>2, <2>3, <2>4, <2>5, <2>6, <2>7, <2>8, <2>9 DEF Handle
<1>2. ASSUME NEW t \in Requests, Crash(t) \/ StatementTimeout(t) \/ DeadlockDetected(t)
      PROVE  TypeOK'
  <2>1. answer[t] \in Answers
    BY DEF TypeOK
  <2> QED BY <1>2, <2>1, FailTyped DEF Crash, StatementTimeout, DeadlockDetected
<1>3. ASSUME UNCHANGED vars PROVE TypeOK'
  BY <1>3 DEF vars, TypeOK
<1> QED BY <1>1, <1>2, <1>3 DEF Next, Quiescent

LEMMA TypedInit == Init => TypeOK
<1> SUFFICES ASSUME Init PROVE TypeOK
  OBVIOUS
<1>1. <<>> \in PartialTables
  <2>1. <<>> \in [{} -> Rows] /\ {} \in SUBSET Emails
    OBVIOUS
  <2> QED BY <2>1 DEF PartialTables
<1>2. writes \in [Requests -> PartialTables]
  BY <1>1 DEF Init
<1> QED BY <1>2, TableAssumption DEF Init, TypeOK, PartialTables, Phases, Answers

(* Every reachable state has its type. *)
THEOREM GrantsTypeCorrect == Spec => []TypeOK
BY TypedInit, TypedStep, PTL DEF Spec

-----------------------------------------------------------------------------
(* The invariant *)

(* A step of t disturbs no other request: what it commits are rows that no *)
(* other request has written.                                              *)
LEMMA LocalStep ==
  ASSUME IInv, TypeOK', NEW t \in Requests, job' = job,
         \A u \in Requests \ {t} : pc'[u] = pc[u] /\ writes'[u] = writes[u],
         \A e \in Emails \ DOMAIN writes[t] : grants'[e] = grants[e],
         \A e \in Emails : grants'[e].role = "none" => grants'[e] = NoRow,
         \A u \in Requests \ {t} : DOMAIN writes'[t] \cap DOMAIN writes[u] = {},
         WriteSound(t)', PhaseSound(t)'
  PROVE  IInv'
<1>1. RowsExclusive'
  BY DEF IInv, RowsExclusive
<1>2. ASSUME NEW u \in Requests, u # t PROVE WriteSound(u)' /\ PhaseSound(u)'
  <2>1. \A e \in DOMAIN writes[u] : grants'[e] = grants[e]
    BY <1>2, WritesShape DEF IInv, RowsExclusive
  <2>2. WriteSound(u) /\ PhaseSound(u) /\ pc'[u] = pc[u] /\ writes'[u] = writes[u]
    BY <1>2 DEF IInv
  <2>3. WriteSound(u)'
    BY <2>1, <2>2 DEF WriteSound
  <2>4. PhaseSound(u)'
    BY <2>1, <2>2 DEF PhaseSound
  <2> QED BY <2>3, <2>4
<1>3. \A e \in Emails : (grants[e].role = "none" => grants[e] = NoRow)'
  BY DEF NoRow
<1> QED BY <1>1, <1>2, <1>3 DEF IInv

LEMMA FailSound ==
  ASSUME IInv, TypeOK', NEW t \in Requests, NEW code, Fail(t, code)
  PROVE  IInv'
<1>1. /\ grants' = grants /\ job' = job
      /\ \A u \in Requests \ {t} : pc'[u] = pc[u] /\ writes'[u] = writes[u]
      /\ pc'[t] = "lost" /\ DOMAIN writes'[t] = {}
  BY DEF Fail, IInv, TypeOK
<1>2. WriteSound(t)' /\ PhaseSound(t)'
  BY <1>1 DEF WriteSound, PhaseSound
<1> QED BY <1>1, <1>2, LocalStep DEF IInv

(* A step that only moves t. *)
LEMMA MoveSound ==
  ASSUME IInv, TypeOK', NEW t \in Requests, NEW phase,
         pc' = [pc EXCEPT ![t] = phase], UNCHANGED <<grants, job, writes>>,
         phase \in {"loaded", "count", "write"} =>
           pc[t] \in {"new", "backfill", "loaded", "count", "write"},
         phase \in {"new", "backfill"} => pc[t] = "new",
         phase \notin Finished,
         phase = "count" /\ job[t].kind = "grant" => job[t].role # "owner",
         phase = "write" /\ job[t].kind = "grant" /\ job[t].role = "owner" => job[t].admin,
         phase = "answered" => job[t].kind # "revoke"
  PROVE  IInv'
<1>1. /\ \A u \in Requests \ {t} : pc'[u] = pc[u] /\ writes'[u] = writes[u]
      /\ pc'[t] = phase /\ writes'[t] = writes[t] /\ grants' = grants /\ job' = job
  BY DEF IInv, TypeOK
<1>2. WriteSound(t) /\ PhaseSound(t)
  BY DEF IInv
<1>3. WriteSound(t)'
  BY <1>1, <1>2 DEF WriteSound, PhaseSound
<1>4. PhaseSound(t)'
  BY <1>1, <1>2 DEF PhaseSound, Finished
<1> QED BY <1>1, <1>3, <1>4, LocalStep DEF IInv, RowsExclusive

LEMMA BackfillSound ==
  ASSUME IInv, TypeOK', NEW t \in Requests, BackfillSubject(t)
  PROVE  IInv'
<1> DEFINE e == job[t].email
           old == grants[e]
           new == [old EXCEPT !.sub = job[t].sub]
<1>0. e \in Emails /\ job[t].sub \in Subjects /\ old \in Rows /\ TypeOK
  BY JobShape DEF IInv, TypeOK
<1>1. CASE old.role # "none" /\ old.sub = NoSubject
  <2>1. new \in Rows /\ new.role = old.role
    BY <1>0 DEF Rows
  <2>2. /\ DOMAIN writes'[t] = DOMAIN writes[t] \cup {e}
        /\ \A x \in DOMAIN writes'[t] : writes'[t][x] = IF x = e THEN new ELSE writes[t][x]
        /\ \A u \in Requests \ {t} : writes'[u] = writes[u]
    BY <1>0, <1>1, <2>1, WriteTyped DEF BackfillSubject
  <2>3. DOMAIN writes[t] = {}
    BY DEF BackfillSubject, IInv, PhaseSound
  <2>4. /\ pc'[t] = "loaded" /\ \A u \in Requests \ {t} : pc'[u] = pc[u]
        /\ grants' = grants /\ job' = job
    BY <1>0 DEF BackfillSubject, TypeOK
  <2>5. \A u \in Requests \ {t} : e \notin DOMAIN writes[u]
    BY <1>1 DEF BackfillSubject, Blocked, HoldsRowOf
  <2> HIDE DEF new
  <2>6. WriteSound(t)'
    BY <1>1, <2>1, <2>2, <2>3, <2>4 DEF WriteSound
  <2>7. PhaseSound(t)'
    BY <2>4 DEF PhaseSound, Finished
  <2> QED BY <2>2, <2>3, <2>4, <2>5, <2>6, <2>7, LocalStep DEF IInv
<1>2. CASE ~(old.role # "none" /\ old.sub = NoSubject)
  <2>1. /\ pc' = [pc EXCEPT ![t] = "loaded"] /\ UNCHANGED <<grants, job, writes>>
        /\ pc[t] = "backfill"
    BY <1>2 DEF BackfillSubject
  <2> QED BY <2>1, MoveSound DEF Finished
<1> QED BY <1>1, <1>2

(* Up to its write, a transaction reads every role as it is committed. *)
LEMMA RolesAsCommitted ==
  ASSUME IInv, NEW t \in Requests, pc[t] \in {"loaded", "count", "write"}
  PROVE  \A e \in Emails : Table(t)[e].role = grants[e].role
BY DEF IInv, WriteSound, Table

LEMMA UpsertSound ==
  ASSUME IInv, TypeOK', NEW t \in Requests, UpsertGrant(t)
  PROVE  IInv'
<1> DEFINE e == job[t].target
           row == Table(t)[e]
           new == [row EXCEPT !.role = job[t].role]
<1>0. /\ e \in Emails /\ job[t].role \in Roles /\ row \in Rows /\ TypeOK
      /\ WriteSound(t) /\ PhaseSound(t)
  BY JobShape, WritesShape DEF IInv
<1>1. new \in Rows /\ new.role = job[t].role /\ new.sub = row.sub
  BY <1>0 DEF Rows
<1>2. /\ DOMAIN writes'[t] = DOMAIN writes[t] \cup {e}
      /\ \A x \in DOMAIN writes'[t] : writes'[t][x] = IF x = e THEN new ELSE writes[t][x]
      /\ \A u \in Requests \ {t} : writes'[u] = writes[u]
  BY <1>0, <1>1, WriteTyped DEF UpsertGrant
<1>3. /\ pc[t] = "write" /\ job[t].kind = "grant"
      /\ pc'[t] = "answered" /\ \A u \in Requests \ {t} : pc'[u] = pc[u]
      /\ grants' = grants /\ job' = job
  BY <1>0 DEF UpsertGrant, Answer, TypeOK
<1>4. \A u \in Requests \ {t} : e \notin DOMAIN writes[u]
  BY <1>3 DEF UpsertGrant, Blocked, HoldsRowOf
<1>5. IF grants[e].role = "none" THEN row.sub = NoSubject
                                 ELSE grants[e].sub = NoSubject \/ row.sub = grants[e].sub
  <2>1. CASE e \in DOMAIN writes[t]
    <3>1. row = writes[t][e]
      BY <1>0, <2>1 DEF Table
    <3> QED BY <1>0, <1>3, <2>1, <3>1 DEF WriteSound
  <2>2. CASE e \notin DOMAIN writes[t]
    <3>1. row = grants[e]
      BY <1>0, <2>2 DEF Table
    <3> QED BY <1>0, <3>1 DEF IInv, NoRow
  <2> QED BY <2>1, <2>2
<1>6. new.role # "none" /\ (new.role = "owner" => job[t].admin)
  BY <1>0, <1>1, <1>3 DEF Roles, PhaseSound
<1> HIDE DEF new, row
<1>7. WriteSound(t)'
  BY <1>0, <1>1, <1>2, <1>3, <1>5, <1>6 DEF WriteSound
<1>8. PhaseSound(t)'
  BY <1>3 DEF PhaseSound, Finished
<1> QED BY <1>2, <1>3, <1>4, <1>7, <1>8, LocalStep DEF IInv, RowsExclusive

LEMMA DeleteSound ==
  ASSUME IInv, TypeOK', NEW t \in Requests, DeleteGrant(t)
  PROVE  IInv'
<1> DEFINE e == job[t].target
<1>0. e \in Emails /\ TypeOK /\ WriteSound(t) /\ pc[t] = "write" /\ job[t].kind = "revoke"
  BY JobShape DEF IInv, DeleteGrant
<1>1. CASE Fail(t, "notfound")
  BY <1>1, FailSound
<1>2. CASE Table(t)[e].role # "none" /\ Write(t, e, NoRow) /\ Answer(t)
  <2>1. NoRow \in Rows /\ NoRow.role = "none"
    BY DEF NoRow, Rows
  <2>2. /\ DOMAIN writes'[t] = DOMAIN writes[t] \cup {e}
        /\ \A x \in DOMAIN writes'[t] : writes'[t][x] = IF x = e THEN NoRow ELSE writes[t][x]
        /\ \A u \in Requests \ {t} : writes'[u] = writes[u]
    BY <1>0, <1>2, <2>1, WriteTyped
  <2>3. /\ pc'[t] = "answered" /\ \A u \in Requests \ {t} : pc'[u] = pc[u]
        /\ grants' = grants /\ job' = job
    BY <1>0, <1>2 DEF Answer, TypeOK
  <2>4. grants[e].role # "none"
    BY <1>0, <1>2, RolesAsCommitted
  <2>5. \A u \in Requests \ {t} : e \notin DOMAIN writes[u]
    BY <1>0, <2>4 DEF DeleteGrant, Blocked, HoldsRowOf
  <2>6. WriteSound(t)'
    BY <1>0, <2>1, <2>2, <2>3 DEF WriteSound
  <2>7. PhaseSound(t)'
    BY <2>2, <2>3, <2>4 DEF PhaseSound, Finished
  <2> QED BY <2>2, <2>3, <2>5, <2>6, <2>7, LocalStep DEF IInv, RowsExclusive
<1> QED BY <1>1, <1>2 DEF DeleteGrant

LEMMA CommitSound ==
  ASSUME IInv, TypeOK', NEW t \in Requests, Commit(t)
  PROVE  IInv'
<1>0. TypeOK /\ WriteSound(t)
  BY DEF IInv
<1>1. /\ grants' = Table(t) /\ job' = job
      /\ pc'[t] = "kept" /\ DOMAIN writes'[t] = {}
      /\ \A u \in Requests \ {t} : pc'[u] = pc[u] /\ writes'[u] = writes[u]
  BY <1>0 DEF Commit, TypeOK
<1>2. \A e \in Emails \ DOMAIN writes[t] : grants'[e] = grants[e]
  BY <1>1 DEF Table
<1>3. \A e \in Emails : grants'[e].role = "none" => grants'[e] = NoRow
  BY <1>0, <1>1 DEF Table, IInv, WriteSound
<1>4. WriteSound(t)' /\ PhaseSound(t)'
  BY <1>1 DEF WriteSound, PhaseSound
<1> QED BY <1>1, <1>2, <1>3, <1>4, LocalStep

LEMMA InvariantStep == IInv /\ [Next]_vars => IInv'
<1> SUFFICES ASSUME IInv, [Next]_vars PROVE IInv'
  OBVIOUS
<1>0. TypeOK'
  BY TypedStep DEF IInv
<1>1. ASSUME NEW t \in Requests, Handle(t) PROVE IInv'
  <2> USE DEF Finished
  <2>1. CASE LoadCallerGrant(t)
    <3> DEFINE row == grants[job[t].email]
               honored == ~job[t].admin /\ row.role # "none" /\ row.sub \in {NoSubject, job[t].sub}
               phase == IF honored /\ row.sub = NoSubject THEN "backfill" ELSE "loaded"
    <3>1. /\ pc[t] = "new" /\ pc' = [pc EXCEPT ![t] = phase]
          /\ UNCHANGED <<grants, job, writes>> /\ phase \in {"backfill", "loaded"}
      BY <2>1 DEF LoadCallerGrant
    <3> HIDE DEF phase
    <3> QED BY <1>0, <3>1, MoveSound
  <2>2. CASE BackfillSubject(t)
    BY <1>0, <2>2, BackfillSound
  <2>3. CASE Mint(t) \/ Read(t)
    BY <1>0, <2>3, MoveSound DEF Mint, Read
  <2>4. CASE Refuse(t)
    BY <1>0, <2>4, FailSound DEF Refuse
  <2>5. CASE GrantOwner(t)
    BY <1>0, <2>5, MoveSound DEF GrantOwner
  <2>6. CASE ReadTarget(t)
    <3> DEFINE phase == IF Existing(t) = "owner" THEN "count" ELSE "write"
    <3>1. CASE Fail(t, "notfound")
      BY <1>0, <3>1, FailSound
    <3>2. CASE ~Fail(t, "notfound")
      <4>1. /\ pc[t] = "loaded" /\ pc' = [pc EXCEPT ![t] = phase]
            /\ UNCHANGED <<grants, job, writes>> /\ phase \in {"count", "write"}
            /\ job[t].kind = "grant" => job[t].role # "owner"
        BY <2>6, <3>2 DEF ReadTarget
      <4> HIDE DEF phase
      <4> QED BY <1>0, <4>1, MoveSound
    <3> QED BY <3>1, <3>2
  <2>7. CASE CountOwners(t)
    <3>1. CASE Fail(t, "lastowner")
      BY <1>0, <3>1, FailSound
    <3>2. CASE ~Fail(t, "lastowner")
      <4>1. /\ pc[t] = "count" /\ pc' = [pc EXCEPT ![t] = "write"]
            /\ UNCHANGED <<grants, job, writes>>
            /\ job[t].kind = "grant" => job[t].role # "owner"
        BY <2>7, <3>2 DEF CountOwners, IInv, PhaseSound
      <4> QED BY <1>0, <4>1, MoveSound
    <3> QED BY <3>1, <3>2
  <2>8. CASE UpsertGrant(t)
    BY <1>0, <2>8, UpsertSound
  <2>9. CASE DeleteGrant(t)
    BY <1>0, <2>9, DeleteSound
  <2>10. CASE Commit(t)
    BY <1>0, <2>10, CommitSound
  <2> QED BY <1>1, <2>1, <2>2, <2>3, <2>4, <2>5, <2>6, <2>7, <2>8, <2>9, <2>10 DEF Handle
<1>2. ASSUME NEW t \in Requests, Crash(t) \/ StatementTimeout(t) \/ DeadlockDetected(t)
      PROVE  IInv'
  BY <1>0, <1>2, FailSound DEF Crash, StatementTimeout, DeadlockDetected
<1>3. ASSUME UNCHANGED vars PROVE IInv'
  BY <1>0, <1>3 DEF vars, IInv, RowsExclusive, WriteSound, PhaseSound
<1> QED BY <1>1, <1>2, <1>3 DEF Next, Quiescent

LEMMA InvariantHolds == Spec => []IInv
<1>1. Init => IInv
  <2> SUFFICES ASSUME Init PROVE IInv
    OBVIOUS
  <2>1. \A t \in Requests : pc[t] = "new" /\ DOMAIN writes[t] = {}
    BY DEF Init
  <2>2. \A t \in Requests : WriteSound(t) /\ PhaseSound(t)
    BY <2>1 DEF WriteSound, PhaseSound
  <2>3. RowsExclusive
    BY <2>1 DEF RowsExclusive
  <2>4. \A e \in Emails : grants[e].role = "none" => grants[e] = NoRow
    BY TableAssumption DEF Init
  <2> QED BY <2>2, <2>3, <2>4, TypedInit DEF IInv
<1> QED BY <1>1, InvariantStep, PTL DEF Spec

-----------------------------------------------------------------------------
(* What a commit may change *)

(* Only a commit changes the table, and only where it has written. *)
LEMMA TableChange ==
  ASSUME IInv, [Next]_vars
  PROVE  \/ grants' = grants
         \/ \E t \in Requests :
              /\ Commit(t) /\ pc[t] # pc'[t]
              /\ \A e \in Emails :
                   grants'[e] = IF e \in DOMAIN writes[t] THEN writes[t][e] ELSE grants[e]
<1>1. ASSUME NEW t \in Requests, Handle(t), ~Commit(t) PROVE grants' = grants
  BY <1>1 DEF Handle, LoadCallerGrant, BackfillSubject, Mint, Read, Refuse, GrantOwner, ReadTarget,
              CountOwners, UpsertGrant, DeleteGrant, Answer, Fail
<1>2. ASSUME NEW t \in Requests, Commit(t)
      PROVE  /\ pc[t] # pc'[t]
             /\ \A e \in Emails :
                  grants'[e] = IF e \in DOMAIN writes[t] THEN writes[t][e] ELSE grants[e]
  <2>1. pc[t] = "answered" /\ pc'[t] = "kept"
    BY <1>2 DEF Commit, IInv, TypeOK
  <2> QED BY <1>2, <2>1 DEF Commit, Table
<1>3. ASSUME NEW t \in Requests, Crash(t) \/ StatementTimeout(t) \/ DeadlockDetected(t)
      PROVE  grants' = grants
  BY <1>3 DEF Crash, StatementTimeout, DeadlockDetected, Fail
<1>4. ASSUME UNCHANGED vars PROVE grants' = grants
  BY <1>4 DEF vars
<1> QED BY <1>1, <1>2, <1>3, <1>4 DEF Next, Quiescent

(* A recorded subject stays as long as its grant does, through changes of  *)
(* role and concurrent first accesses, and a grant that is given again     *)
(* starts without one (backfill_subject, upsert_grant).                    *)
THEOREM SubjectsStay == Spec => SubjectStays
<1>1. ASSUME IInv, [Next]_vars, NEW e \in Emails
      PROVE  /\ grants[e].role = "none" => grants'[e].sub = NoSubject
             /\ grants[e].sub # NoSubject /\ grants'[e].role # "none"
                  => grants'[e].sub = grants[e].sub
  <2>0. grants[e].role = "none" => grants[e].sub = NoSubject
    BY <1>1 DEF IInv, NoRow
  <2>1. CASE grants'[e] = grants[e]
    BY <2>0, <2>1
  <2>2. CASE grants'[e] # grants[e]
    <3>1. PICK t \in Requests : e \in DOMAIN writes[t] /\ grants'[e] = writes[t][e]
      BY <1>1, <2>2, TableChange
    <3>2. WriteSound(t)
      BY <1>1 DEF IInv
    <3>3. CASE grants'[e].role = "none"
      <4>1. grants'[e].sub = NoSubject
        BY <3>1, <3>2, <3>3 DEF WriteSound, NoRow
      <4> QED BY <3>3, <4>1
    <3>4. CASE grants'[e].role # "none"
      <4>1. writes[t][e].role # "none" =>
              IF grants[e].role = "none"
              THEN writes[t][e].sub = NoSubject
              ELSE grants[e].sub = NoSubject \/ writes[t][e].sub = grants[e].sub
        BY <3>1, <3>2 DEF WriteSound
      <4> QED BY <2>0, <3>1, <3>4, <4>1
    <3> QED BY <3>3, <3>4
  <2> QED BY <2>1, <2>2
<1>2. IInv /\ [Next]_vars =>
        \A e \in Emails :
          /\ grants[e].role = "none" => grants'[e].sub = NoSubject
          /\ grants[e].sub # NoSubject /\ grants'[e].role # "none"
               => grants'[e].sub = grants[e].sub
  BY <1>1
<1> QED BY <1>2, InvariantHolds, PTL DEF Spec, SubjectStays

(* Only a sysadmin makes an owner, also through a change of role that      *)
(* waits for another one (create_grant).                                   *)
THEOREM OwnersComeFromSysadmins == Spec => OnlySysadminMakesOwners
<1>1. ASSUME IInv, [Next]_vars, NEW e \in Owners(grants') \ Owners(grants)
      PROVE  \E t \in Requests : pc[t] # pc'[t] /\ job[t].admin /\ job[t].target = e
  <2>1. e \in Emails /\ grants'[e].role = "owner" /\ grants[e].role # "owner"
    BY <1>1 DEF Owners
  <2>2. PICK t \in Requests : pc[t] # pc'[t] /\ e \in DOMAIN writes[t] /\ grants'[e] = writes[t][e]
    BY <1>1, <2>1, TableChange
  <2> QED BY <1>1, <2>1, <2>2 DEF IInv, WriteSound
<1>2. IInv /\ [Next]_vars =>
        \A e \in Owners(grants') \ Owners(grants) :
          \E t \in Requests : pc[t] # pc'[t] /\ job[t].admin /\ job[t].target = e
  BY <1>1
<1> QED BY <1>2, InvariantHolds, PTL DEF Spec, OnlySysadminMakesOwners

(* What is kept has been committed. *)
LEMMA KeptByCommit ==
  ASSUME IInv, [Next]_vars, NEW t \in Requests, pc[t] = "answered", pc'[t] = "kept"
  PROVE  Commit(t)
<1>0. TypeOK
  BY DEF IInv
<1>1. \A u \in Requests \ {t} :
        Handle(u) \/ Crash(u) \/ StatementTimeout(u) \/ DeadlockDetected(u) => pc'[t] = pc[t]
  BY <1>0 DEF TypeOK, Handle, LoadCallerGrant, BackfillSubject, Mint, Read, Refuse, GrantOwner,
     ReadTarget, CountOwners, UpsertGrant, DeleteGrant, Answer, Fail, Commit,
     Crash, StatementTimeout, DeadlockDetected
<1>2. ~Crash(t) /\ ~StatementTimeout(t) /\ ~DeadlockDetected(t)
  BY <1>0 DEF TypeOK, Crash, StatementTimeout, DeadlockDetected, Fail
<1>3. Handle(t)
  BY <1>1, <1>2 DEF Next, Quiescent, vars
<1> QED
  BY <1>3 DEF Handle, LoadCallerGrant, BackfillSubject, Mint, Read, Refuse, GrantOwner,
     ReadTarget, CountOwners, UpsertGrant, DeleteGrant

(* Each 204 of a revocation took a grant away: of two that overlap, one is *)
(* a 404 (delete_grant's rowcount).                                        *)
THEOREM RevocationsRemove == Spec => RevokeRemovesOne
<1>1. ASSUME IInv, [Next]_vars, NEW t \in Requests,
             pc[t] = "answered", pc'[t] = "kept", job[t].kind = "revoke"
      PROVE  grants[job[t].target].role # "none" /\ grants'[job[t].target].role = "none"
  <2>0. TypeOK /\ PhaseSound(t)
    BY <1>1 DEF IInv
  <2>1. Commit(t)
    BY <1>1, KeptByCommit
  <2>2. job[t].target \in Emails
    BY <2>0, JobShape
  <2> QED BY <1>1, <2>0, <2>1, <2>2 DEF Commit, Table, PhaseSound, NoRow
<1>2. IInv /\ [Next]_vars =>
        \A t \in Requests :
          pc[t] = "answered" /\ pc'[t] = "kept" /\ job[t].kind = "revoke" =>
            /\ grants[job[t].target].role # "none"
            /\ grants'[job[t].target].role = "none"
  BY <1>1
<1> QED BY <1>2, InvariantHolds, PTL DEF Spec, RevokeRemovesOne

-----------------------------------------------------------------------------
(* What overlaps can do, and what they cannot: the history variables *)

LEMMA HistoryRefines == HSpec => Spec
<1>1. HInit => Init
  BY DEF HInit
<1>2. [HNext]_hvars => [Next]_vars
  BY DEF HNext, hvars, vars
<1> QED BY <1>1, <1>2, PTL DEF HSpec, Spec

(* A request that does not move keeps what it knows: if it has not been    *)
(* overtaken, neither the owners nor the holder of its grant are others.   *)
LEMMA OtherStep ==
  ASSUME IInv, HInv, Remember, job' = job, NEW u \in Requests,
         pc'[u] = pc[u], mine'[u] = mine[u], writes'[u] = writes[u]
  PROVE  GuardHolds(u)' /\ HeldByCaller(u)'
<1>0. GuardHolds(u) /\ HeldByCaller(u) /\ job[u].email \in Emails
  BY JobShape DEF HInv, IInv
<1>1. GuardHolds(u)'
  <2> SUFFICES ASSUME ~ownersMoved'[u], pc[u] \in {"write", "answered"}
               PROVE  /\ pc[u] = "write" => SpareOwner(u)'
                      /\ pc[u] = "answered" /\ Owners(grants') # {} => Owners(Table(u))' # {}
    BY DEF GuardHolds, Owners
  <2>1. Decided(u) /\ Decided(u)'
    BY DEF Decided
  <2>2. ownersMoved'[u] = (ownersMoved[u] \/ Owners(grants') # Owners(grants))
    BY <2>1 DEF Remember
  <2>3. ~ownersMoved[u] /\ Owners(grants') = Owners(grants)
    BY <2>2
  <2>4. SpareOwner(u) => SpareOwner(u)'
    BY <2>3 DEF SpareOwner, Owners
  <2>5. \A e \in Emails : Table(u)'[e].role = "owner" <=> Table(u)[e].role = "owner"
    BY <2>3 DEF Table, Owners
  <2>6. Owners(Table(u))' = Owners(Table(u))
    BY <2>5 DEF Owners
  <2> QED BY <1>0, <2>3, <2>4, <2>6 DEF GuardHolds
<1>2. HeldByCaller(u)'
  <2> DEFINE e == job[u].email
  <2>0. e \in Emails /\ e' = e
    BY <1>0
  <2> SUFFICES ASSUME mine[u] # "none", ~grantMoved'[u],
                      pc[u] \in {"backfill", "loaded", "count", "write", "answered"}
               PROVE  HeldByCaller(u)'
    BY DEF HeldByCaller
  <2>1. UnderWay(u) /\ UnderWay(u)'
    BY DEF UnderWay, Finished
  <2>2. grantMoved'[u] = (grantMoved[u] \/ Holder(grants', e) # Holder(grants, e))
    BY <2>1 DEF Remember
  <2>3. ~grantMoved[u] /\ Holder(grants', e) = Holder(grants, e)
    BY <2>2
  <2>4. Holder(Table(u), e)' = Holder(Table(u), e)
    BY <2>0, <2>3 DEF Holder, Table
  <2>5. Holder(grants, e)' = Holder(grants, e) /\ RevokesItself(u)' = RevokesItself(u)
    BY <2>0, <2>3 DEF Holder, RevokesItself
  <2>6. pc'[u] = pc[u] /\ mine'[u] = mine[u] /\ job' = job
    OBVIOUS
  <2> HIDE DEF e
  <2>7. /\ pc[u] = "backfill" => Holder(grants, e)' = <<TRUE, NoSubject>>
        /\ pc[u] \in {"loaded", "count", "write"} \/ (pc[u] = "answered" /\ ~RevokesItself(u)')
             => Holder(Table(u), e)' = <<TRUE, job[u].sub>>
    BY <1>0, <2>3, <2>4, <2>5 DEF HeldByCaller, e
  <2> QED BY <2>6, <2>7 DEF HeldByCaller, e
<1> QED BY <1>1, <1>2

LEMMA HistoryTyped ==
  ASSUME Remember
  PROVE  ownersMoved' \in [Requests -> BOOLEAN] /\ grantMoved' \in [Requests -> BOOLEAN]
BY DEF Remember

(* What is left to show of a step of t. *)
LEMMA OwnStep ==
  ASSUME IInv, HInv, Remember, NEW t \in Requests, job' = job,
         \A u \in Requests \ {t} :
           pc'[u] = pc[u] /\ mine'[u] = mine[u] /\ writes'[u] = writes[u],
         GuardHolds(t)', HeldByCaller(t)'
  PROVE  HInv'
<1>1. \A u \in Requests \ {t} : GuardHolds(u)' /\ HeldByCaller(u)'
  BY OtherStep
<1> QED BY <1>1, HistoryTyped DEF HInv

(* A request that has ended promises nothing more. *)
LEMMA HistoryEnd ==
  ASSUME IInv, HInv, Remember, NEW t \in Requests, job' = job, pc'[t] \in Finished,
         \A u \in Requests \ {t} :
           pc'[u] = pc[u] /\ mine'[u] = mine[u] /\ writes'[u] = writes[u]
  PROVE  HInv'
<1>1. GuardHolds(t)' /\ HeldByCaller(t)'
  BY DEF GuardHolds, HeldByCaller, Finished
<1> QED BY <1>1, OwnStep

LEMMA HistoryFail ==
  ASSUME IInv, HInv, Remember, NEW t \in Requests, NEW code, Fail(t, code)
  PROVE  HInv'
<1>1. /\ job' = job /\ pc'[t] \in Finished
      /\ \A u \in Requests \ {t} :
           pc'[u] = pc[u] /\ mine'[u] = mine[u] /\ writes'[u] = writes[u]
  BY DEF Fail, IInv, TypeOK, Finished
<1> QED BY <1>1, HistoryEnd

(* What the request writes past the guard leaves an owner. *)
LEMMA WriteLeavesOwner ==
  ASSUME IInv, NEW t \in Requests, pc[t] = "write", SpareOwner(t), Owners(grants) # {},
         NEW row \in Rows, Write(t, job[t].target, row),
         job[t].kind = "grant" => row.role = job[t].role, grants' = grants
  PROVE  Owners(Table(t)') # {}
<1>0. TypeOK /\ job[t].target \in Emails
  BY JobShape DEF IInv
<1>1. /\ DOMAIN writes'[t] = DOMAIN writes[t] \cup {job[t].target}
      /\ \A x \in DOMAIN writes'[t] :
           writes'[t][x] = IF x = job[t].target THEN row ELSE writes[t][x]
  BY <1>0, WriteTyped
<1>2. \A e \in Emails \ {job[t].target} : Table(t)'[e] = Table(t)[e]
  BY <1>1 DEF Table
<1>3. Table(t)'[job[t].target] = row
  BY <1>0, <1>1 DEF Table
<1>4. \A e \in Emails : Table(t)[e].role = grants[e].role
  BY RolesAsCommitted
<1>5. CASE job[t].kind = "grant" /\ job[t].role = "owner"
  BY <1>0, <1>3, <1>5 DEF Owners
<1>6. CASE ~(job[t].kind = "grant" /\ job[t].role = "owner")
  <2>1. PICK e \in Emails \ {job[t].target} : grants[e].role = "owner"
    BY <1>6 DEF SpareOwner, Owners
  <2> QED BY <1>2, <1>4, <2>1 DEF Owners
<1> QED BY <1>5, <1>6

(* The first look at the caller's grant. *)
LEMMA HistoryLoad ==
  ASSUME IInv, HInv, Remember, NEW t \in Requests, LoadCallerGrant(t)
  PROVE  HInv'
<1> DEFINE e == job[t].email
           row == grants[e]
<1>0. TypeOK /\ e \in Emails /\ DOMAIN writes[t] = {}
  BY JobShape DEF IInv, LoadCallerGrant, PhaseSound
<1>1. /\ grants' = grants /\ job' = job /\ writes' = writes
      /\ pc'[t] \in {"backfill", "loaded"}
      /\ \A u \in Requests \ {t} : pc'[u] = pc[u] /\ mine'[u] = mine[u]
  BY <1>0 DEF LoadCallerGrant, TypeOK
<1>2. mine'[t] # "none" =>
        /\ row.role # "none"
        /\ pc'[t] = "backfill" => row.sub = NoSubject
        /\ pc'[t] = "loaded" => row.sub = job[t].sub
  BY <1>0 DEF LoadCallerGrant, TypeOK
<1>3. Table(t)'[e] = row /\ grants'[e] = row /\ job'[t] = job[t]
  BY <1>0, <1>1 DEF Table
<1>4. HeldByCaller(t)'
  <2>1. mine'[t] # "none" =>
          /\ pc'[t] = "backfill" => Holder(grants', e) = <<TRUE, NoSubject>>
          /\ pc'[t] = "loaded" => Holder(Table(t)', e) = <<TRUE, job[t].sub>>
    BY <1>2, <1>3 DEF Holder
  <2> QED BY <1>1, <1>3, <2>1 DEF HeldByCaller, Holder
<1>5. GuardHolds(t)'
  BY <1>1 DEF GuardHolds
<1> QED BY <1>1, <1>4, <1>5, OwnStep

(* Not overtaken, the UPDATE finds the grant without a subject. *)
LEMMA HistoryBackfill ==
  ASSUME IInv, HInv, Remember, NEW t \in Requests, BackfillSubject(t)
  PROVE  HInv'
<1> DEFINE e == job[t].email
           old == grants[e]
           new == [old EXCEPT !.sub = job[t].sub]
<1>0. TypeOK /\ e \in Emails /\ old \in Rows /\ job[t].sub \in Subjects /\ HeldByCaller(t)
  BY JobShape DEF IInv, HInv, TypeOK
<1>1. /\ grants' = grants /\ job' = job /\ mine' = mine
      /\ pc[t] = "backfill" /\ pc'[t] = "loaded" /\ \A u \in Requests \ {t} : pc'[u] = pc[u]
  BY <1>0 DEF BackfillSubject, TypeOK
<1>2. new \in Rows /\ new.role = old.role /\ new.sub = job[t].sub
  BY <1>0 DEF Rows
<1>3. \A u \in Requests \ {t} : writes'[u] = writes[u]
  <2>1. CASE writes' = writes
    BY <2>1
  <2>2. CASE Write(t, e, new)
    BY <1>0, <1>2, <2>2, WriteTyped
  <2> QED BY <2>1, <2>2 DEF BackfillSubject
<1>4. ASSUME mine[t] # "none", ~grantMoved'[t]
      PROVE  Table(t)'[e] = new /\ new.role # "none"
  <2>1. UnderWay(t) /\ UnderWay(t)'
    BY <1>1 DEF UnderWay, Finished
  <2>2. ~grantMoved[t]
    BY <1>4, <2>1 DEF Remember
  <2>3. old.role # "none" /\ old.sub = NoSubject
    BY <1>0, <1>1, <1>4, <2>2 DEF HeldByCaller, Holder
  <2>4. Write(t, e, new)
    BY <2>3 DEF BackfillSubject
  <2> HIDE DEF new
  <2>5. e \in DOMAIN writes'[t] /\ writes'[t][e] = new
    BY <1>0, <1>2, <2>4, WriteTyped
  <2> QED BY <1>0, <1>2, <2>3, <2>5 DEF Table
<1> HIDE DEF new
<1>5. HeldByCaller(t)'
  <2>1. mine[t] # "none" /\ ~grantMoved'[t] => Holder(Table(t)', e) = <<TRUE, job[t].sub>>
    BY <1>2, <1>4 DEF Holder
  <2> QED BY <1>1, <2>1 DEF HeldByCaller, Holder
<1>6. GuardHolds(t)'
  BY <1>1 DEF GuardHolds
<1> QED BY <1>1, <1>3, <1>5, <1>6, OwnStep

(* A step that only moves t, on from where its grant is loaded. *)
LEMMA HistoryMove ==
  ASSUME IInv, HInv, Remember, NEW t \in Requests, NEW phase,
         pc' = [pc EXCEPT ![t] = phase], UNCHANGED <<grants, job, mine, writes>>,
         pc[t] \in {"loaded", "count"}, phase \in {"count", "write", "answered"},
         phase = "write" => SpareOwner(t)
  PROVE  HInv'
<1>0. TypeOK /\ HeldByCaller(t)
  BY DEF IInv, HInv
<1>1. pc'[t] = phase /\ \A u \in Requests \ {t} : pc'[u] = pc[u]
  BY <1>0 DEF TypeOK
<1>2. Table(t)' = Table(t) /\ Owners(Table(t)) = Owners(grants)
  <2>1. \A e \in Emails : Table(t)[e].role = grants[e].role
    BY RolesAsCommitted
  <2>2. Table(t)' = Table(t)
    BY DEF Table
  <2> QED BY <2>1, <2>2 DEF Owners
<1>3. GuardHolds(t)'
  <2>1. SpareOwner(t)' = SpareOwner(t) /\ Owners(grants)' = Owners(grants)
    BY DEF SpareOwner, Owners
  <2>2. Owners(Table(t))' = Owners(grants)
    BY <1>2 DEF Owners
  <2> QED BY <1>1, <2>1, <2>2 DEF GuardHolds
<1>4. HeldByCaller(t)'
  <2>1. UnderWay(t) /\ UnderWay(t)'
    BY <1>1 DEF UnderWay, Finished
  <2>2. grantMoved'[t] = grantMoved[t]
    BY <2>1 DEF Remember, HInv
  <2>3. mine[t] # "none" /\ ~grantMoved'[t]
          => Holder(Table(t), job[t].email) = <<TRUE, job[t].sub>>
    BY <1>0, <2>2 DEF HeldByCaller
  <2> QED BY <1>1, <1>2, <2>3 DEF HeldByCaller, Holder
<1> QED BY <1>1, <1>3, <1>4, OwnStep

(* The write past the guard. *)
LEMMA HistoryWrite ==
  ASSUME IInv, HInv, Remember, NEW t \in Requests, NEW row \in Rows,
         pc[t] = "write", Write(t, job[t].target, row), Answer(t),
         job[t].kind = "grant" =>
           row.role = job[t].role /\ row.sub = Table(t)[job[t].target].sub,
         job[t].kind \in {"grant", "revoke"}
  PROVE  HInv'
<1> DEFINE e == job[t].email
<1>0. /\ TypeOK /\ GuardHolds(t) /\ HeldByCaller(t)
      /\ e \in Emails /\ job[t].target \in Emails /\ job[t].role \in Roles
  BY JobShape DEF IInv, HInv
<1>1. /\ grants' = grants /\ job' = job /\ mine' = mine
      /\ pc'[t] = "answered" /\ \A u \in Requests \ {t} : pc'[u] = pc[u]
  BY <1>0 DEF Answer, TypeOK
<1>2. /\ DOMAIN writes'[t] = DOMAIN writes[t] \cup {job[t].target}
      /\ \A x \in DOMAIN writes'[t] :
           writes'[t][x] = IF x = job[t].target THEN row ELSE writes[t][x]
      /\ \A u \in Requests \ {t} : writes'[u] = writes[u]
  BY <1>0, WriteTyped
<1>3. GuardHolds(t)'
  <2> SUFFICES ASSUME ~ownersMoved'[t], Owners(grants) # {} PROVE Owners(Table(t))' # {}
    BY <1>1 DEF GuardHolds
  <2>1. Decided(t) /\ Decided(t)'
    BY <1>1 DEF Decided
  <2>2. ~ownersMoved[t]
    BY <2>1 DEF Remember
  <2>3. SpareOwner(t)
    BY <1>0, <2>2 DEF GuardHolds
  <2>4. Owners(Table(t)') # {}
    BY <1>1, <2>3, WriteLeavesOwner
  <2> QED BY <2>4 DEF Owners
<1>4. HeldByCaller(t)'
  <2> SUFFICES ASSUME mine[t] # "none", ~grantMoved'[t], ~RevokesItself(t)
               PROVE  Holder(Table(t)', e) = <<TRUE, job[t].sub>>
    BY <1>1 DEF HeldByCaller, Holder, RevokesItself
  <2>1. UnderWay(t) /\ UnderWay(t)'
    BY <1>1 DEF UnderWay, Finished
  <2>2. ~grantMoved[t]
    BY <2>1 DEF Remember
  <2>3. Table(t)[e].role # "none" /\ Table(t)[e].sub = job[t].sub
    BY <1>0, <2>2 DEF HeldByCaller, Holder
  <2>4. CASE job[t].target # e
    <3>1. Table(t)'[e] = Table(t)[e]
      BY <1>0, <1>1, <1>2, <2>4 DEF Table
    <3> QED BY <2>3, <3>1 DEF Holder
  <2>5. CASE job[t].target = e
    <3>1. Table(t)'[e] = row
      BY <1>0, <1>2, <2>5 DEF Table
    <3>2. job[t].kind = "grant"
      BY <2>5 DEF RevokesItself
    <3>3. row.role # "none" /\ row.sub = job[t].sub
      BY <1>0, <2>3, <2>5, <3>2 DEF Roles
    <3> QED BY <3>1, <3>3 DEF Holder
  <2> QED BY <2>4, <2>5
<1> QED BY <1>1, <1>2, <1>3, <1>4, OwnStep

LEMMA HistoryHandle ==
  ASSUME IInv, HInv, Remember, NEW t \in Requests, Handle(t)
  PROVE  HInv'
<1>0. TypeOK /\ job[t].email \in Emails /\ job[t].target \in Emails
  BY JobShape DEF IInv
<1>1. CASE LoadCallerGrant(t) \/ BackfillSubject(t)
  BY <1>1, HistoryLoad, HistoryBackfill
<1>2. CASE Mint(t) \/ Read(t)
  BY <1>2, HistoryMove DEF Mint, Read
<1>3. CASE Refuse(t)
  BY <1>3, HistoryFail DEF Refuse
<1>4. CASE GrantOwner(t)
  BY <1>4, HistoryMove DEF GrantOwner, SpareOwner
<1>5. CASE ReadTarget(t)
  <2>1. CASE Fail(t, "notfound")
    BY <2>1, HistoryFail
  <2>2. CASE ~Fail(t, "notfound")
    <3> DEFINE phase == IF Existing(t) = "owner" THEN "count" ELSE "write"
    <3>1. /\ pc[t] = "loaded" /\ pc' = [pc EXCEPT ![t] = phase]
          /\ UNCHANGED <<grants, job, mine, writes>> /\ phase \in {"count", "write"}
      BY <1>5, <2>2 DEF ReadTarget
    <3>2. Existing(t) = grants[job[t].target].role
      BY <1>0, <3>1, RolesAsCommitted DEF Existing
    <3>3. phase = "write" => SpareOwner(t)
      BY <3>2 DEF SpareOwner, Owners
    <3> HIDE DEF phase
    <3> QED BY <3>1, <3>3, HistoryMove
  <2> QED BY <2>1, <2>2
<1>6. CASE CountOwners(t)
  <2>1. CASE Fail(t, "lastowner")
    BY <2>1, HistoryFail
  <2>2. CASE ~Fail(t, "lastowner")
    <3>1. /\ pc[t] = "count" /\ pc' = [pc EXCEPT ![t] = "write"]
          /\ UNCHANGED <<grants, job, mine, writes>>
          /\ Cardinality(Owners(Table(t))) # 1
      BY <1>6, <2>2 DEF CountOwners
    <3>2. Owners(Table(t)) = Owners(grants)
      BY <3>1, RolesAsCommitted DEF Owners
    <3>3. Owners(grants) # {job[t].target}
      BY <3>1, <3>2, FS_Singleton
    <3>4. SpareOwner(t)
      BY <3>3 DEF SpareOwner
    <3> QED BY <3>1, <3>4, HistoryMove
  <2> QED BY <2>1, <2>2
<1>7. CASE UpsertGrant(t)
  <2> DEFINE row == [Table(t)[job[t].target] EXCEPT !.role = job[t].role]
  <2>1. row \in Rows /\ row.role = job[t].role /\ row.sub = Table(t)[job[t].target].sub
    BY <1>0, JobShape, WritesShape DEF Rows
  <2>2. /\ pc[t] = "write" /\ job[t].kind = "grant"
        /\ Write(t, job[t].target, row) /\ Answer(t)
    BY <1>7 DEF UpsertGrant
  <2> HIDE DEF row
  <2> QED BY <2>1, <2>2, HistoryWrite
<1>8. CASE DeleteGrant(t)
  <2>1. CASE Fail(t, "notfound")
    BY <2>1, HistoryFail
  <2>2. CASE Write(t, job[t].target, NoRow) /\ Answer(t)
    <3>1. NoRow \in Rows /\ pc[t] = "write" /\ job[t].kind = "revoke"
      BY <1>8 DEF NoRow, Rows, DeleteGrant
    <3> QED BY <2>2, <3>1, HistoryWrite
  <2> QED BY <1>8, <2>1, <2>2 DEF DeleteGrant
<1>9. CASE Commit(t)
  <2>1. /\ job' = job /\ pc'[t] \in Finished
        /\ \A u \in Requests \ {t} :
             pc'[u] = pc[u] /\ mine'[u] = mine[u] /\ writes'[u] = writes[u]
    BY <1>0, <1>9 DEF Commit, TypeOK, Finished
  <2> QED BY <2>1, HistoryEnd
<1> QED BY <1>1, <1>2, <1>3, <1>4, <1>5, <1>6, <1>7, <1>8, <1>9 DEF Handle

LEMMA HistoryStep == IInv /\ HInv /\ [HNext]_hvars => HInv'
<1> SUFFICES ASSUME IInv, HInv, [HNext]_hvars PROVE HInv'
  OBVIOUS
<1>1. ASSUME NEW t \in Requests, Handle(t), Remember PROVE HInv'
  BY <1>1, HistoryHandle
<1>2. ASSUME NEW t \in Requests, Crash(t) \/ StatementTimeout(t) \/ DeadlockDetected(t), Remember
      PROVE  HInv'
  BY <1>2, HistoryFail DEF Crash, StatementTimeout, DeadlockDetected
<1>3. ASSUME UNCHANGED vars, Remember PROVE HInv'
  <2>1. \A u \in Requests : GuardHolds(u)' /\ HeldByCaller(u)'
    BY <1>3, OtherStep DEF vars
  <2> QED BY <1>3, <2>1, HistoryTyped DEF HInv
<1>4. ASSUME UNCHANGED hvars PROVE HInv'
  BY <1>4 DEF hvars, HInv, GuardHolds, HeldByCaller, Holder, RevokesItself, SpareOwner,
              Owners, Table
<1> QED BY <1>1, <1>2, <1>3, <1>4 DEF HNext, Next, Quiescent

LEMMA HistoryHolds == HSpec => [](IInv /\ HInv)
<1>1. HInit => HInv
  BY DEF HInit, Init, HInv, GuardHolds, HeldByCaller
<1> QED BY <1>1, HistoryStep, HistoryRefines, InvariantHolds, PTL DEF HSpec

(* A collection loses its last owner only to an overlap, whoever grants,   *)
(* demotes and revokes what: the guard of create_grant and delete_grant    *)
(* lacks nothing but a lock.                                               *)
THEOREM OnlyOverlapsLoseOwners == HSpec => LastOwnerLostToOverlap
<1>1. ASSUME IInv, HInv, [Next]_vars, Owners(grants) # {}, Owners(grants') = {}
      PROVE  \E t \in Requests : pc[t] = "answered" /\ pc'[t] = "kept" /\ ownersMoved[t]
  <2>1. PICK t \in Requests : Commit(t)
    BY <1>1, TableChange
  <2>2. pc[t] = "answered" /\ pc'[t] = "kept" /\ grants' = Table(t)
    BY <1>1, <2>1 DEF Commit, IInv, TypeOK
  <2>3. GuardHolds(t) /\ ownersMoved[t] \in BOOLEAN
    BY <1>1 DEF HInv
  <2> QED BY <1>1, <2>2, <2>3 DEF GuardHolds
<1>2. IInv /\ HInv /\ [HNext]_hvars =>
        (Owners(grants) # {} /\ Owners(grants') = {} =>
           \E t \in Requests : pc[t] = "answered" /\ pc'[t] = "kept" /\ ownersMoved[t])
  BY <1>1 DEF HNext, hvars, vars
<1> QED BY <1>2, HistoryHolds, PTL DEF HSpec, LastOwnerLostToOverlap

(* A request served on a grant leaves it recorded for its own caller's     *)
(* subject, unless it revokes it or another request has changed who holds  *)
(* it since it was loaded.                                                 *)
THEOREM OnlyOverlapsHonorOthers == HSpec => HonoredUnlessOvertaken
<1>1. ASSUME IInv, HInv, [Next]_vars, NEW t \in Requests, pc[t] = "answered", pc'[t] = "kept",
             mine[t] # "none", ~grantMoved[t], ~RevokesItself(t)
      PROVE  Holder(grants', job[t].email) = <<TRUE, job[t].sub>>
  <2>1. Commit(t)
    BY <1>1, KeptByCommit
  <2>2. HeldByCaller(t)
    BY <1>1 DEF HInv
  <2> QED BY <1>1, <2>1, <2>2 DEF HeldByCaller, Commit
<1>2. IInv /\ HInv /\ [HNext]_hvars =>
        \A t \in Requests :
          /\ pc[t] = "answered" /\ pc'[t] = "kept"
          /\ mine[t] # "none" /\ ~grantMoved[t] /\ ~RevokesItself(t)
          => Holder(grants', job[t].email) = <<TRUE, job[t].sub>>
  BY <1>1 DEF HNext, hvars, vars
<1> QED BY <1>2, HistoryHolds, PTL DEF HSpec, HonoredUnlessOvertaken
=============================================================================
