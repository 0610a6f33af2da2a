-------------------------- MODULE CollectionGrants --------------------------
(***************************************************************************)
(* The grants of one managed collection: who may write to it, see it, and  *)
(* manage its grants.  A request is one PostgreSQL transaction under READ  *)
(* COMMITTED and runs one statement per step: it loads its caller's grant, *)
(* recording the caller's subject on a grant that has none, reads what the *)
(* last-owner guard needs, writes, answers and commits.                    *)
(*                                                                         *)
(* A written row is locked to the end of its transaction; a statement that *)
(* writes the same row waits, and then writes what it finds committed.     *)
(* Emails stand for normalised, verified addresses; a caller without one   *)
(* is a caller whose address has no grant.                                 *)
(***************************************************************************)
EXTENDS Naturals, FiniteSets

CONSTANTS
  Requests,   \* requests
  Jobs,       \* what a request may ask for, see JobAssumption
  Emails,     \* keys of collection_grant
  Subjects,   \* Keycloak subjects
  NoSubject,  \* principal_subject IS NULL
  Tables      \* the tables a behaviour may start from

Roles == {"viewer", "editor", "owner"}
Rows == [role : Roles \cup {"none"}, sub : Subjects \cup {NoSubject}]
NoRow == [role |-> "none", sub |-> NoSubject]

(* A write, a change of a grant, the list of them, and the one read that    *)
(* looks at a grant: the resolver of external ids.                         *)
Kinds == {"mint", "grant", "revoke", "list", "read"}

ASSUME SubjectAssumption == NoSubject \notin Subjects
ASSUME EmailAssumption == IsFiniteSet(Emails)
ASSUME TableAssumption ==
  \A f \in Tables : /\ f \in [Emails -> Rows]
                    /\ \A e \in Emails : f[e].role = "none" => f[e] = NoRow
ASSUME JobAssumption ==
  Jobs \subseteq [kind : Kinds, admin : BOOLEAN, email : Emails, sub : Subjects,
                  target : Emails, role : Roles]

VARIABLES
  grants,  \* the committed table
  job,     \* what each request asks for
  pc,      \* where each request is
  mine,    \* the role its caller's grant was loaded with, "none" if not honored
  writes,  \* the rows its open transaction has written
  answer   \* the HTTP answer

vars == <<grants, job, pc, mine, writes, answer>>

Phases == {"new", "backfill", "loaded", "count", "write", "answered", "kept", "lost"}
Finished == {"kept", "lost"}
Answers == {"none", "ok", "forbidden", "notfound", "lastowner", "error"}

TypeOK ==
  /\ grants \in [Emails -> Rows]
  /\ job \in [Requests -> Jobs]
  /\ pc \in [Requests -> Phases]
  /\ mine \in [Requests -> Roles \cup {"none"}]
  /\ writes \in [Requests -> UNION {[E -> Rows] : E \in SUBSET Emails}]
  /\ answer \in [Requests -> Answers]

-----------------------------------------------------------------------------
(* Reading the state *)

Owners(table) == {e \in Emails : table[e].role = "owner"}

(* The table as a statement of t finds it: committed rows and its own. *)
Table(t) == [e \in Emails |-> IF e \in DOMAIN writes[t] THEN writes[t][e] ELSE grants[e]]

(* authz_service: decided on the grant as it was loaded. *)
CanWrite(t) == job[t].admin \/ mine[t] \in {"editor", "owner"}
CanManage(t) == job[t].admin \/ mine[t] = "owner"

(* The role of the grant get_grant returns for the target.  The session    *)
(* lets go of the caller's own grant once it is checked, and reads afresh. *)
Existing(t) == Table(t)[job[t].target].role

(* u has locked the row t's next statement writes.  An UPDATE or a DELETE  *)
(* does not see, and so does not wait for, a row that is being inserted.   *)
HoldsRowOf(u, t) ==
  \/ /\ pc[t] = "backfill"
     /\ job[t].email \in DOMAIN writes[u]
     /\ grants[job[t].email].role # "none"
  \/ /\ pc[t] = "write"
     /\ job[t].target \in DOMAIN writes[u]
     /\ job[t].kind = "grant" \/ grants[job[t].target].role # "none"

Blocked(t) == \E u \in Requests \ {t} : HoldsRowOf(u, t)

InWaitCycle(t) ==
  \E S \in SUBSET Requests :
    /\ t \in S
    /\ \A s \in S : \E u \in S \ {s} : HoldsRowOf(u, s)
    /\ \A u \in S : \E s \in S \ {u} : HoldsRowOf(u, s)

-----------------------------------------------------------------------------
(* The steps of a request *)

Init ==
  /\ grants \in Tables
  /\ job \in [Requests -> Jobs]
  /\ pc = [t \in Requests |-> "new"]
  /\ mine = [t \in Requests |-> "none"]
  /\ writes = [t \in Requests |-> <<>>]
  /\ answer = [t \in Requests |-> "none"]

Write(t, e, row) ==
  writes' = [writes EXCEPT ![t] =
               [x \in DOMAIN writes[t] \cup {e} |-> IF x = e THEN row ELSE writes[t][x]]]

(* Mutant: the session goes back to the pool with its transaction open. *)
FailWithoutRollback(t, code) ==
  /\ pc' = [pc EXCEPT ![t] = "lost"]
  /\ answer' = [answer EXCEPT ![t] = code]
  /\ UNCHANGED <<grants, job, mine, writes>>

(* get_session rolls back what the request has written. *)
Fail(t, code) ==
  /\ pc' = [pc EXCEPT ![t] = "lost"]
  /\ writes' = [writes EXCEPT ![t] = <<>>]
  /\ answer' = [answer EXCEPT ![t] = code]
  /\ UNCHANGED <<grants, job, mine>>

(* Mutant: the email alone decides whose grant it is. *)
LoadByEmailOnly(t) ==
  LET row == grants[job[t].email]
      honored == ~job[t].admin /\ row.role # "none"
  IN /\ pc[t] = "new"
     /\ mine' = [mine EXCEPT ![t] = IF honored THEN row.role ELSE "none"]
     /\ pc' = [pc EXCEPT ![t] = IF honored /\ row.sub = NoSubject THEN "backfill" ELSE "loaded"]
     /\ UNCHANGED <<grants, job, writes, answer>>

(* load_caller_grant up to its UPDATE: a sysadmin's grant is not looked    *)
(* up, one that names another subject is not honored.                      *)
LoadCallerGrant(t) ==
  LET row == grants[job[t].email]
      honored == ~job[t].admin /\ row.role # "none" /\ row.sub \in {NoSubject, job[t].sub}
  IN /\ pc[t] = "new"
     /\ mine' = [mine EXCEPT ![t] = IF honored THEN row.role ELSE "none"]
     /\ pc' = [pc EXCEPT ![t] = IF honored /\ row.sub = NoSubject THEN "backfill" ELSE "loaded"]
     /\ UNCHANGED <<grants, job, writes, answer>>

(* Mutant: the UPDATE lacks its IS NULL guard. *)
BackfillOverwriting(t) ==
  LET row == grants[job[t].email]
  IN /\ pc[t] = "backfill"
     /\ ~Blocked(t)
     /\ pc' = [pc EXCEPT ![t] = "loaded"]
     /\ IF row.role # "none"
        THEN Write(t, job[t].email, [row EXCEPT !.sub = job[t].sub])
        ELSE UNCHANGED writes
     /\ UNCHANGED <<grants, job, mine, answer>>

(* UPDATE ... WHERE principal_subject IS NULL; the grant it was loaded     *)
(* with is returned, whatever the UPDATE found.                            *)
BackfillSubject(t) ==
  LET row == grants[job[t].email]
  IN /\ pc[t] = "backfill"
     /\ ~Blocked(t)
     /\ pc' = [pc EXCEPT ![t] = "loaded"]
     /\ IF row.role # "none" /\ row.sub = NoSubject
        THEN Write(t, job[t].email, [row EXCEPT !.sub = job[t].sub])
        ELSE UNCHANGED writes
     /\ UNCHANGED <<grants, job, mine, answer>>

(* A mint only needs the write to be allowed; what it writes is the        *)
(* business of MintTransactions.                                           *)
Mint(t) ==
  /\ pc[t] = "loaded"
  /\ job[t].kind = "mint"
  /\ CanWrite(t)
  /\ pc' = [pc EXCEPT ![t] = "answered"]
  /\ answer' = [answer EXCEPT ![t] = "ok"]
  /\ UNCHANGED <<grants, job, mine, writes>>

(* list_grants answers an owner, the resolver everybody: with metadata or   *)
(* without.                                                                *)
Read(t) ==
  /\ pc[t] = "loaded"
  /\ job[t].kind = "read" \/ (job[t].kind = "list" /\ CanManage(t))
  /\ pc' = [pc EXCEPT ![t] = "answered"]
  /\ answer' = [answer EXCEPT ![t] = "ok"]
  /\ UNCHANGED <<grants, job, mine, writes>>

(* 403: neither editor nor owner, not an owner, or a role that only a      *)
(* sysadmin gives.                                                         *)
Refuse(t) ==
  /\ pc[t] = "loaded"
  /\ \/ job[t].kind = "mint" /\ ~CanWrite(t)
     \/ job[t].kind \in {"grant", "revoke", "list"} /\ ~CanManage(t)
     \/ job[t].kind = "grant" /\ job[t].role = "owner" /\ ~job[t].admin
  /\ Fail(t, "forbidden")

(* Mutant: an owner may name another one. *)
GrantOwnerByOwner(t) ==
  /\ pc[t] = "loaded"
  /\ job[t].kind = "grant"
  /\ job[t].role = "owner"
  /\ CanManage(t)
  /\ pc' = [pc EXCEPT ![t] = "write"]
  /\ UNCHANGED <<grants, job, mine, writes, answer>>

(* create_grant gives the owner role without a look at what is there. *)
GrantOwner(t) ==
  /\ pc[t] = "loaded"
  /\ job[t].kind = "grant"
  /\ job[t].role = "owner"
  /\ job[t].admin
  /\ pc' = [pc EXCEPT ![t] = "write"]
  /\ UNCHANGED <<grants, job, mine, writes, answer>>

(* Mutant: the guard watches revocations, not changes of role. *)
ReadTargetOfRevoke(t) ==
  /\ pc[t] = "loaded"
  /\ job[t].kind = "revoke" \/ (job[t].kind = "grant" /\ job[t].role # "owner")
  /\ CanManage(t)
  /\ IF job[t].kind = "revoke" /\ Existing(t) = "none"
     THEN Fail(t, "notfound")
     ELSE /\ pc' = [pc EXCEPT ![t] = IF job[t].kind = "revoke" /\ Existing(t) = "owner"
                                     THEN "count" ELSE "write"]
          /\ UNCHANGED <<grants, job, mine, writes, answer>>

(* The grant that is to be changed or revoked. *)
ReadTarget(t) ==
  /\ pc[t] = "loaded"
  /\ job[t].kind = "revoke" \/ (job[t].kind = "grant" /\ job[t].role # "owner")
  /\ CanManage(t)
  /\ IF job[t].kind = "revoke" /\ Existing(t) = "none"
     THEN Fail(t, "notfound")
     ELSE /\ pc' = [pc EXCEPT ![t] = IF Existing(t) = "owner" THEN "count" ELSE "write"]
          /\ UNCHANGED <<grants, job, mine, writes, answer>>

(* The last-owner guard. *)
CountOwners(t) ==
  /\ pc[t] = "count"
  /\ IF Cardinality(Owners(Table(t))) = 1
     THEN Fail(t, "lastowner")
     ELSE /\ pc' = [pc EXCEPT ![t] = "write"]
          /\ UNCHANGED <<grants, job, mine, writes, answer>>

Answer(t) ==
  /\ pc' = [pc EXCEPT ![t] = "answered"]
  /\ answer' = [answer EXCEPT ![t] = "ok"]
  /\ UNCHANGED <<grants, job, mine>>

(* INSERT ... ON CONFLICT DO UPDATE sets the role and never the subject. *)
UpsertGrant(t) ==
  LET row == Table(t)[job[t].target]
  IN /\ pc[t] = "write"
     /\ job[t].kind = "grant"
     /\ ~Blocked(t)
     /\ Write(t, job[t].target, [row EXCEPT !.role = job[t].role])
     /\ Answer(t)

(* Mutant: 204 whatever the DELETE found. *)
DeleteBlindly(t) ==
  /\ pc[t] = "write"
  /\ job[t].kind = "revoke"
  /\ ~Blocked(t)
  /\ Write(t, job[t].target, NoRow)
  /\ Answer(t)

(* Mutant: a soft delete in a role nothing knows of. *)
DeleteSoftly(t) ==
  /\ pc[t] = "write"
  /\ job[t].kind = "revoke"
  /\ ~Blocked(t)
  /\ IF Table(t)[job[t].target].role = "none"
     THEN Fail(t, "notfound")
     ELSE Write(t, job[t].target, [NoRow EXCEPT !.role = "revoked"]) /\ Answer(t)

(* A DELETE that finds no row is a 404. *)
DeleteGrant(t) ==
  /\ pc[t] = "write"
  /\ job[t].kind = "revoke"
  /\ ~Blocked(t)
  /\ IF Table(t)[job[t].target].role = "none"
     THEN Fail(t, "notfound")
     ELSE Write(t, job[t].target, NoRow) /\ Answer(t)

Commit(t) ==
  /\ pc[t] = "answered"
  /\ grants' = Table(t)
  /\ pc' = [pc EXCEPT ![t] = "kept"]
  /\ writes' = [writes EXCEPT ![t] = <<>>]
  /\ UNCHANGED <<job, mine, answer>>

-----------------------------------------------------------------------------
(* What may happen to a request *)

Crash(t) ==
  /\ pc[t] \notin Finished
  /\ Fail(t, answer[t])

StatementTimeout(t) ==
  /\ Blocked(t)
  /\ Fail(t, "error")

DeadlockDetected(t) ==
  /\ InWaitCycle(t)
  /\ Fail(t, "error")

Quiescent ==
  /\ \A t \in Requests : pc[t] \in Finished
  /\ UNCHANGED vars

Handle(t) ==
  \/ LoadCallerGrant(t)
  \/ BackfillSubject(t)
  \/ Mint(t)
  \/ Read(t)
  \/ Refuse(t)
  \/ GrantOwner(t)
  \/ ReadTarget(t)
  \/ CountOwners(t)
  \/ UpsertGrant(t)
  \/ DeleteGrant(t)
  \/ Commit(t)

Next ==
  \/ \E t \in Requests :
       \/ Handle(t)
       \/ Crash(t)
       \/ StatementTimeout(t)
       \/ DeadlockDetected(t)
  \/ Quiescent

Spec == Init /\ [][Next]_vars

(* As for the mint path: handlers run on, the database looks for deadlocks. *)
Fairness ==
  \A t \in Requests : WF_vars(Handle(t)) /\ WF_vars(DeadlockDetected(t))

FairSpec == Spec /\ Fairness

-----------------------------------------------------------------------------
(* Properties *)

(* grants.py:90: "an upsert that would demote the only owner is blocked",   *)
(* and so is a revocation: a collection that has an owner keeps one.       *)
OwnerRemains ==
  [][Owners(grants) # {} => Owners(grants') # {}]_vars

(* A recorded subject stays as long as its grant does, through changes of  *)
(* role and concurrent first accesses, and a grant that is given again     *)
(* starts without one (backfill_subject, upsert_grant).                    *)
SubjectStays ==
  [][\A e \in Emails :
       /\ grants[e].role = "none" => grants'[e].sub = NoSubject
       /\ grants[e].sub # NoSubject /\ grants'[e].role # "none"
            => grants'[e].sub = grants[e].sub]_vars

(* Each 204 of a revocation took a grant away: of two that overlap, one is *)
(* a 404 (delete_grant's rowcount).                                        *)
RevokeRemovesOne ==
  [][\A t \in Requests :
       pc[t] = "answered" /\ pc'[t] = "kept" /\ job[t].kind = "revoke" =>
         /\ grants[job[t].target].role # "none"
         /\ grants'[job[t].target].role = "none"]_vars

(* Only a sysadmin makes an owner, also through a change of role that      *)
(* waits for another one (create_grant).                                   *)
OnlySysadminMakesOwners ==
  [][\A e \in Owners(grants') \ Owners(grants) :
       \E t \in Requests : pc[t] # pc'[t] /\ job[t].admin /\ job[t].target = e]_vars

(* Every request ends, also that of two owners who revoke each other and   *)
(* wait for each other's backfilled grant.                                 *)
EveryRequestEnds == \A t \in Requests : <>(pc[t] \in Finished)

(* authz_service.py:46: "A grant whose recorded sub differs from the       *)
(* caller's is NOT honored".                                               *)
OtherSubjectNotHonored ==
  [][\A t \in Requests :
       LET row == grants[job[t].email]
       IN pc[t] \in {"new", "backfill"} /\ pc'[t] = "loaded" /\ mine'[t] # "none"
            => row.sub \in {NoSubject, job[t].sub}]_vars
=============================================================================
