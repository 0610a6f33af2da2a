-------------------------- MODULE GrantsInvariant --------------------------
(* The inductive invariants behind the properties of CollectionGrants.     *)
EXTENDS GrantsHistory

(* What an open transaction has written, against the committed row: the    *)
(* subject is only ever added, the owner role only ever given by a         *)
(* sysadmin, and up to its write a request has touched no more than its    *)
(* caller's own grant.                                                     *)
WriteSound(t) ==
  \A e \in DOMAIN writes[t] :
    LET new == writes[t][e]
        old == grants[e]
    IN /\ new.role = "none" => new = NoRow
       /\ new.role # "none" => (IF old.role = "none"
                                THEN new.sub = NoSubject
                                ELSE old.sub = NoSubject \/ new.sub = old.sub)
       /\ new.role = "owner" => old.role = "owner" \/ (job[t].admin /\ job[t].target = e)
       /\ pc[t] \in {"loaded", "count", "write"} =>
            e = job[t].email /\ old.role # "none" /\ new.role = old.role

PhaseSound(t) ==
  /\ pc[t] \in {"new", "backfill"} \cup Finished => DOMAIN writes[t] = {}
  /\ pc[t] = "count" /\ job[t].kind = "grant" => job[t].role # "owner"
  /\ pc[t] = "write" /\ job[t].kind = "grant" /\ job[t].role = "owner" => job[t].admin
  /\ pc[t] = "answered" /\ job[t].kind = "revoke" =>
       /\ job[t].target \in DOMAIN writes[t]
       /\ writes[t][job[t].target] = NoRow
       /\ grants[job[t].target].role # "none"

(* No two open transactions have written the same grant. *)
RowsExclusive ==
  \A t \in Requests : \A u \in Requests \ {t} : DOMAIN writes[t] \cap DOMAIN writes[u] = {}

IInv ==
  /\ TypeOK
  /\ \A e \in Emails : grants[e].role = "none" => grants[e] = NoRow
  /\ RowsExclusive
  /\ \A t \in Requests : WriteSound(t) /\ PhaseSound(t)

(* Past the guard, a request leaves an owner as long as nobody else has    *)
(* changed who the owners are.                                             *)
SpareOwner(t) ==
  \/ job[t].kind = "grant" /\ job[t].role = "owner"
  \/ Owners(grants) \ {job[t].target} # {}
  \/ job[t].target \notin Owners(grants)

GuardHolds(t) ==
  ~ownersMoved[t] =>
    /\ pc[t] = "write" => SpareOwner(t)
    /\ pc[t] = "answered" /\ Owners(grants) # {} => Owners(Table(t)) # {}

(* As long as nobody else has changed the grant it was honored for, a      *)
(* request reads it with its own subject once it has recorded it.          *)
HeldByCaller(t) ==
  LET e == job[t].email
  IN mine[t] # "none" /\ ~grantMoved[t] =>
       /\ pc[t] = "backfill" => Holder(grants, e) = <<TRUE, NoSubject>>
       /\ \/ pc[t] \in {"loaded", "count", "write"}
          \/ pc[t] = "answered" /\ ~RevokesItself(t)
          => Holder(Table(t), e) = <<TRUE, job[t].sub>>

HInv ==
  /\ ownersMoved \in [Requests -> BOOLEAN]
  /\ grantMoved \in [Requests -> BOOLEAN]
  /\ \A t \in Requests : GuardHolds(t) /\ HeldByCaller(t)
=============================================================================
