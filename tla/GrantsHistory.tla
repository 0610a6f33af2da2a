--------------------------- MODULE GrantsHistory ---------------------------
(* CollectionGrants with two history variables: whether, behind a          *)
(* request's back, the owners or the grant it rests on have changed since  *)
(* it looked.  Its steps are those of CollectionGrants; what it adds are   *)
(* properties that say, of every overlap of requests, which harm is due to *)
(* the overlap and which must not happen at all.                           *)
EXTENDS CollectionGrants

VARIABLES
  ownersMoved,  \* the owners have changed since the request's last look at them
  grantMoved    \* so has who holds the grant of the request's caller

hvars == <<grants, job, pc, mine, writes, answer, ownersMoved, grantMoved>>

UnderWay(t) == pc[t] \notin {"new"} \cup Finished

(* Past the last-owner guard. *)
Decided(t) == pc[t] \in {"write", "answered"}

(* Whether there is a grant, and whose. *)
Holder(table, e) == <<table[e].role # "none", table[e].sub>>

RevokesItself(t) == job[t].kind = "revoke" /\ job[t].target = job[t].email

HInit ==
  /\ Init
  /\ ownersMoved = [t \in Requests |-> FALSE]
  /\ grantMoved = [t \in Requests |-> FALSE]

Remember ==
  /\ ownersMoved' = [t \in Requests |->
       /\ Decided(t) /\ Decided(t)'
       /\ ownersMoved[t] \/ Owners(grants') # Owners(grants)]
  /\ grantMoved' = [t \in Requests |->
       /\ UnderWay(t) /\ UnderWay(t)'
       /\ \/ grantMoved[t]
          \/ Holder(grants', job[t].email) # Holder(grants, job[t].email)]

HNext == Next /\ Remember

HSpec == HInit /\ [][HNext]_hvars

FairHSpec == HSpec /\ Fairness

-----------------------------------------------------------------------------
(* Properties *)

(* A collection loses its last owner only to an overlap: the request that  *)
(* takes it away has passed the guard of create_grant or delete_grant      *)
(* before another one changed who the owners are.  No sequence of grants,  *)
(* demotions and revocations by anybody does it otherwise, whatever else   *)
(* is under way.                                                           *)
LastOwnerLostToOverlap ==
  [][Owners(grants) # {} /\ Owners(grants') = {} =>
       \E t \in Requests : pc[t] = "answered" /\ pc'[t] = "kept" /\ ownersMoved[t]]_hvars

(* A request served on a grant leaves it recorded for its own caller's     *)
(* subject, through waits, changes of role and the request's own changes,  *)
(* unless it revokes that grant or another request has changed who holds   *)
(* it since it was loaded (load_caller_grant, upsert_grant).               *)
HonoredUnlessOvertaken ==
  [][\A t \in Requests :
       /\ pc[t] = "answered" /\ pc'[t] = "kept"
       /\ mine[t] # "none" /\ ~grantMoved[t] /\ ~RevokesItself(t)
       => Holder(grants', job[t].email) = <<TRUE, job[t].sub>>]_hvars
=============================================================================
