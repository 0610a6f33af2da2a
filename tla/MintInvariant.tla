--------------------------- MODULE MintInvariant ---------------------------
(* The inductive invariant behind the safety properties of                 *)
(* MintTransactions: what the key waits and the rollbacks maintain in      *)
(* every state between two steps.                                          *)
EXTENDS MintTransactions

Idle == {"new", "kept", "lost"}
InStatement == {"arbiter", "insert", "place", "resolve"}

(* Where a request is agrees with its job and its report. *)
WellFormed(t) ==
  /\ pc[t] \notin {"new", "lost"} => job[t].coll \in Colls
  /\ pc[t] \in InStatement => MoreFeatures(t)
  /\ Len(report[t]) <= Len(job[t].feats)

WellTyped == TypeOK /\ \A t \in Requests : WellFormed(t)

(* The open rows of a request: registry and place rows go in pairs, but    *)
(* for the registry row the current statement has just written.            *)
LegsAgree(t) ==
  /\ pc[t] \in Idle => regs[t] = {} /\ plcs[t] = {}
  /\ \A p \in plcs[t] : p.coll = job[t].coll /\ p.geom \in GeomsOf(regs[t])
  /\ \A r \in regs[t] :
       /\ r.coll = job[t].coll
       /\ r.geom \in GeomsOf(plcs[t]) \/ (pc[t] = "place" /\ r.geom = Geom(t))
  /\ pc[t] = "place" => Geom(t) \in GeomsOf(regs[t]) \ GeomsOf(plcs[t])

(* A geometry belongs to one open transaction, or is committed. *)
GeomsExclusive ==
  \A t \in Requests :
    /\ GeomsOf(regs[t]) \cap GeomsOf(registry) = {}
    /\ \A u \in Requests \ {t} : GeomsOf(regs[t]) \cap GeomsOf(regs[u]) = {}

(* So does an external_id of a managed collection. *)
ExtIdsExclusive ==
  \A t \in Requests :
    /\ \A p, q \in plcs[t] : SameExternalId(p, q) => p = q
    /\ \A p \in plcs[t], q \in place : ~SameExternalId(p, q)
    /\ \A u \in Requests \ {t} : \A p \in plcs[t], q \in plcs[u] : ~SameExternalId(p, q)

(* A statement that inserts does so for a geometry the request neither has *)
(* nor reported; one that lost finds the incumbent when it reads again.    *)
StatementSound(t) ==
  /\ stmt[t].seen \subseteq Visible(t)
  /\ pc[t] = "insert" => Geom(t) \notin GeomsOf(regs[t])
  /\ pc[t] \in {"insert", "place"} => Geom(t) \notin Accepted(t)
  /\ pc[t] = "resolve" => Geom(t) \in Visible(t)
  /\ answer[t] # "drift"

RetrySound(t) ==
  stmt[t].retried => /\ MoreFeatures(t)
                     /\ Geom(t) \in GeomsOf(registry)
                     /\ pc[t] \in {"next", "arbiter", "resolve"}

(* What the registry side rests on... *)
RegistryInv ==
  /\ WellTyped
  /\ GeoidUnique
  /\ NoOrphanRows
  /\ AcceptedResolves
  /\ GeomsExclusive
  /\ \A t \in Requests : LegsAgree(t) /\ StatementSound(t) /\ RetrySound(t)

(* A request has reported the rows it would commit: nothing is registered  *)
(* that no answer spoke of.                                                *)
RowsReported == \A t \in Requests : GeomsOf(plcs[t]) \subseteq Accepted(t)

(* ... and the whole. *)
IInv == RegistryInv /\ ExternalIdUnique /\ ExtIdsExclusive /\ RowsReported
=============================================================================
