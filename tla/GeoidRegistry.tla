--------------------------- MODULE GeoidRegistry ---------------------------
(***************************************************************************)
(* What GeoID promises of its registry, with no database in sight.         *)
(*                                                                         *)
(* A geometry has at most one owner, the collection of the first request   *)
(* that kept it; an owner never changes.  A request collects claims, one   *)
(* geometry at a time, and ends in one of two ways: kept, when every       *)
(* geometry it claimed is registered at once, or lost, when it leaves no   *)
(* trace.  MintTransactions implements this module.                        *)
(***************************************************************************)

CONSTANTS
  Geoms,     \* geometries up to identity: one per geom_hash, hence one per geoid
  Colls,     \* collections
  NoColl,    \* owner of a geometry nobody has registered, not in Colls
  Requests   \* mint requests, single or bulk

VARIABLES
  owner,     \* the collection a geometry is registered in
  claims,    \* the geometries a request has been told it may count on
  fate       \* how the request ended, "open" until it has

registryVars == <<owner, claims, fate>>

TypeOK ==
  /\ owner \in [Geoms -> Colls \cup {NoColl}]
  /\ claims \in [Requests -> SUBSET Geoms]
  /\ fate \in [Requests -> {"open", "kept", "lost"}]

Registered == {g \in Geoms : owner[g] # NoColl}

Init ==
  /\ owner = [g \in Geoms |-> NoColl]
  /\ claims = [r \in Requests |-> {}]
  /\ fate = [r \in Requests |-> "open"]

Claim(r, g) ==
  /\ fate[r] = "open"
  /\ claims' = [claims EXCEPT ![r] = @ \cup {g}]
  /\ UNCHANGED <<owner, fate>>

Keep(r, c) ==
  /\ fate[r] = "open"
  /\ fate' = [fate EXCEPT ![r] = "kept"]
  /\ owner' = [g \in Geoms |->
                 IF g \in claims[r] \ Registered THEN c ELSE owner[g]]
  /\ UNCHANGED claims

Lose(r) ==
  /\ fate[r] = "open"
  /\ fate' = [fate EXCEPT ![r] = "lost"]
  /\ UNCHANGED <<owner, claims>>

Next ==
  \E r \in Requests :
    \/ \E g \in Geoms : Claim(r, g)
    \/ \E c \in Colls : Keep(r, c)
    \/ Lose(r)

Spec == Init /\ [][Next]_registryVars

(* A kept request finds every geometry it was told about registered: a     *)
(* 201 or an accepted row of a report is a geoid that resolves.            *)
ClaimsKept == \A r \in Requests : fate[r] = "kept" => claims[r] \subseteq Registered

(* A registered geometry stays in the collection that registered it first. *)
FirstOwnerStays ==
  [][\A g \in Geoms : owner[g] # NoColl => owner'[g] = owner[g]]_registryVars
=============================================================================
