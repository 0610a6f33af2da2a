------------------------------- MODULE MCMint -------------------------------
(* Instances of MintTransactions for TLC: the jobs requests choose from.   *)
EXTENDS MintInvariant

CONSTANTS r3, g1, g2, g3, x, pub, plots, ed, vw

Valid(g, e) == [kind |-> "valid", geom |-> g, ext |-> e]
Bad(kind) == [kind |-> kind, geom |-> g1, ext |-> NoExt]
Invalid(g, e) == [kind |-> "invalid", geom |-> g, ext |-> e]

Single(c, grant, f) == [bulk |-> FALSE, coll |-> c, grant |-> grant, feats |-> <<f>>]
Batch(c, grant, fs) == [bulk |-> TRUE, coll |-> c, grant |-> grant, feats |-> fs]

(* Everything two requests can do to each other: overlapping geometries in *)
(* either order, one external_id on two geometries, in-batch twins, bad    *)
(* features amid good ones, some of which fail on their second leg,        *)
(* refused callers.                                                        *)
PairJobs ==
  { Single(plots, ed, Valid(g, e)) : g \in {g1, g2}, e \in {x, NoExt} } \cup
  { Single(pub, NoGrant, Valid(g1, x)),
    Single(plots, vw, Valid(g1, x)),
    Single(plots, NoGrant, Valid(g1, x)),
    Single(NoColl, NoGrant, Valid(g1, x)),
    Single(plots, ed, Bad("schema")),
    Single(plots, ed, Bad("unhashable")),
    Single(plots, ed, Invalid(g1, x)),
    Single(plots, ed, Bad("nul")),
    Batch(plots, ed, <<Valid(g1, x), Valid(g2, x)>>),
    Batch(plots, ed, <<Valid(g2, NoExt), Valid(g1, x)>>),
    Batch(plots, ed, <<Valid(g1, NoExt), Valid(g1, x)>>),
    Batch(plots, ed, <<Bad("unhashable"), Valid(g2, x), Bad("schema")>>),
    Batch(plots, ed, <<Invalid(g1, x), Valid(g2, x), Invalid(g2, x)>>),
    Batch(plots, ed, <<Valid(g1, x), Bad("nul"), Valid(g2, x)>>),
    Batch(plots, vw, <<Valid(g2, x)>>),
    Batch(pub, NoGrant, <<Valid(g2, x), Valid(g1, x)>>),
    Batch(pub, NoGrant, <<Valid(g1, x), Valid(g1, x), Valid(g2, x), Valid(g2, x)>>) }

(* Batches that lock in opposite orders and can wait for each other three  *)
(* in a row, and a single mint that can lose the race for one of their     *)
(* geometries.                                                             *)
RingJobs ==
  { Batch(plots, ed, <<Valid(g1, NoExt), Valid(g2, x)>>),
    Batch(pub, NoGrant, <<Valid(g2, NoExt), Valid(g3, NoExt)>>),
    Batch(plots, ed, <<Valid(g3, x), Valid(g1, NoExt)>>),
    Single(plots, ed, Valid(g1, x)) }

(* Either two requests of every kind, and a third that is refused at once, *)
(* or three around the ring.                                               *)
AllJobs == PairJobs \cup RingJobs
RefusedJob == Single(NoColl, NoGrant, Valid(g1, x))
MCInit ==
  /\ Init
  /\ \/ \A t \in Requests : job[t] \in RingJobs
     \/ /\ \A t \in Requests \ {r3} : job[t] \in PairJobs
        /\ job[r3] = RefusedJob

MCSpec == MCInit /\ [][Next]_vars /\ Fairness

NulJobs == { Batch(plots, ed, <<Valid(g1, x), Bad("nul")>>) }

FirstWriteJobs ==
  { Single(plots, ed, Valid(g1, NoExt)), Single(pub, NoGrant, Valid(g1, NoExt)) }
=============================================================================
