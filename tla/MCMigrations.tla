---------------------------- MODULE MCMigrations ----------------------------
(* Instances of SchemaMigrations for TLC.                                  *)
EXTENDS SchemaMigrations

Submitted(g, point, public, ext, props) ==
  [geom |-> g, point |-> point, public |-> public, ext |-> ext, props |-> props]

(* A polygon and a point, with one external_id in one collection or in two. *)
TwoPlaces ==
  { Submitted("field", FALSE, TRUE, TRUE, TRUE), Submitted("field", FALSE, FALSE, TRUE, FALSE),
    Submitted("well", TRUE, TRUE, TRUE, FALSE) }
=============================================================================
