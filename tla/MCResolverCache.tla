---------------------------- MODULE MCResolverCache ----------------------------
(* Releases that differ in their version, in their base URL and in whether   *)
(* the cache trial is on.                                                    *)
EXTENDS ResolverCache

MCReleases ==
  {[version |-> 1, base |-> "a", cached |-> TRUE], [version |-> 2, base |-> "a", cached |-> TRUE],
   [version |-> 1, base |-> "b", cached |-> TRUE], [version |-> 2, base |-> "a", cached |-> FALSE]}
=============================================================================
