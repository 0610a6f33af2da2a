---------------------------- MODULE MCProvisioning ----------------------------
(* Two instances, the migrate job and a script that is killed at most once  *)
(* and launched with each option in some run.                               *)
EXTENDS Provisioning

MCOptions ==
  {FullRun, [FullRun EXCEPT !.dry = TRUE],
   [Unlaunched EXCEPT !.skipMigrate = TRUE], [Unlaunched EXCEPT !.skipSeed = TRUE]}
=============================================================================
