---------------------------- MODULE MCOwnership ----------------------------
(* Handlers and offers are interchangeable, but the run checks a liveness   *)
(* property, which symmetry does not preserve: the instance is in the cfg.  *)
EXTENDS Ownership
=============================================================================
