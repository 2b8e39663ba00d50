--------------------------- MODULE MCApiLifecycle ---------------------------
(* Small instances of ApiLifecycle, with the ScheduledCollection it extends. *)
EXTENDS ApiLifecycle

CONSTANT t1

OneTarget == {t1}
=============================================================================
