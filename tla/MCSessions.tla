----------------------------- MODULE MCSessions -----------------------------
(* Client sessions on a small instance, with the plans of SELECT and UPDATE. *)
EXTENDS Sessions, Plans

TablePlans == Plans(SetToSeq(Record))
=============================================================================
