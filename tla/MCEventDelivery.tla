--------------------------- MODULE MCEventDelivery ---------------------------
(* Two events, lost answers, crashes of the serving process and a delivery  *)
(* that fails; the target refuses the append of the first.  Lapse: the      *)
(* process that lost its lease is still delivering.                         *)
EXTENDS EventDelivery
=============================================================================
