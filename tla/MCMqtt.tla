------------------------------- MODULE MCMqtt -------------------------------
(***************************************************************************)
(* LitterMqtt with a report every third yield, so that loops with and      *)
(* without a report follow each other.                                     *)
(***************************************************************************)
EXTENDS LitterMqtt
=============================================================================
