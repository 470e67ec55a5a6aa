------------------------------- MODULE MCFleet -------------------------------
(***************************************************************************)
(* The defaults of the code and the probe interval the README suggests, in *)
(* units of ten seconds.                                                   *)
(***************************************************************************)
EXTENDS Fleet

(* These numbers are such that the runs' short trouble is short enough. *)
ASSUME MCAssumption == TroubleIsShort
==============================================================================
