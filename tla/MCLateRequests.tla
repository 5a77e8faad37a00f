---------------------------- MODULE MCLateRequests ----------------------------
(***************************************************************************)
(* Instances of LateRequests for TLC: the tenants and specs are those of   *)
(* MCTenantController.                                                     *)
(***************************************************************************)
EXTENDS LateRequests, MCTenantController
===============================================================================
