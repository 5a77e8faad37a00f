---------------------------- MODULE MCArgoTeardown ----------------------------
(***************************************************************************)
(* Instances of ArgoTeardown for TLC, with the tenants of                  *)
(* MCTenantController.                                                     *)
(***************************************************************************)
EXTENDS ArgoTeardown, MCTenantController
===============================================================================
