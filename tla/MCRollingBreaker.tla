-------------------------- MODULE MCRollingBreaker --------------------------
(***************************************************************************)
(* A small instance of RollingBreaker for TLC.                             *)
(***************************************************************************)
EXTENDS RollingBreaker
=============================================================================
