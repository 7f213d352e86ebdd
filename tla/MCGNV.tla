-------------------------------- MODULE MCGNV --------------------------------
(***************************************************************************)
(* The module TLC runs for GNV.                                            *)
(***************************************************************************)
EXTENDS GNVProps, TLC
=============================================================================
