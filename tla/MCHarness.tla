------------------------------- MODULE MCHarness -------------------------------
(***************************************************************************)
(* An instance of Harness for TLC.                                          *)
(***************************************************************************)
EXTENDS Harness
=============================================================================
