---------------------------- MODULE MCReceivers ----------------------------
(***************************************************************************)
(* Four deposits in four blocks, for bitcoin and for nano.                 *)
(***************************************************************************)
EXTENDS Receivers

MCNodes == {"bitcoin", "nano"}
MCFaults == {"crash", "call", "lag"}
=============================================================================
