---------------------------- MODULE MCWebClient ----------------------------
(***************************************************************************)
(* One tab: two sockets one after the other, two logins, two transactions. *)
(***************************************************************************)
EXTENDS WebClient

CONSTANTS u1
=============================================================================
