----------------------------- MODULE MCOtaClient -----------------------------
(* A small instance of OtaClient for TLC. *)
EXTENDS OtaClient

MCOtaBuilds == [exchange : BOOLEAN, compare : BOOLEAN]
=============================================================================
