------------------------------ MODULE MCH5Link ------------------------------
(* Small instances of H5Link for TLC. *)
EXTENDS H5Link
=============================================================================
