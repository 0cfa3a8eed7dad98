------------------------------ MODULE MCCryptor ------------------------------
(* Instances of Cryptor small enough for TLC; the configuration gives them. *)
EXTENDS Cryptor
=============================================================================
