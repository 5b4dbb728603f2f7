------------------------------ MODULE MCForensic ------------------------------
(* Instances of Forensic for TLC.                                          *)
EXTENDS Forensic
=============================================================================
