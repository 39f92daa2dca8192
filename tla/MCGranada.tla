------------------------------ MODULE MCGranada ------------------------------
(* Instances of Granada for TLC.                                            *)
EXTENDS Granada
=============================================================================
