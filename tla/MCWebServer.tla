---------------------------- MODULE MCWebServer ----------------------------
(* Instances of WebServer for TLC.                                         *)
EXTENDS WebServer, TLC

(* Descriptors, timer ids and connections are interchangeable.             *)
Symmetry == Permutations(Fd) \cup Permutations(TimerId) \cup Permutations(Conn)
=============================================================================
