------------------------------- MODULE MCInstallLog -------------------------------
(* A small instance of InstallLog for TLC. *)
EXTENDS InstallLog

CONSTANTS w1, w2, w3, w4

\* Lines of different lengths, so that the tail is cut inside lines and between.
LineSizes ==
  [x \in Writers \cup {Header} |-> CASE x = Header -> 1 [] x = w1 -> 2 [] OTHER -> 3]
================================================================================
