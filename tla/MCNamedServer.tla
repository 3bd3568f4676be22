----------------------------- MODULE MCNamedServer -----------------------------
(* The command lines of the instances of NamedServer that TLC checks. *)
EXTENDS NamedServer

CONSTANTS s1, s2, s3, t1, t2, q1, alpha, beta, p1, p2

\* Every command works on one name.
OneName == [c \in Commands |-> alpha]

\* s2 and t2 work on another name.
TwoNames == [c \in Commands |-> IF c \in {s2, t2} THEN beta ELSE alpha]

\* Every start uses the default port.
OnePort == [s \in Starts |-> p1]

\* Every start passes --port 0.
Ephemeral == [s \in Starts |-> AnyPort]

\* s2 passes --port 0, the others the default port.
MixedPorts == [s \in Starts |-> IF s = s2 THEN AnyPort ELSE p1]
================================================================================
