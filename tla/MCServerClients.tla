----------------------------- MODULE MCServerClients -----------------------------
(* A small instance of ServerClients for TLC: who takes part, and what for. *)
EXTENDS MCNamedServer, ServerClients, TLC

CONSTANTS r1, r2, u1, agent

OneAgent == [c \in Clients |-> agent]
OneServer == [c \in Clients |-> alpha]

\* Commands alone, a name started twice; and two registrations and their removal, on a
\* server that may die and leave its port to one of another name.
TwoCasts == {Commands, {s1, s2, t1, r1, r2, u1}}

ClientSymmetry == Permutations({r1, r2})
================================================================================
