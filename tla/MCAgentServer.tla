------------------------------ MODULE MCAgentServer ------------------------------
(* A small instance of AgentServer for TLC. *)
EXTENDS AgentServer

CONSTANTS x, y

\* For a request to /ab/a, the routes /ab and /ab/a are prefixes that end at a
\* path component; /a is a prefix of its characters only.
A == <<"/", "a">>
AB == <<"/", "a", "b">>
ABslashA == AB \o A

SimilarRoutes == {A, AB, ABslashA}
DeepPath == {ABslashA}
================================================================================
