------------------------------- MODULE MCServerLog -------------------------------
(* A small instance of ServerLog for TLC: the lines of the agents, as bytes. *)
EXTENDS ServerLog, TLC

CONSTANTS a1, a2

\* a1 prints in a language that needs more than ASCII, a2 ends its lines with a carriage return.
LineTexts ==
  [a \in Agents |-> [i \in 1..3 |-> IF a = a1 THEN <<Lead, Rest>> ELSE <<"x", CarriageReturn>>]]
LinesOfServers == <<(a1 :> 3) @@ (a2 :> 1), (a1 :> 0) @@ (a2 :> 1)>>
PrefixBytes == <<"p">>
WarningBytes == <<"d">>
================================================================================
