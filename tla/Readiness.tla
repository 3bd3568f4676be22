------------------------------- MODULE Readiness -------------------------------
(***************************************************************************)
(* What `GET /readyz` promises: launches are ranked as they begin, each    *)
(* reports one result, results may come in any order, and readiness is the *)
(* result of the highest-ranked launch that has reported                   *)
(* (src/src/serve.rs, the comment above AgentHealth).                      *)
(***************************************************************************)
EXTENDS Naturals

CONSTANT Launches

VARIABLES
  rank,    \* rank[l]: the launch order of l, 0 before it begins
  result,  \* result[l]: "ok", "failure", or "none" before it reports
  ready    \* the answer of /readyz

Results == {"none", "ok", "failure"}

Init ==
  /\ rank = [l \in Launches |-> 0]
  /\ result = [l \in Launches |-> "none"]
  /\ ready = TRUE

\* A launch ranks above every launch before it.
Begin(l) ==
  /\ rank[l] = 0
  /\ rank' = [rank EXCEPT ![l] = rank'[l]]
  /\ \A m \in Launches : rank'[l] > rank[m]
  /\ UNCHANGED <<result, ready>>

Report(l, r) ==
  /\ rank[l] > 0
  /\ result[l] = "none"
  /\ result' = [result EXCEPT ![l] = r]
  /\ ready' = IF \A m \in Launches : result[m] # "none" => rank[m] < rank[l]
              THEN r = "ok"
              ELSE ready
  /\ UNCHANGED rank

Next == \E l \in Launches : Begin(l) \/ \E r \in {"ok", "failure"} : Report(l, r)

Spec == Init /\ [][Next]_<<rank, result, ready>>
================================================================================
