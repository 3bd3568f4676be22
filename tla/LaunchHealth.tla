------------------------------ MODULE LaunchHealth ------------------------------
(***************************************************************************)
(* How agent launches feed `GET /readyz` (src/src/serve.rs, AgentHealth,   *)
(* LaunchState, LaunchGuard, ObservedAgent).  Every connection launches    *)
(* one agent.  The steps of one launch run in one task and never overlap;  *)
(* the steps of different launches interleave, and between winning the     *)
(* compare-exchange of outcome_recorded and taking the health mutex a      *)
(* launch can be overtaken by others.                                      *)
(***************************************************************************)
EXTENDS Naturals, FiniteSets

CONSTANTS
  Launches,   \* the launches the agent factory makes
  Ids,        \* JSON-RPC request ids
  None        \* no id

ASSUME LaunchAssumption == IsFiniteSet(Launches)
ASSUME IdAssumption == None \notin Ids

VARIABLES
  next,         \* AgentHealth.next_generation
  gen,          \* gen[l]: LaunchState.generation, 0 before the factory ran
  conn,         \* conn[l]: where the connection stands
  requested,    \* the launches whose initialize_requested is set
  initId,       \* initId[l]: LaunchState.initialize_id
  recorded,     \* the launches whose outcome_recorded is set
  owed,         \* owed[l]: the record_* call l is about to make, or "none"
  poisoned,     \* the launches whose stderr_tail mutex is poisoned
  attempts, failures, outcomeGen,  \* AgentHealthState
  lastOutcome,  \* last_attempt_failed: "failure" when true, "ok" when false
  told          \* told[l]: what l has recorded (history, read by no action)

healthVars == <<attempts, failures, outcomeGen, lastOutcome>>
launchVars == <<conn, requested, initId, recorded, owed, poisoned>>
vars == <<next, gen, launchVars, healthVars, told>>

Outcomes == {"none", "ok", "failure"}

(***************************************************************************)
(* The connection                                                          *)
(***************************************************************************)

\* Nothing else of l runs between the compare-exchange and the record call.
Idle(l) == owed[l] = "none"

\* agent_factory: fetch_add hands out generations 1, 2, ...
MakeAgent(l) ==
  /\ conn[l] = "new"
  /\ next' = next + 1
  /\ gen' = [gen EXCEPT ![l] = next + 1]
  /\ conn' = [conn EXCEPT ![l] = "made"]
  /\ UNCHANGED <<requested, initId, recorded, owed, poisoned, healthVars, told>>

\* connect_to arms the LaunchGuard ...
Connect(l) ==
  /\ conn[l] = "made"
  /\ conn' = [conn EXCEPT ![l] = "open"]
  /\ UNCHANGED <<next, gen, requested, initId, recorded, owed, poisoned, healthVars, told>>

\* ... unless the transport drops the agent before it polls connect_to.
Abandon(l) ==
  /\ conn[l] = "made"
  /\ conn' = [conn EXCEPT ![l] = "abandoned"]
  /\ UNCHANGED <<next, gen, requested, initId, recorded, owed, poisoned, healthVars, told>>

\* The client-to-agent inspector: a later initialize replaces the id.
SeeRequest(l, id) ==
  /\ conn[l] = "open" /\ Idle(l)
  /\ requested' = requested \cup {l}
  /\ initId' = [initId EXCEPT ![l] = id]
  /\ UNCHANGED <<next, gen, conn, recorded, owed, poisoned, healthVars, told>>

\* try_record_outcome: the first caller wins and owes the health a record.
Mut_TryRecord(l, o) ==
  /\ recorded' = recorded \cup {l}
  /\ owed' = [owed EXCEPT ![l] = o]

TryRecord(l, o) ==
  IF l \in recorded
  THEN UNCHANGED <<recorded, owed>>
  ELSE /\ recorded' = recorded \cup {l}
       /\ owed' = [owed EXCEPT ![l] = o]

\* The agent-to-client inspector: a result or an error of the initialize.
SeeResponse(l, id, o) ==
  /\ conn[l] = "open" /\ Idle(l)
  /\ initId[l] = id
  /\ l \notin recorded
  /\ TryRecord(l, o)
  /\ UNCHANGED <<next, gen, conn, requested, initId, poisoned, healthVars, told>>

\* push_stderr trims the tail to its last 16 KiB; String::split_off panics when
\* that cuts inside a UTF-8 character, with the mutex held.
StderrPanics(l) ==
  /\ conn[l] = "open" /\ Idle(l)
  /\ poisoned' = poisoned \cup {l}
  /\ UNCHANGED <<next, gen, conn, requested, initId, recorded, owed, healthVars, told>>

\* The connection future resolved: LaunchGuard::complete.
Complete(l) ==
  /\ conn[l] = "open" /\ Idle(l)
  /\ conn' = [conn EXCEPT ![l] = "closed"]
  /\ TryRecord(l, "failure")
  /\ UNCHANGED <<next, gen, requested, initId, poisoned, healthVars, told>>

\* The future is dropped, by the transport or by the server's cancellation:
\* LaunchGuard::drop.  It reads the stderr tail of a launch that was asked to
\* initialize, and panics on a poisoned mutex before it records.
Mut_DropGuard(l) ==
  /\ conn[l] = "open" /\ Idle(l)
  /\ conn' = [conn EXCEPT ![l] = "closed"]
  /\ IF l \notin requested
     THEN UNCHANGED <<recorded, owed>>
     ELSE TryRecord(l, "failure")
  /\ UNCHANGED <<next, gen, requested, initId, poisoned, healthVars, told>>

DropGuard(l) ==
  /\ conn[l] = "open" /\ Idle(l)
  /\ conn' = [conn EXCEPT ![l] = "closed"]
  /\ IF l \in requested /\ l \in poisoned
     THEN UNCHANGED <<recorded, owed>>
     ELSE TryRecord(l, "failure")
  /\ UNCHANGED <<next, gen, requested, initId, poisoned, healthVars, told>>

(***************************************************************************)
(* The health state, under its mutex                                       *)
(***************************************************************************)

\* An older launch is counted but does not overwrite a newer one's outcome.
Mut_Newer(l) == TRUE
Newer(l) == gen[l] > outcomeGen

Failed(l) == IF owed[l] = "failure" THEN failures + 1 ELSE failures

Mut_Record(l) ==
  /\ owed[l] # "none"
  /\ attempts' = IF Newer(l) THEN attempts + 1 ELSE attempts
  /\ failures' = Failed(l)
  /\ IF Newer(l)
     THEN outcomeGen' = gen[l] /\ lastOutcome' = owed[l]
     ELSE UNCHANGED <<outcomeGen, lastOutcome>>
  /\ owed' = [owed EXCEPT ![l] = "none"]
  /\ told' = [told EXCEPT ![l] = owed[l]]
  /\ UNCHANGED <<next, gen, conn, requested, initId, recorded, poisoned>>

\* record_ok and record_failure.
Record(l) ==
  /\ owed[l] # "none"
  /\ attempts' = attempts + 1
  /\ failures' = Failed(l)
  /\ IF Newer(l)
     THEN outcomeGen' = gen[l] /\ lastOutcome' = owed[l]
     ELSE UNCHANGED <<outcomeGen, lastOutcome>>
  /\ owed' = [owed EXCEPT ![l] = "none"]
  /\ told' = [told EXCEPT ![l] = owed[l]]
  /\ UNCHANGED <<next, gen, conn, requested, initId, recorded, poisoned>>

\* readyz answers 200 or 503 from one look at the state.
Ready == lastOutcome = "ok"

(***************************************************************************)
(* The specification                                                       *)
(***************************************************************************)

Init ==
  /\ next = 0
  /\ gen = [l \in Launches |-> 0]
  /\ conn = [l \in Launches |-> "new"]
  /\ requested = {}
  /\ initId = [l \in Launches |-> None]
  /\ recorded = {}
  /\ owed = [l \in Launches |-> "none"]
  /\ poisoned = {}
  /\ attempts = 0 /\ failures = 0 /\ outcomeGen = 0 /\ lastOutcome = "ok"
  /\ told = [l \in Launches |-> "none"]

Launch(l) ==
  \/ MakeAgent(l) \/ Connect(l) \/ Abandon(l)
  \/ \E id \in Ids : SeeRequest(l, id) \/ \E o \in {"ok", "failure"} : SeeResponse(l, id, o)
  \/ StderrPanics(l) \/ Complete(l) \/ DropGuard(l) \/ Record(l)

Next == \E l \in Launches : Launch(l)

Spec == Init /\ [][Next]_vars

(***************************************************************************)
(* Properties                                                              *)
(***************************************************************************)

\* Every variable has its type.
TypeOK ==
  /\ next \in Nat
  /\ gen \in [Launches -> Nat]
  /\ conn \in [Launches -> {"new", "made", "open", "abandoned", "closed"}]
  /\ requested \in SUBSET Launches
  /\ initId \in [Launches -> Ids \cup {None}]
  /\ recorded \in SUBSET Launches
  /\ owed \in [Launches -> Outcomes]
  /\ poisoned \in SUBSET Launches
  /\ attempts \in Nat /\ failures \in Nat /\ outcomeGen \in Nat
  /\ lastOutcome \in {"ok", "failure"}
  /\ told \in [Launches -> Outcomes]

\* The counters that /readyz reports count every launch that recorded an
\* outcome once, whichever of the inspector, the connection's end and the
\* guard got there first.
CountsAreExact ==
  /\ attempts = Cardinality({l \in Launches : told[l] # "none"})
  /\ failures = Cardinality({l \in Launches : told[l] = "failure"})

\* Readiness is the outcome of the newest launch that has one, in whatever
\* order the outcomes arrived.
NewestDecides ==
  \A l \in Launches :
    told[l] # "none" /\ (\A m \in Launches : told[m] # "none" => gen[m] <= gen[l])
      => (Ready <=> told[l] = "ok")

\* Once the connection of a launch is over, by whichever way, the launch has an
\* outcome, unless trimming its stderr tail panicked.
EndedIsRecorded ==
  \A l \in Launches : conn[l] = "closed" /\ l \notin poisoned => l \in recorded

\* No launch is lost: the same without the exception, as the comment above
\* LaunchState says ("the drop guard preserves failures that happen before a
\* response is observed").
NoLaunchIsLost == \A l \in Launches : conn[l] = "closed" => l \in recorded

\* The health state keeps the promise of Readiness.
Promise == INSTANCE Readiness WITH rank <- gen, result <- told, ready <- Ready
KeepsPromise == Promise!Spec

(***************************************************************************)
(* Inductive invariant                                                     *)
(***************************************************************************)

\* Generations are handed out in order and once each.
GenInv ==
  /\ \A l \in Launches : gen[l] <= next
  /\ \A l \in Launches : conn[l] = "new" <=> gen[l] = 0
  /\ \A l, m \in Launches : gen[l] = gen[m] /\ gen[l] # 0 => l = m

\* A launch wins the compare-exchange before it owes a record, and owes it
\* before it has told.
OnceInv ==
  /\ \A l \in Launches : owed[l] # "none" \/ told[l] # "none" => l \in recorded
  /\ \A l \in Launches : owed[l] # "none" => told[l] = "none"
  /\ \A l \in Launches : l \in recorded => conn[l] \in {"open", "closed"}

\* outcome_generation is the generation of the newest launch that has told.
NewestInv ==
  /\ \A l \in Launches : told[l] # "none" => gen[l] <= outcomeGen
  /\ \A l \in Launches :
       told[l] # "none" /\ gen[l] = outcomeGen => lastOutcome = told[l]
  /\ outcomeGen # 0 => \E l \in Launches : told[l] # "none" /\ gen[l] = outcomeGen
  /\ outcomeGen = 0 => Ready

HealthInv == TypeOK /\ GenInv /\ OnceInv /\ NewestInv
================================================================================
