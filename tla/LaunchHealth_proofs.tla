--------------------------- MODULE LaunchHealth_proofs ---------------------------
(***************************************************************************)
(* Proofs about LaunchHealth: for any finite set of launches, /readyz      *)
(* counts every launch once, reports the newest one, loses none whose      *)
(* stderr could be trimmed, and implements Readiness.                      *)
(***************************************************************************)
EXTENDS LaunchHealth, FiniteSetTheorems, TLAPS

(***************************************************************************)
(* The inductive invariant                                                 *)
(***************************************************************************)

\* Every variable keeps its type.
THEOREM TypeCorrect == Spec => []TypeOK
<1>1. Init => TypeOK
  BY DEF Init, TypeOK, Outcomes
<1>2. TypeOK /\ [Next]_vars => TypeOK'
  <2> SUFFICES ASSUME TypeOK, [Next]_vars PROVE TypeOK'
    OBVIOUS
  <2>1. CASE UNCHANGED vars
    BY <2>1 DEF TypeOK, vars, launchVars, healthVars
  <2>2. ASSUME NEW l \in Launches, MakeAgent(l) PROVE TypeOK'
    BY <2>2 DEF TypeOK, MakeAgent, healthVars
  <2>3. ASSUME NEW l \in Launches, Connect(l) \/ Abandon(l) PROVE TypeOK'
    BY <2>3 DEF TypeOK, Connect, Abandon, healthVars
  <2>4. ASSUME NEW l \in Launches, NEW id \in Ids, SeeRequest(l, id) PROVE TypeOK'
    BY <2>4 DEF TypeOK, SeeRequest, healthVars
  <2>5. ASSUME NEW l \in Launches, NEW id \in Ids, NEW o \in {"ok", "failure"},
               SeeResponse(l, id, o)
        PROVE  TypeOK'
    BY <2>5 DEF TypeOK, SeeResponse, TryRecord, Outcomes, healthVars
  <2>6. ASSUME NEW l \in Launches, StderrPanics(l) PROVE TypeOK'
    BY <2>6 DEF TypeOK, StderrPanics, healthVars
  <2>7. ASSUME NEW l \in Launches, Complete(l) PROVE TypeOK'
    BY <2>7 DEF TypeOK, Complete, TryRecord, Outcomes, healthVars
  <2>8. ASSUME NEW l \in Launches, DropGuard(l) PROVE TypeOK'
    BY <2>8 DEF TypeOK, DropGuard, TryRecord, Outcomes, healthVars
  <2>9. ASSUME NEW l \in Launches, Record(l) PROVE TypeOK'
    BY <2>9 DEF TypeOK, Record, Newer, Failed, Outcomes
  <2> QED
    BY <2>1, <2>2, <2>3, <2>4, <2>5, <2>6, <2>7, <2>8, <2>9 DEF Next, Launch
<1> QED
  BY <1>1, <1>2, PTL DEF Spec

\* Generations stay distinct and below the counter.
LEMMA GenStep == TypeOK /\ GenInv /\ [Next]_vars => GenInv'
<1> SUFFICES ASSUME TypeOK, GenInv, [Next]_vars PROVE GenInv'
  OBVIOUS
<1>1. ASSUME NEW l \in Launches, MakeAgent(l) PROVE GenInv'
  BY <1>1 DEF TypeOK, GenInv, MakeAgent
<1>2. ASSUME NEW l \in Launches, Connect(l) \/ Abandon(l) \/ Complete(l) \/ DropGuard(l)
      PROVE  GenInv'
  BY <1>2 DEF TypeOK, GenInv, Connect, Abandon, Complete, DropGuard
<1>3. ASSUME UNCHANGED <<next, gen, conn>> PROVE GenInv'
  BY <1>3 DEF GenInv
<1> QED
  BY <1>1, <1>2, <1>3
  DEF Next, Launch, SeeRequest, SeeResponse, StderrPanics, Record, vars, launchVars

\* A launch owes at most one record, and none after it has told.
LEMMA OnceStep == TypeOK /\ OnceInv /\ [Next]_vars => OnceInv'
<1> SUFFICES ASSUME TypeOK, OnceInv, [Next]_vars PROVE OnceInv'
  OBVIOUS
<1>1. ASSUME NEW l \in Launches, MakeAgent(l) \/ Connect(l) \/ Abandon(l) PROVE OnceInv'
  BY <1>1 DEF TypeOK, OnceInv, MakeAgent, Connect, Abandon
<1>2. ASSUME NEW l \in Launches, NEW id \in Ids, NEW o \in {"ok", "failure"},
             SeeResponse(l, id, o)
      PROVE  OnceInv'
  BY <1>2 DEF TypeOK, OnceInv, SeeResponse, TryRecord
<1>3. ASSUME NEW l \in Launches, Complete(l) PROVE OnceInv'
  BY <1>3 DEF TypeOK, OnceInv, Complete, TryRecord
<1>4. ASSUME NEW l \in Launches, DropGuard(l) PROVE OnceInv'
  BY <1>4 DEF TypeOK, OnceInv, DropGuard, TryRecord
<1>5. ASSUME NEW l \in Launches, Record(l) PROVE OnceInv'
  BY <1>5 DEF TypeOK, OnceInv, Record
<1>6. ASSUME UNCHANGED <<conn, recorded, owed, told>> PROVE OnceInv'
  BY <1>6 DEF OnceInv
<1> QED
  BY <1>1, <1>2, <1>3, <1>4, <1>5, <1>6
  DEF Next, Launch, SeeRequest, StderrPanics, vars, launchVars

\* outcome_generation follows the newest launch that has told.
LEMMA NewestStep ==
  TypeOK /\ GenInv /\ OnceInv /\ NewestInv /\ [Next]_vars => NewestInv'
<1> SUFFICES ASSUME TypeOK, GenInv, OnceInv, NewestInv, [Next]_vars PROVE NewestInv'
  OBVIOUS
<1>1. ASSUME NEW l \in Launches, MakeAgent(l) PROVE NewestInv'
  <2>1. told[l] = "none" /\ UNCHANGED <<told, outcomeGen, lastOutcome>>
    BY <1>1 DEF TypeOK, OnceInv, MakeAgent, healthVars, Outcomes
  <2> QED
    BY <1>1, <2>1 DEF TypeOK, NewestInv, MakeAgent, Ready
<1>2. ASSUME NEW l \in Launches, Record(l) PROVE NewestInv'
  <2>1. /\ told' = [told EXCEPT ![l] = owed[l]] /\ told[l] = "none"
        /\ gen' = gen /\ owed[l] \in {"ok", "failure"} /\ l \in recorded /\ gen[l] # 0
    BY <1>2 DEF TypeOK, OnceInv, GenInv, Record, Outcomes
  <2>2. CASE Newer(l)
    <3>1. outcomeGen' = gen[l] /\ lastOutcome' = owed[l]
      BY <1>2, <2>2 DEF Record
    <3>2. \A m \in Launches : m # l /\ told[m] # "none" => gen[m] < gen[l]
      BY <2>2 DEF TypeOK, NewestInv, Newer
    <3> QED
      BY <2>1, <3>1, <3>2 DEF TypeOK, NewestInv
  <2>3. CASE ~Newer(l)
    <3>1. UNCHANGED <<outcomeGen, lastOutcome>> /\ gen[l] <= outcomeGen
      BY <1>2, <2>3 DEF Record, TypeOK, Newer
    <3>2. outcomeGen # 0
      BY <2>1, <3>1 DEF TypeOK
    <3>3. PICK m \in Launches : told[m] # "none" /\ gen[m] = outcomeGen
      BY <3>2 DEF NewestInv
    <3>4. m # l /\ gen[l] # outcomeGen
      BY <2>1, <3>2, <3>3 DEF GenInv
    <3> QED
      BY <2>1, <3>1, <3>2, <3>3, <3>4 DEF TypeOK, NewestInv
  <2> QED
    BY <2>2, <2>3
<1>3. ASSUME UNCHANGED <<gen, told, outcomeGen, lastOutcome>> PROVE NewestInv'
  BY <1>3 DEF NewestInv, Ready
<1> QED
  BY <1>1, <1>2, <1>3
  DEF Next, Launch, Connect, Abandon, SeeRequest, SeeResponse, StderrPanics, Complete,
      DropGuard, vars, launchVars, healthVars

LEMMA HealthInvariant == Spec => []HealthInv
<1>1. Init => HealthInv
  BY DEF Init, HealthInv, TypeOK, GenInv, OnceInv, NewestInv, Outcomes, Ready
<1>2. HealthInv /\ [Next]_vars => (GenInv /\ OnceInv /\ NewestInv)'
  BY GenStep, OnceStep, NewestStep DEF HealthInv
<1>3. Init => GenInv /\ OnceInv /\ NewestInv
  BY <1>1 DEF HealthInv
<1> QED
  BY <1>2, <1>3, TypeCorrect, PTL DEF Spec, HealthInv

(***************************************************************************)
(* What /readyz answers                                                    *)
(***************************************************************************)

\* Readiness is the outcome of the newest launch that has one.
THEOREM ReadinessIsNewest == Spec => []NewestDecides
<1>1. HealthInv => NewestDecides
  <2> SUFFICES ASSUME HealthInv, NEW l \in Launches, told[l] # "none",
                      \A m \in Launches : told[m] # "none" => gen[m] <= gen[l]
               PROVE  Ready <=> told[l] = "ok"
    BY DEF NewestDecides
  <2>1. gen[l] = outcomeGen
    BY DEF HealthInv, TypeOK, NewestInv
  <2> QED
    BY <2>1 DEF HealthInv, TypeOK, NewestInv, Ready, Outcomes
<1> QED
  BY <1>1, HealthInvariant, PTL

\* The end of a connection is recorded whichever way it came.
THEOREM EndsAreRecorded == Spec => []EndedIsRecorded
<1>1. Init => EndedIsRecorded
  BY DEF Init, EndedIsRecorded
<1>2. TypeOK /\ EndedIsRecorded /\ [Next]_vars => EndedIsRecorded'
  <2> SUFFICES ASSUME TypeOK, EndedIsRecorded, [Next]_vars PROVE EndedIsRecorded'
    OBVIOUS
  <2>1. ASSUME NEW l \in Launches, MakeAgent(l) \/ Connect(l) \/ Abandon(l) \/ StderrPanics(l)
        PROVE  EndedIsRecorded'
    BY <2>1 DEF TypeOK, EndedIsRecorded, MakeAgent, Connect, Abandon, StderrPanics
  <2>2. ASSUME NEW l \in Launches, Complete(l) \/ DropGuard(l) PROVE EndedIsRecorded'
    BY <2>2 DEF TypeOK, EndedIsRecorded, Complete, DropGuard, TryRecord
  <2>3. ASSUME UNCHANGED <<conn, poisoned>>, recorded \subseteq recorded'
        PROVE  EndedIsRecorded'
    BY <2>3 DEF EndedIsRecorded
  <2> QED
    BY <2>1, <2>2, <2>3
    DEF Next, Launch, SeeRequest, SeeResponse, TryRecord, Record, vars, launchVars
<1> QED
  BY <1>1, <1>2, TypeCorrect, PTL DEF Spec

(***************************************************************************)
(* The counters                                                            *)
(***************************************************************************)

\* The launches whose record is of one of the kinds in K.
Told(K) == {l \in Launches : told[l] \in K}

\* A record adds its launch to the tellers, and to no other count.
LEMMA TellOne ==
  ASSUME TypeOK, NEW l \in Launches, NEW K, told[l] = "none", "none" \notin K,
         NEW o, told' = [told EXCEPT ![l] = o]
  PROVE  Cardinality(Told(K))' = Cardinality(Told(K)) + (IF o \in K THEN 1 ELSE 0)
<1>1. Told(K)' = IF o \in K THEN Told(K) \cup {l} ELSE Told(K)
  BY DEF TypeOK, Told
<1>2. IsFiniteSet(Told(K)) /\ l \notin Told(K)
  BY LaunchAssumption, FS_Subset DEF Told
<1> QED
  BY <1>1, <1>2, FS_AddElement, FS_CardinalityType

\* attempts and failures count every launch that recorded, once.
THEOREM CountsEveryLaunch == Spec => []CountsAreExact
<1> DEFINE Counts == /\ attempts = Cardinality(Told({"ok", "failure"}))
                     /\ failures = Cardinality(Told({"failure"}))
<1>1. Init => Counts
  BY FS_EmptySet DEF Init, Told
<1>2. HealthInv /\ Counts /\ [Next]_vars => Counts'
  <2> SUFFICES ASSUME HealthInv, Counts, [Next]_vars PROVE Counts'
    OBVIOUS
  <2>1. ASSUME NEW l \in Launches, Record(l) PROVE Counts'
    <3>1. TypeOK /\ told[l] = "none" /\ owed[l] \in {"ok", "failure"}
      BY <2>1 DEF HealthInv, TypeOK, OnceInv, Record, Outcomes
    <3>2. told' = [told EXCEPT ![l] = owed[l]]
      BY <2>1 DEF Record
    <3>3. Cardinality(Told({"ok", "failure"}))' = Cardinality(Told({"ok", "failure"})) + 1
      BY <3>1, <3>2, TellOne
    <3>4. Cardinality(Told({"failure"}))'
            = Cardinality(Told({"failure"})) + (IF owed[l] = "failure" THEN 1 ELSE 0)
      BY <3>1, <3>2, TellOne
    <3>5. attempts' = attempts + 1 /\ failures' = Failed(l)
      BY <2>1 DEF Record
    <3> QED
      BY <3>1, <3>3, <3>4, <3>5 DEF Failed, TypeOK
  <2>2. ASSUME UNCHANGED <<attempts, failures, told>> PROVE Counts'
    BY <2>2 DEF Told
  <2> QED
    BY <2>1, <2>2
    DEF Next, Launch, MakeAgent, Connect, Abandon, SeeRequest, SeeResponse, StderrPanics,
        Complete, DropGuard, vars, healthVars
<1>3. HealthInv /\ Counts => CountsAreExact
  <2> SUFFICES ASSUME HealthInv, Counts PROVE CountsAreExact
    OBVIOUS
  <2>1. {l \in Launches : told[l] # "none"} = Told({"ok", "failure"})
    BY DEF HealthInv, TypeOK, Outcomes, Told
  <2>2. {l \in Launches : told[l] = "failure"} = Told({"failure"})
    BY DEF Told
  <2> QED
    BY <2>1, <2>2 DEF CountsAreExact
<1> QED
  BY <1>1, <1>2, <1>3, HealthInvariant, PTL DEF Spec

(***************************************************************************)
(* The refinement                                                          *)
(***************************************************************************)

\* The health state implements Readiness: every step begins a launch, reports
\* one, or is not seen.
THEOREM HealthKeepsPromise == Spec => KeepsPromise
<1>1. Init => Promise!Init
  BY DEF Init, Promise!Init, Ready
<1>2. HealthInv /\ [Next]_vars => [Promise!Next]_<<gen, told, Ready>>
  <2> SUFFICES ASSUME HealthInv, [Next]_vars
               PROVE  Promise!Next \/ UNCHANGED <<gen, told, Ready>>
    OBVIOUS
  <2>1. ASSUME NEW l \in Launches, MakeAgent(l) PROVE Promise!Begin(l)
    BY <2>1 DEF HealthInv, TypeOK, GenInv, MakeAgent, Promise!Begin, Ready, healthVars
  <2>2. ASSUME NEW l \in Launches, Record(l)
        PROVE  \E r \in {"ok", "failure"} : Promise!Report(l, r)
    <3>1. /\ owed[l] \in {"ok", "failure"} /\ told[l] = "none" /\ gen[l] > 0
          /\ gen' = gen /\ told' = [told EXCEPT ![l] = owed[l]]
      BY <2>2 DEF HealthInv, TypeOK, OnceInv, GenInv, Record, Outcomes
    <3>2. Newer(l) <=> \A m \in Launches : told[m] # "none" => gen[m] < gen[l]
      BY <3>1 DEF HealthInv, TypeOK, NewestInv, Newer
    <3>3. Ready' = IF Newer(l) THEN owed[l] = "ok" ELSE Ready
      BY <2>2, <3>1 DEF Record, Ready
    <3> QED
      BY <3>1, <3>2, <3>3 DEF Promise!Report
  <2>3. ASSUME UNCHANGED <<gen, told, lastOutcome>> PROVE UNCHANGED <<gen, told, Ready>>
    BY <2>3 DEF Ready
  <2> QED
    BY <2>1, <2>2, <2>3
    DEF Next, Launch, Connect, Abandon, SeeRequest, SeeResponse, StderrPanics, Complete,
        DropGuard, vars, launchVars, healthVars, Promise!Next
<1> QED
  BY <1>1, <1>2, HealthInvariant, PTL DEF Spec, KeepsPromise, Promise!Spec
================================================================================
