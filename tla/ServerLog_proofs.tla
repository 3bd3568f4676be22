----------------------------- MODULE ServerLog_proofs -----------------------------
(***************************************************************************)
(* Proofs about ServerLog: no line of an agent is lost without a report,   *)
(* and what `server logs` prints are the last lines of the log, for any    *)
(* agents, texts, queue and chunks.                                        *)
(***************************************************************************)
EXTENDS ServerLog, FiniteSetTheorems, SequenceTheorems, WellFoundedInduction, TLAPS

USE DEF sinkVars, tailVars, vars, Sink!sinkVars, Sink!vars

LEMMA SinkFirst == Init => SinkInv
<1> SUFFICES ASSUME Init
             PROVE  Sink!TypeOK /\ \A a \in Agents : Sink!NoneIsLost(a) /\ Sink!ReportInv(a)
  BY DEF SinkInv, Sink!SinkInv
<1> USE DEF Sink!OfAll
<1>1. /\ alive = FALSE
      /\ elapsed = [a \in Agents |-> FALSE] /\ due = [a \in Agents |-> FALSE]
      /\ pushed = [a \in Agents |-> 0] /\ dropped = [a \in Agents |-> 0]
      /\ reported = [a \in Agents |-> 0] /\ told = [a \in Agents |-> 0]
      /\ queue = [a \in Agents |-> <<>>] /\ written = [a \in Agents |-> <<>>]
      /\ hand = [a \in Agents |-> None] /\ todo = [a \in Agents |-> <<>>]
  BY DEF Init, Sink!Init
<1>2. Sink!TypeOK
  <2>1. alive \in BOOLEAN /\ elapsed \in [Agents -> BOOLEAN] /\ due \in [Agents -> BOOLEAN]
    BY <1>1, Zenon
  <2>2. /\ queue \in [Agents -> Seq(Sink!Ids)] /\ written \in [Agents -> Seq(Sink!Ids)]
        /\ hand \in [Agents -> Sink!Ids \cup {None}] /\ DOMAIN todo = Agents
    BY <1>1
  <2> QED
    BY <1>1, <2>1, <2>2 DEF Sink!TypeOK
<1>3. ASSUME NEW a \in Agents PROVE Sink!NoneIsLost(a) /\ Sink!ReportInv(a)
  <2>1. /\ pushed[a] = 0 /\ dropped[a] = 0 /\ reported[a] = 0 /\ told[a] = 0
        /\ queue[a] = <<>> /\ written[a] = <<>> /\ hand[a] = None
    BY <1>1
  <2> QED
    BY <2>1 DEF Sink!NoneIsLost, Sink!InHand, Sink!ReportInv
<1> QED
  BY <1>2, <1>3

\* A sink that is as it was accounts for its lines as it did.
LEMMA SinkStays ==
  ASSUME SinkInv, NEW b \in Agents,
         pushed'[b] = pushed[b], queue'[b] = queue[b], hand'[b] = hand[b], todo'[b] = todo[b],
         dropped'[b] = dropped[b], reported'[b] = reported[b], written'[b] = written[b],
         told'[b] = told[b], due'[b] = due[b]
  PROVE  Sink!NoneIsLost(b)' /\ Sink!ReportInv(b)'
<1>1. Sink!NoneIsLost(b) /\ Sink!ReportInv(b)
  BY DEF SinkInv, Sink!SinkInv
<1>2. Sink!InHand(b)' = Sink!InHand(b)
  BY DEF Sink!InHand
<1>3. Sink!NoneIsLost(b)'
  BY <1>1, <1>2 DEF Sink!NoneIsLost
<1>4. Sink!ReportInv(b)'
  BY <1>1 DEF Sink!ReportInv
<1> QED
  BY <1>3, <1>4

\* push: the line goes into the queue, or is counted because the queue is full.
LEMMA PushKeeps ==
  ASSUME SinkInv, NEW a \in Agents, Sink!Push(a)
  PROVE  SinkInv'
<1> USE DEF SinkInv, Sink!SinkInv
<1>1. /\ UNCHANGED <<alive, hand, todo, reported, elapsed, written, told, due>>
      /\ pushed' = [pushed EXCEPT ![a] = @ + 1] /\ pushed[a] + 1 \in Sink!Ids
      /\ queue[a] \in Seq(Sink!Ids) /\ Len(queue[a]) \in Nat /\ dropped[a] \in Nat
  BY DEF Sink!Push, Sink!TypeOK, Sink!Ids
<1>2. /\ pushed'[a] = pushed[a] + 1 /\ \A b \in Agents \ {a} : pushed'[b] = pushed[b]
      /\ pushed' \in [Agents -> Nat]
  BY <1>1 DEF Sink!TypeOK
<1>3. Sink!InHand(a)' = Sink!InHand(a) /\ Sink!InHand(a) \in Nat
  BY <1>1 DEF Sink!InHand
<1>4. CASE queue' = [queue EXCEPT ![a] = Append(@, pushed[a] + 1)] /\ UNCHANGED dropped
  <2>1. /\ queue'[a] = Append(queue[a], pushed[a] + 1)
        /\ \A b \in Agents \ {a} : queue'[b] = queue[b]
    BY <1>4 DEF Sink!TypeOK
  <2>2. queue'[a] \in Seq(Sink!Ids) /\ queue'[a] # <<>> /\ Len(queue'[a]) = Len(queue[a]) + 1
    BY <1>1, <2>1
  <2>3. Sink!TypeOK'
    BY <1>1, <1>2, <1>4, <2>1, <2>2 DEF Sink!TypeOK
  <2>4. Sink!NoneIsLost(a)'
    BY <1>1, <1>2, <1>3, <1>4, <2>2 DEF Sink!TypeOK, Sink!NoneIsLost
  <2>5. Sink!ReportInv(a)'
    BY <1>1, <1>4, <2>2 DEF Sink!TypeOK, Sink!ReportInv
  <2>6. \A b \in Agents \ {a} : Sink!NoneIsLost(b)' /\ Sink!ReportInv(b)'
    BY <1>1, <1>2, <1>4, <2>1, SinkStays
  <2> QED
    BY <2>3, <2>4, <2>5, <2>6
<1>5. CASE dropped' = [dropped EXCEPT ![a] = @ + 1] /\ UNCHANGED queue /\ Len(queue[a]) >= Capacity
  <2>1. queue[a] # <<>>
    <3>1. Capacity > 0 /\ Len(<<>>) = 0
      BY LogAssumption
    <3> QED
      BY <1>1, <1>5, <3>1, LogAssumption
  <2>2. /\ dropped'[a] = dropped[a] + 1 /\ \A b \in Agents \ {a} : dropped'[b] = dropped[b]
        /\ dropped' \in [Agents -> Nat]
    BY <1>1, <1>5 DEF Sink!TypeOK
  <2>3. Sink!TypeOK'
    BY <1>1, <1>2, <1>5, <2>2 DEF Sink!TypeOK
  <2>4. Sink!NoneIsLost(a)'
    BY <1>1, <1>2, <1>3, <1>5, <2>2 DEF Sink!TypeOK, Sink!NoneIsLost
  <2>5. Sink!ReportInv(a)'
    BY <1>1, <1>5, <2>1, <2>2 DEF Sink!TypeOK, Sink!ReportInv
  <2>6. \A b \in Agents \ {a} : Sink!NoneIsLost(b)' /\ Sink!ReportInv(b)'
    BY <1>1, <1>2, <1>5, <2>2, SinkStays
  <2> QED
    BY <2>3, <2>4, <2>5, <2>6
<1>6. Len(queue[a]) < Capacity \/ Len(queue[a]) >= Capacity
  BY <1>1, LogAssumption
<1> QED
  BY <1>1, <1>4, <1>5, <1>6 DEF Sink!Push

LEMMA WriterKeeps ==
  ASSUME SinkInv, NEW a \in Agents, Sink!Writer(a)
  PROVE  SinkInv'
<1> USE DEF SinkInv, Sink!SinkInv
<1>1. CASE Sink!Receive(a)
  <2>1. /\ UNCHANGED <<alive, pushed, dropped, reported, elapsed, written, told, due>>
        /\ hand[a] = None /\ queue[a] # <<>> /\ queue[a] \in Seq(Sink!Ids)
        /\ hand' = [hand EXCEPT ![a] = Head(queue[a])]
        /\ queue' = [queue EXCEPT ![a] = Tail(@)]
        /\ todo' = [todo EXCEPT ![a] = Sink!Lines(Text[a][Head(queue[a])])]
    BY <1>1 DEF Sink!Receive, Sink!Idle, Sink!TypeOK
  <2>2. /\ hand'[a] = Head(queue[a]) /\ queue'[a] = Tail(queue[a]) /\ todo'[a] # <<>>
        /\ \A b \in Agents \ {a} :
             hand'[b] = hand[b] /\ queue'[b] = queue[b] /\ todo'[b] = todo[b]
    BY <2>1 DEF Sink!TypeOK, Sink!Lines
  <2>3. /\ hand'[a] \in Sink!Ids /\ hand'[a] # None
        /\ queue'[a] \in Seq(Sink!Ids) /\ Len(queue[a]) = Len(queue'[a]) + 1
    <3>1. queue[a] \in Seq(Sink!Ids) /\ queue[a] # <<>>
      BY <2>1
    <3>2. /\ Head(queue[a]) \in Sink!Ids /\ Tail(queue[a]) \in Seq(Sink!Ids)
          /\ Len(Tail(queue[a])) = Len(queue[a]) - 1
      BY <3>1, HeadTailProperties
    <3>3. Len(queue[a]) = Len(Tail(queue[a])) + 1
      BY <3>1, <3>2, LenProperties
    <3>4. None \notin Sink!Ids
      BY LogAssumption
    <3> QED
      BY <2>2, <3>2, <3>3, <3>4
  <2>4. Sink!TypeOK'
    BY <2>1, <2>2, <2>3 DEF Sink!TypeOK
  <2>5. Sink!NoneIsLost(a)' /\ Sink!ReportInv(a)'
    <3>1. /\ Sink!NoneIsLost(a) /\ Sink!ReportInv(a)
          /\ Len(written[a]) \in Nat /\ dropped[a] \in Nat /\ pushed[a] \in Nat
          /\ Len(queue[a]) \in Nat /\ Len(queue'[a]) \in Nat
      BY <2>1, <2>3, LenProperties DEF Sink!TypeOK
    <3>2. Sink!InHand(a) = 0 /\ Sink!InHand(a)' = 1
      BY <2>1, <2>2, <2>3 DEF Sink!InHand
    <3>3. /\ pushed'[a] = pushed[a] /\ dropped'[a] = dropped[a] /\ written'[a] = written[a]
          /\ told'[a] = told[a] /\ reported'[a] = reported[a] /\ Len(queue[a]) = Len(queue'[a]) + 1
      BY <2>1, <2>3
    <3>4. Sink!NoneIsLost(a)'
      BY <2>1, <2>4, <3>1, <3>2, <3>3 DEF Sink!TypeOK, Sink!NoneIsLost
    <3>5. Sink!ReportInv(a)'
      BY <2>3, <3>1, <3>3 DEF Sink!ReportInv
    <3> QED
      BY <3>4, <3>5
  <2>6. \A b \in Agents \ {a} : Sink!NoneIsLost(b)' /\ Sink!ReportInv(b)'
    BY <2>1, <2>2, SinkStays
  <2> QED
    BY <2>4, <2>5, <2>6
<1>2. CASE Sink!Write(a)
  <2>1. /\ UNCHANGED <<alive, pushed, queue, hand, dropped, reported, elapsed, told, due>>
        /\ todo[a] # <<>> /\ todo' = [todo EXCEPT ![a] = Tail(@)]
        /\ IF Tail(todo[a]) = <<>> /\ hand[a] # None
           THEN written' = [written EXCEPT ![a] = Append(@, hand[a])] ELSE UNCHANGED written
    BY <1>2 DEF Sink!Write
  <2>2. /\ todo'[a] = Tail(todo[a]) /\ DOMAIN todo' = Agents
        /\ \A b \in Agents \ {a} : todo'[b] = todo[b]
    BY <2>1 DEF Sink!TypeOK
  <2>3. CASE Tail(todo[a]) = <<>> /\ hand[a] # None
    <3>1. /\ written'[a] = Append(written[a], hand[a]) /\ hand[a] \in Sink!Ids
          /\ \A b \in Agents \ {a} : written'[b] = written[b]
      BY <2>1, <2>3 DEF Sink!TypeOK
    <3>2. written'[a] \in Seq(Sink!Ids) /\ Len(written'[a]) = Len(written[a]) + 1
      BY <3>1 DEF Sink!TypeOK
    <3>3. Sink!TypeOK'
      BY <2>1, <2>2, <2>3, <3>1, <3>2 DEF Sink!TypeOK
    <3>4. Sink!NoneIsLost(a)' /\ Sink!ReportInv(a)'
      BY <2>1, <2>2, <2>3, <3>2 DEF Sink!TypeOK, Sink!NoneIsLost, Sink!InHand, Sink!ReportInv
    <3>5. \A b \in Agents \ {a} : Sink!NoneIsLost(b)' /\ Sink!ReportInv(b)'
      BY <2>1, <2>2, <3>1, SinkStays
    <3> QED
      BY <3>3, <3>4, <3>5
  <2>4. CASE ~ (Tail(todo[a]) = <<>> /\ hand[a] # None)
    <3>1. Sink!TypeOK'
      BY <2>1, <2>2, <2>4 DEF Sink!TypeOK
    <3>2. Sink!NoneIsLost(a)' /\ Sink!ReportInv(a)'
      BY <2>1, <2>2, <2>4 DEF Sink!TypeOK, Sink!NoneIsLost, Sink!InHand, Sink!ReportInv
    <3>3. \A b \in Agents \ {a} : Sink!NoneIsLost(b)' /\ Sink!ReportInv(b)'
      BY <2>1, <2>2, <2>4, SinkStays
    <3> QED
      BY <3>1, <3>2, <3>3
  <2> QED
    BY <2>3, <2>4
<1>3. CASE Sink!Check(a)
  <2>1. /\ UNCHANGED <<alive, pushed, queue, dropped, written>>
        /\ hand[a] # None /\ todo[a] = <<>>
        /\ hand' = [hand EXCEPT ![a] = None] /\ due' = [due EXCEPT ![a] = elapsed[a]]
        /\ \/ /\ todo' = [todo EXCEPT ![a] = Sink!Lines(Warning)]
              /\ told' = [told EXCEPT ![a] = dropped[a]]
              /\ reported' = [reported EXCEPT ![a] = dropped[a]]
              /\ elapsed' = [elapsed EXCEPT ![a] = FALSE]
           \/ /\ UNCHANGED <<todo, told, reported, elapsed>>
              /\ ~ (dropped[a] > reported[a] /\ elapsed[a])
    BY <1>3 DEF Sink!Check
  <2>2. /\ hand'[a] = None /\ due'[a] = elapsed[a]
        /\ \/ told'[a] = dropped[a] /\ reported'[a] = dropped[a]
           \/ /\ told'[a] = told[a] /\ reported'[a] = reported[a]
              /\ ~ (dropped[a] > reported[a] /\ elapsed[a])
        /\ \A b \in Agents \ {a} :
             /\ hand'[b] = hand[b] /\ due'[b] = due[b] /\ told'[b] = told[b]
             /\ reported'[b] = reported[b] /\ todo'[b] = todo[b]
    BY <2>1 DEF Sink!TypeOK
  <2>3. Sink!TypeOK'
    BY <2>1 DEF Sink!TypeOK
  <2>4. Sink!NoneIsLost(a)'
    BY <2>1, <2>2 DEF Sink!TypeOK, Sink!NoneIsLost, Sink!InHand
  <2>5. Sink!ReportInv(a)'
    BY <2>1, <2>2 DEF Sink!TypeOK, Sink!ReportInv
  <2>6. \A b \in Agents \ {a} : Sink!NoneIsLost(b)' /\ Sink!ReportInv(b)'
    BY <2>1, <2>2, SinkStays
  <2> QED
    BY <2>3, <2>4, <2>5, <2>6
<1> QED
  BY <1>1, <1>2, <1>3 DEF Sink!Writer

\* The end of a server takes its lines and its counters with it.
LEMMA RestKeeps ==
  ASSUME SinkInv,
         Sink!StartServer \/ (\E a \in Agents : Sink!SecondPasses(a)) \/ Sink!ServerEnds
  PROVE  SinkInv'
<1> USE DEF SinkInv, Sink!SinkInv
<1>1. CASE Sink!StartServer
  <2>1. /\ UNCHANGED <<pushed, queue, hand, todo, dropped, reported, elapsed, written, told, due>>
        /\ alive' = TRUE
    BY <1>1 DEF Sink!StartServer
  <2>2. Sink!TypeOK'
    BY <2>1 DEF Sink!TypeOK
  <2>3. \A b \in Agents : Sink!NoneIsLost(b)' /\ Sink!ReportInv(b)'
    BY <2>1, SinkStays
  <2> QED
    BY <2>2, <2>3
<1>2. ASSUME NEW a \in Agents, Sink!SecondPasses(a) PROVE SinkInv'
  <2>1. /\ UNCHANGED <<alive, pushed, queue, hand, todo, dropped, reported, written, told, due>>
        /\ elapsed' = [elapsed EXCEPT ![a] = TRUE]
    BY <1>2 DEF Sink!SecondPasses
  <2>2. Sink!TypeOK'
    BY <2>1 DEF Sink!TypeOK
  <2>3. \A b \in Agents : Sink!NoneIsLost(b)' /\ Sink!ReportInv(b)'
    BY <2>1, SinkStays
  <2> QED
    BY <2>2, <2>3
<1>3. CASE Sink!ServerEnds
  <2> USE DEF Sink!OfAll
  <2>1. /\ alive' = FALSE
        /\ elapsed' = [a \in Agents |-> FALSE] /\ due' = [a \in Agents |-> FALSE]
        /\ pushed' = [a \in Agents |-> 0] /\ dropped' = [a \in Agents |-> 0]
        /\ reported' = [a \in Agents |-> 0] /\ told' = [a \in Agents |-> 0]
        /\ queue' = [a \in Agents |-> <<>>] /\ written' = [a \in Agents |-> <<>>]
        /\ hand' = [a \in Agents |-> None] /\ todo' = [a \in Agents |-> <<>>]
    BY <1>3 DEF Sink!ServerEnds
  <2>2. alive' \in BOOLEAN /\ elapsed' \in [Agents -> BOOLEAN] /\ due' \in [Agents -> BOOLEAN]
    BY <2>1, Zenon
  <2>3. /\ queue' \in [Agents -> Seq(Sink!Ids)] /\ written' \in [Agents -> Seq(Sink!Ids)]
        /\ hand' \in [Agents -> Sink!Ids \cup {None}] /\ DOMAIN todo' = Agents
    BY <2>1
  <2>4. Sink!TypeOK'
    BY <2>1, <2>2, <2>3 DEF Sink!TypeOK
  <2>5. ASSUME NEW a \in Agents PROVE Sink!NoneIsLost(a)' /\ Sink!ReportInv(a)'
    <3>1. /\ pushed'[a] = 0 /\ dropped'[a] = 0 /\ reported'[a] = 0 /\ told'[a] = 0
          /\ queue'[a] = <<>> /\ written'[a] = <<>> /\ hand'[a] = None
      BY <2>1
    <3>2. ~ due'[a]
      BY <2>1
    <3> QED
      BY <3>1, <3>2 DEF Sink!NoneIsLost, Sink!InHand, Sink!ReportInv
  <2> QED
    BY <2>4, <2>5
<1> QED
  BY <1>1, <1>2, <1>3

\* Each line of an agent is in the log, in its writer's hand, in its queue or counted,
\* and what was reported is what the writer had counted when it looked last.
THEOREM SinkInvariant == Spec => []SinkInv
<1>1. SinkInv /\ [Next]_vars => SinkInv'
  <2> SUFFICES ASSUME SinkInv, [Next]_vars PROVE SinkInv'
    OBVIOUS
  <2>1. CASE Sink!Next
    BY <2>1, PushKeeps, WriterKeeps, RestKeeps DEF Sink!Next
  <2>2. CASE UNCHANGED sinkVars
    <3>1. Sink!TypeOK'
      BY <2>2 DEF SinkInv, Sink!SinkInv, Sink!TypeOK
    <3>2. \A b \in Agents : Sink!NoneIsLost(b)' /\ Sink!ReportInv(b)'
      BY <2>2, SinkStays
    <3> QED
      BY <3>1, <3>2 DEF SinkInv, Sink!SinkInv
  <2> QED
    BY <2>1, <2>2 DEF Next
<1> QED
  BY SinkFirst, <1>1, PTL DEF Spec

\* No line is lost without a report: when the sink of an agent is quiet and its writer
\* looked after its second was over, the log and the last report account for every line
\* that the agent printed; and no report claims more than was dropped (AgentStderr).
THEOREM OverflowsAreReported == Spec => []OverflowIsReported
<1>1. ASSUME SinkInv PROVE OverflowIsReported
  <2> USE <1>1 DEF SinkInv, Sink!SinkInv
  <2> SUFFICES ASSUME NEW a \in Agents
               PROVE  /\ told[a] <= dropped[a]
                      /\ alive /\ Sink!Idle(a) /\ queue[a] = <<>> /\ due[a] =>
                           Len(written[a]) + told[a] = pushed[a]
    BY DEF OverflowIsReported, Sink!OverflowIsReported
  <2>1. told[a] <= dropped[a]
    BY DEF Sink!ReportInv
  <2>2. ASSUME Sink!Idle(a), queue[a] = <<>>, due[a] PROVE Len(written[a]) + told[a] = pushed[a]
    <3>1. told[a] = dropped[a] /\ Sink!InHand(a) = 0 /\ Len(queue[a]) = 0
      BY <2>2 DEF Sink!Idle, Sink!ReportInv, Sink!InHand
    <3>2. written[a] \in Seq(Sink!Ids) /\ dropped[a] \in Nat
      BY DEF Sink!TypeOK
    <3> QED
      BY <3>1, <3>2 DEF Sink!NoneIsLost
  <2> QED
    BY <2>1, <2>2
<1> QED
  BY <1>1, SinkInvariant, PTL

(***************************************************************************)
(* Counting from the end                                                   *)
(***************************************************************************)

Down(T, i) == Cardinality({j \in T : j >= i})

\* The members of a set of positions are counted down, one after the other, and a
\* count from the front tells the one from the end.
LEMMA CountedDown ==
  ASSUME NEW n \in Nat, NEW T \in SUBSET (1..n)
  PROVE  /\ IsFiniteSet(T) /\ Cardinality(T) \in Nat
         /\ \A i \in T : Down(T, i) \in 1..Cardinality(T)
         /\ \A i, j \in T : i < j => Down(T, j) < Down(T, i)
         /\ \A k \in 1..Cardinality(T) : \E i \in T : Down(T, i) = k
         /\ \A i \in T : Cardinality({j \in T : j <= i}) = Cardinality(T) + 1 - Down(T, i)
<1> DEFINE Above(i) == {j \in T : j >= i}
           Below(i) == {j \in T : j <= i}
           down == [i \in T |-> Down(T, i)]
           c == Cardinality(T)
<1>1. IsFiniteSet(T) /\ c \in Nat /\ T \subseteq Int
  <2>1. IsFiniteSet(1..n)
    BY FS_Interval
  <2>2. IsFiniteSet(T)
    BY <2>1, FS_Subset
  <2>3. T \subseteq Int
    OBVIOUS
  <2> QED
    BY <2>2, <2>3, FS_CardinalityType
<1>2. ASSUME NEW i \in T
      PROVE  /\ IsFiniteSet(Above(i)) /\ Down(T, i) \in 1..c
             /\ Down(T, i) = Cardinality(Above(i))
  <2>1. Above(i) \in SUBSET T /\ i \in Above(i)
    BY <1>1
  <2>2. IsFiniteSet(Above(i)) /\ Cardinality(Above(i)) <= c
    BY <1>1, <2>1, FS_Subset
  <2>3. Cardinality(Above(i)) \in Nat /\ Cardinality(Above(i)) # 0
    BY <2>1, <2>2, FS_CardinalityType, FS_EmptySet
  <2> QED
    BY <1>1, <2>2, <2>3 DEF Down
<1>3. ASSUME NEW i \in T, NEW j \in T, i < j
      PROVE  Down(T, j) < Down(T, i)
  <2>1. Above(j) \in SUBSET Above(i) /\ i \in Above(i) /\ i \notin Above(j)
    <3>1. i \in Int /\ j \in Int
      BY <1>1
    <3>2. \A k \in T : k >= j => k >= i
      BY <1>1, <1>3, <3>1
    <3>3. ~ (i >= j) /\ i >= i
      BY <1>3, <3>1
    <3> QED
      BY <3>2, <3>3
  <2>2. /\ Cardinality(Above(j)) <= Cardinality(Above(i))
        /\ Cardinality(Above(i)) = Cardinality(Above(j)) => Above(i) = Above(j)
    BY <1>2, <2>1, FS_Subset
  <2> HIDE DEF Above
  <2> QED
    BY <1>2, <2>1, <2>2
<1>4. down \in Injection(T, 1..c)
  <2>1. down \in [T -> 1..c]
    BY <1>2
  <2>2. ASSUME NEW i \in T, NEW j \in T, down[i] = down[j] PROVE i = j
    <3>1. Down(T, i) = Down(T, j)
      BY <2>2
    <3>2. Down(T, i) \in 1..c /\ Down(T, j) \in 1..c
      BY <1>2
    <3>3. ~ (i < j) /\ ~ (j < i)
      BY <1>3, <3>1, <3>2
    <3> QED
      BY <1>1, <3>3
  <2> QED
    BY <2>1, <2>2 DEF Injection, IsInjective
<1>5. down \in Surjection(T, 1..c)
  <2>1. IsFiniteSet(1..c) /\ Cardinality(1..c) = c
    BY <1>1, FS_Interval
  <2> QED
    BY <1>4, <2>1, FS_Injection
<1>6. \A k \in 1..c : \E i \in T : down[i] = k
  BY <1>5 DEF Surjection
<1>7. ASSUME NEW i \in T
      PROVE  Cardinality(Below(i)) = c + 1 - Down(T, i)
  <2>1. Above(i) \cup Below(i) = T /\ Above(i) \cap Below(i) = {i}
    <3>1. \A j \in T : (j >= i \/ j <= i) /\ (j >= i /\ j <= i => j = i) /\ i >= i /\ i <= i
      BY <1>1
    <3> QED
      BY <3>1
  <2>2. IsFiniteSet(Below(i)) /\ IsFiniteSet(Above(i))
    <3>1. Below(i) \in SUBSET T
      OBVIOUS
    <3> QED
      BY <1>1, <1>2, <3>1, FS_Subset
  <2>3. Cardinality(Above(i) \cup Below(i)) =
          Cardinality(Above(i)) + Cardinality(Below(i)) - Cardinality(Above(i) \cap Below(i))
    BY <2>2, FS_Union
  <2>4. Cardinality({i}) = 1 /\ Cardinality(Below(i)) \in Nat
    BY <2>2, FS_Singleton, FS_CardinalityType
  <2> HIDE DEF Above, Below
  <2> QED
    BY <1>1, <1>2, <2>1, <2>3, <2>4
<1> QED
  BY <1>1, <1>2, <1>3, <1>6, <1>7

\* A set of positions has a first one.
LEMMA FirstOf ==
  ASSUME NEW T, T \subseteq Nat, T # {}
  PROVE  Reader!Min(T) \in T /\ \A m \in T : Reader!Min(T) <= m
<1>1. \A m, n \in Nat : <<m, n>> \in OpToRel(<, Nat) <=> m < n
  BY DEF OpToRel
<1>2. \E n \in T : \A m \in T : <<m, n>> \notin OpToRel(<, Nat)
  BY NatLessThanWellFounded, WFMin
<1>3. \E n \in T : \A m \in T : ~ (m < n)
  BY <1>1, <1>2
<1>4. \E n \in T : \A m \in T : n <= m
  BY <1>3
<1> QED
  BY <1>4 DEF Reader!Min

\* Every count down to a number of members is reached at one member.
LEMMA AtCount ==
  ASSUME NEW n \in Nat, NEW T \in SUBSET (1..n), NEW k \in 1..Cardinality(T)
  PROVE  LET at == CHOOSE i \in T : Down(T, i) = k
         IN  at \in T /\ Down(T, at) = k /\ \A i \in T : Down(T, i) = k => i = at
<1> DEFINE at == CHOOSE i \in T : Down(T, i) = k
<1>1. \E i \in T : Down(T, i) = k
  BY CountedDown
<1>2. at \in T /\ Down(T, at) = k
  BY <1>1, Zenon
<1>3. ASSUME NEW i \in T, NEW j \in T, Down(T, i) = k, Down(T, j) = k PROVE i = j
  <2>1. \A x, y \in T : x < y => Down(T, y) < Down(T, x)
    BY CountedDown
  <2>2. ~ (i < j) /\ ~ (j < i)
    BY <1>3, <2>1
  <2>3. i \in Nat /\ j \in Nat
    OBVIOUS
  <2> QED
    BY <2>2, <2>3
<1> HIDE DEF at
<1> QED
  BY <1>2, <1>3 DEF at

(***************************************************************************)
(* The lines of a text                                                     *)
(***************************************************************************)

\* The reader counts with the same Cardinality.
LEMMA SameCount == \A S : Reader!Cardinality(S) = Cardinality(S)
BY DEF Reader!Cardinality, Cardinality, Reader!IsFiniteSet, IsFiniteSet

\* Where the lines of a text begin, and how they are counted from the end.
LEMMA LinesBegin ==
  ASSUME NEW s \in Seq(Bytes)
  PROVE  /\ Reader!Cuts(s) \in SUBSET (1..Len(s)) /\ Reader!Begins(s) \in SUBSET (1..Len(s))
         /\ Reader!Begins(s) = ({1} \cup {i + 1 : i \in Reader!Cuts(s)}) \ {Len(s) + 1}
         /\ \A i : Reader!Following(s, i) = Down(Reader!Begins(s), i)
<1>1. Len(s) \in Nat /\ DOMAIN s = 1..Len(s)
  BY LenProperties
<1>2. Reader!Cuts(s) \in SUBSET (1..Len(s)) /\ Reader!Begins(s) \in SUBSET (1..Len(s))
  BY <1>1 DEF Reader!Cuts, Reader!Begins
<1>3. ASSUME NEW i
      PROVE  i \in Reader!Begins(s) <=>
               i \in ({1} \cup {j + 1 : j \in Reader!Cuts(s)}) \ {Len(s) + 1}
  <2>1. CASE i \in Reader!Begins(s)
    <3>1. i \in 1..Len(s) /\ (i = 1 \/ s[i - 1] = Newline)
      BY <1>1, <2>1 DEF Reader!Begins
    <3>2. CASE i # 1
      <4>1. i - 1 \in Reader!Cuts(s) /\ i = (i - 1) + 1 /\ i # Len(s) + 1
        BY <1>1, <3>1, <3>2 DEF Reader!Cuts
      <4> QED
        BY <2>1, <4>1
    <3> QED
      BY <1>1, <2>1, <3>1, <3>2
  <2>2. CASE i \in ({1} \cup {j + 1 : j \in Reader!Cuts(s)}) \ {Len(s) + 1}
    <3>1. CASE i = 1
      <4>1. i \in 1..Len(s)
        BY <1>1, <2>2, <3>1
      <4> QED
        BY <1>1, <3>1, <4>1 DEF Reader!Begins
    <3>2. CASE i # 1
      <4>1. \E j \in Reader!Cuts(s) : i = j + 1
        BY <2>2, <3>2
      <4>2. PICK j \in 1..Len(s) : s[j] = Newline /\ i = j + 1
        BY <1>1, <4>1 DEF Reader!Cuts
      <4>3. i # Len(s) + 1
        BY <2>2
      <4>4. i \in 1..Len(s) /\ i - 1 = j
        BY <1>1, <4>2, <4>3
      <4> QED
        BY <1>1, <2>2, <4>2, <4>4 DEF Reader!Begins
    <3> QED
      BY <3>1, <3>2
  <2> QED
    BY <2>1, <2>2
<1> QED
  BY <1>2, <1>3, SameCount DEF Reader!Following, Down

\* The smaller one of two numbers.
LEMMA SmallerOf ==
  ASSUME NEW m \in Nat, NEW n \in Nat
  PROVE  Reader!Min({m, n}) = IF m <= n THEN m ELSE n
<1>1. {m, n} \subseteq Nat /\ {m, n} # {}
  OBVIOUS
<1>2. Reader!Min({m, n}) \in {m, n} /\ \A k \in {m, n} : Reader!Min({m, n}) <= k
  BY <1>1, FirstOf
<1> QED
  BY <1>2

\* The code counts the lines from the front and leaves the first ones out; that gives
\* the lines counted from the end.
LEMMA LastAreLast ==
  ASSUME NEW s \in Seq(Bytes), NEW n \in Nat
  PROVE  Reader!TailLines(s, n) = Reader!LastLines(s, n)
<1> DEFINE begins == Reader!Begins(s)
           pieces == ({1} \cup {i + 1 : i \in Reader!Cuts(s)}) \ {Len(s) + 1}
           Rank(i) == Reader!Cardinality({j \in pieces : j <= i})
           count == Reader!Cardinality(pieces)
           start == IF count > n THEN count - n ELSE 0
           shown == Reader!Min({n, Reader!Cardinality(begins)})
           front(k) == CHOOSE i \in pieces : Rank(i) = start + k
           back(k) == CHOOSE i \in begins : Reader!Following(s, i) = shown - k + 1
<1>1. /\ pieces = begins
      /\ begins \in SUBSET (1..Len(s)) /\ Len(s) \in Nat /\ count \in Nat
      /\ Cardinality(begins) = count
      /\ \A i : Reader!Following(s, i) = Down(begins, i)
      /\ \A i \in begins : Down(begins, i) \in 1..count /\ Rank(i) = count + 1 - Down(begins, i)
  <2> HIDE DEF begins
  <2>1. /\ pieces = begins /\ begins \in SUBSET (1..Len(s)) /\ Len(s) \in Nat
        /\ \A i : Reader!Following(s, i) = Down(begins, i)
    BY LinesBegin, LenProperties DEF begins
  <2>2. Cardinality(begins) = count
    BY <2>1, SameCount
  <2> HIDE DEF pieces
  <2>3. /\ count \in Nat
        /\ \A i \in begins : /\ Down(begins, i) \in 1..count
                            /\ Cardinality({j \in begins : j <= i}) = count + 1 - Down(begins, i)
    BY <2>1, <2>2, CountedDown
  <2> QED
    BY <2>1, <2>2, <2>3, SameCount
<1>2. shown = count - start /\ start \in Nat /\ shown \in Nat
  <2>1. shown = IF n <= count THEN n ELSE count
    BY <1>1, SmallerOf, SameCount
  <2> QED
    BY <1>1, <2>1
<1>3. ASSUME NEW k \in 1..shown
      PROVE  front(k) = back(k)
  <2>1. shown - k + 1 \in 1..Cardinality(begins)
    BY <1>1, <1>2
  <2> DEFINE m == shown - k + 1
             at == CHOOSE i \in begins : Down(begins, i) = m
  <2>2. at \in begins /\ Down(begins, at) = m /\ \A i \in begins : Down(begins, i) = m => i = at
    <3> HIDE DEF begins, pieces, count, shown, m
    <3>1. m \in 1..Cardinality(begins)
      BY <2>1 DEF m
    <3> QED
      BY <1>1, <3>1, AtCount
  <2>3. \A i \in begins : Rank(i) = start + k <=> Down(begins, i) = m
    <3> HIDE DEF pieces, begins, Rank, count, start, shown
    <3>1. k \in Int
      OBVIOUS
    <3> QED
      BY <1>1, <1>2, <3>1
  <2> HIDE DEF at, m, pieces, begins, Rank, count, start
  <2>4. front(k) = at
    <3>1. front(k) \in begins /\ Rank(front(k)) = start + k
      BY <1>1, <2>2, <2>3, Zenon
    <3> QED
      BY <1>1, <2>2, <2>3, <3>1, Zenon
  <2>5. back(k) = at
    <3>1. back(k) \in begins /\ Reader!Following(s, back(k)) = m
      BY <1>1, <2>2, Zenon DEF m
    <3> QED
      BY <1>1, <2>2, <3>1, Zenon
  <2> QED
    BY <2>4, <2>5
<1>4. Reader!TailLines(s, n) =
        [k \in 1..(count - start) |-> Reader!StripCR(Reader!PieceAt(s, front(k)))]
  BY Zenon DEF Reader!TailLines
<1>5. Reader!LastLines(s, n) =
        [k \in 1..shown |-> Reader!StripCR(Reader!PieceAt(s, back(k)))]
  BY Zenon DEF Reader!LastLines
<1> HIDE DEF front, back, shown, start, count, pieces, begins
<1> QED
  BY <1>2, <1>3, <1>4, <1>5

\* The end of a text is a text, byte by byte.
LEMMA EndOf ==
  ASSUME NEW s \in Seq(Bytes), NEW p \in 0..Len(s), NEW e, e = SubSeq(s, p + 1, Len(s))
  PROVE  /\ e \in Seq(Bytes) /\ Len(e) = Len(s) - p /\ Len(s) \in Nat /\ Len(e) \in Nat
         /\ \A i \in 1..Len(e) : p + i \in 1..Len(s) /\ e[i] = s[p + i]
<1>1. Len(s) \in Nat /\ p \in Int /\ p + 1 \in Int
  BY LenProperties
<1>2. \A i \in (p + 1)..Len(s) : s[i] \in Bytes
  <2> SUFFICES ASSUME NEW i \in (p + 1)..Len(s) PROVE s[i] \in Bytes
    OBVIOUS
  <2>1. i \in 1..Len(s)
    BY <1>1
  <2> QED
    BY <2>1, ElementOfSeq
<1>3. /\ e \in Seq(Bytes) /\ Len(e) = IF p + 1 <= Len(s) THEN Len(s) - (p + 1) + 1 ELSE 0
      /\ \A i \in 1..(Len(s) - (p + 1) + 1) : e[i] = s[(p + 1) + i - 1]
  BY <1>1, <1>2, SubSeqProperties
<1>4. Len(e) = Len(s) - p
  BY <1>1, <1>3
<1>5. ASSUME NEW i \in 1..Len(e)
      PROVE  p + i \in 1..Len(s) /\ e[i] = s[p + i]
  <2>1. (p + 1) + i - 1 = p + i /\ i \in 1..(Len(s) - (p + 1) + 1)
    BY <1>1, <1>4
  <2> QED
    BY <1>1, <1>3, <1>4, <2>1
<1> QED
  BY <1>1, <1>3, <1>4, <1>5

\* A newline of the end of a text is a newline of the text.
LEMMA CutsAtEnd ==
  ASSUME NEW s \in Seq(Bytes), NEW p \in 0..Len(s), NEW e, e = SubSeq(s, p + 1, Len(s)),
         NEW i \in 1..Len(e)
  PROVE  i \in Reader!Cuts(e) <=> p + i \in Reader!Cuts(s)
<1>1. e \in Seq(Bytes) /\ p + i \in 1..Len(s) /\ e[i] = s[p + i]
  BY EndOf
<1>2. DOMAIN s = 1..Len(s) /\ DOMAIN e = 1..Len(e)
  BY <1>1, LenProperties
<1> QED
  BY <1>1, <1>2 DEF Reader!Cuts

\* A line of the end of a text, but perhaps the first one, is a line of the text.
LEMMA LinesAtEnd ==
  ASSUME NEW s \in Seq(Bytes), NEW p \in 0..Len(s), NEW e, e = SubSeq(s, p + 1, Len(s)),
         NEW i \in Reader!Begins(e), i # 1
  PROVE  /\ p + i \in Reader!Begins(s)
         /\ Down(Reader!Begins(e), i) = Down(Reader!Begins(s), p + i)
<1> DEFINE U == {j \in Reader!Begins(e) : j >= i}
           V == {j \in Reader!Begins(s) : j >= p + i}
<1>1. /\ e \in Seq(Bytes) /\ Len(e) = Len(s) - p /\ Len(s) \in Nat /\ Len(e) \in Nat
      /\ p \in Nat /\ \A j \in 1..Len(e) : p + j \in 1..Len(s) /\ e[j] = s[p + j]
  BY EndOf
<1>2. ASSUME NEW j \in 2..Len(e)
      PROVE  j \in Reader!Begins(e) <=> p + j \in Reader!Begins(s)
  <2>1. /\ j \in 1..Len(e) /\ j # 1 /\ j - 1 \in 1..Len(e)
        /\ p + j \in 1..Len(s) /\ p + j # 1 /\ (p + j) - 1 = p + (j - 1)
    BY <1>1
  <2>2. e[j - 1] = s[(p + j) - 1]
    BY <1>1, <2>1
  <2>3. DOMAIN s = 1..Len(s) /\ DOMAIN e = 1..Len(e)
    BY <1>1, LenProperties
  <2> QED
    BY <2>1, <2>2, <2>3 DEF Reader!Begins
<1>3. i \in 2..Len(e)
  <2>1. Reader!Begins(e) \in SUBSET (1..Len(e))
    BY <1>1, LinesBegin
  <2>2. i \in 1..Len(e)
    BY <2>1
  <2> QED
    BY <1>1, <2>2
<1>4. U \in SUBSET (2..Len(e)) /\ V \in SUBSET ((p + i)..Len(s))
  <2>1. Reader!Begins(e) \in SUBSET (1..Len(e)) /\ Reader!Begins(s) \in SUBSET (1..Len(s))
    BY <1>1, LinesBegin
  <2> QED
    BY <1>1, <1>3, <2>1
<1>5. \A j \in 2..Len(e) : j \in U <=> p + j \in V
  <2> SUFFICES ASSUME NEW j \in 2..Len(e) PROVE j \in U <=> p + j \in V
    OBVIOUS
  <2>1. j >= i <=> p + j >= p + i
    BY <1>1, <1>3
  <2> QED
    BY <1>2, <2>1
<1>6. IsFiniteSet(U)
  <2>1. 2 \in Int /\ Len(e) \in Int
    BY <1>1
  <2>2. IsFiniteSet(2..Len(e))
    BY <2>1, FS_Interval
  <2> QED
    BY <1>4, <2>2, FS_Subset
<1>7. Cardinality(V) = Cardinality(U)
  <2> DEFINE move == [j \in U |-> p + j]
  <2> HIDE DEF U, V
  <2>1. move \in [U -> V]
    BY <1>4, <1>5
  <2>2. \A j, k \in U : move[j] = move[k] => j = k
    <3> SUFFICES ASSUME NEW j \in U, NEW k \in U, p + j = p + k PROVE j = k
      OBVIOUS
    <3>1. j \in Int /\ k \in Int
      BY <1>4
    <3> QED
      BY <1>1, <3>1
  <2>3. ASSUME NEW k \in V PROVE \E j \in U : move[j] = k
    <3>1. k \in (p + i)..Len(s)
      BY <1>4
    <3>2. k - p \in 2..Len(e) /\ p + (k - p) = k
      BY <1>1, <1>3, <3>1
    <3>3. k - p \in U
      BY <1>5, <3>2
    <3> QED
      BY <3>2, <3>3
  <2>4. move \in Bijection(U, V)
    BY <2>1, <2>2, <2>3 DEF Bijection, Injection, Surjection, IsInjective
  <2>5. ExistsBijection(U, V)
    BY <2>4 DEF ExistsBijection
  <2> QED
    BY <1>6, <2>5, FS_Bijection
<1> QED
  BY <1>2, <1>7, <1>3 DEF Down

\* Such a line has the same bytes in both.
LEMMA PiecesAtEnd ==
  ASSUME NEW s \in Seq(Bytes), NEW p \in 0..Len(s), NEW e, e = SubSeq(s, p + 1, Len(s)),
         NEW i \in 1..Len(e)
  PROVE  Reader!PieceAt(e, i) = Reader!PieceAt(s, p + i)
<1> DEFINE U == {j \in Reader!Cuts(e) : j >= i}
           V == {j \in Reader!Cuts(s) : j >= p + i}
<1>1. /\ e \in Seq(Bytes) /\ Len(e) = Len(s) - p /\ Len(s) \in Nat /\ Len(e) \in Nat /\ p \in Nat
      /\ \A j \in 1..Len(e) : p + j \in 1..Len(s) /\ e[j] = s[p + j]
      /\ \A j \in 1..Len(e) : j \in Reader!Cuts(e) <=> p + j \in Reader!Cuts(s)
      /\ Reader!Cuts(e) \in SUBSET (1..Len(e)) /\ Reader!Cuts(s) \in SUBSET (1..Len(s))
  <2>1. /\ e \in Seq(Bytes) /\ Len(e) = Len(s) - p /\ Len(s) \in Nat /\ Len(e) \in Nat
        /\ \A j \in 1..Len(e) : p + j \in 1..Len(s) /\ e[j] = s[p + j]
    BY EndOf
  <2>4. \A j \in 1..Len(e) : j \in Reader!Cuts(e) <=> p + j \in Reader!Cuts(s)
    BY CutsAtEnd
  <2>2. Reader!Cuts(e) \in SUBSET (1..Len(e)) /\ Reader!Cuts(s) \in SUBSET (1..Len(s))
    BY <2>1, LinesBegin
  <2>3. p \in Nat
    BY <2>1
  <2> QED
    BY <2>1, <2>2, <2>3, <2>4
<1>2. U \in SUBSET (i..Len(e)) /\ V \in SUBSET ((p + i)..Len(s))
  BY <1>1
<1>3. \A j \in 1..Len(e) : j \in U <=> p + j \in V
  <2> SUFFICES ASSUME NEW j \in 1..Len(e) PROVE j \in U <=> p + j \in V
    OBVIOUS
  <2>1. j >= i <=> p + j >= p + i
    BY <1>1
  <2> QED
    BY <1>1, <2>1
<1>4. ASSUME NEW k \in V PROVE k - p \in U /\ k - p \in 1..Len(e)
  <2> HIDE DEF U, V
  <2>1. k \in (p + i)..Len(s)
    BY <1>2
  <2>2. k - p \in 1..Len(e) /\ p + (k - p) = k
    BY <1>1, <2>1
  <2> QED
    BY <1>3, <2>2
<1>5. ASSUME NEW m \in i..(Len(e) + 1)
      PROVE  SubSeq(e, i, m - 1) = SubSeq(s, p + i, p + m - 1)
  <2>1. /\ i \in Int /\ m - 1 \in Int /\ p + i \in Int /\ p + m - 1 \in Int
        /\ m - 1 >= i - 1 /\ m - 1 <= Len(e) /\ p + m - 1 <= Len(s)
    BY <1>1
  <2>2. /\ \A j \in i..(m - 1) : j \in 1..Len(e)
        /\ \A j \in (p + i)..(p + m - 1) : j \in 1..Len(s)
    BY <1>1, <2>1
  <2>3. /\ \A j \in i..(m - 1) : e[j] \in Bytes
        /\ \A j \in (p + i)..(p + m - 1) : s[j] \in Bytes
    BY <1>1, <2>2, ElementOfSeq
  <2>4. /\ SubSeq(e, i, m - 1) \in Seq(Bytes)
        /\ Len(SubSeq(e, i, m - 1)) = IF i <= m - 1 THEN (m - 1) - i + 1 ELSE 0
        /\ \A k \in 1..((m - 1) - i + 1) : SubSeq(e, i, m - 1)[k] = e[i + k - 1]
    BY <2>1, <2>3, SubSeqProperties
  <2>5. /\ SubSeq(s, p + i, p + m - 1) \in Seq(Bytes)
        /\ Len(SubSeq(s, p + i, p + m - 1)) =
             IF p + i <= p + m - 1 THEN (p + m - 1) - (p + i) + 1 ELSE 0
        /\ \A k \in 1..((p + m - 1) - (p + i) + 1) :
             SubSeq(s, p + i, p + m - 1)[k] = s[(p + i) + k - 1]
    BY <2>1, <2>3, SubSeqProperties
  <2>6. /\ Len(SubSeq(e, i, m - 1)) = m - i /\ Len(SubSeq(s, p + i, p + m - 1)) = m - i
        /\ m - i \in Nat
    <3>1. m - i \in Nat /\ (IF i <= m - 1 THEN (m - 1) - i + 1 ELSE 0) = m - i
      BY <1>1, <2>1
    <3>2. (IF p + i <= p + m - 1 THEN (p + m - 1) - (p + i) + 1 ELSE 0) = m - i
      BY <1>1, <2>1
    <3>3. Len(SubSeq(e, i, m - 1)) = m - i
      BY <2>4, <3>1
    <3>4. Len(SubSeq(s, p + i, p + m - 1)) = m - i
      BY <2>5, <3>2
    <3> QED
      BY <3>1, <3>3, <3>4
  <2>7. ASSUME NEW k \in 1..(m - i)
        PROVE  SubSeq(e, i, m - 1)[k] = SubSeq(s, p + i, p + m - 1)[k]
    <3>1. /\ k \in 1..((m - 1) - i + 1) /\ k \in 1..((p + m - 1) - (p + i) + 1)
          /\ i + k - 1 \in 1..Len(e) /\ (p + i) + k - 1 = p + (i + k - 1)
      BY <1>1, <2>1
    <3>2. e[i + k - 1] = s[p + (i + k - 1)]
      BY <1>1, <3>1
    <3> QED
      BY <2>4, <2>5, <3>1, <3>2
  <2> QED
    BY <2>4, <2>5, <2>6, <2>7, SeqEqual
<1>6. CASE U = {}
  <2>1. V = {}
    BY <1>4, <1>6
  <2>2. /\ Reader!PieceAt(e, i) = SubSeq(e, i, Len(e))
        /\ Reader!PieceAt(s, p + i) = SubSeq(s, p + i, Len(s))
    BY <1>6, <2>1, Zenon DEF Reader!PieceAt
  <2>3. Len(e) + 1 \in i..(Len(e) + 1) /\ (Len(e) + 1) - 1 = Len(e) /\ p + (Len(e) + 1) - 1 = Len(s)
    BY <1>1
  <2> QED
    BY <1>5, <2>2, <2>3
<1>7. CASE U # {}
  <2> DEFINE m == Reader!Min(U)
             k == Reader!Min(V)
  <2>1. V # {}
    BY <1>1, <1>3, <1>7
  <2>2. /\ m \in U /\ \A j \in U : m <= j
        /\ k \in V /\ \A j \in V : k <= j
    <3>1. U \subseteq Nat /\ V \subseteq Nat
      BY <1>1
    <3> QED
      BY <1>7, <2>1, <3>1, FirstOf
  <2>3. k - 1 = p + m - 1 /\ m \in i..(Len(e) + 1)
    <3> HIDE DEF U, V, m, k
    <3>1. m \in i..Len(e) /\ k \in (p + i)..Len(s)
      BY <1>2, <2>2
    <3>2. m \in 1..Len(e)
      BY <1>1, <3>1
    <3>3. k <= p + m
      BY <1>3, <2>2, <3>2
    <3>4. m <= k - p
      BY <1>4, <2>2
    <3> QED
      BY <1>1, <3>1, <3>3, <3>4
  <2>4. /\ Reader!PieceAt(e, i) = SubSeq(e, i, m - 1)
        /\ Reader!PieceAt(s, p + i) = SubSeq(s, p + i, k - 1)
    BY <1>7, <2>1, Zenon DEF Reader!PieceAt
  <2> HIDE DEF m, k
  <2>5. SubSeq(e, i, m - 1) = SubSeq(s, p + i, p + m - 1)
    BY <1>5, <2>3
  <2> QED
    BY <2>3, <2>4, <2>5, Zenon
<1> QED
  BY <1>6, <1>7

\* A text has as many lines as newlines, at least: one begins behind each newline, and
\* where the last newline ends the text, the first line has none before it.
LEMMA LinesAreMany ==
  ASSUME NEW s \in Seq(Bytes), NEW n \in Nat, Reader!Newlines(s) >= n + 1
  PROVE  Cardinality(Reader!Begins(s)) >= n + 1
<1> DEFINE cuts == Reader!Cuts(s)
           begins == Reader!Begins(s)
           after == [i \in cuts |-> IF i = Len(s) THEN 1 ELSE i + 1]
<1>1. /\ Len(s) \in Nat /\ cuts \in SUBSET (1..Len(s)) /\ begins \in SUBSET (1..Len(s))
      /\ \A i \in cuts : s[i] = Newline
  BY LinesBegin, LenProperties DEF Reader!Cuts
<1>2. DOMAIN s = 1..Len(s)
  BY LenProperties
<1>3. /\ IsFiniteSet(begins) /\ Cardinality(begins) \in Nat /\ Cardinality(cuts) \in Nat
  BY <1>1, CountedDown
<1>4. after \in [cuts -> begins]
  <2> SUFFICES ASSUME NEW i \in cuts PROVE (IF i = Len(s) THEN 1 ELSE i + 1) \in begins
    OBVIOUS
  <2>1. i \in 1..Len(s) /\ s[i] = Newline
    BY <1>1
  <2>2. 1 \in begins
    BY <1>1, <1>2, <2>1 DEF Reader!Begins
  <2>3. ASSUME i # Len(s) PROVE i + 1 \in begins
    <3>1. i + 1 \in 1..Len(s) /\ (i + 1) - 1 = i
      BY <1>1, <2>1, <2>3
    <3> QED
      BY <1>2, <2>1, <3>1 DEF Reader!Begins
  <2> QED
    BY <2>2, <2>3
<1>5. \A i, j \in cuts : after[i] = after[j] => i = j
  <2> SUFFICES ASSUME NEW i \in cuts, NEW j \in cuts,
                      (IF i = Len(s) THEN 1 ELSE i + 1) = (IF j = Len(s) THEN 1 ELSE j + 1)
               PROVE  i = j
    OBVIOUS
  <2>1. i \in 1..Len(s) /\ j \in 1..Len(s)
    BY <1>1
  <2> QED
    BY <1>1, <2>1
<1>6. after \in Injection(cuts, begins)
  BY <1>4, <1>5 DEF Injection, IsInjective
<1>7. Cardinality(cuts) <= Cardinality(begins)
  BY <1>3, <1>6, FS_Injection
<1>8. Cardinality(cuts) >= n + 1
  BY SameCount DEF Reader!Newlines
<1> QED
  BY <1>3, <1>7, <1>8

\* The last n lines of the end of a text that has n + 1 newlines are those of the text.
LEMMA EndIsEnough ==
  ASSUME NEW s \in Seq(Bytes), NEW p \in 0..Len(s), NEW e, e = SubSeq(s, p + 1, Len(s)),
         NEW n \in Nat, p = 0 \/ Reader!Newlines(e) >= n + 1
  PROVE  Reader!LastLines(e, n) = Reader!LastLines(s, n)
<1> DEFINE ends == Reader!Begins(e)
           begins == Reader!Begins(s)
           ofEnd(k, m) == CHOOSE i \in ends : Reader!Following(e, i) = m - k + 1
           ofAll(k, m) == CHOOSE i \in begins : Reader!Following(s, i) = m - k + 1
<1>1. CASE p = 0
  <2>1. e = s
    BY <1>1, SubSeqFull
  <2> QED
    BY <2>1
<1>2. CASE Reader!Newlines(e) >= n + 1
  <2>1. /\ e \in Seq(Bytes) /\ Len(s) \in Nat /\ Len(e) \in Nat /\ Len(e) = Len(s) - p
        /\ p \in Nat
    BY EndOf
  <2>2. /\ ends \in SUBSET (1..Len(e)) /\ begins \in SUBSET (1..Len(s))
        /\ \A i : Reader!Following(e, i) = Down(ends, i)
        /\ \A i : Reader!Following(s, i) = Down(begins, i)
    BY <2>1, LinesBegin
  <2>3. Cardinality(ends) \in Nat /\ Cardinality(ends) >= n + 1 /\ Cardinality(begins) \in Nat
    <3>1. Cardinality(ends) >= n + 1
      BY <1>2, <2>1, LinesAreMany
    <3>2. Cardinality(ends) \in Nat /\ Cardinality(begins) \in Nat
      BY <2>1, <2>2, CountedDown
    <3> QED
      BY <3>1, <3>2
  <2>4. \A i \in ends : i = 1 => Down(ends, i) = Cardinality(ends)
    <3> SUFFICES ASSUME 1 \in ends PROVE Down(ends, 1) = Cardinality(ends)
      OBVIOUS
    <3>1. \A j \in 1..Len(e) : j >= 1
      BY <2>1
    <3>2. {j \in ends : j >= 1} = ends
      BY <2>2, <3>1
    <3> QED
      BY <3>2 DEF Down
  <2>5. ASSUME NEW k \in 1..n
        PROVE  /\ k \in 1..Cardinality(ends) /\ k \in 1..Cardinality(begins)
               /\ \A i \in ends : Down(ends, i) = k => p + i \in begins /\ Down(begins, p + i) = k
    <3>1. k \in 1..Cardinality(ends)
      BY <2>3
    <3>2. ASSUME NEW i \in ends, Down(ends, i) = k
          PROVE  p + i \in begins /\ Down(begins, p + i) = k
      <4>1. i # 1
        BY <2>3, <2>4, <3>2
      <4>2. p + i \in Reader!Begins(s) /\ Down(Reader!Begins(e), i) = Down(Reader!Begins(s), p + i)
        BY <4>1, LinesAtEnd
      <4> QED
        BY <3>2, <4>2
    <3>3. PICK i \in ends : Down(ends, i) = k
      BY <2>1, <2>2, <3>1, CountedDown
    <3>4. k \in 1..Cardinality(begins)
      BY <2>1, <2>2, <3>2, <3>3, CountedDown
    <3> QED
      BY <3>1, <3>2, <3>4
  <2>6. Reader!Min({n, Cardinality(ends)}) = n /\ Reader!Min({n, Cardinality(begins)}) = n
    <3>1. n <= Cardinality(ends)
      BY <2>3
    <3>2. n <= Cardinality(begins)
      <4>1. CASE n = 0
        BY <2>3, <4>1
      <4>2. CASE n # 0
        <5>1. n \in 1..n
          BY <4>2
        <5>2. n \in 1..Cardinality(begins)
          BY <2>5, <5>1
        <5> QED
          BY <2>3, <5>2
      <4> QED
        BY <4>1, <4>2
    <3> QED
      BY <2>3, <3>1, <3>2, SmallerOf
  <2>7. ASSUME NEW k \in 1..n
        PROVE  Reader!PieceAt(e, ofEnd(k, n)) = Reader!PieceAt(s, ofAll(k, n))
    <3> DEFINE m == n - k + 1
               i == CHOOSE x \in ends : Down(ends, x) = m
               j == CHOOSE x \in begins : Down(begins, x) = m
    <3>1. m \in 1..n
      OBVIOUS
    <3> HIDE DEF m
    <3>2. m \in 1..Cardinality(ends) /\ m \in 1..Cardinality(begins)
      BY <2>5, <3>1
    <3>3. i \in ends /\ Down(ends, i) = m
      <4> HIDE DEF ends, begins
      <4> QED
        BY <2>1, <2>2, <3>2, AtCount
    <3>4. j \in begins /\ Down(begins, j) = m /\ \A x \in begins : Down(begins, x) = m => x = j
      <4> HIDE DEF ends, begins
      <4> QED
        BY <2>1, <2>2, <3>2, AtCount
    <3>5. j = p + i
      BY <2>5, <3>1, <3>3, <3>4
    <3>6. i \in 1..Len(e)
      BY <2>2, <3>3
    <3>7. ofEnd(k, n) = i /\ ofAll(k, n) = j
      BY <2>2, Zenon DEF m
    <3> HIDE DEF i, j
    <3>8. Reader!PieceAt(e, i) = Reader!PieceAt(s, p + i)
      BY <3>6, PiecesAtEnd
    <3> QED
      BY <3>5, <3>7, <3>8
  <2>8. [k \in 1..n |-> Reader!StripCR(Reader!PieceAt(e, ofEnd(k, n)))] =
          [k \in 1..n |-> Reader!StripCR(Reader!PieceAt(s, ofAll(k, n)))]
    <3> HIDE DEF ofEnd, ofAll
    <3> QED
      BY <2>7
  <2> DEFINE linesOfEnd(m) == [k \in 1..m |-> Reader!StripCR(Reader!PieceAt(e, ofEnd(k, m)))]
             linesOfAll(m) == [k \in 1..m |-> Reader!StripCR(Reader!PieceAt(s, ofAll(k, m)))]
  <2>9. /\ Reader!LastLines(e, n) = linesOfEnd(Reader!Min({n, Reader!Cardinality(ends)}))
        /\ Reader!LastLines(s, n) = linesOfAll(Reader!Min({n, Reader!Cardinality(begins)}))
    BY Zenon DEF Reader!LastLines
  <2>10. linesOfEnd(n) = linesOfAll(n)
    BY <2>8, Zenon
  <2> HIDE DEF linesOfEnd, linesOfAll, ends, begins
  <2>11. /\ Reader!LastLines(e, n) = linesOfEnd(n)
         /\ Reader!LastLines(s, n) = linesOfAll(n)
    BY <2>6, <2>9, SameCount
  <2> QED
    BY <2>10, <2>11
<1> QED
  BY <1>1, <1>2

(***************************************************************************)
(* The reader                                                              *)
(***************************************************************************)

\* What is appended changes no part of the file.
LEMMA PartsStay ==
  ASSUME NEW s \in Seq(Bytes), NEW x \in Seq(Bytes), NEW a \in 1..(Len(s) + 1), NEW b \in 0..Len(s)
  PROVE  SubSeq(s \o x, a, b) = SubSeq(s, a, b) /\ Len(s \o x) >= Len(s)
<1>1. Len(s) \in Nat /\ Len(x) \in Nat /\ Len(s \o x) = Len(s) + Len(x)
  BY LenProperties, ConcatProperties
<1>2. a \in Int /\ b \in Int
  BY <1>1
<1>3. CASE b < a
  BY <1>1, <1>2, <1>3, SubSeqEmpty
<1>4. CASE ~ (b < a)
  <2>1. a \in 1..Len(s) /\ b \in 1..Len(s)
    BY <1>1, <1>2, <1>4
  <2> QED
    BY <1>1, <2>1, SubSeqOfConcat1
<1> QED
  BY <1>3, <1>4

\* Whatever the sink does, the log stays a text, and at most grows.
LEMMA SinkAppends ==
  ASSUME TextInv, Sink!Next
  PROVE  TextInv' /\ (log # None => \E x \in Seq(Bytes) : log' = log \o x)
<1> USE DEF TextInv
<1>1. /\ None \notin Seq(Bytes) /\ Newline \in Bytes
       /\ Prefix \in Seq(Bytes) /\ Warning \in Seq(Bytes)
  BY TextAssumption, Zenon
<1>2. \A a \in Agents, n \in 1..MaxServers : \A i \in 1..MaxLines[n][a] : Text[a][i] \in Seq(Bytes)
  BY TextAssumption, Zenon
<1>3. UNCHANGED log /\ log # None => \E x \in Seq(Bytes) : log' = log \o x
  <2>1. log # None => log \in Seq(Bytes) /\ log = log \o <<>> /\ <<>> \in Seq(Bytes)
    BY ConcatEmptySeq
  <2> QED
    BY <2>1
<1>4. CASE Sink!StartServer
  <2>1. /\ ~alive /\ servers < MaxServers /\ alive' = TRUE
        /\ servers' = servers + 1 /\ UNCHANGED <<pushed, queue, todo>>
        /\ log' = IF log = None THEN <<>> ELSE log
    BY <1>4 DEF Sink!StartServer
  <2>2. servers' \in 0..MaxServers /\ servers' > 0
    BY <2>1, LogAssumption
  <2>3. log' \in Seq(Bytes) /\ log' # None
    <3>1. <<>> \in Seq(Bytes)
      BY EmptySeq
    <3> QED
      BY <1>1, <2>1, <3>1, Zenon
  <2>4. ASSUME NEW a \in Agents
        PROVE  queue'[a] \in Seq(1..MaxLines[servers'][a]) /\ todo'[a] \in Seq(Seq(Bytes))
    <3>1. queue'[a] = <<>> /\ todo'[a] = <<>>
      BY <2>1
    <3> QED
      BY <3>1, EmptySeq
  <2>5. TextInv'
    BY <2>1, <2>2, <2>3, <2>4
  <2> QED
    BY <1>3, <2>1, <2>5
<1>5. ASSUME NEW a \in Agents, Sink!Push(a)
      PROVE  TextInv' /\ UNCHANGED log
  <2>1. /\ alive /\ pushed[a] < MaxLines[servers][a]
        /\ pushed' = [pushed EXCEPT ![a] = @ + 1]
        /\ UNCHANGED <<log, servers, alive, todo>>
        /\ queue' = [queue EXCEPT ![a] = Append(@, pushed[a] + 1)] \/ UNCHANGED queue
    BY <1>5 DEF Sink!Push
  <2>2. pushed[a] + 1 \in 1..MaxLines[servers][a] /\ pushed' \in [Agents -> Nat]
    <3>1. servers \in 1..MaxServers
      BY <2>1, LogAssumption
    <3>2. MaxLines[servers][a] \in Nat
      BY <3>1, LogAssumption
    <3> QED
      BY <2>1, <3>2
  <2>3. /\ DOMAIN queue' = Agents
        /\ \A b \in Agents : queue'[b] \in Seq(1..MaxLines[servers][b])
    <3>1. CASE queue' = [queue EXCEPT ![a] = Append(@, pushed[a] + 1)]
      <4>1. Append(queue[a], pushed[a] + 1) \in Seq(1..MaxLines[servers][a])
        BY <2>2, AppendProperties
      <4>2. queue'[a] = Append(queue[a], pushed[a] + 1)
        BY <3>1
      <4>3. \A b \in Agents \ {a} : queue'[b] = queue[b]
        BY <3>1
      <4> QED
        BY <3>1, <4>1, <4>2, <4>3, Zenon
    <3> QED
      BY <2>1, <3>1
  <2> QED
    BY <2>1, <2>2, <2>3
<1>6. \A t \in Seq(Bytes) : Sink!Lines(t) \in Seq(Seq(Bytes))
  <2> SUFFICES ASSUME NEW t \in Seq(Bytes) PROVE Sink!Lines(t) \in Seq(Seq(Bytes))
    OBVIOUS
  <2>1. <<Newline>> \in Seq(Bytes)
    BY <1>1
  <2> QED
    BY <2>1, <1>1 DEF Sink!Lines
<1>7. ASSUME NEW a \in Agents, Sink!Receive(a)
      PROVE  TextInv' /\ UNCHANGED log
  <2>1. /\ alive /\ queue[a] # <<>> /\ queue' = [queue EXCEPT ![a] = Tail(@)]
        /\ todo' = [todo EXCEPT ![a] = Sink!Lines(Text[a][Head(queue[a])])]
        /\ UNCHANGED <<log, servers, alive, pushed>>
    BY <1>7 DEF Sink!Receive
  <2>2. /\ Head(queue[a]) \in 1..MaxLines[servers][a]
        /\ Tail(queue[a]) \in Seq(1..MaxLines[servers][a])
    BY <2>1, HeadTailProperties
  <2>3. Sink!Lines(Text[a][Head(queue[a])]) \in Seq(Seq(Bytes))
    <3>1. servers \in 1..MaxServers
      <4>1. alive
        BY <2>1
      <4>2. servers \in 0..MaxServers /\ servers > 0 /\ MaxServers \in Nat
        BY <4>1, LogAssumption
      <4> QED
        BY <4>2
    <3>2. Text[a][Head(queue[a])] \in Seq(Bytes)
      BY <1>2, <2>2, <3>1, Zenon
    <3> QED
      BY <1>6, <3>2
  <2>4. /\ DOMAIN queue' = Agents /\ DOMAIN todo' = Agents
        /\ queue'[a] = Tail(queue[a]) /\ todo'[a] = Sink!Lines(Text[a][Head(queue[a])])
        /\ \A b \in Agents \ {a} : queue'[b] = queue[b] /\ todo'[b] = todo[b]
    BY <2>1
  <2>5. \A b \in Agents :
          queue'[b] \in Seq(1..MaxLines[servers][b]) /\ todo'[b] \in Seq(Seq(Bytes))
    BY <2>2, <2>3, <2>4, Zenon
  <2> QED
    BY <2>1, <2>4, <2>5
<1>8. ASSUME NEW a \in Agents, Sink!Write(a)
      PROVE  TextInv' /\ \E x \in Seq(Bytes) : log' = log \o x
  <2>1. /\ alive /\ todo[a] # <<>> /\ log' = log \o Head(todo[a])
        /\ todo' = [todo EXCEPT ![a] = Tail(@)]
        /\ UNCHANGED <<servers, alive, pushed, queue>>
    BY <1>8 DEF Sink!Write
  <2>2. Head(todo[a]) \in Seq(Bytes) /\ Tail(todo[a]) \in Seq(Seq(Bytes)) /\ log \in Seq(Bytes)
    BY <2>1, HeadTailProperties
  <2>3. log' \in Seq(Bytes) /\ log' # None
    <3>1. log \o Head(todo[a]) \in Seq(Bytes)
      BY <2>2, ConcatProperties
    <3> QED
      BY <1>1, <2>1, <3>1, Zenon
  <2>4. /\ DOMAIN todo' = Agents /\ todo'[a] = Tail(todo[a])
        /\ \A b \in Agents \ {a} : todo'[b] = todo[b]
    BY <2>1
  <2>5. \A b \in Agents : todo'[b] \in Seq(Seq(Bytes))
    BY <2>2, <2>4, Zenon
  <2> QED
    BY <2>1, <2>2, <2>3, <2>4, <2>5
<1>9. ASSUME NEW a \in Agents, Sink!Check(a)
      PROVE  TextInv' /\ UNCHANGED log
  <2>1. /\ alive /\ UNCHANGED <<log, servers, alive, pushed, queue>>
        /\ todo' = [todo EXCEPT ![a] = Sink!Lines(Warning)] \/ UNCHANGED todo
    BY <1>9 DEF Sink!Check
  <2>2. DOMAIN todo' = Agents /\ \A b \in Agents : todo'[b] \in Seq(Seq(Bytes))
    <3>1. CASE todo' = [todo EXCEPT ![a] = Sink!Lines(Warning)]
      <4>1. Sink!Lines(Warning) \in Seq(Seq(Bytes))
        BY <1>1, <1>6
      <4>2. /\ DOMAIN todo' = Agents /\ todo'[a] = Sink!Lines(Warning)
            /\ \A b \in Agents \ {a} : todo'[b] = todo[b]
        BY <3>1
      <4> QED
        BY <4>1, <4>2, Zenon
    <3> QED
      BY <2>1, <3>1
  <2> QED
    BY <2>1, <2>2
<1>10. ASSUME NEW a \in Agents, Sink!SecondPasses(a)
       PROVE  TextInv' /\ UNCHANGED log
  BY <1>10 DEF Sink!SecondPasses
<1>11. CASE Sink!ServerEnds
  <2>1. /\ alive' = FALSE /\ UNCHANGED <<log, servers>>
        /\ pushed' = [a \in Agents |-> 0]
        /\ queue' = [a \in Agents |-> <<>>] /\ todo' = [a \in Agents |-> <<>>]
    BY <1>11 DEF Sink!ServerEnds, Sink!OfAll
  <2>2. TextInv'
    BY <2>1, EmptySeq
  <2> QED
    BY <1>3, <2>1, <2>2
<1>12. \A a \in Agents : Sink!Push(a) \/ Sink!Writer(a) \/ Sink!SecondPasses(a) =>
         TextInv' /\ (log # None => \E x \in Seq(Bytes) : log' = log \o x)
  BY <1>3, <1>5, <1>7, <1>8, <1>9, <1>10 DEF Sink!Writer
<1> QED
  BY <1>4, <1>11, <1>12 DEF Sink!Next

\* What was read, and what was printed, stays a part of the file while the sink appends.
LEMMA SinkLeavesReader ==
  ASSUME TailInv, Sink!Next, UNCHANGED tailVars
  PROVE  TailInv'
<1> USE DEF TailInv, Reader!ReadInv
<1>1. TextInv' /\ (log # None => \E x \in Seq(Bytes) : log' = log \o x)
  BY SinkAppends
<1>2. CASE log = None
  <2>1. ~ (step \in {"stat", "read"}) /\ ~ (answer # None /\ answer.kind = "lines" /\ want > 0)
    BY <1>2
  <2>2. Reader!ReadInv'
    BY <1>2, <2>1
  <2> QED
    BY <1>1, <2>2
<1>3. CASE log # None
  <2>1. PICK x \in Seq(Bytes) : log' = log \o x
    BY <1>1, <1>3
  <2>2. log \in Seq(Bytes) /\ log' \in Seq(Bytes) /\ log' # None /\ Len(log) \in Nat
    <3>1. None \notin Seq(Bytes)
      BY TextAssumption, Zenon
    <3>2. log \in Seq(Bytes)
      BY <1>3 DEF TextInv
    <3>3. log \o x \in Seq(Bytes)
      BY <3>2, ConcatProperties
    <3>4. Len(log) \in Nat
      BY <3>2, LenProperties
    <3> QED
      BY <2>1, <3>1, <3>2, <3>3, <3>4, Zenon
  <2>3. ASSUME NEW a \in 1..(Len(log) + 1), NEW b \in 0..Len(log)
        PROVE  SubSeq(log', a, b) = SubSeq(log, a, b)
    BY <2>1, <2>2, PartsStay
  <2>4. Len(log') \in Nat /\ Len(log) <= Len(log')
    <3>1. 1 \in 1..(Len(log) + 1) /\ 0 \in 0..Len(log)
      BY <2>2
    <3> QED
      BY <2>1, <2>2, <3>1, PartsStay, LenProperties
  <2>5. step' = "read" =>
          /\ length' \in 0..Len(log') /\ position' \in 0..length'
          /\ bytes' = SubSeq(log', position' + 1, length')
    <3> SUFFICES ASSUME step = "read"
                 PROVE  /\ length \in 0..Len(log') /\ position \in 0..length
                        /\ bytes = SubSeq(log', position + 1, length)
      OBVIOUS
    <3>1. /\ length \in 0..Len(log) /\ position \in 0..length
          /\ bytes = SubSeq(log, position + 1, length)
      OBVIOUS
    <3>2. position + 1 \in 1..(Len(log) + 1) /\ length \in 0..Len(log')
      BY <2>2, <2>4, <3>1
    <3> QED
      BY <2>3, <3>1, <3>2
  <2>6. (answer # None /\ answer.kind = "lines" /\ want > 0)' =>
          /\ length' \in 0..Len(log')
          /\ answer'.lines = Reader!LastLines(SubSeq(log', 1, length'), want')
    <3> SUFFICES ASSUME answer # None /\ answer.kind = "lines" /\ want > 0
                 PROVE  /\ length \in 0..Len(log')
                        /\ answer.lines = Reader!LastLines(SubSeq(log', 1, length), want)
      OBVIOUS
    <3>1. /\ length \in 0..Len(log)
          /\ answer.lines = Reader!LastLines(SubSeq(log, 1, length), want)
      OBVIOUS
    <3>2. 1 \in 1..(Len(log) + 1) /\ length \in 0..Len(log')
      BY <2>2, <2>4, <3>1
    <3>3. SubSeq(log', 1, length) = SubSeq(log, 1, length)
      BY <2>3, <3>1, <3>2
    <3> QED
      BY <3>1, <3>2, <3>3
  <2>7. Reader!ReadInv'
    BY <2>2, <2>5, <2>6
  <2> QED
    BY <1>1, <2>7
<1> QED
  BY <1>2, <1>3

\* A chunk is not empty, and not more than what is in front of it.
LEMMA ChunkIsSome ==
  ASSUME position \in Nat \ {0}, Len(bytes) \in Nat, Reader!Remaining > 0
  PROVE  Reader!Amount \in 1..position
<1>1. Reader!Remaining \in Nat \ {0} /\ ChunkSize \in Nat \ {0}
  BY LogAssumption DEF Reader!Remaining
<1> DEFINE all == {position, ChunkSize, Reader!Remaining}
<1>2. all \subseteq Nat \ {0} /\ all \subseteq Nat /\ all # {} /\ position \in all
  BY <1>1
<1> HIDE DEF all
<1>3. Reader!Min(all) \in all /\ \A m \in all : Reader!Min(all) <= m
  BY <1>2, FirstOf
<1>4. Reader!Amount = Reader!Min(all)
  BY DEF Reader!Amount, all
<1>5. Reader!Amount \in Nat \ {0} /\ Reader!Amount <= position
  BY <1>2, <1>3, <1>4
<1> QED
  BY <1>5

\* The command reads the end of the file, chunk before chunk, and what it prints are the
\* last lines of the file as it was.
LEMMA ReaderKeeps ==
  ASSUME TailInv, Reader!Next, UNCHANGED sinkVars
  PROVE  TailInv'
<1> USE DEF TailInv, Reader!ReadInv
<1>1. UNCHANGED log
  BY DEF Reader!Next, Reader!Command, Reader!Call, Reader!Open, Reader!Stat, Reader!ReadChunk,
         Reader!Finish, Reader!Exit
<1>2. TextInv'
  BY <1>1 DEF TextInv
<1>3. None \notin Seq(Bytes) /\ (log # None => log \in Seq(Bytes) /\ Len(log) \in Nat)
  BY TextAssumption, LenProperties, Zenon DEF TextInv
<1>4. CASE Reader!Call
  <2>1. /\ step = "idle" /\ want' \in Wants /\ step' = "open" /\ answer' = answer
    BY <1>4 DEF Reader!Call
  <2>2. answer = None /\ want' \in Nat
    BY <2>1, LogAssumption
  <2> QED
    BY <1>1, <1>2, <2>1, <2>2
<1>5. CASE Reader!Open
  <2>1. /\ step = "open" /\ want' = want
        /\ \/ step' = "print" /\ answer' = [kind |-> "no log"]
           \/ step' = "print" /\ answer' = [kind |-> "lines", lines |-> <<>>] /\ want = 0
           \/ step' = "stat" /\ answer' = answer /\ log # None /\ want # 0
    BY <1>5 DEF Reader!Open, Reader!Answer
  <2>2. answer = None
    BY <2>1
  <2>3. CASE step' = "print" /\ answer' = [kind |-> "no log"]
    BY <1>1, <1>2, <2>1, <2>3
  <2>4. CASE step' = "print" /\ answer' = [kind |-> "lines", lines |-> <<>>] /\ want = 0
    BY <1>1, <1>2, <2>1, <2>4
  <2>5. CASE step' = "stat" /\ answer' = answer /\ log # None /\ want # 0
    BY <1>1, <1>2, <2>1, <2>2, <2>5
  <2> QED
    BY <2>1, <2>3, <2>4, <2>5
<1>6. CASE Reader!Stat
  <2>1. /\ step = "stat" /\ want' = want /\ length' = Len(log) /\ position' = Len(log)
        /\ bytes' = <<>>
        /\ \/ log = <<>> /\ step' = "print" /\ answer' = [kind |-> "lines", lines |-> <<>>]
           \/ log # <<>> /\ step' = "read" /\ answer' = answer
    BY <1>6 DEF Reader!Stat, Reader!Answer
  <2>2. answer = None /\ log # None /\ log \in Seq(Bytes) /\ Len(log) \in Nat
    BY <1>3, <2>1
  <2>3. CASE log = <<>> /\ step' = "print" /\ answer' = [kind |-> "lines", lines |-> <<>>]
    <3>1. SubSeq(log, 1, Len(log)) = <<>> /\ Len(log) = 0
      BY <2>3
    <3>2. Reader!LastLines(<<>>, want) = <<>>
      <4>1. Reader!Begins(<<>>) = {}
        BY DEF Reader!Begins
      <4>2. Reader!Cardinality(Reader!Begins(<<>>)) = 0
        BY <4>1, SameCount, FS_EmptySet
      <4>3. Reader!Min({want, 0}) = 0
        BY SmallerOf
      <4>4. Reader!Min({want, Reader!Cardinality(Reader!Begins(<<>>))}) = 0
        BY <4>2, <4>3
      <4> DEFINE empty == <<>>
                 at(k, m) == CHOOSE i \in Reader!Begins(empty) : Reader!Following(empty, i) = m - k + 1
                 lines(m) == [k \in 1..m |-> Reader!StripCR(Reader!PieceAt(empty, at(k, m)))]
      <4>5. Reader!LastLines(<<>>, want) =
              lines(Reader!Min({want, Reader!Cardinality(Reader!Begins(<<>>))}))
        BY Zenon DEF Reader!LastLines
      <4>6. lines(0) = <<>>
        <5> HIDE DEF at
        <5> QED
          OBVIOUS
      <4> HIDE DEF lines
      <4> QED
        BY <4>4, <4>5, <4>6
    <3>3. Reader!LastLines(SubSeq(log', 1, length'), want') = <<>>
      BY <1>1, <2>1, <3>1, <3>2
    <3>4. /\ answer'.lines = <<>> /\ step' = "print" /\ want' \in Nat /\ log' # None
          /\ length' \in 0..Len(log')
      BY <1>1, <2>1, <2>2, <2>3
    <3> QED
      BY <1>2, <3>3, <3>4
  <2>4. CASE log # <<>> /\ step' = "read" /\ answer' = answer
    <3>1. SubSeq(log, Len(log) + 1, Len(log)) = <<>>
      BY <2>2, SubSeqEmpty
    <3> QED
      BY <1>1, <1>2, <2>1, <2>2, <2>4, <3>1
  <2> QED
    BY <2>1, <2>3, <2>4
<1>7. CASE Reader!ReadChunk
  <2>1. /\ step = "read" /\ position > 0 /\ UNCHANGED <<want, length>>
        /\ \/ step' = "print" /\ answer' = [kind |-> "limit"]
           \/ /\ Reader!Remaining > 0 /\ position' = position - Reader!Amount
              /\ bytes' = SubSeq(log, position' + 1, position) \o bytes
              /\ UNCHANGED <<step, answer>>
    <3>1. Len(bytes) \in Nat
      <4>1. /\ step = "read" /\ log \in Seq(Bytes)
            /\ length \in 0..Len(log) /\ position \in 0..length
            /\ bytes = SubSeq(log, position + 1, length)
        BY <1>3, <1>7 DEF Reader!ReadChunk
      <4> QED
        BY <4>1, LenProperties
    <3>2. Reader!Remaining \in Int
      BY <3>1, LogAssumption DEF Reader!Remaining
    <3>3. Reader!Remaining <= 0 \/ Reader!Remaining > 0
      BY <3>2
    <3> QED
      BY <1>7, <3>3 DEF Reader!ReadChunk, Reader!Goes, Reader!Answer
  <2>2. /\ log # None /\ log \in Seq(Bytes) /\ Len(log) \in Nat
        /\ length \in 0..Len(log) /\ position \in 0..length
        /\ bytes = SubSeq(log, position + 1, length) /\ answer = None
    BY <1>3, <2>1
  <2>3. CASE step' = "print" /\ answer' = [kind |-> "limit"]
    BY <1>1, <1>2, <2>1, <2>3
  <2>4. CASE /\ Reader!Remaining > 0 /\ position' = position - Reader!Amount
             /\ bytes' = SubSeq(log, position' + 1, position) \o bytes
             /\ UNCHANGED <<step, answer>>
    <3>1. Reader!Amount \in 1..position
      <4>1. Len(bytes) \in Nat
        BY <2>2, LenProperties
      <4>2. position \in Nat \ {0}
        BY <2>1, <2>2
      <4> QED
        BY <2>4, <4>1, <4>2, ChunkIsSome
    <3>2. /\ position' \in 0..length /\ position' + 1 \in 1..(Len(log) + 1)
          /\ position \in ((position' + 1) - 1)..Len(log) /\ length \in position..Len(log)
      BY <2>2, <2>4, <3>1
    <3>3. bytes' = SubSeq(log, position' + 1, length)
      BY <2>2, <2>4, <3>2, ConcatAdjacentSubSeq
    <3> QED
      BY <1>1, <1>2, <2>1, <2>2, <2>4, <3>2, <3>3
  <2> QED
    BY <2>1, <2>3, <2>4
<1>8. CASE Reader!Finish
  <2> DEFINE all == SubSeq(log, 1, length)
  <2>1. /\ step = "read" /\ ~ Reader!Goes /\ UNCHANGED <<want, length>> /\ step' = "print"
        /\ \/ answer' = [kind |-> "lines", lines |-> Reader!TailLines(bytes, want)]
           \/ answer' = [kind |-> "not text"]
    BY <1>8 DEF Reader!Finish, Reader!Answer
  <2>2. /\ log # None /\ log \in Seq(Bytes) /\ Len(log) \in Nat /\ want \in Nat
        /\ length \in 0..Len(log) /\ position \in 0..length
        /\ bytes = SubSeq(log, position + 1, length)
    BY <1>3, <2>1
  <2>3. all \in Seq(Bytes) /\ Len(all) = length
    <3>1. \A i \in 1..length : log[i] \in Bytes
      BY <2>2
    <3> QED
      BY <2>2, <3>1, SubSeqProperties
  <2>4. bytes = SubSeq(all, position + 1, Len(all)) /\ bytes \in Seq(Bytes)
    <3>1. CASE position = length
      <4>1. bytes = <<>> /\ SubSeq(all, position + 1, Len(all)) = <<>>
        BY <2>2, <2>3, <3>1, SubSeqEmpty
      <4> QED
        BY <4>1, EmptySeq
    <3>2. CASE position # length
      <4>1. /\ 1 \in 1..Len(log) /\ length \in 1..Len(log)
            /\ position + 1 \in 1..(length - 1 + 1) /\ length \in 1..(length - 1 + 1)
            /\ 1 + (position + 1) - 1 = position + 1 /\ 1 + length - 1 = length
        BY <2>2, <3>2
      <4>2. SubSeq(all, position + 1, length) = SubSeq(log, position + 1, length)
        BY <2>2, <4>1, SubSeqOfSubSeq
      <4> QED
        BY <2>2, <2>3, <4>2
    <3> QED
      BY <3>1, <3>2
  <2>5. position = 0 \/ Reader!Newlines(bytes) >= want + 1
    <3>1. Reader!Newlines(bytes) \in Nat
      <4>1. Reader!Cuts(bytes) \in SUBSET (1..Len(bytes)) /\ Len(bytes) \in Nat
        BY <2>4, LinesBegin, LenProperties
      <4> QED
        BY <4>1, CountedDown, SameCount DEF Reader!Newlines
    <3>2. position \in Nat /\ want \in Nat
      BY <2>2
    <3>3. ~ (position > 0 /\ Reader!Newlines(bytes) < want + 1)
      BY <2>1 DEF Reader!Goes
    <3> QED
      BY <3>1, <3>2, <3>3
  <2>6. Reader!TailLines(bytes, want) = Reader!LastLines(all, want)
    <3>1. Reader!TailLines(bytes, want) = Reader!LastLines(bytes, want)
      BY <2>2, <2>4, LastAreLast
    <3>2. position \in 0..Len(all)
      BY <2>2, <2>3
    <3>3. Reader!LastLines(bytes, want) = Reader!LastLines(all, want)
      BY <2>2, <2>3, <2>4, <2>5, <3>2, EndIsEnough
    <3> QED
      BY <3>1, <3>3
  <2>7. CASE answer' = [kind |-> "lines", lines |-> Reader!TailLines(bytes, want)]
    BY <1>1, <1>2, <2>1, <2>2, <2>6, <2>7
  <2>8. CASE answer' = [kind |-> "not text"]
    BY <1>1, <1>2, <2>1, <2>2, <2>8
  <2> QED
    BY <2>1, <2>7, <2>8
<1>9. CASE Reader!Exit
  <2>1. step' = "idle" /\ want' = 0 /\ answer' = None
    BY <1>9 DEF Reader!Exit
  <2> QED
    BY <1>1, <1>2, <2>1
<1> QED
  BY <1>4, <1>5, <1>6, <1>7, <1>8, <1>9 DEF Reader!Next, Reader!Command

\* The file only grows while it is read, the bytes read are its end as it was, and the
\* lines printed are the last ones of that.
THEOREM TailInvariant == Spec => []TailInv
<1>1. Init => TailInv
  <2> SUFFICES ASSUME Init PROVE TailInv
    OBVIOUS
  <2>1. /\ log = None /\ servers = 0 /\ alive = FALSE /\ pushed = [a \in Agents |-> 0]
        /\ queue = [a \in Agents |-> <<>>] /\ todo = [a \in Agents |-> <<>>]
        /\ step = "idle" /\ want = 0 /\ answer = None
    BY DEF Init, Sink!Init, Sink!OfAll, Reader!Init
  <2>2. TextInv
    BY <2>1, LogAssumption, EmptySeq DEF TextInv
  <2>3. Reader!ReadInv
    BY <2>1 DEF Reader!ReadInv
  <2> QED
    BY <2>2, <2>3 DEF TailInv
<1>2. TailInv /\ [Next]_vars => TailInv'
  <2> SUFFICES ASSUME TailInv, [Next]_vars PROVE TailInv'
    OBVIOUS
  <2>1. CASE Sink!Next /\ UNCHANGED tailVars
    BY <2>1, SinkLeavesReader
  <2>2. CASE Reader!Next /\ UNCHANGED sinkVars
    BY <2>2, ReaderKeeps
  <2>3. CASE UNCHANGED vars
    BY <2>3 DEF TailInv, TextInv, Reader!ReadInv
  <2> QED
    BY <2>1, <2>2, <2>3 DEF Next
<1> QED
  BY <1>1, <1>2, PTL DEF Spec

\* `server logs` prints the last lines of the file as of one moment, for any text, chunks
\* and number of lines, although the server goes on writing (read_log_tail).
THEOREM TailsAreExact == Spec => []TailIsExact
<1>1. TailInv => TailIsExact
  BY DEF TailInv, Reader!ReadInv, TailIsExact, Reader!TailIsExact
<1> QED
  BY <1>1, TailInvariant, PTL
================================================================================
