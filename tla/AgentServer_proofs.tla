--------------------------- MODULE AgentServer_proofs ---------------------------
(***************************************************************************)
(* Proofs about AgentServer: for any clients, ids and routes the registry  *)
(* stays free of duplicates, dispatch is unambiguous, and shutdown gives   *)
(* every HTTP connection its grace.                                        *)
(***************************************************************************)
EXTENDS AgentServer, SequenceTheorems, TLAPS

(***************************************************************************)
(* Types                                                                   *)
(***************************************************************************)

Typed == TypeOK /\ HandlerInv

LEMMA TypedInit == Init => Typed
  BY DEF Init, Typed, TypeOK, HandlerInv

LEMMA TypedServer == Typed /\ (Signal \/ Server) => Typed'
<1> SUFFICES ASSUME Typed, Signal \/ Server PROVE Typed'
  OBVIOUS
<1> USE DEF Typed, connVars
<1>1. CASE Signal
  BY <1>1 DEF Signal, TypeOK, HandlerInv
<1>2. CASE StopAccepting
  BY <1>2 DEF StopAccepting, TypeOK, HandlerInv
<1>3. CASE BeginGrace
  BY <1>3 DEF BeginGrace, TypeOK, HandlerInv
<1>4. CASE Drained
  BY <1>4 DEF Drained, TypeOK, HandlerInv
<1>5. CASE GraceExpires
  BY <1>5 DEF GraceExpires, TypeOK, HandlerInv
<1>6. CASE ForceExpires
  BY <1>6 DEF ForceExpires, TypeOK, HandlerInv
<1>7. CASE Exit
  BY <1>7 DEF Exit, Open, TypeOK, HandlerInv
<1> QED
  BY <1>1, <1>2, <1>3, <1>4, <1>5, <1>6, <1>7 DEF Server

LEMMA TypedConn == \A c \in Conns : Typed /\ (Client(c) \/ Handler(c)) => Typed'
<1> SUFFICES ASSUME NEW c \in Conns, Typed, Client(c) \/ Handler(c) PROVE Typed'
  OBVIOUS
<1> USE DEF Typed, serverVars
<1>1. CASE Accept(c)
  <2>1. PICK r \in Requests :
          /\ req' = [req EXCEPT ![c] = r]
          /\ pc' = [pc EXCEPT ![c] = CASE r.op = "add" -> "resolving"
                                       [] r.op = "agent" -> "dispatching"
                                       [] OTHER -> "routed"]
    BY <1>1 DEF Accept
  <2>2. UNCHANGED <<agents, entry, agent, serverVars>> /\ req[c] = None
    BY <1>1 DEF Accept
  <2>3. r.op = "add" => r \in [op : {"add"}, reg : Registrations]
    BY DEF Requests
  <2>4. r.op = "agent" => r \in [op : {"agent"}, path : Paths, websocket : BOOLEAN]
    BY DEF Requests
  <2>5. TypeOK'
    BY <2>1, <2>2 DEF TypeOK
  <2>6. r # None
    BY NoneAssumption
  <2>7. entry[c] = None
    BY <2>2, NoneAssumption DEF HandlerInv, Requests
  <2> QED
    BY <2>1, <2>2, <2>3, <2>4, <2>5, <2>6, <2>7 DEF TypeOK, HandlerInv
<1>2. CASE Resolve(c) \/ HangUp(c) \/ ForceClose(c)
  BY <1>2 DEF Resolve, HangUp, ForceClose, Step, Open, TypeOK, HandlerInv
<1>3. CASE AgentEnds(c) \/ CancelAgent(c)
  BY <1>3 DEF AgentEnds, CancelAgent, TypeOK, HandlerInv
<1>4. CASE InsertAgent(c)
  <2>1. req[c].reg \in Registrations
    BY <1>4 DEF InsertAgent, Step, HandlerInv
  <2>2. agents' \in SUBSET Registrations
    BY <1>4, <2>1 DEF InsertAgent, TypeOK
  <2> QED
    BY <1>4, <2>2 DEF InsertAgent, Step, TypeOK, HandlerInv
<1>5. CASE RemoveAgent(c)
  BY <1>5 DEF RemoveAgent, Step, TypeOK, HandlerInv
<1>6. CASE Shutdown(c)
  BY <1>6 DEF Shutdown, Step, TypeOK, HandlerInv
<1>7. CASE Dispatch(c)
  <2>1. Chosen(req[c].path) \subseteq Registrations
    BY DEF Chosen, TypeOK
  <2>2. /\ UNCHANGED <<agents, req, agent, serverVars>>
        /\ pc[c] = "dispatching"
        /\ pc' = [pc EXCEPT ![c] = "closed"] \/ pc' = [pc EXCEPT ![c] = "routed"]
        /\ UNCHANGED entry \/ \E a \in Registrations : entry' = [entry EXCEPT ![c] = a]
    BY <1>7, <2>1 DEF Dispatch, Step
  <2>3. entry' \in [Conns -> Registrations \cup {None}]
    BY <2>2 DEF TypeOK
  <2>4. pc' \in [Conns -> {"new", "resolving", "inserting", "dispatching", "routed", "streaming",
                           "upgraded", "closed"}]
    BY <2>2 DEF TypeOK
  <2>5. HandlerInv'
    BY <2>2 DEF TypeOK, HandlerInv
  <2> QED
    BY <2>2, <2>3, <2>4, <2>5 DEF TypeOK
<1>8. CASE Launch(c)
  BY <1>8 DEF Launch, Step, TypeOK, HandlerInv
<1> QED
  BY <1>1, <1>2, <1>3, <1>4, <1>5, <1>6, <1>7, <1>8 DEF Client, Handler

LEMMA TypedStep == Typed /\ [Next]_vars => Typed'
<1>1. ASSUME Typed, UNCHANGED vars PROVE Typed'
  BY <1>1 DEF Typed, TypeOK, HandlerInv, vars, connVars, serverVars
<1> QED
  BY <1>1, TypedServer, TypedConn DEF Next

\* Every variable keeps its type.
THEOREM TypeCorrect == Spec => []TypeOK
<1>1. Typed => TypeOK
  BY DEF Typed
<1> QED
  BY <1>1, TypedInit, TypedStep, PTL DEF Spec

(***************************************************************************)
(* The registry                                                            *)
(***************************************************************************)

\* The registry never holds two agents with the same id or the same route.
THEOREM NoDuplicates == Spec => []RegistrationsAreDistinct
<1>1. Init => RegistrationsAreDistinct
  BY DEF Init, RegistrationsAreDistinct
<1>2. RegistrationsAreDistinct /\ [Next]_vars => RegistrationsAreDistinct'
  <2> SUFFICES ASSUME RegistrationsAreDistinct, [Next]_vars PROVE RegistrationsAreDistinct'
    OBVIOUS
  <2>1. ASSUME NEW c \in Conns, InsertAgent(c) PROVE RegistrationsAreDistinct'
    BY <2>1 DEF InsertAgent, RegistrationsAreDistinct
  <2>2. ASSUME NEW c \in Conns, RemoveAgent(c) PROVE RegistrationsAreDistinct'
    BY <2>2 DEF RemoveAgent, RegistrationsAreDistinct
  <2>3. ASSUME UNCHANGED agents PROVE RegistrationsAreDistinct'
    BY <2>3 DEF RegistrationsAreDistinct
  <2> QED
    BY <2>1, <2>2, <2>3
    DEF Next, Server, Client, Handler, Signal, StopAccepting, BeginGrace, Drained,
        GraceExpires, ForceExpires, Exit, Accept, HangUp, AgentEnds, Resolve, Shutdown,
        Dispatch, Launch, ForceClose, CancelAgent, vars
<1> QED
  BY <1>1, <1>2, PTL DEF Spec

\* Two routes of the same length that match a path are the same route.
LEMMA PrefixOfLength ==
  ASSUME NEW r, NEW s, NEW p, RouteMatches(r, p), RouteMatches(s, p), Len(r) = Len(s)
  PROVE  r = s
  BY DEF RouteMatches, IsPrefixOf

\* A request is dispatched to one agent at most.
THEOREM DispatchHasOneTarget == Spec => []DispatchIsUnique
<1>1. TypeOK /\ RegistrationsAreDistinct => DispatchIsUnique
  <2> SUFFICES ASSUME TypeOK, RegistrationsAreDistinct, NEW p \in Paths,
                      NEW a \in Chosen(p), NEW b \in Chosen(p)
               PROVE  a = b
    BY DEF DispatchIsUnique
  <2>1. /\ a \in agents /\ b \in agents
        /\ RouteMatches(a.route, p) /\ RouteMatches(b.route, p)
        /\ Len(a.route) <= Len(b.route) /\ Len(b.route) <= Len(a.route)
    BY DEF Chosen
  <2>2. Len(a.route) \in Nat /\ Len(b.route) \in Nat
    BY <2>1, RouteAssumption, LenProperties DEF TypeOK, Registrations
  <2>3. a.route = b.route
    BY <2>1, <2>2, PrefixOfLength
  <2> QED
    BY <2>1, <2>3 DEF RegistrationsAreDistinct
<1> QED
  BY <1>1, TypeCorrect, NoDuplicates, PTL

(***************************************************************************)
(* The grace                                                               *)
(***************************************************************************)

LEMMA StopInvariant == Spec => []StopInv
<1>1. Init => StopInv
  BY DEF Init, StopInv
<1>2. TypeOK /\ StopInv /\ [Next]_vars => StopInv'
  <2> SUFFICES ASSUME TypeOK, StopInv, [Next]_vars PROVE StopInv'
    OBVIOUS
  <2>1. CASE Signal \/ Server
    <3>1. CASE Signal
      BY <3>1 DEF Signal, StopInv, Waiting, Open, connVars
    <3>2. CASE StopAccepting
      BY <3>2 DEF StopAccepting, StopInv, Waiting, Open, connVars
    <3>3. CASE BeginGrace
      BY <3>3 DEF BeginGrace, StopInv, Waiting, Open, connVars
    <3>4. CASE Drained
      BY <3>4 DEF Drained, StopInv, Waiting, Open, connVars
    <3>5. CASE GraceExpires
      BY <3>5 DEF GraceExpires, StopInv
    <3>6. CASE ForceExpires
      BY <3>6 DEF ForceExpires, StopInv, Waiting, Open, connVars
    <3>7. CASE Exit
      <4>1. cancel' = cancel /\ forceClose' = forceClose /\ phase' = "gone"
        BY <3>7 DEF Exit
      <4> QED
        BY <4>1 DEF StopInv
    <3> QED
      BY <2>1, <3>1, <3>2, <3>3, <3>4, <3>5, <3>6, <3>7 DEF Server
  <2>2. ASSUME NEW c \in Conns, Client(c) \/ Handler(c) PROVE StopInv'
    <3>1. UNCHANGED <<cancel, forceClose, phase, accepting>>
      BY <2>2 DEF Client, Handler, Accept, HangUp, AgentEnds, Resolve, InsertAgent, RemoveAgent,
                  Shutdown, Dispatch, Launch, ForceClose, CancelAgent, serverVars
    <3>2. ASSUME ~accepting, \A d \in Conns : ~Waiting(d) PROVE \A d \in Conns : ~Waiting(d)'
      <4>1. \A d \in Conns : d # c => pc'[d] = pc[d]
        BY <2>2, <3>2 DEF Client, Handler, Accept, HangUp, AgentEnds, Resolve, InsertAgent,
                          RemoveAgent, Shutdown, Dispatch, Launch, ForceClose, CancelAgent, Step,
                          TypeOK
      <4>2. pc'[c] = pc[c] \/ pc'[c] = "closed"
        BY <2>2, <3>2 DEF Client, Handler, Accept, HangUp, AgentEnds, Resolve, InsertAgent,
                          RemoveAgent, Shutdown, Dispatch, Launch, ForceClose, CancelAgent, Step,
                          TypeOK, Waiting, Open
      <4> QED
        BY <3>2, <4>1, <4>2 DEF Waiting, Open
    <3> QED
      BY <3>1, <3>2 DEF StopInv
  <2>3. CASE UNCHANGED vars
    BY <2>3 DEF vars, connVars, serverVars, StopInv, Waiting, Open
  <2> QED
    BY <2>1, <2>2, <2>3 DEF Next
<1> QED
  BY <1>1, <1>2, TypeCorrect, PTL DEF Spec

\* The server kills no agent with an open HTTP connection before it also forces
\* the connections to close.
THEOREM GraceComesFirst == Spec => GraceIsGiven
<1>1. TypeOK /\ StopInv /\ [Next]_vars =>
        \A c \in Conns : pc[c] = "streaming" /\ agent[c] = "running" /\ agent'[c] = "killed"
          => forceClose
  <2> SUFFICES ASSUME TypeOK, StopInv, [Next]_vars, NEW c \in Conns, pc[c] = "streaming",
                      agent[c] = "running", agent'[c] = "killed"
               PROVE  forceClose
    OBVIOUS
  <2>1. CASE Exit
    BY <2>1 DEF Exit, StopInv, Waiting, Open
  <2>2. ASSUME NEW d \in Conns, CancelAgent(d) PROVE forceClose
    BY <2>2 DEF CancelAgent, StopInv
  <2>3. ASSUME NEW d \in Conns, AgentEnds(d) \/ Launch(d) PROVE FALSE
    BY <2>3 DEF AgentEnds, Launch, TypeOK
  <2>4. ASSUME UNCHANGED agent PROVE FALSE
    BY <2>4
  <2> QED
    BY <2>1, <2>2, <2>3, <2>4
    DEF Next, Server, Client, Handler, Signal, StopAccepting, BeginGrace, Drained,
        GraceExpires, ForceExpires, Accept, HangUp, Resolve, InsertAgent, RemoveAgent, Shutdown,
        Dispatch, ForceClose, vars, connVars
<1> QED
  BY <1>1, StopInvariant, TypeCorrect, PTL DEF Spec, GraceIsGiven
================================================================================
