------------------------------- MODULE AgentServer -------------------------------
(***************************************************************************)
(* A running named server (src/src/server/daemon.rs, src/src/serve.rs):    *)
(* its connections register, unregister and reach agents while it serves,  *)
(* and go on doing so while it shuts down: a grace for the connections to  *)
(* drain, then cancellation of the agents and failing I/O, then a last     *)
(* wait.                                                                   *)
(*                                                                         *)
(* A connection carries one request.  An agent is launched by the request  *)
(* that reaches its router; over HTTP it outlives that connection.         *)
(***************************************************************************)
EXTENDS Naturals, Sequences

CONSTANTS
  Conns,   \* the connections clients make
  Ids,     \* agent ids
  Routes,  \* routes, as sequences of characters
  Paths,   \* request paths below the control endpoints, likewise
  None     \* no request, no registration

Registrations == [id : Ids, route : Routes]

Requests ==
  [op : {"add"}, reg : Registrations] \cup [op : {"remove"}, id : Ids]
  \cup [op : {"agent"}, path : Paths, websocket : BOOLEAN] \cup [op : {"shutdown"}]

ASSUME RouteAssumption ==
  Routes \subseteq Seq({"/", "a", "b"}) /\ Paths \subseteq Seq({"/", "a", "b"})
ASSUME NoneAssumption == None \notin Registrations /\ None \notin Requests

VARIABLES
  agents,     \* the registered agents
  req,        \* req[c]: the request of connection c, or None
  pc,         \* pc[c]: where c's handler stands
  entry,      \* entry[c]: the registration that c was dispatched to, or None
  agent,      \* agent[c]: the agent that c launched
  shutdown,   \* the shutdown watch
  accepting,  \* axum takes new connections
  phase,      \* where serve_with_shutdown stands
  cancel,     \* the cancel watch, wired into every agent
  forceClose  \* the force_close watch, wired into every connection's I/O

connVars == <<req, pc, entry, agent>>
serverVars == <<shutdown, accepting, phase, cancel, forceClose>>
vars == <<agents, connVars, serverVars>>

(***************************************************************************)
(* Routes                                                                  *)
(***************************************************************************)

IsPrefixOf(r, p) == Len(r) <= Len(p) /\ SubSeq(p, 1, Len(r)) = r

\* route_matches: the path itself, or a path below it.
RouteMatches(r, p) == IsPrefixOf(r, p) /\ (r = p \/ p[Len(r) + 1] = "/")

\* max_by_key(route.len()) over the entries that match.
Mut_Chosen(p) == {a \in agents : RouteMatches(a.route, p)}

Chosen(p) ==
  {a \in agents : /\ RouteMatches(a.route, p)
                  /\ \A b \in agents : RouteMatches(b.route, p) => Len(b.route) <= Len(a.route)}

(***************************************************************************)
(* Connections                                                             *)
(***************************************************************************)

Open(c) == pc[c] \in {"resolving", "inserting", "dispatching", "routed", "streaming", "upgraded"}

\* Connections that axum's graceful shutdown waits for.  It may or may not wait
\* for one that was upgraded to a WebSocket.
Waiting(c) == Open(c) /\ pc[c] # "upgraded"

Accept(c) ==
  /\ accepting /\ phase # "gone" /\ req[c] = None
  /\ \E r \in Requests :
       /\ req' = [req EXCEPT ![c] = r]
       /\ pc' = [pc EXCEPT ![c] =
            CASE r.op = "add" -> "resolving"
              [] r.op = "agent" -> "dispatching"
              [] OTHER -> "routed"]
  /\ UNCHANGED <<agents, entry, agent, serverVars>>

Step(c, l, m) == pc[c] = l /\ pc' = [pc EXCEPT ![c] = m] /\ phase # "gone"

\* add_agent fetches the registry and resolves the binary before it takes the
\* lock; any of that may fail.
Resolve(c) ==
  /\ Step(c, "resolving", "inserting") \/ Step(c, "resolving", "closed")
  /\ UNCHANGED <<agents, req, entry, agent, serverVars>>

\* insert_agent, under the write lock: 201, or 409 for a taken id or route.
Mut_InsertAgent(c) ==
  /\ Step(c, "inserting", "closed")
  /\ LET reg == req[c].reg IN
       agents' = IF \E a \in agents : a.id = reg.id THEN agents ELSE agents \cup {reg}
  /\ UNCHANGED <<req, entry, agent, serverVars>>

InsertAgent(c) ==
  /\ Step(c, "inserting", "closed")
  /\ LET reg == req[c].reg IN
       agents' = IF \E a \in agents : a.id = reg.id \/ a.route = reg.route
                 THEN agents
                 ELSE agents \cup {reg}
  /\ UNCHANGED <<req, entry, agent, serverVars>>

RemoveAgent(c) ==
  /\ req[c] # None /\ req[c].op = "remove" /\ Step(c, "routed", "closed")
  /\ agents' = {a \in agents : a.id # req[c].id}
  /\ UNCHANGED <<req, entry, agent, serverVars>>

\* POST /api/shutdown
Shutdown(c) ==
  /\ req[c] # None /\ req[c].op = "shutdown" /\ Step(c, "routed", "closed")
  /\ shutdown' = TRUE
  /\ UNCHANGED <<agents, req, entry, agent, accepting, phase, cancel, forceClose>>

\* dispatch_agent clones the entry under the read lock ...
Dispatch(c) ==
  /\ req[c] # None /\ req[c].op = "agent"
  /\ \/ /\ Chosen(req[c].path) = {} /\ Step(c, "dispatching", "closed")
        /\ UNCHANGED entry
     \/ /\ Step(c, "dispatching", "routed")
        /\ \E a \in Chosen(req[c].path) : entry' = [entry EXCEPT ![c] = a]
  /\ UNCHANGED <<agents, req, agent, serverVars>>

\* ... and calls its router after the lock is released: the agent starts.
Launch(c) ==
  /\ entry[c] # None
  /\ Step(c, "routed", IF req[c].websocket THEN "upgraded" ELSE "streaming")
  /\ agent' = [agent EXCEPT ![c] = "running"]
  /\ UNCHANGED <<agents, req, entry, serverVars>>

\* The response is over or the client hangs up, whatever the handler is at; its
\* future is dropped.
HangUp(c) ==
  /\ Open(c) /\ phase # "gone"
  /\ pc' = [pc EXCEPT ![c] = "closed"]
  /\ UNCHANGED <<agents, req, entry, agent, serverVars>>

\* ForceCloseIo fails every read and write once the watch is set.
ForceClose(c) ==
  /\ forceClose /\ Open(c) /\ phase # "gone"
  /\ pc' = [pc EXCEPT ![c] = "closed"]
  /\ UNCHANGED <<agents, req, entry, agent, serverVars>>

(***************************************************************************)
(* Agents                                                                  *)
(***************************************************************************)

\* The agent exits or its client ends the session.
AgentEnds(c) ==
  /\ agent[c] = "running"
  /\ agent' = [agent EXCEPT ![c] = "ended"]
  /\ UNCHANGED <<agents, req, pc, entry, serverVars>>

\* wait_for_cancellation looks at the watch before it waits: an agent that is
\* launched after the cancellation is cancelled too.
Mut_CancelAgent(c) ==
  /\ cancel /\ agent[c] = "running" /\ entry[c] \in agents
  /\ agent' = [agent EXCEPT ![c] = "killed"]
  /\ UNCHANGED <<agents, req, pc, entry, serverVars>>

CancelAgent(c) ==
  /\ cancel /\ agent[c] = "running"
  /\ agent' = [agent EXCEPT ![c] = "killed"]
  /\ UNCHANGED <<agents, req, pc, entry, serverVars>>

(***************************************************************************)
(* serve_with_shutdown                                                     *)
(***************************************************************************)

\* SIGINT or SIGTERM.
Signal ==
  /\ phase # "gone" /\ ~shutdown
  /\ shutdown' = TRUE
  /\ UNCHANGED <<agents, connVars, accepting, phase, cancel, forceClose>>

StopAccepting ==
  /\ shutdown /\ accepting
  /\ accepting' = FALSE
  /\ UNCHANGED <<agents, connVars, shutdown, phase, cancel, forceClose>>

\* The supervisor's arm of the select.
Mut_BeginGrace ==
  /\ shutdown /\ phase = "serving"
  /\ phase' = "grace"
  /\ cancel' = TRUE
  /\ UNCHANGED <<agents, connVars, shutdown, accepting, forceClose>>

BeginGrace ==
  /\ shutdown /\ phase = "serving"
  /\ phase' = "grace"
  /\ UNCHANGED <<agents, connVars, shutdown, accepting, cancel, forceClose>>

\* The server future resolves, in whichever arm it is polled.
Drained ==
  /\ ~accepting /\ (\A c \in Conns : ~Waiting(c))
  /\ phase \in {"serving", "grace", "forced"}
  /\ phase' = "stopped"
  /\ UNCHANGED <<agents, connVars, shutdown, accepting, cancel, forceClose>>

Mut_GraceExpires ==
  /\ phase = "grace" /\ (\A c \in Conns : ~Open(c))
  /\ phase' = "forced" /\ cancel' = TRUE /\ forceClose' = TRUE
  /\ UNCHANGED <<agents, connVars, shutdown, accepting>>

GraceExpires ==
  /\ phase = "grace"
  /\ phase' = "forced" /\ cancel' = TRUE /\ forceClose' = TRUE
  /\ UNCHANGED <<agents, connVars, shutdown, accepting>>

\* FORCE_CLOSE_GRACE is over too: an error, but the server stops.
ForceExpires ==
  /\ phase = "forced"
  /\ phase' = "stopped"
  /\ UNCHANGED <<agents, connVars, shutdown, accepting, cancel, forceClose>>

\* main returns and the runtime drops every task that is left, with the child
\* guards in it.
Exit ==
  /\ phase = "stopped"
  /\ phase' = "gone" /\ accepting' = FALSE
  /\ pc' = [c \in Conns |-> IF Open(c) THEN "closed" ELSE pc[c]]
  /\ agent' = [c \in Conns |-> IF agent[c] = "running" THEN "killed" ELSE agent[c]]
  /\ UNCHANGED <<agents, req, entry, shutdown, cancel, forceClose>>

(***************************************************************************)
(* The specification                                                       *)
(***************************************************************************)

Init ==
  /\ agents = {}
  /\ req = [c \in Conns |-> None]
  /\ pc = [c \in Conns |-> "new"]
  /\ entry = [c \in Conns |-> None]
  /\ agent = [c \in Conns |-> "none"]
  /\ shutdown = FALSE /\ accepting = TRUE /\ phase = "serving"
  /\ cancel = FALSE /\ forceClose = FALSE

Client(c) == Accept(c) \/ HangUp(c) \/ AgentEnds(c)

Handler(c) ==
  \/ Resolve(c) \/ InsertAgent(c) \/ RemoveAgent(c) \/ Shutdown(c)
  \/ Dispatch(c) \/ Launch(c) \/ ForceClose(c) \/ CancelAgent(c)

Server ==
  \/ StopAccepting \/ BeginGrace \/ Drained \/ GraceExpires \/ ForceExpires \/ Exit

Next == Signal \/ Server \/ \E c \in Conns : Client(c) \/ Handler(c)

Spec == Init /\ [][Next]_vars

\* The server's own task and timers run, and so do the tasks of the agents'
\* connections, which wait for the cancellation.  Nothing is asked of clients, of
\* the registry or of the agents, nor of the runtime after the server: Exit may
\* never come.
Fairness ==
  /\ WF_vars(StopAccepting \/ BeginGrace \/ Drained \/ GraceExpires \/ ForceExpires)
  /\ \A c \in Conns : WF_vars(CancelAgent(c))

FairSpec == Spec /\ Fairness

(***************************************************************************)
(* Properties                                                              *)
(***************************************************************************)

\* Every variable has its type.
TypeOK ==
  /\ agents \in SUBSET Registrations
  /\ req \in [Conns -> Requests \cup {None}]
  /\ pc \in [Conns -> {"new", "resolving", "inserting", "dispatching", "routed", "streaming",
                       "upgraded", "closed"}]
  /\ entry \in [Conns -> Registrations \cup {None}]
  /\ agent \in [Conns -> {"none", "running", "ended", "killed"}]
  /\ shutdown \in BOOLEAN /\ accepting \in BOOLEAN /\ cancel \in BOOLEAN
  /\ forceClose \in BOOLEAN
  /\ phase \in {"serving", "grace", "forced", "stopped", "gone"}

\* However registrations that were resolved at the same time interleave, no two
\* registered agents share an id or a route.
RegistrationsAreDistinct ==
  \A a, b \in agents : a.id = b.id \/ a.route = b.route => a = b

\* A request has at most one agent to go to, although the map is not ordered.
DispatchIsUnique ==
  \A p \in Paths : \A a, b \in Chosen(p) : a = b

\* An agent whose HTTP connection is open is not stopped by the server before
\* the grace is over, whatever is unregistered meanwhile.
GraceIsGiven ==
  [][\A c \in Conns :
       pc[c] = "streaming" /\ agent[c] = "running" /\ agent'[c] = "killed" => forceClose]_vars

\* Asked to stop, serve_with_shutdown returns, whatever clients and agents do.
ServerStops == shutdown ~> phase \in {"stopped", "gone"}

\* The cancellation reaches every agent: of those that run by then, that were
\* unregistered since, or that a request dispatched earlier launches only
\* afterwards, none is left to the drop of the runtime.
CancelReachesAgents == cancel ~> [](\A c \in Conns : agent[c] # "running")

(***************************************************************************)
(* Inductive invariant                                                     *)
(***************************************************************************)

\* A handler that inserts carries a registration, a dispatched one an entry.
HandlerInv ==
  \A c \in Conns :
    /\ pc[c] \in {"resolving", "inserting"} => req[c] \in [op : {"add"}, reg : Registrations]
    /\ pc[c] = "dispatching" =>
         req[c] \in [op : {"agent"}, path : Paths, websocket : BOOLEAN]
    /\ pc[c] # "new" => req[c] # None
    /\ entry[c] # None =>
         req[c] \in [op : {"agent"}, path : Paths, websocket : BOOLEAN]

\* Cancelling and forcing go together, and a server that stopped without them
\* has no connection left that it waits for.
StopInv ==
  /\ cancel = forceClose
  /\ phase = "forced" => forceClose
  /\ phase = "stopped" /\ ~forceClose => ~accepting /\ \A c \in Conns : ~Waiting(c)
================================================================================
