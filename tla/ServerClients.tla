------------------------------ MODULE ServerClients ------------------------------
(***************************************************************************)
(* `server register` and `server unregister` (src/src/server/client.rs)    *)
(* against the daemons of NamedServer: a client finds the daemon through   *)
(* the state file, asks it who it is, and sends a request that the daemon  *)
(* may work on for long (src/src/server/daemon.rs).  An agent stands for   *)
(* its id and its route here, which AgentServer tells apart.               *)
(***************************************************************************)
EXTENDS NamedServer

CONSTANTS
  Registers,   \* invocations of `server register`
  Unregisters, \* invocations of `server unregister`
  AgentOf,     \* the agent each of them is about
  ServerOf,    \* the --name of each of them
  Casts        \* the sets of commands and clients that are tried together

Clients == Registers \cup Unregisters

\* What a handler answers: a status of HTTP, as far as a client tells them apart.
Created == {"created", "conflict", "unavailable"}
Removed == {"removed", "not found"}

ASSUME ClientsAssumption ==
  /\ Registers \cap Unregisters = {}
  /\ None \notin Created \cup Removed
  /\ ServerOf \in [Clients -> Names] /\ DOMAIN AgentOf = Clients
  /\ Casts \subseteq SUBSET (Commands \cup Clients)

VARIABLES
  cast,   \* who takes part
  agents, \* agents[d]: the registry of d, as <<agent, register that inserted it>>
  client, \* client[c]: the next step of c, or its outcome
  target, \* target[c]: the daemon whose JSON c has read, or None
  server, \* server[c]: the daemon that took the request of c, or None
  answer  \* answer[c]: what its handler has answered, or None

clientVars == <<agents, client, target, server, answer>>
allVars == <<vars, cast, clientVars>>

Ended(c) == client[c] \in {"ok", "rejected", "failed", "gone"}
AtWork(c) == client[c] # "idle" /\ ~Ended(c)
Moves(c, l) == client' = [client EXCEPT ![c] = l]

\* The command has failed; what it knew and what its handler did is gone with it.
Fails(c, l) ==
  /\ Moves(c, l)
  /\ target' = [target EXCEPT ![c] = None]
  /\ server' = [server EXCEPT ![c] = None]
  /\ answer' = [answer EXCEPT ![c] = None]

(***************************************************************************)
(* The client                                                              *)
(***************************************************************************)

\* load_live_server: the file ...
Load(c) ==
  /\ client[c] = "idle" /\ c \in cast
  /\ Concurrent \/ \A x \in Commands : pc[x] = "idle" \/ Done(x)
  /\ IF Readable(ServerOf[c])
     THEN /\ Moves(c, "probe") /\ target' = [target EXCEPT ![c] = owner[ServerOf[c]]]
          /\ UNCHANGED <<server, answer>>
     ELSE Fails(c, "failed")
  /\ UNCHANGED agents

\* Mutant: whoever answers on that port will do.
Mut_Probe(c) ==
  /\ client[c] = "probe"
  /\ IF At(target[c]) # {}
     THEN Moves(c, "send") /\ UNCHANGED <<target, server, answer>>
     ELSE Fails(c, "failed")
  /\ UNCHANGED agents

\* ... and server_is_alive.
Probe(c) ==
  /\ client[c] = "probe"
  /\ \/ Answers(target[c]) /\ Moves(c, "send") /\ UNCHANGED <<target, server, answer>>
     \/ Silent(target[c]) /\ Fails(c, "failed")
  /\ UNCHANGED agents

\* The request goes to whoever serves that port by now, and has no time limit.
Send(c) ==
  /\ client[c] = "send"
  /\ \/ \E d \in At(target[c]) :
          /\ daemon[d] = "serving"
          /\ server' = [server EXCEPT ![c] = d] /\ Moves(c, "sent")
        /\ target' = [target EXCEPT ![c] = None] /\ UNCHANGED answer
     \/ At(target[c]) = {} /\ Fails(c, "failed")
  /\ UNCHANGED agents

Receive(c) ==
  /\ client[c] = "sent" /\ answer[c] # None
  /\ IF answer[c] \in {"created", "removed"}
     THEN Moves(c, "ok") /\ UNCHANGED <<target, server, answer>>
     ELSE Fails(c, "rejected")
  /\ UNCHANGED agents

\* Mutant: a time limit for the request.
Mut_LosesServer(c) ==
  /\ client[c] = "sent"
  /\ Moves(c, "failed")
  /\ UNCHANGED <<agents, target, server, answer>>

\* Only a daemon that drains waits for it no more, or that dies, hangs up.
LosesServer(c) ==
  /\ client[c] = "sent" /\ daemon[server[c]] \notin {"serving", "draining"}
  /\ Fails(c, "failed") /\ UNCHANGED agents

\* The user interrupts the command while it waits for the reply; before that, it
\* has done nothing.
Interrupted(c) ==
  /\ client[c] = "sent"
  /\ Moves(c, "gone")
  /\ UNCHANGED <<agents, target, server, answer>>

(***************************************************************************)
(* The handlers, which a client that hangs up does not stop at once        *)
(***************************************************************************)

Handles(c) ==
  /\ server[c] # None /\ answer[c] = None
  /\ daemon[server[c]] \in {"serving", "draining"}

Replies(c, a) == answer' = [answer EXCEPT ![c] = a]

Entries(d, a) == {e \in agents[d] : e[1] = a}

\* add_agent, once it has resolved the agent: insert_agent.
AddAgent(r) ==
  /\ Handles(r)
  /\ IF Entries(server[r], AgentOf[r]) = {}
     THEN /\ agents' = [agents EXCEPT ![server[r]] = @ \cup {<<AgentOf[r], r>>}]
          /\ Replies(r, "created")
     ELSE Replies(r, "conflict") /\ UNCHANGED agents
  /\ UNCHANGED <<client, target, server>>

\* The registry cannot be fetched, or the agent not be resolved.
AddAgentFails(r) ==
  /\ Handles(r)
  /\ Replies(r, "unavailable")
  /\ UNCHANGED <<agents, client, target, server>>

RemoveAgent(u) ==
  /\ Handles(u)
  /\ IF Entries(server[u], AgentOf[u]) # {}
     THEN Replies(u, "removed") ELSE Replies(u, "not found")
  /\ agents' = [agents EXCEPT ![server[u]] = @ \ Entries(server[u], AgentOf[u])]
  /\ UNCHANGED <<client, target, server>>

(***************************************************************************)
(* The specification                                                       *)
(***************************************************************************)

ClientsInit ==
  /\ Init
  /\ cast \in Casts
  /\ agents = [d \in Starts |-> {}]
  /\ client = [c \in Clients |-> "idle"]
  /\ target = [c \in Clients |-> None]
  /\ server = [c \in Clients |-> None]
  /\ answer = [c \in Clients |-> None]

\* Unless everything overlaps, no start, stop or status begins while a client
\* works; clients always overlap with one another.
Lifecycle ==
  /\ Next /\ UNCHANGED <<cast, clientVars>>
  /\ \A x \in Commands : pc[x] = "idle" /\ pc'[x] # "idle" =>
       x \in cast /\ (Concurrent \/ \A c \in Clients : ~AtWork(c))

ClientStep(c) ==
  /\ Load(c) \/ Probe(c) \/ Send(c) \/ Receive(c) \/ LosesServer(c) \/ Interrupted(c)
  /\ UNCHANGED <<vars, cast>>

Handler ==
  /\ \/ \E r \in Registers : AddAgent(r) \/ AddAgentFails(r)
     \/ \E u \in Unregisters : RemoveAgent(u)
  /\ UNCHANGED <<vars, cast>>

ClientsNext == Lifecycle \/ (\E c \in Clients : ClientStep(c)) \/ Handler

ClientsSpec == ClientsInit /\ [][ClientsNext]_allVars

(***************************************************************************)
(* Properties                                                              *)
(***************************************************************************)

\* A request is handled by a server of the name it was meant for, although ports
\* are reused and requests carry no name.  (When nothing starts or stops meanwhile.)
RequestHitsItsName ==
  \A c \in Clients : answer[c] # None => NameOf[server[c]] = ServerOf[c]

\* What clients were told matches what a server holds: an agent that a server
\* serves was put there by a command that did not fail, so that a retry of a
\* failed one meets no trace of it; and an acknowledged agent is there until a
\* command that asks for it removes it.
RegistryMatchesReplies ==
  \A r \in Registers, d \in Starts :
    daemon[d] = "serving" =>
      /\ <<AgentOf[r], r>> \in agents[d] => client[r] \notin {"failed", "rejected"}
      /\ client[r] = "ok" /\ server[r] = d =>
           \/ <<AgentOf[r], r>> \in agents[d]
           \/ \E u \in Unregisters : /\ AgentOf[u] = AgentOf[r] /\ server[u] = d
                                     /\ answer[u] = "removed"

(***************************************************************************)
(* What the proofs need beside them                                        *)
(***************************************************************************)

ClientLabels == {"idle", "probe", "send", "sent", "ok", "rejected", "failed", "gone"}

\* Every variable has its type.
ClientsTypeOK ==
  /\ cast \in Casts
  /\ agents \in [Starts -> SUBSET {<<AgentOf[r], r>> : r \in Registers}]
  /\ client \in [Clients -> ClientLabels]
  /\ target \in [Clients -> Starts \cup {None}]
  /\ server \in [Clients -> Starts \cup {None}]
  /\ answer \in [Clients -> Created \cup Removed \cup {None}]

\* A daemon that has left serve_with_shutdown, and one that has come so far.
Over(d) == daemon[d] \in {"drained", "exited", "killed"}
HasServed(d) == Over(d) \/ daemon[d] \in {"serving", "draining"}

\* What a client knows at each step.
ClientInv(c) ==
  /\ server[c] # None <=> client[c] \in {"sent", "ok", "gone"}
  /\ server[c] # None => HasServed(server[c])
  /\ answer[c] # None => server[c] # None
  /\ answer[c] \in (IF c \in Registers THEN Created ELSE Removed) \cup {None}
  /\ client[c] \in {"probe", "send"} => target[c] # None /\ NameOf[target[c]] = ServerOf[c]
  /\ client[c] = "ok" => answer[c] \in {"created", "removed"}

\* An entry and the reply to its registration go together until an unregister comes
\* between, or the daemon is over.
EntryInv(r, d) ==
  LET there == <<AgentOf[r], r>> \in agents[d]
      created == server[r] = d /\ answer[r] = "created"
  IN  /\ there => HasServed(d) /\ (created \/ Over(d))
      /\ created => \/ there \/ Over(d)
                    \/ \E u \in Unregisters : /\ AgentOf[u] = AgentOf[r] /\ server[u] = d
                                              /\ answer[u] = "removed"

ClientsInv ==
  /\ ClientsTypeOK
  /\ \A c \in Clients : ClientInv(c)
  /\ \A r \in Registers, d \in Starts : EntryInv(r, d)

\* When nothing overlaps with a client, the server that has answered its probe is the
\* only one that its request can reach.
AimInv ==
  \A c \in Clients :
    /\ AtWork(c) => \A x \in Commands : ~Busy(x)
    /\ client[c] = "send" => \A d \in At(target[c]) : NameOf[d] = ServerOf[c]
    /\ server[c] # None => NameOf[server[c]] = ServerOf[c]
================================================================================
