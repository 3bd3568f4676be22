--------------------------- MODULE ServerClients_proofs ---------------------------
(***************************************************************************)
(* Proofs about ServerClients: what registrations are told and what the    *)
(* servers hold, for any clients, agents, names and ports.                 *)
(***************************************************************************)
EXTENDS ServerClients, NamedServer_proofs

USE CommandsAssumption, OptionsAssumption, NullAssumption, SwitchAssumption, ClientsAssumption
    DEF Commands, fileVars, daemonVars, cliVars, vars

(***************************************************************************)
(* Beside clients the lifecycle of servers goes on as without them         *)
(***************************************************************************)

\* A client asks and a handler answers: neither does anything to the state files,
\* the daemons or the other commands, so all that holds of NamedServer holds here.
THEOREM ClientsOnlyAsk == ClientsSpec => Spec
<1>1. ClientsInit => Init
  BY DEF ClientsInit
<1>2. [ClientsNext]_allVars => [Next]_vars
  BY DEF ClientsNext, Lifecycle, ClientStep, Handler, allVars
<1> QED
  BY <1>1, <1>2, PTL DEF ClientsSpec, Spec

LEMMA ClientsBase == ClientsSpec => []BaseInv
BY ClientsOnlyAsk, FileInvariant, PTL DEF BaseInv

\* A daemon that has served does not come back, and one that is over stays so.
LEMMA DaemonsAge ==
  ASSUME BaseInv, [Next]_vars, NEW d \in Starts
  PROVE  (HasServed(d) => HasServed(d)') /\ (Over(d) => Over(d)')
<1> USE DEF BaseInv, TypeOK, BirthInv, HasServed, Over
<1>1. CASE UNCHANGED vars
  BY <1>1
<1>2. CASE \E e \in Starts : DaemonStep(e) \/ Signal(e) \/ Crash(e)
  BY <1>2 DEF DaemonStep, Signal, Crash, Bind, BindFails, CreateStateFile, StateFileExists,
     WriteStateFile, WriteFails, DropUnwritten, Serve, BeginDrain, EndDrain, RemoveStateFile,
     Become, Alive
<1>3. CASE \E s \in Starts : StartSpawns(s) \/ StartKills(s)
  BY <1>3 DEF StartSpawns, StartKills, Become
<1>4. CASE UNCHANGED daemon
  BY <1>4
<1>5. CASE \E s \in Starts : StartChecks(s) \/ StartStep(s) \/ StartTimesOut(s) \/ StartInterrupted(s)
  BY <1>3, <1>4, <1>5 DEF StartStep, StartChecks, StartReads, StartProbes, StartDiscards,
     StartPolls, StartReadsOwn, StartVerifies, StartInspects, StartUnlinks, StartTimesOut,
     StartInterrupted
<1>6. CASE \E t \in Stops : StopReads(t) \/ StopStep(t) \/ StopTimesOut(t)
  BY <1>4, <1>6 DEF StopReads, StopStep, StopProbes, StopPosts, StopSeesNoFile, StopTimesOut
<1>7. CASE \E q \in Queries : QueryChecks(q) \/ QueryStep(q)
  BY <1>4, <1>7 DEF QueryChecks, QueryStep, QueryReads, QueryProbes, QueryInspectsProcess
<1> QED
  BY <1>1, <1>2, <1>5, <1>6, <1>7 DEF Next

(***************************************************************************)
(* What clients are told, and what servers hold                            *)
(***************************************************************************)

LEMMA ClientsFirst == ClientsInit => ClientsInv
BY DEF ClientsInit, ClientsInv, ClientsTypeOK, ClientLabels, ClientInv, EntryInv, Clients

LEMMA LifecycleKeeps ==
  ASSUME BaseInv, ClientsInv, [Next]_vars, UNCHANGED <<cast, clientVars>>
  PROVE  ClientsInv'
<1> USE DEF ClientsInv
<1>1. UNCHANGED <<cast, agents, client, target, server, answer>>
  BY DEF clientVars
<1>2. ClientsTypeOK'
  BY <1>1 DEF ClientsTypeOK
<1>3. ASSUME NEW c \in Clients PROVE ClientInv(c)'
  <2>1. ASSUME server[c] # None PROVE HasServed(server[c])'
    <3>1. PICK d \in Starts : server[c] = d
      BY <1>3, <2>1 DEF ClientsTypeOK
    <3>2. HasServed(d)
      BY <1>3, <2>1, <3>1 DEF ClientInv
    <3>3. HasServed(d)'
      BY <3>2, DaemonsAge
    <3> QED
      BY <1>1, <3>1, <3>3 DEF HasServed, Over
  <2> QED
    BY <1>1, <2>1 DEF ClientInv
<1>4. ASSUME NEW r \in Registers, NEW d \in Starts PROVE EntryInv(r, d)'
  BY <1>1, <1>4, DaemonsAge DEF EntryInv
<1> QED
  BY <1>2, <1>3, <1>4

LEMMA ClientKeeps ==
  ASSUME BaseInv, ClientsInv, NEW c \in Clients, ClientStep(c)
  PROVE  ClientsInv'
<1> USE DEF ClientsInv, Moves, Fails
<1>1. /\ UNCHANGED <<daemon, cast, agents>> /\ ClientsTypeOK /\ ClientInv(c)
      /\ ServerOf[c] \in Names
  BY DEF ClientStep, Load, Probe, Send, Receive, LosesServer, Interrupted
<1>2. /\ ClientsTypeOK'
      /\ \A x \in Clients \ {c} : /\ client'[x] = client[x] /\ target'[x] = target[x]
                                  /\ server'[x] = server[x] /\ answer'[x] = answer[x]
  <2>1. CASE Load(c)
    <3>1. Readable(ServerOf[c]) => owner[ServerOf[c]] \in Starts
      BY DEF BaseInv, TypeOK, Readable
    <3> QED
      BY <1>1, <2>1, <3>1 DEF Load, ClientsTypeOK, ClientLabels
  <2>2. CASE Probe(c)
    BY <1>1, <2>2 DEF Probe, ClientsTypeOK, ClientLabels
  <2>3. CASE Send(c)
    BY <1>1, <2>3 DEF Send, At, ClientsTypeOK, ClientLabels
  <2>4. CASE Receive(c) \/ LosesServer(c) \/ Interrupted(c)
    BY <1>1, <2>4 DEF Receive, LosesServer, Interrupted, ClientsTypeOK, ClientLabels
  <2> QED
    BY <2>1, <2>2, <2>3, <2>4 DEF ClientStep
<1>3. ClientInv(c)'
  <2>1. CASE Load(c)
    <3>1. Readable(ServerOf[c]) => owner[ServerOf[c]] \in Starts /\ NameOf[owner[ServerOf[c]]] = ServerOf[c]
      BY <1>1 DEF BaseInv, TypeOK, Readable, FileInv
    <3>2. server[c] = None /\ answer[c] = None
      BY <1>1, <2>1 DEF Load, ClientInv
    <3>3. /\ server'[c] = None /\ answer'[c] = None
          /\ \/ client'[c] = "failed"
             \/ client'[c] = "probe" /\ target'[c] \in Starts /\ NameOf[target'[c]] = ServerOf[c]
      BY <2>1, <3>1, <3>2, <1>1 DEF Load, ClientsTypeOK
    <3> QED
      BY <3>3 DEF ClientInv
  <2>2. CASE Probe(c)
    BY <1>1, <2>2 DEF Probe, ClientsTypeOK, ClientInv
  <2>3. CASE Send(c)
    BY <1>1, <2>3 DEF Send, At, ClientsTypeOK, ClientInv, HasServed
  <2>4. CASE Receive(c) \/ LosesServer(c) \/ Interrupted(c)
    BY <1>1, <2>4 DEF Receive, LosesServer, Interrupted, ClientsTypeOK, ClientInv, HasServed, Over
  <2> QED
    BY <2>1, <2>2, <2>3, <2>4 DEF ClientStep
<1>4. ASSUME NEW x \in Clients \ {c} PROVE ClientInv(x)'
  BY <1>1, <1>2, <1>4 DEF ClientInv, HasServed, Over
\* A reply that is lost was of a server that is over.
<1>5. \/ server'[c] = server[c] /\ answer'[c] = answer[c]
      \/ server[c] = None /\ answer'[c] = None
      \/ server'[c] = None /\ Over(server[c])
      \/ server'[c] = None /\ answer[c] \notin {"created", "removed"}
  BY <1>1 DEF ClientStep, Load, Probe, Send, Receive, LosesServer, Interrupted, ClientsTypeOK,
     ClientInv, HasServed, Over
<1>6. ASSUME NEW r \in Registers, NEW d \in Starts PROVE EntryInv(r, d)'
  <2>1. r \in Clients /\ \A u \in Unregisters : u \in Clients
    BY DEF Clients
  <2>2. ~ (server'[r] = d /\ answer'[r] = "created") =>
          ~ (server[r] = d /\ answer[r] = "created") \/ Over(d)
    BY <1>2, <1>5, <2>1
  <2>3. server'[r] = d /\ answer'[r] = "created" => server[r] = d /\ answer[r] = "created"
    BY <1>2, <1>5, <2>1 DEF Created
  <2>4. ASSUME NEW u \in Unregisters, server[u] = d, answer[u] = "removed"
        PROVE  Over(d) \/ (server'[u] = d /\ answer'[u] = "removed")
    BY <1>2, <1>5, <2>1, <2>4
  <2> QED
    BY <1>1, <2>2, <2>3, <2>4 DEF EntryInv, HasServed, Over
<1> QED
  BY <1>2, <1>3, <1>4, <1>6

LEMMA HandlerKeeps ==
  ASSUME BaseInv, ClientsInv, Handler
  PROVE  ClientsInv'
<1> USE DEF ClientsInv
<1>1. PICK c \in Clients :
        /\ Handles(c) /\ UNCHANGED <<daemon, cast, client, target, server>>
        /\ \/ c \in Registers /\ (AddAgent(c) \/ AddAgentFails(c))
           \/ c \in Unregisters /\ RemoveAgent(c)
  BY DEF Handler, AddAgent, AddAgentFails, RemoveAgent, Clients
<1>2. /\ ClientsTypeOK /\ ClientInv(c) /\ server[c] \in Starts /\ answer[c] = None
      /\ daemon[server[c]] \in {"serving", "draining"}
      /\ \A x \in Registers \cup Unregisters : x \in Clients
  BY <1>1 DEF Handles, ClientsTypeOK, Clients
<1>3. PICK a \in Created \cup Removed : /\ answer' = [answer EXCEPT ![c] = a]
                                        /\ a \in IF c \in Registers THEN Created ELSE Removed
  BY <1>1 DEF AddAgent, AddAgentFails, RemoveAgent, Replies, Created, Removed
<1>4. ClientsTypeOK'
  <2>1. agents' \in [Starts -> SUBSET {<<AgentOf[r], r>> : r \in Registers}]
    <3>1. CASE c \in Registers /\ AddAgent(c)
      BY <1>2, <3>1 DEF AddAgent, ClientsTypeOK
    <3>2. CASE c \in Registers /\ AddAgentFails(c)
      BY <1>2, <3>2 DEF AddAgentFails, ClientsTypeOK
    <3>3. CASE c \in Unregisters /\ RemoveAgent(c)
      BY <1>2, <3>3 DEF RemoveAgent, ClientsTypeOK
    <3> QED
      BY <1>1, <3>1, <3>2, <3>3
  <2> QED
    BY <1>1, <1>2, <1>3, <2>1 DEF ClientsTypeOK
<1>5. ASSUME NEW x \in Clients PROVE ClientInv(x)'
  <2>1. ClientInv(x) /\ UNCHANGED <<daemon, client, target, server>>
    BY <1>1
  <2>2. x # c => answer'[x] = answer[x]
    BY <1>2, <1>3 DEF ClientsTypeOK
  <2>3. x = c => answer'[x] = a /\ client[x] # "ok" /\ server[x] # None
    BY <1>2, <1>3 DEF ClientsTypeOK, ClientInv, Created, Removed
  <2> QED
    BY <1>3, <2>1, <2>2, <2>3 DEF ClientInv, HasServed, Over
<1>6. ASSUME NEW r \in Registers, NEW d \in Starts PROVE EntryInv(r, d)'
  <2> DEFINE e == <<AgentOf[r], r>>
  <2>1. /\ UNCHANGED <<daemon, server>> /\ r \in Clients /\ EntryInv(r, d)
        /\ \A x \in Clients : answer[x] # None => answer'[x] = answer[x]
        /\ None # "created" /\ None # "removed"
    BY <1>1, <1>2, <1>3, <1>6 DEF ClientsTypeOK, Created, Removed
  <2>2. \A u \in Unregisters : u \in Clients
    BY DEF Clients
  <2>3. CASE c \in Registers /\ AddAgent(c)
    <3>1. /\ agents[d] \subseteq agents'[d]
          /\ e \in agents'[d] \ agents[d] => c = r /\ server[r] = d /\ answer'[r] = "created"
          /\ c = r /\ answer'[r] = "created" /\ server[r] = d => e \in agents'[d]
      BY <1>2, <2>1, <2>3 DEF AddAgent, Replies, ClientsTypeOK
    <3>2. answer'[r] = "created" => answer[r] = "created" \/ c = r
      BY <1>2, <1>3, <2>1 DEF ClientsTypeOK
    <3> QED
      BY <1>2, <2>1, <2>2, <3>1, <3>2 DEF EntryInv, HasServed, Over
  <2>4. CASE c \in Registers /\ AddAgentFails(c)
    <3>1. UNCHANGED agents /\ (answer'[r] = "created" => answer[r] = "created")
      BY <1>2, <2>1, <2>4 DEF AddAgentFails, Replies, ClientsTypeOK
    <3> QED
      BY <2>1, <2>2, <3>1 DEF EntryInv, HasServed, Over
  <2>5. CASE c \in Unregisters /\ RemoveAgent(c)
    <3>1. /\ agents'[d] \subseteq agents[d]
          /\ e \in agents[d] \ agents'[d] => AgentOf[c] = AgentOf[r] /\ server[c] = d /\ answer'[c] = "removed"
      BY <1>2, <2>1, <2>5 DEF RemoveAgent, Entries, Replies, ClientsTypeOK
    <3>2. answer'[r] = answer[r]
      BY <1>3, <2>5 DEF ClientsTypeOK
    <3> QED
      BY <1>1, <2>1, <2>2, <2>5, <3>1, <3>2 DEF EntryInv, HasServed, Over
  <2> QED
    BY <1>1, <2>3, <2>4, <2>5
<1> QED
  BY <1>4, <1>5, <1>6

LEMMA ClientsInvariant == ClientsSpec => []ClientsInv
<1>1. BaseInv /\ ClientsInv /\ [ClientsNext]_allVars => ClientsInv'
  <2> SUFFICES ASSUME BaseInv, ClientsInv, [ClientsNext]_allVars PROVE ClientsInv'
    OBVIOUS
  <2>1. CASE Lifecycle
    BY <2>1, LifecycleKeeps DEF Lifecycle
  <2>2. CASE \E c \in Clients : ClientStep(c)
    BY <2>2, ClientKeeps
  <2>3. CASE Handler
    BY <2>3, HandlerKeeps
  <2>4. CASE UNCHANGED allVars
    BY <2>4, LifecycleKeeps DEF allVars
  <2> QED
    BY <2>1, <2>2, <2>3, <2>4 DEF ClientsNext
<1> QED
  BY ClientsFirst, <1>1, ClientsBase, PTL DEF ClientsSpec

\* Whatever overlaps, crashes or hangs up: a registration that was told to have failed
\* has left no entry in a server that serves, and one that was told to have succeeded is
\* there until an unregister has removed it (add_agent, remove_agent; `register` sets
\* no time limit on its request).
THEOREM RepliesMatchTheRegistry == ClientsSpec => []RegistryMatchesReplies
<1>1. ASSUME ClientsInv PROVE RegistryMatchesReplies
  <2> SUFFICES ASSUME NEW r \in Registers, NEW d \in Starts, daemon[d] = "serving"
               PROVE  /\ <<AgentOf[r], r>> \in agents[d] => client[r] \notin {"failed", "rejected"}
                      /\ client[r] = "ok" /\ server[r] = d =>
                           \/ <<AgentOf[r], r>> \in agents[d]
                           \/ \E u \in Unregisters : /\ AgentOf[u] = AgentOf[r] /\ server[u] = d
                                                     /\ answer[u] = "removed"
    BY DEF RegistryMatchesReplies
  <2>1. r \in Clients /\ ClientInv(r) /\ EntryInv(r, d) /\ ~ Over(d) /\ d # None
    BY <1>1 DEF ClientsInv, Clients, Over
  <2>2. client[r] = "ok" => answer[r] = "created"
    BY <2>1 DEF ClientInv, Created, Removed
  <2> QED
    BY <2>1, <2>2 DEF ClientInv, EntryInv
<1> QED
  BY <1>1, ClientsInvariant, PTL

(***************************************************************************)
(* Where a request goes when no start, stop or status runs beside it       *)
(***************************************************************************)

LEMMA AimFirst == ClientsInit => AimInv
BY DEF ClientsInit, AimInv, AtWork, Clients

\* While every command is at rest, none of its daemons comes to listen.
LEMMA NobodyBinds ==
  ASSUME Orderly, BaseInv, SerialInv, [Next]_vars, \A x \in Commands : ~Busy(x),
         \A x \in Commands : pc[x] = "idle" => pc'[x] = "idle"
  PROVE  /\ \A x \in Commands : ~Busy(x)'
         /\ UNCHANGED port
         /\ \A d \in Starts : Listening(d)' => Listening(d)
<1> USE DEF BaseInv, TypeOK, Busy, Done, Outcomes, Goto
<1>1. CASE UNCHANGED vars
  BY <1>1 DEF Listening
<1>2. CASE \E d \in Starts : DaemonStep(d) \/ Signal(d) \/ Crash(d)
  <2>1. PICK d \in Starts : DaemonStep(d) \/ Signal(d) \/ Crash(d)
    BY <1>2
  <2>2. daemon[d] \notin {"spawned", "bound", "created", "unwritable", "written"}
    BY DEF SerialInv, ChildInv
  <2>3. UNCHANGED <<pc, port>> /\ \A e \in Starts : daemon'[e] = daemon[e] \/ ~ Listening(e)'
    BY <2>1, <2>2 DEF DaemonStep, Signal, Crash, Bind, BindFails, CreateStateFile,
       StateFileExists, WriteStateFile, WriteFails, DropUnwritten, Serve, BeginDrain, EndDrain,
       RemoveStateFile, Become, Listening
  <2> QED
    BY <2>3 DEF Listening
<1>3. CASE \E s \in Starts : StartChecks(s) \/ StartStep(s) \/ StartTimesOut(s) \/ StartInterrupted(s)
  BY <1>3 DEF StartStep, StartChecks, StartReads, StartProbes, StartDiscards, StartSpawns,
     StartPolls, StartReadsOwn, StartVerifies, StartKills, StartInspects, StartUnlinks,
     StartTimesOut, StartInterrupted, Waiting, Orderly, MayBegin
<1>4. CASE \E t \in Stops : StopReads(t) \/ StopStep(t) \/ StopTimesOut(t)
  BY <1>4 DEF StopReads, StopStep, StopProbes, StopPosts, StopSeesNoFile, StopTimesOut, MayBegin
<1>5. CASE \E q \in Queries : QueryChecks(q) \/ QueryStep(q)
  BY <1>5 DEF QueryChecks, QueryStep, QueryReads, QueryProbes, QueryInspectsProcess, MayBegin
<1> QED
  BY <1>1, <1>2, <1>3, <1>4, <1>5 DEF Next

LEMMA AimKept ==
  ASSUME Orderly, BaseInv, SerialInv, ClientsInv, AimInv, [ClientsNext]_allVars
  PROVE  AimInv'
<1> USE DEF ClientsInv
<1>1. ASSUME [Next]_vars, UNCHANGED <<cast, clientVars>>,
             \A x \in Commands : pc[x] = "idle" /\ pc'[x] # "idle" => \A c \in Clients : ~AtWork(c)
      PROVE  AimInv'
  <2>1. UNCHANGED <<client, target, server>>
    BY <1>1 DEF clientVars
  <2> SUFFICES ASSUME NEW c \in Clients, AtWork(c)
               PROVE  /\ \A x \in Commands : ~Busy(x)'
                      /\ client[c] = "send" => \A d \in At(target[c])' : NameOf[d] = ServerOf[c]
    BY <2>1 DEF AimInv, AtWork, Ended
  <2>2. /\ \A x \in Commands : ~Busy(x)' 
        /\ UNCHANGED port /\ \A d \in Starts : Listening(d)' => Listening(d)
    BY <1>1, NobodyBinds DEF AimInv
  <2> QED
    BY <2>1, <2>2 DEF AimInv, At
<1>2. CASE Lifecycle
  BY <1>1, <1>2 DEF Lifecycle, Orderly
<1>3. CASE UNCHANGED allVars
  BY <1>1, <1>3 DEF allVars, vars
<1>4. CASE Handler
  <2>1. UNCHANGED <<vars, client, target, server>>
    BY <1>4 DEF Handler, AddAgent, AddAgentFails, RemoveAgent
  <2> QED
    BY <2>1 DEF AimInv, AtWork, Ended, Busy, Done, At, Listening
<1>5. ASSUME NEW c \in Clients, ClientStep(c) PROVE AimInv'
  <2>1. /\ UNCHANGED vars /\ ClientsTypeOK /\ ClientInv(c)
        /\ \A x \in Clients \ {c} : /\ client'[x] = client[x] /\ target'[x] = target[x]
                                    /\ server'[x] = server[x]
    BY <1>5 DEF ClientStep, Load, Probe, Send, Receive, LosesServer, Interrupted, Moves, Fails,
       ClientsTypeOK
  <2>2. /\ AtWork(c)' => \A x \in Commands : ~Busy(x)
        /\ client'[c] = "send" => \A d \in At(target'[c]) : NameOf[d] = ServerOf[c]
        /\ server'[c] # None => NameOf[server'[c]] = ServerOf[c]
    <3> USE <2>1 DEF Moves, Fails, AimInv, AtWork, Ended, ClientsTypeOK
    <3>1. CASE Load(c)
      BY <3>1 DEF Load, Busy, Orderly
    <3>2. CASE Probe(c)
      <4>1. ASSUME client'[c] = "send", NEW d \in At(target[c]) PROVE NameOf[d] = ServerOf[c]
        <5>1. PICK e \in At(target[c]) : NameOf[e] = NameOf[target[c]]
          BY <3>2, <4>1 DEF Probe, Answers
        <5>2. d = e
          BY <4>1, <5>1 DEF SerialInv, PortInv, At
        <5> QED
          BY <3>2, <5>1, <5>2 DEF ClientInv, Probe
      <4> QED
        BY <3>2, <4>1 DEF Probe
    <3>3. CASE Send(c)
      BY <3>3 DEF Send
    <3>4. CASE Receive(c) \/ LosesServer(c) \/ Interrupted(c)
      BY <3>4 DEF Receive, LosesServer, Interrupted
    <3> QED
      BY <1>5, <3>1, <3>2, <3>3, <3>4 DEF ClientStep
  <2> QED
    BY <2>1, <2>2 DEF AimInv, AtWork, Ended, Busy, Done, At, Listening
<1> QED
  BY <1>2, <1>3, <1>4, <1>5 DEF ClientsNext

\* In an orderly environment a request is taken by a server of the name it was meant
\* for, although it carries no name and a crashed server's port may have gone to another
\* name: the probe before it has compared the name (load_live_server).
THEOREM RequestsReachTheirName ==
  ASSUME Orderly
  PROVE  ClientsSpec => []RequestHitsItsName
<1>1. ClientsSpec => [](BaseInv /\ SerialInv)
  BY ClientsOnlyAsk, SerialInvariant, PTL
<1>2. BaseInv /\ SerialInv /\ ClientsInv /\ AimInv /\ [ClientsNext]_allVars => AimInv'
  BY AimKept
<1>3. ClientsInv /\ AimInv => RequestHitsItsName
  BY DEF ClientsInv, ClientInv, AimInv, RequestHitsItsName
<1> QED
  BY <1>1, <1>2, <1>3, AimFirst, ClientsInvariant, PTL DEF ClientsSpec

================================================================================
