------------------------------ MODULE NamedServer ------------------------------
(***************************************************************************)
(* The life of named ACP servers: the CLI commands `server start`,         *)
(* `server stop` and `server status` (src/src/server/client.rs), the       *)
(* background daemon behind `__server-run` (src/src/server/daemon.rs), and *)
(* the one thing they share, the state file <name>.json of each name       *)
(* (src/src/server/state.rs).                                              *)
(*                                                                         *)
(* A start invocation spawns exactly one daemon, so a member s of Starts   *)
(* names the invocation, its daemon and the daemon's pid.  The file of a   *)
(* name is represented by the daemon that created it (owner) and by        *)
(* whether that daemon has put the bytes in (written): everything else the *)
(* JSON says (name, pid, port) is a function of its author.  A daemon that *)
(* writes after its file was unlinked writes into an unlinked inode, which *)
(* is why the two are separate.                                            *)
(***************************************************************************)
EXTENDS Naturals, FiniteSets

CONSTANTS
  Starts,      \* invocations of `server start`; also the daemons' pids
  Stops,       \* invocations of `server stop`
  Queries,     \* invocations of `server status`
  Names,       \* server names
  Ports,       \* TCP ports of the host
  AnyPort,     \* --port 0: the kernel picks a free port
  None,        \* no daemon, or no port
  NameOf,      \* the --name of every invocation
  PortOf,      \* the --port of every start
  Concurrent,  \* invocations may overlap or be interrupted
  Slow,        \* a probe or a wait may time out although the daemon is live
  Stubborn,    \* the removal of a state file may fail
  Signals      \* the starts whose daemon SIGINT or SIGTERM may reach

Commands == Starts \cup Stops \cup Queries

ASSUME CommandsAssumption ==
  /\ Starts \cap Stops = {}
  /\ Starts \cap Queries = {}
  /\ Stops \cap Queries = {}
ASSUME OptionsAssumption ==
  /\ NameOf \in [Commands -> Names]
  /\ PortOf \in [Starts -> Ports \cup {AnyPort}]
ASSUME NullAssumption == None \notin Starts /\ None \notin Ports /\ AnyPort \notin Ports
ASSUME SwitchAssumption ==
  /\ Concurrent \in BOOLEAN /\ Slow \in BOOLEAN /\ Stubborn \in BOOLEAN
  /\ Signals \subseteq Starts

VARIABLES
  owner,     \* owner[n]: the daemon whose file lies at <n>.json, or None
  written,   \* the daemons whose JSON has been written into the file they made
  unremoved, \* the daemons whose file is still there because its removal, by them or
             \* by the start that cleaned up after them, has failed (history)
  daemon,    \* daemon[d]: where the process d stands in run_with
  port,      \* port[d]: the port d bound (kept: the JSON goes on naming it)
  shutdown,  \* the daemons whose shutdown watch holds true
  pc,        \* pc[c]: where the command c stands
  rec        \* rec[c]: the daemon whose JSON c has read, or None

fileVars   == <<owner, written, unremoved>>
daemonVars == <<daemon, port, shutdown>>
cliVars    == <<pc, rec>>
vars == <<owner, written, unremoved, daemon, port, shutdown, pc, rec>>

DaemonStates == {"unborn", "spawned", "bound", "created", "unwritable", "written",
                 "serving", "draining", "drained", "exited", "killed"}

StartLabels == {"idle", "seen", "probe", "discard", "spawn", "wait", "read", "verify",
                "kill", "inspect", "unlink"}
StopLabels  == {"post", "drain"}
QueryLabels == {"process"}
Outcomes    == {"ok", "failed", "refused", "gone",
                "running", "starting", "stale", "stopped", "error"}
Labels == StartLabels \cup StopLabels \cup QueryLabels \cup Outcomes

Done(c) == pc[c] \in Outcomes

(***************************************************************************)
(* Processes, sockets and probes                                           *)
(***************************************************************************)

\* The process exists: signal 0 reaches it (process_alive).
Alive(d) == daemon[d] \notin {"unborn", "exited", "killed"}

\* The listener is open from bind until the graceful shutdown begins.
Listening(d) == daemon[d] \in {"bound", "created", "unwritable", "written", "serving"}

Free(p) == \A d \in Starts : Listening(d) => port[d] # p

\* The daemons that accept connections at the control URL written by r.
At(r) == {d \in Starts : Listening(d) /\ port[d] = port[r]}

Mut_Answers(r) == \E d \in At(r) : daemon[d] = "serving"

\* server_is_alive compares the name and the version of the reply with the
\* file, never the pid.
Answers(r) == \E d \in At(r) : daemon[d] = "serving" /\ NameOf[d] = NameOf[r]

\* ... and gives up when nobody of that name listens, or after 500 ms.
Silent(r) == Slow \/ \A d \in At(r) : NameOf[d] # NameOf[r]

\* read_json succeeds: the file exists and holds the whole JSON.
Readable(n) == owner[n] \in written

\* remove_file succeeds, or finds nothing at the path.
Unlink(n) ==
  /\ owner' = [owner EXCEPT ![n] = None]
  /\ unremoved' = unremoved \ {owner[n]}

\* It fails, and the file stays, when d leaves or is cleaned up after.
UnlinkFails(n, d) ==
  /\ Stubborn /\ owner[n] # None
  /\ unremoved' = IF owner[n] = d THEN unremoved \cup {d} ELSE unremoved
  /\ UNCHANGED owner

RemoveFile(n, d) == Unlink(n) \/ UnlinkFails(n, d)

(***************************************************************************)
(* The daemon: run_with                                                    *)
(***************************************************************************)

Become(d, s) == daemon' = [daemon EXCEPT ![d] = s]

\* The file names the port that was bound (local_addr), not the one asked for.
LocalPort(d, p) == p

Bind(d) ==
  /\ daemon[d] = "spawned"
  /\ \E p \in Ports : /\ PortOf[d] \in {p, AnyPort}
                      /\ Free(p)
                      /\ port' = [port EXCEPT ![d] = LocalPort(d, p)]
  /\ Become(d, "bound")
  /\ UNCHANGED <<fileVars, shutdown, cliVars>>

\* Binding fails before any state is written.
BindFails(d) ==
  /\ daemon[d] = "spawned"
  /\ \A p \in Ports : PortOf[d] \in {p, AnyPort} => ~Free(p)
  /\ Become(d, "exited")
  /\ UNCHANGED <<fileVars, port, shutdown, cliVars>>

\* create_new: the open fails when the path exists.
MayCreate(n) == owner[n] = None

\* The file is visible, empty, before its JSON is written.
CreateStateFile(d) ==
  /\ daemon[d] = "bound"
  /\ MayCreate(NameOf[d])
  /\ owner' = [owner EXCEPT ![NameOf[d]] = d]
  /\ Become(d, "created")
  /\ UNCHANGED <<written, unremoved, port, shutdown, cliVars>>

StateFileExists(d) ==
  /\ daemon[d] = "bound"
  /\ ~MayCreate(NameOf[d])
  /\ Become(d, "exited")
  /\ UNCHANGED <<fileVars, port, shutdown, cliVars>>

WriteStateFile(d) ==
  /\ daemon[d] = "created"
  /\ written' = written \cup {d}
  /\ Become(d, "written")
  /\ UNCHANGED <<owner, unremoved, port, shutdown, cliVars>>

\* write_all or sync_all fails ...
WriteFails(d) ==
  /\ daemon[d] = "created"
  /\ Become(d, "unwritable")
  /\ UNCHANGED <<fileVars, port, shutdown, cliVars>>

Mut_DropUnwritten(d) ==
  /\ daemon[d] = "unwritable"
  /\ Become(d, "exited")
  /\ UNCHANGED <<fileVars, port, shutdown, cliVars>>

\* ... and whatever lies at the path by then is removed; whether that fails is not asked.
DropUnwritten(d) ==
  /\ daemon[d] = "unwritable"
  /\ RemoveFile(NameOf[d], d)
  /\ Become(d, "exited")
  /\ UNCHANGED <<written, port, shutdown, cliVars>>

Serve(d) ==
  /\ daemon[d] = "written"
  /\ Become(d, "serving")
  /\ UNCHANGED <<fileVars, port, shutdown, cliVars>>

\* The signal task is spawned between bind and the creation of the file.
Signal(d) ==
  /\ d \in Signals
  /\ Listening(d)
  /\ shutdown' = shutdown \cup {d}
  /\ UNCHANGED <<fileVars, daemon, port, cliVars>>

Mut_BeginDrain(d) ==
  /\ daemon[d] = "serving"
  /\ d \in shutdown
  /\ Become(d, "draining")
  /\ Unlink(NameOf[d])
  /\ UNCHANGED <<written, port, shutdown, cliVars>>

\* The graceful shutdown closes the listener; the port is free again.
BeginDrain(d) ==
  /\ daemon[d] = "serving"
  /\ d \in shutdown
  /\ Become(d, "draining")
  /\ UNCHANGED <<fileVars, port, shutdown, cliVars>>

\* Every connection ended, in the grace or by force (GracefulShutdown).
EndDrain(d) ==
  /\ daemon[d] = "draining"
  /\ Become(d, "drained")
  /\ UNCHANGED <<fileVars, port, shutdown, cliVars>>

Mut_RemoveStateFile(d) ==
  /\ daemon[d] = "drained"
  /\ Become(d, "exited")
  /\ UNCHANGED <<fileVars, port, shutdown, cliVars>>

\* remove_file(state_path), whoever's file that is by now; an error only changes what
\* run_with returns.
RemoveStateFile(d) ==
  /\ daemon[d] = "drained"
  /\ RemoveFile(NameOf[d], d)
  /\ Become(d, "exited")
  /\ UNCHANGED <<written, port, shutdown, cliVars>>

\* The process dies without unwinding (SIGKILL, power, panic = abort).
Crash(d) ==
  /\ Alive(d)
  /\ Become(d, "killed")
  /\ UNCHANGED <<fileVars, port, shutdown, cliVars>>

(***************************************************************************)
(* Steps of the commands                                                   *)
(***************************************************************************)

Goto(c, l) == pc' = [pc EXCEPT ![c] = l]

\* Unless commands overlap, one begins only when every other one is over.
MayBegin(c) ==
  /\ pc[c] = "idle"
  /\ Concurrent \/ \A x \in Commands \ {c} : pc[x] = "idle" \/ Done(x)

(* start_with *)

StartChecks(s) ==
  /\ MayBegin(s)
  /\ Goto(s, IF owner[NameOf[s]] = None THEN "spawn" ELSE "seen")
  /\ UNCHANGED <<fileVars, daemonVars, rec>>

Mut_StartReads(s) ==
  /\ pc[s] = "seen"
  /\ Goto(s, "discard")
  /\ UNCHANGED <<fileVars, daemonVars, rec>>

StartReads(s) ==
  /\ pc[s] = "seen"
  /\ IF Readable(NameOf[s])
     THEN Goto(s, "probe") /\ rec' = [rec EXCEPT ![s] = owner[NameOf[s]]]
     ELSE Goto(s, "discard") /\ UNCHANGED rec
  /\ UNCHANGED <<fileVars, daemonVars>>

StartProbes(s) ==
  /\ pc[s] = "probe"
  /\ \/ Answers(rec[s]) /\ Goto(s, "refused")
     \/ Silent(rec[s]) /\ Goto(s, "discard")
  /\ UNCHANGED <<fileVars, daemonVars, rec>>

\* The file that was found is removed: by path, whatever it holds by now, and without
\* asking whether that fails.
StartDiscards(s) ==
  /\ pc[s] = "discard"
  /\ RemoveFile(NameOf[s], s)
  /\ Goto(s, "spawn")
  /\ UNCHANGED <<written, daemonVars, rec>>

StartSpawns(s) ==
  /\ pc[s] = "spawn"
  /\ Become(s, "spawned")
  /\ Goto(s, "wait")
  /\ UNCHANGED <<fileVars, port, shutdown, rec>>

\* try_wait: a child that exited ends the wait with an error.
StartPolls(s) ==
  /\ pc[s] = "wait"
  /\ Goto(s, IF Alive(s) THEN "read" ELSE "kill")
  /\ UNCHANGED <<fileVars, daemonVars, rec>>

StartReadsOwn(s) ==
  /\ pc[s] = "read"
  /\ IF Readable(NameOf[s]) /\ owner[NameOf[s]] = s
     THEN Goto(s, "verify") /\ rec' = [rec EXCEPT ![s] = s]
     ELSE Goto(s, "wait") /\ UNCHANGED rec
  /\ UNCHANGED <<fileVars, daemonVars>>

StartVerifies(s) ==
  /\ pc[s] = "verify"
  /\ \/ Answers(rec[s]) /\ Goto(s, "ok")
     \/ Silent(rec[s]) /\ Goto(s, "wait")
  /\ UNCHANGED <<fileVars, daemonVars, rec>>

Mut_Waiting(s) == pc[s] = "wait"
Waiting(s) == pc[s] \in {"wait", "read", "verify"}

\* START_TIMEOUT.  Without Slow it strikes only a wait that is in vain: the
\* child serves but its file is no longer there to be found.
StartTimesOut(s) ==
  /\ Waiting(s)
  /\ Slow \/ (daemon[s] = "serving" /\ owner[NameOf[s]] # s)
  /\ Goto(s, "kill")
  /\ UNCHANGED <<fileVars, daemonVars, rec>>

(* cleanup_failed_start *)

StartKills(s) ==
  /\ pc[s] = "kill"
  /\ IF Alive(s) THEN Become(s, "killed") ELSE UNCHANGED daemon
  /\ Goto(s, "inspect")
  /\ UNCHANGED <<fileVars, port, shutdown, rec>>

Mut_RemovesState(s) == Readable(NameOf[s]) /\ owner[NameOf[s]] = s

\* remove_state: the file is ours, or it cannot be read.
RemovesState(s) == Readable(NameOf[s]) => owner[NameOf[s]] = s

StartInspects(s) ==
  /\ pc[s] = "inspect"
  /\ Goto(s, IF RemovesState(s) THEN "unlink" ELSE "failed")
  /\ UNCHANGED <<fileVars, daemonVars, rec>>

StartUnlinks(s) ==
  /\ pc[s] = "unlink"
  /\ RemoveFile(NameOf[s], s)
  /\ Goto(s, "failed")
  /\ UNCHANGED <<written, daemonVars, rec>>

\* The user interrupts the command; the child, in a group of its own, stays.
StartInterrupted(s) ==
  /\ Concurrent
  /\ pc[s] \notin Outcomes \cup {"idle"}
  /\ Goto(s, "gone")
  /\ UNCHANGED <<fileVars, daemonVars, rec>>

(* stop *)

StopReads(t) ==
  /\ MayBegin(t)
  /\ IF Readable(NameOf[t])
     THEN Goto(t, "probe") /\ rec' = [rec EXCEPT ![t] = owner[NameOf[t]]]
     ELSE Goto(t, "failed") /\ UNCHANGED rec
  /\ UNCHANGED <<fileVars, daemonVars>>

StopProbes(t) ==
  /\ pc[t] = "probe"
  /\ \/ Answers(rec[t]) /\ Goto(t, "post")
     \/ Silent(rec[t]) /\ Goto(t, "failed")
  /\ UNCHANGED <<fileVars, daemonVars, rec>>

\* POST /api/shutdown goes to the URL of the file and names no server: the
\* daemon that serves that port by now takes it.
StopPosts(t) ==
  /\ pc[t] = "post"
  /\ \/ \E d \in At(rec[t]) : /\ daemon[d] = "serving"
                              /\ shutdown' = shutdown \cup {d}
        /\ Goto(t, "drain")
     \/ At(rec[t]) = {} /\ Goto(t, "failed") /\ UNCHANGED shutdown
  /\ UNCHANGED <<fileVars, daemon, port, rec>>

Mut_StopSeesNoFile(t) ==
  /\ pc[t] = "drain"
  /\ Goto(t, "ok")
  /\ UNCHANGED <<fileVars, daemonVars, rec>>

StopSeesNoFile(t) ==
  /\ pc[t] = "drain"
  /\ owner[NameOf[t]] = None
  /\ Goto(t, "ok")
  /\ UNCHANGED <<fileVars, daemonVars, rec>>

\* Without Slow the wait times out only when the daemon died over it.
StopTimesOut(t) ==
  /\ pc[t] = "drain"
  /\ owner[NameOf[t]] # None
  /\ Slow \/ ~Alive(rec[t])
  /\ Goto(t, "failed")
  /\ UNCHANGED <<fileVars, daemonVars, rec>>

(* status_with_paths; list_with_paths asks the same of every name that has a file, *)
(* and fails for all of them when one file is gone or half written by then. *)

QueryChecks(q) ==
  /\ MayBegin(q)
  /\ Goto(q, IF owner[NameOf[q]] = None THEN "stopped" ELSE "seen")
  /\ UNCHANGED <<fileVars, daemonVars, rec>>

\* A file that is gone or half written by now is an error, not a state.
QueryReads(q) ==
  /\ pc[q] = "seen"
  /\ IF Readable(NameOf[q])
     THEN Goto(q, "probe") /\ rec' = [rec EXCEPT ![q] = owner[NameOf[q]]]
     ELSE Goto(q, "error") /\ UNCHANGED rec
  /\ UNCHANGED <<fileVars, daemonVars>>

QueryProbes(q) ==
  /\ pc[q] = "probe"
  /\ \/ Answers(rec[q]) /\ Goto(q, "running")
     \/ Silent(rec[q]) /\ Goto(q, "process")
  /\ UNCHANGED <<fileVars, daemonVars, rec>>

QueryInspectsProcess(q) ==
  /\ pc[q] = "process"
  /\ Goto(q, IF Alive(rec[q]) THEN "starting" ELSE "stale")
  /\ UNCHANGED <<fileVars, daemonVars, rec>>

(***************************************************************************)
(* The specification                                                       *)
(***************************************************************************)

Init ==
  /\ owner = [n \in Names |-> None]
  /\ written = {} /\ unremoved = {}
  /\ daemon = [d \in Starts |-> "unborn"]
  /\ port = [d \in Starts |-> None]
  /\ shutdown = {}
  /\ pc = [c \in Commands |-> "idle"]
  /\ rec = [c \in Commands |-> None]

DaemonStep(d) ==
  \/ Bind(d) \/ BindFails(d)
  \/ CreateStateFile(d) \/ StateFileExists(d)
  \/ WriteStateFile(d) \/ WriteFails(d) \/ DropUnwritten(d)
  \/ Serve(d) \/ BeginDrain(d) \/ EndDrain(d) \/ RemoveStateFile(d)

StartStep(s) ==
  \/ StartReads(s) \/ StartProbes(s) \/ StartDiscards(s) \/ StartSpawns(s)
  \/ StartPolls(s) \/ StartReadsOwn(s) \/ StartVerifies(s)
  \/ StartKills(s) \/ StartInspects(s) \/ StartUnlinks(s)

StopStep(t) == StopProbes(t) \/ StopPosts(t) \/ StopSeesNoFile(t)

QueryStep(q) == QueryReads(q) \/ QueryProbes(q) \/ QueryInspectsProcess(q)

Next ==
  \/ \E d \in Starts : DaemonStep(d) \/ Signal(d) \/ Crash(d)
  \/ \E s \in Starts : StartChecks(s) \/ StartStep(s) \/ StartTimesOut(s)
                        \/ StartInterrupted(s)
  \/ \E t \in Stops : StopReads(t) \/ StopStep(t) \/ StopTimesOut(t)
  \/ \E q \in Queries : QueryChecks(q) \/ QueryStep(q)

Spec == Init /\ [][Next]_vars

\* A live process is scheduled, a sent request is answered or fails, and a
\* time-out strikes in the end.  Nothing makes the user type a command, a
\* signal arrive or a process crash.
Fairness ==
  /\ \A d \in Starts : WF_vars(DaemonStep(d))
  /\ \A s \in Starts : WF_vars(StartStep(s)) /\ WF_vars(StartTimesOut(s))
  /\ \A t \in Stops : WF_vars(StopStep(t)) /\ WF_vars(StopTimesOut(t))
  /\ \A q \in Queries : WF_vars(QueryStep(q))

FairSpec == Spec /\ Fairness

(***************************************************************************)
(* What holds whatever the processes do                                    *)
(***************************************************************************)

\* Every variable has its type.
TypeOK ==
  /\ owner \in [Names -> Starts \cup {None}]
  /\ written \in SUBSET Starts /\ unremoved \in SUBSET Starts
  /\ daemon \in [Starts -> DaemonStates]
  /\ port \in [Starts -> Ports \cup {None}]
  /\ shutdown \in SUBSET Starts
  /\ pc \in [Commands -> Labels]
  /\ rec \in [Commands -> Starts \cup {None}]

\* A state file whose process is gone means a crash or a kill: a daemon that
\* leaves run_with, by whichever return, never leaves its own file behind,
\* whoever else created, removed or overwrote files of that name meanwhile,
\* unless the very call that should remove it failed.
StaleOnlyAfterCrash ==
  \A n \in Names : owner[n] # None => daemon[owner[n]] # "exited" \/ owner[n] \in unremoved

\* A start that failed leaves neither a running child nor, unless the removal
\* failed, the child's state file, even when the child died between creating
\* the file and writing it and even when other daemons of the name came and
\* went meanwhile.
FailedStartLeavesNothing ==
  \A s \in Starts :
    pc[s] = "failed" => ~Alive(s) /\ \A n \in Names : owner[n] = s => s \in unremoved

\* Every command that begins comes to an end: no probe, poll or wait loop
\* keeps a user waiting for ever.
EveryCommandReturns == \A c \in Commands : pc[c] # "idle" ~> Done(c)

\* A daemon that was told to stop leaves, and its state file with it unless
\* it is killed on the way or cannot remove the file.
ShutdownFinishes ==
  \A d \in Starts :
    d \in shutdown ~> \/ daemon[d] = "killed"
                      \/ daemon[d] = "exited" /\ (owner[NameOf[d]] = d => d \in unremoved)

(***************************************************************************)
(* What holds when commands do not overlap, probes are answered in time,   *)
(* files can be removed and daemons are only stopped by `server stop` or a *)
(* crash                                                                   *)
(***************************************************************************)

\* Two live daemons never serve under one name.
ExclusiveName ==
  \A d, e \in Starts :
    Alive(d) /\ Alive(e) /\ NameOf[d] = NameOf[e] => d = e

\* A daemon that answers is the one its name's state file leads to, so that
\* every other command can reach it.
ServingIsRecorded ==
  \A d \in Starts : daemon[d] = "serving" => owner[NameOf[d]] = d

\* A stop shuts down no server but the one it names.
StopHitsOnlyItsName ==
  [][\A t \in Stops, d \in Starts :
       pc[t] = "post" /\ pc'[t] = "drain" /\ d \in shutdown' \ shutdown
         => NameOf[d] = NameOf[t]]_vars

\* `server status` reports `stopped` and `stale` only of a name that has no
\* live daemon, and never fails.
StatusIsTruthful ==
  [][\A q \in Queries : pc[q] # pc'[q] =>
       /\ pc'[q] # "error"
       /\ pc'[q] \in {"stopped", "stale"} =>
            \A d \in Starts : NameOf[d] = NameOf[q] => ~Alive(d)]_vars

(***************************************************************************)
(* Inductive invariants                                                    *)
(***************************************************************************)

\* The file at a path was made by a daemon of that name that has not left
\* run_with since, unless it could not remove it.
FileInv ==
  \A n \in Names : owner[n] # None =>
    /\ NameOf[owner[n]] = n
    /\ daemon[owner[n]] \notin {"unborn", "spawned", "bound"}
    /\ daemon[owner[n]] = "exited" => owner[n] \in unremoved

\* A daemon comes to life by its own start's spawn, once.
BirthInv ==
  \A s \in Starts :
    pc[s] \in {"idle", "seen", "probe", "discard", "spawn"} => daemon[s] = "unborn"

\* Once cleanup_failed_start has reaped the child, the child is dead, and
\* once it is over nothing of the child is left.
CleanupInv ==
  \A s \in Starts :
    /\ pc[s] \in {"inspect", "unlink", "failed"} => ~Alive(s)
    /\ pc[s] = "failed" => \A n \in Names : owner[n] = s => s \in unremoved

\* The environment in which a name is exclusive.
Orderly == ~Concurrent /\ ~Slow /\ ~Stubborn /\ Signals = {}

Busy(c) == pc[c] # "idle" /\ ~Done(c)

OneBusy == \A c, x \in Commands : Busy(c) /\ Busy(x) => c = x

\* Where a child stands, as far as its parent's progress tells.
ChildInv ==
  \A s \in Starts :
    /\ daemon[s] = "unborn" <=> pc[s] \in {"idle", "seen", "probe", "discard", "spawn", "refused"}
    /\ daemon[s] \in {"spawned", "bound", "created", "unwritable", "written"} =>
         pc[s] \in {"wait", "read", "verify", "kill"}
    /\ pc[s] = "verify" => rec[s] = s
    /\ pc[s] # "gone"

\* A daemon holds its file from the creation to the removal.
HoldInv ==
  /\ \A d \in Starts :
       daemon[d] \in {"created", "unwritable", "written", "serving", "draining", "drained"} =>
         owner[NameOf[d]] = d
  /\ \A d \in Starts :
       daemon[d] \in {"written", "serving", "draining", "drained"} => d \in written
  /\ \A n \in Names :
       owner[n] # None /\ owner[n] \notin written =>
         pc[owner[n]] \in {"wait", "read", "verify", "kill", "inspect", "unlink"}

\* A daemon shuts down only while the stop that told it to is waiting.
StopInv ==
  \A d \in Starts :
    /\ d \in shutdown /\ Alive(d) =>
         /\ daemon[d] \in {"serving", "draining", "drained"}
         /\ \E t \in Stops : pc[t] = "drain" /\ rec[t] = d
    /\ daemon[d] \in {"draining", "drained"} => d \in shutdown
    /\ daemon[d] = "unborn" => d \notin shutdown

\* A start that got past its probe has the name to itself.
ClearInv ==
  \A s \in Starts :
    pc[s] \in {"discard", "spawn", "wait", "read", "verify", "kill", "inspect", "unlink"} =>
      \A e \in Starts : Alive(e) /\ NameOf[e] = NameOf[s] => e = s

PortInv ==
  \A d, e \in Starts : Listening(d) /\ Listening(e) /\ port[d] = port[e] => d = e

\* What a command has read is still what lies at the path.
ReadInv ==
  /\ \A c \in Commands :
       pc[c] \in {"probe", "post", "process", "drain"} =>
         rec[c] \in Starts /\ NameOf[rec[c]] = NameOf[c]
  /\ \A c \in Commands : pc[c] = "seen" => owner[NameOf[c]] # None
  /\ \A c \in Commands : pc[c] = "probe" => owner[NameOf[c]] = rec[c]
  /\ \A t \in Stops : pc[t] = "post" => \A d \in At(rec[t]) : d = rec[t]
  /\ \A q \in Queries : pc[q] = "process" =>
       \A d \in Starts : NameOf[d] = NameOf[q] => ~Alive(d)

\* Together with FileInv, BirthInv and CleanupInv, inductive when Orderly.
SerialInv ==
  /\ OneBusy
  /\ ChildInv
  /\ HoldInv
  /\ StopInv
  /\ ClearInv
  /\ PortInv
  /\ ReadInv
  /\ ExclusiveName

(***************************************************************************)
(* What the documentation says and the full environment refutes            *)
(***************************************************************************)

\* The exclusive creation of the state file lets one daemon serve a name: the
\* others are told it is "already starting or running" (state.rs).
OneServingDaemon ==
  \A d, e \in Starts :
    daemon[d] = "serving" /\ daemon[e] = "serving" /\ NameOf[d] = NameOf[e] => d = e
================================================================================
