# A TLA+ model of acp-agent

`acp-agent` (Rust, `src/src`) installs ACP agents from a registry, runs them,
and serves them over HTTP/SSE and WebSocket: one agent in the foreground
(`serve`), or several behind one background daemon, the *named server*
(`server start`, `register`, `stop`, ...). Much of the program is a chain of
calls that ends; what is hard in it is where independent processes and tasks
meet: the state file of a named server, its log, the cache directory of an
agent, the install log, the outcome of a launch, a server that has to stop, a
batch of operations against a registry and a PATH that change. These are modelled
here, checked with TLC on small instances, and most of them proved about with
TLAPS.

## Inventory

Line numbers are those of `PROJECT.json`, which maps every definition.

| Component | State | Operations | What is hard | What makes it correct |
| --- | --- | --- | --- | --- |
| **Named-server lifecycle** (`server/client.rs`, `daemon.rs`, `state.rs`) | `<name>.json` per name; the daemon process, its port, its shutdown watch | `start`, `stop`, `status`; the daemon's `run_with` | every command is check-then-act on a file and a port that others change; crash, kill, interrupt, time-out | one daemon per name, the file leads to it, a failed start cleans up, a stale file means a crash, a stop hits its name, commands end |
| **Registry and dispatch of a server** (`server/daemon.rs`) | map id → agent under a `RwLock` | `add_agent`, `remove_agent`, `dispatch_agent` | slow resolution before the lock, the router called after it; longest prefix over an unordered map | ids and routes distinct, one target per request |
| **Graceful shutdown** (`serve.rs`) | watches `shutdown`, `cancel`, `force_close`; where the select stands | signal or request, drain, grace, cancel, force, exit | connections that never close, agents launched after the cancel, WebSockets | the server stops, the cancellation reaches every agent, the grace is given |
| **Launch health** (`serve.rs`) | `AgentHealth`, one `LaunchState` per connection | factory, two inspectors, completion, drop guard, `/readyz` | three places record one outcome; outcomes of several launches in any order; a panic under a mutex | each launch counted once, the newest decides |
| **Binary cache** (`installer/binary.rs`, `cache.rs`, `agents.rs`, `main.rs`) | `agents/<id>/<platform>/<version>`, dot-prefixed staging and backup directories | `install`, `update`, `uninstall`, the sweep at every start | no lock at all; `remove_dir_all` is many steps; kill, cancellation, a thread that outlives its future | entries whole, a failed update keeps the binary, nothing leaks |
| **Agent stderr sink** (`serve.rs`) | for each registered agent a bounded queue, a drop counter, the time of the last report | push, writer task | a full queue, a late report, several writers on one stderr, the end of the server | every line written or counted |
| **Log tail** (`server/client.rs`) | what was read so far | `server logs`, backwards in chunks | the file grows; chunks end anywhere; a limit | the last *n* lines as of one moment |
| **Install log** (`installer/binary.rs`) | log file, temporary file, lock file | append; truncate by rename | several processes; the log becomes another file while others wait; killed half-way | whole lines, the latest ones, bounded |
| **Concurrent operations** (`installer/agents.rs`, `commands/mod.rs`) | semaphore, join set, results | `install`, `update`, `uninstall` of several agents | panics, order, one that fails among several | complete report in order, the batch ends |
| **Package managers** (`installer/agents.rs`) | what npm, Deno and uv hold | install, update, inspect, uninstall | the PATH of an uninstall is not that of the installation | what is reported removed was there and is gone |
| **Environment installer** (`installer/environment.rs`) | plan, PATH, known directories | `install-env`: plan, confirm, run, verify | exit statuses that mean nothing | complete means sufficient |
| **Agent registry** (`registry.rs`), **runner** (`runner.rs`) | none (the published registry changes) | fetch, validate, look up, resolve | installer and runner choose separately | they choose alike |
| Archive extraction (`installer/binary.rs`) | files | tar, zip, plain | entry paths, modes | payload below the directory |
| Yolo catalog (`yolo.rs`) | `OnceLock` | fetch or fall back | first fetches race | a valid catalog |
| Path components (`installer/cache.rs`) | none | sanitise with a digest | collisions | injective |
| Listing, CLI, output | none | parse, render | — | — |

How they meet. The CLI and the daemon share the state file and the daemon's HTTP
endpoints (`NamedServer`). Inside the daemon the control endpoints and the
dispatched connections share the registry and the watches (`AgentServer`); each
agent router has a health record fed by its connections (`LaunchHealth`) and a
stderr whose lines go through its queue to the log, which `server logs` reads in
another process (`ServerLog`). A registration resolves its agent through the
binary cache, which other commands and the start-up sweep of *every* command, the
daemon's included, use too (`BinaryCache`, where a server's registrations are
`Tasks`); every attempt leaves a line in the install log (`InstallLog`). Batches of
operations and `install-env` meet in the PATH, and with the runner in what is
installed (`Installations`).

## Modules

| Module | Models |
| --- | --- |
| `NamedServer` | lifecycle of named servers, commands against daemons |
| `MCNamedServer` | its instances: who passes which `--name` and `--port` |
| `ServerClients` | `register` and `unregister` against the daemons of `NamedServer` |
| `MCServerClients` | its instance: who takes part with whom |
| `NamedServer_proofs` | what holds whatever overlaps, and when commands do not |
| `ServerClients_proofs` | what clients are told and whom they reach |
| `LaunchHealth` | the mechanism behind `/readyz` |
| `Readiness` | what `/readyz` promises, abstractly |
| `LaunchHealth_proofs` | invariants, and `LaunchHealth` implements `Readiness` |
| `BinaryCache` | the cache directory of one agent on one platform |
| `MCBinaryCache` | its instances: who runs what, for which target |
| `BinaryCache_proofs` | where directories are, whole entries, what a sweep and a success mean, that a binary is kept |
| `AgentServer` | registry, dispatch and shutdown of one server |
| `MCAgentServer` | its instances: nested and similar routes |
| `AgentServer_proofs` | registry, dispatch and the grace |
| `StderrSink` | each agent's queue of stderr lines and its writer |
| `LogTail` | `server logs` on a file that grows |
| `ServerLog`, `MCServerLog` | the two composed over one log file; its instance |
| `ServerLog_proofs` | no line of an agent is lost without a count; the tail is exact |
| `InstallLog` | the install log, its lock and its truncation |
| `AppendLog` | what readers of its path are promised, abstractly |
| `MCInstallLog` | its instance: lines of different lengths |
| `InstallLog_proofs` | the bound, whole lines, the latest lines; it implements `AppendLog` |
| `Registry` | fetching, validation, look-up; the runner's choice (no state) |
| `AgentOperations` | batches of operations on agents |
| `Toolchain` | `install-env` |
| `Installations`, `MCInstallations` | the three composed over one PATH; its instance |
| `Installations_proofs` | reports, removals and choices of batches; what a complete `install-env` means |

`Mut_X` is a mutated form of `X`, named in `PROJECT.json`: what a plausible
mistake in that code would look like. Each property is violated by its mutant.

### NamedServer

A start invocation spawns one daemon, so one name stands for the invocation, its
daemon and its pid. The file of a name is the daemon that created it (`owner`)
and whether that daemon has `written` its JSON: creation with `create_new` and
the write are two steps (`state.rs` 160-183). `daemon[d]` follows `run_with`:
bind, create, write, serve, drain, remove. `pc[c]` follows a command, one label
per file-system call, probe or poll; `rec[c]` is the JSON it has read and goes
on using. `server_is_alive` is `Answers`/`Silent`: the reply is compared by name
and version only, the connection goes to whoever listens on the *port* now, and
a 500 ms time-out may fire against a live daemon if `Slow`.

Four switches say which environment is meant. `Concurrent`: commands overlap
and are interrupted by the user. `Slow`: probes and waits may time out although
the daemon is well. `Signals`: SIGINT or SIGTERM reach daemons directly.
`Stubborn`: the removal of a state file may fail and leave it (`UnlinkFails`): the
daemon's own when it leaves, the one after a failed write and the one of a start that
finds a dead file, both of which the code ignores, and that of a failed start's
cleanup. The history `unremoved` holds the daemons whose own file stayed in this way;
`StaleOnlyAfterCrash`, `FailedStartLeavesNothing` and `ShutdownFinishes` except these
files and no others.
A crash of a daemon is possible in every environment.

| Run | Environment | Checks |
| --- | --- | --- |
| `NamedServerOverlap` | all four; 2 starts (one with port 0), 1 stop | `StaleOnlyAfterCrash`, `FailedStartLeavesNothing`, `EveryCommandReturns`, `ShutdownFinishes` |
| `NamedServerSerial` | none; either 3 starts, 2 stops, 1 status, or 2 starts, 1 stop, 2 registrations, 1 removal; 2 names, 2 ports | `ExclusiveName`, `ServingIsRecorded`, `StopHitsOnlyItsName`, `StatusIsTruthful`, `RequestHitsItsName`, `RegistryMatchesReplies` |

`TypeOK` is proved instead of checked by a run. `NamedServerSerial` checks
`ClientsSpec`, described below; the other runs check `NamedServer` alone.

Two starts are what the races need: one that finds or removes what another one
made. The third start of the serial run is there for a name that is started
again after a crash while another name took over the port; ports are two so that
they are both reused and distinct.

#### ServerClients

A client of a running daemon (`server register`, `server unregister`) reads the
state file (`Load`), asks who answers on its port (`Probe`), and posts its
request there (`Send`), naming an agent but no server. The handler goes on
whether or not the client still waits: `AddAgent` checks and inserts under one
lock, after a resolution that may take long or fail (`AddAgentFails`), and
`RemoveAgent` removes. The client may be interrupted or lose its server while it
waits. `agents[d]` holds the registry of daemon `d`; an entry names the
registration that made it, which is what `RegistryMatchesReplies` needs to tell a
failed command's entry from another one's. Routes and dispatch are `AgentServer`'s
part.

`RequestHitsItsName` says that a request reaches a server of the name it was meant
for, though a crash may have left the port to a server of another name; it rests on
the probe, and holds when no start or stop runs between probe and request, as in
this run. `RegistryMatchesReplies` says that what clients were told is what a
serving daemon holds: a command that failed leaves no entry, so that a retry does
not meet a conflict with itself. It holds because `register` sets no time limit on
its request, and its mutant is such a limit; an interrupted command (`gone`) was
told nothing and is exempt.

`cast` says who takes part: all lifecycle commands without clients, or
two starts, a stop and three clients, whose steps interleave freely with each
other and with crashes. The two registrations are alike (same agent and server), so
TLC may swap them. Three clients are what the case needs in which one registration
meets the other's entry and a removal comes before, between or after.

One statement of the code does not survive the full environment, and
`NamedServerTwoServers` finds a shortest counterexample to it: two daemons of one
name. The model reaches five more behaviours that a user may not expect, for
which no run is kept. A daemon that drains after a signal removes the file at its
name's path when it leaves (`daemon.rs:90`), which by then may be its successor's,
because a start takes a drained server's silence for its death. A draining server
is reported as `starting` (`QueryInspectsProcess`). With `Concurrent`, a status
that meets a half-made file ends in `error` (`QueryReads`), and a `list` of
several names fails as a whole on one such file (`client.rs:222`). And a stop
whose server leaves between the probe and the post shuts down whoever has bound the
port since, so `StopHitsOnlyItsName` is checked and proved for commands that do
not overlap.

Fairness (`Fairness`): a live process is scheduled by the operating system, a
request is answered or fails, time-outs (`START_TIMEOUT`) strike in the end;
nothing makes a user type a command, a signal arrive or a process crash.
`EndDrain` is fair because `AgentServer` shows that the drain ends
(`ServerStops`). `StartInterrupted` and `Crash` are not fair.

### LaunchHealth and Readiness

A launch goes from the factory (`gen`, the generation of `fetch_add`) to
`connect_to` and to its end. The two inspectors, `LaunchGuard::complete` and
`LaunchGuard::drop` run in one task, so the steps of one launch do not overlap
(`Idle`); launches do. `TryRecord` is the compare-exchange; the record call it
entitles to is a later step (`owed`, `Record`) that others may overtake.
`StderrPanics` stands for every way the cut at 16 KiB can fall inside a
character; what the tail holds is not modelled, so any open launch may panic.
`told` is history, read by no action. `last_attempt_failed` is `lastOutcome`.

`LaunchHealth` (3 launches, 2 request ids) checks `CountsAreExact`,
`NewestDecides`, `EndedIsRecorded` and `KeepsPromise`, the refinement of
`Readiness` under `rank <- gen, result <- told, ready <- Ready`. Three launches
are the least with an outcome older than, newer than, and between others; two
ids let a second initialize replace the first. `LaunchHealthPoisoned` shows that
`EndedIsRecorded` needs its exception: a poisoned tail loses the launch.

### BinaryCache

A directory is an inode (`New(p)`, made by command `p`; `Old(v)`, there at first)
at a place; a rename moves the inode while another process may be deleting its
files (`rm[p]` follows the inode, the final `rmdir` the path). An entry holds the
executable, one other file of the payload, and `metadata.json`; the metadata says
version and archive. Every call on the file system is a step, except that a command
that is through with its staging or its backup directory begins to remove it in the
step that decides so. `site[p]` says which of the four calls of
`validate_cached_binary` is running; each is three steps. `CheckMetadata` and
`CheckExecutable` find an entry valid or not; metadata that was there and is gone at
`ReadMetadata` is an error, even when a backup waits. After a failed validation of a
replacement, `Cleanup` removes what lies at the path and `Reinstate` puts the backup
back.

In plans that say so (`refuses`) the file system may refuse a call that could be made:
a promotion, a look at an entry, a move aside, a replacement, the return of a backup
(`MayFail`, `ValidationFails`, `Reinstate`). Who is refused the return of its backup, or
a look at what has replaced the entry (the `?` in `binary.rs:210`), leaves the backup
where it is and ends `stranded`. An entry of a ZIP archive makes the directories that it
needs (`Extract`), so that an extraction goes on in a staging directory that was swept,
or, in a thread that outlives its install, in one that was removed (`LateWrite`).

The run `BinaryCache` starts from any of five plans and checks `TypeOK`,
`NoStagingLeaks`, `EntriesAreWhole`, `BinaryIsKept`, `SweepReclaims` and
`SuccessIsInstalled` in all of them:

| Plan | What happens |
| --- | --- |
| `OneByOne` | update, install and uninstall, one at a time, killed anywhere; a new version; calls may be refused |
| `TwoUpdates` | two updates of one version from two archives overlap; calls may be refused |
| `UpdateAndInstall` | an update and an install of one version from two archives overlap while another version is in place; calls may be refused |
| `ThreeTasks` | three installs in one server overlap, cancelled anywhere |
| `TaskAndUninstall` | an install in a server overlaps with an uninstall by a user, either killed anywhere; calls may be refused |

Each of the last three properties says for whom it holds. `BinaryIsKept`: a user who
has a version (`Keepers`), when commands do not overlap, or when at most two
installs or updates do that want one version, from whichever archives, beside any
number that only list; and as long as nothing was uninstalled, nobody killed, cancelled or
swept while alive, and nobody `stranded` (`Undisturbed`). Refused renames and failed
promotions do not disturb. Then some version is in place, whole, and nobody
is emptying it, or a command that replaces it holds it as a backup. `SweepReclaims`: when commands do
not overlap, a command past its sweep finds no backup of another, and no staging
directory of another but a server task's, whose extraction thread may still write.
`SuccessIsInstalled`: when commands do not overlap, or when all of them install one
target, what was there was built from its archive and no call is refused (`SameInstall`),
and no sweep took what was in use (`hit = {}`). Two *updates* of one target are excluded: one may move
the entry aside to replace it just before the other reports success for it.

`hit` records that a sweep removed a work directory of a running command; the
properties that say `hit = {}` exempt that case. `BinaryCacheLost` is about it: the
sweeps of two other commands take the staging and the backup directory of an
update, which fails and leaves no binary. The model reaches four more such
behaviours for which no run is kept: a sweep that removes files that a running
install has already unpacked, so that an incomplete entry is promoted; an update
killed between its two renames, whose only copy is swept as a stale backup; an
uninstall killed half-way, whose incomplete entry the next install accepts; and a
cancelled install whose extraction thread writes below its staging directory
after the guard has removed the rest, so that the directory stays.

Abstracted: the parent directories and their removal when empty (a staging that
cannot be made is `PreparationFails`); a sweep and a listing read the directory
once; corrupt metadata, which no code of the program writes; the registry fetch
(each command has its `Target`); whether the payload *contains* the executable. Not
modelled: removals that are refused (`cleanup_dir` ignores them, an uninstall reports
them), and a refused look at an executable that is there, which the code takes for its
absence.

`BinaryIsKept` cannot say more. Commands that want two versions remove each other's
entry by design of `remove_cached_platform_except`. With three overlapping commands of
one version it is false, deep in a search of thirty million states, too long for a
run: one that finds another's entry in its place holds this one's backup by then, and
`cleanup_dir(&paths.cache_dir)` after a failed validation removes by path what a third
has just put there. With two, whoever removes an entry has a backup, and the other
one is past the point where it could take it for its own.

### AgentServer

A connection carries one request through a handler; an agent is launched by the
request that reaches its router and, over HTTP, outlives it. Routes and paths are
sequences of characters because `route_matches` looks at characters: `/a`,
`/ab` and `/a/b` tell a prefix from a path prefix. `phase` is where the select of
`serve_with_shutdown` stands: `serving`, `grace`, `forced`, `stopped`, `gone`.
axum may or may not wait for an upgraded connection (`Waiting` leaves it out, so
the server may stop with one open, and the client may close it before); at
`Exit` the runtime drops what is left. Both are external. `CancelAgent` is the arm of
`connect_to`'s select that waits for the cancel watch, in the task of the agent's own
connection.

`AgentServer` (3 connections, 3 routes of which one is a path prefix and one a mere
character prefix of the third, 2 ids, a request that all three begin) checks
`RegistrationsAreDistinct`, `DispatchIsUnique` and `GraceIsGiven`, with two of the
connections racing to register while the third uses or removes; and, under `Fairness`,
`ServerStops` and `CancelReachesAgents`. Fair are the stages of the server's own task
and timers, and for each connection the arm that waits for the cancellation: tasks that
the runtime polls. Nothing is asked of clients, agents or the registry, so a stream may
stay open for ever; nor of `Exit`, so that `CancelReachesAgents` cannot lean on the
runtime's drop: every agent that runs when the grace ends, was unregistered meanwhile or
is launched after the cancellation by a request that was dispatched before it, is stopped
by the watch or ends by itself. A server that drains before its grace is over cancels
nothing; agents that are still running then are those that its runtime drops at exit.
`TypeOK` is proved and not checked by a run.

### StderrSink, LogTail and ServerLog

`agent_router` makes a sink for each agent that is registered (`serve.rs:136`), although
the comment at `STDERR_CHANNEL_CAPACITY` speaks of lines "per server": each agent has
its own queue, counter and writer task, and the writers share the server's stderr. An
agent's line is `push`ed into its queue of `Capacity` or counted; its writer receives,
prints and then looks at the counter (`Check`), which it reports at most once a second
(`SecondPasses`). `eprintln!` on the unbuffered stderr is one write for each piece of its
format (`Lines`), under the lock of stderr from the first to the last (`InPrint`), so
that a reader of the file sees a line without its newline, but no line inside another.
`written`, `told` and `due` are history. When the server ends, the writers and their
queues are dropped; the next server appends to the same file.

`LogTail` follows `read_log_tail`: the length is looked at once, chunks are read
backwards until one newline more than was asked for is in, the beginning is
reached or `MaxLogTail` exceeded. A byte is a newline, a carriage return, an
ASCII character or one half of a character of two bytes: what the code's
conditions tell apart. `TailLines` splits at the newlines (`Cuts`, `PieceAt`), drops an empty
last piece, counts from the front how many to leave out, and strips, as the code
does; `LastLines` is a definition of its own, by the positions at which lines begin,
counted from the end.

`ServerLog` (2 agents, 2 servers; in the first one agent prints 3 lines and the other 1,
in the second one agent 1; `Capacity` 1, `ChunkSize` 3, `MaxLogTail` 8, 0 to 2 lines asked
for; 518,179 states) checks `OverflowIsReported`, `TailIsExact` and `QueueDrains`. Three
lines are the least that fill the queue while the writer holds one, overflow it, and
leave one to carry the report;
the second agent's writer competes for stderr; a line is up to four bytes, so that
chunks of three end everywhere in it and the limit is met after two lines. `ServerLogText` shows that the first chunk may begin inside a
character. `QueueDrains` needs `WF(Writer(a))` for each agent: the runtime polls the
task, and the threads take turns at the lock. Nothing is asked of agents, seconds,
servers or users.

### InstallLog and AppendLog

`append_install_log_inner` call by call: begin, lock, open, measure, and write or
read, make the temporary file, fill it, rename it, reopen and write. An inode is
named after where and by whom it was made, so that the path leads to another inode
after a rename while a killed writer's temporary file stays. Every call may fail
(`CallFails`), a write after the beginning of its line (`WriteFails`), and every
writer may be killed (`Killed`; `WriteFails` if in the middle of its write). `torn` records that a
line was cut off in either way, which `LinesAreWhole` excepts: the code does not mend
it. A byte is a line and a position in it. A line is taken to have one newline, its
last byte: the code formats the chain of an error into one line, and an error whose text
has newlines in it would count as several.

`AppendLog` is what a reader who opens the path at any moment can rely on: between
two looks, (the beginning of) lines were appended, or oldest lines were replaced by
a header and what is left begins after a newline, or within the last line.
`KeepsPromise` is the refinement, with the file that the path leads to as `log`.

`InstallLog` (4 writers, lines of 2, 3, 3 and 3 bytes and a header of 1, `MaxBytes`
7, `TailBytes` 3) checks `LinesAreWhole`, `LatestAreKept`, `LogIsBounded`,
`EveryWriterLeaves` and `KeepsPromise`. Four writers are the least for two
truncations, or for one that is left half-way by a killed writer and taken up
by another; the tail is cut inside lines and between them. Weak fairness of each
writer's `Step` is enough, because everyone asks for the lock once and the kernel
gives it to one of those who wait.

### Registry, AgentOperations, Toolchain and Installations

An agent's registry entry is the set of its distributions; a payload with one
entry that has none is refused as a whole (`Validates`). `AgentOperations` is
`run_concurrently`: one task for each distinct id, a permit each, a panic that
becomes a result, a report when all are joined. Every task fetches the registry for
itself, so that two tasks of one command may see two registries. `held` is what is
really installed; `run` and `serve` install binaries too (`Run`). `Toolchain` is
`install-env`; an installer's success says nothing about what it did
(`Installs`), and what it put into its own directory is on the PATH of the next
shell only.

`Installations` (3 agents, 2 permits, 3 operations over all commands, 1 change of
the registry, npm added at any time) checks `ReportIsFaithful`,
`FailedUninstallKeeps`, `RunsWhatIsInstalled`, `UninstallIsReal`,
`CompleteIsSufficient` and `EveryBatchEnds`. One batch names an agent twice, three
agents want two permits; three operations are an install, a change of the world
and an uninstall, with one to spare. `drift` records that the world changed since
something was installed: then installer and runner may rightly differ. Three bounds keep
what does not meet apart: a run of an agent, `install-env` and a new PATH do not
happen during a batch. Fairness is that of the runtime, which polls some task as long
as one can go on: `Acquire`, `Select`, `Uncache`, `InspectDeno` and `Report`. It does not
cover what waits for the network (`reqwest::get` without a time limit,
`registry.rs:313` and `binary.rs:428`) or for a program (`Command::output`), and nobody
has to answer `install-env`'s question. `EveryBatchEnds` says therefore that a batch is
reported or one of its tasks stays for ever at such a step (`Remote`): no permit and no
result is lost, whatever panics.

A program that fails may have done its work all the same, because `run_command` sees the
exit status only (`ProgramFails`). npm's list of packages may be an error in JSON, which
the code reads as "not installed" because it does not look at the exit status
(`AsksNpm`); `misread` records that. So `FailedUninstallKeeps` speaks of uninstalls that
fail *before* they call a removal: these have removed nothing. A removal that was called
and failed, from the cache or by a program, and a panic may have changed anything.
`UninstallIsReal` excepts an agent about which npm was misread from one of its parts, that
nothing stays with the other of npm and Deno; and it does not speak of what a package
manager holds besides the cache, which an uninstall that finds the cache does not ask.

Deadlock is not checked in any run: commands end and servers stop.

## Proofs

All theorems hold for every value of the constants that satisfies the named
assumptions of the modules.

`NamedServer_proofs`. `TypeOK`, `StaleOnlyAfterCrash` and `FailedStartLeavesNothing` in
every environment. Neither of the last two is inductive: a file's owner must be known to be past
its bind, and if it is gone to be in `unremoved` (`FileInv`), which needs that a daemon is born once, by its own start
(`BirthInv`), and a start that has reaped its child must know the child to be dead
through the rest of the cleanup (`CleanupInv`).

Its second half is under `Orderly` (no overlap, no slow probes, no
refused removals, no signals). `SerialInv` collects what an orderly history keeps: one busy command
(`OneBusy`), where a child stands as its parent's progress tells (`ChildInv`), a
daemon holds its file from creation to removal (`HoldInv`), a daemon drains only
while its stop waits (`StopInv`), a start past its probe has the name to itself
(`ClearInv`), ports are distinct (`PortInv`), what a command has read is still so
(`ReadInv`). From it: `ExclusiveName`, `ServingIsRecorded`,
`StopHitsOnlyItsName`, `StatusIsTruthful`.

`LaunchHealth_proofs`. `HealthInv` is `TypeOK`, generations handed out in order
and once (`GenInv`), the compare-exchange before the record and the record once
(`OnceInv`), `outcomeGen` the newest told (`NewestInv`). From it the four
properties, the counters by cardinality lemmas, and the refinement of `Readiness`
step by step (`HealthKeepsPromise`).

`AgentServer_proofs`. `TypeOK` first; `RegistrationsAreDistinct` is inductive over `TypeOK`;
`DispatchIsUnique` follows from it, because two prefixes of one path with equal
length are equal; `GraceIsGiven` needs `StopInv` (a server that stopped without
force has nothing open that it waits for).

`InstallLog_proofs`. `LogIsBounded` is not inductive: a truncation is harmless only
if the writer that renames is alone at the log (`LockInv`), if the temporary file is
nobody's log and a new log empty (`InodeInv`), and if each writer still knows what it
has measured: the file it has open is the log and has room, or the log is too long
and the temporary file and what is left to write make up its tail (`StepInv`).
`LogInv` is the conjunction, one lemma per action. `KeptIsTail` says what a
truncation keeps, for every log and bound; with it `InstallLogKeepsPromise` maps
every step to one of `AppendLog`'s or a stutter. The assumption it rests on is that
a line fits below a header and a tail (`SizeAssumption`); the code's limits are 1 MiB
and 256 KiB, and nothing in it limits a line. `LinesAreWhole` and `LatestAreKept` are
inductive together with `LogInv` and one more part, that `order` lists the writers that
are done (`OrderInv`): whether a log consists of whole lines is a matter of neighbouring
bytes (`IsWhole`), which appending a line and cutting behind a newline both keep
(`WholeAppended`, `WholeTruncated`), and a truncation keeps an end of what was there.

`ServerClients_proofs`. `ClientsOnlyAsk`: clients and handlers leave files, daemons and
commands alone (`ClientsSpec => Spec`), so the theorems of `NamedServer_proofs` hold
beside them and are used here. `RegistryMatchesReplies` holds in *every*
environment. It needs what a client knows at each step (`ClientInv`), that
a daemon past its end never serves again (`DaemonsAge`, from `BirthInv`), and that an entry and
the reply to its registration go together until a removal or the daemon's end
(`EntryInv`). `RequestHitsItsName` holds under `Orderly`: while a client is between probe
and request no command is busy, so nobody binds a port (`NobodyBinds`), and whoever
still is at the probed port has the right name (`AimInv`).

`BinaryCache_proofs`, for any commands, tasks, versions, archives and plans. `CacheInv`
says where directories are (`OnePlace`: one place each), where a command is in its
course (`ControlInv`), that a staging directory which is not wanted any more is
being emptied (`StagingInv`), that a command has its new directory to itself until it
is promoted, unless a sweep hit it (`FreshInv`), that what has its metadata is whole or
being removed (`DirInv`), and four parts about special cases:
commands that do not overlap (`SerialInv`), what their sweep leaves (`SweptInv`) and
that what they found valid stays (`LandedInv`); installs of one target, where the first entry is
final (`SharedInv`). The difficulty is the frame: a step of one command must
keep the parts of all others, although any command may remove any directory. Each
action is reduced to the same few facts about what it changed (the `Effect` lemmas),
from which one set of lemmas (`OthersStaging`, `OthersFresh`, `DirsStayWhole`,
`OthersSwept`, `OthersLanded`, `OthersShared`) gives the parts of the others. From
`CacheInv`: `TypeOK`, `NoStagingLeaks`, `EntriesAreWhole`, `SweepReclaims`,
`SuccessIsInstalled`.

`BinaryIsKept` needs an invariant of its own beside it, `KeptInv`, with what each
command must know of the others. A new directory that waits for its promotion is whole
(`StagedInv`). An entry is whole, or being removed by an update that has another version
in place or by a command that will put its backup there (`EntryInv`). Who holds a backup
holds a whole one (`HeldInv`). What a command has put in place can be found invalid only
when the other command is past the point where it moves an entry aside (`ReplacedInv`,
where at most two commands enter: there is no third that could). Who removes other
versions, or has found the metadata of what it put in place, has its own, or another
command holds it (`PruneInv`): this is what excludes that `ReadMetadata` fails, as nobody
would put the backup back then. The frame comes first again (`OthersKeep`, `OthersOwn`,
`OthersPrune`, `EntryStays`, from `SafeUntouched`: a directory stays safe at a place
that a step leaves alone), then one lemma per step (`...KeepsIt`). `DisturbedStays`
is why the condition `Undisturbed` does no harm: what has been disturbed stays so. TLC
has checked `KeptInv` beforehand for every pair of commands, targets and installed
versions up to renaming, with refused calls, in serial plans with kills and in
overlapping plans of one version (2,232,188 states).

`Installations_proofs`, for any agents, registries, batches, permits and PATHs.
`OperationsInv` is `TypeOK`, where a task can be and what it carries (`TaskInv`), that
an installation has chosen what a run would choose (`ChoiceInv`), and that an uninstall
has removed nothing before its last step and knows by then which of npm and Deno has
the agent, if npm has told (`RemovalInv`); `EnvInv` is the same for `install-env` (`ToolsInv`: its targets are what was
missing). `ReportIsFaithful` rests on lemmas about `Filter`, which keeps members and order
(`FilterKeepsOrder`, by counting: ranks are a bijection), with which distinct ids are in
the order of the first request (`FirstsInOrder`). Every action of a batch is first
shown to touch one agent only (`OneAgentMoves`).

`ServerLog_proofs`. `OverflowIsReported` follows from `SinkInv`: every line is in the
log, in its writer's hand, in its queue or counted (`NoneIsLost`), and a count that is
not reported yet has a line behind it in the queue that will carry it (`ReportInv`), for
each agent by itself.
`TailIsExact` follows from `TailInv`: the log and all that the writers have in hand are
texts and the log only grows (`TextInv`, `SinkAppends`), so that what was read stays
the end of the file as it was (`ReadInv`). The rest is about the operators: the lines
counted from the front are those counted from the end (`LastAreLast`), and the end
of a text with one newline more than lines are wanted has the same last lines as the text
(`EndIsEnough`): its lines, but perhaps the first, are lines of the text with the
same rank and bytes (`LinesAtEnd`, `PiecesAtEnd`), and that first one is not wanted
(`LinesAreMany`). All rest on `CountedDown`: the members of a set of positions
have the ranks 1 to its cardinality, once each. With one newline less the lemma is
false, as the mutant of `Goes` is.

Only model-checked:
- the liveness properties (fairness is beyond the prover);
- the runs that end in a counterexample.

## What the model says about the code

The findings of `PROJECT.json`, each with the line that says otherwise: two
daemons of one name; a launch failure lost to a poisoned mutex; an update that
loses the binary to other commands' sweeps; a log of text that `server logs`
refuses as not being text. The behaviours listed above without a run of their own
are hazards there, with a note where no property covers them.

## What the next steps are

1. The composition of `NamedServer` and `AgentServer`: that the drain of one is the
   phases of the other.

## Not modelled

The yolo catalog: a cell filled once, for which registrations of one server may
race; either catalog is valid. The digest behind path components. CLI parsing and
output, but for what a batch reports; the registry's JSON and its search; the
arguments and exit codes of runners; the listing of `server registrations` and its
readiness probe of each route, which only read. How tar and zip entries become paths and
modes, which two libraries decide. The transport library
(`agent-client-protocol`), axum and tokio beyond what is said above. Windows-only
branches.
