------------------------------ MODULE AgentOperations ------------------------------
(***************************************************************************)
(* `install`, `update` and `uninstall` of several agents at once           *)
(* (src/src/installer/agents.rs, src/src/commands/mod.rs): every distinct  *)
(* agent gets a task, a semaphore limits how many run, a panic is a failed *)
(* operation, and the command reports when all have been joined.  An       *)
(* operation reads the registry, picks a distribution and calls the binary *)
(* cache, npm, Deno or uv; what these do is external.  An agent has one    *)
(* package name, and no other agent has it.                                *)
(***************************************************************************)
EXTENDS Naturals, Sequences, FiniteSets, Functions, Registry

CONSTANTS
  Offers,      \* Offers[a]: the sets of distributions a may have in the registry
  Registries,  \* the registries that are tried at first
  Requests,    \* the lists of ids that are tried
  Limit,       \* OPERATION_CONCURRENCY
  MaxOperations, \* bound: operations, over all commands
  MaxReleases  \* bound: changes of the registry

ASSUME OperationsAssumption ==
  /\ Offers \in [Agents -> SUBSET ((SUBSET Distributions) \cup {None})]
  /\ Registries \subseteq Payloads /\ \A r \in Registries : \A a \in Agents : r[a] \in Offers[a]
  /\ Requests \subseteq Seq(Agents)
  /\ Limit \in Nat \ {0} /\ MaxOperations \in Nat /\ MaxReleases \in Nat

VARIABLES
  path,      \* the programs that are found on the PATH
  registry,  \* the registry that is published
  held,      \* held[a]: through what a is installed
  op, ids,   \* the running command
  step,      \* step[a]: the next step of a's task
  local,     \* local[a]: what a's operation carries to that step
  result,    \* result[a]: what a's operation returned
  code,      \* the exit code, or None
  lines,     \* what was printed, as <<agent, result>>
  operations, releases, \* counters for the bounds
  before,    \* before[a]: held[a] when an uninstall began (history)
  misread,   \* the agents of the batch about which an error of npm was read as "no" (history)
  drift      \* the registry or the PATH changed since something was installed (history)

batchVars == <<op, ids, step, local, result, code, lines, operations, before,
               misread>>
vars == <<path, registry, held, releases, drift, batchVars>>

Successes == {"cache", "npm", "deno", "uv"}
Failures == {"offline", "unknown", "no distribution", "failed", "cache failed",
             "program failed", "both", "panicked"}
Ops == {"install", "update", "uninstall"}

ASSUME NoneAssumption ==
  None \notin Successes \cup Failures \cup Ops /\ None \notin {0, 1}

(***************************************************************************)
(* run_concurrently                                                        *)
(***************************************************************************)

\* The members of s at the given places, in their order.
Rank(places, i) == Cardinality({j \in places : j <= i})
Filter(s, places) ==
  [k \in 1..Cardinality(places) |-> s[CHOOSE i \in places : Rank(places, i) = k]]

\* In the order of the first request.
Distinct(s) == Filter(s, {i \in DOMAIN s : \A j \in 1..(i - 1) : s[j] # s[i]})

Running == {a \in Agents : step[a] \notin {"none", "queued", "settled"}}

Start(o, request) ==
  /\ op = None /\ operations + Cardinality(Range(request)) <= MaxOperations
  /\ op' = o /\ ids' = request /\ operations' = operations + Cardinality(Range(request))
  /\ step' = [a \in Agents |-> IF a \in Range(request) THEN "queued" ELSE "none"]
  /\ local' = [a \in Agents |-> None]
  /\ result' = [a \in Agents |-> None]
  /\ code' = None /\ lines' = <<>>
  /\ before' = [a \in Agents |-> IF o = "uninstall" THEN held[a] ELSE {}]
  /\ misread' = {}
  /\ UNCHANGED <<path, registry, held, releases, drift>>

Acquire(a) ==
  /\ step[a] = "queued" /\ Cardinality(Running) < Limit
  /\ step' = [step EXCEPT ![a] = "fetch"]
  /\ UNCHANGED <<path, registry, held, releases, drift, op, ids, local, result, code, lines,
                 operations, before, misread>>

\* The operation goes on with what it has found, or returns; the task then gives
\* its permit back.
Goes(a, s, found) ==
  /\ step' = [step EXCEPT ![a] = s]
  /\ local' = [local EXCEPT ![a] = found]
  /\ UNCHANGED result
Returns(a, r) ==
  /\ step' = [step EXCEPT ![a] = "settled"]
  /\ local' = [local EXCEPT ![a] = None]
  /\ result' = [result EXCEPT ![a] = r]

\* What an operation's step leaves alone, whatever it does.
World == UNCHANGED <<path, registry, releases, drift, op, ids, code, lines, operations, before>>
Rest == World /\ UNCHANGED misread

Mut_Panic(a) ==
  /\ a \in Running
  /\ Goes(a, "none", None)
  /\ UNCHANGED held /\ Rest

Panic(a) ==
  /\ a \in Running
  /\ Returns(a, "panicked")
  /\ UNCHANGED held /\ Rest

\* When every task has been joined, report_batch_outcome: all lines of success, or only the failures.
Reported(order) ==
  LET failed == Filter(order, {i \in DOMAIN order : result[order[i]] \in Failures})
      shown == IF failed = <<>> THEN order ELSE failed
  IN  /\ code' = IF failed = <<>> THEN 0 ELSE 1
      /\ lines' = [i \in DOMAIN shown |-> <<shown[i], result[shown[i]]>>]

Mut_Report ==
  /\ op # None /\ \A a \in Range(ids) : step[a] = "settled"
  /\ \E order \in [1..Cardinality(Range(ids)) -> Range(ids)] :
       Range(order) = Range(ids) /\ Reported(order)
  /\ op' = None
  /\ UNCHANGED <<path, registry, held, releases, drift, ids, step, local, result, operations,
                 before, misread>>

Report ==
  /\ op # None /\ \A a \in Range(ids) : step[a] = "settled"
  /\ Reported(Distinct(ids))
  /\ op' = None
  /\ UNCHANGED <<path, registry, held, releases, drift, ids, step, local, result, operations,
                 before, misread>>

(***************************************************************************)
(* One operation                                                           *)
(***************************************************************************)

\* Every operation fetches for itself; only uninstall goes on without a registry.
Fetch(a) ==
  /\ step[a] = "fetch"
  /\ \E fetched \in Fetched(registry) :
       LET entry == IF fetched = Offline THEN Offline ELSE fetched[a]
       IN  CASE op = "uninstall" -> Goes(a, "uncache", entry)
             [] op # "uninstall" /\ entry = Offline -> Returns(a, "offline")
             [] op # "uninstall" /\ entry = None -> Returns(a, "unknown")
             [] OTHER -> Goes(a, "select", entry)
  /\ UNCHANGED held /\ Rest

Calls(a, program, verb) == Goes(a, "run", <<program, verb>>)

InstallNpx(a) == Calls(a, IF "npm" \in path THEN "npm" ELSE "deno", "install")
InstallUvx(a) == Calls(a, "uv", "install")

\* install_from_registry, and update_from for a binary.
Select(a) ==
  /\ step[a] = "select"
  /\ LET offered == local[a]
     IN  CASE ForPlatform(offered) -> Goes(a, "cache", None)
           [] ~ForPlatform(offered) /\ "npx" \in offered -> InstallNpx(a)
           [] ~ForPlatform(offered) /\ "npx" \notin offered /\ "uvx" \in offered ->
                InstallUvx(a)
           [] OTHER -> Returns(a, "no distribution")
  /\ UNCHANGED held /\ Rest

\* install_binary or refresh_binary_target_in, which BinaryCache models; an update
\* may still fail when it removes the other versions.
CacheBinary(a) ==
  /\ step[a] = "cache"
  /\ \/ /\ held' = [held EXCEPT ![a] = @ \cup {"cache"}]
        /\ Returns(a, "cache") \/ (op = "update" /\ Returns(a, "failed"))
     \/ Returns(a, "failed") /\ UNCHANGED held
  /\ Rest

\* run_command.  A package that is there already may be refused or not, and uv
\* and Deno refuse to remove one that is not.
Changed(a, program, verb) ==
  IF verb = "install" THEN held[a] \cup {program} ELSE held[a] \ {program}

RunsProgram(a, program, verb) ==
  /\ program \in path
  /\ verb = "uninstall" /\ program # "npm" => program \in held[a]
  /\ held' = [held EXCEPT ![a] = Changed(a, program, verb)]
  /\ Returns(a, program)

\* Only the exit status is looked at, which may follow a change.
ProgramFails(a, program, verb) ==
  /\ \/ UNCHANGED held
     \/ program \in path /\ held' = [held EXCEPT ![a] = Changed(a, program, verb)]
  /\ Returns(a, "program failed")

RunCommand(a) ==
  /\ step[a] = "run"
  /\ \/ RunsProgram(a, local[a][1], local[a][2])
     \/ ProgramFails(a, local[a][1], local[a][2])
  /\ Rest

\* remove_cached_agent; a removal that fails may have removed some of it.
RemovalFails(a) ==
  /\ "cache" \in held[a]
  /\ \E h \in {held[a], held[a] \ {"cache"}} : held' = [held EXCEPT ![a] = h]
  /\ Returns(a, "cache failed")

\* uninstall_from: the cache first, whatever the registry says.
Mut_Uncache(a) ==
  /\ step[a] = "uncache"
  /\ \/ /\ held' = [held EXCEPT ![a] = @ \ {"cache"}]
        /\ IF local[a] = Offline THEN Returns(a, "offline")
           ELSE IF "cache" \in held[a] THEN Returns(a, "cache")
           ELSE Goes(a, "inspect", local[a])
     \/ RemovalFails(a)
  /\ Rest

Uncache(a) ==
  /\ step[a] = "uncache"
  /\ \/ /\ held' = [held EXCEPT ![a] = @ \ {"cache"}]
        /\ IF "cache" \in held[a] THEN Returns(a, "cache")
           ELSE IF local[a] = Offline THEN Returns(a, "offline")
           ELSE Goes(a, "inspect", local[a])
     \/ RemovalFails(a)
  /\ Rest

\* npm_package_installed, which is not asked without npm and does not look at npm's
\* exit status, so that an error in JSON, which lists no dependencies, is a "no";
\* find_deno_installations, which reads Deno's directory, be Deno there or not.
NpmHas(a) == "npm" \in path /\ "npm" \in held[a]
DenoHas(a) == "deno" \in held[a]

UninstallUvx(a) == Calls(a, "uv", "uninstall")

\* What is left to do when there was no binary; npm is asked first.
Mut_Inspect(a) ==
  /\ step[a] = "inspect"
  /\ LET offered == IF local[a] = None THEN {} ELSE local[a]
     IN  CASE "npx" \in offered /\ "npm" \in path -> Calls(a, "npm", "uninstall")
           [] "npx" \in offered /\ "npm" \notin path -> Goes(a, "inspect deno", FALSE)
           [] "npx" \notin offered /\ "uvx" \in offered -> UninstallUvx(a)
           [] OTHER -> Returns(a, "unknown")
  /\ UNCHANGED held /\ Rest

AsksNpm(a) ==
  \/ Goes(a, "inspect deno", NpmHas(a)) /\ UNCHANGED misread
  \/ /\ "npm" \in path /\ Goes(a, "inspect deno", FALSE)
     /\ misread' = IF NpmHas(a) THEN misread \cup {a} ELSE misread
  \/ "npm" \in path /\ Returns(a, "failed") /\ UNCHANGED misread

Inspect(a) ==
  /\ step[a] = "inspect"
  /\ LET offered == IF local[a] = None THEN {} ELSE local[a]
     IN  CASE "npx" \in offered -> AsksNpm(a)
           [] "npx" \notin offered /\ "uvx" \in offered ->
                UninstallUvx(a) /\ UNCHANGED misread
           [] OTHER -> Returns(a, "unknown") /\ UNCHANGED misread
  /\ UNCHANGED held /\ World

InspectDeno(a) ==
  /\ step[a] = "inspect deno"
  /\ LET npmHas == local[a]
     IN  \/ Returns(a, "failed")
         \/ CASE npmHas /\ DenoHas(a) -> Returns(a, "both")
              [] npmHas /\ ~DenoHas(a) -> Calls(a, "npm", "uninstall")
              [] ~npmHas /\ DenoHas(a) /\ "deno" \in path -> Calls(a, "deno", "uninstall")
              [] OTHER -> Returns(a, "failed")
  /\ UNCHANGED held /\ Rest

(***************************************************************************)
(* The world                                                               *)
(***************************************************************************)

Untouched == op = None /\ \A a \in Agents : held[a] = {}

\* The registry changes.
Publish(a) ==
  /\ releases < MaxReleases
  /\ \E o \in Offers[a] \ {registry[a]} : registry' = [registry EXCEPT ![a] = o]
  /\ releases' = releases + 1
  /\ drift' = (drift \/ ~Untouched)
  /\ UNCHANGED <<path, held, batchVars>>

\* run, serve and register resolve the agent, and install it if it is a binary.
\* Bound: not while a batch runs; what meets in the cache is BinaryCache's.
Run(a) ==
  /\ op = None /\ operations < MaxOperations /\ operations' = operations + 1
  /\ \E fetched \in Fetched(registry) \ {Offline} :
       /\ fetched[a] # None
       /\ Resolve(fetched[a], path) = "cache"
  /\ held' = [held EXCEPT ![a] = @ \cup {"cache"}]
  /\ UNCHANGED <<path, registry, releases, drift, op, ids, step, local, result, code, lines,
                 before, misread>>

Operation(a) ==
  \/ Fetch(a) \/ Select(a) \/ CacheBinary(a) \/ RunCommand(a) \/ Uncache(a)
  \/ Inspect(a) \/ InspectDeno(a)

Task(a) == Acquire(a) \/ Operation(a) \/ Panic(a)

Init ==
  /\ registry \in Registries
  /\ held = [a \in Agents |-> {}]
  /\ op = None /\ ids = <<>> /\ step = [a \in Agents |-> "none"]
  /\ local = [a \in Agents |-> None] /\ result = [a \in Agents |-> None]
  /\ code = None /\ lines = <<>> /\ operations = 0 /\ releases = 0
  /\ before = [a \in Agents |-> {}] /\ misread = {} /\ drift = FALSE

Next ==
  \/ \E o \in Ops, request \in Requests : Start(o, request)
  \/ \E a \in Agents : Task(a) \/ Run(a) \/ Publish(a)
  \/ Report

(***************************************************************************)
(* Properties                                                              *)
(***************************************************************************)

Position(a) == CHOOSE i \in DOMAIN ids : ids[i] = a /\ \A j \in 1..(i - 1) : ids[j] # a

\* "Batch output is all-or-nothing": the exit code is 0 only if every operation
\* succeeded, every agent or every failed agent has one line, and the lines come
\* in the order of the first request, whichever order the tasks ended in.
ReportIsFaithful ==
  code # None =>
    /\ code = 0 <=> \A a \in Range(ids) : result[a] \in Successes
    /\ {lines[i][1] : i \in DOMAIN lines} =
         {a \in Range(ids) : code = 0 \/ result[a] \in Failures}
    /\ \A i \in DOMAIN lines : lines[i][2] = result[lines[i][1]]
    /\ \A i, j \in DOMAIN lines :
         i < j => Position(lines[i][1]) < Position(lines[j][1])

\* What an uninstall did not get far enough to remove, it leaves whole: one that
\* fails before it calls a removal, since the registry cannot be had or does not
\* know the agent, npm or Deno cannot be asked or both have it, has removed nothing.
\* A removal that was called and failed, or a panic, may have changed anything.
FailedUninstallKeeps ==
  \A a \in Agents :
    op = "uninstall" /\ result[a] \in Failures \ {"cache failed", "program failed", "panicked"}
      => held[a] = before[a]

\* As long as the registry and the PATH are the ones it was installed with, what
\* `run` starts is what was installed: the installer and the runner, which choose
\* for themselves, choose alike, also between npm and Deno, and one way only.
RunsWhatIsInstalled ==
  ~drift => \A a \in Agents : held[a] # {} => held[a] = {Resolve(registry[a], path)}

\* An uninstall that says where it removed the agent found it there, although npm
\* removes what is absent without complaint, and one through npm or Deno never
\* leaves the other of the two behind, even when npm has come to the PATH after the
\* installation, unless npm could not tell that it has the package and said so in
\* JSON.  After a removal from the cache no package manager is asked: what one of
\* them holds besides stays, and the property does not speak of it.
UninstallIsReal ==
  \A a \in Agents :
    op = "uninstall" /\ result[a] \in Successes =>
      /\ result[a] \in before[a] \ held[a]
      /\ result[a] \in {"npm", "deno"} /\ a \notin misread =>
           held[a] \cap {"npm", "deno"} = {}

\* Tasks that wait for the network or for a program, neither of which has a time
\* limit in the code.
Remote(a) == step[a] \in {"fetch", "cache", "run", "inspect"}

\* Whatever fails or panics, every batch is reported, unless a task waits for the
\* network or a program for ever: neither a permit of the semaphore nor the result
\* of a task is ever lost.
EveryBatchEnds == op # None ~> op = None \/ \E a \in Agents : []Remote(a)

(***************************************************************************)
(* What the proofs need beside them                                        *)
(***************************************************************************)

Programs == {"npm", "deno", "uv"}
Steps == {"none", "queued", "fetch", "select", "cache", "run", "uncache", "inspect",
          "inspect deno", "settled"}

\* Every variable has its type.
TypeOK ==
  /\ registry \in Payloads /\ held \in [Agents -> SUBSET Successes]
  /\ op \in Ops \cup {None} /\ ids \in Seq(Agents)
  /\ step \in [Agents -> Steps] /\ local = [a \in Agents |-> local[a]]
  /\ result \in [Agents -> Successes \cup Failures \cup {None}]
  /\ code = None \/ code \in {0, 1}
  /\ before \in [Agents -> SUBSET Successes] /\ misread \subseteq Agents /\ drift \in BOOLEAN

\* A task lives while a batch runs that is about its agent, at the steps of that
\* batch's operation, carries what its step needs, and answers when it is over.
TaskInv(a) ==
  /\ step[a] = "none" <=> a \notin Range(ids)
  /\ op = None => step[a] \in {"none", "settled"}
  /\ step[a] = "settled" <=> result[a] # None
  /\ step[a] \in {"select", "cache"} => op # "uninstall"
  /\ step[a] \in {"uncache", "inspect", "inspect deno"} => op = "uninstall"
  /\ step[a] = "select" => local[a] \in SUBSET Distributions
  /\ step[a] = "run" => \E program \in Programs :
       local[a] = <<program, IF op = "uninstall" THEN "uninstall" ELSE "install">>

\* What a task of an installation has chosen, or installed, is what a run would choose.
ChoiceInv(a) ==
  ~drift =>
    /\ held[a] # {} => held[a] = {Resolve(registry[a], path)}
    /\ step[a] = "select" => local[a] = registry[a]
    /\ step[a] = "cache" => Resolve(registry[a], path) = "cache"
    /\ step[a] = "run" /\ op # "uninstall" => local[a][1] = Resolve(registry[a], path)

\* What npm has installed can be asked for again; an uninstall has removed nothing
\* before its last step, and knows by then which of npm and Deno has the agent, if
\* npm has told.
RemovalInv(a) ==
  /\ "npm" \in held[a] => "npm" \in path
  /\ op = "uninstall" =>
       /\ step[a] # "settled" => held[a] = before[a]
       /\ step[a] = "inspect deno" =>
            /\ local[a] \in BOOLEAN /\ (local[a] => "npm" \in held[a])
            /\ a \notin misread /\ "npm" \in held[a] => local[a]
       /\ step[a] = "run" =>
            /\ local[a][1] = "npm" => {"npm", "deno"} \cap held[a] = {"npm"}
            /\ local[a][1] = "deno" =>
                 "deno" \in held[a] /\ (a \notin misread => "npm" \notin held[a])
       /\ result[a] \in Failures \ {"cache failed", "program failed", "panicked"} =>
            held[a] = before[a]
       /\ result[a] \in Successes =>
            /\ result[a] \in before[a] \ held[a]
            /\ result[a] \in {"npm", "deno"} /\ a \notin misread =>
                 held[a] \cap {"npm", "deno"} = {}

AgentInv(a) == TaskInv(a) /\ ChoiceInv(a) /\ RemovalInv(a)

\* A report is about a batch that is over.
ReportInv == code # None => op = None

OperationsInv ==
  TypeOK /\ ReportInv /\ ReportIsFaithful /\ \A a \in Agents : AgentInv(a)
================================================================================
