-------------------------- MODULE Installations_proofs --------------------------
(***************************************************************************)
(* Proofs about Installations: what a batch of operations on agents does   *)
(* and reports, for any agents, registries, batches and PATHs.             *)
(***************************************************************************)
EXTENDS Installations, FiniteSetTheorems, SequenceTheorems, WellFoundedInduction, TLAPS

(***************************************************************************)
(* One step of one task                                                    *)
(***************************************************************************)

\* What an agent's task never touches: the other agents and the batch.
OnlyOf(a) ==
  /\ \A b \in Agents \ {a} : /\ step'[b] = step[b] /\ local'[b] = local[b]
                             /\ result'[b] = result[b] /\ held'[b] = held[b]
                             /\ (b \in misread' <=> b \in misread)
  /\ step' = [b \in Agents |-> step'[b]] /\ local' = [b \in Agents |-> local'[b]]
  /\ result' = [b \in Agents |-> result'[b]] /\ held' = [b \in Agents |-> held'[b]]
  /\ misread' \subseteq misread \cup {a}
  /\ UNCHANGED <<path, registry, drift, op, ids, code, lines, before>>

\* The most an agent's task changes of what npm has misled about.
Misread(a) == misread' \in {misread, misread \cup {a}}

LEMMA GoesOn ==
  ASSUME TypeOK, NEW a \in Agents, NEW s, NEW found, Goes(a, s, found)
  PROVE  /\ step'[a] = s /\ local'[a] = found /\ result' = result
         /\ step' = [b \in Agents |-> step'[b]] /\ local' = [b \in Agents |-> local'[b]]
         /\ \A b \in Agents \ {a} : step'[b] = step[b] /\ local'[b] = local[b]
BY DEF TypeOK, Goes

LEMMA Answers ==
  ASSUME TypeOK, NEW a \in Agents, NEW r, Returns(a, r)
  PROVE  /\ step'[a] = "settled" /\ local'[a] = None /\ result'[a] = r
         /\ step' = [b \in Agents |-> step'[b]] /\ local' = [b \in Agents |-> local'[b]]
         /\ result' = [b \in Agents |-> result'[b]]
         /\ \A b \in Agents \ {a} : /\ step'[b] = step[b] /\ local'[b] = local[b]
                                    /\ result'[b] = result[b]
BY DEF TypeOK, Returns

\* It is enough to look at the agent whose task makes the step.
LEMMA OneAgentMoves ==
  ASSUME OperationsInv, NEW a \in Agents, OnlyOf(a), op # None,
         step'[a] \in Steps, held'[a] \subseteq Successes,
         result'[a] \in Successes \cup Failures \cup {None}, AgentInv(a)'
  PROVE  OperationsInv'
<1> USE DEF OperationsInv
<1>1. TypeOK'
  BY DEF TypeOK, OnlyOf
<1>2. ASSUME NEW b \in Agents, b # a PROVE AgentInv(b)'
  <2>1. AgentInv(b)
    OBVIOUS
  <2>2. /\ step'[b] = step[b] /\ local'[b] = local[b] /\ result'[b] = result[b]
        /\ held'[b] = held[b] /\ (b \in misread' <=> b \in misread)
        /\ UNCHANGED <<path, registry, drift, op, ids, before>>
    BY <1>2 DEF OnlyOf
  <2>3. TaskInv(b)'
    BY <2>1, <2>2 DEF AgentInv, TaskInv
  <2>4. ChoiceInv(b)'
    BY <2>1, <2>2 DEF AgentInv, ChoiceInv
  <2>5. RemovalInv(b)'
    BY <2>1, <2>2 DEF AgentInv, RemovalInv
  <2> QED
    BY <2>3, <2>4, <2>5 DEF AgentInv
<1>3. ReportInv' /\ ReportIsFaithful'
  BY DEF OnlyOf, ReportInv, ReportIsFaithful
<1> QED
  BY <1>1, <1>2, <1>3

\* When a task may go on at a step with what it has found ...
MayGo(a, s, found) ==
  /\ s \in {"fetch", "select", "cache", "run", "uncache", "inspect", "inspect deno"}
  /\ s \in {"select", "cache"} => op # "uninstall"
  /\ s \in {"uncache", "inspect", "inspect deno"} => op = "uninstall"
  /\ s = "select" => found \in SUBSET Distributions /\ (~drift => found = registry[a])
  /\ s = "cache" /\ ~drift => Resolve(registry[a], path) = "cache"
  /\ s = "run" => \E program \in Programs :
       /\ found = <<program, IF op = "uninstall" THEN "uninstall" ELSE "install">>
       /\ op # "uninstall" /\ ~drift => program = Resolve(registry[a], path)
       /\ op = "uninstall" =>
            /\ program = "npm" => {"npm", "deno"} \cap held[a] = {"npm"}
            /\ program = "deno" =>
                 "deno" \in held[a] /\ (a \notin misread' => "npm" \notin held[a])
  /\ s = "inspect deno" =>
       /\ found \in BOOLEAN /\ (found => "npm" \in held[a])
       /\ a \notin misread' /\ "npm" \in held[a] => found

\* ... and when it may answer r and leave the agent installed through h.
MayAnswer(a, r, h) ==
  /\ r \in Successes \cup Failures /\ h \subseteq Successes
  /\ ~drift /\ h # {} => h = {Resolve(registry[a], path)}
  /\ "npm" \in h => "npm" \in path
  /\ op = "uninstall" =>
       /\ r \in Failures \ {"cache failed", "program failed", "panicked"} => h = held[a]
       /\ r \in Successes =>
            /\ r \in held[a] \ h
            /\ r \in {"npm", "deno"} /\ a \notin misread' => h \cap {"npm", "deno"} = {}

Working(a) == step[a] \notin {"none", "settled"}

LEMMA TaskGoesOn ==
  ASSUME OperationsInv, NEW a \in Agents, Working(a), NEW s, NEW found,
         MayGo(a, s, found), Goes(a, s, found), UNCHANGED held, World, Misread(a)
  PROVE  OperationsInv'
<1> USE NoneAssumption DEF Steps, Successes, Failures, Ops, Working
<1>1. TypeOK /\ AgentInv(a)
  BY DEF OperationsInv
<1>2. OnlyOf(a) /\ step'[a] = s /\ local'[a] = found
  BY <1>1, GoesOn DEF OnlyOf, TypeOK, World, Misread
<1>3. op # None /\ result[a] = None /\ result'[a] = None /\ held'[a] = held[a]
  BY <1>1, GoesOn DEF AgentInv, TaskInv
<1>4. step'[a] \in Steps /\ held'[a] \subseteq Successes
  BY <1>1, <1>2, <1>3 DEF TypeOK, MayGo
<1>5. UNCHANGED <<path, registry, drift, op, ids, before>>
  BY DEF World
<1>6. TaskInv(a)'
  BY <1>1, <1>2, <1>3, <1>5 DEF AgentInv, TaskInv, MayGo
<1>7. s = "run" =>
        /\ op # "uninstall" /\ ~drift => found[1] = Resolve(registry[a], path)
        /\ op = "uninstall" =>
             /\ found[1] = "npm" => {"npm", "deno"} \cap held[a] = {"npm"}
             /\ found[1] = "deno" =>
                  "deno" \in held[a] /\ (a \notin misread' => "npm" \notin held[a])
  <2> SUFFICES ASSUME s = "run"
               PROVE  /\ op # "uninstall" /\ ~drift => found[1] = Resolve(registry[a], path)
                      /\ op = "uninstall" =>
                           /\ found[1] = "npm" => {"npm", "deno"} \cap held[a] = {"npm"}
                           /\ found[1] = "deno" =>
                                "deno" \in held[a] /\ (a \notin misread' => "npm" \notin held[a])
    OBVIOUS
  <2>1. PICK program \in Programs :
          /\ found = <<program, IF op = "uninstall" THEN "uninstall" ELSE "install">>
          /\ op # "uninstall" /\ ~drift => program = Resolve(registry[a], path)
          /\ op = "uninstall" =>
               /\ program = "npm" => {"npm", "deno"} \cap held[a] = {"npm"}
               /\ program = "deno" =>
                    "deno" \in held[a] /\ (a \notin misread' => "npm" \notin held[a])
    BY DEF MayGo
  <2>2. found[1] = program
    BY <2>1
  <2> QED
    BY <2>1, <2>2
<1>8. ChoiceInv(a)'
  <2>1. ~drift /\ held[a] # {} => held[a] = {Resolve(registry[a], path)}
    BY <1>1 DEF AgentInv, ChoiceInv
  <2> QED
    BY <1>2, <1>3, <1>5, <1>7, <2>1 DEF ChoiceInv, MayGo
<1>9. RemovalInv(a)'
  <2>1. /\ "npm" \in held[a] => "npm" \in path
        /\ op = "uninstall" => held[a] = before[a]
    BY <1>1, <1>3 DEF AgentInv, TaskInv, RemovalInv
  <2>2. s = "inspect deno" =>
          /\ found \in BOOLEAN /\ (found => "npm" \in held[a])
          /\ a \notin misread' /\ "npm" \in held[a] => found
    BY DEF MayGo
  <2>3. step'[a] = "inspect deno" =>
          /\ local'[a] \in BOOLEAN /\ (local'[a] => "npm" \in held'[a])
          /\ a \notin misread' /\ "npm" \in held'[a] => local'[a]
    BY <1>2, <1>3, <2>2
  <2> QED
    BY <1>2, <1>3, <1>5, <1>7, <2>1, <2>3 DEF RemovalInv
<1> QED
  BY <1>2, <1>3, <1>4, <1>6, <1>8, <1>9, OneAgentMoves DEF AgentInv

\* Most steps leave npm's answers alone.
LEMMA RestIsWorld ==
  ASSUME Rest, NEW a \in Agents
  PROVE  World /\ Misread(a)
BY DEF Rest, Misread

LEMMA TaskAnswers ==
  ASSUME OperationsInv, NEW a \in Agents, Working(a), NEW r, NEW h,
         MayAnswer(a, r, h), Returns(a, r), held' = [held EXCEPT ![a] = h], Rest
  PROVE  OperationsInv'
<1> USE NoneAssumption DEF Steps, Successes, Failures, Ops, Working
<1>1. TypeOK /\ AgentInv(a)
  BY DEF OperationsInv
<1>2. OnlyOf(a) /\ step'[a] = "settled" /\ local'[a] = None /\ result'[a] = r /\ held'[a] = h
  BY <1>1, Answers DEF OnlyOf, TypeOK, World, Rest
<1>3. op # None /\ (op = "uninstall" => held[a] = before[a])
  BY <1>1 DEF AgentInv, TaskInv, RemovalInv
<1>4. step'[a] \in Steps /\ held'[a] \subseteq Successes
      /\ result'[a] \in Successes \cup Failures \cup {None}
  BY <1>2 DEF MayAnswer
<1>5. UNCHANGED <<path, registry, drift, op, ids, before>>
  BY DEF Rest, World
<1>6. TaskInv(a)'
  BY <1>1, <1>2, <1>3, <1>5 DEF AgentInv, TaskInv, MayAnswer
<1>7. ChoiceInv(a)'
  BY <1>2, <1>5 DEF ChoiceInv, MayAnswer
<1>8. RemovalInv(a)'
  BY <1>2, <1>3, <1>5 DEF RemovalInv, MayAnswer
<1> QED
  BY <1>2, <1>3, <1>4, <1>6, <1>7, <1>8, OneAgentMoves DEF AgentInv

(***************************************************************************)
(* The steps of a task                                                     *)
(***************************************************************************)

LEMMA AcquireKeeps ==
  ASSUME OperationsInv, NEW a \in Agents, Acquire(a)
  PROVE  OperationsInv'
<1>1. TypeOK /\ AgentInv(a)
  BY DEF OperationsInv
<1>2. Working(a) /\ MayGo(a, "fetch", local[a])
  BY DEF Working, MayGo, Acquire
<1>3. Goes(a, "fetch", local[a])
  BY <1>1 DEF Goes, TypeOK, Acquire
<1> QED
  BY <1>2, <1>3, TaskGoesOn, RestIsWorld DEF Acquire, Rest, World

LEMMA PanicKeeps ==
  ASSUME OperationsInv, NEW a \in Agents, Panic(a)
  PROVE  OperationsInv'
<1>1. TypeOK /\ AgentInv(a)
  BY DEF OperationsInv
<1>2. held' = [held EXCEPT ![a] = held[a]]
  BY <1>1 DEF TypeOK, Panic
<1>3. MayAnswer(a, "panicked", held[a])
  BY <1>1 DEF MayAnswer, TypeOK, AgentInv, ChoiceInv, RemovalInv, Successes, Failures
<1>4. Working(a)
  BY DEF Panic, Running, Working
<1> QED
  BY <1>2, <1>3, <1>4, TaskAnswers DEF Panic

\* A task may always give up, if that is not mistaken for success.
LEMMA GivesUp ==
  ASSUME OperationsInv, NEW a \in Agents, Working(a), NEW r \in Failures,
         Returns(a, r), UNCHANGED held, Rest
  PROVE  OperationsInv'
<1>1. TypeOK /\ AgentInv(a)
  BY DEF OperationsInv
<1>2. held' = [held EXCEPT ![a] = held[a]]
  BY <1>1 DEF TypeOK
<1>3. MayAnswer(a, r, held[a])
  BY <1>1 DEF MayAnswer, TypeOK, AgentInv, ChoiceInv, RemovalInv, Successes, Failures
<1> QED
  BY <1>2, <1>3, TaskAnswers

LEMMA FetchKeeps ==
  ASSUME OperationsInv, NEW a \in Agents, Fetch(a)
  PROVE  OperationsInv'
<1>1. TypeOK /\ AgentInv(a)
  BY DEF OperationsInv
<1>2. PICK fetched \in Fetched(registry) :
        LET entry == IF fetched = Offline THEN Offline ELSE fetched[a]
        IN  CASE op = "uninstall" -> Goes(a, "uncache", entry)
              [] op # "uninstall" /\ entry = Offline -> Returns(a, "offline")
              [] op # "uninstall" /\ entry = None -> Returns(a, "unknown")
              [] OTHER -> Goes(a, "select", entry)
  BY DEF Fetch
<1> DEFINE entry == IF fetched = Offline THEN Offline ELSE fetched[a]
<1>3. entry \in {Offline, registry[a]}
  BY <1>2 DEF Fetched
<1>4. Working(a) /\ UNCHANGED held /\ Rest
  BY DEF Fetch, Working
<1> HIDE DEF entry
<1>5. CASE Goes(a, "uncache", entry) /\ op = "uninstall"
  <2>1. MayGo(a, "uncache", entry)
    BY <1>5 DEF MayGo
  <2> QED
    BY <1>4, <1>5, <2>1, TaskGoesOn, RestIsWorld
<1>6. CASE Returns(a, "offline") \/ Returns(a, "unknown")
  BY <1>4, <1>6, GivesUp DEF Failures
<1>7. CASE Goes(a, "select", entry) /\ op # "uninstall" /\ entry \notin {Offline, None}
  <2>1. entry = registry[a] /\ entry \in SUBSET Distributions
    BY <1>1, <1>3, <1>7 DEF TypeOK, Payloads
  <2>2. MayGo(a, "select", entry)
    BY <1>7, <2>1 DEF MayGo
  <2> QED
    BY <1>4, <1>7, <2>2, TaskGoesOn, RestIsWorld
<1> QED
  BY <1>2, <1>5, <1>6, <1>7 DEF entry

LEMMA SelectKeeps ==
  ASSUME OperationsInv, NEW a \in Agents, Select(a)
  PROVE  OperationsInv'
<1>1. TypeOK /\ AgentInv(a)
  BY DEF OperationsInv
<1>2. /\ op # "uninstall" /\ local[a] \in SUBSET Distributions
      /\ ~drift => local[a] = registry[a]
  BY <1>1 DEF AgentInv, TaskInv, ChoiceInv, Select
<1>3. Working(a) /\ UNCHANGED held /\ Rest
  BY DEF Select, Working
<1>4. CASE ForPlatform(local[a])
  <2>1. Goes(a, "cache", None)
    BY <1>4 DEF Select
  <2>2. MayGo(a, "cache", None)
    BY <1>2, <1>4 DEF MayGo, Resolve
  <2> QED
    BY <1>3, <2>1, <2>2, TaskGoesOn, RestIsWorld
<1>5. CASE ~ForPlatform(local[a]) /\ "npx" \in local[a]
  <2> DEFINE found == <<NpmRunner(path), "install">>
  <2>1. Goes(a, "run", found)
    BY <1>5 DEF Select, InstallNpx, Calls, NpmRunner
  <2>2. NpmRunner(path) \in Programs /\ (~drift => NpmRunner(path) = Resolve(registry[a], path))
    BY <1>2, <1>5 DEF Resolve, NpmRunner, Programs
  <2>3. MayGo(a, "run", found)
    BY <1>2, <2>2 DEF MayGo
  <2> QED
    BY <1>3, <2>1, <2>3, TaskGoesOn, RestIsWorld
<1>6. CASE ~ForPlatform(local[a]) /\ "npx" \notin local[a] /\ "uvx" \in local[a]
  <2>1. Goes(a, "run", <<"uv", "install">>)
    BY <1>6 DEF Select, InstallUvx, Calls
  <2>2. local[a] \cap {"npx", "uvx"} = {"uvx"}
    BY <1>6
  <2>3. ~drift => "uv" = Resolve(registry[a], path)
    BY <1>2, <1>6, <2>2 DEF Resolve
  <2>4. MayGo(a, "run", <<"uv", "install">>)
    BY <1>2, <2>3 DEF MayGo, Programs
  <2> QED
    BY <1>3, <2>1, <2>4, TaskGoesOn, RestIsWorld
<1>7. CASE ~ForPlatform(local[a]) /\ local[a] \cap {"npx", "uvx"} = {}
  <2>1. Returns(a, "no distribution")
    BY <1>7 DEF Select
  <2> QED
    BY <1>3, <2>1, GivesUp DEF Failures
<1> QED
  BY <1>4, <1>5, <1>6, <1>7

LEMMA CacheBinaryKeeps ==
  ASSUME OperationsInv, NEW a \in Agents, CacheBinary(a)
  PROVE  OperationsInv'
<1>1. TypeOK /\ AgentInv(a)
  BY DEF OperationsInv
<1>2. Working(a) /\ Rest /\ op # "uninstall"
  BY <1>1 DEF CacheBinary, Working, AgentInv, TaskInv
<1>3. CASE Returns(a, "failed") /\ UNCHANGED held
  BY <1>2, <1>3, GivesUp DEF Failures
<1>4. CASE /\ held' = [held EXCEPT ![a] = held[a] \cup {"cache"}]
           /\ Returns(a, "cache") \/ Returns(a, "failed")
  <2> DEFINE h == held[a] \cup {"cache"}
  <2>1. ~drift => h = {Resolve(registry[a], path)}
    BY <1>1 DEF AgentInv, ChoiceInv, CacheBinary
  <2>2. h \subseteq Successes /\ ("npm" \in h => "npm" \in path)
    BY <1>1 DEF TypeOK, AgentInv, RemovalInv, Successes
  <2> HIDE DEF h
  <2>3. MayAnswer(a, "cache", h) /\ MayAnswer(a, "failed", h)
    BY <1>2, <2>1, <2>2 DEF MayAnswer, Successes, Failures
  <2> QED
    BY <1>2, <1>4, <2>3, TaskAnswers DEF h
<1> QED
  BY <1>3, <1>4 DEF CacheBinary

LEMMA RunCommandKeeps ==
  ASSUME OperationsInv, NEW a \in Agents, RunCommand(a)
  PROVE  OperationsInv'
<1>1. TypeOK /\ AgentInv(a)
  BY DEF OperationsInv
<1>2. Working(a) /\ Rest
  BY DEF RunCommand, Working
<1>3. PICK program \in Programs :
        local[a] = <<program, IF op = "uninstall" THEN "uninstall" ELSE "install">>
  BY <1>1 DEF RunCommand, AgentInv, TaskInv
<1> DEFINE verb == IF op = "uninstall" THEN "uninstall" ELSE "install"
           h == Changed(a, program, verb)
<1>4. CASE ProgramFails(a, program, verb) /\ UNCHANGED held
  BY <1>2, <1>4, GivesUp DEF ProgramFails, Failures
<1>5. local[a][1] = program /\ local[a][2] = verb
  BY <1>3
<1>6. ASSUME program \in path
      PROVE  /\ h \subseteq Successes /\ ("npm" \in h => "npm" \in path)
             /\ ~drift /\ h # {} => h = {Resolve(registry[a], path)}
  <2>1. h \subseteq Successes /\ ("npm" \in h => "npm" \in path)
    BY <1>1, <1>6 DEF TypeOK, AgentInv, RemovalInv, Successes, Programs, Changed
  <2>2. ~drift /\ h # {} => h = {Resolve(registry[a], path)}
    BY <1>1, <1>5 DEF AgentInv, ChoiceInv, RunCommand, Changed
  <2> QED
    BY <2>1, <2>2
<1>7. CASE RunsProgram(a, program, verb)
  <2>1. /\ program \in path /\ Returns(a, program) /\ held' = [held EXCEPT ![a] = h]
        /\ verb = "uninstall" /\ program # "npm" => program \in held[a]
    BY <1>7 DEF RunsProgram
  <2>2. op = "uninstall" =>
          /\ program \in held[a] \ h
          /\ program \in {"npm", "deno"} /\ a \notin misread' => h \cap {"npm", "deno"} = {}
    BY <1>1, <1>2, <1>5, <2>1 DEF AgentInv, RemovalInv, RunCommand, Changed, Rest
  <2> HIDE DEF h
  <2>3. MayAnswer(a, program, h)
    BY <1>6, <2>1, <2>2 DEF MayAnswer, Successes, Failures, Programs
  <2> QED
    BY <1>2, <2>1, <2>3, TaskAnswers
<1>8. CASE ProgramFails(a, program, verb) /\ ~UNCHANGED held
  <2>1. program \in path /\ Returns(a, "program failed") /\ held' = [held EXCEPT ![a] = h]
    BY <1>8 DEF ProgramFails
  <2> HIDE DEF h
  <2>2. MayAnswer(a, "program failed", h)
    BY <1>6, <2>1 DEF MayAnswer, Successes, Failures
  <2> QED
    BY <1>2, <2>1, <2>2, TaskAnswers
<1> QED
  BY <1>4, <1>5, <1>7, <1>8 DEF RunCommand

LEMMA UncacheKeeps ==
  ASSUME OperationsInv, NEW a \in Agents, Uncache(a)
  PROVE  OperationsInv'
<1>1. TypeOK /\ AgentInv(a)
  BY DEF OperationsInv
<1>2. Working(a) /\ Rest /\ op = "uninstall"
  BY <1>1 DEF Uncache, Working, AgentInv, TaskInv
<1> DEFINE h == held[a] \ {"cache"}
<1>3. /\ h \subseteq Successes /\ held[a] \subseteq Successes
      /\ "npm" \in held[a] => "npm" \in path
      /\ ~drift /\ held[a] # {} => held[a] = {Resolve(registry[a], path)}
  BY <1>1 DEF TypeOK, AgentInv, ChoiceInv, RemovalInv
<1>4. CASE "cache" \in held[a]
  <2>1. MayAnswer(a, "cache", h)
    BY <1>3, <1>4 DEF MayAnswer, Successes, Failures
  <2>2. MayAnswer(a, "cache failed", h) /\ MayAnswer(a, "cache failed", held[a])
    BY <1>3, <1>4 DEF MayAnswer, Successes, Failures
  <2>3. \/ Returns(a, "cache") /\ held' = [held EXCEPT ![a] = h]
        \/ /\ Returns(a, "cache failed")
           /\ held' = [held EXCEPT ![a] = h] \/ held' = [held EXCEPT ![a] = held[a]]
    BY <1>4 DEF Uncache, RemovalFails
  <2> QED
    BY <1>2, <2>1, <2>2, <2>3, TaskAnswers
<1>5. CASE "cache" \notin held[a]
  <2>1. UNCHANGED held
    <3>1. held[a] \ {"cache"} = held[a]
      BY <1>5
    <3> QED
      BY <1>1, <1>5, <3>1 DEF Uncache, RemovalFails, TypeOK
  <2>2. Returns(a, "offline") \/ Goes(a, "inspect", local[a])
    BY <1>5 DEF Uncache, RemovalFails
  <2>3. MayGo(a, "inspect", local[a])
    BY <1>2 DEF MayGo
  <2> QED
    BY <1>2, <2>1, <2>2, <2>3, RestIsWorld, TaskGoesOn, GivesUp DEF Failures
<1> QED
  BY <1>4, <1>5

LEMMA InspectKeeps ==
  ASSUME OperationsInv, NEW a \in Agents, Inspect(a)
  PROVE  OperationsInv'
<1>1. TypeOK /\ AgentInv(a)
  BY DEF OperationsInv
<1>2. Working(a) /\ World /\ op = "uninstall" /\ UNCHANGED held
  BY <1>1 DEF Inspect, Working, AgentInv, TaskInv
<1>3. \/ AsksNpm(a)
      \/ Goes(a, "run", <<"uv", "uninstall">>) /\ Rest
      \/ (Returns(a, "failed") \/ Returns(a, "unknown")) /\ Rest
  BY <1>2 DEF Inspect, UninstallUvx, Calls, Rest
<1>4. NpmHas(a) \in BOOLEAN /\ (NpmHas(a) <=> "npm" \in held[a])
  BY <1>1 DEF AgentInv, RemovalInv, NpmHas
<1>5. CASE Goes(a, "inspect deno", NpmHas(a)) /\ UNCHANGED misread
  <2>1. MayGo(a, "inspect deno", NpmHas(a))
    BY <1>2, <1>4 DEF MayGo
  <2> QED
    BY <1>2, <1>5, <2>1, TaskGoesOn DEF Misread
<1>6. CASE /\ Goes(a, "inspect deno", FALSE)
           /\ misread' = IF NpmHas(a) THEN misread \cup {a} ELSE misread
  <2>1. Misread(a) /\ (a \notin misread' => "npm" \notin held[a])
    BY <1>4, <1>6 DEF Misread
  <2>2. MayGo(a, "inspect deno", FALSE)
    BY <1>2, <2>1 DEF MayGo
  <2> QED
    BY <1>2, <1>6, <2>1, <2>2, TaskGoesOn
<1>7. CASE Goes(a, "run", <<"uv", "uninstall">>) /\ Rest
  <2>1. MayGo(a, "run", <<"uv", "uninstall">>)
    BY <1>2 DEF MayGo, Programs
  <2> QED
    BY <1>2, <1>7, <2>1, RestIsWorld, TaskGoesOn
<1>8. CASE (Returns(a, "failed") \/ Returns(a, "unknown")) /\ Rest
  BY <1>2, <1>8, GivesUp DEF Failures
<1> QED
  BY <1>2, <1>3, <1>5, <1>6, <1>7, <1>8 DEF AsksNpm, Rest

LEMMA InspectDenoKeeps ==
  ASSUME OperationsInv, NEW a \in Agents, InspectDeno(a)
  PROVE  OperationsInv'
<1>1. TypeOK /\ AgentInv(a)
  BY DEF OperationsInv
<1>2. Working(a) /\ Rest /\ op = "uninstall" /\ UNCHANGED held
  BY <1>1 DEF InspectDeno, Working, AgentInv, TaskInv
<1>3. /\ local[a] \in BOOLEAN /\ (local[a] => "npm" \in held[a])
      /\ a \notin misread' /\ "npm" \in held[a] => local[a]
  BY <1>1, <1>2 DEF InspectDeno, AgentInv, RemovalInv, Rest
<1>4. \/ Returns(a, "failed") \/ Returns(a, "both")
      \/ /\ "npm" \in held[a] /\ "deno" \notin held[a]
         /\ Goes(a, "run", <<"npm", "uninstall">>)
      \/ /\ "deno" \in held[a] /\ (a \notin misread' => "npm" \notin held[a])
         /\ Goes(a, "run", <<"deno", "uninstall">>)
  BY <1>3 DEF InspectDeno, DenoHas, Calls
<1>5. "npm" \in held[a] /\ "deno" \notin held[a] => MayGo(a, "run", <<"npm", "uninstall">>)
  BY <1>2 DEF MayGo, Programs
<1>6. "deno" \in held[a] /\ (a \notin misread' => "npm" \notin held[a]) =>
        MayGo(a, "run", <<"deno", "uninstall">>)
  BY <1>2 DEF MayGo, Programs
<1> QED
  BY <1>2, <1>4, <1>5, <1>6, RestIsWorld, TaskGoesOn, GivesUp DEF Failures

(***************************************************************************)
(* Filtered sequences                                                      *)
(***************************************************************************)

\* The places of a sequence are ranked one after the other, and no rank is left out.
LEMMA RankCounts ==
  ASSUME NEW n \in Nat, NEW places \in SUBSET (1..n)
  PROVE  /\ Cardinality(places) \in Nat
         /\ \A i, j \in places : i < j => Rank(places, i) < Rank(places, j)
         /\ \A k \in 1..Cardinality(places) : \E i \in places : Rank(places, i) = k
<1> DEFINE Below(i) == {j \in places : j <= i}
           rank == [i \in places |-> Rank(places, i)]
           c == Cardinality(places)
<1>1. IsFiniteSet(places) /\ c \in Nat /\ places \subseteq Int
  <2>1. IsFiniteSet(1..n)
    BY FS_Interval
  <2>2. IsFiniteSet(places)
    BY <2>1, FS_Subset
  <2>3. places \subseteq Int
    OBVIOUS
  <2> QED
    BY <2>2, <2>3, FS_CardinalityType
<1>2. ASSUME NEW i \in places
      PROVE  /\ IsFiniteSet(Below(i)) /\ Rank(places, i) \in 1..c
             /\ Rank(places, i) = Cardinality(Below(i))
  <2>1. Below(i) \in SUBSET places /\ i \in Below(i)
    OBVIOUS
  <2>2. IsFiniteSet(Below(i)) /\ Cardinality(Below(i)) <= c
    BY <1>1, <2>1, FS_Subset
  <2>3. Cardinality(Below(i)) \in Nat /\ Cardinality(Below(i)) # 0
    BY <2>1, <2>2, FS_CardinalityType, FS_EmptySet
  <2> QED
    BY <1>1, <2>2, <2>3 DEF Rank
<1>3. ASSUME NEW i \in places, NEW j \in places, i < j
      PROVE  Rank(places, i) < Rank(places, j)
  <2>1. Below(i) \in SUBSET Below(j) /\ j \in Below(j) /\ j \notin Below(i)
    <3>1. i \in Int /\ j \in Int
      BY <1>1
    <3>2. \A k \in places : k <= i => k <= j
      BY <1>1, <1>3, <3>1
    <3>3. ~ (j <= i)
      BY <1>3, <3>1
    <3>4. j <= j
      BY <3>1
    <3>5. Below(i) \subseteq Below(j)
      BY <3>2
    <3>6. j \in Below(j) /\ j \notin Below(i)
      BY <3>3, <3>4
    <3> QED
      BY <3>5, <3>6
  <2>2. /\ Cardinality(Below(i)) <= Cardinality(Below(j))
        /\ Cardinality(Below(j)) = Cardinality(Below(i)) => Below(j) = Below(i)
    BY <1>2, <2>1, FS_Subset
  <2> HIDE DEF Below
  <2> QED
    BY <1>2, <2>1, <2>2
<1>4. rank \in Injection(places, 1..c)
  <2>1. rank \in [places -> 1..c]
    BY <1>2
  <2>2. ASSUME NEW i \in places, NEW j \in places, rank[i] = rank[j] PROVE i = j
    <3>1. Rank(places, i) = Rank(places, j)
      BY <2>2
    <3>2. Rank(places, i) \in 1..c /\ Rank(places, j) \in 1..c
      BY <1>2
    <3>3. ~ (i < j) /\ ~ (j < i)
      BY <1>3, <3>1, <3>2
    <3> QED
      BY <1>1, <3>3
  <2> QED
    BY <2>1, <2>2 DEF Injection, IsInjective
<1>5. rank \in Surjection(places, 1..c)
  <2>1. IsFiniteSet(1..c) /\ Cardinality(1..c) = c
    BY <1>1, FS_Interval
  <2> QED
    BY <1>4, <2>1, FS_Injection
<1>6. \A k \in 1..c : \E i \in places : rank[i] = k
  BY <1>5 DEF Surjection
<1> QED
  BY <1>1, <1>3, <1>6

\* A filtered sequence has the members at the given places, all of them, in order.
IsInOrder(s, places) ==
  LET c == Cardinality(places)
  IN  /\ c \in Nat /\ (c = 0 <=> places = {})
      /\ DOMAIN Filter(s, places) = 1..c
      /\ c = 0 <=> Filter(s, places) = <<>>
      /\ \E f \in [1..c -> places] :
           /\ \A k \in 1..c : Filter(s, places)[k] = s[f[k]]
           /\ \A i \in places : \E k \in 1..c : f[k] = i
           /\ \A k, l \in 1..c : k < l => f[k] < f[l]

LEMMA FilterKeepsOrder ==
  ASSUME NEW n \in Nat, NEW s, NEW places \in SUBSET (1..n)
  PROVE  IsInOrder(s, places)
<1> DEFINE c == Cardinality(places)
           f == [k \in 1..c |-> CHOOSE i \in places : Rank(places, i) = k]
<1>1. /\ c \in Nat
      /\ \A i, j \in places : i < j => Rank(places, i) < Rank(places, j)
      /\ \A k \in 1..c : \E i \in places : Rank(places, i) = k
  BY RankCounts
<1>2. IsFiniteSet(places) /\ (c = 0 <=> places = {}) /\ places \subseteq Int
  <2>1. IsFiniteSet(1..n)
    BY FS_Interval
  <2>2. IsFiniteSet(places)
    BY <2>1, FS_Subset
  <2>3. places \subseteq Int
    OBVIOUS
  <2> QED
    BY <2>2, <2>3, FS_EmptySet
<1>3. \A k \in 1..c : f[k] \in places /\ Rank(places, f[k]) = k
  BY <1>1
<1>4. DOMAIN Filter(s, places) = 1..c /\ \A k \in 1..c : Filter(s, places)[k] = s[f[k]]
  BY DEF Filter
<1>5. c = 0 <=> Filter(s, places) = <<>>
  BY <1>1, <1>4
<1>6. f \in [1..c -> places]
  BY <1>3
<1> HIDE DEF f
<1>7. \A k, l \in 1..c : k < l => f[k] < f[l]
  <2> SUFFICES ASSUME NEW k \in 1..c, NEW l \in 1..c, k < l PROVE f[k] < f[l]
    OBVIOUS
  <2>1. f[k] \in 1..n /\ f[l] \in 1..n
    BY <1>3
  <2>2. f[k] # f[l] /\ ~ (f[l] < f[k])
    <3>1. Rank(places, f[k]) = k /\ Rank(places, f[l]) = l
      BY <1>3
    <3>2. f[k] \in places /\ f[l] \in places
      BY <1>3
    <3>3. ~ (l < k) /\ k # l
      OBVIOUS
    <3> QED
      BY <1>1, <3>1, <3>2, <3>3
  <2> QED
    BY <2>1, <2>2
<1>8. \A i \in places : \E k \in 1..c : f[k] = i
  <2> SUFFICES ASSUME NEW i \in places PROVE \E k \in 1..c : f[k] = i
    OBVIOUS
  <2>1. Rank(places, i) \in 1..c
    <3>1. IsFiniteSet({j \in places : j <= i}) /\ Rank(places, i) <= c
      BY <1>2, FS_Subset DEF Rank
    <3>2. Rank(places, i) \in Nat /\ Rank(places, i) # 0
      BY <3>1, FS_CardinalityType, FS_EmptySet DEF Rank
    <3> QED
      BY <1>1, <3>1, <3>2
  <2>2. f[Rank(places, i)] \in places
        /\ Rank(places, f[Rank(places, i)]) = Rank(places, i)
    BY <1>3, <2>1
  <2>3. f[Rank(places, i)] = i
    <3>1. ~ (f[Rank(places, i)] < i) /\ ~ (i < f[Rank(places, i)])
      <4> DEFINE j == f[Rank(places, i)]
      <4>1. j \in places /\ Rank(places, j) = Rank(places, i)
        BY <2>2
      <4> HIDE DEF j
      <4>2. j < i => Rank(places, j) < Rank(places, i)
        BY <1>1, <4>1
      <4>3. i < j => Rank(places, i) < Rank(places, j)
        BY <1>1, <4>1
      <4>4. Rank(places, i) \in Int
        BY <2>1
      <4> QED
        BY <4>1, <4>2, <4>3, <4>4 DEF j
    <3>2. i \in Int /\ f[Rank(places, i)] \in Int
      BY <1>2, <2>2
    <3> QED
      BY <3>1, <3>2
  <2> QED
    BY <2>1, <2>3
<1> QED
  BY <1>1, <1>2, <1>4, <1>5, <1>6, <1>7, <1>8 DEF IsInOrder

\* The ids without repetition: all of them, each where it was requested first.
LEMMA FirstsInOrder ==
  ASSUME ids \in Seq(Agents)
  PROVE  \E c \in Nat :
           /\ DOMAIN Distinct(ids) = 1..c
           /\ \A k \in 1..c : Distinct(ids)[k] \in Range(ids)
           /\ \A a \in Range(ids) : \E k \in 1..c : Distinct(ids)[k] = a
           /\ \A k, l \in 1..c :
                k < l => Position(Distinct(ids)[k]) < Position(Distinct(ids)[l])
<1> DEFINE n == Len(ids)
           firsts == {i \in DOMAIN ids : \A j \in 1..(i - 1) : ids[j] # ids[i]}
           c == Cardinality(firsts)
<1>1. n \in Nat /\ DOMAIN ids = 1..n
  BY LenProperties
<1>2. firsts \in SUBSET (1..n)
  BY <1>1
<1>3. ASSUME NEW i \in firsts PROVE Position(ids[i]) = i
  <2>1. i \in 1..n /\ \A j \in 1..(i - 1) : ids[j] # ids[i]
    BY <1>2
  <2>2. ASSUME NEW k \in DOMAIN ids, ids[k] = ids[i], \A j \in 1..(k - 1) : ids[j] # ids[i]
        PROVE  k = i
    <3>1. k \in 1..n
      BY <1>1
    <3>2. ~ (k < i) /\ ~ (i < k)
      BY <2>1, <2>2, <3>1
    <3> QED
      BY <2>1, <3>1, <3>2
  <2> HIDE DEF firsts
  <2> QED
    BY <1>1, <2>1, <2>2 DEF Position
<1>4. ASSUME NEW a \in Range(ids) PROVE \E i \in firsts : ids[i] = a
  <2> DEFINE T == {i \in DOMAIN ids : ids[i] = a}
  <2>1. T \subseteq Nat /\ T # {}
    BY <1>1 DEF Range
  <2>2. \E i \in T : \A j \in T : <<j, i>> \notin OpToRel(<, Nat)
    BY <2>1, NatLessThanWellFounded, WFMin
  <2>3. PICK i \in T : \A j \in T : ~ (j < i)
    BY <2>1, <2>2 DEF OpToRel
  <2>4. \A j \in 1..(i - 1) : j \in 1..n /\ j < i
    BY <1>1, <2>1, <2>3
  <2>5. \A j \in 1..(i - 1) : ids[j] # ids[i]
    BY <1>1, <2>3, <2>4
  <2> QED
    BY <2>3, <2>5
<1> HIDE DEF firsts
<1>0. IsInOrder(ids, firsts)
  BY <1>1, <1>2, FilterKeepsOrder
<1>5. PICK f \in [1..c -> firsts] :
        /\ \A k \in 1..c : Filter(ids, firsts)[k] = ids[f[k]]
        /\ \A i \in firsts : \E k \in 1..c : f[k] = i
        /\ \A k, l \in 1..c : k < l => f[k] < f[l]
  BY <1>0 DEF IsInOrder
<1>6. Distinct(ids) = Filter(ids, firsts)
  BY DEF Distinct, firsts
<1>7. c \in Nat /\ DOMAIN Filter(ids, firsts) = 1..c
  BY <1>0 DEF IsInOrder
<1>8. \A k \in 1..c : f[k] \in firsts /\ f[k] \in DOMAIN ids
  BY <1>1, <1>2, <1>5
<1>9. \A k \in 1..c : Distinct(ids)[k] \in Range(ids)
  BY <1>5, <1>6, <1>8 DEF Range
<1>10. \A a \in Range(ids) : \E k \in 1..c : Distinct(ids)[k] = a
  BY <1>4, <1>5, <1>6
<1>11. \A k, l \in 1..c :
         k < l => Position(Distinct(ids)[k]) < Position(Distinct(ids)[l])
  BY <1>3, <1>5, <1>6, <1>8
<1> QED
  BY <1>6, <1>7, <1>9, <1>10, <1>11

LEMMA ReportKeeps ==
  ASSUME OperationsInv, Report
  PROVE  OperationsInv'
<1> USE DEF OperationsInv
<1> DEFINE order == Distinct(ids)
           places == {i \in DOMAIN order : result[order[i]] \in Failures}
           failed == Filter(order, places)
           shown == IF failed = <<>> THEN order ELSE failed
<1>1. /\ TypeOK /\ (\A a \in Range(ids) : step[a] = "settled")
      /\ UNCHANGED <<path, registry, held, releases, drift, ids, step, local, result,
                     operations, before, misread>>
      /\ op # None /\ op' = None
      /\ code' = IF failed = <<>> THEN 0 ELSE 1
      /\ lines' = [i \in DOMAIN shown |-> <<shown[i], result[shown[i]]>>]
  BY DEF Report, Reported
<1>2. ASSUME NEW a \in Agents PROVE AgentInv(a)'
  <2>1. AgentInv(a) /\ step'[a] \in {"none", "settled"}
    BY <1>1 DEF AgentInv, TaskInv, TypeOK, Steps
  <2>2. TaskInv(a)' /\ ChoiceInv(a)' /\ RemovalInv(a)'
    BY <1>1, <2>1, NoneAssumption DEF AgentInv, TaskInv, ChoiceInv, RemovalInv, Ops
  <2> QED
    BY <2>2 DEF AgentInv
<1>3. TypeOK' /\ ReportInv'
  BY <1>1 DEF TypeOK, ReportInv
<1>4. \A a \in Range(ids) : a \in Agents /\ result[a] \in Successes \cup Failures
  <2>1. Range(ids) \subseteq Agents
    BY <1>1, LenProperties, ElementOfSeq DEF TypeOK, Range
  <2> QED
    BY <1>1, <2>1 DEF TypeOK, AgentInv, TaskInv
<1> HIDE DEF order, failed, places, shown
<1>5. PICK c \in Nat :
        /\ DOMAIN order = 1..c
        /\ \A k \in 1..c : order[k] \in Range(ids)
        /\ \A a \in Range(ids) : \E k \in 1..c : order[k] = a
        /\ \A k, l \in 1..c : k < l => Position(order[k]) < Position(order[l])
  BY <1>1, FirstsInOrder DEF TypeOK, order
<1>6. places \in SUBSET (1..c)
  BY <1>5 DEF places
<1> DEFINE d == Cardinality(places)
<1>0. IsInOrder(order, places)
  BY <1>6, FilterKeepsOrder
<1>7. /\ d \in Nat /\ (d = 0 <=> places = {}) /\ DOMAIN failed = 1..d
      /\ d = 0 <=> failed = <<>>
  BY <1>0 DEF failed, IsInOrder
<1>8. PICK g \in [1..d -> places] :
        /\ \A k \in 1..d : failed[k] = order[g[k]]
        /\ \A i \in places : \E k \in 1..d : g[k] = i
        /\ \A k, l \in 1..d : k < l => g[k] < g[l]
  BY <1>0 DEF failed, IsInOrder
<1>9. \A i \in 1..c : i \in places <=> result[order[i]] \in Failures
  BY <1>5 DEF places
<1>10. code' = 0 <=> \A a \in Range(ids) : result[a] \in Successes
  <2>1. code' = 0 <=> places = {}
    BY <1>1, <1>7
  <2>2. places = {} <=> \A a \in Range(ids) : result[a] \notin Failures
    BY <1>5, <1>6, <1>9
  <2>3. Successes \cap Failures = {}
    BY DEF Successes, Failures
  <2> QED
    BY <1>4, <2>1, <2>2, <2>3
<1>11. {shown[i] : i \in DOMAIN shown} = {a \in Range(ids) : code' = 0 \/ result[a] \in Failures}
  <2>1. CASE failed = <<>>
    BY <1>1, <1>5, <2>1 DEF shown
  <2>2. CASE failed # <<>>
    <3>1. \A i \in 1..d : g[i] \in places /\ g[i] \in 1..c
      BY <1>6, <1>8
    <3>2. \A i \in 1..d : failed[i] \in Range(ids) /\ result[failed[i]] \in Failures
      BY <1>5, <1>8, <1>9, <3>1
    <3>3. \A a \in Range(ids) : result[a] \in Failures => \E i \in 1..d : failed[i] = a
      BY <1>5, <1>8, <1>9
    <3>4. shown = failed /\ code' = 1 /\ DOMAIN failed = 1..d
      BY <1>1, <1>7, <2>2 DEF shown
    <3>5. {failed[i] : i \in 1..d} = {a \in Range(ids) : result[a] \in Failures}
      BY <3>2, <3>3
    <3> QED
      BY <3>4, <3>5
  <2> QED
    BY <2>1, <2>2
<1>12. \A i, j \in DOMAIN shown : i < j => Position(shown[i]) < Position(shown[j])
  <2>1. CASE failed = <<>>
    BY <1>5, <2>1 DEF shown
  <2>2. CASE failed # <<>>
    <3> SUFFICES ASSUME NEW i \in 1..d, NEW j \in 1..d, i < j
                 PROVE  Position(failed[i]) < Position(failed[j])
      BY <1>7, <2>2 DEF shown
    <3>1. g[i] \in 1..c /\ g[j] \in 1..c /\ g[i] < g[j]
      BY <1>6, <1>8
    <3> QED
      BY <1>5, <1>8, <3>1
  <2> QED
    BY <2>1, <2>2
<1>13. DOMAIN lines' = DOMAIN shown
       /\ \A i \in DOMAIN shown : lines'[i][1] = shown[i] /\ lines'[i][2] = result[shown[i]]
  BY <1>1
<1>14. \A a : Position(a)' = Position(a)
  BY <1>1 DEF Position
<1>15. ReportIsFaithful'
  <2>1. {lines'[i][1] : i \in DOMAIN lines'} = {shown[i] : i \in DOMAIN shown}
    BY <1>13
  <2>2. \A i \in DOMAIN lines' : lines'[i][2] = result'[lines'[i][1]]
    BY <1>1, <1>13
  <2>3. \A i, j \in DOMAIN lines' :
          i < j => Position(lines[i][1])' < Position(lines[j][1])'
    BY <1>12, <1>13, <1>14
  <2>4. result' = result /\ ids' = ids
    BY <1>1
  <2> QED
    BY <1>10, <1>11, <2>1, <2>2, <2>3, <2>4 DEF ReportIsFaithful
<1> QED
  BY <1>2, <1>3, <1>15

(***************************************************************************)
(* The start of a batch, and what happens beside the batches               *)
(***************************************************************************)

LEMMA StartKeeps ==
  ASSUME OperationsInv, NEW o \in Ops, NEW request \in Requests, Start(o, request)
  PROVE  OperationsInv'
<1> USE DEF OperationsInv
<1>1. /\ TypeOK /\ op = None /\ o # None /\ request \in Seq(Agents)
      /\ op' = o /\ ids' = request /\ code' = None
      /\ UNCHANGED <<path, registry, held, drift>>
  BY OperationsAssumption, NoneAssumption DEF Start
<1>2. \A a \in Agents :
        /\ step'[a] = (IF a \in Range(request) THEN "queued" ELSE "none")
        /\ local'[a] = None /\ result'[a] = None
        /\ before'[a] = (IF o = "uninstall" THEN held[a] ELSE {})
  BY DEF Start
<1>3. TypeOK'
  BY <1>1 DEF TypeOK, Start, Ops, Steps
<1>4. ASSUME NEW a \in Agents PROVE AgentInv(a)'
  <2>1. AgentInv(a)
    OBVIOUS
  <2>2. TaskInv(a)'
    BY <1>1, <1>2 DEF TaskInv
  <2>3. ChoiceInv(a)'
    BY <1>1, <1>2, <2>1 DEF AgentInv, ChoiceInv
  <2>4. None \notin Successes \cup Failures
    BY NoneAssumption
  <2>5. RemovalInv(a)'
    BY <1>1, <1>2, <2>1, <2>4 DEF AgentInv, RemovalInv
  <2> QED
    BY <2>2, <2>3, <2>5 DEF AgentInv
<1>5. ReportInv' /\ ReportIsFaithful'
  BY <1>1 DEF ReportInv, ReportIsFaithful
<1> QED
  BY <1>3, <1>4, <1>5

\* The PATH grows or the registry changes; only what was installed before is adrift.
LEMMA WorldMoves ==
  ASSUME OperationsInv, registry' \in Payloads, path \subseteq path', drift' \in BOOLEAN,
         ~drift' => ~drift /\ (Untouched \/ UNCHANGED <<path, registry>>),
         UNCHANGED <<held, op, ids, step, local, result, code, lines, before, misread>>
  PROVE  OperationsInv'
<1> USE DEF OperationsInv
<1>1. TypeOK' /\ ReportInv' /\ ReportIsFaithful'
  BY DEF TypeOK, ReportInv, ReportIsFaithful, Position
<1>2. ASSUME NEW a \in Agents PROVE AgentInv(a)'
  <2>1. AgentInv(a)
    OBVIOUS
  <2>2. TaskInv(a)'
    BY <2>1 DEF AgentInv, TaskInv
  <2>3. ChoiceInv(a)'
    <3>1. CASE UNCHANGED <<path, registry>>
      BY <2>1, <3>1 DEF AgentInv, ChoiceInv
    <3>2. CASE Untouched
      BY <2>1, <3>2 DEF Untouched, AgentInv, TaskInv, ChoiceInv
    <3> QED
      BY <3>1, <3>2 DEF ChoiceInv
  <2>4. RemovalInv(a)'
    BY <2>1 DEF AgentInv, RemovalInv
  <2> QED
    BY <2>2, <2>3, <2>4 DEF AgentInv
<1> QED
  BY <1>1, <1>2

LEMMA PublishKeeps ==
  ASSUME OperationsInv, NEW a \in Agents, Publish(a)
  PROVE  OperationsInv'
<1>1. TypeOK
  BY DEF OperationsInv
<1>2. registry' \in Payloads
  BY <1>1, OperationsAssumption DEF Publish, TypeOK, Payloads
<1>3. drift' = (drift \/ ~Untouched) /\ drift' \in BOOLEAN
  BY DEF Publish
<1> QED
  BY <1>2, <1>3, WorldMoves DEF Publish, batchVars

LEMMA RunKeeps ==
  ASSUME OperationsInv, NEW a \in Agents, Run(a)
  PROVE  OperationsInv'
<1> USE DEF OperationsInv
<1>1. /\ TypeOK /\ op = None /\ Resolve(registry[a], path) = "cache"
      /\ held'[a] = held[a] \cup {"cache"} /\ \A b \in Agents \ {a} : held'[b] = held[b]
      /\ UNCHANGED <<path, registry, drift, op, ids, step, local, result, code, lines, before,
                     misread>>
  BY DEF Run, Fetched, TypeOK
<1>2. TypeOK'
  BY <1>1 DEF TypeOK, Run, Successes
<1>3. ReportInv' /\ ReportIsFaithful'
  BY <1>1 DEF ReportInv, ReportIsFaithful, Position
<1>4. ASSUME NEW b \in Agents PROVE AgentInv(b)'
  <2>1. AgentInv(b) /\ op # "uninstall"
    BY <1>1, NoneAssumption DEF Ops
  <2>2. held'[b] = held[b] \/ (b = a /\ held'[b] = held[b] \cup {"cache"})
    BY <1>1
  <2>3. TaskInv(b)'
    BY <1>1, <2>1 DEF AgentInv, TaskInv
  <2>4. ChoiceInv(b)'
    BY <1>1, <2>1, <2>2 DEF AgentInv, ChoiceInv
  <2>5. RemovalInv(b)'
    BY <1>1, <2>1, <2>2 DEF AgentInv, RemovalInv
  <2> QED
    BY <2>3, <2>4, <2>5 DEF AgentInv
<1> QED
  BY <1>2, <1>3, <1>4

(***************************************************************************)
(* install-env                                                             *)
(***************************************************************************)

EnvInv == Tools!ToolsInv /\ CompleteIsSufficient

\* What has been found stays found.
LEMMA EnvStays ==
  ASSUME EnvInv, path \subseteq path', UNCHANGED toolVars
  PROVE  EnvInv'
BY DEF EnvInv, CompleteIsSufficient, toolVars, Tools!ToolsInv, Tools!CompleteIsSufficient,
       Tools!Found

LEMMA PlansDiffer ==
  /\ <<"deno">> # <<>> /\ <<"uv">> # <<>> /\ <<"deno", "uv">> # <<>>
  /\ <<"deno">> # <<"uv">> /\ <<"deno", "uv">> # <<"deno">> /\ <<"deno", "uv">> # <<"uv">>
<1>1. /\ Len(<<>>) = 0 /\ Len(<<"deno">>) = 1 /\ Len(<<"uv">>) = 1
      /\ Len(<<"deno", "uv">>) = 2 /\ <<"deno">>[1] = "deno" /\ <<"uv">>[1] = "uv"
  OBVIOUS
<1> QED
  BY <1>1

LEMMA PlansJoin ==
  /\ <<"deno">> \o <<"uv">> = <<"deno", "uv">> /\ <<"deno">> \o <<>> = <<"deno">>
  /\ <<>> \o <<"uv">> = <<"uv">> /\ <<>> \o <<>> = <<>>
<1> DEFINE S == {"deno", "uv"}
<1>1. <<"deno">> \in Seq(S) /\ <<"uv">> \in Seq(S) /\ <<>> \in Seq(S)
  OBVIOUS
<1>2. <<"deno", "uv">> \in Seq(S) /\ Len(<<"deno", "uv">>) = 2
      /\ <<"deno", "uv">>[1] = "deno" /\ <<"deno", "uv">>[2] = "uv"
  OBVIOUS
<1>3. Len(<<"deno">>) = 1 /\ Len(<<"uv">>) = 1 /\ <<"deno">>[1] = "deno" /\ <<"uv">>[1] = "uv"
  OBVIOUS
<1>4. /\ <<"deno">> \o <<>> = <<"deno">> /\ <<>> \o <<"uv">> = <<"uv">> /\ <<>> \o <<>> = <<>>
  BY <1>1, ConcatEmptySeq
<1>5. <<"deno">> \o <<"uv">> = <<"deno", "uv">>
  <2> DEFINE t == <<"deno">> \o <<"uv">>
  <2>1. t \in Seq(S) /\ Len(t) = 2 /\ t[1] = "deno" /\ t[2] = "uv"
    BY <1>1, <1>3, ConcatProperties
  <2>2. \A i \in 1..2 : i = 1 \/ i = 2
    OBVIOUS
  <2> HIDE DEF t, S
  <2>3. t = <<"deno", "uv">>
    BY <1>2, <2>1, <2>2, SeqEqual
  <2> QED
    BY <2>3 DEF t
<1> QED
  BY <1>4, <1>5

LEMMA PlansAreShort ==
  /\ Head(<<"deno">>) = "deno" /\ Head(<<"uv">>) = "uv" /\ Head(<<"deno", "uv">>) = "deno"
  /\ Tail(<<"deno">>) = <<>> /\ Tail(<<"uv">>) = <<>> /\ Tail(<<"deno", "uv">>) = <<"uv">>
OBVIOUS

LEMMA InstallEnvKeeps ==
  ASSUME EnvInv, Tools!InstallEnv
  PROVE  EnvInv'
<1> USE DEF EnvInv, CompleteIsSufficient, Tools!ToolsInv, Tools!CompleteIsSufficient,
            Tools!Found
<1>1. CASE Tools!Detect
  <2>1. path' = path /\ dirs' = dirs
    BY <1>1 DEF Tools!Detect
  <2>2. CASE Tools!Plan(path) = <<>>
    BY <1>1, <2>1, <2>2 DEF Tools!Detect, Tools!Ends
  <2>3. CASE Tools!Plan(path) # <<>>
    <3>1. env' = "confirm" /\ targets' = Tools!Plan(path) /\ outcome' = "none"
      BY <1>1, <2>3 DEF Tools!Detect
    <3>2. /\ Tools!Plan(path) \in {<<>>, <<"deno">>, <<"uv">>, <<"deno", "uv">>}
          /\ Tools!Plan(path) \in {<<>>, <<"deno">>} => "uv" \in path
          /\ Tools!Plan(path) \in {<<>>, <<"uv">>} => "npm" \in path \/ "deno" \in path
      <4> DEFINE js == path \cap {"npm", "deno"} = {}
                 py == "uv" \notin path
      <4>1. /\ js /\ py => Tools!Plan(path) = <<"deno">> \o <<"uv">>
            /\ js /\ ~py => Tools!Plan(path) = <<"deno">> \o <<>>
            /\ ~js /\ py => Tools!Plan(path) = <<>> \o <<"uv">>
            /\ ~js /\ ~py => Tools!Plan(path) = <<>> \o <<>>
        BY DEF Tools!Plan
      <4>3. (js \/ "npm" \in path \/ "deno" \in path) /\ (py \/ "uv" \in path)
        OBVIOUS
      <4> HIDE DEF js, py
      <4> QED
        BY <4>1, <4>3, PlansDiffer, PlansJoin
    <3> QED
      BY <2>1, <3>1, <3>2, PlansDiffer
  <2> QED
    BY <2>2, <2>3
<1>2. ASSUME NEW yes \in BOOLEAN, Tools!Confirm(yes) PROVE EnvInv'
  BY <1>2 DEF Tools!Confirm, Tools!Goes, Tools!Ends
<1>3. CASE Tools!RunInstaller
  <2>1. path' = path /\ dirs \subseteq dirs' /\ env = "install" /\ targets # <<>>
    BY <1>3 DEF Tools!RunInstaller, Tools!Installs
  <2>2. \/ env' = "idle" /\ targets' = <<>> /\ outcome' = "failed"
        \/ env' = "verify" /\ targets' = targets /\ outcome' = outcome
    BY <1>3 DEF Tools!RunInstaller, Tools!Installs, Tools!Ends, Tools!Goes
  <2> QED
    BY <2>1, <2>2
<1>4. CASE Tools!Verify
  <2>1. path' = path /\ dirs' = dirs /\ env = "verify" /\ targets # <<>>
    BY <1>4 DEF Tools!Verify
  <2>2. CASE env' = "idle" /\ targets' = <<>> /\ outcome' = "failed"
    BY <2>1, <2>2
  <2>3. CASE Tools!Found(Head(targets)) /\ Tools!Verified
    <3>1. env' = "install" /\ targets' = Tail(targets) /\ outcome' = outcome
      BY <2>3 DEF Tools!Verified
    <3>2. \/ targets = <<"deno">> /\ targets' = <<>> /\ Head(targets) = "deno"
          \/ targets = <<"uv">> /\ targets' = <<>> /\ Head(targets) = "uv"
          \/ targets = <<"deno", "uv">> /\ targets' = <<"uv">> /\ Head(targets) = "deno"
      BY <2>1, <3>1, PlansAreShort
    <3> QED
      BY <2>1, <2>3, <3>1, <3>2, PlansDiffer
  <2> QED
    BY <1>4, <2>2, <2>3 DEF Tools!Verify, Tools!Ends
<1>5. CASE Tools!Complete
  BY <1>5 DEF Tools!Complete, Tools!Ends
<1> QED
  BY <1>1, <1>2, <1>3, <1>4, <1>5 DEF Tools!InstallEnv

(***************************************************************************)
(* All steps                                                               *)
(***************************************************************************)

AnyStep ==
  \/ env = "idle" /\ Next /\ UNCHANGED toolVars
  \/ InstallEnv \/ NewShell \/ NewNpm

LEMMA BatchesKeep ==
  ASSUME OperationsInv, Next
  PROVE  OperationsInv' /\ path' = path
<1>1. ASSUME NEW o \in Ops, NEW request \in Requests, Start(o, request)
      PROVE  OperationsInv' /\ path' = path
  BY <1>1, StartKeeps DEF Start
<1>2. ASSUME NEW a \in Agents, Operation(a) PROVE OperationsInv' /\ path' = path
  <2>1. path' = path
    BY <1>2 DEF Operation, Fetch, Select, CacheBinary, RunCommand, Uncache, Inspect,
                InspectDeno, Rest, World
  <2> QED
    BY <1>2, <2>1, FetchKeeps, SelectKeeps, CacheBinaryKeeps, RunCommandKeeps, UncacheKeeps,
       InspectKeeps, InspectDenoKeeps DEF Operation
<1>3. ASSUME NEW a \in Agents, Acquire(a) \/ Panic(a) PROVE OperationsInv' /\ path' = path
  BY <1>3, AcquireKeeps, PanicKeeps DEF Acquire, Panic, Rest, World
<1>4. ASSUME NEW a \in Agents, Run(a) \/ Publish(a) PROVE OperationsInv' /\ path' = path
  BY <1>4, RunKeeps, PublishKeeps DEF Run, Publish
<1>5. CASE Report
  BY <1>5, ReportKeeps DEF Report
<1> QED
  BY <1>1, <1>2, <1>3, <1>4, <1>5 DEF Next, Task

LEMMA EveryStepKeeps ==
  ASSUME OperationsInv, EnvInv, [AnyStep]_allVars
  PROVE  OperationsInv' /\ EnvInv'
<1>1. CASE env = "idle" /\ Next /\ UNCHANGED toolVars
  BY <1>1, BatchesKeep, EnvStays
<1>2. CASE InstallEnv
  <2>1. UNCHANGED vars
    BY <1>2 DEF InstallEnv
  <2>2. drift \in BOOLEAN /\ registry \in Payloads
    BY DEF OperationsInv, TypeOK
  <2> QED
    BY <1>2, <2>1, <2>2, InstallEnvKeeps, WorldMoves DEF vars, batchVars, InstallEnv
<1>3. CASE NewShell \/ NewNpm
  <2>1. /\ path \subseteq path' /\ UNCHANGED <<registry, held, batchVars, toolVars>>
        /\ drift' = (drift \/ (path' # path /\ ~Untouched))
    BY <1>3 DEF NewShell, NewNpm, Moves, Tools!NewShell, Tools!envVars, toolVars
  <2>2. /\ drift' \in BOOLEAN /\ registry' \in Payloads
        /\ ~drift' => ~drift /\ (Untouched \/ UNCHANGED <<path, registry>>)
    BY <2>1 DEF OperationsInv, TypeOK
  <2> QED
    BY <2>1, <2>2, WorldMoves, EnvStays DEF batchVars
<1>4. CASE UNCHANGED allVars
  <2>1. UNCHANGED <<vars, toolVars>>
    BY <1>4 DEF allVars
  <2>2. drift \in BOOLEAN /\ registry \in Payloads
    BY DEF OperationsInv, TypeOK
  <2> QED
    BY <2>1, <2>2, WorldMoves, EnvStays DEF vars, batchVars
<1> QED
  BY <1>1, <1>2, <1>3, <1>4 DEF AnyStep

LEMMA TheFirstState ==
  ASSUME AllInit
  PROVE  OperationsInv /\ EnvInv
<1> USE DEF AllInit, Init
<1>0. <<>> \in Seq(Agents) /\ Range(<<>>) = {}
  BY DEF Range
<1>1. TypeOK
  BY <1>0, OperationsAssumption DEF TypeOK, Steps
<1>2. ReportInv /\ ReportIsFaithful
  BY DEF ReportInv, ReportIsFaithful
<1>3. ASSUME NEW a \in Agents PROVE AgentInv(a)
  <2>1. /\ step[a] = "none" /\ result[a] = None /\ held[a] = {} /\ op # "uninstall"
        /\ a \notin Range(ids)
    BY <1>0, NoneAssumption DEF Ops
  <2>2. result[a] \notin Successes \cup Failures
    BY NoneAssumption
  <2> QED
    BY <2>1, <2>2 DEF AgentInv, TaskInv, ChoiceInv, RemovalInv
<1>4. EnvInv
  BY DEF EnvInv, CompleteIsSufficient, Tools!Init, Tools!ToolsInv, Tools!CompleteIsSufficient
<1> QED
  BY <1>1, <1>2, <1>3, <1>4 DEF OperationsInv

\* What the batches, the installer of the package managers and the world leave
\* true, whatever they do: the invariant behind the theorems below.
THEOREM Invariant == Spec => [](OperationsInv /\ EnvInv)
<1>1. AllInit => OperationsInv /\ EnvInv
  BY TheFirstState
<1>2. OperationsInv /\ EnvInv /\ [AnyStep]_allVars => (OperationsInv /\ EnvInv)'
  BY EveryStepKeeps
<1> QED
  BY <1>1, <1>2, PTL DEF Spec, AnyStep

\* The registry, what is installed, the batch and its tasks have their types
\* (src/src/installer/agents.rs).
THEOREM Types == Spec => []TypeOK
BY Invariant, PTL DEF OperationsInv

\* The report of a batch tells the outcome of each agent, all or only the failed
\* ones, in the order of the first request, however many tasks ran in whichever
\* order, failed or panicked (report_batch_outcome and run_concurrently).
THEOREM ReportsAreFaithful == Spec => []ReportIsFaithful
BY Invariant, PTL DEF OperationsInv

\* An uninstall that fails has removed nothing, unless the removal of the cache
\* itself failed or the task panicked (uninstall_from).
THEOREM FailedUninstallsKeep == Spec => []FailedUninstallKeeps
<1>1. OperationsInv => FailedUninstallKeeps
  BY DEF OperationsInv, AgentInv, RemovalInv, FailedUninstallKeeps
<1> QED
  BY <1>1, Invariant, PTL

\* What is run is what was installed, while the registry and the PATH stay: the
\* installer and the runner choose alike (install_from_registry and
\* resolve_agent_command).
THEOREM TheInstalledRuns == Spec => []RunsWhatIsInstalled
<1>1. OperationsInv => RunsWhatIsInstalled
  BY DEF OperationsInv, AgentInv, ChoiceInv, RunsWhatIsInstalled
<1> QED
  BY <1>1, Invariant, PTL

\* An uninstall that names what it removed did remove it, and leaves no package
\* of the other runner (uninstall_from, plan_npx_uninstall).
THEOREM UninstallsAreReal == Spec => []UninstallIsReal
<1>1. OperationsInv => UninstallIsReal
  BY DEF OperationsInv, AgentInv, RemovalInv, UninstallIsReal
<1> QED
  BY <1>1, Invariant, PTL

\* An install-env that reports success leaves no kind of package without a tool
\* (run_install_environment).
THEOREM CompleteSuffices == Spec => []CompleteIsSufficient
BY Invariant, PTL DEF EnvInv

=================================================================================
