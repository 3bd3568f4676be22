------------------------------ MODULE Installations ------------------------------
(***************************************************************************)
(* The commands that install agents and the command that installs the      *)
(* package managers they need, which meet in the PATH.                     *)
(***************************************************************************)
EXTENDS AgentOperations

CONSTANTS Paths

VARIABLES dirs, env, targets, outcome

Tools == INSTANCE Toolchain

ASSUME PathsAssumption == Paths \subseteq SUBSET (Tools!Managers \cup {"curl"})

toolVars == <<dirs, env, targets, outcome>>
allVars == <<vars, toolVars>>

\* A new PATH: the agents that are installed were installed with another one.
Moves == drift' = (drift \/ (path' # path /\ ~Untouched))

\* A process keeps the PATH it was started with.
NewShell ==
  /\ op = None
  /\ Tools!NewShell /\ Moves
  /\ UNCHANGED <<registry, held, releases, batchVars>>

\* The user installs npm where the PATH leads to.  Bound: not while a batch runs.
NewNpm ==
  /\ op = None
  /\ path' = path \cup {"npm"} /\ path' # path
  /\ Moves
  /\ UNCHANGED <<registry, held, releases, batchVars, toolVars>>

\* Bound: install-env ends once, and does not run beside a batch; what it does
\* meets the batches only in the PATH of the next shell.
InstallEnv ==
  /\ op = None /\ (env = "idle" => outcome \in {"none", "cancelled"})
  /\ Tools!InstallEnv /\ UNCHANGED vars

\* The runtime polls some task or the main future as long as one can go on.  No
\* time limit covers the network (reqwest::get) or the programs that are run, so
\* that nothing is asked of Fetch, CacheBinary, RunCommand and Inspect; and nobody
\* has to answer the question of install-env or to start anything.
Fairness ==
  WF_allVars(/\ op # None /\ UNCHANGED toolVars
             /\ \/ \E a \in Agents : Acquire(a) \/ Select(a) \/ Uncache(a) \/ InspectDeno(a)
                \/ Report)

AllInit == Init /\ Tools!Init

Spec ==
  /\ AllInit
  /\ [][\/ env = "idle" /\ Next /\ UNCHANGED toolVars
       \/ InstallEnv \/ NewShell \/ NewNpm]_allVars
  /\ Fairness

\* An install-env that says it is complete has put a tool for every kind of
\* package where the next shell finds it.
CompleteIsSufficient == Tools!CompleteIsSufficient
================================================================================
