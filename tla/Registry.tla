--------------------------------- MODULE Registry ---------------------------------
(***************************************************************************)
(* The agent registry (src/src/registry.rs) and what it makes of an agent  *)
(* that is to be run (src/src/runner.rs).  An agent's entry is the set of  *)
(* its distributions, where "elsewhere" stands for binaries none of which  *)
(* is for this platform; a registry maps every id to the first entry that  *)
(* has it, or to None.  Platform::current is taken to know the platform.   *)
(***************************************************************************)
CONSTANTS
  Agents,        \* the agent ids
  None, Offline

Distributions == {"binary", "elsewhere", "npx", "uvx"}

Payloads == [Agents -> (SUBSET Distributions) \cup {None}]

HasDistributionSource(entry) == entry # {}

\* One entry without a distribution makes the whole payload an error.
Validates(payload) == \A a \in Agents : payload[a] # None => HasDistributionSource(payload[a])

\* What fetch_registry may return for what is published.
Fetched(payload) == {Offline} \cup (IF Validates(payload) THEN {payload} ELSE {})

ForPlatform(entry) == "binary" \in entry

NpmRunner(path) == IF "npm" \in path THEN "npm" ELSE "deno"

\* resolve_agent_command: where the program that is started comes from.  A binary
\* is put into the cache first.
Mut_Resolve(entry, path) ==
  CASE "npx" \in entry -> NpmRunner(path)
    [] ForPlatform(entry) /\ "npx" \notin entry -> "cache"
    [] ~ForPlatform(entry) /\ entry \cap {"npx", "uvx"} = {"uvx"} -> "uv"
    [] OTHER -> None

Resolve(entry, path) ==
  CASE ForPlatform(entry) -> "cache"
    [] ~ForPlatform(entry) /\ "npx" \in entry -> NpmRunner(path)
    [] ~ForPlatform(entry) /\ entry \cap {"npx", "uvx"} = {"uvx"} -> "uv"
    [] OTHER -> None

================================================================================
