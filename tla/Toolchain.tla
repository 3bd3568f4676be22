--------------------------------- MODULE Toolchain ---------------------------------
(***************************************************************************)
(* `install-env` (src/src/installer/environment.rs and                     *)
(* src/src/commands/environment.rs): which package managers are on the     *)
(* PATH, which ones are missing, and the installers that are run for       *)
(* those, one after the other, until one fails.                            *)
(*                                                                         *)
(* An installer puts its program into a directory of its own; whether the  *)
(* PATH names that directory is up to the user's next shell.               *)
(***************************************************************************)
EXTENDS Naturals, Sequences

CONSTANT Paths   \* the programs that may be on the PATH at first

Managers == {"npm", "deno", "uv"}

VARIABLES
  path,    \* the programs that are found on the PATH
  dirs,    \* the programs in their known directories
  env,     \* the next step of install-env
  targets, \* what it has still to install and verify
  outcome  \* what it has reported

envVars == <<env, targets, outcome>>
vars == <<path, dirs, envVars>>

\* plan_installation, for what detect_environment has found: Deno when there
\* is no JavaScript tool, uv when there is no Python tool.
Plan(found) ==
  (IF found \cap {"npm", "deno"} = {} THEN <<"deno">> ELSE <<>>)
    \o (IF "uv" \notin found THEN <<"uv">> ELSE <<>>)

Ends(o) == env' = "idle" /\ targets' = <<>> /\ outcome' = o
Goes(step) == env' = step /\ UNCHANGED <<targets, outcome>>

Detect ==
  /\ env = "idle"
  /\ IF Plan(path) = <<>> THEN Ends("nothing to install")
     ELSE env' = "confirm" /\ targets' = Plan(path) /\ outcome' = "none"
  /\ UNCHANGED <<path, dirs>>

\* --yes, a line that says yes, or the end of the input; anything but yes and no
\* is asked again.
Confirm(yes) ==
  /\ env = "confirm"
  /\ IF yes THEN Goes("install") ELSE Ends("cancelled")
  /\ UNCHANGED <<path, dirs>>

\* installer_command: the shell pipes curl into sh, and its status is sh's, so
\* that success says nothing about what was downloaded.
Installs(program) ==
  /\ dirs' \in {dirs, dirs \cup {program}}
  /\ Ends("failed") \/ Goes("verify")

RunInstaller ==
  /\ env = "install" /\ targets # <<>>
  /\ \/ "curl" \notin path /\ Ends("failed") /\ UNCHANGED dirs
     \/ "curl" \in path /\ Installs(Head(targets))
  /\ UNCHANGED path

Verified ==
  /\ env' = "install" /\ targets' = Tail(targets)
  /\ UNCHANGED outcome

\* On the PATH or in a known directory.
Found(program) == program \in path \cup dirs

\* ... and able to tell its version.
Mut_Verify ==
  /\ env = "verify"
  /\ Verified
  /\ UNCHANGED <<path, dirs>>

Verify ==
  /\ env = "verify"
  /\ (Found(Head(targets)) /\ Verified) \/ Ends("failed")
  /\ UNCHANGED <<path, dirs>>

Complete ==
  /\ env = "install" /\ targets = <<>>
  /\ Ends("complete")
  /\ UNCHANGED <<path, dirs>>

\* The user opens a shell whose profile the installers have edited.
NewShell ==
  /\ env = "idle"
  /\ path' = path \cup dirs
  /\ UNCHANGED <<dirs, envVars>>

Init ==
  /\ path \in Paths /\ dirs = {}
  /\ env = "idle" /\ targets = <<>> /\ outcome = "none"

InstallEnv ==
  Detect \/ Confirm(TRUE) \/ Confirm(FALSE) \/ RunInstaller \/ Verify \/ Complete

Next == InstallEnv \/ NewShell

(***************************************************************************)
(* Properties                                                              *)
(***************************************************************************)

\* A complete installation has put a tool for each kind of package where the
\* next shell finds it, whatever the installers' exit statuses were worth.
CompleteIsSufficient ==
  outcome = "complete" =>
    /\ Found("uv")
    /\ Found("npm") \/ Found("deno")

\* What install-env has still to install is all that is missing.
ToolsInv ==
  /\ env \in {"idle", "confirm", "install", "verify"}
  /\ targets \in {<<>>, <<"deno">>, <<"uv">>, <<"deno", "uv">>}
  /\ env = "verify" => targets # <<>>
  /\ env # "idle" =>
       /\ targets \in {<<>>, <<"deno">>} => Found("uv")
       /\ targets \in {<<>>, <<"uv">>} => Found("npm") \/ Found("deno")
====================================================================================
