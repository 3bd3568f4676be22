------------------------------ MODULE MCBinaryCache ------------------------------
(* Small instances of BinaryCache for TLC: who runs what. *)
EXTENDS BinaryCache, TLC

CONSTANTS p1, p2, p3, v1, v2, a1, a2

T(v, a) == [version |-> v, archive |-> a]

\* Every command finds the same target ...
SameTarget == [p \in Procs |-> T(v1, a1)]

\* ... the archive of v1 was published again and p1 has not heard of it ...
Republished == [p \in Procs |-> IF p = p1 THEN T(v1, a1) ELSE T(v1, a2)]

\* ... or p1 has not heard of v2.
NewVersion == [p \in Procs |-> IF p = p1 THEN T(v1, a1) ELSE T(v2, a2)]

\* One command after the other, any of them killed.
OneByOne ==
  [op |-> p1 :> "update" @@ p2 :> "install" @@ p3 :> "uninstall", tasks |-> {},
   target |-> NewVersion, installed |-> {v1}, serial |-> TRUE, crashes |-> TRUE,
   refuses |-> TRUE]

\* Two updates at once.
TwoUpdates ==
  [op |-> p1 :> "update" @@ p2 :> "update", tasks |-> {},
   target |-> Republished, installed |-> {v1}, serial |-> FALSE, crashes |-> FALSE,
   refuses |-> TRUE]

\* An update and an install of a version that is not there yet, from two archives.
UpdateAndInstall ==
  [op |-> p1 :> "update" @@ p2 :> "install", tasks |-> {},
   target |-> Republished, installed |-> {v2}, serial |-> FALSE, crashes |-> FALSE,
   refuses |-> TRUE]

\* The tasks of one server.
ThreeTasks ==
  [op |-> [p \in Procs |-> "install"], tasks |-> Procs,
   target |-> SameTarget, installed |-> {}, serial |-> FALSE, crashes |-> FALSE,
   refuses |-> FALSE]

\* A task of a server beside the commands of a user, who uninstalls; all may be killed.
TaskAndUninstall ==
  [op |-> p1 :> "install" @@ p2 :> "uninstall", tasks |-> {p1},
   target |-> SameTarget, installed |-> {v1}, serial |-> FALSE, crashes |-> TRUE,
   refuses |-> TRUE]

\* An update while others start only to list.
UpdateAndLists ==
  [op |-> p1 :> "update" @@ p2 :> "list" @@ p3 :> "list", tasks |-> {},
   target |-> SameTarget, installed |-> {v1}, serial |-> FALSE, crashes |-> FALSE,
   refuses |-> FALSE]

SafePlans == {OneByOne, TwoUpdates, UpdateAndInstall, ThreeTasks, TaskAndUninstall}
SweptPlans == {UpdateAndLists}
================================================================================
