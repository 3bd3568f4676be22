------------------------------- MODULE BinaryCache -------------------------------
(***************************************************************************)
(* The cache directory of one agent on one platform                        *)
(* (src/src/installer/binary.rs, src/src/installer/cache.rs).  Every       *)
(* acp-agent process sweeps the dot-prefixed work directories when it      *)
(* starts; it then installs, updates, uninstalls or only lists.  The tasks *)
(* of a named server install too, without a sweep, and may be cancelled.   *)
(* Nothing is locked: the file-system calls of different commands          *)
(* interleave, and each is a step, except that a command that is through   *)
(* with its staging or backup directory begins to remove it at once.       *)
(*                                                                         *)
(* A directory is an inode (who made it) at a place (its path), because a  *)
(* directory may be renamed while another process is deleting its files.   *)
(***************************************************************************)
EXTENDS FiniteSets

CONSTANTS
  Procs,      \* the commands
  Versions, Archives,
  OldArchive, \* the archive that installed versions were built from
  None,
  Plans       \* who runs what, see below

Commands == {"install", "update", "uninstall", "list"}
Targets == [version : Versions, archive : Archives]

\* A plan: the commands that run and what they do; those that run in a named
\* server; the target each one finds in the registry; the versions in the cache at
\* first; whether a command begins only when no other one runs; whether processes
\* may be killed; whether the file system may refuse a call that could be made.
PlanType ==
  [op : UNION {[P -> Commands] : P \in SUBSET Procs}, tasks : SUBSET Procs,
   target : [Procs -> Targets], installed : SUBSET Versions,
   serial : BOOLEAN, crashes : BOOLEAN, refuses : BOOLEAN]

ASSUME PlanAssumption ==
  /\ OldArchive \in Archives
  /\ Plans \subseteq PlanType
  /\ \A l \in Plans : \A p \in l.tasks : p \in DOMAIN l.op /\ l.op[p] = "install"

VARIABLES
  plan,    \* the plan that is carried out
  at,      \* at[x]: the directory at place x, or None
  files,   \* files[d]: what directory d holds
  pc,      \* pc[p]: the next step of p
  site,    \* site[p]: the call of validate_cached_binary p is in
  left,    \* left[p]: the files p has not unpacked yet
  rm,      \* rm[p]: the remove_dir_all p is in, or None
  list,    \* list[p]: the places p has read and not removed yet
  result,  \* result[p]: what p returned
  hit      \* the running commands whose work directory a sweep removed (history)

vars == <<plan, at, files, pc, site, left, rm, list, result, hit>>

Op == plan.op
Tasks == plan.tasks
Target == plan.target
Installed == plan.installed

(***************************************************************************)
(* Directories                                                             *)
(***************************************************************************)

Payload == {"exe", "lib"}
Files == Payload \cup {"meta"}

New(p) == <<"new", p>>
Old(v) == <<"old", v>>
AllDirs == {New(p) : p \in Procs} \cup {Old(v) : v \in Versions}
Dirs == {New(p) : p \in Procs} \cup {Old(v) : v \in Installed}

\* The content of metadata.json.
Meta(d) ==
  IF d[1] = "new" THEN Target[d[2]] ELSE [version |-> d[2], archive |-> OldArchive]

Stable(v) == <<"stable", v>>
Staging(p) == <<"staging", p>>
Backup(p) == <<"backup", p>>
WorkPlaces == {Staging(p) : p \in Procs} \cup {Backup(p) : p \in Procs}
Places == {Stable(v) : v \in Versions} \cup WorkPlaces
Home(p) == Stable(Target[p].version)

Removals == [place : Places, dir : AllDirs, todo : SUBSET Files]

ASSUME NoneAssumption == None \notin AllDirs \cup Removals

\* rename(2) moves a directory onto nothing or onto an empty directory.
CanRename(x, y) == at[x] # None /\ at[y] \in {None} \cup {d \in Dirs : files[d] = {}}
Rename(x, y) == at' = [at EXCEPT ![y] = at[x], ![x] = None]

\* A call fails that cannot be made, or that the file system refuses.
MayFail(possible) == ~possible \/ plan.refuses

Has(x, f) == at[x] # None /\ f \in files[at[x]]

\* What list_cached_agents finds.
Entries == {x \in {Stable(v) : v \in Versions} : Has(x, "meta")}

(***************************************************************************)
(* Control                                                                 *)
(***************************************************************************)

Live(p) == pc[p] \notin {"idle", "done", "crashed"}
Turn(p, l) == pc[p] = l /\ rm[p] = None

Go(p, l) == pc' = [pc EXCEPT ![p] = l]
Return(p, r) == Go(p, "done") /\ result' = [result EXCEPT ![p] = r]

\* Start remove_dir_all on a place and go on at l when it has ended.
Remove(p, x, l) ==
  /\ Go(p, l)
  /\ rm' = [rm EXCEPT ![p] =
       IF at[x] = None THEN None ELSE [place |-> x, dir |-> at[x], todo |-> files[at[x]]]]

\* An error: the staging guard's Drop removes what is left of the directory.
Fails(p) == Remove(p, Staging(p), "failed")

\* An error that leaves the backup where it is.
Strands(p) == Remove(p, Staging(p), "stranded")

\* Success: an update goes on to remove the other versions.
Succeeds(p) == IF Op[p] = "update" THEN "scan" ELSE "succeeded"

(***************************************************************************)
(* remove_dir_all                                                          *)
(***************************************************************************)

Removing(p) == rm[p] # None /\ Live(p)

\* It follows the inode, whatever the path has become.
RemoveFile(p) ==
  /\ Removing(p)
  /\ \E f \in files[rm[p].dir] :
       files' = [files EXCEPT ![rm[p].dir] = @ \ {f}]
  /\ UNCHANGED <<at, pc, site, left, rm, list, result, hit>>

\* The final rmdir, by path, fails on a directory that gained a file, and
\* only an uninstall or the end of an update reports that.
RemoveEnds(p) ==
  /\ Removing(p)
  /\ rm[p].todo \cap files[rm[p].dir] = {}
  /\ LET x == rm[p].place
         empty == at[x] # None /\ files[at[x]] = {}
     IN  /\ at' = IF empty THEN [at EXCEPT ![x] = None] ELSE at
         /\ IF ~empty /\ pc[p] = "prune"
            THEN Return(p, "err")
            ELSE UNCHANGED <<pc, result>>
  /\ rm' = [rm EXCEPT ![p] = None]
  /\ UNCHANGED <<files, site, left, list, hit>>

(***************************************************************************)
(* The start of a process                                                  *)
(***************************************************************************)

\* Where a command goes after the sweep.
FirstStep(p) ==
  CASE Op[p] = "install" -> "check"
    [] Op[p] = "update" -> "stage"
    [] Op[p] = "uninstall" -> "scan"
    [] OTHER -> "succeeded"

Begin(p) ==
  /\ pc[p] = "idle" /\ p \in DOMAIN Op
  /\ plan.serial => \A q \in Procs : ~Live(q)
  /\ IF p \in Tasks
     THEN Go(p, FirstStep(p)) /\ UNCHANGED list
     ELSE /\ Go(p, "sweep")
          /\ list' = [list EXCEPT ![p] = {x \in WorkPlaces : at[x] # None}]
  /\ UNCHANGED <<at, files, site, left, rm, result, hit>>

\* clean_stale_staging_entries_in: whoever owns the directory.
Mut_Sweep(p) ==
  /\ Turn(p, "sweep") /\ list[p] # {}
  /\ \E x \in list[p] :
       /\ list' = [list EXCEPT ![p] = @ \ {x}]
       /\ IF x[1] = "backup" THEN UNCHANGED <<rm, pc>> ELSE Remove(p, x, "sweep")
       /\ hit' = hit \cup {q \in {x[2]} : Live(q)}
  /\ UNCHANGED <<at, files, site, left, result>>

Sweep(p) ==
  /\ Turn(p, "sweep") /\ list[p] # {}
  /\ \E x \in list[p] :
       /\ list' = [list EXCEPT ![p] = @ \ {x}]
       /\ Remove(p, x, "sweep")
       /\ hit' = hit \cup {q \in {x[2]} : Live(q)}
  /\ UNCHANGED <<at, files, site, left, result>>

SweepEnds(p) ==
  /\ Turn(p, "sweep") /\ list[p] = {}
  /\ Go(p, FirstStep(p))
  /\ UNCHANGED <<at, files, site, left, rm, list, result, hit>>

(***************************************************************************)
(* validate_cached_binary                                                  *)
(***************************************************************************)

\* The four calls, by what happens when the entry is valid ...
Valid(p) ==
  CASE site[p] = "conflict" -> Remove(p, Staging(p), Succeeds(p))
    [] site[p] = "replaced" -> Remove(p, Backup(p), Succeeds(p))
    [] OTHER -> Go(p, Succeeds(p)) /\ UNCHANGED rm

\* ... and when it is not.
Invalid(p) ==
  CASE site[p] = "first" -> Go(p, "stage") /\ UNCHANGED rm
    [] site[p] = "placed" -> Fails(p)
    [] site[p] = "conflict" -> Go(p, "inspect") /\ UNCHANGED rm
    [] site[p] = "replaced" -> Go(p, "cleanup") /\ UNCHANGED rm

\* try_exists
CheckMetadata(p) ==
  /\ Turn(p, "check")
  /\ IF Has(Home(p), "meta") THEN Go(p, "read") /\ UNCHANGED rm ELSE Invalid(p)
  /\ UNCHANGED <<at, files, site, left, list, result, hit>>

\* A metadata file that was there and is gone is an error, even when a backup waits.
ReadMetadata(p) ==
  /\ Turn(p, "read")
  /\ IF ~Has(Home(p), "meta") THEN Fails(p)
     ELSE IF Meta(at[Home(p)]) = Target[p] THEN Go(p, "stat") /\ UNCHANGED rm
     ELSE Invalid(p)
  /\ UNCHANGED <<at, files, site, left, list, result, hit>>

\* So is one that the file system does not let the command see or read.
ValidationFails(p) ==
  /\ plan.refuses /\ (Turn(p, "check") \/ Turn(p, "read"))
  /\ IF site[p] = "replaced" THEN Strands(p) ELSE Fails(p)
  /\ UNCHANGED <<at, files, site, left, list, result, hit>>

\* Any error of this call means that there is no executable, and none is supposed when
\* there is one.
CheckExecutable(p) ==
  /\ Turn(p, "stat")
  /\ IF Has(Home(p), "exe") THEN Valid(p) ELSE Invalid(p)
  /\ UNCHANGED <<at, files, site, left, list, result, hit>>

(***************************************************************************)
(* cache_binary_target_in_mode, prepare_staging_directory                  *)
(***************************************************************************)

MakeStaging(p) ==
  /\ Turn(p, "stage")
  /\ at' = [at EXCEPT ![Staging(p)] = New(p)]
  /\ left' = [left EXCEPT ![p] = Payload]
  /\ Go(p, "unpack")
  /\ UNCHANGED <<files, site, rm, list, result, hit>>

\* One entry; a ZIP archive's makes the directories that it needs (create_dir_all).
Extract(p, f) ==
  /\ at' = [at EXCEPT ![Staging(p)] = New(p)]
  /\ files' = [files EXCEPT ![New(p)] = @ \cup {f}]

\* extract_archive: the entries come in the archive's order, whichever it is.
Mut_Unpack(p) ==
  /\ Turn(p, "unpack") /\ at[Staging(p)] = New(p)
  /\ \E f \in left[p] :
       /\ files' = [files EXCEPT ![New(p)] = @ \cup {f, "partial"}]
       /\ left' = [left EXCEPT ![p] = @ \ {f}]
  /\ UNCHANGED <<at, pc, site, rm, list, result, hit>>

Unpack(p) ==
  /\ Turn(p, "unpack")
  /\ \E f \in left[p] : Extract(p, f) /\ left' = [left EXCEPT ![p] = @ \ {f}]
  /\ UNCHANGED <<pc, site, rm, list, result, hit>>

\* The metadata is the last file, after the executable has been found.
Mut_WriteMetadata(p) ==
  /\ Turn(p, "unpack")
  /\ Has(Staging(p), "exe")
  /\ files' = [files EXCEPT ![New(p)] = @ \cup {"meta"}]
  /\ Go(p, "promote")
  /\ UNCHANGED <<at, site, left, rm, list, result, hit>>

WriteMetadata(p) ==
  /\ Turn(p, "unpack") /\ left[p] = {}
  /\ Has(Staging(p), "exe")
  /\ files' = [files EXCEPT ![New(p)] = @ \cup {"meta"}]
  /\ Go(p, "promote")
  /\ UNCHANGED <<at, site, left, rm, list, result, hit>>

\* No parent directory, no download, a bad digest, a bad archive, a directory
\* that was swept away: any of these calls may fail.
Mut_PreparationFails(p) ==
  /\ Turn(p, "stage") \/ Turn(p, "unpack")
  /\ Go(p, "failed")
  /\ left' = [left EXCEPT ![p] = {}]
  /\ UNCHANGED <<at, files, site, rm, list, result, hit>>

PreparationFails(p) ==
  /\ Turn(p, "stage") \/ Turn(p, "unpack")
  /\ Fails(p)
  /\ left' = [left EXCEPT ![p] = {}]
  /\ UNCHANGED <<at, files, site, list, result, hit>>

(***************************************************************************)
(* promote_staged_cache                                                    *)
(***************************************************************************)

Validate(p, s) ==
  /\ Go(p, "check")
  /\ site' = [site EXCEPT ![p] = s]

Promote(p) ==
  /\ Turn(p, "promote")
  /\ \/ /\ CanRename(Staging(p), Home(p)) /\ Rename(Staging(p), Home(p))
        /\ Validate(p, "placed")
     \/ /\ MayFail(CanRename(Staging(p), Home(p))) /\ UNCHANGED at
        /\ IF Op[p] = "update" THEN Go(p, "inspect") /\ UNCHANGED site
                               ELSE Validate(p, "conflict")
  /\ UNCHANGED <<files, left, rm, list, result, hit>>

\* try_exists
Inspect(p) ==
  /\ Turn(p, "inspect")
  /\ \/ at[Home(p)] # None /\ Go(p, "backup") /\ UNCHANGED rm
     \/ MayFail(at[Home(p)] # None) /\ Fails(p)
  /\ UNCHANGED <<at, files, site, left, list, result, hit>>

MakeBackup(p) ==
  /\ Turn(p, "backup")
  /\ \/ /\ at[Home(p)] # None /\ Rename(Home(p), Backup(p))
        /\ Go(p, "replace") /\ UNCHANGED rm
     \/ MayFail(at[Home(p)] # None) /\ Fails(p) /\ UNCHANGED at
  /\ UNCHANGED <<files, site, left, list, result, hit>>

Replace(p) ==
  /\ Turn(p, "replace")
  /\ \/ /\ CanRename(Staging(p), Home(p)) /\ Rename(Staging(p), Home(p))
        /\ Validate(p, "replaced")
     \/ /\ MayFail(CanRename(Staging(p), Home(p)))
        /\ Go(p, "reinstate") /\ UNCHANGED <<at, site>>
  /\ UNCHANGED <<files, left, rm, list, result, hit>>

\* cleanup_dir of what was found invalid, which another may have replaced by now.
Cleanup(p) ==
  /\ Turn(p, "cleanup")
  /\ Remove(p, Home(p), "reinstate")
  /\ UNCHANGED <<at, files, site, left, list, result, hit>>

\* Put the backup back, after a failed promotion or a failed validation.
Mut_Reinstate(p) ==
  /\ Turn(p, "reinstate")
  /\ UNCHANGED at
  /\ Fails(p)
  /\ UNCHANGED <<files, site, left, list, result, hit>>

Reinstate(p) ==
  /\ Turn(p, "reinstate")
  /\ \/ CanRename(Backup(p), Home(p)) /\ Rename(Backup(p), Home(p)) /\ Fails(p)
     \/ ~CanRename(Backup(p), Home(p)) /\ Fails(p) /\ UNCHANGED at
     \/ plan.refuses /\ Strands(p) /\ UNCHANGED at
  /\ UNCHANGED <<files, site, left, list, result, hit>>

(***************************************************************************)
(* remove_cached_entries, and the end of a command                         *)
(***************************************************************************)

\* An update keeps the directory it has just installed; an uninstall that finds
\* nothing fails, for an agent that has only binaries.
Mut_Scan(p) ==
  /\ Turn(p, "scan")
  /\ list' = [list EXCEPT ![p] = Entries]
  /\ Go(p, "prune")
  /\ UNCHANGED <<at, files, site, left, rm, result, hit>>

Scan(p) ==
  /\ Turn(p, "scan")
  /\ list' = [list EXCEPT ![p] = Entries \ (IF Op[p] = "update" THEN {Home(p)} ELSE {})]
  /\ Go(p, IF Op[p] = "uninstall" /\ Entries = {} THEN "failed" ELSE "prune")
  /\ UNCHANGED <<at, files, site, left, rm, result, hit>>

\* A directory that is gone by now is an error.
Prune(p) ==
  /\ Turn(p, "prune")
  /\ \E x \in list[p] :
       /\ list' = [list EXCEPT ![p] = @ \ {x}]
       /\ IF at[x] = None THEN Return(p, "err") /\ UNCHANGED rm
                          ELSE Remove(p, x, "prune") /\ UNCHANGED result
  /\ UNCHANGED <<at, files, site, left, hit>>

Succeed(p) ==
  /\ Turn(p, "succeeded") \/ (Turn(p, "prune") /\ list[p] = {})
  /\ Return(p, "ok")
  /\ UNCHANGED <<at, files, site, left, rm, list, hit>>

Fail(p) ==
  /\ \/ Turn(p, "failed") /\ Return(p, "err")
     \/ Turn(p, "stranded") /\ Return(p, "stranded")
     \/ Turn(p, "dropped") /\ Return(p, "cancelled")
  /\ UNCHANGED <<at, files, site, left, rm, list, hit>>

\* The server drops a task's future at an await, when the client hangs up or
\* the shutdown grace is over; the staging guard still runs.
Cancel(p) ==
  /\ p \in Tasks
  /\ Live(p) /\ pc[p] \notin {"failed", "stranded", "succeeded", "dropped"} /\ rm[p] = None
  /\ Remove(p, Staging(p), "dropped")
  /\ UNCHANGED <<at, files, site, left, list, result, hit>>

\* Dropping the future tells the detached extraction thread to stop, but it only
\* looks between two entries of the archive: one more may land, in a directory
\* that is made again when it is gone.
LateWrite(p) ==
  /\ pc[p] \in {"dropped", "done"}
  /\ \E f \in left[p] : Extract(p, f)
  /\ left' = [left EXCEPT ![p] = {}]
  /\ UNCHANGED <<pc, site, rm, list, result, hit>>

\* No guard runs in a process that is killed.
Crash(p) ==
  /\ plan.crashes /\ Live(p)
  /\ Go(p, "crashed")
  /\ UNCHANGED <<at, files, site, left, rm, list, result, hit>>

(***************************************************************************)
(* The specification                                                       *)
(***************************************************************************)

Init ==
  /\ plan \in Plans
  /\ at = [x \in Places |->
       IF x[1] = "stable" THEN IF x[2] \in Installed THEN Old(x[2]) ELSE None ELSE None]
  /\ files = [d \in Dirs |-> IF d[1] = "old" THEN Files ELSE {}]
  /\ pc = [p \in Procs |-> "idle"]
  /\ site = [p \in Procs |-> "first"]
  /\ left = [p \in Procs |-> {}]
  /\ rm = [p \in Procs |-> None]
  /\ list = [p \in Procs |-> {}]
  /\ result = [p \in Procs |-> "none"]
  /\ hit = {}

Command(p) ==
  \/ Begin(p) \/ Sweep(p) \/ SweepEnds(p) \/ RemoveFile(p) \/ RemoveEnds(p)
  \/ CheckMetadata(p) \/ ReadMetadata(p) \/ ValidationFails(p) \/ CheckExecutable(p)
  \/ MakeStaging(p) \/ Unpack(p) \/ WriteMetadata(p) \/ PreparationFails(p)
  \/ Promote(p) \/ Inspect(p) \/ MakeBackup(p) \/ Replace(p) \/ Cleanup(p) \/ Reinstate(p)
  \/ Scan(p) \/ Prune(p) \/ Succeed(p) \/ Fail(p)

Next ==
  /\ \E p \in Procs : Command(p) \/ Cancel(p) \/ LateWrite(p) \/ Crash(p)
  /\ UNCHANGED plan

Spec == Init /\ [][Next]_vars

(***************************************************************************)
(* Properties                                                              *)
(***************************************************************************)

Labels == {"idle", "sweep", "check", "read", "stat", "stage", "unpack", "promote",
           "inspect", "backup", "replace", "cleanup", "reinstate", "scan", "prune",
           "succeeded", "failed", "stranded", "dropped", "done", "crashed"}

\* Every variable has its type.
TypeOK ==
  /\ plan \in Plans
  /\ at \in [Places -> Dirs \cup {None}]
  /\ files \in [Dirs -> SUBSET Files]
  /\ pc \in [Procs -> Labels]
  /\ site \in [Procs -> {"first", "placed", "conflict", "replaced"}]
  /\ left \in [Procs -> SUBSET Payload]
  /\ rm \in [Procs -> Removals \cup {None}]
  /\ \A p \in Procs : rm[p] # None => rm[p].dir \in Dirs
  /\ list \in [Procs -> SUBSET Places]
  /\ result \in [Procs -> {"none", "ok", "err", "stranded", "cancelled"}]
  /\ hit \in SUBSET Procs

\* A command that has returned an answer leaves no staging directory behind,
\* be it an error or the cache of another command that was faster.
NoStagingLeaks ==
  \A p \in Procs : pc[p] = "done" /\ result[p] # "cancelled" => at[Staging(p)] = None

\* What validate_cached_binary looks at.
Accepted(x) == Has(x, "meta") /\ Has(x, "exe")
Whole(x) == at[x] # None /\ files[at[x]] = Files

\* An entry that would be accepted holds the whole payload, unless someone is
\* removing it or was killed while doing so, or a sweep has run over a live
\* install.
EntriesAreWhole ==
  hit = {} =>
    \A v \in Versions : Accepted(Stable(v)) =>
      Whole(Stable(v)) \/ \E p \in Procs : rm[p] # None /\ rm[p].dir = at[Stable(v)]

Removers(d) == {q \in Procs : rm[q] # None /\ rm[q].dir = d}

\* Nobody is emptying it either.
Safe(x) == Whole(x) /\ Removers(at[x]) = {}

Installs(p) == p \in DOMAIN Op /\ Op[p] \in {"install", "update"}

OneTarget == \A p, q \in DOMAIN Op : Target[p] = Target[q]
OneVersion == \A p, q \in Procs : Installs(p) /\ Installs(q) => Home(p) = Home(q)
AtMostTwo ==
  \A p, q, r \in Procs : Installs(p) /\ Installs(q) /\ Installs(r) => p = q \/ q = r \/ p = r

\* The commands for which the cache of a user who has a binary is safe: one after
\* the other, or two that want the same version, and any that only list.
Keepers == Installed # {} /\ (plan.serial \/ (OneVersion /\ AtMostTwo))

\* Nothing has been uninstalled, killed, cancelled or swept while alive, and nobody who
\* held a backup was refused its restoration or a look at what had replaced it.
Undisturbed ==
  /\ hit = {}
  /\ \A p \in Procs :
       /\ pc[p] \notin {"crashed", "dropped", "stranded"}
       /\ result[p] \notin {"cancelled", "stranded"}
       /\ p \in DOMAIN Op /\ Op[p] = "uninstall" => pc[p] = "idle"

\* p has moved the entry aside and will put it back if it cannot replace it.
Holds(p) ==
  \/ pc[p] \in {"replace", "cleanup", "reinstate"}
  \/ pc[p] \in {"check", "read", "stat"} /\ site[p] = "replaced"

Guards(p) == Holds(p) /\ Safe(Backup(p))

\* Such commands never lose the binary, whatever archives they want it from: a
\* version is in place, or a command that replaces it holds it as its backup.
HasBinary == (\E v \in Versions : Safe(Stable(v))) \/ \E p \in Procs : Guards(p)
BinaryIsKept == Keepers /\ Undisturbed => HasBinary

\* The work directories of others that the sweep of p is good for: a task of a
\* server may still have an extraction thread that writes below its own.
Leavings(p) ==
  {Staging(q) : q \in Procs \ (Tasks \cup {p})} \cup {Backup(q) : q \in Procs \ {p}}

\* When commands do not overlap, the work directories of the commands that
\* were killed are gone once the sweep of a later one is over.
SweepReclaims ==
  plan.serial =>
    \A p \in DOMAIN Op \ Tasks : Live(p) /\ pc[p] # "sweep" =>
      \A x \in Leavings(p) : at[x] = None

\* All commands install one target, what is there was built from its archive, and no
\* call is refused: nothing has to be replaced.
SameInstall ==
  /\ ~plan.refuses
  /\ OneTarget /\ \A p \in DOMAIN Op : Op[p] = "install"
  /\ \A p \in DOMAIN Op : Target[p].version \in Installed => Target[p].archive = OldArchive

Landed(p) == Accepted(Home(p)) /\ Meta(at[Home(p)]) = Target[p]

\* When commands do not overlap, or all of them install the same target and none is
\* swept while alive, one that reports success has the registry's target in place.
\* (Of two updates one may have moved it aside when the other reports.)
SuccessIsInstalled ==
  [][plan.serial \/ (SameInstall /\ hit = {}) =>
       \A p \in Procs : Installs(p) /\ result[p] # "ok" /\ result'[p] = "ok" => Landed(p)]_vars

(* What the documentation says more than the code does. *)

\* "so a failed refresh leaves the existing binary usable" (comment on
\* update_agent): when every command has returned and no update succeeded there
\* still is a binary.  The sweeps of other processes can remove both the
\* replacement and the backup.
FailedRefreshKeepsBinary ==
  (\A p \in DOMAIN Op :
     pc[p] \in {"idle", "done"} /\ (Op[p] = "update" => result[p] # "ok"))
    => \E v \in Versions : Whole(Stable(v))

(***************************************************************************)
(* What the proofs need beside them                                        *)
(***************************************************************************)

\* A directory is at one place.
OnePlace == \A x, y \in Places : at[x] # None /\ at[x] = at[y] => x = y

Early(p) ==
  \/ pc[p] \in {"idle", "sweep", "stage"}
  \/ pc[p] \in {"check", "read", "stat"} /\ site[p] = "first"

\* Where a command is tells where it came from.
ControlInv(p) ==
  /\ pc[p] # "idle" => p \in DOMAIN Op
  /\ pc[p] \in {"idle", "sweep"} => site[p] = "first"
  /\ pc[p] \in {"check", "read", "stat"} /\ site[p] = "conflict" => Op[p] # "update"
  /\ pc[p] \in {"scan", "prune"} => Op[p] \in {"update", "uninstall"}
  /\ pc[p] \in {"check", "read", "stat", "stage", "unpack", "promote", "inspect", "backup",
               "replace", "cleanup", "reinstate", "stranded"} => Op[p] \in {"install", "update"}
  /\ pc[p] \in {"idle", "read", "stat", "cleanup", "done"} => rm[p] = None
  /\ pc[p] = "cleanup" => site[p] = "replaced"
  /\ pc[p] = "dropped" \/ result[p] = "cancelled" => p \in Tasks
  /\ result[p] # "none" => pc[p] = "done"
  /\ pc[p] = "sweep" => p \notin Tasks /\ list[p] \subseteq WorkPlaces
  /\ pc[p] = "prune" => list[p] \subseteq {Stable(v) : v \in Versions}

\* A staging directory that is not wanted any more is being emptied.
StagingInv(p) ==
  /\ at[Staging(p)] \in {None, New(p)}
  /\ \/ Early(p) \/ pc[p] \in {"scan", "prune"}
     \/ pc[p] \in {"check", "read", "stat"} /\ site[p] # "conflict"
     \/ pc[p] = "done" /\ result[p] # "cancelled"
     => at[Staging(p)] = None
  /\ pc[p] \in {"failed", "stranded", "succeeded"} =>
       \/ at[Staging(p)] = None
       \/ /\ rm[p] # None /\ rm[p].place = Staging(p) /\ rm[p].dir = New(p)
          /\ files[New(p)] \subseteq rm[p].todo

\* A command that nobody has swept has its new directory for itself until it is promoted.
FreshInv(p) ==
  /\ left[p] # {} =>
       /\ pc[p] \in {"unpack", "dropped", "crashed"} \/ result[p] = "cancelled"
       /\ "meta" \notin files[New(p)] /\ \A x \in Places : at[x] = New(p) => x = Staging(p)
  /\ Early(p) => files[New(p)] = {} /\ \A x \in Places : at[x] # New(p)
  /\ pc[p] \in {"unpack", "promote"} => \A x \in Places : at[x] = New(p) => x = Staging(p)
  /\ Early(p) \/ (pc[p] \in {"unpack", "promote"} /\ hit = {}) =>
       /\ Removers(New(p)) = {}
       /\ \A q \in Procs : rm[q] # None => rm[q].place # Staging(p)
  /\ pc[p] \in {"unpack", "promote"} /\ hit = {} =>
       /\ at[Staging(p)] = New(p)
       /\ files[New(p)] = IF pc[p] = "unpack" THEN Payload \ left[p] ELSE Files

\* What has its metadata is whole, or someone is removing all that is left of it.
DirInv(d) ==
  hit = {} /\ "meta" \in files[d] =>
    /\ files[d] = Files \/ Removers(d) # {}
    /\ \A q \in Removers(d) : files[d] \subseteq rm[q].todo

\* One command after the other ...
SerialInv == plan.serial => \A p, q \in Procs : Live(p) /\ Live(q) => p = q

\* ... first sweeps what those before it have left ...
SweptInv(p) ==
  plan.serial /\ p \in DOMAIN Op \ Tasks /\ Live(p) =>
    \A x \in Leavings(p) : at[x] # None =>
      /\ pc[p] = "sweep"
      /\ \/ x \in list[p]
         \/ /\ rm[p] # None /\ rm[p].place = x /\ rm[p].dir = at[x]
            /\ files[at[x]] \subseteq rm[p].todo

\* ... and what it has found valid stays so.
LandedInv(p) ==
  plan.serial /\ Installs(p) =>
    /\ pc[p] = "stat" => Has(Home(p), "meta") /\ Meta(at[Home(p)]) = Target[p]
    /\ pc[p] \in {"scan", "prune", "succeeded"} =>
         /\ Landed(p)
         /\ rm[p] # None => rm[p].place # Home(p) /\ rm[p].dir # at[Home(p)]
    /\ pc[p] = "prune" => Home(p) \notin list[p]

\* Among installations of one target the first one wins, and nobody touches it.
SharedInv(p) ==
  SameInstall /\ hit = {} /\ p \in DOMAIN Op =>
    /\ pc[p] \notin {"inspect", "backup", "replace", "cleanup", "reinstate", "scan", "prune"}
    /\ site[p] # "replaced"
    /\ pc[p] \in {"stat", "succeeded"} \/ site[p] # "first" => at[Home(p)] # None
    /\ at[Home(p)] # None =>
         /\ files[at[Home(p)]] = Files /\ Removers(at[Home(p)]) = {}
         /\ Meta(at[Home(p)]) = Target[p]

\* As long as nothing disturbs commands that keep the binary, the new directory of one
\* that found an entry in its place is still whole, ...
StagedInv(p) ==
  pc[p] \in {"inspect", "backup", "replace"} \/ (pc[p] \in {"check", "read", "stat"} /\ site[p] = "conflict") =>
    at[Staging(p)] = New(p) /\ Safe(Staging(p))

\* ... an entry is whole or is being removed, by an update that removes other
\* versions or by a command that will put its backup in this place, ...
EntryInv(v) ==
  at[Stable(v)] # None =>
    \/ Safe(Stable(v))
    \/ \E q \in Procs :
         /\ rm[q] # None /\ rm[q].place = Stable(v) /\ rm[q].dir = at[Stable(v)]
         /\ files[at[Stable(v)]] \subseteq rm[q].todo
         /\ \/ pc[q] = "prune" /\ Home(q) # Stable(v)
            \/ pc[q] = "reinstate" /\ Home(q) = Stable(v)

\* ... who has moved an entry aside has a whole one, ...
HeldInv(p) == Holds(p) => Safe(Backup(p))

\* ... what a command has put in place of it can only be found invalid when the other
\* command is past the point where it moves an entry aside, ...
Past(p) ==
  Holds(p) \/ pc[p] \in {"scan", "prune", "succeeded", "failed", "done"}

OthersArePast(p) == \A q \in Procs \ {p} : Installs(q) => Past(q)

ReplacedInv(p) ==
  /\ pc[p] \in {"check", "read", "stat"} /\ site[p] = "replaced" =>
       (at[Home(p)] = New(p) /\ Safe(Home(p))) \/ OthersArePast(p)
  /\ pc[p] = "cleanup" \/ (pc[p] = "reinstate" /\ rm[p] # None) => OthersArePast(p)

\* ... and who removes other versions has its own, as has who found the metadata of what
\* it put in place: it can fail to read it only when another holds it by now.
PruneInv(p) ==
  /\ pc[p] \in {"scan", "prune"} \/ (pc[p] = "read" /\ site[p] = "replaced") =>
       Safe(Home(p)) \/ \E q \in Procs : pc[q] # "read" /\ Holds(q)
  /\ pc[p] = "prune" => Home(p) \notin list[p]

Kept ==
  /\ HasBinary
  /\ \A p \in Procs : StagedInv(p) /\ HeldInv(p) /\ ReplacedInv(p) /\ PruneInv(p)
  /\ \A v \in Versions : EntryInv(v)

KeptInv == Keepers /\ Undisturbed => Kept

CommandInv(p) ==
  /\ ControlInv(p) /\ StagingInv(p) /\ FreshInv(p)
  /\ SweptInv(p) /\ LandedInv(p) /\ SharedInv(p)

CacheInv ==
  /\ TypeOK /\ OnePlace /\ SerialInv
  /\ \A p \in Procs : CommandInv(p)
  /\ \A d \in Dirs : DirInv(d)
================================================================================
