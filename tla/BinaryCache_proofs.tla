--------------------------- MODULE BinaryCache_proofs ---------------------------
(***************************************************************************)
(* Proofs about BinaryCache: what the commands that share a cache          *)
(* directory leave in it, for any number of them and any plan.             *)
(***************************************************************************)
EXTENDS BinaryCache, TLAPS

(***************************************************************************)
(* Places and directories                                                  *)
(***************************************************************************)

Own(p) == {Staging(p), Home(p), Backup(p)}

LEMMA Geometry ==
  ASSUME TypeOK, NEW p \in Procs
  PROVE  /\ Staging(p) \in WorkPlaces /\ Backup(p) \in WorkPlaces /\ Home(p) \in Places
         /\ WorkPlaces \subseteq Places /\ Home(p) \notin WorkPlaces
         /\ New(p) \in Dirs /\ Staging(p) # Backup(p)
         /\ \A q \in Procs : /\ Staging(q) \in {Staging(p), Backup(p)} => q = p
                             /\ Backup(q) \in {Staging(p), Backup(p)} => q = p
                             /\ New(q) = New(p) => q = p
BY PlanAssumption DEF TypeOK, PlanType, Target, Targets, Staging, Backup, WorkPlaces, Places, Home,
   Stable, New, Dirs

LEMMA WorkPlacesAreOwned ==
  ASSUME NEW x \in WorkPlaces
  PROVE  /\ x[2] \in Procs /\ (x = Staging(x[2]) \/ x = Backup(x[2]))
         /\ \A p \in Procs : x \in {Staging(p), Backup(p)} => x[2] = p
BY DEF WorkPlaces, Staging, Backup

LEMMA PlanTypes ==
  ASSUME TypeOK
  PROVE  /\ DOMAIN Op \subseteq Procs /\ Tasks \subseteq DOMAIN Op
         /\ \A p \in DOMAIN Op : Op[p] \in Commands
         /\ \A p \in Tasks : Op[p] = "install"
         /\ Target \in [Procs -> Targets] /\ Installed \subseteq Versions
         /\ Dirs \subseteq AllDirs /\ None \notin Dirs
<1>1. plan \in PlanType /\ \A p \in Tasks : p \in DOMAIN Op /\ Op[p] = "install"
  BY PlanAssumption DEF TypeOK, Op, Tasks
<1>2. Op \in UNION {[P -> Commands] : P \in SUBSET Procs}
  BY <1>1 DEF PlanType, Op
<1>3. DOMAIN Op \subseteq Procs /\ \A p \in DOMAIN Op : Op[p] \in Commands
  BY <1>2
<1>4. Target \in [Procs -> Targets] /\ Installed \subseteq Versions
  BY <1>1 DEF PlanType, Target, Installed
<1>5. Dirs \subseteq AllDirs /\ None \notin Dirs
  BY <1>4, NoneAssumption DEF Dirs, AllDirs
<1> QED
  BY <1>1, <1>3, <1>4, <1>5

LEMMA MetaOfNew ==
  ASSUME NEW p \in Procs
  PROVE  Meta(New(p)) = Target[p]
BY DEF Meta, New

(***************************************************************************)
(* What a step of p may do, whatever it is                                 *)
(***************************************************************************)

\* A directory goes from one place of p's to another, or away when it is empty.
Moves(p) ==
  /\ \A x \in Places : at'[x] # at[x] =>
       \/ at'[x] = None /\ x \in Own(p)
       \/ at'[x] = None /\ rm[p] # None /\ rm[p].place = x /\ files[at[x]] = {}
       \/ x \in Own(p) /\ at'[x] \in {New(p)} \cup {at[y] : y \in Own(p)}
  /\ at[Home(p)] # None /\ at'[Home(p)] # at[Home(p)] =>
       pc[p] = "backup" \/ files[at[Home(p)]] = {}
  /\ at[Home(p)] = None /\ at'[Home(p)] # None =>
       \/ pc[p] = "promote" /\ at'[Home(p)] = at[Staging(p)]
       \/ pc[p] \in {"replace", "reinstate"}

\* Files go from the directory that p removes, or come to the new one of p.
Writes(p) ==
  \A d \in Dirs : files'[d] # files[d] =>
    \/ files'[d] \subseteq files[d] /\ rm[p] # None /\ rm[p].dir = d /\ UNCHANGED rm
    \/ /\ d = New(p) /\ files[d] \subseteq files'[d] /\ UNCHANGED rm
       /\ pc[p] \notin {"idle", "sweep", "check", "read", "stat", "stage", "promote"}
       /\ at'[Staging(p)] = New(p)
       /\ \A x \in Places \ {Staging(p)} : at'[x] = at[x] /\ at[x] # New(p)
       /\ hit = {} /\ "meta" \in files'[d] => files'[d] = Files /\ Removers(d) = {}

\* A removal begins with all that is there, and ends when nothing of it is left.
Removes(p) ==
  rm'[p] # rm[p] =>
    /\ UNCHANGED files
    /\ \/ rm'[p] = None /\ rm[p] # None /\ rm[p].todo \cap files[rm[p].dir] = {}
       \/ /\ rm[p] = None /\ (UNCHANGED at \/ pc[p] = "reinstate")
          /\ \E x \in Places :
               /\ at[x] # None
               /\ rm'[p] = [place |-> x, dir |-> at[x], todo |-> files[at[x]]]
               /\ \A q \in Procs \ {p} : x \in {Staging(q), Backup(q)} /\ Live(q) => hit' # {}
               /\ x \in WorkPlaces \/ pc[p] = "prune" \/ site[p] = "replaced"

Effect(p) ==
  /\ \A q \in Procs \ {p} :
       /\ pc'[q] = pc[q] /\ site'[q] = site[q] /\ left'[q] = left[q] /\ rm'[q] = rm[q]
       /\ list'[q] = list[q] /\ result'[q] = result[q]
  /\ p \in DOMAIN Op /\ UNCHANGED plan /\ hit \subseteq hit'
  /\ Moves(p) /\ Writes(p) /\ Removes(p)
  /\ \/ Live(p)
     \/ (plan.serial => \A q \in Procs : ~Live(q)) /\ UNCHANGED <<at, files, rm, hit>>
     \/ /\ UNCHANGED <<rm, hit, pc>>
        /\ \A d \in Dirs : files[d] \subseteq files'[d]
        /\ p \in Tasks
        /\ \A d \in Dirs \ {New(p)} : files'[d] = files[d]
        /\ \A x \in Places \ {Staging(p)} : at'[x] = at[x] /\ at[x] # New(p)

\* What is said of every command but the one that makes the step.
LEMMA OthersStaging ==
  ASSUME CacheInv, TypeOK', NEW p \in Procs, Effect(p), NEW q \in Procs \ {p}
  PROVE  ControlInv(q)' /\ StagingInv(q)'
<1> USE DEF CacheInv, CommandInv
<1>1. ControlInv(q)'
  BY DEF ControlInv, Effect, Op, Tasks
<1>2. Staging(q) \in Places /\ Staging(q) \notin Own(p) /\ New(q) # New(p) /\ New(q) \in Dirs
  BY Geometry DEF Own
<1>3. at'[Staging(q)] \in {at[Staging(q)], None}
  BY <1>2 DEF Effect, Moves
<1>4. files'[New(q)] \subseteq files[New(q)]
  BY <1>2 DEF Effect, Writes
<1>5. StagingInv(q)'
  BY <1>3, <1>4 DEF StagingInv, Effect, Early
<1> QED
  BY <1>1, <1>5

\* A removal by p is of a directory that no live command has for itself, or it is noticed.
LEMMA OthersFresh ==
  ASSUME CacheInv, TypeOK', NEW p \in Procs, Effect(p), NEW q \in Procs \ {p}
  PROVE  FreshInv(q)'
<1> USE DEF CacheInv, CommandInv
<1>1. /\ FreshInv(q) /\ StagingInv(q) /\ Staging(q) \in Places /\ Staging(q) \notin Own(p)
      /\ New(q) # New(p) /\ New(q) \in Dirs /\ None # New(q)
  BY Geometry, PlanTypes DEF Own
<1>2. pc'[q] = pc[q] /\ site'[q] = site[q] /\ left'[q] = left[q] /\ hit \subseteq hit'
  BY DEF Effect
<1>3. files'[New(q)] \subseteq files[New(q)]
      /\ (files'[New(q)] # files[New(q)] => p \in Removers(New(q)))
  BY <1>1 DEF Effect, Writes, Removers
<1>4. \A x \in Places : at'[x] = New(q) => at[x] = New(q) \/ \E y \in Own(p) : at[y] = New(q)
  BY <1>1 DEF Effect, Moves
<1>5. Own(p) \subseteq Places
  BY Geometry DEF Own
<1>6. Early(q)' => Early(q)
  BY <1>2 DEF Early
<1>7. left'[q] # {} =>
        /\ pc'[q] \in {"unpack", "dropped", "crashed"} \/ result'[q] = "cancelled"
        /\ "meta" \notin files'[New(q)] /\ \A x \in Places : at'[x] = New(q) => x = Staging(q)
  <2>1. result'[q] = result[q]
    BY DEF Effect
  <2> QED
    BY <1>1, <1>2, <1>3, <1>4, <1>5, <2>1 DEF FreshInv
<1>8. Early(q)' => files'[New(q)] = {} /\ \A x \in Places : at'[x] # New(q)
  BY <1>1, <1>3, <1>4, <1>5, <1>6 DEF FreshInv
<1>9. pc'[q] \in {"unpack", "promote"} => \A x \in Places : at'[x] = New(q) => x = Staging(q)
  BY <1>1, <1>2, <1>4, <1>5 DEF FreshInv
<1>10. ASSUME Early(q) \/ (pc[q] \in {"unpack", "promote"} /\ hit' = {})
       PROVE  /\ Removers(New(q))' = {}
              /\ \A r \in Procs : rm'[r] # None => rm'[r].place # Staging(q)
  <2>1. hit' = {} => hit = {}
    BY <1>2
  <2>2. Removers(New(q)) = {} /\ \A r \in Procs : rm[r] # None => rm[r].place # Staging(q)
    BY <1>1, <1>10, <2>1 DEF FreshInv
  <2>3. \A r \in Procs \ {p} : rm'[r] = rm[r]
    BY DEF Effect
  <2>4. ASSUME rm'[p] # None, rm'[p] # rm[p]
        PROVE  rm'[p].dir # New(q) /\ rm'[p].place # Staging(q)
    <3>1. PICK x \in Places :
            /\ at[x] # None
            /\ rm'[p] = [place |-> x, dir |-> at[x], todo |-> files[at[x]]]
            /\ \A r \in Procs \ {p} : x \in {Staging(r), Backup(r)} /\ Live(r) => hit' # {}
      BY <2>4 DEF Effect, Removes
    <3>2. rm'[p].dir = at[x] /\ rm'[p].place = x
      BY <3>1
    <3>3. CASE Early(q)
      BY <1>1, <3>1, <3>2, <3>3 DEF FreshInv, StagingInv
    <3>4. CASE pc[q] \in {"unpack", "promote"} /\ hit' = {}
      <4>1. Live(q) /\ x # Staging(q)
        BY <3>1, <3>4 DEF Live
      <4> QED
        BY <1>1, <3>2, <3>4, <4>1 DEF FreshInv
    <3> QED
      BY <1>10, <3>3, <3>4
  <2> QED
    BY <2>2, <2>3, <2>4 DEF Removers
<1>11. ASSUME pc[q] \in {"unpack", "promote"}, hit' = {}
       PROVE  /\ at'[Staging(q)] = New(q)
              /\ files'[New(q)] = IF pc[q] = "unpack" THEN Payload \ left[q] ELSE Files
  <2>1. hit = {}
    BY <1>2, <1>11
  <2>2. /\ at[Staging(q)] = New(q) /\ Removers(New(q)) = {}
        /\ \A r \in Procs : rm[r] # None => rm[r].place # Staging(q)
        /\ files[New(q)] = IF pc[q] = "unpack" THEN Payload \ left[q] ELSE Files
    BY <1>1, <1>11, <2>1 DEF FreshInv
  <2>3. at'[Staging(q)] = at[Staging(q)]
    BY <1>1, <2>2 DEF Effect, Moves
  <2> QED
    BY <1>3, <2>2, <2>3
<1> QED
  BY <1>2, <1>6, <1>7, <1>8, <1>9, <1>10, <1>11 DEF FreshInv

LEMMA DirsStayWhole ==
  ASSUME CacheInv, TypeOK', NEW p \in Procs, Effect(p), NEW d \in Dirs
  PROVE  DirInv(d)'
<1> USE DEF CacheInv, CommandInv
<1> SUFFICES ASSUME hit' = {}, "meta" \in files'[d]
             PROVE  /\ files'[d] = Files \/ Removers(d)' # {}
                    /\ \A q \in Removers(d)' : files'[d] \subseteq rm'[q].todo
  BY DEF DirInv
<1>1. /\ hit = {} /\ DirInv(d) /\ \A q \in Procs \ {p} : rm'[q] = rm[q]
      /\ Removers(d) \subseteq Procs
  BY DEF Effect, Removers
<1>2. CASE files'[d] # files[d]
  <2>1. UNCHANGED rm
    BY <1>2 DEF Effect, Writes
  <2>2. Removers(d)' = Removers(d)
    BY <2>1 DEF Removers
  <2>3. CASE files'[d] \subseteq files[d] /\ rm[p] # None /\ rm[p].dir = d
    <3>1. p \in Removers(d) /\ "meta" \in files[d]
      BY <2>3 DEF Removers
    <3> QED
      BY <1>1, <2>1, <2>2, <2>3, <3>1 DEF DirInv
  <2>4. CASE hit = {} /\ "meta" \in files'[d] => files'[d] = Files /\ Removers(d) = {}
    BY <1>1, <2>2, <2>4
  <2> QED
    BY <1>2, <2>3, <2>4 DEF Effect, Writes
<1>3. CASE files'[d] = files[d]
  <2>1. /\ files[d] = Files \/ Removers(d) # {}
        /\ \A q \in Removers(d) : files[d] \subseteq rm[q].todo
    BY <1>1, <1>3 DEF DirInv
  <2>2. CASE rm'[p] = rm[p]
    BY <1>1, <1>3, <2>1, <2>2 DEF Removers
  <2>3. CASE rm'[p] = None /\ rm[p] # None /\ rm[p].todo \cap files[rm[p].dir] = {}
    <3>1. p \notin Removers(d)
      BY <1>3, <2>1, <2>3 DEF Removers
    <3>2. Removers(d)' = Removers(d)
      BY <1>1, <2>3, <3>1 DEF Removers
    <3> QED
      BY <1>1, <1>3, <2>1, <3>1, <3>2
  <2>4. CASE rm[p] = None /\ \E x \in Places :
               rm'[p] = [place |-> x, dir |-> at[x], todo |-> files[at[x]]]
    <3>1. PICK x \in Places : rm'[p] = [place |-> x, dir |-> at[x], todo |-> files[at[x]]]
      BY <2>4
    <3>2. rm'[p].dir = at[x] /\ rm'[p].todo = files[at[x]]
      BY <3>1
    <3>3. Removers(d) \subseteq Removers(d)' /\ Removers(d)' \subseteq Removers(d) \cup {p}
      BY <1>1, <2>4 DEF Removers
    <3>4. p \in Removers(d)' => files'[d] \subseteq rm'[p].todo
      BY <1>3, <3>2 DEF Removers
    <3>5. p \notin Removers(d)
      BY <2>4 DEF Removers
    <3> QED
      BY <1>1, <1>3, <2>1, <3>3, <3>4, <3>5
  <2> QED
    BY <2>2, <2>3, <2>4 DEF Effect, Removes
<1> QED
  BY <1>2, <1>3

LEMMA OthersLanded ==
  ASSUME CacheInv, TypeOK', NEW p \in Procs, Effect(p), NEW q \in Procs \ {p}
  PROVE  LandedInv(q)'
<1> USE DEF CacheInv, CommandInv
<1> SUFFICES ASSUME plan.serial, Installs(q), pc[q] \in {"stat", "scan", "prune", "succeeded"}
             PROVE  LandedInv(q)'
  BY DEF LandedInv, Effect, Installs, Op
<1>1. Live(q)
  BY DEF Live
<1>2. ~ Live(p)
  BY <1>1 DEF SerialInv
<1>3. /\ UNCHANGED <<plan, rm>> /\ pc'[q] = pc[q] /\ list'[q] = list[q]
      /\ \A d \in Dirs : files[d] \subseteq files'[d]
      /\ \A x \in Places \ {Staging(p)} : at'[x] = at[x]
  BY <1>1, <1>2 DEF Effect
<1>4. Home(q) \in Places /\ Home(q)' = Home(q) /\ Target'[q] = Target[q]
      /\ at'[Home(q)] = at[Home(q)]
  <2>1. Home(q) \in Places /\ Home(q) # Staging(p)
    BY Geometry
  <2> QED
    BY <1>3, <2>1 DEF Home, Target
<1>5. at[Home(q)] # None => at[Home(q)] \in Dirs
  BY <1>4 DEF TypeOK
<1>6. \A f : Has(Home(q), f) => Has(Home(q), f)'
  BY <1>3, <1>4, <1>5 DEF Has
<1>7. Meta(at[Home(q)])' = Meta(at[Home(q)])
  BY <1>3, <1>4 DEF Meta, Target
<1>8. LandedInv(q)
  OBVIOUS
<1> QED
  BY <1>3, <1>4, <1>6, <1>7, <1>8 DEF LandedInv, Landed, Accepted, Installs, Op

LEMMA OthersSwept ==
  ASSUME CacheInv, TypeOK', NEW p \in Procs, Effect(p), NEW q \in Procs \ {p}
  PROVE  SweptInv(q)'
<1> USE DEF CacheInv, CommandInv
<1>1. /\ UNCHANGED plan /\ pc'[q] = pc[q] /\ list'[q] = list[q] /\ rm'[q] = rm[q]
      /\ Leavings(q)' = Leavings(q)
  BY DEF Effect, Leavings, Tasks
<1> SUFFICES ASSUME plan.serial, q \in DOMAIN Op \ Tasks, Live(q), NEW x \in Leavings(q),
                    at'[x] # None
             PROVE  /\ pc[q] = "sweep"
                    /\ \/ x \in list[q]
                       \/ /\ rm[q] # None /\ rm[q].place = x /\ rm[q].dir = at'[x]
                          /\ files'[at'[x]] \subseteq rm[q].todo
  BY <1>1 DEF SweptInv, Op, Tasks, Live
<1>2. ~ Live(p)
  BY DEF SerialInv
<1>3. \/ UNCHANGED <<at, files>>
      \/ /\ p \in Tasks /\ \A d \in Dirs \ {New(p)} : files'[d] = files[d]
         /\ \A y \in Places \ {Staging(p)} : at'[y] = at[y] /\ at[y] # New(p)
  BY <1>2 DEF Effect
<1>4. x \in Places /\ (p \in Tasks => x # Staging(p))
  BY <1>1, Geometry DEF Leavings
<1>5. at'[x] = at[x] /\ at[x] \in Dirs
  BY <1>3, <1>4 DEF TypeOK
<1>6. files'[at[x]] = files[at[x]]
  BY <1>3, <1>4, <1>5
<1> QED
  BY <1>5, <1>6 DEF SweptInv

LEMMA HomeStays ==
  ASSUME CacheInv, TypeOK', NEW p \in Procs, Effect(p), SameInstall, hit' = {}
  PROVE  /\ at[Home(p)] # None => at'[Home(p)] = at[Home(p)]
         /\ at'[Home(p)] # None =>
              \E d \in Dirs : /\ at'[Home(p)] = d /\ files'[d] = Files /\ Removers(d)' = {}
                             /\ Meta(d) = Target[p]
<1> USE DEF CacheInv, CommandInv
<1>1. /\ hit = {} /\ p \in DOMAIN Op /\ UNCHANGED plan
      /\ \A q \in Procs \ {p} : rm'[q] = rm[q]
  BY DEF Effect
<1>2. /\ pc[p] \notin {"inspect", "backup", "replace", "cleanup", "reinstate", "scan", "prune"}
      /\ site[p] # "replaced"
  BY <1>1 DEF SharedInv
<1>3. Home(p) \in Places /\ Staging(p) \in Places /\ Home(p) \notin WorkPlaces /\ New(p) \in Dirs
  BY Geometry
<1>4. \A d \in Dirs : files'[d] \subseteq Files
  BY <1>1 DEF TypeOK, Dirs, Installed
<1>5. CASE at[Home(p)] # None
  <2>1. PICK d \in Dirs : /\ at[Home(p)] = d /\ files[d] = Files /\ Removers(d) = {}
                          /\ Meta(d) = Target[p]
    <3>1. at[Home(p)] \in Dirs
      BY <1>3, <1>5 DEF TypeOK
    <3> QED
      BY <1>1, <1>5, <3>1 DEF SharedInv
  <2>2. at'[Home(p)] = d
    BY <1>2, <1>5, <2>1 DEF Effect, Moves, Files
  <2>3. files'[d] = Files
    <3>1. ~ (rm[p] # None /\ rm[p].dir = d)
      BY <2>1 DEF Removers
    <3>2. files'[d] # files[d] => files[d] \subseteq files'[d]
      BY <3>1 DEF Effect, Writes
    <3> QED
      BY <1>4, <2>1, <3>2
  <2>4. ASSUME rm'[p] # rm[p], rm'[p] # None, rm'[p].dir = d PROVE FALSE
    <3>1. PICK x \in Places :
            /\ at[x] # None
            /\ rm'[p] = [place |-> x, dir |-> at[x], todo |-> files[at[x]]]
            /\ x \in WorkPlaces \/ pc[p] = "prune" \/ site[p] = "replaced"
      BY <2>4 DEF Effect, Removes
    <3>2. rm'[p].dir = at[x]
      BY <3>1
    <3>3. x = Home(p)
      BY <1>3, <2>1, <2>4, <3>1, <3>2 DEF OnePlace
    <3> QED
      BY <1>2, <1>3, <3>1, <3>3
  <2>5. Removers(d)' = {}
    BY <1>1, <2>1, <2>4 DEF Removers
  <2> QED
    BY <1>5, <2>1, <2>2, <2>3, <2>5
<1>6. CASE at[Home(p)] = None /\ at'[Home(p)] # None
  <2>1. pc[p] = "promote" /\ at'[Home(p)] = at[Staging(p)]
    BY <1>2, <1>6 DEF Effect, Moves
  <2>2. at[Staging(p)] = New(p) /\ files[New(p)] = Files /\ Removers(New(p)) = {}
    BY <1>1, <2>1 DEF FreshInv
  <2>3. at' # at
    BY <1>6
  <2>4. rm'[p] # rm[p] => rm'[p] = None
    BY <2>1, <2>3 DEF Effect, Removes
  <2>5. Removers(New(p))' = {}
    BY <1>1, <2>2, <2>4 DEF Removers
  <2>6. files'[New(p)] = Files
    BY <1>3, <2>1, <2>2 DEF Effect, Writes, Removers
  <2> QED
    BY <1>3, <1>6, <2>1, <2>2, <2>5, <2>6, MetaOfNew
<1> QED
  BY <1>5, <1>6

LEMMA OthersShared ==
  ASSUME CacheInv, TypeOK', NEW p \in Procs, Effect(p), NEW q \in Procs \ {p}
  PROVE  SharedInv(q)'
<1> USE DEF CacheInv, CommandInv
<1>1. UNCHANGED plan /\ p \in DOMAIN Op /\ pc'[q] = pc[q] /\ site'[q] = site[q]
      /\ hit \subseteq hit'
  BY DEF Effect
<1>2. /\ SameInstall' <=> SameInstall
      /\ Home(q)' = Home(q) /\ Target' = Target /\ Op' = Op /\ Files' = Files
      /\ \A d : Meta(d)' = Meta(d)
  BY <1>1 DEF SameInstall, OneTarget, Installed, Home, Target, Op, Meta
<1> SUFFICES ASSUME SameInstall, hit' = {}, q \in DOMAIN Op PROVE SharedInv(q)'
  BY <1>2 DEF SharedInv
<1>3. Target[q] = Target[p] /\ Home(q) = Home(p)
  BY <1>1 DEF SameInstall, OneTarget, Home
<1>4. SharedInv(q) /\ hit = {}
  BY <1>1
<1>5. /\ at[Home(q)] # None => at'[Home(q)] = at[Home(q)]
      /\ at'[Home(q)] # None =>
           \E d \in Dirs : /\ at'[Home(q)] = d /\ files'[d] = Files /\ Removers(d)' = {}
                          /\ Meta(d)' = Target[q]
  BY <1>2, <1>3, HomeStays
<1> QED
  BY <1>1, <1>2, <1>4, <1>5 DEF SharedInv

\* What remains to be shown of the command that makes the step: that it is where a
\* command may be that shares its target, ...
SharedStep(p) ==
  SameInstall /\ hit' = {} =>
    /\ pc'[p] \notin {"inspect", "backup", "replace", "cleanup", "reinstate", "scan", "prune"}
    /\ site'[p] # "replaced"
    /\ pc'[p] \in {"stat", "succeeded"} \/ site'[p] # "first" => at'[Home(p)] # None

LEMMA OwnShared ==
  ASSUME CacheInv, TypeOK', NEW p \in Procs, Effect(p), SharedStep(p)
  PROVE  SharedInv(p)'
<1>1. UNCHANGED plan
  BY DEF Effect
<1>2. /\ SameInstall' <=> SameInstall
      /\ Home(p)' = Home(p) /\ Target' = Target /\ Files' = Files
      /\ \A d : Meta(d)' = Meta(d)
  BY <1>1 DEF SameInstall, OneTarget, Op, Installed, Home, Target, Meta
<1> SUFFICES ASSUME SameInstall, hit' = {} PROVE SharedInv(p)'
  BY <1>2 DEF SharedInv
<1>3. at'[Home(p)] # None =>
        \E d \in Dirs : /\ at'[Home(p)] = d /\ files'[d] = Files /\ Removers(d)' = {}
                       /\ Meta(d)' = Target[p]
  BY <1>2, HomeStays
<1> QED
  BY <1>2, <1>3 DEF SharedInv, SharedStep

\* ... and what every step keeps.
OwnInv(p) ==
  /\ ControlInv(p) /\ StagingInv(p) /\ FreshInv(p) /\ SweptInv(p) /\ LandedInv(p)

LEMMA StepKeeps ==
  ASSUME CacheInv, NEW p \in Procs, Effect(p), SharedStep(p),
         TypeOK', OnePlace', SerialInv', OwnInv(p)'
  PROVE  CacheInv' /\ Effect(p)
<1>1. ASSUME NEW q \in Procs PROVE CommandInv(q)'
  BY OthersStaging, OthersFresh, OthersSwept, OthersLanded, OthersShared, OwnShared
     DEF CommandInv, OwnInv
<1>2. Dirs' = Dirs
  BY DEF Effect, Dirs, Installed
<1>3. \A d \in Dirs : DirInv(d)'
  BY DirsStayWhole
<1> QED
  BY <1>1, <1>2, <1>3 DEF CacheInv

LEMMA PlanStays ==
  ASSUME UNCHANGED plan
  PROVE  /\ Op' = Op /\ Tasks' = Tasks /\ Target' = Target /\ Installed' = Installed
         /\ Dirs' = Dirs /\ (SameInstall' <=> SameInstall)
         /\ \A p : Home(p)' = Home(p) /\ Leavings(p)' = Leavings(p) /\ (Installs(p)' <=> Installs(p))
         /\ \A d : Meta(d)' = Meta(d)
BY DEF Op, Tasks, Target, Installed, Dirs, SameInstall, OneTarget, Home, Leavings, Installs, Meta

\* A step that touches only p's place in the program.
OnlyControl(p) ==
  /\ \A q \in Procs \ {p} :
       /\ pc'[q] = pc[q] /\ site'[q] = site[q] /\ left'[q] = left[q]
       /\ list'[q] = list[q] /\ result'[q] = result[q]
  /\ UNCHANGED plan

LEMMA QuietEffect ==
  ASSUME CacheInv, NEW p \in Procs, OnlyControl(p), UNCHANGED <<at, files, rm, hit>>,
         Live(p)
  PROVE  Effect(p) /\ OnePlace'
<1>1. p \in DOMAIN Op
  BY DEF CacheInv, CommandInv, ControlInv, Live
<1>2. Moves(p) /\ Writes(p) /\ Removes(p)
  BY DEF Moves, Writes, Removes
<1> QED
  BY <1>1, <1>2 DEF Effect, OnlyControl, CacheInv, OnePlace

LEMMA LiveStaysAlone ==
  ASSUME CacheInv, NEW p \in Procs, Live(p), UNCHANGED plan,
         \A q \in Procs \ {p} : pc'[q] = pc[q]
  PROVE  SerialInv'
BY DEF CacheInv, SerialInv, Live

\* Outside of its sweep a command leaves the other work directories as they are.
LEMMA SweptStays ==
  ASSUME CacheInv, NEW p \in Procs, Live(p), Effect(p), pc[p] # "sweep"
  PROVE  SweptInv(p)'
<1>1. /\ UNCHANGED plan /\ Op' = Op /\ Tasks' = Tasks /\ Leavings(p)' = Leavings(p)
  BY PlanStays DEF Effect
<1>2. \A x \in Leavings(p) : x \in Places /\ x \notin Own(p)
  BY Geometry DEF CacheInv, Leavings, Own
<1> SUFFICES ASSUME plan.serial, p \in DOMAIN Op \ Tasks, NEW x \in Leavings(p)
             PROVE  at'[x] = None
  BY <1>1 DEF SweptInv
<1>3. at[x] = None
  BY DEF CacheInv, CommandInv, SweptInv
<1> QED
  BY <1>2, <1>3 DEF Effect, Moves

LEMMA SweepEndsKeeps ==
  ASSUME CacheInv, NEW p \in Procs, SweepEnds(p), UNCHANGED plan
  PROVE  CacheInv' /\ Effect(p)
<1> USE DEF SweepEnds, Turn, Go
<1>1. TypeOK /\ CommandInv(p) /\ Live(p) /\ p \in DOMAIN Op
  BY DEF CacheInv, CommandInv, ControlInv, Live
<1>2. TypeOK'
  BY <1>1, PlanStays DEF TypeOK, FirstStep, Labels
<1>3. Effect(p) /\ OnePlace' /\ SerialInv'
  BY <1>1, QuietEffect, LiveStaysAlone DEF OnlyControl, TypeOK
<1>4. pc'[p] = FirstStep(p) /\ UNCHANGED <<plan, at, files, site, left, rm, list, result, hit>>
  BY <1>1 DEF TypeOK
<1>5. SharedStep(p)
  BY <1>1, <1>4 DEF SharedStep, CommandInv, ControlInv, FirstStep, SameInstall
<1>6. ControlInv(p)'
  BY <1>1, <1>4, PlanStays DEF CommandInv, ControlInv, FirstStep, Commands
<1>7. StagingInv(p)'
  BY <1>1, <1>4 DEF CommandInv, ControlInv, StagingInv, FirstStep, Early
<1>8. FreshInv(p)'
  BY <1>1, <1>4 DEF CommandInv, ControlInv, FreshInv, FirstStep, Early, Removers
<1>9. SweptInv(p)'
  BY <1>1, <1>4, PlanStays DEF CommandInv, SweptInv
<1>10. LandedInv(p)'
  BY <1>1, <1>4, PlanStays DEF CommandInv, LandedInv, FirstStep, Installs
<1> QED
  BY <1>2, <1>3, <1>5, <1>6, <1>7, <1>8, <1>9, <1>10, StepKeeps DEF OwnInv

LEMMA SucceedKeeps ==
  ASSUME CacheInv, NEW p \in Procs, Succeed(p), UNCHANGED plan
  PROVE  CacheInv' /\ Effect(p)
<1> USE DEF Succeed, Turn, Go
<1>1. TypeOK /\ CommandInv(p) /\ Live(p) /\ p \in DOMAIN Op
  BY DEF CacheInv, CommandInv, ControlInv, Live
<1>2. /\ pc[p] \in {"succeeded", "prune"} /\ rm[p] = None /\ pc'[p] = "done" /\ result'[p] = "ok"
      /\ UNCHANGED <<plan, at, files, site, left, rm, list, hit>>
  BY <1>1 DEF TypeOK, Return
<1>3. TypeOK'
  BY <1>1, PlanStays DEF TypeOK, Labels, Return
<1>4. Effect(p) /\ OnePlace' /\ SerialInv'
  BY <1>1, <1>2, QuietEffect, LiveStaysAlone DEF OnlyControl, TypeOK, Return
<1>5. SharedStep(p)
  BY <1>1, <1>2 DEF SharedStep, CommandInv, ControlInv, SharedInv, SameInstall
<1>6. ControlInv(p)'
  BY <1>1, <1>2, PlanStays DEF CommandInv, ControlInv, StagingInv
<1>7. StagingInv(p)'
  BY <1>1, <1>2 DEF CommandInv, ControlInv, StagingInv, Early
<1>8. FreshInv(p)'
  BY <1>1, <1>2 DEF CommandInv, ControlInv, FreshInv, Early, Removers
<1>9. SweptInv(p)'
  BY <1>1, <1>2, <1>4, SweptStays
<1>10. LandedInv(p)'
  BY <1>1, <1>2, PlanStays DEF CommandInv, LandedInv, Installs
<1> QED
  BY <1>3, <1>4, <1>5, <1>6, <1>7, <1>8, <1>9, <1>10, StepKeeps DEF OwnInv

LEMMA FailKeeps ==
  ASSUME CacheInv, NEW p \in Procs, Fail(p), UNCHANGED plan
  PROVE  CacheInv' /\ Effect(p)
<1> USE DEF Fail, Turn, Go
<1>1. TypeOK /\ CommandInv(p) /\ Live(p) /\ p \in DOMAIN Op
  BY DEF CacheInv, CommandInv, ControlInv, Live
<1>2. /\ rm[p] = None /\ pc'[p] = "done"
      /\ \/ pc[p] = "failed" /\ result'[p] = "err"
         \/ pc[p] = "stranded" /\ result'[p] = "stranded"
         \/ pc[p] = "dropped" /\ result'[p] = "cancelled"
      /\ UNCHANGED <<plan, at, files, site, left, rm, list, hit>>
  BY <1>1 DEF TypeOK, Return
<1>3. TypeOK'
  BY <1>1, PlanStays DEF TypeOK, Labels, Return
<1>4. Effect(p) /\ OnePlace' /\ SerialInv'
  BY <1>1, <1>2, QuietEffect, LiveStaysAlone DEF OnlyControl, TypeOK, Return
<1>5. SharedStep(p)
  BY <1>1, <1>2 DEF SharedStep, CommandInv, ControlInv, SharedInv, SameInstall
<1>6. ControlInv(p)'
  BY <1>1, <1>2, PlanStays DEF CommandInv, ControlInv, StagingInv
<1>7. StagingInv(p)'
  BY <1>1, <1>2 DEF CommandInv, ControlInv, StagingInv, Early
<1>8. FreshInv(p)'
  BY <1>1, <1>2 DEF CommandInv, ControlInv, FreshInv, Early, Removers
<1>9. SweptInv(p)'
  BY <1>1, <1>2, <1>4, SweptStays
<1>10. LandedInv(p)'
  BY <1>1, <1>2, PlanStays DEF CommandInv, LandedInv, Installs
<1> QED
  BY <1>3, <1>4, <1>5, <1>6, <1>7, <1>8, <1>9, <1>10, StepKeeps DEF OwnInv

LEMMA CrashKeeps ==
  ASSUME CacheInv, NEW p \in Procs, Crash(p), UNCHANGED plan
  PROVE  CacheInv' /\ Effect(p)
<1> USE DEF Crash, Turn, Go
<1>1. TypeOK /\ CommandInv(p) /\ Live(p) /\ p \in DOMAIN Op
  BY DEF CacheInv, CommandInv, ControlInv, Live
<1>2. /\ pc'[p] = "crashed"
      /\ UNCHANGED <<plan, at, files, site, left, rm, list, result, hit>>
  BY <1>1 DEF TypeOK
<1>3. TypeOK'
  BY <1>1, PlanStays DEF TypeOK, Labels
<1>4. Effect(p) /\ OnePlace' /\ SerialInv'
  BY <1>1, <1>2, QuietEffect, LiveStaysAlone DEF OnlyControl, TypeOK
<1>5. SharedStep(p)
  BY <1>1, <1>2 DEF SharedStep, CommandInv, ControlInv, SharedInv, SameInstall
<1>6. ControlInv(p)'
  BY <1>1, <1>2, PlanStays DEF CommandInv, ControlInv, StagingInv, Live
<1>7. StagingInv(p)'
  BY <1>1, <1>2 DEF CommandInv, ControlInv, StagingInv, Early
<1>8. FreshInv(p)'
  BY <1>1, <1>2 DEF CommandInv, ControlInv, FreshInv, Early, Removers
<1>9. SweptInv(p)'
  BY <1>2 DEF SweptInv, Live
<1>10. LandedInv(p)'
  BY <1>1, <1>2, PlanStays DEF CommandInv, LandedInv, Installs
<1> QED
  BY <1>3, <1>4, <1>5, <1>6, <1>7, <1>8, <1>9, <1>10, StepKeeps DEF OwnInv

LEMMA ScanKeeps ==
  ASSUME CacheInv, NEW p \in Procs, Scan(p), UNCHANGED plan
  PROVE  CacheInv' /\ Effect(p)
<1> USE DEF Scan, Turn, Go
<1>1. TypeOK /\ CommandInv(p) /\ Live(p) /\ p \in DOMAIN Op
  BY DEF CacheInv, CommandInv, ControlInv, Live
<1>2. /\ pc[p] = "scan" /\ pc'[p] \in {"failed", "prune"} /\ rm[p] = None
      /\ list'[p] = Entries \ (IF Op[p] = "update" THEN {Home(p)} ELSE {})
      /\ UNCHANGED <<plan, at, files, site, left, rm, result, hit>>
  BY <1>1 DEF TypeOK, Entries, Places
<1>3. TypeOK'
  BY <1>1, PlanStays DEF TypeOK, Labels, Entries, Places
<1>4. Effect(p) /\ OnePlace' /\ SerialInv'
  BY <1>1, <1>2, QuietEffect, LiveStaysAlone DEF OnlyControl, TypeOK, Entries, Places
<1>5. SharedStep(p)
  BY <1>1, <1>2 DEF SharedStep, CommandInv, ControlInv, SharedInv, SameInstall
<1>6. ControlInv(p)'
  BY <1>1, <1>2, PlanStays DEF CommandInv, ControlInv, StagingInv, Entries
<1>7. StagingInv(p)'
  BY <1>1, <1>2 DEF CommandInv, ControlInv, StagingInv, Early
<1>8. FreshInv(p)'
  BY <1>1, <1>2 DEF CommandInv, ControlInv, FreshInv, Early, Removers
<1>9. SweptInv(p)'
  BY <1>1, <1>2, <1>4, SweptStays
<1>10. LandedInv(p)'
  BY <1>1, <1>2, PlanStays DEF CommandInv, LandedInv, Installs, ControlInv, Landed, Accepted, Has, Commands
<1> QED
  BY <1>3, <1>4, <1>5, <1>6, <1>7, <1>8, <1>9, <1>10, StepKeeps DEF OwnInv

(***************************************************************************)
(* Steps that begin a removal                                              *)
(***************************************************************************)

LEMMA RemovalEffect ==
  ASSUME CacheInv, NEW p \in Procs, Live(p), rm[p] = None, NEW x \in Places, NEW l,
         Remove(p, x, l), OnlyControl(p), UNCHANGED <<at, files>>, hit \subseteq hit',
         \A q \in Procs \ {p} : x \in {Staging(q), Backup(q)} /\ Live(q) => hit' # {},
         x \in WorkPlaces \/ pc[p] = "prune" \/ site[p] = "replaced"
  PROVE  /\ Effect(p) /\ OnePlace' /\ SerialInv' /\ pc'[p] = l
         /\ rm' \in [Procs -> Removals \cup {None}]
         /\ \A q \in Procs : rm'[q] # None => rm'[q].dir \in Dirs
         /\ at[x] = None => rm'[p] = None
         /\ at[x] # None => /\ rm'[p] # None /\ rm'[p].place = x /\ rm'[p].dir = at[x]
                            /\ rm'[p].todo = files[at[x]]
<1>1. TypeOK /\ p \in DOMAIN Op
  BY DEF CacheInv, CommandInv, ControlInv, Live
<1>2. /\ pc'[p] = l /\ \A q \in Procs \ {p} : pc'[q] = pc[q] /\ rm'[q] = rm[q]
      /\ at[x] = None => rm'[p] = None
      /\ at[x] # None => rm'[p] = [place |-> x, dir |-> at[x], todo |-> files[at[x]]]
  BY <1>1 DEF Remove, Go, TypeOK
<1>3. at[x] # None => /\ at[x] \in Dirs /\ at[x] \in AllDirs /\ files[at[x]] \subseteq Files
                      /\ [place |-> x, dir |-> at[x], todo |-> files[at[x]]] \in Removals
  BY <1>1, PlanTypes DEF TypeOK, Removals
<1>4. \A r \in Removals : r # None
  BY NoneAssumption
<1>5. /\ rm' \in [Procs -> Removals \cup {None}]
      /\ \A q \in Procs : rm'[q] # None => rm'[q].dir \in Dirs
  BY <1>1, <1>2, <1>3 DEF TypeOK, Remove
<1>6. Moves(p) /\ Writes(p)
  BY DEF Moves, Writes
<1>7. Removes(p)
  BY <1>2, <1>3, <1>4 DEF Removes
<1>8. OnePlace' /\ SerialInv'
  BY <1>2, LiveStaysAlone DEF CacheInv, OnePlace, OnlyControl
<1>9. Effect(p)
  BY <1>1, <1>2, <1>6, <1>7 DEF Effect, OnlyControl
<1> QED
  BY <1>2, <1>3, <1>4, <1>5, <1>8, <1>9

\* It is left to show where the command goes from there.
LEMMA RemovalKeeps ==
  ASSUME CacheInv, NEW p \in Procs, Live(p), rm[p] = None, NEW x \in Places,
         NEW l \in {"failed", "stranded", "succeeded", "scan", "reinstate", "dropped", "prune"},
         Remove(p, x, l), OnlyControl(p), UNCHANGED <<at, files, hit, result>>,
         left'[p] \in {left[p], {}}, pc[p] = "unpack" /\ l # "dropped" => left'[p] = {}, TypeOK',
         x \in WorkPlaces \/ pc[p] = "prune" \/ site[p] = "replaced",
         \A q \in Procs \ {p} : x \notin {Staging(q), Backup(q)}, pc[p] \notin {"sweep", "dropped"},
         \/ l \in {"reinstate", "dropped"} \/ at[Staging(p)] = None
         \/ x = Staging(p) /\ l \in {"failed", "stranded", "succeeded"},
         ControlInv(p)', LandedInv(p)', SharedStep(p)
  PROVE  CacheInv' /\ Effect(p)
<1>1. /\ Effect(p) /\ OnePlace' /\ SerialInv' /\ pc'[p] = l
      /\ at[x] # None => /\ rm'[p] # None /\ rm'[p].place = x /\ rm'[p].dir = at[x]
                         /\ rm'[p].todo = files[at[x]]
  BY RemovalEffect
<1>2. CommandInv(p) /\ result[p] = "none" /\ TypeOK
  BY DEF CacheInv, CommandInv, ControlInv, Live
<1>3. StagingInv(p)'
  BY <1>1, <1>2 DEF CommandInv, StagingInv, Early
<1>4. FreshInv(p)'
  <2>1. left'[p] # {} => pc[p] = "unpack" /\ pc'[p] = "dropped" /\ left'[p] = left[p]
    BY <1>1, <1>2 DEF CommandInv, FreshInv, Live
  <2> QED
    BY <1>1, <1>2, <2>1 DEF CommandInv, FreshInv, Early
<1>5. SweptInv(p)'
  BY <1>1, SweptStays
<1> QED
  BY <1>1, <1>3, <1>4, <1>5, StepKeeps DEF OwnInv

LEMMA FailsKeeps ==
  ASSUME CacheInv, NEW p \in Procs, Live(p), rm[p] = None, pc[p] \notin {"sweep", "dropped"},
         Fails(p) \/ (Strands(p) /\ Op[p] \in {"install", "update"}),
         OnlyControl(p), UNCHANGED <<at, files, hit, result, site, list>>,
         left' \in [Procs -> SUBSET Payload], left'[p] \in {left[p], {}},
         pc[p] = "unpack" => left'[p] = {}
  PROVE  CacheInv' /\ Effect(p)
<1>1. TypeOK /\ CommandInv(p) /\ Staging(p) \in Places /\ Staging(p) \in WorkPlaces
  BY Geometry DEF CacheInv
<1>2. PICK l \in {"failed", "stranded"} :
        Remove(p, Staging(p), l) /\ (l = "stranded" => Op[p] \in {"install", "update"})
  BY DEF Fails, Strands
<1>3. \A q \in Procs \ {p} : Staging(p) \notin {Staging(q), Backup(q)}
  BY <1>1, Geometry
<1>4. /\ Effect(p) /\ pc'[p] = l
      /\ rm' \in [Procs -> Removals \cup {None}]
      /\ \A q \in Procs : rm'[q] # None => rm'[q].dir \in Dirs
  BY <1>1, <1>2, <1>3, RemovalEffect
<1>5. TypeOK'
  <2>1. pc' \in [Procs -> Labels]
    BY <1>1, <1>2 DEF TypeOK, Remove, Go, Labels
  <2> QED
    BY <1>1, <1>4, <2>1, PlanStays DEF TypeOK, OnlyControl
<1>6. ControlInv(p)' /\ LandedInv(p)'
  <2>1. UNCHANGED plan /\ p \in DOMAIN Op
    BY <1>4 DEF Effect
  <2> QED
    BY <1>1, <1>2, <1>4, <2>1, PlanStays DEF CommandInv, ControlInv, LandedInv, Live
<1>7. SharedStep(p)
  BY <1>1, <1>4 DEF CommandInv, SharedInv, SharedStep, Effect
<1> QED
  BY <1>1, <1>2, <1>3, <1>5, <1>6, <1>7, RemovalKeeps

LEMMA PreparationFailsKeeps ==
  ASSUME CacheInv, NEW p \in Procs, PreparationFails(p), UNCHANGED plan
  PROVE  CacheInv' /\ Effect(p)
<1>1. TypeOK
  BY DEF CacheInv
<1>2. Live(p) /\ rm[p] = None /\ pc[p] \notin {"sweep", "dropped"}
  BY DEF PreparationFails, Turn, Live
<1>3. OnlyControl(p) /\ left' \in [Procs -> SUBSET Payload] /\ left'[p] = {}
  BY <1>1 DEF PreparationFails, OnlyControl, Fails, Remove, Go, TypeOK
<1> QED
  BY <1>1, <1>2, <1>3, FailsKeeps DEF PreparationFails

(***************************************************************************)
(* validate_cached_binary                                                  *)
(***************************************************************************)

\* What both checks leave alone.
CheckRest == UNCHANGED <<plan, at, files, site, left, list, result, hit>>

\* From a check to a step that removes nothing.
LEMMA CheckGoes ==
  ASSUME CacheInv, NEW p \in Procs, pc[p] \in {"check", "read", "stat"}, rm[p] = None, CheckRest,
         NEW l \in {"read", "stat", "stage", "inspect", "cleanup", "scan", "succeeded"},
         Go(p, l), UNCHANGED rm,
         l \in {"stat", "scan", "succeeded"} => at[Home(p)] # None,
         l = "stat" => Has(Home(p), "meta") /\ Meta(at[Home(p)]) = Target[p],
         l \in {"scan", "succeeded"} =>
           site[p] # "conflict" /\ pc[p] = "stat" /\ Has(Home(p), "exe"),
         l = "scan" => Op[p] = "update",
         l = "stage" => site[p] = "first",
         l = "inspect" => site[p] = "conflict" /\ ~Landed(p),
         l = "cleanup" => site[p] = "replaced"
  PROVE  CacheInv' /\ Effect(p)
<1> USE DEF CheckRest
<1>1. TypeOK /\ CommandInv(p) /\ Live(p) /\ p \in DOMAIN Op
  BY DEF CacheInv, CommandInv, ControlInv, Live
<1>2. pc'[p] = l
  BY <1>1 DEF Go, TypeOK
<1>3. TypeOK'
  BY <1>1, PlanStays DEF TypeOK, Go, Labels
<1>4. Effect(p) /\ OnePlace' /\ SerialInv'
  BY <1>1, <1>2, QuietEffect, LiveStaysAlone DEF OnlyControl, TypeOK, Go
<1>5. SharedStep(p)
  <2> SUFFICES ASSUME SameInstall, hit = {}
               PROVE  /\ l \notin {"inspect", "backup", "replace", "cleanup", "reinstate", "scan", "prune"}
                      /\ site[p] # "replaced"
                      /\ l \in {"stat", "succeeded"} \/ site[p] # "first" => at[Home(p)] # None
    BY <1>2 DEF SharedStep
  <2>1. Op[p] = "install" /\ site[p] # "replaced"
        /\ (site[p] # "first" => at[Home(p)] # None)
        /\ (at[Home(p)] # None => Landed(p))
    <3>1. SharedInv(p) /\ Op[p] = "install"
      BY <1>1 DEF CommandInv, SameInstall
    <3>2. at[Home(p)] # None =>
            files[at[Home(p)]] = Files /\ Meta(at[Home(p)]) = Target[p]
      BY <1>1, <3>1 DEF SharedInv
    <3>3. at[Home(p)] # None => Landed(p)
      BY <3>2 DEF Landed, Accepted, Has, Files, Payload
    <3> QED
      BY <1>1, <3>1, <3>3 DEF SharedInv
  <2> QED
    BY <2>1
<1>6. ControlInv(p)'
  BY <1>1, <1>2, PlanStays DEF CommandInv, ControlInv
<1>7. StagingInv(p)'
  BY <1>1, <1>2 DEF CommandInv, StagingInv, Early
<1>8. FreshInv(p)'
  BY <1>1, <1>2 DEF CommandInv, FreshInv, Early, Removers
<1>9. SweptInv(p)'
  BY <1>1, <1>4, SweptStays
<1>10. LandedInv(p)'
  BY <1>1, <1>2, PlanStays DEF CommandInv, LandedInv, Landed, Accepted, Has
<1> QED
  BY <1>3, <1>4, <1>5, <1>6, <1>7, <1>8, <1>9, <1>10, StepKeeps DEF OwnInv

\* A valid entry: what is not needed any more is removed.
LEMMA ValidKeeps ==
  ASSUME CacheInv, NEW p \in Procs, pc[p] = "stat", rm[p] = None, CheckRest,
         Valid(p), Has(Home(p), "exe")
  PROVE  CacheInv' /\ Effect(p)
<1>1. /\ TypeOK /\ CommandInv(p) /\ OnePlace /\ Live(p) /\ p \in DOMAIN Op
      /\ Home(p) \in Places /\ at[Home(p)] # None
  BY Geometry DEF CacheInv, CommandInv, ControlInv, Live, Has
<1>2. OnlyControl(p) /\ left'[p] = left[p]
  BY <1>1 DEF CheckRest, OnlyControl, Valid, Remove, Go, TypeOK
<1>3. ASSUME NEW x \in {Staging(p), Backup(p)}, Remove(p, x, Succeeds(p)),
             site[p] # "first",
             (x = Staging(p) /\ site[p] = "conflict") \/ at[Staging(p)] = None,
             site[p] = "replaced" \/ site[p] = "conflict"
      PROVE  CacheInv' /\ Effect(p)
  <2>1. /\ x \in Places /\ x \in WorkPlaces /\ Home(p) # x
        /\ \A q \in Procs \ {p} : x \notin {Staging(q), Backup(q)}
    BY <1>1, Geometry
  <2>2. site[p] = "conflict" => Succeeds(p) = "succeeded"
    BY <1>1 DEF CommandInv, ControlInv, Succeeds
  <2>3. /\ Effect(p) /\ pc'[p] = Succeeds(p) /\ rm' \in [Procs -> Removals \cup {None}]
        /\ \A q \in Procs : rm'[q] # None => rm'[q].dir \in Dirs
        /\ at[x] = None => rm'[p] = None
        /\ at[x] # None => rm'[p].place = x /\ rm'[p].dir = at[x]
    BY <1>1, <1>2, <1>3, <2>1, RemovalEffect DEF CheckRest
  <2>4. Succeeds(p) \in {"scan", "succeeded"} /\ (Succeeds(p) = "scan" => Op[p] = "update")
    BY DEF Succeeds
  <2>5. TypeOK'
    <3>1. pc' \in [Procs -> Labels]
      BY <1>1, <1>3, <2>4 DEF TypeOK, Remove, Go, Labels
    <3> QED
      BY <1>1, <2>3, <3>1, PlanStays DEF TypeOK, CheckRest
  <2>6. ControlInv(p)'
    BY <1>1, <2>3, <2>4, PlanStays DEF CommandInv, ControlInv, CheckRest
  <2>7. LandedInv(p)'
    <3>1. at[x] # None => at[x] # at[Home(p)]
      BY <1>1, <2>1 DEF OnePlace
    <3>2. plan.serial /\ Installs(p) => Landed(p)
      BY <1>1, <1>3 DEF CommandInv, LandedInv, Landed, Accepted
    <3> QED
      BY <2>1, <2>3, <2>4, <3>1, <3>2, PlanStays DEF LandedInv, Landed, Accepted, Has, CheckRest
  <2>8. SharedStep(p)
    BY <1>1, <1>3, <2>2, <2>3, <2>4 DEF CommandInv, SharedInv, SharedStep, CheckRest
  <2> QED
    BY <1>1, <1>2, <1>3, <2>1, <2>2, <2>4, <2>5, <2>6, <2>7, <2>8, RemovalKeeps DEF CheckRest
<1>4. CASE site[p] = "conflict"
  BY <1>3, <1>4 DEF Valid
<1>5. CASE site[p] = "replaced"
  BY <1>1, <1>3, <1>5 DEF Valid, CommandInv, StagingInv
<1>6. CASE site[p] \notin {"conflict", "replaced"}
  <2>1. Go(p, Succeeds(p)) /\ UNCHANGED rm
    BY <1>6 DEF Valid
  <2>2. Succeeds(p) \in {"scan", "succeeded"} /\ (Succeeds(p) = "scan" => Op[p] = "update")
    BY DEF Succeeds
  <2> QED
    BY <1>1, <1>6, <2>1, <2>2, CheckGoes
<1> QED
  BY <1>4, <1>5, <1>6

\* An entry that is not valid: begin, give up or take the backup back.
LEMMA InvalidKeeps ==
  ASSUME CacheInv, NEW p \in Procs, pc[p] \in {"check", "read", "stat"}, rm[p] = None, CheckRest,
         Invalid(p), ~Landed(p)
  PROVE  CacheInv' /\ Effect(p)
<1>1. /\ TypeOK /\ CommandInv(p) /\ Live(p) /\ p \in DOMAIN Op /\ Home(p) \in Places
      /\ site[p] \in {"first", "placed", "conflict", "replaced"}
  BY Geometry DEF CacheInv, CommandInv, ControlInv, Live, TypeOK
<1>2. OnlyControl(p) /\ left' \in [Procs -> SUBSET Payload] /\ left'[p] = left[p]
  BY <1>1 DEF CheckRest, OnlyControl, Invalid, Fails, Remove, Go, TypeOK
<1>3. CASE site[p] = "first"
  BY <1>1, <1>3, CheckGoes DEF Invalid
<1>4. CASE site[p] = "placed"
  BY <1>1, <1>2, <1>4, FailsKeeps DEF Invalid, CheckRest
<1>5. CASE site[p] = "conflict"
  BY <1>1, <1>5, CheckGoes DEF Invalid
<1>6. CASE site[p] = "replaced"
  BY <1>1, <1>6, CheckGoes DEF Invalid
<1> QED
  BY <1>1, <1>3, <1>4, <1>5, <1>6

LEMMA CheckMetadataKeeps ==
  ASSUME CacheInv, NEW p \in Procs, CheckMetadata(p), UNCHANGED plan
  PROVE  CacheInv' /\ Effect(p)
<1>1. CheckRest /\ pc[p] = "check" /\ rm[p] = None
  BY DEF CheckRest, CheckMetadata, Turn
<1>2. CASE Has(Home(p), "meta")
  BY <1>1, <1>2, CheckGoes DEF CheckMetadata, Has
<1>3. CASE ~Has(Home(p), "meta")
  BY <1>1, <1>3, InvalidKeeps DEF CheckMetadata, Landed, Accepted
<1> QED
  BY <1>2, <1>3

\* An error while the entry is looked at.
LEMMA CheckFailsKeeps ==
  ASSUME CacheInv, NEW p \in Procs, pc[p] \in {"check", "read"}, rm[p] = None, CheckRest,
         Fails(p) \/ Strands(p)
  PROVE  CacheInv' /\ Effect(p)
<1>1. TypeOK /\ CommandInv(p) /\ Live(p)
  BY DEF CacheInv, Live
<1>2. OnlyControl(p) /\ left' \in [Procs -> SUBSET Payload] /\ left'[p] = left[p]
  BY <1>1 DEF CheckRest, OnlyControl, Fails, Strands, Remove, Go, TypeOK
<1>3. Op[p] \in {"install", "update"}
  BY <1>1 DEF CommandInv, ControlInv
<1> QED
  BY <1>1, <1>2, <1>3, FailsKeeps DEF CheckRest

LEMMA ReadMetadataKeeps ==
  ASSUME CacheInv, NEW p \in Procs, ReadMetadata(p), UNCHANGED plan
  PROVE  CacheInv' /\ Effect(p)
<1>1. CheckRest /\ pc[p] = "read" /\ rm[p] = None
  BY DEF CheckRest, ReadMetadata, Turn
<1>2. CASE ~Has(Home(p), "meta")
  BY <1>1, <1>2, CheckFailsKeeps DEF ReadMetadata
<1>3. CASE Has(Home(p), "meta") /\ Meta(at[Home(p)]) = Target[p]
  BY <1>1, <1>3, CheckGoes DEF ReadMetadata, Has
<1>4. CASE Has(Home(p), "meta") /\ Meta(at[Home(p)]) # Target[p]
  BY <1>1, <1>4, InvalidKeeps DEF ReadMetadata, Landed
<1> QED
  BY <1>2, <1>3, <1>4

LEMMA ValidationFailsKeeps ==
  ASSUME CacheInv, NEW p \in Procs, ValidationFails(p), UNCHANGED plan
  PROVE  CacheInv' /\ Effect(p)
BY CheckFailsKeeps DEF CheckRest, ValidationFails, Turn

LEMMA CheckExecutableKeeps ==
  ASSUME CacheInv, NEW p \in Procs, CheckExecutable(p), UNCHANGED plan
  PROVE  CacheInv' /\ Effect(p)
<1>1. CheckRest /\ pc[p] = "stat" /\ rm[p] = None
  BY DEF CheckRest, CheckExecutable, Turn
<1> QED
  BY <1>1, ValidKeeps, InvalidKeeps DEF CheckExecutable, Landed, Accepted

(***************************************************************************)
(* The start of a command, its sweep and its end                           *)
(***************************************************************************)

LEMMA BeginKeeps ==
  ASSUME CacheInv, NEW p \in Procs, Begin(p), UNCHANGED plan
  PROVE  CacheInv' /\ Effect(p)
<1>1. TypeOK /\ CommandInv(p) /\ pc[p] = "idle" /\ p \in DOMAIN Op /\ ~Live(p)
  BY DEF CacheInv, CommandInv, Begin, Live
<1>2. /\ UNCHANGED <<plan, at, files, site, left, rm, result, hit>>
      /\ \A q \in Procs \ {p} : pc'[q] = pc[q] /\ list'[q] = list[q]
      /\ plan.serial => \A q \in Procs : ~Live(q)
      /\ \/ p \in Tasks /\ pc'[p] = FirstStep(p)
         \/ p \notin Tasks /\ pc'[p] = "sweep" /\ list'[p] = {x \in WorkPlaces : at[x] # None}
  BY <1>1 DEF Begin, Go, TypeOK
<1>3. p \in Tasks => FirstStep(p) = "check" /\ Op[p] = "install"
  BY <1>1, PlanTypes DEF FirstStep
<1>4. TypeOK'
  BY <1>1, PlanStays, Geometry DEF TypeOK, Begin, Go, FirstStep, Labels
<1>5. Effect(p)
  <2>1. Moves(p) /\ Writes(p) /\ Removes(p)
    BY <1>2 DEF Moves, Writes, Removes
  <2> QED
    BY <1>1, <1>2, <2>1 DEF Effect
<1>6. OnePlace' /\ SerialInv'
  BY <1>1, <1>2 DEF CacheInv, OnePlace, SerialInv, Live
<1>7. SharedStep(p)
  BY <1>1, <1>2, <1>3 DEF CommandInv, ControlInv, SharedStep
<1>8. ControlInv(p)'
  BY <1>1, <1>2, <1>3, PlanStays DEF CommandInv, ControlInv
<1>9. StagingInv(p)'
  BY <1>1, <1>2, <1>3 DEF CommandInv, StagingInv, Early
<1>10. FreshInv(p)'
  BY <1>1, <1>2, <1>3 DEF CommandInv, ControlInv, FreshInv, Early, Removers
<1>11. SweptInv(p)'
  BY <1>2, PlanStays DEF SweptInv, Leavings, WorkPlaces
<1>12. LandedInv(p)'
  BY <1>1, <1>2, <1>3, PlanStays DEF LandedInv
<1> QED
  BY <1>4, <1>5, <1>6, <1>7, <1>8, <1>9, <1>10, <1>11, <1>12, StepKeeps DEF OwnInv

LEMMA SweepKeeps ==
  ASSUME CacheInv, NEW p \in Procs, Sweep(p), UNCHANGED plan
  PROVE  CacheInv' /\ Effect(p)
<1>1. /\ TypeOK /\ CommandInv(p) /\ Live(p) /\ p \in DOMAIN Op /\ pc[p] = "sweep"
      /\ rm[p] = None
  BY DEF CacheInv, CommandInv, ControlInv, Live, Sweep, Turn
<1>2. PICK x \in list[p] :
        /\ list' = [list EXCEPT ![p] = @ \ {x}]
        /\ Remove(p, x, "sweep")
        /\ hit' = hit \cup {q \in {x[2]} : Live(q)}
  BY DEF Sweep
<1>3. x \in WorkPlaces /\ x \in Places /\ x[2] \in Procs
      /\ \A q \in Procs : x \in {Staging(q), Backup(q)} => x[2] = q
  BY <1>1, <1>2, Geometry, WorkPlacesAreOwned DEF CommandInv, ControlInv
<1>4. /\ OnlyControl(p) /\ UNCHANGED <<plan, at, files, site, left, result>>
      /\ list'[p] = list[p] \ {x}
      /\ list' \in [Procs -> SUBSET Places] /\ pc' \in [Procs -> Labels]
      /\ hit' \in SUBSET Procs /\ hit \subseteq hit'
  BY <1>1, <1>2, <1>3 DEF OnlyControl, Sweep, Remove, Go, TypeOK, Labels
<1>5. /\ Effect(p) /\ OnePlace' /\ SerialInv' /\ pc'[p] = "sweep"
      /\ rm' \in [Procs -> Removals \cup {None}]
      /\ \A q \in Procs : rm'[q] # None => rm'[q].dir \in Dirs
      /\ at[x] = None => rm'[p] = None
      /\ at[x] # None => /\ rm'[p] # None /\ rm'[p].place = x /\ rm'[p].dir = at[x]
                         /\ rm'[p].todo = files[at[x]]
  BY <1>1, <1>2, <1>3, <1>4, RemovalEffect
<1>6. TypeOK'
  BY <1>1, <1>4, <1>5, PlanStays DEF TypeOK
<1>7. SharedStep(p)
  BY <1>1, <1>4, <1>5 DEF CommandInv, ControlInv, SharedStep
<1>8. ControlInv(p)'
  BY <1>1, <1>4, <1>5, PlanStays DEF CommandInv, ControlInv
<1>9. StagingInv(p)'
  BY <1>1, <1>4, <1>5 DEF CommandInv, StagingInv, Early
<1>10. FreshInv(p)'
  <2>1. /\ left[p] = {}
        /\ files[New(p)] = {} /\ (\A y \in Places : at[y] # New(p))
        /\ Removers(New(p)) = {} /\ \A q \in Procs : rm[q] # None => rm[q].place # Staging(p)
    BY <1>1 DEF CommandInv, FreshInv, ControlInv, Early
  <2>2. \A q \in Procs \ {p} : rm'[q] = rm[q]
    BY <1>5 DEF Effect
  <2>3. rm'[p] # None => rm'[p].dir # New(p) /\ rm'[p].place # Staging(p)
    BY <1>1, <1>3, <1>5, <2>1 DEF CommandInv, StagingInv, Early
  <2>4. Removers(New(p))' = {} /\ \A q \in Procs : rm'[q] # None => rm'[q].place # Staging(p)
    BY <2>1, <2>2, <2>3 DEF Removers
  <2> QED
    BY <1>4, <1>5, <2>1, <2>4 DEF FreshInv
<1>11. SweptInv(p)'
  BY <1>1, <1>4, <1>5, PlanStays DEF CommandInv, SweptInv
<1>12. LandedInv(p)'
  BY <1>5, PlanStays DEF LandedInv
<1> QED
  BY <1>5, <1>6, <1>7, <1>8, <1>9, <1>10, <1>11, <1>12, StepKeeps DEF OwnInv

LEMMA PruneKeeps ==
  ASSUME CacheInv, NEW p \in Procs, Prune(p), UNCHANGED plan
  PROVE  CacheInv' /\ Effect(p)
<1>1. /\ TypeOK /\ CommandInv(p) /\ Live(p) /\ p \in DOMAIN Op /\ pc[p] = "prune"
      /\ rm[p] = None /\ OnePlace /\ Home(p) \in Places
  BY Geometry DEF CacheInv, CommandInv, ControlInv, Live, Prune, Turn
<1>2. PICK x \in list[p] :
        /\ list' = [list EXCEPT ![p] = @ \ {x}]
        /\ IF at[x] = None THEN Return(p, "err") /\ UNCHANGED rm
                           ELSE Remove(p, x, "prune") /\ UNCHANGED result
  BY DEF Prune
<1>3. /\ x \in Places /\ x \in {Stable(v) : v \in Versions}
      /\ \A q \in Procs : x \notin {Staging(q), Backup(q)}
  BY <1>1, <1>2 DEF CommandInv, ControlInv, Places, Stable, Staging, Backup
<1>4. /\ OnlyControl(p) /\ UNCHANGED <<plan, at, files, site, left, hit>>
      /\ list'[p] = list[p] \ {x} /\ list' \in [Procs -> SUBSET Places]
      /\ pc' \in [Procs -> Labels]
  BY <1>1, <1>2 DEF OnlyControl, Prune, Return, Remove, Go, TypeOK, Labels
<1>5. CASE at[x] = None
  <2>1. UNCHANGED rm /\ pc'[p] = "done" /\ result'[p] = "err"
    BY <1>1, <1>2, <1>5 DEF Return, Go, TypeOK
  <2>2. Effect(p) /\ OnePlace' /\ SerialInv'
    BY <1>1, <1>4, <2>1, QuietEffect, LiveStaysAlone DEF OnlyControl
  <2>3. TypeOK'
    <3>1. result' \in [Procs -> {"none", "ok", "err", "stranded", "cancelled"}]
      BY <1>1, <1>2, <1>5 DEF Return, TypeOK
    <3> QED
      BY <1>1, <1>4, <2>1, <3>1, PlanStays DEF TypeOK
  <2>4. SharedStep(p)
    BY <1>1, <1>4, <2>1 DEF CommandInv, SharedInv, SharedStep
  <2>5. ControlInv(p)' /\ LandedInv(p)'
    BY <1>1, <1>4, <2>1, PlanStays DEF CommandInv, ControlInv, LandedInv
  <2>6. StagingInv(p)'
    BY <1>1, <1>4, <2>1 DEF CommandInv, StagingInv, Early
  <2>7. FreshInv(p)'
    BY <1>1, <1>4, <2>1 DEF CommandInv, FreshInv, ControlInv, Early
  <2> QED
    BY <1>1, <2>2, <2>3, <2>4, <2>5, <2>6, <2>7, StepKeeps, SweptStays DEF OwnInv
<1>6. CASE at[x] # None
  <2>1. Remove(p, x, "prune") /\ UNCHANGED result
    BY <1>2, <1>6
  <2>2. /\ Effect(p) /\ pc'[p] = "prune" /\ rm' \in [Procs -> Removals \cup {None}]
        /\ \A q \in Procs : rm'[q] # None => rm'[q].dir \in Dirs
        /\ rm'[p].place = x /\ rm'[p].dir = at[x]
    BY <1>1, <1>3, <1>4, <1>6, <2>1, RemovalEffect
  <2>3. TypeOK'
    BY <1>1, <1>4, <2>1, <2>2, PlanStays DEF TypeOK
  <2>4. ControlInv(p)'
    BY <1>1, <1>4, <2>1, <2>2, PlanStays DEF CommandInv, ControlInv
  <2>5. LandedInv(p)'
    <3>1. x # Home(p) => at[x] # at[Home(p)]
      BY <1>1, <1>3, <1>6 DEF OnePlace
    <3> QED
      BY <1>1, <1>2, <1>4, <2>2, <3>1, PlanStays
         DEF CommandInv, LandedInv, Landed, Accepted, Has
  <2>6. SharedStep(p)
    BY <1>1, <1>4, <2>2 DEF CommandInv, SharedInv, SharedStep
  <2>7. at[Staging(p)] = None
    BY <1>1 DEF CommandInv, StagingInv
  <2> QED
    BY <1>1, <1>3, <1>4, <2>1, <2>3, <2>4, <2>5, <2>6, <2>7, RemovalKeeps
<1> QED
  BY <1>5, <1>6

LEMMA CancelKeeps ==
  ASSUME CacheInv, NEW p \in Procs, Cancel(p), UNCHANGED plan
  PROVE  CacheInv' /\ Effect(p)
<1>1. /\ TypeOK /\ CommandInv(p) /\ Live(p) /\ p \in Tasks /\ p \in DOMAIN Op /\ rm[p] = None
      /\ Staging(p) \in Places /\ Staging(p) \in WorkPlaces
      /\ \A q \in Procs \ {p} : Staging(p) \notin {Staging(q), Backup(q)}
  BY Geometry DEF CacheInv, CommandInv, ControlInv, Cancel, Live
<1>2. /\ Remove(p, Staging(p), "dropped") /\ OnlyControl(p)
      /\ UNCHANGED <<plan, at, files, site, left, list, result, hit>>
      /\ pc' \in [Procs -> Labels]
  BY <1>1 DEF Cancel, Remove, Go, OnlyControl, TypeOK, Labels
<1>3. /\ Effect(p) /\ pc'[p] = "dropped" /\ rm' \in [Procs -> Removals \cup {None}]
      /\ \A q \in Procs : rm'[q] # None => rm'[q].dir \in Dirs
  BY <1>1, <1>2, RemovalEffect
<1>4. TypeOK'
  BY <1>1, <1>2, <1>3, PlanStays DEF TypeOK
<1>5. ControlInv(p)' /\ LandedInv(p)'
  BY <1>1, <1>2, <1>3, PlanStays DEF CommandInv, ControlInv, LandedInv, Live
<1>6. SharedStep(p)
  BY <1>1, <1>2, <1>3 DEF CommandInv, SharedInv, SharedStep
<1>7. pc[p] \notin {"sweep", "dropped"}
  BY <1>1 DEF CommandInv, ControlInv, Cancel
<1> QED
  BY <1>1, <1>2, <1>4, <1>5, <1>6, <1>7, RemovalKeeps

(***************************************************************************)
(* Steps that move a directory                                             *)
(***************************************************************************)

LEMMA RenameMoves ==
  ASSUME TypeOK, OnePlace, NEW x \in Places, NEW y \in Places, x # y, at[x] # None,
         Rename(x, y)
  PROVE  /\ at'[x] = None /\ at'[y] = at[x] /\ \A z \in Places \ {x, y} : at'[z] = at[z]
         /\ at' \in [Places -> Dirs \cup {None}] /\ OnePlace'
BY DEF TypeOK, OnePlace, Rename

\* Nothing but a place changes.
LEMMA MoveEffect ==
  ASSUME CacheInv, NEW p \in Procs, Live(p), OnlyControl(p), UNCHANGED <<files, rm, hit>>,
         Moves(p)
  PROVE  Effect(p) /\ SerialInv'
<1>1. p \in DOMAIN Op
  BY DEF CacheInv, CommandInv, ControlInv, Live
<1>2. Writes(p) /\ Removes(p) /\ SerialInv'
  BY LiveStaysAlone DEF Writes, Removes, OnlyControl
<1> QED
  BY <1>1, <1>2 DEF Effect, OnlyControl

LEMMA MakeStagingKeeps ==
  ASSUME CacheInv, NEW p \in Procs, MakeStaging(p), UNCHANGED plan
  PROVE  CacheInv' /\ Effect(p)
<1>1. /\ TypeOK /\ CommandInv(p) /\ Live(p) /\ p \in DOMAIN Op /\ pc[p] = "stage" /\ OnePlace
      /\ Staging(p) \in Places /\ Home(p) \in Places /\ Home(p) # Staging(p)
      /\ New(p) \in Dirs /\ New(p) # None
  BY Geometry, PlanTypes DEF CacheInv, CommandInv, ControlInv, Live, MakeStaging, Turn
<1>2. /\ OnlyControl(p) /\ UNCHANGED <<plan, files, site, rm, list, result, hit>>
      /\ pc'[p] = "unpack" /\ left'[p] = Payload
      /\ at'[Staging(p)] = New(p) /\ \A x \in Places \ {Staging(p)} : at'[x] = at[x]
  BY <1>1 DEF MakeStaging, Go, OnlyControl, TypeOK
<1>3. /\ at[Staging(p)] = None /\ files[New(p)] = {} /\ Removers(New(p)) = {}
      /\ \A x \in Places : at[x] # New(p)
      /\ \A q \in Procs : rm[q] # None => rm[q].place # Staging(p)
  BY <1>1 DEF CommandInv, StagingInv, FreshInv, Early
<1>4. Moves(p)
  BY <1>1, <1>2, <1>3 DEF Moves, Own
<1>5. Effect(p) /\ SerialInv' /\ OnePlace'
  BY <1>1, <1>2, <1>3, <1>4, MoveEffect DEF OnePlace
<1>6. TypeOK'
  BY <1>1, PlanStays DEF TypeOK, MakeStaging, Go, Labels
<1>7. SharedStep(p)
  BY <1>1, <1>2 DEF CommandInv, SharedInv, SharedStep
<1>8. ControlInv(p)' /\ LandedInv(p)'
  BY <1>1, <1>2, PlanStays DEF CommandInv, ControlInv, LandedInv
<1>9. StagingInv(p)'
  BY <1>1, <1>2 DEF CommandInv, ControlInv, StagingInv, Early
<1>10. FreshInv(p)'
  BY <1>2, <1>3 DEF FreshInv, Early, Removers
<1> QED
  BY <1>1, <1>5, <1>6, <1>7, <1>8, <1>9, <1>10, StepKeeps, SweptStays DEF OwnInv

LEMMA InspectKeeps ==
  ASSUME CacheInv, NEW p \in Procs, Inspect(p), UNCHANGED plan
  PROVE  CacheInv' /\ Effect(p)
<1>1. /\ TypeOK /\ CommandInv(p) /\ Live(p) /\ p \in DOMAIN Op /\ pc[p] = "inspect"
      /\ rm[p] = None
  BY DEF CacheInv, CommandInv, ControlInv, Live, Inspect, Turn
<1>2. OnlyControl(p) /\ UNCHANGED <<plan, at, files, site, left, list, result, hit>>
  BY <1>1 DEF Inspect, Fails, Remove, Go, OnlyControl, TypeOK
<1>3. CASE Fails(p)
  BY <1>1, <1>2, <1>3, FailsKeeps DEF Inspect, TypeOK
<1>4. CASE Go(p, "backup") /\ UNCHANGED rm
  <2>1. pc'[p] = "backup" /\ UNCHANGED rm
    BY <1>1, <1>4 DEF Go, TypeOK
  <2>2. Effect(p) /\ OnePlace' /\ SerialInv'
    BY <1>1, <1>2, <2>1, QuietEffect, LiveStaysAlone DEF OnlyControl
  <2>3. TypeOK'
    BY <1>1, <1>2, <1>4, PlanStays DEF TypeOK, Go, Labels
  <2>4. SharedStep(p)
    BY <1>1, <1>2 DEF CommandInv, SharedInv, SharedStep
  <2>5. ControlInv(p)' /\ LandedInv(p)'
    BY <1>1, <1>2, <2>1, PlanStays DEF CommandInv, ControlInv, LandedInv
  <2>6. StagingInv(p)' /\ FreshInv(p)'
    BY <1>1, <1>2, <2>1 DEF CommandInv, ControlInv, StagingInv, FreshInv, Early
  <2> QED
    BY <1>1, <2>2, <2>3, <2>4, <2>5, <2>6, StepKeeps, SweptStays DEF OwnInv
<1> QED
  BY <1>3, <1>4 DEF Inspect

\* The new directory comes to the place of the entry, or finds it taken.
LEMMA PromoteKeeps ==
  ASSUME CacheInv, NEW p \in Procs, Promote(p), UNCHANGED plan
  PROVE  CacheInv' /\ Effect(p)
<1>1. /\ TypeOK /\ CommandInv(p) /\ Live(p) /\ p \in DOMAIN Op /\ pc[p] = "promote"
      /\ rm[p] = None /\ OnePlace
      /\ Staging(p) \in Places /\ Home(p) \in Places /\ Home(p) # Staging(p) /\ New(p) # None
  BY Geometry, PlanTypes DEF CacheInv, CommandInv, ControlInv, Live, Promote, Turn
<1>2. OnlyControl(p) /\ UNCHANGED <<plan, files, left, rm, list, result, hit>>
  BY <1>1 DEF Promote, Validate, Go, OnlyControl, TypeOK
<1>3. TypeOK'
  <2>1. /\ pc' \in [Procs -> Labels]
        /\ site' \in [Procs -> {"first", "placed", "conflict", "replaced"}]
    BY <1>1 DEF Promote, Validate, Go, TypeOK, Labels
  <2>2. at' \in [Places -> Dirs \cup {None}]
    BY <1>1, RenameMoves DEF Promote, CanRename, TypeOK
  <2> QED
    BY <1>1, <1>2, <2>1, <2>2, PlanStays DEF TypeOK
<1>4. CASE /\ CanRename(Staging(p), Home(p)) /\ Rename(Staging(p), Home(p))
           /\ Validate(p, "placed")
  <2>1. pc'[p] = "check" /\ site'[p] = "placed" /\ Rename(Staging(p), Home(p))
    BY <1>1, <1>4 DEF Validate, Go, TypeOK
  <2>2. /\ at'[Staging(p)] = None /\ at'[Home(p)] = at[Staging(p)] /\ at[Staging(p)] # None
        /\ \A z \in Places \ {Staging(p), Home(p)} : at'[z] = at[z]
        /\ OnePlace'
    BY <1>1, <1>4, <2>1, RenameMoves DEF CanRename
  <2>3. Moves(p)
    BY <1>1, <1>4, <2>2 DEF Moves, Own, CanRename
  <2>4. Effect(p) /\ SerialInv'
    BY <1>1, <1>2, <2>3, MoveEffect
  <2>5. SharedStep(p)
    BY <2>1, <2>2 DEF SharedStep
  <2>6. ControlInv(p)' /\ LandedInv(p)'
    BY <1>1, <1>2, <2>1, PlanStays DEF CommandInv, ControlInv, LandedInv
  <2>7. StagingInv(p)' /\ FreshInv(p)'
    <3>1. left[p] = {}
      BY <1>1 DEF CommandInv, ControlInv, FreshInv
    <3> QED
      BY <1>1, <1>2, <2>1, <2>2, <3>1 DEF CommandInv, StagingInv, FreshInv, Early
  <2> QED
    BY <1>1, <1>3, <2>2, <2>4, <2>5, <2>6, <2>7, StepKeeps, SweptStays DEF OwnInv
<1>5. CASE /\ MayFail(CanRename(Staging(p), Home(p))) /\ UNCHANGED at
           /\ IF Op[p] = "update" THEN Go(p, "inspect") /\ UNCHANGED site
                                  ELSE Validate(p, "conflict")
  <2>1. /\ UNCHANGED at
        /\ \/ Op[p] = "update" /\ pc'[p] = "inspect" /\ UNCHANGED site
           \/ Op[p] # "update" /\ pc'[p] = "check" /\ site'[p] = "conflict"
    BY <1>1, <1>5 DEF Validate, Go, TypeOK
  <2>2. Effect(p) /\ OnePlace' /\ SerialInv'
    BY <1>1, <1>2, <2>1, QuietEffect, LiveStaysAlone DEF OnlyControl
  <2>3. SharedStep(p)
    <3> SUFFICES ASSUME SameInstall, hit = {}
                 PROVE  pc'[p] = "check" /\ site'[p] = "conflict" /\ at[Home(p)] # None
      BY <1>2, <2>1 DEF SharedStep
    <3>1. Op[p] = "install" /\ at[Staging(p)] = New(p)
      BY <1>1 DEF CommandInv, FreshInv, SameInstall
    <3> QED
      BY <1>1, <1>5, <2>1, <3>1 DEF MayFail, CanRename, SameInstall
  <2>4. ControlInv(p)' /\ LandedInv(p)'
    BY <1>1, <1>2, <2>1, PlanStays DEF CommandInv, ControlInv, LandedInv
  <2>5. StagingInv(p)' /\ FreshInv(p)'
    BY <1>1, <1>2, <2>1 DEF CommandInv, StagingInv, FreshInv, Early
  <2> QED
    BY <1>1, <1>3, <2>2, <2>3, <2>4, <2>5, StepKeeps, SweptStays DEF OwnInv
<1> QED
  BY <1>4, <1>5 DEF Promote

LEMMA MakeBackupKeeps ==
  ASSUME CacheInv, NEW p \in Procs, MakeBackup(p), UNCHANGED plan
  PROVE  CacheInv' /\ Effect(p)
<1>1. /\ TypeOK /\ CommandInv(p) /\ Live(p) /\ p \in DOMAIN Op /\ pc[p] = "backup"
      /\ rm[p] = None /\ OnePlace
      /\ Staging(p) \in Places /\ Home(p) \in Places /\ Backup(p) \in Places
      /\ Home(p) # Backup(p) /\ Home(p) # Staging(p) /\ Backup(p) # Staging(p)
  BY Geometry DEF CacheInv, CommandInv, ControlInv, Live, MakeBackup, Turn
<1>2. OnlyControl(p) /\ UNCHANGED <<plan, files, site, left, list, result, hit>>
  BY <1>1 DEF MakeBackup, Fails, Remove, Go, OnlyControl, TypeOK
<1>3. CASE Fails(p) /\ UNCHANGED at
  BY <1>1, <1>2, <1>3, FailsKeeps DEF TypeOK
<1>4. CASE /\ at[Home(p)] # None /\ Rename(Home(p), Backup(p))
           /\ Go(p, "replace") /\ UNCHANGED rm
  <2>1. pc'[p] = "replace" /\ UNCHANGED rm /\ Rename(Home(p), Backup(p))
    BY <1>1, <1>4 DEF Go, TypeOK
  <2>2. /\ at'[Home(p)] = None /\ at'[Backup(p)] = at[Home(p)]
        /\ \A z \in Places \ {Home(p), Backup(p)} : at'[z] = at[z]
        /\ at' \in [Places -> Dirs \cup {None}] /\ OnePlace'
    BY <1>1, <1>4, <2>1, RenameMoves
  <2>3. Moves(p)
    BY <1>1, <1>4, <2>2 DEF Moves, Own
  <2>4. Effect(p) /\ SerialInv'
    BY <1>1, <1>2, <2>1, <2>3, MoveEffect
  <2>5. TypeOK'
    <3>1. pc' \in [Procs -> Labels]
      BY <1>1, <1>4 DEF Go, TypeOK, Labels
    <3> QED
      BY <1>1, <1>2, <2>1, <2>2, <3>1, PlanStays DEF TypeOK
  <2>6. SharedStep(p)
    BY <1>1, <1>2 DEF CommandInv, SharedInv, SharedStep
  <2>7. ControlInv(p)' /\ LandedInv(p)'
    BY <1>1, <1>2, <2>1, PlanStays DEF CommandInv, ControlInv, LandedInv
  <2>8. StagingInv(p)' /\ FreshInv(p)'
    BY <1>1, <1>2, <2>1, <2>2 DEF CommandInv, ControlInv, StagingInv, FreshInv, Early
  <2> QED
    BY <1>1, <2>2, <2>4, <2>5, <2>6, <2>7, <2>8, StepKeeps, SweptStays DEF OwnInv
<1> QED
  BY <1>3, <1>4 DEF MakeBackup

LEMMA ReplaceKeeps ==
  ASSUME CacheInv, NEW p \in Procs, Replace(p), UNCHANGED plan
  PROVE  CacheInv' /\ Effect(p)
<1>1. /\ TypeOK /\ CommandInv(p) /\ Live(p) /\ p \in DOMAIN Op /\ pc[p] = "replace"
      /\ rm[p] = None /\ OnePlace
      /\ Staging(p) \in Places /\ Home(p) \in Places /\ Home(p) # Staging(p)
  BY Geometry DEF CacheInv, CommandInv, ControlInv, Live, Replace, Turn
<1>2. OnlyControl(p) /\ UNCHANGED <<plan, files, left, rm, list, result, hit>>
  BY <1>1 DEF Replace, Validate, Go, OnlyControl, TypeOK
<1>3. TypeOK'
  <2>1. /\ pc' \in [Procs -> Labels]
        /\ site' \in [Procs -> {"first", "placed", "conflict", "replaced"}]
    BY <1>1 DEF Replace, Validate, Go, TypeOK, Labels
  <2>2. at' \in [Places -> Dirs \cup {None}]
    BY <1>1, RenameMoves DEF Replace, CanRename, TypeOK
  <2> QED
    BY <1>1, <1>2, <2>1, <2>2, PlanStays DEF TypeOK
<1>4. SharedStep(p)
  BY <1>1, <1>2 DEF CommandInv, SharedInv, SharedStep
<1>5. CASE /\ CanRename(Staging(p), Home(p)) /\ Rename(Staging(p), Home(p))
           /\ Validate(p, "replaced")
  <2>1. pc'[p] = "check" /\ site'[p] = "replaced" /\ Rename(Staging(p), Home(p))
    BY <1>1, <1>5 DEF Validate, Go, TypeOK
  <2>2. /\ at'[Staging(p)] = None /\ at'[Home(p)] = at[Staging(p)] /\ at[Staging(p)] # None
        /\ \A z \in Places \ {Staging(p), Home(p)} : at'[z] = at[z]
        /\ OnePlace'
    BY <1>1, <1>5, <2>1, RenameMoves DEF CanRename
  <2>3. Moves(p)
    BY <1>1, <1>5, <2>2 DEF Moves, Own, CanRename
  <2>4. Effect(p) /\ SerialInv'
    BY <1>1, <1>2, <2>3, MoveEffect
  <2>5. ControlInv(p)' /\ LandedInv(p)'
    BY <1>1, <1>2, <2>1, PlanStays DEF CommandInv, ControlInv, LandedInv
  <2>6. StagingInv(p)' /\ FreshInv(p)'
    <3>1. left[p] = {}
      BY <1>1 DEF CommandInv, ControlInv, FreshInv
    <3> QED
      BY <1>1, <1>2, <2>1, <2>2, <3>1 DEF CommandInv, StagingInv, FreshInv, Early
  <2> QED
    BY <1>1, <1>3, <1>4, <2>2, <2>4, <2>5, <2>6, StepKeeps, SweptStays DEF OwnInv
<1>6. CASE Go(p, "reinstate") /\ UNCHANGED <<at, site>>
  <2>1. UNCHANGED <<at, site>> /\ pc'[p] = "reinstate"
    BY <1>1, <1>6 DEF Go, TypeOK
  <2>2. Effect(p) /\ OnePlace' /\ SerialInv'
    BY <1>1, <1>2, <2>1, QuietEffect, LiveStaysAlone DEF OnlyControl
  <2>3. ControlInv(p)' /\ LandedInv(p)'
    BY <1>1, <1>2, <2>1, PlanStays DEF CommandInv, ControlInv, LandedInv
  <2>4. StagingInv(p)' /\ FreshInv(p)'
    BY <1>1, <1>2, <2>1 DEF CommandInv, StagingInv, FreshInv, Early
  <2> QED
    BY <1>1, <1>3, <1>4, <2>2, <2>3, <2>4, StepKeeps, SweptStays DEF OwnInv
<1> QED
  BY <1>5, <1>6 DEF Replace

LEMMA CleanupKeeps ==
  ASSUME CacheInv, NEW p \in Procs, Cleanup(p), UNCHANGED plan
  PROVE  CacheInv' /\ Effect(p)
<1>1. /\ TypeOK /\ CommandInv(p) /\ Live(p) /\ p \in DOMAIN Op /\ Home(p) \in Places
      /\ pc[p] = "cleanup" /\ rm[p] = None /\ site[p] = "replaced"
  BY Geometry DEF CacheInv, CommandInv, ControlInv, Live, Cleanup, Turn
<1>2. /\ OnlyControl(p) /\ UNCHANGED <<plan, at, files, site, left, list, result, hit>>
      /\ Remove(p, Home(p), "reinstate")
  BY <1>1 DEF Cleanup, OnlyControl, Remove, Go, TypeOK
<1>3. \A q \in Procs \ {p} : Home(p) \notin {Staging(q), Backup(q)}
  BY <1>1, Geometry
<1>4. /\ Effect(p) /\ pc'[p] = "reinstate" /\ rm' \in [Procs -> Removals \cup {None}]
      /\ \A q \in Procs : rm'[q] # None => rm'[q].dir \in Dirs
  BY <1>1, <1>2, <1>3, RemovalEffect
<1>5. TypeOK'
  <2>1. pc' \in [Procs -> Labels]
    BY <1>1, <1>2 DEF TypeOK, Remove, Go, Labels
  <2> QED
    BY <1>1, <1>2, <1>4, <2>1, PlanStays DEF TypeOK
<1>6. ControlInv(p)' /\ LandedInv(p)'
  BY <1>1, <1>2, <1>4, PlanStays DEF CommandInv, ControlInv, LandedInv
<1>7. SharedStep(p)
  BY <1>1, <1>2, <1>4 DEF CommandInv, SharedInv, SharedStep
<1> QED
  BY <1>1, <1>2, <1>3, <1>5, <1>6, <1>7, RemovalKeeps

LEMMA ReinstateKeeps ==
  ASSUME CacheInv, NEW p \in Procs, Reinstate(p), UNCHANGED plan
  PROVE  CacheInv' /\ Effect(p)
<1>1. /\ TypeOK /\ CommandInv(p) /\ Live(p) /\ p \in DOMAIN Op /\ pc[p] = "reinstate"
      /\ rm[p] = None /\ OnePlace /\ result[p] = "none"
      /\ Staging(p) \in Places /\ Staging(p) \in WorkPlaces /\ Home(p) \in Places
      /\ Backup(p) \in Places /\ Home(p) # Backup(p) /\ Home(p) # Staging(p)
      /\ Backup(p) # Staging(p)
      /\ \A q \in Procs \ {p} : Staging(p) \notin {Staging(q), Backup(q)}
  BY Geometry DEF CacheInv, CommandInv, ControlInv, Live, Reinstate, Turn
<1>2. /\ OnlyControl(p) /\ UNCHANGED <<plan, files, site, left, list, result, hit>>
  BY <1>1 DEF Reinstate, Fails, Strands, Remove, Go, OnlyControl, TypeOK
<1>3. CASE (Fails(p) \/ Strands(p)) /\ UNCHANGED at
  BY <1>1, <1>2, <1>3, FailsKeeps DEF TypeOK, CommandInv, ControlInv
<1>4. CASE CanRename(Backup(p), Home(p)) /\ Rename(Backup(p), Home(p)) /\ Fails(p)
  <2>1. /\ at'[Backup(p)] = None /\ at'[Home(p)] = at[Backup(p)] /\ at[Backup(p)] # None
        /\ \A z \in Places \ {Home(p), Backup(p)} : at'[z] = at[z]
        /\ at' \in [Places -> Dirs \cup {None}] /\ OnePlace'
    BY <1>1, <1>4, RenameMoves DEF CanRename
  <2>2. Moves(p)
    BY <1>1, <1>4, <2>1 DEF Moves, Own, CanRename
  <2>3. /\ pc' \in [Procs -> Labels] /\ pc'[p] = "failed"
        /\ \A q \in Procs \ {p} : pc'[q] = pc[q] /\ rm'[q] = rm[q]
        /\ at[Staging(p)] = None => rm'[p] = None
        /\ at[Staging(p)] # None =>
             rm'[p] = [place |-> Staging(p), dir |-> at[Staging(p)],
                       todo |-> files[at[Staging(p)]]]
    BY <1>1, <1>2, <1>4 DEF Fails, Remove, Go, TypeOK, Labels
  <2>4. at[Staging(p)] # None =>
          /\ at[Staging(p)] = New(p) /\ at[Staging(p)] \in Dirs
          /\ at[Staging(p)] \in AllDirs /\ files[at[Staging(p)]] \subseteq Files
          /\ [place |-> Staging(p), dir |-> at[Staging(p)], todo |-> files[at[Staging(p)]]]
               \in Removals
    BY <1>1, PlanTypes DEF TypeOK, Removals, CommandInv, StagingInv
  <2>5. /\ rm' \in [Procs -> Removals \cup {None}]
        /\ \A q \in Procs : rm'[q] # None => rm'[q].dir \in Dirs
    BY <1>1, <1>2, <1>4, <2>3, <2>4 DEF TypeOK, Fails, Remove
  <2>6. TypeOK'
    BY <1>1, <1>2, <2>1, <2>3, <2>5, PlanStays DEF TypeOK
  <2>7. \A r \in Removals : r # None
    BY NoneAssumption
  <2>8. Removes(p)
    BY <1>1, <1>2, <2>3, <2>4, <2>7 DEF Removes
  <2>9. Effect(p)
    BY <1>1, <1>2, <2>2, <2>3, <2>8 DEF Effect, OnlyControl, Writes
  <2>10. SerialInv'
    BY <1>1, <1>2, LiveStaysAlone DEF OnlyControl
  <2>11. SharedStep(p)
    BY <1>1, <1>2 DEF CommandInv, SharedInv, SharedStep
  <2>12. ControlInv(p)' /\ LandedInv(p)'
    BY <1>1, <1>2, <2>3, PlanStays DEF CommandInv, ControlInv, LandedInv
  <2>13. StagingInv(p)'
    <3>1. at'[Staging(p)] = at[Staging(p)]
      BY <1>1, <2>1
    <3>2. at[Staging(p)] # None =>
            /\ rm'[p] # None /\ rm'[p].place = Staging(p) /\ rm'[p].dir = New(p)
            /\ rm'[p].todo = files[New(p)]
      BY <2>3, <2>4, <2>7
    <3> QED
      BY <1>1, <1>2, <2>3, <3>1, <3>2 DEF CommandInv, StagingInv, Early
  <2>14. FreshInv(p)'
    BY <1>1, <1>2, <2>3 DEF CommandInv, FreshInv, Early
  <2> QED
    BY <1>1, <2>1, <2>6, <2>9, <2>10, <2>11, <2>12, <2>13, <2>14, StepKeeps, SweptStays
       DEF OwnInv
<1> QED
  BY <1>3, <1>4 DEF Reinstate

(***************************************************************************)
(* remove_dir_all and the steps that write                                 *)
(***************************************************************************)

LEMMA RemoveFileKeeps ==
  ASSUME CacheInv, NEW p \in Procs, RemoveFile(p), UNCHANGED plan
  PROVE  CacheInv' /\ Effect(p)
<1>1. /\ TypeOK /\ CommandInv(p) /\ Live(p) /\ p \in DOMAIN Op /\ rm[p] # None /\ OnePlace
      /\ rm[p].dir \in Dirs /\ New(p) \in Dirs /\ result[p] = "none"
  BY Geometry DEF CacheInv, CommandInv, ControlInv, Live, RemoveFile, Removing, TypeOK
<1>2. /\ UNCHANGED <<plan, at, pc, site, left, rm, list, result, hit>>
      /\ \A d \in Dirs : files'[d] # files[d] => d = rm[p].dir
      /\ \A d \in Dirs : files'[d] \subseteq files[d]
      /\ files' \in [Dirs -> SUBSET Files]
  BY <1>1 DEF RemoveFile, TypeOK
<1>3. Effect(p)
  <2>1. Moves(p) /\ Writes(p) /\ Removes(p)
    BY <1>1, <1>2 DEF Moves, Writes, Removes
  <2> QED
    BY <1>1, <1>2, <2>1 DEF Effect
<1>4. OnePlace' /\ SerialInv'
  BY <1>1, <1>2, LiveStaysAlone DEF OnePlace
<1>5. TypeOK'
  BY <1>1, <1>2, PlanStays DEF TypeOK
<1>6. SharedStep(p)
  BY <1>1, <1>2 DEF CommandInv, SharedInv, SharedStep
<1>7. ControlInv(p)'
  BY <1>1, <1>2, PlanStays DEF CommandInv, ControlInv
<1>8. StagingInv(p)'
  BY <1>1, <1>2 DEF CommandInv, StagingInv, Early
<1>9. FreshInv(p)'
  <2>1. Removers(New(p)) = {} => files'[New(p)] = files[New(p)]
    BY <1>1, <1>2 DEF Removers
  <2> QED
    BY <1>1, <1>2, <2>1 DEF CommandInv, FreshInv, Early, Removers
<1>10. SweptInv(p)'
  <2>1. \A x \in Leavings(p) : x \in Places
    BY Geometry DEF Leavings, CacheInv
  <2>2. \A x \in Places : at[x] # None => files'[at[x]] \subseteq files[at[x]]
    BY <1>1, <1>2 DEF TypeOK
  <2> QED
    BY <1>1, <1>2, <2>1, <2>2, PlanStays DEF CommandInv, SweptInv, Live
<1>11. LandedInv(p)'
  <2>1. Home(p) \in Places
    BY <1>1, Geometry
  <2>2. at[Home(p)] # None /\ rm[p].dir # at[Home(p)] => files'[at[Home(p)]] = files[at[Home(p)]]
    BY <1>1, <1>2, <2>1 DEF TypeOK
  <2> QED
    BY <1>1, <1>2, <2>2, PlanStays DEF CommandInv, ControlInv, LandedInv, Landed, Accepted, Has
<1> QED
  BY <1>1, <1>3, <1>4, <1>5, <1>6, <1>7, <1>8, <1>9, <1>10, <1>11, StepKeeps DEF OwnInv

\* A removal that ends without having noticed a new file has emptied the directory.
LEMMA RemoveEndsKeeps ==
  ASSUME CacheInv, NEW p \in Procs, RemoveEnds(p), UNCHANGED plan
  PROVE  CacheInv' /\ Effect(p)
<1>1. /\ TypeOK /\ CommandInv(p) /\ Live(p) /\ p \in DOMAIN Op /\ rm[p] # None /\ OnePlace
      /\ rm[p].place \in Places /\ result[p] = "none"
      /\ rm[p].todo \cap files[rm[p].dir] = {}
  BY DEF CacheInv, CommandInv, ControlInv, Live, RemoveEnds, Removing, TypeOK, Removals
<1> DEFINE x == rm[p].place
           empty == at[x] # None /\ files[at[x]] = {}
<1>2. /\ UNCHANGED <<plan, files, site, left, list, hit>> /\ rm'[p] = None
      /\ \A q \in Procs \ {p} : rm'[q] = rm[q] /\ pc'[q] = pc[q] /\ result'[q] = result[q]
      /\ \A z \in Places : at'[z] = IF z = x /\ empty THEN None ELSE at[z]
      /\ \/ pc'[p] = pc[p] /\ result'[p] = result[p]
         \/ pc[p] = "prune" /\ pc'[p] = "done" /\ result'[p] = "err"
  BY <1>1 DEF RemoveEnds, Return, Go, TypeOK
<1>3. TypeOK'
  <2>1. /\ at' \in [Places -> Dirs \cup {None}] /\ pc' \in [Procs -> Labels]
        /\ result' \in [Procs -> {"none", "ok", "err", "stranded", "cancelled"}]
    BY <1>1 DEF RemoveEnds, Return, Go, TypeOK, Labels
  <2>2. rm' \in [Procs -> Removals \cup {None}] /\ \A q \in Procs : rm'[q] # None => rm'[q].dir \in Dirs
    BY <1>1, <1>2 DEF RemoveEnds, TypeOK
  <2> QED
    BY <1>1, <1>2, <2>1, <2>2, PlanStays DEF TypeOK
<1>4. Effect(p)
  <2>1. Moves(p)
    BY <1>1, <1>2, Geometry DEF Moves
  <2>2. Writes(p) /\ Removes(p)
    BY <1>1, <1>2 DEF Writes, Removes
  <2> QED
    BY <1>1, <1>2, <2>1, <2>2 DEF Effect
<1>5. OnePlace' /\ SerialInv'
  BY <1>1, <1>2, LiveStaysAlone DEF OnePlace
<1>6. Staging(p) \in Places /\ Home(p) \in Places /\ \A y \in Leavings(p) : y \in Places
  BY <1>1, Geometry DEF Leavings
<1>7. ControlInv(p)'
  BY <1>1, <1>2, PlanStays DEF CommandInv, ControlInv
<1>8. StagingInv(p)'
  <2>1. pc[p] \in {"failed", "stranded", "succeeded"} => at'[Staging(p)] = None
    BY <1>1, <1>2, <1>6 DEF CommandInv, StagingInv
  <2> QED
    BY <1>1, <1>2, <1>6, <2>1 DEF CommandInv, StagingInv, Early
<1>9. FreshInv(p)'
  <2>1. Removers(New(p))' \subseteq Removers(New(p))
    BY <1>2 DEF Removers
  <2>2. \A q \in Procs : rm'[q] # None => rm[q] # None /\ rm'[q] = rm[q]
    BY <1>2
  <2>3. \A z \in Places : at'[z] # None => at'[z] = at[z]
    BY <1>2
  <2>4. Early(p)' => Early(p)
    BY <1>2 DEF Early
  <2>5. New(p) # None
    BY <1>1, Geometry, PlanTypes
  <2> QED
    BY <1>1, <1>2, <1>6, <2>1, <2>2, <2>3, <2>4, <2>5 DEF CommandInv, FreshInv
<1>10. SweptInv(p)'
  <2>1. CASE pc[p] = "sweep"
    <3> SUFFICES ASSUME plan.serial, p \in DOMAIN Op \ Tasks, NEW y \in Leavings(p), at'[y] # None
                 PROVE  y \in list[p]
      BY <1>2, <2>1, PlanStays DEF SweptInv
    <3>1. at[y] # None /\ at'[y] = at[y]
      BY <1>2, <1>6
    <3>2. y \in list[p] \/ (x = y /\ rm[p].dir = at[y] /\ files[at[y]] \subseteq rm[p].todo)
      BY <1>1, <3>1 DEF CommandInv, SweptInv
    <3> QED
      BY <1>1, <1>2, <1>6, <3>1, <3>2
  <2>2. CASE pc[p] # "sweep"
    BY <1>1, <1>4, <2>2, SweptStays
  <2> QED
    BY <2>1, <2>2
<1>11. LandedInv(p)'
  <2>1. x # Home(p) => at'[Home(p)] = at[Home(p)]
    BY <1>2, <1>6
  <2> QED
    BY <1>1, <1>2, <2>1, PlanStays DEF CommandInv, ControlInv, LandedInv, Landed, Accepted, Has
<1>12. SharedStep(p)
  BY <1>1, <1>2, <1>3, <1>4, HomeStays DEF CommandInv, SharedInv, SharedStep
<1> QED
  BY <1>1, <1>3, <1>4, <1>5, <1>7, <1>8, <1>9, <1>10, <1>11, <1>12, StepKeeps DEF OwnInv

\* A file comes to the new directory of p.
LEMMA WriteKeeps ==
  ASSUME CacheInv, NEW p \in Procs, p \in DOMAIN Op, UNCHANGED <<plan, site, rm, list, result, hit>>,
         pc[p] \notin {"idle", "sweep", "check", "read", "stat", "stage", "promote"},
         at' = [at EXCEPT ![Staging(p)] = New(p)],
         \A x \in Places : at[x] = New(p) => x = Staging(p),
         OnlyControl(p), NEW f \in Files,
         files' = [files EXCEPT ![New(p)] = @ \cup {f}],
         hit = {} /\ "meta" \in files'[New(p)] =>
           files'[New(p)] = Files /\ Removers(New(p)) = {},
         Live(p) \/ (pc[p] = "done" /\ p \in Tasks), pc' = pc \/ Live(p),
         pc[p] \in {"done", "dropped"} => pc'[p] = pc[p],
         TypeOK', SharedStep(p), ControlInv(p)', StagingInv(p)', FreshInv(p)', LandedInv(p)'
  PROVE  CacheInv' /\ Effect(p)
<1>1. /\ TypeOK /\ OnePlace /\ New(p) \in Dirs /\ New(p) # None
      /\ Staging(p) \in Places /\ Home(p) \in Places /\ Home(p) # Staging(p)
  BY Geometry, PlanTypes DEF CacheInv
<1>2. /\ \A d \in Dirs : files'[d] # files[d] => d = New(p)
      /\ \A d \in Dirs : files[d] \subseteq files'[d]
      /\ at'[Staging(p)] = New(p) /\ \A x \in Places \ {Staging(p)} : at'[x] = at[x] /\ at[x] # New(p)
  BY <1>1 DEF TypeOK
<1>3. Effect(p)
  <2>1. Moves(p)
    BY <1>1, <1>2 DEF Moves, Own
  <2>2. Writes(p) /\ Removes(p)
    BY <1>2 DEF Writes, Removes
  <2>3. pc[p] = "done" => UNCHANGED pc
    BY DEF Live
  <2> QED
    BY <1>2, <2>1, <2>2, <2>3 DEF Effect, OnlyControl
<1>4. OnePlace'
  BY <1>1, <1>2 DEF OnePlace
<1>5. SerialInv'
  BY LiveStaysAlone DEF OnlyControl, CacheInv, SerialInv, Live
<1>6. SweptInv(p)'
  <2>1. CASE Live(p)
    BY <1>3, <2>1, SweptStays
  <2>2. CASE pc[p] = "done"
    BY <2>2 DEF SweptInv, Live
  <2> QED
    BY <2>1, <2>2
<1> QED
  BY <1>3, <1>4, <1>5, <1>6, StepKeeps DEF OwnInv

LEMMA UnpackKeeps ==
  ASSUME CacheInv, NEW p \in Procs, Unpack(p), UNCHANGED plan
  PROVE  CacheInv' /\ Effect(p)
<1>1. /\ TypeOK /\ CommandInv(p) /\ Live(p) /\ p \in DOMAIN Op /\ pc[p] = "unpack"
      /\ New(p) \in Dirs /\ New(p) # None /\ Staging(p) \in Places
      /\ Home(p) \in Places /\ Home(p) # Staging(p)
  BY Geometry, PlanTypes DEF CacheInv, CommandInv, ControlInv, Live, Unpack, Turn
<1>2. PICK f \in left[p] : /\ at' = [at EXCEPT ![Staging(p)] = New(p)]
                           /\ files' = [files EXCEPT ![New(p)] = @ \cup {f}]
                           /\ left' = [left EXCEPT ![p] = @ \ {f}]
  BY DEF Unpack, Extract
<1>3. /\ UNCHANGED <<plan, pc, site, rm, list, result, hit>> /\ OnlyControl(p)
      /\ f \in Payload /\ f \in Files /\ f # "meta" /\ left[p] \subseteq Payload
      /\ left'[p] = left[p] \ {f} /\ files'[New(p)] = files[New(p)] \cup {f}
      /\ left' \in [Procs -> SUBSET Payload] /\ files' \in [Dirs -> SUBSET Files]
      /\ at' \in [Places -> Dirs \cup {None}] /\ at'[Staging(p)] = New(p)
      /\ \A x \in Places \ {Staging(p)} : at'[x] = at[x]
  BY <1>1, <1>2 DEF Unpack, OnlyControl, TypeOK, Files, Payload
<1>4. TypeOK'
  BY <1>1, <1>3, PlanStays DEF TypeOK
<1>5. ControlInv(p)' /\ LandedInv(p)'
  BY <1>1, <1>3, PlanStays DEF CommandInv, ControlInv, LandedInv
<1>6. StagingInv(p)'
  BY <1>1, <1>3 DEF CommandInv, ControlInv, StagingInv, Early
<1>7. "meta" \notin files'[New(p)] /\ \A x \in Places : at[x] = New(p) => x = Staging(p)
  BY <1>1, <1>2, <1>3 DEF CommandInv, FreshInv
<1>8. FreshInv(p)'
  <2>1. hit = {} => files'[New(p)] = Payload \ left'[p]
    BY <1>1, <1>2, <1>3 DEF CommandInv, FreshInv
  <2>2. \A x \in Places : at'[x] = New(p) => x = Staging(p)
    BY <1>3, <1>7
  <2> QED
    BY <1>1, <1>3, <1>7, <2>1, <2>2 DEF CommandInv, FreshInv, Early, Removers
<1>9. SharedStep(p)
  BY <1>1, <1>3 DEF CommandInv, SharedInv, SharedStep
<1> QED
  BY <1>1, <1>2, <1>3, <1>4, <1>5, <1>6, <1>7, <1>8, <1>9, WriteKeeps

LEMMA WriteMetadataKeeps ==
  ASSUME CacheInv, NEW p \in Procs, WriteMetadata(p), UNCHANGED plan
  PROVE  CacheInv' /\ Effect(p)
<1>1. /\ TypeOK /\ CommandInv(p) /\ Live(p) /\ p \in DOMAIN Op /\ pc[p] = "unpack"
      /\ left[p] = {} /\ New(p) \in Dirs
  BY Geometry DEF CacheInv, CommandInv, ControlInv, Live, WriteMetadata, Turn
<1>2. at[Staging(p)] = New(p)
  BY <1>1 DEF WriteMetadata, Has, CommandInv, StagingInv
<1>3. /\ UNCHANGED <<plan, at, site, left, rm, list, result, hit>> /\ OnlyControl(p)
      /\ at' = [at EXCEPT ![Staging(p)] = New(p)]
      /\ \A x \in Places : at[x] = New(p) => x = Staging(p)
      /\ pc'[p] = "promote" /\ files'[New(p)] = files[New(p)] \cup {"meta"}
      /\ files' = [files EXCEPT ![New(p)] = @ \cup {"meta"}] /\ "meta" \in Files
  BY <1>1, <1>2 DEF WriteMetadata, Go, OnlyControl, TypeOK, Files, CommandInv, FreshInv
<1>4. TypeOK'
  <2>1. pc' \in [Procs -> Labels] /\ files' \in [Dirs -> SUBSET Files]
    BY <1>1, <1>3 DEF TypeOK, WriteMetadata, Go, Labels
  <2> QED
    BY <1>1, <1>3, <2>1, PlanStays DEF TypeOK
<1>5. ControlInv(p)' /\ LandedInv(p)'
  BY <1>1, <1>3, PlanStays DEF CommandInv, ControlInv, LandedInv
<1>6. StagingInv(p)'
  BY <1>1, <1>3 DEF CommandInv, ControlInv, StagingInv, Early
<1>7. hit = {} => files'[New(p)] = Files /\ Removers(New(p)) = {}
  BY <1>1, <1>3 DEF CommandInv, FreshInv, Files
<1>8. FreshInv(p)'
  BY <1>1, <1>3, <1>7 DEF CommandInv, FreshInv, Early, Removers
<1>9. SharedStep(p)
  BY <1>1, <1>3 DEF CommandInv, SharedInv, SharedStep
<1> QED
  BY <1>1, <1>2, <1>3, <1>4, <1>5, <1>6, <1>7, <1>8, <1>9, WriteKeeps

LEMMA LateWriteKeeps ==
  ASSUME CacheInv, NEW p \in Procs, LateWrite(p), UNCHANGED plan
  PROVE  CacheInv' /\ Effect(p)
<1>1. /\ TypeOK /\ CommandInv(p) /\ p \in DOMAIN Op /\ pc[p] \in {"dropped", "done"}
      /\ New(p) \in Dirs /\ New(p) # None /\ Staging(p) \in Places
      /\ Home(p) \in Places /\ Home(p) # Staging(p) /\ (Live(p) \/ pc[p] = "done")
  BY Geometry, PlanTypes DEF CacheInv, CommandInv, ControlInv, Live, LateWrite
<1>2. PICK f \in left[p] : /\ at' = [at EXCEPT ![Staging(p)] = New(p)]
                           /\ files' = [files EXCEPT ![New(p)] = @ \cup {f}]
  BY DEF LateWrite, Extract
<1>3. /\ UNCHANGED <<plan, pc, site, rm, list, result, hit>> /\ OnlyControl(p)
      /\ f \in Payload /\ f \in Files /\ f # "meta" /\ left'[p] = {}
      /\ files'[New(p)] = files[New(p)] \cup {f}
      /\ left' \in [Procs -> SUBSET Payload] /\ files' \in [Dirs -> SUBSET Files]
      /\ at' \in [Places -> Dirs \cup {None}] /\ at'[Staging(p)] = New(p)
      /\ \A x \in Places \ {Staging(p)} : at'[x] = at[x]
  BY <1>1, <1>2 DEF LateWrite, OnlyControl, TypeOK, Files, Payload
<1>4. TypeOK'
  BY <1>1, <1>3, PlanStays DEF TypeOK
<1>5. ControlInv(p)' /\ LandedInv(p)'
  BY <1>1, <1>3, PlanStays DEF CommandInv, ControlInv, LandedInv
<1>6. "meta" \notin files'[New(p)] /\ \A x \in Places : at[x] = New(p) => x = Staging(p)
  BY <1>1, <1>2, <1>3 DEF CommandInv, FreshInv
<1>7. p \in Tasks /\ (pc[p] = "done" => result[p] = "cancelled")
  BY <1>1, <1>2 DEF CommandInv, ControlInv, FreshInv
<1>8. StagingInv(p)' /\ FreshInv(p)'
  BY <1>1, <1>3, <1>6, <1>7 DEF CommandInv, StagingInv, FreshInv, Early
<1>9. SharedStep(p)
  BY <1>1, <1>3 DEF CommandInv, SharedInv, SharedStep
<1> QED
  BY <1>1, <1>2, <1>3, <1>4, <1>5, <1>6, <1>7, <1>8, <1>9, WriteKeeps

\* What every step of p does to what CacheInv says, and to what the others have.
Step(p) == Command(p) \/ Cancel(p) \/ LateWrite(p) \/ Crash(p)

LEMMA StepEffect ==
  ASSUME CacheInv, NEW p \in Procs, Step(p), UNCHANGED plan
  PROVE  CacheInv' /\ Effect(p)
<1>1. CASE Begin(p) \/ Sweep(p) \/ SweepEnds(p) \/ RemoveFile(p) \/ RemoveEnds(p)
  BY <1>1, BeginKeeps, SweepKeeps, SweepEndsKeeps, RemoveFileKeeps, RemoveEndsKeeps
<1>2. CASE CheckMetadata(p) \/ ReadMetadata(p) \/ ValidationFails(p) \/ CheckExecutable(p)
  BY <1>2, CheckMetadataKeeps, ReadMetadataKeeps, ValidationFailsKeeps, CheckExecutableKeeps
<1>3. CASE MakeStaging(p) \/ Unpack(p) \/ WriteMetadata(p) \/ PreparationFails(p)
  BY <1>3, MakeStagingKeeps, UnpackKeeps, WriteMetadataKeeps, PreparationFailsKeeps
<1>4. CASE Promote(p) \/ Inspect(p) \/ MakeBackup(p) \/ Replace(p) \/ Cleanup(p) \/ Reinstate(p)
  BY <1>4, PromoteKeeps, InspectKeeps, MakeBackupKeeps, ReplaceKeeps, CleanupKeeps, ReinstateKeeps
<1>5. CASE Scan(p) \/ Prune(p) \/ Succeed(p) \/ Fail(p)
  BY <1>5, ScanKeeps, PruneKeeps, SucceedKeeps, FailKeeps
<1>6. CASE Cancel(p) \/ LateWrite(p) \/ Crash(p)
  BY <1>6, CancelKeeps, LateWriteKeeps, CrashKeeps
<1> QED
  BY <1>1, <1>2, <1>3, <1>4, <1>5, <1>6 DEF Step, Command

(***************************************************************************)
(* The binary is kept                                                      *)
(***************************************************************************)

\* A step of p among commands that keep the binary and are not disturbed.
Situation(p) ==
  /\ CacheInv /\ CacheInv' /\ Effect(p) /\ p \in Procs
  /\ Keepers /\ Undisturbed /\ Undisturbed' /\ Kept

LEMMA SituationFacts ==
  ASSUME NEW p, Situation(p)
  PROVE  /\ TypeOK /\ TypeOK' /\ OnePlace /\ OnePlace' /\ p \in Procs /\ p \in DOMAIN Op
         /\ hit = {} /\ hit' = {} /\ UNCHANGED plan /\ Op' = Op /\ Dirs' = Dirs
         /\ \A q : Home(q)' = Home(q) /\ (Installs(q)' <=> Installs(q))
         /\ \A q \in Procs : /\ ControlInv(q) /\ StagingInv(q)
                             /\ StagedInv(q) /\ HeldInv(q) /\ ReplacedInv(q) /\ PruneInv(q)
         /\ \A v \in Versions : EntryInv(v)
         /\ Stable(Target[p].version) = Home(p) /\ Target[p].version \in Versions
<1>1. UNCHANGED plan /\ p \in DOMAIN Op
  BY DEF Situation, Effect
<1>2. TypeOK /\ TypeOK' /\ OnePlace /\ OnePlace' /\ p \in Procs
  BY DEF Situation, CacheInv
<1>3. Target[p].version \in Versions
  BY <1>2, PlanTypes DEF Targets
<1>4. hit = {} /\ hit' = {}
  BY DEF Situation, Undisturbed
<1>5. \A q \in Procs : ControlInv(q) /\ StagingInv(q)
  BY DEF Situation, CacheInv, CommandInv
<1> QED
  BY <1>1, <1>2, <1>3, <1>4, <1>5, PlanStays DEF Situation, Kept, Home

LEMMA SomePlaces ==
  ASSUME TypeOK, NEW p \in Procs
  PROVE  /\ \A v \in Versions : /\ Stable(v) \in Places /\ Stable(v) \notin WorkPlaces
                                /\ \A w : Stable(v) = Stable(w) => v = w
         /\ Staging(p) \in Places /\ Backup(p) \in Places /\ Home(p) \in Places
         /\ Target[p].version \in Versions /\ Home(p) = Stable(Target[p].version)
         /\ \E v \in Versions : Home(p) = Stable(v)
<1>1. Target[p].version \in Versions /\ Home(p) = Stable(Target[p].version)
  BY PlanTypes DEF Targets, Home
<1> QED
  BY <1>1 DEF Stable, Staging, Backup, Places, WorkPlaces, Home

\* Two installs that overlap are of one version.
LEMMA SameHome ==
  ASSUME Keepers, SerialInv, NEW p \in Procs, NEW q \in Procs, Installs(p), Installs(q), Live(p),
         Live(q)
  PROVE  Home(p) = Home(q) /\ (p # q => AtMostTwo)
BY DEF Keepers, SerialInv, OneVersion

LEMMA SafeStays ==
  ASSUME NEW p, Situation(p), NEW x \in Places, Safe(x), NEW y \in Places,
         at'[y] = at[x], rm'[p] # rm[p] /\ rm'[p] # None => rm'[p].dir # at[x]
  PROVE  Safe(y)'
<1>1. PICK d : d = at[x] /\ d # None /\ files[d] = Files /\ Removers(d) = {}
  BY DEF Safe, Whole
<1>2. d \in Dirs
  BY <1>1, SituationFacts DEF TypeOK
<1>3. /\ Writes(p) /\ \A q \in Procs \ {p} : rm'[q] = rm[q]
  BY DEF Situation, Effect
<1>4. files'[d] = Files
  <2>1. files'[d] \subseteq Files
    BY <1>2, SituationFacts DEF TypeOK
  <2>2. ~ (rm[p] # None /\ rm[p].dir = d)
    BY <1>1, SituationFacts DEF Removers
  <2>3. files'[d] # files[d] => files[d] \subseteq files'[d]
    BY <1>2, <1>3, <2>2 DEF Writes
  <2> QED
    BY <1>1, <2>1, <2>3
<1>5. Removers(d)' = {}
  BY <1>1, <1>3 DEF Removers
<1>6. Files' = Files
  BY DEF Files
<1> QED
  BY <1>1, <1>4, <1>5, <1>6 DEF Safe, Whole

\* p leaves place x alone, or takes an empty directory away.
Untouched(p, x) ==
  /\ at'[x] = at[x] \/ (at'[x] = None /\ at[x] # None /\ files[at[x]] = {})
  /\ rm'[p] # rm[p] /\ rm'[p] # None => rm'[p].place # x

LEMMA RemovalBegins ==
  ASSUME NEW p, Situation(p), rm'[p] # rm[p], rm'[p] # None
  PROVE  /\ rm[p] = None /\ rm'[p].place \in Places /\ at[rm'[p].place] # None
         /\ rm'[p].dir = at[rm'[p].place]
         /\ \A q \in Procs \ {p} : rm'[p].place \in {Staging(q), Backup(q)} => ~Live(q)
<1>1. PICK x \in Places :
        /\ rm[p] = None /\ at[x] # None
        /\ rm'[p] = [place |-> x, dir |-> at[x], todo |-> files[at[x]]]
        /\ \A q \in Procs \ {p} : x \in {Staging(q), Backup(q)} /\ Live(q) => hit' # {}
  BY DEF Situation, Effect, Removes
<1> QED
  BY <1>1, SituationFacts

LEMMA SafeUntouched ==
  ASSUME NEW p, Situation(p), NEW x \in Places, Safe(x), Untouched(p, x)
  PROVE  Safe(x)' /\ at'[x] = at[x]
<1>1. at'[x] = at[x] /\ at[x] # None
  BY DEF Untouched, Safe, Whole, Files
<1>2. rm'[p] # rm[p] /\ rm'[p] # None => rm'[p].dir # at[x]
  BY <1>1, RemovalBegins, SituationFacts DEF Untouched, OnePlace
<1> QED
  BY <1>1, <1>2, SafeStays

LEMMA HoldersAreLive ==
  ASSUME NEW q, Holds(q)
  PROVE  Live(q)
BY DEF Holds, Live

\* What another command has for itself p leaves alone.
LEMMA OthersKeep ==
  ASSUME NEW p, Situation(p), NEW q \in Procs \ {p}
  PROVE  /\ pc'[q] = pc[q] /\ site'[q] = site[q] /\ rm'[q] = rm[q] /\ list'[q] = list[q]
         /\ Holds(q)' <=> Holds(q)
         /\ Past(q)' <=> Past(q)
         /\ StagedInv(q)' /\ HeldInv(q)'
<1>1. /\ TypeOK /\ Backup(q) \in Places /\ Staging(q) \in Places
      /\ Backup(q) \notin Own(p) /\ Staging(q) \notin Own(p)
  BY SituationFacts, SomePlaces, Geometry DEF Own
<1>2. /\ pc'[q] = pc[q] /\ site'[q] = site[q] /\ rm'[q] = rm[q] /\ list'[q] = list[q] /\ Moves(p)
  BY DEF Situation, Effect
<1>3. \A x \in {Staging(q), Backup(q)} : Safe(x) /\ Live(q) => Untouched(p, x)
  <2> SUFFICES ASSUME NEW x \in {Staging(q), Backup(q)}, Safe(x), Live(q) PROVE Untouched(p, x)
    OBVIOUS
  <2>1. x \in Places /\ x \notin Own(p) /\ at[x] # None /\ files[at[x]] # {}
    BY <1>1 DEF Safe, Whole, Files
  <2>2. at'[x] = at[x]
    BY <1>2, <2>1 DEF Moves
  <2> QED
    BY <2>2, RemovalBegins DEF Untouched
<1>4. (Holds(q)' <=> Holds(q)) /\ (Past(q)' <=> Past(q))
  BY <1>2 DEF Holds, Past
<1>5. HeldInv(q)'
  BY <1>1, <1>3, <1>4, SafeUntouched, HoldersAreLive, SituationFacts DEF HeldInv
<1>6. StagedInv(q)'
  <2> SUFFICES ASSUME \/ pc[q] \in {"inspect", "backup", "replace"}
                      \/ pc[q] \in {"check", "read", "stat"} /\ site[q] = "conflict"
               PROVE  at'[Staging(q)] = New(q) /\ Safe(Staging(q))'
    BY <1>2 DEF StagedInv
  <2>1. Live(q) /\ at[Staging(q)] = New(q) /\ Safe(Staging(q))
    BY SituationFacts DEF StagedInv, Live
  <2> QED
    BY <1>1, <1>3, <2>1, SafeUntouched
<1> QED
  BY <1>2, <1>4, <1>5, <1>6

\* What p does with the removal it is in at an entry.
Unhands(p, v) ==
  rm[p] = None \/ UNCHANGED <<rm, pc>> \/
  ~ (/\ rm[p].place = Stable(v) /\ rm[p].dir = at[Stable(v)]
     /\ files[at[Stable(v)]] \subseteq rm[p].todo /\ at'[Stable(v)] # None)

LEMMA EntryStays ==
  ASSUME NEW p, Situation(p), NEW v \in Versions, Untouched(p, Stable(v)), Unhands(p, v)
  PROVE  EntryInv(v)'
<1> DEFINE x == Stable(v)
<1> SUFFICES ASSUME at'[x] # None PROVE EntryInv(v)'
  BY DEF EntryInv
<1>1. x \in Places /\ x # Staging(p) /\ TypeOK /\ p \in Procs
  BY SituationFacts, SomePlaces, Geometry
<1>2. at'[x] = at[x] /\ at[x] # None /\ at[x] \in Dirs
  BY <1>1 DEF Untouched, TypeOK
<1>3. CASE Safe(x)
  BY <1>1, <1>3, SafeUntouched DEF EntryInv
<1>4. CASE ~Safe(x)
  <2>1. PICK q \in Procs :
          /\ rm[q] # None /\ rm[q].place = x /\ rm[q].dir = at[x]
          /\ files[at[x]] \subseteq rm[q].todo
          /\ \/ pc[q] = "prune" /\ Home(q) # x
             \/ pc[q] = "reinstate" /\ Home(q) = x
    BY <1>2, <1>4, SituationFacts DEF EntryInv
  <2>2. files'[at[x]] \subseteq files[at[x]]
    <3>1. SUFFICES ASSUME files'[at[x]] # files[at[x]], ~ (files'[at[x]] \subseteq files[at[x]])
                   PROVE  FALSE
      OBVIOUS
    <3>2. at[x] = New(p) /\ \A y \in Places \ {Staging(p)} : at[y] # New(p)
      BY <1>2, <3>1 DEF Situation, Effect, Writes
    <3> QED
      BY <1>1, <3>2
  <2>3. rm'[q] = rm[q] /\ pc'[q] = pc[q]
    <3>1. CASE q = p
      BY <1>2, <2>1, <3>1 DEF Unhands
    <3>2. CASE q # p
      BY <3>2, OthersKeep
    <3> QED
      BY <3>1, <3>2
  <2> QED
    BY <1>2, <2>1, <2>2, <2>3, SituationFacts DEF EntryInv
<1> QED
  BY <1>3, <1>4

Backed(p) == Safe(Home(p)) \/ \E q \in Procs : pc[q] # "read" /\ Holds(q)

LEMMA OthersPrune ==
  ASSUME NEW p, Situation(p), NEW q \in Procs \ {p},
         \/ Installs(p) /\ Live(p) /\ Backed(p)'
         \/ /\ Untouched(p, Home(q))
            /\ pc[p] # "read" /\ Holds(p) => pc'[p] # "read" /\ Holds(p)'
  PROVE  PruneInv(q)'
<1>1. /\ TypeOK /\ p \in Procs /\ Home(q) \in Places /\ Home(q)' = Home(q) /\ Home(p)' = Home(p)
      /\ pc'[q] = pc[q] /\ site'[q] = site[q] /\ list'[q] = list[q] /\ PruneInv(q) /\ ControlInv(q)
      /\ SerialInv /\ Keepers
  BY SituationFacts, SomePlaces, OthersKeep DEF Situation, CacheInv
<1> SUFFICES ASSUME pc[q] \in {"scan", "prune", "read"}, Backed(q)
             PROVE  Safe(Home(q))' \/ \E r \in Procs : pc'[r] # "read" /\ Holds(r)'
  BY <1>1 DEF PruneInv, Backed
<1>2. CASE Installs(p) /\ Live(p) /\ Backed(p)'
  <2>1. Installs(q) /\ Live(q)
    BY <1>1 DEF Situation, Undisturbed, ControlInv, Installs, Live
  <2>2. Home(q) = Home(p)
    BY <1>1, <1>2, <2>1, SameHome
  <2> QED
    BY <1>1, <1>2, <2>2 DEF Backed
<1>3. CASE /\ Untouched(p, Home(q))
           /\ pc[p] # "read" /\ Holds(p) => pc'[p] # "read" /\ Holds(p)'
  <2>1. CASE Safe(Home(q))
    <3>1. Safe(Home(q))' /\ TRUE
      BY <1>1, <1>3, <2>1, SafeUntouched
    <3> QED
      BY <3>1
  <2>2. CASE \E r \in Procs : pc[r] # "read" /\ Holds(r)
    BY <1>3, <2>2, OthersKeep
  <2> QED
    BY <2>1, <2>2 DEF Backed
<1> QED
  BY <1>2, <1>3

LEMMA OthersOwn ==
  ASSUME NEW p, Situation(p), NEW q \in Procs \ {p},
         \/ Untouched(p, Home(q)) /\ (Past(p) => Past(p)')
         \/ Installs(p) /\ Live(p) /\ Past(p)'
         \/ Installs(p) /\ Live(p) /\ ~Safe(Home(p)) /\ (Past(p) => Past(p)')
  PROVE  ReplacedInv(q)'
<1>1. /\ TypeOK /\ p \in Procs /\ Home(q) \in Places /\ Home(q)' = Home(q)
      /\ pc'[q] = pc[q] /\ site'[q] = site[q] /\ rm'[q] = rm[q]
      /\ ReplacedInv(q) /\ ControlInv(q) /\ SerialInv /\ Keepers
  BY SituationFacts, SomePlaces, OthersKeep DEF Situation, CacheInv
<1> SUFFICES ASSUME pc[q] \in {"check", "read", "stat", "cleanup", "reinstate"} PROVE ReplacedInv(q)'
  BY <1>1 DEF ReplacedInv
<1>2. Installs(q) /\ Live(q)
  BY <1>1 DEF ControlInv, Installs, Live
<1>3. (Past(p) => Past(p)') => (OthersArePast(q) => OthersArePast(q)')
  <2>1. \A r \in Procs : Installs(r)' <=> Installs(r)
    BY SituationFacts
  <2> QED
    BY <2>1, OthersKeep DEF OthersArePast
<1>4. CASE Untouched(p, Home(q)) /\ (Past(p) => Past(p)')
  <2>1. at[Home(q)] = New(q) /\ Safe(Home(q)) => at'[Home(q)] = New(q) /\ Safe(Home(q))'
    <3>1. \A x : x = Home(q) /\ Safe(x) => Safe(x)' /\ at'[x] = at[x]
      BY <1>1, <1>4, SafeUntouched
    <3>2. \A x : x = Home(q)' /\ Safe(x)' => Safe(Home(q))'
      BY DEF Safe, Whole, Removers
    <3> QED
      BY <1>1, <3>1, <3>2
  <2>2. New(q)' = New(q)
    BY DEF New
  <2> QED
    BY <1>1, <1>3, <1>4, <2>1, <2>2 DEF ReplacedInv
<1>5. CASE Installs(p) /\ Live(p) /\ Past(p)'
  <2>1. \A r \in Procs \ {q} : Installs(r) => r = p
    BY <1>1, <1>2, <1>5, SameHome DEF AtMostTwo
  <2>2. OthersArePast(q)'
    BY <1>5, <2>1, SituationFacts DEF OthersArePast
  <2> QED
    BY <2>2 DEF ReplacedInv
<1>6. CASE Installs(p) /\ Live(p) /\ ~Safe(Home(p)) /\ (Past(p) => Past(p)')
  <2>1. Home(q) = Home(p)
    BY <1>1, <1>2, <1>6, SameHome
  <2>2. OthersArePast(q) => OthersArePast(q)'
    BY <1>3, <1>6
  <2> QED
    BY <1>1, <1>6, <2>1, <2>2 DEF ReplacedInv
<1> QED
  BY <1>4, <1>5, <1>6

LEMMA PartsAreAll ==
  ASSUME NEW p, Situation(p), HasBinary', StagedInv(p)', HeldInv(p)', ReplacedInv(p)', PruneInv(p)',
         \A q \in Procs \ {p} : ReplacedInv(q)' /\ PruneInv(q)',
         \A v \in Versions : EntryInv(v)'
  PROVE  Kept'
BY OthersKeep DEF Kept

LEMMA HoldersHaveIt ==
  ASSUME NEW p, Situation(p), HeldInv(p)', \E q \in Procs : Holds(q)'
  PROVE  HasBinary'
BY OthersKeep DEF HasBinary, Guards, HeldInv

LEMMA BinaryStays ==
  ASSUME NEW p, Situation(p), \A v \in Versions : Untouched(p, Stable(v)),
         Holds(p) => Holds(p)', HeldInv(p)'
  PROVE  HasBinary'
<1>1. CASE \E v \in Versions : Safe(Stable(v))
  BY <1>1, SituationFacts, SomePlaces, SafeUntouched DEF HasBinary
<1>2. CASE \E q \in Procs : Holds(q)
  BY <1>2, OthersKeep, HoldersHaveIt
<1> QED
  BY <1>1, <1>2 DEF Situation, Kept, HasBinary, Guards

\* A step that leaves the entries alone, and keeps what p holds.
LEMMA TameKeeps ==
  ASSUME NEW p, Situation(p), \A v \in Versions : Untouched(p, Stable(v)) /\ Unhands(p, v),
         Holds(p) => pc'[p] # "read" /\ Holds(p)', Past(p) => Past(p)',
         StagedInv(p)', HeldInv(p)', ReplacedInv(p)', PruneInv(p)'
  PROVE  Kept'
<1>1. \A q \in Procs : Untouched(p, Home(q))
  BY SituationFacts, SomePlaces
<1>2. \A v \in Versions : EntryInv(v)'
  BY EntryStays
<1>3. \A q \in Procs \ {p} : ReplacedInv(q)' /\ PruneInv(q)'
  BY <1>1, OthersOwn, OthersPrune
<1> QED
  BY <1>2, <1>3, BinaryStays, PartsAreAll

\* A step of a command that holds nothing and leaves the entries alone.
LEMMA PlainKeeps ==
  ASSUME NEW p, Situation(p), \A v \in Versions : at'[Stable(v)] = at[Stable(v)],
         rm[p] = None \/ UNCHANGED <<rm, pc>>,
         rm'[p] # rm[p] /\ rm'[p] # None => rm'[p].place \in WorkPlaces,
         ~Holds(p), ~Holds(p)', Past(p) => Past(p)',
         StagedInv(p)', PruneInv(p)'
  PROVE  Kept'
<1>1. \A v \in Versions : Untouched(p, Stable(v)) /\ Unhands(p, v)
  BY SituationFacts, SomePlaces DEF Untouched, Unhands
<1>2. HeldInv(p)' /\ ReplacedInv(p)'
  BY DEF HeldInv, ReplacedInv, Holds
<1> QED
  BY <1>1, <1>2, TameKeeps

LEMMA StagedStays ==
  ASSUME NEW p, Situation(p), at[Staging(p)] = New(p), Safe(Staging(p)), Untouched(p, Staging(p))
  PROVE  StagedInv(p)'
BY SituationFacts, SomePlaces, SafeUntouched DEF StagedInv

LEMMA HeldStays ==
  ASSUME NEW p, Situation(p), Holds(p), Untouched(p, Backup(p))
  PROVE  HeldInv(p)'
BY SituationFacts, SomePlaces, SafeUntouched DEF HeldInv

\* What the others have passed they do not come back to.
LEMMA OwnStays ==
  ASSUME NEW p, Situation(p), OthersArePast(p)
  PROVE  OthersArePast(p)'
BY SituationFacts, OthersKeep DEF OthersArePast

LEMMA BeginKeepsIt ==
  ASSUME NEW p, Situation(p), Begin(p) \/ SweepEnds(p) \/ Sweep(p)
  PROVE  Kept'
<1>1. /\ TypeOK /\ TypeOK' /\ p \in Procs /\ ControlInv(p) /\ UNCHANGED at
      /\ pc[p] \in {"idle", "sweep"} /\ site[p] = "first" /\ site'[p] = "first"
  BY SituationFacts DEF ControlInv, Begin, SweepEnds, Sweep, Turn
<1>2. pc'[p] \in {"sweep", "check", "stage", "succeeded"}
  <2>1. pc'[p] \in {"sweep", FirstStep(p)}
    BY <1>1 DEF Begin, SweepEnds, Sweep, Remove, Go, TypeOK
  <2>2. pc'[p] # "idle"
    BY <2>1 DEF FirstStep
  <2>3. Op[p] \in {"install", "update", "list"}
    BY <2>2, SituationFacts, PlanTypes DEF Situation, Undisturbed, Commands
  <2> QED
    BY <2>1, <2>3 DEF FirstStep
<1>3. rm[p] = None
  BY <1>1 DEF ControlInv, Begin, SweepEnds, Sweep, Turn
<1>4. rm'[p] # None => rm'[p].place \in WorkPlaces
  <2>1. CASE Sweep(p)
    <3>1. PICK x \in list[p] : Remove(p, x, "sweep")
      BY <2>1 DEF Sweep
    <3>2. x \in WorkPlaces
      BY <1>1, <2>1, <3>1 DEF Sweep, Turn, ControlInv
    <3> QED
      BY <1>1, <3>1, <3>2 DEF Remove, TypeOK
  <2>2. CASE Begin(p) \/ SweepEnds(p)
    BY <1>3, <2>2 DEF Begin, SweepEnds
  <2> QED
    BY <2>1, <2>2
<1>5. ~Holds(p) /\ ~Holds(p)' /\ ~Past(p) /\ StagedInv(p)' /\ PruneInv(p)'
  BY <1>1, <1>2 DEF Holds, Past, StagedInv, PruneInv
<1> QED
  BY <1>1, <1>3, <1>4, <1>5, PlainKeeps

LEMMA PreparationKeepsIt ==
  ASSUME NEW p, Situation(p),
         MakeStaging(p) \/ Unpack(p) \/ WriteMetadata(p) \/ PreparationFails(p)
  PROVE  Kept'
<1>1. /\ TypeOK /\ p \in Procs /\ pc[p] \in {"stage", "unpack"} /\ rm[p] = None
  BY SituationFacts DEF MakeStaging, Unpack, WriteMetadata, PreparationFails, Turn
<1>2. pc'[p] \in {"unpack", "promote", "failed"}
  BY <1>1 DEF MakeStaging, Unpack, WriteMetadata, PreparationFails, Turn, Fails, Remove, Go, TypeOK
<1>3. \A v \in Versions : at'[Stable(v)] = at[Stable(v)]
  BY <1>1, SomePlaces, Geometry
     DEF MakeStaging, Unpack, Extract, WriteMetadata, PreparationFails, TypeOK
<1>4. rm'[p] # None => rm'[p].place \in WorkPlaces
  BY <1>1, Geometry
     DEF MakeStaging, Unpack, WriteMetadata, PreparationFails, Fails, Remove, TypeOK
<1>5. ~Holds(p) /\ ~Holds(p)' /\ ~Past(p) /\ StagedInv(p)' /\ PruneInv(p)'
  BY <1>1, <1>2 DEF Holds, Past, StagedInv, PruneInv
<1> QED
  BY <1>1, <1>3, <1>4, <1>5, PlainKeeps

LEMMA EndKeepsIt ==
  ASSUME NEW p, Situation(p), Succeed(p) \/ Fail(p)
  PROVE  Kept'
<1>1. /\ TypeOK /\ p \in Procs /\ UNCHANGED <<at, rm>> /\ rm[p] = None
      /\ pc[p] \in {"succeeded", "prune", "failed"} /\ pc'[p] = "done"
  BY SituationFacts DEF Situation, Undisturbed, Succeed, Fail, Turn, Return, Go, TypeOK
<1>2. ~Holds(p) /\ ~Holds(p)' /\ Past(p)' /\ StagedInv(p)' /\ PruneInv(p)'
  BY <1>1 DEF Holds, Past, StagedInv, PruneInv
<1> QED
  BY <1>1, <1>2, PlainKeeps

\* A future that was dropped has disturbed the others.
LEMMA NoLateWrite ==
  ASSUME NEW p, Situation(p)
  PROVE  ~LateWrite(p)
<1>1. /\ p \in Procs /\ FreshInv(p) /\ ControlInv(p)
      /\ pc[p] \notin {"dropped", "crashed"} /\ result[p] # "cancelled"
  BY SituationFacts DEF Situation, Undisturbed, CacheInv, CommandInv
<1> QED
  BY <1>1 DEF FreshInv, LateWrite

LEMMA InspectKeepsIt ==
  ASSUME NEW p, Situation(p), Inspect(p)
  PROVE  Kept'
<1>1. /\ TypeOK /\ p \in Procs /\ pc[p] = "inspect" /\ rm[p] = None /\ UNCHANGED at
      /\ at[Staging(p)] = New(p) /\ Safe(Staging(p))
  BY SituationFacts DEF Inspect, Turn, StagedInv
<1>2. \/ pc'[p] = "failed" /\ (rm'[p] # None => rm'[p].place \in WorkPlaces)
      \/ pc'[p] = "backup" /\ UNCHANGED rm
  BY <1>1, Geometry DEF Inspect, Fails, Remove, Go, TypeOK
<1>3. StagedInv(p)'
  <2>1. CASE pc'[p] = "failed"
    BY <2>1 DEF StagedInv
  <2>2. CASE UNCHANGED rm
    BY <1>1, <2>2, StagedStays DEF Untouched
  <2> QED
    BY <1>2, <2>1, <2>2
<1>4. ~Holds(p) /\ ~Holds(p)' /\ ~Past(p) /\ PruneInv(p)'
  BY <1>1, <1>2 DEF Holds, Past, PruneInv
<1> QED
  BY <1>1, <1>2, <1>3, <1>4, PlainKeeps

\* While p removes, it goes on to hold what it holds.
LEMMA RemoveKeepsIt ==
  ASSUME NEW p, Situation(p), RemoveFile(p) \/ RemoveEnds(p)
  PROVE  Kept'
<1>1. /\ TypeOK /\ TypeOK' /\ p \in Procs /\ rm[p] # None /\ Live(p) /\ UNCHANGED <<site, list, plan>>
      /\ Home(p)' = Home(p) /\ Home(p) \in Places /\ Staging(p) \in Places /\ Backup(p) \in Places
      /\ ControlInv(p) /\ ReplacedInv(p) /\ PruneInv(p)
  BY SituationFacts, SomePlaces DEF RemoveFile, RemoveEnds, Removing
<1>2. \/ UNCHANGED <<at, rm, pc>>
      \/ /\ rm'[p] = None /\ rm[p].todo \cap files[rm[p].dir] = {}
         /\ \A x \in Places :
              at'[x] = IF x = rm[p].place /\ at[x] # None /\ files[at[x]] = {} THEN None ELSE at[x]
         /\ pc'[p] = pc[p] \/ (pc[p] = "prune" /\ pc'[p] = "done")
  BY <1>1 DEF RemoveFile, RemoveEnds, Return, Go, TypeOK
<1>3. /\ \A x \in Places : Untouched(p, x)
      /\ pc'[p] = pc[p] \/ (pc[p] = "prune" /\ pc'[p] = "done")
      /\ rm'[p] = rm[p] \/ rm'[p] = None
  BY <1>2 DEF Untouched
<1>4. \A v \in Versions : Untouched(p, Stable(v)) /\ Unhands(p, v)
  <2> SUFFICES ASSUME NEW v \in Versions PROVE Unhands(p, v)
    BY <1>1, <1>3, SomePlaces
  <2>1. Stable(v) \in Places
    BY <1>1, SomePlaces
  <2> QED
    BY <1>2, <2>1 DEF Unhands
<1>5. (Holds(p) => pc'[p] # "read" /\ Holds(p)') /\ (Past(p) => Past(p)')
  BY <1>1, <1>3 DEF ControlInv, Holds, Past
<1>6. StagedInv(p)'
  <2> SUFFICES ASSUME \/ pc[p] \in {"inspect", "backup", "replace"}
                      \/ pc[p] \in {"check", "read", "stat"} /\ site[p] = "conflict"
               PROVE  StagedInv(p)'
    BY <1>1, <1>3 DEF StagedInv
  <2>1. at[Staging(p)] = New(p) /\ Safe(Staging(p))
    BY <1>1, SituationFacts DEF StagedInv
  <2> QED
    BY <1>1, <1>3, <2>1, StagedStays
<1>7. HeldInv(p)'
  <2>1. CASE Holds(p)
    BY <1>1, <1>3, <2>1, HeldStays
  <2>2. CASE ~Holds(p)
    BY <1>1, <1>3, <2>2 DEF HeldInv, Holds
  <2> QED
    BY <2>1, <2>2
<1>8. Safe(Home(p)) => Safe(Home(p))' /\ at'[Home(p)] = at[Home(p)]
  <2>1. ASSUME Safe(Home(p)) PROVE \A x : x = Home(p) => Safe(x)' /\ at'[x] = at[x]
    BY <1>1, <1>3, <2>1, SafeUntouched
  <2> QED
    BY <1>1, <2>1 DEF Safe, Whole, Removers
<1>9. ReplacedInv(p)'
  <2>1. New(p)' = New(p)
    BY DEF New
  <2> QED
    BY <1>1, <1>3, <1>8, <2>1, OwnStays DEF ReplacedInv
<1>10. PruneInv(p)'
  <2>1. \A q \in Procs : pc[q] # "read" /\ Holds(q) => pc'[q] # "read" /\ Holds(q)'
    BY <1>5, OthersKeep
  <2> QED
    BY <1>1, <1>3, <1>8, <2>1 DEF PruneInv
<1> QED
  BY <1>4, <1>5, <1>6, <1>7, <1>9, <1>10, TameKeeps

\* What is at the place of p's entry is safe, or another holds a backup of it.
LEMMA EntryIsBacked ==
  ASSUME NEW p, Situation(p), Installs(p), Live(p), rm[p] = None, at[Home(p)] # None
  PROVE  \/ Safe(Home(p))
         \/ \E q \in Procs \ {p} : pc[q] = "reinstate" /\ rm[q] # None /\ Installs(q) /\ Live(q)
<1>1. /\ Keepers /\ SerialInv /\ p \in Procs
      /\ \A q \in Procs : pc[q] \in {"prune", "reinstate"} => Installs(q) /\ Live(q)
  <2>1. Keepers /\ SerialInv /\ p \in Procs
    BY SituationFacts DEF Situation, CacheInv
  <2>2. \A q \in Procs : pc[q] \in {"prune", "reinstate"} => Installs(q) /\ Live(q)
    BY SituationFacts DEF Situation, Undisturbed, ControlInv, Installs, Live
  <2> QED
    BY <2>1, <2>2
<1>2. PICK v \in Versions : Home(p) = Stable(v) /\ EntryInv(v)
  BY SituationFacts
<1>3. CASE ~Safe(Home(p))
  <2>1. PICK q \in Procs :
          /\ rm[q] # None
          /\ \/ pc[q] = "prune" /\ Home(q) # Home(p)
             \/ pc[q] = "reinstate"
    BY <1>2, <1>3 DEF EntryInv
  <2>2. Home(q) = Home(p)
    BY <1>1, <2>1, SameHome
  <2> QED
    BY <1>1, <2>1, <2>2
<1> QED
  BY <1>3

LEMMA BackedStays ==
  ASSUME NEW p, Situation(p), Untouched(p, Home(p)), HeldInv(p)',
         Safe(Home(p)) \/ \E q \in Procs \ {p} : pc[q] # "read" /\ Holds(q)
  PROVE  Backed(p)' /\ HasBinary'
<1>1. /\ Home(p) \in Places /\ Home(p)' = Home(p)
      /\ \E v \in Versions : Home(p) = Stable(v)
  BY SituationFacts, SomePlaces
<1>2. CASE Safe(Home(p))
  <2>1. \A x : x = Home(p) => Safe(x)'
    BY <1>1, <1>2, SafeUntouched
  <2> QED
    BY <1>1, <2>1 DEF Backed, HasBinary
<1>3. CASE \E q \in Procs \ {p} : pc[q] # "read" /\ Holds(q)
  <2>1. \E q \in Procs : pc'[q] # "read" /\ Holds(q)'
    BY <1>3, OthersKeep
  <2> QED
    BY <2>1, HoldersHaveIt DEF Backed
<1> QED
  BY <1>2, <1>3

\* p gives up what it holds when its entry is safe without.
LEMMA GiveUpKeeps ==
  ASSUME NEW p, Situation(p), rm[p] = None, Live(p), Installs(p), Past(p) => Past(p)',
         \A v \in Versions : Untouched(p, Stable(v)),
         Safe(Home(p)) \/ \E q \in Procs \ {p} : pc[q] # "read" /\ Holds(q),
         StagedInv(p)', HeldInv(p)', ReplacedInv(p)', pc'[p] # "prune"
  PROVE  Kept'
<1>1. Backed(p)' /\ HasBinary'
  BY SituationFacts, BackedStays
<1>2. \A v \in Versions : EntryInv(v)'
  BY EntryStays DEF Unhands
<1>3. \A q \in Procs \ {p} : ReplacedInv(q)' /\ PruneInv(q)'
  BY <1>1, SituationFacts, SomePlaces, OthersOwn, OthersPrune
<1>4. PruneInv(p)'
  BY <1>1 DEF PruneInv, Backed
<1> QED
  BY <1>1, <1>2, <1>3, <1>4, PartsAreAll

\* What the checks of an entry have in common.
LEMMA CheckFacts ==
  ASSUME NEW p, Situation(p), pc[p] \in {"check", "read", "stat"}
  PROVE  /\ TypeOK /\ p \in Procs /\ Live(p) /\ Installs(p)
         /\ Home(p) \in Places /\ Home(p) \notin WorkPlaces
         /\ Staging(p) \in WorkPlaces /\ Backup(p) \in WorkPlaces
         /\ Succeeds(p) \in {"scan", "succeeded"}
         /\ site[p] \in {"first", "placed", "conflict", "replaced"}
         /\ Past(p) <=> site[p] = "replaced"
         /\ Holds(p) <=> site[p] = "replaced"
<1>1. TypeOK /\ p \in Procs /\ Installs(p)
  BY SituationFacts DEF ControlInv, Installs
<1> QED
  BY <1>1, Geometry DEF Live, Past, Holds, Succeeds, TypeOK

\* p takes its entry for a valid one, or found the metadata: it is safe.
LEMMA EntryIsSafe ==
  ASSUME NEW p, Situation(p), pc[p] \in {"check", "read", "stat"}, rm[p] = None, at[Home(p)] # None
  PROVE  Safe(Home(p)) \/ \E q \in Procs \ {p} : pc[q] # "read" /\ Holds(q)
BY CheckFacts, EntryIsBacked DEF Holds

LEMMA ValidKeepsIt ==
  ASSUME NEW p, Situation(p), pc[p] = "stat", rm[p] = None, CheckRest, Valid(p), Has(Home(p), "exe")
  PROVE  Kept'
<1>1. /\ TypeOK /\ p \in Procs /\ Live(p) /\ Installs(p)
      /\ Staging(p) \in WorkPlaces /\ Backup(p) \in WorkPlaces
      /\ Succeeds(p) \in {"scan", "succeeded"}
  BY CheckFacts
<1>2. pc'[p] \in {"scan", "succeeded"} /\ (rm'[p] # None => rm'[p].place \in WorkPlaces)
  BY <1>1 DEF Valid, Remove, Go, TypeOK
<1>3. \A v \in Versions : Untouched(p, Stable(v))
  BY <1>1, <1>2, SomePlaces DEF Untouched, CheckRest
<1>4. Safe(Home(p)) \/ \E q \in Procs \ {p} : pc[q] # "read" /\ Holds(q)
  BY EntryIsSafe DEF Has
<1>5. StagedInv(p)' /\ HeldInv(p)' /\ ReplacedInv(p)' /\ Past(p)' /\ pc'[p] # "prune"
  BY <1>2 DEF StagedInv, HeldInv, ReplacedInv, Past, Holds
<1> QED
  BY <1>1, <1>3, <1>4, <1>5, GiveUpKeeps

\* If what p put in place is not valid, the other one has moved it aside before.
LEMMA OwnEntryIsValid ==
  ASSUME NEW p, Situation(p), pc[p] \in {"check", "read", "stat"}, site[p] = "replaced", ~Landed(p)
  PROVE  OthersArePast(p)
<1>1. ~ (at[Home(p)] = New(p) /\ Safe(Home(p)))
  BY MetaOfNew, SituationFacts DEF Landed, Accepted, Has, Safe, Whole, Files, Payload
<1>2. ReplacedInv(p)
  BY DEF Situation, Kept
<1> QED
  BY <1>1, <1>2 DEF ReplacedInv

LEMMA InvalidKeepsIt ==
  ASSUME NEW p, Situation(p), pc[p] \in {"check", "read", "stat"}, rm[p] = None, CheckRest, Invalid(p),
         ~Landed(p)
  PROVE  Kept'
<1>1. /\ TypeOK /\ p \in Procs /\ Live(p) /\ Installs(p)
      /\ Home(p) \in Places /\ Home(p) \notin WorkPlaces
      /\ Staging(p) \in WorkPlaces /\ Backup(p) \in WorkPlaces
      /\ site[p] \in {"first", "placed", "conflict", "replaced"}
      /\ Past(p) <=> site[p] = "replaced"
      /\ Holds(p) <=> site[p] = "replaced"
  BY CheckFacts
<1>2. CASE site[p] # "replaced"
  <2>1. \/ pc'[p] = "failed" /\ (rm'[p] # None => rm'[p].place \in WorkPlaces)
        \/ pc'[p] \in {"stage", "inspect"} /\ UNCHANGED rm
    <3>1. CASE site[p] = "placed"
      BY <1>1, <3>1 DEF Invalid, Fails, Remove, Go, TypeOK
    <3>2. CASE site[p] \in {"first", "conflict"}
      BY <1>1, <3>2 DEF Invalid, Go, TypeOK
    <3> QED
      BY <1>1, <1>2, <3>1, <3>2
  <2>2. ~Holds(p) /\ ~Holds(p)' /\ ~Past(p) /\ PruneInv(p)'
    BY <1>1, <1>2, <2>1 DEF Holds, PruneInv
  <2>3. StagedInv(p)'
    <3>1. CASE pc'[p] = "inspect"
      <4>1. site[p] = "conflict" /\ UNCHANGED <<at, rm>>
        BY <1>1, <1>2, <2>1, <3>1 DEF Invalid, CheckRest, Go, Fails, Remove, TypeOK
      <4> QED
        BY <4>1, SituationFacts, StagedStays DEF StagedInv, Untouched
    <3>2. CASE pc'[p] \in {"stage", "failed"}
      BY <3>2 DEF StagedInv
    <3> QED
      BY <2>1, <3>1, <3>2
  <2> QED
    BY <1>1, <2>1, <2>2, <2>3, PlainKeeps DEF CheckRest
<1>3. CASE site[p] = "replaced"
  <2>1. pc'[p] = "cleanup" /\ UNCHANGED <<at, rm>>
    BY <1>1, <1>3 DEF Invalid, CheckRest, Go, TypeOK
  <2>2. Holds(p) /\ \A x : Untouched(p, x)
    BY <1>1, <1>3, <2>1 DEF Untouched
  <2>3. OthersArePast(p)'
    BY <1>3, OwnEntryIsValid, OwnStays
  <2>4. Holds(p)' /\ Past(p)' /\ StagedInv(p)' /\ ReplacedInv(p)' /\ PruneInv(p)'
    BY <2>1, <2>3 DEF Holds, Past, StagedInv, ReplacedInv, PruneInv
  <2> QED
    BY <1>1, <2>1, <2>2, <2>4, HeldStays, TameKeeps DEF Unhands
<1> QED
  BY <1>2, <1>3

\* What p put in place is removed, and p still holds the backup.
LEMMA CleanupKeepsIt ==
  ASSUME NEW p, Situation(p), Cleanup(p)
  PROVE  Kept'
<1>1. /\ TypeOK /\ p \in Procs /\ pc[p] = "cleanup" /\ rm[p] = None /\ Live(p) /\ Installs(p)
      /\ Home(p) \in Places /\ Home(p) \notin WorkPlaces
      /\ Staging(p) \in WorkPlaces /\ Backup(p) \in WorkPlaces /\ ReplacedInv(p) /\ Holds(p)
  BY SituationFacts, SomePlaces, Geometry DEF Cleanup, Turn, ControlInv, Installs, Live, Holds
<1>2. /\ pc'[p] = "reinstate"
      /\ at[Home(p)] = None => rm'[p] = None
      /\ at[Home(p)] # None =>
           rm'[p] = [place |-> Home(p), dir |-> at[Home(p)], todo |-> files[at[Home(p)]]]
  BY <1>1 DEF Cleanup, Remove, Go, TypeOK
<1>3. \A x \in Places \ {Home(p)} : Untouched(p, x)
  BY <1>2 DEF Untouched, Cleanup
<1>4. Holds(p)' /\ Past(p)' /\ HeldInv(p)'
  <2>1. Backup(p) \in Places \ {Home(p)}
    BY <1>1, SomePlaces
  <2> QED
    BY <1>1, <1>2, <1>3, <2>1, HeldStays DEF Holds, Past
<1>5. HasBinary' /\ Backed(p)'
  BY <1>1, <1>2, <1>4, HoldersHaveIt DEF Backed
<1>6. StagedInv(p)' /\ ReplacedInv(p)' /\ PruneInv(p)'
  BY <1>1, <1>2, OwnStays DEF StagedInv, ReplacedInv, PruneInv
<1>7. \A q \in Procs \ {p} : ReplacedInv(q)' /\ PruneInv(q)'
  BY <1>1, <1>4, <1>5, OthersOwn, OthersPrune
<1>8. ASSUME NEW v \in Versions PROVE EntryInv(v)'
  <2>1. CASE Stable(v) = Home(p)
    <3>1. at[Home(p)] # None => rm'[p] # None
      <4>1. at[Home(p)] # None => rm'[p] \in Removals
        <5>1. at[Home(p)] # None => at[Home(p)] \in AllDirs /\ files[at[Home(p)]] \subseteq Files
          BY <1>1, PlanTypes DEF TypeOK
        <5> QED
          BY <1>1, <1>2, <5>1 DEF Removals
      <4> QED
        BY <4>1, NoneAssumption
    <3>2. Home(p)' = Home(p)
      BY SituationFacts
    <3> QED
      BY <1>1, <1>2, <2>1, <3>1, <3>2 DEF EntryInv, Cleanup
  <2>2. CASE Stable(v) # Home(p)
    BY <1>1, <1>3, <2>2, SomePlaces, EntryStays DEF Unhands
  <2> QED
    BY <2>1, <2>2
<1> QED
  BY <1>4, <1>5, <1>6, <1>7, <1>8, PartsAreAll

\* Before it looks further p has found its metadata.
LEMMA GoesOnKeepsIt ==
  ASSUME NEW p, Situation(p), pc[p] \in {"check", "read"}, rm[p] = None, CheckRest,
         NEW l \in {"read", "stat"}, Go(p, l), UNCHANGED rm, Has(Home(p), "meta")
  PROVE  Kept'
<1>1. /\ TypeOK /\ p \in Procs /\ Live(p) /\ Installs(p) /\ Home(p) \in Places
      /\ Backup(p) \in Places /\ Home(p)' = Home(p) /\ New(p)' = New(p) /\ ReplacedInv(p)
      /\ Past(p) <=> site[p] = "replaced"
      /\ Holds(p) <=> site[p] = "replaced"
  BY CheckFacts, SomePlaces, SituationFacts DEF New, Situation, Kept
<1>2. pc'[p] = l /\ UNCHANGED <<plan, at, rm, site>>
  BY <1>1 DEF CheckRest, Go, TypeOK
<1>3. \A x : Untouched(p, x)
  BY <1>2 DEF Untouched
<1>4. (Past(p) => Past(p)') /\ (Holds(p)' => Holds(p))
  BY <1>1, <1>2 DEF Holds, Past
<1>5. StagedInv(p)'
  BY <1>1, <1>2, <1>3, StagedStays, SituationFacts DEF StagedInv
<1>6. HeldInv(p)'
  <2>1. CASE Holds(p)
    BY <1>3, <2>1, HeldStays
  <2>2. CASE ~Holds(p)
    BY <1>4, <2>2 DEF HeldInv
  <2> QED
    BY <2>1, <2>2
<1>7. ReplacedInv(p)'
  <2>1. \A x : x = Home(p) /\ Safe(x) => Safe(x)'
    BY <1>1, <1>3, SafeUntouched
  <2>2. \A x : x = Home(p) /\ Safe(x)' => Safe(Home(p))'
    BY <1>1 DEF Safe, Whole, Removers
  <2> QED
    BY <1>1, <1>2, <2>1, <2>2, OwnStays DEF ReplacedInv
<1>8. Safe(Home(p)) \/ \E q \in Procs \ {p} : pc[q] # "read" /\ Holds(q)
  BY EntryIsSafe DEF Has
<1> QED
  BY <1>1, <1>2, <1>3, <1>4, <1>5, <1>6, <1>7, <1>8, GiveUpKeeps

LEMMA CheckFailsKeepsIt ==
  ASSUME NEW p, Situation(p), pc[p] \in {"check", "read"}, rm[p] = None, CheckRest, Fails(p),
         \/ site[p] # "replaced"
         \/ Safe(Home(p)) \/ \E q \in Procs \ {p} : pc[q] # "read" /\ Holds(q)
  PROVE  Kept'
<1>1. /\ TypeOK /\ p \in Procs /\ Live(p) /\ Installs(p) /\ Staging(p) \in WorkPlaces
      /\ Holds(p) <=> site[p] = "replaced"
  BY CheckFacts
<1>2. pc'[p] = "failed" /\ (rm'[p] # None => rm'[p].place \in WorkPlaces)
  BY <1>1 DEF Fails, Remove, Go, TypeOK
<1>3. ~Holds(p)' /\ Past(p)' /\ StagedInv(p)' /\ HeldInv(p)' /\ ReplacedInv(p)' /\ PruneInv(p)'
  BY <1>2 DEF Holds, Past, StagedInv, HeldInv, ReplacedInv, PruneInv
<1>4. CASE site[p] # "replaced"
  BY <1>1, <1>2, <1>3, <1>4, PlainKeeps DEF CheckRest
<1>5. CASE site[p] = "replaced"
  <2>1. \A v \in Versions : Untouched(p, Stable(v))
    BY <1>1, <1>2, SomePlaces DEF Untouched, CheckRest
  <2> QED
    BY <1>1, <1>2, <1>3, <1>5, <2>1, GiveUpKeeps
<1> QED
  BY <1>4, <1>5

LEMMA CheckKeepsIt ==
  ASSUME NEW p, Situation(p),
         CheckMetadata(p) \/ ReadMetadata(p) \/ ValidationFails(p) \/ CheckExecutable(p)
  PROVE  Kept'
<1>1. CheckRest /\ pc[p] \in {"check", "read", "stat"} /\ rm[p] = None /\ p \in Procs
  BY SituationFacts DEF CheckRest, CheckMetadata, ReadMetadata, ValidationFails, CheckExecutable, Turn
<1>2. CASE CheckMetadata(p)
  <2>1. \/ Has(Home(p), "meta") /\ Go(p, "read") /\ UNCHANGED rm
        \/ Invalid(p) /\ ~Landed(p)
    BY <1>2 DEF CheckMetadata, Landed, Accepted
  <2> QED
    BY <1>1, <1>2, <2>1, GoesOnKeepsIt, InvalidKeepsIt DEF CheckMetadata, Turn
<1>3. CASE ReadMetadata(p)
  <2>1. CASE ~Has(Home(p), "meta")
    <3>1. pc[p] = "read" /\ Fails(p) /\ ~Safe(Home(p))
      BY <1>3, <2>1 DEF ReadMetadata, Turn, Has, Safe, Whole, Files
    <3>2. site[p] = "replaced" => \E q \in Procs \ {p} : pc[q] # "read" /\ Holds(q)
      BY <1>1, <3>1, SituationFacts DEF PruneInv
    <3> QED
      BY <1>1, <3>1, <3>2, CheckFailsKeepsIt
  <2>2. CASE Has(Home(p), "meta")
    <3>1. \/ Go(p, "stat") /\ UNCHANGED rm
          \/ Invalid(p) /\ ~Landed(p)
      BY <1>3, <2>2 DEF ReadMetadata, Landed
    <3> QED
      BY <1>1, <1>3, <2>2, <3>1, GoesOnKeepsIt, InvalidKeepsIt DEF ReadMetadata, Turn
  <2> QED
    BY <2>1, <2>2
<1>4. CASE ValidationFails(p)
  <2>1. site[p] # "replaced"
    <3>1. pc'[p] # "stranded"
      BY <1>1 DEF Situation, Undisturbed
    <3> QED
      BY <1>1, <1>4, <3>1, SituationFacts DEF ValidationFails, Strands, Remove, Go, TypeOK
  <2> QED
    BY <1>1, <1>4, <2>1, CheckFailsKeepsIt DEF ValidationFails, Turn
<1>5. CASE CheckExecutable(p)
  <2>1. \/ pc[p] = "stat" /\ Valid(p) /\ Has(Home(p), "exe")
        \/ Invalid(p) /\ ~Landed(p)
    BY <1>5 DEF CheckExecutable, Turn, Landed, Accepted
  <2> QED
    BY <1>1, <2>1, ValidKeepsIt, InvalidKeepsIt
<1> QED
  BY <1>2, <1>3, <1>4, <1>5

\* An update that removes the other versions has its own in place.
LEMMA ScanKeepsIt ==
  ASSUME NEW p, Situation(p), Scan(p)
  PROVE  Kept'
<1>1. /\ TypeOK /\ p \in Procs /\ pc[p] = "scan" /\ rm[p] = None /\ Op[p] = "update"
      /\ UNCHANGED <<at, rm, files>>
  BY SituationFacts DEF Scan, Turn, ControlInv, Situation, Undisturbed
<1>2. pc'[p] = "prune" /\ list'[p] = Entries \ {Home(p)}
  BY <1>1 DEF Scan, Go, TypeOK, Entries, Places
<1>3. ~Holds(p) /\ ~Holds(p)' /\ Past(p)' /\ StagedInv(p)' /\ HeldInv(p)'
  BY <1>1, <1>2 DEF Holds, Past, StagedInv, HeldInv
<1>4. PruneInv(p)'
  <2>1. Safe(Home(p)) \/ \E q \in Procs \ {p} : pc[q] # "read" /\ Holds(q)
    BY <1>1, <1>3, SituationFacts DEF PruneInv
  <2>2. Backed(p)' /\ Home(p)' = Home(p)
    BY <1>1, <1>3, <2>1, BackedStays, SituationFacts DEF Untouched
  <2> QED
    BY <1>2, <2>2 DEF PruneInv, Backed
<1> QED
  BY <1>1, <1>3, <1>4, PlainKeeps

LEMMA PruneKeepsIt ==
  ASSUME NEW p, Situation(p), Prune(p)
  PROVE  Kept'
<1>1. /\ TypeOK /\ p \in Procs /\ pc[p] = "prune" /\ rm[p] = None /\ Live(p) /\ Installs(p)
      /\ UNCHANGED <<plan, at, files>> /\ ~Holds(p)
      /\ Home(p) \in Places /\ Home(p)' = Home(p)
  BY SituationFacts, SomePlaces
     DEF Prune, Turn, ControlInv, Situation, Undisturbed, Installs, Live, Holds
<1>2. PICK x \in list[p] :
        /\ list' = [list EXCEPT ![p] = @ \ {x}]
        /\ IF at[x] = None THEN Return(p, "err") /\ UNCHANGED rm
                           ELSE Remove(p, x, "prune") /\ UNCHANGED result
  BY DEF Prune
<1>3. x # Home(p) /\ x \in Places
  BY <1>1, SituationFacts DEF PruneInv, TypeOK
<1>4. Safe(Home(p)) \/ \E q \in Procs \ {p} : pc[q] # "read" /\ Holds(q)
  BY <1>1, SituationFacts DEF PruneInv
<1>5. CASE at[x] = None
  <2>1. pc'[p] = "done" /\ UNCHANGED rm
    BY <1>1, <1>2, <1>5 DEF Return, Go, TypeOK
  <2>2. ~Holds(p)' /\ Past(p)' /\ StagedInv(p)' /\ PruneInv(p)'
    BY <2>1 DEF Holds, Past, StagedInv, PruneInv
  <2> QED
    BY <1>1, <2>1, <2>2, PlainKeeps
<1>6. CASE at[x] # None
  <2>1. /\ pc'[p] = "prune" /\ list'[p] = list[p] \ {x}
        /\ rm'[p] = [place |-> x, dir |-> at[x], todo |-> files[at[x]]]
    BY <1>1, <1>2, <1>6 DEF Remove, Go, TypeOK
  <2>2. \A y : y # x => Untouched(p, y)
    BY <1>1, <2>1 DEF Untouched
  <2>3. StagedInv(p)' /\ HeldInv(p)' /\ ReplacedInv(p)' /\ Past(p)'
    BY <2>1 DEF StagedInv, HeldInv, ReplacedInv, Past, Holds
  <2>4. Backed(p)' /\ HasBinary'
    BY <1>3, <1>4, <2>2, <2>3, BackedStays
  <2>5. PruneInv(p)'
    BY <1>1, <2>1, <2>4, SituationFacts DEF PruneInv, Backed
  <2>6. \A q \in Procs \ {p} : ReplacedInv(q)' /\ PruneInv(q)'
    BY <1>1, <2>3, <2>4, OthersOwn, OthersPrune
  <2>7. ASSUME NEW v \in Versions PROVE EntryInv(v)'
    <3>1. CASE Stable(v) = x
      <4>1. rm'[p] \in Removals
        BY <1>1, <1>3, <1>6, <2>1, PlanTypes DEF TypeOK, Removals
      <4>2. rm'[p] # None
        BY <4>1, NoneAssumption
      <4> QED
        BY <1>1, <1>3, <2>1, <3>1, <4>2 DEF EntryInv
    <3>2. CASE Stable(v) # x
      BY <1>1, <2>2, <3>2, EntryStays DEF Unhands
    <3> QED
      BY <3>1, <3>2
  <2> QED
    BY <2>3, <2>4, <2>5, <2>6, <2>7, PartsAreAll
<1> QED
  BY <1>5, <1>6

(***************************************************************************)
(* promote_staged_cache                                                    *)
(***************************************************************************)

\* A whole directory comes to the place of p's entry, where there was none.
LEMMA NewEntryKeeps ==
  ASSUME NEW p, Situation(p), rm[p] = None, Live(p), Installs(p), Safe(Home(p))', ~Safe(Home(p)),
         \A x \in Places : x \notin WorkPlaces /\ x # Home(p) => Untouched(p, x),
         Past(p) => Past(p)', StagedInv(p)', HeldInv(p)', ReplacedInv(p)',
         pc'[p] \notin {"scan", "prune", "read"}
  PROVE  Kept'
<1>1. /\ TypeOK /\ p \in Procs /\ Home(p)' = Home(p)
      /\ \E v \in Versions : Home(p) = Stable(v)
      /\ \A v \in Versions : Stable(v) \in Places /\ Stable(v) \notin WorkPlaces
  BY SituationFacts, SomePlaces
<1>2. Backed(p)' /\ HasBinary'
  BY <1>1 DEF Backed, HasBinary
<1>3. ASSUME NEW v \in Versions PROVE EntryInv(v)'
  <2>1. CASE Stable(v) = Home(p)
    BY <1>1, <2>1 DEF EntryInv
  <2>2. CASE Stable(v) # Home(p)
    BY <1>1, <2>2, EntryStays DEF Unhands
  <2> QED
    BY <2>1, <2>2
<1>4. \A q \in Procs \ {p} : ReplacedInv(q)' /\ PruneInv(q)'
  BY <1>2, OthersOwn, OthersPrune
<1>5. PruneInv(p)'
  BY DEF PruneInv
<1> QED
  BY <1>2, <1>3, <1>4, <1>5, PartsAreAll

LEMMA PromoteKeepsIt ==
  ASSUME NEW p, Situation(p), Promote(p)
  PROVE  Kept'
<1>1. /\ TypeOK /\ OnePlace /\ p \in Procs /\ pc[p] = "promote" /\ rm[p] = None /\ Live(p)
      /\ Installs(p) /\ ~Past(p) /\ ~Holds(p) /\ UNCHANGED <<files, rm>>
      /\ Home(p) \in Places /\ Staging(p) \in Places /\ Home(p) # Staging(p)
      /\ Staging(p) \in WorkPlaces
  BY SituationFacts, SomePlaces, Geometry DEF Promote, Turn, ControlInv, Installs, Live, Past, Holds
<1>2. at[Staging(p)] = New(p) /\ Safe(Staging(p))
  <2>1. at[Staging(p)] = New(p) /\ files[New(p)] = Files /\ Removers(New(p)) = {}
    BY <1>1, SituationFacts DEF Situation, CacheInv, CommandInv, FreshInv
  <2>2. New(p) # None
    BY <1>1, Geometry, PlanTypes
  <2> QED
    BY <2>1, <2>2 DEF Safe, Whole
<1>3. CASE /\ CanRename(Staging(p), Home(p)) /\ Rename(Staging(p), Home(p))
           /\ Validate(p, "placed")
  <2>1. /\ pc'[p] = "check" /\ site'[p] = "placed"
        /\ at'[Home(p)] = at[Staging(p)]
        /\ \A z \in Places \ {Staging(p), Home(p)} : at'[z] = at[z]
    BY <1>1, <1>3 DEF Rename, Validate, Go, TypeOK
  <2>2. \A y : y = Home(p) => Safe(y)'
    BY <1>1, <1>2, <2>1, SafeStays
  <2>3. Safe(Home(p))'
    BY <2>2, SituationFacts DEF Safe, Whole, Removers
  <2>4. ~Safe(Home(p))
    BY <1>3 DEF CanRename, Safe, Whole, Files
  <2>5. StagedInv(p)' /\ HeldInv(p)' /\ ReplacedInv(p)'
    BY <2>1 DEF StagedInv, HeldInv, ReplacedInv, Holds
  <2>6. \A x \in Places : x \notin WorkPlaces /\ x # Home(p) => Untouched(p, x)
    BY <1>1, <2>1 DEF Untouched
  <2> QED
    BY <1>1, <2>1, <2>3, <2>4, <2>5, <2>6, NewEntryKeeps
<1>4. CASE /\ UNCHANGED at
           /\ IF Op[p] = "update" THEN Go(p, "inspect") /\ UNCHANGED site
                                  ELSE Validate(p, "conflict")
  <2>1. pc'[p] = "inspect" \/ (pc'[p] = "check" /\ site'[p] = "conflict")
    BY <1>1, <1>4 DEF Validate, Go, TypeOK
  <2>2. ~Holds(p)' /\ PruneInv(p)'
    BY <2>1 DEF Holds, PruneInv
  <2>3. StagedInv(p)'
    BY <1>1, <1>2, <1>4, StagedStays DEF Untouched
  <2> QED
    BY <1>1, <1>4, <2>1, <2>2, <2>3, PlainKeeps
<1> QED
  BY <1>3, <1>4 DEF Promote

\* Another could only be removing the entry that p moves aside if it had found its own
\* invalid, and then p would be past this step.
LEMMA MakeBackupKeepsIt ==
  ASSUME NEW p, Situation(p), MakeBackup(p)
  PROVE  Kept'
<1>1. /\ TypeOK /\ OnePlace /\ p \in Procs /\ pc[p] = "backup" /\ rm[p] = None /\ Live(p)
      /\ Installs(p) /\ ~Past(p) /\ ~Holds(p) /\ UNCHANGED files
      /\ Home(p) \in Places /\ Backup(p) \in Places /\ Home(p) # Backup(p)
      /\ Staging(p) \in Places /\ Staging(p) \notin {Home(p), Backup(p)}
      /\ Backup(p) \in WorkPlaces /\ Staging(p) \in WorkPlaces
      /\ at[Staging(p)] = New(p) /\ Safe(Staging(p))
  BY SituationFacts, SomePlaces, Geometry
     DEF MakeBackup, Turn, ControlInv, Installs, Live, Past, Holds, StagedInv
<1>2. CASE UNCHANGED at /\ Fails(p)
  <2>1. pc'[p] = "failed" /\ (rm'[p] # None => rm'[p].place \in WorkPlaces)
    BY <1>1, <1>2 DEF Fails, Remove, Go, TypeOK
  <2>2. ~Holds(p)' /\ StagedInv(p)' /\ PruneInv(p)'
    BY <2>1 DEF Holds, StagedInv, PruneInv
  <2> QED
    BY <1>1, <1>2, <2>1, <2>2, PlainKeeps
<1>3. CASE /\ at[Home(p)] # None /\ Rename(Home(p), Backup(p))
           /\ Go(p, "replace") /\ UNCHANGED rm
  <2>1. /\ pc'[p] = "replace"
        /\ at'[Home(p)] = None /\ at'[Backup(p)] = at[Home(p)]
        /\ \A z \in Places \ {Home(p), Backup(p)} : at'[z] = at[z]
    BY <1>1, <1>3 DEF Rename, Go, TypeOK
  <2>2. \A x \in Places : x \notin {Home(p), Backup(p)} => Untouched(p, x)
    BY <1>3, <2>1 DEF Untouched
  <2>3. StagedInv(p)'
    BY <1>1, <2>2, StagedStays
  <2>4. ASSUME NEW v \in Versions PROVE EntryInv(v)'
    <3>1. CASE Stable(v) = Home(p)
      BY <2>1, <3>1 DEF EntryInv
    <3>2. CASE Stable(v) # Home(p)
      BY <1>1, <2>2, <3>2, SomePlaces, EntryStays DEF Unhands
    <3> QED
      BY <3>1, <3>2
  <2>5. Safe(Home(p))
    <3>1. \A q \in Procs \ {p} : ~ (pc[q] = "reinstate" /\ rm[q] # None)
      BY <1>1, SituationFacts DEF ReplacedInv, OthersArePast
    <3> QED
      BY <1>1, <1>3, <3>1, EntryIsBacked
  <2>6. HeldInv(p)' /\ Holds(p)' /\ Past(p)'
    <3>1. Safe(Backup(p))'
      BY <1>1, <1>3, <2>1, <2>5, SafeStays
    <3> QED
      BY <2>1, <3>1 DEF HeldInv, Holds, Past
  <2>7. HasBinary' /\ Backed(p)'
    BY <1>1, <2>1, <2>6, HoldersHaveIt DEF Backed
  <2>8. ReplacedInv(p)' /\ PruneInv(p)'
    BY <2>1 DEF ReplacedInv, PruneInv
  <2>9. \A q \in Procs \ {p} : ReplacedInv(q)' /\ PruneInv(q)'
    BY <1>1, <2>6, <2>7, OthersOwn, OthersPrune
  <2> QED
    BY <2>3, <2>4, <2>6, <2>7, <2>8, <2>9, PartsAreAll
<1> QED
  BY <1>2, <1>3 DEF MakeBackup

LEMMA ReplaceKeepsIt ==
  ASSUME NEW p, Situation(p), Replace(p)
  PROVE  Kept'
<1>1. /\ TypeOK /\ OnePlace /\ p \in Procs /\ pc[p] = "replace" /\ rm[p] = None /\ Live(p)
      /\ Installs(p) /\ Holds(p) /\ UNCHANGED <<files, rm>>
      /\ Home(p) \in Places /\ Backup(p) \in Places /\ Home(p) # Backup(p)
      /\ Staging(p) \in Places /\ Staging(p) \notin {Home(p), Backup(p)}
      /\ Staging(p) \in WorkPlaces /\ Home(p)' = Home(p) /\ New(p)' = New(p)
      /\ at[Staging(p)] = New(p) /\ Safe(Staging(p))
  BY SituationFacts, SomePlaces, Geometry
     DEF Replace, Turn, ControlInv, Installs, Live, Holds, StagedInv, New
<1>2. Untouched(p, Backup(p))
  BY <1>1 DEF Replace, Rename, TypeOK, Untouched
<1>3. HeldInv(p)'
  BY <1>1, <1>2, HeldStays
<1>4. CASE /\ CanRename(Staging(p), Home(p)) /\ Rename(Staging(p), Home(p))
           /\ Validate(p, "replaced")
  <2>1. /\ pc'[p] = "check" /\ site'[p] = "replaced"
        /\ at'[Home(p)] = at[Staging(p)]
        /\ \A z \in Places \ {Staging(p), Home(p)} : at'[z] = at[z]
    BY <1>1, <1>4 DEF Rename, Validate, Go, TypeOK
  <2>2. \A y : y = Home(p) => Safe(y)'
    BY <1>1, <2>1, SafeStays
  <2>3. Safe(Home(p))'
    BY <1>1, <2>2 DEF Safe, Whole, Removers
  <2>4. ~Safe(Home(p))
    BY <1>4 DEF CanRename, Safe, Whole, Files
  <2>5. StagedInv(p)' /\ ReplacedInv(p)' /\ Past(p)'
    BY <1>1, <2>1, <2>3 DEF StagedInv, ReplacedInv, Past, Holds
  <2>6. \A x \in Places : x \notin WorkPlaces /\ x # Home(p) => Untouched(p, x)
    BY <1>1, <2>1 DEF Untouched
  <2> QED
    BY <1>1, <1>3, <2>1, <2>3, <2>4, <2>5, <2>6, NewEntryKeeps
<1>5. CASE Go(p, "reinstate") /\ UNCHANGED <<at, site>>
  <2>1. pc'[p] = "reinstate"
    BY <1>1, <1>5 DEF Go, TypeOK
  <2>2. \A x : Untouched(p, x)
    BY <1>1, <1>5 DEF Untouched
  <2>3. Holds(p)' /\ Past(p)' /\ StagedInv(p)' /\ ReplacedInv(p)' /\ PruneInv(p)'
    BY <1>1, <2>1 DEF Holds, Past, StagedInv, ReplacedInv, PruneInv
  <2> QED
    BY <1>1, <1>3, <2>1, <2>2, <2>3, TameKeeps DEF Unhands
<1> QED
  BY <1>4, <1>5 DEF Replace

\* p puts its backup in place, or finds that there is an entry already.
LEMMA ReinstateKeepsIt ==
  ASSUME NEW p, Situation(p), Reinstate(p)
  PROVE  Kept'
<1>1. /\ TypeOK /\ OnePlace /\ p \in Procs /\ pc[p] = "reinstate" /\ rm[p] = None /\ Live(p)
      /\ Installs(p) /\ Safe(Backup(p)) /\ UNCHANGED files
      /\ Home(p) \in Places /\ Backup(p) \in Places /\ Staging(p) \in Places
      /\ Home(p) # Backup(p) /\ Staging(p) \notin {Home(p), Backup(p)}
      /\ Staging(p) \in WorkPlaces /\ Backup(p) \in WorkPlaces /\ Home(p)' = Home(p)
  BY SituationFacts, SomePlaces, Geometry
     DEF Reinstate, Turn, ControlInv, Installs, Live, Holds, HeldInv
<1>2. ~Strands(p)
  BY <1>1 DEF Situation, Undisturbed, Strands, Remove, Go, TypeOK
<1>3. /\ pc'[p] = "failed"
      /\ rm'[p] # None =>
           /\ at[Staging(p)] # None
           /\ rm'[p].place = Staging(p) /\ rm'[p].dir = at[Staging(p)]
  BY <1>1, <1>2 DEF Reinstate, Fails, Remove, Go, TypeOK
<1>4. StagedInv(p)' /\ HeldInv(p)' /\ ReplacedInv(p)' /\ Past(p)'
  BY <1>3 DEF StagedInv, HeldInv, ReplacedInv, Holds, Past
<1>5. CASE CanRename(Backup(p), Home(p)) /\ Rename(Backup(p), Home(p))
  <2>1. /\ at'[Home(p)] = at[Backup(p)]
        /\ \A z \in Places \ {Backup(p), Home(p)} : at'[z] = at[z]
    BY <1>1, <1>5 DEF Rename, TypeOK
  <2>2. ~Safe(Home(p))
    BY <1>5 DEF CanRename, Safe, Whole, Files
  <2>3. \A y : y = Home(p) => Safe(y)'
    <3>1. at[Staging(p)] # None => at[Staging(p)] # at[Backup(p)]
      BY <1>1 DEF OnePlace
    <3> QED
      BY <1>1, <1>3, <2>1, <3>1, SafeStays
  <2>4. Safe(Home(p))'
    BY <1>1, <2>3 DEF Safe, Whole, Removers
  <2>5. \A x \in Places : x \notin WorkPlaces /\ x # Home(p) => Untouched(p, x)
    BY <1>1, <1>3, <2>1 DEF Untouched
  <2> QED
    BY <1>1, <1>3, <1>4, <2>2, <2>4, <2>5, NewEntryKeeps
<1>6. CASE ~CanRename(Backup(p), Home(p)) /\ UNCHANGED at
  <2>1. at[Home(p)] # None
    BY <1>1, <1>6 DEF CanRename, Safe, Whole
  <2>2. \A v \in Versions : Untouched(p, Stable(v))
    BY <1>1, <1>3, <1>6, SomePlaces DEF Untouched
  <2>3. Safe(Home(p)) \/ \E q \in Procs \ {p} : pc[q] # "read" /\ Holds(q)
    BY <1>1, <2>1, EntryIsBacked DEF Holds
  <2> QED
    BY <1>1, <1>3, <1>4, <2>2, <2>3, GiveUpKeeps
<1> QED
  BY <1>2, <1>5, <1>6 DEF Reinstate

\* A command that was killed, dropped, stranded or begun stays so.
LEMMA DisturbedStays ==
  ASSUME CacheInv, CacheInv', NEW p \in Procs, Step(p), Effect(p), Undisturbed'
  PROVE  Undisturbed
<1>1. TypeOK /\ ControlInv(p) /\ ControlInv(p)' /\ pc'[p] # "crashed"
  BY DEF CacheInv, CommandInv, Undisturbed
<1>2. ~Crash(p) /\ ~Cancel(p)
  BY <1>1 DEF Crash, Cancel, Remove, Go, TypeOK, Undisturbed
<1>3. pc[p] # "crashed" /\ pc'[p] # "idle"
  <2>1. CASE Begin(p) \/ SweepEnds(p) \/ Sweep(p) \/ RemoveFile(p) \/ RemoveEnds(p) \/ LateWrite(p)
    BY <1>1, <2>1 DEF Begin, SweepEnds, Sweep, Remove, RemoveFile, RemoveEnds, LateWrite, Removing,
       Live, FirstStep, Turn, Return, Go, TypeOK
  <2>2. CASE CheckMetadata(p) \/ ReadMetadata(p) \/ ValidationFails(p) \/ CheckExecutable(p)
    BY <1>1, <2>2 DEF CheckMetadata, ReadMetadata, ValidationFails, CheckExecutable, Valid, Invalid,
       Succeeds, Fails, Strands, Remove, Turn, Go, TypeOK
  <2>3. CASE MakeStaging(p) \/ Unpack(p) \/ WriteMetadata(p) \/ PreparationFails(p)
    BY <1>1, <2>3 DEF MakeStaging, Unpack, WriteMetadata, PreparationFails, Fails, Remove, Turn, Go,
       TypeOK
  <2>4. CASE Promote(p) \/ Inspect(p) \/ MakeBackup(p) \/ Replace(p) \/ Cleanup(p) \/ Reinstate(p)
    BY <1>1, <2>4 DEF Promote, Inspect, MakeBackup, Replace, Cleanup, Reinstate, Validate, Fails,
       Strands, Remove, Turn, Go, TypeOK
  <2>5. CASE Scan(p) \/ Prune(p) \/ Succeed(p) \/ Fail(p)
    BY <1>1, <2>5 DEF Scan, Prune, Succeed, Fail, Return, Remove, Turn, Go, TypeOK
  <2> QED
    BY <1>2, <2>1, <2>2, <2>3, <2>4, <2>5 DEF Step, Command
<1>4. pc[p] \notin {"dropped", "stranded"} /\ result[p] \notin {"cancelled", "stranded"}
  <2> SUFFICES ASSUME \/ pc[p] \in {"dropped", "stranded"}
                      \/ pc[p] = "done" /\ result[p] \in {"cancelled", "stranded"}
               PROVE  pc'[p] \in {"dropped", "stranded"} \/ result'[p] \in {"cancelled", "stranded"}
    BY <1>1 DEF ControlInv, Undisturbed
  <2>1. RemoveFile(p) \/ RemoveEnds(p) \/ LateWrite(p) \/ Fail(p)
    BY <1>2 DEF Step, Command, Begin, SweepEnds, Sweep, CheckMetadata, ReadMetadata, ValidationFails,
       CheckExecutable, MakeStaging, Unpack, WriteMetadata, PreparationFails, Promote, Inspect,
       MakeBackup, Replace, Cleanup, Reinstate, Scan, Prune, Succeed, Turn
  <2> QED
    BY <1>1, <2>1 DEF RemoveFile, RemoveEnds, LateWrite, Fail, Removing, Live, Turn, Return, Go, TypeOK
<1>5. Op' = Op /\ hit = {}
  BY DEF Effect, Op, Undisturbed
<1> QED
  BY <1>3, <1>4, <1>5 DEF Undisturbed, Effect

LEMMA StepKeepsIt ==
  ASSUME CacheInv, KeptInv, NEW p \in Procs, Step(p), UNCHANGED plan
  PROVE  KeptInv'
<1> SUFFICES ASSUME Keepers', Undisturbed' PROVE Kept'
  BY DEF KeptInv
<1>1. CacheInv' /\ Effect(p)
  BY StepEffect
<1>2. Undisturbed
  BY <1>1, DisturbedStays
<1>3. Keepers
  BY DEF Keepers, OneVersion, AtMostTwo, Installs, Home, Installed, Op, Target
<1>4. Situation(p)
  BY <1>1, <1>2, <1>3 DEF Situation, KeptInv
<1>5. ~Crash(p) /\ ~Cancel(p)
  BY <1>1 DEF Crash, Cancel, Remove, Go, CacheInv, TypeOK, Undisturbed
<1>6. CASE Begin(p) \/ SweepEnds(p) \/ Sweep(p) \/ RemoveFile(p) \/ RemoveEnds(p)
  BY <1>4, <1>6, BeginKeepsIt, RemoveKeepsIt
<1>7. CASE CheckMetadata(p) \/ ReadMetadata(p) \/ ValidationFails(p) \/ CheckExecutable(p)
  BY <1>4, <1>7, CheckKeepsIt
<1>8. CASE MakeStaging(p) \/ Unpack(p) \/ WriteMetadata(p) \/ PreparationFails(p)
  BY <1>4, <1>8, PreparationKeepsIt
<1>9. CASE Promote(p) \/ Inspect(p) \/ MakeBackup(p) \/ Replace(p) \/ Cleanup(p) \/ Reinstate(p)
  BY <1>4, <1>9, PromoteKeepsIt, InspectKeepsIt, MakeBackupKeepsIt, ReplaceKeepsIt, CleanupKeepsIt,
     ReinstateKeepsIt
<1>10. CASE Scan(p) \/ Prune(p) \/ Succeed(p) \/ Fail(p) \/ LateWrite(p)
  BY <1>4, <1>10, ScanKeepsIt, PruneKeepsIt, EndKeepsIt, NoLateWrite
<1> QED
  BY <1>5, <1>6, <1>7, <1>8, <1>9, <1>10 DEF Step, Command

LEMMA StutterKeepsIt ==
  ASSUME KeptInv, UNCHANGED vars
  PROVE  KeptInv'
<1>1. UNCHANGED <<plan, at, files, pc, site, left, rm, list, result, hit>>
  BY DEF vars
<1>2. /\ \A x : Safe(x)' <=> Safe(x)
      /\ \A p : /\ Guards(p)' <=> Guards(p)
                /\ Home(p)' = Home(p) /\ (Installs(p)' <=> Installs(p))
  BY <1>1 DEF Safe, Whole, Removers, Guards, Holds, Home, Target, Installs, Op
<1>3. (Keepers' => Keepers) /\ (Undisturbed' => Undisturbed)
  BY <1>1, <1>2 DEF Keepers, OneVersion, AtMostTwo, Installed, Undisturbed, Op
<1> SUFFICES ASSUME Kept PROVE Kept'
  BY <1>3 DEF KeptInv
<1>4. HasBinary'
  BY <1>2 DEF Kept, HasBinary
<1>5. ASSUME NEW p \in Procs PROVE StagedInv(p)' /\ HeldInv(p)' /\ PruneInv(p)' /\ ReplacedInv(p)'
  <2>1. \A q : (Holds(q)' <=> Holds(q)) /\ (Past(q)' <=> Past(q))
    BY <1>1 DEF Holds, Past
  <2>2. StagedInv(p)' /\ HeldInv(p)' /\ PruneInv(p)'
    BY <1>1, <1>2, <1>5, <2>1 DEF Kept, StagedInv, HeldInv, PruneInv
  <2>3. ReplacedInv(p)'
    BY <1>1, <1>2, <1>5, <2>1 DEF Kept, ReplacedInv, OthersArePast, New
  <2> QED
    BY <2>2, <2>3
<1>6. ASSUME NEW v \in Versions PROVE EntryInv(v)'
  BY <1>1, <1>2 DEF Kept, EntryInv
<1> QED
  BY <1>4, <1>5, <1>6 DEF Kept

(***************************************************************************)
(* The theorems                                                            *)
(***************************************************************************)

LEMMA NextKeeps ==
  ASSUME CacheInv, [Next]_vars
  PROVE  CacheInv'
<1>1. CASE UNCHANGED vars
  <2>1. UNCHANGED <<plan, at, files, pc, site, left, rm, list, result, hit>>
    BY <1>1 DEF vars
  <2>2. TypeOK' /\ OnePlace' /\ SerialInv'
    BY <2>1 DEF CacheInv, TypeOK, OnePlace, SerialInv, Live, Dirs, Installed
  <2>3. ASSUME NEW p \in Procs PROVE CommandInv(p)'
    <3>1. ControlInv(p)' /\ StagingInv(p)' /\ FreshInv(p)'
      BY <2>1 DEF CacheInv, CommandInv, ControlInv, StagingInv, FreshInv, Early, Removers, Op, Tasks
    <3>2. SweptInv(p)' /\ LandedInv(p)'
      BY <2>1 DEF CacheInv, CommandInv, SweptInv, Leavings, Live, LandedInv, Installs, Landed,
         Accepted, Has, Home, Meta, Op, Tasks, Target
    <3>3. SharedInv(p)'
      BY <2>1 DEF CacheInv, CommandInv, SharedInv, SameInstall, OneTarget, Home, Meta, Removers,
         Op, Target, Installed
    <3> QED
      BY <3>1, <3>2, <3>3 DEF CommandInv
  <2>4. ASSUME NEW d \in Dirs PROVE DirInv(d)'
    BY <2>1 DEF CacheInv, DirInv, Removers
  <2>5. Dirs' = Dirs
    BY <2>1 DEF Dirs, Installed
  <2> QED
    BY <2>2, <2>3, <2>4, <2>5 DEF CacheInv
<1>2. CASE Next
  BY <1>2, StepEffect DEF Next, Step
<1> QED
  BY <1>1, <1>2

LEMMA TheFirstState ==
  ASSUME Init
  PROVE  CacheInv
<1>1. plan \in Plans /\ plan \in PlanType
  BY PlanAssumption DEF Init
<1>2. Installed \subseteq Versions /\ Target \in [Procs -> Targets]
  BY <1>1 DEF PlanType, Installed, Target
<1>3. /\ \A p \in Procs : Staging(p)[1] = "staging" /\ Backup(p)[1] = "backup"
      /\ \A v \in Versions : Stable(v)[1] = "stable" /\ Stable(v)[2] = v
      /\ \A v \in Installed : Old(v) \in Dirs /\ Old(v)[1] = "old" /\ Old(v)[2] = v
      /\ \A p \in Procs : New(p) \in Dirs /\ New(p)[1] = "new"
      /\ Dirs \subseteq AllDirs
  BY <1>2 DEF Staging, Backup, Stable, Old, New, Dirs, AllDirs
<1>4. /\ at \in [Places -> Dirs \cup {None}]
      /\ \A x \in Places : at[x] # None =>
           /\ x[1] = "stable" /\ x[2] \in Installed /\ at[x] = Old(x[2])
           /\ x \notin WorkPlaces /\ \A p \in Procs : at[x] # New(p)
  <2>1. ASSUME NEW x \in Places, at[x] # None
        PROVE  x[1] = "stable" /\ x[2] \in Installed /\ at[x] = Old(x[2])
    BY <2>1 DEF Init
  <2>2. ASSUME NEW x \in Places PROVE at[x] \in Dirs \cup {None}
    BY <1>3, <2>1
  <2>3. ASSUME NEW x \in Places, at[x] # None
        PROVE  x \notin WorkPlaces /\ \A p \in Procs : at[x] # New(p)
    BY <1>3, <2>1, <2>3 DEF WorkPlaces
  <2> QED
    BY <2>1, <2>2, <2>3 DEF Init
<1>5. /\ files \in [Dirs -> SUBSET Files]
      /\ \A p \in Procs : files[New(p)] = {}
      /\ \A d \in Dirs : "meta" \in files[d] => files[d] = Files
  BY <1>3 DEF Init
<1>6. \A p \in Procs : /\ pc[p] = "idle" /\ site[p] = "first" /\ left[p] = {} /\ rm[p] = None
                       /\ list[p] = {} /\ result[p] = "none" /\ ~ Live(p)
  BY DEF Init, Live
<1>7. TypeOK
  BY <1>1, <1>4, <1>5, <1>6 DEF Init, TypeOK, Labels
<1>8. OnePlace /\ SerialInv
  <2>1. ASSUME NEW x \in Places, NEW y \in Places, at[x] # None, at[x] = at[y]
        PROVE  x = y
    <3>1. /\ x[1] = "stable" /\ y[1] = "stable" /\ x[2] \in Installed /\ y[2] \in Installed
          /\ Old(x[2]) = Old(y[2])
      BY <1>4, <2>1
    <3>2. x[2] = y[2]
      BY <1>3, <3>1
    <3>3. x = Stable(x[2]) /\ y = Stable(y[2])
      BY <3>1 DEF Places, WorkPlaces, Stable, Staging, Backup
    <3> QED
      BY <3>2, <3>3
  <2> QED
    BY <1>6, <2>1 DEF OnePlace, SerialInv
<1>9. \A d : Removers(d) = {}
  BY <1>6 DEF Removers
<1>10. \A d \in Dirs : DirInv(d)
  BY <1>5, <1>9 DEF DirInv
<1>11. ASSUME NEW p \in Procs PROVE CommandInv(p)
  <2>1. Staging(p) \in WorkPlaces /\ Staging(p) \in Places /\ Home(p) \in Places
    BY <1>7, Geometry
  <2>2. ControlInv(p) /\ SweptInv(p) /\ LandedInv(p)
    BY <1>6 DEF ControlInv, SweptInv, LandedInv
  <2>3. StagingInv(p) /\ FreshInv(p)
    <3>1. at[Staging(p)] = None /\ files[New(p)] = {} /\ New(p) # None
      BY <1>4, <1>5, <1>7, <2>1, Geometry, PlanTypes
    <3>2. \A x \in Places : at[x] # New(p)
      BY <1>4, <3>1
    <3>3. \A q \in Procs : rm[q] = None
      BY <1>6
    <3>4. StagingInv(p)
      BY <1>6, <3>1 DEF StagingInv
    <3>5. FreshInv(p)
      BY <1>6, <1>9, <3>1, <3>2, <3>3 DEF FreshInv
    <3> QED
      BY <3>4, <3>5
  <2>4. SharedInv(p)
    <3> SUFFICES ASSUME SameInstall, p \in DOMAIN Op, at[Home(p)] # None
                 PROVE  /\ files[at[Home(p)]] = Files
                        /\ Meta(at[Home(p)]) = Target[p]
      BY <1>6, <1>9 DEF SharedInv
    <3>1. Target[p].version \in Versions /\ Target[p] = [version |-> Target[p].version,
                                                         archive |-> Target[p].archive]
      BY <1>2 DEF Targets
    <3>2. Target[p].version \in Installed /\ at[Home(p)] = Old(Target[p].version)
      BY <1>3, <1>4, <2>1, <3>1 DEF Home
    <3>3. files[at[Home(p)]] = Files
      BY <1>3, <3>2 DEF Init
    <3>4. Meta(at[Home(p)]) = [version |-> Target[p].version, archive |-> OldArchive]
      BY <1>3, <3>2 DEF Meta
    <3> QED
      BY <3>1, <3>2, <3>3, <3>4 DEF SameInstall
  <2> QED
    BY <2>2, <2>3, <2>4 DEF CommandInv
<1> QED
  BY <1>7, <1>8, <1>10, <1>11 DEF CacheInv

\* At first the installed versions are in place.
LEMMA TheFirstBinary ==
  ASSUME Init, CacheInv
  PROVE  KeptInv
<1> SUFFICES ASSUME Keepers PROVE Kept
  BY DEF KeptInv
<1>1. /\ \A p \in Procs : pc[p] = "idle" /\ rm[p] = None
      /\ Installed \subseteq Versions /\ Installed # {}
  BY PlanTypes DEF Init, CacheInv, TypeOK, Keepers
<1>2. \A v \in Versions : at[Stable(v)] # None => v \in Installed /\ at[Stable(v)] = Old(v)
  BY DEF Init, Places, Stable
<1>3. \A v \in Installed : at[Stable(v)] = Old(v) /\ files[Old(v)] = Files /\ Old(v) # None
  <2> SUFFICES ASSUME NEW v \in Installed
               PROVE  at[Stable(v)] = Old(v) /\ files[Old(v)] = Files /\ Old(v) # None
    OBVIOUS
  <2>1. v \in Versions /\ Stable(v) \in Places
    BY <1>1 DEF Places
  <2>2. Old(v) \in Dirs /\ Old(v) \in AllDirs
    BY <2>1 DEF Dirs, AllDirs
  <2> QED
    BY <2>1, <2>2, NoneAssumption DEF Init, Stable, Old
<1>4. \A v \in Installed : Safe(Stable(v))
  BY <1>1, <1>3 DEF Safe, Whole, Removers
<1>5. HasBinary
  BY <1>1, <1>4 DEF HasBinary
<1>6. \A v \in Versions : EntryInv(v)
  BY <1>2, <1>4 DEF EntryInv
<1>7. \A p \in Procs : StagedInv(p) /\ HeldInv(p) /\ ReplacedInv(p) /\ PruneInv(p)
  BY <1>1 DEF StagedInv, HeldInv, ReplacedInv, PruneInv, Holds
<1> QED
  BY <1>5, <1>6, <1>7 DEF Kept

\* However the file-system calls of the commands interleave, are cancelled or
\* killed, the cache directory is what CacheInv says of it.
THEOREM Invariant == Spec => []CacheInv
BY TheFirstState, NextKeeps, PTL DEF Spec

\* Every variable keeps its type.
THEOREM Types == Spec => []TypeOK
<1>1. CacheInv => TypeOK
  BY DEF CacheInv
<1> QED
  BY <1>1, Invariant, PTL

\* No command that returns an answer leaves a staging directory behind
\* (the Drop of StagingDirGuard, and every path that disarms it).
THEOREM StagingIsRemoved == Spec => []NoStagingLeaks
<1>1. CacheInv => NoStagingLeaks
  BY DEF CacheInv, CommandInv, StagingInv, NoStagingLeaks
<1> QED
  BY <1>1, Invariant, PTL

\* What validate_cached_binary would accept holds the whole payload, unless somebody
\* is removing it, as long as no sweep has run over a live install.
THEOREM AcceptedIsWhole == Spec => []EntriesAreWhole
<1>1. ASSUME CacheInv PROVE EntriesAreWhole
  <2> SUFFICES ASSUME hit = {}, NEW v \in Versions, Accepted(Stable(v))
               PROVE  Whole(Stable(v)) \/ \E p \in Procs : rm[p] # None /\ rm[p].dir = at[Stable(v)]
    BY DEF EntriesAreWhole
  <2>1. Stable(v) \in Places
    BY DEF Places
  <2>2. at[Stable(v)] # None /\ "meta" \in files[at[Stable(v)]]
    BY DEF Accepted, Has
  <2>3. at[Stable(v)] \in Dirs
    BY <1>1, <2>1, <2>2 DEF CacheInv, TypeOK
  <2>4. files[at[Stable(v)]] = Files \/ Removers(at[Stable(v)]) # {}
    BY <1>1, <2>2, <2>3 DEF CacheInv, DirInv
  <2> QED
    BY <2>2, <2>4 DEF Whole, Removers
<1> QED
  BY <1>1, Invariant, PTL

\* Once the sweep of a command is over, nothing is left of those that were killed
\* before it, when commands do not overlap (clean_stale_staging_entries_in).
THEOREM SweepsReclaim == Spec => []SweepReclaims
<1>1. CacheInv => SweepReclaims
  BY PlanTypes DEF CacheInv, CommandInv, SweptInv, SweepReclaims
<1> QED
  BY <1>1, Invariant, PTL

\* Only a command that has the registry's target in place reports success, when
\* commands do not overlap or when all of them install one target.
THEOREM SuccessMeansInstalled == Spec => SuccessIsInstalled
<1>1. ASSUME CacheInv, [Next]_vars, plan.serial \/ (SameInstall /\ hit = {}),
             NEW p \in Procs, Installs(p), result[p] # "ok", result'[p] = "ok"
      PROVE  Landed(p)
  <2>1. TypeOK /\ CommandInv(p) /\ p \in DOMAIN Op
    BY <1>1 DEF CacheInv, Installs
  <2>2. PICK q \in Procs : result'[q] = "ok" /\ q = p /\ Succeed(p)
    <3>1. PICK q \in Procs : Command(q) \/ Cancel(q) \/ LateWrite(q) \/ Crash(q)
      BY <1>1 DEF Next, vars
    <3>2. result' # result
      BY <1>1
    <3>3. RemoveEnds(q) \/ Prune(q) \/ Succeed(q) \/ Fail(q)
      BY <3>1, <3>2 DEF Command, Cancel, LateWrite, Crash, Begin, Sweep, SweepEnds, RemoveFile,
         CheckMetadata, ReadMetadata, ValidationFails, CheckExecutable, MakeStaging, Unpack,
         WriteMetadata, PreparationFails, Promote, Inspect, MakeBackup, Replace, Cleanup, Reinstate,
         Scan
    <3>4. Succeed(q) /\ result' = [result EXCEPT ![q] = "ok"]
      BY <1>1, <2>1, <3>3 DEF RemoveEnds, Prune, Succeed, Fail, Return, TypeOK
    <3> QED
      BY <1>1, <2>1, <3>4 DEF TypeOK
  <2>3. pc[p] \in {"succeeded", "prune"}
    BY <2>2 DEF Succeed, Turn
  <2>4. CASE plan.serial
    BY <1>1, <2>1, <2>3, <2>4 DEF CommandInv, LandedInv
  <2>5. CASE SameInstall /\ hit = {}
    <3>1. /\ at[Home(p)] # None /\ files[at[Home(p)]] = Files
          /\ Meta(at[Home(p)]) = Target[p]
      BY <2>1, <2>3, <2>5 DEF CommandInv, SharedInv
    <3> QED
      BY <3>1 DEF Landed, Accepted, Has, Files, Payload
  <2> QED
    BY <1>1, <2>4, <2>5
<1>2. CacheInv /\ [Next]_vars =>
        [plan.serial \/ (SameInstall /\ hit = {}) =>
           \A p \in Procs : Installs(p) /\ result[p] # "ok" /\ result'[p] = "ok" => Landed(p)]_vars
  BY <1>1
<1> QED
  BY <1>2, Invariant, PTL DEF Spec, SuccessIsInstalled

\* Among commands that install one version, at most two of them at once, or any that
\* run one after the other, a directory that is being replaced is always held by
\* somebody, whichever archives they install from (promote_staged_cache, the restore of
\* its backup, remove_cached_entries).
THEOREM KeptInvariant == Spec => []KeptInv
<1>1. CacheInv /\ Init => KeptInv
  BY TheFirstBinary
<1>2. CacheInv /\ KeptInv /\ [Next]_vars => KeptInv'
  <2> SUFFICES ASSUME CacheInv, KeptInv, [Next]_vars PROVE KeptInv'
    OBVIOUS
  <2>1. CASE UNCHANGED vars
    BY <2>1, StutterKeepsIt
  <2>2. CASE Next
    BY <2>2, StepKeepsIt DEF Next, Step
  <2> QED
    BY <2>1, <2>2
<1> QED
  BY <1>1, <1>2, Invariant, PTL DEF Spec

\* A user who has a binary keeps one: some version is in place and whole, or the command
\* that replaces it holds it as a backup, while such commands run undisturbed.
THEOREM BinaryStaysThere == Spec => []BinaryIsKept
<1>1. KeptInv => BinaryIsKept
  BY DEF KeptInv, Kept, BinaryIsKept
<1> QED
  BY <1>1, KeptInvariant, PTL

=================================================================================
