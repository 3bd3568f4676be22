--------------------------- MODULE NamedServer_proofs ---------------------------
(***************************************************************************)
(* Theorems about NamedServer, for any set of commands, names and ports,   *)
(* any command lines and any interleaving.                                 *)
(***************************************************************************)
EXTENDS NamedServer, TLAPS

USE CommandsAssumption, OptionsAssumption, NullAssumption, SwitchAssumption
    DEF Commands, fileVars, daemonVars, cliVars, vars

(***************************************************************************)
(* Type correctness                                                        *)
(***************************************************************************)

LEMMA TypeInit == Init => TypeOK
BY DEF Init, TypeOK, DaemonStates, Labels, StartLabels

LEMMA DaemonStepType ==
  ASSUME TypeOK, NEW d \in Starts, DaemonStep(d) \/ Signal(d) \/ Crash(d)
  PROVE  TypeOK'
<1> USE DEF TypeOK, DaemonStates, Become, RemoveFile, Unlink, UnlinkFails
<1>1. CASE Bind(d)
  BY <1>1 DEF Bind, LocalPort
<1>2. CASE CreateStateFile(d)
  <2>1. NameOf[d] \in Names
    OBVIOUS
  <2> QED BY <1>2, <2>1 DEF CreateStateFile
<1>3. CASE WriteStateFile(d)
  BY <1>3 DEF WriteStateFile
<1>4. CASE DropUnwritten(d) \/ RemoveStateFile(d)
  BY <1>4 DEF DropUnwritten, RemoveStateFile
<1>5. CASE BindFails(d) \/ StateFileExists(d) \/ WriteFails(d)
  BY <1>5 DEF BindFails, StateFileExists, WriteFails
<1>6. CASE Serve(d) \/ BeginDrain(d) \/ EndDrain(d) \/ Crash(d)
  BY <1>6 DEF Serve, BeginDrain, EndDrain, Crash
<1>7. CASE Signal(d)
  BY <1>7 DEF Signal
<1> QED BY <1>1, <1>2, <1>3, <1>4, <1>5, <1>6, <1>7 DEF DaemonStep

LEMMA StartStepType ==
  ASSUME TypeOK, NEW s \in Starts,
         StartChecks(s) \/ StartStep(s) \/ StartTimesOut(s) \/ StartInterrupted(s)
  PROVE  TypeOK'
<1> USE DEF TypeOK, Goto, Labels, StartLabels, StopLabels, QueryLabels, Outcomes
<1>1. CASE StartChecks(s) \/ StartProbes(s) \/ StartVerifies(s) \/ StartPolls(s)
  BY <1>1 DEF StartChecks, StartProbes, StartVerifies, StartPolls
<1>2. CASE StartReads(s) \/ StartReadsOwn(s)
  <2>1. NameOf[s] \in Names
    OBVIOUS
  <2> QED BY <1>2, <2>1 DEF StartReads, StartReadsOwn, Readable
<1>3. CASE StartDiscards(s) \/ StartUnlinks(s)
  BY <1>3 DEF StartDiscards, StartUnlinks, RemoveFile, Unlink, UnlinkFails
<1>4. CASE StartSpawns(s) \/ StartKills(s)
  BY <1>4 DEF StartSpawns, StartKills, Become, DaemonStates
<1>5. CASE StartInspects(s) \/ StartTimesOut(s) \/ StartInterrupted(s)
  BY <1>5 DEF StartInspects, StartTimesOut, StartInterrupted
<1> QED BY <1>1, <1>2, <1>3, <1>4, <1>5 DEF StartStep

LEMMA StopStepType ==
  ASSUME TypeOK, NEW t \in Stops, StopReads(t) \/ StopStep(t) \/ StopTimesOut(t)
  PROVE  TypeOK'
<1> USE DEF TypeOK, Goto, Labels, StartLabels, StopLabels, QueryLabels, Outcomes
<1>1. CASE StopReads(t)
  <2>1. NameOf[t] \in Names
    OBVIOUS
  <2> QED BY <1>1, <2>1 DEF StopReads, Readable
<1>2. CASE StopPosts(t)
  BY <1>2 DEF StopPosts, At
<1>3. CASE StopProbes(t) \/ StopSeesNoFile(t) \/ StopTimesOut(t)
  BY <1>3 DEF StopProbes, StopSeesNoFile, StopTimesOut
<1> QED BY <1>1, <1>2, <1>3 DEF StopStep

LEMMA QueryStepType ==
  ASSUME TypeOK, NEW q \in Queries, QueryChecks(q) \/ QueryStep(q)
  PROVE  TypeOK'
<1> USE DEF TypeOK, Goto, Labels, StartLabels, StopLabels, QueryLabels, Outcomes
<1>1. CASE QueryReads(q)
  <2>1. NameOf[q] \in Names
    OBVIOUS
  <2> QED BY <1>1, <2>1 DEF QueryReads, Readable
<1>2. CASE QueryChecks(q) \/ QueryProbes(q) \/ QueryInspectsProcess(q)
  BY <1>2 DEF QueryChecks, QueryProbes, QueryInspectsProcess
<1> QED BY <1>1, <1>2 DEF QueryStep

\* The variables keep their types: the JSON a command has read, in particular,
\* is always some daemon's, and a daemon's port is one of the host's.
THEOREM TypeCorrect == Spec => []TypeOK
<1>1. TypeOK /\ [Next]_vars => TypeOK'
  <2> SUFFICES ASSUME TypeOK, [Next]_vars PROVE TypeOK'
    OBVIOUS
  <2>1. CASE UNCHANGED vars
    BY <2>1 DEF TypeOK
  <2> QED BY <2>1, DaemonStepType, StartStepType, StopStepType, QueryStepType DEF Next
<1> QED BY TypeInit, <1>1, PTL DEF Spec

(***************************************************************************)
(* Files and failed starts, in every environment                           *)
(***************************************************************************)

LEMMA FileInit == Init => FileInv /\ BirthInv /\ CleanupInv
BY DEF Init, FileInv, BirthInv, CleanupInv

LEMMA FileByDaemon ==
  ASSUME TypeOK, FileInv, BirthInv, CleanupInv, NEW d \in Starts,
         DaemonStep(d) \/ Signal(d) \/ Crash(d)
  PROVE  FileInv' /\ BirthInv' /\ CleanupInv'
<1> USE DEF TypeOK, FileInv, BirthInv, CleanupInv, Become, RemoveFile, Unlink, UnlinkFails, Alive
<1>1. CASE Bind(d) \/ BindFails(d) \/ StateFileExists(d)
  BY <1>1 DEF Bind, BindFails, StateFileExists
<1>2. CASE CreateStateFile(d)
  BY <1>2 DEF CreateStateFile
<1>3. CASE WriteStateFile(d) \/ WriteFails(d)
  BY <1>3 DEF WriteStateFile, WriteFails
<1>4. CASE DropUnwritten(d) \/ RemoveStateFile(d)
  BY <1>4 DEF DropUnwritten, RemoveStateFile
<1>5. CASE Serve(d) \/ BeginDrain(d) \/ EndDrain(d)
  BY <1>5 DEF Serve, BeginDrain, EndDrain
<1>6. CASE Signal(d) \/ Crash(d)
  BY <1>6 DEF Signal, Crash
<1> QED BY <1>1, <1>2, <1>3, <1>4, <1>5, <1>6 DEF DaemonStep

LEMMA FileByStart ==
  ASSUME TypeOK, FileInv, BirthInv, CleanupInv, NEW s \in Starts,
         StartChecks(s) \/ StartStep(s) \/ StartTimesOut(s) \/ StartInterrupted(s)
  PROVE  FileInv' /\ BirthInv' /\ CleanupInv'
<1> USE DEF TypeOK, FileInv, BirthInv, CleanupInv, Goto, Alive
<1>1. CASE StartChecks(s) \/ StartProbes(s) \/ StartVerifies(s) \/ StartPolls(s)
  BY <1>1 DEF StartChecks, StartProbes, StartVerifies, StartPolls, MayBegin
<1>2. CASE StartReads(s) \/ StartReadsOwn(s)
  BY <1>2 DEF StartReads, StartReadsOwn
<1>3. CASE StartDiscards(s)
  BY <1>3 DEF StartDiscards, RemoveFile, Unlink, UnlinkFails
<1>4. CASE StartSpawns(s)
  BY <1>4 DEF StartSpawns, Become
<1>5. CASE StartKills(s)
  BY <1>5 DEF StartKills, Become
<1>6. CASE StartInspects(s)
  \* What is left behind is readable and somebody else's.
  <2>1. pc'[s] = "failed" => \A n \in Names : owner[n] = s => s \in unremoved
    BY <1>6 DEF StartInspects, RemovesState, Labels, StartLabels
  <2> QED BY <1>6, <2>1 DEF StartInspects
<1>7. CASE StartUnlinks(s)
  BY <1>7 DEF StartUnlinks, RemoveFile, Unlink, UnlinkFails
<1>8. CASE StartTimesOut(s) \/ StartInterrupted(s)
  BY <1>8 DEF StartTimesOut, StartInterrupted
<1> QED BY <1>1, <1>2, <1>3, <1>4, <1>5, <1>6, <1>7, <1>8 DEF StartStep

LEMMA FileByOthers ==
  ASSUME TypeOK, FileInv, BirthInv, CleanupInv,
         \/ \E t \in Stops : StopReads(t) \/ StopStep(t) \/ StopTimesOut(t)
         \/ \E q \in Queries : QueryChecks(q) \/ QueryStep(q)
  PROVE  FileInv' /\ BirthInv' /\ CleanupInv'
<1>1. UNCHANGED <<owner, unremoved, daemon>> /\ \A s \in Starts : pc'[s] = pc[s]
  BY DEF TypeOK, Goto, StopStep, StopReads, StopProbes, StopPosts, StopSeesNoFile,
         StopTimesOut, QueryStep, QueryChecks, QueryReads, QueryProbes, QueryInspectsProcess
<1> QED BY <1>1 DEF FileInv, BirthInv, CleanupInv, Alive

LEMMA FileInvariant == Spec => [](TypeOK /\ FileInv /\ BirthInv /\ CleanupInv)
<1>1. TypeOK /\ FileInv /\ BirthInv /\ CleanupInv /\ [Next]_vars => FileInv' /\ BirthInv' /\ CleanupInv'
  <2> SUFFICES ASSUME TypeOK, FileInv, BirthInv, CleanupInv, [Next]_vars
               PROVE  FileInv' /\ BirthInv' /\ CleanupInv'
    OBVIOUS
  <2>1. CASE UNCHANGED vars
    BY <2>1 DEF FileInv, BirthInv, CleanupInv, Alive
  <2> QED BY <2>1, FileByDaemon, FileByStart, FileByOthers DEF Next
<1> QED BY FileInit, <1>1, TypeCorrect, PTL DEF Spec

\* A state file whose process is gone is the trace of a crash or a kill: every
\* return of run_with takes the daemon's own file away, whatever other
\* commands and daemons do to files of that name.
THEOREM StaleIsACrash == Spec => []StaleOnlyAfterCrash
<1>1. FileInv => StaleOnlyAfterCrash
  BY DEF FileInv, StaleOnlyAfterCrash
<1> QED BY <1>1, FileInvariant, PTL

\* A failed start leaves no child and no state file of the child, although it
\* reads the file and removes it in two steps between which others write.
THEOREM FailedStartIsClean == Spec => []FailedStartLeavesNothing
<1>1. CleanupInv => FailedStartLeavesNothing
  BY DEF CleanupInv, FailedStartLeavesNothing
<1> QED BY <1>1, FileInvariant, PTL

(***************************************************************************)
(* The exclusive name: when commands follow one another, probes of a live  *)
(* daemon are answered and only `server stop` shuts a daemon down, the     *)
(* state file is a lock on its name.                                       *)
(***************************************************************************)

BaseInv == TypeOK /\ FileInv /\ BirthInv /\ CleanupInv

LEMMA SerialInit == Init => SerialInv
BY DEF Init, SerialInv, OneBusy, Busy, ChildInv, HoldInv, StopInv, ClearInv, PortInv,
       ReadInv, ExclusiveName, Alive, Listening

\* While no command is waiting for a child or for a shutdown, the daemons that
\* live serve, hold their files and were not told to stop.
LEMMA Settled ==
  ASSUME SerialInv, NEW c \in Commands, \A x \in Commands \ {c} : ~Busy(x),
         pc[c] \notin {"wait", "read", "verify", "kill", "drain"},
         NEW e \in Starts, Alive(e), daemon[e] \in DaemonStates
  PROVE  /\ daemon[e] = "serving"
         /\ e \notin shutdown
         /\ owner[NameOf[e]] = e
         /\ e \in written
<1>1. e \notin shutdown
  BY DEF SerialInv, StopInv, Busy, Done, Outcomes
<1>2. daemon[e] \notin {"draining", "drained"}
  BY <1>1 DEF SerialInv, StopInv
<1>3. daemon[e] \notin {"spawned", "bound", "created", "unwritable", "written"}
  BY DEF SerialInv, ChildInv, Busy, Done, Outcomes
<1>4. daemon[e] = "serving"
  BY <1>2, <1>3 DEF Alive, DaemonStates
<1> QED BY <1>1, <1>4 DEF SerialInv, HoldInv

\* In an orderly environment a file that is to go goes.
LEMMA FileIsRemoved ==
  ASSUME Orderly, NEW n, NEW d, RemoveFile(n, d)
  PROVE  Unlink(n)
BY DEF Orderly, RemoveFile, UnlinkFails

\* A daemon that leaves takes its own file away, and no command is looking.
LEMMA UnlinkOwn ==
  ASSUME BaseInv, SerialInv, NEW d \in Starts, Alive(d),
         \A c \in Commands : pc[c] \notin {"seen", "probe"},
         Unlink(NameOf[d]), Become(d, "exited"),
         UNCHANGED <<written, port, shutdown, pc, rec>>
  PROVE  SerialInv'
<1> USE DEF BaseInv, TypeOK, SerialInv, Become, Unlink, Alive
<1>1. daemon' = [daemon EXCEPT ![d] = "exited"] /\ owner' = [owner EXCEPT ![NameOf[d]] = None]
  OBVIOUS
<1>2. OneBusy'
  BY DEF OneBusy, Busy, Done
<1>3. ChildInv'
  BY <1>1 DEF ChildInv
<1>4. HoldInv'
  <2>1. \A e \in Starts : Alive(e) /\ e # d => NameOf[e] # NameOf[d]
    BY DEF ExclusiveName
  <2>2. \A e \in Starts : NameOf[e] \in Names
    OBVIOUS
  <2> QED BY <1>1, <2>1, <2>2 DEF HoldInv
<1>5. StopInv'
  BY <1>1 DEF StopInv
<1>6. ClearInv' /\ ExclusiveName' /\ PortInv'
  BY <1>1 DEF ClearInv, ExclusiveName, PortInv, Listening
<1>7. ReadInv'
  BY <1>1 DEF ReadInv, At, Listening
<1> QED BY <1>2, <1>3, <1>4, <1>5, <1>6, <1>7

LEMMA SerialByDaemon ==
  ASSUME Orderly, BaseInv, BaseInv', SerialInv, NEW d \in Starts,
         DaemonStep(d) \/ Signal(d) \/ Crash(d)
  PROVE  SerialInv'
<1> USE DEF BaseInv, TypeOK, SerialInv, OneBusy, Busy, Done, ChildInv, HoldInv, StopInv,
            ClearInv, PortInv, ReadInv, ExclusiveName, Become, Unlink, Alive, Listening, At
<1>1. CASE Bind(d)
  <2>1. PICK p \in Ports : Free(p) /\ port' = [port EXCEPT ![d] = p]
    BY <1>1 DEF Bind, LocalPort
  <2>2. /\ daemon[d] = "spawned" /\ daemon' = [daemon EXCEPT ![d] = "bound"]
        /\ UNCHANGED <<owner, written, shutdown, pc, rec>>
    BY <1>1 DEF Bind
  <2>3. PortInv'
    BY <2>1, <2>2 DEF Free
  <2>4. pc[d] \in {"wait", "read", "verify", "kill"}
    BY <2>2
  <2>5. \A t \in Stops : pc[t] # "post"
    BY <2>4 DEF Outcomes
  <2>6. ReadInv'
    BY <2>2, <2>4, <2>5 DEF Outcomes
  <2>7. OneBusy' /\ ChildInv' /\ HoldInv' /\ StopInv' /\ ClearInv' /\ ExclusiveName'
    BY <2>2
  <2> QED BY <2>3, <2>6, <2>7
<1>2. CASE BindFails(d) \/ StateFileExists(d)
  BY <1>2 DEF BindFails, StateFileExists
<1>3. CASE CreateStateFile(d)
  BY <1>3 DEF CreateStateFile, MayCreate
<1>4. CASE WriteStateFile(d) \/ WriteFails(d)
  BY <1>4 DEF WriteStateFile, WriteFails
<1>5. CASE DropUnwritten(d)
  <2>1. pc[d] \in {"wait", "read", "verify", "kill"}
    BY <1>5 DEF DropUnwritten
  <2>2. \A c \in Commands : pc[c] \notin {"seen", "probe"}
    BY <2>1 DEF Outcomes
  <2>3. Unlink(NameOf[d])
    BY <1>5, FileIsRemoved DEF DropUnwritten
  <2> QED BY <1>5, <2>2, <2>3, UnlinkOwn DEF DropUnwritten
<1>6. CASE RemoveStateFile(d)
  <2>1. \E t \in Stops : pc[t] = "drain"
    BY <1>6 DEF RemoveStateFile
  <2>2. \A c \in Commands : pc[c] \notin {"seen", "probe"}
    BY <2>1 DEF Outcomes
  <2>3. Unlink(NameOf[d])
    BY <1>6, FileIsRemoved DEF RemoveStateFile
  <2> QED BY <1>6, <2>2, <2>3, UnlinkOwn DEF RemoveStateFile
<1>7. CASE Serve(d)
  BY <1>7 DEF Serve
<1>8. CASE BeginDrain(d) \/ EndDrain(d)
  BY <1>8 DEF BeginDrain, EndDrain
<1>9. CASE Crash(d)
  BY <1>9 DEF Crash
<1>10. CASE Signal(d)
  BY <1>10 DEF Signal, Orderly
<1> QED BY <1>1, <1>2, <1>3, <1>4, <1>5, <1>6, <1>7, <1>8, <1>9, <1>10 DEF DaemonStep

LEMMA SerialByStart ==
  ASSUME Orderly, BaseInv, BaseInv', SerialInv, NEW s \in Starts,
         StartChecks(s) \/ StartStep(s) \/ StartTimesOut(s) \/ StartInterrupted(s)
  PROVE  SerialInv'
<1> USE DEF BaseInv, TypeOK, SerialInv, OneBusy, Busy, Done, ChildInv, HoldInv, StopInv,
            ClearInv, PortInv, ReadInv, ExclusiveName, Goto, Alive, Listening, At,
            Outcomes
<1>1. CASE StartChecks(s)
  <2>1. ASSUME owner[NameOf[s]] = None, NEW e \in Starts, Alive(e), NameOf[e] = NameOf[s]
        PROVE  FALSE
    BY <1>1, <2>1, Settled DEF StartChecks, MayBegin, Orderly
  <2> QED BY <1>1, <2>1 DEF StartChecks, MayBegin, Orderly
<1>2. CASE StartReads(s)
  <2>1. ASSUME ~Readable(NameOf[s]), NEW e \in Starts, Alive(e), NameOf[e] = NameOf[s]
        PROVE  FALSE
    BY <1>2, <2>1, Settled DEF StartReads, Readable
  <2>2. /\ pc[s] = "seen"
        /\ UNCHANGED <<owner, written, daemon, port, shutdown>>
        /\ \/ /\ pc' = [pc EXCEPT ![s] = "probe"]
              /\ rec' = [rec EXCEPT ![s] = owner[NameOf[s]]]
              /\ owner[NameOf[s]] \in Starts
           \/ pc' = [pc EXCEPT ![s] = "discard"] /\ rec' = rec /\ ~Readable(NameOf[s])
    BY <1>2 DEF StartReads, Readable
  <2>3. OneBusy' /\ ChildInv'
    BY <2>2
  <2>4. HoldInv' /\ StopInv'
    BY <2>2
  <2>5. ClearInv'
    BY <2>1, <2>2
  <2>6. PortInv' /\ ExclusiveName'
    BY <2>2
  <2>7. ReadInv'
    <3>1. owner[NameOf[s]] # None => NameOf[owner[NameOf[s]]] = NameOf[s]
      BY DEF FileInv
    <3>2. NameOf[s] \in Names /\ None \notin Starts
      OBVIOUS
    <3> QED BY <2>1, <2>2, <3>1, <3>2
  <2> QED BY <2>3, <2>4, <2>5, <2>6, <2>7
<1>3. CASE StartProbes(s)
  <2>1. ASSUME Silent(rec[s]), NEW e \in Starts, Alive(e), NameOf[e] = NameOf[s]
        PROVE  FALSE
    BY <1>3, <2>1, Settled DEF StartProbes, Silent, Orderly
  <2> QED BY <1>3, <2>1 DEF StartProbes
<1>4. CASE StartDiscards(s)
  <2>1. /\ pc[s] = "discard" /\ pc' = [pc EXCEPT ![s] = "spawn"]
        /\ owner' = [owner EXCEPT ![NameOf[s]] = None]
        /\ UNCHANGED <<written, daemon, port, shutdown, rec>>
    BY <1>4, FileIsRemoved DEF StartDiscards, Unlink
  <2>2. OneBusy' /\ ChildInv'
    BY <2>1
  <2>3. HoldInv' /\ StopInv'
    BY <2>1
  <2>4. ClearInv' /\ PortInv' /\ ExclusiveName'
    BY <2>1
  <2>5. ReadInv'
    BY <2>1
  <2> QED BY <2>2, <2>3, <2>4, <2>5
<1>5. CASE StartSpawns(s)
  <2>1. /\ pc[s] = "spawn" /\ pc' = [pc EXCEPT ![s] = "wait"]
        /\ daemon' = [daemon EXCEPT ![s] = "spawned"]
        /\ UNCHANGED <<owner, written, port, shutdown, rec>>
    BY <1>5 DEF StartSpawns, Become
  <2>2. OneBusy' /\ ChildInv'
    BY <2>1
  <2>3. HoldInv' /\ StopInv'
    BY <2>1
  <2>4. \A e \in Starts : Alive(e)' /\ NameOf[e] = NameOf[s] => e = s
    BY <2>1
  <2>5. \A c \in Commands \ {s} : ~Busy(c) /\ pc'[c] = pc[c]
    BY <2>1
  <2>6. ClearInv'
    BY <2>4, <2>5
  <2>7. ExclusiveName'
    BY <2>1, <2>4
  <2>8. PortInv'
    BY <2>1
  <2>9. ReadInv'
    <3>1. \A c \in Commands : pc'[c] \notin {"seen", "probe", "post", "process", "drain"}
      BY <2>1, <2>5
    <3> QED BY <3>1
  <2> QED BY <2>2, <2>3, <2>6, <2>7, <2>8, <2>9
<1>6. CASE StartPolls(s)
  <2>1. /\ pc[s] = "wait"
        /\ pc' = [pc EXCEPT ![s] = IF Alive(s) THEN "read" ELSE "kill"]
        /\ UNCHANGED <<owner, written, daemon, port, shutdown, rec>>
    BY <1>6 DEF StartPolls
  <2>2. OneBusy' /\ ChildInv'
    BY <2>1
  <2>3. HoldInv' /\ StopInv'
    BY <2>1
  <2>4. ClearInv' /\ PortInv' /\ ExclusiveName'
    BY <2>1
  <2>5. ReadInv'
    BY <2>1
  <2> QED BY <2>2, <2>3, <2>4, <2>5
<1>7. CASE StartReadsOwn(s)
  BY <1>7 DEF StartReadsOwn
<1>8. CASE StartVerifies(s)
  <2>1. /\ pc[s] = "verify"
        /\ pc'[s] \in {"ok", "wait"} /\ pc' = [pc EXCEPT ![s] = pc'[s]]
        /\ UNCHANGED <<owner, written, daemon, port, shutdown, rec>>
    BY <1>8 DEF StartVerifies
  <2>2. pc'[s] = "ok" => daemon[s] = "serving"
    BY <1>8 DEF StartVerifies, Answers
  <2>3. OneBusy' /\ ChildInv' /\ StopInv'
    BY <2>1, <2>2
  <2>4. HoldInv'
    BY <2>1, <2>2
  <2>5. ClearInv' /\ PortInv' /\ ReadInv' /\ ExclusiveName'
    BY <2>1
  <2> QED BY <2>3, <2>4, <2>5
<1>9. CASE StartTimesOut(s)
  BY <1>9 DEF StartTimesOut, Waiting
<1>10. CASE StartKills(s)
  <2>1. /\ pc[s] = "kill" /\ pc' = [pc EXCEPT ![s] = "inspect"]
        /\ UNCHANGED <<owner, written, port, shutdown, rec>>
        /\ ~Alive(s)'
        /\ \A d \in Starts : daemon'[d] = daemon[d] \/ (d = s /\ daemon'[d] = "killed")
    BY <1>10 DEF StartKills, Become
  <2>2. OneBusy' /\ ChildInv'
    BY <1>10, <2>1 DEF StartKills, Become
  <2>3. HoldInv' /\ StopInv'
    BY <2>1
  <2>4. ClearInv' /\ PortInv' /\ ExclusiveName'
    BY <2>1
  <2>5. ReadInv'
    BY <2>1
  <2> QED BY <2>2, <2>3, <2>4, <2>5
<1>11. CASE StartInspects(s)
  BY <1>11 DEF StartInspects, RemovesState, Readable, FileInv
<1>12. CASE StartUnlinks(s)
  <2>1. /\ pc[s] = "unlink" /\ pc' = [pc EXCEPT ![s] = "failed"]
        /\ owner' = [owner EXCEPT ![NameOf[s]] = None]
        /\ UNCHANGED <<written, daemon, port, shutdown, rec>>
    BY <1>12, FileIsRemoved DEF StartUnlinks, Unlink
  <2>2. \A d \in Starts : Alive(d) => NameOf[d] # NameOf[s]
    BY <2>1 DEF CleanupInv
  <2>3. HoldInv'
    <3>1. \A d \in Starts : NameOf[d] \in Names
      OBVIOUS
    <3> QED BY <2>1, <2>2, <3>1 DEF FileInv
  <2>4. OneBusy' /\ ChildInv' /\ StopInv'
    BY <2>1
  <2>5. ClearInv' /\ PortInv' /\ ExclusiveName'
    BY <2>1
  <2>6. \A c \in Commands : pc'[c] \notin {"seen", "probe"}
    BY <2>1
  <2>7. ReadInv'
    BY <2>1, <2>6
  <2> QED BY <2>3, <2>4, <2>5, <2>7
<1>13. CASE StartInterrupted(s)
  BY <1>13 DEF StartInterrupted, Orderly
<1> QED BY <1>1, <1>2, <1>3, <1>4, <1>5, <1>6, <1>7, <1>8, <1>9, <1>10, <1>11, <1>12,
           <1>13 DEF StartStep

LEMMA SerialByStop ==
  ASSUME Orderly, BaseInv, BaseInv', SerialInv, NEW t \in Stops,
         StopReads(t) \/ StopStep(t) \/ StopTimesOut(t)
  PROVE  SerialInv'
<1> USE DEF BaseInv, TypeOK, SerialInv, OneBusy, Busy, Done, ChildInv, HoldInv, StopInv,
            ClearInv, PortInv, ReadInv, ExclusiveName, Goto, Alive, Listening, At,
            Outcomes
<1>1. CASE StopReads(t)
  <2>1. /\ pc[t] = "idle" /\ \A x \in Commands \ {t} : ~Busy(x)
        /\ UNCHANGED <<owner, written, daemon, port, shutdown>>
        /\ \/ /\ pc' = [pc EXCEPT ![t] = "probe"]
              /\ rec' = [rec EXCEPT ![t] = owner[NameOf[t]]]
              /\ owner[NameOf[t]] \in Starts
           \/ pc' = [pc EXCEPT ![t] = "failed"] /\ rec' = rec
    BY <1>1 DEF StopReads, MayBegin, Orderly, Readable
  <2>2. \A c \in Commands \ {t} : pc'[c] = pc[c] /\ rec'[c] = rec[c]
    BY <2>1
  <2>3. OneBusy' /\ ChildInv'
    BY <2>1, <2>2
  <2>4. HoldInv'
    BY <2>1, <2>2 DEF FileInv
  <2>5. StopInv' /\ ClearInv'
    BY <2>1, <2>2
  <2>6. PortInv' /\ ExclusiveName'
    BY <2>1
  <2>7. ReadInv'
    <3>1. owner[NameOf[t]] # None => NameOf[owner[NameOf[t]]] = NameOf[t]
      BY DEF FileInv
    <3>2. NameOf[t] \in Names /\ None \notin Starts
      OBVIOUS
    <3> QED BY <2>1, <2>2, <3>1, <3>2
  <2> QED BY <2>3, <2>4, <2>5, <2>6, <2>7
<1>2. CASE StopProbes(t)
  BY <1>2 DEF StopProbes, Answers
<1>3. CASE StopPosts(t)
  BY <1>3 DEF StopPosts
<1>4. CASE StopSeesNoFile(t)
  BY <1>4 DEF StopSeesNoFile
<1>5. CASE StopTimesOut(t)
  BY <1>5 DEF StopTimesOut, Orderly
<1> QED BY <1>1, <1>2, <1>3, <1>4, <1>5 DEF StopStep

LEMMA SerialByQuery ==
  ASSUME Orderly, BaseInv, BaseInv', SerialInv, NEW q \in Queries,
         QueryChecks(q) \/ QueryStep(q)
  PROVE  SerialInv'
<1> USE DEF BaseInv, TypeOK, SerialInv, OneBusy, Busy, Done, ChildInv, HoldInv, StopInv,
            ClearInv, PortInv, ReadInv, ExclusiveName, Goto, Alive, Listening, At,
            Outcomes
<1>1. CASE QueryChecks(q)
  BY <1>1 DEF QueryChecks, MayBegin, Orderly
<1>2. CASE QueryReads(q)
  <2>1. /\ pc[q] = "seen"
        /\ UNCHANGED <<owner, written, daemon, port, shutdown>>
        /\ \/ /\ pc' = [pc EXCEPT ![q] = "probe"]
              /\ rec' = [rec EXCEPT ![q] = owner[NameOf[q]]]
              /\ owner[NameOf[q]] \in Starts
           \/ pc' = [pc EXCEPT ![q] = "error"] /\ rec' = rec
    BY <1>2 DEF QueryReads, Readable
  <2>2. OneBusy' /\ ChildInv'
    BY <2>1
  <2>7. \A c \in Starts \cup Stops : pc'[c] = pc[c] /\ rec'[c] = rec[c]
    BY <2>1
  <2>4. HoldInv'
    BY <2>1, <2>7 DEF FileInv
  <2>5. StopInv'
    BY <2>1, <2>7
  <2>8. ClearInv'
    <3>1. \A s \in Starts : pc'[s] = pc[s]
      BY <2>7
    <3>2. daemon' = daemon
      BY <2>1
    <3> HIDE <2>1, <2>7 DEF SerialInv
    <3>3. ClearInv
      BY DEF SerialInv
    <3> QED BY <3>1, <3>2, <3>3
  <2>3. ReadInv'
    <3>1. \A c \in Commands \ {q} : pc'[c] = pc[c] /\ rec'[c] = rec[c]
      BY <2>1
    <3>2. owner' = owner /\ daemon' = daemon /\ port' = port
      BY <2>1
    <3>3. NameOf[q] \in Names
      OBVIOUS
    <3>4. \/ pc'[q] = "error"
          \/ /\ pc'[q] = "probe" /\ rec'[q] = owner[NameOf[q]] /\ rec'[q] \in Starts
             /\ NameOf[rec'[q]] = NameOf[q]
      BY <2>1, <3>3 DEF FileInv
    <3>5. ReadInv
      OBVIOUS
    <3> HIDE <2>1, <2>7 DEF SerialInv, TypeOK
    <3> QED BY <3>1, <3>2, <3>4, <3>5
  <2>6. PortInv' /\ ExclusiveName'
    BY <2>1
  <2> QED BY <2>2, <2>3, <2>4, <2>5, <2>6, <2>8
<1>3. CASE QueryProbes(q)
  <2>1. ASSUME Silent(rec[q]), NEW e \in Starts, Alive(e), NameOf[e] = NameOf[q]
        PROVE  FALSE
    BY <1>3, <2>1, Settled DEF QueryProbes, Silent, Orderly
  <2>2. /\ UNCHANGED <<owner, written, daemon, port, shutdown, rec>> /\ pc[q] = "probe"
        /\ \/ pc' = [pc EXCEPT ![q] = "running"]
           \/ pc' = [pc EXCEPT ![q] = "process"] /\ Silent(rec[q])
    BY <1>3 DEF QueryProbes
  <2>3. \A c \in Starts \cup Stops : pc'[c] = pc[c]
    BY <2>2
  <2>4. OneBusy' /\ ChildInv'
    BY <2>2, <2>3
  <2>5. HoldInv'
    BY <2>2, <2>3
  <2>6. StopInv'
    BY <2>2, <2>3
  <2>7. ClearInv'
    BY <2>2, <2>3
  <2>8. PortInv' /\ ExclusiveName'
    BY <2>2
  <2>9. ReadInv'
    <3>1. pc'[q] = "process" => \A e \in Starts : NameOf[e] = NameOf[q] => ~Alive(e)
      BY <2>1, <2>2
    <3>2. \A c \in Commands \ {q} : pc'[c] = pc[c]
      BY <2>2
    <3> QED BY <2>2, <3>1, <3>2
  <2> QED BY <2>4, <2>5, <2>6, <2>7, <2>8, <2>9
<1>4. CASE QueryInspectsProcess(q)
  BY <1>4 DEF QueryInspectsProcess
<1> QED BY <1>1, <1>2, <1>3, <1>4 DEF QueryStep

LEMMA SerialInvariant ==
  ASSUME Orderly
  PROVE  Spec => [](BaseInv /\ SerialInv)
<1>1. Spec => []BaseInv
  BY FileInvariant, PTL DEF BaseInv
<1>2. BaseInv /\ BaseInv' /\ SerialInv /\ [Next]_vars => SerialInv'
  <2> SUFFICES ASSUME BaseInv, BaseInv', SerialInv, [Next]_vars PROVE SerialInv'
    OBVIOUS
  <2>1. CASE UNCHANGED vars
    BY <2>1 DEF SerialInv, OneBusy, Busy, Done, ChildInv, HoldInv, StopInv, ClearInv,
                PortInv, ReadInv, ExclusiveName, Alive, Listening, At
  <2> QED BY <2>1, SerialByDaemon, SerialByStart, SerialByStop, SerialByQuery DEF Next
<1> QED BY SerialInit, <1>1, <1>2, PTL DEF Spec

\* In an orderly environment at most one daemon lives under a name: the probe
\* of start, the exclusive creation and the wait of stop for the file to go
\* together keep a second one from being spawned.
THEOREM NameIsExclusive ==
  ASSUME Orderly
  PROVE  Spec => []ExclusiveName
<1>1. SerialInv => ExclusiveName
  BY DEF SerialInv
<1> QED BY <1>1, SerialInvariant, PTL

\* ... and a daemon that answers is the one its name's state file names.
THEOREM ServingDaemonIsRecorded ==
  ASSUME Orderly
  PROVE  Spec => []ServingIsRecorded
<1>1. SerialInv => ServingIsRecorded
  BY DEF SerialInv, HoldInv, ServingIsRecorded
<1> QED BY <1>1, SerialInvariant, PTL

\* ... and a stop shuts down no server of another name, although its POST
\* says only to which port it goes.
THEOREM StopAimsRight ==
  ASSUME Orderly
  PROVE  Spec => StopHitsOnlyItsName
<1> DEFINE Step == \A t \in Stops, d \in Starts :
                     pc[t] = "post" /\ pc'[t] = "drain" /\ d \in shutdown' \ shutdown
                       => NameOf[d] = NameOf[t]
<1>1. BaseInv /\ SerialInv /\ [Next]_vars => [Step]_vars
  <2> SUFFICES ASSUME BaseInv, SerialInv, Next, NEW t \in Stops, NEW d \in Starts,
                      pc[t] = "post", pc'[t] = "drain", d \in shutdown' \ shutdown
               PROVE  NameOf[d] = NameOf[t]
    OBVIOUS
  <2>1. PICK u \in Stops : StopPosts(u)
    <3>1. ~\E e \in Starts : DaemonStep(e) \/ Signal(e) \/ Crash(e)
      BY DEF DaemonStep, Signal, Crash, Bind, BindFails, CreateStateFile, StateFileExists,
             WriteStateFile, WriteFails, DropUnwritten, Serve, BeginDrain, EndDrain,
             RemoveStateFile
    <3>2. ~\E s \in Starts : StartChecks(s) \/ StartStep(s) \/ StartTimesOut(s)
                             \/ StartInterrupted(s)
      BY DEF StartChecks, StartStep, StartTimesOut, StartInterrupted, StartReads,
             StartProbes, StartDiscards, StartSpawns, StartPolls, StartReadsOwn,
             StartVerifies, StartKills, StartInspects, StartUnlinks
    <3>3. ~\E q \in Queries : QueryChecks(q) \/ QueryStep(q)
      BY DEF QueryChecks, QueryStep, QueryReads, QueryProbes, QueryInspectsProcess
    <3> QED BY <3>1, <3>2, <3>3 DEF Next, StopStep, StopReads, StopProbes, StopSeesNoFile,
                                    StopTimesOut
  <2>2. pc'[u] # pc[u] /\ d \in At(rec[u])
    BY <2>1 DEF StopPosts, Goto, BaseInv, TypeOK
  <2>3. u = t
    BY <2>1, <2>2 DEF StopPosts, Goto, BaseInv, TypeOK
  <2> QED BY <2>2, <2>3 DEF SerialInv, ReadInv
<1>2. Spec => [][Step]_vars
  BY <1>1, SerialInvariant, PTL DEF Spec
<1> QED BY <1>2 DEF StopHitsOnlyItsName

\* ... and status tells the truth: it calls no name `stopped` or `stale` that
\* has a live daemon, and finds no file it cannot read.
THEOREM StatusTellsTheTruth ==
  ASSUME Orderly
  PROVE  Spec => StatusIsTruthful
<1> DEFINE Step == \A q \in Queries : pc[q] # pc'[q] =>
                     /\ pc'[q] # "error"
                     /\ pc'[q] \in {"stopped", "stale"} =>
                          \A d \in Starts : NameOf[d] = NameOf[q] => ~Alive(d)
<1>1. BaseInv /\ SerialInv /\ [Next]_vars => [Step]_vars
  <2> SUFFICES ASSUME BaseInv, SerialInv, Next, NEW q \in Queries, pc[q] # pc'[q]
               PROVE  /\ pc'[q] # "error"
                      /\ pc'[q] \in {"stopped", "stale"} =>
                           \A d \in Starts : NameOf[d] = NameOf[q] => ~Alive(d)
    OBVIOUS
  <2>1. QueryChecks(q) \/ QueryStep(q)
    <3>1. ~\E d \in Starts : DaemonStep(d) \/ Signal(d) \/ Crash(d)
      BY DEF DaemonStep, Signal, Crash, Bind, BindFails, CreateStateFile, StateFileExists,
             WriteStateFile, WriteFails, DropUnwritten, Serve, BeginDrain, EndDrain,
             RemoveStateFile
    <3>2. ~\E s \in Starts : StartChecks(s) \/ StartStep(s) \/ StartTimesOut(s)
                             \/ StartInterrupted(s)
      BY DEF BaseInv, TypeOK, Goto, StartChecks, StartStep, StartTimesOut, StartInterrupted,
             StartReads, StartProbes, StartDiscards, StartSpawns, StartPolls, StartReadsOwn,
             StartVerifies, StartKills, StartInspects, StartUnlinks
    <3>3. ~\E t \in Stops : StopReads(t) \/ StopStep(t) \/ StopTimesOut(t)
      BY DEF BaseInv, TypeOK, Goto, StopReads, StopStep, StopProbes, StopPosts,
             StopSeesNoFile, StopTimesOut
    <3>4. PICK r \in Queries : QueryChecks(r) \/ QueryStep(r)
      BY <3>1, <3>2, <3>3 DEF Next
    <3>5. r = q
      BY <3>4 DEF BaseInv, TypeOK, Goto, QueryChecks, QueryStep, QueryReads, QueryProbes,
                  QueryInspectsProcess
    <3> QED BY <3>4, <3>5
  <2> USE DEF BaseInv, TypeOK, SerialInv, OneBusy, Busy, Done, Outcomes, Goto
  <2>2. CASE QueryChecks(q)
    BY <2>2, Settled DEF QueryChecks, MayBegin, Orderly
  <2>3. CASE QueryReads(q)
    <3>1. pc[q] = "seen" /\ owner[NameOf[q]] # None /\ NameOf[q] \in Names
      BY <2>3 DEF QueryReads, ReadInv
    <3>2. owner[NameOf[q]] \in written
      BY <3>1 DEF HoldInv
    <3> QED BY <2>3, <3>2 DEF QueryReads, Readable
  <2>4. CASE QueryProbes(q)
    BY <2>4 DEF QueryProbes
  <2>5. CASE QueryInspectsProcess(q)
    BY <2>5 DEF QueryInspectsProcess, ReadInv
  <2> QED BY <2>1, <2>2, <2>3, <2>4, <2>5 DEF QueryStep
<1>2. Spec => [][Step]_vars
  BY <1>1, SerialInvariant, PTL DEF Spec
<1> QED BY <1>2 DEF StatusIsTruthful

================================================================================
