------------------------------- MODULE InstallLog -------------------------------
(***************************************************************************)
(* agent-install.log (append_install_log_inner and truncate_install_log,   *)
(* src/src/installer/binary.rs): every install attempt, in any process,    *)
(* appends one line under an exclusive lock on a file of its own.  A log   *)
(* that grew too long is replaced by its tail, through a temporary file    *)
(* and a rename, so that the path leads to another inode.  Writers may be  *)
(* killed at any step, which releases the lock, and any call may fail.     *)
(*                                                                         *)
(* A line is what one attempt writes, with one newline, at its end: the    *)
(* newlines that the text of an error may contain are not considered.      *)
(***************************************************************************)
EXTENDS Naturals, Sequences, SequencesExt

CONSTANTS
  Writers,   \* the install attempts
  Header,    \* the line that says that the log was truncated
  Size,      \* Size[x]: the length of the line of x, newline included
  MaxBytes,  \* INSTALL_LOG_MAX_BYTES
  TailBytes, \* INSTALL_LOG_TAIL_BYTES
  None

ASSUME SizeAssumption ==
  /\ Header \notin Writers /\ None \notin Writers
  /\ Size \in [Writers \cup {Header} -> Nat \ {0}]
  /\ MaxBytes \in Nat /\ TailBytes \in Nat
  /\ \A w \in Writers : Size[Header] + TailBytes + Size[w] <= MaxBytes

VARIABLES
  path,    \* the inode the log's path leads to, or None
  temp,    \* the inode the temporary path leads to, or None
  content, \* content[i]: the bytes of inode i, which is named after its creator
  holder,  \* who holds the lock, or None
  pc,      \* pc[w]: the next step of w
  file,    \* file[w]: the inode w has open
  kept,    \* kept[w]: the bytes w is going to keep
  order,   \* the lines that were written whole, in that order (history)
  torn     \* a write ended in the middle of its line (history)

vars == <<path, temp, content, holder, pc, file, kept, order, torn>>

\* Bytes are <<line, position>>; the last one of a line is its newline.
Line(x) == [k \in 1..Size[x] |-> <<x, k>>]
Ends(b) == b[2] = Size[b[1]]
Bytes == UNION {Range(Line(x)) : x \in Writers \cup {Header}}

\* An inode is made where the log is created or the temporary file is.
Inodes == {"log", "temp"} \X Writers

ASSUME NoneAssumption == None \notin Inodes /\ None \notin Seq(Bytes)

(***************************************************************************)
(* append_install_log_inner                                                *)
(***************************************************************************)

Goes(w, l) == pc' = [pc EXCEPT ![w] = l]

\* Whatever way the function is left, the guard releases the lock.
Leaves(w, l) == Goes(w, l) /\ holder' = IF holder = w THEN None ELSE holder

\* The directory and the lock file are opened, the lock is asked for.
Begin(w) ==
  /\ pc[w] = "idle"
  /\ Goes(w, "lock")
  /\ UNCHANGED <<path, temp, content, holder, file, kept, order, torn>>

Lock(w) ==
  /\ pc[w] = "lock" /\ holder = None
  /\ holder' = w /\ Goes(w, "open")
  /\ UNCHANGED <<path, temp, content, file, kept, order, torn>>

Open(w) ==
  /\ pc[w] = "open"
  /\ LET i == IF path = None THEN <<"log", w>> ELSE path
     IN  path' = i /\ file' = [file EXCEPT ![w] = i]
  /\ Goes(w, "measure")
  /\ UNCHANGED <<temp, content, holder, kept, order, torn>>

Mut_Measure(w) ==
  /\ pc[w] = "measure"
  /\ Goes(w, IF Len(content[file[w]]) > MaxBytes THEN "read" ELSE "write")
  /\ UNCHANGED <<path, temp, content, holder, file, kept, order, torn>>

Measure(w) ==
  /\ pc[w] = "measure"
  /\ Goes(w, IF Len(content[file[w]]) + Size[w] > MaxBytes THEN "read" ELSE "write")
  /\ UNCHANGED <<path, temp, content, holder, file, kept, order, torn>>

\* write_all; on a full disk, or when the writer is killed in it, the beginning of
\* the line is written.
Write(w) ==
  /\ pc[w] = "write"
  /\ content' = [content EXCEPT ![file[w]] = @ \o Line(w)]
  /\ order' = Append(order, w)
  /\ Leaves(w, "done")
  /\ UNCHANGED <<path, temp, file, kept, torn>>

WriteFails(w) ==
  /\ pc[w] = "write"
  /\ \E k \in 0..(Size[w] - 1) :
       /\ content' = [content EXCEPT ![file[w]] = @ \o SubSeq(Line(w), 1, k)]
       /\ torn' = (torn \/ k > 0)
  /\ Leaves(w, "failed") \/ Leaves(w, "killed")
  /\ UNCHANGED <<path, temp, file, kept, order>>

(***************************************************************************)
(* truncate_install_log                                                    *)
(***************************************************************************)

\* The last bytes of the log without the line that is cut by that, if any.
AfterNewline(s) ==
  LET cuts == {n \in DOMAIN s : Ends(s[n])}
  IN  IF cuts = {} THEN s
      ELSE SubSeq(s, (CHOOSE n \in cuts : \A m \in cuts : n <= m) + 1, Len(s))

LastBytes(s, n) == SubSeq(s, IF Len(s) > n THEN Len(s) - n + 1 ELSE 1, Len(s))

Mut_Kept(s) == LastBytes(s, TailBytes)
Kept(s) == AfterNewline(LastBytes(s, TailBytes))

Read(w) ==
  /\ pc[w] = "read"
  /\ kept' = [kept EXCEPT ![w] = Line(Header) \o Kept(content[path])]
  /\ Goes(w, "temp")
  /\ UNCHANGED <<path, temp, content, holder, file, order, torn>>

\* fs::write first makes the file, or empties the one that a writer that was
\* killed has left behind ...
Mut_MakeTemp(w) ==
  /\ pc[w] = "temp"
  /\ temp' = IF temp = None THEN <<"temp", w>> ELSE temp
  /\ UNCHANGED content
  /\ Goes(w, "fill")
  /\ UNCHANGED <<path, holder, file, kept, order, torn>>

MakeTemp(w) ==
  /\ pc[w] = "temp"
  /\ temp' = IF temp = None THEN <<"temp", w>> ELSE temp
  /\ content' = [content EXCEPT ![temp'] = <<>>]
  /\ Goes(w, "fill")
  /\ UNCHANGED <<path, holder, file, kept, order, torn>>

\* ... and then writes, with one call or several.
FillTemp(w) ==
  /\ pc[w] = "fill" /\ kept[w] # <<>>
  /\ \E k \in {Size[Header], Len(kept[w])} :
       /\ k <= Len(kept[w])
       /\ content' = [content EXCEPT ![temp] = @ \o SubSeq(kept[w], 1, k)]
       /\ kept' = [kept EXCEPT ![w] = SubSeq(@, k + 1, Len(@))]
  /\ UNCHANGED <<path, temp, holder, pc, file, order, torn>>

RenameTemp(w) ==
  /\ pc[w] = "fill" /\ kept[w] = <<>>
  /\ path' = temp /\ temp' = None
  /\ Goes(w, "reopen")
  /\ UNCHANGED <<content, holder, file, kept, order, torn>>

Mut_Reopen(w) ==
  /\ pc[w] = "reopen"
  /\ UNCHANGED file
  /\ Goes(w, "write")
  /\ UNCHANGED <<path, temp, content, holder, kept, order, torn>>

Reopen(w) ==
  /\ pc[w] = "reopen"
  /\ file' = [file EXCEPT ![w] = path]
  /\ Goes(w, "write")
  /\ UNCHANGED <<path, temp, content, holder, kept, order, torn>>

(***************************************************************************)
(* Failures                                                                *)
(***************************************************************************)

Running(w) == pc[w] \notin {"idle", "done", "failed", "killed"}

\* A call that fails is reported on stderr and nowhere else.
CallFails(w) ==
  /\ Running(w) /\ pc[w] # "write"
  /\ Leaves(w, "failed")
  /\ UNCHANGED <<path, temp, content, file, kept, order, torn>>

Mut_Killed(w) ==
  /\ Running(w)
  /\ Goes(w, "killed")
  /\ UNCHANGED <<path, temp, content, holder, file, kept, order, torn>>

Killed(w) ==
  /\ Running(w)
  /\ Leaves(w, "killed")
  /\ UNCHANGED <<path, temp, content, file, kept, order, torn>>

Init ==
  /\ path = None /\ temp = None
  /\ content = [i \in Inodes |-> <<>>]
  /\ holder = None
  /\ pc = [w \in Writers |-> "idle"]
  /\ file = [w \in Writers |-> None]
  /\ kept = [w \in Writers |-> <<>>]
  /\ order = <<>> /\ torn = FALSE

Step(w) ==
  \/ Lock(w) \/ Open(w) \/ Measure(w) \/ Write(w)
  \/ Read(w) \/ MakeTemp(w) \/ FillTemp(w) \/ RenameTemp(w) \/ Reopen(w)

Next ==
  \E w \in Writers : Begin(w) \/ Step(w) \/ WriteFails(w) \/ CallFails(w) \/ Killed(w)

\* The blocking thread runs; the kernel hands a released lock to one of those who
\* wait, and everyone asks for it once, so weak fairness is enough.
Spec == Init /\ [][Next]_vars /\ \A w \in Writers : WF_vars(Step(w))

(***************************************************************************)
(* Properties                                                              *)
(***************************************************************************)

\* Every variable has its type, and the two paths lead to different files.
TypeOK ==
  /\ path \in Inodes \cup {None} /\ temp \in Inodes \cup {None}
  /\ path # None => path # temp
  /\ content \in [Inodes -> Seq(Bytes)]
  /\ holder \in Writers \cup {None}
  /\ pc \in [Writers -> {"idle", "lock", "open", "measure", "write", "read", "temp", "fill",
                         "reopen", "done", "failed", "killed"}]
  /\ file \in [Writers -> Inodes \cup {None}]
  /\ kept \in [Writers -> Seq(Bytes)]
  /\ order \in Seq(Writers) /\ torn \in BOOLEAN

Log == IF path = None THEN None ELSE content[path]

\* A text of whole lines begins with a line and ends with one, and within a line
\* each byte is followed by the next.
IsWhole(s) ==
  /\ s # <<>> => s[1][2] = 1 /\ Ends(s[Len(s)])
  /\ \A i \in 1..(Len(s) - 1) :
       IF Ends(s[i]) THEN s[i + 1][2] = 1 ELSE s[i + 1] = <<s[i][1], s[i][2] + 1>>

\* As long as no write ended in the middle of its line, the log is a sequence of
\* whole lines, whoever failed or was killed at any other step, and wherever the
\* tail was cut.
LinesAreWhole == path # None /\ ~torn => IsWhole(Log)

\* Where the line of w ends in a text.
EndsIn(s, w) == {i \in DOMAIN s : s[i] = <<w, Size[w]>>}

\* What the log holds below its header are the latest of the lines that were
\* written, once each and in that order: nobody's line goes to a file that was
\* replaced, and nothing newer is forgotten before something older.
LatestAreKept ==
  path # None =>
    /\ \A w \in Writers : EndsIn(Log, w) # {} => w \in Range(order)
    /\ \A w \in Writers : \A i, l \in EndsIn(Log, w) : i = l
    /\ \A j, k \in DOMAIN order : j < k =>
         \A i \in EndsIn(Log, order[j]) : \E l \in EndsIn(Log, order[k]) : i < l

\* The log stays bounded, as long as no line is longer than what the header and
\* the tail leave of the bound (SizeAssumption).  The code does not see to that: a
\* longer line is appended to the header and the tail all the same.
LogIsBounded == path # None => Len(Log) <= MaxBytes

\* Every attempt gets past the log: a killed writer does not leave the lock.
EveryWriterLeaves == \A w \in Writers : pc[w] = "lock" ~> ~Running(w)

\* What readers of the path see is an AppendLog.
Promise == INSTANCE AppendLog WITH
  log <- Log, Lines <- {Line(w) : w \in Writers}, Header <- Line(Header)
KeepsPromise == Promise!Spec

(***************************************************************************)
(* The inductive invariant                                                 *)
(***************************************************************************)

Critical == {"open", "measure", "write", "read", "temp", "fill", "reopen"}

\* Only the writer that holds the lock is at the file.
LockInv == \A w \in Writers : pc[w] \in Critical => holder = w

\* Which inode a path leads to tells how far its creator has come.
InodeInv ==
  /\ temp # None => temp[1] = "temp"
  /\ \A w \in Writers :
       /\ temp = <<"temp", w>> => pc[w] \in {"fill", "failed", "killed"}
       /\ path = <<"temp", w>> => pc[w] \in {"reopen", "write", "done", "failed", "killed"}
       /\ path = <<"log", w>> \/ content[<<"log", w>>] # <<>> =>
            pc[w] \notin {"idle", "lock", "open"}

\* What a writer relies on at its step: the log's file is open and has room for
\* the line, or the log is too long and its tail is being copied.
StepInv ==
  \A w \in Writers :
    /\ pc[w] \in Critical \ {"open"} => path # None
    /\ pc[w] \in {"measure", "write"} => file[w] = path
    /\ pc[w] \in {"reopen", "write"} => Len(content[path]) + Size[w] <= MaxBytes
    /\ pc[w] \in {"read", "temp", "fill"} => Len(content[path]) > TailBytes
    /\ pc[w] = "temp" => kept[w] = Line(Header) \o Kept(content[path])
    /\ pc[w] = "fill" =>
         /\ temp # None
         /\ content[temp] \o kept[w] = Line(Header) \o Kept(content[path])

\* A writer has written its line when it is done.
OrderInv == \A w \in Writers : w \in Range(order) <=> pc[w] = "done"

LogInv == TypeOK /\ LockInv /\ InodeInv /\ StepInv /\ LogIsBounded
LinesInv == LogInv /\ OrderInv /\ LinesAreWhole /\ LatestAreKept
================================================================================
