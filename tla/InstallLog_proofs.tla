--------------------------- MODULE InstallLog_proofs ---------------------------
(***************************************************************************)
(* Proofs about InstallLog: for any writers, lines and bounds, the log     *)
(* stays within its bound, and what readers of its path see is an          *)
(* AppendLog, whoever fails or is killed wherever.                         *)
(***************************************************************************)
EXTENDS InstallLog, SequenceTheorems, WellFoundedInduction, TLAPS

(***************************************************************************)
(* Lines and tails                                                         *)
(***************************************************************************)

\* A line is as long as its size, and made of bytes.
LEMMA LineType ==
  ASSUME NEW x \in Writers \cup {Header}
  PROVE  Line(x) \in Seq(Bytes) /\ Len(Line(x)) = Size[x] /\ Size[x] \in Nat \ {0}
<1>1. Size[x] \in Nat \ {0}
  BY SizeAssumption
<1>2. Range(Line(x)) \subseteq Bytes
  BY DEF Bytes
<1>3. \A k \in 1..Size[x] : Line(x)[k] \in Bytes
  BY <1>1, <1>2 DEF Line, Range
<1>4. Line(x) \in [1..Size[x] -> Bytes]
  BY <1>1, <1>3 DEF Line
<1> QED
  BY <1>1, <1>4

\* A set of numbers has a least one.
LEMMA LeastOf ==
  ASSUME NEW T, T \subseteq Nat, T # {}
  PROVE  (CHOOSE n \in T : \A m \in T : n <= m) \in T
         /\ \A m \in T : (CHOOSE n \in T : \A k \in T : n <= k) <= m
<1>1. \A m, n \in Nat : <<m, n>> \in OpToRel(<, Nat) <=> m < n
  BY DEF OpToRel
<1>2. \E n \in T : \A m \in T : <<m, n>> \notin OpToRel(<, Nat)
  BY NatLessThanWellFounded, WFMin
<1>3. \E n \in T : \A m \in T : ~ (m < n)
  BY <1>1, <1>2
<1>4. \E n \in T : \A m \in T : n <= m
  BY <1>3
<1> QED
  BY <1>4

\* What a truncation keeps is the end of the log, below a newline or within the
\* last line.
LEMMA KeptIsTail ==
  ASSUME NEW s \in Seq(Bytes), Len(s) > TailBytes
  PROVE  \E n \in 1..Len(s) :
           /\ Kept(s) = SubSeq(s, n + 1, Len(s))
           /\ Kept(s) \in Seq(Bytes) /\ Len(Kept(s)) = Len(s) - n
           /\ Len(s) - n <= TailBytes
           /\ Ends(s[n]) \/ \A m \in (n + 1)..Len(s) : ~Ends(s[m])
<1> DEFINE d == Len(s) - TailBytes
           t == SubSeq(s, d + 1, Len(s))
           cuts == {n \in DOMAIN t : Ends(t[n])}
<1>1. /\ TailBytes \in Nat /\ d \in 1..Len(s) /\ Len(s) \in Nat
      /\ \A i \in 1..Len(s) : s[i] \in Bytes
  BY SizeAssumption, LenProperties, ElementOfSeq
<1>2. /\ t \in Seq(Bytes) /\ Len(t) = TailBytes
      /\ \A i \in 1..TailBytes : t[i] = s[d + i]
  <2> HIDE DEF d
  <2>1. d + 1 \in Int /\ \A i \in (d + 1)..Len(s) : s[i] \in Bytes
    BY <1>1
  <2>2. /\ t \in Seq(Bytes)
        /\ Len(t) = IF d + 1 <= Len(s) THEN Len(s) - (d + 1) + 1 ELSE 0
        /\ \A i \in 1..(Len(s) - (d + 1) + 1) : t[i] = s[(d + 1) + i - 1]
    BY <1>1, <2>1, SubSeqProperties
  <2> QED
    BY <1>1, <2>2 DEF d
<1>3. LastBytes(s, TailBytes) = t
  <2>1. Len(s) - TailBytes + 1 = d + 1
    BY <1>1
  <2> QED
    BY <2>1 DEF LastBytes
<1>4. DOMAIN t = 1..TailBytes
  BY <1>2, LenProperties
<1> HIDE DEF t
<1>5. CASE cuts = {}
  <2>1. Kept(s) = t
    BY <1>3, <1>5 DEF Kept, AfterNewline
  <2>2. \A m \in (d + 1)..Len(s) : ~Ends(s[m])
    <3> SUFFICES ASSUME NEW m \in (d + 1)..Len(s) PROVE ~Ends(s[m])
      OBVIOUS
    <3>1. m - d \in 1..TailBytes /\ d + (m - d) = m
      BY <1>1
    <3> QED
      BY <1>2, <1>4, <1>5, <3>1
  <2>3. Kept(s) = SubSeq(s, d + 1, Len(s))
    BY <2>1 DEF t
  <2>4. Len(s) - d <= TailBytes /\ Len(Kept(s)) = Len(s) - d
    BY <1>1, <1>2, <2>1
  <2> HIDE DEF d
  <2> QED
    BY <1>1, <1>2, <2>1, <2>2, <2>3, <2>4
<1>6. CASE cuts # {}
  <2> DEFINE c == CHOOSE n \in cuts : \A m \in cuts : n <= m
  <2>1. cuts \subseteq Nat
    BY <1>1, <1>4
  <2>2. c \in cuts
    BY <1>6, <2>1, LeastOf
  <2>3. c \in 1..TailBytes /\ Ends(s[d + c])
    BY <1>2, <1>4, <2>2
  <2>4. Kept(s) = SubSeq(t, c + 1, TailBytes)
    BY <1>2, <1>3, <1>6 DEF Kept, AfterNewline
  <2> HIDE DEF c, cuts
  <2> DEFINE k == TailBytes - c
  <2>5. /\ SubSeq(t, c + 1, TailBytes) \in Seq(Bytes)
        /\ Len(SubSeq(t, c + 1, TailBytes)) = k
        /\ \A i \in 1..k : SubSeq(t, c + 1, TailBytes)[i] = t[c + i]
    <3>1. \A i \in (c + 1)..TailBytes : t[i] \in Bytes
      BY <1>1, <1>2, <2>3, ElementOfSeq
    <3>2. c + 1 \in Int /\ TailBytes \in Int
      BY <1>1, <2>3
    <3>3. /\ SubSeq(t, c + 1, TailBytes) \in Seq(Bytes)
          /\ Len(SubSeq(t, c + 1, TailBytes))
               = IF c + 1 <= TailBytes THEN TailBytes - (c + 1) + 1 ELSE 0
          /\ \A i \in 1..(TailBytes - (c + 1) + 1) :
               SubSeq(t, c + 1, TailBytes)[i] = t[(c + 1) + i - 1]
      BY <3>1, <3>2, SubSeqProperties
    <3> QED
      BY <1>1, <2>3, <3>3
  <2>6. /\ SubSeq(s, d + c + 1, Len(s)) \in Seq(Bytes)
        /\ Len(SubSeq(s, d + c + 1, Len(s))) = k
        /\ \A i \in 1..k : SubSeq(s, d + c + 1, Len(s))[i] = s[d + c + i]
    <3>1. \A i \in (d + c + 1)..Len(s) : s[i] \in Bytes
      BY <1>1, <2>3
    <3>2. d + c + 1 \in Int /\ Len(s) \in Int
      BY <1>1, <2>3
    <3>3. /\ SubSeq(s, d + c + 1, Len(s)) \in Seq(Bytes)
          /\ Len(SubSeq(s, d + c + 1, Len(s)))
               = IF d + c + 1 <= Len(s) THEN Len(s) - (d + c + 1) + 1 ELSE 0
          /\ \A i \in 1..(Len(s) - (d + c + 1) + 1) :
               SubSeq(s, d + c + 1, Len(s))[i] = s[(d + c + 1) + i - 1]
      BY <3>1, <3>2, SubSeqProperties
    <3> QED
      BY <1>1, <2>3, <3>3
  <2>7. \A i \in 1..k : t[c + i] = s[d + c + i]
    BY <1>1, <1>2, <2>3
  <2>8. SubSeq(t, c + 1, TailBytes) = SubSeq(s, d + c + 1, Len(s))
    BY <2>5, <2>6, <2>7, SeqEqual
  <2>9. d + c \in 1..Len(s) /\ Len(s) - (d + c) = k /\ k <= TailBytes
    BY <1>1, <2>3
  <2> QED
    BY <2>3, <2>4, <2>5, <2>8, <2>9
<1> QED
  BY <1>5, <1>6

\* A truncated log is a log, and has room for any line.
LEMMA Truncated ==
  ASSUME NEW s \in Seq(Bytes), Len(s) > TailBytes
  PROVE  /\ Line(Header) \o Kept(s) \in Seq(Bytes)
         /\ \A w \in Writers : Len(Line(Header) \o Kept(s)) + Size[w] <= MaxBytes
<1>1. /\ Kept(s) \in Seq(Bytes) /\ Len(Kept(s)) \in Nat /\ Len(Kept(s)) <= TailBytes
  BY KeptIsTail, LenProperties, SizeAssumption
<1>2. Line(Header) \in Seq(Bytes) /\ Len(Line(Header)) = Size[Header] /\ Size[Header] \in Nat
  BY LineType
<1>3. /\ Line(Header) \o Kept(s) \in Seq(Bytes)
      /\ Len(Line(Header) \o Kept(s)) = Size[Header] + Len(Kept(s))
  BY <1>1, <1>2, ConcatProperties
<1>4. ASSUME NEW w \in Writers
      PROVE  Len(Line(Header) \o Kept(s)) + Size[w] <= MaxBytes
  <2>1. /\ Size[Header] + TailBytes + Size[w] <= MaxBytes
        /\ Size[w] \in Nat /\ TailBytes \in Nat /\ MaxBytes \in Nat
    BY SizeAssumption
  <2> HIDE DEF Kept
  <2> QED
    BY <1>1, <1>2, <1>3, <2>1
<1> QED
  BY <1>3, <1>4

\* Appending (the beginning of) a line to a log.
LEMMA Appended ==
  ASSUME NEW s \in Seq(Bytes), NEW w \in Writers, NEW k \in 0..Size[w]
  PROVE  /\ s \o SubSeq(Line(w), 1, k) \in Seq(Bytes)
         /\ Len(s \o SubSeq(Line(w), 1, k)) = Len(s) + k
<1>1. /\ Line(w) \in Seq(Bytes) /\ Len(Line(w)) = Size[w] /\ Size[w] \in Nat
      /\ \A i \in 1..Size[w] : Line(w)[i] \in Bytes
  BY LineType, ElementOfSeq
<1>2. \A i \in 1..k : Line(w)[i] \in Bytes
  BY <1>1
<1>3. /\ SubSeq(Line(w), 1, k) \in Seq(Bytes)
      /\ Len(SubSeq(Line(w), 1, k)) = IF 1 <= k THEN k - 1 + 1 ELSE 0
  BY <1>1, <1>2, SubSeqProperties
<1>4. Len(SubSeq(Line(w), 1, k)) = k
  BY <1>1, <1>3
<1> QED
  BY <1>3, <1>4, ConcatProperties

(***************************************************************************)
(* The inductive invariant                                                 *)
(***************************************************************************)

\* While a writer is at the file, no other one is.
LEMMA Alone ==
  ASSUME LockInv, NEW w \in Writers, pc[w] \in Critical, NEW v \in Writers, v # w
  PROVE  pc[v] \notin Critical
BY DEF LockInv

\* Steps that touch neither a file nor what is known of one.
LEMMA IdleStep ==
  ASSUME LogInv, NEW w \in Writers, Begin(w) \/ Lock(w) \/ CallFails(w) \/ Killed(w)
  PROVE  LogInv'
<1>1. /\ UNCHANGED <<path, temp, content, file, kept, order, torn>>
      /\ pc' = [pc EXCEPT ![w] = pc'[w]] /\ pc'[w] \in {"lock", "open", "failed", "killed"}
      /\ pc[w] \notin {"done", "failed", "killed"} /\ (pc[w] = "write" => pc'[w] = "killed")
      /\ pc'[w] = "lock" => pc[w] = "idle"
      /\ pc'[w] = "open" => pc[w] = "lock"
  BY DEF LogInv, TypeOK, Begin, Lock, CallFails, Killed, Goes, Leaves, Running
<1>2. TypeOK'
  BY <1>1 DEF LogInv, TypeOK, Begin, Lock, CallFails, Killed, Leaves, Goes
<1>3. LockInv'
  <2>1. CASE Begin(w)
    BY <2>1 DEF LogInv, TypeOK, LockInv, Begin, Goes, Critical
  <2>2. CASE Lock(w)
    <3>1. \A v \in Writers : pc[v] \notin Critical
      BY <2>2, SizeAssumption DEF LogInv, LockInv, Lock
    <3> QED
      BY <2>2, <3>1 DEF LogInv, TypeOK, LockInv, Lock, Goes
  <2>3. CASE CallFails(w) \/ Killed(w)
    BY <2>3 DEF LogInv, TypeOK, LockInv, CallFails, Killed, Leaves, Goes, Critical
  <2> QED
    BY <2>1, <2>2, <2>3
<1>4. InodeInv'
  BY <1>1 DEF LogInv, TypeOK, InodeInv
<1>5. StepInv'
  <2>1. \A v \in Writers : pc'[v] = pc[v] \/ pc'[v] \notin Critical \ {"open"}
    BY <1>1 DEF LogInv, TypeOK, Critical
  <2> QED
    BY <1>1, <2>1 DEF LogInv, StepInv, Critical
<1>6. LogIsBounded'
  BY <1>1 DEF LogInv, LogIsBounded, Log
<1> QED
  BY <1>2, <1>3, <1>4, <1>5, <1>6 DEF LogInv
\* A step of the writer that is at the file leaves the others where they are.
LEMMA OthersStay ==
  ASSUME TypeOK, LockInv, NEW w \in Writers, pc[w] \in Critical, NEW l, Goes(w, l)
  PROVE  /\ pc'[w] = l
         /\ \A v \in Writers : v # w => pc'[v] = pc[v] /\ pc[v] \notin Critical
<1>1. pc'[w] = l /\ \A v \in Writers : v # w => pc'[v] = pc[v]
  BY DEF TypeOK, Goes
<1> QED
  BY <1>1, Alone

\* The log's file is opened, or made and empty.
LEMMA OpenStep ==
  ASSUME LogInv, NEW w \in Writers, Open(w)
  PROVE  LogInv'
<1>1. pc[w] = "open" /\ pc[w] \in Critical
  BY DEF Open, Critical
<1>2. /\ pc'[w] = "measure"
      /\ \A v \in Writers : v # w => pc'[v] = pc[v] /\ pc[v] \notin Critical
  BY <1>1, OthersStay DEF LogInv, Open
<1>3. /\ path' \in Inodes /\ path' # None /\ file'[w] = path'
      /\ path = None => path' = <<"log", w>>
      /\ path # None => path' = path
      /\ UNCHANGED <<temp, content, holder, kept, order, torn>>
  BY NoneAssumption DEF LogInv, TypeOK, Open, Inodes
<1>4. TypeOK'
  <2>1. path' # temp
    <3>1. CASE path = None
      BY <1>3, <3>1, NoneAssumption DEF LogInv, TypeOK, InodeInv
    <3> QED
      BY <1>3, <3>1 DEF LogInv, TypeOK
  <2> QED
    BY <1>3, <2>1 DEF LogInv, TypeOK, Open, Goes
<1>5. LockInv'
  BY <1>1, <1>2, <1>3 DEF LogInv, LockInv
<1>6. InodeInv'
  BY <1>1, <1>2, <1>3 DEF LogInv, InodeInv
<1>7. StepInv'
  BY <1>2, <1>3 DEF StepInv, Critical
<1>8. LogIsBounded'
  <2>1. CASE path = None
    <3>1. Log' = <<>>
      BY <1>1, <1>3, <2>1 DEF LogInv, InodeInv, Log
    <3> QED
      BY <3>1, SizeAssumption DEF LogIsBounded
  <2>2. CASE path # None
    BY <1>3, <2>2 DEF LogInv, LogIsBounded, Log
  <2> QED
    BY <2>1, <2>2
<1> QED
  BY <1>4, <1>5, <1>6, <1>7, <1>8 DEF LogInv

\* The length of the log decides whether it is truncated first.
LEMMA MeasureStep ==
  ASSUME LogInv, NEW w \in Writers, Measure(w)
  PROVE  LogInv'
<1>1. pc[w] = "measure" /\ pc[w] \in Critical
  BY DEF Measure, Critical
<1> DEFINE l == IF Len(content[file[w]]) + Size[w] > MaxBytes THEN "read" ELSE "write"
<1>2. /\ pc'[w] = l
      /\ \A v \in Writers : v # w => pc'[v] = pc[v] /\ pc[v] \notin Critical
  <2>1. Goes(w, l)
    BY DEF Measure
  <2> QED
    BY <1>1, <2>1, OthersStay DEF LogInv
<1>3. UNCHANGED <<path, temp, content, holder, file, kept, order, torn>>
  BY DEF Measure
<1>4. TypeOK'
  BY <1>3 DEF LogInv, TypeOK, Measure, Goes
<1>5. LockInv' /\ InodeInv' /\ LogIsBounded'
  BY <1>1, <1>2, <1>3 DEF LogInv, LockInv, InodeInv, LogIsBounded, Log
<1>6. StepInv'
  <2>1. path # None /\ file[w] = path
    BY <1>1 DEF LogInv, StepInv, Critical
  <2>2. /\ Len(content[path]) \in Nat /\ Size[w] \in Nat /\ Size[Header] \in Nat
        /\ MaxBytes \in Nat /\ TailBytes \in Nat
        /\ Size[Header] + TailBytes + Size[w] <= MaxBytes
        /\ Size[Header] > 0
    BY <2>1, LenProperties, SizeAssumption DEF LogInv, TypeOK
  <2>3. CASE Len(content[path]) + Size[w] > MaxBytes
    <3>1. Len(content[path]) > TailBytes
      BY <2>2, <2>3
    <3> QED
      BY <1>2, <1>3, <2>1, <2>3, <3>1 DEF StepInv, Critical
  <2>4. CASE ~ (Len(content[path]) + Size[w] > MaxBytes)
    <3>1. Len(content[path]) + Size[w] <= MaxBytes
      BY <2>2, <2>4
    <3> QED
      BY <1>2, <1>3, <2>1, <2>4, <3>1 DEF StepInv, Critical
  <2> QED
    BY <2>3, <2>4
<1> QED
  BY <1>4, <1>5, <1>6 DEF LogInv

\* The line, or its beginning, is appended to the log.
LEMMA WriteStep ==
  ASSUME LogInv, NEW w \in Writers, Write(w) \/ WriteFails(w)
  PROVE  /\ LogInv'
         /\ path # None /\ path' = path
         /\ \E k \in 0..Size[w] : Log' = Log \o SubSeq(Line(w), 1, k)
<1>1. /\ pc[w] = "write" /\ pc[w] \in Critical /\ path # None /\ file[w] = path
      /\ Len(content[path]) + Size[w] <= MaxBytes
      /\ UNCHANGED <<path, temp, file, kept>>
  BY DEF LogInv, StepInv, Write, WriteFails, Critical
<1>2. /\ path \in Inodes /\ content[path] \in Seq(Bytes) /\ Len(content[path]) \in Nat
      /\ MaxBytes \in Nat /\ Size[w] \in Nat
  BY <1>1, LenProperties, SizeAssumption DEF LogInv, TypeOK
<1>3. PICK k \in 0..Size[w] :
        content' = [content EXCEPT ![path] = @ \o SubSeq(Line(w), 1, k)]
  <2>1. CASE Write(w)
    <3>1. Line(w) \in Seq(Bytes) /\ Len(Line(w)) = Size[w]
      BY LineType
    <3>2. SubSeq(Line(w), 1, Size[w]) = Line(w)
      BY <3>1, SubSeqFull
    <3>3. Size[w] \in 0..Size[w]
      BY <1>2
    <3>4. content' = [content EXCEPT ![path] = @ \o SubSeq(Line(w), 1, Size[w])]
      BY <1>1, <2>1, <3>2 DEF Write
    <3> QED
      BY <3>3, <3>4
  <2>2. CASE WriteFails(w)
    <3>1. 0..(Size[w] - 1) \subseteq 0..Size[w]
      BY <1>2
    <3> QED
      BY <1>1, <2>2, <3>1 DEF WriteFails
  <2> QED
    BY <2>1, <2>2
<1>4. /\ content[path] \o SubSeq(Line(w), 1, k) \in Seq(Bytes)
      /\ Len(content[path] \o SubSeq(Line(w), 1, k)) = Len(content[path]) + k
  BY <1>2, Appended
<1>5. content' \in [Inodes -> Seq(Bytes)]
  BY <1>3, <1>4 DEF LogInv, TypeOK
<1>6. PICK l \in {"done", "failed", "killed"} : Leaves(w, l)
  BY DEF Write, WriteFails
<1>7. /\ pc'[w] = l
      /\ \A v \in Writers : v # w => pc'[v] = pc[v] /\ pc[v] \notin Critical
  BY <1>1, <1>6, OthersStay DEF LogInv, Leaves
<1>8. TypeOK'
  <2>1. order' \in Seq(Writers) /\ torn' \in BOOLEAN
    <3>1. CASE Write(w)
      BY <3>1, AppendProperties DEF LogInv, TypeOK, Write
    <3>2. CASE WriteFails(w)
      BY <3>2 DEF LogInv, TypeOK, WriteFails
    <3> QED
      BY <3>1, <3>2
  <2> QED
    BY <1>1, <1>5, <1>6, <2>1 DEF LogInv, TypeOK, Leaves, Goes
<1>9. \A v \in Writers : pc'[v] \notin Critical
  BY <1>7 DEF Critical
<1>10. LockInv' /\ StepInv'
  BY <1>9 DEF LockInv, StepInv, Critical
<1>11. InodeInv'
  <2>1. \A v \in Writers : content'[<<"log", v>>] # <<>> =>
          content[<<"log", v>>] # <<>> \/ path = <<"log", v>>
    BY <1>3 DEF LogInv, TypeOK
  <2> QED
    BY <1>1, <1>7, <2>1 DEF LogInv, InodeInv
<1>12. Log' = Log \o SubSeq(Line(w), 1, k)
  BY <1>1, <1>2, <1>3 DEF Log, LogInv, TypeOK
<1>13. LogIsBounded'
  <2>1. Log' = content[path] \o SubSeq(Line(w), 1, k)
    BY <1>1, <1>12 DEF Log
  <2>2. Len(Log') = Len(content[path]) + k
    BY <1>4, <2>1
  <2>3. k \in Nat /\ k <= Size[w]
    BY <1>2
  <2>4. Len(content[path]) + k <= MaxBytes
    BY <1>1, <1>2, <2>3
  <2> QED
    BY <2>2, <2>4 DEF LogIsBounded
<1> QED
  BY <1>1, <1>8, <1>10, <1>11, <1>12, <1>13 DEF LogInv

\* The tail of the log is read.
LEMMA ReadStep ==
  ASSUME LogInv, NEW w \in Writers, Read(w)
  PROVE  LogInv'
<1>1. /\ pc[w] = "read" /\ pc[w] \in Critical /\ path # None
      /\ Len(content[path]) > TailBytes
  BY DEF LogInv, StepInv, Read, Critical
<1>2. /\ pc'[w] = "temp"
      /\ \A v \in Writers : v # w => pc'[v] = pc[v] /\ pc[v] \notin Critical
  BY <1>1, OthersStay DEF LogInv, Read
<1>3. /\ UNCHANGED <<path, temp, content, holder, file, order, torn>>
      /\ kept' = [kept EXCEPT ![w] = Line(Header) \o Kept(content[path])]
  BY DEF Read
<1>4. Line(Header) \o Kept(content[path]) \in Seq(Bytes)
  BY <1>1, Truncated DEF LogInv, TypeOK
<1>5. TypeOK'
  BY <1>3, <1>4 DEF LogInv, TypeOK, Read, Goes
<1>6. LockInv' /\ InodeInv' /\ LogIsBounded'
  BY <1>1, <1>2, <1>3 DEF LogInv, LockInv, InodeInv, LogIsBounded, Log
<1>7. kept'[w] = Line(Header) \o Kept(content[path])
  BY <1>3 DEF LogInv, TypeOK
<1>8. StepInv'
  BY <1>1, <1>2, <1>3, <1>7 DEF StepInv, Critical
<1> QED
  BY <1>5, <1>6, <1>8 DEF LogInv

\* The temporary file is made, or emptied.
LEMMA MakeTempStep ==
  ASSUME LogInv, NEW w \in Writers, MakeTemp(w)
  PROVE  LogInv' /\ Log' = Log
<1>1. /\ pc[w] = "temp" /\ pc[w] \in Critical /\ path # None
      /\ Len(content[path]) > TailBytes
      /\ kept[w] = Line(Header) \o Kept(content[path])
  BY DEF LogInv, StepInv, MakeTemp, Critical
<1>2. /\ pc'[w] = "fill"
      /\ \A v \in Writers : v # w => pc'[v] = pc[v] /\ pc[v] \notin Critical
  BY <1>1, OthersStay DEF LogInv, MakeTemp
<1>3. /\ UNCHANGED <<path, holder, file, kept, order, torn>>
      /\ content' = [content EXCEPT ![temp'] = <<>>]
      /\ temp' = temp \/ (temp = None /\ temp' = <<"temp", w>>)
      /\ temp' \in Inodes /\ temp'[1] = "temp" /\ temp' # None
  BY NoneAssumption DEF LogInv, TypeOK, InodeInv, MakeTemp, Inodes
<1>4. path' # temp'
  BY <1>1, <1>3 DEF LogInv, TypeOK, InodeInv
<1>5. content' \in [Inodes -> Seq(Bytes)] /\ content'[temp'] = <<>>
  BY <1>3 DEF LogInv, TypeOK
<1>6. content'[path] = content[path] /\ Log' = Log
  BY <1>1, <1>3, <1>4 DEF LogInv, TypeOK, Log
<1>7. TypeOK'
  BY <1>3, <1>4, <1>5 DEF LogInv, TypeOK, MakeTemp, Goes
<1>8. LockInv' /\ LogIsBounded'
  BY <1>1, <1>2, <1>3, <1>6 DEF LogInv, LockInv, LogIsBounded
<1>9. InodeInv'
  <2>1. \A v \in Writers : content'[<<"log", v>>] # <<>> => content[<<"log", v>>] # <<>>
    BY <1>3 DEF LogInv, TypeOK
  <2>2. \A v \in Writers : temp' = <<"temp", v>> =>
          v = w \/ temp = <<"temp", v>>
    BY <1>3
  <2> QED
    BY <1>1, <1>2, <1>3, <2>1, <2>2 DEF LogInv, InodeInv
<1>10. content'[temp'] \o kept'[w] = Line(Header) \o Kept(content'[path'])
  <2>1. kept[w] \in Seq(Bytes)
    BY DEF LogInv, TypeOK
  <2>2. <<>> \o kept[w] = kept[w]
    BY <2>1, ConcatEmptySeq
  <2> QED
    BY <1>1, <1>3, <1>5, <1>6, <2>2
<1>11. StepInv'
  BY <1>1, <1>2, <1>3, <1>6, <1>10 DEF StepInv, Critical
<1> QED
  BY <1>6, <1>7, <1>8, <1>9, <1>11 DEF LogInv

\* The temporary file is filled.
LEMMA FillTempStep ==
  ASSUME LogInv, NEW w \in Writers, FillTemp(w)
  PROVE  LogInv' /\ Log' = Log
<1>1. /\ pc[w] = "fill" /\ pc[w] \in Critical /\ path # None /\ temp # None
      /\ Len(content[path]) > TailBytes
      /\ content[temp] \o kept[w] = Line(Header) \o Kept(content[path])
      /\ UNCHANGED <<path, temp, holder, pc, file, order, torn>>
  BY DEF LogInv, StepInv, FillTemp, Critical
<1>2. /\ temp \in Inodes /\ path \in Inodes /\ temp # path /\ temp[1] = "temp"
      /\ content[temp] \in Seq(Bytes) /\ kept[w] \in Seq(Bytes)
  BY <1>1 DEF LogInv, TypeOK, InodeInv
<1>3. PICK k \in 1..Len(kept[w]) :
        /\ content' = [content EXCEPT ![temp] = @ \o SubSeq(kept[w], 1, k)]
        /\ kept' = [kept EXCEPT ![w] = SubSeq(@, k + 1, Len(@))]
  <2>1. Size[Header] \in Nat \ {0} /\ Len(kept[w]) \in Nat
    BY <1>2, LenProperties, SizeAssumption
  <2>2. Len(kept[w]) > 0
    BY <1>2, <2>1, EmptySeq DEF FillTemp
  <2>3. PICK k \in {Size[Header], Len(kept[w])} :
          /\ k <= Len(kept[w])
          /\ content' = [content EXCEPT ![temp] = @ \o SubSeq(kept[w], 1, k)]
          /\ kept' = [kept EXCEPT ![w] = SubSeq(@, k + 1, Len(@))]
    BY DEF FillTemp
  <2>4. k \in 1..Len(kept[w])
    BY <2>1, <2>2, <2>3
  <2> QED
    BY <2>3, <2>4
<1> DEFINE head == SubSeq(kept[w], 1, k)
           rest == SubSeq(kept[w], k + 1, Len(kept[w]))
<1>4. head \in Seq(Bytes) /\ rest \in Seq(Bytes) /\ head \o rest = kept[w]
  <2>1. \A i \in 1..Len(kept[w]) : kept[w][i] \in Bytes
    BY <1>2, ElementOfSeq
  <2>2. Len(kept[w]) \in Nat /\ k \in Int /\ k + 1 \in Int /\ 1 \in Int
    BY <1>2, LenProperties
  <2>3. \A i \in 1..k : kept[w][i] \in Bytes
    BY <2>1, <2>2
  <2>4. \A i \in (k + 1)..Len(kept[w]) : kept[w][i] \in Bytes
    BY <2>1, <2>2
  <2>5. head \in Seq(Bytes)
    BY <2>2, <2>3, SubSeqProperties
  <2>6. rest \in Seq(Bytes)
    BY <2>2, <2>4, SubSeqProperties
  <2>7. head \o rest = SubSeq(kept[w], 1, Len(kept[w]))
    BY <1>2, <2>2, ConcatAdjacentSubSeq
  <2> QED
    BY <1>2, <2>5, <2>6, <2>7, SubSeqFull
<1> HIDE DEF head, rest
<1>5. /\ content' = [content EXCEPT ![temp] = @ \o head]
      /\ kept' = [kept EXCEPT ![w] = rest]
  BY <1>3 DEF head, rest
<1>6. content[temp] \o head \in Seq(Bytes)
  BY <1>2, <1>4, ConcatProperties
<1>7. /\ content' \in [Inodes -> Seq(Bytes)] /\ kept' \in [Writers -> Seq(Bytes)]
      /\ content'[temp] = content[temp] \o head /\ kept'[w] = rest
      /\ content'[path] = content[path]
  BY <1>2, <1>4, <1>5, <1>6 DEF LogInv, TypeOK
<1>8. Log' = Log
  BY <1>1, <1>7 DEF Log
<1>9. TypeOK' /\ LockInv' /\ LogIsBounded'
  BY <1>1, <1>7, <1>8 DEF LogInv, TypeOK, LockInv, LogIsBounded
<1>10. InodeInv'
  <2>1. \A v \in Writers : content'[<<"log", v>>] = content[<<"log", v>>]
    BY <1>2, <1>5 DEF LogInv, TypeOK
  <2> QED
    BY <1>1, <2>1 DEF LogInv, InodeInv
<1>11. content'[temp'] \o kept'[w] = Line(Header) \o Kept(content'[path'])
  <2>1. ASSUME NEW s \in Seq(Bytes), NEW t \in Seq(Bytes), NEW u \in Seq(Bytes)
        PROVE  (s \o t) \o u = s \o (t \o u)
    BY ConcatAssociative
  <2>2. (content[temp] \o head) \o rest = content[temp] \o (head \o rest)
    BY <1>2, <1>4, <2>1
  <2> QED
    BY <1>1, <1>4, <1>7, <2>2
<1>12. StepInv'
  <2>1. \A v \in Writers : v # w => pc[v] \notin Critical
    BY <1>1, Alone DEF LogInv
  <2> QED
    BY <1>1, <1>7, <1>11, <2>1 DEF LogInv, StepInv, Critical
<1> QED
  BY <1>8, <1>9, <1>10, <1>12 DEF LogInv

\* The tail takes the place of the log.
LEMMA RenameTempStep ==
  ASSUME LogInv, NEW w \in Writers, RenameTemp(w)
  PROVE  /\ LogInv'
         /\ path # None /\ path' # None
         /\ Len(content[path]) > TailBytes
         /\ Log' = Line(Header) \o Kept(Log)
<1>1. /\ pc[w] = "fill" /\ pc[w] \in Critical /\ path # None /\ temp # None
      /\ Len(content[path]) > TailBytes /\ kept[w] = <<>>
      /\ content[temp] \o kept[w] = Line(Header) \o Kept(content[path])
      /\ path' = temp /\ temp' = None
      /\ UNCHANGED <<content, holder, file, kept, order, torn>>
  BY DEF LogInv, StepInv, RenameTemp, Critical
<1>2. /\ pc'[w] = "reopen"
      /\ \A v \in Writers : v # w => pc'[v] = pc[v] /\ pc[v] \notin Critical
  BY <1>1, OthersStay DEF LogInv, RenameTemp
<1>3. /\ temp \in Inodes /\ temp[1] = "temp" /\ content[temp] \in Seq(Bytes)
      /\ content[path] \in Seq(Bytes)
  BY <1>1 DEF LogInv, TypeOK, InodeInv
<1>4. content[temp] = Line(Header) \o Kept(content[path])
  BY <1>1, <1>3, ConcatEmptySeq
<1>5. \A v \in Writers : Len(content[temp]) + Size[v] <= MaxBytes
  BY <1>1, <1>3, <1>4, Truncated
<1>6. Len(content[temp]) <= MaxBytes
  <2>1. /\ Len(content[temp]) \in Nat /\ Size[w] \in Nat /\ MaxBytes \in Nat
        /\ Len(content[temp]) + Size[w] <= MaxBytes
    BY <1>3, <1>5, LenProperties, SizeAssumption
  <2> QED
    BY <2>1
<1>7. TypeOK'
  BY <1>1, <1>3 DEF LogInv, TypeOK, RenameTemp, Goes
<1>8. LockInv'
  BY <1>1, <1>2 DEF LogInv, LockInv
<1>9. Log' = Line(Header) \o Kept(Log)
  BY <1>1, <1>4 DEF Log
<1>10. InodeInv'
  <2>1. \A v \in Writers : path' = <<"temp", v>> =>
          pc'[v] \in {"reopen", "failed", "killed"}
    BY <1>1, <1>2 DEF LogInv, InodeInv, Critical
  <2>2. \A v \in Writers : path' # <<"log", v>> /\ temp' # <<"temp", v>>
    BY <1>1, <1>3, NoneAssumption DEF Inodes
  <2> QED
    BY <1>1, <1>2, <2>1, <2>2 DEF LogInv, InodeInv
<1>11. StepInv'
  BY <1>1, <1>2, <1>5 DEF StepInv, Critical
<1>12. LogIsBounded'
  BY <1>1, <1>6 DEF LogIsBounded, Log
<1> QED
  BY <1>1, <1>7, <1>8, <1>9, <1>10, <1>11, <1>12 DEF LogInv

\* The new log is opened.
LEMMA ReopenStep ==
  ASSUME LogInv, NEW w \in Writers, Reopen(w)
  PROVE  LogInv'
<1>1. /\ pc[w] = "reopen" /\ pc[w] \in Critical /\ path # None
      /\ Len(content[path]) + Size[w] <= MaxBytes
  BY DEF LogInv, StepInv, Reopen, Critical
<1>2. /\ pc'[w] = "write"
      /\ \A v \in Writers : v # w => pc'[v] = pc[v] /\ pc[v] \notin Critical
  BY <1>1, OthersStay DEF LogInv, Reopen
<1>3. /\ UNCHANGED <<path, temp, content, holder, kept, order, torn>>
      /\ file' = [file EXCEPT ![w] = path] /\ file'[w] = path
  BY DEF LogInv, TypeOK, Reopen
<1>4. TypeOK'
  BY <1>3 DEF LogInv, TypeOK, Reopen, Goes
<1>5. LockInv' /\ InodeInv' /\ LogIsBounded'
  BY <1>1, <1>2, <1>3 DEF LogInv, LockInv, InodeInv, LogIsBounded, Log
<1>6. StepInv'
  BY <1>1, <1>2, <1>3 DEF StepInv, Critical
<1> QED
  BY <1>4, <1>5, <1>6 DEF LogInv

\* Nothing is written before the first writer comes.
LEMMA LogInit == Init => LogInv
<1> SUFFICES ASSUME Init PROVE LogInv
  OBVIOUS
<1>1. <<>> \in Seq(Bytes) /\ <<>> \in Seq(Writers)
  BY EmptySeq
<1>2. TypeOK
  BY <1>1 DEF Init, TypeOK
<1>3. LockInv /\ StepInv
  BY DEF Init, LockInv, StepInv, Critical
<1>4. InodeInv
  BY NoneAssumption DEF Init, InodeInv, Inodes
<1> QED
  BY <1>2, <1>3, <1>4 DEF LogInv, LogIsBounded, Init

\* Every step keeps the invariant.
LEMMA LogStep == LogInv /\ [Next]_vars => LogInv'
<1> SUFFICES ASSUME LogInv, [Next]_vars PROVE LogInv'
  OBVIOUS
<1>1. CASE UNCHANGED vars
  BY <1>1 DEF LogInv, TypeOK, LockInv, InodeInv, StepInv, LogIsBounded, Log, vars
<1>2. ASSUME NEW w \in Writers,
             Begin(w) \/ Step(w) \/ WriteFails(w) \/ CallFails(w) \/ Killed(w)
      PROVE  LogInv'
  BY <1>2, IdleStep, OpenStep, MeasureStep, WriteStep, ReadStep, MakeTempStep, FillTempStep,
     RenameTempStep, ReopenStep DEF Step
<1> QED
  BY <1>1, <1>2 DEF Next

\* The invariant that the theorems below rest on: one writer at a time is at the
\* log, and knows at each step what file it is at and how long that is.
THEOREM LogInvariant == Spec => []LogInv
<1> QED
  BY LogInit, LogStep, PTL DEF Spec

\* Every variable keeps its type, and the log and the temporary file are never
\* one file.
THEOREM TypeCorrect == Spec => []TypeOK
<1>1. LogInv => TypeOK
  BY DEF LogInv
<1> QED
  BY <1>1, LogInvariant, PTL

\* agent-install.log never exceeds its limit, whoever fails or is killed, as
\* long as a line fits below the header and a tail.
THEOREM LogStaysBounded == Spec => []LogIsBounded
<1>1. LogInv => LogIsBounded
  BY DEF LogInv
<1> QED
  BY <1>1, LogInvariant, PTL

(***************************************************************************)
(* What readers see                                                        *)
(***************************************************************************)

\* Every step is one of AppendLog's, or unseen.
LEMMA PromiseStep == LogInv /\ [Next]_vars => [Promise!Next]_Log
<1> SUFFICES ASSUME LogInv, [Next]_vars PROVE [Promise!Next]_Log
  OBVIOUS
<1>1. CASE path' = path /\ content' = content
  BY <1>1 DEF Log
<1>2. ASSUME NEW w \in Writers, Open(w), path = None
      PROVE  Promise!Create
  <2>1. path' = <<"log", w>> /\ content' = content /\ path' # None
    BY <1>2, NoneAssumption DEF Open, Inodes
  <2>2. content[<<"log", w>>] = <<>>
    BY <1>2 DEF LogInv, InodeInv, Open
  <2> QED
    BY <1>2, <2>1, <2>2 DEF Promise!Create, Log
<1>3. ASSUME NEW w \in Writers, Write(w) \/ WriteFails(w)
      PROVE  [Promise!Next]_Log
  <2>1. /\ path # None
        /\ \E k \in 0..Size[w] : Log' = Log \o SubSeq(Line(w), 1, k)
    BY <1>3, WriteStep
  <2>2. Log \in Seq(Bytes) /\ Log # None
    BY <2>1, NoneAssumption DEF LogInv, TypeOK, Log
  <2>3. PICK k \in 0..Size[w] : Log' = Log \o SubSeq(Line(w), 1, k)
    BY <2>1
  <2>4. Len(Line(w)) = Size[w] /\ Size[w] \in Nat
    BY LineType
  <2>5. CASE k = 0
    <3>1. SubSeq(Line(w), 1, 0) = <<>>
      BY SubSeqEmpty
    <3> QED
      BY <2>2, <2>3, <2>5, <3>1, ConcatEmptySeq
  <2>6. CASE k # 0
    <3>1. k \in 1..Len(Line(w))
      BY <2>4, <2>6
    <3>2. Promise!Grow
      BY <2>3, <3>1 DEF Promise!Grow
    <3> QED
      BY <2>2, <3>2 DEF Promise!Next
  <2> QED
    BY <2>5, <2>6
<1>4. ASSUME NEW w \in Writers, RenameTemp(w)
      PROVE  Promise!Next
  <2>1. /\ path # None /\ Len(content[path]) > TailBytes
        /\ Log' = Line(Header) \o Kept(Log)
    BY <1>4, RenameTempStep
  <2>2. Log = content[path] /\ Log \in Seq(Bytes) /\ Log # None
    BY <2>1, NoneAssumption DEF LogInv, TypeOK, Log
  <2>3. PICK n \in 1..Len(Log) :
          /\ Kept(Log) = SubSeq(Log, n + 1, Len(Log))
          /\ Len(Log) - n <= TailBytes
          /\ Ends(Log[n]) \/ \A m \in (n + 1)..Len(Log) : ~Ends(Log[m])
    BY <2>1, <2>2, KeptIsTail
  <2>4. Promise!Forget
    BY <2>1, <2>3 DEF Promise!Forget
  <2> QED
    BY <2>2, <2>4 DEF Promise!Next
<1>5. ASSUME NEW w \in Writers,
             Begin(w) \/ Step(w) \/ WriteFails(w) \/ CallFails(w) \/ Killed(w)
      PROVE  [Promise!Next]_Log
  <2>1. CASE Write(w) \/ WriteFails(w) \/ RenameTemp(w)
    BY <1>3, <1>4, <2>1
  <2>2. CASE MakeTemp(w) \/ FillTemp(w)
    BY <2>2, MakeTempStep, FillTempStep
  <2>3. CASE Open(w)
    <3>1. CASE path = None
      BY <1>2, <2>3, <3>1 DEF Promise!Next
    <3>2. CASE path # None
      BY <1>1, <2>3, <3>2 DEF Open
    <3> QED
      BY <3>1, <3>2
  <2>4. CASE Begin(w) \/ Lock(w) \/ Measure(w) \/ Read(w) \/ Reopen(w)
             \/ CallFails(w) \/ Killed(w)
    BY <1>1, <2>4 DEF Begin, Lock, Measure, Read, Reopen, CallFails, Killed
  <2> QED
    BY <1>5, <2>1, <2>2, <2>3, <2>4 DEF Step
<1>6. CASE UNCHANGED vars
  BY <1>1, <1>6 DEF vars
<1> QED
  BY <1>5, <1>6 DEF Next

\* Whoever reads agent-install.log by its path sees lines being appended, and
\* now and then a tail below a header instead of the log, never a file that is
\* half copied.
THEOREM InstallLogKeepsPromise == Spec => KeepsPromise
<1>1. Init => Promise!Init
  BY DEF Init, Promise!Init, Log
<1> QED
  BY <1>1, LogInvariant, PromiseStep, PTL DEF Spec, KeepsPromise, Promise!Spec

(***************************************************************************)
(* What the log consists of                                                *)
(***************************************************************************)

\* The bytes of a log to which (the beginning of) a line was appended.
LEMMA AppendedBytes ==
  ASSUME NEW s \in Seq(Bytes), NEW w \in Writers, NEW k \in 0..Size[w]
  PROVE  LET t == s \o SubSeq(Line(w), 1, k)
         IN  /\ t \in Seq(Bytes) /\ Len(t) = Len(s) + k /\ Len(s) \in Nat
             /\ \A i \in 1..Len(s) : t[i] = s[i]
             /\ \A i \in 1..k : t[Len(s) + i] = <<w, i>>
<1>1. /\ Line(w) \in Seq(Bytes) /\ Len(Line(w)) = Size[w] /\ Size[w] \in Nat
      /\ \A i \in 1..Size[w] : Line(w)[i] \in Bytes /\ Line(w)[i] = <<w, i>>
  BY LineType, ElementOfSeq DEF Line
<1>2. \A i \in 1..k : Line(w)[i] \in Bytes /\ i \in 1..Size[w]
  BY <1>1
<1> DEFINE h == SubSeq(Line(w), 1, k)
<1>3. /\ h \in Seq(Bytes) /\ Len(h) = IF 1 <= k THEN k - 1 + 1 ELSE 0
      /\ \A i \in 1..(k - 1 + 1) : h[i] = Line(w)[1 + i - 1]
  BY <1>1, <1>2, SubSeqProperties
<1>4. Len(h) = k /\ k \in Nat /\ \A i \in 1..k : h[i] = <<w, i>>
  BY <1>1, <1>2, <1>3
<1> HIDE DEF h
<1>5. /\ s \o h \in Seq(Bytes) /\ Len(s \o h) = Len(s) + Len(h) /\ Len(s) \in Nat
      /\ \A i \in 1..(Len(s) + Len(h)) :
           (s \o h)[i] = IF i <= Len(s) THEN s[i] ELSE h[i - Len(s)]
  BY <1>3, ConcatProperties, LenProperties
<1>6. \A i \in 1..Len(s) : (s \o h)[i] = s[i]
  BY <1>4, <1>5
<1>7. \A i \in 1..k : (s \o h)[Len(s) + i] = h[i]
  BY <1>4, <1>5
<1> QED
  BY <1>4, <1>5, <1>6, <1>7 DEF h

\* The bytes of a log that was truncated.
LEMMA TruncatedBytes ==
  ASSUME NEW s \in Seq(Bytes), Len(s) > TailBytes
  PROVE  LET t == Line(Header) \o Kept(s)
             h == Size[Header]
         IN  \E n \in 1..Len(s) :
               /\ Ends(s[n]) \/ \A m \in (n + 1)..Len(s) : ~Ends(s[m])
               /\ h \in Nat \ {0} /\ Len(s) \in Nat
               /\ t \in Seq(Bytes) /\ Len(t) = h + (Len(s) - n)
               /\ \A i \in 1..h : t[i] = <<Header, i>>
               /\ \A i \in (n + 1)..Len(s) : t[h + (i - n)] = s[i]
<1> DEFINE h == Size[Header]
<1>1. PICK n \in 1..Len(s) :
        /\ Kept(s) = SubSeq(s, n + 1, Len(s))
        /\ Kept(s) \in Seq(Bytes) /\ Len(Kept(s)) = Len(s) - n
        /\ Ends(s[n]) \/ \A m \in (n + 1)..Len(s) : ~Ends(s[m])
  BY KeptIsTail
<1>2. /\ Len(s) \in Nat /\ n \in Nat
      /\ Line(Header) \in Seq(Bytes) /\ Len(Line(Header)) = h /\ h \in Nat \ {0}
      /\ \A i \in 1..h : Line(Header)[i] = <<Header, i>>
  BY LenProperties, LineType DEF Line
<1>3. \A i \in (n + 1)..Len(s) : Kept(s)[i - n] = s[i]
  <2>1. \A i \in (n + 1)..Len(s) : s[i] \in Bytes
    BY <1>2, ElementOfSeq
  <2>2. \A i \in 1..(Len(s) - (n + 1) + 1) : SubSeq(s, n + 1, Len(s))[i] = s[(n + 1) + i - 1]
    BY <1>2, <2>1, SubSeqProperties
  <2>3. ASSUME NEW i \in (n + 1)..Len(s)
        PROVE  i - n \in 1..(Len(s) - (n + 1) + 1) /\ (n + 1) + (i - n) - 1 = i
    BY <1>2
  <2> HIDE DEF Kept
  <2> QED
    BY <1>1, <2>2, <2>3
<1> DEFINE u == Kept(s)
           t == Line(Header) \o u
<1>4. /\ u \in Seq(Bytes) /\ Len(u) = Len(s) - n
      /\ \A i \in (n + 1)..Len(s) : u[i - n] = s[i]
  BY <1>1, <1>3
<1> HIDE DEF h, u
<1>5. /\ t \in Seq(Bytes) /\ Len(t) = h + (Len(s) - n)
      /\ \A i \in 1..(h + (Len(s) - n)) :
           t[i] = IF i <= h THEN Line(Header)[i] ELSE u[i - h]
  <2>1. /\ t \in Seq(Bytes) /\ Len(t) = Len(Line(Header)) + Len(u)
        /\ \A i \in 1..(Len(Line(Header)) + Len(u)) :
             t[i] = IF i <= Len(Line(Header)) THEN Line(Header)[i] ELSE u[i - Len(Line(Header))]
    BY <1>4, <1>2, ConcatProperties
  <2> HIDE DEF t
  <2> QED
    BY <1>4, <1>2, <2>1
<1> HIDE DEF t
<1>6. ASSUME NEW i \in 1..h PROVE t[i] = <<Header, i>>
  <2>1. i \in 1..(h + (Len(s) - n)) /\ i <= h
    BY <1>2
  <2> QED
    BY <1>2, <1>5, <2>1
<1>7. ASSUME NEW i \in (n + 1)..Len(s) PROVE t[h + (i - n)] = s[i]
  <2>1. /\ h + (i - n) \in 1..(h + (Len(s) - n)) /\ ~ (h + (i - n) <= h)
        /\ h + (i - n) - h = i - n
    BY <1>2
  <2> QED
    <3>1. t[h + (i - n)] = u[h + (i - n) - h]
      BY <1>2, <1>5, <2>1
    <3>2. t[h + (i - n)] = u[i - n]
      BY <2>1, <3>1
    <3> QED
      BY <1>4, <3>2
<1>8. /\ Ends(s[n]) \/ \A m \in (n + 1)..Len(s) : ~Ends(s[m])
      /\ h \in Nat \ {0} /\ Len(s) \in Nat
      /\ t \in Seq(Bytes) /\ Len(t) = h + (Len(s) - n)
      /\ \A i \in 1..h : t[i] = <<Header, i>>
      /\ \A i \in (n + 1)..Len(s) : t[h + (i - n)] = s[i]
  BY <1>1, <1>2, <1>5, <1>6, <1>7
<1> QED
  BY <1>8 DEF t, u, h

\* A line more, and the text still consists of whole lines.
LEMMA WholeAppended ==
  ASSUME NEW s \in Seq(Bytes), NEW w \in Writers, IsWhole(s)
  PROVE  IsWhole(s \o Line(w))
<1> DEFINE t == s \o Line(w)
           z == Size[w]
           e == Len(s)
<1>1. z \in Nat \ {0} /\ Line(w) \in Seq(Bytes) /\ Len(Line(w)) = z
  BY LineType
<1>2. SubSeq(Line(w), 1, z) = Line(w) /\ z \in 0..z
  BY <1>1, SubSeqFull
<1>3. /\ t \in Seq(Bytes) /\ Len(t) = e + z /\ e \in Nat
      /\ \A i \in 1..e : t[i] = s[i]
      /\ \A i \in 1..z : t[e + i] = <<w, i>>
  <2> HIDE DEF z
  <2>1. LET u == s \o SubSeq(Line(w), 1, z)
        IN  /\ u \in Seq(Bytes) /\ Len(u) = Len(s) + z /\ Len(s) \in Nat
            /\ \A i \in 1..Len(s) : u[i] = s[i]
            /\ \A i \in 1..z : u[Len(s) + i] = <<w, i>>
    BY <1>2, AppendedBytes DEF z
  <2> QED
    BY <1>2, <2>1
<1> HIDE DEF t, z, e
<1>4. ASSUME NEW i \in 1..z PROVE Ends(t[e + i]) <=> i = z
  BY <1>3 DEF Ends, z
<1>5. t[1][2] = 1
  <2>1. CASE e = 0
    <3>1. 1 \in 1..z /\ e + 1 = 1
      BY <1>1, <2>1
    <3>2. t[1] = <<w, 1>>
      BY <1>3, <3>1
    <3> QED
      BY <3>2
  <2>2. CASE e # 0
    <3>1. 1 \in 1..e /\ s # <<>>
      BY <1>3, <2>2, EmptySeq DEF e
    <3> QED
      BY <1>3, <3>1 DEF IsWhole
  <2> QED
    BY <2>1, <2>2
<1>6. Ends(t[Len(t)])
  <2>1. z \in 1..z
    BY <1>1
  <2> QED
    BY <1>3, <1>4, <2>1
<1>7. ASSUME NEW i \in 1..(Len(t) - 1)
      PROVE  IF Ends(t[i]) THEN t[i + 1][2] = 1 ELSE t[i + 1] = <<t[i][1], t[i][2] + 1>>
  <2>1. CASE i < e
    <3>1. i \in 1..(e - 1) /\ i \in 1..e /\ i + 1 \in 1..e
      BY <1>3, <2>1
    <3> QED
      BY <1>3, <3>1 DEF IsWhole, e
  <2>2. CASE i = e
    <3>1. i \in 1..e /\ s # <<>> /\ 1 \in 1..z
      BY <1>1, <1>3, <2>2, EmptySeq DEF e
    <3>2. t[i] = s[e] /\ t[i + 1] = <<w, 1>> /\ Ends(s[e])
      BY <1>3, <2>2, <3>1 DEF IsWhole, e
    <3> QED
      BY <3>2
  <2>3. CASE i > e
    <3> DEFINE j == i - e
    <3>1. j \in 1..z /\ j + 1 \in 1..z /\ j # z /\ e + j = i /\ e + (j + 1) = i + 1
      BY <1>1, <1>3, <2>3
    <3> HIDE DEF j
    <3>2. t[i] = <<w, j>> /\ t[i + 1] = <<w, j + 1>> /\ ~Ends(t[i])
      BY <1>3, <1>4, <3>1
    <3> QED
      BY <3>2
  <2> QED
    BY <1>3, <2>1, <2>2, <2>3
<1> QED
  BY <1>5, <1>6, <1>7 DEF IsWhole, t

\* A truncation cuts between lines: the tail of whole lines is whole.
LEMMA WholeTruncated ==
  ASSUME NEW s \in Seq(Bytes), Len(s) > TailBytes, IsWhole(s)
  PROVE  IsWhole(Line(Header) \o Kept(s))
<1> DEFINE t == Line(Header) \o Kept(s)
           h == Size[Header]
           e == Len(s)
<1>1. PICK n \in 1..e :
        /\ Ends(s[n]) \/ \A m \in (n + 1)..e : ~Ends(s[m])
        /\ h \in Nat \ {0} /\ e \in Nat
        /\ t \in Seq(Bytes) /\ Len(t) = h + (e - n)
        /\ \A i \in 1..h : t[i] = <<Header, i>>
        /\ \A i \in (n + 1)..e : t[h + (i - n)] = s[i]
  BY TruncatedBytes
<1>2. Ends(s[e])
  <2>1. s # <<>>
    BY <1>1, EmptySeq
  <2> QED
    BY <2>1 DEF IsWhole
<1>3. Ends(s[n])
  <2>1. n = e \/ e \in (n + 1)..e
    BY <1>1
  <2> QED
    BY <1>1, <1>2, <2>1
<1>4. \A i \in 1..(e - 1) :
        IF Ends(s[i]) THEN s[i + 1][2] = 1 ELSE s[i + 1] = <<s[i][1], s[i][2] + 1>>
  BY DEF IsWhole
<1> HIDE DEF t, h, e
<1>5. \A i \in 1..h : Ends(t[i]) <=> i = h
  BY <1>1 DEF Ends, h
<1>6. t[1][2] = 1
  <2>1. 1 \in 1..h
    BY <1>1
  <2> QED
    BY <1>1, <2>1
<1>7. Ends(t[Len(t)])
  <2>1. CASE n = e
    <3>1. Len(t) = h /\ h \in 1..h
      BY <1>1, <2>1
    <3> QED
      BY <1>5, <3>1
  <2>2. CASE n # e
    <3>1. e \in (n + 1)..e
      BY <1>1, <2>2
    <3> QED
      BY <1>1, <1>2, <3>1
  <2> QED
    BY <2>1, <2>2
<1>8. ASSUME NEW i \in 1..(Len(t) - 1)
      PROVE  IF Ends(t[i]) THEN t[i + 1][2] = 1 ELSE t[i + 1] = <<t[i][1], t[i][2] + 1>>
  <2>1. CASE i < h
    <3>1. i \in 1..h /\ i + 1 \in 1..h /\ i # h
      BY <1>1, <2>1
    <3>2. t[i] = <<Header, i>> /\ t[i + 1] = <<Header, i + 1>> /\ ~Ends(t[i])
      BY <1>1, <1>5, <3>1
    <3> QED
      BY <3>2
  <2>2. CASE i = h
    <3>1. n + 1 \in (n + 1)..e /\ h + ((n + 1) - n) = i + 1 /\ h \in 1..h /\ n \in 1..(e - 1)
      BY <1>1, <2>2
    <3>2. t[i + 1] = s[n + 1] /\ Ends(t[i])
      BY <1>1, <1>5, <2>2, <3>1
    <3> QED
      BY <1>3, <1>4, <3>1, <3>2
  <2>3. CASE i > h
    <3> DEFINE j == n + (i - h)
    <3>1. /\ j \in (n + 1)..e /\ j + 1 \in (n + 1)..e /\ j \in 1..(e - 1)
          /\ h + (j - n) = i /\ h + ((j + 1) - n) = i + 1
      BY <1>1, <2>3
    <3> HIDE DEF j
    <3>2. t[i] = s[j] /\ t[i + 1] = s[j + 1]
      BY <1>1, <3>1
    <3> QED
      BY <1>4, <3>1, <3>2
  <2> QED
    BY <1>1, <2>1, <2>2, <2>3
<1> QED
  BY <1>6, <1>7, <1>8 DEF IsWhole, t

\* A step that shows nothing to a reader, but perhaps an empty log.
LEMMA LinesUnseen ==
  ASSUME LinesInv, LogInv', NEW w \in Writers,
         \/ Begin(w) \/ Lock(w) \/ Open(w) \/ Measure(w) \/ Read(w) \/ MakeTemp(w)
         \/ FillTemp(w) \/ Reopen(w) \/ CallFails(w) \/ Killed(w)
  PROVE  LinesInv'
<1>1. /\ UNCHANGED <<order, torn>>
      /\ \A v \in Writers : pc'[v] = "done" <=> pc[v] = "done"
  BY DEF LinesInv, LogInv, TypeOK, Begin, Lock, Open, Measure, Read, MakeTemp, FillTemp, Reopen,
         CallFails, Killed, Leaves, Goes, Running
<1>2. OrderInv'
  BY <1>1 DEF LinesInv, OrderInv
<1>3. CASE path = None /\ Open(w)
  <2>1. path' = <<"log", w>> /\ path' # None /\ content' = content
    BY <1>3, NoneAssumption DEF Open, Inodes
  <2>2. content[<<"log", w>>] = <<>>
    BY <1>3 DEF LinesInv, LogInv, InodeInv, Open
  <2>3. Log' = <<>>
    BY <2>1, <2>2 DEF Log
  <2>4. DOMAIN <<>> = {} /\ 1..(Len(<<>>) - 1) = {}
    OBVIOUS
  <2>5. LinesAreWhole'
    BY <2>3, <2>4 DEF LinesAreWhole, IsWhole
  <2>6. \A x : EndsIn(Log', x) = {}
    BY <2>3, <2>4 DEF EndsIn
  <2> QED
    BY <1>2, <2>5, <2>6 DEF LinesInv, LatestAreKept
<1>4. CASE ~ (path = None /\ Open(w))
  <2>1. Log' = Log /\ path' = path
    <3>1. CASE MakeTemp(w) \/ FillTemp(w)
      BY <3>1, MakeTempStep, FillTempStep DEF LinesInv, MakeTemp, FillTemp
    <3>2. CASE ~ (MakeTemp(w) \/ FillTemp(w))
      BY <1>4, <3>2 DEF Begin, Lock, Open, Measure, Read, Reopen, CallFails, Killed, Log
    <3> QED
      BY <3>1, <3>2
  <2>2. LinesAreWhole' /\ LatestAreKept'
    BY <1>1, <2>1 DEF LinesInv, LinesAreWhole, LatestAreKept, EndsIn
  <2> QED
    BY <1>2, <2>2 DEF LinesInv
<1> QED
  BY <1>3, <1>4

\* A writer adds its line at the end, or a beginning of it that ends nowhere.
LEMMA LinesWritten ==
  ASSUME LinesInv, LogInv', NEW w \in Writers, Write(w) \/ WriteFails(w)
  PROVE  LinesInv'
<1> DEFINE z == Size[w]
           e == Len(Log)
<1>1. /\ pc[w] = "write" /\ path # None /\ path' = path /\ file[w] = path
      /\ Log = content[path] /\ Log \in Seq(Bytes) /\ z \in Nat \ {0}
      /\ order \in Seq(Writers) /\ pc \in [Writers -> {pc[v] : v \in Writers}]
  <2>1. pc[w] = "write" /\ path' = path
    BY DEF Write, WriteFails
  <2>2. path # None /\ file[w] = path /\ Log = content[path]
    BY <2>1 DEF LinesInv, LogInv, StepInv, Log, Critical
  <2>3. /\ Log \in Seq(Bytes) /\ z \in Nat \ {0} /\ order \in Seq(Writers)
        /\ pc \in [Writers -> {pc[v] : v \in Writers}]
    BY <2>2, SizeAssumption DEF LinesInv, LogInv, TypeOK, Log
  <2> QED
    BY <2>1, <2>2, <2>3
<1>2. PICK k \in 0..z :
        /\ Log' = Log \o SubSeq(Line(w), 1, k)
        /\ Write(w) => k = z /\ order' = Append(order, w) /\ torn' = torn /\ pc'[w] = "done"
        /\ WriteFails(w) => /\ k # z /\ order' = order /\ (~torn' => ~torn /\ k = 0)
                            /\ pc'[w] \in {"failed", "killed"}
  <2>1. CASE Write(w)
    <3>1. Line(w) \in Seq(Bytes) /\ Len(Line(w)) = z
      BY LineType
    <3>2. SubSeq(Line(w), 1, z) = Line(w) /\ z \in 0..z
      BY <1>1, <3>1, SubSeqFull
    <3>3. Log' = Log \o SubSeq(Line(w), 1, z)
      BY <1>1, <2>1, <3>2 DEF Write, Log, LinesInv, LogInv, TypeOK
    <3>4. ~ WriteFails(w)
      BY <2>1, <1>1 DEF Write, WriteFails, Leaves, Goes, LinesInv, LogInv, TypeOK
    <3> QED
      BY <2>1, <3>2, <3>3, <3>4 DEF Write, Leaves, Goes, LinesInv, LogInv, TypeOK
  <2>2. CASE WriteFails(w)
    <3>1. PICK k \in 0..(z - 1) :
            /\ content' = [content EXCEPT ![file[w]] = @ \o SubSeq(Line(w), 1, k)]
            /\ torn' = (torn \/ k > 0)
      BY <2>2 DEF WriteFails
    <3>2. k \in 0..z /\ k # z
      BY <1>1
    <3>3. Log' = Log \o SubSeq(Line(w), 1, k)
      BY <1>1, <3>1 DEF Log, LinesInv, LogInv, TypeOK
    <3>6. ~torn' => ~torn /\ k = 0
      <4>1. k = 0 \/ k > 0
        BY <1>1
      <4>2. ~torn' => ~torn /\ ~ (k > 0)
        BY <3>1, Zenon
      <4> QED
        BY <4>1, <4>2
    <3>4. pc'[w] \in {"failed", "killed"} /\ order' = order
      BY <2>2 DEF WriteFails, Leaves, Goes, LinesInv, LogInv, TypeOK
    <3>5. ~ Write(w)
      BY <3>4 DEF Write, Leaves, Goes, LinesInv, LogInv, TypeOK
    <3> QED
      BY <3>2, <3>3, <3>4, <3>5, <3>6
  <2> QED
    BY <2>1, <2>2
<1>3. \A v \in Writers : v # w => pc'[v] = pc[v]
  BY DEF Write, WriteFails, Leaves, Goes, LinesInv, LogInv, TypeOK
<1>4. w \notin Range(order)
  BY <1>1 DEF LinesInv, OrderInv
<1>5. Write(w) => /\ Range(order') = Range(order) \cup {w}
                  /\ Len(order') = Len(order) + 1 /\ DOMAIN order' = 1..(Len(order) + 1)
                  /\ order'[Len(order) + 1] = w
                  /\ \A j \in 1..Len(order) : order'[j] = order[j]
  <2> SUFFICES ASSUME Write(w)
               PROVE  /\ Range(order') = Range(order) \cup {w}
                      /\ Len(order') = Len(order) + 1 /\ DOMAIN order' = 1..(Len(order) + 1)
                      /\ order'[Len(order) + 1] = w
                      /\ \A j \in 1..Len(order) : order'[j] = order[j]
    OBVIOUS
  <2>1. order' = Append(order, w)
    BY <1>2
  <2>2. /\ order' \in Seq(Writers) /\ Len(order') = Len(order) + 1
        /\ \A j \in 1..Len(order) : order'[j] = order[j]
        /\ order'[Len(order) + 1] = w
    BY <1>1, <2>1, AppendProperties
  <2>3. /\ DOMAIN order = 1..Len(order) /\ Len(order) \in Nat
        /\ DOMAIN order' = 1..(Len(order) + 1)
    BY <1>1, <2>2, LenProperties
  <2>4. DOMAIN order' = DOMAIN order \cup {Len(order) + 1}
    BY <2>3
  <2>5. Range(order') = Range(order) \cup {w}
    BY <2>2, <2>3, <2>4 DEF Range
  <2> QED
    BY <2>2, <2>3, <2>5
<1>6. OrderInv'
  BY <1>2, <1>3, <1>4, <1>5 DEF LinesInv, OrderInv
<1>7. LinesAreWhole'
  <2> SUFFICES ASSUME ~torn' PROVE IsWhole(Log')
    BY DEF LinesAreWhole
  <2>1. ~torn /\ IsWhole(Log)
    BY <1>1, <1>2 DEF LinesInv, LinesAreWhole
  <2>2. CASE Write(w)
    <3>1. Log' = Log \o Line(w)
      BY <1>1, <2>2 DEF Write, Log, LinesInv, LogInv, TypeOK
    <3> QED
      BY <1>1, <2>1, <3>1, WholeAppended
  <2>3. CASE WriteFails(w)
    <3>1. k = 0
      BY <1>2, <2>3
    <3>2. SubSeq(Line(w), 1, 0) = <<>>
      BY SubSeqEmpty
    <3>3. Log' = Log
      BY <1>1, <1>2, <3>1, <3>2, ConcatEmptySeq
    <3> QED
      BY <2>1, <3>3
  <2> QED
    BY <2>2, <2>3
<1>8. /\ DOMAIN Log' = 1..(e + k) /\ e \in Nat /\ DOMAIN Log = 1..e
      /\ \A i \in 1..e : Log'[i] = Log[i]
      /\ \A i \in 1..k : Log'[e + i] = <<w, i>>
  <2>1. LET t == Log \o SubSeq(Line(w), 1, k)
        IN  /\ t \in Seq(Bytes) /\ Len(t) = Len(Log) + k /\ Len(Log) \in Nat
            /\ \A i \in 1..Len(Log) : t[i] = Log[i]
            /\ \A i \in 1..k : t[Len(Log) + i] = <<w, i>>
    BY <1>1, AppendedBytes
  <2>2. Log' \in Seq(Bytes) /\ Len(Log') = e + k /\ e \in Nat
    BY <1>2, <2>1
  <2>3. DOMAIN Log' = 1..(e + k) /\ DOMAIN Log = 1..e
    BY <1>1, <2>2, LenProperties
  <2>4. (\A i \in 1..e : Log'[i] = Log[i]) /\ (\A i \in 1..k : Log'[e + i] = <<w, i>>)
    BY <1>2, <2>1
  <2> QED
    BY <2>2, <2>3, <2>4
<1> HIDE DEF e, z
<1>9. ASSUME NEW i \in DOMAIN Log' PROVE i \in 1..e \/ (i - e \in 1..k /\ e + (i - e) = i)
  BY <1>8
<1>10. \A x \in Writers : x # w => EndsIn(Log', x) = EndsIn(Log, x)
  <2> SUFFICES ASSUME NEW x \in Writers, x # w PROVE EndsIn(Log', x) = EndsIn(Log, x)
    OBVIOUS
  <2>1. 1..e \subseteq DOMAIN Log'
    BY <1>8
  <2>2. ASSUME NEW i \in DOMAIN Log', Log'[i] = <<x, Size[x]>> PROVE i \in 1..e
    BY <1>8, <1>9, <2>2
  <2> QED
    BY <1>8, <2>1, <2>2 DEF EndsIn
<1>11. EndsIn(Log', w) = IF k = z THEN {e + k} ELSE {}
  <2>1. EndsIn(Log, w) = {}
    BY <1>1, <1>4 DEF LinesInv, LatestAreKept
  <2>2. ASSUME NEW i \in DOMAIN Log', Log'[i] = <<w, Size[w]>> PROVE k = z /\ i = e + k
    <3>1. i \notin 1..e
      BY <1>8, <2>1, <2>2 DEF EndsIn
    <3>2. i - e \in 1..k /\ e + (i - e) = i
      BY <1>9, <3>1
    <3>3. Log'[i] = <<w, i - e>>
      BY <1>8, <3>2
    <3>4. i - e = z
      BY <2>2, <3>3 DEF z
    <3> QED
      BY <1>1, <1>2, <3>2, <3>4 DEF z
  <2>3. ASSUME k = z PROVE e + k \in DOMAIN Log' /\ Log'[e + k] = <<w, Size[w]>>
    <3>1. k \in 1..k /\ e + k \in 1..(e + k)
      BY <1>1, <1>8, <2>3 DEF z
    <3> QED
      BY <1>8, <2>3, <3>1 DEF z
  <2> QED
    BY <2>2, <2>3 DEF EndsIn
<1>12. /\ \A x \in Writers : EndsIn(Log', x) # {} => x \in Range(order')
       /\ \A x \in Writers : \A i, l \in EndsIn(Log', x) : i = l
  <2>1. \A x \in Writers : EndsIn(Log', x) # {} => x \in Range(order')
    BY <1>1, <1>2, <1>5, <1>10, <1>11 DEF LinesInv, LatestAreKept
  <2>2. \A x \in Writers : \A i, l \in EndsIn(Log', x) : i = l
    BY <1>1, <1>10, <1>11 DEF LinesInv, LatestAreKept
  <2> QED
    BY <2>1, <2>2
<1>13. ASSUME NEW j \in DOMAIN order', NEW l \in DOMAIN order', j < l,
              NEW i \in EndsIn(Log', order'[j])
       PROVE  \E m \in EndsIn(Log', order'[l]) : i < m
  <2>1. DOMAIN order = 1..Len(order) /\ Len(order) \in Nat
        /\ \A n \in DOMAIN order : order[n] \in Writers /\ order[n] # w
    BY <1>1, <1>4, LenProperties, ElementOfSeq DEF Range
  <2>2. CASE j \in DOMAIN order /\ l \in DOMAIN order
    <3>1. /\ order'[j] = order[j] /\ order'[l] = order[l]
          /\ EndsIn(Log', order[j]) = EndsIn(Log, order[j]) /\ EndsIn(Log', order[l]) = EndsIn(Log, order[l])
      BY <1>2, <1>5, <1>10, <2>1, <2>2
    <3> QED
      <4>1. i \in EndsIn(Log, order[j]) /\ j < l
        BY <1>13, <3>1
      <4>2. \A x, y \in DOMAIN order : x < y =>
              \A v \in EndsIn(Log, order[x]) : \E m \in EndsIn(Log, order[y]) : v < m
        BY <1>1, Zenon DEF LinesInv, LatestAreKept
      <4> QED
        BY <2>2, <3>1, <4>1, <4>2, Zenon
  <2>3. CASE ~ (j \in DOMAIN order /\ l \in DOMAIN order)
    <3>1. Write(w) /\ l = Len(order) + 1 /\ j \in DOMAIN order
      BY <1>2, <1>5, <1>13, <2>1, <2>3
    <3>2. order'[l] = w /\ order'[j] = order[j] /\ EndsIn(Log', w) = {e + k} /\ k = z
      BY <1>2, <1>5, <1>11, <2>1, <3>1
    <3>3. i \in EndsIn(Log, order[j])
      BY <1>10, <1>13, <2>1, <3>1, <3>2
    <3>4. i \in 1..e
      BY <1>8, <3>3 DEF EndsIn
    <3>5. i < e + k
      BY <1>1, <1>8, <3>2, <3>4 DEF z
    <3> QED
      BY <3>2, <3>5
  <2> QED
    BY <2>2, <2>3
<1>14. LatestAreKept'
  BY <1>12, <1>13 DEF LatestAreKept
<1> QED
  BY <1>6, <1>7, <1>14 DEF LinesInv

\* A truncation forgets the lines before the cut and moves the others.
LEMMA LinesForgotten ==
  ASSUME LinesInv, LogInv', NEW w \in Writers, RenameTemp(w)
  PROVE  LinesInv'
<1> DEFINE h == Size[Header]
           e == Len(Log)
<1>1. /\ path # None /\ path' # None /\ Log \in Seq(Bytes) /\ Len(Log) > TailBytes
      /\ Log' = Line(Header) \o Kept(Log)
      /\ UNCHANGED <<order, torn>> /\ order \in Seq(Writers)
      /\ \A v \in Writers : pc'[v] = "done" <=> pc[v] = "done"
  <2>1. path # None /\ path' # None /\ Len(content[path]) > TailBytes
        /\ Log' = Line(Header) \o Kept(Log)
    BY RenameTempStep DEF LinesInv
  <2> QED
    BY <2>1 DEF LinesInv, LogInv, TypeOK, Log, RenameTemp, Goes
<1>2. PICK n \in 1..e :
        /\ h \in Nat \ {0} /\ e \in Nat
        /\ Log' \in Seq(Bytes) /\ Len(Log') = h + (e - n)
        /\ \A i \in 1..h : Log'[i] = <<Header, i>>
        /\ \A i \in (n + 1)..e : Log'[h + (i - n)] = Log[i]
  BY <1>1, TruncatedBytes
<1>3. DOMAIN Log = 1..e /\ DOMAIN Log' = 1..(h + (e - n))
  BY <1>1, <1>2, LenProperties
<1>4. OrderInv'
  BY <1>1 DEF LinesInv, OrderInv
<1>5. LinesAreWhole'
  <2>1. torn' = torn
    BY <1>1
  <2> SUFFICES ASSUME ~torn PROVE IsWhole(Log')
    BY <2>1 DEF LinesAreWhole
  <2>2. IsWhole(Log)
    BY <1>1 DEF LinesInv, LinesAreWhole
  <2> QED
    BY <1>1, <2>2, WholeTruncated
<1> HIDE DEF h, e
<1>6. ASSUME NEW x \in Writers, NEW l \in EndsIn(Log', x)
      PROVE  l - h + n \in EndsIn(Log, x) /\ l - h + n \in (n + 1)..e /\ l \in Nat
  <2>1. l \in 1..(h + (e - n)) /\ Log'[l] = <<x, Size[x]>>
    BY <1>3, <1>6 DEF EndsIn
  <2>2. ~ (l \in 1..h)
    BY <1>2, <2>1, SizeAssumption
  <2>3. /\ l - h + n \in (n + 1)..e /\ l - h + n \in 1..e /\ h + ((l - h + n) - n) = l
        /\ l \in Nat
    BY <1>2, <2>1, <2>2
  <2> DEFINE i == l - h + n
  <2>4. i \in (n + 1)..e /\ i \in 1..e /\ h + (i - n) = l
    BY <2>3
  <2> HIDE DEF i
  <2>5. Log[i] = <<x, Size[x]>>
    BY <1>2, <2>1, <2>4
  <2>6. i \in EndsIn(Log, x)
    BY <1>3, <2>4, <2>5 DEF EndsIn
  <2> QED
    BY <2>3, <2>6 DEF i
<1>7. ASSUME NEW x \in Writers, NEW i \in EndsIn(Log, x), i > n
      PROVE  h + (i - n) \in EndsIn(Log', x) /\ i \in Nat
  <2>1. i \in 1..e /\ Log[i] = <<x, Size[x]>>
    BY <1>3 DEF EndsIn
  <2>2. i \in (n + 1)..e /\ h + (i - n) \in 1..(h + (e - n))
    BY <1>2, <1>7, <2>1
  <2> DEFINE l == h + (i - n)
  <2>3. Log'[l] = <<x, Size[x]>> /\ l \in DOMAIN Log'
    BY <1>2, <1>3, <2>1, <2>2
  <2> HIDE DEF l
  <2>4. l \in EndsIn(Log', x)
    BY <2>3 DEF EndsIn
  <2> QED
    BY <2>1, <2>4 DEF l
<1>8. \A x \in Writers : EndsIn(Log', x) # {} => x \in Range(order')
  <2>1. order' = order
    BY <1>1
  <2>2. \A x \in Writers : EndsIn(Log', x) # {} => EndsIn(Log, x) # {}
    BY <1>6
  <2> QED
    BY <1>1, <2>1, <2>2 DEF LinesInv, LatestAreKept
<1>9. ASSUME NEW x \in Writers, NEW i \in EndsIn(Log', x), NEW l \in EndsIn(Log', x)
      PROVE  i = l
  <2>1. /\ i - h + n \in EndsIn(Log, x) /\ l - h + n \in EndsIn(Log, x)
        /\ i \in Nat /\ l \in Nat
    BY <1>6
  <2>2. i - h + n = l - h + n
    BY <1>1, <2>1 DEF LinesInv, LatestAreKept
  <2> QED
    BY <1>2, <2>1, <2>2
<1>10. ASSUME NEW j \in DOMAIN order, NEW k \in DOMAIN order, j < k,
              NEW i \in EndsIn(Log', order[j])
       PROVE  \E l \in EndsIn(Log', order[k]) : i < l
  <2>1. order[j] \in Writers /\ order[k] \in Writers
    BY <1>1, ElementOfSeq, LenProperties
  <2>2. i - h + n \in EndsIn(Log, order[j]) /\ i - h + n \in (n + 1)..e /\ i \in Nat
    BY <1>6, <2>1
  <2>3. PICK m \in EndsIn(Log, order[k]) : i - h + n < m
    BY <1>1, <1>10, <2>2 DEF LinesInv, LatestAreKept
  <2>4. m \in 1..e
    BY <1>3, <2>3 DEF EndsIn
  <2>5. m > n
    BY <1>2, <2>2, <2>3, <2>4
  <2>6. h + (m - n) \in EndsIn(Log', order[k])
    BY <1>7, <2>1, <2>5
  <2>7. i < h + (m - n)
    BY <1>2, <2>2, <2>3, <2>4
  <2> QED
    BY <2>6, <2>7
<1>11. LatestAreKept'
  <2>1. order' = order
    BY <1>1
  <2> QED
    BY <1>8, <1>9, <1>10, <2>1 DEF LatestAreKept
<1> QED
  BY <1>4, <1>5, <1>11 DEF LinesInv

\* Every step keeps what the log consists of.
LEMMA LinesStep == LinesInv /\ [Next]_vars => LinesInv'
<1> SUFFICES ASSUME LinesInv, [Next]_vars PROVE LinesInv'
  OBVIOUS
<1>1. LogInv'
  BY LogStep DEF LinesInv
<1>2. CASE UNCHANGED vars
  BY <1>1, <1>2 DEF LinesInv, OrderInv, LinesAreWhole, LatestAreKept, Log, vars
<1>3. ASSUME NEW w \in Writers,
             Begin(w) \/ Step(w) \/ WriteFails(w) \/ CallFails(w) \/ Killed(w)
      PROVE  LinesInv'
  BY <1>1, <1>3, LinesUnseen, LinesWritten, LinesForgotten DEF Step
<1> QED
  BY <1>2, <1>3 DEF Next

LEMMA LinesInit == Init => LinesInv
<1> SUFFICES ASSUME Init PROVE LinesInv
  OBVIOUS
<1>1. LogInv
  BY LogInit
<1>2. Range(order) = {}
  BY DEF Init, Range
<1> QED
  BY <1>1, <1>2 DEF Init, LinesInv, OrderInv, LinesAreWhole, LatestAreKept

LEMMA LinesInvariant == Spec => []LinesInv
BY LinesInit, LinesStep, PTL DEF Spec

\* As long as no write ended within its line, the log consists of whole lines,
\* whoever is killed at any other step and wherever the tail is cut
\* (truncate_install_log).
THEOREM LogIsWhole == Spec => []LinesAreWhole
<1>1. LinesInv => LinesAreWhole
  BY DEF LinesInv
<1> QED
  BY <1>1, LinesInvariant, PTL

\* A line that was written is in the log once, in its order, until a truncation
\* forgets it together with all that are older (append_install_log_inner).
THEOREM LogKeepsTheLatest == Spec => []LatestAreKept
<1>1. LinesInv => LatestAreKept
  BY DEF LinesInv
<1> QED
  BY <1>1, LinesInvariant, PTL
================================================================================
