--------------------------------- MODULE LogTail ---------------------------------
(***************************************************************************)
(* `server logs` (logs, read_log_tail and tail_lines,                      *)
(* src/src/server/client.rs): the last lines of a log that other processes *)
(* append to meanwhile.  The file is read backwards in chunks of bytes.    *)
(*                                                                         *)
(* A byte is "\n", "\r", an ASCII character, or the Lead or Rest byte of a *)
(* character of two bytes.                                                 *)
(***************************************************************************)
EXTENDS Naturals, Integers, Sequences, FiniteSets, FiniteSetsExt, SequencesExt

CONSTANTS
  Wants,       \* the values of --lines that are tried
  ChunkSize,   \* CHUNK_SIZE
  MaxLogTail,  \* MAX_LOG_TAIL_BYTES
  Newline, CarriageReturn, Lead, Rest,
  None

VARIABLES
  log,       \* the bytes of the file, or None
  step,      \* the next step of the command
  want,      \* --lines
  length,    \* the length of the file when it was looked at
  position,  \* where the bytes read so far begin
  bytes,     \* the bytes read so far, in file order
  answer     \* what the command printed

tailVars == <<step, want, length, position, bytes, answer>>
vars == <<log, tailVars>>

(***************************************************************************)
(* tail_lines                                                              *)
(***************************************************************************)

Cuts(s) == {i \in DOMAIN s : s[i] = Newline}
Newlines(s) == Cardinality(Cuts(s))

\* A piece ends before the next newline, or with the text.
PieceAt(s, i) ==
  LET ends == {j \in Cuts(s) : j >= i}
  IN  SubSeq(s, i, IF ends = {} THEN Len(s) ELSE Min(ends) - 1)

StripCR(l) == IF l # <<>> /\ Last(l) = CarriageReturn THEN Front(l) ELSE l

\* str::split makes a piece at the beginning and one behind every newline; the last
\* one is dropped if it is empty.
TailLines(s, n) ==
  LET begins == ({1} \cup {i + 1 : i \in Cuts(s)}) \ {Len(s) + 1}
      Rank(i) == Cardinality({j \in begins : j <= i})
      count == Cardinality(begins)
      start == IF count > n THEN count - n ELSE 0
  IN  [k \in 1..(count - start) |->
         StripCR(PieceAt(s, CHOOSE i \in begins : Rank(i) = start + k))]

(***************************************************************************)
(* read_log_tail                                                           *)
(***************************************************************************)

Answer(a) == step' = "print" /\ answer' = a

Call ==
  /\ step = "idle"
  /\ want' \in Wants
  /\ step' = "open"
  /\ UNCHANGED <<log, length, position, bytes, answer>>

Open ==
  /\ step = "open"
  /\ CASE log = None -> Answer([kind |-> "no log"])
       [] log # None /\ want = 0 -> Answer([kind |-> "lines", lines |-> <<>>])
       [] OTHER -> step' = "stat" /\ UNCHANGED answer
  /\ UNCHANGED <<log, want, length, position, bytes>>

Stat ==
  /\ step = "stat"
  /\ length' = Len(log) /\ position' = Len(log) /\ bytes' = <<>>
  /\ IF log = <<>> THEN Answer([kind |-> "lines", lines |-> <<>>])
                   ELSE step' = "read" /\ UNCHANGED answer
  /\ UNCHANGED <<log, want>>

\* The loop goes on below the start of the last `want` lines.
Mut_Goes == position > 0 /\ Newlines(bytes) < want
Goes == position > 0 /\ Newlines(bytes) < want + 1

Remaining == MaxLogTail - Len(bytes)
Amount == Min({position, ChunkSize, Remaining})

\* lines + 1 newlines, the beginning of the file or the limit of the bytes.
ReadChunk ==
  /\ step = "read" /\ Goes
  /\ IF Remaining <= 0
     THEN Answer([kind |-> "limit"]) /\ UNCHANGED <<position, bytes>>
     ELSE /\ position' = position - Amount
          /\ bytes' = SubSeq(log, position' + 1, position) \o bytes
          /\ UNCHANGED <<step, answer>>
  /\ UNCHANGED <<log, want, length>>

\* String::from_utf8: every Lead is followed by a Rest, every Rest follows a Lead.
IsText(s) ==
  /\ \A i \in DOMAIN s : s[i] = Lead => i < Len(s) /\ s[i + 1] = Rest
  /\ \A i \in DOMAIN s : s[i] = Rest => i > 1 /\ s[i - 1] = Lead

Finish ==
  /\ step = "read" /\ ~Goes
  /\ Answer(IF IsText(bytes) THEN [kind |-> "lines", lines |-> TailLines(bytes, want)]
                              ELSE [kind |-> "not text"])
  /\ UNCHANGED <<log, want, length, position, bytes>>

\* The process exits.
Exit ==
  /\ step = "print"
  /\ step' = "idle" /\ want' = 0
  /\ length' = 0 /\ position' = 0 /\ bytes' = <<>> /\ answer' = None
  /\ UNCHANGED log

Init ==
  /\ log = None
  /\ step = "idle" /\ want = 0
  /\ length = 0 /\ position = 0 /\ bytes = <<>> /\ answer = None

Command == Open \/ Stat \/ ReadChunk \/ Finish \/ Exit
Next == Call \/ Command

(***************************************************************************)
(* Properties                                                              *)
(***************************************************************************)

\* The reference: a line begins at the first byte and after every newline that is
\* not the last byte, and lines are counted from the end.
Begins(s) == {i \in DOMAIN s : i = 1 \/ s[i - 1] = Newline}
Following(s, i) == Cardinality({j \in Begins(s) : j >= i})
LastLines(s, n) ==
  LET shown == Min({n, Cardinality(Begins(s))})
  IN  [k \in 1..shown |->
         StripCR(PieceAt(s, CHOOSE i \in Begins(s) : Following(s, i) = shown - k + 1))]

\* What is printed are the last lines of the file as it was when the command
\* looked at its length, whatever has been appended since.
TailIsExact ==
  answer # None /\ answer.kind = "lines" /\ want > 0 =>
    answer.lines = LastLines(SubSeq(log, 1, length), want)

(* What the documentation says more than the code does. *)

\* Only whole lines of text are ever written, so the log can be tailed: the
\* first chunk, though, may begin inside a character.
LogIsText == answer # None => answer.kind # "not text"

(***************************************************************************)
(* What the proofs need beside them                                        *)
(***************************************************************************)

\* What has been read is a part of the file that does not change any more.
ReadInv ==
  /\ want \in Nat
  /\ step \in {"stat", "read"} => log # None /\ want > 0
  /\ step = "read" =>
       /\ length \in 0..Len(log) /\ position \in 0..length
       /\ bytes = SubSeq(log, position + 1, length)
  /\ answer # None => step = "print"
  /\ answer # None /\ answer.kind = "lines" /\ want > 0 =>
       /\ log # None /\ length \in 0..Len(log)
       /\ answer.lines = LastLines(SubSeq(log, 1, length), want)
================================================================================
