-------------------------------- MODULE ServerLog --------------------------------
(***************************************************************************)
(* A named server's log: the agent stderr sinks of the server append to    *)
(* the file while `server logs` reads it, in another process.              *)
(***************************************************************************)
EXTENDS Naturals, Sequences

CONSTANTS
  Agents, MaxServers, MaxLines, Capacity, Text, Prefix, Warning,
  Bytes, \* what a log consists of
  Wants, ChunkSize, MaxLogTail,
  Newline, CarriageReturn, Lead, Rest, None

VARIABLES
  log,
  servers, alive, pushed, queue, hand, todo, dropped, reported, elapsed, written, told, due,
  step, want, length, position, bytes, answer

Sink == INSTANCE StderrSink
Reader == INSTANCE LogTail

ASSUME LogAssumption ==
  /\ MaxServers \in Nat /\ MaxLines \in [1..MaxServers -> [Agents -> Nat]]
  /\ Capacity \in Nat \ {0} /\ ChunkSize \in Nat \ {0}
  /\ MaxLogTail \in Nat /\ Wants \subseteq Nat
  /\ None \notin Sink!Ids

ASSUME TextAssumption ==
  /\ None \notin Seq(Bytes)
  /\ Newline \in Bytes /\ Prefix \in Seq(Bytes) /\ Warning \in Seq(Bytes)
  /\ \A a \in Agents, n \in 1..MaxServers : \A i \in 1..MaxLines[n][a] : Text[a][i] \in Seq(Bytes)

sinkVars == <<servers, alive, pushed, queue, hand, todo, dropped, reported, elapsed,
              written, told, due>>
tailVars == <<step, want, length, position, bytes, answer>>
vars == <<log, sinkVars, tailVars>>

Init == Sink!Init /\ Reader!Init

Next ==
  \/ Sink!Next /\ UNCHANGED tailVars
  \/ Reader!Next /\ UNCHANGED sinkVars

Writer(a) == Sink!Writer(a) /\ UNCHANGED tailVars

\* The runtime polls every writer task, and the threads take turns at the lock of
\* stderr; nothing makes agents print, seconds pass, servers end or users ask.
Spec == Init /\ [][Next]_vars /\ \A a \in Agents : WF_vars(Writer(a))

(***************************************************************************)
(* The properties of the parts, about the whole.                           *)
(***************************************************************************)

\* Every line an agent printed reaches the log or a report of dropped lines,
\* which is late by a second at most.
OverflowIsReported == Sink!OverflowIsReported

\* A queued line is written unless the server ends.
QueueDrains == Sink!QueueDrains

\* `server logs` prints the last lines of the file as of one moment, although
\* the server goes on writing.
TailIsExact == Reader!TailIsExact

\* README.md:194: "`server logs` tails the daemon's log file."  The first chunk
\* may begin inside a character, and then the command fails.
LogIsText == Reader!LogIsText

(* What the proofs need beside them. *)

SinkInv == Sink!SinkInv

\* The log is a text, and whatever the writer has in hand is going to be one.
TextInv ==
  /\ log \in Seq(Bytes) \cup {None}
  /\ servers \in 0..MaxServers /\ pushed \in [Agents -> Nat]
  /\ DOMAIN queue = Agents /\ DOMAIN todo = Agents
  /\ \A a \in Agents :
       queue[a] \in Seq(1..MaxLines[servers][a]) /\ todo[a] \in Seq(Seq(Bytes))
  /\ IF alive THEN log # None /\ servers > 0
             ELSE \A a \in Agents : queue[a] = <<>> /\ todo[a] = <<>>

TailInv == TextInv /\ Reader!ReadInv
================================================================================
