------------------------------- MODULE StderrSink -------------------------------
(***************************************************************************)
(* The agent stderr sinks of a server (AgentStderr, src/src/serve.rs).     *)
(* agent_router makes one for each registered agent: the launches of the   *)
(* agent push lines into a bounded queue and never wait, and one writer    *)
(* task prints them to the server's stderr, which for a named server is    *)
(* the log file (src/src/server/client.rs).  Lines that find the queue     *)
(* full are counted, and the count is printed at most once a second.  The  *)
(* writers of a server share its stderr and the lock around it.            *)
(***************************************************************************)
EXTENDS Naturals, Sequences

CONSTANTS
  Agents,     \* the registered agents
  MaxServers, \* bound: servers that append to the log, one after another
  MaxLines,   \* bound: MaxLines[s][a] lines are printed by agent a in the life of server s
  Capacity,   \* STDERR_CHANNEL_CAPACITY
  Text,       \* Text[a][i]: the bytes of the i-th line of agent a
  Prefix,     \* the bytes of "[agent stderr] "
  Warning,    \* the bytes of the report of dropped lines
  Newline,
  None

Ids == Nat \ {0} \* the lines of an agent, in the order in which it prints them

VARIABLES
  log,      \* the bytes of the log file, or None while there is none
  servers,  \* how many servers were started
  alive,    \* the server runs
  (* of each agent *)
  pushed,   \* how many lines it has printed so far
  queue,    \* the channel
  hand,     \* the line the writer is at, or None
  todo,     \* what is left of the eprintln! the writer is in, write by write
  dropped,  \* the counter of lines that found the queue full
  reported, \* reported_drops
  elapsed,  \* a second has passed since last_report
  written,  \* the lines written so far (history)
  told,     \* the number in the last report printed (history)
  due       \* elapsed, when the writer looked last (history)

sinkVars == <<servers, alive, pushed, queue, hand, todo, dropped, reported, elapsed,
              written, told, due>>
vars == <<log, sinkVars>>

\* eprintln! on the unbuffered stderr is one write for each piece of its format.
Lines(text) == <<Prefix, text, <<Newline>>>>

\* start_with opens the log for append; the new server's routers spawn their sinks.
StartServer ==
  /\ ~alive /\ servers < MaxServers
  /\ servers' = servers + 1
  /\ alive' = TRUE
  /\ log' = IF log = None THEN <<>> ELSE log
  /\ UNCHANGED <<pushed, queue, hand, todo, dropped, reported, elapsed, written, told, due>>

\* forward_agent_line and push: try_send, else count.
Push(a) ==
  /\ alive /\ pushed[a] < MaxLines[servers][a]
  /\ pushed' = [pushed EXCEPT ![a] = @ + 1]
  /\ IF Len(queue[a]) < Capacity
     THEN queue' = [queue EXCEPT ![a] = Append(@, pushed[a] + 1)] /\ UNCHANGED dropped
     ELSE dropped' = [dropped EXCEPT ![a] = @ + 1] /\ UNCHANGED queue
  /\ UNCHANGED <<log, servers, alive, hand, todo, reported, elapsed, written, told, due>>

Idle(a) == hand[a] = None /\ todo[a] = <<>>

\* Mutant: the writer leaves its loop after a report.
Mut_Receive(a) ==
  /\ alive /\ Idle(a) /\ queue[a] # <<>> /\ told[a] = 0
  /\ hand' = [hand EXCEPT ![a] = Head(queue[a])]
  /\ queue' = [queue EXCEPT ![a] = Tail(@)]
  /\ todo' = [todo EXCEPT ![a] = Lines(Text[a][Head(queue[a])])]
  /\ UNCHANGED <<log, servers, alive, pushed, dropped, reported, elapsed, written, told, due>>

Receive(a) ==
  /\ alive /\ Idle(a) /\ queue[a] # <<>>
  /\ hand' = [hand EXCEPT ![a] = Head(queue[a])]
  /\ queue' = [queue EXCEPT ![a] = Tail(@)]
  /\ todo' = [todo EXCEPT ![a] = Lines(Text[a][Head(queue[a])])]
  /\ UNCHANGED <<log, servers, alive, pushed, dropped, reported, elapsed, written, told, due>>

\* eprintln! holds the lock of stderr from its first piece to its last.
InPrint(a) == Len(todo[a]) \in 1..2

Write(a) ==
  /\ alive /\ todo[a] # <<>>
  /\ \A b \in Agents \ {a} : ~InPrint(b)
  /\ log' = log \o Head(todo[a])
  /\ todo' = [todo EXCEPT ![a] = Tail(@)]
  /\ IF Tail(todo[a]) = <<>> /\ hand[a] # None
     THEN written' = [written EXCEPT ![a] = Append(@, hand[a])]
     ELSE UNCHANGED written
  /\ UNCHANGED <<servers, alive, pushed, queue, hand, dropped, reported, elapsed, told, due>>

\* Mutant: what is not reported within its second counts as reported.
Mut_Check(a) ==
  /\ alive /\ hand[a] # None /\ todo[a] = <<>>
  /\ hand' = [hand EXCEPT ![a] = None]
  /\ due' = [due EXCEPT ![a] = elapsed[a]]
  /\ reported' = [reported EXCEPT ![a] = dropped[a]]
  /\ IF dropped[a] > reported[a] /\ elapsed[a]
     THEN /\ todo' = [todo EXCEPT ![a] = Lines(Warning)]
          /\ told' = [told EXCEPT ![a] = dropped[a]]
          /\ elapsed' = [elapsed EXCEPT ![a] = FALSE]
     ELSE UNCHANGED <<todo, told, elapsed>>
  /\ UNCHANGED <<log, servers, alive, pushed, queue, dropped, written>>

\* After a line, the drops that were not reported yet, at most once a second.
Check(a) ==
  /\ alive /\ hand[a] # None /\ todo[a] = <<>>
  /\ hand' = [hand EXCEPT ![a] = None]
  /\ due' = [due EXCEPT ![a] = elapsed[a]]
  /\ IF dropped[a] > reported[a] /\ elapsed[a]
     THEN /\ todo' = [todo EXCEPT ![a] = Lines(Warning)]
          /\ told' = [told EXCEPT ![a] = dropped[a]]
          /\ reported' = [reported EXCEPT ![a] = dropped[a]]
          /\ elapsed' = [elapsed EXCEPT ![a] = FALSE]
     ELSE UNCHANGED <<todo, told, reported, elapsed>>
  /\ UNCHANGED <<log, servers, alive, pushed, queue, dropped, written>>

SecondPasses(a) ==
  /\ alive /\ ~elapsed[a]
  /\ elapsed' = [elapsed EXCEPT ![a] = TRUE]
  /\ UNCHANGED <<log, servers, alive, pushed, queue, hand, todo, dropped, reported, written,
                 told, due>>

OfAll(x) == [a \in Agents |-> x]

\* A killed server, or one whose main returns: the writer tasks are just dropped, and
\* what they and the queues held is gone.
ServerEnds ==
  /\ alive
  /\ alive' = FALSE
  /\ pushed' = OfAll(0)
  /\ queue' = OfAll(<<>>) /\ hand' = OfAll(None) /\ todo' = OfAll(<<>>)
  /\ dropped' = OfAll(0) /\ reported' = OfAll(0) /\ elapsed' = OfAll(FALSE)
  /\ written' = OfAll(<<>>) /\ told' = OfAll(0) /\ due' = OfAll(FALSE)
  /\ UNCHANGED <<log, servers>>

Init ==
  /\ log = None /\ servers = 0 /\ alive = FALSE
  /\ pushed = OfAll(0)
  /\ queue = OfAll(<<>>) /\ hand = OfAll(None) /\ todo = OfAll(<<>>)
  /\ dropped = OfAll(0) /\ reported = OfAll(0) /\ elapsed = OfAll(FALSE)
  /\ written = OfAll(<<>>) /\ told = OfAll(0) /\ due = OfAll(FALSE)

Writer(a) == Receive(a) \/ Write(a) \/ Check(a)

Next ==
  \/ StartServer
  \/ \E a \in Agents : Push(a) \/ Writer(a) \/ SecondPasses(a)
  \/ ServerEnds

Spec == Init /\ [][Next]_vars

(***************************************************************************)
(* Properties                                                              *)
(***************************************************************************)

\* No line is lost silently: a report never claims more than was dropped, and while
\* the sink of an agent is quiet every line it printed is in the log or in the last
\* report, unless it was dropped within the second before the last line.
OverflowIsReported ==
  \A a \in Agents :
    /\ told[a] <= dropped[a]
    /\ alive /\ Idle(a) /\ queue[a] = <<>> /\ due[a] =>
         Len(written[a]) + told[a] = pushed[a]

\* Whatever else happens, and although all writers share one stderr, a queued line is
\* written, unless the server ends.
QueueDrains ==
  \A a \in Agents : \A n \in 1..Capacity :
    Len(queue[a]) = n ~> (Len(queue[a]) < n \/ ~alive)

(***************************************************************************)
(* What the proofs need beside them                                        *)
(***************************************************************************)

\* Every variable has its type.
TypeOK ==
  /\ alive \in BOOLEAN /\ elapsed \in [Agents -> BOOLEAN] /\ due \in [Agents -> BOOLEAN]
  /\ pushed \in [Agents -> Nat] /\ dropped \in [Agents -> Nat]
  /\ reported \in [Agents -> Nat] /\ told \in [Agents -> Nat]
  /\ queue \in [Agents -> Seq(Ids)] /\ written \in [Agents -> Seq(Ids)]
  /\ hand \in [Agents -> Ids \cup {None}] /\ DOMAIN todo = Agents

\* The line that the writer is printing.
InHand(a) == IF hand[a] # None /\ todo[a] # <<>> THEN 1 ELSE 0

\* Every line is in the log, in hand, in the queue, or counted.
NoneIsLost(a) == pushed[a] = Len(written[a]) + InHand(a) + Len(queue[a]) + dropped[a]

\* What was reported is what was counted when the writer looked last; more can have been
\* dropped since only when the queue was full, and the writer looks again when it is not.
ReportInv(a) ==
  /\ told[a] = reported[a] /\ told[a] <= dropped[a]
  /\ due[a] /\ hand[a] = None => told[a] = dropped[a] \/ queue[a] # <<>>

SinkInv == TypeOK /\ \A a \in Agents : NoneIsLost(a) /\ ReportInv(a)
================================================================================
