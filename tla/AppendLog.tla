-------------------------------- MODULE AppendLog --------------------------------
(***************************************************************************)
(* What the install log promises to whoever reads it by its path: it grows *)
(* at its end by (at least the beginning of) one line at a time, and now   *)
(* and then forgets its oldest lines and says so in a header.  What is left *)
(* begins with a whole line, unless it is the beginning of one line.       *)
(***************************************************************************)
EXTENDS Naturals, Sequences

CONSTANTS
  Lines,     \* the lines that are written, as sequences of bytes
  Header,    \* the line that says that lines were forgotten
  Ends(_),   \* the byte is a newline
  TailBytes, \* how many bytes survive at most
  None

VARIABLE log \* the bytes, or None while there is no file

Create == log = None /\ log' = <<>>

Grow == \E l \in Lines : \E k \in 1..Len(l) : log' = log \o SubSeq(l, 1, k)

Forget ==
  \E n \in 1..Len(log) :
    /\ Ends(log[n]) \/ \A m \in (n + 1)..Len(log) : ~Ends(log[m])
    /\ Len(log) - n <= TailBytes
    /\ log' = Header \o SubSeq(log, n + 1, Len(log))

Init == log = None
Next == Create \/ (log # None /\ (Grow \/ Forget))
Spec == Init /\ [][Next]_log
================================================================================
