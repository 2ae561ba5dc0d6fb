------------------------------- MODULE Buffer -------------------------------
(***************************************************************************)
(* The buffer a request or response body is kept in (buffer.go): in memory *)
(* up to a limit and in a spill file beyond it, up to a limit on the       *)
(* whole.  A body is a sequence of bytes.                                  *)
(***************************************************************************)
EXTENDS Integers, Sequences

\* memory and disk: what was written to each; created: whether there is a spill
\* file; overflowed: whether something did not fit; closed: whether Close has
\* discarded the spill file.
EmptyBuffer ==
  [memory |-> <<>>, disk |-> <<>>, created |-> FALSE, overflowed |-> FALSE, closed |-> FALSE]

TotalWritten(b) == Len(b.memory) + Len(b.disk)

Outcome(b, e) == [buffer |-> b, error |-> e]

\* writeToDisk, which may fail after a part.
WriteToDisk(b, p) ==
  {Outcome([b EXCEPT !.disk = @ \o p], "none")} \cup
  {Outcome([b EXCEPT !.disk = @ \o SubSeq(p, 1, n)], "disk") : n \in 0..(Len(p) - 1)}

\* Mutant: what is being written is not counted.
Exceeds_WithoutThis(b, p, maxBytes) == maxBytes > 0 /\ TotalWritten(b) > maxBytes

Exceeds(b, p, maxBytes) == maxBytes > 0 /\ TotalWritten(b) + Len(p) > maxBytes

\* createSpill may fail; then memory is filled up and the rest goes to the file.
Spill(b, p, maxMem) ==
  LET room == maxMem - Len(b.memory) IN
  {Outcome(b, "disk")} \cup
  WriteToDisk([b EXCEPT !.created = TRUE, !.memory = @ \o SubSeq(p, 1, room)],
              SubSeq(p, room + 1, Len(p)))

\* Buffer.Write: the outcomes it may have.
Write(b, p, maxBytes, maxMem) ==
  IF Exceeds(b, p, maxBytes) THEN {Outcome([b EXCEPT !.overflowed = TRUE], "toolarge")}
  ELSE IF b.created THEN WriteToDisk(b, p)
  ELSE IF Len(b.memory) + Len(p) <= maxMem
    THEN {Outcome([b EXCEPT !.memory = @ \o p], "none")}
  ELSE Spill(b, p, maxMem)

\* setReader: memory first, then the file from its start.
Contents(b) == b.memory \o b.disk

\* Mutant: the spill file is left behind.
Close_Leaves(b) == b

\* Close and discardSpill
Close(b) == [b EXCEPT !.closed = TRUE, !.disk = <<>>]

SpillFileLeft(b) == b.created /\ ~b.closed

\* What is in memory is within its limit, and all of it within the other.
Bounded(b, maxBytes, maxMem) ==
  /\ Len(b.memory) <= maxMem
  /\ maxBytes > 0 => TotalWritten(b) <= maxBytes
  /\ ~b.created => b.disk = <<>>
=============================================================================
