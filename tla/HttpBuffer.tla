----------------------------- MODULE HttpBuffer -----------------------------
(* Buffer of the HTTP server (buffer.cpp): cells with two cursors.  A cell  *)
(* is a token of the input or a part of a response, not a byte.             *)
EXTENDS Integers, Sequences

CONSTANT InitBuffSize
ASSUME BufferAssumption == InitBuffSize \in Nat \ {0}

Zeros(n, zero) == [i \in 1 .. n |-> zero]
NewBuffer(zero) ==
  [cells |-> Zeros(InitBuffSize, zero), readPos |-> 0, writePos |-> 0, zero |-> zero]

Readable(b) == SubSeq(b.cells, b.readPos + 1, b.writePos)
Writable(b) == Len(b.cells) - b.writePos

Retrieve(b, len) == [b EXCEPT !.readPos = @ + len]
RetrieveAll(b) ==
  [b EXCEPT !.cells = Zeros(Len(@), b.zero), !.readPos = 0, !.writePos = 0]

(* Grow, or move what is readable to the front.                             *)
MakeSpace(b, len) ==
  IF Writable(b) + b.readPos < len
    THEN [b EXCEPT !.cells = @ \o Zeros(b.writePos + len + 1 - Len(@), b.zero)]
    ELSE LET kept == Readable(b)
         IN [b EXCEPT !.cells = kept \o SubSeq(@, Len(kept) + 1, Len(@)),
                      !.readPos = 0, !.writePos = Len(kept)]

(* The cells from offset at on hold s, the others what they held.           *)
Overlaid(cells, at, s) ==
  [i \in DOMAIN cells |-> IF i \in at + 1 .. at + Len(s) THEN s[i - at] ELSE cells[i]]
AppendTo(b, s) ==
  LET fits == IF Writable(b) < Len(s) THEN MakeSpace(b, Len(s)) ELSE b
  IN [fits EXCEPT !.cells = Overlaid(@, fits.writePos, s), !.writePos = @ + Len(s)]

(* ReadFd: into the room that is left, and what is over by way of the stack. *)
ReadInto(b, s) ==
  LET room == Writable(b)
  IN IF Len(s) <= room THEN AppendTo(b, s)
     ELSE AppendTo(AppendTo(b, SubSeq(s, 1, room)), SubSeq(s, room + 1, Len(s)))
=============================================================================
