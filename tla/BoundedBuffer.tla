--------------------------- MODULE BoundedBuffer ---------------------------
(***************************************************************************)
(* What fiber::channel promises: a first-in first-out buffer that never    *)
(* holds more than Capacity items, with a write and a read that happen at  *)
(* once.                                                                   *)
(***************************************************************************)
EXTENDS Naturals, Sequences

CONSTANTS Items, Capacity

VARIABLE buffer

BufferInit == buffer = <<>>

Write(x) ==
  /\ Len(buffer) < Capacity
  /\ buffer' = Append(buffer, x)

Read ==
  /\ buffer # <<>>
  /\ buffer' = Tail(buffer)

BufferSpec == BufferInit /\ [][(\E x \in Items : Write(x)) \/ Read]_buffer
=============================================================================
