----------------------------- MODULE KeyQueue -----------------------------
(***************************************************************************)
(* What the keyboard queue promises: a first-in first-out queue of at most *)
(* Capacity keys.  A key that arrives while it is full is lost, and no     *)
(* other key ever is; the reader gets the keys in the order they arrived.  *)
(***************************************************************************)
EXTENDS Integers, Sequences

CONSTANTS Keys, Capacity, NoKey

VARIABLES
  items,   \* the keys not read yet, oldest first
  last     \* the key the reader got last

vars == <<items, last>>

Init == items = << >> /\ last = NoKey

Put(k) ==
  /\ Len(items) < Capacity
  /\ items' = Append(items, k)
  /\ UNCHANGED last

\* Losing a key leaves the queue as it is, which only a full queue may do.
Lose == Len(items) = Capacity /\ UNCHANGED vars

Get ==
  /\ items # << >>
  /\ last' = Head(items)
  /\ items' = Tail(items)

Next == (\E k \in Keys : Put(k)) \/ Lose \/ Get

Spec == Init /\ [][Next]_vars
===========================================================================
