---------------------------- MODULE RecentList ----------------------------
(***************************************************************************)
(* What a command history promises: the texts remembered most recently, at *)
(* most Capacity of them, oldest first and no two equal.  A text that is   *)
(* already there is not remembered again.                                  *)
(***************************************************************************)
EXTENDS Integers, Sequences

CONSTANTS Texts, Capacity

VARIABLE recent

Init == recent = << >>

Known(w) == \E j \in 1 .. Len(recent) : recent[j] = w

Remember(w) ==
  /\ ~Known(w)
  /\ recent' = Append(IF Len(recent) = Capacity THEN Tail(recent) ELSE recent, w)

Next == \E w \in Texts : Remember(w)

Spec == Init /\ [][Next]_recent
===========================================================================
