------------------------------ MODULE MCLzss ------------------------------
(* Every payload of at most nine bytes of two values, and payloads of three *)
(* values that fill more than one group of eight items.  The longest blob   *)
(* has three sectors, which the longer streams fill, and the volume behind  *)
(* it a boot sector and an empty one.  The checksum runs over arbitrary     *)
(* bytes, with the empty payload.                                           *)
EXTENDS Lzss, Adler

SeqsOf(S, k) == [1..k -> S]

MCInputs ==
  UNION {SeqsOf({0, 1}, k) : k \in 0..9}
  \cup {<<2, 2, 0, 0, 1, 1>> \o s : s \in SeqsOf({0, 1, 2}, 5)}

MCVolume == <<235, 60, 0, 1, 0, 0, 85, 170>> \o [k \in 1..8 |-> 0]

MCInit == Init /\ SumInit

Sum == src = << >> /\ SumNext /\ UNCHANGED vars
MCDone == pc = "done" /\ src # << >> /\ UNCHANGED <<vars, sumVars>>
MCNext == (LzNext /\ UNCHANGED sumVars) \/ Sum \/ MCDone

MCSpec == MCInit /\ [][MCNext]_<<vars, sumVars>> /\ WF_<<vars, sumVars>>(LzNext /\ UNCHANGED sumVars)
===========================================================================
