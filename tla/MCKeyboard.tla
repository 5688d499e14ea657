---------------------------- MODULE MCKeyboard ----------------------------
(* Keyboard with two shift keys, control, caps lock, a letter, a key that   *)
(* has no letter, and an arrow key, in a ring of three slots.               *)
EXTENDS Keyboard

Button(code, e) == [code |-> code, ext |-> e]

\* Scan code 30 is 's' in set2_noshift and 'A' in set2_shift; 57 is the space
\* in the shifted table and nothing in the other one.
MCPlainMap == 30 :> 115
MCShiftMap == (30 :> 65) @@ (57 :> 32)
MCExtMap == (117 :> 1) @@ (114 :> 2)

MCKeys == {115, 65, 32, 19, 1, 2}

MCButtons ==
  {Button(30, FALSE), Button(57, FALSE), Button(18, FALSE), Button(20, FALSE),
   Button(88, FALSE), Button(117, TRUE)}
===========================================================================
