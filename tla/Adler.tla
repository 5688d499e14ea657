------------------------------- MODULE Adler -------------------------------
(***************************************************************************)
(* The checksum of the blob.  Stage 2's qizo_adler adds the unreduced low   *)
(* sum to the high sum and subtracts the modulus at most once, while zlib   *)
(* (and qizotest.hand_adler) reduce each sum at each byte.  Both run side   *)
(* by side over the same arbitrary bytes.                                   *)
(***************************************************************************)
EXTENDS Integers

CONSTANTS
  Modulus,   \* 65521
  MaxByte    \* 255

ASSUME AdlerAssumption ==
  MaxByte \in Nat \ {0} /\ Modulus \in Nat /\ Modulus > 4 * MaxByte

VARIABLES
  eax, hi,     \* stage 2's sums
  a, b,        \* the reference
  last         \* the byte summed last

sumVars == <<eax, hi, a, b, last>>

SumInit == eax = 1 /\ hi = 0 /\ a = 1 /\ b = 0 /\ last = 0

\* Mutant: the low sum is reduced only when it exceeds the modulus.
MutReduce(x) == IF x <= Modulus THEN x ELSE x - Modulus

\* cmpl, jb, subl
Reduce(x) == IF x < Modulus THEN x ELSE x - Modulus

AddByte(x) ==
  /\ eax' = Reduce(eax + x)
  /\ hi' = Reduce(hi + (eax + x))
  /\ last' = x

RefByte(x) ==
  /\ a' = (a + x) % Modulus
  /\ b' = (b + a') % Modulus

SumNext == \E x \in 0..MaxByte : AddByte(x) /\ RefByte(x)
SumSpec == SumInit /\ [][SumNext]_sumVars

(* Wherever the blob ends, the low sum is right, and the high sum is right  *)
(* or exactly one modulus too large, the latter only after a byte that is   *)
(* not zero.  So a blob with padding is never refused wrongly, and one      *)
(* whose last sector is full may be (stage2.S adler_loop).                  *)
SumIsRight == eax = a /\ (hi = b \/ (hi = b + Modulus /\ last # 0))
===========================================================================
