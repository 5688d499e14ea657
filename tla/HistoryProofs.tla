--------------------------- MODULE HistoryProofs ---------------------------
(***************************************************************************)
(* The history ring of shell.c implements the list of recent texts, for    *)
(* every ring size, and hist_at stays inside the window of its entries.    *)
(***************************************************************************)
EXTENDS Shell, KernelLemmas, SequenceTheorems, TLAPS

HistInv ==
  /\ hist \in [Ring -> Texts \cup {NoText}]
  /\ hist_count \in Nat /\ hist_at \in Nat
  /\ HistAtInWindow

LEMMA FirstFacts ==
  ASSUME hist_count \in Nat
  PROVE  /\ HistFirst \in Nat /\ HistFirst <= hist_count
         /\ hist_count - HistFirst <= HIST_MAX
  BY HistoryAssumption DEF HistFirst

LEMMA SlotInRing ==
  ASSUME NEW k \in Nat
  PROVE  k % HIST_MAX \in Ring
  BY HistoryAssumption, DivMod DEF Ring

LEMMA HistStep ==
  ASSUME HistInv, [HistNext]_histVars
  PROVE  HistInv'
<1> USE HistoryAssumption DEF HistInv, HistAtInWindow, HistFirst
<1>1. ASSUME NEW w \in Texts, Remember(w) PROVE HistInv'
  <2>1. hist_count % HIST_MAX \in Ring
    BY SlotInRing
  <2> QED
    BY <1>1, <2>1 DEF Remember
<1>2. CASE Older
  BY <1>2 DEF Older
<1>3. CASE Newer
  BY <1>3 DEF Newer
<1>4. CASE UNCHANGED histVars
  BY <1>4 DEF histVars
<1> QED
  BY <1>1, <1>2, <1>3, <1>4 DEF HistNext

\* The invariant is inductive.
THEOREM HistInvariant == HistSpec => []HistInv
<1>1. HistInit => HistInv
  BY HistoryAssumption DEF HistInit, HistInv, HistAtInWindow, HistFirst
<1>2. HistInv /\ [HistNext]_histVars => HistInv'
  BY HistStep
<1> QED
  BY <1>1, <1>2, PTL DEF HistSpec

\* hist_at never leaves the window of the remembered entries, so recall's
\* unsigned subtraction of hist_first never wraps.
THEOREM RecallInWindow == HistSpec => []HistAtInWindow
<1>1. HistInv => HistAtInWindow
  BY DEF HistInv
<1> QED
  BY <1>1, HistInvariant, PTL

LEMMA RecentFacts ==
  ASSUME HistInv
  PROVE  /\ Recent \in Seq(Texts \cup {NoText})
         /\ Len(Recent) = hist_count - HistFirst
         /\ \A j \in 1 .. hist_count - HistFirst :
              Recent[j] = hist[(HistFirst + j - 1) % HIST_MAX]
<1>1. HistFirst \in Nat /\ HistFirst <= hist_count /\ hist_count \in Nat
  BY FirstFacts DEF HistInv
<1>2. \A j \in 1 .. hist_count - HistFirst :
         hist[(HistFirst + j - 1) % HIST_MAX] \in Texts \cup {NoText}
  <2> TAKE j \in 1 .. hist_count - HistFirst
  <2>1. HistFirst + j - 1 \in Nat
    BY <1>1
  <2> QED
    BY <2>1, SlotInRing DEF HistInv
<1> QED
  BY <1>1, <1>2 DEF Recent

\* A text that the search of push_history does not find is unknown to the
\* list, and the slot it is written to holds the entry that leaves the window.
LEMMA RememberRefines ==
  ASSUME HistInv, NEW w \in Texts, Remember(w), ~Known(w), HistInv'
  PROVE  Abstract!Remember(w)
<1> USE HistoryAssumption
<1> DEFINE f == HistFirst
           n == hist_count - f
<1>1. /\ hist_count \in Nat /\ f \in Nat /\ f <= hist_count /\ n \in Nat /\ n <= HIST_MAX
  BY FirstFacts DEF HistInv
<1>2. /\ hist' = [hist EXCEPT ![hist_count % HIST_MAX] = w]
      /\ hist_count' = hist_count + 1
  BY DEF Remember
<1>3. hist_count % HIST_MAX \in Ring /\ hist \in [Ring -> Texts \cup {NoText}]
  BY <1>1, SlotInRing DEF HistInv
<1>4. ASSUME NEW k \in Nat, f <= k, k < hist_count, k + HIST_MAX # hist_count
      PROVE  hist'[k % HIST_MAX] = hist[k % HIST_MAX]
  <2>1. hist_count < k + HIST_MAX
    BY <1>1, <1>4
  <2>2. k % HIST_MAX # hist_count % HIST_MAX
    BY <1>1, <1>4, <2>1, ModDistinct
  <2> QED
    BY <1>2, <1>3, <1>4, <2>2, SlotInRing
<1>5. /\ Recent \in Seq(Texts \cup {NoText}) /\ Len(Recent) = n
      /\ \A j \in 1 .. n : Recent[j] = hist[(f + j - 1) % HIST_MAX]
  BY RecentFacts
<1>6. ~Abstract!Known(w)
  <2> SUFFICES ASSUME NEW j \in 1 .. Len(Recent), Recent[j] = w PROVE FALSE
    BY DEF Abstract!Known
  <2>1. f + j - 1 \in f .. hist_count - 1 /\ hist[(f + j - 1) % HIST_MAX] = w
    BY <1>1, <1>5
  <2> QED
    BY <2>1 DEF Known
<1>7. CASE hist_count < HIST_MAX
  <2>1. f = 0 /\ f' = 0 /\ n = hist_count
    BY <1>1, <1>2, <1>7 DEF HistFirst
  <2>2. Recent' = [j \in 1 .. hist_count + 1 |-> hist'[(j - 1) % HIST_MAX]]
    BY <1>1, <1>2, <2>1 DEF Recent
  <2>3. ASSUME NEW j \in 1 .. hist_count
        PROVE  hist'[(j - 1) % HIST_MAX] = Recent[j]
    <3>1. j - 1 \in Nat /\ f <= j - 1 /\ j - 1 < hist_count /\ j - 1 + HIST_MAX # hist_count
      BY <1>1, <1>7, <2>1
    <3>2. hist'[(j - 1) % HIST_MAX] = hist[(j - 1) % HIST_MAX]
      BY <3>1, <1>4
    <3> QED
      BY <3>2, <1>5, <2>1
  <2>4. hist'[(hist_count + 1 - 1) % HIST_MAX] = w
    BY <1>1, <1>2, <1>3
  <2>5. Append(Recent, w) =
          [j \in 1 .. hist_count + 1 |-> IF j = hist_count + 1 THEN w ELSE Recent[j]]
    <3>1. w \in Texts \cup {NoText} /\ Recent \in Seq(Texts \cup {NoText})
          /\ Len(Recent) = hist_count
      BY <1>5, <2>1
    <3> QED
      BY ONLY <3>1, AppendFacts
  <2>6. Recent' = Append(Recent, w)
    BY <1>1, <2>2, <2>3, <2>4, <2>5
  <2>7. Len(Recent) # HIST_MAX
    BY <1>5, <1>7, <2>1
  <2> QED
    BY <1>6, <2>6, <2>7 DEF Abstract!Remember
<1>8. CASE hist_count >= HIST_MAX
  <2>1. f = hist_count - HIST_MAX /\ f' = f + 1 /\ n = HIST_MAX
    BY <1>1, <1>2, <1>8 DEF HistFirst
  <2>2. Recent' = [j \in 1 .. HIST_MAX |-> hist'[(f + j) % HIST_MAX]]
    BY <1>1, <1>2, <2>1 DEF Recent
  <2>3. ASSUME NEW j \in 1 .. HIST_MAX - 1
        PROVE  hist'[(f + j) % HIST_MAX] = Recent[j + 1]
    <3>1. f + j \in Nat /\ f <= f + j /\ f + j < hist_count /\ f + j + HIST_MAX # hist_count
      BY <1>1, <2>1
    <3>2. hist'[(f + j) % HIST_MAX] = hist[(f + j) % HIST_MAX]
      BY <3>1, <1>4
    <3>3. j + 1 \in 1 .. n /\ f + (j + 1) - 1 = f + j
      BY <1>1, <2>1
    <3> QED
      BY <3>2, <3>3, <1>5
  <2>4. hist'[(f + HIST_MAX) % HIST_MAX] = w
    BY <1>1, <1>2, <1>3, <2>1
  <2>5. Append(Tail(Recent), w) =
          [j \in 1 .. HIST_MAX |-> IF j = HIST_MAX THEN w ELSE Recent[j + 1]]
    <3> DEFINE t == Tail(Recent)
    <3>1. Recent # << >>
      BY <1>5, <2>1
    <3>2. t = [j \in 1 .. HIST_MAX - 1 |-> Recent[j + 1]]
      BY <1>5, <2>1, <3>1, TailFacts
    <3>3. t \in Seq(Texts \cup {NoText}) /\ Len(t) = HIST_MAX - 1
      BY <1>5, <2>1, <3>1
    <3> HIDE DEF t
    <3>4. Append(t, w) = [j \in 1 .. HIST_MAX |-> IF j = HIST_MAX THEN w ELSE t[j]]
      BY <3>3, AppendFacts
    <3> QED
      BY <3>2, <3>4 DEF t
  <2>6. Recent' = Append(Tail(Recent), w)
    <3>1. ASSUME NEW j \in 1 .. HIST_MAX
          PROVE  hist'[(f + j) % HIST_MAX] = IF j = HIST_MAX THEN w ELSE Recent[j + 1]
      BY <2>3, <2>4
    <3> QED
      BY <2>2, <2>5, <3>1
  <2> QED
    BY <1>5, <1>6, <2>1, <2>6 DEF Abstract!Remember
<1> QED
  BY <1>1, <1>7, <1>8

\* The history ring implements the list of the HIST_MAX most recent distinct
\* texts: push_history's ring arithmetic loses, repeats and reorders nothing.
THEOREM RingRefinesRecent == HistSpec => RingIsRecent
<1> USE HistoryAssumption
<1>1. HistInit => Abstract!Init
  BY DEF HistInit, Abstract!Init, Recent, HistFirst
<1>2. HistInv /\ HistInv' /\ [HistNext]_histVars => [Abstract!Next]_Recent
  <2> SUFFICES ASSUME HistInv, HistInv', [HistNext]_histVars
               PROVE  [Abstract!Next]_Recent
    OBVIOUS
  <2>1. ASSUME UNCHANGED <<hist, hist_count>> PROVE UNCHANGED Recent
    BY <2>1 DEF Recent, HistFirst
  <2>2. ASSUME NEW w \in Texts, Remember(w) PROVE [Abstract!Next]_Recent
    <3>1. CASE Known(w)
      BY <2>1, <2>2, <3>1 DEF Remember
    <3>2. CASE ~Known(w)
      BY <2>2, <3>2, RememberRefines DEF Abstract!Next
    <3> QED
      BY <3>1, <3>2
  <2>3. CASE Older
    BY <2>1, <2>3 DEF Older
  <2>4. CASE Newer
    BY <2>1, <2>4 DEF Newer
  <2>5. CASE UNCHANGED histVars
    BY <2>1, <2>5 DEF histVars
  <2> QED
    BY <2>2, <2>3, <2>4, <2>5 DEF HistNext
<1> QED
  BY <1>1, <1>2, HistInvariant, PTL DEF HistSpec, RingIsRecent, Abstract!Spec

---------------------------------------------------------------------------
(* Texts.                                                                  *)

LEMMA LimitFacts == LINE_MAX \in Nat /\ LINE_MAX > 0 /\ MaxHist \in Nat
  BY ShellAssumption

\* A text is a sequence of letters that leaves room for its terminator.
LEMMA TextFacts ==
  ASSUME NEW s
  PROVE  s \in Texts <=> s \in Seq(Letters) /\ Len(s) < LINE_MAX
<1>0. LINE_MAX \in Nat /\ LINE_MAX > 0 /\ Texts = BoundedSeq(Letters, LINE_MAX - 1)
  BY ShellAssumption
<1>1. ASSUME s \in Texts PROVE s \in Seq(Letters) /\ Len(s) < LINE_MAX
  <2>1. PICK m \in 0 .. LINE_MAX - 1 : s \in [1 .. m -> Letters]
    BY <1>0, <1>1 DEF BoundedSeq, SeqOf
  <2> QED
    BY ONLY <1>0, <2>1
<1>2. ASSUME s \in Seq(Letters), Len(s) < LINE_MAX PROVE s \in Texts
  <2>1. Len(s) \in 0 .. LINE_MAX - 1 /\ s \in [1 .. Len(s) -> Letters]
    BY ONLY <1>0, <1>2
  <2> QED
    BY <1>0, <2>1 DEF BoundedSeq, SeqOf
<1> QED
  BY <1>1, <1>2

LEMMA KeepFacts ==
  ASSUME NEW s \in Seq(Letters), NEW k \in 0 .. Len(s)
  PROVE  /\ Keep(s, k) \in Seq(Letters) /\ Len(Keep(s, k)) = k
         /\ \A j \in 1 .. k : Keep(s, k)[j] = s[j]
  BY DEF Keep

LEMMA KeepKeep ==
  ASSUME NEW s \in Seq(Letters), NEW k \in 0 .. Len(s), NEW j \in 0 .. k
  PROVE  Keep(Keep(s, k), j) = Keep(s, j)
  BY DEF Keep

LEMMA KeepAll ==
  ASSUME NEW s \in Seq(Letters)
  PROVE  Keep(s, Len(s)) = s
  BY DEF Keep

LEMMA AppendLetter ==
  ASSUME NEW s \in Seq(Letters), NEW ch \in Letters
  PROVE  /\ Append(s, ch) \in Seq(Letters) /\ Len(Append(s, ch)) = Len(s) + 1 /\ Len(s) \in Nat
         /\ Append(s, ch)[Len(s) + 1] = ch
         /\ \A k \in 1 .. Len(s) : Append(s, ch)[k] = s[k]
  OBVIOUS

\* erase_word stays inside the line.
LEMMA EraseFacts ==
  ASSUME NEW s \in Seq(Letters)
  PROVE  Len(EraseWord(s)) \in 0 .. Len(s)
<1>1. ASSUME NEW t \in Seq(Letters)
      PROVE  SelectLastInSeq(t, NotBlank) \in 0 .. Len(t)
  <2> DEFINE S == {i \in 1 .. Len(t) : NotBlank(t[i])}
  <2>1. S \in SUBSET Nat /\ (\A x \in S : x <= Len(t)) /\ Len(t) \in Nat
    OBVIOUS
  <2>2. S # {} => Max(S) \in S
    <3> SUFFICES ASSUME S # {} PROVE Max(S) \in S
      OBVIOUS
    <3>1. PICK m \in S : \A x \in S : x <= m
      BY <2>1, NatMax
    <3> QED
      BY <3>1 DEF Max
  <2> QED
    BY <2>1, <2>2 DEF SelectLastInSeq
<1>2. ASSUME NEW t \in Seq(Letters)
      PROVE  SelectLastInSeq(t, IsBlank) \in 0 .. Len(t)
  <2> DEFINE S == {i \in 1 .. Len(t) : IsBlank(t[i])}
  <2>1. S \in SUBSET Nat /\ (\A x \in S : x <= Len(t)) /\ Len(t) \in Nat
    OBVIOUS
  <2>2. S # {} => Max(S) \in S
    <3> SUFFICES ASSUME S # {} PROVE Max(S) \in S
      OBVIOUS
    <3>1. PICK m \in S : \A x \in S : x <= m
      BY <2>1, NatMax
    <3> QED
      BY <3>1 DEF Max
  <2> QED
    BY <2>1, <2>2 DEF SelectLastInSeq
<1> DEFINE k == SelectLastInSeq(s, NotBlank)
           t == Keep(s, k)
           l == SelectLastInSeq(t, IsBlank)
<1>3. k \in 0 .. Len(s)
  BY <1>1
<1> HIDE DEF k
<1>4. t \in Seq(Letters) /\ Len(t) = k
  BY <1>3, KeepFacts
<1> HIDE DEF t
<1>5. l \in 0 .. Len(t)
  BY <1>2, <1>4
<1> HIDE DEF l
<1>6. Len(Keep(t, l)) = l
  BY <1>4, <1>5, KeepFacts
<1>7. EraseWord(s) = Keep(t, l)
  BY DEF EraseWord, t, l, k
<1> QED
  BY <1>3, <1>4, <1>5, <1>6, <1>7

\* What push_history is given is a text like the line.
LEMMA FirstWordFacts ==
  ASSUME NEW s \in Texts
  PROVE  FirstWord(s) \in Texts
<1>0. s \in Seq(Letters) /\ Len(s) < LINE_MAX /\ Len(s) \in Nat
  BY TextFacts
<1> DEFINE S == {i \in 1 .. Len(s) : NotBlank(s[i])}
           start == SelectInSeq(s, NotBlank)
           E == {i \in start .. Len(s) : IsBlank(s[i])}
           end == SelectInSubSeq(s, start, Len(s), IsBlank)
<1>1. start = (IF S # {} THEN Min(S) ELSE 0) /\ end = (IF E # {} THEN Min(E) ELSE 0)
  BY DEF SelectInSeq, SelectInSubSeq
<1>2. S # {} => Min(S) \in S
  <2> SUFFICES ASSUME S # {} PROVE Min(S) \in S
    OBVIOUS
  <2>1. PICK m \in S : \A x \in S : m <= x
    <3>1. S \in SUBSET Nat
      BY <1>0
    <3> QED
      BY <3>1, NatMin
  <2> QED
    BY <2>1 DEF Min
<1>3. start \in 0 .. Len(s)
  BY <1>0, <1>1, <1>2
<1>4. E # {} => Min(E) \in E
  <2> SUFFICES ASSUME E # {} PROVE Min(E) \in E
    OBVIOUS
  <2>1. E \in SUBSET Nat
    BY <1>0, <1>3
  <2>2. PICK m \in E : \A x \in E : m <= x
    BY <2>1, NatMin
  <2> QED
    BY <2>2 DEF Min
<1>5. end \in 0 .. Len(s)
  <2>1. start \in Nat /\ (E # {} => Min(E) \in start .. Len(s))
    BY <1>0, <1>3, <1>4
  <2> HIDE DEF start, end, E
  <2> QED
    BY <1>0, <1>1, <2>1
<1>6. FirstWord(s) = IF start = 0 THEN << >> ELSE IF end = 0 THEN s ELSE Keep(s, end - 1)
  BY DEF FirstWord
<1> HIDE DEF start, end
<1>7. end # 0 => Keep(s, end - 1) \in Seq(Letters) /\ Len(Keep(s, end - 1)) < LINE_MAX
  <2> SUFFICES ASSUME end # 0
               PROVE  Keep(s, end - 1) \in Seq(Letters) /\ Len(Keep(s, end - 1)) < LINE_MAX
    OBVIOUS
  <2>1. end - 1 \in 0 .. Len(s)
    BY <1>0, <1>5
  <2>2. Keep(s, end - 1) \in Seq(Letters) /\ Len(Keep(s, end - 1)) = end - 1
    BY <1>0, <2>1, KeepFacts
  <2>3. LINE_MAX \in Nat
    BY ShellAssumption
  <2> QED
    BY <1>0, <1>5, <2>2, <2>3
<1>8. << >> \in Seq(Letters) /\ Len(<< >>) < LINE_MAX
  <2>1. LINE_MAX \in Nat /\ LINE_MAX > 0
    BY ShellAssumption
  <2> QED
    BY ONLY <2>1
<1> QED
  BY <1>0, <1>6, <1>7, <1>8, TextFacts

---------------------------------------------------------------------------
(* The loop of complete.  LcpOf says what best holds after i names; it is  *)
(* shown to satisfy the recursion, and the recursion to have one solution. *)

Table == 1 .. Len(Names)

\* The names of M agree in their first k characters.
Agree(M, k) ==
  \A i \in M : k <= Len(Names[i]) /\ \A j \in M : Keep(Names[i], k) = Keep(Names[j], k)

Depth(M) == CHOOSE k \in Nat : Agree(M, k) /\ ~Agree(M, k + 1)

Before(s, i) == Matches(s) \cap 1 .. i

LcpOf(s, i) ==
  IF Before(s, i) = {} THEN << >>
  ELSE Keep(Names[CHOOSE j \in Before(s, i) : TRUE], Depth(Before(s, i)))

LEMMA NameFacts ==
  /\ Len(Names) \in Nat
  /\ \A i \in Table : Names[i] \in Seq(Letters) /\ Len(Names[i]) \in Nat
                      /\ Len(Names[i]) + 1 < LINE_MAX
<1>1. Names \in Seq(Seq(Letters)) /\ \A i \in 1 .. Len(Names) : Len(Names[i]) + 1 < LINE_MAX
  BY ShellAssumption
<1> QED
  BY ONLY <1>1 DEF Table

LEMMA AgreeDown ==
  ASSUME NEW M \in SUBSET Table, NEW k \in Nat, Agree(M, k), NEW l \in 0 .. k
  PROVE  Agree(M, l)
<1> SUFFICES ASSUME NEW i \in M
             PROVE  l <= Len(Names[i]) /\ \A j \in M : Keep(Names[i], l) = Keep(Names[j], l)
  BY DEF Agree
<1>1. Names[i] \in Seq(Letters) /\ Len(Names[i]) \in Nat /\ k <= Len(Names[i])
  BY NameFacts DEF Agree
<1>2. l <= Len(Names[i])
  BY <1>1
<1>3. ASSUME NEW j \in M PROVE Keep(Names[i], l) = Keep(Names[j], l)
  <2>1. Names[j] \in Seq(Letters) /\ Len(Names[j]) \in Nat /\ k <= Len(Names[j])
    BY NameFacts DEF Agree
  <2>2. Keep(Names[i], k) = Keep(Names[j], k)
    BY DEF Agree
  <2>3. k \in 0 .. Len(Names[i]) /\ k \in 0 .. Len(Names[j])
    BY <1>1, <2>1
  <2>4. Keep(Keep(Names[i], k), l) = Keep(Names[i], l)
    BY <1>1, <2>3, KeepKeep
  <2>5. Keep(Keep(Names[j], k), l) = Keep(Names[j], l)
    BY <2>1, <2>3, KeepKeep
  <2> QED
    BY <2>2, <2>4, <2>5
<1> QED
  BY <1>2, <1>3

LEMMA DepthFacts ==
  ASSUME NEW M \in SUBSET Table, M # {}
  PROVE  Depth(M) \in Nat /\ \A k \in Nat : Agree(M, k) <=> k <= Depth(M)
<1> DEFINE T == {k \in Nat : Agree(M, k)}
<1>1. PICK i \in M : TRUE
  OBVIOUS
<1>2. Len(Names[i]) \in Nat /\ \A k \in T : k <= Len(Names[i])
  BY NameFacts DEF Agree
<1>3. 0 \in T
  <2> SUFFICES ASSUME NEW a \in M, NEW b \in M
               PROVE  0 <= Len(Names[a]) /\ Keep(Names[a], 0) = Keep(Names[b], 0)
    BY DEF Agree
  <2>1. Names[a] \in Seq(Letters) /\ Names[b] \in Seq(Letters)
        /\ Len(Names[a]) \in Nat /\ Len(Names[b]) \in Nat
    BY NameFacts
  <2> QED
    BY <2>1 DEF Keep
<1>4. PICK d \in T : \A k \in T : k <= d
  <2>1. T \in SUBSET Nat /\ T # {}
    BY <1>3
  <2> HIDE DEF T
  <2> QED
    BY <1>2, <2>1, NatMax
<1>5. d \in Nat /\ Agree(M, d) /\ ~Agree(M, d + 1)
  BY <1>4
<1>6. Depth(M) \in Nat /\ Agree(M, Depth(M)) /\ ~Agree(M, Depth(M) + 1)
  BY <1>5 DEF Depth
<1>7. ASSUME NEW k \in Nat PROVE Agree(M, k) <=> k <= Depth(M)
  <2>1. ASSUME Agree(M, k) PROVE k <= Depth(M)
    <3> SUFFICES ASSUME ~(k <= Depth(M)) PROVE FALSE
      OBVIOUS
    <3>1. Depth(M) + 1 \in 0 .. k
      BY <1>6
    <3> QED
      BY <1>6, <2>1, <3>1, AgreeDown
  <2>2. ASSUME k <= Depth(M) PROVE Agree(M, k)
    <3>1. k \in 0 .. Depth(M)
      BY <1>6, <2>2
    <3> QED
      BY <1>6, <3>1, AgreeDown
  <2> QED
    BY <2>1, <2>2
<1> QED
  BY <1>6, <1>7

\* The inner loop stops at the first difference.
LEMMA SharedFacts ==
  ASSUME NEW m \in Seq(Letters), NEW n \in Seq(Letters)
  PROVE  \E d \in 0 .. Len(m) :
           /\ Shared(m, n) = Keep(m, d)
           /\ \A k \in Nat : k <= d <=> k <= Len(m) /\ k <= Len(n) /\ Keep(m, k) = Keep(n, k)
<1> DEFINE same(k) == k <= Len(m) /\ k <= Len(n) /\ Keep(m, k) = Keep(n, k)
           T == {k \in Nat : same(k)}
           c == CHOOSE k \in 0 .. Len(m) : same(k) /\ ~same(k + 1)
<1>1. Len(m) \in Nat /\ Len(n) \in Nat
  OBVIOUS
<1>2. same(0)
  BY <1>1 DEF Keep
<1>3. PICK d \in T : \A k \in T : k <= d
  <2>1. T \in SUBSET Nat /\ T # {} /\ \A k \in T : k <= Len(m)
    BY <1>2
  <2> HIDE DEF T
  <2> QED
    BY <1>1, <2>1, NatMax
<1>4. d \in 0 .. Len(m) /\ same(d) /\ ~same(d + 1)
  BY <1>1, <1>3
<1>5. c \in 0 .. Len(m) /\ same(c) /\ ~same(c + 1)
  <2> HIDE DEF same
  <2> QED
    BY <1>4
<1>6. Shared(m, n) = Keep(m, c)
  BY Zenon DEF Shared
<1>7. ASSUME NEW k \in Nat, same(k), NEW l \in 0 .. k PROVE same(l)
  <2>1. k \in 0 .. Len(m) /\ k \in 0 .. Len(n) /\ l <= Len(m) /\ l <= Len(n)
    BY <1>1, <1>7
  <2>2. Keep(Keep(m, k), l) = Keep(m, l) /\ Keep(Keep(n, k), l) = Keep(n, l)
    BY <2>1, KeepKeep
  <2> QED
    BY <1>7, <2>1, <2>2
<1>8. ASSUME NEW k \in Nat PROVE k <= c <=> same(k)
  <2> HIDE DEF same, c
  <2>1. ASSUME k <= c PROVE same(k)
    <3>1. k \in 0 .. c /\ c \in Nat
      BY <1>1, <1>5, <2>1
    <3> QED
      BY <1>5, <1>7, <3>1
  <2>2. ASSUME same(k) PROVE k <= c
    <3> SUFFICES ASSUME ~(k <= c) PROVE FALSE
      OBVIOUS
    <3>1. c + 1 \in 0 .. k
      BY <1>1, <1>5
    <3> QED
      BY <1>5, <1>7, <2>2, <3>1
  <2> QED
    BY <2>1, <2>2
<1> HIDE DEF c
<1> QED
  BY <1>5, <1>6, <1>8

\* One more match cuts best to what all of them share.
LEMMA LcpStep ==
  ASSUME NEW s, NEW i \in Table, i \in Matches(s), Before(s, i - 1) # {}
  PROVE  Shared(LcpOf(s, i - 1), Names[i]) = LcpOf(s, i)
<1> DEFINE M == Before(s, i - 1)
           N == Before(s, i)
           j == CHOOSE x \in M : TRUE
           l == CHOOSE x \in N : TRUE
           b == Keep(Names[j], Depth(M))
<1>1. i \in Nat /\ i > 0 /\ Len(Names) \in Nat
  BY NameFacts DEF Table
<1>2. M \in SUBSET Table /\ N \in SUBSET Table /\ N = M \cup {i} /\ N # {}
  BY <1>1 DEF Before, Table, Matches
<1>3. j \in M /\ l \in N /\ j \in N
  BY <1>2
<1>4. LcpOf(s, i - 1) = b /\ LcpOf(s, i) = Keep(Names[l], Depth(N))
  BY <1>2 DEF LcpOf
<1> HIDE DEF M, N, j, l
<1>5. Depth(M) \in Nat /\ \A k \in Nat : Agree(M, k) <=> k <= Depth(M)
  BY <1>2, <1>3, DepthFacts
<1>6. Depth(N) \in Nat /\ \A k \in Nat : Agree(N, k) <=> k <= Depth(N)
  BY <1>2, DepthFacts
<1>7. /\ Names[j] \in Seq(Letters) /\ Len(Names[j]) \in Nat
      /\ Names[i] \in Seq(Letters) /\ Len(Names[i]) \in Nat
  BY <1>2, <1>3, NameFacts
<1>8. Depth(M) \in 0 .. Len(Names[j])
  <2>1. Agree(M, Depth(M))
    BY <1>5
  <2> QED
    BY <1>3, <1>5, <1>7, <2>1 DEF Agree
<1>9. b \in Seq(Letters) /\ Len(b) = Depth(M)
  BY <1>7, <1>8, KeepFacts
<1>10. \A k \in 0 .. Depth(M) : Keep(b, k) = Keep(Names[j], k)
  BY <1>7, <1>8, KeepKeep
<1> HIDE DEF b
<1>11. PICK d \in 0 .. Len(b) :
         /\ Shared(b, Names[i]) = Keep(b, d)
         /\ \A k \in Nat : k <= d <=> k <= Len(b) /\ k <= Len(Names[i]) /\ Keep(b, k) = Keep(Names[i], k)
  BY <1>7, <1>9, SharedFacts
<1>12. ASSUME NEW k \in Nat PROVE Agree(N, k) <=> k <= d
  <2>1. ASSUME Agree(N, k) PROVE k <= d
    <3>1. Agree(M, k) /\ k <= Len(Names[i]) /\ Keep(Names[j], k) = Keep(Names[i], k)
      BY <1>2, <1>3, <2>1 DEF Agree
    <3>2. k \in 0 .. Depth(M)
      BY <1>5, <3>1
    <3> QED
      BY <1>5, <1>9, <1>10, <1>11, <3>1, <3>2
  <2>2. ASSUME k <= d PROVE Agree(N, k)
    <3>1. k <= Depth(M) /\ k <= Len(Names[i]) /\ Keep(b, k) = Keep(Names[i], k)
      BY <1>9, <1>11, <2>2
    <3>2. Agree(M, k) /\ Keep(Names[j], k) = Keep(Names[i], k)
      BY <1>5, <1>10, <3>1
    <3>3. \A a \in M : k <= Len(Names[a]) /\ Keep(Names[a], k) = Keep(Names[j], k)
      BY <1>3, <3>2 DEF Agree
    <3>4. \A a \in N : k <= Len(Names[a]) /\ Keep(Names[a], k) = Keep(Names[i], k)
      BY <1>2, <3>1, <3>2, <3>3
    <3> QED
      BY <3>4, Zenon DEF Agree
  <2> QED
    BY <2>1, <2>2
<1>13. d \in Nat /\ d = Depth(N)
  <2>1. d \in Nat
    BY <1>5, <1>9
  <2>2. d <= Depth(N)
    BY <1>6, <1>12, <2>1
  <2>3. Depth(N) <= d
    BY <1>6, <1>12, <2>1
  <2> QED
    BY <1>6, <2>1, <2>2, <2>3
<1>14. Keep(b, d) = Keep(Names[j], d)
  BY <1>5, <1>9, <1>10, <1>11
<1>15. Keep(Names[j], d) = Keep(Names[l], d)
  <2>1. Agree(N, d)
    BY <1>12, <1>13
  <2> QED
    BY <1>3, <2>1 DEF Agree
<1> QED
  BY <1>4, <1>11, <1>13, <1>14, <1>15

\* The recursion has this solution and no other.
LEMMA BestIsLcp ==
  ASSUME NEW s
  PROVE  Best(s) = LcpOf(s, Len(Names))
<1> DEFINE L == Len(Names)
           Step(g, i) == IF i = 0 THEN << >>
                         ELSE IF i \notin Matches(s) THEN g[i - 1]
                         ELSE IF Matches(s) \cap 1 .. i - 1 = {} THEN Names[i]
                         ELSE Shared(g[i - 1], Names[i])
           Rec(g) == [i \in 0 .. L |-> Step(g, i)]
           best == CHOOSE g : g = Rec(g)
           f == [i \in 0 .. L |-> LcpOf(s, i)]
<1>1. Best(s) = best[L]
  BY Zenon DEF Best
<1>2. L \in Nat
  BY NameFacts
<1>3. LcpOf(s, 0) = << >>
  BY DEF LcpOf, Before
<1> HIDE DEF L
<1>4. ASSUME NEW g, NEW i \in 1 .. L, g[i - 1] = LcpOf(s, i - 1)
      PROVE  Step(g, i) = LcpOf(s, i)
  <2>1. i \in Nat /\ i # 0 /\ i \in Table
    BY <1>2 DEF L, Table
  <2>2. CASE i \notin Matches(s)
    <3>1. Before(s, i) = Before(s, i - 1)
      BY <2>1, <2>2 DEF Before
    <3>2. LcpOf(s, i) = LcpOf(s, i - 1)
      BY <3>1 DEF LcpOf
    <3> QED
      BY <1>4, <2>1, <2>2, <3>2
  <2>3. CASE i \in Matches(s) /\ Before(s, i - 1) = {}
    <3>1. Before(s, i) = {i}
      BY <2>1, <2>3 DEF Before
    <3>2. (CHOOSE j \in Before(s, i) : TRUE) = i
      BY <3>1
    <3>3. Names[i] \in Seq(Letters) /\ Len(Names[i]) \in Nat
      BY <2>1, NameFacts
    <3>4. {i} \in SUBSET Table
      BY <2>1
    <3>5. Depth({i}) \in Nat /\ \A k \in Nat : Agree({i}, k) <=> k <= Depth({i})
      BY <3>4, DepthFacts
    <3>6. \A k \in Nat : Agree({i}, k) <=> k <= Len(Names[i])
      BY DEF Agree
    <3>7. Depth({i}) = Len(Names[i])
      <4> DEFINE D == Depth({i})
      <4>1. D \in Nat /\ \A k \in Nat : k <= D <=> k <= Len(Names[i])
        BY <3>5, <3>6
      <4> HIDE DEF D
      <4>2. D <= Len(Names[i]) /\ Len(Names[i]) <= D
        BY <3>3, <4>1
      <4>3. D = Len(Names[i])
        BY <3>3, <4>1, <4>2
      <4> QED
        BY <4>3 DEF D
    <3>8. LcpOf(s, i) = Names[i]
      BY <3>1, <3>2, <3>3, <3>7, KeepAll DEF LcpOf
    <3> QED
      BY <2>1, <2>3, <3>8 DEF Before
  <2>4. CASE i \in Matches(s) /\ Before(s, i - 1) # {}
    <3>1. Shared(LcpOf(s, i - 1), Names[i]) = LcpOf(s, i)
      BY <2>1, <2>4, LcpStep
    <3> QED
      BY <1>4, <2>1, <2>4, <3>1 DEF Before
  <2> QED
    BY <2>2, <2>3, <2>4
<1>5. f = Rec(f)
  <2> SUFFICES ASSUME NEW i \in 0 .. L PROVE LcpOf(s, i) = Step(f, i)
    BY Zenon
  <2>1. CASE i = 0
    BY <1>3, <2>1
  <2>2. CASE i # 0
    <3>1. i \in 1 .. L /\ i - 1 \in 0 .. L
      BY <1>2, <2>2
    <3>2. f[i - 1] = LcpOf(s, i - 1)
      BY <3>1
    <3> HIDE DEF f, Step
    <3> QED
      BY <1>4, <3>1, <3>2
  <2> QED
    BY <2>1, <2>2
<1>6. best = Rec(best)
  <2> HIDE DEF Rec, f
  <2> QED
    BY <1>5, Zenon
<1> HIDE DEF best, f, Step
<1>7. \A i \in 0 .. L : best[i] = Step(best, i)
  BY <1>6, Zenon
<1> HIDE DEF Rec
<1>8. \A i \in 0 .. L : best[i] = LcpOf(s, i)
  <2> DEFINE B == {i \in 0 .. L : best[i] # LcpOf(s, i)}
  <2> SUFFICES ASSUME B # {} PROVE FALSE
    OBVIOUS
  <2>1. B \in SUBSET Nat
    BY <1>2
  <2>2. PICK i \in B : \A m \in B : i <= m
    BY <2>1, NatMin
  <2>3. i # 0
    BY <1>2, <1>3, <1>7, <2>2 DEF Step
  <2>4. i \in 1 .. L /\ i - 1 \in 0 .. L /\ ~(i <= i - 1)
    BY <1>2, <2>3
  <2>5. best[i - 1] = LcpOf(s, i - 1)
    BY <2>2, <2>4
  <2>6. Step(best, i) = LcpOf(s, i)
    BY <1>4, <2>4, <2>5
  <2> QED
    BY <1>7, <2>2, <2>6
<1>9. L \in 0 .. L
  BY <1>2
<1> QED
  BY <1>1, <1>8, <1>9 DEF L

\* What complete finds: the longest text all matches begin with, which the
\* line is a part of.
LEMMA BestFacts ==
  ASSUME NEW s \in Seq(Letters), Matches(s) # {}
  PROVE  /\ Best(s) \in Seq(Letters) /\ Len(s) <= Len(Best(s)) /\ Keep(Best(s), Len(s)) = s
         /\ \A i \in Matches(s) :
              Len(Best(s)) <= Len(Names[i]) /\ Keep(Names[i], Len(Best(s))) = Best(s)
         /\ \A k \in Nat : Agree(Matches(s), k) <=> k <= Len(Best(s))
<1> DEFINE M == Matches(s)
           j == CHOOSE x \in M : TRUE
           d == Depth(M)
<1>1. M \in SUBSET Table /\ M # {} /\ j \in M
  BY DEF Matches, Table
<1>2. Before(s, Len(Names)) = M
  BY DEF Before, Matches
<1>3. Best(s) = Keep(Names[j], d)
  BY <1>1, <1>2, BestIsLcp DEF LcpOf
<1>4. ASSUME NEW i \in M
      PROVE  /\ Names[i] \in Seq(Letters) /\ Len(Names[i]) \in Nat
             /\ Len(s) <= Len(Names[i]) /\ Keep(Names[i], Len(s)) = s
  <2>1. Names[i] \in Seq(Letters) /\ Len(Names[i]) \in Nat
    BY <1>1, NameFacts
  <2>2. Len(s) <= Len(Names[i]) /\ SubSeq(s, 1, Len(s)) = SubSeq(Names[i], 1, Len(s))
    BY DEF Matches, IsStrictPrefix, IsPrefix
  <2>3. Keep(s, Len(s)) = s
    BY KeepAll
  <2> QED
    BY <2>1, <2>2, <2>3 DEF Keep
<1> HIDE DEF M, j, d
<1>5. d \in Nat /\ \A k \in Nat : Agree(M, k) <=> k <= d
  BY <1>1, DepthFacts DEF d
<1>6. Agree(M, Len(s)) /\ Len(s) \in Nat
  BY <1>4 DEF Agree
<1>7. Len(s) <= d
  BY <1>5, <1>6
<1>8. Agree(M, d)
  BY <1>5
<1>9. \A i \in M : d <= Len(Names[i]) /\ Keep(Names[i], d) = Keep(Names[j], d)
  BY <1>1, <1>8 DEF Agree
<1>10. d \in 0 .. Len(Names[j]) /\ Len(s) \in 0 .. d
  BY <1>1, <1>4, <1>5, <1>6, <1>7, <1>9
<1>11. Best(s) \in Seq(Letters) /\ Len(Best(s)) = d
  BY <1>1, <1>3, <1>4, <1>10, KeepFacts
<1>12. Keep(Best(s), Len(s)) = s
  <2>1. Keep(Keep(Names[j], d), Len(s)) = Keep(Names[j], Len(s))
    BY <1>1, <1>4, <1>10, KeepKeep
  <2> QED
    BY <1>1, <1>3, <1>4, <2>1
<1> QED
  BY <1>3, <1>5, <1>7, <1>9, <1>11, <1>12 DEF M

\* The line after a tab: the old one, what the matches share, and the blank
\* behind a name that is the only match.
LEMMA CompletedFacts ==
  ASSUME NEW s \in Texts
  PROVE  /\ Matches(s) = {} => Completed(s) = s
         /\ Matches(s) # {} =>
              Completed(s) = IF \E i \in Matches(s) : Matches(s) = {i}
                             THEN Append(Best(s), " ") ELSE Best(s)
         /\ Completed(s) \in Texts
         /\ Len(s) <= Len(Completed(s)) /\ Keep(Completed(s), Len(s)) = s
         /\ s \o SubSeq(Completed(s), Len(s) + 1, Len(Completed(s))) = Completed(s)
<1>1. s \in Seq(Letters) /\ Len(s) < LINE_MAX /\ Len(s) \in Nat /\ Keep(s, Len(s)) = s
  BY TextFacts, KeepAll
<1>2. ASSUME NEW t \in Seq(Letters), Len(s) <= Len(t), Keep(t, Len(s)) = s
      PROVE  s \o SubSeq(t, Len(s) + 1, Len(t)) = t
  <2>1. \A k \in 1 .. Len(s) : s[k] = t[k]
    <3>1. Len(s) \in 0 .. Len(t)
      BY <1>1, <1>2
    <3> QED
      BY <1>2, <3>1, KeepFacts
  <2> HIDE DEF Keep
  <2> QED
    BY <1>1, <1>2, <2>1
<1>3. CASE Matches(s) = {}
  <2>1. Completed(s) = s
    BY <1>3 DEF Completed
  <2> QED
    BY <1>1, <1>2, <1>3, <2>1
<1>4. CASE Matches(s) # {}
  <2> DEFINE B == Best(s)
             C == IF \E i \in Matches(s) : Matches(s) = {i} THEN Append(B, " ") ELSE B
  <2>1. /\ B \in Seq(Letters) /\ Len(s) <= Len(B) /\ Keep(B, Len(s)) = s
        /\ \A i \in Matches(s) : Len(B) <= Len(Names[i])
    BY <1>1, <1>4, BestFacts
  <2> HIDE DEF B
  <2>2. s \o SubSeq(B, Len(s) + 1, Len(B)) = B
    BY <1>2, <2>1
  <2>3. Completed(s) = C
    BY <1>4, <2>2 DEF Completed, B
  <2>4. " " \in Letters
    BY ShellAssumption DEF Letters
  <2>5. C \in Seq(Letters) /\ Len(s) <= Len(C) /\ Len(C) <= Len(B) + 1 /\ Len(B) \in Nat
    <3> DEFINE A == Append(B, " ")
    <3>1. A \in Seq(Letters) /\ Len(A) = Len(B) + 1 /\ Len(B) \in Nat
      BY <2>1, <2>4, AppendLetter
    <3>2. Len(s) \in Nat /\ B \in Seq(Letters) /\ Len(s) <= Len(B)
      BY <1>1, <2>1
    <3>3. C = B \/ C = A
      OBVIOUS
    <3> HIDE DEF C, A
    <3> QED
      BY ONLY <3>1, <3>2, <3>3
  <2>6. Keep(C, Len(s)) = s
    <3>1. CASE C = B
      BY <2>1, <3>1
    <3>2. CASE C = Append(B, " ")
      <4>1. Keep(Append(B, " "), Len(s)) = Keep(B, Len(s))
        <5> DEFINE A == Append(B, " ")
        <5>1. /\ A \in Seq(Letters) /\ Len(A) = Len(B) + 1 /\ Len(B) \in Nat
              /\ \A k \in 1 .. Len(B) : A[k] = B[k]
          BY <2>1, <2>4, AppendLetter
        <5> HIDE DEF A
        <5>2. Len(s) \in 0 .. Len(A) /\ Len(s) \in 0 .. Len(B)
          BY <1>1, <2>1, <5>1
        <5>3. /\ Keep(A, Len(s)) \in Seq(Letters) /\ Len(Keep(A, Len(s))) = Len(s)
              /\ \A k \in 1 .. Len(s) : Keep(A, Len(s))[k] = A[k]
          BY <5>1, <5>2, KeepFacts
        <5>4. /\ Keep(B, Len(s)) \in Seq(Letters) /\ Len(Keep(B, Len(s))) = Len(s)
              /\ \A k \in 1 .. Len(s) : Keep(B, Len(s))[k] = B[k]
          BY <2>1, <5>2, KeepFacts
        <5>5. Keep(A, Len(s)) = Keep(B, Len(s))
          BY ONLY <1>1, <2>1, <5>1, <5>3, <5>4
        <5> QED
          BY <5>5 DEF A
      <4> QED
        BY <2>1, <3>2, <4>1
    <3> QED
      BY <3>1, <3>2
  <2>7. Len(C) < LINE_MAX
    <3>1. PICK i \in Matches(s) : TRUE
      BY <1>4
    <3>2. Len(Names[i]) + 1 < LINE_MAX /\ Len(Names[i]) \in Nat /\ Len(B) <= Len(Names[i])
      BY <2>1, NameFacts DEF Matches, Table
    <3> HIDE DEF C
    <3>3. LINE_MAX \in Nat
      BY ShellAssumption
    <3>4. Len(C) \in Nat
      BY <2>5
    <3> QED
      BY ONLY <2>5, <3>2, <3>3, <3>4
  <2>8. C \in Texts
    BY <2>5, <2>7, TextFacts
  <2>9. s \o SubSeq(C, Len(s) + 1, Len(C)) = C
    <3> HIDE DEF C
    <3> QED
      BY <1>2, <2>5, <2>6
  <2> QED
    BY <1>4, <2>3, <2>5, <2>6, <2>8, <2>9 DEF B
<1> QED
  BY <1>3, <1>4

---------------------------------------------------------------------------
(* The shell.                                                              *)

\* s, which the line's m characters cover, ends at column k: it began behind
\* what is left of the prompt and went on over some rows.
Placed(s, k, m) ==
  /\ s \in Texts /\ Len(s) <= m
  /\ \E r \in Nat : Len(s) <= TERM_COLS * r + k /\ TERM_COLS * r + k <= PROMPT + Len(s)

\* The screen shows no more than the line holds: what is erased on it is
\* gone from the line, and a prompt starts it anew.
ScreenOK ==
  /\ line \in Texts /\ col \in 0 .. TERM_COLS
  /\ shown = Garbled \/ Placed(shown, col, Len(line))

ShellInv == TypeOK /\ HistInv /\ ScreenOK

\* The key changed the screen and the line alike.
Follows == shown = line /\ ~keys_mode /\ ~FillsRow => shown' = line'

LEMMA EmptyText == << >> \in Texts /\ Len(<< >>) = 0
<1>1. LINE_MAX \in Nat /\ LINE_MAX > 0
  BY ShellAssumption
<1>2. << >> \in Seq(Letters) /\ Len(<< >>) < LINE_MAX /\ Len(<< >>) = 0
  BY ONLY <1>1
<1> QED
  BY <1>2, TextFacts

LEMMA KeptText ==
  ASSUME NEW s \in Texts, NEW k \in 0 .. Len(s)
  PROVE  Keep(s, k) \in Texts /\ Len(Keep(s, k)) = k
<1>1. s \in Seq(Letters) /\ Len(s) < LINE_MAX /\ Len(s) \in Nat
  BY TextFacts
<1>2. LINE_MAX \in Nat
  BY ShellAssumption
<1>3. Keep(s, k) \in Seq(Letters) /\ Len(Keep(s, k)) = k
  BY <1>1, KeepFacts
<1> QED
  BY <1>1, <1>2, <1>3, TextFacts

LEMMA ColFacts ==
  /\ TERM_COLS \in Nat /\ TERM_COLS > 0 /\ PROMPT \in Nat /\ PROMPT < TERM_COLS
  /\ Garbled \notin Texts
  BY ConsoleAssumption, SMT

\* Whole rows, in numbers.
LEMMA RowsFacts ==
  ASSUME NEW r \in Nat, NEW q \in Nat
  PROVE  /\ TERM_COLS * r \in Nat /\ (r > 0 => TERM_COLS * r >= TERM_COLS)
         /\ (r = 0 => TERM_COLS * r = 0)
         /\ TERM_COLS * (r + q) = TERM_COLS * r + TERM_COLS * q
  BY ColFacts

\* Nothing behind at most a prompt is in place.
LEMMA EmptyPlaced ==
  ASSUME NEW k \in 0 .. PROMPT, NEW m \in Nat
  PROVE  Placed(<< >>, k, m)
<1>1. TERM_COLS * 0 = 0
  BY RowsFacts
<1>2. 0 <= TERM_COLS * 0 + k /\ TERM_COLS * 0 + k <= PROMPT + 0
  BY <1>1, ColFacts
<1>3. \E r \in Nat : /\ Len(<< >>) <= TERM_COLS * r + k
                     /\ TERM_COLS * r + k <= PROMPT + Len(<< >>)
  BY <1>2, EmptyText
<1> QED
  BY <1>3, EmptyText DEF Placed

\* Printing moves the cursor over whole rows and a part of one.
LEMMA AdvancedFacts ==
  ASSUME NEW k \in 0 .. TERM_COLS, NEW n \in Nat
  PROVE  /\ Advanced(k, n) \in 0 .. TERM_COLS
         /\ \E q \in Nat : k + n = TERM_COLS * q + Advanced(k, n)
<1>0. TERM_COLS \in Nat /\ TERM_COLS > 0
  BY ColFacts
<1>1. CASE n = 0
  <2>1. Advanced(k, n) = k /\ k + n = TERM_COLS * 0 + k
    BY <1>0, <1>1, RowsFacts DEF Advanced
  <2> QED
    BY <2>1
<1>2. CASE n # 0
  <2> DEFINE x == k + n - 1
             q == x \div TERM_COLS
             m == x % TERM_COLS
  <2>1. x \in Nat
    BY <1>0, <1>2
  <2>2. Advanced(k, n) = m + 1
    BY <1>2 DEF Advanced
  <2> HIDE DEF x
  <2>3. x = (TERM_COLS * q) + m /\ m \in 0 .. TERM_COLS - 1 /\ q \in Nat
    BY <1>0, <2>1, DivMod
  <2> HIDE DEF q, m
  <2>4. TERM_COLS * q \in Nat
    BY <2>3, RowsFacts
  <2>5. k + n = TERM_COLS * q + (m + 1)
    BY <1>0, <2>3, <2>4 DEF x
  <2> QED
    BY <1>0, <2>2, <2>3, <2>5
<1> QED
  BY <1>1, <1>2

\* What is printed behind a text in place is in place.
LEMMA PutPlaced ==
  ASSUME NEW k \in 0 .. TERM_COLS, NEW m \in Nat, NEW s, Placed(s, k, m),
         NEW w \in Seq(Letters), m + Len(w) < LINE_MAX
  PROVE  Placed(s \o w, Advanced(k, Len(w)), m + Len(w))
<1>1. s \in Seq(Letters) /\ Len(s) \in Nat /\ Len(s) <= m /\ Len(w) \in Nat
  BY TextFacts DEF Placed
<1>2. s \o w \in Seq(Letters) /\ Len(s \o w) = Len(s) + Len(w)
  BY <1>1
<1>3. s \o w \in Texts /\ Len(s \o w) <= m + Len(w)
  <2>1. Len(s \o w) <= m + Len(w) /\ Len(s \o w) < LINE_MAX
    BY <1>1, <1>2, LimitFacts
  <2> QED
    BY <1>2, <2>1, TextFacts
<1>4. PICK r \in Nat : Len(s) <= TERM_COLS * r + k /\ TERM_COLS * r + k <= PROMPT + Len(s)
  BY DEF Placed
<1> DEFINE a == Advanced(k, Len(w))
<1>5. /\ a \in 0 .. TERM_COLS
      /\ \E q \in Nat : k + Len(w) = TERM_COLS * q + a
  BY <1>1, AdvancedFacts
<1> HIDE DEF a
<1>6. PICK q \in Nat : k + Len(w) = TERM_COLS * q + a
  BY <1>5
<1> DEFINE R == TERM_COLS * r
           Q == TERM_COLS * q
           S == TERM_COLS * (r + q)
<1>7. R \in Nat /\ Q \in Nat /\ S = R + Q /\ r + q \in Nat
  <2>1. r + q \in Nat
    OBVIOUS
  <2>2. R \in Nat /\ S = R + Q
    BY RowsFacts, Zenon
  <2>3. Q \in Nat
    BY RowsFacts, Zenon
  <2> QED
    BY <2>1, <2>2, <2>3, Zenon
<1>8. /\ Len(s) <= R + k /\ R + k <= PROMPT + Len(s) /\ k + Len(w) = Q + a
  BY <1>4, <1>6
<1> HIDE DEF R, Q, S
<1>9. Len(s \o w) <= S + a /\ S + a <= PROMPT + Len(s \o w)
  BY <1>1, <1>2, <1>5, <1>7, <1>8, ColFacts
<1>10. \E i \in Nat : /\ Len(s \o w) <= TERM_COLS * i + a
                      /\ TERM_COLS * i + a <= PROMPT + Len(s \o w)
  BY <1>7, <1>9 DEF S
<1> QED
  BY <1>3, <1>10 DEF Placed, a

LEMMA RowFacts ==
  ASSUME ScreenOK
  PROVE  /\ RowCol \in 0 .. TERM_COLS /\ Len(line) \in Nat
         /\ Row = Garbled \/ Placed(Row, RowCol, Len(line))
         /\ ~keys_mode => Row = shown /\ RowCol = col
<1>1. Len(line) \in Nat
  BY TextFacts DEF ScreenOK
<1>2. CASE keys_mode
  <2>1. Row = << >> /\ RowCol = 0
    BY <1>2 DEF Row, RowCol
  <2>2. 0 \in 0 .. PROMPT /\ 0 \in 0 .. TERM_COLS
    BY ColFacts
  <2> QED
    BY <1>1, <1>2, <2>1, <2>2, EmptyPlaced
<1>3. CASE ~keys_mode
  BY <1>1, <1>3 DEF Row, RowCol, ScreenOK
<1> QED
  BY <1>2, <1>3

LEMMA ErasedFacts ==
  ASSUME ScreenOK, NEW n \in 0 .. Len(line)
  PROVE  /\ ErasedCol(n) \in 0 .. TERM_COLS
         /\ Erased(n) = Garbled \/ Placed(Erased(n), ErasedCol(n), Len(line) - n)
         /\ shown = line /\ ~keys_mode /\ ~FillsRow => Erased(n) = Keep(line, Len(line) - n)
<1> DEFINE s == Row
           k == RowCol
           e == ErasedCol(n)
<1>1. /\ k \in 0 .. TERM_COLS /\ Len(line) \in Nat
      /\ s = Garbled \/ Placed(s, k, Len(line))
      /\ ~keys_mode => s = shown /\ k = col
  BY RowFacts
<1>2. Erased(n) = IF s = Garbled THEN Garbled
                  ELSE IF n > k /\ Len(s) > k THEN Garbled
                  ELSE IF n > Len(s) THEN << >> ELSE Keep(s, Len(s) - n)
  BY DEF Erased
<1>3. e = IF n > k THEN 0 ELSE k - n
  BY DEF ErasedCol
<1>4. line \in Texts /\ line # Garbled
  BY ColFacts DEF ScreenOK
<1> HIDE DEF s, k, e
<1>5. e \in 0 .. TERM_COLS
  BY <1>1, <1>3, ColFacts
<1>6. CASE s = Garbled
  BY <1>1, <1>2, <1>4, <1>5, <1>6 DEF e
<1>7. CASE s # Garbled
  <2>1. s \in Texts /\ Len(s) <= Len(line) /\ s \in Seq(Letters) /\ Len(s) \in Nat
    BY <1>1, <1>7, TextFacts DEF Placed
  <2>2. PICK r \in Nat : /\ Len(s) <= TERM_COLS * r + k
                         /\ TERM_COLS * r + k <= PROMPT + Len(s)
    BY <1>1, <1>7 DEF Placed
  <2> DEFINE R == TERM_COLS * r
  <2>3. R \in Nat /\ (r > 0 => R >= TERM_COLS) /\ (r = 0 => R = 0)
    BY RowsFacts
  <2>4. Len(s) <= R + k /\ R + k <= PROMPT + Len(s)
    BY <2>2
  <2> HIDE DEF R
  <2>5. shown = line /\ ~keys_mode /\ ~FillsRow => s = line /\ Len(s) <= k
    <3> SUFFICES ASSUME shown = line, ~keys_mode, ~FillsRow PROVE s = line /\ Len(s) <= k
      OBVIOUS
    <3>1. s = line
      BY <1>1
    <3>2. PROMPT + Len(s) < TERM_COLS
      BY <1>1, <3>1, ColFacts DEF FillsRow
    <3> QED
      BY <1>1, <2>1, <2>3, <2>4, <3>1, <3>2, ColFacts
  <2>6. CASE n > k /\ Len(s) > k
    <3>1. Erased(n) = Garbled
      BY <1>2, <1>7, <2>6
    <3> QED
      BY <1>1, <1>5, <2>1, <2>5, <2>6, <3>1 DEF e
  <2>7. CASE ~(n > k /\ Len(s) > k) /\ n > Len(s)
    <3>1. Erased(n) = << >>
      BY <1>2, <1>7, <2>7
    <3>2. e \in 0 .. PROMPT /\ Len(line) - n \in Nat
      BY <1>1, <1>3, <2>1, <2>3, <2>4, <2>7, ColFacts
    <3>3. Placed(Erased(n), e, Len(line) - n)
      BY <3>1, <3>2, EmptyPlaced
    <3>4. s = line => FALSE
      BY <1>1, <2>1, <2>7
    <3> QED
      BY <1>5, <2>5, <3>3, <3>4 DEF e
  <2>8. CASE ~(n > k /\ Len(s) > k) /\ ~(n > Len(s))
    <3> DEFINE u == Keep(s, Len(s) - n)
    <3>1. Erased(n) = u /\ Len(s) - n \in 0 .. Len(s) /\ n <= k
      BY <1>1, <1>2, <1>7, <2>1, <2>8
    <3>2. u \in Texts /\ Len(u) = Len(s) - n
      BY <2>1, <3>1, KeptText
    <3> HIDE DEF u
    <3>3. Len(u) <= Len(line) - n /\ Len(u) <= R + e /\ R + e <= PROMPT + Len(u)
      BY <1>1, <1>3, <2>1, <2>3, <2>4, <3>1, <3>2, ColFacts
    <3>4. \E i \in Nat : Len(u) <= TERM_COLS * i + e /\ TERM_COLS * i + e <= PROMPT + Len(u)
      BY <3>3 DEF R
    <3>5. Placed(u, e, Len(line) - n)
      BY <3>2, <3>3, <3>4 DEF Placed
    <3> QED
      BY <1>5, <2>5, <3>1, <3>5 DEF e, u
  <2> QED
    BY <2>6, <2>7, <2>8
<1> QED
  BY <1>6, <1>7

LEMMA CutFacts ==
  ASSUME ScreenOK, NEW k \in 0 .. Len(line), CutTo(k)
  PROVE  ScreenOK' /\ Follows
<1>1. Len(line) \in Nat /\ line \in Texts
  BY TextFacts DEF ScreenOK
<1>2. Keep(line, k) \in Texts /\ Len(Keep(line, k)) = k
  BY <1>1, KeptText
<1> DEFINE n == Len(line) - k
<1>3. n \in 0 .. Len(line) /\ Len(line) - n = k
  BY <1>1
<1>4. /\ line' = Keep(line, k) /\ shown' = Erased(n) /\ col' = ErasedCol(n)
  BY DEF CutTo
<1> HIDE DEF n
<1>5. /\ ErasedCol(n) \in 0 .. TERM_COLS
      /\ Erased(n) = Garbled \/ Placed(Erased(n), ErasedCol(n), k)
      /\ shown = line /\ ~keys_mode /\ ~FillsRow => Erased(n) = Keep(line, k)
  BY <1>3, ErasedFacts
<1> QED
  BY <1>2, <1>4, <1>5 DEF ScreenOK, Follows

\* A line that grows, and what is printed for it.
LEMMA PutFacts ==
  ASSUME ScreenOK, NEW w \in Seq(Letters), line' = line \o w, line' \in Texts, Put(w)
  PROVE  ScreenOK' /\ Follows
<1>1. /\ RowCol \in 0 .. TERM_COLS /\ Len(line) \in Nat
      /\ Row = Garbled \/ Placed(Row, RowCol, Len(line))
      /\ ~keys_mode => Row = shown
  BY RowFacts
<1>2. /\ line \in Seq(Letters) /\ line # Garbled /\ Len(w) \in Nat
  BY TextFacts, ColFacts DEF ScreenOK
<1>3. Len(line') = Len(line) + Len(w) /\ Len(line) + Len(w) < LINE_MAX
  <2>1. Len(line \o w) = Len(line) + Len(w)
    BY <1>2
  <2> QED
    BY <2>1, TextFacts
<1>4. /\ shown' = IF Row = Garbled THEN Garbled ELSE Row \o w
      /\ col' = Advanced(RowCol, Len(w))
  BY DEF Put
<1>5. col' \in 0 .. TERM_COLS
  BY <1>1, <1>2, <1>4, AdvancedFacts
<1>6. Row # Garbled => Placed(Row \o w, col', Len(line'))
  BY <1>1, <1>3, <1>4, PutPlaced
<1>7. shown' = Garbled \/ Placed(shown', col', Len(line'))
  BY <1>4, <1>6
<1>8. Follows
  BY <1>1, <1>2, <1>4 DEF Follows
<1> QED
  BY <1>5, <1>7, <1>8 DEF ScreenOK

LEMMA TypeStep ==
  ASSUME ScreenOK, NEW ch, Type(ch)
  PROVE  ScreenOK' /\ Follows
<1>1. line \in Texts /\ line \in Seq(Letters) /\ Len(line) \in Nat
  BY TextFacts DEF ScreenOK
<1>2. CASE ch \in Chars /\ Room
  <2>1. line' = Append(line, ch) /\ Put(<<ch>>) /\ ch \in Letters
    BY <1>2 DEF Type, Letters
  <2>2. line' = line \o <<ch>> /\ <<ch>> \in Seq(Letters)
    BY <1>1, <2>1
  <2>3. line' \in Seq(Letters) /\ Len(line') = Len(line) + 1
    BY <1>1, <2>1, AppendLetter
  <2>4. Len(line') < LINE_MAX
    BY <1>1, <1>2, <2>3, LimitFacts DEF Room
  <2>5. line' \in Texts
    BY <2>3, <2>4, TextFacts
  <2> QED
    BY <2>1, <2>2, <2>5, PutFacts
<1>3. CASE ~(ch \in Chars /\ Room)
  <2>1. line' = line /\ Put(<< >>)
    BY <1>3 DEF Type
  <2>2. line \o << >> = line /\ << >> \in Seq(Letters)
    BY <1>1
  <2> QED
    BY <1>1, <2>1, <2>2, PutFacts
<1> QED
  BY <1>2, <1>3

LEMMA TabStep ==
  ASSUME ScreenOK, Tab
  PROVE  ScreenOK' /\ Follows
<1> DEFINE c == Completed(line)
           w == SubSeq(c, Len(line) + 1, Len(c))
<1>1. c \in Texts /\ Len(line) <= Len(c) /\ line \o w = c
  BY CompletedFacts DEF ScreenOK
<1>2. line' = c /\ Put(w)
  BY DEF Tab
<1>3. c \in Seq(Letters) /\ Len(c) \in Nat /\ Len(line) \in Nat
  BY <1>1, TextFacts DEF ScreenOK
<1> HIDE DEF c
<1>4. w \in Seq(Letters)
  BY <1>1, <1>3
<1> HIDE DEF w
<1> QED
  BY <1>1, <1>2, <1>4, PutFacts

LEMMA ShowFacts ==
  ASSUME ScreenOK, hist \in [Ring -> Texts], hist_count \in Nat,
         NEW i \in Nat, HistFirst <= i, Show(i)
  PROVE  ScreenOK' /\ Follows
<1> DEFINE text == IF i >= hist_count THEN << >> ELSE Recalled(i)
           left == Erased(Len(line))
           e == ErasedCol(Len(line))
<1>1. text \in Texts
  <2>1. HistFirst \in Nat
    BY FirstFacts
  <2>2. i - HistFirst \in Nat
    BY <2>1
  <2>3. Recalled(i) \in Texts
    BY <2>2, SlotInRing DEF Recalled
  <2> QED
    BY <2>3, EmptyText
<1>2. /\ line' = text /\ col' = Advanced(e, Len(text))
      /\ shown' = IF left = Garbled THEN Garbled ELSE left \o text
  BY DEF Show
<1> HIDE DEF text
<1>3. Len(line) \in Nat /\ line \in Texts /\ line \in Seq(Letters)
  BY TextFacts DEF ScreenOK
<1>4. /\ e \in 0 .. TERM_COLS
      /\ left = Garbled \/ Placed(left, e, 0)
      /\ shown = line /\ ~keys_mode /\ ~FillsRow => left = Keep(line, 0)
  <2>1. Len(line) \in 0 .. Len(line) /\ Len(line) - Len(line) = 0
    BY <1>3
  <2> QED
    BY <2>1, ErasedFacts
<1> HIDE DEF left, e
<1>5. text \in Seq(Letters) /\ Len(text) \in Nat /\ Len(text) < LINE_MAX
  BY <1>1, TextFacts
<1>6. left # Garbled => left \o text = text
  <2> SUFFICES ASSUME left # Garbled PROVE left \o text = text
    OBVIOUS
  <2>1. left \in Seq(Letters) /\ Len(left) <= 0
    BY <1>4, TextFacts DEF Placed
  <2> QED
    BY <1>5, <2>1
<1>7. left # Garbled => Placed(left \o text, col', Len(line'))
  <2> SUFFICES ASSUME left # Garbled PROVE Placed(left \o text, col', Len(line'))
    OBVIOUS
  <2>1. 0 + Len(text) = Len(text) /\ 0 \in Nat
    BY <1>5
  <2>2. Placed(left \o text, Advanced(e, Len(text)), 0 + Len(text))
    BY <1>4, <1>5, <2>1, PutPlaced
  <2> QED
    BY <1>2, <2>1, <2>2
<1>8. col' \in 0 .. TERM_COLS
  BY <1>2, <1>4, <1>5, AdvancedFacts
<1>9. Keep(line, 0) # Garbled
  <2>1. Keep(line, 0) \in Texts
    BY <1>3, KeptText
  <2> QED
    BY <2>1, ColFacts
<1>10. Follows
  BY <1>2, <1>4, <1>6, <1>9 DEF Follows
<1> QED
  BY <1>1, <1>2, <1>7, <1>8, <1>10 DEF ScreenOK

\* What the keys do to the history is what History allows.
LEMMA ShellHist ==
  ASSUME line \in Texts, [Next]_vars
  PROVE  [HistNext]_histVars
<1>1. CASE Up
  BY <1>1 DEF Up, HistNext
<1>2. CASE Down
  BY <1>2 DEF Down, HistNext
<1>3. CASE EnterCommand
  <2>1. FirstWord(line) \in Texts /\ Remember(FirstWord(line))
    BY <1>3, FirstWordFacts DEF EnterCommand
  <2> QED
    BY <2>1 DEF HistNext
<1>4. ASSUME NEW ch, Type(ch) PROVE [HistNext]_histVars
  BY <1>4 DEF Type
<1>5. CASE Backspace \/ CtrlU \/ CtrlW \/ CtrlL \/ CtrlC \/ Tab \/ ArrowCode \/ EnterBlank
  BY <1>5 DEF Backspace, CtrlU, CtrlW, CtrlL, CtrlC, Tab, ArrowCode, EnterBlank
<1>6. CASE UNCHANGED vars
  BY <1>6 DEF vars
<1> QED
  BY <1>1, <1>2, <1>3, <1>4, <1>5, <1>6 DEF Next

\* The line and the screen, key by key.
LEMMA ScreenStep ==
  ASSUME ShellInv, [Next]_vars
  PROVE  ScreenOK' /\ (CtrlL \/ EnterBlank \/ Follows)
<1>0. ScreenOK /\ HistInv /\ hist \in [Ring -> Texts] /\ hist_count \in Nat /\ hist_at \in Nat
  BY DEF ShellInv, TypeOK, HistInv
<1>1. line \in Texts /\ line \in Seq(Letters) /\ Len(line) \in Nat
  BY <1>0, TextFacts DEF ScreenOK
<1>2. HistFirst \in Nat /\ HistFirst <= hist_count
      /\ HistFirst <= hist_at /\ hist_at <= hist_count
  BY <1>0, FirstFacts DEF HistInv, HistAtInWindow
<1>3. ASSUME NEW ch, Type(ch) PROVE ScreenOK' /\ Follows
  BY <1>0, <1>3, TypeStep
<1>4. CASE Backspace
  <2> DEFINE k == IF line = << >> THEN 0 ELSE Len(line) - 1
  <2>1. k \in 0 .. Len(line)
    BY <1>1
  <2>2. CutTo(k)
    BY <1>4 DEF Backspace
  <2> HIDE DEF k
  <2> QED
    BY <1>0, <2>1, <2>2, CutFacts
<1>5. CASE CtrlU
  <2>1. 0 \in 0 .. Len(line) /\ CutTo(0)
    BY <1>1, <1>5 DEF CtrlU
  <2> QED
    BY <1>0, <2>1, CutFacts
<1>6. CASE CtrlW
  <2>1. Len(EraseWord(line)) \in 0 .. Len(line) /\ CutTo(Len(EraseWord(line)))
    BY <1>1, <1>6, EraseFacts DEF CtrlW
  <2> QED
    BY <1>0, <2>1, CutFacts
<1>7. ASSUME shown' = << >>, col' \in 0 .. PROMPT, line' \in Texts PROVE ScreenOK'
  <2>1. Len(line') \in Nat
    BY <1>7, TextFacts
  <2>2. Placed(<< >>, col', Len(line'))
    BY <1>7, <2>1, EmptyPlaced
  <2> QED
    BY <1>7, <2>2, ColFacts DEF ScreenOK
<1>8. ASSUME Prompted, line' \in Texts PROVE ScreenOK'
  BY <1>7, <1>8, ColFacts DEF Prompted
<1>9. CASE CtrlL
  BY <1>1, <1>8, <1>9 DEF CtrlL
<1>10. CASE CtrlC
  BY <1>8, <1>10, EmptyText DEF CtrlC, Prompted, Follows
<1>11. CASE Tab
  BY <1>0, <1>11, TabStep
<1>12. CASE Up
  <2>1. hist_at' = hist_at - 1 /\ hist_at # HistFirst /\ Show(hist_at')
    BY <1>12 DEF Up, Older
  <2>2. hist_at' \in Nat /\ HistFirst <= hist_at'
    BY <1>0, <1>2, <2>1
  <2> QED
    BY <1>0, <2>1, <2>2, ShowFacts
<1>13. CASE Down
  <2>1. /\ hist_at' = IF hist_at + 1 >= hist_count THEN hist_count ELSE hist_at + 1
        /\ Show(hist_at')
    BY <1>13 DEF Down, Newer
  <2>2. hist_at' \in Nat /\ HistFirst <= hist_at'
    BY <1>0, <1>2, <2>1
  <2> QED
    BY <1>0, <2>1, <2>2, ShowFacts
<1>14. CASE ArrowCode
  <2>1. keys_mode /\ shown' = << >> /\ col' = 0 /\ line' = line
    BY <1>14 DEF ArrowCode
  <2> QED
    BY <1>1, <1>7, <2>1, ColFacts DEF Follows
<1>15. CASE EnterBlank
  BY <1>1, <1>8, <1>15 DEF EnterBlank
<1>16. CASE EnterCommand
  BY <1>8, <1>16, EmptyText DEF EnterCommand, Prompted, Follows
<1>17. CASE UNCHANGED vars
  <2>1. UNCHANGED <<line, shown, col>>
    BY <1>17 DEF vars, screenVars
  <2>2. Placed(shown, col, Len(line))' <=> Placed(shown, col, Len(line))
    BY <2>1, Zenon
  <2> QED
    BY <1>0, <2>1, <2>2 DEF ScreenOK, Follows
<1> QED
  BY <1>3, <1>4, <1>5, <1>6, <1>9, <1>10, <1>11, <1>12, <1>13, <1>14, <1>15, <1>16, <1>17
     DEF Next

LEMMA ShellStep ==
  ASSUME ShellInv, [Next]_vars
  PROVE  ShellInv'
<1>1. ScreenOK'
  BY ScreenStep
<1>2. HistInv'
  BY ShellHist, HistStep DEF ShellInv, TypeOK
<1>3. hist' \in [Ring -> Texts]
  <2>1. NoText \in Texts
    BY EmptyText, ShellAssumption
  <2>2. Texts \cup {NoText} = Texts
    BY <2>1
  <2> QED
    BY <1>2, <2>2 DEF HistInv
<1>4. hist_count' \in 0 .. MaxHist
  <2>1. hist_count \in 0 .. MaxHist /\ MaxHist \in Nat
    BY LimitFacts DEF ShellInv, TypeOK
  <2>2. CASE EnterCommand
    <3>1. hist_count < MaxHist /\ (hist_count' = hist_count \/ hist_count' = hist_count + 1)
      BY <2>2 DEF EnterCommand, Remember
    <3> QED
      BY <2>1, <3>1
  <2>3. CASE ~EnterCommand
    <3>1. hist_count' = hist_count
      BY <2>3 DEF Next, vars, histVars, Type, Backspace, CtrlU, CtrlW, CtrlL, CtrlC, Tab, Up,
                  Down, Older, Newer, ArrowCode, EnterBlank
    <3> QED
      BY <2>1, <3>1
  <2> QED
    BY <2>2, <2>3
<1>5. hist_at' \in 0 .. MaxHist
  <2>1. hist_at' \in Nat /\ hist_at' <= hist_count'
    BY <1>2 DEF HistInv, HistAtInWindow
  <2> QED
    BY <1>4, <2>1, LimitFacts
<1>6. {keys_mode, running}' \subseteq BOOLEAN
  <2>1. keys_mode \in BOOLEAN /\ running \in BOOLEAN
    BY DEF ShellInv, TypeOK
  <2>2. CASE EnterCommand
    BY <2>2 DEF EnterCommand
  <2>3. CASE ~EnterCommand
    <3>1. keys_mode' = keys_mode /\ running' = running
      BY <2>3 DEF Next, vars, rest, Type, Backspace, CtrlU, CtrlW, CtrlL, CtrlC, Tab, Up,
                  Down, ArrowCode, EnterBlank
    <3> QED
      BY <2>1, <3>1
  <2> QED
    BY <2>2, <2>3
<1> QED
  BY <1>1, <1>2, <1>3, <1>4, <1>5, <1>6 DEF ShellInv, TypeOK, ScreenOK, Placed

\* The shell's inductive invariant.
THEOREM ShellInvariant == Spec => []ShellInv
<1>1. Init => ShellInv
  <2> SUFFICES ASSUME Init PROVE ShellInv
    OBVIOUS
  <2>1. HistInv
    BY HistoryAssumption DEF Init, HistInit, HistInv, HistAtInWindow, HistFirst
  <2>2. ScreenOK
    <3>1. line = << >> /\ shown = << >> /\ col = PROMPT /\ 0 \in Nat
      BY DEF Init
    <3>2. Placed(<< >>, PROMPT, 0)
      BY ColFacts, EmptyPlaced
    <3> QED
      BY <3>1, <3>2, EmptyText, ColFacts DEF ScreenOK
  <2>3. NoText \in Texts
    BY EmptyText, ShellAssumption
  <2>4. hist \in [Ring -> Texts]
    BY <2>3 DEF Init, HistInit
  <2>5. hist_count \in 0 .. MaxHist /\ hist_at \in 0 .. MaxHist
    BY LimitFacts DEF Init, HistInit
  <2> QED
    BY <2>1, <2>2, <2>4, <2>5 DEF Init, ShellInv, TypeOK, ScreenOK, Placed
<1>2. ShellInv /\ [Next]_vars => ShellInv'
  BY ShellStep
<1> QED
  BY <1>1, <1>2, PTL DEF Spec

\* No key makes the line, the screen or a remembered text longer than their
\* buffers: neither typing, nor completion with its blank, nor recall.
THEOREM ShellTypeCorrect == Spec => []TypeOK
<1>1. ShellInv => TypeOK
  BY DEF ShellInv
<1> QED
  BY <1>1, ShellInvariant, PTL

\* The shell's keys drive the ring of History only as its own steps do.
THEOREM ShellDrivesHistory == Spec => HistSpec
<1>1. Init => HistInit
  BY DEF Init
<1>2. ShellInv /\ [Next]_vars => [HistNext]_histVars
  BY ShellHist DEF ShellInv, ScreenOK
<1> QED
  BY <1>1, <1>2, ShellInvariant, PTL DEF Spec, HistSpec

\* Whatever keys are pressed, hist_at stays among the remembered entries, so
\* recall's unsigned subtraction never wraps.
THEOREM ShellRecallInWindow == Spec => []HistAtInWindow
  BY ShellDrivesHistory, RecallInWindow, PTL

\* Whatever keys are pressed, the history is the list of the most recent
\* distinct commands.
THEOREM ShellKeepsRecent == Spec => RingIsRecent
  BY ShellDrivesHistory, RingRefinesRecent, PTL

\* What the user sees is what Enter would run: as long as the prompt and the
\* line leave the end of the row free, no key of the editor, recall and
\* completion included, parts the screen from the line outside keys mode.
THEOREM ScreenIsFollowed == Spec => ScreenFollows
<1>1. ShellInv /\ [Next]_vars =>
        [shown = line /\ shown' # line' =>
           keys_mode \/ CtrlL \/ EnterBlank \/ FillsRow]_vars
  BY ScreenStep DEF Follows
<1> QED
  BY <1>1, ShellInvariant, PTL DEF Spec, ScreenFollows

\* What complete shares is the library's longest common prefix.
LEMMA BestIsLongest ==
  ASSUME NEW s \in Seq(Letters), Matches(s) # {}
  PROVE  Best(s) = LongestCommonPrefix({Names[i] : i \in Matches(s)})
<1> DEFINE B == Best(s)
           S == {Names[i] : i \in Matches(s)}
           P == CommonPrefixes(S)
<1>1. /\ B \in Seq(Letters) /\ Len(B) \in Nat
      /\ \A i \in Matches(s) : Len(B) <= Len(Names[i]) /\ Keep(Names[i], Len(B)) = B
      /\ \A k \in Nat : Agree(Matches(s), k) <=> k <= Len(B)
  BY BestFacts
<1>2. \A i \in Matches(s) : Names[i] \in Seq(Letters) /\ Len(Names[i]) \in Nat
  BY NameFacts DEF Matches, Table
<1>3. PICK j \in Matches(s) : TRUE
  OBVIOUS
<1> HIDE DEF B
<1>4. ASSUME NEW p
      PROVE  p \in P <=> /\ \E i \in Matches(s) : \E l \in 0 .. Len(Names[i]) : p = Keep(Names[i], l)
                         /\ \A i \in Matches(s) : IsPrefix(p, Names[i])
  <2>1. p \in P <=> /\ \E t \in S : p \in Prefixes(t)
                    /\ \A t \in S : IsPrefix(p, t)
    BY Zenon DEF CommonPrefixes
  <2>2. (\E t \in S : p \in Prefixes(t)) <=>
           \E i \in Matches(s) : \E l \in 0 .. Len(Names[i]) : p = Keep(Names[i], l)
    BY Zenon DEF Prefixes, Keep
  <2>3. (\A t \in S : IsPrefix(p, t)) <=> \A i \in Matches(s) : IsPrefix(p, Names[i])
    BY Zenon
  <2> QED
    BY <2>1, <2>2, <2>3, Zenon
<1> HIDE DEF P, S
<1>5. B \in P
  <2>1. ASSUME NEW i \in Matches(s) PROVE IsPrefix(B, Names[i])
    <3>1. Keep(B, Len(B)) = B
      BY <1>1, KeepAll
    <3>2. Len(B) <= Len(Names[i]) /\ Keep(B, Len(B)) = Keep(Names[i], Len(B))
      BY <1>1, <3>1
    <3> QED
      BY <3>2 DEF Keep, IsPrefix
  <2>2. Len(B) \in 0 .. Len(Names[j]) /\ B = Keep(Names[j], Len(B))
    BY <1>1, <1>2, <1>3
  <2> QED
    BY <1>3, <1>4, <2>1, <2>2
<1>6. ASSUME NEW p \in P
      PROVE  Len(p) \in Nat /\ Len(p) <= Len(B) /\ p = Keep(Names[j], Len(p))
  <2>1. PICK i \in Matches(s) : \E l \in 0 .. Len(Names[i]) : p = Keep(Names[i], l)
    BY <1>4
  <2>2. p \in Seq(Letters) /\ Len(p) \in Nat
    BY <1>2, <2>1, KeepFacts
  <2>3. \A a \in Matches(s) : IsPrefix(p, Names[a])
    BY <1>4
  <2>4. Keep(p, Len(p)) = p
    BY <2>2, KeepAll
  <2>5. \A a \in Matches(s) : Len(p) <= Len(Names[a]) /\ Keep(Names[a], Len(p)) = p
    BY <2>3, <2>4 DEF Keep, IsPrefix
  <2>6. Agree(Matches(s), Len(p))
    BY <2>5 DEF Agree
  <2> QED
    BY <1>1, <1>3, <2>2, <2>5, <2>6
<1>7. ASSUME NEW p \in P, \A o \in P : Len(o) <= Len(p)
      PROVE  p = B
  <2>1. Len(p) = Len(B)
    BY <1>1, <1>5, <1>6, <1>7
  <2> QED
    BY <1>5, <1>6, <2>1
<1>8. \A o \in P : Len(o) <= Len(B)
  BY <1>6
<1>9. LongestCommonPrefix(S) = CHOOSE p \in P : \A o \in P : Len(o) <= Len(p)
  BY DEF LongestCommonPrefix, P
<1>10. LongestCommonPrefix(S) = B
  BY <1>5, <1>7, <1>8, <1>9
<1> QED
  BY <1>10 DEF B, S

\* A name has no blank, so neither has what names share.
LEMMA BestUnblank ==
  ASSUME NEW s \in Seq(Letters), Matches(s) # {}, Best(s) # << >>
  PROVE  Last(Best(s)) # " "
<1> DEFINE B == Best(s)
<1>1. PICK i \in Matches(s) : TRUE
  OBVIOUS
<1>2. B \in Seq(Letters) /\ Len(B) <= Len(Names[i]) /\ Keep(Names[i], Len(B)) = B
  BY BestFacts
<1>3. /\ i \in 1 .. Len(Names) /\ Names[i] \in Seq(Letters) /\ Len(Names[i]) \in Nat
  BY NameFacts DEF Matches, Table
<1>4. \A k \in 1 .. Len(Names[i]) : Names[i][k] # " "
  BY <1>3, ShellAssumption, Zenon
<1>5. B # << >>
  OBVIOUS
<1> HIDE DEF B
<1>6. Len(B) \in 1 .. Len(Names[i]) /\ Len(B) \in 1 .. Len(B) /\ Len(B) \in 0 .. Len(Names[i])
  BY <1>2, <1>3, <1>5
<1>7. B[Len(B)] = Names[i][Len(B)]
  BY <1>2, <1>3, <1>6, KeepFacts
<1> QED
  BY <1>4, <1>6, <1>7 DEF Last, B

\* The blank is appended behind a whole name only.
LEMMA OnlyMatch ==
  ASSUME NEW s \in Seq(Letters), NEW i, Matches(s) = {i}
  PROVE  Best(s) = Names[i]
<1> DEFINE B == Best(s)
<1>1. i \in Matches(s) /\ Matches(s) # {}
  OBVIOUS
<1>2. Names[i] \in Seq(Letters) /\ Len(Names[i]) \in Nat
  BY <1>1, NameFacts DEF Matches, Table
<1>3. /\ B \in Seq(Letters) /\ Len(B) <= Len(Names[i]) /\ Keep(Names[i], Len(B)) = B
      /\ \A k \in Nat : Agree(Matches(s), k) <=> k <= Len(B)
  BY <1>1, BestFacts
<1> HIDE DEF B
<1>4. Agree(Matches(s), Len(Names[i]))
  BY <1>2 DEF Agree
<1>5. Len(B) = Len(Names[i])
  BY <1>2, <1>3, <1>4
<1> QED
  BY <1>2, <1>3, <1>5, KeepAll DEF B

LEMMA TrimBlank ==
  ASSUME NEW b \in Seq(Letters)
  PROVE  Trimmed(Append(b, " ")) = b /\ b # Append(b, " ")
<1> DEFINE a == Append(b, " ")
<1>1. " " \in Letters
  BY ShellAssumption DEF Letters
<1>2. /\ a \in Seq(Letters) /\ Len(a) = Len(b) + 1 /\ Len(b) \in Nat
      /\ \A k \in 1 .. Len(b) : a[k] = b[k]
  BY <1>1, AppendLetter
<1>0. a[Len(b) + 1] = " "
  BY <1>1, AppendLetter
<1> HIDE DEF a
<1>3. Len(a) \in Nat /\ Len(a) > 0 /\ Len(a) - 1 = Len(b) /\ Len(a) # Len(b)
      /\ Len(b) \in 0 .. Len(a)
  BY <1>2
<1>4. a # << >> /\ a # b
  BY <1>3
<1>5. Last(a) = " "
  BY <1>0, <1>2 DEF Last
<1>6. Front(a) = Keep(a, Len(b))
  BY <1>3 DEF Front, Keep
<1>7. /\ Keep(a, Len(b)) \in Seq(Letters) /\ Len(Keep(a, Len(b))) = Len(b)
      /\ \A k \in 1 .. Len(b) : Keep(a, Len(b))[k] = a[k]
  BY <1>2, <1>3, KeepFacts
<1>8. Keep(a, Len(b)) = b
  BY <1>2, <1>7, SeqEqual
<1>9. Trimmed(a) = b
  BY <1>4, <1>5, <1>6, <1>8 DEF Trimmed
<1> QED
  BY <1>4, <1>9 DEF a

LEMMA TabStepSafe ==
  ASSUME ScreenOK, Tab
  PROVE  LET candidates == {Names[i] : i \in {j \in 1 .. Len(Names) :
                                                 IsStrictPrefix(line, Names[j])}}
             text == Trimmed(line')
         IN  IF candidates = {} THEN line' = line
             ELSE /\ text = LongestCommonPrefix(candidates)
                  /\ (text # line') <=> (candidates = {text})
<1> DEFINE S == {Names[i] : i \in Matches(line)}
           B == Best(line)
           T == Trimmed(line')
<1>1. line \in Texts /\ line \in Seq(Letters)
  BY TextFacts DEF ScreenOK
<1>2. line' = Completed(line)
  BY DEF Tab
<1>3. CASE Matches(line) = {}
  <2>1. line' = line /\ S = {}
    BY <1>1, <1>2, <1>3, CompletedFacts
  <2> QED
    BY <2>1 DEF Matches
<1>4. CASE Matches(line) # {}
  <2>1. S # {}
    BY <1>4
  <2>2. B = LongestCommonPrefix(S)
    BY <1>1, <1>4, BestIsLongest
  <2>3. B \in Seq(Letters)
    BY <1>1, <1>4, BestFacts
  <2>4. B # << >> => Last(B) # " "
    BY <1>1, <1>4, BestUnblank
  <2>5. line' = IF \E i \in Matches(line) : Matches(line) = {i} THEN Append(B, " ") ELSE B
    BY <1>1, <1>2, <1>4, CompletedFacts
  <2>6. T = B /\ ((T # line') <=> (S = {T}))
    <3>1. CASE \E i \in Matches(line) : Matches(line) = {i}
      <4>1. PICK i \in Matches(line) : Matches(line) = {i}
        BY <3>1
      <4>2. B = Names[i]
        BY <1>1, <4>1, OnlyMatch
      <4>3. S = {B}
        BY <4>1, <4>2
      <4> HIDE DEF B, S
      <4>4. line' = Append(B, " ")
        BY <2>5, <3>1
      <4>5. Trimmed(Append(B, " ")) = B /\ B # Append(B, " ")
        BY <2>3, TrimBlank
      <4> QED
        BY <4>3, <4>4, <4>5
    <3>2. CASE ~ \E i \in Matches(line) : Matches(line) = {i}
      <4>1. line' = B
        BY <2>5, <3>2
      <4>2. T = B
        BY <2>4, <4>1 DEF Trimmed
      <4>3. S # {B}
        <5> SUFFICES ASSUME S = {B} PROVE FALSE
          OBVIOUS
        <5>1. PICK i \in Matches(line) : TRUE
          BY <1>4
        <5>2. ASSUME NEW k \in Matches(line) PROVE k = i
          <6>1. Names[k] = Names[i]
            BY <5>1
          <6>2. k \in 1 .. Len(Names) /\ i \in 1 .. Len(Names)
            BY <5>1 DEF Matches
          <6> QED
            BY <6>1, <6>2, ShellAssumption, Zenon
        <5> QED
          BY <3>2, <5>1, <5>2
      <4> QED
        BY <4>1, <4>2, <4>3
    <3> QED
      BY <3>1, <3>2
  <2>7. S = {Names[i] : i \in {j \in 1 .. Len(Names) : IsStrictPrefix(line, Names[j])}}
    BY Zenon DEF Matches
  <2> HIDE DEF S, B
  <2> QED
    BY <2>1, <2>2, <2>6, <2>7, Zenon
<1> QED
  BY <1>3, <1>4

\* Tab never guesses: for every table of distinct names, the new line is the
\* longest text all the candidates share, with a blank only behind a name that
\* is the one candidate.
THEOREM TabNeverGuesses == Spec => TabIsSafe
<1> DEFINE Safe == LET candidates == {Names[i] : i \in {j \in 1 .. Len(Names) :
                                                           IsStrictPrefix(line, Names[j])}}
                       text == Trimmed(line')
                   IN  IF candidates = {} THEN line' = line
                       ELSE /\ text = LongestCommonPrefix(candidates)
                            /\ (text # line') <=> (candidates = {text})
<1>1. ScreenOK /\ Tab => Safe
  BY TabStepSafe
<1>2. ShellInv /\ [Next]_vars => [Tab => Safe]_vars
  <2> HIDE DEF Safe
  <2> QED
    BY <1>1 DEF ShellInv
<1> QED
  BY <1>2, ShellInvariant, PTL DEF Spec, TabIsSafe
===========================================================================
