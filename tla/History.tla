------------------------------ MODULE History ------------------------------
(***************************************************************************)
(* The command history of kernel/shell.c: a ring of HIST_MAX texts, the    *)
(* number ever remembered (hist_count, which also gives the ring's place)  *)
(* and the entry the user has walked to (hist_at; hist_count means none).  *)
(***************************************************************************)
EXTENDS Integers, Sequences

CONSTANTS
  HIST_MAX,   \* entries of the ring
  Texts,      \* what can be remembered
  NoText      \* what a slot holds before it is used

ASSUME HistoryAssumption == HIST_MAX \in Nat /\ HIST_MAX > 0

VARIABLES hist, hist_count, hist_at

histVars == <<hist, hist_count, hist_at>>

Ring == 0 .. HIST_MAX - 1

HistInit ==
  /\ hist = [i \in Ring |-> NoText]
  /\ hist_count = 0 /\ hist_at = 0

\* hist_first: the oldest entry that is still there.
HistFirst == IF hist_count > HIST_MAX THEN hist_count - HIST_MAX ELSE 0

\* Mutant: the search looks at the last HIST_MAX - 1 entries only.
MutKnown(w) ==
  \E i \in (HistFirst + 1) .. hist_count - 1 : hist[i % HIST_MAX] = w

\* The search of push_history.
Known(w) == \E i \in HistFirst .. hist_count - 1 : hist[i % HIST_MAX] = w

\* Mutant: the shell forgets to reset hist_at, which is then left behind.
MutRemember(w) ==
  /\ IF Known(w)
       THEN UNCHANGED <<hist, hist_count>>
       ELSE /\ hist' = [hist EXCEPT ![hist_count % HIST_MAX] = w]
            /\ hist_count' = hist_count + 1
  /\ UNCHANGED hist_at

\* push_history on a line that is not empty, and the assignment to hist_at
\* that follows its call.
Remember(w) ==
  /\ IF Known(w)
       THEN UNCHANGED <<hist, hist_count>>
       ELSE /\ hist' = [hist EXCEPT ![hist_count % HIST_MAX] = w]
            /\ hist_count' = hist_count + 1
  /\ hist_at' = hist_count'

\* recall(-1) and recall(1), as far as hist_at goes.
Older ==
  /\ hist_count # HistFirst
  /\ hist_at # HistFirst
  /\ hist_at' = hist_at - 1
  /\ UNCHANGED <<hist, hist_count>>

Newer ==
  /\ hist_count # HistFirst
  /\ hist_at' = IF hist_at + 1 >= hist_count THEN hist_count ELSE hist_at + 1
  /\ UNCHANGED <<hist, hist_count>>

\* The text recall puts on the line when it has moved to entry i.
Recalled(i) == hist[(i - HistFirst) % HIST_MAX]

HistNext == (\E w \in Texts : Remember(w)) \/ Older \/ Newer

HistSpec == HistInit /\ [][HistNext]_histVars

---------------------------------------------------------------------------
\* The refinement mapping: the entries cmd_hist prints, in its order.
Recent ==
  [j \in 1 .. hist_count - HistFirst |-> hist[(HistFirst + j - 1) % HIST_MAX]]

Abstract == INSTANCE RecentList WITH recent <- Recent, Capacity <- HIST_MAX

\* The ring keeps the last HIST_MAX distinct texts in the order they came,
\* also after hist_count has run past the end of the ring.
RingIsRecent == Abstract!Spec

\* recall subtracts hist_first from hist_at, both unsigned: hist_at never
\* falls behind the oldest entry, whatever was remembered since, and never
\* passes the newest.
HistAtInWindow == HistFirst <= hist_at /\ hist_at <= hist_count
===========================================================================
