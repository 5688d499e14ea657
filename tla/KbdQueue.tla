----------------------------- MODULE KbdQueue -----------------------------
(***************************************************************************)
(* The key queue of kernel/drivers/kbd.c: a ring of KBD_QUEUE bytes that    *)
(* the keyboard interrupt fills (push_key) and the shell empties           *)
(* (qizo_kbd_get).  The interrupt is one step, since interrupt gates keep   *)
(* interrupts off; the shell can be interrupted between reading the slot    *)
(* and moving tail, so its two statements are two steps.                    *)
(***************************************************************************)
EXTENDS Integers, Sequences

CONSTANTS
  KBD_QUEUE,   \* slots of the ring; one of them always stays empty
  Keys,        \* the key codes that may be pushed
  NoKey        \* what qizo_kbd_get returns when there is nothing (-1)

ASSUME QueueAssumption ==
  /\ KBD_QUEUE \in Nat /\ KBD_QUEUE > 1
  /\ NoKey \notin Keys

VARIABLES
  queue, head, tail,   \* the ring
  rpc,                 \* the reader: "poll", or "loaded" inside qizo_kbd_get
  c,                   \* the key it has read out of the slot
  last                 \* the key qizo_kbd_get returned last

ringVars == <<queue, head, tail>>
readerVars == <<rpc, c, last>>
queueVars == <<ringVars, readerVars>>

Slots == 0 .. KBD_QUEUE - 1

\* Mutant: the index is not wrapped.
MutSucc(i) == i + 1

\* The slot after slot i.
Succ(i) == (i + 1) % KBD_QUEUE

QueueInit ==
  /\ queue \in [Slots -> {NoKey}]
  /\ head = 0 /\ tail = 0
  /\ rpc = "poll" /\ c = NoKey /\ last = NoKey

\* Mutant: a full ring is not noticed.
MutPush(k) ==
  /\ queue' = [queue EXCEPT ![head] = k]
  /\ head' = Succ(head)
  /\ UNCHANGED tail

\* push_key: a key that finds the ring full is dropped.
Push(k) ==
  IF Succ(head) = tail
    THEN UNCHANGED ringVars
    ELSE /\ queue' = [queue EXCEPT ![head] = k]
         /\ head' = Succ(head)
         /\ UNCHANGED tail

PushStep(k) == Push(k) /\ UNCHANGED readerVars

\* qizo_kbd_get up to c = queue[tail]; nothing happens while the ring is empty.
Load ==
  /\ rpc = "poll"
  /\ head # tail
  /\ c' = queue[tail]
  /\ rpc' = "loaded"
  /\ UNCHANGED <<ringVars, last>>

\* Its last two statements: tail moves on and the key is returned.
Advance ==
  /\ rpc = "loaded"
  /\ tail' = Succ(tail)
  /\ last' = c
  /\ rpc' = "poll"
  /\ UNCHANGED <<queue, head, c>>

QueueNext == (\E k \in Keys : PushStep(k)) \/ Load \/ Advance

QueueSpec == QueueInit /\ [][QueueNext]_queueVars

---------------------------------------------------------------------------
\* How many keys are in the ring.
Used == IF head >= tail THEN head - tail ELSE head + KBD_QUEUE - tail

\* The slot of the j-th oldest key, j >= 1.
SlotOf(j) ==
  IF tail + j - 1 >= KBD_QUEUE THEN tail + j - 1 - KBD_QUEUE ELSE tail + j - 1

\* The refinement mapping: the keys of the ring from tail to head.
Items == [j \in 1 .. Used |-> queue[SlotOf(j)]]

Abstract == INSTANCE KeyQueue WITH items <- Items, last <- last,
                                   Capacity <- KBD_QUEUE - 1

\* The ring with its interruptible reader behaves as a bounded first-in
\* first-out queue: no key is overwritten, duplicated or reordered by an
\* interrupt that lands inside qizo_kbd_get.
RingIsQueue == Abstract!Spec
===========================================================================
