-------------------------- MODULE KbdQueueProofs --------------------------
(***************************************************************************)
(* The ring of kbd.c implements the bounded first-in first-out queue, for  *)
(* every ring size and every set of keys, alone and behind the keyboard    *)
(* interrupt; and the decoder in that interrupt agrees with the buttons,   *)
(* for every table and every keyboard whose codes are not prefixes.        *)
(***************************************************************************)
EXTENDS Keyboard, KernelLemmas, SequenceTheorems, TLAPS

RingTypeOK ==
  /\ queue \in [Slots -> Keys \cup {NoKey}]
  /\ head \in Slots /\ tail \in Slots
  /\ rpc \in {"poll", "loaded", "mouse"}
  /\ c \in Keys \cup {NoKey} /\ last \in Keys \cup {NoKey}

\* An interrupt may add keys while the reader holds one, but it can neither
\* empty the ring nor overwrite the slot the reader has read.
LoadedIsOldest == rpc = "loaded" => head # tail /\ c = queue[tail]

RingInv == RingTypeOK /\ LoadedIsOldest

LEMMA SuccFacts ==
  ASSUME NEW i \in Slots
  PROVE  /\ Succ(i) \in Slots
         /\ Succ(i) = IF i = KBD_QUEUE - 1 THEN 0 ELSE i + 1
  BY QueueAssumption DEF Succ, Slots

\* No step of the queue breaks the invariant of the ring.
LEMMA RingNext ==
  ASSUME RingInv, [QueueNext]_queueVars
  PROVE  RingInv'
<1> USE QueueAssumption DEF RingInv, RingTypeOK, LoadedIsOldest
<1>1. ASSUME NEW k \in Keys, PushStep(k) PROVE RingInv'
  <2>1. CASE Succ(head) = tail
    BY <1>1, <2>1 DEF PushStep, Push, readerVars, ringVars
  <2>2. CASE Succ(head) # tail
    <3>1. /\ queue' = [queue EXCEPT ![head] = k] /\ head' = Succ(head) /\ tail' = tail
          /\ rpc' = rpc /\ c' = c /\ last' = last
      BY <1>1, <2>2 DEF PushStep, Push, readerVars
    <3>2. Succ(head) \in Slots
      BY SuccFacts
    <3> QED
      BY <2>2, <3>1, <3>2
  <2> QED
    BY <2>1, <2>2
<1>2. CASE Load
  BY <1>2 DEF Load, ringVars
<1>3. CASE Advance
  <2>1. Succ(tail) \in Slots
    BY SuccFacts
  <2> QED
    BY <1>3, <2>1 DEF Advance
<1>4. CASE UNCHANGED queueVars
  BY <1>4 DEF queueVars, ringVars, readerVars
<1> QED
  BY <1>1, <1>2, <1>3, <1>4 DEF QueueNext

LEMMA RingInit == QueueInit => RingInv
BY QueueAssumption DEF QueueInit, RingInv, RingTypeOK, LoadedIsOldest, Slots

\* The ring invariant is inductive.
THEOREM RingInvariant == QueueSpec => []RingInv
BY RingInit, RingNext, PTL DEF QueueSpec

LEMMA UsedFacts ==
  ASSUME RingInv
  PROVE  /\ Used \in 0 .. KBD_QUEUE - 1
         /\ \A j \in 1 .. Used : SlotOf(j) \in Slots /\ SlotOf(j) # head
         /\ Items \in Seq(Keys \cup {NoKey}) /\ Len(Items) = Used
<1> USE QueueAssumption DEF RingInv, RingTypeOK
<1>1. Used \in 0 .. KBD_QUEUE - 1
  BY DEF Used, Slots
<1>2. \A j \in 1 .. Used : SlotOf(j) \in Slots /\ SlotOf(j) # head
  BY <1>1 DEF Used, SlotOf, Slots
<1>3. Items \in [1 .. Used -> Keys \cup {NoKey}]
  BY <1>2 DEF Items
<1> QED
  BY <1>1, <1>2, <1>3

\* A push either leaves a full queue as it is or appends the key.
LEMMA PushRefines ==
  ASSUME RingInv, RingInv', NEW k \in Keys, PushStep(k)
  PROVE  Abstract!Put(k) \/ Abstract!Lose
<1> USE QueueAssumption DEF RingInv, RingTypeOK
<1>1. CASE Succ(head) = tail
  <2>1. UNCHANGED queueVars
    BY <1>1 DEF PushStep, Push, queueVars
  <2>2. Items' = Items /\ last' = last
    BY <2>1 DEF queueVars, ringVars, readerVars, Items, Used, SlotOf
  <2>3. Used = KBD_QUEUE - 1
    BY <1>1, SuccFacts, SMTT(30) DEF Used, Slots
  <2> QED
    BY <2>2, <2>3, UsedFacts DEF Abstract!Lose, Abstract!vars
<1>2. CASE Succ(head) # tail
  <2>1. /\ queue' = [queue EXCEPT ![head] = k] /\ head' = Succ(head) /\ tail' = tail
        /\ last' = last
    BY <1>2 DEF PushStep, Push, readerVars
  <2>2. Used < KBD_QUEUE - 1 /\ Used' = Used + 1 /\ Used \in Nat
    <3>1. head' = IF head = KBD_QUEUE - 1 THEN 0 ELSE head + 1
      BY <2>1, SuccFacts
    <3> QED
      BY <1>2, <2>1, <3>1 DEF Used, Slots
  <2>3. \A j : SlotOf(j)' = SlotOf(j)
    BY <2>1 DEF SlotOf
  <2>4. SlotOf(Used + 1) = head
    BY <2>2 DEF SlotOf, Used, Slots
  <2>5. \A j \in 1 .. Used : queue'[SlotOf(j)] = queue[SlotOf(j)]
    BY <2>1, UsedFacts
  <2>6. queue'[head] = k
    BY <2>1
  <2>7. Items' = [j \in 1 .. Used + 1 |-> queue'[SlotOf(j)]]
    BY <2>2, <2>3 DEF Items
  <2>8. Append(Items, k) = [j \in 1 .. Used + 1 |-> IF j = Used + 1 THEN k ELSE Items[j]]
    <3>1. Items \in Seq(Keys \cup {NoKey}) /\ Len(Items) = Used /\ k \in Keys \cup {NoKey}
      BY UsedFacts
    <3> QED
      BY <3>1, AppendFacts
  <2>9. ASSUME NEW j \in 1 .. Used + 1
        PROVE  queue'[SlotOf(j)] = IF j = Used + 1 THEN k ELSE Items[j]
    <3>1. CASE j = Used + 1
      BY <3>1, <2>4, <2>6
    <3>2. CASE j # Used + 1
      <4>1. j \in 1 .. Used
        BY <2>2, <3>2
      <4> QED
        BY <4>1, <3>2, <2>5 DEF Items
    <3> QED
      BY <3>1, <3>2
  <2>10. Items' = Append(Items, k)
    BY <2>7, <2>8, <2>9
  <2> QED
    BY <2>1, <2>2, <2>10, UsedFacts DEF Abstract!Put
<1> QED
  BY <1>1, <1>2

\* Moving tail takes the oldest key, which is the one that was read.
LEMMA AdvanceRefines ==
  ASSUME RingInv, RingInv', Advance
  PROVE  Abstract!Get
<1> USE QueueAssumption DEF RingInv, RingTypeOK
<1>1. /\ tail' = Succ(tail) /\ head' = head /\ queue' = queue /\ last' = c
      /\ head # tail /\ c = queue[tail]
  BY DEF Advance, LoadedIsOldest
<1>0. tail' = IF tail = KBD_QUEUE - 1 THEN 0 ELSE tail + 1
  BY <1>1, SuccFacts
<1>2. Used > 0 /\ Used' = Used - 1 /\ Used \in Nat
  BY <1>0, <1>1 DEF Used, Slots
<1>3. SlotOf(1) = tail
  BY DEF SlotOf, Slots
<1>4. Items # << >> /\ Head(Items) = c
  BY <1>1, <1>2, <1>3, UsedFacts DEF Items
<1>5. ASSUME NEW j \in 1 .. Used - 1
      PROVE  SlotOf(j)' = SlotOf(j + 1)
  <2>1. /\ tail \in Nat /\ tail < KBD_QUEUE /\ KBD_QUEUE \in Nat /\ j \in Nat /\ j >= 1
        /\ j < KBD_QUEUE
    BY <1>2, UsedFacts DEF Slots
  <2>2. SlotOf(j)' = IF tail' + j - 1 >= KBD_QUEUE THEN tail' + j - 1 - KBD_QUEUE
                     ELSE tail' + j - 1
    BY DEF SlotOf
  <2> QED
    BY <1>0, <2>1, <2>2 DEF SlotOf
<1>6. Tail(Items) = [j \in 1 .. Used - 1 |-> Items[j + 1]]
  <2>1. Items \in Seq(Keys \cup {NoKey}) /\ Len(Items) = Used
    BY UsedFacts
  <2> QED
    BY <1>4, <2>1, TailFacts
<1>7. \A j \in 1 .. Used - 1 : Items[j + 1] = queue[SlotOf(j + 1)]
  BY <1>2 DEF Items
<1>8. Items' = [j \in 1 .. Used - 1 |-> queue[SlotOf(j + 1)]]
  BY <1>1, <1>2, <1>5 DEF Items
<1>9. Items' = Tail(Items)
  BY <1>6, <1>7, <1>8
<1> QED
  BY <1>1, <1>4, <1>9 DEF Abstract!Get

LEMMA QueueStarts == QueueInit => Abstract!Init
<1> SUFFICES ASSUME QueueInit PROVE Abstract!Init
  OBVIOUS
<1>1. Used = 0
  BY DEF QueueInit, Used
<1>2. Items = << >>
  BY <1>1 DEF Items
<1> QED
  BY <1>2 DEF QueueInit, Abstract!Init

LEMMA QueueSteps ==
  ASSUME RingInv, RingInv', [QueueNext]_queueVars
  PROVE  [Abstract!Next]_(Abstract!vars)
<1>1. ASSUME NEW k \in Keys, PushStep(k) PROVE Abstract!Next
  BY <1>1, PushRefines DEF Abstract!Next
<1>2. CASE Load
  BY <1>2 DEF Load, ringVars, Abstract!vars, Items, Used, SlotOf
<1>3. CASE Advance
  BY <1>3, AdvanceRefines DEF Abstract!Next
<1>4. CASE UNCHANGED queueVars
  BY <1>4 DEF queueVars, ringVars, readerVars, Abstract!vars, Items, Used, SlotOf
<1> QED
  BY <1>1, <1>2, <1>3, <1>4 DEF QueueNext

\* The ring implements the bounded first-in first-out queue.
THEOREM RingRefinesQueue == QueueSpec => RingIsQueue
BY QueueStarts, QueueSteps, RingInvariant, PTL DEF QueueSpec, RingIsQueue, Abstract!Spec

---------------------------------------------------------------------------
(* The whole keyboard path. *)
Byte == 0 .. 255

KbdInv == TypeOK /\ LoadedIsOldest /\ wire \in Seq(Byte)

LEMMA KbdRing ==
  ASSUME KbdInv
  PROVE  RingInv
  BY DEF KbdInv, TypeOK, RingInv, RingTypeOK

LEMMA TableFacts ==
  ASSUME NEW b \in Byte, NEW shift \in BOOLEAN, NEW ctrl \in BOOLEAN
  PROVE  Extended(b) \in Keys \cup {NoKey} /\ Translate(b, shift, ctrl) \in Keys \cup {NoKey}
  BY KeyboardAssumption, Zenon DEF Byte

LEMMA ButtonFacts ==
  ASSUME NEW k \in Buttons
  PROVE  /\ k = [code |-> k.code, ext |-> k.ext] /\ k.ext \in BOOLEAN
         /\ k.code \in Byte /\ k.code \notin Reserved
  BY KeyboardAssumption, SMT DEF Byte

\* What an interrupt does to the ring is a push or nothing.
LEMMA EmitFacts ==
  ASSUME NEW k \in Keys \cup {NoKey}, Emit(k)
  PROVE  /\ UNCHANGED ringVars \/ \E q \in Keys : Push(q)
         /\ pushed' = IF k = NoKey THEN pushed ELSE Append(pushed, k)
<1>1. CASE k = NoKey
  BY <1>1, Zenon DEF Emit
<1>2. CASE k # NoKey
  <2>1. k \in Keys
    BY <1>2
  <2> QED
    BY <1>2, <2>1, Zenon DEF Emit
<1> QED
  BY <1>1, <1>2

LEMMA DecodeFacts ==
  ASSUME KbdInv, NEW b \in Byte, Decode(b)
  PROVE  /\ UNCHANGED ringVars \/ \E q \in Keys : Push(q)
         /\ {shift_left, shift_right, ctrl_key, caps, pending_release, ext}' \subseteq BOOLEAN
<1>1. /\ shift_left \in BOOLEAN /\ shift_right \in BOOLEAN /\ ctrl_key \in BOOLEAN
      /\ caps \in BOOLEAN /\ pending_release \in BOOLEAN /\ ext \in BOOLEAN
  BY DEF KbdInv, TypeOK
<1>2. CASE Prefix(b)
  BY <1>1, <1>2, Zenon DEF Prefix
<1>3. CASE ExtendedKey(b)
  <2> DEFINE k == IF pending_release THEN NoKey ELSE Extended(b)
  <2>1. k \in Keys \cup {NoKey}
    BY <1>1, TableFacts
  <2>2. Emit(k)
    BY <1>3 DEF ExtendedKey
  <2> HIDE DEF k
  <2>3. UNCHANGED ringVars \/ \E q \in Keys : Push(q)
    BY <2>1, <2>2, EmitFacts
  <2> QED
    BY <1>1, <1>3, <2>3, Zenon DEF ExtendedKey
<1>4. CASE PlainKey(b)
  <2> DEFINE shift == Shifted(shift_left, shift_right, caps)
             silent == pending_release \/ b \in {LSHIFT, RSHIFT, CTRL, CAPS, 242, 245}
             k == IF silent THEN NoKey ELSE Translate(b, shift, ctrl_key)
  <2>1. shift \in BOOLEAN
    BY <1>1 DEF Shifted
  <2>2. k \in Keys \cup {NoKey}
    <3> HIDE DEF shift, silent
    <3>1. Translate(b, shift, ctrl_key) \in Keys \cup {NoKey}
      BY <1>1, <2>1, TableFacts
    <3> QED
      BY <3>1, Zenon
  <2>3. Emit(k)
    BY <1>4, Zenon DEF PlainKey
  <2> HIDE DEF k
  <2>4. UNCHANGED ringVars \/ \E q \in Keys : Push(q)
    BY <2>2, <2>3, EmitFacts
  <2>5. /\ shift_left' = (IF b = LSHIFT THEN ~pending_release ELSE shift_left)
        /\ shift_right' = (IF b = RSHIFT THEN ~pending_release ELSE shift_right)
        /\ ctrl_key' = (IF b = CTRL THEN ~pending_release ELSE ctrl_key)
        /\ caps' = (IF b = CAPS /\ ~pending_release THEN ~caps ELSE caps)
        /\ pending_release' = FALSE /\ ext' = ext
    BY <1>4, Zenon DEF PlainKey
  <2>6. /\ shift_left' \in BOOLEAN /\ shift_right' \in BOOLEAN /\ ctrl_key' \in BOOLEAN
        /\ caps' \in BOOLEAN /\ pending_release' \in BOOLEAN /\ ext' \in BOOLEAN
    BY <1>1, <2>5, Zenon
  <2> QED
    BY <2>4, <2>6, Zenon
<1> QED
  BY <1>2, <1>3, <1>4 DEF Decode

\* The commands of the shell leave the ring alone, and "mouse" starts from the poll only.
MouseMoves ==
  /\ UNCHANGED <<ringVars, c, last>>
  /\ rpc # "loaded" /\ rpc' \in {"poll", "mouse"}

LEMMA KbdInit == Init => KbdInv
<1> SUFFICES ASSUME Init PROVE KbdInv
  OBVIOUS
<1>1. RingInv
  BY RingInit DEF Init
<1>2. wire \in Seq(Byte)
  BY DEF Init
<1>3. /\ obf = NoByte /\ obf_aux = FALSE /\ aux \in 0 .. MaxAux /\ polls = 0
      /\ irq1 \in BOOLEAN /\ shift_left = FALSE /\ shift_right = FALSE
      /\ ctrl_key = FALSE /\ caps = FALSE /\ pending_release = FALSE /\ ext = FALSE
      /\ astray = FALSE
  BY DEF Init
<1>4. polls \in 0 .. MouseReads
  BY <1>3 DEF MouseReads
<1> QED
  BY <1>1, <1>2, <1>3, <1>4, Zenon DEF KbdInv, TypeOK, RingInv, RingTypeOK

\* Each step of the path is a step of the queue, or the "mouse" command's.
LEMMA KbdNext ==
  ASSUME KbdInv, [Next]_vars
  PROVE  KbdInv' /\ ([QueueNext]_queueVars \/ MouseMoves)
<1> DEFINE Rest ==
             /\ obf \in Byte \cup {NoByte} /\ polls \in 0 .. MouseReads
             /\ aux \in 0 .. MaxAux /\ (obf_aux => obf # NoByte)
             /\ {obf_aux, irq1, shift_left, shift_right, ctrl_key, caps, pending_release, ext,
                 astray} \subseteq BOOLEAN
             /\ wire \in Seq(Byte)
<1>1. RingInv /\ Rest
  BY KbdRing DEF KbdInv, TypeOK, Byte
<1>2. ASSUME RingInv', Rest' PROVE KbdInv'
  BY <1>2, Zenon DEF KbdInv, TypeOK, RingInv, RingTypeOK, Byte
<1>3. ASSUME [QueueNext]_queueVars, Rest'
      PROVE  KbdInv' /\ ([QueueNext]_queueVars \/ MouseMoves)
  BY <1>1, <1>2, <1>3, RingNext
<1>4. ASSUME MouseMoves, Rest'
      PROVE  KbdInv' /\ ([QueueNext]_queueVars \/ MouseMoves)
  <2>1. RingInv'
    BY <1>1, <1>4 DEF MouseMoves, RingInv, RingTypeOK, LoadedIsOldest, ringVars
  <2> QED
    BY <1>2, <1>4, <2>1
<1>5. ASSUME NEW bytes \in Seq(Byte), Send(bytes)
      PROVE  [QueueNext]_queueVars /\ Rest'
  <2>1. /\ wire' = wire \o bytes /\ obf' = obf /\ irq1' = irq1 /\ polls' = polls
        /\ shift_left' = shift_left /\ shift_right' = shift_right /\ ctrl_key' = ctrl_key
        /\ caps' = caps /\ pending_release' = pending_release /\ ext' = ext
        /\ astray' = astray /\ aux' = aux /\ obf_aux' = obf_aux
    BY <1>5 DEF Send, portVars, decoderVars, mouseVars
  <2>2. wire' \in Seq(Byte)
    BY <1>1, <2>1, ConcatProperties
  <2>3. UNCHANGED queueVars
    BY <1>5 DEF Send
  <2> QED
    BY <1>1, <2>1, <2>2, <2>3, Zenon
<1>6. ASSUME NEW k \in Buttons, Press(k) \/ Release(k)
      PROVE  [QueueNext]_queueVars /\ Rest'
  <2>1. k.code \in Byte
    BY ButtonFacts
  <2>2. Make(k) \in Seq(Byte) /\ Break(k) \in Seq(Byte)
    <3>1. E0 \in Byte /\ F0 \in Byte
      BY DEF E0, F0, Byte
    <3> QED
      BY <2>1, <3>1 DEF Make, Break
  <2> QED
    BY <1>5, <1>6, <2>2 DEF Press, Release
<1>7. CASE Reply
  <2>1. PICK b \in {ACK, SELFTEST} : Send(<<b>>)
    BY <1>7 DEF Reply
  <2>2. <<b>> \in Seq(Byte)
    BY DEF ACK, SELFTEST, Byte
  <2> QED
    BY <1>3, <1>5, <2>1, <2>2
<1>8. CASE Deliver
  <2>1. /\ wire # << >> /\ obf' = Head(wire) /\ wire' = Tail(wire) /\ irq1' = TRUE
        /\ obf_aux' = FALSE /\ aux' = aux
        /\ polls' = polls /\ shift_left' = shift_left /\ shift_right' = shift_right
        /\ ctrl_key' = ctrl_key /\ caps' = caps /\ pending_release' = pending_release
        /\ ext' = ext /\ astray' = astray
    BY <1>8 DEF Deliver, decoderVars, mouseVars
  <2>2. obf' \in Byte /\ wire' \in Seq(Byte)
    BY <1>1, <2>1, HeadTailProperties
  <2>3. UNCHANGED queueVars
    BY <1>8 DEF Deliver
  <2>4. Rest'
    BY <1>1, <2>1, <2>2, Zenon
  <2> QED
    BY <1>3, <2>3, <2>4
<1>15. CASE DeliverAux
  <2>1. /\ obf' \in AuxBytes /\ obf_aux' = TRUE /\ aux > 0 /\ aux' = aux - 1
        /\ UNCHANGED <<queueVars, wire, irq1, polls, astray, decoderVars>>
    BY <1>15 DEF DeliverAux, deviceVars, mouseVars
  <2>2. obf' \in Byte /\ obf' # NoByte
    BY <2>1, AuxAssumption, SMT DEF Byte, NoByte
  <2>3. aux' \in 0 .. MaxAux
    BY <1>1, <2>1, AuxAssumption
  <2>4. Rest'
    BY <1>1, <2>1, <2>2, <2>3, Zenon DEF decoderVars
  <2> QED
    BY <1>3, <2>1, <2>4
<1>9. CASE Irq1
  <2>1. irq1' = FALSE /\ UNCHANGED <<readerVars, wire, aux, polls>>
    BY <1>9, Zenon DEF Irq1, deviceVars
  <2>2. CASE obf = NoByte
    <3>1. UNCHANGED <<portVars, decoderVars, ringVars, astray>>
      BY <1>9, <2>2, Zenon DEF Irq1
    <3>2. UNCHANGED queueVars
      BY <2>1, <3>1 DEF queueVars
    <3>3. Rest'
      BY <1>1, <2>1, <3>1, Zenon DEF portVars, decoderVars
    <3> QED
      BY <1>3, <3>2, <3>3
  <2>3. CASE obf # NoByte
    <3>1. /\ obf' = NoByte /\ obf_aux' = FALSE /\ Decode(obf) /\ obf \in Byte
          /\ astray' \in BOOLEAN
      BY <1>1, <1>9, <2>3, Zenon DEF Irq1, ReadData
    <3>2. /\ UNCHANGED ringVars \/ \E q \in Keys : Push(q)
          /\ {shift_left, shift_right, ctrl_key, caps, pending_release, ext}' \subseteq BOOLEAN
      BY <3>1, DecodeFacts
    <3>3. [QueueNext]_queueVars
      BY <2>1, <3>2, Zenon DEF QueueNext, PushStep, queueVars
    <3>4. Rest'
      BY <1>1, <2>1, <3>1, <3>2, Zenon
    <3> QED
      BY <1>3, <3>3, <3>4
  <2> QED
    BY <2>2, <2>3
<1>10. CASE Reader
  <2>1. [QueueNext]_queueVars
    BY <1>10 DEF Reader, QueueNext
  <2>2. Rest'
    BY <1>1, <1>10, Zenon DEF Reader, deviceVars, portVars, decoderVars, mouseVars
  <2> QED
    BY <1>3, <2>1, <2>2
<1>11. CASE MouseBegin
  <2>1. MouseMoves
    BY <1>11 DEF MouseBegin, MouseMoves
  <2>2. polls' \in 0 .. MouseReads
    BY <1>11 DEF MouseBegin, MouseReads
  <2>3. Rest'
    BY <1>1, <1>11, <2>2, Zenon DEF MouseBegin, deviceVars, portVars, decoderVars
  <2> QED
    BY <1>4, <2>1, <2>3
<1>12. CASE MouseDrain
  <2>1. UNCHANGED queueVars
    BY <1>12 DEF MouseDrain
  <2>2. polls' \in 0 .. MouseReads
    BY <1>1, <1>12 DEF MouseDrain, MouseReads
  <2>3. Rest'
    BY <1>1, <1>12, <2>2, Zenon DEF MouseDrain, ReadData, deviceVars, decoderVars
  <2> QED
    BY <1>3, <2>1, <2>3
<1>13. CASE MouseEnd
  <2>1. MouseMoves
    BY <1>13 DEF MouseEnd, MouseMoves
  <2>2. polls' \in 0 .. MouseReads
    BY <1>13 DEF MouseEnd, MouseReads
  <2>3. Rest'
    BY <1>1, <1>13, <2>2, Zenon DEF MouseEnd, deviceVars, portVars, decoderVars
  <2> QED
    BY <1>4, <2>1, <2>3
<1>14. CASE UNCHANGED vars
  <2>1. UNCHANGED queueVars
    BY <1>14 DEF vars
  <2>2. Rest'
    BY <1>1, <1>14, Zenon DEF vars, deviceVars, portVars, decoderVars, mouseVars
  <2> QED
    BY <1>3, <2>1, <2>2
<1> QED
  BY <1>3, <1>6, <1>7, <1>8, <1>9, <1>10, <1>11, <1>12, <1>13, <1>14, <1>15 DEF Next

(* The ring, its reader and the controller keep their types, whatever the    *)
(* keyboard sends and however the "mouse" command drains the data port.     *)
THEOREM KeyboardTypeCorrect == Spec => []TypeOK
<1>1. KbdInv => TypeOK
  BY DEF KbdInv
<1> QED
  BY <1>1, KbdInit, KbdNext, PTL DEF Spec

(* Behind the interrupt handler, with the shell polling and the "mouse"      *)
(* command competing, the ring is still the bounded queue.                  *)
THEOREM KeyboardRefinesQueue == Spec => RingIsQueue
<1>1. Init => Abstract!Init
  BY QueueStarts DEF Init
<1>2. KbdInv /\ [Next]_vars => KbdInv' /\ [Abstract!Next]_(Abstract!vars)
  <2> SUFFICES ASSUME KbdInv, [Next]_vars
               PROVE  KbdInv' /\ [Abstract!Next]_(Abstract!vars)
    OBVIOUS
  <2>1. KbdInv' /\ ([QueueNext]_queueVars \/ MouseMoves)
    BY KbdNext
  <2>2. RingInv /\ RingInv'
    BY <2>1, KbdRing DEF KbdInv, TypeOK, RingInv, RingTypeOK
  <2>3. CASE [QueueNext]_queueVars
    BY <2>1, <2>2, <2>3, QueueSteps
  <2>4. CASE MouseMoves
    BY <2>1, <2>4 DEF MouseMoves, ringVars, Abstract!vars, Items, Used, SlotOf
  <2> QED
    BY <2>1, <2>3, <2>4
<1> QED
  BY <1>1, <1>2, KbdInit, PTL DEF Spec, RingIsQueue, Abstract!Spec

---------------------------------------------------------------------------
(* The decoder.  A state of it is what the driver remembers between two     *)
(* bytes and the keys it has pushed; a sequence of bytes leads from one      *)
(* state to another along the states between them.                          *)
Emitted(keys, k) == IF k = NoKey THEN keys ELSE Append(keys, k)

After(s, b) ==
  IF b \in Reserved
  THEN [left |-> s.left, right |-> s.right, ctrl |-> s.ctrl, caps |-> s.caps,
        rel |-> (s.rel \/ b = F0) /\ b # SELFTEST, ext |-> s.ext \/ b \in {E0, E1},
        keys |-> s.keys]
  ELSE IF s.ext
  THEN [left |-> s.left, right |-> s.right, ctrl |-> s.ctrl, caps |-> s.caps,
        rel |-> FALSE, ext |-> FALSE,
        keys |-> Emitted(s.keys, IF s.rel THEN NoKey ELSE Extended(b))]
  ELSE [left |-> IF b = LSHIFT THEN ~s.rel ELSE s.left,
        right |-> IF b = RSHIFT THEN ~s.rel ELSE s.right,
        ctrl |-> IF b = CTRL THEN ~s.rel ELSE s.ctrl,
        caps |-> IF b = CAPS /\ ~s.rel THEN ~s.caps ELSE s.caps,
        rel |-> FALSE, ext |-> s.ext,
        keys |-> Emitted(s.keys,
                         IF s.rel \/ b \in {LSHIFT, RSHIFT, CTRL, CAPS, 242, 245} THEN NoKey
                         ELSE Translate(b, Shifted(s.left, s.right, s.caps), s.ctrl))]

\* Where the decoder is, and where the buttons say it has to end up.
Now ==
  [left |-> shift_left, right |-> shift_right, ctrl |-> ctrl_key, caps |-> caps,
   rel |-> pending_release, ext |-> ext, keys |-> pushed]
Goal ==
  [left |-> Held(LSHIFT), right |-> Held(RSHIFT), ctrl |-> Held(CTRL), caps |-> caps_lit,
   rel |-> FALSE, ext |-> FALSE, keys |-> typed]

Begins(s, t) == Len(s) \in Nat /\ Len(t) \in Nat /\ Len(s) <= Len(t) /\ \A i \in 1 .. Len(s) : s[i] = t[i]

Path(p, bytes, from, to) ==
  /\ p[0] = from /\ p[Len(bytes)] = to
  /\ \A j \in 1 .. Len(bytes) : p[j] = After(p[j - 1], bytes[j])
  /\ \A j \in 0 .. Len(bytes) : Begins(p[j].keys, to.keys)
Leads(bytes, from, to) == \E p : Path(p, bytes, from, to)

\* The bytes of the keyboard not decoded yet; they lead the decoder to what
\* the buttons say.
Ours == obf # NoByte /\ ~obf_aux
Pending == IF Ours THEN <<obf>> \o wire ELSE wire
DecInv ==
  /\ typed \in Seq(Keys \cup {NoKey}) /\ pushed \in Seq(Keys \cup {NoKey})
  /\ down \subseteq Buttons /\ caps_lit \in BOOLEAN
  /\ ~astray => Leads(Pending, Now, Goal)

LEMMA BeginsItself ==
  ASSUME NEW S, NEW s \in Seq(S)
  PROVE  Begins(s, s)
<1>1. Len(s) \in Nat
  OBVIOUS
<1> QED
  BY <1>1 DEF Begins

LEMMA BeginsFurther ==
  ASSUME NEW r, NEW s, NEW t, Begins(r, s), Begins(s, t)
  PROVE  Begins(r, t)
  BY DEF Begins

LEMMA EmittedFacts ==
  ASSUME NEW S, NEW s \in Seq(S), NEW k \in S
  PROVE  Emitted(s, k) \in Seq(S) /\ Begins(s, Emitted(s, k))
<1>1. /\ Len(s) \in Nat /\ Len(Append(s, k)) = Len(s) + 1 /\ Append(s, k) \in Seq(S)
      /\ \A i \in 1 .. Len(s) : Append(s, k)[i] = s[i]
  OBVIOUS
<1>2. Begins(s, Append(s, k))
  BY ONLY <1>1 DEF Begins
<1> QED
  BY <1>1, <1>2, BeginsItself DEF Emitted

\* One more byte leads one state further.
LEMMA LeadsAppend ==
  ASSUME NEW bytes \in Seq(Byte), NEW b \in Byte, NEW from, NEW to,
         Leads(bytes, from, to),
         Begins(to.keys, After(to, b).keys), Begins(After(to, b).keys, After(to, b).keys)
  PROVE  Leads(Append(bytes, b), from, After(to, b))
<1> DEFINE u == After(to, b)
           n == Len(bytes)
           more == Append(bytes, b)
<1>1. PICK p : Path(p, bytes, from, to)
  BY DEF Leads
<1> DEFINE q == [j \in 0 .. n + 1 |-> IF j <= n THEN p[j] ELSE u]
<1>2. /\ p[0] = from /\ p[n] = to
      /\ \A j \in 1 .. n : p[j] = After(p[j - 1], bytes[j])
      /\ \A j \in 0 .. n : Begins(p[j].keys, to.keys)
  BY <1>1 DEF Path
<1>3. n \in Nat /\ Len(more) = n + 1 /\ more[n + 1] = b /\ \A j \in 1 .. n : more[j] = bytes[j]
  OBVIOUS
<1>4. u = After(to, b) /\ Begins(to.keys, u.keys) /\ Begins(u.keys, u.keys)
  OBVIOUS
<1> HIDE DEF u, n, more
<1>5. (\A j \in 0 .. n : q[j] = p[j]) /\ q[n + 1] = u
  BY <1>3
<1> HIDE DEF q
<1>6. q[0] = from /\ q[Len(more)] = u
  BY <1>2, <1>3, <1>5
<1>7. ASSUME NEW j \in 1 .. Len(more) PROVE q[j] = After(q[j - 1], more[j])
  <2>1. CASE j = n + 1
    <3>1. n \in 0 .. n /\ (n + 1) - 1 = n
      BY <1>3
    <3>2. q[n] = to
      BY <1>2, <1>5, <3>1
    <3> QED
      BY <1>3, <1>4, <1>5, <2>1, <3>1, <3>2
  <2>2. CASE j # n + 1
    <3>1. j \in 1 .. n /\ j \in 0 .. n /\ j - 1 \in 0 .. n
      BY <1>3, <2>2
    <3> QED
      BY <1>2, <1>3, <1>5, <3>1
  <2> QED
    BY <2>1, <2>2
<1>8. ASSUME NEW j \in 0 .. Len(more) PROVE Begins(q[j].keys, u.keys)
  <2>1. CASE j = n + 1
    BY <1>4, <1>5, <2>1
  <2>2. CASE j # n + 1
    <3>1. j \in 0 .. n
      BY <1>3, <2>2
    <3>2. Begins(p[j].keys, to.keys) /\ q[j] = p[j]
      BY <1>2, <1>5, <3>1
    <3> QED
      BY <1>4, <3>2, BeginsFurther
  <2> QED
    BY <2>1, <2>2
<1>9. Path(q, more, from, u)
  BY <1>6, <1>7, <1>8 DEF Path
<1> QED
  BY <1>9 DEF Leads, u, more

\* Once a byte is decoded, the rest leads on from there.
LEMMA LeadsTail ==
  ASSUME NEW rest \in Seq(Byte), NEW b \in Byte, NEW from, NEW to,
         Leads(<<b>> \o rest, from, to)
  PROVE  Leads(rest, After(from, b), to)
<1> DEFINE bytes == <<b>> \o rest
           n == Len(rest)
<1>1. PICK p : Path(p, bytes, from, to)
  BY DEF Leads
<1> DEFINE q == [j \in 0 .. n |-> p[j + 1]]
<1>2. n \in Nat /\ Len(bytes) = n + 1 /\ bytes[1] = b /\ \A j \in 1 .. n : bytes[j + 1] = rest[j]
  <2>1. <<b>> \in Seq(Byte) /\ Len(<<b>>) = 1 /\ <<b>>[1] = b /\ n \in Nat
    OBVIOUS
  <2>2. /\ Len(bytes) = 1 + n
        /\ \A i \in 1 .. (1 + n) : bytes[i] = IF i <= 1 THEN <<b>>[i] ELSE rest[i - 1]
    BY <2>1, ConcatProperties
  <2> HIDE DEF bytes, n
  <2>3. bytes[1] = b
    BY <2>1, <2>2
  <2>4. \A j \in 1 .. n : bytes[j + 1] = rest[j]
    BY <2>1, <2>2
  <2> QED
    BY <2>1, <2>2, <2>3, <2>4
<1> HIDE DEF bytes, n
<1>3. /\ p[0] = from /\ p[n + 1] = to
      /\ \A j \in 1 .. n + 1 : p[j] = After(p[j - 1], bytes[j])
      /\ \A j \in 0 .. n + 1 : Begins(p[j].keys, to.keys)
  BY <1>1, <1>2 DEF Path
<1>4. \A j \in 0 .. n : q[j] = p[j + 1]
  OBVIOUS
<1> HIDE DEF q
<1>5. q[0] = After(from, b) /\ q[n] = to
  <2>1. 1 \in 1 .. n + 1 /\ 1 - 1 = 0 /\ 0 \in 0 .. n /\ n \in 0 .. n /\ 0 + 1 = 1
    BY <1>2
  <2>2. p[1] = After(p[0], bytes[1])
    BY <1>3, <2>1
  <2> QED
    BY <1>2, <1>3, <1>4, <2>1, <2>2
<1>6. ASSUME NEW j \in 1 .. n PROVE q[j] = After(q[j - 1], rest[j])
  <2>1. /\ j \in 0 .. n /\ j - 1 \in 0 .. n /\ j + 1 \in 1 .. n + 1 /\ (j - 1) + 1 = j
        /\ (j + 1) - 1 = j
    BY <1>2
  <2>2. q[j] = p[j + 1] /\ q[j - 1] = p[j] /\ p[j + 1] = After(p[j], bytes[j + 1])
    BY <1>3, <1>4, <2>1
  <2> QED
    BY <1>2, <2>2
<1>7. ASSUME NEW j \in 0 .. n PROVE Begins(q[j].keys, to.keys)
  <2>1. j + 1 \in 0 .. n + 1
    BY <1>2
  <2>2. Begins(p[j + 1].keys, to.keys)
    BY <1>3, <2>1
  <2> QED
    BY <1>4, <2>2
<1>8. Path(q, rest, After(from, b), to)
  BY <1>5, <1>6, <1>7 DEF Path, n
<1> QED
  BY <1>8 DEF Leads

\* No bytes lead nowhere, and what the decoder has pushed begins what it has to push.
LEMMA LeadsEnds ==
  ASSUME NEW bytes \in Seq(Byte), NEW from, NEW to, Leads(bytes, from, to)
  PROVE  Begins(from.keys, to.keys) /\ (bytes = << >> => from = to)
<1>1. PICK p : Path(p, bytes, from, to)
  BY DEF Leads
<1>2. 0 \in 0 .. Len(bytes) /\ (bytes = << >> => Len(bytes) = 0)
  OBVIOUS
<1> QED
  BY <1>1, <1>2 DEF Path

LEMMA LeadsStay ==
  ASSUME NEW s, Begins(s.keys, s.keys)
  PROVE  Leads(<< >>, s, s)
<1> DEFINE p == [j \in 0 .. 0 |-> s]
<1>1. Path(p, << >>, s, s)
  BY DEF Path
<1> QED
  BY <1>1 DEF Leads

\* The interrupt handler takes the decoder one state further.
LEMMA DecodeIsAfter ==
  ASSUME KbdInv, NEW b \in Byte, Decode(b)
  PROVE  Now' = After(Now, b)
<1>1. /\ Now.left = shift_left /\ Now.right = shift_right /\ Now.ctrl = ctrl_key
      /\ Now.caps = caps /\ Now.rel = pending_release /\ Now.ext = ext /\ Now.keys = pushed
  BY DEF Now
<1>2. Now' = [left |-> shift_left', right |-> shift_right', ctrl |-> ctrl_key',
              caps |-> caps', rel |-> pending_release', ext |-> ext', keys |-> pushed']
  BY DEF Now
<1>T. /\ shift_left \in BOOLEAN /\ shift_right \in BOOLEAN /\ ctrl_key \in BOOLEAN
      /\ caps \in BOOLEAN /\ pending_release \in BOOLEAN /\ ext \in BOOLEAN
  BY DEF KbdInv, TypeOK
<1>3. CASE b \in Reserved
  <2>1. Prefix(b)
    BY <1>3, Zenon DEF Decode
  <2> QED
    BY <1>1, <1>2, <1>3, <2>1, Zenon DEF Prefix, After
<1>4. CASE b \notin Reserved /\ ext
  <2>1. ExtendedKey(b)
    BY <1>4, Zenon DEF Decode, Prefix, PlainKey
  <2> DEFINE k == IF pending_release THEN NoKey ELSE Extended(b)
  <2>2. pushed' = Emitted(pushed, k)
    <3>1. Emit(k)
      BY <2>1, Zenon DEF ExtendedKey
    <3>2. k \in Keys \cup {NoKey}
      BY <1>T, TableFacts
    <3> HIDE DEF k
    <3> QED
      BY <3>1, <3>2, EmitFacts DEF Emitted
  <2>3. /\ ext' = FALSE /\ pending_release' = FALSE /\ shift_left' = shift_left
        /\ shift_right' = shift_right /\ ctrl_key' = ctrl_key /\ caps' = caps
    BY <2>1, Zenon DEF ExtendedKey
  <2> QED
    BY <1>1, <1>2, <1>4, <2>2, <2>3, Zenon DEF After
<1>5. CASE b \notin Reserved /\ ~ext
  <2>1. PlainKey(b)
    BY <1>5, Zenon DEF Decode, Prefix, ExtendedKey
  <2> DEFINE shift == Shifted(shift_left, shift_right, caps)
             silent == pending_release \/ b \in {LSHIFT, RSHIFT, CTRL, CAPS, 242, 245}
             k == IF silent THEN NoKey ELSE Translate(b, shift, ctrl_key)
  <2>2. pushed' = Emitted(pushed, k)
    <3>1. Emit(k)
      BY <2>1, Zenon DEF PlainKey
    <3>2. shift \in BOOLEAN
      BY <1>T DEF Shifted
    <3>3. Translate(b, shift, ctrl_key) \in Keys \cup {NoKey}
      <4> HIDE DEF shift
      <4> QED
        BY <1>T, <3>2, TableFacts
    <3>4. k \in Keys \cup {NoKey}
      BY <3>3, Zenon
    <3> HIDE DEF k
    <3> QED
      BY <3>1, <3>4, EmitFacts DEF Emitted
  <2>3. /\ shift_left' = (IF b = LSHIFT THEN ~pending_release ELSE shift_left)
        /\ shift_right' = (IF b = RSHIFT THEN ~pending_release ELSE shift_right)
        /\ ctrl_key' = (IF b = CTRL THEN ~pending_release ELSE ctrl_key)
        /\ caps' = (IF b = CAPS /\ ~pending_release THEN ~caps ELSE caps)
        /\ pending_release' = FALSE /\ ext' = ext
    BY <2>1, Zenon DEF PlainKey
  <2> QED
    BY ONLY <1>1, <1>2, <1>5, <2>2, <2>3, ZenonT(60) DEF After
<1> QED
  BY <1>3, <1>4, <1>5

IsState(s) ==
  /\ s.left \in BOOLEAN /\ s.right \in BOOLEAN /\ s.ctrl \in BOOLEAN /\ s.caps \in BOOLEAN
  /\ s.rel \in BOOLEAN /\ s.ext \in BOOLEAN /\ s.keys \in Seq(Keys \cup {NoKey})

LEMMA AfterFacts ==
  ASSUME NEW s, IsState(s), NEW b \in Byte
  PROVE  IsState(After(s, b)) /\ Begins(s.keys, After(s, b).keys)
<1>1. /\ s.left \in BOOLEAN /\ s.right \in BOOLEAN /\ s.ctrl \in BOOLEAN /\ s.caps \in BOOLEAN
      /\ s.rel \in BOOLEAN /\ s.ext \in BOOLEAN /\ s.keys \in Seq(Keys \cup {NoKey})
  BY DEF IsState
<1> DEFINE u == After(s, b)
<1>2. ASSUME NEW k \in Keys \cup {NoKey}, u.keys = Emitted(s.keys, k)
      PROVE  u.keys \in Seq(Keys \cup {NoKey}) /\ Begins(s.keys, u.keys)
  <2> HIDE DEF u
  <2> QED
    BY <1>1, <1>2, EmittedFacts
<1>3. CASE b \in Reserved
  <2>1. u = [left |-> s.left, right |-> s.right, ctrl |-> s.ctrl, caps |-> s.caps,
             rel |-> (s.rel \/ b = F0) /\ b # SELFTEST, ext |-> s.ext \/ b \in {E0, E1},
             keys |-> s.keys]
    BY <1>3, Zenon DEF After
  <2> HIDE DEF u
  <2>2. /\ u.left = s.left /\ u.right = s.right /\ u.ctrl = s.ctrl /\ u.caps = s.caps
        /\ u.keys = s.keys
    BY <2>1
  <2>3. u.rel \in BOOLEAN /\ u.ext \in BOOLEAN
    BY <2>1
  <2>4. Begins(s.keys, u.keys)
    BY <1>1, <2>2, BeginsItself
  <2> QED
    BY <1>1, <2>2, <2>3, <2>4 DEF IsState, u
<1>4. CASE b \notin Reserved /\ s.ext
  <2> DEFINE k == IF s.rel THEN NoKey ELSE Extended(b)
  <2>1. u = [left |-> s.left, right |-> s.right, ctrl |-> s.ctrl, caps |-> s.caps,
             rel |-> FALSE, ext |-> FALSE, keys |-> Emitted(s.keys, k)]
    BY <1>4, Zenon DEF After
  <2>2. k \in Keys \cup {NoKey}
    BY <1>1, TableFacts
  <2> HIDE DEF u, k
  <2>3. /\ u.left = s.left /\ u.right = s.right /\ u.ctrl = s.ctrl /\ u.caps = s.caps
        /\ u.rel = FALSE /\ u.ext = FALSE /\ u.keys = Emitted(s.keys, k)
    BY <2>1
  <2>4. u.keys \in Seq(Keys \cup {NoKey}) /\ Begins(s.keys, u.keys)
    BY <1>2, <2>2, <2>3
  <2> QED
    BY <1>1, <2>3, <2>4 DEF IsState, u
<1>5. CASE b \notin Reserved /\ ~s.ext
  <2> DEFINE shift == Shifted(s.left, s.right, s.caps)
             silent == s.rel \/ b \in {LSHIFT, RSHIFT, CTRL, CAPS, 242, 245}
             k == IF silent THEN NoKey ELSE Translate(b, shift, s.ctrl)
             l == IF b = LSHIFT THEN ~s.rel ELSE s.left
             r == IF b = RSHIFT THEN ~s.rel ELSE s.right
             t == IF b = CTRL THEN ~s.rel ELSE s.ctrl
             p == IF b = CAPS /\ ~s.rel THEN ~s.caps ELSE s.caps
  <2>1. u = [left |-> l, right |-> r, ctrl |-> t, caps |-> p, rel |-> FALSE, ext |-> s.ext,
             keys |-> Emitted(s.keys, k)]
    BY <1>5, Zenon DEF After
  <2>2. k \in Keys \cup {NoKey}
    <3>1. shift \in BOOLEAN
      BY <1>1 DEF Shifted
    <3>2. Translate(b, shift, s.ctrl) \in Keys \cup {NoKey}
      <4> HIDE DEF shift
      <4> QED
        BY <1>1, <3>1, TableFacts
    <3> QED
      BY <3>2, Zenon
  <2>3. l \in BOOLEAN /\ r \in BOOLEAN /\ t \in BOOLEAN /\ p \in BOOLEAN
    BY <1>1, Zenon
  <2> HIDE DEF u, k, l, r, t, p
  <2>4. /\ u.left = l /\ u.right = r /\ u.ctrl = t /\ u.caps = p /\ u.rel = FALSE
        /\ u.ext = s.ext /\ u.keys = Emitted(s.keys, k)
    BY <2>1
  <2>5. u.keys \in Seq(Keys \cup {NoKey}) /\ Begins(s.keys, u.keys)
    BY <1>2, <2>2, <2>4
  <2> QED
    BY <1>1, <2>3, <2>4, <2>5, Zenon DEF IsState, u
<1> QED
  BY <1>1, <1>3, <1>4, <1>5

LEMMA LeadsFurther ==
  ASSUME NEW bytes \in Seq(Byte), NEW b \in Byte, NEW from, NEW to, IsState(to),
         Leads(bytes, from, to)
  PROVE  /\ Leads(Append(bytes, b), from, After(to, b))
         /\ IsState(After(to, b)) /\ Append(bytes, b) \in Seq(Byte)
<1>1. IsState(After(to, b)) /\ Begins(to.keys, After(to, b).keys)
  BY AfterFacts
<1>2. Begins(After(to, b).keys, After(to, b).keys)
  BY <1>1, BeginsItself DEF IsState
<1>3. Append(bytes, b) \in Seq(Byte)
  OBVIOUS
<1> QED
  BY <1>1, <1>2, <1>3, LeadsAppend

\* The buttons after a press and after a release.
LEMMA HeldFacts ==
  ASSUME NEW k \in Buttons, NEW code \in Byte
  PROVE  /\ down' = down \cup {k} => Held(code)' = (Held(code) \/ (~k.ext /\ k.code = code))
         /\ down' = down \ {k} => Held(code)' = (Held(code) /\ ~(~k.ext /\ k.code = code))
<1> DEFINE q == [code |-> code, ext |-> FALSE]
<1>1. q = k <=> ~k.ext /\ k.code = code
  <2>1. k = [code |-> k.code, ext |-> k.ext] /\ k.ext \in BOOLEAN
    BY ButtonFacts
  <2>2. q = k => k.code = code /\ k.ext = FALSE
    <3>1. q.code = code /\ q.ext = FALSE
      OBVIOUS
    <3> QED
      BY <3>1, Zenon
  <2>3. ~k.ext /\ k.code = code => k.ext = FALSE
    BY <2>1
  <2> QED
    BY <2>1, <2>2, <2>3, Zenon
<1>2. Held(code)' = (q \in down') /\ Held(code) = (q \in down)
  BY DEF Held
<1>3. Held(code) \in BOOLEAN /\ Held(code)' \in BOOLEAN
  BY <1>2
<1>4. ASSUME down' = down \cup {k}
      PROVE  Held(code)' = (Held(code) \/ (~k.ext /\ k.code = code))
  <2>1. q \in down' <=> q \in down \/ q = k
    BY <1>4
  <2> HIDE DEF q
  <2>2. Held(code)' <=> (Held(code) \/ (~k.ext /\ k.code = code))
    BY <1>1, <1>2, <2>1
  <2> QED
    BY <1>3, <2>2
<1>5. ASSUME down' = down \ {k}
      PROVE  Held(code)' = (Held(code) /\ ~(~k.ext /\ k.code = code))
  <2>1. q \in down' <=> q \in down /\ ~(q = k)
    BY <1>5
  <2> HIDE DEF q
  <2>2. Held(code)' <=> (Held(code) /\ ~(~k.ext /\ k.code = code))
    BY <1>1, <1>2, <2>1
  <2> QED
    BY <1>3, <2>2
<1> QED
  BY <1>4, <1>5

LEMMA GoalFacts ==
  ASSUME DecInv
  PROVE  /\ IsState(Goal) /\ Goal.left = Held(LSHIFT) /\ Goal.right = Held(RSHIFT)
         /\ Goal.ctrl = Held(CTRL) /\ Goal.caps = caps_lit /\ Goal.rel = FALSE
         /\ Goal.ext = FALSE /\ Goal.keys = typed
<1>1. /\ Goal.left = Held(LSHIFT) /\ Goal.right = Held(RSHIFT)
      /\ Goal.ctrl = Held(CTRL) /\ Goal.caps = caps_lit /\ Goal.rel = FALSE
      /\ Goal.ext = FALSE /\ Goal.keys = typed
  BY DEF Goal
<1>2. \A x : Held(x) \in BOOLEAN
  BY DEF Held
<1> QED
  BY <1>1, <1>2, Zenon DEF IsState, DecInv

LEMMA CodesAreBytes ==
  /\ LSHIFT \in Byte /\ RSHIFT \in Byte /\ CTRL \in Byte /\ CAPS \in Byte
  /\ E0 \in Byte /\ F0 \in Byte /\ ACK \in Byte /\ SELFTEST \in Byte
  /\ E0 \in Reserved /\ F0 \in Reserved /\ ACK \in Reserved /\ SELFTEST \in Reserved
  /\ E0 # SELFTEST /\ F0 # SELFTEST /\ E0 # F0 /\ ACK # F0 /\ ACK \notin {E0, E1}
  /\ F0 \notin {E0, E1} /\ SELFTEST \notin {E0, E1} /\ SELFTEST # F0
  BY DEF LSHIFT, RSHIFT, CTRL, CAPS, E0, E1, F0, ACK, SELFTEST, Reserved, Ignored, Byte

\* A code beyond the tables types nothing.
LEMMA BeyondTables ==
  ASSUME NEW b \in {242, 245}, NEW shift, NEW ctrl
  PROVE  Translate(b, shift, ctrl) = NoKey
<1>1. ~(b < 96)
  OBVIOUS
<1>2. Mapped(b, shift) = NoKey
  BY <1>1, Zenon DEF Mapped
<1>3. NoKey \notin 97 .. 122
  BY KeyboardAssumption
<1> QED
  BY <1>2, <1>3, Zenon DEF Translate

LEMMA GoalPrimed ==
  Goal' = [left |-> Held(LSHIFT)', right |-> Held(RSHIFT)', ctrl |-> Held(CTRL)',
           caps |-> caps_lit', rel |-> FALSE, ext |-> FALSE, keys |-> typed']
  BY DEF Goal

\* The bytes a plain button sends take the decoder where the buttons say.
LEMMA PlainGoal ==
  ASSUME DecInv, NEW k \in Buttons, ~k.ext
  PROVE  /\ Press(k) => Goal' = After(Goal, k.code)
         /\ Release(k) => Goal' = After(After(Goal, F0), k.code)
<1> DEFINE b == k.code
<1>1. b \in Byte /\ b \notin Reserved
  BY ButtonFacts
<1>2. /\ IsState(Goal) /\ Goal.left = Held(LSHIFT) /\ Goal.right = Held(RSHIFT)
      /\ Goal.ctrl = Held(CTRL) /\ Goal.caps = caps_lit /\ Goal.rel = FALSE
      /\ Goal.ext = FALSE /\ Goal.keys = typed
  BY GoalFacts
<1>3. ASSUME Press(k) PROVE Goal' = After(Goal, b)
  <2>1. /\ down' = down \cup {k} /\ caps_lit' = IF b = CAPS THEN ~caps_lit ELSE caps_lit
        /\ typed' = Emitted(typed, Meaning(k))
    BY <1>3, Zenon DEF Press, Emitted
  <2> DEFINE m == IF b \in {LSHIFT, RSHIFT, CTRL, CAPS, 242, 245} THEN NoKey
                  ELSE Translate(b, Shifted(Held(LSHIFT), Held(RSHIFT), caps_lit), Held(CTRL))
  <2>2. Meaning(k) = m
    <3>1. CASE b \in {242, 245}
      <4>1. Translate(b, Held(LSHIFT) \/ Held(RSHIFT) \/ caps_lit, Held(CTRL)) = NoKey
        <5> DEFINE x == Held(LSHIFT) \/ Held(RSHIFT) \/ caps_lit
                   y == Held(CTRL)
        <5> HIDE DEF x, y
        <5>1. Translate(b, x, y) = NoKey
          BY <3>1, BeyondTables
        <5> QED
          BY <5>1 DEF x, y
      <4> QED
        BY <3>1, <4>1, Zenon DEF Meaning
    <3>2. CASE b \notin {242, 245}
      <4>1. b \in {LSHIFT, RSHIFT, CTRL, CAPS, 242, 245} <=> b \in {LSHIFT, RSHIFT, CTRL, CAPS}
        BY <3>2
      <4> QED
        BY ONLY <4>1, ~k.ext, ZenonT(60) DEF Meaning, Shifted
    <3> QED
      BY <3>1, <3>2
  <2>3. After(Goal, b) = [left |-> IF b = LSHIFT THEN ~FALSE ELSE Held(LSHIFT),
                          right |-> IF b = RSHIFT THEN ~FALSE ELSE Held(RSHIFT),
                          ctrl |-> IF b = CTRL THEN ~FALSE ELSE Held(CTRL),
                          caps |-> IF b = CAPS /\ ~FALSE THEN ~caps_lit ELSE caps_lit,
                          rel |-> FALSE, ext |-> FALSE, keys |-> Emitted(typed, m)]
    BY <1>1, <1>2, Zenon DEF After
  <2>4. /\ Held(LSHIFT)' = (Held(LSHIFT) \/ b = LSHIFT)
        /\ Held(RSHIFT)' = (Held(RSHIFT) \/ b = RSHIFT)
        /\ Held(CTRL)' = (Held(CTRL) \/ b = CTRL)
    BY <2>1, HeldFacts, CodesAreBytes, Zenon
  <2> HIDE DEF m
  <2>5. /\ Held(LSHIFT)' = (IF b = LSHIFT THEN ~FALSE ELSE Held(LSHIFT))
        /\ Held(RSHIFT)' = (IF b = RSHIFT THEN ~FALSE ELSE Held(RSHIFT))
        /\ Held(CTRL)' = (IF b = CTRL THEN ~FALSE ELSE Held(CTRL))
        /\ caps_lit' = (IF b = CAPS /\ ~FALSE THEN ~caps_lit ELSE caps_lit)
        /\ typed' = Emitted(typed, m)
    <3>1. \A x : Held(x) \in BOOLEAN
      BY DEF Held
    <3> QED
      BY <2>1, <2>2, <2>4, <3>1, Zenon
  <2> QED
    BY <2>3, <2>5, GoalPrimed, Zenon
<1>4. ASSUME Release(k) PROVE Goal' = After(After(Goal, F0), b)
  <2>1. down' = down \ {k} /\ caps_lit' = caps_lit /\ typed' = typed
    BY <1>4, Zenon DEF Release
  <2> DEFINE s == After(Goal, F0)
  <2>2. s = [left |-> Held(LSHIFT), right |-> Held(RSHIFT), ctrl |-> Held(CTRL),
             caps |-> caps_lit, rel |-> (FALSE \/ F0 = F0) /\ F0 # SELFTEST,
             ext |-> FALSE \/ F0 \in {E0, E1}, keys |-> typed]
    BY <1>2, CodesAreBytes, Zenon DEF After
  <2> HIDE DEF s
  <2>3. /\ s.left = Held(LSHIFT) /\ s.right = Held(RSHIFT) /\ s.ctrl = Held(CTRL)
        /\ s.caps = caps_lit /\ s.keys = typed
        /\ s.rel = ((FALSE \/ F0 = F0) /\ F0 # SELFTEST)
        /\ s.ext = (FALSE \/ F0 \in {E0, E1})
    BY <2>2
  <2>4. s.rel = TRUE /\ s.ext = FALSE
    BY <2>3, CodesAreBytes, Zenon
  <2>5. After(s, b) = [left |-> IF b = LSHIFT THEN ~TRUE ELSE Held(LSHIFT),
                       right |-> IF b = RSHIFT THEN ~TRUE ELSE Held(RSHIFT),
                       ctrl |-> IF b = CTRL THEN ~TRUE ELSE Held(CTRL),
                       caps |-> caps_lit, rel |-> FALSE, ext |-> FALSE, keys |-> typed]
    <3>1. Emitted(typed, NoKey) = typed
      BY DEF Emitted
    <3> QED
      BY <1>1, <2>3, <2>4, <3>1, Zenon DEF After
  <2>6. /\ Held(LSHIFT)' = (Held(LSHIFT) /\ ~(b = LSHIFT))
        /\ Held(RSHIFT)' = (Held(RSHIFT) /\ ~(b = RSHIFT))
        /\ Held(CTRL)' = (Held(CTRL) /\ ~(b = CTRL))
    BY <2>1, HeldFacts, CodesAreBytes, Zenon
  <2>7. /\ Held(LSHIFT)' = (IF b = LSHIFT THEN ~TRUE ELSE Held(LSHIFT))
        /\ Held(RSHIFT)' = (IF b = RSHIFT THEN ~TRUE ELSE Held(RSHIFT))
        /\ Held(CTRL)' = (IF b = CTRL THEN ~TRUE ELSE Held(CTRL))
    <3>1. \A x : Held(x) \in BOOLEAN
      BY DEF Held
    <3> QED
      BY <2>6, <3>1, Zenon
  <2> QED
    BY <2>1, <2>5, <2>7, GoalPrimed, Zenon DEF s
<1> QED
  BY <1>3, <1>4

LEMMA AfterPrefix ==
  ASSUME NEW s, NEW b \in Reserved
  PROVE  /\ After(s, b).left = s.left /\ After(s, b).right = s.right
         /\ After(s, b).ctrl = s.ctrl /\ After(s, b).caps = s.caps
         /\ After(s, b).keys = s.keys
         /\ After(s, b).rel = ((s.rel \/ b = F0) /\ b # SELFTEST)
         /\ After(s, b).ext = (s.ext \/ b \in {E0, E1})
<1> DEFINE u == After(s, b)
<1>1. u = [left |-> s.left, right |-> s.right, ctrl |-> s.ctrl, caps |-> s.caps,
           rel |-> (s.rel \/ b = F0) /\ b # SELFTEST, ext |-> s.ext \/ b \in {E0, E1},
           keys |-> s.keys]
  BY Zenon DEF After
<1> HIDE DEF u
<1> QED
  BY <1>1 DEF u

\* The same of an extended button, whose bytes follow a prefix.
LEMMA ExtGoal ==
  ASSUME DecInv, NEW k \in Buttons, k.ext
  PROVE  /\ Press(k) => Goal' = After(After(Goal, E0), k.code)
         /\ Release(k) => Goal' = After(After(After(Goal, E0), F0), k.code)
<1> DEFINE b == k.code
           s == After(Goal, E0)
           t == After(s, F0)
<1>1. b \in Byte /\ b \notin Reserved
  BY ButtonFacts
<1>2. /\ Goal.left = Held(LSHIFT) /\ Goal.right = Held(RSHIFT)
      /\ Goal.ctrl = Held(CTRL) /\ Goal.caps = caps_lit /\ Goal.rel = FALSE
      /\ Goal.ext = FALSE /\ Goal.keys = typed
  BY GoalFacts
<1>3. /\ s.left = Held(LSHIFT) /\ s.right = Held(RSHIFT) /\ s.ctrl = Held(CTRL)
      /\ s.caps = caps_lit /\ s.keys = typed /\ s.rel = FALSE /\ s.ext = TRUE
  <2>1. /\ s.left = Goal.left /\ s.right = Goal.right /\ s.ctrl = Goal.ctrl
        /\ s.caps = Goal.caps /\ s.keys = Goal.keys
        /\ s.rel = ((Goal.rel \/ E0 = F0) /\ E0 # SELFTEST)
        /\ s.ext = (Goal.ext \/ E0 \in {E0, E1})
    BY AfterPrefix, CodesAreBytes
  <2> HIDE DEF s
  <2>2. s.rel = FALSE /\ s.ext = TRUE
    BY <1>2, <2>1, CodesAreBytes, Zenon
  <2> QED
    BY <1>2, <2>1, <2>2, Zenon
<1>4. /\ t.left = Held(LSHIFT) /\ t.right = Held(RSHIFT) /\ t.ctrl = Held(CTRL)
      /\ t.caps = caps_lit /\ t.keys = typed /\ t.rel = TRUE /\ t.ext = TRUE
  <2>1. /\ t.left = s.left /\ t.right = s.right /\ t.ctrl = s.ctrl
        /\ t.caps = s.caps /\ t.keys = s.keys
        /\ t.rel = ((s.rel \/ F0 = F0) /\ F0 # SELFTEST)
        /\ t.ext = (s.ext \/ F0 \in {E0, E1})
    <3> HIDE DEF s
    <3> QED
      BY AfterPrefix, CodesAreBytes
  <2> HIDE DEF s, t
  <2>2. t.rel = TRUE /\ t.ext = TRUE
    BY <1>3, <2>1, CodesAreBytes, Zenon
  <2> QED
    BY <1>3, <2>1, <2>2, Zenon
<1> HIDE DEF s, t
<1>5. /\ down' = down \cup {k} \/ down' = down \ {k} =>
           /\ Held(LSHIFT)' = Held(LSHIFT) /\ Held(RSHIFT)' = Held(RSHIFT)
           /\ Held(CTRL)' = Held(CTRL)
  <2>1. \A x : Held(x) \in BOOLEAN
    BY DEF Held
  <2>2. ASSUME NEW x \in Byte, down' = down \cup {k} \/ down' = down \ {k}
        PROVE  Held(x)' = Held(x)
    <3>1. Held(x)' = (Held(x) \/ (~k.ext /\ k.code = x))
          \/ Held(x)' = (Held(x) /\ ~(~k.ext /\ k.code = x))
      BY <2>2, HeldFacts, Zenon
    <3> QED
      BY <2>1, <3>1, Zenon
  <2> QED
    BY <2>2, CodesAreBytes, Zenon
<1>6. ASSUME Press(k) PROVE Goal' = After(s, b)
  <2>1. /\ down' = down \cup {k} /\ caps_lit' = caps_lit
        /\ typed' = Emitted(typed, Extended(b))
    BY <1>6, Zenon DEF Press, Emitted, Meaning
  <2>2. After(s, b) = [left |-> Held(LSHIFT), right |-> Held(RSHIFT), ctrl |-> Held(CTRL),
                       caps |-> caps_lit, rel |-> FALSE, ext |-> FALSE,
                       keys |-> Emitted(typed, Extended(b))]
    BY <1>1, <1>3, Zenon DEF After
  <2> QED
    BY <1>5, <2>1, <2>2, GoalPrimed, Zenon
<1>7. ASSUME Release(k) PROVE Goal' = After(t, b)
  <2>1. down' = down \ {k} /\ caps_lit' = caps_lit /\ typed' = typed
    BY <1>7, Zenon DEF Release
  <2>2. After(t, b) = [left |-> Held(LSHIFT), right |-> Held(RSHIFT), ctrl |-> Held(CTRL),
                       caps |-> caps_lit, rel |-> FALSE, ext |-> FALSE, keys |-> typed]
    <3>1. Emitted(typed, NoKey) = typed
      BY DEF Emitted
    <3> QED
      BY <1>1, <1>4, <3>1, Zenon DEF After
  <2> QED
    BY <1>5, <2>1, <2>2, GoalPrimed, Zenon
<1> QED
  BY <1>6, <1>7 DEF s, t

LEMMA ReplyGoal ==
  ASSUME DecInv, NEW b \in {ACK, SELFTEST}
  PROVE  After(Goal, b) = Goal
<1>1. /\ Goal.left = Held(LSHIFT) /\ Goal.right = Held(RSHIFT)
      /\ Goal.ctrl = Held(CTRL) /\ Goal.caps = caps_lit /\ Goal.rel = FALSE
      /\ Goal.ext = FALSE /\ Goal.keys = typed
  BY GoalFacts
<1>2. b \in Reserved /\ b # F0 /\ b \notin {E0, E1}
  BY CodesAreBytes
<1>3. After(Goal, b) =
        [left |-> Held(LSHIFT), right |-> Held(RSHIFT), ctrl |-> Held(CTRL),
         caps |-> caps_lit, rel |-> (FALSE \/ b = F0) /\ b # SELFTEST,
         ext |-> FALSE \/ b \in {E0, E1}, keys |-> typed]
  BY <1>1, <1>2, Zenon DEF After
<1>4. ((FALSE \/ b = F0) /\ b # SELFTEST) = FALSE /\ (FALSE \/ b \in {E0, E1}) = FALSE
  BY <1>2, Zenon
<1> QED
  BY <1>3, <1>4, Zenon DEF Goal

\* What is sent joins what is pending, byte after byte.
LEMMA ByteByByte ==
  ASSUME NEW P \in Seq(Byte), NEW x \in Byte, NEW y \in Byte, NEW z \in Byte
  PROVE  /\ P \o <<x>> = Append(P, x)
         /\ P \o <<x, y>> = Append(Append(P, x), y)
         /\ P \o <<x, y, z>> = Append(Append(Append(P, x), y), z)
<1>1. <<x>> \in Seq(Byte) /\ <<y>> \in Seq(Byte) /\ <<z>> \in Seq(Byte) /\ <<y, z>> \in Seq(Byte)
  OBVIOUS
<1>2. <<x, y>> = <<x>> \o <<y>> /\ <<x, y, z>> = <<x>> \o (<<y>> \o <<z>>)
      /\ <<y>> \o <<z>> \in Seq(Byte)
  <2>1. <<x, y>> = Append(<<x>>, y) /\ <<y, z>> = Append(<<y>>, z)
        /\ <<x, y, z>> = Append(<<x, y>>, z) /\ <<x, y>> \in Seq(Byte)
    <3>1. ASSUME NEW a \in Byte, NEW d \in Byte PROVE <<a, d>> = Append(<<a>>, d)
      <4> DEFINE s == Append(<<a>>, d)
      <4>1. s \in Seq(Byte) /\ Len(s) = 2 /\ s[1] = a /\ s[2] = d
        OBVIOUS
      <4>2. <<a, d>> \in Seq(Byte) /\ Len(<<a, d>>) = 2 /\ <<a, d>>[1] = a /\ <<a, d>>[2] = d
        OBVIOUS
      <4> HIDE DEF s
      <4>3. \A i \in 1 .. 2 : <<a, d>>[i] = s[i]
        BY <4>1, <4>2
      <4> QED
        BY <4>1, <4>2, <4>3, SeqEqual DEF s
    <3>2. <<x, y, z>> = Append(<<x, y>>, z)
      <4> DEFINE s == Append(<<x, y>>, z)
                 t == <<x, y, z>>
      <4>1. s \in Seq(Byte) /\ Len(s) = 3 /\ s[1] = x /\ s[2] = y /\ s[3] = z
        OBVIOUS
      <4>2. t \in Seq(Byte) /\ Len(t) = 3 /\ t[1] = x /\ t[2] = y /\ t[3] = z
        OBVIOUS
      <4> HIDE DEF s, t
      <4>3. \A i \in 1 .. 3 : t[i] = s[i]
        BY <4>1, <4>2
      <4>4. s = t
        BY <4>1, <4>2, <4>3, SeqEqual
      <4> QED
        BY <4>4 DEF s, t
    <3>3. <<x, y>> \in Seq(Byte)
      OBVIOUS
    <3> QED
      BY <3>1, <3>2, <3>3
  <2>2. /\ Append(<<x>>, y) = <<x>> \o <<y>> /\ Append(<<y>>, z) = <<y>> \o <<z>>
        /\ Append(<<x, y>>, z) = <<x, y>> \o <<z>>
    BY <1>1, <2>1, AppendIsConcat
  <2>3. (<<x>> \o <<y>>) \o <<z>> = <<x>> \o (<<y>> \o <<z>>)
    BY <1>1, ConcatAssociative
  <2> QED
    BY <1>1, <2>1, <2>2, <2>3, Zenon
<1>3. Append(P, x) = P \o <<x>> /\ Append(P, x) \in Seq(Byte)
  BY AppendIsConcat
<1>4. Append(Append(P, x), y) = (P \o <<x>>) \o <<y>> /\ Append(Append(P, x), y) \in Seq(Byte)
  BY <1>3, AppendIsConcat
<1>5. Append(Append(Append(P, x), y), z) = ((P \o <<x>>) \o <<y>>) \o <<z>>
  BY <1>4, AppendIsConcat
<1>6. (P \o <<x>>) \o <<y>> = P \o (<<x>> \o <<y>>)
  BY <1>1, ConcatAssociative
<1>7. ((P \o <<x>>) \o <<y>>) \o <<z>> = (P \o <<x>>) \o (<<y>> \o <<z>>)
  <2>1. P \o <<x>> \in Seq(Byte)
    BY <1>3
  <2> QED
    BY <1>1, <2>1, ConcatAssociative
<1>8. (P \o <<x>>) \o (<<y>> \o <<z>>) = P \o (<<x>> \o (<<y>> \o <<z>>))
  BY <1>1, <1>2, ConcatAssociative
<1> QED
  BY <1>2, <1>3, <1>4, <1>5, <1>6, <1>7, <1>8, Zenon

LEMMA PendingFacts ==
  ASSUME KbdInv
  PROVE  /\ Pending \in Seq(Byte) /\ wire \in Seq(Byte)
         /\ obf \in Byte \/ obf = NoByte
<1>1. wire \in Seq(Byte) /\ (obf \in Byte \/ obf = NoByte)
  BY DEF KbdInv, TypeOK, Byte
<1>2. obf \in Byte => <<obf>> \o wire \in Seq(Byte)
  BY <1>1, ConcatProperties
<1> QED
  BY <1>1, <1>2, Zenon DEF Pending, Ours

LEMMA PendingSend ==
  ASSUME KbdInv, NEW bytes \in Seq(Byte), Send(bytes)
  PROVE  /\ Pending' = Pending \o bytes /\ Now' = Now /\ astray' = astray
         /\ pushed' = pushed
<1>1. /\ wire' = wire \o bytes /\ obf' = obf /\ pushed' = pushed
      /\ shift_left' = shift_left /\ shift_right' = shift_right /\ ctrl_key' = ctrl_key
      /\ caps' = caps /\ pending_release' = pending_release /\ ext' = ext
      /\ astray' = astray /\ obf_aux' = obf_aux
  BY DEF Send, portVars, decoderVars, mouseVars
<1>2. Now' = Now
  BY <1>1, Zenon DEF Now
<1>3. wire \in Seq(Byte) /\ (obf \in Byte \/ obf = NoByte)
  BY PendingFacts
<1>4. CASE ~Ours
  BY <1>1, <1>2, <1>4, Zenon DEF Pending, Ours
<1>5. CASE Ours
  <2>1. <<obf>> \in Seq(Byte)
    BY <1>3, <1>5 DEF Ours
  <2>2. <<obf>> \o (wire \o bytes) = (<<obf>> \o wire) \o bytes
    BY <1>3, <2>1, ConcatAssociative
  <2> QED
    BY <1>1, <1>2, <1>5, <2>2, Zenon DEF Pending, Ours
<1> QED
  BY <1>4, <1>5

LEMMA DecInit == Init => DecInv
<1> SUFFICES ASSUME Init PROVE DecInv
  OBVIOUS
<1>1. /\ typed = << >> /\ pushed = << >> /\ down = {} /\ caps_lit = FALSE /\ obf = NoByte
      /\ wire = << >>
  BY DEF Init
<1>2. Pending = << >>
  BY <1>1 DEF Pending, Ours
<1>3. Now = Goal
  <2>1. Held(LSHIFT) = FALSE /\ Held(RSHIFT) = FALSE /\ Held(CTRL) = FALSE
    BY <1>1 DEF Held
  <2>2. /\ shift_left = FALSE /\ shift_right = FALSE /\ ctrl_key = FALSE /\ caps = FALSE
        /\ pending_release = FALSE /\ ext = FALSE
    BY DEF Init
  <2> QED
    BY <1>1, <2>1, <2>2, Zenon DEF Now, Goal
<1>4. << >> \in Seq(Keys \cup {NoKey}) /\ Goal.keys = << >>
  BY <1>1 DEF Goal
<1>5. Begins(Goal.keys, Goal.keys)
  BY <1>4, BeginsItself
<1>6. Leads(<< >>, Goal, Goal)
  BY <1>5, LeadsStay
<1> QED
  BY <1>1, <1>2, <1>3, <1>4, <1>6, Zenon DEF DecInv

\* The answers a device gives to a command leave the decoder as it is.
LEMMA IgnoredStays ==
  ASSUME KbdInv, NEW b \in Ignored, Decode(b)
  PROVE  Now' = Now
<1>1. b \in Reserved /\ b # F0 /\ b # SELFTEST /\ b \notin {E0, E1}
  BY SMT DEF Reserved, Ignored, ACK, F0, E0, E1, SELFTEST
<1>2. Prefix(b)
  BY <1>1, Zenon DEF Decode
<1>3. pending_release \in BOOLEAN /\ ext \in BOOLEAN
  BY DEF KbdInv, TypeOK
<1>4. /\ ext' = ext /\ pending_release' = pending_release
      /\ UNCHANGED <<shift_left, shift_right, ctrl_key, caps, pushed>>
  <2>1. /\ ext' = (ext \/ b \in {E0, E1})
        /\ pending_release' = ((pending_release \/ b = F0) /\ b # SELFTEST)
        /\ UNCHANGED <<shift_left, shift_right, ctrl_key, caps, pushed>>
    BY <1>2, Zenon DEF Prefix
  <2> QED
    BY <1>1, <1>3, <2>1, Zenon
<1> QED
  BY <1>4, Zenon DEF Now

LEMMA DecNext ==
  ASSUME KbdInv, DecInv, [Next]_vars
  PROVE  DecInv'
<1> DEFINE K == Keys \cup {NoKey}
<1>1. /\ typed \in Seq(K) /\ pushed \in Seq(K) /\ down \subseteq Buttons
      /\ caps_lit \in BOOLEAN /\ (~astray => Leads(Pending, Now, Goal))
  BY DEF DecInv
<1>2. Pending \in Seq(Byte) /\ wire \in Seq(Byte) /\ (obf \in Byte \/ obf = NoByte)
  BY PendingFacts
<1>3. IsState(Goal)
  BY GoalFacts
<1>4. ASSUME NEW bytes \in Seq(Byte), Send(bytes), down' \subseteq Buttons,
             caps_lit' \in BOOLEAN, typed' \in Seq(K),
             Leads(Pending, Now, Goal) => Leads(Pending \o bytes, Now, Goal')
      PROVE  DecInv'
  <2>1. /\ Pending' = Pending \o bytes /\ Now' = Now /\ astray' = astray /\ pushed' = pushed
    BY <1>4, PendingSend
  <2> QED
    BY <1>1, <1>4, <2>1, Zenon DEF DecInv
<1>5. ASSUME NEW k \in Buttons, Press(k) PROVE DecInv'
  <2>1. k.code \in Byte
    BY ButtonFacts
  <2>2. Send(Make(k)) /\ down' \subseteq Buttons
    BY <1>1, <1>5 DEF Press
  <2>3. caps_lit' \in BOOLEAN
    <3>1. caps_lit' = IF k.code = CAPS /\ ~k.ext THEN ~caps_lit ELSE caps_lit
      BY <1>5 DEF Press
    <3> QED
      BY <1>1, <3>1, Zenon
  <2>4. k.ext \in BOOLEAN
    BY ButtonFacts
  <2>5. CASE k.ext
    <3>1. Make(k) = <<E0, k.code>> /\ Make(k) \in Seq(Byte)
      BY <2>1, <2>5, CodesAreBytes DEF Make
    <3>2. Goal' = After(After(Goal, E0), k.code)
      BY <1>5, <2>5, ExtGoal
    <3>3. Pending \o Make(k) = Append(Append(Pending, E0), k.code)
      BY <1>2, <2>1, <3>1, ByteByByte, CodesAreBytes
    <3>4. IsState(After(Goal, E0)) /\ IsState(After(After(Goal, E0), k.code))
      BY <1>3, <2>1, AfterFacts, CodesAreBytes
    <3>5. typed' \in Seq(K)
      BY <3>2, <3>4 DEF IsState, Goal
    <3>6. ASSUME Leads(Pending, Now, Goal) PROVE Leads(Pending \o Make(k), Now, Goal')
      <4>1. /\ Leads(Append(Pending, E0), Now, After(Goal, E0))
            /\ Append(Pending, E0) \in Seq(Byte)
        BY <1>2, <1>3, <3>6, LeadsFurther, CodesAreBytes
      <4>2. Leads(Append(Append(Pending, E0), k.code), Now, After(After(Goal, E0), k.code))
        BY <2>1, <3>4, <4>1, LeadsFurther
      <4> QED
        BY <3>2, <3>3, <4>2
    <3> QED
      BY <1>4, <2>2, <2>3, <3>1, <3>5, <3>6
  <2>6. CASE ~k.ext
    <3>1. Make(k) = <<k.code>> /\ Make(k) \in Seq(Byte)
      BY <2>1, <2>6 DEF Make
    <3>2. Goal' = After(Goal, k.code)
      BY <1>5, <2>6, PlainGoal
    <3>3. Pending \o Make(k) = Append(Pending, k.code)
      BY <1>2, <2>1, <3>1, ByteByByte
    <3>4. IsState(After(Goal, k.code))
      BY <1>3, <2>1, AfterFacts
    <3>5. typed' \in Seq(K)
      BY <3>2, <3>4 DEF IsState, Goal
    <3>6. ASSUME Leads(Pending, Now, Goal) PROVE Leads(Pending \o Make(k), Now, Goal')
      <4>1. Leads(Append(Pending, k.code), Now, After(Goal, k.code))
        BY <1>2, <1>3, <2>1, <3>6, LeadsFurther
      <4> QED
        BY <3>2, <3>3, <4>1
    <3> QED
      BY <1>4, <2>2, <2>3, <3>1, <3>5, <3>6
  <2> QED
    BY <2>4, <2>5, <2>6
<1>6. ASSUME NEW k \in Buttons, Release(k) PROVE DecInv'
  <2>1. k.code \in Byte
    BY ButtonFacts
  <2>2. Send(Break(k)) /\ down' \subseteq Buttons /\ caps_lit' \in BOOLEAN /\ typed' \in Seq(K)
    BY <1>1, <1>6 DEF Release
  <2>3. k.ext \in BOOLEAN
    BY ButtonFacts
  <2> DEFINE s == After(Goal, E0)
             t == After(s, F0)
             g == After(Goal, F0)
  <2>4. CASE k.ext
    <3>1. Break(k) = <<E0, F0, k.code>> /\ Break(k) \in Seq(Byte)
      BY <2>1, <2>4, CodesAreBytes DEF Break
    <3>2. Goal' = After(t, k.code)
      BY <1>6, <2>4, ExtGoal
    <3>3. Pending \o Break(k) = Append(Append(Append(Pending, E0), F0), k.code)
      BY <1>2, <2>1, <3>1, ByteByByte, CodesAreBytes
    <3>4. ASSUME Leads(Pending, Now, Goal) PROVE Leads(Pending \o Break(k), Now, Goal')
      <4>1. /\ Leads(Append(Pending, E0), Now, s) /\ IsState(s)
            /\ Append(Pending, E0) \in Seq(Byte)
        BY <1>2, <1>3, <3>4, LeadsFurther, CodesAreBytes
      <4>2. /\ Leads(Append(Append(Pending, E0), F0), Now, t) /\ IsState(t)
            /\ Append(Append(Pending, E0), F0) \in Seq(Byte)
        <5> HIDE DEF s
        <5> QED
          BY <4>1, LeadsFurther, CodesAreBytes
      <4>3. Leads(Append(Append(Append(Pending, E0), F0), k.code), Now, After(t, k.code))
        <5> HIDE DEF t
        <5> QED
          BY <2>1, <4>2, LeadsFurther
      <4> QED
        BY <3>2, <3>3, <4>3
    <3> QED
      BY <1>4, <2>2, <3>1, <3>4
  <2>5. CASE ~k.ext
    <3>1. Break(k) = <<F0, k.code>> /\ Break(k) \in Seq(Byte)
      BY <2>1, <2>5, CodesAreBytes DEF Break
    <3>2. Goal' = After(g, k.code)
      BY <1>6, <2>5, PlainGoal
    <3>3. Pending \o Break(k) = Append(Append(Pending, F0), k.code)
      BY <1>2, <2>1, <3>1, ByteByByte, CodesAreBytes
    <3>4. ASSUME Leads(Pending, Now, Goal) PROVE Leads(Pending \o Break(k), Now, Goal')
      <4>1. /\ Leads(Append(Pending, F0), Now, g) /\ IsState(g)
            /\ Append(Pending, F0) \in Seq(Byte)
        BY <1>2, <1>3, <3>4, LeadsFurther, CodesAreBytes
      <4>2. Leads(Append(Append(Pending, F0), k.code), Now, After(g, k.code))
        <5> HIDE DEF g
        <5> QED
          BY <2>1, <4>1, LeadsFurther
      <4> QED
        BY <3>2, <3>3, <4>2
    <3> QED
      BY <1>4, <2>2, <3>1, <3>4
  <2> QED
    BY <2>3, <2>4, <2>5
<1>7. CASE Reply
  <2>1. PICK b \in {ACK, SELFTEST} : Send(<<b>>)
    BY <1>7 DEF Reply
  <2>2. b \in Byte /\ <<b>> \in Seq(Byte)
    BY CodesAreBytes
  <2>3. down' = down /\ caps_lit' = caps_lit /\ typed' = typed
    BY <1>7 DEF Reply
  <2>4. Goal' = Goal
    BY <2>3, Zenon DEF Goal, Held
  <2>5. After(Goal, b) = Goal
    BY ReplyGoal
  <2>6. ASSUME Leads(Pending, Now, Goal) PROVE Leads(Pending \o <<b>>, Now, Goal')
    <3>1. Leads(Append(Pending, b), Now, After(Goal, b))
      BY <1>2, <1>3, <2>2, <2>6, LeadsFurther
    <3>2. Pending \o <<b>> = Append(Pending, b)
      BY <1>2, <2>2, ByteByByte
    <3> QED
      BY <2>4, <2>5, <3>1, <3>2
  <2> QED
    BY <1>1, <1>4, <2>1, <2>2, <2>3, <2>6
<1>8. ASSUME UNCHANGED <<typed, down, caps_lit, pushed, decoderVars>>,
             ~astray' => ~astray /\ Pending' = Pending
      PROVE  DecInv'
  <2>1. Goal' = Goal /\ Now' = Now
    BY <1>8, Zenon DEF Goal, Held, Now, decoderVars
  <2> QED
    BY <1>1, <1>8, <2>1, Zenon DEF DecInv
<1>9. CASE Deliver
  <2>1. /\ obf = NoByte /\ wire # << >> /\ obf' = Head(wire) /\ wire' = Tail(wire)
        /\ obf_aux' = FALSE
        /\ UNCHANGED <<typed, down, caps_lit, pushed, decoderVars>> /\ astray' = astray
    BY <1>9 DEF Deliver, mouseVars
  <2>2. Head(wire) \in Byte /\ Tail(wire) \in Seq(Byte)
    BY <1>2, <2>1, HeadTailProperties
  <2>3. <<Head(wire)>> \o Tail(wire) = wire
    BY <1>2, <2>1, ConcatSimplifications
  <2>4. obf' # NoByte
    <3>1. \A x \in Byte : x # NoByte
      BY SMT DEF Byte, NoByte
    <3> QED
      BY <2>1, <2>2, <3>1
  <2>5. Pending' = Pending
    BY <2>1, <2>3, <2>4, Zenon DEF Pending, Ours
  <2> QED
    BY <1>8, <2>1, <2>5
<1>10. CASE Irq1
  <2>1. UNCHANGED <<typed, down, caps_lit, wire>>
    BY <1>10, Zenon DEF Irq1, deviceVars
  <2>2. CASE obf = NoByte
    <3>1. UNCHANGED <<portVars, decoderVars, pushed, astray>>
      BY <1>10, <2>2, Zenon DEF Irq1
    <3>2. Pending' = Pending
      BY <2>1, <3>1, Zenon DEF Pending, Ours, portVars
    <3> QED
      BY <1>8, <2>1, <3>1, <3>2
  <2>3. CASE obf # NoByte
    <3>1. /\ obf' = NoByte /\ obf_aux' = FALSE /\ Decode(obf) /\ obf \in Byte
          /\ astray' = (astray \/ (obf_aux /\ obf \notin Ignored))
      BY <1>2, <1>10, <2>3, Zenon DEF Irq1, ReadData
    <3>2. Now' = After(Now, obf)
      BY <3>1, DecodeIsAfter
    <3>3. IsState(Now)
      <4>1. /\ Now.left = shift_left /\ Now.right = shift_right /\ Now.ctrl = ctrl_key
            /\ Now.caps = caps /\ Now.rel = pending_release /\ Now.ext = ext
            /\ Now.keys = pushed
        BY DEF Now
      <4> QED
        BY <1>1, <4>1, Zenon DEF IsState, KbdInv, TypeOK
    <3>4. IsState(Now')
      BY <3>1, <3>2, <3>3, AfterFacts
    <3>5. pushed' \in Seq(K)
      <4>1. Now'.keys = pushed'
        BY DEF Now
      <4> QED
        BY <3>4, <4>1 DEF IsState
    <3>6. Pending' = wire
      BY <2>1, <3>1, Zenon DEF Pending, Ours
    <3>7. Goal' = Goal
      BY <2>1, Zenon DEF Goal, Held
    <3>8. ASSUME ~astray' PROVE Leads(Pending', Now', Goal')
      <4>1. CASE Ours
        <5>1. Leads(<<obf>> \o wire, Now, Goal)
          BY <1>1, <3>1, <3>8, <4>1, Zenon DEF Pending
        <5>2. Leads(wire, After(Now, obf), Goal)
          BY <1>2, <3>1, <5>1, LeadsTail
        <5> QED
          BY <3>2, <3>6, <3>7, <5>2
      <4>2. CASE ~Ours
        <5>1. obf \in Ignored /\ Leads(wire, Now, Goal)
          BY <1>1, <2>3, <3>1, <3>8, <4>2, Zenon DEF Pending, Ours
        <5>2. Now' = Now
          BY <3>1, <5>1, IgnoredStays
        <5> QED
          BY <3>6, <3>7, <5>1, <5>2
      <4> QED
        BY <4>1, <4>2
    <3> QED
      BY <1>1, <2>1, <3>5, <3>8, Zenon DEF DecInv
  <2> QED
    BY <2>2, <2>3
<1>11. CASE Reader \/ MouseBegin \/ MouseEnd
  <2>1. UNCHANGED <<typed, down, caps_lit, pushed, decoderVars, portVars, wire, astray>>
    BY <1>11, Zenon DEF Reader, MouseBegin, MouseEnd, deviceVars, mouseVars
  <2>2. Pending' = Pending
    BY <2>1, Zenon DEF Pending, Ours, portVars
  <2> QED
    BY <1>8, <2>1, <2>2
<1>12. CASE MouseDrain
  <2>1. /\ UNCHANGED <<typed, down, caps_lit, pushed, decoderVars, wire>>
        /\ obf' = NoByte /\ astray' = (astray \/ ~obf_aux)
    BY <1>12 DEF MouseDrain, ReadData, deviceVars
  <2>2. ~astray' => ~astray /\ Pending' = Pending
    BY <2>1, Zenon DEF Pending, Ours
  <2> QED
    BY <1>8, <2>1, <2>2
<1>13. CASE DeliverAux
  <2>1. /\ UNCHANGED <<typed, down, caps_lit, pushed, decoderVars, wire, astray>>
        /\ obf = NoByte /\ obf_aux' = TRUE
    BY <1>13, Zenon DEF DeliverAux, deviceVars, mouseVars
  <2>2. Pending' = Pending
    BY <2>1, Zenon DEF Pending, Ours
  <2> QED
    BY <1>8, <2>1, <2>2
<1>14. CASE UNCHANGED vars
  <2>1. UNCHANGED <<typed, down, caps_lit, pushed, decoderVars, portVars, wire, astray>>
    BY <1>14 DEF vars, deviceVars, mouseVars
  <2>2. Pending' = Pending
    BY <2>1, Zenon DEF Pending, Ours, portVars
  <2> QED
    BY <1>8, <2>1, <2>2
<1> QED
  BY <1>5, <1>6, <1>7, <1>9, <1>10, <1>11, <1>12, <1>13, <1>14 DEF Next

LEMMA BeginsIsPrefix ==
  ASSUME NEW S, NEW s \in Seq(S), NEW t \in Seq(S), Begins(s, t)
  PROVE  IsPrefix(s, t)
<1> DEFINE n == Len(s)
           a == SubSeq(s, 1, n)
           d == SubSeq(t, 1, n)
<1>1. n \in Nat /\ Len(t) \in Nat /\ n <= Len(t) /\ \A i \in 1 .. n : s[i] = t[i]
  BY DEF Begins
<1>2. (\A i \in 1 .. n : s[i] \in S) /\ (\A i \in 1 .. Len(t) : t[i] \in S)
  BY ElementOfSeq
<1>3. \A i \in 1 .. n : t[i] \in S
  BY <1>1, <1>2
<1> HIDE DEF n
<1>4. a \in Seq(S) /\ Len(a) = n /\ \A i \in 1 .. n : a[i] = s[i]
  <2>1. /\ a \in Seq(S) /\ Len(a) = (IF 1 <= n THEN n - 1 + 1 ELSE 0)
        /\ \A i \in 1 .. (n - 1 + 1) : a[i] = s[1 + i - 1]
    BY <1>1, <1>2, SubSeqProperties
  <2> HIDE DEF a
  <2> QED
    BY ONLY <1>1, <2>1
<1>5. d \in Seq(S) /\ Len(d) = n /\ \A i \in 1 .. n : d[i] = t[i]
  <2>1. /\ d \in Seq(S) /\ Len(d) = (IF 1 <= n THEN n - 1 + 1 ELSE 0)
        /\ \A i \in 1 .. (n - 1 + 1) : d[i] = t[1 + i - 1]
    BY <1>1, <1>3, SubSeqProperties
  <2> HIDE DEF d
  <2> QED
    BY ONLY <1>1, <2>1
<1> HIDE DEF a, d
<1>6. a = d
  BY <1>1, <1>4, <1>5, SeqEqual
<1> QED
  BY <1>1, <1>6 DEF IsPrefix, n, a, d

(* As long as no byte has gone to the wrong reader, the keys pushed are a     *)
(* prefix of what the buttons typed, and when every byte is in they are all  *)
(* of it, with the driver's modifiers equal to the buttons'.                 *)
THEOREM DecoderAgrees == Spec => []DecodeAgrees
<1>1. KbdInv /\ DecInv => DecodeAgrees
  <2> SUFFICES ASSUME KbdInv, DecInv, ~astray
               PROVE  /\ IsPrefix(pushed, typed)
                      /\ Drained =>
                           /\ pushed = typed
                           /\ shift_left = Held(LSHIFT) /\ shift_right = Held(RSHIFT)
                           /\ ctrl_key = Held(CTRL) /\ caps = caps_lit
                           /\ ~pending_release /\ ~ext
    BY DEF DecodeAgrees
  <2>1. Leads(Pending, Now, Goal) /\ Pending \in Seq(Byte)
    BY PendingFacts DEF DecInv
  <2>2. Begins(Now.keys, Goal.keys) /\ (Pending = << >> => Now = Goal)
    BY <2>1, LeadsEnds
  <2>3. /\ Now.left = shift_left /\ Now.right = shift_right /\ Now.ctrl = ctrl_key
        /\ Now.caps = caps /\ Now.rel = pending_release /\ Now.ext = ext /\ Now.keys = pushed
    BY DEF Now
  <2>4. /\ Goal.left = Held(LSHIFT) /\ Goal.right = Held(RSHIFT)
        /\ Goal.ctrl = Held(CTRL) /\ Goal.caps = caps_lit /\ Goal.rel = FALSE
        /\ Goal.ext = FALSE /\ Goal.keys = typed
    BY GoalFacts
  <2>5. IsPrefix(pushed, typed)
    BY <2>2, <2>3, <2>4, BeginsIsPrefix DEF DecInv
  <2>6. Drained => Pending = << >>
    BY Zenon DEF Drained, Pending, Ours
  <2> QED
    BY <2>2, <2>3, <2>4, <2>5, <2>6, Zenon
<1>2. Init => KbdInv /\ DecInv
  BY KbdInit, DecInit
<1>3. KbdInv /\ DecInv /\ [Next]_vars => KbdInv' /\ DecInv'
  BY KbdNext, DecNext
<1> QED
  BY <1>1, <1>2, <1>3, PTL DEF Spec
===========================================================================
