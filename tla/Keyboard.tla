----------------------------- MODULE Keyboard -----------------------------
(***************************************************************************)
(* The keyboard path of the kernel: the keyboard and its controller        *)
(* (external), qizo_irq_handler's keyboard vector, the set 2 decoder of    *)
(* kernel/drivers/kbd.c, the key queue, and the shell as its reader.       *)
(*                                                                         *)
(* The keyboard sends key events as scan code set 2 byte sequences, which  *)
(* is what the driver expects (set2 is 1 from qizo_kbd_init on).  The      *)
(* controller holds one byte at a time and raises irq 1 for it.            *)
(*                                                                         *)
(* The mouse's bytes stand in the same output buffer: the answers to what  *)
(* qizo_mouse_start sends it, which nobody reads, and its movements.  They *)
(* raise irq 12, which is never served: pic_init leaves it open at the     *)
(* second controller and masks the line that controller hangs on.  So two  *)
(* readers are left: the keyboard's handler, which takes whatever byte is  *)
(* there, and qizo_mouse_report, the shell's "mouse" command, which drains *)
(* the port with interrupts on and competes with the handler.              *)
(***************************************************************************)
EXTENDS KbdQueue, SequencesExt

CONSTANTS
  PlainMap, ShiftMap,   \* set2_noshift and set2_shift on the scan codes used
  ExtMap,               \* the extended codes handle_set2 maps
  Buttons,              \* the buttons of the keyboard: [code, ext]
  AuxBytes,             \* what the mouse may send: answers and movements
  MaxEvents,            \* bound on what the keyboard sends in a behaviour
  MaxAux,               \* bound on the bytes of the mouse in a behaviour
  MaxMouse              \* bound on "mouse" commands in a behaviour

NoByte == -1
E0 == 224
E1 == 225
F0 == 240
ACK == 250
SELFTEST == 170
Ignored == {ACK, 238, 252, 254, 255}
Reserved == {E0, E1, F0, SELFTEST} \cup Ignored   \* bytes that are no scan code
LSHIFT == 18
RSHIFT == 89
CTRL == 20
CAPS == 88
MouseReads == 8   \* bytes the "mouse" command reads at most

VARIABLES
  down, caps_lit,   \* the buttons held, and the state of caps lock
  wire,      \* bytes the keyboard has not handed to the controller yet
  aux,       \* bytes the mouse still has to send
  obf,       \* the controller's output buffer
  obf_aux,   \* status bit 5: the byte in it is the mouse's
  irq1,      \* irq 1 is pending
  shift_left, shift_right, ctrl_key, caps, pending_release, ext,   \* kbd.c
  polls,     \* reads left to the running "mouse" command
  events, mice,   \* counters behind the two bounds
  astray,    \* history: a byte has gone to the wrong reader
  typed,     \* history: what the events so far should type
  pushed     \* history: the keys given to push_key

portVars == <<obf, obf_aux>>
deviceVars == <<down, caps_lit, wire, events, typed>>
decoderVars == <<shift_left, shift_right, ctrl_key, caps, pending_release, ext>>
mouseVars == <<polls, mice, astray>>
vars == <<queueVars, deviceVars, aux, portVars, irq1, decoderVars, mouseVars, pushed>>

Init ==
  /\ QueueInit
  /\ down = {} /\ caps_lit = FALSE /\ wire = << >> /\ events = 0 /\ typed = << >>
  /\ aux \in 0 .. MaxAux /\ obf = NoByte /\ obf_aux = FALSE
  /\ irq1 \in BOOLEAN   \* kbd_cmd has read answers with interrupts off
  /\ shift_left = FALSE /\ shift_right = FALSE /\ ctrl_key = FALSE /\ caps = FALSE
  /\ pending_release = FALSE /\ ext = FALSE
  /\ polls = 0 /\ mice = 0 /\ astray = FALSE
  /\ pushed = << >>

---------------------------------------------------------------------------
(* The tables.                                                             *)

\* Mutant: caps lock and the shift keys cancel out.
MutShifted(left, right, lock) == (left \/ right) # lock

Shifted(left, right, lock) == left \/ right \/ lock

\* map[scan] in push_scancode: codes from 0x60 on are not looked up.
Mapped(code, shift) ==
  LET map == IF shift THEN ShiftMap ELSE PlainMap
  IN  IF code < 96 /\ code \in DOMAIN map THEN map[code] ELSE NoKey

\* With control held only lower case letters give a key.
Translate(code, shift, ctrl) ==
  LET ch == Mapped(code, shift)
  IN  IF ~ctrl THEN ch ELSE IF ch \in 97 .. 122 THEN ch - 97 + 1 ELSE NoKey

Extended(code) == IF code \in DOMAIN ExtMap THEN ExtMap[code] ELSE NoKey

(* The keyboard uses none of the prefix and reply bytes as the code of a    *)
(* button, the tables hold keys, and no letter stands for "no key".         *)
ASSUME KeyboardAssumption ==
  /\ Buttons \subseteq [code : 0 .. 255 \ Reserved, ext : BOOLEAN]
  /\ NoKey \notin 97 .. 122
  /\ \A b \in 0 .. 255 :
       /\ Extended(b) \in Keys \cup {NoKey}
       /\ \A shift, ctrl \in BOOLEAN : Translate(b, shift, ctrl) \in Keys \cup {NoKey}

ASSUME AuxAssumption == AuxBytes \subseteq 0 .. 255 /\ MaxAux \in Nat

---------------------------------------------------------------------------
(* The keyboard (external): make and break sequences, repeats, replies.    *)

Make(k) == IF k.ext THEN <<E0, k.code>> ELSE <<k.code>>
Break(k) == IF k.ext THEN <<E0, F0, k.code>> ELSE <<F0, k.code>>

Held(code) == [code |-> code, ext |-> FALSE] \in down

\* The key a press of k types, said of buttons and not of bytes.
Meaning(k) ==
  IF k.ext THEN Extended(k.code)
  ELSE IF k.code \in {LSHIFT, RSHIFT, CTRL, CAPS} THEN NoKey
  ELSE Translate(k.code, Held(LSHIFT) \/ Held(RSHIFT) \/ caps_lit, Held(CTRL))

Send(bytes) ==
  /\ events < MaxEvents
  /\ events' = events + 1
  /\ wire' = wire \o bytes
  /\ UNCHANGED <<queueVars, aux, portVars, irq1, decoderVars, mouseVars, pushed>>

\* A press, or the repeat of a button that is held.
Press(k) ==
  /\ Send(Make(k))
  /\ down' = down \cup {k}
  /\ caps_lit' = IF k.code = CAPS /\ ~k.ext THEN ~caps_lit ELSE caps_lit
  /\ typed' = IF Meaning(k) = NoKey THEN typed ELSE Append(typed, Meaning(k))

Release(k) ==
  /\ k \in down
  /\ Send(Break(k))
  /\ down' = down \ {k}
  /\ UNCHANGED <<caps_lit, typed>>

\* An answer to a command, or the result of the self test after a reset.
Reply ==
  /\ \E b \in {ACK, SELFTEST} : (b = SELFTEST => down = {}) /\ Send(<<b>>)
  /\ UNCHANGED <<down, caps_lit, typed>>

\* The controller takes the next byte and raises the interrupt; while a byte
\* stands in the output buffer, whosever it is, the keyboard has to wait.
Deliver ==
  /\ obf = NoByte
  /\ wire # << >>
  /\ obf' = Head(wire) /\ obf_aux' = FALSE
  /\ wire' = Tail(wire)
  /\ irq1' = TRUE
  /\ UNCHANGED <<queueVars, down, caps_lit, events, typed, aux, decoderVars, mouseVars,
                 pushed>>

\* A byte of the mouse: the interrupt it raises is masked.
DeliverAux ==
  /\ obf = NoByte
  /\ aux > 0
  /\ obf' \in AuxBytes /\ obf_aux' = TRUE
  /\ aux' = aux - 1
  /\ UNCHANGED <<queueVars, deviceVars, irq1, decoderVars, mouseVars, pushed>>

---------------------------------------------------------------------------
(* kbd.c: qizo_kbd_interrupt with set2 = 1.                                *)

\* push_key, when the code has a key.
Emit(key) ==
  IF key = NoKey THEN UNCHANGED <<ringVars, pushed>>
  ELSE Push(key) /\ pushed' = Append(pushed, key)

Prefix(b) ==
  /\ b \in Reserved
  /\ ext' = (ext \/ b \in {E0, E1})
  /\ pending_release' = ((pending_release \/ b = F0) /\ b # SELFTEST)
  /\ UNCHANGED <<shift_left, shift_right, ctrl_key, caps, ringVars, pushed>>

\* Mutant: a released extended key types as well.
MutExtendedKey(b) ==
  /\ ext
  /\ ext' = FALSE
  /\ pending_release' = FALSE
  /\ Emit(Extended(b))
  /\ UNCHANGED <<shift_left, shift_right, ctrl_key, caps>>

ExtendedKey(b) ==
  /\ ext
  /\ ext' = FALSE
  /\ pending_release' = FALSE
  /\ Emit(IF pending_release THEN NoKey ELSE Extended(b))
  /\ UNCHANGED <<shift_left, shift_right, ctrl_key, caps>>

\* push_scancode.
PlainKey(b) ==
  LET up == pending_release
      shift == Shifted(shift_left, shift_right, caps)
      silent == up \/ b \in {LSHIFT, RSHIFT, CTRL, CAPS, 242, 245}
  IN  /\ ~ext
      /\ pending_release' = FALSE
      /\ shift_left' = IF b = LSHIFT THEN ~up ELSE shift_left
      /\ shift_right' = IF b = RSHIFT THEN ~up ELSE shift_right
      /\ ctrl_key' = IF b = CTRL THEN ~up ELSE ctrl_key
      /\ caps' = IF b = CAPS /\ ~up THEN ~caps ELSE caps
      /\ Emit(IF silent THEN NoKey ELSE Translate(b, shift, ctrl_key))
      /\ UNCHANGED ext

Decode(b) ==
  \/ Prefix(b)
  \/ b \notin Reserved /\ (ExtendedKey(b) \/ PlainKey(b))

\* Mutant: the data port is not read.
MutReadData == UNCHANGED portVars
ReadData == obf' = NoByte /\ obf_aux' = FALSE

\* qizo_irq_handler, vector 33: the status is looked at before the data port,
\* but not its bit 5, so a byte of the mouse is decoded as a scan code.
Irq1 ==
  /\ irq1
  /\ irq1' = FALSE
  /\ IF obf = NoByte
       THEN UNCHANGED <<portVars, decoderVars, ringVars, astray, pushed>>
       ELSE /\ ReadData
            /\ Decode(obf)
            /\ astray' = (astray \/ (obf_aux /\ obf \notin Ignored))
  /\ UNCHANGED <<readerVars, deviceVars, aux, polls, mice>>

---------------------------------------------------------------------------
(* The shell: its polling loop, and the "mouse" command.                   *)

Reader ==
  /\ Load \/ Advance
  /\ UNCHANGED <<deviceVars, aux, portVars, irq1, decoderVars, mouseVars, pushed>>

MouseBegin ==
  /\ rpc = "poll" /\ mice < MaxMouse
  /\ rpc' = "mouse" /\ polls' = MouseReads /\ mice' = mice + 1
  /\ UNCHANGED <<ringVars, c, last, deviceVars, aux, portVars, irq1, decoderVars, astray,
                 pushed>>

\* The port is read while the status says a byte is there, whoever sent it.
MouseDrain ==
  /\ rpc = "mouse" /\ polls > 0
  /\ obf # NoByte
  /\ ReadData
  /\ polls' = polls - 1
  /\ astray' = (astray \/ ~obf_aux)
  /\ UNCHANGED <<queueVars, deviceVars, aux, irq1, decoderVars, mice, pushed>>

\* It ends at the eighth byte, or when no byte is there.
MouseEnd ==
  /\ rpc = "mouse"
  /\ polls = 0 \/ obf = NoByte
  /\ rpc' = "poll" /\ polls' = 0
  /\ UNCHANGED <<ringVars, c, last, deviceVars, aux, portVars, irq1, decoderVars, mice,
                 astray, pushed>>

Next ==
  \/ \E k \in Buttons : Press(k) \/ Release(k)
  \/ Reply \/ Deliver \/ DeliverAux \/ Irq1 \/ Reader
  \/ MouseBegin \/ MouseDrain \/ MouseEnd

\* The controller hands over a byte it has room for, the interrupt is served,
\* the shell keeps polling and its "mouse" command keeps reading; nothing
\* obliges anybody to press a key or to move the mouse.
Fairness ==
  /\ WF_vars(Deliver) /\ WF_vars(Irq1) /\ WF_vars(Reader)
  /\ WF_vars(MouseDrain \/ MouseEnd)

Spec == Init /\ [][Next]_vars /\ Fairness

---------------------------------------------------------------------------
(* Properties.                                                             *)

\* Type correctness of the ring, its reader and the controller.
TypeOK ==
  /\ queue \in [Slots -> Keys \cup {NoKey}]
  /\ head \in Slots /\ tail \in Slots
  /\ rpc \in {"poll", "loaded", "mouse"}
  /\ {c, last} \subseteq Keys \cup {NoKey}
  /\ obf \in 0 .. 255 \cup {NoByte} /\ polls \in 0 .. MouseReads
  /\ aux \in 0 .. MaxAux /\ (obf_aux => obf # NoByte)
  /\ {obf_aux, irq1, shift_left, shift_right, ctrl_key, caps, pending_release, ext, astray}
       \subseteq BOOLEAN

\* Everything the keyboard sent has been decoded.
Drained == wire = << >> /\ (obf = NoByte \/ obf_aux)

\* A byte of the mouse stands in the output buffer.
AuxWaits == obf_aux

\* The byte decoder agrees with the buttons: the keys pushed are a prefix of
\* what was typed, and once all bytes are in, all of it, with the driver's
\* shift, control and caps state equal to the buttons' and no prefix left
\* over.  Only a byte gone astray can break this: one of the keyboard taken
\* by the "mouse" command, or a movement taken by a late irq 1.
DecodeAgrees ==
  ~astray =>
    /\ IsPrefix(pushed, typed)
    /\ Drained =>
         /\ pushed = typed
         /\ shift_left = Held(LSHIFT) /\ shift_right = Held(RSHIFT)
         /\ ctrl_key = Held(CTRL) /\ caps = caps_lit
         /\ ~pending_release /\ ~ext

\* Whatever is pressed, and however the "mouse" command interferes, in the end
\* the shell has read every accepted key, and every byte of the keyboard is
\* consumed unless a byte of the mouse, which no interrupt announces, stands
\* before it in the output buffer: the one thing that can silence the keyboard.
EverythingIsRead == []<>(head = tail /\ rpc = "poll" /\ (Drained \/ AuxWaits))
===========================================================================
