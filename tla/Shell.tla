------------------------------- MODULE Shell -------------------------------
(***************************************************************************)
(* The shell of kernel/shell.c: the loop of qizo_shell, its line editor,   *)
(* tab completion, the history and the look-up of a command.  One step is  *)
(* the handling of one key.  line stands for the first len characters of   *)
(* the buffer, shown for what stands after the last prompt or line break   *)
(* of the screen and col for the cursor's column.  A line may be longer    *)
(* than the rest of the row behind the prompt: the console then goes on in *)
(* the next row, and a backspace never goes back to the row above.         *)
(***************************************************************************)
EXTENDS History, SequencesExt

CONSTANTS
  LINE_MAX,    \* size of the line buffer, with its terminator
  TERM_COLS,   \* characters of a row of the console
  PROMPT,      \* characters of the prompt
  Garbled,     \* a screen on which characters the line has lost are left
  Chars,       \* characters edit_line accepts; the blank is one of them
  Refused,     \* characters it does not, the digits among them
  Names,       \* the command table, in its order
  KeysName,    \* the command that toggles keys_mode
  StopNames,   \* the commands that do not return: halt and reboot
  MaxHist      \* bound on hist_count

\* The characters of a line; completion brings in those of the names.
Letters == Chars \cup UNION {{Names[i][j] : j \in 1 .. Len(Names[i])} : i \in 1 .. Len(Names)}

\* A text is what fits the buffer.  The table's names are distinct, have no
\* blank and leave room for the one that complete appends.
ASSUME ShellAssumption ==
  /\ LINE_MAX \in Nat /\ LINE_MAX > 0
  /\ " " \in Chars
  /\ NoText = << >> /\ Texts = BoundedSeq(Letters, LINE_MAX - 1)
  /\ Names \in Seq(Seq(Letters))
  /\ \A i \in 1 .. Len(Names) :
       /\ Len(Names[i]) + 1 < LINE_MAX
       /\ \A j \in 1 .. Len(Names[i]) : Names[i][j] # " "
       /\ \A k \in 1 .. Len(Names) : Names[i] = Names[k] => i = k
  /\ MaxHist \in Nat

ASSUME ConsoleAssumption ==
  /\ TERM_COLS \in Nat /\ PROMPT \in Nat /\ PROMPT < TERM_COLS
  /\ Garbled \notin Texts

VARIABLES line, shown, col, keys_mode, running

screenVars == <<shown, col>>
vars == <<histVars, line, screenVars, keys_mode, running>>

Init ==
  /\ HistInit
  /\ line = << >> /\ shown = << >> /\ col = PROMPT
  /\ keys_mode = FALSE /\ running = TRUE

---------------------------------------------------------------------------
(* Texts.                                                                  *)

NotBlank(ch) == ch # " "
IsBlank(ch) == ch = " "

\* The first k characters of s.
Keep(s, k) == SubSeq(s, 1, k)

\* The line with the blanks before it but without its arguments: what is
\* left of it as a C string once qizo_shell has ended the first word.
FirstWord(s) ==
  LET start == SelectInSeq(s, NotBlank)
      end == SelectInSubSeq(s, start, Len(s), IsBlank)
  IN  IF start = 0 THEN << >> ELSE IF end = 0 THEN s ELSE Keep(s, end - 1)

Command(s) == SelectSeq(FirstWord(s), NotBlank)

Blank(s) == \A i \in 1 .. Len(s) : IsBlank(s[i])

\* erase_word: the blanks at the end, then the word before them.
EraseWord(s) ==
  LET t == Keep(s, SelectLastInSeq(s, NotBlank))
  IN  Keep(t, SelectLastInSeq(t, IsBlank))

\* The names complete accepts: name_prefix wants at least one more character.
Matches(s) == {i \in 1 .. Len(Names) : IsStrictPrefix(s, Names[i])}

\* The characters two names share before they differ.
Shared(m, n) ==
  LET same(k) == k <= Len(m) /\ k <= Len(n) /\ Keep(m, k) = Keep(n, k)
  IN  Keep(m, CHOOSE k \in 0 .. Len(m) : same(k) /\ ~same(k + 1))

\* best after the whole table: the first match, cut by each match after it.
Best(s) ==
  LET best[i \in 0 .. Len(Names)] ==
        IF i = 0 THEN << >>
        ELSE IF i \notin Matches(s) THEN best[i - 1]
        ELSE IF Matches(s) \cap 1 .. i - 1 = {} THEN Names[i]
        ELSE Shared(best[i - 1], Names[i])
  IN  best[Len(Names)]

\* Mutant: the first match is taken, whatever the others are.
MutCompleted(s) ==
  IF Matches(s) = {} THEN s ELSE Append(Names[Min(Matches(s))], " ")

\* complete.
Completed(s) ==
  LET text == s \o SubSeq(Best(s), Len(s) + 1, Len(Best(s)))
  IN  IF Matches(s) = {} THEN s
      ELSE IF \E i \in Matches(s) : Matches(s) = {i} THEN Append(text, " ")
      ELSE text

---------------------------------------------------------------------------
(* The screen: key codes are printed on a row of their own in keys mode,   *)
(* and "\b \b" is printed once for every character that leaves the line.   *)

Row == IF keys_mode THEN << >> ELSE shown
RowCol == IF keys_mode THEN 0 ELSE col

\* The cursor after n characters, printed from column k on: a character that
\* finds the row full goes to the next one.
Advanced(k, n) == IF n = 0 THEN k ELSE ((k + n - 1) % TERM_COLS) + 1

\* qizo_putc for every character of text.
Put(text) ==
  /\ shown' = IF Row = Garbled THEN Garbled ELSE Row \o text
  /\ col' = Advanced(RowCol, Len(text))

\* Mutant: one character goes from the screen, however many leave the line.
MutErased(n) == IF Row \in {<< >>, Garbled} THEN Row ELSE Keep(Row, Len(Row) - 1)

\* Erasing n characters stops at column 0: what stands in the row above is
\* left there.  Erasing more than the screen shows eats the prompt.
Erased(n) ==
  IF Row = Garbled THEN Garbled
  ELSE IF n > RowCol /\ Len(Row) > RowCol THEN Garbled
  ELSE IF n > Len(Row) THEN << >> ELSE Keep(Row, Len(Row) - n)

ErasedCol(n) == IF n > RowCol THEN 0 ELSE RowCol - n

\* The line becomes its first k characters.
CutTo(k) ==
  /\ line' = Keep(line, k)
  /\ shown' = Erased(Len(line) - k)
  /\ col' = ErasedCol(Len(line) - k)

\* A new prompt, at the beginning of a row.
Prompted == shown' = << >> /\ col' = PROMPT

---------------------------------------------------------------------------
(* The keys.                                                               *)

rest == <<keys_mode, running>>

\* Mutant: the terminator is forgotten, and the last byte is used too.
MutRoom == Len(line) < LINE_MAX
Room == Len(line) < LINE_MAX - 1

Type(ch) ==
  /\ running
  /\ IF ch \in Chars /\ Room
       THEN line' = Append(line, ch) /\ Put(<<ch>>)
       ELSE line' = line /\ Put(<< >>)
  /\ UNCHANGED <<histVars, rest>>

Backspace ==
  /\ running
  /\ CutTo(IF line = << >> THEN 0 ELSE Len(line) - 1)
  /\ UNCHANGED <<histVars, rest>>

CtrlU ==
  /\ running
  /\ CutTo(0)
  /\ UNCHANGED <<histVars, rest>>

CtrlW ==
  /\ running
  /\ CutTo(Len(EraseWord(line)))
  /\ UNCHANGED <<histVars, rest>>

\* The screen is wiped and a prompt drawn; the line stays.
CtrlL ==
  /\ running
  /\ Prompted
  /\ UNCHANGED <<histVars, rest, line>>

\* The line goes and hist_at stays; what clear_line prints finds column 0.
CtrlC ==
  /\ running
  /\ line' = << >> /\ Prompted
  /\ UNCHANGED <<histVars, rest>>

Tab ==
  /\ running
  /\ line' = Completed(line)
  /\ Put(SubSeq(line', Len(line) + 1, Len(line')))
  /\ UNCHANGED <<histVars, rest>>

\* clear_line, then set_line with the entry walked to, if there is one; its
\* limit on the length never bites, since every entry was once a line.
Show(i) ==
  LET text == IF i >= hist_count THEN << >> ELSE Recalled(i)
      left == Erased(Len(line))
  IN  /\ line' = text
      /\ shown' = IF left = Garbled THEN Garbled ELSE left \o text
      /\ col' = Advanced(ErasedCol(Len(line)), Len(text))

Up ==
  /\ running /\ ~keys_mode
  /\ Older
  /\ Show(hist_at')
  /\ UNCHANGED rest

Down ==
  /\ running /\ ~keys_mode
  /\ Newer
  /\ Show(hist_at')
  /\ UNCHANGED rest

\* In keys mode the arrows print their code and do nothing else.
ArrowCode ==
  /\ running /\ keys_mode
  /\ shown' = << >> /\ col' = 0
  /\ UNCHANGED <<histVars, rest, line>>

\* A blank line gives a new prompt and is not cleared.
EnterBlank ==
  /\ running
  /\ Blank(line)
  /\ Prompted
  /\ UNCHANGED <<histVars, rest, line>>

\* The first word is remembered, looked up in the table and run.  Of the
\* commands' own effects, the ones on the shell are kept; "?" is help, which
\* has none.
EnterCommand ==
  LET cmd == Command(line)
  IN  /\ running /\ ~Blank(line)
      /\ hist_count < MaxHist
      /\ Remember(FirstWord(line))
      /\ line' = << >> /\ Prompted
      /\ keys_mode' = (keys_mode # (cmd = KeysName))
      /\ running' = (cmd \notin StopNames)

Next ==
  \/ \E ch \in Chars \cup Refused : Type(ch)
  \/ Backspace \/ CtrlU \/ CtrlW \/ CtrlL \/ CtrlC \/ Tab
  \/ Up \/ Down \/ ArrowCode \/ EnterBlank \/ EnterCommand

Spec == Init /\ [][Next]_vars

---------------------------------------------------------------------------
(* Properties.                                                             *)

\* Type correctness; a line and its terminator fit their buffer, and so does
\* every remembered text.
TypeOK ==
  /\ line \in Texts /\ shown \in Texts \cup {Garbled}
  /\ col \in 0 .. TERM_COLS
  /\ hist \in [Ring -> Texts]
  /\ hist_count \in 0 .. MaxHist /\ hist_at \in 0 .. MaxHist
  /\ {keys_mode, running} \subseteq BOOLEAN

\* The prompt and the line fill the row, or more than that.
FillsRow == PROMPT + Len(line) >= TERM_COLS

\* What the user sees is what Enter would run: while the line stands on the
\* screen, every key changes both alike, recall and completion included.
\* Only a wiped screen, a blank line entered, keys mode, and a line that has
\* come to the end of its row part them.
ScreenFollows ==
  [][shown = line /\ shown' # line' => keys_mode \/ CtrlL \/ EnterBlank \/ FillsRow]_vars

\* Text without the blank that a unique completion appends.
Trimmed(s) == IF s # << >> /\ Last(s) = " " THEN Front(s) ELSE s

\* Tab never guesses: all the commands complete chose from still begin with
\* the new line, which is as long as that allows; the blank is appended only
\* after the whole of the one name that is left.
TabIsSafe ==
  [][Tab =>
       LET candidates == {Names[i] : i \in {j \in 1 .. Len(Names) :
                                               IsStrictPrefix(line, Names[j])}}
           text == Trimmed(line')
       IN  IF candidates = {} THEN line' = line
           ELSE /\ text = LongestCommonPrefix(candidates)
                /\ (text # line') <=> (candidates = {text})]_vars

\* Walking the history shows the entries that "hist" lists: the line recall
\* leaves is the entry hist_at points at.
RecallShowsHistory ==
  [][(Up \/ Down) /\ hist_at' < hist_count =>
        line' = Recent[hist_at' - HistFirst + 1]]_vars
===========================================================================
