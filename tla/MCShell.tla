------------------------------ MODULE MCShell ------------------------------
(* Shell with a table of two commands, one the beginning of the other (as   *)
(* cpu and cpuid are), lines of four characters, which fill the row behind  *)
(* the prompt at the third, and a history of two.                           *)
EXTENDS Shell

MCChars == {"a", " "}
MCRefused == {"0"}
MCNames == << <<"a", "a">>, <<"a">> >>
MCKeysName == <<"a">>
MCStopNames == {<<"a", "a">>}
MCNoText == << >>

\* Every text that fits a line.
MCTexts == BoundedSeq(MCChars, LINE_MAX - 1)
===========================================================================
