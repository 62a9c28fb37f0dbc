-------------------------------- MODULE Trim --------------------------------
(***************************************************************************)
(* string_trim.h: blanks are erased from the end of a line, then from its  *)
(* beginning.  RestWire has what the console does with what is left.       *)
(***************************************************************************)
EXTENDS Integers, Sequences

CONSTANTS
  Letters, \* characters that are not blanks
  Blanks   \* those for which std::isspace is true

ASSUME TrimAssumption == Letters \cap Blanks = {}

\* The least index of a character that is not a blank; the end if none is.
FirstLetter(s) ==
  CHOOSE i \in 1 .. Len(s) + 1 :
    /\ \A j \in 1 .. i - 1 : s[j] \in Blanks
    /\ i <= Len(s) => s[i] \notin Blanks

LastLetter(s) ==
  CHOOSE i \in 0 .. Len(s) :
    /\ \A j \in i + 1 .. Len(s) : s[j] \in Blanks
    /\ i > 0 => s[i] \notin Blanks

ltrim(s) == SubSeq(s, FirstLetter(s), Len(s))

rtrim_mutant(s) == SubSeq(s, 1, LastLetter(s) - 1)  \* without .base()

rtrim(s) == SubSeq(s, 1, LastLetter(s))

trim(s) == ltrim(rtrim(s))
=============================================================================
