-------------------------------- MODULE Utf8 --------------------------------
(***************************************************************************)
(* The walks over the bytes of a text (utf8.c) that ot_comp_size, ot_xform *)
(* and ot_compose count and cut inserted texts with.  The other modules    *)
(* take a text for a sequence of characters; SlicesAreCharacters says that *)
(* the walks see it so when it is well-formed UTF-8.                       *)
(*                                                                         *)
(* char is unsigned (-funsigned-char).  utf8_cps returns (size_t)-1 for a  *)
(* byte no character begins with, and adding that is a step back.          *)
(***************************************************************************)
EXTENDS Integers, Sequences, SequencesExt

CONSTANTS
  Chars,       \* the characters: for each, the sequence of its bytes
  Stray,       \* bytes that may be anywhere in a text that is not well-formed
  MaxChars,    \* bound: characters in a text
  SizeMax      \* the largest size_t

VARIABLES
  chars,       \* the characters the text is made of; <<b>> for a stray byte
  i, length    \* the locals of utf8_length

walkVars == <<chars, i, length>>

Encoded(list) == FlattenSeq(list)
str == Encoded(chars)
WellFormed(list) == \A c \in ToSet(list) : c \in Chars

-----------------------------------------------------------------------------
\* Mutant: a character of three bytes is taken for one of two.
TwoForThree(byte) ==
  CASE byte <= 127 -> 1
    [] byte \in 128..191 -> SizeMax
    [] byte \in 192..239 -> 2
    [] byte \in 240..247 -> 4
    [] OTHER -> SizeMax

utf8_cps(byte) ==
  CASE byte <= 127 -> 1
    [] byte \in 128..191 -> SizeMax
    [] byte \in 192..223 -> 2
    [] byte \in 224..239 -> 3
    [] byte \in 240..247 -> 4
    [] OTHER -> SizeMax

Plus(m, n) == (m + n) % (SizeMax + 1)

\* A character of n bytes, in UTF-8: the first byte tells how many there are,
\* and none of the others could be the first of a character.
Within == 128..191
Leads == <<0..127, 192..223, 224..239, 240..247>>
IsCharacter(c) ==
  \E n \in 1..4 :
    /\ c \in [1..n -> 0..247] /\ c[1] \in Leads[n]
    /\ \A k \in 2..n : c[k] \in Within

ASSUME CharsAssumption ==
  /\ \A c \in Chars : IsCharacter(c)
  /\ Stray \subseteq Within \cup 248..255
  /\ MaxChars \in Nat /\ SizeMax \in Nat /\ 4 * MaxChars <= SizeMax

(***************************************************************************)
(* utf8_length, one turn of its loop at a time.                            *)
(***************************************************************************)
Texts == UNION {[1..n -> Chars \cup {<<b>> : b \in Stray}] : n \in 0..MaxChars}

WalkInit == chars \in Texts /\ i = 0 /\ length = 0

Running == i < Len(str)

Turn ==
  /\ Running
  /\ i' = Plus(i, utf8_cps(str[i + 1]))
  /\ length' = IF length < Len(str) THEN length + 1 ELSE length   \* bound
  /\ UNCHANGED chars

WalkSpec == WalkInit /\ [][Turn]_walkVars

(***************************************************************************)
(* utf8_bytes: how many bytes the first n characters of a text take.       *)
(***************************************************************************)
utf8_bytes(text, n) ==
  LET at[k \in 0..n] == IF k = 0 THEN 0 ELSE Plus(at[k - 1], utf8_cps(text[at[k - 1] + 1]))
  IN  at[n]

\* n characters of a text from character offset, as the loops copy them.
Slice(text, offset, n) ==
  LET start == SubSeq(text, utf8_bytes(text, offset) + 1, Len(text))
  IN  SubSeq(start, 1, utf8_bytes(start, n))

-----------------------------------------------------------------------------
\* What an iterator's offset and a count cut out of an insert are those
\* characters of it, whole: no slice begins or ends inside of a character.
SlicesAreCharacters ==
  WellFormed(chars) =>
    \A offset \in 0..Len(chars) : \A n \in 0..(Len(chars) - offset) :
      Slice(str, offset, n) = Encoded(SubSeq(chars, offset + 1, offset + n))

\* The walk through a well-formed text goes from character to character and
\* counts each of them once: it ends with their number, which the lengths of
\* components and the spans of operations are counted in.  A text that begins
\* with a byte no character begins with counts as one character, however long
\* it is: the step back from offset zero leads behind its end.  And a text with
\* such a byte anywhere else is never done with: the walk steps back from it
\* to a character it has counted, and forth again.
LengthCounts ==
  IF WellFormed(chars) THEN i = Len(Encoded(SubSeq(chars, 1, length)))
  ELSE IF Head(chars) \notin Chars THEN length = 0 \/ (length = 1 /\ ~Running)
  ELSE Running
=============================================================================
