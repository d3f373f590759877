-------------------------------- MODULE Slug --------------------------------
(***************************************************************************)
(* slug() of src/core/utils.cpp, byte by byte: the titles are UTF-8, and   *)
(* the first pass looks for letters of two bytes in a string of bytes.     *)
(* The slug of a title is the key of its document in the index.            *)
(***************************************************************************)
EXTENDS Integers, SequencesExt

CONSTANTS
  Characters,   \* the characters of titles, as sequences of bytes,
  Letter,       \*   and the ASCII letter of those with an accent: byte
  MaxLength     \* bound on the characters of a title

\* UTF-8: the first byte is none of those that continue a character, the others
\* are, and a first byte of two leads two, or one where a title is cut off.
ASSUME CharactersAssumption ==
  /\ Characters \subseteq Seq(0 .. 255)
  /\ \A c \in Characters :
       /\ c # <<>> /\ c[1] \notin 128 .. 191
       /\ \A k \in 2 .. Len(c) : c[k] \in 128 .. 191
       /\ c[1] \in 192 .. 223 => Len(c) <= 2
ASSUME LetterAssumption == \A c \in DOMAIN Letter : Letter[c] \in 97 .. 122
ASSUME MaxLengthAssumption == MaxLength \in Nat

VARIABLES title, src, at, res, pass

slugVars == <<title, src, at, res, pass>>

\* The letters with an accent that are replaced, two bytes each, and what by.
Old == << 195,160, 195,162, 195,164, 195,169, 195,168, 195,171, 195,170,
          195,174, 195,175, 195,185, 195,187, 195,188, 195,182, 195,180,
          197,183, 195,191, 195,167 >>
Nw == << 97, 97, 97, 101, 101, 101, 101, 105, 105, 117, 117, 117, 111, 111,
         121, 121, 99 >>

SlugTypeOK ==
  /\ title \in BoundedSeq(Characters, MaxLength)
  /\ src = FlattenSeq(title)
  /\ at \in 1 .. Len(src) + 1
  /\ res \in Seq(0 .. 255) /\ Len(res) <= Len(src)
  /\ pass \in {"replace", "lower", "done"}

SlugInit ==
  /\ title \in BoundedSeq(Characters, MaxLength)
  /\ src = FlattenSeq(title)
  /\ at = 1
  /\ res = <<>>
  /\ pass = "replace"

-----------------------------------------------------------------------------
\* The letters of Old at a position, one at most.
Pair(k) ==
  { j \in DOMAIN Nw : /\ k < Len(src)
                      /\ src[k] = Old[2 * j - 1]
                      /\ src[k + 1] = Old[2 * j] }

\* Mutant: the second half of the letter is not skipped.
ReplaceHalf ==
  /\ pass = "replace" /\ at <= Len(src)
  /\ \E j \in Pair(at) : res' = Append(res, Nw[j])
  /\ at' = at + 1
  /\ UNCHANGED <<title, src, pass>>

Replace ==
  /\ pass = "replace" /\ at <= Len(src)
  /\ \E j \in Pair(at) : res' = Append(res, Nw[j])
  /\ at' = at + 2
  /\ UNCHANGED <<title, src, pass>>

Keep ==
  /\ pass = "replace" /\ at <= Len(src)
  /\ Pair(at) = {}
  /\ res' = Append(res, src[at])
  /\ at' = at + 1
  /\ UNCHANGED <<title, src, pass>>

\* The end of the first pass.
Second ==
  /\ pass = "replace" /\ at > Len(src)
  /\ pass' = "lower"
  /\ at' = 1
  /\ UNCHANGED <<title, src, res>>

ToLower(b) == IF b \in 65 .. 90 THEN b + 32 ELSE b

IsKept(b) == b \in 97 .. 122 \/ b \in 48 .. 57

Underscore == 95

Lower ==
  /\ pass = "lower" /\ at <= Len(res)
  /\ res' = [res EXCEPT ![at] = IF IsKept(ToLower(@)) THEN ToLower(@) ELSE Underscore]
  /\ at' = at + 1
  /\ UNCHANGED <<title, src, pass>>

Return ==
  /\ pass = "lower" /\ at > Len(res)
  /\ pass' = "done"
  /\ UNCHANGED <<title, src, at, res>>

SlugNext == Replace \/ Keep \/ Second \/ Lower \/ Return

SlugSpec == SlugInit /\ [][SlugNext]_slugVars

-----------------------------------------------------------------------------
IsUpper(c) == c[1] = 195 /\ c[2] \in 128 .. 158

\* A letter with an accent, capitals having no place in the table.
IsLetter(c) == c \in DOMAIN Letter /\ ~ IsUpper(c)

\* The table has the letters that titles can have, each with what it is without
\* its accent.
LettersListed ==
  \A c \in Characters :
    /\ IsLetter(c) <=> \E j \in DOMAIN Nw : c = <<Old[2 * j - 1], Old[2 * j]>>
    /\ \A j \in DOMAIN Nw : c = <<Old[2 * j - 1], Old[2 * j]>> => Letter[c] = Nw[j]

\* The slug of a character.
SlugOf(c) ==
  IF IsLetter(c) THEN <<Letter[c]>>
  ELSE [k \in DOMAIN c |-> IF IsKept(ToLower(c[k])) THEN ToLower(c[k]) ELSE Underscore]

\* The two passes over bytes replace each character by itself: no letter is found
\* across the border of two characters, none is missed after another, and half a
\* letter at the end is kept (utils.cpp:193-206).
SlugsCharacters ==
  pass = "done" => res = FlattenSeq([k \in DOMAIN title |-> SlugOf(title[k])])

\* "containing only lowercase letters, digits, and underscores", utils.h:161: for
\* any text, so that the slug of a slug is the slug itself.
OnlySlugBytes ==
  pass = "done" => \A k \in DOMAIN res : res[k] \in (97 .. 122) \cup (48 .. 57) \cup {95}

\* The slug of every title, also when it is cut off in the middle of a character.
SlugOfTitle == SlugTypeOK /\ SlugsCharacters /\ OnlySlugBytes

=============================================================================
