------------------------------- MODULE MCSlug -------------------------------
(* Titles of up to three characters, of one, two and three bytes. *)
EXTENDS Slug

EAcute == <<195, 169>>
CapitalE == <<195, 137>>
YCirc == <<197, 183>>
CCedilla == <<195, 167>>

MCLetter ==
  [c \in {EAcute, CapitalE, YCirc, CCedilla} |->
     IF c \in {EAcute, CapitalE} THEN 101 ELSE IF c = YCirc THEN 121 ELSE 99]

\* Besides, B, 7, a brace, the ligature oe, the euro, and half a letter.
MCCharacters ==
  DOMAIN MCLetter \cup { <<66>>, <<55>>, <<123>>, <<197, 147>>, <<226, 130, 172>>, <<195>> }

\* What the theorems about slugs assume.
ASSUME LettersListed

=============================================================================
