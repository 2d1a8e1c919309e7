---------------------------- MODULE MCLinkParser -----------------------------
(* Texts of up to MaxLength characters, with any matches in them.            *)
EXTENDS LinkParser

CONSTANT MaxLength

ShortTexts == BoundedSeq(Char, MaxLength)
==============================================================================
