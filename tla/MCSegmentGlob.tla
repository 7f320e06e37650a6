---------------------------- MODULE MCSegmentGlob ----------------------------
(* Small instances of SegmentGlob for TLC. *)
EXTENDS SegmentGlob, TLC

\* The letters are interchangeable.
LetterSymmetry == Permutations(Letters)
=============================================================================
