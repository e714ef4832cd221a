---------------------------- MODULE SequenceEnds ----------------------------
(***************************************************************************)
(* Front and Last of SequencesExt, without the other modules that it       *)
(* brings into every proof about a module that uses them.                  *)
(***************************************************************************)
EXTENDS Integers, Sequences

Front(s) == SubSeq(s, 1, Len(s) - 1)
Last(s) == s[Len(s)]
=============================================================================
