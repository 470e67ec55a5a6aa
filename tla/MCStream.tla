------------------------------ MODULE MCStream ------------------------------
(***************************************************************************)
(* Every stream of a few bytes, and longer ones made of lines: a content,  *)
(* an empty line, one that is not readable, half of one.                   *)
(***************************************************************************)
EXTENDS Stream, SequencesExt

CONSTANTS MaxBytes, MaxLines

UpTo(n, S) == UNION {[1 .. k -> S] : k \in 0 .. n}

Lines == {<<"<", ">", "n">>, <<"n">>, <<"!", "n">>, <<">", "n">>}

MCStreams == UpTo(MaxBytes, Bytes) \cup {FlattenSeq(ls) : ls \in UpTo(MaxLines, Lines)}
==============================================================================
