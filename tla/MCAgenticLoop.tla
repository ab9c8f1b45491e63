---------------------------- MODULE MCAgenticLoop ----------------------------
(* Small incidents for AgenticLoop: a revert, a scaling, one metrics read. *)
EXTENDS AgenticLoop, TLC

CONSTANTS revert, scale, read0, read1, read2, read3

MCReadKey == [s \in 0..MaxSteps - 1 |-> <<read0, read1, read2, read3>>[s + 1]]

\* Every target is a word of its own.
MCDistinct == [k \in Destructive |-> {k}]

\* The target of revert is a substring of the key of scale, as "PR-13" of "PR-1337".
MCSubstring == [k \in Destructive |-> IF k = revert THEN {revert, scale} ELSE {k}]

\* The runs of an incident differ in nothing but their names.
MCSymmetry == Permutations(Workers)
==============================================================================
