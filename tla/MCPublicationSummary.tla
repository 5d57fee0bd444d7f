------------------------- MODULE MCPublicationSummary -------------------------
(***************************************************************************)
(* PublicationSummary for TLC: three curricula; two grades, a level and a  *)
(* lesson; a question that any curriculum may ask in its baseline test and *)
(* the lesson in its practice.                                             *)
(***************************************************************************)
EXTENDS PublicationSummary, TLC

\* Both grades begin in one curriculum, the level in either.
FewTrees == { t \in Trees : \A g, h \in Grades : t[g] = t[h] }

\* Nothing tells the curricula apart, nor the grades, nor the texts.
RowsSymmetry == Permutations(Curricula) \cup Permutations(Grades) \cup Permutations(Contents)
=============================================================================
