----------------------- MODULE MCCurriculumPublication -----------------------
(***************************************************************************)
(* CurriculumPublication for TLC.  The requests of one kind are            *)
(* interchangeable; the curricula are not (they are locked in order).      *)
(***************************************************************************)
EXTENDS CurriculumPublication, TLC

PublishersSymmetry == Permutations(Publishers)

RequestsSymmetry ==
    Permutations(Publishers) \cup Permutations(Retirers) \cup Permutations(Initials)

OneCurriculum == {1}
TwoCurricula == {1, 2}
=============================================================================
