-------------------------- MODULE MCContentDelivery --------------------------
(***************************************************************************)
(* ContentDelivery for TLC.  The requests of one kind are interchangeable. *)
(***************************************************************************)
EXTENDS ContentDelivery, TLC

RequestsSymmetry == Permutations(Publishers)

OneCurriculum == {1}
TwoCurricula == {1, 2}
=============================================================================
