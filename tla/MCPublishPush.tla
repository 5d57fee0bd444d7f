---------------------------- MODULE MCPublishPush ----------------------------
(***************************************************************************)
(* PublishPush for TLC: two acts and a manual re-push.                     *)
(***************************************************************************)
EXTENDS PublishPush

CONSTANTS a1, a2, m1
=============================================================================
