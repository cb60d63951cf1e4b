---------------------------- MODULE MCStudioRun ----------------------------
(***************************************************************************)
(* Small runs of the Studio server: requests that race the computation and  *)
(* each other, and clients that follow the event stream.                    *)
(***************************************************************************)
EXTENDS StudioRun, TLC

(* Requests differ by nothing but their name. *)
CallerSymmetry == Permutations(Callers)
=============================================================================
