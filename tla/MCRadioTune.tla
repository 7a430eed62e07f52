---------------------------- MODULE MCRadioTune -----------------------------
(* Two control surfaces that tune, dial RIT and key as they like.  They    *)
(* are interchangeable, and the run checks no liveness: symmetry is sound. *)
EXTENDS RadioTune, TLC

CallerSymmetry == Permutations(Callers)

=============================================================================
