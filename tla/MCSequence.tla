------------------------------ MODULE MCSequence ------------------------------
(* Small budgets and outputs for the runner of sequence 004. *)
EXTENDS SequenceProperties

CONSTANTS out1, out2

\* One effect for each verdict the target can lead to; a second covered attempt is
\* refused, so those are among them too.
MCEffects == {"nothing", "covered", "hidden", "suppressed", "crossing"}
=============================================================================
