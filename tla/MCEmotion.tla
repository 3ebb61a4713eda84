------------------------------ MODULE MCEmotion ------------------------------
(* Small instances of Emotion for TLC, in units of a tenth. *)
EXTENDS Emotion
=============================================================================
