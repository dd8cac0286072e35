---------------------------- MODULE MCVoicePipeline ----------------------------
(* Small instances of VoicePipeline for TLC. *)
EXTENDS VoicePipeline
=============================================================================
