----------------------- MODULE MCTranscriptionService -----------------------
(* Small instances of TranscriptionService.  A revision id is the hash of    *)
(* source, model and text: here it is these three.                           *)
EXTENDS TranscriptionService, TLC

RevisionIds == Sources \X Models \X Texts

ServiceSymmetry == Permutations(Workers)
=============================================================================
