----------------------------- MODULE MCJobQueue -----------------------------
(* Small instances of JobQueue.  The model values of each set are symmetric: *)
(* the specification never orders them.                                      *)
EXTENDS JobQueue, TLC

QueueSymmetry ==
    Permutations(Sources) \cup Permutations(Models)
        \cup Permutations(Revisions) \cup Permutations(Texts)
=============================================================================
