--------------------------- MODULE MCJobLifecycle ---------------------------
(* A small instance of JobLifecycle: jobs and results as model values. *)
EXTENDS JobLifecycle
=============================================================================
