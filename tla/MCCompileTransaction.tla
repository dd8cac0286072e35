------------------------ MODULE MCCompileTransaction ------------------------
(* Small instances of CompileTransaction: compilers, directories and texts *)
(* are model values; compilers and directories are interchangeable.        *)
EXTENDS CompileTransaction, TLC

CompileSymmetry == Permutations(Compilers) \cup Permutations(Transactions)
=============================================================================
