---------------------------- MODULE MCPrivateReview ----------------------------
(* Small instances of PrivateReview for TLC. *)
EXTENDS PrivateReview, TLC

CONSTANTS page, index, old, new

Tree(i, p) == index :> i @@ page :> p
OneOriginal == {Tree(old, old)}
TwoDrafts == {Tree(new, new), Tree(old, new)}
IndexLinks == {<<new, page>>}
SymmetricOperators == Permutations(Operators)
=============================================================================
