----------------------------- MODULE AtomicWiki -----------------------------
(***************************************************************************)
(* What the durable writeback of a compilation promises, with no journal,  *)
(* no backup and no file-by-file copy: the Wiki is one value.  While a     *)
(* compiler is inside the write lock the value changes at most by          *)
(* publishing a whole candidate, and only if the Wiki still is what that   *)
(* compiler looked at.  Whatever else happens to it is an edit made by     *)
(* hand, outside the lock.  CompileTransaction is shown to implement this. *)
(***************************************************************************)
CONSTANTS
    Compilers,  \* processes that compile and publish
    Nobody,     \* the write lock is free
    Paths,      \* files of the repository
    Contents    \* what a file may hold, "not there" included

VARIABLES
    wiki,       \* [Paths -> Contents]
    read,       \* the snapshot each compiler works from
    busy        \* who is inside the write lock

atomicVars == <<wiki, read, busy>>

Trees == [Paths -> Contents]

Init ==
    /\ wiki \in Trees
    /\ read \in [Compilers -> Trees]
    /\ busy = Nobody

\* Somebody edits a file by hand.
Edit(f, x) ==
    /\ busy = Nobody
    /\ wiki' = [wiki EXCEPT ![f] = x]
    /\ UNCHANGED <<read, busy>>

\* A compiler takes a snapshot, or drops it.  Files are read one by one and
\* outside the lock, so the snapshot may be of a tree that never was.
Look(c, tree) ==
    /\ busy # c
    /\ read' = [read EXCEPT ![c] = tree]
    /\ UNCHANGED <<wiki, busy>>

Enter(c) ==
    /\ busy = Nobody
    /\ busy' = c
    /\ UNCHANGED <<wiki, read>>

\* The candidate replaces the Wiki the compiler looked at.
Publish(c, tree) ==
    /\ busy = c
    /\ wiki = read[c]
    /\ wiki' = tree
    /\ UNCHANGED <<read, busy>>

\* The compiler is done, gives up, or dies.
Leave(c, tree) ==
    /\ busy = c
    /\ busy' = Nobody
    /\ read' = [read EXCEPT ![c] = tree]
    /\ UNCHANGED wiki

Next ==
    \/ \E f \in Paths, x \in Contents : Edit(f, x)
    \/ \E c \in Compilers, tree \in Trees : Look(c, tree)
    \/ \E c \in Compilers : Enter(c)
    \/ \E c \in Compilers, tree \in Trees : Publish(c, tree)
    \/ \E c \in Compilers, tree \in Trees : Leave(c, tree)

Spec == Init /\ [][Next]_atomicVars
=============================================================================
