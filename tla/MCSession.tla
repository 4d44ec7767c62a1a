----------------------------- MODULE MCSession -----------------------------
(* Small instances of Session for TLC. *)
EXTENDS Session

CONSTANTS p1, p2, p3, good, bad

(* Nothing tells one post from another. *)
SamePosts == Permutations({p1, p2, p3})
=============================================================================
