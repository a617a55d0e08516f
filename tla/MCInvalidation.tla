--------------------------- MODULE MCInvalidation ---------------------------
(* Articles with an author and with tags: two of the models are enabled,   *)
(* and the application declares some of the relations.                     *)
EXTENDS Invalidation, TLC

CONSTANTS article, author, tag, tagging, c1, c2

Library == {[from |-> article, to |-> author, through |-> None],
            [from |-> article, to |-> tag, through |-> tagging]}

Listings == {[root |-> article, path |-> <<>>],
             [root |-> article, path |-> <<tag>>],
             [root |-> tag, path |-> <<article, author>>]}

Alike == Permutations(Conns)
=============================================================================
