--------------------------- MODULE MCCompoundFile ---------------------------
(* The small documents TLC checks CompoundFile on.  A mini sector is two    *)
(* bytes, a sector three mini sectors, and streams are kept in whole        *)
(* sectors from two of them on.                                             *)
EXTENDS CompoundFileProperties

CONSTANTS v1, v2

OneValue == {v1}
TwoValues == {v1, v2}

\* Empty; a size that fills no whole number of mini sectors; the first size
\* kept in sectors; four sectors.
TableSizes == {0, 5, 12, 24}

\* Empty; two mini sectors; two and three sectors: a stream in sectors can
\* lose a tail or the whole, and another can take it over.
SharedSizes == {0, 4, 12, 18}

\* Every step a growing stream can make, by whole sectors and by parts.
GrowSizes == {0, 2, 5, 12, 18, 24}

\* Two and three sectors: a stream that always keeps some of its sectors.
BigSizes == {12, 18}

\* Empty; two and three sectors: a stream can lose a tail, then everything.
ReloadSizes == {0, 12, 18}

\* One, two and three mini sectors.
SmallSizes == {2, 4, 6}
=============================================================================
