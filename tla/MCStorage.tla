------------------------------- MODULE MCStorage -------------------------------
(***************************************************************************)
(* Storage for TLC: the names of the instances.                            *)
(***************************************************************************)
EXTENDS StorageProperties

CONSTANTS IllNames, ReplacedBy

\* Well-formed names are stored as they are; the bytes of an ill-formed one come
\* back from UTF-16 as the replacement character.
MCStored == [n \in Names |-> IF n \in IllNames THEN ReplacedBy ELSE n]

ASSUME MCNamesApart == NamesApart

\* Two states that differ in the last call alone are one: no action reads it, and
\* the properties that name it name it of the step's next state.
AllButCall == <<dirs, free, saved, handle, opened, panicked, lost, leaked, gone>>

\* What New leaves.
MCNew == {<<>>}

\* New, documents of eight streams added in ascending and mixed order, and one of
\* ten, whose tree is the smallest in which the wrong parent need not panic.
MCDocuments == {<<>>, <<1, 2, 3, 4, 5, 6, 7, 8>>, <<5, 2, 7, 1, 8, 4, 6, 3>>,
                <<10, 9, 8, 7, 6, 5, 4, 3, 2, 1>>}
=============================================================================
