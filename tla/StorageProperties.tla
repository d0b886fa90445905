-------------------------- MODULE StorageProperties --------------------------
(***************************************************************************)
(* What the runs check of Storage.                                         *)
(***************************************************************************)
EXTENDS Storage

\* The variables have their types (storage.go:10-14, directory.go:33-67).
StorageTypeOK ==
  /\ dirs \in [0 .. (Cardinality(Ids) - 1) -> Entry]
  /\ saved \in [Ids -> Entry] /\ free \subseteq Ids /\ leaked \subseteq Ids
  /\ \A h \in Handles :
       /\ handle[h].entry \in Ids \cup {Nil}
       /\ Loaded(h) => /\ Nodes(handle[h].tree) \subseteq Nat \X Ids
                       /\ handle[h].tree \in Trees(Nodes(handle[h].tree))
  /\ opened \in Nat /\ call \in Calls /\ panicked \in BOOLEAN /\ lost \in BOOLEAN /\ gone \subseteq Handles

Open == {h \in Handles : handle[h].entry # Nil /\ Loaded(h)}

\* Whatever has been inserted and deleted, the parents of a cached tree are the
\* inverse of its links and the loop over it meets each node once, in order: so
\* a name that is there is found, and every modified node is come to when the
\* entries are written (tree.go:251-361, storage.go:77-87).
TreesSound ==
  \A h \in Open : LinksAgree(handle[h].tree) /\ InOrder(handle[h].tree)

\* The tree is a red-black tree as long as no deletion has called rbDeleteFixup
\* with a parent that is not x's (tree.go:88-110).
Balanced == lost \/ \A h \in Open : RedBlack(handle[h].tree)

\* A node that is not marked modified is in its directory sector as it is in the
\* tree: the marks of insertion, deletion, rotations and fix-ups miss no change
\* of a colour or link (tree.go:36-293, 363-387; storage.go:77-93, 157-175).
CleanIsSaved ==
  \A h \in Open \ gone : \A n \in Nodes(handle[h].tree) \ handle[h].tree.dirty :
    LET t == handle[h].tree
        e == saved[Value(n)]
    IN /\ e = dirs[Value(n)]
       /\ e.name = Key(n) /\ e.red = IsRed(t, n)
       /\ e.left = ValueOf(t.left[n]) /\ e.right = ValueOf(t.right[n])

\* The storages that a reader of the directory sectors comes to, and the
\* entries it comes to.
Live == Descendants(saved, 0)
LiveStorages == {0} \cup {e \in Live : saved[e].kind = "storage"}

\* An entry is free, or reached from the root's sector by links that form
\* trees, or one of the entries a refused name or a storage deleted with its
\* children has leaked; and it is one of these only (directory.go:185-242).
EntriesAccounted ==
  ~panicked =>
    /\ \A s \in LiveStorages : LinksTree(saved, s)
    /\ \A s, t \in LiveStorages : s # t => Below(saved, s) \cap Below(saved, t) = {}
    /\ Ids = {0} \cup Live \cup free \cup leaked
    /\ Cardinality(Ids) = 1 + Cardinality(Live) + Cardinality(free) + Cardinality(leaked)
    /\ \A e \in free : dirs[e] = EmptyEntry /\ saved[e] = EmptyEntry

\* A call that panics is a Delete of the one entry in the storage it is made on
\* (Iterator of a tree without root, storage.go:158), unless rbDeleteFixup has
\* been called with a wrong parent (tree.go:96).
PanicExplained ==
  [][panicked' =>
       \/ lost'
       \/ /\ call'.op = "Delete"
          /\ Cardinality(Below(dirs, call'.storage)) = 1
          /\ \A e \in Below(dirs, call'.storage) : dirs[e].name = call'.name]_vars

\* What is found through a handle is what the directory sectors hold: the names
\* of the cached tree are those a new handle would load (storage.go:43-49, 186-205).
HandlesCurrent ==
  \A h \in Open \ gone :
    {Value(n) : n \in Nodes(handle[h].tree)} = Below(saved, handle[h].entry)

-----------------------------------------------------------------------------
(***************************************************************************)
(* The storages in the directory sectors, as Folder sees them.             *)
(***************************************************************************)

NamesBelow(s) == {saved[e].name : e \in Below(saved, s)}

Promise == INSTANCE Folder WITH
  Given <- Names \ Refused, Top <- 0,
  kids <- [s \in LiveStorages |-> NamesBelow(s)]

\* Read from the directory sectors, the storages are those of Folder: a call that
\* adds or deletes does it with the one name it was given, in the storage it was
\* made on; a call that fails, a lookup, and opening the document again change
\* nothing (storage.go:33-184).
FolderImplemented == Promise!Spec

\* It takes that no name given to a storage is ill-formed or what an ill-formed
\* one is stored as: a storage would be added beside the entry that has the
\* name, and Folder has a name once (storage.go:65-69, directory.go:296-316).
NamesApart ==
  \A s \in StorageNames, n \in Names \ Refused : Stored[n] = Stored[s] => n = Stored[n]

\* Two entries of one storage have the same name only if it is what an
\* ill-formed name is stored as (storage.go:65-69, directory.go:296-316).
UniqueNames ==
  \A s \in LiveStorages : \A e, f \in Below(saved, s) :
    e # f /\ saved[e].name = saved[f].name
      => \E n \in Names \ Refused : Stored[n] = saved[e].name /\ n # Stored[n]

\* A name that is there can be deleted: no call panics (Test/msdf_test.go:502,
\* 561, where storages' streams are deleted; storage.go:158, tree.go:96).
DeleteReturns == ~panicked
=============================================================================
