------------------------------- MODULE Storage -------------------------------
(***************************************************************************)
(* Storages and their entries: storage.go over the trees of tree.go, the   *)
(* collection of entries of directory.go, and the directory sectors they   *)
(* are written to.  One action is one call of the owner of the document.   *)
(*                                                                         *)
(* Names are numbers, ordered as strings.Compare orders the names.  What a *)
(* stream holds, and the sectors, are the subject of CompoundFile.         *)
(***************************************************************************)
EXTENDS Tree, FiniteSets

CONSTANTS
  Names,             \* the names callers give
  Stored,            \* what Directory.Name returns of an entry given a name
  Refused,           \* the names SetName refuses
  StorageNames,      \* bound: names given to AddStorage and GetStorage
  InnerNames,        \* bound: names given inside of other storages than the root
  EarlyNames,        \* bound: names added to a document of at most MaxEntries
  LateNames,         \* bound: names added to a larger one
  Documents,         \* the documents opened: the names, all different, given one by one to
                     \* AddStream; New leaves the one of no names, but no Save of it can be opened
  EntriesPerSector,
  MaxEntries,        \* bound: entries, counted before a call
  Handles,           \* the owner's variables for storages
  Root,              \* the one that holds CompoundFile.RootStorage()
  MaxFree,           \* bound: free entries, counted before a call
  MaxLeaked          \* bound: entries leaked, counted before a call

ASSUME StorageAssumption ==
  /\ Names \subseteq Nat /\ Refused \subseteq Names
  /\ StorageNames \subseteq Names /\ InnerNames \subseteq Names
  /\ EarlyNames \subseteq Names /\ LateNames \subseteq Names
  /\ \A d \in Documents : d \in Seq(Names \ Refused) /\ \A i, j \in DOMAIN d : d[i] = d[j] => i = j
  /\ Stored \in [Names -> Nat]
  /\ EntriesPerSector \in Nat \ {0} /\ MaxEntries \in Nat /\ MaxFree \in Nat /\ MaxLeaked \in Nat
  /\ Root \in Handles
  /\ Nil \notin Nat \cup (Nat \X Nat)

VARIABLES
  dirs,      \* DirectoryCollection.data: the entries in memory, by id
  free,      \* the ids in DirectoryCollection.free
  saved,     \* the entries in the directory sectors, by id
  handle,    \* of each variable, the storage's entry and the cached tree
  opened,    \* the number of entries the document was opened with
  call,      \* history: the last call, which no action reads
  panicked,  \* a call has panicked
  lost,      \* history: a Delete has called rbDeleteFixup with a wrong parent
  leaked,    \* history: the entries no call can reach any more
  gone       \* history: the handles whose storage has been deleted

vars == <<dirs, free, saved, handle, opened, call, panicked, lost, leaked, gone>>

Ids == DOMAIN dirs

Entry == [kind : {"unallocated", "storage", "stream", "root"}, name : Nat,
          red : BOOLEAN, left : Nat \cup {Nil}, right : Nat \cup {Nil}, child : Nat \cup {Nil}]

\* Directory.clear.  The name of a cleared entry is empty, the least of all.
EmptyEntry == [kind |-> "unallocated", name |-> 0, red |-> TRUE,
               left |-> Nil, right |-> Nil, child |-> Nil]

NoHandle == [entry |-> Nil, tree |-> Nil]
Fresh(e) == [entry |-> e, tree |-> Nil]

\* A call: the storage it is made on, the name it is given (0 for none), and
\* whether it has added or deleted an entry.
Calls == [op : {"AddStream", "AddStorage", "Delete", "GetStream", "GetStorage", "Open"},
          storage : Nat, name : Nat, done : BOOLEAN]

Opening == [op |-> "Open", storage |-> 0, name |-> 0, done |-> FALSE]
Made(op, h, name, done) == [op |-> op, storage |-> handle[h].entry, name |-> name, done |-> done]

-----------------------------------------------------------------------------
(***************************************************************************)
(* The collection of entries.                                              *)
(***************************************************************************)

\* What of the collection a call changes: entries, free set, sectors.
Collection == [dirs |-> dirs, free |-> free, saved |-> saved]

\* The entries of two lists of different ids.
Joined(f, g) == [e \in DOMAIN f \cup DOMAIN g |-> IF e \in DOMAIN f THEN f[e] ELSE g[e]]

\* Mutant of Grown: the cleared entries are not written to the sector.
GrownUnwritten(c) ==
  LET n == Cardinality(DOMAIN c.dirs)
      more == [e \in n .. (n + EntriesPerSector - 1) |-> EmptyEntry]
  IN [c EXCEPT !.dirs = Joined(@, more), !.free = @ \cup DOMAIN more]

\* addSector of a directory sector: as many cleared entries, all free.
Grown(c) ==
  LET n == Cardinality(DOMAIN c.dirs)
      more == [e \in n .. (n + EntriesPerSector - 1) |-> EmptyEntry]
  IN [dirs |-> Joined(c.dirs, more), free |-> c.free \cup DOMAIN more, saved |-> Joined(c.saved, more)]

Roomy(c) == IF c.free = {} THEN Grown(c) ELSE c

\* Pop: the free entry with the least id.
Popped(c) == CHOOSE e \in c.free : \A f \in c.free : e <= f

\* DirectoryCollection.New once there is room: the entry is popped, and its kind
\* and colour are set even when the name is refused.
NewEntry(c, name, kind) ==
  LET e == Popped(c)
      ent == [c.dirs[e] EXCEPT !.kind = kind, !.red = FALSE,
                               !.name = IF name \in Refused THEN @ ELSE Stored[name]]
  IN [c EXCEPT !.free = @ \ {e}, !.dirs[e] = ent]

\* CompoundFile.updateDirectory.
Update(c, e) == [c EXCEPT !.saved[e] = c.dirs[e]]

\* Push of an entry that is not free, and the update that follows it.
Cleared(c, e) ==
  Update([c EXCEPT !.dirs[e] = EmptyEntry, !.free = @ \cup {e}], e)

-----------------------------------------------------------------------------
(***************************************************************************)
(* Trees and entries.                                                      *)
(***************************************************************************)

ValueOf(n) == IF n = Nil THEN Nil ELSE Value(n)

\* Node.modifiedValue: the entry as the node has it.
Modified(c, t, n) ==
  [c.dirs[Value(n)] EXCEPT !.red = IsRed(t, n), !.left = ValueOf(t.left[n]),
                           !.right = ValueOf(t.right[n])]

\* Mutant of WriteNode: an entry is written only when a colour or link changed.
WriteNodeForgetsNew(c, t, new, n) ==
  LET e == Value(n)
      ent == Modified(c, t, n)
  IN IF n \notin t.dirty \/ ent = c.dirs[e] THEN c ELSE Update([c EXCEPT !.dirs[e] = ent], e)

\* An entry is brought up to date when its node is modified, and written when that
\* changed it or when the node is the new one.
WriteNode(c, t, new, n) ==
  LET e == Value(n)
      ent == Modified(c, t, n)
  IN IF n \notin t.dirty \/ (ent = c.dirs[e] /\ n # new) THEN c
     ELSE Update([c EXCEPT !.dirs[e] = ent], e)

\* The loop over the tree after an insertion or a deletion.
WriteBack(c, t, new) ==
  LET s == Iteration(t)
      written[i \in 0 .. Len(s)] == IF i = 0 THEN c ELSE WriteNode(written[i - 1], t, new, s[i])
  IN written[Len(s)]

Clean(t) == [t EXCEPT !.dirty = @ \ {Iteration(t)[i] : i \in DOMAIN Iteration(t)}]

\* Mutant of Adopt: the storage's entry is not written.
AdoptUnsaved(c, e, t) == [c EXCEPT !.dirs[e].child = Value(t.root)]

\* The storage's entry names the root of its tree.
Adopt(c, e, t) ==
  IF c.dirs[e].child = Value(t.root) THEN c
  ELSE Update([c EXCEPT !.dirs[e].child = Value(t.root)], e)

\* getLeft, getRight and getChild: nil for a number that is no entry's.
Linked(ents, e, side) == IF ents[e][side] \in DOMAIN ents THEN ents[e][side] ELSE Nil

\* The children of e, and the entries that the links named in `sides' lead to
\* from there.
Reached(ents, e, sides) ==
  LET n == Cardinality(DOMAIN ents)
      reach[i \in 0..n] ==
        IF i = 0 THEN {Linked(ents, e, "child")} \ {Nil}
        ELSE UNION {({f} \cup {Linked(ents, f, d) : d \in sides}) \ {Nil} : f \in reach[i - 1]}
  IN reach[n]

\* The entries of the storage e, and with those of the storages in it.
Below(ents, e) == Reached(ents, e, {"left", "right"})
Descendants(ents, e) == Reached(ents, e, {"left", "right", "child"})

\* The links below e form a tree, so that addNode, which follows them, comes to an
\* end.
LinksTree(ents, e) ==
  LET reach == Below(ents, e)
      into(f) == {l \in reach \X {"left", "right"} : Linked(ents, l[1], l[2]) = f}
  IN \A f \in reach :
       Cardinality(into(f)) = (IF f = Linked(ents, e, "child") THEN 0 ELSE 1)

\* The entries addNode goes on with, left and right of e.
Onward(ents, e) ==
  LET l == Linked(ents, e, "left")
      r == Linked(ents, e, "right")
  IN (IF l = Nil THEN <<>> ELSE <<l>>) \o (IF r = Nil THEN <<>> ELSE <<r>>)

\* addNode, of the entry that comes next; its calls of itself are a stack.
addNode(ents, l) ==
  IF l.stack = <<>> THEN l
  ELSE LET e == Head(l.stack)
       IN [tree |-> Insert(l.tree, NewNode(ents[e].name, e)),
           stack |-> Onward(ents, e) \o Tail(l.stack)]

\* loadChildren: a new tree of the entries below, inserted one by one.  There are
\* no more of them than entries.
loadChildren(ents, e) ==
  LET first == Linked(ents, e, "child")
      n == Cardinality(DOMAIN ents)
      loaded[i \in 0 .. n] ==
        IF i = 0 THEN [tree |-> NewTree, stack |-> IF first = Nil THEN <<>> ELSE <<first>>]
        ELSE addNode(ents, loaded[i - 1])
  IN loaded[n].tree

Loaded(h) == handle[h].tree # Nil
TreeOf(h) == IF Loaded(h) THEN handle[h].tree ELSE loadChildren(dirs, handle[h].entry)

-----------------------------------------------------------------------------
(***************************************************************************)
(* The owner.                                                              *)
(***************************************************************************)

\* The owner drops the handles on a storage that is deleted, and works on one
\* storage through one handle at a time: each caches the children it has seen.
CanUse(h) ==
  /\ h \notin gone
  /\ \A g \in Handles \ {h} : handle[g].entry = handle[h].entry => ~Loaded(g)

\* The handles a call can be made on: nothing has panicked, and the bounds are
\* not reached.
Callable ==
  {h \in Handles :
     /\ ~panicked
     /\ handle[h].entry # Nil
     /\ CanUse(h)
     /\ free # {} \/ Cardinality(Ids) < MaxEntries
     /\ Cardinality(leaked) <= MaxLeaked /\ Cardinality(free) <= MaxFree}

NamesFor(h) == IF h = Root THEN Names ELSE InnerNames

\* The state once a call has left the collection as c.
Commit(c) == dirs' = c.dirs /\ free' = c.free /\ saved' = c.saved

\* The handles now bound to g, and its old storage forgotten.
Bind(hs, g, e) == [hs EXCEPT ![g] = Fresh(e)]

-----------------------------------------------------------------------------
(***************************************************************************)
(* Lookups: GetStream and GetStorage.                                      *)
(***************************************************************************)

\* getDirectory: the name is looked for in the cached tree, loaded if need be;
\* what is found does not matter to the state.
GetStream(h) ==
  /\ h \in Callable
  /\ handle' = [handle EXCEPT ![h].tree = TreeOf(h)]
  /\ call' = Made("GetStream", h, 0, FALSE)
  /\ UNCHANGED <<dirs, free, saved, opened, panicked, lost, leaked, gone>>

\* GetStorage, its result assigned to g.
GetStorage(h, name, g) ==
  /\ h \in Callable /\ name \in StorageNames
  /\ LET t == TreeOf(h)
         n == findnode(t, name)
         hs == [handle EXCEPT ![h].tree = t]
     IN IF n # Nil /\ dirs[Value(n)].kind = "storage"
        THEN handle' = Bind(hs, g, Value(n)) /\ gone' = gone \ {g}
        ELSE handle' = hs /\ gone' = gone
  /\ call' = Made("GetStorage", h, name, FALSE)
  /\ UNCHANGED <<dirs, free, saved, opened, panicked, lost, leaked>>

-----------------------------------------------------------------------------
(***************************************************************************)
(* AddStream and AddStorage.                                               *)
(***************************************************************************)

\* The collection once the insertion of the node has left the tree t of the
\* storage e's children.
Inserted(c, e, t, node) == Adopt(WriteBack(c, t, node), e, t)

\* The call fails, the entry popped being id: the name is refused, after which
\* no call can reach the entry, or the insertion panics.
AddFails(h, c, t0, id, panics) ==
  /\ Commit(c)
  /\ handle' = [handle EXCEPT ![h].tree = t0]
  /\ leaked' = leaked \cup {id}
  /\ panicked' = panics
  /\ UNCHANGED gone

\* The node is in the tree t; g is assigned the new storage's handle, if it is one.
AddDone(h, c, t, node, kind, g) ==
  LET done == [handle EXCEPT ![h].tree = Clean(t)]
  IN /\ Commit(Inserted(c, handle[h].entry, t, node))
     /\ handle' = IF kind = "storage" THEN Bind(done, g, Value(node)) ELSE done
     /\ gone' = IF kind = "storage" THEN gone \ {g} ELSE gone
     /\ UNCHANGED <<leaked, panicked>>

\* What is left to do when the name was not found in h's tree t0, in the
\* collection c with a free entry.
Added(h, t0, c, name, kind, g) ==
  LET id == Popped(c)
      node == NewNode(Stored[name], id)
      named == NewEntry(c, name, kind)
      t == Insert(t0, node)
  IN IF name \in Refused THEN AddFails(h, named, t0, id, FALSE)
     ELSE IF t = NilPointer THEN AddFails(h, named, t0, id, TRUE)
     ELSE AddDone(h, named, t, node, kind, g)

\* The call that adds an entry of the kind: it is done unless it has failed.
Adding == [stream |-> "AddStream", storage |-> "AddStorage"]
Asked(h, name, kind) == call' = Made(Adding[kind], h, name, name \notin Refused /\ ~panicked')

\* Mutant of Add: without the check for the name.
AddUnchecked(h, name, kind, g) ==
  /\ h \in Callable
  /\ Added(h, TreeOf(h), Roomy(Collection), name, kind, g) /\ Asked(h, name, kind)
  /\ UNCHANGED <<opened, lost>>

Add(h, name, kind, g) ==
  /\ h \in Callable
  /\ LET t0 == TreeOf(h)
     IN IF findnode(t0, name) # Nil
        THEN /\ handle' = [handle EXCEPT ![h].tree = t0]
             /\ call' = Made(Adding[kind], h, name, FALSE)
             /\ UNCHANGED <<dirs, free, saved, panicked, leaked, gone>>
        ELSE Added(h, t0, Roomy(Collection), name, kind, g) /\ Asked(h, name, kind)
  /\ UNCHANGED <<opened, lost>>

\* The names there are to add.
Offered == IF Cardinality(Ids) > MaxEntries THEN LateNames ELSE EarlyNames

AddStream(h, name) ==
  name \in Offered /\ Add(h, name, "stream", h)
AddStorage(h, name, g) ==
  name \in Offered \cap StorageNames /\ Add(h, name, "storage", g)

-----------------------------------------------------------------------------
(***************************************************************************)
(* Delete.                                                                 *)
(***************************************************************************)

\* Mutant of Pushed: the entry is cleared but not pushed to the free set.
PushedNotFree(c, e) ==
  IF e \in c.free THEN c ELSE [Cleared(c, e) EXCEPT !.free = c.free]

\* Push, and the update after it: an entry that is free already is refused.
Pushed(c, e) == IF e \in c.free THEN c ELSE Cleared(c, e)

\* The call panics: in Delete of the tree, or in Iterator when it has left no
\* root, before any entry has changed.
DeletePanics(h, t0) ==
  /\ handle' = [handle EXCEPT ![h].tree = t0]
  /\ panicked' = TRUE
  /\ UNCHANGED <<dirs, free, saved, leaked, gone>>

\* The tree is t without the node of the entry v.  What was in a storage that is
\* deleted stays as it is, and no call can reach it.
DeleteDone(h, t, v) ==
  LET below == IF dirs[v].kind = "storage" THEN Descendants(dirs, v) ELSE {}
  IN /\ handle' = [handle EXCEPT ![h].tree = Clean(t)]
     /\ Commit(Pushed(Adopt(WriteBack(Collection, t, Nil), handle[h].entry, t), v))
     /\ leaked' = leaked \cup below
     /\ gone' = gone \cup {g \in Handles : handle[g].entry \in {v} \cup below}
     /\ UNCHANGED panicked

\* Delete of the node z of h's tree t0.
Deleted(h, t0, z) ==
  LET t == Delete([t0 EXCEPT !.dirty = @ \cup {z}], z)
  IN IF t = NilPointer \/ t.root = Nil THEN DeletePanics(h, t0)
     ELSE DeleteDone(h, t, Value(z))

DeleteEntry(h, name) ==
  /\ h \in Callable
  /\ LET t0 == TreeOf(h)
         z == findnode(t0, name)
     IN IF z = Nil
        THEN /\ handle' = [handle EXCEPT ![h].tree = t0]
             /\ call' = Made("Delete", h, name, FALSE)
             /\ UNCHANGED <<dirs, free, saved, panicked, lost, leaked, gone>>
        ELSE /\ Deleted(h, t0, z)
             /\ call' = Made("Delete", h, name, ~panicked')
             /\ lost' = (lost \/ WrongParent(t0, z))
  /\ UNCHANGED opened

-----------------------------------------------------------------------------
(***************************************************************************)
(* Saving, and opening what was saved.                                     *)
(***************************************************************************)

\* Save, Close and Open: readDirectory reads the sectors, Push clears what is
\* unallocated, and no handle of before can be used.  A directory sector added
\* since is marked FREESECT in the FAT, and Open then fails.
Reopen ==
  /\ ~panicked /\ Cardinality(Ids) = opened
  /\ dirs' = [e \in DOMAIN saved |->
                IF saved[e].kind = "unallocated" THEN EmptyEntry ELSE saved[e]]
  /\ saved' = saved
  /\ free' = {e \in DOMAIN saved : saved[e].kind = "unallocated"}
  /\ handle' = [h \in Handles |-> IF h = Root THEN Fresh(0) ELSE NoHandle]
  /\ leaked' = {e \in leaked : saved[e].kind # "unallocated"}
  /\ gone' = {} /\ panicked' = FALSE /\ call' = Opening
  /\ UNCHANGED <<opened, lost>>

\* What New leaves: one directory sector, the root in its first entry.
NewDocument ==
  LET ents == [e \in 0 .. (EntriesPerSector - 1) |->
                 IF e = 0 THEN [EmptyEntry EXCEPT !.kind = "root", !.red = FALSE] ELSE EmptyEntry]
  IN [dirs |-> ents, free |-> DOMAIN ents \ {0}, saved |-> ents]

\* AddStream, of a name that is not there, to the root of a document that has
\* the tree of its children.
AddToDocument(d, name) ==
  LET c == Roomy(d.written)
      node == NewNode(Stored[name], Popped(c))
      t == Insert(d.tree, node)
  IN [written |-> Inserted(NewEntry(c, name, "stream"), 0, t, node), tree |-> Clean(t)]

\* A document saved after one AddStream for each name.
DocumentOf(names) ==
  LET built[i \in 0 .. Len(names)] ==
        IF i = 0 THEN [written |-> NewDocument, tree |-> NewTree]
        ELSE AddToDocument(built[i - 1], names[i])
  IN built[Len(names)].written

Init ==
  /\ \E d \in Documents : LET c == DocumentOf(d)
                          IN dirs = c.saved /\ free = c.free /\ saved = c.saved
  /\ handle = [h \in Handles |-> IF h = Root THEN Fresh(0) ELSE NoHandle]
  /\ opened = Cardinality(Ids) /\ call = Opening
  /\ panicked = FALSE /\ lost = FALSE /\ leaked = {} /\ gone = {}

Call(h) ==
  \E name \in NamesFor(h) :
    \/ AddStream(h, name)
    \/ DeleteEntry(h, name)
    \/ \E g \in Handles \ {Root} : AddStorage(h, name, g) \/ GetStorage(h, name, g)

Next == Reopen \/ \E h \in Handles : GetStream(h) \/ Call(h)

Spec == Init /\ [][Next]_vars
=============================================================================
