-------------------------------- MODULE Tree --------------------------------
(***************************************************************************)
(* The red-black tree that holds the children of a storage, tree.go.       *)
(*                                                                         *)
(* A tree is a value: operators take the tree a method is called on and    *)
(* return the tree it leaves, or NilPointer when the method dereferences a *)
(* nil *Node and panics.  A node is <<key, entry>>: the Key and the Value  *)
(* NewNode gives it and nothing changes.  The colours are the set `red',   *)
(* the modified flags the set `dirty'.                                     *)
(*                                                                         *)
(* Left and right are two values of one parameter d, because the branches  *)
(* of the code mirror each other; where they do not, d is tested.          *)
(***************************************************************************)
EXTENDS Naturals, Sequences

CONSTANT Nil    \* a nil pointer

\* A method's outcome, of no tree: a nil *Node was dereferenced.
NilPointer == [panics |-> TRUE]

Other(d) == IF d = "left" THEN "right" ELSE "left"

NewTree == [root |-> Nil, left |-> <<>>, right |-> <<>>, parent |-> <<>>,
            red |-> {}, dirty |-> {}, size |-> 0]

NewNode(key, id) == <<key, id>>
Key(n) == n[1]
Value(n) == n[2]

Nodes(t) == DOMAIN t.parent

\* The trees on the nodes N: those a loop over a tree on N can pass through.
Trees(N) == [root : N \cup {Nil}, left : [N -> N \cup {Nil}], right : [N -> N \cup {Nil}],
             parent : [N -> N \cup {Nil}], red : SUBSET N, dirty : SUBSET N, size : Nat]

IsRed(t, n) == n \in t.red           \* getColor: a nil node is black
Colour(t, n, asRed) ==
  [t EXCEPT !.red = IF asRed THEN @ \cup {n} ELSE @ \ {n}]
Mark(t, ns) == [t EXCEPT !.dirty = @ \cup (ns \ {Nil})]
SetParent(t, n, p) == IF n = Nil THEN t ELSE [t EXCEPT !.parent[n] = p]

-----------------------------------------------------------------------------
(***************************************************************************)
(* Walking: findnode, minimum, successor.                                  *)
(***************************************************************************)

\* The child under which a key is looked for; the greater keys are on the left.
Side(key, n) == IF key > Key(n) THEN "left" ELSE "right"

\* findnode.
findnode(t, key) ==
  LET from[x \in Nodes(t) \cup {Nil}] ==
        IF x = Nil THEN Nil
        ELSE IF Side(key, x) = "right" /\ key = Key(x) THEN x
        ELSE from[t[Side(key, x)][x]]
  IN from[t.root]

minimum(t, n) ==
  LET down[x \in Nodes(t)] == IF t.left[x] = Nil THEN x ELSE down[t.left[x]] IN down[n]

\* Mutant of successor: the child itself, not the least node under it.
successorChild(t, n) ==
  LET up[x \in Nodes(t)] ==
        LET y == t.parent[x]
        IN IF y = Nil \/ x # t.right[y] THEN y ELSE up[y]
  IN IF t.right[n] # Nil THEN t.right[n] ELSE up[n]

successor(t, n) ==
  LET up[x \in Nodes(t)] ==
        LET y == t.parent[x]
        IN IF y = Nil \/ x # t.right[y] THEN y ELSE up[y]
  IN IF t.right[n] # Nil THEN minimum(t, t.right[n]) ELSE up[n]

\* The nodes a loop over Iterator() and Next() meets, in its order.
Iteration(t) ==
  LET from[n \in Nodes(t) \cup {Nil}] ==
        IF n = Nil THEN <<>> ELSE <<n>> \o from[successor(t, n)]
  IN from[minimum(t, t.root)]

-----------------------------------------------------------------------------
(***************************************************************************)
(* transplant and the rotations.                                           *)
(***************************************************************************)

\* transplant: v takes the place of u under u's parent.
transplant(t, u, v) ==
  LET p == t.parent[u]
      linked == IF p = Nil THEN [t EXCEPT !.root = v]
                ELSE IF u = t.left[p] THEN Mark([t EXCEPT !.left[p] = v], {p})
                ELSE Mark([t EXCEPT !.right[p] = v], {p})
  IN SetParent(linked, v, p)

\* Mutant of rotate: the node that comes up is not marked.
rotateUnmarked(t, x, d) ==
  LET y == t[Other(d)][x]
      b == t[d][y]
      up == SetParent(transplant(t, x, y), b, x)
  IN Mark([up EXCEPT ![Other(d)][x] = b, ![d][y] = x, !.parent[x] = y], {x})

\* leftRotate (d = "left") and rightRotate: x goes down on side d and its child
\* y on the other side comes up.  Relinking y is what transplant does.
rotate(t, x, d) ==
  LET y == t[Other(d)][x]
      b == t[d][y]
      up == SetParent(transplant(t, x, y), b, x)
  IN Mark([up EXCEPT ![Other(d)][x] = b, ![d][y] = x, !.parent[x] = y], {x, y})

-----------------------------------------------------------------------------
(***************************************************************************)
(* Insert.                                                                 *)
(***************************************************************************)

\* The end of a round, when z and its red parent are on the same side d: the
\* parent's parent goes down on the other.
Lift(t, z, d) ==
  LET p == t.parent[z]
      g == t.parent[p]
  IN [tree |-> rotate(Mark([t EXCEPT !.red = (@ \ {p}) \cup {g}], {p, g}), g, Other(d)), z |-> z]

\* One round of the loop of rbInsertFixup; the parent of p is not nil.
InsertRound(t, z) ==
  LET p == t.parent[z]
      g == t.parent[p]
      d == IF p = t.left[g] THEN "left" ELSE "right"
      y == t[Other(d)][g]
  IN IF y # Nil /\ IsRed(t, y)
     THEN [tree |-> Mark([t EXCEPT !.red = (@ \ {p, y}) \cup {g}], {p, y, g}), z |-> g]
     ELSE IF z = t[Other(d)][p] THEN Lift(rotate(t, p, d), p, d)
     ELSE Lift(t, z, d)

\* A round never leaves Loop, and the test for it makes the function a total one;
\* so in rbDeleteFixup.
rbInsertFixup(t0, z0) ==
  LET Loop == [tree : Trees(Nodes(t0)), z : Nodes(t0)]
      from[l \in Loop] ==
        LET t == l.tree
            p == t.parent[l.z]
            next == InsertRound(t, l.z)
        IN IF p = Nil \/ ~IsRed(t, p) THEN Mark(Colour(t, t.root, FALSE), {t.root})
           ELSE IF t.parent[p] = Nil \/ next \notin Loop THEN NilPointer
           ELSE from[next]
  IN from[[tree |-> t0, z |-> z0]]

With(f, x, v) == [y \in DOMAIN f \cup {x} |-> IF y = x THEN v ELSE f[y]]
Without(f, x) == [y \in DOMAIN f \ {x} |-> f[y]]

\* The node Insert hangs a key under.
Under(t, key) ==
  LET down[x \in Nodes(t)] ==
        LET next == t[Side(key, x)][x] IN IF next = Nil THEN x ELSE down[next]
  IN IF t.root = Nil THEN Nil ELSE down[t.root]

\* Insert, of a node NewNode made.
Insert(t, z) ==
  LET y == Under(t, Key(z))
      d == Side(Key(z), y)
      grown == [t EXCEPT !.left = With(@, z, Nil), !.right = With(@, z, Nil),
                         !.parent = With(@, z, y), !.dirty = @ \cup {z}, !.size = @ + 1]
  IN IF y = Nil THEN [grown EXCEPT !.root = z]
     ELSE rbInsertFixup(Mark(Colour([grown EXCEPT ![d][y] = z], z, TRUE), {y}), z)

-----------------------------------------------------------------------------
(***************************************************************************)
(* Delete.                                                                 *)
(***************************************************************************)

\* The sibling of x once it is black: the first case of rbDeleteFixup, of a red
\* sibling, turns the tree so that it has a black one.
BlackSibling(t, par, d) ==
  LET w == t[Other(d)][par]
  IN IF IsRed(t, w)
     THEN rotate(Mark([t EXCEPT !.red = (@ \ {w}) \cup {par}], {w, par}), par, d)
     ELSE t

\* Mutant of LastCase: v does not take the colour of its new place.
LastCaseKeepsColour(t, par, d) ==
  LET v == t[Other(d)][par]
      last == t[Other(d)][v]
      coloured == [t EXCEPT !.red = @ \ {par, last}]
      marks == {par, last} \cup (IF d = "left" THEN {} ELSE {v})
      AtRoot(done) == [tree |-> done, x |-> done.root, parent |-> par]
  IN AtRoot(rotate(Mark(coloured, marks), par, d))

\* The last case, of a black sibling v with a red child on the far side, after
\* which the loop goes on at the root.  The left branch does not mark v.
LastCase(t, par, d) ==
  LET v == t[Other(d)][par]
      last == t[Other(d)][v]
      coloured == Colour([t EXCEPT !.red = @ \ {par, last}], v, IsRed(t, par))
      marks == {par, last} \cup (IF d = "left" THEN {} ELSE {v})
      AtRoot(done) == [tree |-> done, x |-> done.root, parent |-> par]
  IN AtRoot(rotate(Mark(coloured, marks), par, d))

\* The cases of a black sibling w.  The right branch does not mark the child of w
\* it blackens before turning w.
SiblingCase(t, par, d) ==
  LET w == t[Other(d)][par]
      near == t[d][w]
      far == t[Other(d)][w]
      marks == {w} \cup (IF d = "left" THEN {near} ELSE {})
  IN IF ~IsRed(t, near) /\ ~IsRed(t, far)
     THEN [tree |-> Mark(Colour(t, w, TRUE), {w}), x |-> par, parent |-> par]
     ELSE IF IsRed(t, far) THEN LastCase(t, par, d)
     ELSE LastCase(rotate(Mark([t EXCEPT !.red = (@ \ {near}) \cup {w}], marks), w, Other(d)), par, d)

\* rbDeleteFixup(x, parent).
rbDeleteFixup(t0, x0, parent0) ==
  LET N == Nodes(t0) \cup {Nil}
      Loop == [tree : Trees(Nodes(t0)), x : N, parent : N]
      from[l \in Loop] ==
        LET t == l.tree
            par == IF l.x # Nil THEN t.parent[l.x] ELSE l.parent
            d == IF l.x = t.left[par] THEN "left" ELSE "right"
            b == BlackSibling(t, par, d)
            next == SiblingCase(b, par, d)
        IN IF l.x = t.root \/ IsRed(t, l.x)
           THEN IF l.x = Nil THEN t ELSE Mark(Colour(t, l.x, FALSE), {l.x})
           ELSE IF par = Nil \/ t[Other(d)][par] = Nil \/ b[Other(d)][par] = Nil \/ next \notin Loop
           THEN NilPointer
           ELSE from[next]
  IN from[[tree |-> t0, x |-> x0, parent |-> parent0]]

\* Mutant of FixupParent: the parent stays that of z in every case.
FixupParentOfDeleted(t, z) == t.parent[z]

\* The variable parent of Delete when it calls rbDeleteFixup.  When z has two
\* children and its successor y is not one of them, it is still z's parent.
FixupParent(t, z) ==
  LET y == minimum(t, t.right[z])
  IN IF t.left[z] # Nil /\ t.right[z] # Nil /\ t.parent[y] = z /\ t.right[y] = Nil
     THEN y ELSE t.parent[z]

\* The node that leaves its place when z is deleted: y of Delete.
Spliced(t, z) ==
  IF t.left[z] = Nil \/ t.right[z] = Nil THEN z ELSE minimum(t, t.right[z])

\* rbDeleteFixup is called with a parent that is not that of the child x it is
\* called with: x is nil, y is not a child of z, and y was black.
WrongParent(t, z) ==
  LET y == Spliced(t, z)
  IN y # z /\ t.parent[y] # z /\ t.right[y] = Nil /\ ~IsRed(t, y)

\* y takes the place of z, which has two children.
Replace(t, z, y) ==
  LET off == transplant(t, y, t.right[y])
      freed == IF t.parent[y] = z THEN SetParent(t, t.right[y], y)
               ELSE Mark(SetParent([off EXCEPT !.right[y] = t.right[z]], t.right[z], y), {y})
      placed == transplant(freed, z, y)
  IN Mark(Colour(SetParent([placed EXCEPT !.left[y] = t.left[z]], t.left[z], y),
                 y, IsRed(t, z)), {y})

Drop(t, z) ==
  [t EXCEPT !.left = Without(@, z), !.right = Without(@, z), !.parent = Without(@, z),
            !.red = @ \ {z}, !.dirty = @ \ {z}, !.size = @ - 1]

\* Delete, of a node of the tree, which goes with its fields.
Delete(t, z) ==
  LET y == Spliced(t, z)
      x == IF y = z /\ t.left[z] # Nil THEN t.left[z] ELSE t.right[y]
      cut == Drop(IF y = z THEN transplant(t, z, x) ELSE Replace(t, z, y), z)
  IN IF IsRed(t, y) THEN cut ELSE rbDeleteFixup(cut, x, FixupParent(t, z))

-----------------------------------------------------------------------------
(***************************************************************************)
(* What makes a tree one.                                                  *)
(***************************************************************************)

\* Every link has its way back, and only the root has no parent.
LinksAgree(t) ==
  /\ \A n \in Nodes(t) : \A d \in {"left", "right"} : t[d][n] # Nil => t.parent[t[d][n]] = n
  /\ \A n \in Nodes(t) : IF n = t.root THEN t.parent[n] = Nil
                         ELSE n \in {t.left[t.parent[n]], t.right[t.parent[n]]}
  /\ \A n \in Nodes(t) : t.left[n] # Nil => t.left[n] # t.right[n]

\* The loop over the tree meets each of its nodes once, from the greatest key
\* to the least.
InOrder(t) ==
  LET s == IF t.root = Nil THEN <<>> ELSE Iteration(t)
  IN /\ Nodes(t) = {s[i] : i \in DOMAIN s}
     /\ t.size = Len(s)
     /\ \A i, j \in DOMAIN s : i < j => s[i] # s[j] /\ Key(s[i]) >= Key(s[j])

\* The black root, no red node under a red one, and as many black nodes on
\* every way down: VerifyProperty2, 3 and 4 of Test/tree_test.go.
RedBlack(t) ==
  LET blacks[n \in Nodes(t) \cup {Nil}] ==   \* the set of numbers of black nodes
        IF n = Nil THEN {0}
        ELSE {IF IsRed(t, n) THEN b ELSE b + 1 : b \in blacks[t.left[n]] \cup blacks[t.right[n]]}
  IN /\ ~IsRed(t, t.root)
     /\ \A n \in t.red : ~IsRed(t, t.left[n]) /\ ~IsRed(t, t.right[n])
     /\ \A a, b \in blacks[t.root] : a = b
=============================================================================
