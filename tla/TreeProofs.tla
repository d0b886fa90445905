----------------------------- MODULE TreeProofs -----------------------------
(***************************************************************************)
(* Proofs about the tree of tree.go.  A sound tree has its nodes in a line: *)
(* pos gives each its place, end the first and the last place of what is    *)
(* under it, edge those of the whole tree (Laid), the places have no gaps   *)
(* (Placed) and along them the keys do not grow (Keyed).  These are values  *)
(* the links determine; the program keeps none of them.  A loop of tree.go  *)
(* ends because the width of what is under a node changes in one direction  *)
(* from one round to the next.  Of the colours, h counts the black nodes on *)
(* any way down from a node (Even), and OneRedRed names the one node that   *)
(* may be red under a red one while rbInsertFixup runs.                     *)
(***************************************************************************)
EXTENDS Tree, Integers, TLAPS, WellFoundedInduction, SequenceTheorems

-----------------------------------------------------------------------------
(* The naturals are well-founded by <. *)
LEMMA NatLess == \E R : IsWellFoundedOn(R, Nat) /\ \A x, y \in Nat : x < y => <<x, y>> \in R
<1>1. IsWellFoundedOn(OpToRel(<, Nat), Nat)
  BY NatLessThanWellFounded
<1>2. \A x, y \in Nat : x < y => <<x, y>> \in OpToRel(<, Nat)
  BY DEF OpToRel
<1> QED
  BY <1>1, <1>2

(* A set on which a measure is a natural has a member of the least measure. *)
LEMMA Least ==
  ASSUME NEW T, T # {}, NEW r, \A x \in T : r[x] \in Nat
  PROVE \E x \in T : \A y \in T : r[x] <= r[y]
<1>1. PICK R : IsWellFoundedOn(R, Nat) /\ \A x, y \in Nat : x < y => <<x, y>> \in R
  BY NatLess
<1> DEFINE V == {r[x] : x \in T}
<1>2. V \subseteq Nat /\ V # {}
  OBVIOUS
<1>7. \A v \in V : \E x \in T : v = r[x]
  OBVIOUS
<1>8. \A x \in T : r[x] \in V
  OBVIOUS
<1> HIDE DEF V
<1>9. IsWellFoundedOn(R, Nat)
  BY <1>1
<1>3. \E v \in V : \A w \in V : ~(<<w, v>> \in R)
  BY <1>9, <1>2, WFMin
<1>4. PICK v \in V : \A w \in V : ~(<<w, v>> \in R)
  BY <1>3
<1>10. \A w \in V : ~(w < v)
  BY <1>1, <1>2, <1>4
<1>5. \A w \in V : v <= w
  BY <1>2, <1>10
<1>6. PICK x \in T : v = r[x]
  BY <1>7
<1> QED
  BY <1>5, <1>6, <1>8

-----------------------------------------------------------------------------
(***************************************************************************)
(* Loops.  A loop of tree.go is a function f that is base where the loop   *)
(* is done and what it is one round further on elsewhere.                  *)
(***************************************************************************)
IsLoop(f, S, Done, base, next) == f = [x \in S |-> IF x \in Done THEN base[x] ELSE f[next[x]]]

\* Every state at[g] that is not done is followed by another with a lesser measure r.
Falls(G, at, r, S, Done, next) ==
  /\ \A g \in G : at[g] \in S /\ r[g] \in Nat
  /\ \A g \in G : at[g] \notin Done => \E h \in G : at[h] = next[at[g]] /\ r[h] < r[g]

EndsIn(G, at, Done, base, Out) == \A g \in G : at[g] \in Done => base[at[g]] \in Out

(* Where a loop ends that keeps an invariant - the states of G, which may   *)
(* say more than the loop's own state does - and whose measure falls.       *)
LEMMA LoopEnds ==
  ASSUME NEW f, NEW S, NEW Done, NEW base, NEW next, IsLoop(f, S, Done, base, next),
         NEW G, NEW at, NEW r, NEW Out, Falls(G, at, r, S, Done, next), EndsIn(G, at, Done, base, Out)
  PROVE \A g \in G : f[at[g]] \in Out
<1> USE DEF Falls, EndsIn
<1> DEFINE T == {g \in G : f[at[g]] \notin Out}
<1>1. SUFFICES ASSUME T # {} PROVE FALSE
  OBVIOUS
<1>2. PICK g \in T : \A h \in T : r[g] <= r[h]
  BY <1>1, Least
<1>3. g \in G /\ at[g] \in S /\ f[at[g]] \notin Out
  OBVIOUS
<1>4. f[at[g]] = IF at[g] \in Done THEN base[at[g]] ELSE f[next[at[g]]]
  BY <1>3 DEF IsLoop
<1>5. at[g] \notin Done
  BY <1>3, <1>4
<1>6. PICK h \in G : at[h] = next[at[g]] /\ r[h] < r[g]
  BY <1>3, <1>5
<1>7. r[h] \in Nat /\ r[g] \in Nat /\ ~(r[g] <= r[h])
  BY <1>3, <1>6
<1>8. h \notin T
  BY <1>2, <1>7
<1> QED
  BY <1>3, <1>4, <1>5, <1>6, <1>8

(* There is one for every S that no round leaves: the values that every set  *)
(* of pairs closed under the rounds has, and anything where a loop is endless. *)
LEMMA LoopExists ==
  ASSUME NEW S, NEW Done, NEW base, NEW next, \A x \in S : x \notin Done => next[x] \in S
  PROVE \E f : IsLoop(f, S, Done, base, next)
<1> DEFINE V == {base[x] : x \in S}
           Closed(Q) ==
             /\ \A x \in S : x \in Done => <<x, base[x]>> \in Q
             /\ \A x \in S : \A v \in V : x \notin Done /\ <<next[x], v>> \in Q => <<x, v>> \in Q
           R == {q \in S \X V : \A Q \in SUBSET (S \X V) : Closed(Q) => q \in Q}
           f == [x \in S |-> IF \E v \in V : <<x, v>> \in R THEN CHOOSE v \in V : <<x, v>> \in R ELSE {}]
<1>1. Closed(R)
  OBVIOUS
<1>2. ASSUME NEW x \in S, x \in Done, NEW v \in V, <<x, v>> \in R
      PROVE v = base[x]
  <2> DEFINE Q == {q \in S \X V : q[1] = x => q[2] = base[x]}
  <2>1. Closed(Q) /\ Q \in SUBSET (S \X V)
    BY <1>2
  <2> QED
    BY <1>2, <2>1
<1>3. ASSUME NEW x \in S, x \notin Done, NEW v \in V, <<x, v>> \in R
      PROVE <<next[x], v>> \in R
  <2> DEFINE Q == {q \in R : q[1] = x => <<next[x], q[2]>> \in R}
  <2>1. \A y \in S : \A w \in V : y \notin Done /\ <<next[y], w>> \in R => <<y, w>> \in R
    BY <1>1
  <2>2. \A y \in S : y \in Done => <<y, base[y]>> \in R
    BY <1>1
  <2> HIDE DEF R, V
  <2>3. \A y \in S : \A w \in V : y \notin Done /\ <<next[y], w>> \in Q => <<y, w>> \in Q
    BY <1>3, <2>1
  <2>4. \A y \in S : y \in Done => <<y, base[y]>> \in Q
    BY <1>3, <2>2
  <2>6. Q \in SUBSET (S \X V)
    BY DEF R
  <2>5. <<x, v>> \in Q
    <3> HIDE DEF Q
    <3> QED
      BY <1>3, <2>3, <2>4, <2>6 DEF R
  <2> QED
    BY <2>5
<1>4. \A x \in S : x \in Done => f[x] = base[x]
  BY <1>1, <1>2
<1>5. ASSUME NEW x \in S, x \notin Done
      PROVE f[x] = f[next[x]]
  <2>1. \A v \in V : <<x, v>> \in R <=> <<next[x], v>> \in R
    BY <1>1, <1>3, <1>5
  <2>2. next[x] \in S
    BY <1>5
  <2> HIDE DEF R, V
  <2>3. (CHOOSE v \in V : <<x, v>> \in R) = (CHOOSE v \in V : <<next[x], v>> \in R)
    BY <2>1
  <2> QED
    BY <2>1, <2>2, <2>3
<1> HIDE DEF f
<1>6. f = [x \in S |-> f[x]]
  BY DEF f
<1>7. f = [x \in S |-> IF x \in Done THEN base[x] ELSE f[next[x]]]
  BY <1>4, <1>5, <1>6
<1> QED
  BY <1>7 DEF IsLoop
-----------------------------------------------------------------------------
(***************************************************************************)
(* The fields of a tree.                                                   *)
(***************************************************************************)
Sides == {"left", "right"}

(* The other side of the other side. *)
LEMMA TwoSides ==
  ASSUME NEW d \in Sides
  PROVE Other(d) \in Sides /\ Other(d) # d /\ Other(Other(d)) = d /\ \A c \in Sides : c = d \/ c = Other(d)
BY DEF Sides, Other

(* What the fields hold. *)
LEMMA Fields ==
  ASSUME NEW N, NEW t \in Trees(N)
  PROVE /\ \A d \in Sides : t[d] \in [N -> N \cup {Nil}]
        /\ t.parent \in [N -> N \cup {Nil}] /\ Nodes(t) = N
        /\ t.root \in N \cup {Nil} /\ t.red \subseteq N /\ t.dirty \subseteq N /\ t.size \in Nat
BY DEF Trees, Nodes, Sides

\* r is t but for its parents and marks: what of t matters to links and colours.
SameBut(r, t, red, parent) ==
  /\ r.root = t.root /\ \A d \in Sides : r[d] = t[d]
  /\ r.size = t.size /\ r.red = red /\ r.parent = parent

(* Marking a node changes no link and no colour. *)
LEMMA MarkFields ==
  ASSUME NEW N, NEW t \in Trees(N), NEW ns, ns \subseteq N \cup {Nil}
  PROVE /\ Mark(t, ns) \in Trees(N) /\ SameBut(Mark(t, ns), t, t.red, t.parent)
        /\ Mark(t, ns).dirty = t.dirty \cup (ns \ {Nil})
BY DEF Trees, Mark, SameBut, Sides

\* r is t once n has the parent p.
ParentSet(r, t, n, p) ==
  SameBut(r, t, t.red, [m \in Nodes(t) |-> IF m = n THEN p ELSE t.parent[m]]) /\ r.dirty = t.dirty

(* A node is given a parent. *)
LEMMA ParentFields ==
  ASSUME NEW N, Nil \notin N, NEW t \in Trees(N), NEW n \in N \cup {Nil}, NEW p \in N \cup {Nil}
  PROVE SetParent(t, n, p) \in Trees(N) /\ ParentSet(SetParent(t, n, p), t, n, p)
<1> USE DEF ParentSet
<1>3. Nodes(t) = N
  BY Fields
<1>1. CASE n = Nil
  <2>1. t.parent = [m \in N |-> IF m = n THEN p ELSE t.parent[m]]
    BY <1>1 DEF Trees
  <2> QED
    BY <1>1, <1>3, <2>1 DEF SetParent, SameBut
<1>2. CASE n \in N
  BY <1>2, <1>3 DEF Trees, SetParent, SameBut, Sides
<1> QED
  BY <1>1, <1>2

\* r is t once n has the child v on side d.
ChildSet(r, t, d, n, v) ==
  /\ r.root = t.root /\ r.size = t.size /\ r.red = t.red /\ r.parent = t.parent /\ r.dirty = t.dirty
  /\ r[d] = [m \in Nodes(t) |-> IF m = n THEN v ELSE t[d][m]]
  /\ r[Other(d)] = t[Other(d)]

(* A node is given a child. *)
LEMMA ChildFields ==
  ASSUME NEW N, NEW t \in Trees(N), NEW n \in N, NEW v \in N \cup {Nil}, NEW d \in Sides
  PROVE [t EXCEPT ![d][n] = v] \in Trees(N) /\ ChildSet([t EXCEPT ![d][n] = v], t, d, n, v)
<1>1. CASE d = "left"
  BY <1>1 DEF Trees, Other, Nodes, ChildSet
<1>2. CASE d = "right"
  BY <1>2 DEF Trees, Other, Nodes, ChildSet
<1> QED
  BY <1>1, <1>2 DEF Sides

(* A node is coloured. *)
LEMMA ColourFields ==
  ASSUME NEW N, NEW t \in Trees(N), NEW red, red \subseteq N
  PROVE LET r == [t EXCEPT !.red = red] IN
        r \in Trees(N) /\ SameBut(r, t, red, t.parent) /\ r.dirty = t.dirty
BY DEF Trees, SameBut, Sides

-----------------------------------------------------------------------------
(***************************************************************************)
(* transplant and the rotations, field by field (tree.go:251-293, 319-334).*)
(***************************************************************************)

\* n is one child of its parent p, or p is nil.
OneChild(t, n, p) ==
  p # Nil => \E c \in Sides : t[c][p] = n /\ t[Other(c)][p] # n

(* v takes the place of u. *)
LEMMA TransplantFields ==
  ASSUME NEW N, Nil \notin N, NEW t \in Trees(N), NEW u \in N, NEW v \in N \cup {Nil},
         OneChild(t, u, t.parent[u])
  PROVE LET r == transplant(t, u, v)
            p == t.parent[u]
        IN /\ r \in Trees(N) /\ r.size = t.size /\ r.red = t.red
           /\ r.root = IF p = Nil THEN v ELSE t.root
           /\ r.parent = [m \in N |-> IF m = v THEN p ELSE t.parent[m]]
           /\ \A c \in Sides : r[c] = [m \in N |-> IF m = p /\ t[c][p] = u THEN v ELSE t[c][m]]
           /\ r.dirty = t.dirty \cup ({p} \ {Nil})
<1> DEFINE p == t.parent[u]
           r == transplant(t, u, v)
           q == [m \in N |-> IF m = v THEN p ELSE t.parent[m]]
<1>1. p \in N \cup {Nil} /\ \A c \in Sides : t[c] \in [N -> N \cup {Nil}]
  BY Fields
<1>2. CASE p = Nil
  <2> DEFINE k == [t EXCEPT !.root = v]
  <2>1. /\ k \in Trees(N) /\ k.root = v /\ k.size = t.size /\ k.red = t.red /\ k.parent = t.parent
        /\ k.dirty = t.dirty /\ \A c \in Sides : k[c] = t[c]
    BY DEF Trees, Sides
  <2>2. r = SetParent(k, v, p)
    BY <1>2 DEF transplant
  <2> HIDE DEF k
  <2>5. r \in Trees(N) /\ ParentSet(r, k, v, p)
    BY <1>1, <2>1, <2>2, ParentFields
  <2>3. SameBut(r, k, k.red, q) /\ r.dirty = t.dirty
    BY <2>1, <2>5, Fields DEF ParentSet
  <2>4. \A c \in Sides : r[c] = [m \in N |-> IF m = p /\ t[c][p] = u THEN v ELSE t[c][m]]
    BY <1>1, <1>2, <2>1, <2>3 DEF SameBut
  <2> QED
    BY <1>2, <2>1, <2>3, <2>4, <2>5 DEF SameBut
<1>3. CASE p # Nil
  <2>1. PICK c \in Sides : t[c][p] = u /\ t[Other(c)][p] # u
    BY <1>3 DEF OneChild
  <2> DEFINE k == [t EXCEPT ![c][p] = v]
             l == Mark(k, {p})
  <2>2. p \in N
    BY <1>1, <1>3
  <2>9. k \in Trees(N) /\ ChildSet(k, t, c, p, v)
    BY <2>2, ChildFields
  <2>3. /\ k \in Trees(N) /\ k.root = t.root /\ k.size = t.size /\ k.red = t.red /\ k.parent = t.parent
        /\ k.dirty = t.dirty /\ k[c] = [m \in N |-> IF m = p THEN v ELSE t[c][m]]
        /\ k[Other(c)] = t[Other(c)]
    BY <2>9, Fields DEF ChildSet
  <2>4. r = SetParent(l, v, p)
    <3>1. CASE c = "left"
      BY <1>3, <2>1, <3>1 DEF transplant
    <3>2. CASE c = "right"
      BY <1>3, <2>1, <3>2 DEF transplant, Other
    <3> QED
      BY <3>1, <3>2 DEF Sides
  <2> HIDE DEF k
  <2>5. l \in Trees(N) /\ SameBut(l, k, k.red, k.parent) /\ l.dirty = t.dirty \cup ({p} \ {Nil})
    BY <2>2, <2>3, MarkFields
  <2> HIDE DEF l
  <2>6. r \in Trees(N) /\ SameBut(r, l, l.red, q) /\ r.dirty = l.dirty
    <3>1. l.parent = t.parent
      BY <2>3, <2>5 DEF SameBut
    <3>2. r \in Trees(N) /\ ParentSet(r, l, v, p)
      BY <1>1, <2>4, <2>5, ParentFields
    <3> QED
      BY <2>5, <3>1, <3>2, Fields DEF ParentSet
  <2>7. /\ r[c] = [m \in N |-> IF m = p THEN v ELSE t[c][m]]
        /\ r[Other(c)] = t[Other(c)]
    BY <2>3, <2>5, <2>6, TwoSides DEF SameBut
  <2>8. \A d \in Sides : r[d] = [m \in N |-> IF m = p /\ t[d][p] = u THEN v ELSE t[d][m]]
    <3>1. t[Other(c)] = [m \in N |-> IF m = p /\ t[Other(c)][p] = u THEN v ELSE t[Other(c)][m]]
      BY <1>1, <2>1, TwoSides
    <3> QED
      BY <2>1, <2>7, <3>1, TwoSides
  <2> QED
    BY <1>3, <2>3, <2>5, <2>6, <2>8 DEF SameBut
<1> QED
  BY <1>2, <1>3

\* x and its child y on the side Other(d) can turn: they, the parent and the
\* node between are what a tree has there.
CanTurn(t, x, d) ==
  LET y == t[Other(d)][x] IN
  /\ y # Nil /\ y # x /\ t[d][x] # y
  /\ t[d][y] # x /\ t[d][y] # y
  /\ t.parent[x] # x /\ t.parent[x] # y
  /\ OneChild(t, x, t.parent[x])

\* What a rotation leaves: y in the place of x, which is its child on side d.
Turned(r, t, x, d) ==
  LET N == Nodes(t)
      y == t[Other(d)][x]
      b == t[d][y]
      p == t.parent[x]
  IN /\ r.size = t.size /\ r.red = t.red
     /\ r.root = IF p = Nil THEN y ELSE t.root
     /\ r.parent = [m \in N |-> IF m = y THEN p ELSE IF m = x THEN y
                                ELSE IF m = b THEN x ELSE t.parent[m]]
     /\ r[d] = [m \in N |-> IF m = y THEN x ELSE IF m = p /\ t[d][p] = x THEN y ELSE t[d][m]]
     /\ r[Other(d)] = [m \in N |-> IF m = x THEN b
                                   ELSE IF m = p /\ t[Other(d)][p] = x THEN y ELSE t[Other(d)][m]]
     /\ r.dirty = t.dirty \cup ({p} \ {Nil}) \cup {x, y}

(* The rotations. *)
LEMMA RotateFields ==
  ASSUME NEW N, Nil \notin N, NEW t \in Trees(N), NEW x \in N, NEW d \in Sides, CanTurn(t, x, d)
  PROVE rotate(t, x, d) \in Trees(N) /\ Turned(rotate(t, x, d), t, x, d)
<1> DEFINE e == Other(d)
           y == t[e][x]
           b == t[d][y]
           p == t.parent[x]
           k == transplant(t, x, y)
           u == SetParent(k, b, x)
           r1 == [u EXCEPT ![e][x] = b]
           r2 == [r1 EXCEPT ![d][y] = x]
           r3 == SetParent(r2, x, y)
           r == Mark(r3, {x, y})
<1>1. /\ e \in Sides /\ e # d /\ \A c \in Sides : t[c] \in [N -> N \cup {Nil}]
      /\ t.parent \in [N -> N \cup {Nil}] /\ Nodes(t) = N
  BY Fields, TwoSides
<1>2. /\ y \in N /\ y # x /\ b \in N \cup {Nil} /\ b # x /\ b # y /\ p \in N \cup {Nil} /\ p # x /\ p # y
      /\ OneChild(t, x, p) /\ x # Nil /\ y # Nil
  BY <1>1 DEF CanTurn
<1>3. rotate(t, x, d) = r
  <2>1. r3 = [r2 EXCEPT !.parent[x] = y]
    BY <1>2 DEF SetParent
  <2>2. [u EXCEPT ![e][x] = b, ![d][y] = x, !.parent[x] = y] = [r2 EXCEPT !.parent[x] = y]
    OBVIOUS
  <2> QED
    BY <2>1, <2>2 DEF rotate
<1> HIDE DEF y, b, p
<1>4. /\ k \in Trees(N) /\ k.size = t.size /\ k.red = t.red
      /\ k.root = IF p = Nil THEN y ELSE t.root
      /\ k.parent = [m \in N |-> IF m = y THEN p ELSE t.parent[m]]
      /\ \A c \in Sides : k[c] = [m \in N |-> IF m = p /\ t[c][p] = x THEN y ELSE t[c][m]]
      /\ k.dirty = t.dirty \cup ({p} \ {Nil})
  BY <1>2, TransplantFields DEF p
<1> HIDE DEF k
<1>5. u \in Trees(N) /\ SameBut(u, k, k.red, [m \in N |-> IF m = b THEN x ELSE k.parent[m]]) /\ u.dirty = k.dirty
  <2>1. u \in Trees(N) /\ ParentSet(u, k, b, x)
    BY <1>2, <1>4, ParentFields
  <2> QED
    BY <1>4, <2>1, Fields DEF ParentSet
<1> HIDE DEF u
<1>6. /\ r1 \in Trees(N) /\ r1.root = u.root /\ r1.size = u.size /\ r1.red = u.red /\ r1.parent = u.parent
      /\ r1.dirty = u.dirty
      /\ r1[e] = [m \in N |-> IF m = x THEN b ELSE u[e][m]] /\ r1[d] = u[d]
  <2>1. r1 \in Trees(N) /\ ChildSet(r1, u, e, x, b)
    BY <1>1, <1>2, <1>5, ChildFields
  <2> QED
    BY <1>1, <1>5, <2>1, Fields, TwoSides DEF ChildSet
<1> HIDE DEF r1
<1>7. /\ r2 \in Trees(N) /\ r2.root = u.root /\ r2.size = u.size /\ r2.red = u.red /\ r2.parent = u.parent
      /\ r2.dirty = u.dirty
      /\ r2[d] = [m \in N |-> IF m = y THEN x ELSE r1[d][m]] /\ r2[e] = r1[e]
  <2>1. r2 \in Trees(N) /\ ChildSet(r2, r1, d, y, x)
    BY <1>1, <1>2, <1>6, ChildFields
  <2> QED
    BY <1>1, <1>6, <2>1, Fields, TwoSides DEF ChildSet
<1> HIDE DEF r2
<1>8. r3 \in Trees(N) /\ SameBut(r3, r2, r2.red, [m \in N |-> IF m = x THEN y ELSE r2.parent[m]]) /\ r3.dirty = u.dirty
  <2>1. r3 \in Trees(N) /\ ParentSet(r3, r2, x, y)
    BY <1>2, <1>7, ParentFields
  <2> QED
    BY <1>7, <2>1, Fields DEF ParentSet
<1> HIDE DEF r3
<1>9. r \in Trees(N) /\ SameBut(r, r3, r3.red, r3.parent) /\ r.dirty = u.dirty \cup {x, y}
  BY <1>2, <1>8, MarkFields
<1> HIDE DEF r
<1>10. r.size = t.size /\ r.red = t.red /\ r.root = k.root /\ r.dirty = k.dirty \cup {x, y}
  BY <1>4, <1>5, <1>7, <1>8, <1>9 DEF SameBut
<1>11. r.parent = [m \in N |-> IF m = y THEN p ELSE IF m = x THEN y ELSE IF m = b THEN x ELSE t.parent[m]]
  BY <1>2, <1>4, <1>5, <1>7, <1>8, <1>9 DEF SameBut
<1>12. r[d] = [m \in N |-> IF m = y THEN x ELSE k[d][m]] /\ r[e] = [m \in N |-> IF m = x THEN b ELSE k[e][m]]
  BY <1>1, <1>5, <1>6, <1>7, <1>8, <1>9 DEF SameBut
<1>13. /\ r[d] = [m \in N |-> IF m = y THEN x ELSE IF m = p /\ t[d][p] = x THEN y ELSE t[d][m]]
       /\ r[e] = [m \in N |-> IF m = x THEN b ELSE IF m = p /\ t[e][p] = x THEN y ELSE t[e][m]]
  <2>1. k[d] = [m \in N |-> IF m = p /\ t[d][p] = x THEN y ELSE t[d][m]]
    BY <1>4
  <2>2. k[e] = [m \in N |-> IF m = p /\ t[e][p] = x THEN y ELSE t[e][m]]
    BY <1>1, <1>4
  <2> HIDE DEF e
  <2> QED
    BY <1>12, <2>1, <2>2
<1> QED
  BY <1>1, <1>3, <1>4, <1>9, <1>10, <1>11, <1>13 DEF Turned, y, b, p

-----------------------------------------------------------------------------
(***************************************************************************)
(* The order of a tree: pos is each node's place in the list the loop over *)
(* the tree goes through, and the nodes under n, with n, are those from    *)
(* end.left[n] to end.right[n].                                            *)
(***************************************************************************)
Step(d) == IF d = "left" THEN -1 ELSE 1
Towards(d, i, j) == IF d = "left" THEN j <= i ELSE i <= j

Ends(t, pos, edge, end) ==
  \A n \in Nodes(t), d \in Sides : Towards(d, pos[n], end[d][n]) /\ Towards(d, end[d][n], edge[d])
Children(t, pos, end) ==
  \A n \in Nodes(t), d \in Sides :
    IF t[d][n] = Nil THEN end[d][n] = pos[n]
    ELSE /\ t.parent[t[d][n]] = n
         /\ end[d][t[d][n]] = end[d][n] /\ end[Other(d)][t[d][n]] = pos[n] + Step(d)
AtRoot(t, edge, end) ==
  IF t.root = Nil THEN Nodes(t) = {}
  ELSE t.parent[t.root] = Nil /\ \A d \in Sides : end[d][t.root] = edge[d]
Parents(t) ==
  \A n \in Nodes(t) : IF t.parent[n] = Nil THEN n = t.root
                      ELSE \E d \in Sides : t[d][t.parent[n]] = n

Laid(t, pos, edge, end) ==
  /\ pos \in [Nodes(t) -> Int] /\ edge \in [Sides -> Int] /\ end \in [Sides -> [Nodes(t) -> Int]]
  /\ Ends(t, pos, edge, end) /\ Children(t, pos, end) /\ AtRoot(t, edge, end) /\ Parents(t)

(* Arithmetic of sides. *)
LEMMA SideFacts ==
  ASSUME NEW d \in Sides, NEW i \in Int, NEW j \in Int, NEW k \in Int
  PROVE /\ Step(d) \in Int /\ Step(Other(d)) = -Step(d) /\ Step(d) # 0
        /\ Towards(d, i, i) /\ Towards(d, i, i + Step(d)) /\ (Towards(d, i, j) <=> Towards(Other(d), j, i))
        /\ Towards(d, i, j) /\ Towards(d, j, k) => Towards(d, i, k)
        /\ Towards(d, i + Step(d), j) <=> (Towards(d, i, j) /\ i # j)
BY DEF Sides, Step, Towards, Other

(* A child lies beyond its parent. *)
LEMMA ChildBeyond ==
  ASSUME NEW N, Nil \notin N, NEW t \in Trees(N), NEW pos, NEW edge, NEW end, Laid(t, pos, edge, end),
         NEW n \in N, NEW d \in Sides, t[d][n] # Nil
  PROVE LET m == t[d][n] IN
        /\ m \in N /\ m # n /\ t.parent[m] = n /\ t[Other(d)][n] # m
        /\ Towards(d, pos[n], pos[m]) /\ pos[n] # pos[m]
        /\ Towards(d, pos[n], end[Other(d)][m]) /\ pos[n] # end[Other(d)][m]
        /\ end[d][m] = end[d][n] /\ end[Other(d)][m] = pos[n] + Step(d)
<1> DEFINE m == t[d][n]
           e == Other(d)
<1>1. m \in N /\ e \in Sides /\ Nodes(t) = N /\ Other(e) = d
  BY Fields, TwoSides
<1>2. pos[n] \in Int /\ pos[m] \in Int /\ end[e][m] \in Int /\ end[d][m] \in Int
  BY <1>1 DEF Laid
<1>3. t.parent[m] = n /\ end[d][m] = end[d][n] /\ end[e][m] = pos[n] + Step(d)
  BY <1>1 DEF Laid, Children
<1>4. Towards(e, pos[m], end[e][m])
  BY <1>1 DEF Laid, Ends
<1> HIDE DEF m, e
<1>5. Towards(d, pos[n], end[e][m]) /\ pos[n] # end[e][m]
  BY <1>2, <1>3, SideFacts
<1>6. Towards(d, end[e][m], pos[m])
  BY <1>1, <1>2, <1>4, SideFacts DEF e
<1>7. Towards(d, pos[n], pos[m]) /\ pos[n] # pos[m]
  BY <1>2, <1>3, <1>6, SideFacts
<1>8. t[e][n] # m
  <2>1. SUFFICES ASSUME t[e][n] = m PROVE FALSE
    OBVIOUS
  <2>2. m # Nil
    BY <1>1
  <2>3. end[d][m] = pos[n] + Step(e)
    BY <1>1, <2>1, <2>2 DEF Laid, Children
  <2>4. Towards(d, pos[m], end[d][m])
    BY <1>1 DEF Laid, Ends
  <2> QED
    BY <1>1, <1>2, <1>7, <2>3, <2>4, SideFacts DEF Sides, Step, Towards, Other, e
<1> QED
  BY <1>1, <1>3, <1>5, <1>7, <1>8 DEF m, e

(* A node is one child of its parent. *)
LEMMA OneParent ==
  ASSUME NEW N, Nil \notin N, NEW t \in Trees(N), NEW pos, NEW edge, NEW end, Laid(t, pos, edge, end),
         NEW n \in N
  PROVE t.parent[n] # n /\ OneChild(t, n, t.parent[n])
<1>1. t.parent[n] \in N \cup {Nil} /\ Nodes(t) = N
  BY Fields
<1>2. CASE t.parent[n] = Nil
  BY <1>2 DEF OneChild
<1>3. CASE t.parent[n] # Nil
  <2>1. PICK c \in Sides : t[c][t.parent[n]] = n
    BY <1>1, <1>3 DEF Laid, Parents
  <2>2. t.parent[n] \in N /\ n # Nil
    BY <1>1, <1>3
  <2>3. n # t.parent[n] /\ t[Other(c)][t.parent[n]] # n
    BY <2>1, <2>2, ChildBeyond
  <2> QED
    BY <2>1, <2>3 DEF OneChild
<1> QED
  BY <1>2, <1>3

(* Where there is a child the tree can turn. *)
LEMMA TurnPossible ==
  ASSUME NEW N, Nil \notin N, NEW t \in Trees(N), NEW pos, NEW edge, NEW end, Laid(t, pos, edge, end),
         NEW x \in N, NEW d \in Sides, t[Other(d)][x] # Nil
  PROVE CanTurn(t, x, d)
<1> DEFINE e == Other(d)
           y == t[e][x]
           b == t[d][y]
           p == t.parent[x]
<1>1. e \in Sides /\ Other(e) = d /\ Nodes(t) = N
  BY Fields, TwoSides
<1>2. /\ y \in N /\ y # x /\ t.parent[y] = x /\ t[d][x] # y
      /\ Towards(e, pos[x], pos[y]) /\ pos[x] # pos[y] /\ end[d][y] = pos[x] + Step(e)
      /\ Towards(e, pos[x], end[d][y]) /\ pos[x] # end[d][y]
  BY <1>1, ChildBeyond
<1>3. pos[x] \in Int /\ pos[y] \in Int /\ end[d][x] \in Int /\ end[d][y] \in Int
  BY <1>1, <1>2 DEF Laid
<1>4. OneChild(t, x, p) /\ p # x
  BY OneParent
<1>5. Towards(d, pos[x], end[d][x])
  BY <1>1 DEF Laid, Ends
<1> HIDE DEF e
<1>6. b # x
  <2>1. SUFFICES ASSUME b = x PROVE FALSE
    OBVIOUS
  <2>2. end[d][x] = end[d][y]
    BY <1>1, <1>2, <2>1, ChildBeyond
  <2> QED
    BY <1>1, <1>2, <1>3, <1>5, <2>2, SideFacts DEF Sides, Step, Towards, Other, e
<1>7. b # y
  <2>1. SUFFICES ASSUME b = y PROVE FALSE
    OBVIOUS
  <2> QED
    BY <1>2, <2>1, ChildBeyond
<1>8. p # y
  <2>1. SUFFICES ASSUME p = y PROVE FALSE
    OBVIOUS
  <2>2. PICK c \in Sides : t[c][y] = x
    BY <1>1, <1>2, <2>1 DEF Laid, Parents
  <2>3. c = e
    BY <1>1, <1>6, <2>2, TwoSides
  <2>4. Towards(e, pos[y], pos[x])
    BY <1>1, <1>2, <2>2, <2>3, ChildBeyond
  <2> QED
    BY <1>1, <1>2, <1>3, <2>4 DEF Sides, Towards
<1> QED
  BY <1>1, <1>2, <1>4, <1>6, <1>7, <1>8 DEF CanTurn, e

(* A rotation keeps the order. *)
LEMMA TurnLaid ==
  ASSUME NEW N, Nil \notin N, NEW t \in Trees(N), NEW pos, NEW edge, NEW end, Laid(t, pos, edge, end),
         NEW x \in N, NEW d \in Sides, t[Other(d)][x] # Nil, NEW r \in Trees(N), Turned(r, t, x, d)
  PROVE \E new : Laid(r, pos, edge, new)
<1> DEFINE e == Other(d)
           y == t[e][x]
           b == t[d][y]
           p == t.parent[x]
           new == [c \in Sides |-> [m \in N |-> IF c = d /\ m = y THEN end[d][x]
                                                ELSE IF c = e /\ m = x THEN pos[y] + Step(d)
                                                ELSE end[c][m]]]
<1>1. /\ e \in Sides /\ Other(e) = d /\ e # d /\ Nodes(t) = N /\ Nodes(r) = N /\ \A c \in Sides : c = d \/ c = e
      /\ \A c \in Sides : t[c] \in [N -> N \cup {Nil}]
      /\ t.parent \in [N -> N \cup {Nil}] /\ t.root \in N \cup {Nil}
  BY Fields, TwoSides
<1>2. /\ y \in N /\ y # x /\ t.parent[y] = x /\ t[d][x] # y
      /\ Towards(e, pos[x], pos[y]) /\ pos[x] # pos[y] /\ end[d][y] = pos[x] + Step(e) /\ end[e][y] = end[e][x]
      /\ Towards(e, pos[x], end[d][y]) /\ pos[x] # end[d][y]
  BY <1>1, ChildBeyond
<1>3. /\ pos \in [N -> Int] /\ edge \in [Sides -> Int] /\ end \in [Sides -> [N -> Int]]
      /\ \A c \in Sides : end[c] \in [N -> Int]
  BY <1>1 DEF Laid
<1>4. /\ b \in N \cup {Nil} /\ b # x /\ b # y /\ p \in N \cup {Nil} /\ p # x /\ p # y /\ OneChild(t, x, p)
      /\ b # Nil => t.parent[b] = y /\ end[d][b] = end[d][y] /\ end[e][b] = pos[y] + Step(d)
      /\ b = Nil => end[d][y] = pos[y]
  <2>1. CanTurn(t, x, d)
    BY TurnPossible
  <2>2. b # Nil => t.parent[b] = y /\ end[d][b] = end[d][y] /\ end[e][b] = pos[y] + Step(d)
    BY <1>2, ChildBeyond
  <2>3. b = Nil => end[d][y] = pos[y]
    BY <1>1, <1>2 DEF Laid, Children
  <2> QED
    BY <1>1, <1>2, <2>1, <2>2, <2>3 DEF CanTurn
<1>5. /\ r.root = IF p = Nil THEN y ELSE t.root
      /\ r.parent = [m \in N |-> IF m = y THEN p ELSE IF m = x THEN y
                                 ELSE IF m = b THEN x ELSE t.parent[m]]
      /\ r[d] = [m \in N |-> IF m = y THEN x ELSE IF m = p /\ t[d][p] = x THEN y ELSE t[d][m]]
      /\ r[e] = [m \in N |-> IF m = x THEN b ELSE IF m = p /\ t[e][p] = x THEN y ELSE t[e][m]]
  BY <1>1 DEF Turned
<1> HIDE DEF y, b, p, e
<1>6. new \in [Sides -> [N -> Int]]
  <2>1. Step(d) \in Int /\ end[d][x] \in Int /\ pos[y] + Step(d) \in Int
    BY <1>2, <1>3 DEF Step
  <2> QED
    BY <1>3, <2>1
<1>7. /\ new[d][y] = end[d][x] /\ new[e][x] = pos[y] + Step(d) /\ new[d][x] = end[d][x] /\ new[e][y] = end[e][x]
      /\ \A c \in Sides : \A m \in N : m # x /\ m # y => new[c][m] = end[c][m]
  BY <1>1, <1>2
<1> HIDE DEF new
<1>8. Ends(r, pos, edge, new)
  <2>1. /\ Towards(d, pos[x], end[d][x]) /\ Towards(e, pos[y], end[e][y])
        /\ Towards(d, end[d][x], edge[d]) /\ Towards(e, end[e][y], edge[e])
    BY <1>1, <1>2 DEF Laid, Ends
  <2>2. /\ pos[x] \in Int /\ pos[y] \in Int /\ end[d][x] \in Int /\ end[e][y] \in Int
        /\ edge[d] \in Int /\ edge[e] \in Int
    BY <1>1, <1>2, <1>3
  <2>3. /\ Towards(d, pos[y], new[d][y]) /\ Towards(e, pos[y], new[e][y])
        /\ Towards(d, new[d][y], edge[d]) /\ Towards(e, new[e][y], edge[e])
    BY <1>1, <1>2, <1>7, <2>1, <2>2 DEF Towards, Other, Sides, e
  <2>4. /\ Towards(d, pos[x], new[d][x]) /\ Towards(e, pos[x], new[e][x])
        /\ Towards(d, new[d][x], edge[d]) /\ Towards(e, new[e][x], edge[e])
    BY <1>1, <1>2, <1>7, <2>1, <2>2 DEF Towards, Other, Sides, e, Step
  <2>5. \A m \in N, c \in Sides : m # x /\ m # y =>
          Towards(c, pos[m], new[c][m]) /\ Towards(c, new[c][m], edge[c])
    BY <1>1, <1>7 DEF Laid, Ends
  <2> QED
    BY <1>1, <2>3, <2>4, <2>5 DEF Ends
<1>9. Children(r, pos, new)
  <2>1. SUFFICES ASSUME NEW n \in N, NEW c \in Sides
                 PROVE IF r[c][n] = Nil THEN new[c][n] = pos[n]
                       ELSE /\ r.parent[r[c][n]] = n /\ new[c][r[c][n]] = new[c][n]
                            /\ new[Other(c)][r[c][n]] = pos[n] + Step(c)
    BY <1>1 DEF Children
  <2>2. x # Nil /\ y # Nil
    BY <1>2
  <2>3. CASE n = y /\ c = d
    BY ZenonT(30), <1>1, <1>2, <1>5, <1>7, <2>2, <2>3
  <2>4. CASE n = y /\ c = e
    <3>1. r[c][n] = t[e][y]
      BY <1>1, <1>2, <1>4, <1>5, <2>4
    <3>2. t[e][y] # x
      <4>1. SUFFICES ASSUME t[e][y] = x PROVE FALSE
        OBVIOUS
      <4>2. Towards(e, pos[y], pos[x])
        BY <1>1, <1>2, <2>2, <4>1, ChildBeyond
      <4> QED
        BY <1>1, <1>2, <1>3, <4>2 DEF Sides, Towards
    <3>3. t[e][y] = Nil => end[e][y] = pos[y]
      BY <1>1, <1>2 DEF Laid, Children
    <3>4. t[e][y] # Nil => /\ t[e][y] \in N /\ t[e][y] # y /\ t.parent[t[e][y]] = y /\ t[d][y] # t[e][y]
                           /\ end[e][t[e][y]] = end[e][y] /\ end[d][t[e][y]] = pos[y] + Step(e)
      BY <1>1, <1>2, ChildBeyond
    <3>5. t[e][y] # Nil => r.parent[t[e][y]] = y
      BY <1>5, <3>2, <3>4 DEF b
    <3> QED
      BY <1>1, <1>2, <1>7, <2>4, <3>1, <3>2, <3>3, <3>4, <3>5
  <2>5. CASE n = x /\ c = e
    <3>1. r[c][n] = b
      BY <1>5, <2>5
    <3>2. CASE b = Nil
      <4>1. pos[x] + Step(e) = pos[y] /\ pos[x] \in Int /\ pos[y] \in Int
        BY <1>2, <1>3, <1>4, <3>2
      <4>2. pos[y] + Step(d) = pos[x]
        BY <1>1, <4>1 DEF Step, Sides, Other, e
      <4> QED
        BY <1>7, <2>5, <3>1, <3>2, <4>2
    <3>3. CASE b # Nil
      BY <1>1, <1>2, <1>4, <1>5, <1>7, <2>5, <3>1, <3>3
    <3> QED
      BY <3>2, <3>3
  <2>6. CASE n = x /\ c = d
    <3>1. r[c][n] = t[d][x]
      BY <1>1, <1>2, <1>4, <1>5, <2>6
    <3>2. t[d][x] = Nil => end[d][x] = pos[x]
      BY <1>1 DEF Laid, Children
    <3>3. t[d][x] # Nil => /\ t[d][x] \in N /\ t[d][x] # x /\ t.parent[t[d][x]] = x
                           /\ end[d][t[d][x]] = end[d][x] /\ end[e][t[d][x]] = pos[x] + Step(d)
      BY <1>1, ChildBeyond DEF e
    <3>4. t[d][x] # Nil => t[d][x] # b
      BY <1>2, <1>4, <3>3
    <3> QED
      BY ZenonT(30), <1>1, <1>2, <1>5, <1>7, <2>6, <3>1, <3>2, <3>3, <3>4
  <2>7. CASE n # x /\ n # y /\ t[c][n] = x
    <3>1. p = n
      BY <2>2, <2>7, ChildBeyond DEF p
    <3>2. r[c][n] = y /\ r.parent[y] = n
      BY <1>1, <1>2, <1>5, <2>7, <3>1
    <3>3. end[c][x] = end[c][n] /\ end[Other(c)][x] = pos[n] + Step(c)
      BY <2>2, <2>7, ChildBeyond
    <3>4. \A a \in Sides : new[a][y] = end[a][x]
      BY <1>1, <1>2, <1>7
    <3> QED
      BY <1>1, <1>7, <2>2, <2>7, <3>2, <3>3, <3>4, TwoSides
  <2>8. CASE n # x /\ n # y /\ t[c][n] # x
    <3>1. r[c][n] = t[c][n]
      BY <1>1, <1>5, <2>8
    <3>2. t[c][n] = Nil => end[c][n] = pos[n]
      BY <1>1 DEF Laid, Children
    <3>3. t[c][n] # Nil => /\ t[c][n] \in N /\ t.parent[t[c][n]] = n
                           /\ end[c][t[c][n]] = end[c][n] /\ end[Other(c)][t[c][n]] = pos[n] + Step(c)
      BY ChildBeyond
    <3>4. t[c][n] # Nil => t[c][n] # y /\ t[c][n] # b
      BY <1>2, <1>4, <2>8, <3>3
    <3>5. t[c][n] # Nil => r.parent[t[c][n]] = n
      BY <1>5, <2>8, <3>3, <3>4
    <3> QED
      BY <1>1, <1>7, <2>8, <3>1, <3>2, <3>3, <3>4, <3>5, TwoSides
  <2> QED
    BY <1>1, <2>3, <2>4, <2>5, <2>6, <2>7, <2>8
<1>10. AtRoot(r, edge, new)
  <2>1. t.root # Nil /\ t.parent[t.root] = Nil /\ \A c \in Sides : end[c][t.root] = edge[c]
    BY <1>1 DEF Laid, AtRoot
  <2>2. CASE p = Nil
    <3>1. t.root = x
      BY <1>1, <2>2 DEF Laid, Parents, p
    <3> QED
      BY <1>1, <1>2, <1>5, <1>7, <2>1, <2>2, <3>1 DEF AtRoot
  <2>3. CASE p # Nil
    <3>1. t.root \in N /\ t.root # x /\ t.root # y /\ t.root # b
      BY <1>1, <1>2, <1>4, <2>1, <2>3 DEF p
    <3> QED
      BY <1>1, <1>5, <1>7, <2>1, <2>3, <3>1 DEF AtRoot
  <2> QED
    BY <2>2, <2>3
<1>11. Parents(r)
  <2>1. SUFFICES ASSUME NEW n \in N
                 PROVE IF r.parent[n] = Nil THEN n = r.root ELSE \E c \in Sides : r[c][r.parent[n]] = n
    BY <1>1 DEF Parents
  <2>2. IF t.parent[n] = Nil THEN n = t.root ELSE \E c \in Sides : t[c][t.parent[n]] = n
    BY <1>1 DEF Laid, Parents
  <2>3. CASE n = y
    <3>1. r.parent[n] = p
      BY <1>5, <2>3
    <3>2. CASE p = Nil
      BY <1>5, <2>3, <3>1, <3>2
    <3>3. CASE p # Nil
      <4>1. PICK c \in Sides : t[c][p] = x
        BY <1>4, <3>3 DEF OneChild
      <4>2. r[c][p] = y
        BY <1>1, <1>2, <1>4, <1>5, <3>3, <4>1
      <4> QED
        BY <2>3, <3>1, <3>3, <4>2
    <3> QED
      BY <3>2, <3>3
  <2>4. CASE n = x
    BY <1>1, <1>2, <1>5, <2>4
  <2>5. CASE n # x /\ n # y /\ n = b
    BY <1>1, <1>2, <1>5, <2>5
  <2>6. CASE n # x /\ n # y /\ n # b
    <3>1. r.parent[n] = t.parent[n]
      BY <1>5, <2>6
    <3>2. CASE t.parent[n] = Nil
      <4>1. p # Nil
        BY <1>1, <2>2, <2>6, <3>2 DEF p, Laid, Parents
      <4> QED
        BY <1>5, <2>2, <3>1, <3>2, <4>1
    <3>3. CASE t.parent[n] # Nil
      <4>1. PICK c \in Sides : t[c][t.parent[n]] = n
        BY <2>2, <3>3
      <4>2. t.parent[n] \in N
        BY <1>1, <3>3
      <4>3. t.parent[n] = y => c # d
        BY <2>6, <4>1 DEF b
      <4>4. t.parent[n] = x => c # e
        BY <2>6, <4>1 DEF y
      <4>5. r[c][t.parent[n]] = n
        BY <1>1, <1>5, <2>6, <4>1, <4>2, <4>3, <4>4
      <4> QED
        BY <3>1, <3>3, <4>1, <4>5
    <3> QED
      BY <3>2, <3>3
  <2> QED
    BY <2>3, <2>4, <2>5, <2>6
<1>12. Laid(r, pos, edge, new)
  BY <1>1, <1>3, <1>6, <1>8, <1>9, <1>10, <1>11 DEF Laid
<1> QED
  BY <1>12

(* A tree with other colours has the same order. *)
LEMMA RecolourLaid ==
  ASSUME NEW N, NEW t \in Trees(N), NEW r \in Trees(N), NEW red, SameBut(r, t, red, t.parent),
         NEW pos, NEW edge, NEW end, Laid(t, pos, edge, end)
  PROVE Laid(r, pos, edge, end)
<1>1. Nodes(r) = Nodes(t)
  BY Fields
<1>2. \A d \in Sides : r[d] = t[d]
  BY DEF SameBut
<1>3. Children(r, pos, end)
  BY <1>1, <1>2 DEF Children, Laid, SameBut
<1> QED
  BY <1>1, <1>2, <1>3 DEF Laid, Ends, AtRoot, Parents, SameBut

-----------------------------------------------------------------------------
(***************************************************************************)
(* Marks: what storage.go writes back.                                     *)
(***************************************************************************)

\* Every node of r that is not marked is as it was in t, and nothing that was
\* marked is forgotten.
Marked(t, r) ==
  /\ t.dirty \subseteq r.dirty
  /\ \A n \in Nodes(t) : n \notin r.dirty => /\ \A d \in Sides : r[d][n] = t[d][n]
                                             /\ n \in r.red <=> n \in t.red

(* One change after the other. *)
LEMMA MarkedTwice ==
  ASSUME NEW N, NEW t \in Trees(N), NEW r \in Trees(N), NEW u \in Trees(N), Marked(t, r), Marked(r, u)
  PROVE Marked(t, u)
<1>1. Nodes(t) = N /\ Nodes(r) = N
  BY Fields
<1>2. \A n \in N : n \notin u.dirty => n \notin r.dirty
  BY DEF Marked
<1> QED
  BY <1>1, <1>2 DEF Marked

(* The rotations mark what they change. *)
LEMMA TurnMarked ==
  ASSUME NEW N, Nil \notin N, NEW t \in Trees(N), NEW x \in N, NEW d \in Sides, t[Other(d)][x] # Nil,
         NEW r, Turned(r, t, x, d)
  PROVE Marked(t, r)
<1>1. Nodes(t) = N /\ \A c \in Sides : c = d \/ c = Other(d)
  BY Fields, TwoSides
<1>2. \A n \in N : n \notin r.dirty => n # x /\ n # t[Other(d)][x] /\ n # t.parent[x]
  BY DEF Turned
<1>3. \A n \in N : n \notin r.dirty => r[d][n] = t[d][n] /\ r[Other(d)][n] = t[Other(d)][n]
  BY <1>1, <1>2 DEF Turned
<1> QED
  BY <1>1, <1>3 DEF Turned, Marked

(* Colours that change only where there is a mark. *)
LEMMA RecolourMarked ==
  ASSUME NEW N, NEW t \in Trees(N), NEW r, NEW red, SameBut(r, t, red, t.parent),
         t.dirty \subseteq r.dirty, \A n \in N : n \in r.dirty \/ (n \in red <=> n \in t.red)
  PROVE Marked(t, r)
BY Fields DEF Marked, SameBut

-----------------------------------------------------------------------------
(***************************************************************************)
(* Colours.                                                                *)
(***************************************************************************)

\* The number of black nodes on a way down from n, with n: h of a node.
High(h, n) == IF n = Nil THEN 0 ELSE h[n]
Even(t, h) ==
  /\ h \in [Nodes(t) -> Nat]
  /\ \A n \in Nodes(t), d \in Sides : h[n] = High(h, t[d][n]) + (IF n \in t.red THEN 0 ELSE 1)

\* No red node has a red parent and the root is black, but for z.
OneRedRed(t, z) ==
  \A n \in t.red : n # z => t.parent[n] # Nil /\ t.parent[n] \notin t.red

BlackRed(t, h, z) == Even(t, h) /\ OneRedRed(t, z)

-----------------------------------------------------------------------------
(***************************************************************************)
(* Insertion (tree.go:115-164).                                            *)
(***************************************************************************)

\* z and its parent p are on the same side d.
InLine(t, z, p, g, d) ==
  z = t[d][p] /\ p = t[d][g] /\ t.parent[z] = p /\ t.parent[p] = g

\* What Lift leaves of t.
Lifted(r, t, z, p, g, d) ==
  \E k : /\ SameBut(k, t, (t.red \ {p}) \cup {g}, t.parent) /\ k.dirty = t.dirty \cup {p, g}
         /\ k \in Trees(Nodes(t)) /\ Turned(r, k, g, Other(d))

(* The end of a round: the parent p comes up black and its parent g goes down *)
(* red.                                                                      *)
LEMMA LiftFields ==
  ASSUME NEW N, Nil \notin N, NEW t \in Trees(N), NEW pos, NEW edge, NEW end, Laid(t, pos, edge, end),
         NEW d \in Sides, NEW z \in N, NEW p \in N, NEW g \in N, InLine(t, z, p, g, d)
  PROVE LET r == Lift(t, z, d).tree IN
        /\ Lift(t, z, d).z = z /\ r \in Trees(N) /\ Lifted(r, t, z, p, g, d)
        /\ \E new : Laid(r, pos, edge, new)
        /\ Marked(t, r) /\ r.size = t.size /\ r.parent[z] = p /\ r.red = (t.red \ {p}) \cup {g}
<1> DEFINE red == (t.red \ {p}) \cup {g}
           j == [t EXCEPT !.red = red]
           k == Mark(j, {p, g})
           e == Other(d)
           r == rotate(k, g, e)
<1>1. /\ Nodes(t) = N /\ e \in Sides /\ Other(e) = d /\ t.red \subseteq N /\ z # Nil /\ p # Nil
      /\ \A c \in Sides : c = d \/ c = e
  BY Fields, TwoSides
<1>2. Lift(t, z, d).tree = r /\ Lift(t, z, d).z = z
  BY DEF Lift, InLine
<1>3. j \in Trees(N) /\ SameBut(j, t, red, t.parent) /\ j.dirty = t.dirty
  BY <1>1, ColourFields
<1> HIDE DEF j
<1>4. k \in Trees(N) /\ SameBut(k, j, j.red, j.parent) /\ k.dirty = j.dirty \cup {p, g}
  BY <1>1, <1>3, MarkFields
<1> HIDE DEF k
<1>5. SameBut(k, t, red, t.parent) /\ k.dirty = t.dirty \cup {p, g} /\ \A c \in Sides : k[c] = t[c]
  BY <1>3, <1>4 DEF SameBut
<1>6. Laid(k, pos, edge, end)
  BY <1>4, <1>5, RecolourLaid
<1>7. k[d][g] = p
  BY <1>5 DEF InLine
<1>8. CanTurn(k, g, e)
  BY <1>1, <1>4, <1>6, <1>7, TurnPossible
<1>9. r \in Trees(N) /\ Turned(r, k, g, e)
  BY <1>1, <1>4, <1>8, RotateFields
<1>10. \E new : Laid(r, pos, edge, new)
  BY <1>1, <1>4, <1>6, <1>7, <1>9, TurnLaid
<1>11. Marked(k, r)
  BY <1>1, <1>4, <1>7, <1>9, TurnMarked
<1>12. Marked(t, k)
  <2>1. SameBut(k, t, red, t.parent) /\ t.dirty \subseteq k.dirty
    BY <1>5
  <2>2. \A n \in N : n \in k.dirty \/ (n \in red <=> n \in t.red)
    BY <1>5
  <2> HIDE DEF red
  <2> QED
    BY <2>1, <2>2, RecolourMarked
<1>13. Marked(t, r)
  BY <1>4, <1>9, <1>11, <1>12, MarkedTwice
<1>14. r.parent[z] = p /\ r.size = t.size /\ r.red = red
  <2>1. z # p /\ z # g
    <3>1. z # p
      BY <1>1, ChildBeyond DEF InLine
    <3>2. z # g
      BY <1>1, <1>5, <1>7, <1>8 DEF CanTurn, InLine, SameBut
    <3> QED
      BY <3>1, <3>2
  <2>2. z # k[e][p]
    <3>1. t[e][p] # z
      BY <1>1, ChildBeyond DEF InLine
    <3> QED
      BY <1>1, <1>5, <3>1
  <2>3. k.parent[z] = p /\ Nodes(k) = N
    BY <1>4, <1>5, Fields DEF InLine, SameBut
  <2> QED
    BY <1>1, <1>5, <1>7, <1>9, <2>1, <2>2, <2>3 DEF Turned, SameBut
<1>15. Lifted(r, t, z, p, g, d)
  BY <1>1, <1>4, <1>5, <1>9 DEF Lifted
<1> HIDE DEF r
<1> QED
  BY <1>2, <1>9, <1>10, <1>13, <1>14, <1>15

(* After it there are no two red nodes in line. *)
LEMMA LiftColours ==
  ASSUME NEW N, Nil \notin N, NEW t \in Trees(N), NEW pos, NEW edge, NEW end, Laid(t, pos, edge, end),
         NEW d \in Sides, NEW z \in N, NEW p \in N, NEW g \in N, InLine(t, z, p, g, d),
         NEW r \in Trees(N), Lifted(r, t, z, p, g, d),
         NEW h, BlackRed(t, h, z), z \in t.red, p \in t.red, t[Other(d)][g] \notin t.red
  PROVE \E new : BlackRed(r, new, Nil)
<1> DEFINE e == Other(d)
           b == t[e][p]
           u == t[e][g]
           q == t.parent[g]
           new == [n \in N |-> IF n = p THEN h[g] ELSE IF n = g THEN h[p] ELSE h[n]]
<1>1. /\ Nodes(t) = N /\ Nodes(r) = N /\ e \in Sides /\ Other(e) = d /\ e # d
      /\ t.red \subseteq N /\ z # Nil /\ p # Nil /\ g # Nil
      /\ \A c \in Sides : c = d \/ c = e
      /\ b \in N \cup {Nil} /\ u \in N \cup {Nil} /\ q \in N \cup {Nil}
      /\ t.parent \in [N -> N \cup {Nil}]
  BY Fields, TwoSides
<1>2. PICK k : /\ SameBut(k, t, (t.red \ {p}) \cup {g}, t.parent)
               /\ k \in Trees(Nodes(t)) /\ Turned(r, k, g, e)
  BY DEF Lifted
<1>3. /\ p # g /\ z # p /\ z # g /\ b # z /\ b # p /\ b # g /\ u # p /\ q # p /\ q # g
      /\ t.parent[p] = g /\ t.parent[z] = p /\ t[d][g] = p /\ t[d][p] = z
      /\ \A c \in Sides : t[c][p] # g
  <2>1. t.parent[p] = g /\ t.parent[z] = p /\ t[d][g] = p /\ t[d][p] = z
    BY DEF InLine
  <2>2. CanTurn(t, g, e)
    BY <1>1, <2>1, TurnPossible
  <2>3. z # p /\ b # z
    BY <1>1, <2>1, ChildBeyond
  <2>4. z # g
    BY <2>1, <2>2, <1>1 DEF CanTurn
  <2> QED
    BY <1>1, <2>1, <2>2, <2>3, <2>4 DEF CanTurn
<1>4. g \notin t.red
  BY <1>1, <1>3 DEF BlackRed, OneRedRed
<1>5. b \notin t.red
  <2>1. b # Nil => t.parent[b] = p
    BY <1>1, ChildBeyond
  <2> QED
    BY <1>1, <1>3, <2>1 DEF BlackRed, OneRedRed
<1>6. /\ r.red = (t.red \ {p}) \cup {g}
      /\ r.root = IF q = Nil THEN p ELSE t.root
      /\ r.parent = [m \in N |-> IF m = p THEN q ELSE IF m = g THEN p ELSE IF m = b THEN g ELSE t.parent[m]]
      /\ r[e] = [m \in N |-> IF m = p THEN g ELSE IF m = q /\ t[e][q] = g THEN p ELSE t[e][m]]
      /\ r[d] = [m \in N |-> IF m = g THEN b ELSE IF m = q /\ t[d][q] = g THEN p ELSE t[d][m]]
  <2>1. Nodes(k) = N /\ k.root = t.root /\ k.parent = t.parent /\ k[d] = t[d] /\ k[e] = t[e]
        /\ k.red = (t.red \ {p}) \cup {g}
    BY <1>1, <1>2, Fields DEF SameBut
  <2> QED
    BY <1>1, <1>2, <1>3, <2>1 DEF Turned
<1>7. /\ h \in [N -> Nat]
      /\ \A n \in N, c \in Sides : h[n] = High(h, t[c][n]) + (IF n \in t.red THEN 0 ELSE 1)
  BY <1>1 DEF BlackRed, Even
<1>8. h[g] = h[p] + 1 /\ High(h, u) = h[p] /\ High(h, b) = h[p] /\ h[z] = h[p]
  <2>1. h[p] = High(h, b) + 0 /\ h[p] = High(h, z) + 0
    BY <1>1, <1>3, <1>7
  <2>2. h[g] = High(h, u) + 1 /\ h[g] = High(h, p) + 1
    BY <1>1, <1>3, <1>4, <1>7
  <2>3. h[p] \in Nat /\ h[g] \in Nat /\ h[z] \in Nat /\ High(h, b) \in Nat /\ High(h, u) \in Nat
    BY <1>1, <1>7 DEF High
  <2>4. High(h, p) = h[p] /\ High(h, z) = h[z]
    BY <1>1 DEF High
  <2> QED
    BY <2>1, <2>2, <2>3, <2>4
<1> HIDE DEF b, u, q, e
<1>9. new \in [N -> Nat] /\ new[p] = h[g] /\ new[g] = h[p] /\ new[z] = h[z]
      /\ \A n \in N : n # p /\ n # g => new[n] = h[n]
  BY <1>3, <1>7
<1> HIDE DEF new
<1>10. \A m \in N \cup {Nil} : m # p /\ m # g => High(new, m) = High(h, m)
  BY <1>9 DEF High
<1>11. ASSUME NEW n \in N, NEW c \in Sides
       PROVE new[n] = High(new, r[c][n]) + (IF n \in r.red THEN 0 ELSE 1)
  <2>1. CASE n = p
    <3>1. n \notin r.red
      BY <1>3, <1>6, <2>1
    <3>2. CASE c = e
      <4>1. r[c][n] = g
        BY <1>6, <2>1, <3>2
      <4> QED
        BY <1>1, <1>8, <1>9, <2>1, <3>1, <4>1 DEF High
    <3>3. CASE c = d
      <4>1. r[c][n] = z
        BY <1>3, <1>6, <2>1, <3>3
      <4> QED
        BY <1>1, <1>8, <1>9, <2>1, <3>1, <4>1 DEF High
    <3> QED
      BY <1>1, <3>2, <3>3
  <2>2. CASE n = g
    <3>1. n \in r.red
      BY <1>6, <2>2
    <3>2. CASE c = e
      <4>1. r[c][n] = u
        BY <1>3, <1>6, <2>2, <3>2 DEF u
      <4>2. u # g
        BY <1>1, <1>3, ChildBeyond DEF u
      <4>3. High(new, u) = h[p]
        BY <1>1, <1>3, <1>8, <1>10, <4>2
      <4> QED
        BY <1>7, <1>9, <2>2, <3>1, <4>1, <4>3
    <3>3. CASE c = d
      <4>1. r[c][n] = b
        BY <1>3, <1>6, <2>2, <3>3
      <4>2. High(new, b) = h[p]
        BY <1>1, <1>3, <1>8, <1>10
      <4> QED
        BY <1>7, <1>9, <2>2, <3>1, <4>1, <4>2
    <3> QED
      BY <1>1, <3>2, <3>3
  <2>3. CASE n # p /\ n # g /\ t[c][n] = g
    <3>1. t.parent[g] = n
      BY <1>1, <2>3, ChildBeyond
    <3>2. r[c][n] = p
      BY <1>1, <1>6, <2>3, <3>1 DEF q
    <3>3. n \in r.red <=> n \in t.red
      BY <1>6, <2>3
    <3>4. h[n] = High(h, g) + (IF n \in t.red THEN 0 ELSE 1)
      BY <1>7, <2>3
    <3> QED
      BY <1>1, <1>9, <2>3, <3>2, <3>3, <3>4 DEF High
  <2>4. CASE n # p /\ n # g /\ t[c][n] # g
    <3>1. r[c][n] = t[c][n]
      BY <1>1, <1>6, <2>4
    <3>2. t[c][n] # p
      <4>1. t[c][n] = p => t.parent[p] = n
        BY <1>1, ChildBeyond
      <4> QED
        BY <1>3, <2>4, <4>1
    <3>3. n \in r.red <=> n \in t.red
      BY <1>6, <2>4
    <3>4. t[c][n] \in N \cup {Nil}
      BY Fields
    <3> QED
      BY <1>7, <1>9, <1>10, <2>4, <3>1, <3>2, <3>3, <3>4
  <2> QED
    BY <2>1, <2>2, <2>3, <2>4
<1>12. Even(r, new)
  BY <1>1, <1>9, <1>11 DEF Even
<1>13. ASSUME NEW n \in r.red, n # Nil PROVE r.parent[n] # Nil /\ r.parent[n] \notin r.red
  <2>1. n \in N /\ n # p
    BY <1>1, <1>3, <1>6
  <2>2. CASE n = g
    BY <1>1, <1>3, <1>6, <2>2
  <2>3. CASE n = z
    BY <1>1, <1>3, <1>6, <2>3
  <2>4. CASE n # g /\ n # z
    <3>1. n \in t.red /\ n # b
      BY <1>5, <1>6, <2>4
    <3>2. t.parent[n] # Nil /\ t.parent[n] \notin t.red
      BY <2>4, <3>1 DEF BlackRed, OneRedRed
    <3>3. r.parent[n] = t.parent[n]
      BY <1>6, <2>1, <2>4, <3>1
    <3>4. t.parent[n] # g
      <4>1. t.parent[n] = g => \E c \in Sides : t[c][g] = n
        BY <1>1, <2>1, <3>2 DEF Laid, Parents
      <4> QED
        BY <1>1, <1>3, <2>1, <3>1, <4>1 DEF u, e
    <3> QED
      BY <1>6, <3>2, <3>3, <3>4
  <2> QED
    BY <2>2, <2>3, <2>4
<1> QED
  BY <1>12, <1>13 DEF BlackRed, OneRedRed

-----------------------------------------------------------------------------
(* The side p is on and the sibling y of p, where z and its red parent p are  *)
(* out of order.                                                             *)
SideOf(t, p, g) == IF p = t.left[g] THEN "left" ELSE "right"

\* z is a red node's child at a depth where a round is possible.
Deep(t, z, p, g) ==
  t.parent[z] = p /\ p # Nil /\ t.parent[p] = g /\ g # Nil

(* What is around z. *)
LEMMA Around ==
  ASSUME NEW N, Nil \notin N, NEW t \in Trees(N), NEW pos, NEW edge, NEW end, Laid(t, pos, edge, end),
         NEW z \in N, NEW p, NEW g, Deep(t, z, p, g), NEW d, d = SideOf(t, p, g)
  PROVE /\ p \in N /\ g \in N /\ d \in Sides /\ t[d][g] = p /\ t[Other(d)][g] # p /\ t[Other(d)][g] \in N \cup {Nil}
        /\ z # p /\ p # g /\ z # g
        /\ \E c \in Sides : t[c][p] = z /\ t[Other(c)][p] # z
<1>1. p \in N /\ g \in N /\ Nodes(t) = N
  BY Fields DEF Deep
<1>2. PICK a \in Sides : t[a][g] = p /\ t[Other(a)][g] # p
  BY <1>1, OneParent DEF Deep, OneChild
<1>3. PICK c \in Sides : t[c][p] = z /\ t[Other(c)][p] # z
  BY <1>1, OneParent DEF Deep, OneChild
<1>4. a = d
  BY <1>2 DEF SideOf, Sides, Other
<1>5. p # g /\ z # p
  BY <1>1, OneParent DEF Deep
<1>6. z # g
  <2>1. SUFFICES ASSUME z = g PROVE FALSE
    OBVIOUS
  <2>2. CanTurn(t, g, Other(d))
    BY <1>1, <1>2, <1>4, TwoSides, TurnPossible
  <2> QED
    BY <1>2, <1>4, <2>1, <2>2, TwoSides DEF CanTurn, Deep
<1>7. t[Other(d)][g] \in N \cup {Nil}
  BY <1>1, <1>2, <1>4, Fields, TwoSides
<1> QED
  BY <1>1, <1>2, <1>3, <1>4, <1>5, <1>6, <1>7

Width(end, n) == end["right"][n] - end["left"][n]

(* The nodes under a child are fewer. *)
LEMMA ChildWidth ==
  ASSUME NEW N, Nil \notin N, NEW t \in Trees(N), NEW pos, NEW edge, NEW end, Laid(t, pos, edge, end),
         NEW n \in N, NEW d \in Sides, NEW m \in N, t[d][n] = m
  PROVE Width(end, m) \in Int /\ Width(end, n) \in Int /\ Width(end, m) < Width(end, n)
<1>1. /\ m # n /\ end[d][m] = end[d][n] /\ end[Other(d)][m] = pos[n] + Step(d)
  BY ChildBeyond
<1>2. Nodes(t) = N /\ Other(d) \in Sides
  BY Fields, TwoSides
<1>3. Towards(Other(d), pos[n], end[Other(d)][n])
  BY <1>2 DEF Laid, Ends
<1>4. pos[n] \in Int /\ \A a \in Sides : end[a][n] \in Int /\ end[a][m] \in Int
  BY <1>2 DEF Laid
<1>5. CASE d = "left"
  BY <1>1, <1>2, <1>3, <1>4, <1>5 DEF Width, Sides, Other, Step, Towards
<1>6. CASE d = "right"
  BY <1>1, <1>2, <1>3, <1>4, <1>6 DEF Width, Sides, Other, Step, Towards
<1> QED
  BY <1>5, <1>6 DEF Sides

(* The first case: the sibling of p is red. *)
LEMMA RecolourRound ==
  ASSUME NEW N, Nil \notin N, NEW t \in Trees(N), NEW pos, NEW edge, NEW end, Laid(t, pos, edge, end),
         NEW z \in N, NEW p, NEW g, Deep(t, z, p, g),
         NEW y, y = t[Other(SideOf(t, p, g))][g], y # Nil, y \in t.red
  PROVE LET r == InsertRound(t, z) IN
        /\ r = [tree |-> r.tree, z |-> g] /\ g \in N /\ r.tree \in Trees(N)
        /\ Laid(r.tree, pos, edge, end) /\ Marked(t, r.tree) /\ r.tree.size = t.size
        /\ Width(end, z) < Width(end, g) /\ Width(end, z) \in Int /\ Width(end, g) \in Int
        /\ \A h : BlackRed(t, h, z) /\ p \in t.red => g \in r.tree.red /\ \E new : BlackRed(r.tree, new, g)
<1> DEFINE d == SideOf(t, p, g)
           red == (t.red \ {p, y}) \cup {g}
           j == [t EXCEPT !.red = red]
           k == Mark(j, {p, y, g})
<1>1. /\ p \in N /\ g \in N /\ d \in Sides /\ t[d][g] = p /\ t[Other(d)][g] # p
      /\ z # p /\ p # g /\ z # g /\ \E c \in Sides : t[c][p] = z
  BY Around
<1>2. InsertRound(t, z) = [tree |-> k, z |-> g]
  BY DEF InsertRound, IsRed, Deep, SideOf
<1>3. Nodes(t) = N /\ y \in N /\ Other(d) \in Sides /\ t.red \subseteq N
  BY <1>1, Fields, TwoSides
<1>4. j \in Trees(N) /\ SameBut(j, t, red, t.parent) /\ j.dirty = t.dirty
  BY <1>1, <1>3, ColourFields
<1> HIDE DEF j, d
<1>5. k \in Trees(N) /\ SameBut(k, j, j.red, j.parent) /\ k.dirty = j.dirty \cup {p, y, g}
  BY <1>1, <1>3, <1>4, MarkFields
<1> HIDE DEF k
<1>6. SameBut(k, t, red, t.parent) /\ k.dirty = t.dirty \cup {p, y, g} /\ \A c \in Sides : k[c] = t[c]
  BY <1>4, <1>5 DEF SameBut
<1>7. Laid(k, pos, edge, end)
  BY <1>5, <1>6, RecolourLaid
<1>8. Marked(t, k)
  <2>1. t.dirty \subseteq k.dirty
    BY <1>6
  <2>2. \A n \in N : n \in k.dirty \/ (n \in red <=> n \in t.red)
    BY <1>6
  <2> HIDE DEF red
  <2> QED
    BY <1>6, <2>1, <2>2, RecolourMarked
<1>9. Width(end, z) < Width(end, g) /\ Width(end, z) \in Int /\ Width(end, g) \in Int
  <2>1. Width(end, z) \in Int /\ Width(end, p) \in Int /\ Width(end, z) < Width(end, p)
    BY <1>1, ChildWidth
  <2>2. Width(end, g) \in Int /\ Width(end, p) < Width(end, g)
    BY <1>1, ChildWidth
  <2> QED
    BY <2>1, <2>2
<1>10. ASSUME NEW h, BlackRed(t, h, z), p \in t.red
       PROVE g \in k.red /\ \E new : BlackRed(k, new, g)
  <2> DEFINE new == [n \in N |-> IF n = p \/ n = y THEN h[n] + 1 ELSE h[n]]
  <2>1. Nodes(k) = N /\ k.red = red /\ k.parent = t.parent
    BY <1>5, <1>6, Fields DEF SameBut
  <2>2. /\ h \in [N -> Nat]
        /\ \A n \in N, c \in Sides : h[n] = High(h, t[c][n]) + (IF n \in t.red THEN 0 ELSE 1)
    BY <1>3, <1>10 DEF BlackRed, Even
  <2>3. y # g /\ t.parent[y] = g /\ t.parent[p] = g
    BY <1>1, <1>3, ChildBeyond DEF Deep, d
  <2>4. new \in [N -> Nat]
    BY <2>2
  <2>5. ASSUME NEW n \in N, NEW c \in Sides, n # g
        PROVE new[n] = High(new, t[c][n]) + (IF n \in red THEN 0 ELSE 1)
    <3>1. t[c][n] # Nil => t[c][n] \in N /\ t.parent[t[c][n]] = n
      BY ChildBeyond
    <3>2. t[c][n] # p /\ t[c][n] # y
      BY <1>1, <1>3, <2>3, <2>5, <3>1
    <3>3. High(new, t[c][n]) = High(h, t[c][n])
      BY <3>1, <3>2 DEF High
    <3>4. h[n] = High(h, t[c][n]) + (IF n \in t.red THEN 0 ELSE 1) /\ High(h, t[c][n]) \in Nat
      BY <2>2, <3>1 DEF High
    <3> QED
      BY <1>3, <1>10, <2>2, <2>5, <3>3, <3>4
  <2>6. g \notin t.red
    BY <1>1, <1>10 DEF BlackRed, OneRedRed, Deep
  <2>7. ASSUME NEW c \in Sides
        PROVE new[g] = High(new, t[c][g]) + (IF g \in red THEN 0 ELSE 1)
    <3>1. t[c][g] \in {p, y}
      BY <1>1, <1>3, TwoSides DEF d
    <3>2. h[g] = High(h, t[c][g]) + 1
      BY <1>1, <2>2, <2>6
    <3> QED
      BY <1>1, <1>3, <2>2, <2>3, <3>1, <3>2 DEF High
  <2>8. Even(k, new)
    <3> HIDE DEF red, new
    <3>1. \A c \in Sides : \A n \in N : k[c][n] = t[c][n]
      BY <1>6
    <3> QED
      BY <2>1, <2>4, <2>5, <2>7, <3>1 DEF Even
  <2>9. ASSUME NEW n \in red, n # g PROVE t.parent[n] # Nil /\ t.parent[n] \notin red
    <3>1. n \in N /\ n \in t.red /\ n # p /\ n # y
      BY <1>3, <2>9
    <3>2. CASE n = z
      BY <1>1, <3>2 DEF Deep
    <3>3. CASE n # z
      <4>1. t.parent[n] # Nil /\ t.parent[n] \notin t.red
        BY <1>10, <3>1, <3>3 DEF BlackRed, OneRedRed
      <4>2. t.parent[n] # g
        <5>1. t.parent[n] = g => \E c \in Sides : t[c][g] = n
          BY <1>3, <3>1, <4>1 DEF Laid, Parents
        <5> QED
          BY <1>1, <1>3, <3>1, <5>1, TwoSides DEF d
      <4> QED
        BY <4>1, <4>2
    <3> QED
      BY <3>2, <3>3
  <2>10. OneRedRed(k, g)
    BY <2>1, <2>9 DEF OneRedRed
  <2> HIDE DEF new
  <2> QED
    BY <2>1, <2>8, <2>10 DEF BlackRed
<1> QED
  BY <1>1, <1>2, <1>5, <1>6, <1>7, <1>8, <1>9, <1>10 DEF SameBut

\* What a round that turns the tree leaves: z under a black parent.
RoundEnds(t, z, p, r, n, pos, edge) ==
  /\ r = [tree |-> r.tree, z |-> n] /\ r.tree \in Trees(Nodes(t)) /\ n \in Nodes(t)
  /\ \E new : Laid(r.tree, pos, edge, new)
  /\ Marked(t, r.tree) /\ r.tree.size = t.size
  /\ r.tree.parent[n] \notin r.tree.red
  /\ (\E h : BlackRed(t, h, z)) /\ p \in t.red /\ z \in t.red => \E new : BlackRed(r.tree, new, Nil)

(* The last case: z is on the side p is on. *)
LEMMA OuterRound ==
  ASSUME NEW N, Nil \notin N, NEW t \in Trees(N), NEW pos, NEW edge, NEW end, Laid(t, pos, edge, end),
         NEW z \in N, NEW p, NEW g, Deep(t, z, p, g), NEW d, d = SideOf(t, p, g),
         t[Other(d)][g] \notin t.red, z # t[Other(d)][p]
  PROVE RoundEnds(t, z, p, InsertRound(t, z), z, pos, edge)
<1> DEFINE r == Lift(t, z, d)
<1>1. /\ p \in N /\ g \in N /\ d \in Sides /\ t[d][g] = p /\ t[Other(d)][g] # p
      /\ z # p /\ p # g /\ z # g /\ \E c \in Sides : t[c][p] = z
  BY Around
<1>2. InsertRound(t, z) = r
  BY DEF InsertRound, IsRed, Deep, SideOf
<1>3. InLine(t, z, p, g, d) /\ Nodes(t) = N
  BY <1>1, Fields, TwoSides DEF InLine, Deep
<1>4. /\ r.z = z /\ r.tree \in Trees(N) /\ Lifted(r.tree, t, z, p, g, d)
      /\ \E new : Laid(r.tree, pos, edge, new)
      /\ Marked(t, r.tree) /\ r.tree.size = t.size /\ r.tree.parent[z] = p /\ r.tree.red = (t.red \ {p}) \cup {g}
  BY <1>1, <1>3, LiftFields
<1>5. r = [tree |-> r.tree, z |-> z]
  BY DEF Lift
<1> HIDE DEF r
<1>6. r.tree.parent[z] \notin r.tree.red
  BY <1>1, <1>4
<1>7. ASSUME NEW h, BlackRed(t, h, z), p \in t.red, z \in t.red
      PROVE \E new : BlackRed(r.tree, new, Nil)
  BY <1>1, <1>3, <1>4, <1>7, LiftColours
<1> QED
  BY <1>2, <1>3, <1>4, <1>5, <1>6, <1>7 DEF RoundEnds

(* The second case, of z on the other side: the tree is turned so that z is    *)
(* on the side p is on, and z and p change parts.                              *)
LEMMA InnerTurn ==
  ASSUME NEW N, Nil \notin N, NEW t \in Trees(N), NEW pos, NEW edge, NEW end, Laid(t, pos, edge, end),
         NEW z \in N, NEW p, NEW g, Deep(t, z, p, g), NEW d, d = SideOf(t, p, g),
         z = t[Other(d)][p]
  PROVE LET r == rotate(t, p, d) IN
        /\ r \in Trees(N) /\ \E new : Laid(r, pos, edge, new)
        /\ Marked(t, r) /\ r.size = t.size /\ InLine(r, p, z, g, d) /\ r.red = t.red
        /\ r[Other(d)][g] = t[Other(d)][g]
        /\ \A h : BlackRed(t, h, z) /\ p \in t.red /\ z \in t.red => BlackRed(r, h, p)
<1> DEFINE r == rotate(t, p, d)
           e == Other(d)
           b == t[d][z]
<1>1. /\ p \in N /\ g \in N /\ d \in Sides /\ t[d][g] = p /\ t[e][g] # p
      /\ z # p /\ p # g /\ z # g /\ e \in Sides /\ e # d /\ \A c \in Sides : c = d \/ c = e
      /\ t.parent[p] = g /\ t.parent[z] = p /\ z # Nil /\ p # Nil /\ g # Nil /\ Nodes(t) = N
  BY Around, Fields, TwoSides DEF Deep
<1>2. CanTurn(t, p, d)
  BY <1>1, TurnPossible
<1>3. r \in Trees(N) /\ Turned(r, t, p, d)
  BY <1>1, <1>2, RotateFields
<1>4. \E new : Laid(r, pos, edge, new)
  BY <1>1, <1>3, TurnLaid
<1>5. Marked(t, r)
  BY <1>1, <1>3, TurnMarked
<1>6. b # p /\ b # z /\ b \in N \cup {Nil} /\ (b # Nil => t.parent[b] = z)
  <2>1. b # Nil => t.parent[b] = z
    BY <1>1, ChildBeyond
  <2> QED
    BY <1>1, <1>2, <2>1, Fields DEF CanTurn
<1> HIDE DEF r
<1>7. /\ r.size = t.size /\ r.red = t.red
      /\ r.parent = [m \in N |-> IF m = z THEN g ELSE IF m = p THEN z ELSE IF m = b THEN p ELSE t.parent[m]]
      /\ r[d] = [m \in N |-> IF m = z THEN p ELSE IF m = g THEN z ELSE t[d][m]]
      /\ r[e] = [m \in N |-> IF m = p THEN b ELSE t[e][m]]
  <2>1. r.size = t.size /\ r.red = t.red
    BY <1>3 DEF Turned
  <2>2. r.parent = [m \in N |-> IF m = z THEN g ELSE IF m = p THEN z ELSE IF m = b THEN p ELSE t.parent[m]]
    BY <1>1, <1>3 DEF Turned
  <2>3. r[d] = [m \in N |-> IF m = z THEN p ELSE IF m = g THEN z ELSE t[d][m]]
    BY <1>1, <1>3 DEF Turned
  <2>4. r[e] = [m \in N |-> IF m = p THEN b ELSE t[e][m]]
    BY <1>1, <1>3 DEF Turned
  <2> QED
    BY <2>1, <2>2, <2>3, <2>4
<1>8. InLine(r, p, z, g, d)
  BY <1>1, <1>7 DEF InLine
<1>9. r[e][g] = t[e][g]
  BY <1>1, <1>7
<1>10. ASSUME NEW h, BlackRed(t, h, z), p \in t.red, z \in t.red
       PROVE BlackRed(r, h, p)
  <2>1. /\ h \in [N -> Nat]
        /\ \A n \in N, c \in Sides : h[n] = High(h, t[c][n]) + (IF n \in t.red THEN 0 ELSE 1)
    BY <1>1, <1>10 DEF BlackRed, Even
  <2>2. h[p] = h[z] /\ High(h, b) = h[z] /\ High(h, z) = h[z] /\ High(h, p) = h[p]
    <3>1. High(h, z) = h[z] /\ High(h, p) = h[p] /\ High(h, b) \in Nat
      BY <1>1, <1>6, <2>1 DEF High
    <3>2. h[p] = High(h, z) + 0 /\ h[z] = High(h, b) + 0
      BY <1>1, <1>10, <2>1
    <3> QED
      BY <1>1, <2>1, <3>1, <3>2
  <2>3. ASSUME NEW n \in N, NEW c \in Sides
        PROVE h[n] = High(h, r[c][n]) + (IF n \in r.red THEN 0 ELSE 1)
    <3>1. h[n] = High(h, t[c][n]) + (IF n \in t.red THEN 0 ELSE 1)
      BY <2>1
    <3>2. High(h, r[c][n]) = High(h, t[c][n])
      <4>1. CASE n = z /\ c = d
        BY <1>7, <2>2, <4>1
      <4>2. CASE n = g /\ c = d
        BY <1>1, <1>7, <2>2, <4>2
      <4>3. CASE n = p /\ c = e
        BY <1>1, <1>7, <2>2, <4>3
      <4>4. CASE ~(n = z /\ c = d) /\ ~(n = g /\ c = d) /\ ~(n = p /\ c = e)
        BY <1>1, <1>7, <4>4
      <4> QED
        BY <4>1, <4>2, <4>3, <4>4
    <3> QED
      BY <1>7, <3>1, <3>2
  <2>4. Even(r, h)
    BY <1>3, <2>1, <2>3, Fields DEF Even
  <2>5. ASSUME NEW n \in r.red, n # p PROVE r.parent[n] # Nil /\ r.parent[n] \notin r.red
    <3>1. n \in N /\ n \in t.red
      BY <1>3, <1>7, Fields
    <3>2. CASE n = z
      <4>1. g \notin t.red
        BY <1>1, <1>10 DEF BlackRed, OneRedRed
      <4> QED
        BY <1>1, <1>7, <3>2, <4>1
    <3>3. CASE n # z
      <4>1. t.parent[n] # Nil /\ t.parent[n] \notin t.red
        BY <1>10, <3>1, <3>3 DEF BlackRed, OneRedRed
      <4>2. n # b
        BY <1>1, <1>6, <1>10, <3>1, <4>1
      <4> QED
        BY <1>7, <2>5, <3>1, <3>3, <4>1, <4>2
    <3> QED
      BY <3>2, <3>3
  <2> QED
    BY <2>4, <2>5 DEF BlackRed, OneRedRed
<1> QED
  BY <1>3, <1>4, <1>5, <1>7, <1>8, <1>9, <1>10 DEF r

(* The second case and the last. *)
LEMMA InnerRound ==
  ASSUME NEW N, Nil \notin N, NEW t \in Trees(N), NEW pos, NEW edge, NEW end, Laid(t, pos, edge, end),
         NEW z \in N, NEW p, NEW g, Deep(t, z, p, g), NEW d, d = SideOf(t, p, g),
         t[Other(d)][g] \notin t.red, z = t[Other(d)][p]
  PROVE RoundEnds(t, z, p, InsertRound(t, z), p, pos, edge)
<1> DEFINE u == rotate(t, p, d)
           r == Lift(u, p, d)
<1>1. p \in N /\ g \in N /\ d \in Sides /\ z # g /\ Nodes(t) = N
  BY Around, Fields
<1>2. InsertRound(t, z) = r
  BY DEF InsertRound, IsRed, Deep, SideOf
<1>3. /\ u \in Trees(N) /\ \E new : Laid(u, pos, edge, new)
      /\ Marked(t, u) /\ u.size = t.size /\ InLine(u, p, z, g, d) /\ u.red = t.red
      /\ u[Other(d)][g] = t[Other(d)][g]
      /\ \A h : BlackRed(t, h, z) /\ p \in t.red /\ z \in t.red => BlackRed(u, h, p)
  BY InnerTurn
<1>4. PICK new : Laid(u, pos, edge, new)
  BY <1>3
<1>5. r = [tree |-> r.tree, z |-> p]
  BY DEF Lift
<1> HIDE DEF u
<1>6. /\ r.z = p /\ r.tree \in Trees(N) /\ Lifted(r.tree, u, p, z, g, d)
      /\ \E last : Laid(r.tree, pos, edge, last)
      /\ Marked(u, r.tree) /\ r.tree.size = u.size /\ r.tree.parent[p] = z /\ r.tree.red = (u.red \ {z}) \cup {g}
  BY <1>1, <1>3, <1>4, LiftFields
<1> HIDE DEF r
<1>7. r.tree.parent[p] \notin r.tree.red
  BY <1>1, <1>6
<1>8. ASSUME NEW h, BlackRed(t, h, z), p \in t.red, z \in t.red
      PROVE \E last : BlackRed(r.tree, last, Nil)
  <2>1. BlackRed(u, h, p) /\ p \in u.red /\ z \in u.red /\ u[Other(d)][g] \notin u.red
    BY <1>3, <1>8
  <2> QED
    BY <1>1, <1>3, <1>4, <1>6, <2>1, LiftColours
<1>9. Marked(t, r.tree)
  BY <1>3, <1>6, MarkedTwice
<1> QED
  BY <1>1, <1>2, <1>3, <1>5, <1>6, <1>7, <1>8, <1>9 DEF RoundEnds

-----------------------------------------------------------------------------
(* rbInsertFixup as a loop.                                                  *)
ILoop(N) == [tree : Trees(N), z : N]
IRound(N) == [l \in ILoop(N) |-> InsertRound(l.tree, l.z)]
IStops(l) == l.tree.parent[l.z] = Nil \/ l.tree.parent[l.z] \notin l.tree.red
IDone(N) == {l \in ILoop(N) : \/ IStops(l)
                              \/ l.tree.parent[l.tree.parent[l.z]] = Nil
                              \/ IRound(N)[l] \notin ILoop(N)}
RootBlack(t) == Mark(Colour(t, t.root, FALSE), {t.root})
IBase(N) == [l \in ILoop(N) |-> IF IStops(l) THEN RootBlack(l.tree) ELSE NilPointer]

(* rbInsertFixup is that loop.                                               *)
LEMMA InsertLoop ==
  ASSUME NEW N, NEW t \in Trees(N), NEW z \in N
  PROVE \E f : /\ IsLoop(f, ILoop(N), IDone(N), IBase(N), IRound(N))
               /\ rbInsertFixup(t, z) = f[[tree |-> t, z |-> z]]
<1> DEFINE F(f) == f = [l \in ILoop(N) |->
                          IF IStops(l) THEN RootBlack(l.tree)
                          ELSE IF l.tree.parent[l.tree.parent[l.z]] = Nil \/ InsertRound(l.tree, l.z) \notin ILoop(N)
                          THEN NilPointer ELSE f[InsertRound(l.tree, l.z)]]
<1>1. ASSUME NEW f PROVE IsLoop(f, ILoop(N), IDone(N), IBase(N), IRound(N)) <=> F(f)
  <2>1. \A l \in ILoop(N) :
          (IF l \in IDone(N) THEN IBase(N)[l] ELSE f[IRound(N)[l]]) =
          (IF IStops(l) THEN RootBlack(l.tree)
           ELSE IF l.tree.parent[l.tree.parent[l.z]] = Nil \/ InsertRound(l.tree, l.z) \notin ILoop(N)
           THEN NilPointer ELSE f[InsertRound(l.tree, l.z)])
    BY DEF IDone, IBase, IRound
  <2> QED
    BY <2>1 DEF IsLoop
<1>2. \A l \in ILoop(N) : l \notin IDone(N) => IRound(N)[l] \in ILoop(N)
  BY DEF IDone
<1>3. \E f : IsLoop(f, ILoop(N), IDone(N), IBase(N), IRound(N))
  BY <1>2, LoopExists
<1>4. F(CHOOSE f : F(f))
  <2> HIDE DEF F
  <2> QED
    BY <1>1, <1>3
<1>5. Nodes(t) = N
  BY Fields
<1>6. rbInsertFixup(t, z) = (CHOOSE f : F(f))[[tree |-> t, z |-> z]]
  BY <1>5 DEF rbInsertFixup, ILoop, IStops, RootBlack, IsRed
<1> QED
  <2> HIDE DEF F
  <2> QED
    BY <1>1, <1>4, <1>6

\* The order of the tree is kept, and what changed since t0 is marked.
Kept(t, t0, pos, edge) ==
  /\ t \in Trees(Nodes(t0)) /\ Marked(t0, t) /\ t.size = t0.size
  /\ \E end : Laid(t, pos, edge, end)

(* The root is made black. *)
LEMMA RootBlackFields ==
  ASSUME NEW N, Nil \notin N, NEW t \in Trees(N), NEW pos, NEW edge, NEW end, Laid(t, pos, edge, end),
         N # {}
  PROVE LET r == RootBlack(t) IN
        /\ r \in Trees(N) /\ Laid(r, pos, edge, end) /\ Marked(t, r) /\ r.size = t.size
        /\ r.root = t.root /\ r.red = t.red \ {t.root} /\ r.root # Nil
<1> DEFINE red == t.red \ {t.root}
           j == [t EXCEPT !.red = red]
           k == Mark(j, {t.root})
<1>1. Nodes(t) = N /\ t.red \subseteq N /\ t.root \in N /\ t.root # Nil
  BY Fields DEF Laid, AtRoot
<1>2. RootBlack(t) = k
  BY DEF RootBlack, Colour
<1>3. j \in Trees(N) /\ SameBut(j, t, red, t.parent) /\ j.dirty = t.dirty
  BY <1>1, ColourFields
<1> HIDE DEF j
<1>4. k \in Trees(N) /\ SameBut(k, j, j.red, j.parent) /\ k.dirty = j.dirty \cup {t.root}
  BY <1>1, <1>3, MarkFields
<1> HIDE DEF k
<1>5. SameBut(k, t, red, t.parent) /\ k.dirty = t.dirty \cup {t.root}
  BY <1>3, <1>4 DEF SameBut
<1>6. Laid(k, pos, edge, end)
  BY <1>4, <1>5, RecolourLaid
<1>7. Marked(t, k)
  <2>1. t.dirty \subseteq k.dirty
    BY <1>5
  <2>2. \A n \in N : n \in k.dirty \/ (n \in red <=> n \in t.red)
    BY <1>5
  <2> HIDE DEF red
  <2> QED
    BY <1>5, <2>1, <2>2, RecolourMarked
<1> QED
  BY <1>1, <1>2, <1>4, <1>5, <1>6, <1>7 DEF SameBut

(* With a black root the colours are those of a red-black tree.              *)
LEMMA RootBlackColours ==
  ASSUME NEW N, Nil \notin N, NEW t \in Trees(N), NEW pos, NEW edge, NEW end, Laid(t, pos, edge, end),
         N # {}, NEW z, NEW h, BlackRed(t, h, z),
         (t.parent[z] = Nil /\ z \in N) \/ (t.parent[z] \notin t.red /\ t.parent[z] # Nil)
  PROVE \E new : BlackRed(RootBlack(t), new, Nil)
<1> DEFINE r == RootBlack(t)
           a == t.root
           new == [n \in N |-> IF n = a THEN High(h, t["left"][a]) + 1 ELSE h[n]]
<1>1. /\ r \in Trees(N) /\ Laid(r, pos, edge, end) /\ r.root = a /\ r.red = t.red \ {a} /\ r.root # Nil
  BY RootBlackFields
<1>2. Nodes(t) = N /\ Nodes(r) = N /\ a \in N /\ t.parent[a] = Nil /\ "left" \in Sides
  BY <1>1, Fields DEF Laid, AtRoot, Sides
<1>3. /\ r.parent = t.parent /\ \A c \in Sides : r[c] = t[c]
  BY DEF RootBlack, Colour, Mark, Sides
<1> HIDE DEF r
<1>4. /\ h \in [N -> Nat]
      /\ \A n \in N, c \in Sides : h[n] = High(h, t[c][n]) + (IF n \in t.red THEN 0 ELSE 1)
  BY <1>2 DEF BlackRed, Even
<1>5. \A n \in N, c \in Sides : t[c][n] \in N \cup {Nil} /\ t[c][n] # a
  <2>1. SUFFICES ASSUME NEW n \in N, NEW c \in Sides PROVE t[c][n] \in N \cup {Nil} /\ t[c][n] # a
    OBVIOUS
  <2>2. t[c][n] # Nil => t[c][n] \in N /\ t.parent[t[c][n]] = n
    BY ChildBeyond
  <2> QED
    BY <1>2, <2>2
<1>6. \A n \in N, c \in Sides : High(h, t[c][n]) \in Nat
  BY <1>4, <1>5 DEF High
<1>7. new \in [N -> Nat]
  BY <1>2, <1>4, <1>6
<1>8. \A n \in N, c \in Sides : High(new, t[c][n]) = High(h, t[c][n])
  BY <1>5 DEF High
<1>9. \A n \in N, c \in Sides : new[n] = High(new, t[c][n]) + (IF n \in r.red THEN 0 ELSE 1)
  <2>1. SUFFICES ASSUME NEW n \in N, NEW c \in Sides
                 PROVE new[n] = High(h, t[c][n]) + (IF n \in r.red THEN 0 ELSE 1)
    BY <1>8
  <2>2. CASE n # a
    BY <1>1, <1>4, <2>2
  <2>3. CASE n = a
    <3>1. h[a] = High(h, t[c][a]) + (IF a \in t.red THEN 0 ELSE 1)
      BY <1>2, <1>4
    <3>2. h[a] = High(h, t["left"][a]) + (IF a \in t.red THEN 0 ELSE 1)
      BY <1>2, <1>4
    <3>3. High(h, t[c][a]) \in Nat /\ High(h, t["left"][a]) \in Nat
      BY <1>2, <1>6
    <3>4. High(h, t[c][a]) = High(h, t["left"][a])
      BY <3>1, <3>2, <3>3
    <3> QED
      BY <1>1, <1>2, <2>3, <3>4
  <2> QED
    BY <2>2, <2>3
<1>10. Even(r, new)
  <2> HIDE DEF new
  <2> QED
    BY <1>2, <1>3, <1>7, <1>9 DEF Even
<1>11. ASSUME NEW n \in r.red, n # Nil PROVE r.parent[n] # Nil /\ r.parent[n] \notin r.red
  <2>1. n \in N /\ n \in t.red /\ n # a
    BY <1>1, Fields
  <2>2. t.parent[n] # Nil
    BY <1>2, <2>1 DEF Laid, Parents
  <2>3. t.parent[n] \notin t.red
    BY <2>1, <2>2 DEF BlackRed, OneRedRed
  <2> QED
    BY <1>1, <1>3, <2>2, <2>3
<1> QED
  BY <1>10, <1>11 DEF BlackRed, OneRedRed, r

\* The colours are those of a red-black tree but for z, which is red or needs
\* no more.
Coloured(t, z) ==
  (\E h : BlackRed(t, h, z)) /\ (z \in t.red \/ t.parent[z] \notin t.red)

\* What the loop is to leave of t0; rb says that the colours of t0 are right.
FixedUp(r, t0, pos, edge, rb) ==
  \/ Kept(r, t0, pos, edge) /\ (rb => \E h : BlackRed(r, h, Nil))
  \/ ~rb /\ r = NilPointer

(* A round that is followed by another, or by the end.                       *)
LEMMA InsertStep ==
  ASSUME NEW N, Nil \notin N, NEW t \in Trees(N), NEW pos, NEW edge, NEW end, Laid(t, pos, edge, end),
         NEW z \in N, NEW p, NEW g, Deep(t, z, p, g), p \in t.red
  PROVE LET r == InsertRound(t, z) IN
        /\ r = [tree |-> r.tree, z |-> r.z] /\ r.tree \in Trees(N) /\ r.z \in N
        /\ Marked(t, r.tree) /\ r.tree.size = t.size
        /\ \E new : Laid(r.tree, pos, edge, new)
                    /\ (r.tree.parent[r.z] \in r.tree.red => Width(end, z) < Width(new, r.z))
        /\ Coloured(t, z) => Coloured(r.tree, r.z)
<1> DEFINE d == SideOf(t, p, g)
           y == t[Other(d)][g]
           r == InsertRound(t, z)
<1>1. p \in N /\ g \in N /\ d \in Sides /\ t.red \subseteq N /\ t.parent[z] = p /\ Nodes(t) = N
  BY Around, Fields DEF Deep
<1> HIDE DEF d
<1>2. CASE y # Nil /\ y \in t.red
  <2>1. /\ r = [tree |-> r.tree, z |-> g] /\ r.tree \in Trees(N)
        /\ Laid(r.tree, pos, edge, end) /\ Marked(t, r.tree) /\ r.tree.size = t.size
        /\ Width(end, z) < Width(end, g)
        /\ \A h : BlackRed(t, h, z) /\ p \in t.red => g \in r.tree.red /\ \E new : BlackRed(r.tree, new, g)
    BY <1>2, RecolourRound DEF d
  <2>2. r.z = g
    BY <2>1
  <2> HIDE DEF r
  <2>3. Coloured(t, z) => Coloured(r.tree, g)
    BY <2>1 DEF Coloured
  <2> QED
    BY <1>1, <2>1, <2>2, <2>3 DEF r
<1>3. CASE ~(y # Nil /\ y \in t.red)
  <2>1. y \notin t.red
    BY <1>1, <1>3
  <2>2. \E n : RoundEnds(t, z, p, r, n, pos, edge)
    <3>1. CASE z = t[Other(d)][p]
      BY <2>1, <3>1, InnerRound DEF d
    <3>2. CASE z # t[Other(d)][p]
      BY <2>1, <3>2, OuterRound DEF d
    <3> QED
      BY <3>1, <3>2
  <2> HIDE DEF r
  <2>3. PICK n : RoundEnds(t, z, p, r, n, pos, edge)
    BY <2>2
  <2>4. r = [tree |-> r.tree, z |-> n] /\ r.z = n
    BY <2>3 DEF RoundEnds
  <2>5. Coloured(t, z) => Coloured(r.tree, n)
    <3>1. SUFFICES ASSUME Coloured(t, z) PROVE Coloured(r.tree, n)
      OBVIOUS
    <3>2. \E h : BlackRed(t, h, z)
      BY <3>1 DEF Coloured
    <3>3. z \in t.red
      BY <1>1, <3>1 DEF Coloured
    <3>4. \E new : BlackRed(r.tree, new, Nil)
      BY <2>3, <3>2, <3>3 DEF RoundEnds
    <3>5. \A new : BlackRed(r.tree, new, Nil) => BlackRed(r.tree, new, n)
      <4>1. \A m \in r.tree.red : m # Nil
        BY <1>1, <2>3, Fields DEF RoundEnds
      <4> QED
        BY <4>1 DEF BlackRed, OneRedRed
    <3>6. r.tree.parent[n] \notin r.tree.red
      BY <2>3 DEF RoundEnds
    <3> QED
      BY <3>4, <3>5, <3>6 DEF Coloured
  <2> QED
    BY <1>1, <2>3, <2>4, <2>5 DEF RoundEnds, r
<1> QED
  BY <1>2, <1>3

(* Insertion's fix-up keeps the order, marks what it changes and, when the    *)
(* colours were right, dereferences no nil node and leaves them right.        *)
LEMMA InsertFixup ==
  ASSUME NEW N, Nil \notin N, NEW t0 \in Trees(N), NEW pos, NEW edge, NEW end0, Laid(t0, pos, edge, end0),
         NEW z0 \in N
  PROVE FixedUp(rbInsertFixup(t0, z0), t0, pos, edge, Coloured(t0, z0))
<1> DEFINE rb == Coloured(t0, z0)
           S == ILoop(N)
           D == IDone(N)
           E == [Sides -> [N -> Int]]
           Out == {r \in Trees(N) \cup {NilPointer} : FixedUp(r, t0, pos, edge, rb)}
           Good(l, e) == /\ Laid(l.tree, pos, edge, e) /\ Marked(t0, l.tree) /\ l.tree.size = t0.size
                         /\ rb => Coloured(l.tree, l.z)
           G == {g \in S \X E : Good(g[1], g[2])}
           at == [g \in G |-> g[1]]
           rank == [g \in G |-> IF g[1] \in D THEN 0
                                ELSE 1 + (edge["right"] - edge["left"]) - Width(g[2], g[1].z)]
<1>1. PICK f : IsLoop(f, S, D, IBase(N), IRound(N)) /\ rbInsertFixup(t0, z0) = f[[tree |-> t0, z |-> z0]]
  BY InsertLoop
<1> HIDE DEF rb
<1>2. \A l \in S : l.tree \in Trees(N) /\ l.z \in N /\ Nodes(l.tree) = N
  BY Fields DEF ILoop
<1>3. ASSUME NEW l \in S, NEW e, Good(l, e)
      PROVE /\ e \in E /\ Width(e, l.z) \in Int
            /\ edge["right"] - edge["left"] \in Int /\ Width(e, l.z) <= edge["right"] - edge["left"]
  <2>1. Nodes(l.tree) = N /\ l.z \in N /\ "left" \in Sides /\ "right" \in Sides
    BY <1>2 DEF Sides
  <2>2. e \in E /\ edge \in [Sides -> Int]
    BY <1>3, <2>1 DEF Laid
  <2>3. Towards("left", e["left"][l.z], edge["left"]) /\ Towards("right", e["right"][l.z], edge["right"])
    BY <1>3, <2>1 DEF Laid, Ends
  <2> QED
    BY <2>1, <2>2, <2>3 DEF Towards, Width
<1>4. \A g \in G : at[g] \in S /\ rank[g] \in Nat
  <2>1. SUFFICES ASSUME NEW g \in G PROVE g[1] \in S /\ rank[g] \in Nat
    OBVIOUS
  <2>2. g[1] \in S /\ Good(g[1], g[2])
    OBVIOUS
  <2> HIDE DEF Good, S
  <2>3. Width(g[2], g[1].z) \in Int /\ edge["right"] - edge["left"] \in Int
        /\ Width(g[2], g[1].z) <= edge["right"] - edge["left"]
    BY <1>3, <2>2
  <2> HIDE DEF G
  <2> QED
    BY <2>2, <2>3
<1>5. \A g \in G : at[g] \in D => IBase(N)[at[g]] \in Out
  <2>1. SUFFICES ASSUME NEW g \in G, g[1] \in D PROVE IBase(N)[g[1]] \in Out
    OBVIOUS
  <2> DEFINE l == g[1]
             t == l.tree
             z == l.z
  <2>2. l \in S /\ Good(l, g[2]) /\ t \in Trees(N) /\ z \in N
    BY <1>2
  <2>7. Nodes(t0) = N /\ t.parent[z] \in N \cup {Nil} /\ t.red \subseteq N
    BY <2>2, Fields
  <2> HIDE DEF l
  <2>3. CASE IStops(l)
    <3>1. IBase(N)[l] = RootBlack(t)
      BY <2>2, <2>3 DEF IBase
    <3>2. /\ RootBlack(t) \in Trees(N) /\ Laid(RootBlack(t), pos, edge, g[2]) /\ Marked(t, RootBlack(t))
          /\ RootBlack(t).size = t.size
      BY <2>2, RootBlackFields
    <3>3. Marked(t0, RootBlack(t))
      BY <2>2, <3>2, MarkedTwice
    <3>4. Kept(RootBlack(t), t0, pos, edge)
      BY <2>2, <2>7, <3>2, <3>3 DEF Kept
    <3>5. rb => \E h : BlackRed(RootBlack(t), h, Nil)
      <4>1. SUFFICES ASSUME rb PROVE \E h : BlackRed(RootBlack(t), h, Nil)
        OBVIOUS
      <4>2. PICK h : BlackRed(t, h, z)
        BY <2>2, <4>1 DEF Coloured
      <4>3. (t.parent[z] = Nil /\ z \in N) \/ (t.parent[z] \notin t.red /\ t.parent[z] # Nil)
        BY <2>2, <2>3 DEF IStops
      <4> QED
        BY <2>2, <4>2, <4>3, RootBlackColours
    <3>6. FixedUp(RootBlack(t), t0, pos, edge, rb)
      BY <3>4, <3>5 DEF FixedUp
    <3>7. RootBlack(t) \in Out
      BY <3>2, <3>6
    <3> QED
      BY <3>1, <3>7 DEF l
  <2>4. CASE ~IStops(l)
    <3>1. IBase(N)[l] = NilPointer
      BY <2>2, <2>4 DEF IBase
    <3>2. ~rb
      <4>1. SUFFICES ASSUME rb PROVE FALSE
        OBVIOUS
      <4> DEFINE p == t.parent[z]
      <4>2. p # Nil /\ p \in t.red
        BY <2>4 DEF IStops
      <4>3. p # z
        BY <2>2, OneParent
      <4>4. t.parent[p] # Nil
        <5>1. PICK h : BlackRed(t, h, z)
          BY <2>2, <4>1 DEF Coloured
        <5> QED
          BY <4>2, <4>3, <5>1 DEF BlackRed, OneRedRed
      <4>5. Deep(t, z, p, t.parent[p])
        BY <4>2, <4>4 DEF Deep
      <4>6. InsertRound(t, z) \in S
        <5>1. LET r == InsertRound(t, z) IN r = [tree |-> r.tree, z |-> r.z] /\ r.tree \in Trees(N) /\ r.z \in N
          BY <2>2, <4>2, <4>5, InsertStep
        <5> QED
          BY <5>1 DEF ILoop
      <4>7. IRound(N)[l] \in S
        BY <2>2, <4>6 DEF IRound
      <4> QED
        BY <2>1, <2>4, <4>4, <4>7 DEF IDone, l
    <3>3. NilPointer \in Out
      BY <3>2 DEF FixedUp
    <3> QED
      BY <3>1, <3>3 DEF l
  <2> QED
    BY <2>3, <2>4 DEF l
<1>6. \A g \in G : at[g] \notin D => \E h \in G : at[h] = IRound(N)[at[g]] /\ rank[h] < rank[g]
  <2>1. SUFFICES ASSUME NEW g \in G, g[1] \notin D
                 PROVE \E h \in G : h[1] = IRound(N)[g[1]] /\ rank[h] < rank[g]
    OBVIOUS
  <2> DEFINE l == g[1]
             t == l.tree
             z == l.z
             p == t.parent[z]
             m == InsertRound(t, z)
  <2>2. l \in S /\ Good(l, g[2]) /\ t \in Trees(N) /\ z \in N
    BY <1>2
  <2>3. ~IStops(l) /\ t.parent[p] # Nil /\ IRound(N)[l] \in S
    BY <2>1, <2>2 DEF IDone
  <2>4. Deep(t, z, p, t.parent[p]) /\ p \in t.red
    BY <2>3 DEF IStops, Deep
  <2>5. /\ m.tree \in Trees(N) /\ m.z \in N /\ Marked(t, m.tree) /\ m.tree.size = t.size
        /\ \E new : Laid(m.tree, pos, edge, new)
                    /\ (m.tree.parent[m.z] \in m.tree.red => Width(g[2], z) < Width(new, m.z))
        /\ Coloured(t, z) => Coloured(m.tree, m.z)
    <3>1. LET r == InsertRound(t, z) IN
          /\ r = [tree |-> r.tree, z |-> r.z] /\ r.tree \in Trees(N) /\ r.z \in N
          /\ Marked(t, r.tree) /\ r.tree.size = t.size
          /\ \E new : Laid(r.tree, pos, edge, new)
                      /\ (r.tree.parent[r.z] \in r.tree.red => Width(g[2], z) < Width(new, r.z))
          /\ Coloured(t, z) => Coloured(r.tree, r.z)
      <4>1. Laid(t, pos, edge, g[2])
        BY <2>2
      <4> HIDE DEF t, z, p
      <4> QED
        BY <2>2, <2>4, <4>1, InsertStep
    <3> QED
      BY <3>1
  <2>6. PICK new : /\ Laid(m.tree, pos, edge, new)
                   /\ m.tree.parent[m.z] \in m.tree.red => Width(g[2], z) < Width(new, m.z)
    BY <2>5
  <2>7. Marked(t0, m.tree) /\ m.tree.size = t0.size
    BY <2>2, <2>5, MarkedTwice
  <2>8. IRound(N)[l] = m /\ m \in S
    BY <2>2, <2>3 DEF IRound
  <2>9. Good(m, new)
    BY <2>2, <2>5, <2>6, <2>7
  <2>10. new \in E
    BY <1>3, <2>8, <2>9
  <2>11. <<m, new>> \in G
    BY <2>8, <2>9, <2>10
  <2>12. rank[<<m, new>>] = IF m \in D THEN 0
                            ELSE 1 + (edge["right"] - edge["left"]) - Width(new, m.z)
    BY <2>11
  <2>13. rank[g] = 1 + (edge["right"] - edge["left"]) - Width(g[2], z)
    BY <2>1
  <2>14. /\ Width(g[2], z) \in Int /\ edge["right"] - edge["left"] \in Int
         /\ Width(g[2], z) <= edge["right"] - edge["left"] /\ Width(new, m.z) \in Int
    BY <1>3, <2>2, <2>8, <2>9
  <2>15. m \notin D => m.tree.parent[m.z] \in m.tree.red
    BY <2>8 DEF IDone, IStops
  <2>16. rank[<<m, new>>] < rank[g]
    <3> HIDE DEF m, rank, l, G
    <3> QED
      BY <2>6, <2>12, <2>13, <2>14, <2>15
  <2> QED
    BY <2>8, <2>11, <2>16
<1>7. <<[tree |-> t0, z |-> z0], end0>> \in G
  <2>1. [tree |-> t0, z |-> z0] \in S
    BY DEF ILoop
  <2>2. Good([tree |-> t0, z |-> z0], end0)
    BY DEF Marked, rb
  <2> QED
    BY <1>3, <2>1, <2>2
<1>8. f[[tree |-> t0, z |-> z0]] \in Out
  <2>1. at[<<[tree |-> t0, z |-> z0], end0>>] = [tree |-> t0, z |-> z0]
    BY <1>7
  <2>3. Falls(G, at, rank, S, D, IRound(N)) /\ EndsIn(G, at, D, IBase(N), Out)
    <3> HIDE DEF S, D, G, at, rank, Out
    <3> QED
      BY <1>4, <1>5, <1>6 DEF Falls, EndsIn
  <2> HIDE DEF S, D, G, at, rank, Out
  <2>2. \A g \in G : f[at[g]] \in Out
    BY <1>1, <2>3, LoopEnds
  <2> QED
    BY <1>7, <2>1, <2>2
<1> QED
  BY <1>1, <1>8 DEF rb

-----------------------------------------------------------------------------
(***************************************************************************)
(* The keys, and a new node among them.                                    *)
(***************************************************************************)

\* The places are those from edge to edge, one for each node.
Placed(t, pos, edge) ==
  /\ \A m, n \in Nodes(t) : pos[m] = pos[n] => m = n
  /\ \A i \in edge["left"] .. edge["right"] : \E n \in Nodes(t) : pos[n] = i
  /\ t.size = edge["right"] - edge["left"] + 1

\* The greater keys are on the left.
Keyed(t, pos) ==
  /\ \A n \in Nodes(t) : Key(n) \in Nat
  /\ \A m, n \in Nodes(t) : pos[m] < pos[n] => Key(m) >= Key(n)

\* z is hung under y on side d.
Hung(r, t, z, y, d) ==
  /\ r.root = t.root /\ r.size = t.size + 1 /\ r.red = t.red \cup {z} /\ r.dirty = t.dirty \cup {z, y}
  /\ r.parent = [m \in Nodes(t) \cup {z} |-> IF m = z THEN y ELSE t.parent[m]]
  /\ r[d] = [m \in Nodes(t) \cup {z} |-> IF m = z THEN Nil ELSE IF m = y THEN z ELSE t[d][m]]
  /\ r[Other(d)] = [m \in Nodes(t) \cup {z} |-> IF m = z THEN Nil ELSE t[Other(d)][m]]

\* Places beyond a on side d, and ends of subtrees at a or beyond it, move by one.
Shift(d, a, i) == IF Towards(d, a, i) /\ i # a THEN i + Step(d) ELSE i
ShiftEnd(d, a, i) == IF Towards(d, a, i) THEN i + Step(d) ELSE i

(* Where a place goes.                                                       *)
LEMMA ShiftOne ==
  ASSUME NEW d \in Sides, NEW a \in Int, NEW i \in Int
  PROVE /\ Shift(d, a, i) \in Int /\ ShiftEnd(d, a, i) \in Int
        /\ Shift(d, a, a) = a /\ Shift(d, a, i) # a + Step(d) /\ ShiftEnd(d, a, a) = a + Step(d)
        /\ (Shift(d, a, i) < a + Step(d) <=> (IF d = "left" THEN i < a ELSE i <= a))
        /\ (Shift(d, a, i) > a + Step(d) <=> (IF d = "left" THEN i >= a ELSE i > a))
        /\ (i # a => ShiftEnd(d, a, i) = Shift(d, a, i) /\ Shift(d, a, i + Step(d)) = Shift(d, a, i) + Step(d))
        /\ ShiftEnd(d, a, i + Step(Other(d))) = Shift(d, a, i) + Step(Other(d))
<1>1. CASE d = "left"
  BY <1>1 DEF Shift, ShiftEnd, Towards, Step, Other
<1>2. CASE d = "right"
  BY <1>2 DEF Shift, ShiftEnd, Towards, Step, Other
<1> QED
  BY <1>1, <1>2 DEF Sides

(* Places that move stay in order.                                           *)
LEMMA ShiftTwo ==
  ASSUME NEW d \in Sides, NEW a \in Int, NEW i \in Int, NEW j \in Int
  PROVE /\ (Shift(d, a, i) = Shift(d, a, j) => i = j) /\ (Shift(d, a, i) < Shift(d, a, j) <=> i < j)
        /\ (Towards(d, i, j) => Towards(d, Shift(d, a, i), ShiftEnd(d, a, j)))
        /\ (Towards(Other(d), i, j) => Towards(Other(d), Shift(d, a, i), Shift(d, a, j)))
        /\ (Towards(d, i, j) /\ Towards(d, a, j) => Towards(d, ShiftEnd(d, a, i), j + Step(d)))
        /\ (Towards(Other(d), a, j) /\ Towards(Other(d), i, j) => Towards(Other(d), Shift(d, a, i), j))
<1>1. CASE d = "left"
  BY <1>1 DEF Shift, ShiftEnd, Towards, Step, Other
<1>2. CASE d = "right"
  BY <1>2 DEF Shift, ShiftEnd, Towards, Step, Other
<1> QED
  BY <1>1, <1>2 DEF Sides

\* The places once z has been hung under y, and the edges.
PosWith(pos, N, z, y, d) ==
  [m \in N \cup {z} |-> IF m = z THEN pos[y] + Step(d) ELSE Shift(d, pos[y], pos[m])]
EdgeWith(edge, d) == [c \in Sides |-> IF c = d THEN edge[c] + Step(d) ELSE edge[c]]

(* A tree with a new leaf has the order of the places that move for it.       *)
LEMMA HangLaid ==
  ASSUME NEW N, Nil \notin N, NEW t \in Trees(N), NEW pos, NEW edge, NEW end, Laid(t, pos, edge, end),
         Placed(t, pos, edge), NEW y \in N, NEW d \in Sides, t[d][y] = Nil,
         NEW z, z \notin N, z # Nil, NEW r \in Trees(N \cup {z}), Hung(r, t, z, y, d)
  PROVE /\ Placed(r, PosWith(pos, N, z, y, d), EdgeWith(edge, d))
        /\ \E end2 : Laid(r, PosWith(pos, N, z, y, d), EdgeWith(edge, d), end2)
<1> DEFINE a == pos[y]
           e == Other(d)
           M == N \cup {z}
           pos2 == [m \in M |-> IF m = z THEN a + Step(d) ELSE Shift(d, a, pos[m])]
           edge2 == [c \in Sides |-> IF c = d THEN edge[c] + Step(d) ELSE edge[c]]
           end2 == [c \in Sides |-> [m \in M |-> IF m = z THEN a + Step(d)
                                                 ELSE IF c = d THEN ShiftEnd(d, a, end[c][m])
                                                 ELSE Shift(d, a, end[c][m])]]
<1>1. /\ e \in Sides /\ e # d /\ Other(e) = d /\ Nodes(t) = N /\ Nodes(r) = M /\ y # z /\ z # Nil /\ y # Nil
      /\ \A c \in Sides : c = d \/ c = e
      /\ \A c \in Sides : t[c] \in [N -> N \cup {Nil}]
      /\ t.parent \in [N -> N \cup {Nil}] /\ t.root \in N \cup {Nil} /\ Step(d) \in Int
  BY Fields, TwoSides DEF Step
<1>2. /\ pos \in [N -> Int] /\ edge \in [Sides -> Int] /\ end \in [Sides -> [N -> Int]]
      /\ a \in Int /\ \A n \in N : pos[n] \in Int /\ \A c \in Sides : end[c][n] \in Int /\ edge[c] \in Int
  BY <1>1 DEF Laid
<1>3. /\ r.root = t.root /\ r.size = t.size + 1
      /\ r.parent = [m \in M |-> IF m = z THEN y ELSE t.parent[m]]
      /\ r[d] = [m \in M |-> IF m = z THEN Nil ELSE IF m = y THEN z ELSE t[d][m]]
      /\ r[e] = [m \in M |-> IF m = z THEN Nil ELSE t[e][m]]
  BY <1>1 DEF Hung
<1> HIDE DEF e, a
<1>4. /\ pos2 \in [M -> Int] /\ edge2 \in [Sides -> Int] /\ end2 \in [Sides -> [M -> Int]]
  <2>1. \A n \in N : Shift(d, a, pos[n]) \in Int
    BY <1>2, ShiftOne
  <2>2. \A n \in N, c \in Sides : Shift(d, a, end[c][n]) \in Int /\ ShiftEnd(d, a, end[c][n]) \in Int
    BY <1>2, ShiftOne
  <2>3. a + Step(d) \in Int /\ \A c \in Sides : edge[c] + Step(d) \in Int
    BY <1>1, <1>2
  <2> QED
    BY <1>2, <2>1, <2>2, <2>3
<1>5. /\ pos2[z] = a + Step(d) /\ \A c \in Sides : end2[c][z] = a + Step(d)
      /\ edge2[d] = edge[d] + Step(d) /\ edge2[e] = edge[e]
      /\ \A n \in N : /\ pos2[n] = Shift(d, a, pos[n])
                      /\ end2[d][n] = ShiftEnd(d, a, end[d][n]) /\ end2[e][n] = Shift(d, a, end[e][n])
  BY <1>1
<1>6. pos2[y] = a /\ \A n \in N : pos[n] = a => n = y
  BY <1>1, <1>2, <1>5, ShiftOne DEF a, Placed
<1> HIDE DEF pos2, edge2, end2, M
<1>7. /\ \A n \in N : n \in M /\ n # z
      /\ z \in M /\ \A m \in M : m = z \/ m \in N
  BY <1>1 DEF M
<1>8. /\ Towards(d, a, end[d][y]) /\ Towards(d, a, edge[d]) /\ Towards(e, a, edge[e]) /\ end[d][y] = a
  <2>1. /\ Towards(d, a, end[d][y]) /\ Towards(d, end[d][y], edge[d]) /\ Towards(e, a, end[e][y])
        /\ Towards(e, end[e][y], edge[e])
    BY <1>1 DEF Laid, Ends, a
  <2>2. end[d][y] = a
    BY <1>1 DEF Laid, Children, a
  <2>3. Towards(d, a, edge[d])
    BY <2>1, <2>2
  <2>4. Towards(e, a, edge[e])
    BY <1>1, <1>2, <2>1, SideFacts
  <2> QED
    BY <2>1, <2>2, <2>3, <2>4
<1>9. Ends(r, pos2, edge2, end2)
  <2>1. ASSUME NEW n \in N, NEW c \in Sides
        PROVE Towards(c, pos2[n], end2[c][n]) /\ Towards(c, end2[c][n], edge2[c])
    <3>1. Towards(c, pos[n], end[c][n]) /\ Towards(c, end[c][n], edge[c])
      BY <1>1 DEF Laid, Ends
    <3>2. pos[n] \in Int /\ end[c][n] \in Int /\ edge[c] \in Int /\ a \in Int
      BY <1>2
    <3>3. CASE c = d
      <4>1. Towards(d, Shift(d, a, pos[n]), ShiftEnd(d, a, end[c][n]))
        BY <3>1, <3>2, <3>3, ShiftTwo
      <4>2. Towards(d, ShiftEnd(d, a, end[c][n]), edge[c] + Step(d))
        BY <1>8, <3>1, <3>2, <3>3, ShiftTwo
      <4> QED
        BY <1>5, <3>3, <4>1, <4>2
    <3>4. CASE c = e
      <4>1. Towards(e, Shift(d, a, pos[n]), Shift(d, a, end[c][n]))
        BY <3>1, <3>2, <3>4, ShiftTwo DEF e
      <4>2. Towards(e, Shift(d, a, end[c][n]), edge[c])
        BY <1>8, <3>1, <3>2, <3>4, ShiftTwo DEF e
      <4> QED
        BY <1>5, <3>4, <4>1, <4>2
    <3> QED
      BY <1>1, <3>3, <3>4
  <2>2. ASSUME NEW c \in Sides
        PROVE Towards(c, pos2[z], end2[c][z]) /\ Towards(c, end2[c][z], edge2[c])
    <3>1. a + Step(d) \in Int /\ edge[d] \in Int /\ edge[e] \in Int
      BY <1>1, <1>2
    <3>2. Towards(d, a + Step(d), edge[d] + Step(d)) /\ Towards(e, a + Step(d), edge[e])
      <4>1. CASE d = "left"
        BY <1>2, <1>8, <3>1, <4>1 DEF Towards, Step, Other, e
      <4>2. CASE d = "right"
        BY <1>2, <1>8, <3>1, <4>2 DEF Towards, Step, Other, e
      <4> QED
        BY <4>1, <4>2 DEF Sides
    <3>3. Towards(c, a + Step(d), a + Step(d))
      BY <3>1, SideFacts
    <3> QED
      BY <1>1, <1>5, <3>2, <3>3
  <2> QED
    BY <1>1, <1>7, <2>1, <2>2 DEF Ends
<1>10. Children(r, pos2, end2)
  <2>1. SUFFICES ASSUME NEW n \in M, NEW c \in Sides
                 PROVE IF r[c][n] = Nil THEN end2[c][n] = pos2[n]
                       ELSE /\ r.parent[r[c][n]] = n /\ end2[c][r[c][n]] = end2[c][n]
                            /\ end2[Other(c)][r[c][n]] = pos2[n] + Step(c)
    BY <1>1 DEF Children
  <2>2. CASE n = z
    BY <1>1, <1>3, <1>5, <2>2
  <2>3. CASE n = y /\ c = d
    <3>1. r[c][n] = z /\ r.parent[z] = y
      BY <1>1, <1>3, <1>7, <2>3
    <3>2. end2[d][y] = a + Step(d)
      BY <1>2, <1>5, <1>8, ShiftOne
    <3> QED
      BY <1>1, <1>5, <1>6, <2>3, <3>1, <3>2 DEF e
  <2>4. CASE n \in N /\ ~(n = y /\ c = d)
    <3>1. r[c][n] = t[c][n] /\ pos2[n] = Shift(d, a, pos[n])
      BY <1>1, <1>3, <1>5, <1>7, <2>4
    <3>2. c = d => pos[n] # a
      BY <1>6, <2>4
    <3>3. pos[n] \in Int /\ end[c][n] \in Int
      BY <1>2, <2>4
    <3>4. CASE t[c][n] = Nil
      <4>1. end[c][n] = pos[n]
        BY <1>1, <2>4, <3>4 DEF Laid, Children
      <4>2. c = d => ShiftEnd(d, a, pos[n]) = Shift(d, a, pos[n])
        BY <1>2, <3>2, <3>3, ShiftOne
      <4>3. end2[c][n] = Shift(d, a, pos[n])
        <5>1. CASE c = d
          BY <1>5, <2>4, <4>1, <4>2, <5>1
        <5>2. CASE c = e
          BY <1>5, <2>4, <4>1, <5>2
        <5> QED
          BY <1>1, <5>1, <5>2
      <4> QED
        BY <3>1, <3>4, <4>3
    <3>5. CASE t[c][n] # Nil
      <4> DEFINE m == t[c][n]
      <4>1. /\ m \in N /\ t.parent[m] = n /\ end[c][m] = end[c][n] /\ end[Other(c)][m] = pos[n] + Step(c)
        BY <2>4, <3>5, ChildBeyond
      <4> HIDE DEF m
      <4>2. r.parent[m] = n /\ end2[c][m] = end2[c][n]
        BY <1>1, <1>3, <1>5, <1>7, <2>4, <4>1
      <4>3. end2[Other(c)][m] = Shift(d, a, pos[n]) + Step(c)
        <5>1. CASE c = d
          <6>1. end2[Other(c)][m] = Shift(d, a, pos[n] + Step(d))
            BY <1>5, <4>1, <5>1 DEF e
          <6> QED
            BY <1>2, <3>2, <3>3, <5>1, <6>1, ShiftOne
        <5>2. CASE c = e
          <6>1. end2[Other(c)][m] = ShiftEnd(d, a, pos[n] + Step(Other(d)))
            BY <1>1, <1>5, <4>1, <5>2 DEF e
          <6> QED
            BY <1>2, <3>3, <5>2, <6>1, ShiftOne DEF e
        <5> QED
          BY <1>1, <5>1, <5>2
      <4> QED
        BY <3>1, <3>5, <4>2, <4>3 DEF m
    <3> QED
      BY <3>4, <3>5
  <2> QED
    BY <1>7, <2>2, <2>3, <2>4
<1>11. AtRoot(r, edge2, end2)
  <2>1. t.root \in N /\ t.parent[t.root] = Nil /\ \A c \in Sides : end[c][t.root] = edge[c]
    BY <1>1 DEF Laid, AtRoot
  <2>2. ShiftEnd(d, a, edge[d]) = edge[d] + Step(d)
    BY <1>8 DEF ShiftEnd
  <2>3. Shift(d, a, edge[e]) = edge[e]
    BY <1>1, <1>2, <1>8, SideFacts DEF Shift, Towards, Other, Sides, e
  <2>4. r.parent[t.root] = Nil /\ end2[d][t.root] = edge2[d] /\ end2[e][t.root] = edge2[e]
    BY <1>1, <1>3, <1>5, <1>7, <2>1, <2>2, <2>3
  <2> QED
    BY <1>1, <1>3, <2>1, <2>4 DEF AtRoot
<1>12. Parents(r)
  <2>1. SUFFICES ASSUME NEW n \in M
                 PROVE IF r.parent[n] = Nil THEN n = r.root ELSE \E c \in Sides : r[c][r.parent[n]] = n
    BY <1>1 DEF Parents
  <2>2. CASE n = z
    BY <1>1, <1>3, <1>7, <2>2
  <2>3. CASE n \in N
    <3>1. IF t.parent[n] = Nil THEN n = t.root ELSE \E c \in Sides : t[c][t.parent[n]] = n
      BY <1>1, <2>3 DEF Laid, Parents
    <3>2. r.parent[n] = t.parent[n]
      BY <1>3, <1>7, <2>3
    <3>3. CASE t.parent[n] = Nil
      BY <1>3, <3>1, <3>2, <3>3
    <3>4. CASE t.parent[n] # Nil
      <4>1. PICK c \in Sides : t[c][t.parent[n]] = n
        BY <3>1, <3>4
      <4>2. t.parent[n] \in N /\ ~(t.parent[n] = y /\ c = d)
        BY <1>1, <2>3, <3>4, <4>1
      <4>3. r[c][t.parent[n]] = n
        BY <1>1, <1>3, <1>7, <4>1, <4>2
      <4> QED
        BY <3>2, <3>4, <4>3
    <3> QED
      BY <3>3, <3>4
  <2> QED
    BY <1>7, <2>2, <2>3
<1>13. Laid(r, pos2, edge2, end2)
  BY <1>1, <1>4, <1>9, <1>10, <1>11, <1>12 DEF Laid
<1>14. Placed(r, pos2, edge2)
  <2>1. \A m, n \in M : pos2[m] = pos2[n] => m = n
    <3>1. SUFFICES ASSUME NEW m \in M, NEW n \in M, pos2[m] = pos2[n] PROVE m = n
      OBVIOUS
    <3>2. \A k \in N : pos2[k] # pos2[z]
      BY <1>2, <1>5, ShiftOne
    <3>3. CASE m \in N /\ n \in N
      <4>1. pos[m] = pos[n]
        <5>1. pos[m] \in Int /\ pos[n] \in Int /\ a \in Int
          BY <1>2, <3>3
        <5>2. Shift(d, a, pos[m]) = Shift(d, a, pos[n])
          BY <1>5, <3>1, <3>3
        <5> QED
          BY <5>1, <5>2, ShiftTwo
      <4> QED
        BY <1>1, <3>3, <4>1 DEF Placed
    <3> QED
      BY <1>7, <3>1, <3>2, <3>3
  <2>2. r.size = edge2["right"] - edge2["left"] + 1
    <3>1. t.size = edge["right"] - edge["left"] + 1 /\ edge["left"] \in Int /\ edge["right"] \in Int
      BY <1>2 DEF Placed, Sides
    <3>2. CASE d = "left"
      BY <1>3, <1>5, <3>1, <3>2 DEF Step, Other, e
    <3>3. CASE d = "right"
      BY <1>3, <1>5, <3>1, <3>3 DEF Step, Other, e
    <3> QED
      BY <3>2, <3>3 DEF Sides
  <2>3. ASSUME NEW i \in edge2["left"] .. edge2["right"] PROVE \E n \in M : pos2[n] = i
    <3>1. CASE i = a + Step(d)
      BY <1>5, <1>7, <3>1
    <3>2. CASE i # a + Step(d)
      <4> DEFINE j == IF Towards(d, a, i) /\ i # a THEN i - Step(d) ELSE i
      <4>1. /\ j \in edge["left"] .. edge["right"] /\ Shift(d, a, j) = i
        <5>1. edge["left"] \in Int /\ edge["right"] \in Int /\ a \in Int
          BY <1>2 DEF Sides
        <5>2. CASE d = "left"
          <6>1. edge2["left"] = edge["left"] - 1 /\ edge2["right"] = edge["right"]
            BY <1>5, <5>1, <5>2 DEF Step, Other, e
          <6> QED
            BY <1>8, <3>2, <5>1, <5>2, <6>1 DEF Step, Other, e, Towards, Shift
        <5>3. CASE d = "right"
          <6>1. edge2["left"] = edge["left"] /\ edge2["right"] = edge["right"] + 1
            BY <1>5, <5>1, <5>3 DEF Step, Other, e
          <6> QED
            BY <1>8, <3>2, <5>1, <5>3, <6>1 DEF Step, Other, e, Towards, Shift
        <5> QED
          BY <5>2, <5>3 DEF Sides
      <4>2. PICK n \in N : pos[n] = j
        BY <1>1, <4>1 DEF Placed
      <4> HIDE DEF j
      <4>3. pos2[n] = i
        BY <1>5, <4>1, <4>2
      <4> QED
        BY <1>7, <4>3
    <3> QED
      BY <3>1, <3>2
  <2> QED
    BY <1>1, <2>1, <2>2, <2>3 DEF Placed
<1> QED
  BY <1>13, <1>14 DEF a, pos2, edge2, end2, M, e, PosWith, EdgeWith

-----------------------------------------------------------------------------
(***************************************************************************)
(* Walking down (tree.go:35-46, 303-317).                                  *)
(***************************************************************************)

\* The nodes outside of what is under x are on the right side of the key.
AroundKey(t, pos, end, key, x) ==
  \A n \in Nodes(t) : /\ pos[n] < end["left"][x] => Key(n) >= key
                      /\ pos[n] > end["right"][x] => Key(n) <= key

(* Going down from x towards a key leaves out the nodes on the other side.    *)
LEMMA GoDown ==
  ASSUME NEW N, Nil \notin N, NEW t \in Trees(N), NEW pos, NEW edge, NEW end, Laid(t, pos, edge, end),
         Placed(t, pos, edge), Keyed(t, pos), NEW key \in Nat, NEW x \in N
  PROVE LET d == Side(key, x) IN
        /\ d \in Sides
        /\ \A n \in N : d = "left" /\ pos[n] >= pos[x] => Key(n) < key
        /\ \A n \in N : d = "right" /\ pos[n] <= pos[x] => Key(n) >= key
        /\ \A n \in N : d = "right" /\ key # Key(x) /\ pos[n] <= pos[x] => Key(n) > key
        /\ t[d][x] # Nil => /\ end[d][t[d][x]] = end[d][x]
                            /\ d = "left" => end["right"][t[d][x]] = pos[x] - 1
                            /\ d = "right" => end["left"][t[d][x]] = pos[x] + 1
<1> DEFINE d == Side(key, x)
<1>1. d \in Sides /\ Nodes(t) = N /\ pos \in [N -> Int] /\ \A n \in N : Key(n) \in Nat /\ pos[n] \in Int
  BY Fields DEF Side, Sides, Laid, Keyed
<1>2. \A n \in N : pos[n] < pos[x] => Key(n) >= Key(x)
  BY <1>1 DEF Keyed
<1>3. \A n \in N : pos[x] < pos[n] => Key(n) <= Key(x)
  BY <1>1 DEF Keyed
<1>4. \A n \in N : pos[n] = pos[x] => n = x
  BY <1>1 DEF Placed
<1>5. \A n \in N : pos[n] >= pos[x] => Key(n) <= Key(x)
  BY <1>1, <1>3, <1>4
<1>6. \A n \in N : pos[n] <= pos[x] => Key(n) >= Key(x)
  BY <1>1, <1>2, <1>4
<1>7. d = "left" => Key(x) < key
  BY <1>1 DEF Side
<1>8. d = "right" => Key(x) >= key
  BY <1>1 DEF Side
<1>9. t[d][x] # Nil => end[d][t[d][x]] = end[d][x] /\ end[Other(d)][t[d][x]] = pos[x] + Step(d)
  BY <1>1, ChildBeyond
<1>10. t[d][x] # Nil => /\ d = "left" => end["right"][t[d][x]] = pos[x] - 1
                        /\ d = "right" => end["left"][t[d][x]] = pos[x] + 1
  BY <1>1, <1>9 DEF Other, Step
<1> HIDE DEF d
<1>11. \A n \in N : d = "left" /\ pos[n] >= pos[x] => Key(n) < key
  BY <1>1, <1>5, <1>7
<1>12. \A n \in N : d = "right" /\ pos[n] <= pos[x] => Key(n) >= key
  BY <1>1, <1>6, <1>8
<1>13. \A n \in N : d = "right" /\ key # Key(x) /\ pos[n] <= pos[x] => Key(n) > key
  BY <1>1, <1>6, <1>8
<1> QED
  BY <1>1, <1>9, <1>10, <1>11, <1>12, <1>13 DEF d

\* Where a key goes that is hung under y.
Splits(t, pos, key, y) ==
  /\ y \in Nodes(t) /\ Side(key, y) \in Sides /\ t[Side(key, y)][y] = Nil
  /\ \A n \in Nodes(t) :
       IF (IF Side(key, y) = "left" THEN pos[n] < pos[y] ELSE pos[n] <= pos[y])
       THEN Key(n) >= key ELSE Key(n) <= key

(* Insert finds the place of the key.                                        *)
LEMMA UnderSplits ==
  ASSUME NEW N, Nil \notin N, NEW t \in Trees(N), NEW pos, NEW edge, NEW end, Laid(t, pos, edge, end),
         Placed(t, pos, edge), Keyed(t, pos), NEW key \in Nat, N # {}
  PROVE Splits(t, pos, key, Under(t, key))
<1> DEFINE on(x) == t[Side(key, x)][x]
           D == {x \in N : on(x) = Nil}
           base == [x \in N |-> x]
           next == [x \in N |-> on(x)]
           G == {x \in N : AroundKey(t, pos, end, key, x)}
           at == [x \in G |-> x]
           rank == [x \in G |-> Width(end, x)]
           Out == {y \in N : Splits(t, pos, key, y)}
           F(f) == f = [x \in N |-> IF on(x) = Nil THEN x ELSE f[on(x)]]
<1>1. /\ Nodes(t) = N /\ t.root \in N /\ t.root # Nil /\ \A x \in N : Side(key, x) \in Sides /\ Key(x) \in Nat
      /\ pos \in [N -> Int] /\ \A c \in Sides : end[c] \in [N -> Int] /\ t[c] \in [N -> N \cup {Nil}]
      /\ "left" \in Sides /\ "right" \in Sides
  BY Fields DEF Laid, AtRoot, Side, Sides, Keyed
<1>2. \A x \in N : x \notin D => next[x] \in N
  BY <1>1
<1>3. PICK f : IsLoop(f, N, D, base, next)
  BY <1>2, LoopExists
<1>4. \A g : IsLoop(g, N, D, base, next) <=> F(g)
  BY DEF IsLoop
<1>5. F(CHOOSE g : F(g))
  <2> HIDE DEF F
  <2> QED
    BY <1>3, <1>4
<1>6. Under(t, key) = (CHOOSE g : F(g))[t.root]
  BY <1>1 DEF Under
<1> DEFINE u == CHOOSE g : F(g)
<1>7. IsLoop(u, N, D, base, next)
  BY <1>4, <1>5
<1> HIDE DEF u
<1>8. \A x \in N : Width(end, x) \in Nat
  <2>1. \A x \in N : Towards("left", pos[x], end["left"][x]) /\ Towards("right", pos[x], end["right"][x])
    BY <1>1 DEF Laid, Ends
  <2> QED
    BY <1>1, <2>1 DEF Width, Towards
<1>9. ASSUME NEW x \in G, x \in D PROVE x \in Out
  <2> DEFINE d == Side(key, x)
  <2>1. x \in N /\ t[d][x] = Nil /\ d \in Sides /\ AroundKey(t, pos, end, key, x)
    BY <1>1, <1>9
  <2>2. end[d][x] = pos[x]
    BY <1>1, <2>1 DEF Laid, Children
  <2>3. /\ \A n \in N : d = "left" /\ pos[n] >= pos[x] => Key(n) < key
        /\ \A n \in N : d = "right" /\ pos[n] <= pos[x] => Key(n) >= key
    <3>1. x \in N
      BY <2>1
    <3> HIDE DEF D, G, Out, next, base, at, rank
    <3>2. LET c == Side(key, x) IN
          /\ \A n \in N : c = "left" /\ pos[n] >= pos[x] => Key(n) < key
          /\ \A n \in N : c = "right" /\ pos[n] <= pos[x] => Key(n) >= key
      <4> HIDE DEF d
      <4> QED
        BY <3>1, GoDown
    <3> QED
      BY <3>2
  <2>4. \A n \in N : /\ pos[n] < end["left"][x] => Key(n) >= key
                     /\ pos[n] > end["right"][x] => Key(n) <= key
    BY <1>1, <2>1 DEF AroundKey
  <2>5. \A n \in N : pos[n] \in Int /\ pos[x] \in Int /\ Key(n) \in Nat
    BY <1>1, <2>1
  <2> HIDE DEF d
  <2>6. \A n \in N : IF (IF d = "left" THEN pos[n] < pos[x] ELSE pos[n] <= pos[x])
                     THEN Key(n) >= key ELSE Key(n) <= key
    <3>1. CASE d = "left"
      BY <2>2, <2>3, <2>4, <2>5, <3>1
    <3>2. CASE d = "right"
      BY <2>2, <2>3, <2>4, <2>5, <3>2
    <3> QED
      BY <2>1, <3>1, <3>2 DEF Sides
  <2> QED
    BY <1>1, <2>1, <2>6 DEF Splits, d
<1>10. ASSUME NEW x \in G, x \notin D
       PROVE next[x] \in G /\ Width(end, next[x]) < Width(end, x)
  <2> DEFINE d == Side(key, x)
             y == t[d][x]
  <2>1. x \in N /\ y \in N /\ y # Nil /\ d \in Sides /\ AroundKey(t, pos, end, key, x) /\ next[x] = y
    BY <1>1, <1>10
  <2>2. /\ \A n \in N : d = "left" /\ pos[n] >= pos[x] => Key(n) < key
        /\ \A n \in N : d = "right" /\ pos[n] <= pos[x] => Key(n) >= key
        /\ end[d][y] = end[d][x]
        /\ d = "left" => end["right"][y] = pos[x] - 1
        /\ d = "right" => end["left"][y] = pos[x] + 1
    BY <2>1, GoDown
  <2>3. Width(end, y) < Width(end, x)
    BY <2>1, ChildWidth
  <2>4. \A n \in N : /\ pos[n] < end["left"][x] => Key(n) >= key
                     /\ pos[n] > end["right"][x] => Key(n) <= key
    BY <1>1, <2>1 DEF AroundKey
  <2>5. \A n \in N : pos[n] \in Int /\ pos[x] \in Int /\ Key(n) \in Nat
    BY <1>1, <2>1
  <2> HIDE DEF d, y
  <2>6. \A n \in N : /\ pos[n] < end["left"][y] => Key(n) >= key
                     /\ pos[n] > end["right"][y] => Key(n) <= key
    <3>1. CASE d = "left"
      BY <2>2, <2>4, <2>5, <3>1
    <3>2. CASE d = "right"
      BY <2>2, <2>4, <2>5, <3>2
    <3> QED
      BY <2>1, <3>1, <3>2 DEF Sides
  <2> QED
    BY <1>1, <2>1, <2>3, <2>6 DEF AroundKey
<1>11. t.root \in G
  <2>1. \A n \in N : pos[n] \in Int /\ edge["left"] \in Int /\ edge["right"] \in Int
    BY <1>1 DEF Laid
  <2>2. \A n \in N : ~(pos[n] < edge["left"]) /\ ~(pos[n] > edge["right"])
    <3>1. SUFFICES ASSUME NEW n \in N PROVE ~(pos[n] < edge["left"]) /\ ~(pos[n] > edge["right"])
      OBVIOUS
    <3>2. /\ Towards("left", pos[n], end["left"][n]) /\ Towards("right", pos[n], end["right"][n])
          /\ Towards("left", end["left"][n], edge["left"]) /\ Towards("right", end["right"][n], edge["right"])
      BY <1>1 DEF Laid, Ends
    <3>3. end["left"][n] \in Int /\ end["right"][n] \in Int
      BY <1>1
    <3> QED
      BY <2>1, <3>2, <3>3 DEF Towards
  <2>3. end["left"][t.root] = edge["left"] /\ end["right"][t.root] = edge["right"]
    BY <1>1 DEF Laid, AtRoot
  <2> QED
    BY <1>1, <2>2, <2>3 DEF AroundKey
<1>12. Falls(G, at, rank, N, D, next) /\ EndsIn(G, at, D, base, Out)
  <2>1. \A x \in G : at[x] = x /\ x \in N /\ base[x] = x /\ rank[x] = Width(end, x)
    OBVIOUS
  <2> HIDE DEF G, at, rank, D, next, base, Out
  <2>2. \A g \in G : at[g] \in N /\ rank[g] \in Nat
    BY <1>8, <2>1
  <2>3. \A g \in G : at[g] \notin D => \E h \in G : at[h] = next[at[g]] /\ rank[h] < rank[g]
    BY <1>10, <2>1
  <2>4. \A g \in G : at[g] \in D => base[at[g]] \in Out
    BY <1>9, <2>1
  <2> QED
    BY <2>2, <2>3, <2>4 DEF Falls, EndsIn
<1>13. \A g \in G : u[at[g]] \in Out
  <2> HIDE DEF G, at, rank, D, next, base, Out
  <2> QED
    BY <1>7, <1>12, LoopEnds
<1>14. u[t.root] \in Out
  <2>1. at[t.root] = t.root
    BY <1>11
  <2> HIDE DEF G, at, Out
  <2> QED
    BY <1>11, <1>13, <2>1
<1> QED
  BY <1>6, <1>14 DEF u

-----------------------------------------------------------------------------
(***************************************************************************)
(* Insert of a node.                                                       *)
(***************************************************************************)

\* The tree with z among its nodes, not linked yet.
WithNode(t, z, y) ==
  [t EXCEPT !.left = With(@, z, Nil), !.right = With(@, z, Nil),
            !.parent = With(@, z, y), !.dirty = @ \cup {z}, !.size = @ + 1]

\* g is t with z, which has no children yet.
NodeAdded(g, t, z, y) ==
  LET M == Nodes(t) \cup {z}
  IN /\ g.root = t.root /\ g.size = t.size + 1 /\ g.red = t.red /\ g.dirty = t.dirty \cup {z}
     /\ g.parent = [m \in M |-> IF m = z THEN y ELSE t.parent[m]]
     /\ \A c \in Sides : g[c] = [m \in M |-> IF m = z THEN Nil ELSE t[c][m]]

(* A new node has no children, and a parent or none.                         *)
LEMMA WithNodeFields ==
  ASSUME NEW N, NEW t \in Trees(N), NEW z, NEW y \in N \cup {Nil}
  PROVE WithNode(t, z, y) \in Trees(N \cup {z}) /\ NodeAdded(WithNode(t, z, y), t, z, y)
<1> DEFINE g == WithNode(t, z, y)
           M == N \cup {z}
           l == [m \in M |-> IF m = z THEN Nil ELSE t.left[m]]
           r == [m \in M |-> IF m = z THEN Nil ELSE t.right[m]]
           p == [m \in M |-> IF m = z THEN y ELSE t.parent[m]]
<1>1. DOMAIN t.left = N /\ DOMAIN t.right = N /\ DOMAIN t.parent = N
  BY DEF Trees
<1>2. With(t.left, z, Nil) = l /\ With(t.right, z, Nil) = r /\ With(t.parent, z, y) = p
  BY <1>1 DEF With
<1>3. l \in [M -> M \cup {Nil}] /\ r \in [M -> M \cup {Nil}] /\ p \in [M -> M \cup {Nil}]
  BY DEF Trees
<1>7. Nodes(t) = N
  BY Fields
<1>8. t.root \in M \cup {Nil} /\ t.red \subseteq M /\ t.dirty \cup {z} \subseteq M /\ t.size + 1 \in Nat
  BY Fields
<1> HIDE DEF l, r, p, M
<1>4. g = [t EXCEPT !.left = l, !.right = r, !.parent = p, !.dirty = t.dirty \cup {z}, !.size = t.size + 1]
  BY <1>2 DEF WithNode
<1> HIDE DEF g
<1>5. /\ g.root = t.root /\ g.size = t.size + 1 /\ g.red = t.red /\ g.dirty = t.dirty \cup {z}
      /\ g.parent = p /\ g.left = l /\ g.right = r
  BY <1>4 DEF Trees
<1>9. g \in Trees(M)
  BY <1>3, <1>4, <1>8 DEF Trees
<1>6. \A c \in Sides : g[c] = [m \in M |-> IF m = z THEN Nil ELSE t[c][m]]
  BY <1>5 DEF Sides, l, r
<1> QED
  BY <1>5, <1>6, <1>7, <1>9 DEF g, p, M, NodeAdded

\* The tree rbInsertFixup is called with.
Hang(t, z, y, d) == Mark(Colour([WithNode(t, z, y) EXCEPT ![d][y] = z], z, TRUE), {y})

(* What Insert does before it mends the colours.                             *)
LEMMA HangFields ==
  ASSUME NEW N, Nil \notin N, NEW t \in Trees(N), NEW z, z # Nil, z \notin N, NEW y \in N, NEW d \in Sides
  PROVE Hang(t, z, y, d) \in Trees(N \cup {z}) /\ Hung(Hang(t, z, y, d), t, z, y, d)
<1> DEFINE M == N \cup {z}
           g == WithNode(t, z, y)
           k == [g EXCEPT ![d][y] = z]
           red == k.red \cup {z}
           c == [k EXCEPT !.red = red]
           r == Mark(c, {y})
<1>1. /\ Nodes(t) = N /\ y \in M /\ z \in M /\ y # z /\ y # Nil /\ Other(d) \in Sides /\ t.red \subseteq N
  BY Fields, TwoSides
<1>2. /\ g \in Trees(M) /\ g.root = t.root /\ g.size = t.size + 1 /\ g.red = t.red /\ g.dirty = t.dirty \cup {z}
      /\ g.parent = [m \in M |-> IF m = z THEN y ELSE t.parent[m]]
      /\ \A e \in Sides : g[e] = [m \in M |-> IF m = z THEN Nil ELSE t[e][m]]
  <2>1. g \in Trees(M) /\ NodeAdded(g, t, z, y)
    BY WithNodeFields
  <2> QED
    BY <1>1, <2>1 DEF NodeAdded
<1>3. Hang(t, z, y, d) = r
  BY DEF Hang, Colour
<1> HIDE DEF g, M
<1>4. Nodes(g) = M
  BY <1>2, Fields
<1>5. k \in Trees(M) /\ ChildSet(k, g, d, y, z)
  BY <1>1, <1>2, ChildFields
<1> HIDE DEF k
<1>6. red \subseteq M
  BY <1>1, <1>5, Fields
<1>7. c \in Trees(M) /\ SameBut(c, k, red, k.parent) /\ c.dirty = k.dirty
  BY <1>5, <1>6, ColourFields
<1> HIDE DEF c
<1>8. r \in Trees(M) /\ SameBut(r, c, c.red, c.parent) /\ r.dirty = c.dirty \cup {y}
  BY <1>1, <1>7, MarkFields
<1> HIDE DEF r
<1>9. /\ r.root = t.root /\ r.size = t.size + 1 /\ r.red = t.red \cup {z} /\ r.dirty = t.dirty \cup {z, y}
      /\ r.parent = [m \in M |-> IF m = z THEN y ELSE t.parent[m]]
  <2>1. k.root = g.root /\ k.size = g.size /\ k.red = g.red /\ k.parent = g.parent /\ k.dirty = g.dirty
    BY <1>5 DEF ChildSet
  <2>2. r.root = k.root /\ r.size = k.size /\ r.red = k.red \cup {z} /\ r.parent = k.parent /\ r.dirty = k.dirty \cup {y}
    BY <1>7, <1>8 DEF SameBut
  <2> QED
    BY <1>2, <2>1, <2>2
<1>10. r[d] = k[d] /\ r[Other(d)] = k[Other(d)]
  BY <1>1, <1>7, <1>8 DEF SameBut
<1>11. k[d] = [m \in M |-> IF m = y THEN z ELSE g[d][m]] /\ k[Other(d)] = g[Other(d)]
  BY <1>4, <1>5 DEF ChildSet
<1>12. /\ r[d] = [m \in M |-> IF m = z THEN Nil ELSE IF m = y THEN z ELSE t[d][m]]
       /\ r[Other(d)] = [m \in M |-> IF m = z THEN Nil ELSE t[Other(d)][m]]
  <2>1. /\ g[d] = [m \in M |-> IF m = z THEN Nil ELSE t[d][m]]
        /\ g[Other(d)] = [m \in M |-> IF m = z THEN Nil ELSE t[Other(d)][m]]
    BY <1>1, <1>2
  <2>2. k[d] = [m \in M |-> IF m = z THEN Nil ELSE IF m = y THEN z ELSE t[d][m]]
    BY <1>1, <1>11, <2>1
  <2> QED
    BY <1>10, <1>11, <2>1, <2>2
<1> QED
  BY <1>1, <1>3, <1>8, <1>9, <1>12 DEF Hung, M

(* The colours are right but for the new leaf, which is red.                 *)
LEMMA HangColours ==
  ASSUME NEW N, Nil \notin N, NEW t \in Trees(N), NEW z, z # Nil, z \notin N, NEW y \in N, NEW d \in Sides,
         t[d][y] = Nil, NEW r \in Trees(N \cup {z}), Hung(r, t, z, y, d), NEW h, BlackRed(t, h, Nil)
  PROVE Coloured(r, z)
<1> DEFINE M == N \cup {z}
           new == [m \in M |-> IF m = z THEN 0 ELSE h[m]]
           e == Other(d)
<1>1. /\ Nodes(t) = N /\ Nodes(r) = M /\ y # z /\ e \in Sides /\ \A c \in Sides : c = d \/ c = e
      /\ \A c \in Sides : t[c] \in [N -> N \cup {Nil}]
      /\ t.red \subseteq N /\ t.parent \in [N -> N \cup {Nil}]
  BY Fields, TwoSides
<1>2. /\ r.red = t.red \cup {z}
      /\ r.parent = [m \in M |-> IF m = z THEN y ELSE t.parent[m]]
      /\ r[d] = [m \in M |-> IF m = z THEN Nil ELSE IF m = y THEN z ELSE t[d][m]]
      /\ r[e] = [m \in M |-> IF m = z THEN Nil ELSE t[e][m]]
  BY <1>1 DEF Hung
<1>3. /\ h \in [N -> Nat]
      /\ \A n \in N, c \in Sides : h[n] = High(h, t[c][n]) + (IF n \in t.red THEN 0 ELSE 1)
  BY <1>1 DEF BlackRed, Even
<1>4. new \in [M -> Nat] /\ new[z] = 0 /\ \A n \in N : new[n] = h[n]
  BY <1>3
<1> HIDE DEF new, e
<1>5. ASSUME NEW n \in M, NEW c \in Sides
      PROVE new[n] = High(new, r[c][n]) + (IF n \in r.red THEN 0 ELSE 1)
  <2>1. CASE n = z
    BY <1>1, <1>2, <1>4, <2>1 DEF High
  <2>2. CASE n = y /\ c = d
    <3>1. r[c][n] = z /\ t[c][n] = Nil
      BY <1>1, <1>2, <2>2
    <3>2. High(new, r[c][n]) = High(h, t[c][n])
      BY <1>4, <3>1 DEF High
    <3> QED
      BY <1>1, <1>2, <1>3, <1>4, <2>2, <3>2
  <2>3. CASE n \in N /\ ~(n = y /\ c = d)
    <3>1. r[c][n] = t[c][n] /\ t[c][n] \in N \cup {Nil}
      BY <1>1, <1>2, <2>3
    <3>2. High(new, r[c][n]) = High(h, t[c][n])
      BY <1>4, <3>1 DEF High
    <3> QED
      BY <1>1, <1>2, <1>3, <1>4, <2>3, <3>2
  <2> QED
    BY <2>1, <2>2, <2>3
<1>6. Even(r, new)
  BY <1>1, <1>4, <1>5 DEF Even
<1>7. OneRedRed(r, z)
  <2>1. SUFFICES ASSUME NEW n \in r.red, n # z PROVE r.parent[n] # Nil /\ r.parent[n] \notin r.red
    BY DEF OneRedRed
  <2>2. n \in t.red /\ n \in N /\ n # Nil
    BY <1>1, <1>2, <2>1
  <2>3. t.parent[n] # Nil /\ t.parent[n] \notin t.red
    BY <2>2 DEF BlackRed, OneRedRed
  <2>4. r.parent[n] = t.parent[n] /\ t.parent[n] # z
    BY <1>1, <1>2, <2>1, <2>2, <2>3
  <2> QED
    BY <1>2, <2>3, <2>4
<1> QED
  BY <1>2, <1>6, <1>7 DEF Coloured, BlackRed

\* The links of t are a tree's, and the loop over it meets the keys in order.
Sound(t) == \E pos, edge, end : Laid(t, pos, edge, end) /\ Placed(t, pos, edge) /\ Keyed(t, pos)

\* The colours of t are those of a red-black tree.
EvenBlack(t) == \E h : BlackRed(t, h, Nil)

\* r is t and z.
Grew(r, t, z) ==
  r \in Trees(Nodes(t) \cup {z}) /\ Sound(r) /\ Marked(t, r) /\ z \in r.dirty /\ r.size = t.size + 1

(* The first node.                                                           *)
LEMMA InsertFirst ==
  ASSUME NEW t \in Trees({}), t.size = 0, NEW z, z # Nil, Key(z) \in Nat
  PROVE Grew(Insert(t, z), t, z) /\ EvenBlack(Insert(t, z))
<1> DEFINE g == WithNode(t, z, Nil)
           r == [g EXCEPT !.root = z]
           pos == [m \in {z} |-> 1]
           edge == [c \in Sides |-> 1]
           end == [c \in Sides |-> pos]
           h == [m \in {z} |-> 1]
<1>1. t.root = Nil /\ Nodes(t) = {} /\ t.red = {} /\ t.dirty = {}
  BY Fields
<1>2. Insert(t, z) = r
  BY <1>1 DEF Insert, Under, WithNode
<1>3. /\ g \in Trees({z}) /\ g.size = t.size + 1 /\ g.red = t.red /\ g.dirty = t.dirty \cup {z}
      /\ g.parent = [m \in {z} |-> Nil]
      /\ \A c \in Sides : g[c] = [m \in {z} |-> Nil]
  <2>1. g \in Trees({} \cup {z}) /\ NodeAdded(g, t, z, Nil)
    BY WithNodeFields
  <2>2. {} \cup {z} = {z} /\ Nodes(t) \cup {z} = {z}
    BY <1>1
  <2> HIDE DEF g
  <2>3. [m \in {z} |-> IF m = z THEN Nil ELSE t.parent[m]] = [m \in {z} |-> Nil]
    OBVIOUS
  <2>4. \A c \in Sides : [m \in {z} |-> IF m = z THEN Nil ELSE t[c][m]] = [m \in {z} |-> Nil]
    OBVIOUS
  <2> QED
    BY ZenonT(30), <1>1, <2>1, <2>2, <2>3, <2>4 DEF NodeAdded
<1> HIDE DEF g
<1>4. /\ r \in Trees({z}) /\ r.size = t.size + 1 /\ r.red = {} /\ r.dirty = {z} /\ r.root = z
      /\ r.parent = [m \in {z} |-> Nil]
      /\ \A c \in Sides : r[c] = [m \in {z} |-> Nil]
  BY <1>1, <1>3 DEF Trees, Sides
<1> HIDE DEF r
<1>5. Nodes(r) = {z}
  BY <1>4, Fields
<1>6. Laid(r, pos, edge, end)
  <2>1. Ends(r, pos, edge, end)
    BY <1>5 DEF Ends, Towards
  <2>2. Children(r, pos, end)
    BY <1>4, <1>5 DEF Children
  <2>3. AtRoot(r, edge, end)
    BY <1>4, <1>5 DEF AtRoot
  <2>4. Parents(r)
    BY <1>4, <1>5 DEF Parents
  <2> QED
    BY <1>5, <2>1, <2>2, <2>3, <2>4 DEF Laid
<1>7. Placed(r, pos, edge)
  BY <1>4, <1>5 DEF Placed, Sides
<1>8. Keyed(r, pos)
  BY <1>5 DEF Keyed
<1>9. BlackRed(r, h, Nil)
  BY <1>4, <1>5 DEF BlackRed, Even, OneRedRed, High
<1>10. Marked(t, r)
  BY <1>1, <1>4 DEF Marked
<1> HIDE DEF pos, edge, end, h
<1>11. Sound(r)
  BY <1>6, <1>7, <1>8 DEF Sound
<1>12. EvenBlack(r)
  BY <1>9 DEF EvenBlack
<1> QED
  BY <1>1, <1>2, <1>4, <1>10, <1>11, <1>12 DEF Grew

(* The new node has a place among the keys.                                  *)
LEMMA HangKeyed ==
  ASSUME NEW N, NEW t \in Trees(N), NEW pos \in [N -> Int], Keyed(t, pos),
         NEW z, z \notin N, Key(z) \in Nat, NEW y, Splits(t, pos, Key(z), y),
         NEW r \in Trees(N \cup {z})
  PROVE Keyed(r, PosWith(pos, N, z, y, Side(Key(z), y)))
<1> DEFINE d == Side(Key(z), y)
           M == N \cup {z}
           pos2 == PosWith(pos, N, z, y, d)
           key == Key(z)
<1>1. Nodes(t) = N /\ Nodes(r) = M /\ d \in Sides /\ y \in N /\ \A n \in N : pos[n] \in Int /\ Key(n) \in Nat
  BY Fields DEF Splits, Keyed
<1>2. /\ \A n \in N : pos2[n] = Shift(d, pos[y], pos[n])
      /\ pos2[z] = pos[y] + Step(d)
  BY DEF PosWith
<1>3. \A n \in N : IF (IF d = "left" THEN pos[n] < pos[y] ELSE pos[n] <= pos[y])
                   THEN Key(n) >= key ELSE Key(n) <= key
  BY <1>1 DEF Splits
<1>4. \A m, n \in N : pos[m] < pos[n] => Key(m) >= Key(n)
  BY <1>1 DEF Keyed
<1> HIDE DEF pos2, d, key
<1>5. ASSUME NEW n \in N PROVE /\ pos2[n] < pos2[z] => Key(n) >= key
                               /\ pos2[z] < pos2[n] => key >= Key(n)
  <2> DEFINE b == IF d = "left" THEN pos[n] < pos[y] ELSE pos[n] <= pos[y]
  <2>1. pos[n] \in Int /\ pos[y] \in Int /\ Key(n) \in Nat /\ key \in Nat
    BY <1>1 DEF key
  <2>2. /\ pos2[n] < pos2[z] => b
        /\ pos2[z] < pos2[n] => ~b
    <3>1. /\ (Shift(d, pos[y], pos[n]) < pos[y] + Step(d) <=> b)
          /\ (Shift(d, pos[y], pos[n]) > pos[y] + Step(d) <=> (IF d = "left" THEN pos[n] >= pos[y] ELSE pos[n] > pos[y]))
      BY <1>1, <2>1, ShiftOne
    <3>2. pos2[n] = Shift(d, pos[y], pos[n]) /\ pos2[z] = pos[y] + Step(d)
      BY <1>2
    <3>3. pos2[n] \in Int /\ pos2[z] \in Int
      BY <1>1, <2>1, <3>2, ShiftOne DEF Step
    <3> QED
      BY <2>1, <3>1, <3>2, <3>3
  <2>3. IF b THEN Key(n) >= key ELSE Key(n) <= key
    BY <1>3
  <2> HIDE DEF b
  <2> QED
    BY <2>1, <2>2, <2>3
<1>6. ASSUME NEW m \in N, NEW n \in N, pos2[m] < pos2[n] PROVE Key(m) >= Key(n)
  <2>1. pos[m] \in Int /\ pos[n] \in Int /\ pos[y] \in Int
    BY <1>1
  <2>2. pos[m] < pos[n]
    BY <1>1, <1>2, <1>6, <2>1, ShiftTwo
  <2> QED
    BY <1>4, <2>2
<1>7. \A m, n \in M : pos2[m] < pos2[n] => Key(m) >= Key(n)
  <2>1. ~(pos2[z] < pos2[z]) /\ Key(z) = key
    <3>1. pos2[z] \in Int
      BY <1>1, <1>2 DEF Step
    <3> QED
      BY <3>1 DEF key
  <2> QED
    BY <1>5, <1>6, <2>1
<1> QED
  BY <1>1, <1>7 DEF Keyed, pos2, d, key

(* Insert keeps a sound tree sound, with the new node in the order of its     *)
(* key, marks every node it changes and, on a red-black tree, dereferences no *)
(* nil node and leaves a red-black tree (tree.go:34-67, 115-164).             *)
THEOREM InsertSound ==
  ASSUME NEW N, NEW t \in Trees(N), Sound(t), NEW z, z \notin N, Nil \notin N \cup {z}, Key(z) \in Nat
  PROVE \/ Grew(Insert(t, z), t, z) /\ (EvenBlack(t) => EvenBlack(Insert(t, z)))
        \/ Insert(t, z) = NilPointer /\ ~EvenBlack(t)
<1>1. PICK pos, edge, end : Laid(t, pos, edge, end) /\ Placed(t, pos, edge) /\ Keyed(t, pos)
  BY DEF Sound
<1>2. Nodes(t) = N /\ pos \in [N -> Int] /\ edge["left"] \in Int /\ edge["right"] \in Int
  BY <1>1, Fields DEF Laid, Sides
<1>3. CASE N = {}
  <2>1. t.size = 0
    <3>1. edge["left"] .. edge["right"] = {}
      BY <1>1, <1>2, <1>3 DEF Placed
    <3>2. ~(edge["left"] <= edge["right"])
      BY <1>2, <3>1
    <3> QED
      BY <1>1, <1>2, <3>2, Fields DEF Placed
  <2> QED
    BY <1>3, <2>1, InsertFirst
<1>4. CASE N # {}
  <2> DEFINE y == Under(t, Key(z))
             d == Side(Key(z), y)
             k == Hang(t, z, y, d)
             r == Insert(t, z)
             pos2 == PosWith(pos, N, z, y, d)
             edge2 == EdgeWith(edge, d)
             M == N \cup {z}
  <2>1. Splits(t, pos, Key(z), y)
    BY <1>1, <1>4, UnderSplits
  <2>2. y \in N /\ d \in Sides /\ t[d][y] = Nil /\ y # Nil /\ z # Nil
    BY <1>2, <2>1 DEF Splits
  <2>3. r = rbInsertFixup(k, z)
    BY <2>2 DEF Insert, Hang, WithNode
  <2> HIDE DEF y
  <2>4. k \in Trees(M) /\ Hung(k, t, z, y, d)
    BY <2>2, HangFields
  <2> HIDE DEF k, r
  <2>5. Placed(k, pos2, edge2) /\ \E end2 : Laid(k, pos2, edge2, end2)
    BY <1>1, <2>2, <2>4, HangLaid
  <2>6. Keyed(k, pos2)
    BY <1>1, <1>2, <2>1, <2>4, HangKeyed
  <2> HIDE DEF pos2, edge2, d
  <2>7. FixedUp(r, k, pos2, edge2, Coloured(k, z))
    <3>1. PICK end2 : Laid(k, pos2, edge2, end2)
      BY <2>5
    <3> QED
      BY <2>3, <2>4, <3>1, InsertFixup
  <2>8. EvenBlack(t) => Coloured(k, z)
    BY <2>2, <2>4, HangColours DEF EvenBlack
  <2>9. Nodes(k) = M
    BY <2>4, Fields
  <2>10. Kept(r, k, pos2, edge2) => Grew(r, t, z)
    <3>1. SUFFICES ASSUME Kept(r, k, pos2, edge2) PROVE Grew(r, t, z)
      OBVIOUS
    <3>2. r \in Trees(M) /\ Marked(k, r) /\ r.size = k.size /\ \E end3 : Laid(r, pos2, edge2, end3)
      BY <2>9, <3>1 DEF Kept
    <3>3. Nodes(r) = M
      BY <3>2, Fields
    <3>4. Placed(r, pos2, edge2) /\ Keyed(r, pos2)
      BY <2>5, <2>6, <2>9, <3>2, <3>3 DEF Placed, Keyed
    <3>5. Sound(r)
      BY <3>2, <3>4 DEF Sound
    <3>6. Marked(t, r) /\ z \in r.dirty /\ r.size = t.size + 1
      <4>1. /\ k.size = t.size + 1 /\ k.red = t.red \cup {z} /\ k.dirty = t.dirty \cup {z, y}
            /\ k[d] = [m \in M |-> IF m = z THEN Nil ELSE IF m = y THEN z ELSE t[d][m]]
            /\ k[Other(d)] = [m \in M |-> IF m = z THEN Nil ELSE t[Other(d)][m]]
        BY <1>2, <2>4 DEF Hung
      <4>2. t.dirty \subseteq r.dirty /\ z \in r.dirty /\ y \in r.dirty
        BY <3>2, <4>1 DEF Marked
      <4>3. \A n \in N : n \notin r.dirty => k[d][n] = t[d][n] /\ k[Other(d)][n] = t[Other(d)][n] /\ (n \in k.red <=> n \in t.red)
        BY <4>1, <4>2
      <4>4. \A n \in N : n \notin r.dirty => \A c \in Sides : k[c][n] = t[c][n]
        BY <2>2, <4>3, TwoSides
      <4>5. \A n \in N : n \notin r.dirty => (\A c \in Sides : r[c][n] = k[c][n]) /\ (n \in r.red <=> n \in k.red)
        BY <2>9, <3>2 DEF Marked
      <4>6. \A n \in N : n \notin r.dirty => (\A c \in Sides : r[c][n] = t[c][n]) /\ (n \in r.red <=> n \in t.red)
        BY <4>3, <4>4, <4>5
      <4> QED
        BY <1>2, <3>2, <4>1, <4>2, <4>6 DEF Marked
    <3> QED
      BY <1>2, <3>2, <3>5, <3>6 DEF Grew
  <2>11. FixedUp(r, k, pos2, edge2, Coloured(k, z)) =>
           \/ Kept(r, k, pos2, edge2) /\ (Coloured(k, z) => EvenBlack(r))
           \/ ~Coloured(k, z) /\ r = NilPointer
    BY DEF FixedUp, EvenBlack
  <2> QED
    BY <2>7, <2>8, <2>10, <2>11 DEF r
<1> QED
  BY <1>3, <1>4

-----------------------------------------------------------------------------
(***************************************************************************)
(* findnode.                                                               *)
(***************************************************************************)

\* Only nodes under x may have the key; none where x is nil.
MaybeUnder(t, pos, end, key, x) ==
  \A n \in Nodes(t) : IF x = Nil THEN Key(n) # key
                      ELSE /\ pos[n] < end["left"][x] => Key(n) # key
                           /\ pos[n] > end["right"][x] => Key(n) # key

(* A key that is in the tree is found, and no other (tree.go:303-317).       *)
THEOREM FindSound ==
  ASSUME NEW N, Nil \notin N, NEW t \in Trees(N), Sound(t), NEW key \in Nat
  PROVE LET n == findnode(t, key) IN
        IF n = Nil THEN \A m \in N : Key(m) # key ELSE n \in N /\ Key(n) = key
<1>0. PICK pos, edge, end : Laid(t, pos, edge, end) /\ Placed(t, pos, edge) /\ Keyed(t, pos)
  BY DEF Sound
<1> DEFINE on(x) == t[Side(key, x)][x]
           hit(x) == Side(key, x) = "right" /\ key = Key(x)
           S == N \cup {Nil}
           D == {x \in S : x = Nil \/ hit(x)}
           base == [x \in S |-> x]
           next == [x \in S |-> on(x)]
           G == {x \in S : MaybeUnder(t, pos, end, key, x)}
           at == [x \in G |-> x]
           rank == [x \in G |-> IF x = Nil THEN 0 ELSE 1 + Width(end, x)]
           Good(n) == IF n = Nil THEN \A m \in N : Key(m) # key ELSE n \in N /\ Key(n) = key
           Out == {n \in S : Good(n)}
           F(f) == f = [x \in S |-> IF x = Nil THEN Nil ELSE IF hit(x) THEN x ELSE f[on(x)]]
<1>1. /\ Nodes(t) = N /\ t.root \in S /\ \A x \in N : Side(key, x) \in Sides /\ Key(x) \in Nat
      /\ pos \in [N -> Int] /\ \A c \in Sides : end[c] \in [N -> Int] /\ t[c] \in [N -> N \cup {Nil}]
      /\ "left" \in Sides /\ "right" \in Sides
  BY <1>0, Fields DEF Laid, AtRoot, Side, Sides, Keyed
<1>2. \A x \in S : x \notin D => next[x] \in S
  BY <1>1
<1>3. PICK f : IsLoop(f, S, D, base, next)
  BY <1>2, LoopExists
<1>4. \A g : IsLoop(g, S, D, base, next) <=> F(g)
  BY DEF IsLoop
<1>5. F(CHOOSE g : F(g))
  <2> HIDE DEF F
  <2> QED
    BY <1>3, <1>4
<1>6. findnode(t, key) = (CHOOSE g : F(g))[t.root]
  BY <1>1 DEF findnode
<1> DEFINE u == CHOOSE g : F(g)
<1>7. IsLoop(u, S, D, base, next)
  BY <1>4, <1>5
<1> HIDE DEF u
<1>8. \A x \in N : Width(end, x) \in Nat
  <2>1. \A x \in N : Towards("left", pos[x], end["left"][x]) /\ Towards("right", pos[x], end["right"][x])
    BY <1>0, <1>1 DEF Laid, Ends
  <2> QED
    BY <1>1, <2>1 DEF Width, Towards
<1>9. ASSUME NEW x \in G, x \in D PROVE x \in Out
  BY <1>1, <1>9 DEF MaybeUnder
<1>10. ASSUME NEW x \in G, x \notin D
       PROVE next[x] \in G /\ x # Nil /\ (next[x] # Nil => Width(end, next[x]) < Width(end, x))
  <2> DEFINE d == Side(key, x)
             y == t[d][x]
  <2>1. x \in N /\ x # Nil /\ y \in S /\ d \in Sides /\ MaybeUnder(t, pos, end, key, x) /\ next[x] = y
        /\ (d = "right" => key # Key(x))
    BY <1>1, <1>10
  <2>2. /\ \A n \in N : d = "left" /\ pos[n] >= pos[x] => Key(n) < key
        /\ \A n \in N : d = "right" /\ key # Key(x) /\ pos[n] <= pos[x] => Key(n) > key
        /\ y # Nil => /\ end[d][y] = end[d][x]
                      /\ d = "left" => end["right"][y] = pos[x] - 1
                      /\ d = "right" => end["left"][y] = pos[x] + 1
    <3>1. x \in N
      BY <2>1
    <3> HIDE DEF D, G, Out, next, base, at, rank
    <3> QED
      BY <1>0, <3>1, GoDown
  <2>3. y # Nil => Width(end, y) < Width(end, x)
    <3>1. y # Nil => y \in N
      BY <2>1
    <3> HIDE DEF D, G, Out, next, base, at, rank, y, d
    <3> QED
      BY <1>0, <2>1, <3>1, ChildWidth DEF y
  <2>4. \A n \in N : /\ pos[n] < end["left"][x] => Key(n) # key
                     /\ pos[n] > end["right"][x] => Key(n) # key
    BY <1>1, <2>1 DEF MaybeUnder
  <2>5. \A n \in N : pos[n] \in Int /\ pos[x] \in Int /\ Key(n) \in Nat
    BY <1>1, <2>1
  <2>6. y = Nil => end[d][x] = pos[x]
    BY <1>0, <1>1, <2>1 DEF Laid, Children
  <2> HIDE DEF d, y
  <2>7. \A n \in N : IF y = Nil THEN Key(n) # key
                     ELSE /\ pos[n] < end["left"][y] => Key(n) # key
                          /\ pos[n] > end["right"][y] => Key(n) # key
    <3>1. CASE d = "left"
      BY <2>1, <2>2, <2>4, <2>5, <2>6, <3>1
    <3>2. CASE d = "right"
      BY <2>1, <2>2, <2>4, <2>5, <2>6, <3>2
    <3> QED
      BY <2>1, <3>1, <3>2 DEF Sides
  <2> QED
    BY <1>1, <2>1, <2>3, <2>7 DEF MaybeUnder
<1>11. t.root \in G
  <2>1. CASE t.root = Nil
    BY <1>0, <1>1, <2>1 DEF MaybeUnder, Laid, AtRoot
  <2>2. CASE t.root # Nil
    <3>1. \A n \in N : ~(pos[n] < edge["left"]) /\ ~(pos[n] > edge["right"])
      <4>1. SUFFICES ASSUME NEW n \in N PROVE ~(pos[n] < edge["left"]) /\ ~(pos[n] > edge["right"])
        OBVIOUS
      <4>2. /\ Towards("left", pos[n], end["left"][n]) /\ Towards("right", pos[n], end["right"][n])
            /\ Towards("left", end["left"][n], edge["left"]) /\ Towards("right", end["right"][n], edge["right"])
        BY <1>0, <1>1 DEF Laid, Ends
      <4>3. end["left"][n] \in Int /\ end["right"][n] \in Int /\ pos[n] \in Int
            /\ edge["left"] \in Int /\ edge["right"] \in Int
        BY <1>0, <1>1 DEF Laid
      <4> QED
        BY <4>2, <4>3 DEF Towards
    <3>2. end["left"][t.root] = edge["left"] /\ end["right"][t.root] = edge["right"]
      BY <1>0, <1>1, <2>2 DEF Laid, AtRoot
    <3> QED
      BY <1>1, <2>2, <3>1, <3>2 DEF MaybeUnder
  <2> QED
    BY <2>1, <2>2
<1>12. Falls(G, at, rank, S, D, next) /\ EndsIn(G, at, D, base, Out)
  <2>1. \A x \in G : at[x] = x /\ x \in S /\ base[x] = x /\ rank[x] = IF x = Nil THEN 0 ELSE 1 + Width(end, x)
    OBVIOUS
  <2>5. \A x \in S : x = Nil \/ x \in N
    OBVIOUS
  <2> HIDE DEF G, at, rank, D, next, base, Out, S
  <2>2. \A g \in G : at[g] \in S /\ rank[g] \in Nat
    BY <1>8, <2>1, <2>5
  <2>3. \A g \in G : at[g] \notin D => \E h \in G : at[h] = next[at[g]] /\ rank[h] < rank[g]
    <3>1. SUFFICES ASSUME NEW g \in G, g \notin D PROVE next[g] \in G /\ rank[next[g]] < rank[g]
      BY <2>1
    <3>2. next[g] \in G /\ g # Nil /\ (next[g] # Nil => Width(end, next[g]) < Width(end, g))
      BY <1>10, <3>1
    <3>3. rank[g] = 1 + Width(end, g) /\ Width(end, g) \in Nat
      BY <1>8, <2>1, <2>5, <3>2
    <3>4. next[g] # Nil => Width(end, next[g]) \in Nat
      BY <1>8, <2>1, <2>5, <3>2
    <3> QED
      BY <2>1, <3>2, <3>3, <3>4
  <2>4. \A g \in G : at[g] \in D => base[at[g]] \in Out
    BY <1>9, <2>1
  <2> QED
    BY <2>2, <2>3, <2>4 DEF Falls, EndsIn
<1>13. \A g \in G : u[at[g]] \in Out
  <2> HIDE DEF G, at, rank, D, next, base, Out, S
  <2> QED
    BY <1>7, <1>12, LoopEnds
<1>14. u[t.root] \in Out
  <2>1. at[t.root] = t.root
    BY <1>11
  <2> HIDE DEF G, at, Out
  <2> QED
    BY <1>11, <1>13, <2>1
<1>15. Good(u[t.root])
  BY <1>14
<1> QED
  BY <1>6, <1>15 DEF u

-----------------------------------------------------------------------------
(***************************************************************************)
(* The order the nodes are met in.                                         *)
(***************************************************************************)

(* Widths are lengths within that of the whole tree.                         *)
LEMMA Widths ==
  ASSUME NEW N, NEW t \in Trees(N), NEW pos, NEW edge, NEW end, Laid(t, pos, edge, end), NEW x \in N
  PROVE /\ Width(end, x) \in Nat /\ edge["right"] - edge["left"] - Width(end, x) \in Nat
        /\ pos[x] \in Int /\ edge["left"] \in Int /\ edge["right"] \in Int
        /\ edge["left"] <= pos[x] /\ pos[x] <= edge["right"]
        /\ \A c \in Sides : end[c][x] \in Int
<1>1. Nodes(t) = N /\ "left" \in Sides /\ "right" \in Sides
  BY Fields DEF Sides
<1>2. /\ Towards("left", pos[x], end["left"][x]) /\ Towards("right", pos[x], end["right"][x])
      /\ Towards("left", end["left"][x], edge["left"]) /\ Towards("right", end["right"][x], edge["right"])
  BY <1>1 DEF Laid, Ends
<1>3. pos[x] \in Int /\ (\A c \in Sides : end[c][x] \in Int) /\ edge["left"] \in Int /\ edge["right"] \in Int
  BY <1>1 DEF Laid
<1>4. end["left"][x] \in Int /\ end["right"][x] \in Int
  BY <1>1, <1>3
<1> QED
  BY <1>2, <1>3, <1>4 DEF Towards, Width

(* minimum is the first node under n (tree.go:344-349).                      *)
LEMMA MinimumFirst ==
  ASSUME NEW N, Nil \notin N, NEW t \in Trees(N), NEW pos, NEW edge, NEW end, Laid(t, pos, edge, end),
         NEW n \in N
  PROVE /\ minimum(t, n) \in N /\ pos[minimum(t, n)] = end["left"][n]
        /\ t["left"][minimum(t, n)] = Nil
<1> DEFINE on(x) == t["left"][x]
           D == {x \in N : on(x) = Nil}
           base == [x \in N |-> x]
           next == [x \in N |-> on(x)]
           G == {x \in N : end["left"][x] = end["left"][n]}
           at == [x \in G |-> x]
           rank == [x \in G |-> Width(end, x)]
           Out == {m \in N : pos[m] = end["left"][n] /\ on(m) = Nil}
           F(f) == f = [x \in N |-> IF on(x) = Nil THEN x ELSE f[on(x)]]
<1>1. Nodes(t) = N /\ t["left"] \in [N -> N \cup {Nil}] /\ "left" \in Sides
  BY Fields DEF Sides
<1>2. \A x \in N : x \notin D => next[x] \in N
  BY <1>1
<1>3. PICK f : IsLoop(f, N, D, base, next)
  BY <1>2, LoopExists
<1>4. \A g : IsLoop(g, N, D, base, next) <=> F(g)
  BY DEF IsLoop
<1>5. F(CHOOSE g : F(g))
  <2> HIDE DEF F
  <2> QED
    BY <1>3, <1>4
<1>6. minimum(t, n) = (CHOOSE g : F(g))[n]
  BY <1>1 DEF minimum
<1> DEFINE u == CHOOSE g : F(g)
<1>7. IsLoop(u, N, D, base, next)
  BY <1>4, <1>5
<1> HIDE DEF u
<1>8. ASSUME NEW x \in G, x \in D PROVE x \in Out
  BY <1>1, <1>8 DEF Laid, Children
<1>9. ASSUME NEW x \in G, x \notin D PROVE next[x] \in G /\ Width(end, next[x]) < Width(end, x)
  <2> DEFINE y == on(x)
  <2>1. x \in N /\ y \in N /\ y # Nil /\ next[x] = y /\ end["left"][x] = end["left"][n] /\ t["left"][x] = y
    BY <1>1, <1>9
  <2> HIDE DEF y
  <2>2. end["left"][y] = end["left"][x]
    BY <1>1, <2>1, ChildBeyond
  <2>3. Width(end, y) < Width(end, x)
    BY <1>1, <2>1, ChildWidth
  <2> QED
    BY <2>1, <2>2, <2>3
<1>10. Falls(G, at, rank, N, D, next) /\ EndsIn(G, at, D, base, Out)
  <2>1. \A x \in G : at[x] = x /\ x \in N /\ base[x] = x /\ rank[x] = Width(end, x)
    OBVIOUS
  <2>5. \A x \in N : Width(end, x) \in Nat
    BY Widths
  <2> HIDE DEF G, at, rank, D, next, base, Out
  <2>2. \A g \in G : at[g] \in N /\ rank[g] \in Nat
    BY <2>1, <2>5
  <2>3. \A g \in G : at[g] \notin D => \E h \in G : at[h] = next[at[g]] /\ rank[h] < rank[g]
    BY <1>9, <2>1
  <2>4. \A g \in G : at[g] \in D => base[at[g]] \in Out
    BY <1>8, <2>1
  <2> QED
    BY <2>2, <2>3, <2>4 DEF Falls, EndsIn
<1>11. n \in G /\ at[n] = n
  OBVIOUS
<1>12. \A g \in G : u[at[g]] \in Out
  <2> HIDE DEF G, at, rank, D, next, base, Out
  <2> QED
    BY <1>7, <1>10, LoopEnds
<1>13. u[n] \in Out
  <2> HIDE DEF G, at, Out
  <2> QED
    BY <1>11, <1>12
<1> QED
  BY <1>6, <1>13 DEF u

\* y is the node after n, or nil after the last.
Follows(y, n, pos, edge) ==
  IF y = Nil THEN pos[n] = edge["right"] ELSE pos[y] = pos[n] + 1

(* successor is the next node in the order, or nil after the last            *)
(* (tree.go:351-361).                                                        *)
LEMMA SuccessorNext ==
  ASSUME NEW N, Nil \notin N, NEW t \in Trees(N), NEW pos, NEW edge, NEW end, Laid(t, pos, edge, end),
         NEW n \in N
  PROVE successor(t, n) \in N \cup {Nil} /\ Follows(successor(t, n), n, pos, edge)
<1>0. Nodes(t) = N /\ \A c \in Sides : t[c] \in [N -> N \cup {Nil}]
  BY Fields
<1>20. /\ t["right"] \in [N -> N \cup {Nil}] /\ t["left"] \in [N -> N \cup {Nil}]
       /\ "left" \in Sides /\ "right" \in Sides /\ t.parent \in [N -> N \cup {Nil}]
       /\ Other("left") = "right" /\ Other("right") = "left" /\ Step("right") = 1 /\ Step("left") = -1
  BY <1>0, Fields DEF Sides, Other, Step
<1>1. CASE t.right[n] # Nil
  <2> DEFINE r == t["right"][n]
  <2>1. successor(t, n) = minimum(t, r)
    BY <1>1 DEF successor
  <2>2. r \in N /\ end["left"][r] = pos[n] + 1
    BY <1>1, <1>20, ChildBeyond
  <2>3. minimum(t, r) \in N /\ pos[minimum(t, r)] = end["left"][r]
    BY <2>2, MinimumFirst
  <2> QED
    BY <2>1, <2>2, <2>3 DEF Follows
<1>2. CASE t.right[n] = Nil
  <2> DEFINE on(x) == t.parent[x]
             stop(x) == on(x) = Nil \/ x # t.right[on(x)]
             D == {x \in N : stop(x)}
             base == [x \in N |-> on(x)]
             next == [x \in N |-> on(x)]
             G == {x \in N : end["right"][x] = pos[n]}
             at == [x \in G |-> x]
             w == edge["right"] - edge["left"]
             rank == [x \in G |-> w - Width(end, x)]
             Out == {y \in N \cup {Nil} : Follows(y, n, pos, edge)}
             F(f) == f = [x \in N |-> IF stop(x) THEN on(x) ELSE f[on(x)]]
  <2>2. \A x \in N : x \notin D => next[x] \in N
    BY <1>20
  <2>3. PICK f : IsLoop(f, N, D, base, next)
    BY <2>2, LoopExists
  <2>4. \A g : IsLoop(g, N, D, base, next) <=> F(g)
    BY DEF IsLoop
  <2>5. F(CHOOSE g : F(g))
    <3> HIDE DEF F
    <3> QED
      BY <2>3, <2>4
  <2>6. successor(t, n) = (CHOOSE g : F(g))[n]
    BY <1>0, <1>2 DEF successor
  <2> DEFINE u == CHOOSE g : F(g)
  <2>7. IsLoop(u, N, D, base, next)
    BY <2>4, <2>5
  <2> HIDE DEF u
  <2>8. ASSUME NEW x \in G, x \in D PROVE base[x] \in Out
    <3> DEFINE y == t.parent[x]
    <3>1. x \in N /\ end["right"][x] = pos[n] /\ base[x] = y /\ (y = Nil \/ x # t.right[y]) /\ y \in N \cup {Nil}
      BY <1>20, <2>8
    <3> HIDE DEF y, G, D, base, next, at, rank
    <3>2. CASE y = Nil
      <4>1. x = t.root /\ x # Nil
        BY <1>0, <3>1, <3>2 DEF Laid, Parents, y
      <4>2. end["right"][x] = edge["right"]
        BY <1>0, <1>20, <4>1 DEF Laid, AtRoot
      <4> QED
        BY <3>1, <3>2, <4>2 DEF Follows
    <3>3. CASE y # Nil
      <4>1. PICK c \in Sides : t[c][y] = x
        BY <1>0, <3>1, <3>3 DEF Laid, Parents, y
      <4>2. c = "left" /\ y \in N /\ x # Nil
        BY <3>1, <3>3, <4>1 DEF Sides
      <4>4. pos[y] \in Int
        BY <4>2, Widths
      <4>5. t["left"][y] = x
        BY <4>1, <4>2
      <4>6. end["right"][x] = pos[y] + Step("left")
        BY <1>20, <4>2, <4>5, ChildBeyond
      <4>3. end["right"][x] = pos[y] - 1
        BY <1>20, <4>4, <4>6
      <4> QED
        BY <3>1, <3>3, <4>2, <4>3, <4>4 DEF Follows
    <3> QED
      BY <3>2, <3>3
  <2>9. ASSUME NEW x \in G, x \notin D PROVE next[x] \in G /\ Width(end, x) < Width(end, next[x])
    <3> DEFINE y == t.parent[x]
    <3>1. /\ x \in N /\ y \in N /\ x # Nil /\ next[x] = y /\ end["right"][x] = pos[n] /\ t["right"][y] = x
      BY <1>20, <2>9
    <3> HIDE DEF y
    <3>2. end["right"][y] = end["right"][x]
      BY <1>20, <3>1, ChildBeyond
    <3>3. Width(end, x) < Width(end, y)
      BY <1>20, <3>1, ChildWidth
    <3> QED
      BY <3>1, <3>2, <3>3
  <2>10. Falls(G, at, rank, N, D, next) /\ EndsIn(G, at, D, base, Out)
    <3>1. \A x \in G : at[x] = x /\ x \in N /\ rank[x] = w - Width(end, x)
      OBVIOUS
    <3>5. \A x \in N : Width(end, x) \in Nat /\ w - Width(end, x) \in Nat
      BY Widths
    <3>6. \A x \in N : w \in Int
      BY Widths
    <3> HIDE DEF G, at, rank, D, next, base, Out, w
    <3>2. \A g \in G : at[g] \in N /\ rank[g] \in Nat
      BY <3>1, <3>5
    <3>3. \A g \in G : at[g] \notin D => \E h \in G : at[h] = next[at[g]] /\ rank[h] < rank[g]
      <4>1. SUFFICES ASSUME NEW g \in G, g \notin D PROVE next[g] \in G /\ rank[next[g]] < rank[g]
        BY <3>1
      <4>2. next[g] \in G /\ Width(end, g) < Width(end, next[g])
        BY <2>9, <4>1
      <4>3. Width(end, g) \in Nat /\ Width(end, next[g]) \in Nat /\ w \in Int
        BY <3>1, <3>5, <3>6, <4>2
      <4> QED
        BY <3>1, <4>2, <4>3
    <3>4. \A g \in G : at[g] \in D => base[at[g]] \in Out
      BY <2>8, <3>1
    <3> QED
      BY <3>2, <3>3, <3>4 DEF Falls, EndsIn
  <2>11. n \in G /\ at[n] = n
    <3>1. end["right"][n] = pos[n]
      BY <1>0, <1>2, <1>20 DEF Laid, Children
    <3> QED
      BY <3>1
  <2>12. \A g \in G : u[at[g]] \in Out
    <3> HIDE DEF G, at, rank, D, next, base, Out
    <3> QED
      BY <2>7, <2>10, LoopEnds
  <2>13. u[n] \in Out
    <3> HIDE DEF G, at, Out
    <3> QED
      BY <2>11, <2>12
  <2> QED
    BY <2>6, <2>13 DEF u
<1> QED
  BY <1>1, <1>2

\* s is the list of the nodes from n on.
ListFrom(s, n, N, pos, edge) ==
  /\ s \in Seq(N) /\ Len(s) = edge["right"] - pos[n] + 1
  /\ \A i \in 1 .. Len(s) : pos[s[i]] = pos[n] + i - 1

(* The list from n on is n and the list from the next node on.               *)
LEMMA ConsList ==
  ASSUME NEW N, NEW pos \in [N -> Int], NEW edge, edge["right"] \in Int, NEW n \in N, NEW y, NEW s,
         Follows(y, n, pos, edge),
         IF y = Nil THEN s = <<>> ELSE y \in N /\ ListFrom(s, y, N, pos, edge)
  PROVE ListFrom(<<n>> \o s, n, N, pos, edge)
<1>1. pos[n] \in Int /\ <<n>> \in Seq(N) /\ Len(<<n>>) = 1 /\ <<n>>[1] = n
  OBVIOUS
<1>2. CASE y = Nil
  <2>1. <<n>> \o s = <<n>>
    BY <1>1, <1>2, ConcatEmptySeq
  <2>2. \A i \in 1 .. 1 : pos[<<n>>[i]] = pos[n] + i - 1
    BY <1>1
  <2> QED
    BY <1>1, <1>2, <2>1, <2>2 DEF Follows, ListFrom
<1>3. CASE y # Nil
  <2>1. /\ s \in Seq(N) /\ Len(s) = edge["right"] - pos[y] + 1 /\ pos[y] = pos[n] + 1 /\ Len(s) \in Nat
        /\ \A i \in 1 .. Len(s) : pos[s[i]] = pos[y] + i - 1
    BY <1>3 DEF ListFrom, Follows
  <2> DEFINE l == <<n>> \o s
  <2>2. /\ l \in Seq(N) /\ Len(l) = Len(<<n>>) + Len(s)
        /\ \A i \in 1 .. Len(<<n>>) + Len(s) : l[i] = IF i <= Len(<<n>>) THEN <<n>>[i] ELSE s[i - Len(<<n>>)]
    BY <1>1, <2>1, ConcatProperties
  <2> HIDE DEF l
  <2>3. Len(l) = 1 + Len(s) /\ \A i \in 1 .. 1 + Len(s) : l[i] = IF i <= 1 THEN <<n>>[i] ELSE s[i - 1]
    BY <1>1, <2>1, <2>2
  <2>4. Len(l) = edge["right"] - pos[n] + 1
    BY SMTT(30), <1>1, <2>1, <2>3
  <2>5. \A i \in 1 .. Len(l) : pos[l[i]] = pos[n] + i - 1
    <3>1. SUFFICES ASSUME NEW i \in 1 .. 1 + Len(s) PROVE pos[l[i]] = pos[n] + i - 1
      BY <2>3
    <3>2. CASE i = 1
      BY <1>1, <2>3, <3>2
    <3>3. CASE i # 1
      <4>1. i - 1 \in 1 .. Len(s) /\ i \in Int
        BY <2>1, <3>3
      <4>2. l[i] = s[i - 1]
        BY <2>3, <3>3, <4>1
      <4>3. pos[s[i - 1]] = pos[y] + (i - 1) - 1
        BY <2>1, <4>1
      <4> QED
        BY <1>1, <2>1, <4>1, <4>2, <4>3
    <3> QED
      BY <3>2, <3>3
  <2> QED
    BY <2>2, <2>4, <2>5 DEF ListFrom, l
<1> QED
  BY <1>2, <1>3

(* There is one list from n on.                                              *)
LEMMA OneList ==
  ASSUME NEW N, NEW pos \in [N -> Int], NEW edge, \A m, n \in N : pos[m] = pos[n] => m = n,
         NEW n \in N, NEW s, NEW l, ListFrom(s, n, N, pos, edge), ListFrom(l, n, N, pos, edge)
  PROVE s = l
<1>1. s \in Seq(N) /\ l \in Seq(N) /\ Len(s) = Len(l)
  BY DEF ListFrom
<1>2. \A i \in 1 .. Len(s) : s[i] = l[i]
  <2>1. SUFFICES ASSUME NEW i \in 1 .. Len(s) PROVE s[i] = l[i]
    OBVIOUS
  <2>2. s[i] \in N /\ l[i] \in N
    BY <1>1, ElementOfSeq
  <2>3. pos[s[i]] = pos[l[i]]
    BY <1>1 DEF ListFrom
  <2> QED
    BY <2>2, <2>3
<1> QED
  BY <1>1, <1>2, SeqEqual

(* The loop over a tree meets the nodes in their order                       *)
(* (tree.go:336-361).                                                        *)
LEMMA IterationList ==
  ASSUME NEW N, Nil \notin N, NEW t \in Trees(N), NEW pos, NEW edge, NEW end, Laid(t, pos, edge, end),
         Placed(t, pos, edge), t.root # Nil
  PROVE \E m \in N : pos[m] = edge["left"] /\ ListFrom(Iteration(t), m, N, pos, edge)
<1> DEFINE S == N \cup {Nil}
           at(i) == CHOOSE n \in N : pos[n] = i
           W == [n \in S |-> IF n = Nil THEN <<>>
                             ELSE [i \in 1 .. (edge["right"] - pos[n] + 1) |-> at(pos[n] + i - 1)]]
           F(f) == f = [n \in S |-> IF n = Nil THEN <<>> ELSE <<n>> \o f[successor(t, n)]]
           m == minimum(t, t.root)
           List(s, n) == ListFrom(s, n, N, pos, edge)
<1>1. Nodes(t) = N /\ t.root \in N /\ pos \in [N -> Int] /\ edge["left"] \in Int /\ edge["right"] \in Int
  BY Fields DEF Laid, Sides
<1>2. \A i \in edge["left"] .. edge["right"] : at(i) \in N /\ pos[at(i)] = i
  BY <1>1 DEF Placed
<1>3. \A n \in N : pos[n] \in Int /\ edge["left"] <= pos[n] /\ pos[n] <= edge["right"]
  BY Widths
<1>4. \A n \in N : successor(t, n) \in S /\ Follows(successor(t, n), n, pos, edge)
  BY SuccessorNext
<1>5. ASSUME NEW n \in N PROVE List(W[n], n)
  <2> DEFINE k == edge["right"] - pos[n] + 1
             s == [i \in 1 .. k |-> at(pos[n] + i - 1)]
  <2>1. W[n] = s
    OBVIOUS
  <2>2. k \in Nat /\ \A i \in 1 .. k : pos[n] + i - 1 \in edge["left"] .. edge["right"]
    BY <1>1, <1>3
  <2> HIDE DEF k, at
  <2>3. s \in Seq(N) /\ Len(s) = k /\ \A i \in 1 .. k : pos[s[i]] = pos[n] + i - 1
    BY <1>2, <2>2
  <2> QED
    BY <2>1, <2>3 DEF ListFrom, k
<1>6. W[Nil] = <<>>
  OBVIOUS
<1> HIDE DEF at
<1>7. F(W)
  <2>1. ASSUME NEW n \in N PROVE W[n] = <<n>> \o W[successor(t, n)]
    <3> DEFINE y == successor(t, n)
    <3>1. Follows(y, n, pos, edge) /\ y \in S
      BY <1>4
    <3>2. IF y = Nil THEN W[y] = <<>> ELSE y \in N /\ ListFrom(W[y], y, N, pos, edge)
      BY <1>5, <1>6, <3>1
    <3> HIDE DEF y, W
    <3>3. ListFrom(<<n>> \o W[y], n, N, pos, edge)
      BY <1>1, <3>1, <3>2, ConsList
    <3>4. W[n] = <<n>> \o W[y]
      <4>1. \A a, b \in N : pos[a] = pos[b] => a = b
        BY <1>1 DEF Placed
      <4>2. ListFrom(W[n], n, N, pos, edge)
        BY <1>5
      <4> QED
        BY <1>1, <3>3, <4>1, <4>2, OneList
    <3> QED
      BY <3>4 DEF y
  <2>2. W = [n \in S |-> W[n]]
    OBVIOUS
  <2> HIDE DEF W
  <2> QED
    BY <1>6, <2>1, <2>2
<1> HIDE DEF W
<1> DEFINE u == CHOOSE f : F(f)
<1>8. F(u)
  <2> HIDE DEF F
  <2> QED
    BY <1>7
<1>9. Iteration(t) = u[m]
  BY <1>1 DEF Iteration
<1> HIDE DEF u
<1>10. \A n \in N : List(u[n], n)
  <2> DEFINE T == {n \in N : ~List(u[n], n)}
             rank == [n \in T |-> edge["right"] - pos[n]]
  <2>1. SUFFICES ASSUME T # {} PROVE FALSE
    OBVIOUS
  <2>2. \A n \in T : rank[n] \in Nat
    BY <1>1, <1>3
  <2>3. PICK n \in T : \A k \in T : rank[n] <= rank[k]
    <3> HIDE DEF T, rank
    <3> QED
      BY <2>1, <2>2, Least
  <2>4. n \in N /\ ~List(u[n], n)
    OBVIOUS
  <2> DEFINE y == successor(t, n)
  <2>5. Follows(y, n, pos, edge) /\ y \in S
    BY <1>4, <2>4
  <2>6. u[n] = <<n>> \o u[y]
    BY <1>8, <2>4
  <2>7. u[Nil] = <<>>
    BY <1>8
  <2> HIDE DEF y
  <2>8. y # Nil => y \in N /\ List(u[y], y)
    <3>1. SUFFICES ASSUME y # Nil, y \in N, y \in T PROVE FALSE
      BY <2>5
    <3>2. rank[y] = edge["right"] - pos[y] /\ rank[n] = edge["right"] - pos[n]
      BY <3>1
    <3>3. rank[n] <= rank[y]
      BY <2>3, <3>1
    <3>4. pos[y] = pos[n] + 1 /\ pos[y] \in Int /\ pos[n] \in Int
      BY <1>3, <2>4, <2>5, <3>1 DEF Follows
    <3> HIDE DEF rank
    <3> QED
      BY <1>1, <3>2, <3>3, <3>4
  <2>9. IF y = Nil THEN u[y] = <<>> ELSE y \in N /\ ListFrom(u[y], y, N, pos, edge)
    BY <2>7, <2>8
  <2>10. ListFrom(<<n>> \o u[y], n, N, pos, edge)
    <3> HIDE DEF T, rank, List, F
    <3> QED
      BY <1>1, <2>4, <2>5, <2>9, ConsList
  <2> QED
    BY <2>4, <2>6, <2>10
<1>11. m \in N /\ pos[m] = edge["left"]
  <2>1. m \in N /\ pos[m] = end["left"][t.root]
    BY <1>1, MinimumFirst
  <2>2. end["left"][t.root] = edge["left"]
    BY DEF Laid, AtRoot, Sides
  <2> QED
    BY <2>1, <2>2
<1> QED
  BY <1>9, <1>10, <1>11

-----------------------------------------------------------------------------
(***************************************************************************)
(* What a sound tree is to its readers.                                    *)
(***************************************************************************)

(* Its links agree.                                                          *)
THEOREM SoundLinks ==
  ASSUME NEW N, Nil \notin N, NEW t \in Trees(N), Sound(t)
  PROVE LinksAgree(t)
<1>0. PICK pos, edge, end : Laid(t, pos, edge, end)
  BY DEF Sound
<1>1. Nodes(t) = N /\ "left" \in Sides /\ "right" \in Sides /\ Other("left") = "right"
      /\ t.parent \in [N -> N \cup {Nil}]
  BY Fields DEF Sides, Other
<1>2. \A n \in N : \A d \in {"left", "right"} : t[d][n] # Nil => t.parent[t[d][n]] = n
  BY <1>0, ChildBeyond DEF Sides
<1>3. ASSUME NEW n \in N
      PROVE IF n = t.root THEN t.parent[n] = Nil ELSE n \in {t.left[t.parent[n]], t.right[t.parent[n]]}
  <2>1. CASE n = t.root
    BY <1>0, <1>1, <2>1 DEF Laid, AtRoot
  <2>2. CASE n # t.root
    <3>1. t.parent[n] # Nil
      BY <1>0, <1>1, <2>2 DEF Laid, Parents
    <3>2. PICK c \in Sides : t[c][t.parent[n]] = n
      BY <1>0, <1>1, <3>1 DEF Laid, Parents
    <3> QED
      BY <2>2, <3>2 DEF Sides
  <2> QED
    BY <2>1, <2>2
<1>4. \A n \in N : t.left[n] # Nil => t.left[n] # t.right[n]
  <2>1. SUFFICES ASSUME NEW n \in N, t["left"][n] # Nil PROVE t["right"][n] # t["left"][n]
    OBVIOUS
  <2>2. t[Other("left")][n] # t["left"][n]
    BY <1>0, <1>1, <2>1, ChildBeyond
  <2> QED
    BY <1>1, <2>2
<1> QED
  BY <1>1, <1>2, <1>3, <1>4 DEF LinksAgree

(* The loop over it meets each of its nodes once, in the order of the keys.   *)
THEOREM SoundOrder ==
  ASSUME NEW N, Nil \notin N, NEW t \in Trees(N), Sound(t)
  PROVE InOrder(t)
<1>0. PICK pos, edge, end : Laid(t, pos, edge, end) /\ Placed(t, pos, edge) /\ Keyed(t, pos)
  BY DEF Sound
<1>1. /\ Nodes(t) = N /\ pos \in [N -> Int] /\ edge["left"] \in Int /\ edge["right"] \in Int
      /\ t.size \in Nat /\ t.size = edge["right"] - edge["left"] + 1
  BY <1>0, Fields DEF Laid, Placed, Sides
<1>2. CASE t.root = Nil
  <2>1. N = {}
    BY <1>0, <1>1, <1>2 DEF Laid, AtRoot
  <2>2. t.size = 0
    <3>1. ~(edge["left"] <= edge["right"])
      BY <1>0, <1>1, <2>1 DEF Placed
    <3> QED
      BY <1>1, <3>1
  <2>3. Len(<<>>) = 0 /\ DOMAIN <<>> = {}
    OBVIOUS
  <2> QED
    BY <1>1, <1>2, <2>1, <2>2, <2>3 DEF InOrder
<1>3. CASE t.root # Nil
  <2> DEFINE s == Iteration(t)
  <2>1. PICK m \in N : pos[m] = edge["left"] /\ ListFrom(s, m, N, pos, edge)
    BY <1>0, <1>3, IterationList
  <2>2. InOrder(t) <=> /\ Nodes(t) = {s[i] : i \in DOMAIN s}
                       /\ t.size = Len(s)
                       /\ \A i, j \in DOMAIN s : i < j => s[i] # s[j] /\ Key(s[i]) >= Key(s[j])
    BY <1>3 DEF InOrder
  <2> HIDE DEF s
  <2>3. /\ s \in Seq(N) /\ Len(s) = t.size /\ DOMAIN s = 1 .. t.size
        /\ \A i \in 1 .. t.size : s[i] \in N /\ pos[s[i]] = edge["left"] + i - 1
    <3>1. s \in Seq(N) /\ Len(s) = t.size
      BY <1>1, <2>1 DEF ListFrom
    <3>2. \A i \in 1 .. t.size : s[i] \in N
      BY <3>1, ElementOfSeq
    <3> QED
      BY <2>1, <3>1, <3>2, LenProperties DEF ListFrom
  <2>4. \A n \in N : \E i \in 1 .. t.size : s[i] = n
    <3>1. SUFFICES ASSUME NEW n \in N PROVE \E i \in 1 .. t.size : s[i] = n
      OBVIOUS
    <3> DEFINE i == pos[n] - edge["left"] + 1
    <3>2. pos[n] \in Int /\ edge["left"] <= pos[n] /\ pos[n] <= edge["right"]
      BY <1>0, Widths
    <3>3. i \in 1 .. t.size /\ edge["left"] + i - 1 = pos[n]
      BY <1>1, <3>2
    <3> HIDE DEF i
    <3>4. pos[s[i]] = pos[n] /\ s[i] \in N
      BY <2>3, <3>3
    <3>5. s[i] = n
      BY <1>0, <1>1, <3>4 DEF Placed
    <3> QED
      BY <3>3, <3>5
  <2>5. Nodes(t) = {s[i] : i \in DOMAIN s}
    <3> DEFINE I == 1 .. t.size
    <3>1. (\A i \in I : s[i] \in N) /\ (\A n \in N : \E i \in I : s[i] = n) /\ DOMAIN s = I
      BY <2>3, <2>4
    <3> HIDE DEF I
    <3>2. \A n \in N : n \in {s[i] : i \in I}
      BY <3>1
    <3>3. {s[i] : i \in I} \subseteq N
      BY <3>1
    <3> QED
      BY <1>1, <3>1, <3>2, <3>3
  <2>6. ASSUME NEW i \in DOMAIN s, NEW j \in DOMAIN s, i < j PROVE s[i] # s[j] /\ Key(s[i]) >= Key(s[j])
    <3>1. s[i] \in N /\ s[j] \in N /\ pos[s[i]] = edge["left"] + i - 1 /\ pos[s[j]] = edge["left"] + j - 1
          /\ i \in Int /\ j \in Int
      BY <2>3
    <3>2. pos[s[i]] < pos[s[j]]
      BY <1>1, <2>6, <3>1
    <3>3. Key(s[i]) >= Key(s[j])
      BY <1>0, <1>1, <3>1, <3>2 DEF Keyed
    <3>4. s[i] # s[j]
      BY <1>1, <2>6, <3>1
    <3> QED
      BY <3>3, <3>4
  <2> QED
    BY <2>2, <2>3, <2>5, <2>6
<1> QED
  BY <1>2, <1>3

(* With the colours of EvenBlack it is a red-black tree.                     *)
THEOREM SoundColours ==
  ASSUME NEW N, Nil \notin N, NEW t \in Trees(N), Sound(t), EvenBlack(t)
  PROVE RedBlack(t)
<1>0. PICK pos, edge, end : Laid(t, pos, edge, end)
  BY DEF Sound
<1>00. PICK h : BlackRed(t, h, Nil)
  BY DEF EvenBlack
<1> DEFINE S == N \cup {Nil}
           add(b, n) == IF IsRed(t, n) THEN b ELSE b + 1
           F(f) == f = [n \in S |-> IF n = Nil THEN {0}
                                    ELSE {IF IsRed(t, n) THEN b ELSE b + 1 : b \in f[t.left[n]] \cup f[t.right[n]]}]
           W == [n \in S |-> {High(h, n)}]
           u == CHOOSE f : F(f)
<1>1. /\ Nodes(t) = N /\ "left" \in Sides /\ "right" \in Sides /\ t.root \in S /\ t.red \subseteq N
      /\ t["left"] \in [N -> S] /\ t["right"] \in [N -> S]
  BY Fields DEF Sides
<1>2. /\ h \in [N -> Nat]
      /\ \A n \in N, c \in Sides : h[n] = High(h, t[c][n]) + (IF n \in t.red THEN 0 ELSE 1)
  BY <1>00, <1>1 DEF BlackRed, Even
<1>3. ASSUME NEW f, NEW n \in N, f[t.left[n]] = {High(h, t.left[n])}, f[t.right[n]] = {High(h, t.right[n])}
      PROVE {IF IsRed(t, n) THEN b ELSE b + 1 : b \in f[t.left[n]] \cup f[t.right[n]]} = {High(h, n)}
  <2>1. High(h, n) = h[n]
    BY <1>1 DEF High
  <2>2. h[n] = High(h, t.left[n]) + (IF n \in t.red THEN 0 ELSE 1)
    BY <1>1, <1>2
  <2>3. h[n] = High(h, t.right[n]) + (IF n \in t.red THEN 0 ELSE 1)
    BY <1>1, <1>2
  <2>4. High(h, t.left[n]) \in Nat /\ High(h, t.right[n]) \in Nat
    BY <1>1, <1>2 DEF High
  <2>5. High(h, t.right[n]) = High(h, t.left[n])
    BY <2>2, <2>3, <2>4
  <2>6. f[t.left[n]] \cup f[t.right[n]] = {High(h, t.left[n])}
    BY <1>3, <2>5
  <2>7. h[n] = IF IsRed(t, n) THEN High(h, t.left[n]) ELSE High(h, t.left[n]) + 1
    BY <2>2, <2>4 DEF IsRed
  <2> QED
    BY <2>1, <2>6, <2>7
<1>4. F(W)
  <2>1. \A n \in N : W[t.left[n]] = {High(h, t.left[n])} /\ W[t.right[n]] = {High(h, t.right[n])}
    BY <1>1
  <2>2. W = [n \in S |-> {High(h, n)}] /\ High(h, Nil) = 0
    BY DEF High
  <2> HIDE DEF W
  <2>3. \A n \in N : {IF IsRed(t, n) THEN b ELSE b + 1 : b \in W[t.left[n]] \cup W[t.right[n]]} = {High(h, n)}
    BY <1>3, <2>1
  <2> QED
    BY <2>2, <2>3
<1>5. F(u)
  <2> HIDE DEF F, W
  <2> QED
    BY <1>4
<1> HIDE DEF u, W
<1>6. \A n \in S : u[n] = {High(h, n)}
  <2> DEFINE T == {n \in S : u[n] # {High(h, n)}}
             rank == [n \in T |-> Width(end, n)]
  <2>1. SUFFICES ASSUME T # {} PROVE FALSE
    OBVIOUS
  <2>2. u[Nil] = {High(h, Nil)}
    BY <1>5 DEF High
  <2>3. T \subseteq N
    BY <2>2
  <2>4. \A n \in T : rank[n] \in Nat
    BY <1>0, <2>3, Widths
  <2>5. PICK n \in T : \A k \in T : rank[n] <= rank[k]
    <3> HIDE DEF T, rank
    <3> QED
      BY <2>1, <2>4, Least
  <2>6. n \in N /\ u[n] # {High(h, n)}
    BY <2>3
  <2>7. ASSUME NEW c \in Sides PROVE u[t[c][n]] = {High(h, t[c][n])}
    <3>1. SUFFICES ASSUME t[c][n] \in T PROVE FALSE
      BY <1>1, <2>6 DEF Sides
    <3>2. t[c][n] \in N
      BY <2>3, <3>1
    <3>3. Width(end, t[c][n]) < Width(end, n) /\ Width(end, t[c][n]) \in Int /\ Width(end, n) \in Int
      <4> HIDE DEF T, rank
      <4> QED
        BY <1>0, <2>6, <3>2, ChildWidth
    <3>4. rank[t[c][n]] = Width(end, t[c][n]) /\ rank[n] = Width(end, n)
      BY <3>1
    <3>5. rank[n] <= rank[t[c][n]]
      BY <2>5, <3>1
    <3> HIDE DEF rank
    <3> QED
      BY <3>3, <3>4, <3>5
  <2>8. {IF IsRed(t, n) THEN b ELSE b + 1 : b \in u[t.left[n]] \cup u[t.right[n]]} = {High(h, n)}
    BY <1>1, <1>3, <2>6, <2>7
  <2>9. u[n] = {IF IsRed(t, n) THEN b ELSE b + 1 : b \in u[t.left[n]] \cup u[t.right[n]]}
    <3>1. n # Nil /\ n \in S
      BY <2>6
    <3> HIDE DEF T
    <3> QED
      BY <1>5, <3>1
  <2> QED
    BY <2>6, <2>8, <2>9
<1>7. ~IsRed(t, t.root)
  <2>1. t.root # Nil => t.parent[t.root] = Nil
    BY <1>0 DEF Laid, AtRoot
  <2> QED
    BY <1>00, <1>1, <2>1 DEF IsRed, BlackRed, OneRedRed
<1>8. \A n \in t.red : ~IsRed(t, t.left[n]) /\ ~IsRed(t, t.right[n])
  <2>1. SUFFICES ASSUME NEW n \in t.red, NEW c \in Sides, t[c][n] \in t.red PROVE FALSE
    BY <1>1 DEF IsRed
  <2>2. t[c][n] # Nil /\ n \in N
    BY <1>1, <2>1
  <2>3. t.parent[t[c][n]] = n
    BY <1>0, <2>2, ChildBeyond
  <2> QED
    BY <1>00, <2>1, <2>2, <2>3 DEF BlackRed, OneRedRed
<1>9. \A a, b \in u[t.root] : a = b
  BY <1>1, <1>6
<1>10. RedBlack(t) <=> /\ ~IsRed(t, t.root)
                       /\ \A n \in t.red : ~IsRed(t, t.left[n]) /\ ~IsRed(t, t.right[n])
                       /\ \A a, b \in u[t.root] : a = b
  BY <1>1 DEF RedBlack, u
<1> QED
  BY <1>7, <1>8, <1>9, <1>10

-----------------------------------------------------------------------------
(***************************************************************************)
(* A node less.                                                            *)
(***************************************************************************)

\* r is t without u, whose place x takes: x is the one child of u, or nil.
CutOut(r, t, u, x) ==
  LET M == Nodes(t) \ {u}
      p == t.parent[u]
  IN /\ r.root = IF p = Nil THEN x ELSE t.root
     /\ r.parent = [m \in M |-> IF m = x THEN p ELSE t.parent[m]]
     /\ \A c \in Sides : r[c] = [m \in M |-> IF m = p /\ t[c][p] = u THEN x ELSE t[c][m]]

\* Places and left ends after a, and right ends at a or after it, move by one.
Close(a, i) == IF i > a THEN i - 1 ELSE i
CloseEnd(c, a, i) == IF c = "left" THEN Close(a, i) ELSE IF i >= a THEN i - 1 ELSE i
PosLess(pos, M, a) == [m \in M |-> Close(a, pos[m])]
EdgeLess(edge) == [c \in Sides |-> IF c = "right" THEN edge[c] - 1 ELSE edge[c]]

(* The ends and edges around a place that is left out.                       *)
LEMMA CloseFacts ==
  ASSUME NEW a \in Int, NEW i \in Int, i # a, NEW lo \in Int, NEW hi \in Int, lo <= i, i <= hi,
         NEW first \in Int, NEW last \in Int, first <= lo, hi <= last, first <= a, a <= last
  PROVE /\ CloseEnd("left", a, lo) <= Close(a, i) /\ Close(a, i) <= CloseEnd("right", a, hi)
        /\ first <= CloseEnd("left", a, lo) /\ CloseEnd("right", a, hi) <= last - 1
BY DEF Close, CloseEnd

(* Left out, a node leaves the order of the others.                          *)
LEMMA CutLaid ==
  ASSUME NEW N, Nil \notin N, NEW t \in Trees(N), NEW pos, NEW edge, NEW end, Laid(t, pos, edge, end),
         Placed(t, pos, edge), NEW u \in N, NEW c \in Sides, t[c][u] = Nil, NEW x, x = t[Other(c)][u],
         NEW r \in Trees(N \ {u}), CutOut(r, t, u, x)
  PROVE \E end2 : Laid(r, PosLess(pos, N \ {u}, pos[u]), EdgeLess(edge), end2)
<1> DEFINE a == pos[u]
           M == N \ {u}
           p == t.parent[u]
           pos2 == PosLess(pos, M, a)
           edge2 == EdgeLess(edge)
           end2 == [e \in Sides |-> [m \in M |-> CloseEnd(e, a, end[e][m])]]
<1>1. /\ Nodes(t) = N /\ Nodes(r) = M /\ "left" \in Sides /\ "right" \in Sides /\ u # Nil
      /\ \A e \in Sides : e = "left" \/ e = "right"
      /\ Other("left") = "right" /\ Other("right") = "left" /\ Step("left") = -1 /\ Step("right") = 1
      /\ \A e \in Sides : t[e] \in [N -> N \cup {Nil}] /\ Other(e) \in Sides
      /\ t.parent \in [N -> N \cup {Nil}] /\ t.root \in N \cup {Nil}
  BY Fields, TwoSides DEF Sides, Other, Step
<1>2. /\ \A n \in N : /\ pos[n] \in Int /\ end["left"][n] \in Int /\ end["right"][n] \in Int
                      /\ end["left"][n] <= pos[n] /\ pos[n] <= end["right"][n]
                      /\ edge["left"] <= end["left"][n] /\ end["right"][n] <= edge["right"]
      /\ edge["left"] \in Int /\ edge["right"] \in Int
  <2>1. edge["left"] \in Int /\ edge["right"] \in Int
    BY <1>1 DEF Laid
  <2>2. SUFFICES ASSUME NEW n \in N
                 PROVE /\ pos[n] \in Int /\ end["left"][n] \in Int /\ end["right"][n] \in Int
                       /\ end["left"][n] <= pos[n] /\ pos[n] <= end["right"][n]
                       /\ edge["left"] <= end["left"][n] /\ end["right"][n] <= edge["right"]
    BY <2>1
  <2>3. pos[n] \in Int /\ end["left"][n] \in Int /\ end["right"][n] \in Int
    BY <1>1 DEF Laid
  <2>4. /\ Towards("left", pos[n], end["left"][n]) /\ Towards("right", pos[n], end["right"][n])
        /\ Towards("left", end["left"][n], edge["left"]) /\ Towards("right", end["right"][n], edge["right"])
    BY <1>1 DEF Laid, Ends
  <2> QED
    BY <2>3, <2>4 DEF Towards
<1>3. a \in Int /\ edge["left"] <= a /\ a <= edge["right"] /\ \A n \in M : pos[n] # a
  BY <1>1, <1>2 DEF Placed
<1>4. /\ r.root = IF p = Nil THEN x ELSE t.root
      /\ r.parent = [m \in M |-> IF m = x THEN p ELSE t.parent[m]]
      /\ \A e \in Sides : r[e] = [m \in M |-> IF m = p /\ t[e][p] = u THEN x ELSE t[e][m]]
  BY <1>1 DEF CutOut
<1>5. /\ p # u /\ p \in N \cup {Nil} /\ OneChild(t, u, p) /\ x \in N \cup {Nil} /\ x # u
      /\ end[c][u] = a
      /\ x = Nil => end[Other(c)][u] = a
      /\ x # Nil => /\ x \in M /\ t.parent[x] = u
                    /\ end[Other(c)][x] = end[Other(c)][u] /\ end[c][x] = a + Step(Other(c))
  <2>1. p # u /\ OneChild(t, u, p)
    BY OneParent
  <2>2. end[c][u] = a
    BY <1>1 DEF Laid, Children
  <2>3. x = Nil => end[Other(c)][u] = a
    BY <1>1 DEF Laid, Children
  <2>4. x # Nil => /\ x \in N /\ x # u /\ t.parent[x] = u
                   /\ end[Other(c)][x] = end[Other(c)][u] /\ end[c][x] = a + Step(Other(c))
    BY <1>1, ChildBeyond, TwoSides
  <2> QED
    BY <1>1, <2>1, <2>2, <2>3, <2>4
<1> HIDE DEF a, p
<1>6. /\ \A n \in M : /\ pos2[n] = Close(a, pos[n])
                      /\ end2["left"][n] = CloseEnd("left", a, end["left"][n])
                      /\ end2["right"][n] = CloseEnd("right", a, end["right"][n])
      /\ edge2["left"] = edge["left"] /\ edge2["right"] = edge["right"] - 1
  BY <1>1 DEF PosLess, EdgeLess
<1>7. pos2 \in [M -> Int] /\ edge2 \in [Sides -> Int] /\ end2 \in [Sides -> [M -> Int]]
  <2>1. \A n \in M : Close(a, pos[n]) \in Int
    BY <1>2, <1>3 DEF Close
  <2>2. \A n \in M, e \in Sides : CloseEnd(e, a, end[e][n]) \in Int
    BY <1>1, <1>2, <1>3 DEF Close, CloseEnd
  <2> QED
    BY <1>1, <1>2, <2>1, <2>2 DEF PosLess, EdgeLess
<1> HIDE DEF pos2, edge2, end2
<1>8. Ends(r, pos2, edge2, end2)
  <2>1. SUFFICES ASSUME NEW n \in M
                 PROVE /\ end2["left"][n] <= pos2[n] /\ pos2[n] <= end2["right"][n]
                       /\ edge2["left"] <= end2["left"][n] /\ end2["right"][n] <= edge2["right"]
    BY <1>1 DEF Ends, Towards
  <2>2. n \in N /\ pos[n] # a
    BY <1>3
  <2>3. /\ pos[n] \in Int /\ end["left"][n] \in Int /\ end["right"][n] \in Int
        /\ end["left"][n] <= pos[n] /\ pos[n] <= end["right"][n]
        /\ edge["left"] <= end["left"][n] /\ end["right"][n] <= edge["right"]
    BY <1>2, <2>2
  <2> QED
    BY <1>2, <1>3, <1>6, <2>2, <2>3 DEF Close, CloseEnd
<1>9. Children(r, pos2, end2)
  <2>1. SUFFICES ASSUME NEW n \in M, NEW e \in Sides
                 PROVE IF r[e][n] = Nil THEN end2[e][n] = pos2[n]
                       ELSE /\ r.parent[r[e][n]] = n /\ end2[e][r[e][n]] = end2[e][n]
                            /\ end2[Other(e)][r[e][n]] = pos2[n] + Step(e)
    BY <1>1 DEF Children
  <2>2. /\ pos[n] \in Int /\ end["left"][n] \in Int /\ end["right"][n] \in Int /\ pos[n] # a
    BY <1>2, <1>3
  <2>3. CASE t[e][n] = Nil
    <3>1. r[e][n] = Nil
      <4>1. r[e] = [m \in M |-> IF m = p /\ t[e][p] = u THEN x ELSE t[e][m]]
        BY <1>4
      <4>2. ~(n = p /\ t[e][p] = u)
        BY <1>1, <2>3
      <4> QED
        BY <2>3, <4>1, <4>2
    <3>2. end[e][n] = pos[n]
      BY <1>1, <2>3 DEF Laid, Children
    <3>3. end2[e][n] = pos2[n]
      <4>1. CASE e = "left"
        BY <1>3, <1>6, <2>2, <3>2, <4>1 DEF Close, CloseEnd
      <4>2. CASE e = "right"
        BY <1>3, <1>6, <2>2, <3>2, <4>2 DEF Close, CloseEnd
      <4> QED
        BY <1>1, <4>1, <4>2
    <3> QED
      BY <3>1, <3>3
  <2>4. CASE t[e][n] # Nil /\ t[e][n] # u
    <3> DEFINE m == t[e][n]
    <3>1. /\ m \in M /\ t.parent[m] = n /\ end[e][m] = end[e][n] /\ end[Other(e)][m] = pos[n] + Step(e)
      BY <1>1, <2>4, ChildBeyond
    <3>2. r[e][n] = m
      <4>1. r[e] = [k \in M |-> IF k = p /\ t[e][p] = u THEN x ELSE t[e][k]]
        BY <1>4
      <4>2. ~(n = p /\ t[e][p] = u)
        BY <2>4
      <4> QED
        BY <4>1, <4>2
    <3>3. r.parent[m] = n
      <4>1. m # x
        BY <1>5, <2>4, <3>1
      <4> QED
        BY <1>4, <3>1, <4>1
    <3> HIDE DEF m
    <3>4. end2[e][m] = end2[e][n] /\ end2[Other(e)][m] = pos2[n] + Step(e)
      <4>1. CASE e = "left"
        BY <1>1, <1>3, <1>6, <2>2, <3>1, <4>1 DEF Close, CloseEnd
      <4>2. CASE e = "right"
        BY <1>1, <1>3, <1>6, <2>2, <3>1, <4>2 DEF Close, CloseEnd
      <4> QED
        BY <1>1, <4>1, <4>2
    <3> QED
      BY <2>4, <3>2, <3>3, <3>4 DEF m
  <2>5. CASE t[e][n] = u
    <3>1. p = n /\ end[e][u] = end[e][n] /\ end[Other(e)][u] = pos[n] + Step(e)
      BY <1>1, <2>5, ChildBeyond DEF p
    <3>2. r[e][n] = x
      BY <1>4, <2>5, <3>1
    <3>3. CASE x = Nil
      <4>1. end["left"][u] = a /\ end["right"][u] = a
        BY <1>1, <1>5, <3>3, TwoSides
      <4>2. end2[e][n] = pos2[n]
        <5>1. CASE e = "left"
          BY <1>1, <1>3, <1>6, <2>2, <3>1, <4>1, <5>1 DEF Close, CloseEnd
        <5>2. CASE e = "right"
          BY <1>1, <1>3, <1>6, <2>2, <3>1, <4>1, <5>2 DEF Close, CloseEnd
        <5> QED
          BY <1>1, <5>1, <5>2
      <4> QED
        BY <3>2, <3>3, <4>2
    <3>4. CASE x # Nil
      <4>1. r.parent[x] = n /\ x \in M
        BY <1>4, <1>5, <3>1, <3>4
      <4>2. /\ end["left"][x] \in Int /\ end["right"][x] \in Int /\ end["left"][x] <= end["right"][x]
        <5>1. /\ end["left"][x] \in Int /\ end["right"][x] \in Int /\ pos[x] \in Int
              /\ end["left"][x] <= pos[x] /\ pos[x] <= end["right"][x]
          BY <1>2, <4>1
        <5> QED
          BY <5>1
      <4>3. end2[e][x] = end2[e][n] /\ end2[Other(e)][x] = pos2[n] + Step(e)
        <5>1. CASE e = "left" /\ c = "left"
          BY <1>1, <1>3, <1>5, <1>6, <2>2, <3>1, <3>4, <4>1, <4>2, <5>1 DEF Close, CloseEnd
        <5>2. CASE e = "right" /\ c = "left"
          BY <1>1, <1>3, <1>5, <1>6, <2>2, <3>1, <3>4, <4>1, <4>2, <5>2 DEF Close, CloseEnd
        <5>3. CASE e = "left" /\ c = "right"
          BY <1>1, <1>3, <1>5, <1>6, <2>2, <3>1, <3>4, <4>1, <4>2, <5>3 DEF Close, CloseEnd
        <5>4. CASE e = "right" /\ c = "right"
          BY <1>1, <1>3, <1>5, <1>6, <2>2, <3>1, <3>4, <4>1, <4>2, <5>4 DEF Close, CloseEnd
        <5> QED
          BY <1>1, <5>1, <5>2, <5>3, <5>4
      <4> QED
        BY <3>2, <3>4, <4>1, <4>3
    <3> QED
      BY <3>3, <3>4
  <2> QED
    BY <2>3, <2>4, <2>5
<1>10. AtRoot(r, edge2, end2)
  <2>1. t.root \in N /\ t.parent[t.root] = Nil /\ end["left"][t.root] = edge["left"]
        /\ end["right"][t.root] = edge["right"]
    BY <1>1 DEF Laid, AtRoot
  <2>2. CASE p = Nil
    <3>1. t.root = u
      BY <1>1, <2>2 DEF Laid, Parents, p
    <3>2. r.root = x
      BY <1>4, <2>2
    <3>3. CASE x = Nil
      <4>1. end["left"][u] = a /\ end["right"][u] = a
        BY <1>1, <1>5, <3>3, TwoSides
      <4>2. ASSUME NEW n \in M PROVE FALSE
        <5>1. pos[n] = a
          BY <1>2, <1>3, <2>1, <3>1, <4>1
        <5> QED
          BY <1>3, <5>1
      <4> QED
        BY <1>1, <3>2, <3>3, <4>2 DEF AtRoot
    <3>4. CASE x # Nil
      <4>1. r.parent[x] = Nil /\ x \in M
        BY <1>4, <1>5, <2>2, <3>4
      <4>2. /\ end["left"][x] \in Int /\ end["right"][x] \in Int /\ end["left"][x] <= end["right"][x]
        <5>1. /\ end["left"][x] \in Int /\ end["right"][x] \in Int /\ pos[x] \in Int
              /\ end["left"][x] <= pos[x] /\ pos[x] <= end["right"][x]
          BY <1>2, <4>1
        <5> QED
          BY <5>1
      <4>3. end2["left"][x] = edge2["left"] /\ end2["right"][x] = edge2["right"]
        <5>1. CASE c = "left"
          BY <1>1, <1>2, <1>3, <1>5, <1>6, <2>1, <3>1, <3>4, <4>1, <4>2, <5>1 DEF Close, CloseEnd
        <5>2. CASE c = "right"
          BY <1>1, <1>2, <1>3, <1>5, <1>6, <2>1, <3>1, <3>4, <4>1, <4>2, <5>2 DEF Close, CloseEnd
        <5> QED
          BY <1>1, <5>1, <5>2
      <4> QED
        BY <1>1, <3>2, <3>4, <4>1, <4>3 DEF AtRoot
    <3> QED
      BY <3>3, <3>4
  <2>3. CASE p # Nil
    <3>1. t.root \in M /\ t.root # x /\ r.root = t.root
      BY <1>1, <1>4, <1>5, <2>1, <2>3 DEF p
    <3>2. r.parent[t.root] = Nil
      BY <1>4, <2>1, <3>1
    <3>3. end2["left"][t.root] = edge2["left"] /\ end2["right"][t.root] = edge2["right"]
      BY <1>2, <1>3, <1>6, <2>1, <3>1 DEF Close, CloseEnd
    <3> QED
      BY <1>1, <3>1, <3>2, <3>3 DEF AtRoot
  <2> QED
    BY <2>2, <2>3
<1>11. Parents(r)
  <2>1. SUFFICES ASSUME NEW n \in M
                 PROVE IF r.parent[n] = Nil THEN n = r.root ELSE \E e \in Sides : r[e][r.parent[n]] = n
    BY <1>1 DEF Parents
  <2>2. CASE n = x
    <3>1. r.parent[n] = p /\ x # Nil
      BY <1>1, <1>4, <2>2
    <3>2. CASE p = Nil
      BY <1>4, <2>2, <3>1, <3>2
    <3>3. CASE p # Nil
      <4>1. PICK e \in Sides : t[e][p] = u
        BY <1>5, <3>3 DEF OneChild
      <4>2. r[e][p] = x
        BY <1>4, <1>5, <3>3, <4>1
      <4> QED
        BY <2>2, <3>1, <3>3, <4>2
    <3> QED
      BY <3>2, <3>3
  <2>3. CASE n # x
    <3>1. IF t.parent[n] = Nil THEN n = t.root ELSE \E e \in Sides : t[e][t.parent[n]] = n
      BY <1>1 DEF Laid, Parents
    <3>2. r.parent[n] = t.parent[n]
      BY <1>4, <2>3
    <3>3. CASE t.parent[n] = Nil
      <4>1. n = t.root /\ n # u
        BY <3>1, <3>3
      <4>2. p # Nil
        BY <1>1, <4>1 DEF Laid, Parents, p
      <4> QED
        BY <1>4, <3>2, <3>3, <4>1, <4>2
    <3>4. CASE t.parent[n] # Nil
      <4>1. PICK e \in Sides : t[e][t.parent[n]] = n
        BY <3>1, <3>4
      <4>2. t.parent[n] # u
        BY <1>1, <2>3, <4>1, TwoSides
      <4>3. t.parent[n] \in M
        BY <1>1, <3>4, <4>2
      <4>4. r[e][t.parent[n]] = n
        <5>1. r[e] = [k \in M |-> IF k = p /\ t[e][p] = u THEN x ELSE t[e][k]]
          BY <1>4
        <5>2. ~(t.parent[n] = p /\ t[e][p] = u)
          BY <1>1, <4>1
        <5> QED
          BY <4>1, <4>3, <5>1, <5>2
      <4> QED
        BY <3>2, <3>4, <4>4
    <3> QED
      BY <3>3, <3>4
  <2> QED
    BY <2>2, <2>3
<1>12. Laid(r, pos2, edge2, end2)
  BY <1>1, <1>7, <1>8, <1>9, <1>10, <1>11 DEF Laid
<1> QED
  BY <1>12 DEF pos2, edge2, a

(* Places that close up stay apart and in order.                             *)
LEMMA CloseOrder ==
  ASSUME NEW a \in Int, NEW i \in Int, NEW j \in Int, i # a, j # a
  PROVE /\ Close(a, i) \in Int /\ (Close(a, i) = Close(a, j) => i = j) /\ (Close(a, i) < Close(a, j) => i < j)
BY DEF Close

(* They leave no gap.                                                        *)
LEMMA CutPlaced ==
  ASSUME NEW N, Nil \notin N, NEW t \in Trees(N), NEW pos, NEW edge, NEW end, Laid(t, pos, edge, end),
         Placed(t, pos, edge), NEW u \in N, NEW r \in Trees(N \ {u}), r.size = t.size - 1
  PROVE Placed(r, PosLess(pos, N \ {u}, pos[u]), EdgeLess(edge))
<1> DEFINE a == pos[u]
           M == N \ {u}
           pos2 == PosLess(pos, M, a)
           edge2 == EdgeLess(edge)
<1>1. /\ Nodes(t) = N /\ Nodes(r) = M /\ pos \in [N -> Int] /\ edge["left"] \in Int /\ edge["right"] \in Int
      /\ a \in Int
  BY Fields DEF Laid, Sides
<1>2. \A n \in M : pos2[n] = Close(a, pos[n]) /\ pos[n] \in Int /\ pos[n] # a
  BY <1>1 DEF Placed, PosLess
<1>3. edge2["left"] = edge["left"] /\ edge2["right"] = edge["right"] - 1
  BY DEF EdgeLess, Sides
<1> HIDE DEF a, pos2, edge2
<1>4. \A m, n \in M : pos2[m] = pos2[n] => m = n
  <2>1. SUFFICES ASSUME NEW m \in M, NEW n \in M, pos2[m] = pos2[n] PROVE m = n
    OBVIOUS
  <2>2. Close(a, pos[m]) = Close(a, pos[n])
    BY <1>2, <2>1
  <2>3. pos[m] = pos[n]
    BY <1>1, <1>2, <2>2, CloseOrder
  <2> QED
    BY <1>1, <2>3 DEF Placed
<1>5. ASSUME NEW i \in edge2["left"] .. edge2["right"] PROVE \E n \in M : pos2[n] = i
  <2>1. i \in Int /\ edge["left"] <= i /\ i <= edge["right"] - 1
    BY <1>1, <1>3
  <2>2. CASE i < a
    <3>1. i \in edge["left"] .. edge["right"]
      BY <1>1, <2>1
    <3>2. PICK n \in N : pos[n] = i
      BY <1>1, <3>1 DEF Placed
    <3>3. n \in M
      BY <1>1, <2>1, <2>2, <3>2 DEF a
    <3>4. Close(a, pos[n]) = i
      BY <1>1, <2>1, <2>2, <3>2 DEF Close
    <3> QED
      BY <1>2, <3>3, <3>4
  <2>3. CASE i >= a
    <3>1. i + 1 \in edge["left"] .. edge["right"]
      BY <1>1, <2>1
    <3>2. PICK n \in N : pos[n] = i + 1
      BY <1>1, <3>1 DEF Placed
    <3>3. n \in M
      BY <1>1, <2>1, <2>3, <3>2 DEF a
    <3>4. Close(a, pos[n]) = i
      BY <1>1, <2>1, <2>3, <3>2 DEF Close
    <3> QED
      BY <1>2, <3>3, <3>4
  <2> QED
    BY <1>1, <2>1, <2>2, <2>3
<1>6. r.size = edge2["right"] - edge2["left"] + 1
  BY <1>1, <1>3 DEF Placed
<1> QED
  BY <1>1, <1>4, <1>5, <1>6 DEF Placed, pos2, edge2, a

(* And the keys stay in order.                                               *)
LEMMA CutKeyed ==
  ASSUME NEW N, Nil \notin N, NEW t \in Trees(N), NEW pos, NEW edge, NEW end, Laid(t, pos, edge, end),
         Placed(t, pos, edge), Keyed(t, pos), NEW u \in N, NEW r \in Trees(N \ {u})
  PROVE Keyed(r, PosLess(pos, N \ {u}, pos[u]))
<1> DEFINE a == pos[u]
           M == N \ {u}
           pos2 == PosLess(pos, M, a)
<1>1. Nodes(t) = N /\ Nodes(r) = M /\ pos \in [N -> Int] /\ a \in Int
  BY Fields DEF Laid
<1>2. \A n \in M : pos2[n] = Close(a, pos[n]) /\ pos[n] \in Int /\ pos[n] # a
  BY <1>1 DEF Placed, PosLess
<1> HIDE DEF a, pos2
<1>3. ASSUME NEW m \in M, NEW n \in M, pos2[m] < pos2[n] PROVE Key(m) >= Key(n)
  <2>1. Close(a, pos[m]) < Close(a, pos[n])
    BY <1>2, <1>3
  <2>2. pos[m] < pos[n]
    BY <1>1, <1>2, <2>1, CloseOrder
  <2> QED
    BY <1>1, <2>2 DEF Keyed
<1>4. \A n \in M : Key(n) \in Nat
  BY <1>1 DEF Keyed
<1> QED
  BY <1>1, <1>3, <1>4 DEF Keyed, pos2, a

-----------------------------------------------------------------------------
(***************************************************************************)
(* A node in the place of another.                                         *)
(***************************************************************************)

As(z, y, v) == IF v = z THEN y ELSE v

\* r is s with y in the place of z.
Renamed(r, s, z, y) ==
  LET K == (Nodes(s) \ {z}) \cup {y}
  IN /\ r.root = As(z, y, s.root)
     /\ r.parent = [m \in K |-> As(z, y, s.parent[As(y, z, m)])]
     /\ \A c \in Sides : r[c] = [m \in K |-> As(z, y, s[c][As(y, z, m)])]

Moved(f, M, z, y) == [m \in (M \ {z}) \cup {y} |-> f[As(y, z, m)]]

(* The names are the only thing that changes.                                *)
LEMMA RenameFacts ==
  ASSUME NEW M, Nil \notin M, NEW z \in M, NEW y, y \notin M, y # Nil
  PROVE LET K == (M \ {z}) \cup {y} IN
        /\ \A m \in K : As(y, z, m) \in M /\ As(z, y, As(y, z, m)) = m
        /\ \A v \in M : As(z, y, v) \in K /\ As(y, z, As(z, y, v)) = v
        /\ As(z, y, Nil) = Nil /\ Nil \notin K
        /\ \A v \in M \cup {Nil} : As(z, y, v) = Nil => v = Nil
        /\ \A v, w \in M \cup {Nil} : As(z, y, v) = As(z, y, w) => v = w
BY DEF As

(* It has the same order.                                                    *)
LEMMA RenameLaid ==
  ASSUME NEW M, Nil \notin M, NEW z \in M, NEW y, y \notin M, y # Nil, NEW s \in Trees(M),
         NEW pos, NEW edge, NEW end, Laid(s, pos, edge, end),
         NEW r \in Trees((M \ {z}) \cup {y}), Renamed(r, s, z, y)
  PROVE \E new : Laid(r, Moved(pos, M, z, y), edge, new)
<1> DEFINE K == (M \ {z}) \cup {y}
           old(m) == As(y, z, m)
           pos2 == Moved(pos, M, z, y)
           new == [c \in Sides |-> [m \in K |-> end[c][old(m)]]]
<1>1. /\ Nodes(s) = M /\ Nodes(r) = K /\ \A c \in Sides : s[c] \in [M -> M \cup {Nil}] /\ Other(c) \in Sides
      /\ s.parent \in [M -> M \cup {Nil}] /\ s.root \in M \cup {Nil}
  BY Fields, TwoSides
<1>2. /\ \A m \in K : old(m) \in M /\ As(z, y, old(m)) = m
      /\ \A v \in M : As(z, y, v) \in K /\ old(As(z, y, v)) = v
      /\ As(z, y, Nil) = Nil /\ Nil \notin K
      /\ \A v \in M \cup {Nil} : As(z, y, v) = Nil => v = Nil
  BY RenameFacts
<1>3. /\ r.root = As(z, y, s.root)
      /\ r.parent = [m \in K |-> As(z, y, s.parent[old(m)])]
      /\ \A c \in Sides : r[c] = [m \in K |-> As(z, y, s[c][old(m)])]
  BY <1>1 DEF Renamed
<1>4. /\ pos \in [M -> Int] /\ edge \in [Sides -> Int] /\ end \in [Sides -> [M -> Int]]
  BY <1>1 DEF Laid
<1>5. \A m \in K : pos2[m] = pos[old(m)]
  BY DEF Moved
<1> HIDE DEF K, old, pos2
<1>6. \A c \in Sides, m \in K : new[c][m] = end[c][old(m)]
  OBVIOUS
<1>7. pos2 \in [K -> Int] /\ new \in [Sides -> [K -> Int]]
  BY <1>2, <1>4 DEF Moved, pos2, K, old
<1> HIDE DEF new
<1>8. Ends(r, pos2, edge, new)
  BY <1>1, <1>2, <1>5, <1>6 DEF Laid, Ends
<1>9. Children(r, pos2, new)
  <2>1. SUFFICES ASSUME NEW n \in K, NEW c \in Sides
                 PROVE IF r[c][n] = Nil THEN new[c][n] = pos2[n]
                       ELSE /\ r.parent[r[c][n]] = n /\ new[c][r[c][n]] = new[c][n]
                            /\ new[Other(c)][r[c][n]] = pos2[n] + Step(c)
    BY <1>1 DEF Children
  <2> DEFINE o == old(n)
             v == s[c][o]
             w == As(z, y, v)
  <2>2. o \in M /\ v \in M \cup {Nil} /\ As(z, y, o) = n
    BY <1>1, <1>2
  <2>3. r[c][n] = w
    BY <1>3
  <2>4. new[c][n] = end[c][o] /\ pos2[n] = pos[o]
    BY <1>5, <1>6
  <2>5. IF v = Nil THEN end[c][o] = pos[o]
        ELSE s.parent[v] = o /\ end[c][v] = end[c][o] /\ end[Other(c)][v] = pos[o] + Step(c)
    BY <1>1, <2>2 DEF Laid, Children
  <2>6. v # Nil => w \in K /\ old(w) = v /\ w # Nil
    BY <1>2, <2>2
  <2>7. v = Nil => w = Nil
    BY <1>2
  <2>8. v # Nil => r.parent[w] = n
    <3>1. ASSUME v # Nil PROVE r.parent[w] = As(z, y, s.parent[v])
      BY <1>3, <2>6, <3>1
    <3> QED
      BY <2>2, <2>5, <3>1
  <2>9. v # Nil => new[c][w] = end[c][v] /\ new[Other(c)][w] = end[Other(c)][v]
    BY <1>1, <1>6, <2>6
  <2> HIDE DEF o, v, w
  <2> QED
    BY <2>3, <2>4, <2>5, <2>6, <2>7, <2>8, <2>9
<1>10. AtRoot(r, edge, new)
  <2>1. CASE s.root = Nil
    <3>1. M = {}
      BY <1>1, <2>1 DEF Laid, AtRoot
    <3> QED
      BY <3>1
  <2>2. CASE s.root # Nil
    <3>1. s.root \in M /\ s.parent[s.root] = Nil /\ \A c \in Sides : end[c][s.root] = edge[c]
      BY <1>1, <2>2 DEF Laid, AtRoot
    <3>2. r.root \in K /\ old(r.root) = s.root /\ r.root # Nil
      BY <1>2, <1>3, <3>1
    <3>3. r.parent[r.root] = As(z, y, s.parent[old(r.root)])
      BY <1>3, <3>2
    <3>4. r.parent[r.root] = Nil
      BY <1>2, <3>1, <3>2, <3>3
    <3> QED
      BY <1>6, <3>1, <3>2, <3>4 DEF AtRoot
  <2> QED
    BY <2>1, <2>2
<1>11. Parents(r)
  <2>1. SUFFICES ASSUME NEW n \in K
                 PROVE IF r.parent[n] = Nil THEN n = r.root ELSE \E c \in Sides : r[c][r.parent[n]] = n
    BY <1>1 DEF Parents
  <2>2. old(n) \in M /\ r.parent[n] = As(z, y, s.parent[old(n)]) /\ s.parent[old(n)] \in M \cup {Nil}
        /\ n = As(z, y, old(n))
    BY <1>1, <1>2, <1>3
  <2>3. CASE s.parent[old(n)] = Nil
    <3>1. old(n) = s.root
      BY <1>1, <2>2, <2>3 DEF Laid, Parents
    <3> QED
      BY <1>2, <1>3, <2>2, <2>3, <3>1
  <2>4. CASE s.parent[old(n)] # Nil
    <3>1. PICK c \in Sides : s[c][s.parent[old(n)]] = old(n)
      BY <1>1, <2>2, <2>4 DEF Laid, Parents
    <3>2. s.parent[old(n)] \in M
      BY <2>2, <2>4
    <3>3. r.parent[n] \in K /\ old(r.parent[n]) = s.parent[old(n)] /\ r.parent[n] # Nil
      BY <1>2, <2>2, <3>2
    <3>4. r[c][r.parent[n]] = As(z, y, s[c][old(r.parent[n])])
      BY <1>3, <3>3
    <3> QED
      BY <2>2, <3>1, <3>3, <3>4
  <2> QED
    BY <2>3, <2>4
<1>12. Laid(r, pos2, edge, new)
  BY <1>1, <1>4, <1>7, <1>8, <1>9, <1>10, <1>11 DEF Laid
<1> QED
  BY <1>12 DEF pos2

-----------------------------------------------------------------------------
(***************************************************************************)
(* A black node short (tree.go:166-249).                                   *)
(***************************************************************************)

Tone(red, n) == IF n \in red THEN 0 ELSE 1
Owed(q, s, n, c) == IF n = q /\ c = s THEN 1 ELSE 0

\* The child m of n on side c has the height it should have, but for the black
\* node that is missing under q on side s.
Levels(red, h, q, s, n, c, m) == h[n] = High(h, m) + Tone(red, n) + Owed(q, s, n, c)

Short(t, h, q, s) ==
  /\ h \in [Nodes(t) -> Nat]
  /\ \A n \in Nodes(t), c \in Sides : Levels(t.red, h, q, s, n, c, t[c][n])

(* Where none is missing.                                                    *)
LEMMA ShortNone ==
  ASSUME NEW N, Nil \notin N, NEW t \in Trees(N), NEW h, NEW s
  PROVE Short(t, h, Nil, s) <=> Even(t, h)
<1>1. Nodes(t) = N /\ \A c \in Sides : t[c] \in [N -> N \cup {Nil}]
  BY Fields
<1>2. ASSUME h \in [N -> Nat], NEW n \in N, NEW c \in Sides
      PROVE Levels(t.red, h, Nil, s, n, c, t[c][n])
            <=> h[n] = High(h, t[c][n]) + (IF n \in t.red THEN 0 ELSE 1)
  <2>1. Owed(Nil, s, n, c) = 0 /\ High(h, t[c][n]) \in Nat
    BY <1>1, <1>2 DEF Owed, High
  <2>2. Tone(t.red, n) = (IF n \in t.red THEN 0 ELSE 1)
    BY DEF Tone
  <2> QED
    BY <2>1, <2>2 DEF Levels, Tone
<1> QED
  BY <1>1, <1>2 DEF Short, Even

(* Of a node, its child and its grandchild on one side, the last is not above *)
(* the first.                                                                *)
LEMMA GrandchildApart ==
  ASSUME NEW N, Nil \notin N, NEW t \in Trees(N), NEW pos, NEW edge, NEW end, Laid(t, pos, edge, end),
         NEW x \in N, NEW e \in Sides, NEW y \in N, y = t[e][x], NEW f \in N, f = t[e][y], NEW c \in Sides
  PROVE t[c][f] # x /\ t[c][f] # y /\ f # x /\ f # y
<1>1. /\ Nodes(t) = N /\ Other(e) \in Sides /\ y # Nil /\ f # Nil /\ x # Nil /\ Nil \notin N
      /\ c = e \/ c = Other(e)
  BY Fields, TwoSides
<1>2. pos[x] \in Int /\ pos[y] \in Int /\ pos[f] \in Int /\ end[Other(e)][f] \in Int /\ end[Other(e)][x] \in Int
  BY <1>1 DEF Laid
<1>3. t.parent[y] = x /\ Towards(e, pos[x], pos[y]) /\ pos[x] # pos[y] /\ y # x
  BY <1>1, ChildBeyond
<1>4. /\ t.parent[f] = y /\ Towards(e, pos[y], pos[f]) /\ pos[y] # pos[f] /\ f # y
      /\ end[Other(e)][f] = pos[y] + Step(e)
  BY <1>1, ChildBeyond
<1>5. f # x
  BY <1>2, <1>3, <1>4 DEF Towards, Sides
<1>6. t[c][f] # y
  <2>1. t[c][f] = y => t.parent[y] = f
    BY <1>1, ChildBeyond
  <2> QED
    BY <1>3, <1>5, <2>1
<1>7. t[c][f] # x
  <2>1. SUFFICES ASSUME t[c][f] = x PROVE FALSE
    OBVIOUS
  <2>2. Towards(c, pos[f], pos[x]) /\ pos[f] # pos[x] /\ end[c][x] = end[c][f]
    BY <1>1, <2>1, ChildBeyond
  <2>3. Towards(Other(e), pos[x], end[Other(e)][x])
    BY <1>1 DEF Laid, Ends
  <2>4. CASE c = e
    BY <1>2, <1>3, <1>4, <2>2, <2>4 DEF Towards, Sides
  <2>5. CASE c = Other(e)
    BY <1>2, <1>3, <1>4, <2>2, <2>3, <2>5 DEF Towards, Sides, Other, Step
  <2> QED
    BY <1>1, <2>4, <2>5
<1> QED
  BY <1>4, <1>5, <1>6, <1>7

\* k is t with the colours red, and r is k turned at x, where y comes up.
Recast(r, k, t, x, d, red) ==
  /\ k \in Trees(Nodes(t)) /\ SameBut(k, t, red, t.parent) /\ Turned(r, k, x, d)

\* The colours and the heights of nodes other than x, y and f stay.
Elsewhere(N, x, y, f, red, new, red0, h) ==
  \A n \in N : n # x /\ n # y /\ n # f => new[n] = h[n] /\ (n \in red <=> n \in red0)

\* The links of r, and of the three nodes around the turn in t.
Rewired(r, t, x, d, y, red) ==
  LET N == Nodes(t)
      e == Other(d)
  IN /\ r.red = red /\ r.size = t.size
     /\ r[d][x] = t[d][x] /\ r[e][x] = t[d][y] /\ r[d][y] = x /\ r[e][y] = t[e][y]
     /\ \A n \in N, c \in Sides : n # x /\ n # y => r[c][n] = IF t[c][n] = x THEN y ELSE t[c][n]
     /\ r.root = IF t.parent[x] = Nil THEN y ELSE t.root
     /\ r.parent = [m \in N |-> IF m = y THEN t.parent[x] ELSE IF m = x THEN y
                                ELSE IF m = t[d][y] THEN x ELSE t.parent[m]]
     /\ x # y /\ t[d][x] # y /\ t[d][y] # x /\ t[d][y] # y /\ t[e][y] # x /\ t[e][y] # y
     /\ t.parent[x] # x /\ t.parent[x] # y

(* The links a rotation leaves.                                              *)
LEMMA TurnLinks ==
  ASSUME NEW N, Nil \notin N, NEW t \in Trees(N), NEW pos, NEW edge, NEW end, Laid(t, pos, edge, end),
         NEW x \in N, NEW d \in Sides, NEW y \in N, y = t[Other(d)][x],
         NEW red, NEW k, NEW r \in Trees(N), Recast(r, k, t, x, d, red)
  PROVE Rewired(r, t, x, d, y, red)
<1> DEFINE e == Other(d)
           b == t[d][y]
           p == t.parent[x]
<1>1. /\ Nodes(t) = N /\ e \in Sides /\ Other(e) = d /\ e # d /\ \A c \in Sides : c = d \/ c = e
      /\ x # Nil /\ y # Nil /\ p \in N \cup {Nil} /\ \A c \in Sides : t[c] \in [N -> N \cup {Nil}]
  BY Fields, TwoSides
<1>2. CanTurn(t, x, d)
  BY <1>1, TurnPossible
<1>3. x # y /\ t[d][x] # y /\ b # x /\ b # y /\ p # x /\ p # y /\ OneChild(t, x, p)
  BY <1>2 DEF CanTurn
<1>4. t[e][y] # x /\ t[e][y] # y
  <2>1. CASE t[e][y] = Nil
    BY <1>1, <2>1
  <2>2. CASE t[e][y] # Nil
    <3>1. t[e][y] \in N
      BY <1>1, <2>2
    <3> QED
      BY <1>1, <3>1, GrandchildApart
  <2> QED
    BY <2>1, <2>2
<1>5. k \in Trees(N) /\ SameBut(k, t, red, t.parent) /\ Turned(r, k, x, d) /\ Nodes(k) = N
  BY <1>1, Fields DEF Recast
<1>6. k.root = t.root /\ k.parent = t.parent /\ k[d] = t[d] /\ k[e] = t[e] /\ k.red = red /\ k.size = t.size
  BY <1>1, <1>5 DEF SameBut
<1>7. /\ r.red = red /\ r.size = t.size
      /\ r.root = IF p = Nil THEN y ELSE t.root
      /\ r.parent = [m \in N |-> IF m = y THEN p ELSE IF m = x THEN y ELSE IF m = b THEN x ELSE t.parent[m]]
      /\ r[d] = [m \in N |-> IF m = y THEN x ELSE IF m = p /\ t[d][p] = x THEN y ELSE t[d][m]]
      /\ r[e] = [m \in N |-> IF m = x THEN b ELSE IF m = p /\ t[e][p] = x THEN y ELSE t[e][m]]
  BY <1>5, <1>6 DEF Turned
<1>8. \A n \in N, c \in Sides : t[c][n] = x => n = p
  BY <1>1, ChildBeyond
<1> HIDE DEF e, b, p
<1>9. ASSUME NEW n \in N, NEW c \in Sides, n # x, n # y
      PROVE r[c][n] = IF t[c][n] = x THEN y ELSE t[c][n]
  <2>1. CASE c = d
    BY <1>7, <1>8, <1>9, <2>1
  <2>2. CASE c = e
    BY <1>7, <1>8, <1>9, <2>2
  <2> QED
    BY <1>1, <2>1, <2>2
<1>10. r[d][x] = t[d][x] /\ r[e][x] = b /\ r[d][y] = x /\ r[e][y] = t[e][y]
  BY <1>3, <1>7
<1> QED
  BY <1>1, <1>3, <1>4, <1>7, <1>9, <1>10 DEF Rewired, e, b, p

\* The heights new are right at x, y and f, with a node missing under q, and
\* those of y are x's.
LevelsFit(t, x, d, y, f, red, new, h, q, s) ==
  /\ new[y] = h[x]
  /\ Levels(red, new, q, s, x, d, t[d][x]) /\ Levels(red, new, q, s, x, Other(d), t[d][y])
  /\ Levels(red, new, q, s, y, d, x) /\ Levels(red, new, q, s, y, Other(d), t[Other(d)][y])
  /\ f # Nil => \A c \in Sides : Levels(red, new, q, s, f, c, t[c][f])

(* A rotation with new colours and heights that fit at x, y and f leaves the  *)
(* heights right.                                                            *)
LEMMA TurnShort ==
  ASSUME NEW N, Nil \notin N, NEW t \in Trees(N), NEW pos, NEW edge, NEW end, Laid(t, pos, edge, end),
         NEW x \in N, NEW d \in Sides, NEW y \in N, y = t[Other(d)][x],
         NEW f \in N \cup {Nil}, f = Nil \/ f = t[Other(d)][y],
         NEW red, NEW k, NEW r \in Trees(N), Recast(r, k, t, x, d, red),
         NEW h, NEW q, NEW s, Short(t, h, q, s), NEW q2, \A n \in N : n # x => (n = q <=> n = q2),
         NEW new, new \in [N -> Nat], Elsewhere(N, x, y, f, red, new, t.red, h),
         LevelsFit(t, x, d, y, f, red, new, h, q2, s)
  PROVE Short(r, new, q2, s)
<1> DEFINE e == Other(d)
<1>1. /\ Nodes(t) = N /\ Nodes(r) = N /\ e \in Sides /\ \A c \in Sides : c = d \/ c = e
      /\ \A c \in Sides : t[c] \in [N -> N \cup {Nil}]
  BY Fields, TwoSides
<1>2. /\ r.red = red /\ r[d][x] = t[d][x] /\ r[e][x] = t[d][y] /\ r[d][y] = x /\ r[e][y] = t[e][y]
      /\ \A n \in N, c \in Sides : n # x /\ n # y => r[c][n] = IF t[c][n] = x THEN y ELSE t[c][n]
      /\ x # y
  <2>1. Rewired(r, t, x, d, y, red)
    BY TurnLinks
  <2> QED
    BY <1>1, <2>1 DEF Rewired
<1>3. h \in [N -> Nat] /\ \A n \in N, c \in Sides : Levels(t.red, h, q, s, n, c, t[c][n])
  BY <1>1 DEF Short
<1>4. /\ new[y] = h[x]
      /\ Levels(red, new, q2, s, x, d, t[d][x]) /\ Levels(red, new, q2, s, x, e, t[d][y])
      /\ Levels(red, new, q2, s, y, d, x) /\ Levels(red, new, q2, s, y, e, t[e][y])
      /\ f # Nil => \A c \in Sides : Levels(red, new, q2, s, f, c, t[c][f])
  BY DEF LevelsFit
<1>5. f # Nil => f = t[e][y]
  OBVIOUS
<1> HIDE DEF e
<1>6. ASSUME NEW n \in N, NEW c \in Sides PROVE Levels(red, new, q2, s, n, c, r[c][n])
  <2>1. CASE n = x
    BY <1>1, <1>2, <1>4, <2>1
  <2>2. CASE n = y
    BY <1>1, <1>2, <1>4, <2>2
  <2>3. CASE n = f
    <3>1. f \in N /\ f = t[e][y]
      BY <1>5, <2>3
    <3>2. t[c][f] # x /\ f # x /\ f # y
      BY <1>1, <3>1, GrandchildApart DEF e
    <3>3. r[c][n] = t[c][f]
      BY <1>2, <2>3, <3>2
    <3> QED
      BY <1>4, <2>3, <3>1, <3>3
  <2>4. CASE n # x /\ n # y /\ n # f
    <3>1. Levels(t.red, h, q, s, n, c, t[c][n])
      BY <1>3
    <3>2. new[n] = h[n] /\ (n \in red <=> n \in t.red) /\ (n = q <=> n = q2)
      BY <2>4 DEF Elsewhere
    <3>3. Tone(red, n) = Tone(t.red, n) /\ Owed(q2, s, n, c) = Owed(q, s, n, c)
      BY <3>2 DEF Tone, Owed
    <3>4. High(new, r[c][n]) = High(h, t[c][n])
      <4>1. CASE t[c][n] = x
        <5>1. r[c][n] = y
          BY <1>2, <2>4, <4>1
        <5> QED
          BY <1>4, <4>1, <5>1 DEF High
      <4>2. CASE t[c][n] # x
        <5>1. r[c][n] = t[c][n]
          BY <1>2, <2>4, <4>2
        <5>2. t[c][n] # Nil => /\ t[c][n] \in N /\ t[c][n] # x /\ t[c][n] # y /\ t[c][n] # f
          <6>1. t[c][n] = y => t.parent[y] = n
            BY <1>1, ChildBeyond
          <6>2. t.parent[y] = x
            BY <1>1, ChildBeyond DEF e
          <6>3. t[c][n] = f /\ f # Nil => t.parent[f] = n
            BY <1>1, ChildBeyond
          <6>4. f # Nil => t.parent[f] = y
            BY <1>1, <1>5, ChildBeyond DEF e
          <6> QED
            BY <1>1, <2>4, <4>2, <6>1, <6>2, <6>3, <6>4
        <5>3. t[c][n] # Nil => new[t[c][n]] = h[t[c][n]]
          BY <5>2 DEF Elsewhere
        <5> QED
          BY <5>1, <5>3 DEF High
      <4> QED
        BY <4>1, <4>2
    <3> QED
      BY <3>1, <3>2, <3>3, <3>4 DEF Levels
  <2> QED
    BY <2>1, <2>2, <2>3, <2>4
<1> QED
  BY <1>1, <1>2, <1>6 DEF Short

\* The colours red of x, of y, which comes up, of f and of what is under them.
RedsFit(t, x, d, y, f, red) ==
  /\ \A n \in Nodes(t) : n # x /\ n # y /\ n # f => (n \in red <=> n \in t.red)
  /\ y \in red => x \in t.red /\ t[Other(d)][y] \notin red
  /\ x \in red => y \notin red /\ t[d][y] \notin red /\ t[d][x] \notin red
  /\ f \notin red

(* And no red node under a red one, where x, y and f fit.                    *)
LEMMA TurnReds ==
  ASSUME NEW N, Nil \notin N, NEW t \in Trees(N), NEW pos, NEW edge, NEW end, Laid(t, pos, edge, end),
         NEW x \in N, NEW d \in Sides, NEW y \in N, y = t[Other(d)][x],
         NEW f \in N \cup {Nil}, f = Nil \/ f = t[Other(d)][y],
         NEW red, red \subseteq N, NEW k, NEW r \in Trees(N), Recast(r, k, t, x, d, red),
         OneRedRed(t, Nil), RedsFit(t, x, d, y, f, red)
  PROVE OneRedRed(r, Nil)
<1> DEFINE e == Other(d)
           b == t[d][y]
           p == t.parent[x]
<1>1. /\ Nodes(t) = N /\ Nodes(r) = N /\ e \in Sides /\ \A c \in Sides : c = d \/ c = e
      /\ \A c \in Sides : t[c] \in [N -> N \cup {Nil}] /\ p \in N \cup {Nil} /\ t.red \subseteq N
  BY Fields, TwoSides
<1>2. /\ r.red = red
      /\ r.parent = [m \in N |-> IF m = y THEN p ELSE IF m = x THEN y ELSE IF m = b THEN x ELSE t.parent[m]]
      /\ x # y /\ b # x /\ b # y /\ p # x /\ p # y
  <2>1. Rewired(r, t, x, d, y, red)
    BY TurnLinks
  <2> QED
    BY <1>1, <2>1 DEF Rewired
<1>3. \A n \in t.red : t.parent[n] # Nil /\ t.parent[n] \notin t.red
  BY <1>1 DEF OneRedRed
<1>4. SUFFICES ASSUME NEW n \in red PROVE r.parent[n] # Nil /\ r.parent[n] \notin red
  BY <1>2 DEF OneRedRed
<1>5. n \in N /\ n # Nil /\ x # Nil /\ y # Nil
  OBVIOUS
<1>10. /\ \A m \in N : m # x /\ m # y /\ m # f => (m \in red <=> m \in t.red)
       /\ y \in red => x \in t.red /\ t[e][y] \notin red
       /\ x \in red => y \notin red /\ b \notin red /\ t[d][x] \notin red
       /\ f \notin red
  BY <1>1 DEF RedsFit
<1>6. CASE n = y
  <2>1. p # Nil /\ p \notin t.red
    BY <1>3, <1>4, <1>6, <1>10
  <2>2. p # f
    <3>1. SUFFICES ASSUME p = f PROVE FALSE
      OBVIOUS
    <3>2. f \in N /\ f = t[e][y]
      BY <1>1, <2>1, <3>1
    <3>3. \E c \in Sides : t[c][f] = x
      BY <1>1, <2>1, <3>1 DEF Laid, Parents
    <3> QED
      BY <1>1, <3>2, <3>3, GrandchildApart
  <2>3. p \notin red
    BY <1>1, <1>2, <2>1, <2>2, <1>10
  <2> QED
    BY <1>2, <1>6, <2>1, <2>3
<1>7. CASE n = x
  BY <1>2, <1>4, <1>5, <1>7, <1>10
<1>8. CASE n = b
  BY <1>2, <1>4, <1>5, <1>8, <1>10
<1>9. CASE n # x /\ n # y /\ n # b
  <2>1. n # f /\ n \in t.red
    BY <1>4, <1>9, <1>10
  <2>2. t.parent[n] # Nil /\ t.parent[n] \notin t.red /\ r.parent[n] = t.parent[n]
    BY <1>2, <1>3, <1>9, <2>1
  <2>3. t.parent[n] \in N /\ \E c \in Sides : t[c][t.parent[n]] = n
    BY <1>1, <2>2, Fields DEF Laid, Parents
  <2>4. t.parent[n] \notin red
    <3>1. CASE t.parent[n] = x
      <4>1. n = t[d][x]
        BY <1>1, <1>9, <2>3, <3>1
      <4> QED
        BY <1>4, <1>10, <3>1, <4>1
    <3>2. CASE t.parent[n] = y
      <4>1. n = t[e][y]
        BY <1>1, <1>9, <2>3, <3>2
      <4> QED
        BY <1>4, <1>10, <3>2, <4>1
    <3>3. CASE t.parent[n] # x /\ t.parent[n] # y
      BY <2>2, <2>3, <3>3, <1>10
    <3> QED
      BY <3>1, <3>2, <3>3
  <2> QED
    BY <2>2, <2>4
<1> QED
  BY <1>6, <1>7, <1>8, <1>9

(* The heights of children and what is under them.                           *)
LEMMA ShortAt ==
  ASSUME NEW N, Nil \notin N, NEW t \in Trees(N), NEW h, NEW q, NEW s, Short(t, h, q, s), NEW n \in N, NEW c \in Sides
  PROVE /\ h[n] \in Nat /\ High(h, t[c][n]) \in Nat
        /\ h[n] = High(h, t[c][n]) + Tone(t.red, n) + Owed(q, s, n, c)
BY Fields DEF Short, Levels, High

(* A node with other heights has its children's still.                       *)
LEMMA SameHigh ==
  ASSUME NEW N, NEW h, NEW new, NEW x, NEW y, NEW f, NEW red, NEW red0, Elsewhere(N, x, y, f, red, new, red0, h),
         NEW m \in N \cup {Nil}, m = Nil \/ (m # x /\ m # y /\ m # f)
  PROVE High(new, m) = High(h, m)
BY DEF High, Elsewhere

(* The first case: a red sibling w comes up, and the node under par that was  *)
(* its child is the new sibling, which is black.                             *)
LEMMA RedSibling ==
  ASSUME NEW N, Nil \notin N, NEW t \in Trees(N), NEW pos, NEW edge, NEW end, Laid(t, pos, edge, end),
         NEW par \in N, NEW d \in Sides, NEW w \in N, w = t[Other(d)][par], w \in t.red, t[d][par] \notin t.red,
         NEW h, Short(t, h, par, d), OneRedRed(t, Nil),
         NEW k, NEW r \in Trees(N), Recast(r, k, t, par, d, (t.red \ {w}) \cup {par})
  PROVE /\ \E new : Short(r, new, par, d)
        /\ OneRedRed(r, Nil)
        /\ r[d][par] = t[d][par] /\ r[Other(d)][par] = t[d][w] /\ t[d][w] # Nil /\ t[d][w] \notin r.red
        /\ par \in r.red
<1> DEFINE e == Other(d)
           x == t[d][par]
           near == t[d][w]
           far == t[e][w]
           red == (t.red \ {w}) \cup {par}
           new == [n \in N |-> IF n = w THEN h[par] ELSE IF n = par THEN h[w] ELSE h[n]]
<1>1. /\ Nodes(t) = N /\ e \in Sides /\ e # d /\ Other(e) = d /\ \A c \in Sides : c = d \/ c = e
      /\ x \in N \cup {Nil} /\ near \in N \cup {Nil} /\ far \in N \cup {Nil} /\ t.red \subseteq N
      /\ red \subseteq N /\ par # Nil /\ w # Nil
  BY Fields, TwoSides
<1>2. Rewired(r, t, par, d, w, red)
  BY TurnLinks
<1>3. /\ r.red = red /\ r[d][par] = x /\ r[e][par] = near
      /\ par # w /\ x # w /\ near # par /\ near # w /\ far # par /\ far # w
  BY <1>2 DEF Rewired
<1>4. x # par /\ x # near /\ t.parent[w] = par /\ (near # Nil => t.parent[near] = w) /\ (far # Nil => t.parent[far] = w)
  <2>1. x # Nil => x # par /\ t.parent[x] = par
    BY <1>1, ChildBeyond
  <2>2. t.parent[w] = par
    BY <1>1, ChildBeyond
  <2>3. near # Nil => t.parent[near] = w
    BY <1>1, ChildBeyond
  <2>4. far # Nil => t.parent[far] = w
    BY <1>1, ChildBeyond
  <2>5. near # Nil
    <3>1. /\ h[par] \in Nat /\ High(h, x) \in Nat /\ h[par] = High(h, x) + Tone(t.red, par) + Owed(par, d, par, d)
      BY ShortAt
    <3>2. h[par] = High(h, w) + Tone(t.red, par) + Owed(par, d, par, e)
      BY <1>1, ShortAt
    <3>3. h[w] \in Nat /\ High(h, near) \in Nat /\ h[w] = High(h, near) + Tone(t.red, w) + Owed(par, d, w, d)
      BY ShortAt
    <3> QED
      BY <1>1, <1>3, <3>1, <3>2, <3>3 DEF High, Tone, Owed
  <2> QED
    BY <1>1, <1>3, <2>1, <2>2, <2>3, <2>4, <2>5
<1>5. \A n \in t.red : t.parent[n] # Nil /\ t.parent[n] \notin t.red
  BY <1>1 DEF OneRedRed
<1>6. par \notin t.red /\ near \notin t.red /\ far \notin t.red
  <2>1. par \notin t.red
    BY <1>4, <1>5
  <2>2. near \notin t.red
    BY <1>1, <1>4, <1>5
  <2>3. far \notin t.red
    BY <1>1, <1>4, <1>5
  <2> QED
    BY <2>1, <2>2, <2>3
<1>7. /\ h[par] \in Nat /\ h[w] \in Nat /\ High(h, x) \in Nat /\ High(h, near) \in Nat /\ High(h, far) \in Nat
      /\ h[par] = High(h, x) + 2 /\ h[par] = h[w] + 1 /\ h[w] = High(h, near) /\ h[w] = High(h, far)
  <2>1. /\ h[par] \in Nat /\ High(h, x) \in Nat /\ h[par] = High(h, x) + Tone(t.red, par) + Owed(par, d, par, d)
    BY ShortAt
  <2>2. h[par] = High(h, w) + Tone(t.red, par) + Owed(par, d, par, e)
    BY <1>1, ShortAt
  <2>3. h[w] \in Nat /\ High(h, near) \in Nat /\ h[w] = High(h, near) + Tone(t.red, w) + Owed(par, d, w, d)
    BY ShortAt
  <2>4. High(h, far) \in Nat /\ h[w] = High(h, far) + Tone(t.red, w) + Owed(par, d, w, e)
    BY <1>1, ShortAt
  <2>5. High(h, w) = h[w]
    BY <1>1 DEF High
  <2>6. Tone(t.red, par) = 1 /\ Tone(t.red, w) = 0
    BY <1>6 DEF Tone
  <2>7. Owed(par, d, par, d) = 1 /\ Owed(par, d, par, e) = 0 /\ Owed(par, d, w, d) = 0 /\ Owed(par, d, w, e) = 0
    BY <1>1, <1>3 DEF Owed
  <2> HIDE DEF x, near, far, e
  <2> QED
    BY <2>1, <2>2, <2>3, <2>4, <2>5, <2>6, <2>7
<1>8. near # Nil
  <2>1. High(h, near) # 0
    BY <1>7
  <2> QED
    BY <2>1 DEF High
<1>9. h \in [N -> Nat]
  BY <1>1 DEF Short
<1>10. new \in [N -> Nat] /\ new[w] = h[par] /\ new[par] = h[w] /\ Elsewhere(N, par, w, Nil, red, new, t.red, h)
  BY <1>3, <1>7, <1>9 DEF Elsewhere
<1> HIDE DEF new, red
<1>11. High(new, x) = High(h, x) /\ High(new, near) = High(h, near) /\ High(new, far) = High(h, far)
       /\ High(new, par) = h[w]
  <2>1. High(new, x) = High(h, x)
    BY <1>1, <1>3, <1>4, <1>10, SameHigh
  <2>2. High(new, near) = High(h, near)
    BY <1>1, <1>3, <1>10, SameHigh
  <2>3. High(new, far) = High(h, far)
    BY <1>1, <1>3, <1>10, SameHigh
  <2> QED
    BY <1>1, <1>10, <2>1, <2>2, <2>3 DEF High
<1>12. par \in red /\ w \notin red /\ near \notin red /\ x \notin red /\ far \notin red
  BY <1>3, <1>4, <1>6 DEF red
<1>13. /\ Levels(red, new, par, d, par, d, x) /\ Levels(red, new, par, d, par, e, near)
       /\ Levels(red, new, par, d, w, d, par) /\ Levels(red, new, par, d, w, e, far)
  <2>1. Tone(red, par) = 0 /\ Tone(red, w) = 1
    BY <1>12 DEF Tone
  <2>2. Owed(par, d, par, d) = 1 /\ Owed(par, d, par, e) = 0 /\ Owed(par, d, w, d) = 0 /\ Owed(par, d, w, e) = 0
    BY <1>1, <1>3 DEF Owed
  <2> HIDE DEF x, near, far, e
  <2>3. Levels(red, new, par, d, par, d, x)
    BY <1>7, <1>10, <1>11, <2>1, <2>2 DEF Levels
  <2>4. Levels(red, new, par, d, par, e, near)
    <3>1. new[par] = High(new, near) /\ High(new, near) \in Nat
      BY <1>7, <1>10, <1>11
    <3> QED
      BY <2>1, <2>2, <3>1 DEF Levels
  <2>5. Levels(red, new, par, d, w, d, par)
    BY <1>7, <1>10, <1>11, <2>1, <2>2 DEF Levels
  <2>6. Levels(red, new, par, d, w, e, far)
    BY <1>7, <1>10, <1>11, <2>1, <2>2 DEF Levels
  <2> QED
    BY <2>3, <2>4, <2>5, <2>6
<1>14. Recast(r, k, t, par, d, red)
  BY DEF red
<1>15. Short(r, new, par, d)
  <2>1. LevelsFit(t, par, d, w, Nil, red, new, h, par, d)
    BY <1>10, <1>13 DEF LevelsFit
  <2> QED
    BY <1>10, <1>14, <2>1, TurnShort
<1>16. OneRedRed(r, Nil)
  <2>1. RedsFit(t, par, d, w, Nil, red)
    BY <1>1, <1>12 DEF RedsFit, red
  <2>2. red \subseteq N
    BY <1>1 DEF red
  <2> QED
    BY <1>1, <1>14, <2>1, <2>2, TurnReds
<1> QED
  BY <1>3, <1>8, <1>12, <1>15, <1>16

\* The near child of the black sibling w of par's child is red, the far one is
\* black, and r is the tree turned at w.
NearFit(r, k, t, par, d, w, near) ==
  /\ w = t[Other(d)][par] /\ w \notin t.red /\ near = t[d][w] /\ near \in t.red
  /\ t[Other(d)][w] \notin t.red
  /\ Recast(r, k, t, w, Other(d), (t.red \ {near}) \cup {w})

\* And the node near is a black sibling with a red far child in r.
NearEnds(r, t, par, d, w, near) ==
  /\ \E new : Short(r, new, par, d)
  /\ OneRedRed(r, Nil)
  /\ r[d][par] = t[d][par] /\ r[Other(d)][par] = near /\ r[Other(d)][near] = w
  /\ near \notin r.red /\ w \in r.red

(* The third case: the near child of the black sibling w is red and comes up, *)
(* and w, red, is the far child of the new sibling.                          *)
LEMMA NearTurn ==
  ASSUME NEW N, Nil \notin N, NEW t \in Trees(N), NEW pos, NEW edge, NEW end, Laid(t, pos, edge, end),
         NEW par \in N, NEW d \in Sides, NEW w \in N, NEW near \in N,
         NEW h, Short(t, h, par, d), OneRedRed(t, Nil),
         NEW k, NEW r \in Trees(N), NearFit(r, k, t, par, d, w, near)
  PROVE NearEnds(r, t, par, d, w, near)
<1> DEFINE e == Other(d)
           far == t[e][w]
           in == t[e][near]
           out == t[d][near]
           red == (t.red \ {near}) \cup {w}
           new == [n \in N |-> IF n = near THEN h[w] ELSE IF n = w THEN h[near] ELSE h[n]]
<1> USE DEF NearFit
<1>1. /\ Nodes(t) = N /\ e \in Sides /\ e # d /\ Other(e) = d /\ \A c \in Sides : c = d \/ c = e
      /\ far \in N \cup {Nil} /\ in \in N \cup {Nil} /\ out \in N \cup {Nil} /\ t.red \subseteq N
      /\ red \subseteq N /\ par # Nil /\ w # Nil /\ near # Nil /\ t[d][par] \in N \cup {Nil}
  BY Fields, TwoSides
<1>2. Rewired(r, t, w, e, near, red)
  <2>1. near = t[Other(e)][w] /\ Recast(r, k, t, w, e, red)
    BY <1>1
  <2> HIDE DEF red
  <2> QED
    BY <1>1, <2>1, TurnLinks
<1>3. /\ r.red = red /\ r[d][near] = out /\ r[e][near] = w
      /\ \A n \in N, c \in Sides : n # w /\ n # near => r[c][n] = IF t[c][n] = w THEN near ELSE t[c][n]
      /\ near # w /\ far # near /\ in # w /\ in # near /\ out # w /\ out # near /\ t.parent[w] # near
  BY <1>1, <1>2 DEF Rewired
<1>4. /\ t.parent[w] = par /\ par # w /\ par # near /\ t.parent[near] = w
      /\ (far # Nil => t.parent[far] = w /\ far # w)
      /\ (in # Nil => t.parent[in] = near) /\ (out # Nil => t.parent[out] = near) /\ t[d][par] # w
  <2>1. t.parent[w] = par /\ par # w /\ t[d][par] # w
    BY <1>1, ChildBeyond
  <2>2. t.parent[near] = w
    BY <1>1, ChildBeyond
  <2>3. far # Nil => t.parent[far] = w /\ far # w
    BY <1>1, ChildBeyond
  <2>4. in # Nil => t.parent[in] = near
    BY <1>1, ChildBeyond
  <2>5. out # Nil => t.parent[out] = near
    BY <1>1, ChildBeyond
  <2> QED
    BY <1>3, <2>1, <2>2, <2>3, <2>4, <2>5
<1>5. r[d][par] = t[d][par] /\ r[e][par] = near
  BY <1>1, <1>3, <1>4
<1>6. in \notin t.red /\ out \notin t.red
  <2>1. \A n \in t.red : t.parent[n] # Nil /\ t.parent[n] \notin t.red
    BY <1>1 DEF OneRedRed
  <2>2. in \notin t.red
    BY <1>1, <1>4, <2>1
  <2>3. out \notin t.red
    BY <1>1, <1>4, <2>1
  <2> QED
    BY <2>2, <2>3
<1>7. /\ h[w] \in Nat /\ h[near] \in Nat /\ High(h, in) \in Nat /\ High(h, out) \in Nat /\ High(h, far) \in Nat
      /\ h[w] = h[near] + 1 /\ h[w] = High(h, far) + 1 /\ h[near] = High(h, in) /\ h[near] = High(h, out)
  <2>1. h[w] \in Nat /\ h[w] = High(h, near) + Tone(t.red, w) + Owed(par, d, w, d)
    BY ShortAt
  <2>2. High(h, far) \in Nat /\ h[w] = High(h, far) + Tone(t.red, w) + Owed(par, d, w, e)
    BY <1>1, ShortAt
  <2>3. h[near] \in Nat /\ High(h, out) \in Nat /\ h[near] = High(h, out) + Tone(t.red, near) + Owed(par, d, near, d)
    BY ShortAt
  <2>4. High(h, in) \in Nat /\ h[near] = High(h, in) + Tone(t.red, near) + Owed(par, d, near, e)
    BY <1>1, ShortAt
  <2>5. High(h, near) = h[near]
    BY <1>1 DEF High
  <2>6. Tone(t.red, near) = 0 /\ Tone(t.red, w) = 1
    BY DEF Tone
  <2>7. Owed(par, d, near, d) = 0 /\ Owed(par, d, near, e) = 0 /\ Owed(par, d, w, d) = 0 /\ Owed(par, d, w, e) = 0
    BY <1>1, <1>4 DEF Owed
  <2> HIDE DEF in, out, far, e
  <2> QED
    BY <2>1, <2>2, <2>3, <2>4, <2>5, <2>6, <2>7
<1>9. h \in [N -> Nat]
  BY <1>1 DEF Short
<1>10. new \in [N -> Nat] /\ new[near] = h[w] /\ new[w] = h[near] /\ Elsewhere(N, w, near, Nil, red, new, t.red, h)
  BY <1>3, <1>7, <1>9 DEF Elsewhere
<1>12. w \in red /\ near \notin red /\ in \notin red /\ out \notin red /\ far \notin red
  BY <1>1, <1>3, <1>4, <1>6
<1> HIDE DEF new, red
<1>11. High(new, in) = High(h, in) /\ High(new, out) = High(h, out) /\ High(new, far) = High(h, far)
       /\ High(new, w) = h[near]
  <2>4. \A m \in N : m # w /\ m # near => new[m] = h[m]
    BY <1>10 DEF Elsewhere
  <2>5. \A m \in N \cup {Nil} : m # w /\ m # near => High(new, m) = High(h, m)
    BY <2>4 DEF High
  <2>6. far # w
    BY <1>1, <1>4
  <2> HIDE DEF in, out, far
  <2>1. High(new, in) = High(h, in)
    BY <1>1, <1>3, <2>5
  <2>2. High(new, out) = High(h, out)
    BY <1>1, <1>3, <2>5
  <2>3. High(new, far) = High(h, far)
    BY <1>1, <1>3, <2>5, <2>6
  <2> QED
    BY <1>1, <1>10, <2>1, <2>2, <2>3 DEF High
<1>13. /\ Levels(red, new, par, d, w, e, far) /\ Levels(red, new, par, d, w, d, in)
       /\ Levels(red, new, par, d, near, e, w) /\ Levels(red, new, par, d, near, d, out)
  <2>1. Tone(red, w) = 0 /\ Tone(red, near) = 1
    BY <1>12 DEF Tone
  <2>2. Owed(par, d, near, d) = 0 /\ Owed(par, d, near, e) = 0 /\ Owed(par, d, w, d) = 0 /\ Owed(par, d, w, e) = 0
    BY <1>1, <1>4 DEF Owed
  <2> HIDE DEF in, out, far, e
  <2>3. Levels(red, new, par, d, w, e, far)
    <3>1. new[w] = High(new, far) /\ High(new, far) \in Nat
      BY <1>7, <1>10, <1>11
    <3> QED
      BY <2>1, <2>2, <3>1 DEF Levels
  <2>4. Levels(red, new, par, d, w, d, in)
    <3>1. new[w] = High(new, in) /\ High(new, in) \in Nat
      BY <1>7, <1>10, <1>11
    <3> QED
      BY <2>1, <2>2, <3>1 DEF Levels
  <2>5. Levels(red, new, par, d, near, e, w)
    BY <1>7, <1>10, <1>11, <2>1, <2>2 DEF Levels
  <2>6. Levels(red, new, par, d, near, d, out)
    BY <1>7, <1>10, <1>11, <2>1, <2>2 DEF Levels
  <2> QED
    BY <2>3, <2>4, <2>5, <2>6
<1>14. Recast(r, k, t, w, e, red)
  BY DEF red
<1>15. Short(r, new, par, d)
  <2>1. near = t[Other(e)][w] /\ w \in N /\ near \in N /\ Nil \in N \cup {Nil}
    BY <1>1
  <2>2. LevelsFit(t, w, e, near, Nil, red, new, h, par, d)
    BY <1>1, <1>10, <1>13 DEF LevelsFit
  <2> HIDE DEF e
  <2> QED
    BY <1>1, <1>10, <1>14, <2>1, <2>2, TurnShort
<1>16. OneRedRed(r, Nil)
  <2>1. RedsFit(t, w, e, near, Nil, red)
    BY <1>1, <1>12 DEF RedsFit, red
  <2>2. red \subseteq N
    BY <1>1 DEF red
  <2>3. near = t[Other(e)][w]
    BY <1>1
  <2> HIDE DEF e
  <2> QED
    BY <1>1, <1>14, <2>1, <2>2, <2>3, TurnReds
<1> QED
  BY <1>1, <1>3, <1>5, <1>12, <1>15, <1>16 DEF NearEnds

(* The last case: the far child of the black sibling v is red and goes black, *)
(* v comes up with the colour of par, and no black node is missing any more.  *)
LEMMA FarTurn ==
  ASSUME NEW N, Nil \notin N, NEW t \in Trees(N), NEW pos, NEW edge, NEW end, Laid(t, pos, edge, end),
         NEW par \in N, NEW d \in Sides, NEW v \in N, v = t[Other(d)][par], v \notin t.red,
         NEW last \in N, last = t[Other(d)][v], last \in t.red,
         NEW h, Short(t, h, par, d), OneRedRed(t, Nil),
         NEW red, red = (t.red \ {par, last}) \cup (IF par \in t.red THEN {v} ELSE {}),
         NEW k, NEW r \in Trees(N), Recast(r, k, t, par, d, red)
  PROVE (\E new : Even(r, new)) /\ OneRedRed(r, Nil)
<1> DEFINE e == Other(d)
           x == t[d][par]
           near == t[d][v]
           new == [n \in N |-> IF n = v THEN h[par] ELSE IF n = par THEN h[v]
                               ELSE IF n = last THEN h[last] + 1 ELSE h[n]]
<1>1. /\ Nodes(t) = N /\ e \in Sides /\ e # d /\ Other(e) = d /\ \A c \in Sides : c = d \/ c = e
      /\ x \in N \cup {Nil} /\ near \in N \cup {Nil} /\ t.red \subseteq N
      /\ red \subseteq N /\ par # Nil /\ v # Nil /\ last # Nil /\ \A c \in Sides : t[c][last] \in N \cup {Nil}
  BY Fields, TwoSides
<1>2. Rewired(r, t, par, d, v, red)
  BY TurnLinks
<1>3. /\ r.red = red /\ par # v /\ x # v /\ near # par /\ near # v /\ last # par /\ last # v
  BY <1>1, <1>2 DEF Rewired
<1>4. /\ x # par /\ x # last /\ near # last /\ t.parent[last] = v
      /\ \A c \in Sides : t[c][last] # par /\ t[c][last] # v /\ (t[c][last] # Nil => t[c][last] # last)
  <2>1. x # Nil => x # par /\ t.parent[x] = par
    BY <1>1, ChildBeyond
  <2>2. t.parent[last] = v /\ near # last
    BY <1>1, ChildBeyond
  <2>3. \A c \in Sides : t[c][last] # par /\ t[c][last] # v
    BY <1>1, GrandchildApart
  <2>4. \A c \in Sides : t[c][last] # Nil => t[c][last] # last
    BY <1>1, ChildBeyond
  <2> QED
    BY <1>1, <1>3, <2>1, <2>2, <2>3, <2>4
<1>5. /\ par \notin red /\ last \notin red /\ (v \in red <=> par \in t.red)
      /\ \A n \in N : n # par /\ n # v /\ n # last => (n \in red <=> n \in t.red)
  BY <1>3
<1>7. /\ h[par] \in Nat /\ h[v] \in Nat /\ h[last] \in Nat /\ High(h, x) \in Nat /\ High(h, near) \in Nat
      /\ h[v] = High(h, x) + 1 /\ h[v] = High(h, near) + 1 /\ h[v] = h[last] + 1
      /\ h[par] = h[v] + Tone(red, v)
      /\ \A c \in Sides : h[last] = High(h, t[c][last]) /\ High(h, t[c][last]) \in Nat
  <2>1. /\ h[par] \in Nat /\ High(h, x) \in Nat /\ h[par] = High(h, x) + Tone(t.red, par) + Owed(par, d, par, d)
    BY ShortAt
  <2>2. h[par] = High(h, v) + Tone(t.red, par) + Owed(par, d, par, e)
    BY <1>1, ShortAt
  <2>3. h[v] \in Nat /\ High(h, near) \in Nat /\ h[v] = High(h, near) + Tone(t.red, v) + Owed(par, d, v, d)
    BY ShortAt
  <2>4. h[v] = High(h, last) + Tone(t.red, v) + Owed(par, d, v, e)
    BY <1>1, ShortAt
  <2>5. High(h, v) = h[v] /\ High(h, last) = h[last]
    BY <1>1 DEF High
  <2>6. Tone(t.red, v) = 1 /\ Tone(t.red, last) = 0 /\ Tone(red, v) = Tone(t.red, par) /\ Tone(t.red, par) \in Nat
    BY <1>5 DEF Tone
  <2>7. Owed(par, d, par, d) = 1 /\ Owed(par, d, par, e) = 0 /\ Owed(par, d, v, d) = 0 /\ Owed(par, d, v, e) = 0
    BY <1>1, <1>3 DEF Owed
  <2>8. ASSUME NEW c \in Sides PROVE h[last] = High(h, t[c][last]) /\ High(h, t[c][last]) \in Nat
    <3>1. /\ High(h, t[c][last]) \in Nat
          /\ h[last] = High(h, t[c][last]) + Tone(t.red, last) + Owed(par, d, last, c)
      BY ShortAt
    <3>2. Owed(par, d, last, c) = 0
      BY <1>3 DEF Owed
    <3> QED
      BY <2>6, <3>1, <3>2
  <2>9. h[last] \in Nat
    BY ShortAt
  <2>10. \A c \in Sides : h[last] = High(h, t[c][last]) /\ High(h, t[c][last]) \in Nat
    BY <2>8
  <2> HIDE DEF x, near, e
  <2> QED
    BY <2>1, <2>2, <2>3, <2>4, <2>5, <2>6, <2>7, <2>9, <2>10
<1>9. h \in [N -> Nat]
  BY <1>1 DEF Short
<1>10. /\ new \in [N -> Nat] /\ new[v] = h[par] /\ new[par] = h[v] /\ new[last] = h[v]
       /\ Elsewhere(N, par, v, last, red, new, t.red, h)
  BY <1>3, <1>5, <1>7, <1>9 DEF Elsewhere
<1> HIDE DEF new
<1>11. High(new, x) = High(h, x) /\ High(new, near) = High(h, near)
       /\ High(new, par) = h[v] /\ High(new, last) = h[v]
       /\ \A c \in Sides : High(new, t[c][last]) = High(h, t[c][last])
  <2>4. \A m \in N : m # par /\ m # v /\ m # last => new[m] = h[m]
    BY <1>10 DEF Elsewhere
  <2>5. \A m \in N \cup {Nil} : m # par /\ m # v /\ m # last => High(new, m) = High(h, m)
    BY <2>4 DEF High
  <2> HIDE DEF x, near
  <2>1. High(new, x) = High(h, x)
    BY <1>1, <1>3, <1>4, <2>5
  <2>2. High(new, near) = High(h, near)
    BY <1>1, <1>3, <1>4, <2>5
  <2>3. \A c \in Sides : High(new, t[c][last]) = High(h, t[c][last])
    <3>1. \A c \in Sides : t[c][last] # last
      BY <1>1, <1>4
    <3> QED
      BY <1>1, <1>4, <2>5, <3>1
  <2> QED
    BY <1>1, <1>10, <2>1, <2>2, <2>3 DEF High
<1>13. /\ Levels(red, new, Nil, d, par, d, x) /\ Levels(red, new, Nil, d, par, e, near)
       /\ Levels(red, new, Nil, d, v, d, par) /\ Levels(red, new, Nil, d, v, e, last)
       /\ \A c \in Sides : Levels(red, new, Nil, d, last, c, t[c][last])
  <2>1. Tone(red, par) = 1 /\ Tone(red, last) = 1 /\ Tone(red, v) \in Nat
    BY <1>5 DEF Tone
  <2>2. \A n \in N, c \in Sides : Owed(Nil, d, n, c) = 0
    BY <1>1 DEF Owed
  <2>7. /\ Owed(Nil, d, par, d) = 0 /\ Owed(Nil, d, par, e) = 0 /\ Owed(Nil, d, v, d) = 0 /\ Owed(Nil, d, v, e) = 0
        /\ \A c \in Sides : Owed(Nil, d, last, c) = 0
    BY <1>1, <2>2
  <2> HIDE DEF x, near, e
  <2>3. Levels(red, new, Nil, d, par, d, x)
    <3>2. new[par] = h[v] /\ High(new, x) = High(h, x) /\ Tone(red, par) = 1
      BY <1>10, <1>11, <2>1
    <3>1. new[par] = High(new, x) + Tone(red, par) /\ new[par] \in Nat /\ High(new, x) \in Nat /\ Tone(red, par) \in Nat
      BY <1>7, <3>2
    <3> QED
      BY <2>7, <3>1 DEF Levels
  <2>4. Levels(red, new, Nil, d, par, e, near)
    <3>2. new[par] = h[v] /\ High(new, near) = High(h, near) /\ Tone(red, par) = 1
      BY <1>10, <1>11, <2>1
    <3>1. new[par] = High(new, near) + Tone(red, par) /\ new[par] \in Nat /\ High(new, near) \in Nat /\ Tone(red, par) \in Nat
      BY <1>7, <3>2
    <3> QED
      BY <2>7, <3>1 DEF Levels
  <2>5. Levels(red, new, Nil, d, v, d, par)
    <3>1. new[v] = High(new, par) + Tone(red, v) /\ new[v] \in Nat /\ High(new, par) \in Nat /\ Tone(red, v) \in Nat
      BY <1>7, <1>10, <1>11, <2>1
    <3> QED
      BY <2>7, <3>1 DEF Levels
  <2>6. Levels(red, new, Nil, d, v, e, last)
    <3>1. new[v] = High(new, last) + Tone(red, v) /\ new[v] \in Nat /\ High(new, last) \in Nat /\ Tone(red, v) \in Nat
      BY <1>7, <1>10, <1>11, <2>1
    <3> QED
      BY <2>7, <3>1 DEF Levels
  <2>8. ASSUME NEW c \in Sides PROVE Levels(red, new, Nil, d, last, c, t[c][last])
    <3>1. new[last] = High(new, t[c][last]) + 1 /\ High(new, t[c][last]) \in Nat
      BY <1>7, <1>10, <1>11
    <3> QED
      BY <2>1, <2>7, <3>1 DEF Levels
  <2> QED
    BY <2>3, <2>4, <2>5, <2>6, <2>8
<1>15. Short(r, new, Nil, d)
  <2>1. \A n \in N : n # par => (n = par <=> n = Nil)
    BY <1>1
  <2>2. last \in N \cup {Nil} /\ (last = Nil \/ last = t[Other(d)][v])
    OBVIOUS
  <2>3. LevelsFit(t, par, d, v, last, red, new, h, Nil, d)
    BY <1>10, <1>13 DEF LevelsFit
  <2> QED
    BY <1>10, <2>1, <2>2, <2>3, TurnShort
<1>16. OneRedRed(r, Nil)
  <2>1. RedsFit(t, par, d, v, last, red)
    BY <1>1, <1>5 DEF RedsFit
  <2> QED
    BY <1>1, <2>1, TurnReds
<1>17. Even(r, new)
  BY <1>15, ShortNone
<1> QED
  BY <1>16, <1>17

\* No red node has a red parent and the root is black, but for x, which may be
\* red under a red node, over one, and the root.
RedBut(t, x) == \A n \in t.red : n # x => t.parent[n] # Nil /\ (t.parent[n] \notin t.red \/ t.parent[n] = x)

\* x, the root or under par, has a black node less than it should.
Owing(t, x, par) ==
  /\ RedBut(t, x)
  /\ \E h : IF x = t.root THEN Even(t, h)
            ELSE par \in Nodes(t) /\ \E s \in Sides : t[s][par] = x /\ Short(t, h, par, s)

\* The sibling w of par's child and its children are black, and r is t with w red.
PushFit(r, t, par, d, w) ==
  /\ w = t[Other(d)][par] /\ w \notin t.red /\ \A c \in Sides : t[c][w] \notin t.red
  /\ SameBut(r, t, t.red \cup {w}, t.parent)

(* The second case: the sibling w and its children are black, w goes red, and *)
(* the black node is missing at par.                                         *)
LEMMA SiblingRed ==
  ASSUME NEW N, Nil \notin N, NEW t \in Trees(N), NEW pos, NEW edge, NEW end, Laid(t, pos, edge, end),
         NEW par \in N, NEW d \in Sides, NEW w \in N,
         NEW h, Short(t, h, par, d), OneRedRed(t, Nil),
         NEW r \in Trees(N), PushFit(r, t, par, d, w)
  PROVE Owing(r, par, r.parent[par])
<1> USE DEF PushFit
<1> DEFINE e == Other(d)
           x == t[d][par]
           p == t.parent[par]
           red == t.red \cup {w}
           new == [n \in N |-> IF n = w THEN h[w] - 1 ELSE IF n = par THEN h[par] - 1 ELSE h[n]]
<1>1. /\ Nodes(t) = N /\ Nodes(r) = N /\ e \in Sides /\ e # d /\ Other(e) = d /\ \A c \in Sides : c = d \/ c = e
      /\ x \in N \cup {Nil} /\ p \in N \cup {Nil} /\ t.red \subseteq N
      /\ par # Nil /\ w # Nil /\ \A c \in Sides : t[c] \in [N -> N \cup {Nil}]
  BY Fields, TwoSides
<1>2. CanTurn(t, par, d)
  BY <1>1, TurnPossible
<1>3. par # w /\ x # w /\ p # par /\ p # w /\ OneChild(t, par, p)
  BY <1>2 DEF CanTurn
<1>4. t.parent[w] = par /\ x # par /\ \A n \in N, c \in Sides : t[c][n] # Nil => t.parent[t[c][n]] = n
  <2>1. \A n \in N, c \in Sides : t[c][n] # Nil => t.parent[t[c][n]] = n /\ t[c][n] # n
    BY <1>1, ChildBeyond
  <2> QED
    BY <1>1, <2>1
<1>5. r.red = red /\ r.root = t.root /\ r.parent = t.parent /\ \A c \in Sides : r[c] = t[c]
  BY DEF SameBut
<1>6. /\ h \in [N -> Nat] /\ \A n \in N, c \in Sides : Levels(t.red, h, par, d, n, c, t[c][n])
  BY <1>1 DEF Short
<1>7. /\ h[w] \in Nat /\ h[par] \in Nat /\ h[w] >= 1 /\ h[par] >= 1
      /\ \A c \in Sides : h[w] = High(h, t[c][w]) + 1 /\ High(h, t[c][w]) \in Nat
  <2>1. ASSUME NEW c \in Sides PROVE h[w] \in Nat /\ h[w] = High(h, t[c][w]) + 1 /\ High(h, t[c][w]) \in Nat
    <3>1. h[w] \in Nat /\ High(h, t[c][w]) \in Nat /\ h[w] = High(h, t[c][w]) + Tone(t.red, w) + Owed(par, d, w, c)
      BY ShortAt
    <3>2. Tone(t.red, w) = 1 /\ Owed(par, d, w, c) = 0
      BY <1>3 DEF Tone, Owed
    <3> QED
      BY <3>1, <3>2
  <2>2. h[par] \in Nat /\ High(h, x) \in Nat /\ h[par] = High(h, x) + Tone(t.red, par) + Owed(par, d, par, d)
    BY ShortAt
  <2>3. h[par] >= 1
    BY <2>2 DEF Tone, Owed
  <2>4. h[w] \in Nat /\ h[w] = High(h, t[d][w]) + 1 /\ High(h, t[d][w]) \in Nat
    BY <2>1
  <2> QED
    BY <2>1, <2>2, <2>3, <2>4
<1>8. /\ new \in [N -> Nat] /\ new[w] = h[w] - 1 /\ new[par] = h[par] - 1
      /\ \A n \in N : n # w /\ n # par => new[n] = h[n]
  BY <1>3, <1>6, <1>7
<1> HIDE DEF new
<1>9. ASSUME NEW m \in N \cup {Nil}, m # w, m # par PROVE High(new, m) = High(h, m)
  BY <1>8, <1>9 DEF High
<1>10. High(new, w) = h[w] - 1 /\ High(new, par) = h[par] - 1 /\ High(h, w) = h[w] /\ High(h, par) = h[par]
  BY <1>1, <1>8 DEF High
<1>11. ASSUME NEW s \in Sides, p # Nil => t[s][p] = par PROVE Short(r, new, p, s)
  <2>0. SUFFICES ASSUME NEW n \in N, NEW c \in Sides PROVE Levels(r.red, new, p, s, n, c, r[c][n])
    BY <1>1, <1>8 DEF Short
  <2>1. SUFFICES Levels(red, new, p, s, n, c, t[c][n])
    BY <1>5
  <2>2. /\ h[n] \in Nat /\ High(h, t[c][n]) \in Nat
        /\ h[n] = High(h, t[c][n]) + Tone(t.red, n) + Owed(par, d, n, c)
    BY ShortAt
  <2>3. t[c][n] \in N \cup {Nil}
    BY <1>1
  <2>4. n # w => Tone(red, n) = Tone(t.red, n)
    BY DEF Tone
  <2>5. Tone(t.red, n) \in Nat
    BY DEF Tone
  <2>6. CASE n = w
    <3>1. t[c][w] # w /\ t[c][w] # par
      BY <1>1, <1>3, <1>4
    <3>2. new[n] = High(new, t[c][n])
      BY <1>7, <1>8, <1>9, <2>3, <2>6, <3>1
    <3>3. Tone(red, n) = 0 /\ Owed(p, s, n, c) = 0
      BY <1>3, <2>6 DEF Tone, Owed
    <3>4. High(new, t[c][n]) \in Nat
      BY <1>7, <1>9, <2>3, <2>6, <3>1
    <3> QED
      BY <3>2, <3>3, <3>4 DEF Levels
  <2>7. CASE n = par /\ c = d
    <3>1. High(new, x) = High(h, x)
      BY <1>1, <1>3, <1>4, <1>9
    <3>2. Owed(p, s, n, c) = 0 /\ Owed(par, d, n, c) = 1
      BY <1>3, <2>7 DEF Owed
    <3>3. t[c][n] = x
      BY <2>7
    <3> HIDE DEF x
    <3> QED
      BY <1>3, <1>8, <2>2, <2>4, <2>5, <2>7, <3>1, <3>2, <3>3 DEF Levels
  <2>8. CASE n = par /\ c = e
    <3>1. t[c][n] = w
      BY <2>8
    <3>2. Owed(p, s, n, c) = 0 /\ Owed(par, d, n, c) = 0
      BY <1>1, <1>3, <2>8 DEF Owed
    <3> HIDE DEF e
    <3> QED
      BY <1>3, <1>7, <1>8, <1>10, <2>2, <2>4, <2>5, <2>8, <3>1, <3>2 DEF Levels
  <2>9. CASE n # par /\ n # w /\ t[c][n] = par
    <3>1. n = p /\ p # Nil
      BY <1>1, <1>4, <2>9
    <3>2. c = s
      <4>1. t[Other(s)][n] # par
        BY <1>1, <1>11, <2>9, <3>1, ChildBeyond
      <4> QED
        BY <2>9, <4>1, TwoSides
    <3>3. Owed(p, s, n, c) = 1 /\ Owed(par, d, n, c) = 0
      BY <2>9, <3>1, <3>2 DEF Owed
    <3> QED
      BY <1>7, <1>8, <1>10, <2>2, <2>4, <2>5, <2>9, <3>3 DEF Levels
  <2>10. CASE n # par /\ n # w /\ t[c][n] # par
    <3>1. t[c][n] # w
      BY <1>1, <1>4, <2>10
    <3>2. High(new, t[c][n]) = High(h, t[c][n]) /\ new[n] = h[n]
      BY <1>8, <1>9, <2>3, <2>10, <3>1
    <3>3. Owed(p, s, n, c) = 0 /\ Owed(par, d, n, c) = 0
      <4>1. n = p => c # s
        BY <1>1, <1>11, <2>10
      <4> QED
        BY <2>10, <4>1 DEF Owed
    <3> QED
      BY <2>2, <2>4, <2>5, <2>10, <3>2, <3>3 DEF Levels
  <2> QED
    BY <1>1, <2>6, <2>7, <2>8, <2>9, <2>10
<1>12. RedBut(r, par)
  <2>1. SUFFICES ASSUME NEW n \in red, n # par
                 PROVE t.parent[n] # Nil /\ (t.parent[n] \notin red \/ t.parent[n] = par)
    BY <1>5 DEF RedBut
  <2>2. CASE n = w
    BY <1>1, <1>4, <2>2
  <2>3. CASE n # w
    <3>1. n \in t.red /\ t.parent[n] # Nil /\ t.parent[n] \notin t.red
      BY <1>1, <2>1, <2>3 DEF OneRedRed
    <3>2. t.parent[n] # w
      <4>1. t.parent[n] = w => \E c \in Sides : t[c][w] = n
        BY <1>1, <3>1 DEF Laid, Parents
      <4> QED
        BY <3>1, <4>1
    <3> QED
      BY <3>1, <3>2
  <2> QED
    BY <2>2, <2>3
<1>13. CASE par = t.root
  <2>1. p = Nil
    BY <1>1, <1>13 DEF Laid, AtRoot
  <2>2. Short(r, new, Nil, d)
    BY <1>11, <2>1
  <2>3. Even(r, new)
    BY <2>2, ShortNone
  <2> QED
    BY <1>5, <1>12, <1>13, <2>3 DEF Owing
<1>14. CASE par # t.root
  <2>1. p # Nil
    BY <1>1, <1>14 DEF Laid, Parents
  <2>2. PICK s \in Sides : t[s][p] = par
    BY <1>1, <2>1 DEF Laid, Parents
  <2>3. Short(r, new, p, s)
    BY <1>11, <2>2
  <2>4. r.parent[par] = p /\ p \in N /\ r[s][p] = par
    BY <1>1, <1>5, <2>1, <2>2
  <2> HIDE DEF p
  <2> QED
    BY <1>1, <1>5, <1>12, <1>14, <2>3, <2>4 DEF Owing
<1> QED
  BY <1>13, <1>14

\* Every node but x and y that changes colour is marked.
Marks(t, x, y, red, marks) ==
  /\ red \subseteq Nodes(t) /\ marks \subseteq Nodes(t) \cup {Nil}
  /\ \A n \in Nodes(t) : n \in marks \/ n = x \/ n = y \/ (n \in red <=> n \in t.red)

\* r is k turned at x, where k is t with the colours red, and keeps the order.
Cast(r, k, t, x, d, red, pos, edge) ==
  /\ r \in Trees(Nodes(t)) /\ Recast(r, k, t, x, d, red) /\ r.size = t.size /\ Marked(t, r)
  /\ \E new : Laid(r, pos, edge, new)

(* A tree with other colours and marks is turned, and marks what it changes.  *)
LEMMA RecolourTurn ==
  ASSUME NEW N, Nil \notin N, NEW t \in Trees(N), NEW pos, NEW edge, NEW end, Laid(t, pos, edge, end),
         NEW x \in N, NEW d \in Sides, NEW y \in N, y = t[Other(d)][x],
         NEW red, NEW marks, Marks(t, x, y, red, marks),
         NEW k, k = Mark([t EXCEPT !.red = red], marks), NEW r, r = rotate(k, x, d)
  PROVE Cast(r, k, t, x, d, red, pos, edge)
<1> DEFINE j == [t EXCEPT !.red = red]
           e == Other(d)
<1>2. /\ Nodes(t) = N /\ red \subseteq N /\ marks \subseteq N \cup {Nil}
      /\ \A n \in N : n \in marks \/ n = x \/ n = y \/ (n \in red <=> n \in t.red)
  BY Fields DEF Marks
<1>1. /\ Nodes(t) = N /\ e \in Sides /\ Other(e) = d /\ x # Nil /\ y # Nil
      /\ \A c \in Sides : c = d \/ c = e
  BY Fields, TwoSides
<1>3. j \in Trees(N) /\ SameBut(j, t, red, t.parent) /\ j.dirty = t.dirty
  BY <1>2, ColourFields
<1> HIDE DEF j
<1>4. k \in Trees(N) /\ SameBut(k, j, j.red, j.parent) /\ k.dirty = j.dirty \cup (marks \ {Nil})
  <2>1. k = Mark(j, marks)
    BY DEF j
  <2>2. /\ Mark(j, marks) \in Trees(N) /\ SameBut(Mark(j, marks), j, j.red, j.parent)
        /\ Mark(j, marks).dirty = j.dirty \cup (marks \ {Nil})
    BY <1>2, <1>3, MarkFields
  <2> QED
    BY <2>1, <2>2
<1>5. SameBut(k, t, red, t.parent) /\ k.dirty = t.dirty \cup (marks \ {Nil})
      /\ (\A c \in Sides : k[c] = t[c]) /\ Nodes(k) = N /\ k.size = t.size /\ k.parent = t.parent /\ k.red = red
  BY <1>3, <1>4, Fields DEF SameBut
<1>6. Laid(k, pos, edge, end)
  BY <1>4, <1>5, RecolourLaid
<1>7. k[e][x] = y
  BY <1>1, <1>5
<1>8. CanTurn(k, x, d)
  BY <1>1, <1>4, <1>6, <1>7, TurnPossible
<1>9. r \in Trees(N) /\ Turned(r, k, x, d)
  BY <1>1, <1>4, <1>8, RotateFields
<1>10. \E new : Laid(r, pos, edge, new)
  BY <1>1, <1>4, <1>6, <1>7, <1>9, TurnLaid
<1>11. Marked(k, r)
  BY <1>1, <1>4, <1>7, <1>9, TurnMarked
<1>12. r.red = red /\ r.size = t.size /\ r.dirty = k.dirty \cup ({k.parent[x]} \ {Nil}) \cup {x, y}
  BY <1>5, <1>7, <1>9 DEF Turned
<1>13. Marked(t, r)
  <2>1. t.dirty \subseteq r.dirty
    BY <1>5, <1>12
  <2>2. ASSUME NEW n \in N, n \notin r.dirty
        PROVE (\A c \in Sides : r[c][n] = t[c][n]) /\ (n \in r.red <=> n \in t.red)
    <3>1. n \notin k.dirty /\ n # x /\ n # y /\ n \notin marks
      BY <1>5, <1>12, <2>2
    <3>2. \A c \in Sides : r[c][n] = k[c][n]
      BY <1>5, <1>11, <2>2 DEF Marked
    <3> QED
      BY <1>2, <1>5, <1>12, <2>2, <3>1, <3>2
  <2> QED
    BY <1>1, <2>1, <2>2 DEF Marked
<1>14. Recast(r, k, t, x, d, red)
  BY <1>1, <1>4, <1>5, <1>9 DEF Recast
<1> QED
  BY <1>1, <1>9, <1>10, <1>12, <1>13, <1>14 DEF Cast

-----------------------------------------------------------------------------
(***************************************************************************)
(* A round of rbDeleteFixup.                                               *)
(***************************************************************************)

\* The black node is missing under par on side d, where the node is black.
MissingAt(t, par, d) == (\E h : Short(t, h, par, d)) /\ OneRedRed(t, Nil) /\ t[d][par] \notin t.red

(* There is a sibling then.                                                  *)
LEMMA SiblingThere ==
  ASSUME NEW N, Nil \notin N, NEW t \in Trees(N), NEW par \in N, NEW d \in Sides, MissingAt(t, par, d)
  PROVE t[Other(d)][par] # Nil
<1>1. PICK h : Short(t, h, par, d)
  BY DEF MissingAt
<1>2. /\ h[par] \in Nat /\ High(h, t[d][par]) \in Nat
      /\ h[par] = High(h, t[d][par]) + Tone(t.red, par) + Owed(par, d, par, d)
  BY <1>1, ShortAt
<1>3. /\ High(h, t[Other(d)][par]) \in Nat
      /\ h[par] = High(h, t[Other(d)][par]) + Tone(t.red, par) + Owed(par, d, par, Other(d))
  BY <1>1, TwoSides, ShortAt
<1>4. Owed(par, d, par, d) = 1 /\ Owed(par, d, par, Other(d)) = 0 /\ Tone(t.red, par) \in Nat
  BY TwoSides DEF Owed, Tone
<1>5. High(h, t[Other(d)][par]) # 0
  BY <1>2, <1>3, <1>4
<1> QED
  BY <1>5 DEF High

(* The tree in which the sibling is black.                                   *)
LEMMA BlackSiblingStep ==
  ASSUME NEW N, Nil \notin N, NEW t \in Trees(N), NEW pos, NEW edge, NEW end, Laid(t, pos, edge, end),
         NEW par \in N, NEW d \in Sides, t[Other(d)][par] # Nil
  PROVE LET r == BlackSibling(t, par, d) IN
        /\ Kept(r, t, pos, edge) /\ (r = t \/ par \in r.red)
        /\ MissingAt(t, par, d) =>
             MissingAt(r, par, d) /\ r[Other(d)][par] # Nil /\ r[Other(d)][par] \notin r.red
<1> DEFINE e == Other(d)
           w == t[e][par]
           red == (t.red \ {w}) \cup {par}
           r == BlackSibling(t, par, d)
           k == Mark([t EXCEPT !.red = red], {w, par})
<1>1. Nodes(t) = N /\ e \in Sides /\ w \in N /\ t.red \subseteq N
  BY Fields, TwoSides
<1>2. CASE w \notin t.red
  <2>1. r = t
    BY <1>2 DEF BlackSibling, IsRed
  <2>2. Kept(t, t, pos, edge)
    BY <1>1 DEF Kept, Marked
  <2>3. w # Nil
    OBVIOUS
  <2> HIDE DEF w
  <2>4. MissingAt(r, par, d) => r[e][par] # Nil /\ r[e][par] \notin r.red
    BY <1>2, <2>1, <2>3 DEF w
  <2> HIDE DEF r
  <2> QED
    BY <2>1, <2>2, <2>4 DEF r
<1>3. CASE w \in t.red
  <2>1. r = rotate(k, par, d)
    BY <1>3 DEF BlackSibling, IsRed
  <2>2. Marks(t, par, w, red, {w, par})
    BY <1>1 DEF Marks
  <2>3. /\ r \in Trees(N) /\ Recast(r, k, t, par, d, red) /\ r.size = t.size /\ Marked(t, r)
        /\ \E new : Laid(r, pos, edge, new)
    <3>1. k = Mark([t EXCEPT !.red = red], {w, par}) /\ w = t[Other(d)][par]
      OBVIOUS
    <3> HIDE DEF red, k, r, w
    <3>2. Cast(r, k, t, par, d, red, pos, edge)
      BY <1>1, <2>1, <2>2, <3>1, RecolourTurn
    <3> QED
      BY <1>1, <3>2 DEF Cast
  <2> HIDE DEF red
  <2> HIDE DEF r, k
  <2>4. Kept(r, t, pos, edge)
    BY <1>1, <2>3 DEF Kept
  <2>5. Rewired(r, t, par, d, w, red)
    BY <1>1, <2>3, TurnLinks
  <2>6. par \in r.red
    BY <2>5 DEF Rewired, red
  <2>7. ASSUME MissingAt(t, par, d)
        PROVE MissingAt(r, par, d) /\ r[e][par] # Nil /\ r[e][par] \notin r.red
    <3>1. PICK h : Short(t, h, par, d)
      BY <2>7 DEF MissingAt
    <3>2. OneRedRed(t, Nil) /\ t[d][par] \notin t.red
      BY <2>7 DEF MissingAt
    <3>3. Recast(r, k, t, par, d, (t.red \ {w}) \cup {par})
      BY <2>3 DEF red
    <3>4. /\ \E new : Short(r, new, par, d)
          /\ OneRedRed(r, Nil)
          /\ r[d][par] = t[d][par] /\ r[e][par] = t[d][w] /\ t[d][w] # Nil /\ t[d][w] \notin r.red
      BY <1>1, <1>3, <2>3, <3>1, <3>2, <3>3, RedSibling
    <3>5. t[d][par] \notin r.red
      <4>1. r.red = red /\ t[d][par] # par
        <5>1. t[d][par] # Nil => t[d][par] # par
          BY ChildBeyond
        <5> QED
          BY <2>5, <5>1 DEF Rewired
      <4> QED
        BY <3>2, <4>1 DEF red
    <3> QED
      BY <3>4, <3>5 DEF MissingAt
  <2> QED
    BY <2>4, <2>6, <2>7 DEF r
<1> QED
  BY <1>2, <1>3

(* The last case as a whole.                                                 *)
LEMMA LastCaseStep ==
  ASSUME NEW N, Nil \notin N, NEW t \in Trees(N), NEW pos, NEW edge, NEW end, Laid(t, pos, edge, end),
         NEW par \in N, NEW d \in Sides, NEW v \in N, v = t[Other(d)][par]
  PROVE LET q == LastCase(t, par, d) IN
        /\ q = [tree |-> q.tree, x |-> q.tree.root, parent |-> par]
        /\ Kept(q.tree, t, pos, edge)
        /\ MissingAt(t, par, d) /\ v \notin t.red /\ t[Other(d)][v] \in t.red =>
             (\E h : Even(q.tree, h)) /\ OneRedRed(q.tree, Nil)
<1> DEFINE e == Other(d)
           last == t[e][v]
           red == IF par \in t.red THEN (t.red \ {par, last}) \cup {v} ELSE (t.red \ {par, last}) \ {v}
           marks == {par, last} \cup (IF d = "left" THEN {} ELSE {v})
           k == Mark([t EXCEPT !.red = red], marks)
           r == rotate(k, par, d)
           q == LastCase(t, par, d)
<1>1. Nodes(t) = N /\ e \in Sides /\ last \in N \cup {Nil} /\ t.red \subseteq N /\ v # Nil
  BY Fields, TwoSides
<1>2. Colour([t EXCEPT !.red = @ \ {par, last}], v, IsRed(t, par)) = [t EXCEPT !.red = red]
  <2>1. t = [root |-> t.root, left |-> t.left, right |-> t.right, parent |-> t.parent, red |-> t.red,
             dirty |-> t.dirty, size |-> t.size]
    BY DEF Trees
  <2> HIDE DEF last
  <2> QED
    BY <2>1 DEF Colour, IsRed
<1>3. q = [tree |-> r, x |-> r.root, parent |-> par]
  BY <1>2 DEF LastCase
<1>4. Marks(t, par, v, red, marks)
  BY <1>1 DEF Marks
<1>5. v \notin t.red => red = (t.red \ {par, last}) \cup (IF par \in t.red THEN {v} ELSE {})
  OBVIOUS
<1> HIDE DEF red, marks
<1>6. /\ r \in Trees(N) /\ Recast(r, k, t, par, d, red) /\ r.size = t.size /\ Marked(t, r)
      /\ \E new : Laid(r, pos, edge, new)
  <2>1. k = Mark([t EXCEPT !.red = red], marks) /\ r = rotate(k, par, d)
    OBVIOUS
  <2> HIDE DEF k, r, last, q
  <2>2. Cast(r, k, t, par, d, red, pos, edge)
    BY <1>1, <1>4, <2>1, RecolourTurn
  <2> QED
    BY <1>1, <2>2 DEF Cast
<1> HIDE DEF r, k, q
<1>7. Kept(r, t, pos, edge)
  BY <1>1, <1>6 DEF Kept
<1>8. ASSUME MissingAt(t, par, d), v \notin t.red, last \in t.red
      PROVE (\E h : Even(r, h)) /\ OneRedRed(r, Nil)
  <2>1. PICK h : Short(t, h, par, d)
    BY <1>8 DEF MissingAt
  <2>2. OneRedRed(t, Nil) /\ last \in N
    BY <1>1, <1>8 DEF MissingAt
  <2>3. red = (t.red \ {par, last}) \cup (IF par \in t.red THEN {v} ELSE {})
    BY <1>5, <1>8
  <2>4. last = t[Other(d)][v]
    OBVIOUS
  <2> HIDE DEF last
  <2> QED
    BY <1>6, <1>8, <2>1, <2>2, <2>3, <2>4, FarTurn
<1> QED
  BY <1>3, <1>7, <1>8 DEF q

(* One step that keeps the order after another.                              *)
LEMMA KeptTwice ==
  ASSUME NEW N, NEW t \in Trees(N), NEW pos, NEW edge, NEW r, Kept(r, t, pos, edge), NEW q, Kept(q, r, pos, edge)
  PROVE Kept(q, t, pos, edge)
<1>1. Nodes(t) = N /\ r \in Trees(N)
  BY Fields DEF Kept
<1>2. Nodes(r) = N /\ q \in Trees(N)
  BY <1>1, Fields DEF Kept
<1>3. Marked(t, q)
  BY <1>1, <1>2, MarkedTwice DEF Kept
<1> QED
  BY <1>1, <1>2, <1>3 DEF Kept

\* The next tree and the node the loop goes on at.
GoesOn(q, t, par, w) ==
  \/ q.x = q.tree.root
  \/ q.x = par /\ SameBut(q.tree, t, t.red \cup {w}, t.parent)

\* r is q.tree
NextAt(q, par) == q = [tree |-> q.tree, x |-> q.x, parent |-> par]

(* The tree that owes no black node.                                         *)
LEMMA OwingNone ==
  ASSUME NEW N, Nil \notin N, NEW r \in Trees(N), \E h : Even(r, h), OneRedRed(r, Nil), NEW p
  PROVE Owing(r, r.root, p)
<1>1. \A n \in r.red : n # Nil
  BY Fields
<1>2. RedBut(r, r.root)
  BY <1>1 DEF OneRedRed, RedBut
<1> QED
  BY <1>2 DEF Owing

\* r is t turned at the sibling w, where its near child goes black and comes up.
NearMade(r, t, par, d, w, near, red, marks) ==
  /\ w = t[Other(d)][par] /\ near = t[d][w] /\ red = (t.red \ {near}) \cup {w}
  /\ w \in marks /\ marks \subseteq {w, near}
  /\ r = rotate(Mark([t EXCEPT !.red = red], marks), w, Other(d))

\* The sibling in r is near, ready for the last case if t was for this one.
NearDone(r, t, par, d, w, near, pos, edge) ==
  /\ Kept(r, t, pos, edge) /\ r[Other(d)][par] = near
  /\ MissingAt(t, par, d) /\ w \notin t.red /\ near \in t.red /\ t[Other(d)][w] \notin t.red =>
       MissingAt(r, par, d) /\ near \notin r.red /\ r[Other(d)][near] \in r.red

(* The near case.                                                            *)
LEMMA NearStep ==
  ASSUME NEW N, Nil \notin N, NEW t \in Trees(N), NEW pos, NEW edge, NEW end, Laid(t, pos, edge, end),
         NEW par \in N, NEW d \in Sides, NEW w \in N, NEW near \in N, NEW red, NEW marks, NEW r,
         NearMade(r, t, par, d, w, near, red, marks)
  PROVE NearDone(r, t, par, d, w, near, pos, edge)
<1> USE DEF NearMade
<1> DEFINE e == Other(d)
           k == Mark([t EXCEPT !.red = red], marks)
<1>1. /\ Nodes(t) = N /\ e \in Sides /\ Other(e) = d /\ e # d /\ par # Nil /\ w # Nil /\ near # Nil
      /\ t.red \subseteq N
  BY Fields, TwoSides
<1>2. Marks(t, w, near, red, marks)
  BY <1>1 DEF Marks
<1>3. near = t[Other(e)][w] /\ k = Mark([t EXCEPT !.red = red], marks) /\ r = rotate(k, w, e)
  BY <1>1
<1> HIDE DEF k, e
<1>4. Cast(r, k, t, w, e, red, pos, edge)
  BY <1>1, <1>2, <1>3, RecolourTurn
<1>5. r \in Trees(N) /\ Recast(r, k, t, w, e, red) /\ r.size = t.size /\ Marked(t, r)
      /\ \E new : Laid(r, pos, edge, new)
  BY <1>1, <1>4 DEF Cast
<1>6. Kept(r, t, pos, edge)
  BY <1>1, <1>5 DEF Kept
<1>7. Rewired(r, t, w, e, near, red)
  BY <1>1, <1>3, <1>5, TurnLinks
<1>8. t.parent[w] = par /\ par # w /\ t[d][par] # w
  BY <1>1, ChildBeyond DEF e
<1>9. r[e][par] = near /\ r.red = red
  <2>1. w = t[e][par]
    BY DEF e
  <2> QED
    BY <1>1, <1>7, <1>8, <2>1 DEF Rewired
<1>10. ASSUME MissingAt(t, par, d), w \notin t.red, near \in t.red, t[e][w] \notin t.red
       PROVE MissingAt(r, par, d) /\ near \notin r.red /\ r[e][near] \in r.red
  <2>1. PICK h : Short(t, h, par, d)
    BY <1>10 DEF MissingAt
  <2>2. OneRedRed(t, Nil) /\ t[d][par] \notin t.red
    BY <1>10 DEF MissingAt
  <2>3. NearFit(r, k, t, par, d, w, near) /\ r \in Trees(N)
    BY <1>5, <1>10 DEF e, NearFit
  <2>4. NearEnds(r, t, par, d, w, near)
    BY <2>1, <2>2, <2>3, NearTurn
  <2>5. r[d][par] \notin r.red
    BY <1>8, <1>9, <2>2, <2>4 DEF NearEnds
  <2> QED
    BY <2>4, <2>5 DEF MissingAt, e, NearEnds
<1> QED
  BY <1>6, <1>9, <1>10 DEF e, NearDone

(* A black sibling: the loop goes on at par, one level up, or at the root.    *)
LEMMA SiblingStep ==
  ASSUME NEW N, Nil \notin N, NEW t \in Trees(N), NEW pos, NEW edge, NEW end, Laid(t, pos, edge, end),
         NEW par \in N, NEW d \in Sides, NEW w \in N, w = t[Other(d)][par], NEW q, q = SiblingCase(t, par, d)
  PROVE /\ NextAt(q, par) /\ Kept(q.tree, t, pos, edge) /\ GoesOn(q, t, par, w)
        /\ MissingAt(t, par, d) /\ w \notin t.red => Owing(q.tree, q.x, q.tree.parent[q.x])
<1> DEFINE near == t[d][w]
           far == t[Other(d)][w]
<1>1. /\ Nodes(t) = N /\ near \in N \cup {Nil} /\ far \in N \cup {Nil} /\ t.red \subseteq N
      /\ Other(d) \in Sides /\ \A c \in Sides : c = d \/ c = Other(d)
  BY Fields, TwoSides
<1>2. CASE near \notin t.red /\ far \notin t.red
  <2> DEFINE red == t.red \cup {w}
             j == [t EXCEPT !.red = red]
             k == Mark(j, {w})
  <2>1. q = [tree |-> k, x |-> par, parent |-> par]
    BY <1>2 DEF SiblingCase, Colour, IsRed
  <2>2. j \in Trees(N) /\ SameBut(j, t, red, t.parent) /\ j.dirty = t.dirty
    BY <1>1, ColourFields
  <2> HIDE DEF j
  <2>3. k \in Trees(N) /\ SameBut(k, j, j.red, j.parent) /\ k.dirty = j.dirty \cup ({w} \ {Nil})
    BY <2>2, MarkFields
  <2> HIDE DEF k
  <2>4. SameBut(k, t, red, t.parent) /\ k.dirty = t.dirty \cup {w}
    BY <2>2, <2>3 DEF SameBut
  <2>5. Laid(k, pos, edge, end) /\ k.size = t.size
    BY <2>3, <2>4, RecolourLaid DEF SameBut
  <2>6. Marked(t, k)
    <3>1. \A n \in N : n \in k.dirty \/ (n \in red <=> n \in t.red)
      BY <2>4
    <3>2. t.dirty \subseteq k.dirty
      BY <2>4
    <3> HIDE DEF red
    <3> QED
      BY <2>3, <2>4, <3>1, <3>2, RecolourMarked
  <2>7. Kept(k, t, pos, edge)
    BY <1>1, <2>3, <2>5, <2>6 DEF Kept
  <2>8. NextAt(q, par) /\ GoesOn(q, t, par, w) /\ q.tree = k /\ q.x = par
    BY <2>1, <2>4 DEF NextAt, GoesOn
  <2>9. ASSUME MissingAt(t, par, d), w \notin t.red PROVE Owing(k, par, k.parent[par])
    <3>1. PICK h : Short(t, h, par, d)
      BY <2>9 DEF MissingAt
    <3>2. OneRedRed(t, Nil) /\ \A c \in Sides : t[c][w] \notin t.red
      BY <1>1, <1>2, <2>9 DEF MissingAt
    <3>3. PushFit(k, t, par, d, w)
      BY <2>4, <2>9, <3>2 DEF PushFit
    <3> HIDE DEF near, far, red
    <3> QED
      BY <2>3, <3>1, <3>2, <3>3, SiblingRed
  <2> QED
    BY <2>7, <2>8, <2>9
<1>3. ASSUME NEW b, Kept(b, t, pos, edge), NEW v \in N, v = b[Other(d)][par], q = LastCase(b, par, d),
             MissingAt(t, par, d) /\ w \notin t.red =>
               MissingAt(b, par, d) /\ v \notin b.red /\ b[Other(d)][v] \in b.red
      PROVE /\ NextAt(q, par) /\ Kept(q.tree, t, pos, edge) /\ GoesOn(q, t, par, w)
            /\ MissingAt(t, par, d) /\ w \notin t.red => Owing(q.tree, q.x, q.tree.parent[q.x])
  <2>1. b \in Trees(N)
    BY <1>1, <1>3 DEF Kept
  <2>2. PICK e : Laid(b, pos, edge, e)
    BY <1>3 DEF Kept
  <2>3. LET l == LastCase(b, par, d) IN
        /\ l = [tree |-> l.tree, x |-> l.tree.root, parent |-> par]
        /\ Kept(l.tree, b, pos, edge)
        /\ MissingAt(b, par, d) /\ v \notin b.red /\ b[Other(d)][v] \in b.red =>
             (\E h : Even(l.tree, h)) /\ OneRedRed(l.tree, Nil)
    BY <1>3, <2>1, <2>2, LastCaseStep
  <2>4. /\ q = [tree |-> q.tree, x |-> q.tree.root, parent |-> par]
        /\ Kept(q.tree, b, pos, edge)
        /\ MissingAt(b, par, d) /\ v \notin b.red /\ b[Other(d)][v] \in b.red =>
             (\E h : Even(q.tree, h)) /\ OneRedRed(q.tree, Nil)
    BY <1>3, <2>3
  <2>5. Kept(q.tree, t, pos, edge)
    BY <1>3, <2>4, KeptTwice
  <2>6. q.x = q.tree.root /\ NextAt(q, par)
    BY <2>4 DEF NextAt
  <2>7. q.tree \in Trees(N)
    BY <1>1, <2>5 DEF Kept
  <2>8. ASSUME MissingAt(t, par, d), w \notin t.red PROVE Owing(q.tree, q.x, q.tree.parent[q.x])
    BY <1>3, <2>4, <2>6, <2>7, <2>8, OwingNone
  <2> QED
    BY <2>5, <2>6, <2>8 DEF GoesOn
<1>4. CASE far \in t.red
  <2>1. q = LastCase(t, par, d)
    BY <1>4 DEF SiblingCase, IsRed
  <2>2. Kept(t, t, pos, edge)
    BY <1>1 DEF Kept, Marked
  <2> QED
    BY <1>3, <1>4, <2>1, <2>2
<1>5. CASE near \in t.red /\ far \notin t.red
  <2> DEFINE red == (t.red \ {near}) \cup {w}
             marks == {w} \cup (IF d = "left" THEN {near} ELSE {})
             r == rotate(Mark([t EXCEPT !.red = red], marks), w, Other(d))
  <2>1. q = LastCase(r, par, d)
    BY <1>5 DEF SiblingCase, IsRed
  <2>2. near \in N
    BY <1>1, <1>5
  <2>3. w \in marks /\ marks \subseteq {w, near}
    OBVIOUS
  <2>4. /\ Kept(r, t, pos, edge) /\ r[Other(d)][par] = near
        /\ MissingAt(t, par, d) /\ w \notin t.red /\ near \in t.red /\ t[Other(d)][w] \notin t.red =>
             MissingAt(r, par, d) /\ near \notin r.red /\ r[Other(d)][near] \in r.red
    <3>1. NearMade(r, t, par, d, w, near, red, marks)
      BY <2>3 DEF NearMade
    <3> HIDE DEF near, red, marks, r
    <3>2. NearDone(r, t, par, d, w, near, pos, edge)
      BY <2>2, <3>1, NearStep
    <3> QED
      BY <3>2 DEF NearDone
  <2>5. MissingAt(t, par, d) /\ w \notin t.red =>
          MissingAt(r, par, d) /\ near \notin r.red /\ r[Other(d)][near] \in r.red
    BY <1>5, <2>4
  <2> HIDE DEF r, near
  <2> QED
    BY <1>3, <2>1, <2>2, <2>4, <2>5
<1> QED
  BY <1>2, <1>4, <1>5

\* What a round at par leaves of t: the order, the marks, a node under another
\* one that is wider unless the loop ends, and that node owes the black node.
RoundDone(q, t, par, d, pos, edge, end) ==
  /\ NextAt(q, par) /\ Kept(q.tree, t, pos, edge) /\ q.x \in Nodes(t)
  /\ \E new : /\ Laid(q.tree, pos, edge, new)
              /\ q.x # q.tree.root /\ q.x \notin q.tree.red =>
                   q.tree.parent[q.x] \in Nodes(t) /\ Width(end, par) < Width(new, q.tree.parent[q.x])
  /\ MissingAt(t, par, d) => Owing(q.tree, q.x, q.tree.parent[q.x])

(* A round, where the siblings are there.                                    *)
LEMMA DeleteRound ==
  ASSUME NEW N, Nil \notin N, NEW t \in Trees(N), NEW pos, NEW edge, NEW end, Laid(t, pos, edge, end),
         NEW par \in N, NEW d \in Sides, t[Other(d)][par] # Nil,
         NEW b, b = BlackSibling(t, par, d), b[Other(d)][par] # Nil,
         NEW q, q = SiblingCase(b, par, d)
  PROVE RoundDone(q, t, par, d, pos, edge, end)
<1> DEFINE w == b[Other(d)][par]
<1>1. /\ Kept(b, t, pos, edge) /\ (b = t \/ par \in b.red)
      /\ MissingAt(t, par, d) => MissingAt(b, par, d) /\ w # Nil /\ w \notin b.red
  <2>1. LET r == BlackSibling(t, par, d) IN
        /\ Kept(r, t, pos, edge) /\ (r = t \/ par \in r.red)
        /\ MissingAt(t, par, d) =>
             MissingAt(r, par, d) /\ r[Other(d)][par] # Nil /\ r[Other(d)][par] \notin r.red
    BY BlackSiblingStep
  <2> QED
    BY <2>1
<1>2. Nodes(t) = N /\ b \in Trees(N) /\ \A c \in Sides : t[c] \in [N -> N \cup {Nil}]
  BY <1>1, Fields DEF Kept
<1>3. w \in N
  BY <1>2, Fields, TwoSides
<1>4. PICK e : Laid(b, pos, edge, e)
  BY <1>1 DEF Kept
<1>5. /\ NextAt(q, par) /\ Kept(q.tree, b, pos, edge) /\ GoesOn(q, b, par, w)
      /\ MissingAt(b, par, d) /\ w \notin b.red => Owing(q.tree, q.x, q.tree.parent[q.x])
  <2>1. w = b[Other(d)][par]
    OBVIOUS
  <2> HIDE DEF w
  <2> QED
    BY <1>2, <1>3, <1>4, <2>1, SiblingStep
<1> HIDE DEF w
<1>6. Kept(q.tree, t, pos, edge) /\ (MissingAt(t, par, d) => Owing(q.tree, q.x, q.tree.parent[q.x]))
  BY <1>1, <1>5, KeptTwice
<1>7. PICK f : Laid(q.tree, pos, edge, f)
  BY <1>6 DEF Kept
<1>8. q.tree \in Trees(N) /\ Nodes(q.tree) = N
  BY <1>2, <1>6, Fields DEF Kept
<1>9. q.x \in N
  <2>1. CASE q.x = q.tree.root
    <3>1. N # {}
      OBVIOUS
    <3>2. q.tree.root \in N
      BY <1>7, <1>8, <3>1, Fields DEF Laid, AtRoot
    <3> QED
      BY <2>1, <3>2
  <2>2. CASE q.x = par
    BY <2>2
  <2> QED
    BY <1>5, <2>1, <2>2 DEF GoesOn
<1>10. ASSUME q.x # q.tree.root, q.x \notin q.tree.red
       PROVE \E new : /\ Laid(q.tree, pos, edge, new)
                      /\ q.tree.parent[q.x] \in N /\ Width(end, par) < Width(new, q.tree.parent[q.x])
  <2>1. q.x = par /\ SameBut(q.tree, b, b.red \cup {w}, b.parent)
    BY <1>5, <1>10 DEF GoesOn
  <2>2. b = t
    BY <1>1, <1>10, <2>1 DEF SameBut
  <2>3. Laid(q.tree, pos, edge, end)
    BY <1>8, <2>1, <2>2, RecolourLaid
  <2>4. q.tree.parent[q.x] = t.parent[par]
    BY <2>1, <2>2 DEF SameBut
  <2>5. t.parent[par] # Nil
    <3>1. q.tree.parent[par] = Nil => par = q.tree.root
      BY <1>8, <2>3 DEF Laid, Parents
    <3> QED
      BY <1>10, <2>1, <2>4, <3>1
  <2>6. t.parent[par] \in N /\ \E c \in Sides : t[c][t.parent[par]] = par
    BY <1>2, <2>5, Fields DEF Laid, Parents
  <2>7. Width(end, par) < Width(end, t.parent[par])
    BY <2>6, ChildWidth
  <2> QED
    BY <2>3, <2>4, <2>6, <2>7
<1> QED
  BY <1>2, <1>5, <1>6, <1>7, <1>9, <1>10 DEF RoundDone

(* Where the loop goes on, the side it computes is the one a node is missing  *)
(* on.                                                                       *)
LEMMA OwingMissing ==
  ASSUME NEW N, Nil \notin N, NEW t \in Trees(N), NEW pos, NEW edge, NEW end, Laid(t, pos, edge, end),
         NEW x \in N \cup {Nil}, NEW par, Owing(t, x, par), x # t.root, x \notin t.red
  PROVE /\ par \in N /\ MissingAt(t, par, IF x = t.left[par] THEN "left" ELSE "right")
        /\ x # Nil => t.parent[x] = par
<1>1. Nodes(t) = N /\ \A c \in Sides : t[c] \in [N -> N \cup {Nil}]
  BY Fields
<1>2. par \in N
  BY <1>1 DEF Owing
<1>9. PICK h : \E s \in Sides : t[s][par] = x /\ Short(t, h, par, s)
  BY DEF Owing
<1>3. PICK s \in Sides : t[s][par] = x /\ Short(t, h, par, s)
  BY <1>9
<1>4. OneRedRed(t, Nil)
  BY DEF OneRedRed, Owing, RedBut
<1>5. x # Nil => t.parent[x] = par /\ t[Other(s)][par] # x
  BY <1>2, <1>3, ChildBeyond
<1>6. x = Nil => t[Other(s)][par] # Nil
  <2>1. MissingAt(t, par, s)
    BY <1>3, <1>4 DEF MissingAt
  <2> QED
    BY <1>2, <2>1, SiblingThere
<1>7. s = IF x = t.left[par] THEN "left" ELSE "right"
  <2>1. t[Other(s)][par] # x
    BY <1>5, <1>6
  <2>2. CASE s = "left"
    BY <1>3, <2>2
  <2>3. CASE s = "right"
    BY <1>3, <2>1, <2>3 DEF Other
  <2> QED
    BY <2>2, <2>3 DEF Sides
<1>8. MissingAt(t, par, s)
  BY <1>3, <1>4 DEF MissingAt
<1> QED
  BY <1>2, <1>5, <1>7, <1>8

-----------------------------------------------------------------------------
(***************************************************************************)
(* The end of rbDeleteFixup, and rbDeleteFixup as a loop.                  *)
(***************************************************************************)
LastBlack(t, x) == IF x = Nil THEN t ELSE Mark(Colour(t, x, FALSE), {x})

(* The last node is made black.                                              *)
LEMMA LastBlackFields ==
  ASSUME NEW N, Nil \notin N, NEW t \in Trees(N), NEW pos, NEW edge, NEW end, Laid(t, pos, edge, end), NEW x \in N
  PROVE LET r == LastBlack(t, x) IN
        r \in Trees(N) /\ SameBut(r, t, t.red \ {x}, t.parent) /\ Kept(r, t, pos, edge)
<1> DEFINE red == t.red \ {x}
           j == [t EXCEPT !.red = red]
           k == Mark(j, {x})
<1>1. Nodes(t) = N /\ t.red \subseteq N /\ x # Nil
  BY Fields
<1>2. LastBlack(t, x) = k
  BY <1>1 DEF LastBlack, Colour
<1>3. j \in Trees(N) /\ SameBut(j, t, red, t.parent) /\ j.dirty = t.dirty
  BY <1>1, ColourFields
<1> HIDE DEF j
<1>4. k \in Trees(N) /\ SameBut(k, j, j.red, j.parent) /\ k.dirty = j.dirty \cup ({x} \ {Nil})
  BY <1>1, <1>3, MarkFields
<1> HIDE DEF k
<1>5. SameBut(k, t, red, t.parent) /\ k.dirty = t.dirty \cup {x}
  BY <1>1, <1>3, <1>4 DEF SameBut
<1>6. Laid(k, pos, edge, end)
  BY <1>4, <1>5, RecolourLaid
<1>7. Marked(t, k)
  <2>1. t.dirty \subseteq k.dirty
    BY <1>5
  <2>2. \A n \in N : n \in k.dirty \/ (n \in red <=> n \in t.red)
    BY <1>5
  <2> HIDE DEF red
  <2> QED
    BY <1>4, <1>5, <2>1, <2>2, RecolourMarked
<1>8. Kept(k, t, pos, edge)
  BY <1>1, <1>4, <1>5, <1>6, <1>7 DEF Kept, SameBut
<1> QED
  BY <1>2, <1>4, <1>5, <1>8

(* A black node is missing under q, unless q is nil, on the side of the red x, *)
(* and no more once x is black.                                              *)
LEMMA LastBlackShort ==
  ASSUME NEW N, Nil \notin N, NEW t \in Trees(N), NEW pos, NEW edge, NEW end, Laid(t, pos, edge, end), NEW x \in N,
         NEW q \in N \cup {Nil}, NEW s \in Sides, NEW h, Short(t, h, q, s),
         IF q = Nil THEN x = t.root ELSE x \in t.red /\ t[s][q] = x,
         NEW r \in Trees(N), SameBut(r, t, t.red \ {x}, t.parent)
  PROVE \E new : Even(r, new)
<1> DEFINE red == t.red \ {x}
           new == [n \in N |-> IF n = x THEN h[x] + 1 - Tone(t.red, x) ELSE h[n]]
<1>1. /\ Nodes(t) = N /\ Nodes(r) = N /\ x # Nil /\ \A c \in Sides : t[c] \in [N -> N \cup {Nil}]
  BY Fields
<1>2. r.red = red /\ \A c \in Sides : r[c] = t[c]
  BY DEF SameBut
<1>3. h \in [N -> Nat] /\ \A n \in N, c \in Sides : Levels(t.red, h, q, s, n, c, t[c][n])
  BY <1>1 DEF Short
<1>4. \A n \in N, c \in Sides : t[c][n] # Nil => t.parent[t[c][n]] = n /\ t[c][n] # n /\ t[Other(c)][n] # t[c][n]
  BY ChildBeyond
<1>5. q = Nil => t.parent[x] = Nil
  BY <1>1 DEF Laid, AtRoot
<1>6. q # Nil => q # x /\ t.parent[x] = q
  BY <1>1, <1>4
<1>7. Tone(t.red, x) \in 0 .. 1 /\ (q # Nil => Tone(t.red, x) = 0) /\ Tone(red, x) = 1
  BY DEF Tone
<1>8. new \in [N -> Nat] /\ new[x] = h[x] + 1 - Tone(t.red, x) /\ \A n \in N : n # x => new[n] = h[n]
  BY <1>3, <1>7
<1> HIDE DEF new
<1>9. ASSUME NEW n \in N, NEW c \in Sides PROVE Levels(red, new, Nil, s, n, c, t[c][n])
  <2>1. /\ h[n] \in Nat /\ High(h, t[c][n]) \in Nat
        /\ h[n] = High(h, t[c][n]) + Tone(t.red, n) + Owed(q, s, n, c)
    BY ShortAt
  <2>2. Owed(Nil, s, n, c) = 0
    BY DEF Owed
  <2>3. t[c][n] \in N \cup {Nil}
    BY <1>1
  <2>4. CASE n = x
    <3>1. t[c][n] # x /\ Owed(q, s, n, c) = 0
      BY <1>1, <1>4, <1>6, <2>4 DEF Owed
    <3>2. High(new, t[c][n]) = High(h, t[c][n])
      BY <1>8, <2>3, <3>1 DEF High
    <3> QED
      BY <1>7, <1>8, <2>1, <2>2, <2>4, <3>1, <3>2 DEF Levels
  <2>5. CASE n # x
    <3>1. Tone(red, n) = Tone(t.red, n) /\ Tone(red, n) \in Nat /\ new[n] = h[n]
      BY <1>8, <2>5 DEF Tone
    <3>2. CASE t[c][n] = x
      <4>1. n = q /\ q # Nil
        BY <1>1, <1>4, <1>5, <1>6, <3>2
      <4>2. c = s
        BY <1>1, <1>4, <3>2, <4>1, TwoSides
      <4>3. Owed(q, s, n, c) = 1 /\ High(new, x) = h[x] + 1 /\ High(h, x) = h[x]
        BY <1>1, <1>3, <1>7, <1>8, <4>1, <4>2 DEF Owed, High
      <4> QED
        BY <1>3, <2>1, <2>2, <3>1, <3>2, <4>3 DEF Levels
    <3>3. CASE t[c][n] # x
      <4>1. ~(n = q /\ c = s)
        BY <1>1, <3>3
      <4>2. Owed(q, s, n, c) = 0 /\ High(new, t[c][n]) = High(h, t[c][n])
        BY <1>8, <2>3, <3>3, <4>1 DEF Owed, High
      <4> QED
        BY <2>1, <2>2, <3>1, <4>2 DEF Levels
    <3> QED
      BY <3>2, <3>3
  <2> QED
    BY <2>4, <2>5
<1>10. Short(r, new, Nil, s)
  <2>1. \A n \in N, c \in Sides : Levels(r.red, new, Nil, s, n, c, r[c][n])
    BY <1>2, <1>9
  <2> QED
    BY <1>1, <1>8, <2>1 DEF Short
<1> QED
  BY <1>10, ShortNone

(* Where the loop stops, the tree owes a black node no more.                  *)
LEMMA LastBlackColours ==
  ASSUME NEW N, Nil \notin N, NEW t \in Trees(N), NEW pos, NEW edge, NEW end, Laid(t, pos, edge, end),
         NEW x \in N \cup {Nil}, NEW par, Owing(t, x, par), x = t.root \/ x \in t.red
  PROVE \E new : BlackRed(LastBlack(t, x), new, Nil)
<1>1. Nodes(t) = N /\ t.red \subseteq N /\ "left" \in Sides
  BY Fields DEF Sides
<1>2. CASE x = Nil
  <2>1. t.root = Nil
    BY <1>1, <1>2
  <2>2. N = {} /\ t.red = {}
    BY <1>1, <2>1 DEF Laid, AtRoot
  <2>3. PICK h : Even(t, h)
    BY <1>2, <2>1 DEF Owing
  <2> QED
    BY <1>2, <2>2, <2>3 DEF LastBlack, BlackRed, OneRedRed
<1>3. CASE x # Nil
  <2> DEFINE r == LastBlack(t, x)
  <2>1. x \in N
    BY <1>3
  <2>2. r \in Trees(N) /\ SameBut(r, t, t.red \ {x}, t.parent)
    BY <2>1, LastBlackFields
  <2> HIDE DEF r
  <2>3. \E new : Even(r, new)
    <3>1. CASE x = t.root
      <4>1. PICK h : Even(t, h)
        BY <3>1 DEF Owing
      <4>2. Short(t, h, Nil, "left")
        BY <4>1, ShortNone
      <4>3. Nil \in N \cup {Nil} /\ (IF Nil = Nil THEN x = t.root ELSE x \in t.red /\ t["left"][Nil] = x)
        BY <3>1
      <4> QED
        BY <1>1, <2>1, <2>2, <4>2, <4>3, LastBlackShort
    <3>2. CASE x # t.root
      <4>1. x \in t.red /\ par \in N
        BY <1>1, <3>2 DEF Owing
      <4>2. PICK h : \E s \in Sides : t[s][par] = x /\ Short(t, h, par, s)
        BY <3>2 DEF Owing
      <4>3. PICK s \in Sides : t[s][par] = x /\ Short(t, h, par, s)
        BY <4>2
      <4>4. par \in N \cup {Nil} /\ (IF par = Nil THEN x = t.root ELSE x \in t.red /\ t[s][par] = x)
        BY <4>1, <4>3
      <4> QED
        BY <2>1, <2>2, <4>3, <4>4, LastBlackShort
    <3> QED
      BY <3>1, <3>2
  <2>4. ASSUME NEW n \in r.red PROVE r.parent[n] # Nil /\ r.parent[n] \notin r.red
    <3>1. n \in t.red /\ n # x /\ r.red = t.red \ {x} /\ r.parent = t.parent
      BY <2>2 DEF SameBut
    <3>2. t.parent[n] # Nil /\ (t.parent[n] \notin t.red \/ t.parent[n] = x)
      BY <3>1 DEF Owing, RedBut
    <3> QED
      BY <3>1, <3>2
  <2> QED
    BY <2>3, <2>4 DEF BlackRed, OneRedRed, r
<1> QED
  BY <1>2, <1>3

DLoop(N) == [tree : Trees(N), x : N \cup {Nil}, parent : N \cup {Nil}]
DPar(l) == IF l.x # Nil THEN l.tree.parent[l.x] ELSE l.parent
DSide(l) == IF l.x = l.tree.left[DPar(l)] THEN "left" ELSE "right"
DBlack(l) == BlackSibling(l.tree, DPar(l), DSide(l))
DNext(l) == SiblingCase(DBlack(l), DPar(l), DSide(l))
DStops(l) == l.x = l.tree.root \/ l.x \in l.tree.red
DFails(l, N) == \/ DPar(l) = Nil \/ l.tree[Other(DSide(l))][DPar(l)] = Nil
                \/ DBlack(l)[Other(DSide(l))][DPar(l)] = Nil \/ DNext(l) \notin DLoop(N)
DRound(N) == [l \in DLoop(N) |-> DNext(l)]
DDone(N) == {l \in DLoop(N) : DStops(l) \/ DFails(l, N)}
DBase(N) == [l \in DLoop(N) |-> IF DStops(l) THEN LastBlack(l.tree, l.x) ELSE NilPointer]

(* rbDeleteFixup is that loop.                                               *)
LEMMA DeleteLoop ==
  ASSUME NEW N, NEW t \in Trees(N), NEW x \in N \cup {Nil}, NEW par \in N \cup {Nil}
  PROVE \E f : /\ IsLoop(f, DLoop(N), DDone(N), DBase(N), DRound(N))
               /\ rbDeleteFixup(t, x, par) = f[[tree |-> t, x |-> x, parent |-> par]]
<1> DEFINE F(f) == f = [l \in DLoop(N) |->
                          IF DStops(l) THEN LastBlack(l.tree, l.x)
                          ELSE IF DFails(l, N) THEN NilPointer ELSE f[DNext(l)]]
<1>1. ASSUME NEW f PROVE IsLoop(f, DLoop(N), DDone(N), DBase(N), DRound(N)) <=> F(f)
  <2>1. \A l \in DLoop(N) :
          (IF l \in DDone(N) THEN DBase(N)[l] ELSE f[DRound(N)[l]]) =
          (IF DStops(l) THEN LastBlack(l.tree, l.x) ELSE IF DFails(l, N) THEN NilPointer ELSE f[DNext(l)])
    BY DEF DDone, DBase, DRound
  <2> QED
    BY <2>1 DEF IsLoop
<1>2. \A l \in DLoop(N) : l \notin DDone(N) => DRound(N)[l] \in DLoop(N)
  BY DEF DDone, DFails, DRound
<1>3. \E f : IsLoop(f, DLoop(N), DDone(N), DBase(N), DRound(N))
  BY <1>2, LoopExists
<1>4. F(CHOOSE f : F(f))
  <2> HIDE DEF F
  <2> QED
    BY <1>1, <1>3
<1>5. Nodes(t) = N
  BY Fields
<1>6. rbDeleteFixup(t, x, par) = (CHOOSE f : F(f))[[tree |-> t, x |-> x, parent |-> par]]
  BY <1>5 DEF rbDeleteFixup, DLoop, DStops, DFails, DNext, DBlack, DSide, DPar, LastBlack, IsRed
<1> QED
  <2> HIDE DEF F
  <2> QED
    BY <1>1, <1>4, <1>6

\* A round of the loop from l, where the leaves it dereferences are there.
Goes(q, l, N, pos, edge, end) ==
  /\ q \in DLoop(N) /\ Kept(q.tree, l.tree, pos, edge)
  /\ \E new : Laid(q.tree, pos, edge, new) /\ (DStops(q) \/ Width(end, DPar(l)) < Width(new, DPar(q)))
  /\ Owing(l.tree, l.x, DPar(l)) => Owing(q.tree, q.x, DPar(q))

(* A round that is followed by another, or by the end.                       *)
LEMMA DeleteStep ==
  ASSUME NEW N, Nil \notin N, NEW l \in DLoop(N), NEW pos, NEW edge, NEW end, Laid(l.tree, pos, edge, end),
         ~DStops(l), DPar(l) # Nil, l.tree[Other(DSide(l))][DPar(l)] # Nil,
         DBlack(l)[Other(DSide(l))][DPar(l)] # Nil
  PROVE Goes(DNext(l), l, N, pos, edge, end)
<1> DEFINE t == l.tree
           par == DPar(l)
           d == DSide(l)
           b == DBlack(l)
           q == DNext(l)
<1>1. t \in Trees(N) /\ l.x \in N \cup {Nil} /\ l.parent \in N \cup {Nil} /\ d \in Sides
  BY DEF DLoop, DSide, Sides
<1>2. par \in N /\ Nodes(t) = N
  BY <1>1, Fields DEF DPar
<1>3. b = BlackSibling(t, par, d) /\ q = SiblingCase(b, par, d)
  BY DEF DBlack, DNext
<1>4. l.x # t.root /\ l.x \notin t.red /\ t[Other(d)][par] # Nil /\ b[Other(d)][par] # Nil
  BY DEF DStops
<1>5. Owing(t, l.x, par) => MissingAt(t, par, d)
  <2>1. d = IF l.x = t.left[par] THEN "left" ELSE "right"
    BY DEF DSide
  <2> HIDE DEF t, par, d
  <2> QED
    BY <1>1, <1>4, <2>1, OwingMissing DEF t
<1> HIDE DEF q, b, d, par, t
<1>6. Laid(t, pos, edge, end)
  BY DEF t
<1>7. RoundDone(q, t, par, d, pos, edge, end)
  BY <1>1, <1>2, <1>3, <1>4, <1>6, DeleteRound
<1>8. q = [tree |-> q.tree, x |-> q.x, parent |-> par] /\ q.tree \in Trees(N) /\ q.x \in N
  BY <1>2, <1>7 DEF RoundDone, NextAt, Kept
<1>9. q \in DLoop(N) /\ DPar(q) = q.tree.parent[q.x]
  BY <1>2, <1>8 DEF DLoop, DPar
<1>10. \E new : Laid(q.tree, pos, edge, new) /\ (DStops(q) \/ Width(end, par) < Width(new, DPar(q)))
  BY <1>7, <1>9 DEF RoundDone, DStops
<1>11. Owing(t, l.x, par) => Owing(q.tree, q.x, DPar(q))
  BY <1>5, <1>7, <1>9 DEF RoundDone
<1>12. Kept(q.tree, t, pos, edge)
  BY <1>7 DEF RoundDone
<1>13. Goes(q, l, N, pos, edge, end)
  BY <1>9, <1>10, <1>11, <1>12 DEF Goes, t, par
<1> QED
  BY <1>13 DEF q

(* The loop dereferences no nil node of a tree that owes a black node.        *)
LEMMA DeleteGoes ==
  ASSUME NEW N, Nil \notin N, NEW l \in DLoop(N), NEW pos, NEW edge, NEW end, Laid(l.tree, pos, edge, end),
         ~DStops(l), Owing(l.tree, l.x, DPar(l))
  PROVE ~DFails(l, N)
<1> DEFINE t == l.tree
           par == DPar(l)
           d == DSide(l)
           b == DBlack(l)
<1>1. t \in Trees(N) /\ l.x \in N \cup {Nil} /\ d \in Sides /\ Laid(t, pos, edge, end)
  BY DEF DLoop, DSide, Sides
<1>2. par \in N /\ MissingAt(t, par, d)
  <2>1. d = IF l.x = t.left[par] THEN "left" ELSE "right"
    BY DEF DSide
  <2>2. l.x # t.root /\ l.x \notin t.red /\ Owing(t, l.x, par)
    BY DEF DStops
  <2> HIDE DEF t, par, d
  <2> QED
    BY <1>1, <2>1, <2>2, OwingMissing
<1>3. b = BlackSibling(t, par, d)
  BY DEF DBlack
<1> HIDE DEF b, d, par, t
<1>4. t[Other(d)][par] # Nil
  BY <1>1, <1>2, SiblingThere
<1>5. b[Other(d)][par] # Nil
  <2>1. LET r == BlackSibling(t, par, d) IN
        /\ Kept(r, t, pos, edge) /\ (r = t \/ par \in r.red)
        /\ MissingAt(t, par, d) =>
             MissingAt(r, par, d) /\ r[Other(d)][par] # Nil /\ r[Other(d)][par] \notin r.red
    BY <1>1, <1>2, <1>4, BlackSiblingStep
  <2> QED
    BY <1>2, <1>3, <2>1
<1>6. par # Nil
  BY <1>2
<1>7. Goes(DNext(l), l, N, pos, edge, end)
  BY <1>4, <1>5, <1>6, DeleteStep DEF t, par, d, b
<1> QED
  BY <1>4, <1>5, <1>6, <1>7 DEF DFails, Goes, t, par, d, b

\* The parent of x, which may be nil, when rbDeleteFixup is called with parent.
ParentOf(t, x, parent) == IF x # Nil THEN t.parent[x] ELSE parent

(* Deletion's fix-up keeps the order, marks what it changes and, when only a  *)
(* black node is missing at x, dereferences no nil node and leaves the colours *)
(* right.                                                                    *)
LEMMA DeleteFixup ==
  ASSUME NEW N, Nil \notin N, NEW t0 \in Trees(N), NEW pos, NEW edge, NEW end0, Laid(t0, pos, edge, end0),
         NEW x0 \in N \cup {Nil}, NEW par0 \in N \cup {Nil}
  PROVE FixedUp(rbDeleteFixup(t0, x0, par0), t0, pos, edge,
                Owing(t0, x0, ParentOf(t0, x0, par0)))
<1> DEFINE rb == Owing(t0, x0, ParentOf(t0, x0, par0))
           start == [tree |-> t0, x |-> x0, parent |-> par0]
           S == DLoop(N)
           D == DDone(N)
           E == [Sides -> [N -> Int]]
           Out == {r \in Trees(N) \cup {NilPointer} : FixedUp(r, t0, pos, edge, rb)}
           Good(l, e) == /\ Laid(l.tree, pos, edge, e) /\ Kept(l.tree, t0, pos, edge)
                         /\ rb => Owing(l.tree, l.x, DPar(l))
           G == {g \in S \X E : Good(g[1], g[2])}
           at == [g \in G |-> g[1]]
           rank == [g \in G |-> IF g[1] \in D THEN 0
                                ELSE 1 + (edge["right"] - edge["left"]) - Width(g[2], DPar(g[1]))]
<1>1. PICK f : IsLoop(f, S, D, DBase(N), DRound(N)) /\ rbDeleteFixup(t0, x0, par0) = f[start]
  BY DeleteLoop
<1>0. /\ start \in S /\ start.tree = t0 /\ start.x = x0 /\ DPar(start) = ParentOf(t0, x0, par0)
      /\ Nodes(t0) = N
  BY Fields DEF DLoop, DPar, ParentOf
<1>9. rb => Owing(start.tree, start.x, DPar(start))
  BY <1>0
<1> HIDE DEF rb, start
<1>2. \A l \in S : l.tree \in Trees(N) /\ l.x \in N \cup {Nil} /\ Nodes(l.tree) = N
  BY Fields DEF DLoop
<1>10. \A l \in S : l \notin D => DPar(l) \in N
  <2>1. SUFFICES ASSUME NEW l \in S, l \notin D PROVE DPar(l) \in N
    OBVIOUS
  <2>2. DPar(l) # Nil
    BY <2>1 DEF DDone, DFails
  <2>3. l.x # Nil => l.tree.parent[l.x] \in N \cup {Nil}
    BY <1>2, Fields
  <2> QED
    BY <2>2, <2>3 DEF DPar, DLoop
<1>3. ASSUME NEW l \in S, NEW e, Good(l, e)
      PROVE /\ e \in E /\ edge["right"] - edge["left"] \in Int
            /\ l \notin D => Width(e, DPar(l)) \in Int /\ Width(e, DPar(l)) <= edge["right"] - edge["left"]
  <2>1. Nodes(l.tree) = N /\ "left" \in Sides /\ "right" \in Sides
    BY <1>2 DEF Sides
  <2>2. e \in E /\ edge \in [Sides -> Int]
    BY <1>3, <2>1 DEF Laid
  <2>3. ASSUME NEW n \in N PROVE Width(e, n) \in Int /\ Width(e, n) <= edge["right"] - edge["left"]
    <3>1. Towards("left", e["left"][n], edge["left"]) /\ Towards("right", e["right"][n], edge["right"])
      BY <1>3, <2>1 DEF Laid, Ends
    <3> QED
      BY <2>1, <2>2, <3>1 DEF Towards, Width
  <2> QED
    BY <1>10, <2>1, <2>2, <2>3
<1>4. \A g \in G : at[g] \in S /\ rank[g] \in Nat
  <2>1. SUFFICES ASSUME NEW g \in G PROVE g[1] \in S /\ rank[g] \in Nat
    OBVIOUS
  <2>2. g[1] \in S /\ Good(g[1], g[2])
    OBVIOUS
  <2>4. rank[g] = IF g[1] \in D THEN 0 ELSE 1 + (edge["right"] - edge["left"]) - Width(g[2], DPar(g[1]))
    OBVIOUS
  <2> HIDE DEF Good, S, G, D, rank
  <2>3. /\ edge["right"] - edge["left"] \in Int
        /\ g[1] \notin D => /\ Width(g[2], DPar(g[1])) \in Int
                            /\ Width(g[2], DPar(g[1])) <= edge["right"] - edge["left"]
    BY <1>3, <2>2
  <2> QED
    BY <2>2, <2>3, <2>4
<1>5. \A g \in G : at[g] \in D => DBase(N)[at[g]] \in Out
  <2>1. SUFFICES ASSUME NEW g \in G, g[1] \in D PROVE DBase(N)[g[1]] \in Out
    OBVIOUS
  <2> DEFINE l == g[1]
             t == l.tree
             x == l.x
  <2>2. l \in S /\ Good(l, g[2]) /\ t \in Trees(N) /\ x \in N \cup {Nil}
    BY <1>2
  <2> HIDE DEF l
  <2>3. CASE DStops(l)
    <3> DEFINE r == LastBlack(t, x)
    <3>1. DBase(N)[l] = r
      BY <2>2, <2>3 DEF DBase
    <3>2. Kept(r, t0, pos, edge)
      <4>1. CASE x = Nil
        BY <2>2, <4>1 DEF LastBlack
      <4>2. CASE x # Nil
        <5>1. Kept(r, t, pos, edge)
          BY <2>2, <4>2, LastBlackFields
        <5> HIDE DEF r
        <5> QED
          BY <2>2, <5>1, KeptTwice
      <4> QED
        BY <4>1, <4>2
    <3>3. rb => \E h : BlackRed(r, h, Nil)
      <4>1. x = t.root \/ x \in t.red
        BY <2>3 DEF DStops
      <4>2. rb => Owing(t, x, DPar(l))
        BY <2>2
      <4> QED
        BY <2>2, <4>1, <4>2, LastBlackColours
    <3> HIDE DEF r
    <3>4. r \in Trees(N)
      BY <1>0, <3>2 DEF Kept
    <3>5. FixedUp(r, t0, pos, edge, rb)
      BY <3>2, <3>3 DEF FixedUp
    <3>6. r \in Out
      BY <3>4, <3>5
    <3> QED
      BY <3>1, <3>6 DEF l
  <2>4. CASE ~DStops(l)
    <3>1. DBase(N)[l] = NilPointer
      BY <2>2, <2>4 DEF DBase
    <3>2. ~rb
      <4>1. SUFFICES ASSUME rb PROVE FALSE
        OBVIOUS
      <4>2. Laid(l.tree, pos, edge, g[2]) /\ Owing(l.tree, l.x, DPar(l))
        BY <2>2, <4>1
      <4>3. ~DFails(l, N)
        BY <2>2, <2>4, <4>2, DeleteGoes
      <4> QED
        BY <2>1, <2>4, <4>3 DEF DDone, l
    <3>3. NilPointer \in Out
      BY <3>2 DEF FixedUp
    <3> QED
      BY <3>1, <3>3 DEF l
  <2> QED
    BY <2>3, <2>4 DEF l
<1>6. \A g \in G : at[g] \notin D => \E h \in G : at[h] = DRound(N)[at[g]] /\ rank[h] < rank[g]
  <2>1. SUFFICES ASSUME NEW g \in G, g[1] \notin D
                 PROVE \E h \in G : h[1] = DRound(N)[g[1]] /\ rank[h] < rank[g]
    OBVIOUS
  <2> DEFINE l == g[1]
             m == DNext(l)
  <2>2. l \in S /\ Good(l, g[2])
    OBVIOUS
  <2>3. ~DStops(l) /\ ~DFails(l, N)
    BY <2>1, <2>2 DEF DDone
  <2>4. Laid(l.tree, pos, edge, g[2])
    BY <2>2
  <2>5. Goes(m, l, N, pos, edge, g[2])
    <3> HIDE DEF l
    <3> QED
      BY <2>2, <2>3, <2>4, DeleteStep DEF DFails
  <2>6. PICK new : Laid(m.tree, pos, edge, new) /\ (DStops(m) \/ Width(g[2], DPar(l)) < Width(new, DPar(m)))
    BY <2>5 DEF Goes
  <2>8. DRound(N)[l] = m /\ m \in S
    BY <2>2, <2>5 DEF DRound, Goes
  <2> HIDE DEF m, l
  <2>7. Kept(m.tree, t0, pos, edge)
    <3>1. Kept(m.tree, l.tree, pos, edge) /\ Kept(l.tree, t0, pos, edge)
      BY <2>2, <2>5 DEF Goes
    <3> QED
      BY <3>1, KeptTwice
  <2>9. Good(m, new)
    BY <2>2, <2>5, <2>6, <2>7 DEF Goes
  <2>10. new \in E
    BY <1>3, <2>8, <2>9
  <2>11. <<m, new>> \in G
    BY <2>8, <2>9, <2>10
  <2>12. rank[<<m, new>>] = IF m \in D THEN 0
                            ELSE 1 + (edge["right"] - edge["left"]) - Width(new, DPar(m))
    BY <2>11
  <2>13. rank[g] = 1 + (edge["right"] - edge["left"]) - Width(g[2], DPar(l))
    BY <2>1 DEF l
  <2>14. /\ Width(g[2], DPar(l)) \in Int /\ edge["right"] - edge["left"] \in Int
         /\ Width(g[2], DPar(l)) <= edge["right"] - edge["left"]
         /\ m \notin D => Width(new, DPar(m)) \in Int
    <3>1. l \notin D
      BY <2>1 DEF l
    <3> QED
      BY <1>3, <2>2, <2>8, <2>9, <3>1
  <2>15. m \notin D => ~DStops(m)
    BY <2>8 DEF DDone
  <2>16. rank[<<m, new>>] < rank[g]
    <3> HIDE DEF rank, G, S, D
    <3> QED
      BY <2>6, <2>12, <2>13, <2>14, <2>15
  <2> QED
    BY <2>8, <2>11, <2>16 DEF l
<1>7. <<start, end0>> \in G
  <2>1. Kept(t0, t0, pos, edge)
    BY <1>0 DEF Kept, Marked
  <2>2. Good(start, end0)
    BY <1>0, <1>9, <2>1
  <2> QED
    BY <1>0, <1>3, <2>2
<1>8. f[start] \in Out
  <2>1. at[<<start, end0>>] = start
    BY <1>7
  <2>3. Falls(G, at, rank, S, D, DRound(N)) /\ EndsIn(G, at, D, DBase(N), Out)
    <3> HIDE DEF S, D, G, at, rank, Out
    <3> QED
      BY <1>4, <1>5, <1>6 DEF Falls, EndsIn
  <2> HIDE DEF S, D, G, at, rank, Out
  <2>2. \A g \in G : f[at[g]] \in Out
    BY <1>1, <2>3, LoopEnds
  <2> QED
    BY <1>7, <2>1, <2>2
<1> QED
  BY <1>1, <1>8 DEF rb

-----------------------------------------------------------------------------
(***************************************************************************)
(* Delete of a node.                                                       *)
(***************************************************************************)

\* r is k without z.
Dropped(r, k, z) ==
  LET M == Nodes(k) \ {z}
  IN /\ r.root = k.root /\ r.size = k.size - 1 /\ r.red = k.red \ {z} /\ r.dirty = k.dirty \ {z}
     /\ r.parent = [m \in M |-> k.parent[m]]
     /\ \A c \in Sides : r[c] = [m \in M |-> k[c][m]]

\* Only z has a link to z.
Loose(k, z) ==
  k.root # z /\ \A m \in Nodes(k) \ {z} : k.parent[m] # z /\ \A c \in Sides : k[c][m] # z

(* A node nothing links to is dropped.                                       *)
LEMMA DropFields ==
  ASSUME NEW N, NEW k \in Trees(N), NEW z \in N, Loose(k, z), k.size # 0
  PROVE Drop(k, z) \in Trees(N \ {z}) /\ Dropped(Drop(k, z), k, z)
<1> DEFINE r == Drop(k, z)
           M == N \ {z}
           a == [m \in M |-> k.left[m]]
           b == [m \in M |-> k.right[m]]
           p == [m \in M |-> k.parent[m]]
<1>1. DOMAIN k.left = N /\ DOMAIN k.right = N /\ DOMAIN k.parent = N
  BY DEF Trees
<1>2. Without(k.left, z) = a /\ Without(k.right, z) = b /\ Without(k.parent, z) = p
  BY <1>1 DEF Without
<1>3. Nodes(k) = N
  BY Fields
<1>4. a \in [M -> M \cup {Nil}] /\ b \in [M -> M \cup {Nil}] /\ p \in [M -> M \cup {Nil}]
  <2>1. \A m \in M : /\ k.left[m] \in M \cup {Nil} /\ k.right[m] \in M \cup {Nil}
                     /\ k.parent[m] \in M \cup {Nil}
    BY <1>3 DEF Trees, Loose, Sides
  <2> QED
    BY <2>1
<1>5. k.root \in M \cup {Nil} /\ k.red \ {z} \subseteq M /\ k.dirty \ {z} \subseteq M /\ k.size - 1 \in Nat
  BY <1>3, Fields DEF Loose
<1> HIDE DEF a, b, p, M
<1>6. r = [k EXCEPT !.left = a, !.right = b, !.parent = p, !.red = k.red \ {z}, !.dirty = k.dirty \ {z},
                    !.size = k.size - 1]
  BY <1>2 DEF Drop
<1> HIDE DEF r
<1>7. /\ r.root = k.root /\ r.size = k.size - 1 /\ r.red = k.red \ {z} /\ r.dirty = k.dirty \ {z}
      /\ r.parent = p /\ r.left = a /\ r.right = b
  BY <1>6 DEF Trees
<1>8. r \in Trees(M)
  BY <1>4, <1>5, <1>6 DEF Trees
<1>9. \A c \in Sides : r[c] = [m \in M |-> k[c][m]]
  BY <1>7 DEF Sides, a, b
<1> QED
  BY <1>3, <1>7, <1>8, <1>9 DEF Dropped, r, M, p

\* The links and colours of r that are not those of t are marked, for all but z.
MarkedLess(t, r, z) ==
  /\ t.dirty \ {z} \subseteq r.dirty
  /\ \A n \in Nodes(r) : n \notin r.dirty => /\ \A d \in Sides : r[d][n] = t[d][n]
                                             /\ n \in r.red <=> n \in t.red

\* r is t without z, whose place x takes, with the colours red.
TakenOut(r, t, z, x) ==
  /\ CutOut(r, t, z, x) /\ r.size = t.size - 1 /\ r.red = t.red \ {z} /\ MarkedLess(t, r, z)

(* A node with one child, or none, is taken out.                             *)
LEMMA CutFields ==
  ASSUME NEW N, Nil \notin N, NEW t \in Trees(N), NEW pos, NEW edge, NEW end, Laid(t, pos, edge, end),
         t.size # 0, NEW z \in N, NEW c \in Sides, t[c][z] = Nil, NEW x, x = t[Other(c)][z]
  PROVE LET r == Drop(transplant(t, z, x), z)
        IN r \in Trees(N \ {z}) /\ TakenOut(r, t, z, x)
<1> DEFINE k == transplant(t, z, x)
           r == Drop(k, z)
           p == t.parent[z]
           M == N \ {z}
<1>1. /\ Nodes(t) = N /\ x \in N \cup {Nil} /\ z # Nil /\ \A e \in Sides : e = c \/ e = Other(c)
      /\ p \in N \cup {Nil} /\ \A e \in Sides : t[e] \in [N -> N \cup {Nil}]
  BY Fields, TwoSides
<1>2. p # z /\ OneChild(t, z, p)
  BY OneParent
<1>3. x # Nil => x # z /\ t.parent[x] = z
  BY <1>1, TwoSides, ChildBeyond
<1>4. /\ k \in Trees(N) /\ k.size = t.size /\ k.red = t.red
      /\ k.root = IF p = Nil THEN x ELSE t.root
      /\ k.parent = [m \in N |-> IF m = x THEN p ELSE t.parent[m]]
      /\ \A e \in Sides : k[e] = [m \in N |-> IF m = p /\ t[e][p] = z THEN x ELSE t[e][m]]
      /\ k.dirty = t.dirty \cup ({p} \ {Nil})
  <2>1. OneChild(t, z, t.parent[z]) /\ x \in N \cup {Nil}
    BY <1>1, <1>2
  <2>2. LET j == transplant(t, z, x)
            q == t.parent[z]
        IN /\ j \in Trees(N) /\ j.size = t.size /\ j.red = t.red
           /\ j.root = IF q = Nil THEN x ELSE t.root
           /\ j.parent = [m \in N |-> IF m = x THEN q ELSE t.parent[m]]
           /\ \A e \in Sides : j[e] = [m \in N |-> IF m = q /\ t[e][q] = z THEN x ELSE t[e][m]]
           /\ j.dirty = t.dirty \cup ({q} \ {Nil})
    <3> HIDE DEF k, p
    <3> QED
      BY <2>1, TransplantFields
  <2> QED
    BY <2>2
<1> HIDE DEF k
<1>5. Nodes(k) = N
  BY <1>4, Fields
<1>6. \A m \in N, e \in Sides : t[e][m] = z => m = p
  BY <1>1, ChildBeyond
<1>7. Loose(k, z)
  <2>1. k.root # z
    <3>1. p # Nil => t.root # z
      BY <1>1 DEF Laid, AtRoot
    <3> QED
      BY <1>1, <1>3, <1>4, <3>1
  <2>2. ASSUME NEW m \in M PROVE k.parent[m] # z
    <3>1. CASE m = x
      BY <1>2, <1>4, <3>1
    <3>2. CASE m # x
      <4>1. t.parent[m] = z => \E e \in Sides : t[e][z] = m
        BY <1>1 DEF Laid, Parents
      <4>2. t.parent[m] # z
        BY <1>1, <3>2, <4>1
      <4> QED
        BY <1>4, <3>2, <4>2
    <3> QED
      BY <3>1, <3>2
  <2>3. ASSUME NEW m \in M, NEW e \in Sides PROVE k[e][m] # z
    <3>1. k[e] = [n \in N |-> IF n = p /\ t[e][p] = z THEN x ELSE t[e][n]]
      BY <1>4
    <3>2. k[e][m] = IF m = p /\ t[e][p] = z THEN x ELSE t[e][m]
      BY <3>1
    <3> QED
      BY <1>1, <1>3, <1>6, <3>2
  <2> QED
    BY <1>5, <2>1, <2>2, <2>3 DEF Loose
<1>8. r \in Trees(M) /\ Dropped(r, k, z)
  BY <1>4, <1>7, DropFields
<1> HIDE DEF r
<1>9. /\ r.root = k.root /\ r.size = k.size - 1 /\ r.red = k.red \ {z} /\ r.dirty = k.dirty \ {z}
      /\ r.parent = [m \in M |-> k.parent[m]] /\ \A e \in Sides : r[e] = [m \in M |-> k[e][m]]
  BY <1>5, <1>8 DEF Dropped
<1>10. CutOut(r, t, z, x)
  <2>1. r.parent = [m \in M |-> IF m = x THEN p ELSE t.parent[m]]
    BY <1>4, <1>9
  <2>2. ASSUME NEW e \in Sides PROVE r[e] = [m \in M |-> IF m = p /\ t[e][p] = z THEN x ELSE t[e][m]]
    <3>1. k[e] = [m \in N |-> IF m = p /\ t[e][p] = z THEN x ELSE t[e][m]] /\ r[e] = [m \in M |-> k[e][m]]
      BY <1>4, <1>9
    <3> QED
      BY <3>1
  <2> QED
    BY <1>1, <1>4, <1>9, <2>1, <2>2 DEF CutOut
<1>11. MarkedLess(t, r, z)
  <2>1. t.dirty \ {z} \subseteq r.dirty
    BY <1>4, <1>9
  <2>2. ASSUME NEW n \in M, n \notin r.dirty PROVE (\A e \in Sides : r[e][n] = t[e][n]) /\ (n \in r.red <=> n \in t.red)
    <3>1. n # p
      BY <1>1, <1>4, <1>9, <2>2
    <3>2. ASSUME NEW e \in Sides PROVE r[e][n] = t[e][n]
      <4>1. /\ k[e] = [m \in N |-> IF m = p /\ t[e][p] = z THEN x ELSE t[e][m]]
            /\ r[e] = [m \in M |-> k[e][m]]
        BY <1>4, <1>9
      <4> QED
        BY <3>1, <4>1
    <3> QED
      BY <1>4, <1>9, <3>2
  <2>3. Nodes(r) = M
    BY <1>8, Fields
  <2> QED
    BY <2>1, <2>2, <2>3 DEF MarkedLess
<1> QED
  BY <1>4, <1>8, <1>9, <1>10, <1>11 DEF TakenOut, r, k

(* Where a red node is taken out, the colours stay right; where a black one is, *)
(* its place owes a black node.                                              *)
LEMMA CutColours ==
  ASSUME NEW N, Nil \notin N, NEW t \in Trees(N), NEW pos, NEW edge, NEW end, Laid(t, pos, edge, end),
         NEW u \in N, NEW c \in Sides, t[c][u] = Nil, NEW x, x = t[Other(c)][u],
         NEW s \in Trees(N \ {u}), CutOut(s, t, u, x), s.red = t.red \ {u}, NEW h, BlackRed(t, h, Nil)
  PROVE IF u \in t.red THEN EvenBlack(s) ELSE Owing(s, x, t.parent[u])
<1> DEFINE M == N \ {u}
           p == t.parent[u]
           q == IF u \in t.red THEN Nil ELSE p
           hs == [m \in M |-> h[m]]
<1>1. /\ Nodes(t) = N /\ Nodes(s) = M /\ u # Nil /\ p \in N \cup {Nil} /\ x \in N \cup {Nil} /\ t.red \subseteq N
      /\ \A e \in Sides : t[e] \in [N -> N \cup {Nil}] /\ (e = c \/ e = Other(c))
  BY Fields, TwoSides
<1>2. p # u /\ OneChild(t, u, p)
  BY OneParent
<1>3. PICK e0 \in Sides : p # Nil => t[e0][p] = u /\ t[Other(e0)][p] # u
  BY <1>2 DEF OneChild
<1>4. x # Nil => x \in M /\ t.parent[x] = u
  BY <1>1, TwoSides, ChildBeyond
<1>5. \A m \in N, e \in Sides : t[e][m] # Nil => t.parent[t[e][m]] = m /\ t[e][m] # m
  BY ChildBeyond
<1>6. /\ s.root = IF p = Nil THEN x ELSE t.root
      /\ s.parent = [m \in M |-> IF m = x THEN p ELSE t.parent[m]]
      /\ \A e \in Sides : s[e] = [m \in M |-> IF m = p /\ t[e][p] = u THEN x ELSE t[e][m]]
  BY <1>1 DEF CutOut
<1>7. Short(t, h, Nil, e0) /\ h \in [N -> Nat]
  <2>1. Short(t, h, Nil, e0)
    BY ShortNone DEF BlackRed
  <2> QED
    BY <1>1, <2>1 DEF Short
<1>8. ASSUME NEW m \in M \cup {Nil} PROVE High(hs, m) = High(h, m)
  BY DEF High
<1>9. ASSUME NEW n \in N, NEW e \in Sides
      PROVE h[n] \in Nat /\ High(h, t[e][n]) \in Nat /\ h[n] = High(h, t[e][n]) + Tone(t.red, n)
  <2>1. h[n] \in Nat /\ High(h, t[e][n]) \in Nat
        /\ h[n] = High(h, t[e][n]) + Tone(t.red, n) + Owed(Nil, e0, n, e)
    BY <1>7, ShortAt
  <2>2. Owed(Nil, e0, n, e) = 0 /\ Tone(t.red, n) \in Nat
    BY DEF Owed, Tone
  <2> QED
    BY <2>1, <2>2
<1>10. ASSUME NEW n \in M, NEW e \in Sides PROVE Levels(s.red, hs, q, e0, n, e, s[e][n])
  <2>1. s[e][n] = IF n = p /\ t[e][p] = u THEN x ELSE t[e][n]
    <3>1. s[e] = [m \in M |-> IF m = p /\ t[e][p] = u THEN x ELSE t[e][m]]
      BY <1>6
    <3> QED
      BY <3>1
  <2>2. hs[n] = h[n] /\ Tone(s.red, n) = Tone(t.red, n) /\ Tone(t.red, n) \in Nat
    BY DEF Tone
  <2>3. CASE n = p /\ t[e][p] = u
    <3>1. e = e0
      BY <1>1, <1>3, <2>3, TwoSides
    <3>2. h[n] = h[u] + Tone(t.red, n) /\ h[u] = High(h, x) + Tone(t.red, u) /\ High(h, x) \in Nat /\ h[u] \in Nat
      <4>1. h[n] = High(h, u) + Tone(t.red, n)
        BY <1>9, <2>3
      <4>2. /\ h[u] = High(h, t[Other(c)][u]) + Tone(t.red, u) /\ High(h, t[Other(c)][u]) \in Nat
            /\ h[u] \in Nat
        BY <1>9, TwoSides
      <4> QED
        BY <1>1, <4>1, <4>2 DEF High
    <3>3. Owed(q, e0, n, e) = Tone(t.red, u) /\ Tone(t.red, u) \in Nat
      BY <2>3, <3>1 DEF Owed, Tone
    <3>4. High(hs, x) = High(h, x) /\ s[e][n] = x
      BY <1>4, <1>8, <2>1, <2>3
    <3> HIDE DEF hs, q
    <3> QED
      BY <2>2, <3>2, <3>3, <3>4 DEF Levels
  <2>4. CASE ~(n = p /\ t[e][p] = u)
    <3>1. t[e][n] # u
      BY <1>1, <1>5, <2>4
    <3>2. High(hs, t[e][n]) = High(h, t[e][n])
      BY <1>1, <1>8, <3>1
    <3>3. Owed(q, e0, n, e) = 0
      BY <1>1, <1>3, <2>4 DEF Owed
    <3>4. s[e][n] = t[e][n]
      BY <2>1, <2>4
    <3> HIDE DEF hs, q
    <3> QED
      BY <1>9, <2>2, <3>2, <3>3, <3>4 DEF Levels
  <2> QED
    BY <2>3, <2>4
<1>11. Short(s, hs, q, e0)
  <2>1. hs \in [M -> Nat]
    BY <1>7
  <2> HIDE DEF hs, q
  <2> QED
    BY <1>1, <1>10, <2>1 DEF Short
<1> HIDE DEF hs
<1>12. \A n \in t.red : t.parent[n] # Nil /\ t.parent[n] \notin t.red
  BY <1>1 DEF BlackRed, OneRedRed
<1>13. ASSUME NEW n \in s.red, n # x PROVE s.parent[n] # Nil /\ s.parent[n] \notin s.red
  <2>1. n \in t.red /\ n \in M /\ s.parent[n] = t.parent[n]
    BY <1>1, <1>6, <1>13
  <2> QED
    BY <1>12, <2>1
<1>14. CASE u \in t.red
  <2>1. Even(s, hs)
    BY <1>11, <1>14, ShortNone
  <2>2. x \notin s.red
    <3>1. x \in t.red => x # Nil
      BY <1>1
    <3> QED
      BY <1>4, <1>12, <1>14, <3>1
  <2>3. OneRedRed(s, Nil)
    BY <1>13, <2>2 DEF OneRedRed
  <2> QED
    BY <1>14, <2>1, <2>3 DEF EvenBlack, BlackRed
<1>15. CASE u \notin t.red
  <2>1. RedBut(s, x)
    BY <1>13 DEF RedBut
  <2>2. CASE p = Nil
    <3>1. x = s.root
      BY <1>6, <2>2
    <3>2. Even(s, hs)
      BY <1>11, <1>15, <2>2, ShortNone
    <3> QED
      BY <1>15, <2>1, <3>1, <3>2 DEF Owing
  <2>3. CASE p # Nil
    <3>1. t.root \in N /\ t.parent[t.root] = Nil
      BY <1>1, Fields DEF Laid, AtRoot
    <3>2. x # s.root
      BY <1>1, <1>4, <1>6, <2>3, <3>1
    <3>3. p \in M /\ s[e0][p] = x
      <4>1. s[e0] = [m \in M |-> IF m = p /\ t[e0][p] = u THEN x ELSE t[e0][m]]
        BY <1>6
      <4> QED
        BY <1>1, <1>2, <1>3, <2>3, <4>1
    <3>4. Short(s, hs, p, e0)
      BY <1>11, <1>15
    <3> HIDE DEF p
    <3>5. Owing(s, x, p)
      BY <1>1, <2>1, <3>2, <3>3, <3>4 DEF Owing
    <3> QED
      BY <1>15, <3>5 DEF p
  <2> QED
    BY <2>2, <2>3
<1> QED
  BY <1>14, <1>15

\* And it has the colours of s.
Recoloured(r, s, z, y) == \A m \in Nodes(r) : m \in r.red <=> As(y, z, m) \in s.red

(* The heights of a tree are those of the same with y for z.                  *)
LEMMA RenameShort ==
  ASSUME NEW M, Nil \notin M, NEW z \in M, NEW y, y \notin M, y # Nil, NEW s \in Trees(M),
         NEW r \in Trees((M \ {z}) \cup {y}), Renamed(r, s, z, y), Recoloured(r, s, z, y),
         NEW q \in M \cup {Nil}, NEW c \in Sides, NEW h, Short(s, h, q, c)
  PROVE \E new : Short(r, new, As(z, y, q), c)
<1> DEFINE K == (M \ {z}) \cup {y}
           old(m) == As(y, z, m)
           new == [m \in K |-> h[old(m)]]
<1>1. /\ Nodes(s) = M /\ Nodes(r) = K /\ \A e \in Sides : s[e] \in [M -> M \cup {Nil}]
  BY Fields
<1>2. /\ \A m \in K : old(m) \in M /\ As(z, y, old(m)) = m
      /\ \A v \in M : As(z, y, v) \in K /\ old(As(z, y, v)) = v
      /\ As(z, y, Nil) = Nil /\ Nil \notin K
      /\ \A v \in M \cup {Nil} : As(z, y, v) = Nil => v = Nil
      /\ \A v, w \in M \cup {Nil} : As(z, y, v) = As(z, y, w) => v = w
  BY RenameFacts
<1>3. \A e \in Sides : r[e] = [m \in K |-> As(z, y, s[e][old(m)])]
  BY <1>1 DEF Renamed
<1>4. h \in [M -> Nat] /\ \A n \in M, e \in Sides : Levels(s.red, h, q, c, n, e, s[e][n])
  BY <1>1 DEF Short
<1>5. \A m \in K : m \in r.red <=> old(m) \in s.red
  BY <1>1 DEF Recoloured
<1> HIDE DEF K, old
<1>6. new \in [K -> Nat] /\ \A m \in K : new[m] = h[old(m)]
  BY <1>2, <1>4
<1> HIDE DEF new
<1>7. ASSUME NEW v \in M \cup {Nil} PROVE High(new, As(z, y, v)) = High(h, v)
  <2>1. CASE v = Nil
    BY <1>2, <2>1 DEF High
  <2>2. CASE v # Nil
    <3>1. v \in M
      BY <2>2
    <3>2. As(z, y, v) \in K /\ old(As(z, y, v)) = v /\ As(z, y, v) # Nil
      BY <1>2, <3>1
    <3> QED
      BY <1>6, <2>2, <3>2 DEF High
  <2> QED
    BY <2>1, <2>2
<1>8. ASSUME NEW n \in K, NEW e \in Sides PROVE Levels(r.red, new, As(z, y, q), c, n, e, r[e][n])
  <2> DEFINE o == old(n)
             v == s[e][o]
  <2>1. o \in M /\ v \in M \cup {Nil} /\ As(z, y, o) = n
    BY <1>1, <1>2
  <2>2. r[e][n] = As(z, y, v)
    <3>1. r[e] = [m \in K |-> As(z, y, s[e][old(m)])]
      BY <1>3
    <3> QED
      BY <3>1
  <2>3. Levels(s.red, h, q, c, o, e, v)
    BY <1>4, <2>1
  <2>4. new[n] = h[o] /\ High(new, As(z, y, v)) = High(h, v) /\ Tone(r.red, n) = Tone(s.red, o)
    BY <1>5, <1>6, <1>7, <2>1 DEF Tone
  <2>5. Owed(As(z, y, q), c, n, e) = Owed(q, c, o, e)
    <3>1. n = As(z, y, q) <=> o = q
      BY <1>2, <2>1
    <3> QED
      BY <3>1 DEF Owed
  <2> HIDE DEF o, v
  <2> QED
    BY <2>2, <2>3, <2>4, <2>5 DEF Levels
<1>9. Short(r, new, As(z, y, q), c)
  BY <1>1, <1>6, <1>8 DEF Short
<1> QED
  BY <1>9

(* And so are the red nodes without a red child.                             *)
LEMMA RenameReds ==
  ASSUME NEW M, Nil \notin M, NEW z \in M, NEW y, y \notin M, y # Nil, NEW s \in Trees(M),
         NEW r \in Trees((M \ {z}) \cup {y}), Renamed(r, s, z, y), Recoloured(r, s, z, y),
         NEW x \in M \cup {Nil}, RedBut(s, x)
  PROVE RedBut(r, As(z, y, x))
<1> DEFINE K == (M \ {z}) \cup {y}
           old(m) == As(y, z, m)
<1>1. /\ Nodes(s) = M /\ Nodes(r) = K /\ s.parent \in [M -> M \cup {Nil}] /\ r.red \subseteq K
  BY Fields
<1>2. /\ \A m \in K : old(m) \in M /\ As(z, y, old(m)) = m
      /\ \A v \in M : As(z, y, v) \in K /\ old(As(z, y, v)) = v
      /\ As(z, y, Nil) = Nil /\ Nil \notin K
      /\ \A v \in M \cup {Nil} : As(z, y, v) = Nil => v = Nil
      /\ \A v, w \in M \cup {Nil} : As(z, y, v) = As(z, y, w) => v = w
  BY RenameFacts
<1>3. r.parent = [m \in K |-> As(z, y, s.parent[old(m)])]
  BY <1>1 DEF Renamed
<1>4. \A m \in K : m \in r.red <=> old(m) \in s.red
  BY <1>1 DEF Recoloured
<1> HIDE DEF K, old
<1>5. SUFFICES ASSUME NEW n \in r.red, n # As(z, y, x)
               PROVE r.parent[n] # Nil /\ (r.parent[n] \notin r.red \/ r.parent[n] = As(z, y, x))
  BY DEF RedBut
<1> DEFINE o == old(n)
           v == s.parent[o]
<1>6. n \in K /\ o \in M /\ o \in s.red /\ v \in M \cup {Nil} /\ As(z, y, o) = n
  BY <1>1, <1>2, <1>4
<1>7. o # x
  BY <1>5, <1>6
<1>8. v # Nil /\ (v \notin s.red \/ v = x)
  BY <1>6, <1>7 DEF RedBut
<1>9. r.parent[n] = As(z, y, v)
  BY <1>3, <1>6
<1> HIDE DEF o, v
<1>10. v \in M /\ As(z, y, v) \in K /\ old(As(z, y, v)) = v
  BY <1>2, <1>6, <1>8
<1>11. As(z, y, v) \in r.red <=> v \in s.red
  BY <1>4, <1>10
<1>12. As(z, y, v) # Nil
  BY <1>2, <1>10
<1> QED
  BY <1>8, <1>9, <1>11, <1>12

(* What a tree owes is owed with y for z.                                    *)
LEMMA RenameOwing ==
  ASSUME NEW M, Nil \notin M, NEW z \in M, NEW y, y \notin M, y # Nil, NEW s \in Trees(M),
         NEW r \in Trees((M \ {z}) \cup {y}), Renamed(r, s, z, y), Recoloured(r, s, z, y)
  PROVE /\ EvenBlack(s) => EvenBlack(r)
        /\ \A x \in M \cup {Nil}, p \in M \cup {Nil} : Owing(s, x, p) => Owing(r, As(z, y, x), As(z, y, p))
<1> DEFINE K == (M \ {z}) \cup {y}
<1>1. /\ Nodes(s) = M /\ Nodes(r) = K /\ s.root \in M \cup {Nil} /\ \A e \in Sides : s[e] \in [M -> M \cup {Nil}]
      /\ s.red \subseteq M /\ r.red \subseteq K /\ "left" \in Sides
  BY Fields DEF Sides
<1>2. /\ \A v \in M : As(z, y, v) \in K /\ As(y, z, As(z, y, v)) = v
      /\ As(z, y, Nil) = Nil /\ Nil \notin K
      /\ \A v, w \in M \cup {Nil} : As(z, y, v) = As(z, y, w) => v = w
  BY RenameFacts
<1>3. r.root = As(z, y, s.root) /\ \A e \in Sides : r[e] = [m \in K |-> As(z, y, s[e][As(y, z, m)])]
  BY <1>1 DEF Renamed
<1>4. ASSUME NEW h, Even(s, h) PROVE \E new : Even(r, new)
  <2>1. Short(s, h, Nil, "left")
    BY <1>4, ShortNone
  <2>2. \E new : Short(r, new, As(z, y, Nil), "left")
    BY <1>1, <2>1, RenameShort
  <2> QED
    BY <1>2, <2>2, ShortNone
<1>5. ASSUME EvenBlack(s) PROVE EvenBlack(r)
  <2>1. PICK h : BlackRed(s, h, Nil)
    BY <1>5 DEF EvenBlack
  <2>2. RedBut(s, Nil)
    BY <1>1, <2>1 DEF BlackRed, OneRedRed, RedBut
  <2>3. RedBut(r, Nil)
    <3>1. RedBut(r, As(z, y, Nil))
      BY <2>2, RenameReds
    <3> QED
      BY <1>2, <3>1
  <2>4. OneRedRed(r, Nil)
    BY <1>1, <1>2, <2>3 DEF OneRedRed, RedBut
  <2>5. \E new : Even(r, new)
    BY <1>4, <2>1 DEF BlackRed
  <2> QED
    BY <2>4, <2>5 DEF EvenBlack, BlackRed
<1>6. ASSUME NEW x \in M \cup {Nil}, NEW p \in M \cup {Nil}, Owing(s, x, p)
      PROVE Owing(r, As(z, y, x), As(z, y, p))
  <2>1. RedBut(r, As(z, y, x))
    BY <1>6, RenameReds DEF Owing
  <2>2. x = s.root <=> As(z, y, x) = r.root
    BY <1>1, <1>2, <1>3
  <2>3. CASE x = s.root
    <3>1. \E new : Even(r, new)
      BY <1>4, <1>6, <2>3 DEF Owing
    <3> QED
      BY <2>1, <2>2, <2>3, <3>1 DEF Owing
  <2>4. CASE x # s.root
    <3>1. p \in M
      BY <1>1, <1>6, <2>4 DEF Owing
    <3>2. PICK h : \E c \in Sides : s[c][p] = x /\ Short(s, h, p, c)
      BY <1>6, <2>4 DEF Owing
    <3>3. PICK c \in Sides : s[c][p] = x /\ Short(s, h, p, c)
      BY <3>2
    <3>4. PICK new : Short(r, new, As(z, y, p), c)
      BY <1>6, <3>3, RenameShort
    <3>5. As(z, y, p) \in K /\ As(y, z, As(z, y, p)) = p
      BY <1>2, <3>1
    <3>6. r[c][As(z, y, p)] = As(z, y, x)
      <4>1. r[c] = [m \in K |-> As(z, y, s[c][As(y, z, m)])]
        BY <1>3
      <4> QED
        BY <3>3, <3>5, <4>1
    <3> HIDE DEF K
    <3> QED
      BY <1>1, <2>1, <2>2, <2>4, <3>4, <3>5, <3>6 DEF Owing
  <2> QED
    BY <2>3, <2>4
<1> QED
  BY <1>5, <1>6

\* The links around z, which has two children, and around the node y after it.
Between(t, z, y, N) ==
  LET p == t.parent[y]
      pz == t.parent[z]
      a == t["left"][z]
      b == t["right"][z]
      x == t["right"][y]
  IN /\ y \in N /\ y # z /\ t["left"][y] = Nil
     /\ p \in N /\ p # y /\ pz \in N \cup {Nil} /\ pz # z /\ pz # y
     /\ a \in N /\ b \in N /\ a # z /\ a # y /\ b # z /\ a # b /\ t.parent[a] = z /\ t.parent[b] = z
     /\ x \in N \cup {Nil} /\ x # z /\ x # y /\ x # a /\ x # b
     /\ (p = z <=> b = y) /\ (pz = Nil <=> t.root = z) /\ t.root # y
     /\ \A n \in N, e \in Sides : (t[e][n] = z => n = pz) /\ (t[e][n] = y => n = p)
     /\ \A n \in N : (t.parent[n] = z => n = a \/ n = b) /\ (t.parent[n] = y => n = x)
     /\ OneChild(t, y, p) /\ OneChild(t, z, pz)

(* The node after z is the least on its right, and has no left child.        *)
LEMMA BetweenFacts ==
  ASSUME NEW N, Nil \notin N, NEW t \in Trees(N), NEW pos, NEW edge, NEW end, Laid(t, pos, edge, end),
         NEW z \in N, t["left"][z] # Nil, t["right"][z] # Nil, NEW y, y = minimum(t, t["right"][z])
  PROVE pos[y] = pos[z] + 1 /\ Between(t, z, y, N)
<1> DEFINE p == t.parent[y]
           pz == t.parent[z]
           a == t["left"][z]
           b == t["right"][z]
           x == t["right"][y]
<1>1. /\ Nodes(t) = N /\ "left" \in Sides /\ "right" \in Sides /\ Other("left") = "right" /\ Step("right") = 1
      /\ Other("right") = "left" /\ (\A e \in Sides : e = "left" \/ e = "right")
      /\ t.root \in N \cup {Nil} /\ t.parent \in [N -> N \cup {Nil}] /\ z # Nil
      /\ \A e \in Sides : t[e] \in [N -> N \cup {Nil}]
  BY Fields DEF Sides, Other, Step
<1>2. \A n \in N : pos[n] \in Int
  BY <1>1 DEF Laid
<1>3. /\ b \in N /\ b # z /\ t.parent[b] = z /\ a # b /\ end["left"][b] = pos[z] + 1
      /\ a \in N /\ a # z /\ t.parent[a] = z
  <2>1. b \in N /\ b # z /\ t.parent[b] = z /\ a # b
    BY <1>1, ChildBeyond
  <2>2. end[Other("right")][b] = pos[z] + Step("right")
    BY <1>1, ChildBeyond
  <2>3. a \in N /\ a # z /\ t.parent[a] = z
    BY <1>1, ChildBeyond
  <2> QED
    BY <1>1, <2>1, <2>2, <2>3
<1>4. y \in N /\ pos[y] = pos[z] + 1 /\ t["left"][y] = Nil
  <2>1. /\ minimum(t, b) \in N /\ pos[minimum(t, b)] = end["left"][b]
        /\ t["left"][minimum(t, b)] = Nil
    BY <1>3, MinimumFirst
  <2> QED
    BY <1>3, <2>1
<1>5. y # z /\ y # Nil
  BY <1>2, <1>4
<1>6. ASSUME NEW n \in N, NEW e \in Sides, t[e][n] # Nil
      PROVE /\ t.parent[t[e][n]] = n /\ t[e][n] # n
            /\ e = "left" => pos[t[e][n]] < pos[n]
            /\ e = "right" => pos[n] < pos[t[e][n]]
  <2>1. /\ t[e][n] \in N /\ t[e][n] # n /\ t.parent[t[e][n]] = n
        /\ Towards(e, pos[n], pos[t[e][n]]) /\ pos[n] # pos[t[e][n]]
    BY <1>6, ChildBeyond
  <2> QED
    BY <1>2, <2>1 DEF Towards
<1>7. a # y
  BY <1>1, <1>2, <1>3, <1>4, <1>6
<1>8. p # Nil
  <2>1. SUFFICES ASSUME p = Nil PROVE FALSE
    OBVIOUS
  <2>2. y = t.root
    BY <1>1, <1>4, <2>1 DEF Laid, Parents
  <2>3. end["left"][y] = edge["left"] /\ end["left"][y] = pos[y]
    BY <1>1, <1>4, <1>5, <2>2 DEF Laid, AtRoot, Children
  <2>4. edge["left"] <= pos[z]
    BY Widths
  <2> QED
    BY <1>2, <1>4, <2>3, <2>4
<1>9. p \in N /\ p # y /\ OneChild(t, y, p) /\ pz \in N \cup {Nil} /\ pz # z /\ OneChild(t, z, pz)
  BY <1>1, <1>4, <1>8, OneParent
<1>10. \A n \in N : t.parent[n] # Nil => \E e \in Sides : t[e][t.parent[n]] = n
  BY <1>1 DEF Laid, Parents
<1>11. pz # y
  <2>1. SUFFICES ASSUME pz = y PROVE FALSE
    OBVIOUS
  <2>2. t["right"][y] = z
    BY <1>1, <1>4, <1>5, <1>10, <2>1
  <2>3. pos[y] < pos[z]
    BY <1>1, <1>4, <1>6, <2>2
  <2> QED
    BY <1>2, <1>4, <2>3
<1>12. p = z <=> b = y
  <2>1. ASSUME p = z PROVE b = y
    <3>1. PICK e \in Sides : t[e][z] = y
      BY <1>4, <1>8, <1>10, <2>1
    <3>2. e # "left"
      BY <1>7, <3>1
    <3> QED
      BY <1>1, <3>1, <3>2
  <2> QED
    BY <1>3, <2>1
<1>13. x \in N \cup {Nil} /\ x # z /\ x # y /\ x # a /\ x # b
  <2>1. x # Nil => x # y /\ t.parent[x] = y
    BY <1>1, <1>4, <1>6
  <2> QED
    BY <1>1, <1>3, <1>4, <1>5, <1>11, <2>1
<1>14. (pz = Nil <=> t.root = z) /\ t.root # y
  BY <1>1, <1>4, <1>8 DEF Laid, AtRoot, Parents
<1>15. \A n \in N, e \in Sides : (t[e][n] = z => n = pz) /\ (t[e][n] = y => n = p)
  BY <1>1, <1>5, <1>6
<1>16. ASSUME NEW n \in N PROVE (t.parent[n] = z => n = a \/ n = b) /\ (t.parent[n] = y => n = x)
  <2>1. ASSUME t.parent[n] = z PROVE n = a \/ n = b
    BY <1>1, <1>10, <2>1
  <2>2. ASSUME t.parent[n] = y PROVE n = x
    BY <1>1, <1>4, <1>5, <1>10, <2>2
  <2> QED
    BY <2>1, <2>2
<1> QED
  BY <1>3, <1>4, <1>5, <1>7, <1>9, <1>11, <1>12, <1>13, <1>14, <1>15, <1>16 DEF Between

\* Replace up to the second transplant.
FreeOf(t, z, y) ==
  IF t.parent[y] = z THEN SetParent(t, t["right"][y], y)
  ELSE Mark(SetParent([transplant(t, y, t["right"][y]) EXCEPT !.right[y] = t["right"][z]], t["right"][z], y), {y})

\* y has left its place, and has the right child it will have.
Freed(k, t, z, y, N) ==
  LET p == t.parent[y]
      b == t["right"][z]
      x == t["right"][y]
  IN /\ k \in Trees(N) /\ k.root = t.root /\ k.size = t.size /\ k.red = t.red
     /\ k.parent = [m \in N |-> IF m = x THEN As(z, y, p) ELSE IF m = b /\ p # z THEN y ELSE t.parent[m]]
     /\ k["left"] = [m \in N |-> IF m = p /\ p # z /\ t["left"][p] = y THEN x ELSE t["left"][m]]
     /\ k["right"] = [m \in N |-> IF m = y THEN IF p = z THEN x ELSE b
                                  ELSE IF m = p /\ p # z /\ t["right"][p] = y THEN x ELSE t["right"][m]]
     /\ k.dirty = t.dirty \cup (IF p = z THEN {} ELSE {p, y})

(* Replace's first half.                                                     *)
LEMMA FreedFields ==
  ASSUME NEW N, Nil \notin N, NEW t \in Trees(N), NEW z \in N, NEW y \in N, Between(t, z, y, N)
  PROVE Freed(FreeOf(t, z, y), t, z, y, N)
<1> DEFINE p == t.parent[y]
           b == t["right"][z]
           x == t["right"][y]
<1>1. /\ y # z /\ p \in N /\ p # y /\ b \in N /\ b # z /\ x \in N \cup {Nil} /\ x # z /\ x # y /\ x # b
      /\ (p = z <=> b = y) /\ OneChild(t, y, p) /\ t.parent[b] = z
      /\ \A n \in N : t.parent[n] = y => n = x
  BY DEF Between
<1>2. /\ Nodes(t) = N /\ "left" \in Sides /\ "right" \in Sides /\ Other("right") = "left" /\ y # Nil /\ p # Nil
      /\ t["left"] \in [N -> N \cup {Nil}] /\ t["right"] \in [N -> N \cup {Nil}]
      /\ t.parent \in [N -> N \cup {Nil}]
  BY <1>1, Fields DEF Sides, Other
<1>3. CASE p = z
  <2> DEFINE k == SetParent(t, x, y)
  <2>1. FreeOf(t, z, y) = k
    BY <1>3 DEF FreeOf
  <2>2. k \in Trees(N) /\ ParentSet(k, t, x, y)
    BY <1>1, ParentFields
  <2> HIDE DEF k
  <2>3. /\ k.root = t.root /\ k.size = t.size /\ k.red = t.red /\ k.dirty = t.dirty
        /\ k["left"] = t["left"] /\ k["right"] = t["right"]
        /\ k.parent = [m \in N |-> IF m = x THEN y ELSE t.parent[m]]
    BY <1>2, <2>2 DEF ParentSet, SameBut
  <2>4. t["left"] = [m \in N |-> t["left"][m]] /\ t["right"] = [m \in N |-> t["right"][m]]
    BY <1>2
  <2>5. k["right"] = [m \in N |-> IF m = y THEN IF p = z THEN x ELSE b
                                  ELSE IF m = p /\ p # z /\ t["right"][p] = y THEN x ELSE t["right"][m]]
    BY <1>3, <2>3, <2>4
  <2>6. k["left"] = [m \in N |-> IF m = p /\ p # z /\ t["left"][p] = y THEN x ELSE t["left"][m]]
    BY <1>3, <2>3, <2>4
  <2>7. k.parent = [m \in N |-> IF m = x THEN As(z, y, p) ELSE IF m = b /\ p # z THEN y ELSE t.parent[m]]
    BY <1>3, <2>3 DEF As
  <2> QED
    BY <1>3, <2>1, <2>2, <2>3, <2>5, <2>6, <2>7 DEF Freed
<1>4. CASE p # z
  <2> DEFINE off == transplant(t, y, x)
             j == [off EXCEPT !["right"][y] = b]
             i == SetParent(j, b, y)
             k == Mark(i, {y})
  <2>1. FreeOf(t, z, y) = k
    BY <1>4 DEF FreeOf
  <2>2. /\ off \in Trees(N) /\ off.size = t.size /\ off.red = t.red /\ off.root = t.root
        /\ off.parent = [m \in N |-> IF m = x THEN p ELSE t.parent[m]]
        /\ \A c \in Sides : off[c] = [m \in N |-> IF m = p /\ t[c][p] = y THEN x ELSE t[c][m]]
        /\ off.dirty = t.dirty \cup {p}
    <3>1. OneChild(t, y, t.parent[y]) /\ x \in N \cup {Nil}
      BY <1>1
    <3>2. LET r == transplant(t, y, x)
              q == t.parent[y]
          IN /\ r \in Trees(N) /\ r.size = t.size /\ r.red = t.red
             /\ r.root = IF q = Nil THEN x ELSE t.root
             /\ r.parent = [m \in N |-> IF m = x THEN q ELSE t.parent[m]]
             /\ \A c \in Sides : r[c] = [m \in N |-> IF m = q /\ t[c][q] = y THEN x ELSE t[c][m]]
             /\ r.dirty = t.dirty \cup ({q} \ {Nil})
      <4> HIDE DEF x, p
      <4> QED
        BY <3>1, TransplantFields
    <3> QED
      BY <1>2, <3>2
  <2> HIDE DEF off
  <2>3. j \in Trees(N) /\ ChildSet(j, off, "right", y, b)
    BY <1>1, <1>2, <2>2, ChildFields
  <2> HIDE DEF j
  <2>4. i \in Trees(N) /\ ParentSet(i, j, b, y)
    BY <1>1, <2>3, ParentFields
  <2> HIDE DEF i
  <2>5. k \in Trees(N) /\ SameBut(k, i, i.red, i.parent) /\ k.dirty = i.dirty \cup ({y} \ {Nil})
    BY <2>4, MarkFields
  <2> HIDE DEF k
  <2>6. Nodes(off) = N /\ Nodes(j) = N
    BY <2>2, <2>3, Fields
  <2>7. /\ j.root = t.root /\ j.size = t.size /\ j.red = t.red /\ j.parent = off.parent /\ j.dirty = t.dirty \cup {p}
        /\ j["right"] = [m \in N |-> IF m = y THEN b ELSE off["right"][m]] /\ j["left"] = off["left"]
    BY <1>2, <2>2, <2>3, <2>6 DEF ChildSet
  <2>8. /\ k.root = t.root /\ k.size = t.size /\ k.red = t.red /\ k.dirty = t.dirty \cup {p, y}
        /\ k["right"] = j["right"] /\ k["left"] = j["left"]
        /\ k.parent = [m \in N |-> IF m = b THEN y ELSE off.parent[m]]
    BY <1>2, <2>4, <2>5, <2>6, <2>7 DEF ParentSet, SameBut
  <2>9. k.parent = [m \in N |-> IF m = x THEN As(z, y, p) ELSE IF m = b /\ p # z THEN y ELSE t.parent[m]]
    BY <1>1, <1>4, <2>2, <2>8 DEF As
  <2>10. k["left"] = [m \in N |-> IF m = p /\ p # z /\ t["left"][p] = y THEN x ELSE t["left"][m]]
    BY <1>2, <1>4, <2>2, <2>7, <2>8
  <2>11. k["right"] = [m \in N |-> IF m = y THEN IF p = z THEN x ELSE b
                                   ELSE IF m = p /\ p # z /\ t["right"][p] = y THEN x ELSE t["right"][m]]
    <3>1. off["right"] = [m \in N |-> IF m = p /\ t["right"][p] = y THEN x ELSE t["right"][m]]
      BY <1>2, <2>2
    <3> QED
      BY <1>1, <1>4, <2>7, <2>8, <3>1
  <2> QED
    BY <1>4, <2>1, <2>5, <2>8, <2>9, <2>10, <2>11 DEF Freed
<1> QED
  BY <1>3, <1>4

\* y has taken the place of z in k.
Replaced(v, k, t, z, y, N) ==
  LET pz == t.parent[z]
      a == t["left"][z]
  IN /\ v \in Trees(N) /\ v.root = (IF pz = Nil THEN y ELSE k.root) /\ v.size = k.size
     /\ v.red = (IF z \in k.red THEN k.red \cup {y} ELSE k.red \ {y})
     /\ v.parent = [m \in N |-> IF m = a THEN y ELSE IF m = y THEN pz ELSE k.parent[m]]
     /\ v["left"] = [m \in N |-> IF m = y THEN a ELSE IF m = pz /\ k["left"][pz] = z THEN y ELSE k["left"][m]]
     /\ v["right"] = [m \in N |-> IF m = pz /\ k["right"][pz] = z THEN y ELSE k["right"][m]]
     /\ v.dirty = k.dirty \cup {y} \cup ({pz} \ {Nil})

(* The links of z in the tree that y has left.                               *)
LEMMA FreedLinks ==
  ASSUME NEW N, Nil \notin N, NEW t \in Trees(N), NEW z \in N, NEW y \in N, Between(t, z, y, N),
         NEW k, Freed(k, t, z, y, N)
  PROVE /\ k.parent[z] = t.parent[z] /\ OneChild(k, z, k.parent[z])
        /\ \A m \in N : \A c \in Sides : (k[c][m] = z <=> t[c][m] = z)
<1> DEFINE p == t.parent[y]
           pz == t.parent[z]
           b == t["right"][z]
           x == t["right"][y]
<1>1. /\ y # z /\ p \in N /\ p # y /\ b \in N /\ b # z /\ x \in N \cup {Nil} /\ x # z /\ x # y /\ x # b
      /\ pz \in N \cup {Nil} /\ pz # y /\ OneChild(t, z, pz) /\ t["left"][y] = Nil
  BY DEF Between
<1>2. /\ Nodes(t) = N /\ y # Nil /\ z # Nil
      /\ \A c \in Sides : c = "left" \/ c = "right"
  BY <1>1, Fields DEF Sides
<1>3. /\ k.parent = [m \in N |-> IF m = x THEN As(z, y, p) ELSE IF m = b /\ p # z THEN y ELSE t.parent[m]]
      /\ k["left"] = [m \in N |-> IF m = p /\ p # z /\ t["left"][p] = y THEN x ELSE t["left"][m]]
      /\ k["right"] = [m \in N |-> IF m = y THEN IF p = z THEN x ELSE b
                                   ELSE IF m = p /\ p # z /\ t["right"][p] = y THEN x ELSE t["right"][m]]
  BY DEF Freed
<1>4. k.parent[z] = pz
  BY <1>1, <1>3
<1>5. \A m \in N : k["left"][m] = z <=> t["left"][m] = z
  BY <1>1, <1>3
<1>6. \A m \in N : k["right"][m] = z <=> t["right"][m] = z
  <2>1. t["right"][y] # z
    BY <1>1
  <2> QED
    BY <1>1, <1>3, <2>1
<1>7. \A m \in N : \A c \in Sides : (k[c][m] = z <=> t[c][m] = z)
  BY <1>2, <1>5, <1>6
<1>8. OneChild(k, z, pz)
  BY <1>1, <1>7, TwoSides DEF OneChild
<1> QED
  BY <1>4, <1>7, <1>8

(* Replace's second half.                                                    *)
LEMMA ReplaceFields ==
  ASSUME NEW N, Nil \notin N, NEW t \in Trees(N), NEW z \in N, NEW y \in N, Between(t, z, y, N)
  PROVE Replaced(Replace(t, z, y), FreeOf(t, z, y), t, z, y, N)
<1> DEFINE pz == t.parent[z]
           a == t["left"][z]
           k == FreeOf(t, z, y)
           placed == transplant(k, z, y)
           j == [placed EXCEPT !["left"][y] = a]
           i == SetParent(j, a, y)
           red == IF z \in t.red THEN i.red \cup {y} ELSE i.red \ {y}
           c == [i EXCEPT !.red = red]
           v == Mark(c, {y})
<1>1. /\ y # z /\ a \in N /\ a # y /\ pz \in N \cup {Nil} /\ pz # y
  BY DEF Between
<1>2. /\ Nodes(t) = N /\ "left" \in Sides /\ "right" \in Sides /\ Other("left") = "right" /\ y # Nil
  BY <1>1, Fields DEF Sides, Other
<1>3. Replace(t, z, y) = v
  BY DEF Replace, FreeOf, Colour, IsRed
<1>4. Freed(k, t, z, y, N)
  BY FreedFields
<1> HIDE DEF k
<1>5. k \in Trees(N) /\ k.red = t.red /\ k.size = t.size /\ k.root = t.root
  BY <1>4 DEF Freed
<1>6. k.parent[z] = pz /\ OneChild(k, z, k.parent[z])
  BY <1>4, FreedLinks
<1>7. /\ placed \in Trees(N) /\ placed.size = k.size /\ placed.red = k.red
      /\ placed.root = IF pz = Nil THEN y ELSE k.root
      /\ placed.parent = [m \in N |-> IF m = y THEN pz ELSE k.parent[m]]
      /\ \A e \in Sides : placed[e] = [m \in N |-> IF m = pz /\ k[e][pz] = z THEN y ELSE k[e][m]]
      /\ placed.dirty = k.dirty \cup ({pz} \ {Nil})
  <2>1. LET r == transplant(k, z, y)
            q == k.parent[z]
        IN /\ r \in Trees(N) /\ r.size = k.size /\ r.red = k.red
           /\ r.root = IF q = Nil THEN y ELSE k.root
           /\ r.parent = [m \in N |-> IF m = y THEN q ELSE k.parent[m]]
           /\ \A e \in Sides : r[e] = [m \in N |-> IF m = q /\ k[e][q] = z THEN y ELSE k[e][m]]
           /\ r.dirty = k.dirty \cup ({q} \ {Nil})
    <3>1. y \in N \cup {Nil} /\ OneChild(k, z, k.parent[z])
      BY <1>6
    <3> HIDE DEF pz, a
    <3> QED
      BY <1>5, <3>1, TransplantFields
  <2> HIDE DEF pz
  <2> QED
    BY <1>6, <2>1
<1> HIDE DEF placed
<1>8. j \in Trees(N) /\ ChildSet(j, placed, "left", y, a)
  BY <1>1, <1>2, <1>7, ChildFields
<1> HIDE DEF j
<1>9. i \in Trees(N) /\ ParentSet(i, j, a, y)
  BY <1>1, <1>8, ParentFields
<1> HIDE DEF i
<1>10. red \subseteq N
  BY <1>9, Fields
<1>11. c \in Trees(N) /\ SameBut(c, i, red, i.parent) /\ c.dirty = i.dirty
  <2> HIDE DEF red
  <2> QED
    BY <1>9, <1>10, ColourFields
<1> HIDE DEF c
<1>12. v \in Trees(N) /\ SameBut(v, c, c.red, c.parent) /\ v.dirty = c.dirty \cup ({y} \ {Nil})
  BY <1>1, <1>11, MarkFields
<1> HIDE DEF v
<1>13. Nodes(placed) = N /\ Nodes(j) = N /\ Nodes(i) = N
  BY <1>7, <1>8, <1>9, Fields
<1>14. /\ j.root = placed.root /\ j.size = placed.size /\ j.red = placed.red /\ j.parent = placed.parent
       /\ j.dirty = placed.dirty /\ j["right"] = placed["right"]
       /\ j["left"] = [m \in N |-> IF m = y THEN a ELSE placed["left"][m]]
  BY <1>2, <1>8, <1>13 DEF ChildSet
<1>15. /\ i.root = j.root /\ i.size = j.size /\ i.red = j.red /\ i.dirty = j.dirty
       /\ i["right"] = j["right"] /\ i["left"] = j["left"]
       /\ i.parent = [m \in N |-> IF m = a THEN y ELSE j.parent[m]]
  BY <1>2, <1>9, <1>13 DEF ParentSet, SameBut
<1>16. /\ v.root = i.root /\ v.size = i.size /\ v.red = red /\ v.dirty = i.dirty \cup {y}
       /\ v["right"] = i["right"] /\ v["left"] = i["left"] /\ v.parent = i.parent
  BY <1>2, <1>11, <1>12 DEF SameBut
<1>17. v.red = IF z \in k.red THEN k.red \cup {y} ELSE k.red \ {y}
  BY <1>5, <1>7, <1>14, <1>15, <1>16
<1>18. v.parent = [m \in N |-> IF m = a THEN y ELSE IF m = y THEN pz ELSE k.parent[m]]
  BY <1>1, <1>7, <1>14, <1>15, <1>16
<1>19. v["left"] = [m \in N |-> IF m = y THEN a ELSE IF m = pz /\ k["left"][pz] = z THEN y ELSE k["left"][m]]
  <2>1. placed["left"] = [m \in N |-> IF m = pz /\ k["left"][pz] = z THEN y ELSE k["left"][m]]
    BY <1>2, <1>7
  <2> HIDE DEF a, pz
  <2> QED
    BY <2>1, <1>14, <1>15, <1>16
<1>20. v["right"] = [m \in N |-> IF m = pz /\ k["right"][pz] = z THEN y ELSE k["right"][m]]
  BY <1>2, <1>7, <1>14, <1>15, <1>16
<1>21. v.dirty = k.dirty \cup {y} \cup ({pz} \ {Nil})
  BY <1>7, <1>14, <1>15, <1>16
<1>22. v.root = (IF pz = Nil THEN y ELSE k.root) /\ v.size = k.size
  BY <1>7, <1>14, <1>15, <1>16
<1>23. Replaced(v, k, t, z, y, N)
  BY <1>12, <1>17, <1>18, <1>19, <1>20, <1>21, <1>22 DEF Replaced
<1> QED
  BY <1>3, <1>23 DEF k

\* The tree that Delete fixes up when z has two children.
Swap(t, z, y) == Drop(Replace(t, z, y), z)

\* The fields of v, once y has taken the place of z, in terms of t alone.
Swapped(v, t, z, y, N) ==
  LET p == t.parent[y]
      pz == t.parent[z]
      a == t["left"][z]
      b == t["right"][z]
      x == t["right"][y]
  IN /\ v.root = (IF pz = Nil THEN y ELSE t.root)
     /\ \A m \in N \ {z} :
          /\ v.parent[m] = (IF m = y THEN pz ELSE IF m \in {a, b} THEN y
                            ELSE IF m = x THEN As(z, y, p) ELSE t.parent[m])
          /\ v["left"][m] = (IF m = y THEN a ELSE IF t["left"][m] = z THEN y
                             ELSE IF t["left"][m] = y THEN x ELSE t["left"][m])
          /\ v["right"][m] = (IF m = y THEN IF p = z THEN x ELSE b ELSE IF t["right"][m] = z THEN y
                              ELSE IF t["right"][m] = y THEN x ELSE t["right"][m])

(* What Replace leaves, but for what the node it takes out holds.            *)
LEMMA SwappedFields ==
  ASSUME NEW N, Nil \notin N, NEW t \in Trees(N), NEW z \in N, NEW y \in N, Between(t, z, y, N),
         NEW k, Freed(k, t, z, y, N), NEW v, Replaced(v, k, t, z, y, N)
  PROVE Swapped(v, t, z, y, N)
<1> DEFINE p == t.parent[y]
           pz == t.parent[z]
           a == t["left"][z]
           b == t["right"][z]
           x == t["right"][y]
<1>1. /\ y # z /\ p \in N /\ p # y /\ b \in N /\ b # z /\ x \in N \cup {Nil} /\ x # z /\ x # y /\ x # b /\ x # a
      /\ a \in N /\ a # y /\ a # b /\ a # z /\ (p = z <=> b = y) /\ t["left"][y] = Nil
      /\ pz \in N \cup {Nil} /\ pz # y
      /\ \A n \in N : (t["left"][n] = z => n = pz) /\ (t["left"][n] = y => n = p)
      /\ \A n \in N : (t["right"][n] = z => n = pz) /\ (t["right"][n] = y => n = p)
  BY DEF Between, Sides
<1>2. "left" \in Sides /\ "right" \in Sides /\ z # Nil /\ y # Nil
  BY <1>1 DEF Sides
<1>3. /\ k.root = t.root
      /\ k.parent = [m \in N |-> IF m = x THEN As(z, y, p) ELSE IF m = b /\ p # z THEN y ELSE t.parent[m]]
      /\ k["left"] = [m \in N |-> IF m = p /\ p # z /\ t["left"][p] = y THEN x ELSE t["left"][m]]
      /\ k["right"] = [m \in N |-> IF m = y THEN IF p = z THEN x ELSE b
                                   ELSE IF m = p /\ p # z /\ t["right"][p] = y THEN x ELSE t["right"][m]]
  BY DEF Freed
<1>4. /\ v.root = (IF pz = Nil THEN y ELSE k.root)
      /\ v.parent = [m \in N |-> IF m = a THEN y ELSE IF m = y THEN pz ELSE k.parent[m]]
      /\ v["left"] = [m \in N |-> IF m = y THEN a ELSE IF m = pz /\ k["left"][pz] = z THEN y ELSE k["left"][m]]
      /\ v["right"] = [m \in N |-> IF m = pz /\ k["right"][pz] = z THEN y ELSE k["right"][m]]
  BY DEF Replaced
<1>5. \A m \in N : (k["left"][m] = z <=> t["left"][m] = z) /\ (k["right"][m] = z <=> t["right"][m] = z)
  BY <1>2, FreedLinks
<1>6. ASSUME NEW m \in N \ {z}
      PROVE v.parent[m] = (IF m = y THEN pz ELSE IF m \in {a, b} THEN y
                           ELSE IF m = x THEN As(z, y, p) ELSE t.parent[m])
  <2>1. v.parent[m] = (IF m = a THEN y ELSE IF m = y THEN pz
                       ELSE IF m = x THEN As(z, y, p) ELSE IF m = b /\ p # z THEN y ELSE t.parent[m])
    <3>1. k.parent[m] = IF m = x THEN As(z, y, p) ELSE IF m = b /\ p # z THEN y ELSE t.parent[m]
      BY <1>3
    <3>2. v.parent[m] = IF m = a THEN y ELSE IF m = y THEN pz ELSE k.parent[m]
      BY <1>4
    <3> HIDE DEF p, pz, a, b, x
    <3> QED
      BY <3>1, <3>2
  <2> HIDE DEF p, pz, a, b, x
  <2> QED
    BY <1>1, <2>1
<1>7. ASSUME NEW m \in N \ {z}
      PROVE v["left"][m] = (IF m = y THEN a ELSE IF t["left"][m] = z THEN y
                            ELSE IF t["left"][m] = y THEN x ELSE t["left"][m])
  <2>1. k["left"][m] = (IF m = p /\ p # z /\ t["left"][p] = y THEN x ELSE t["left"][m])
    BY <1>3
  <2>2. v["left"][m] = (IF m = y THEN a ELSE IF m = pz /\ k["left"][pz] = z THEN y ELSE k["left"][m])
    BY <1>4
  <2>3. m = pz /\ k["left"][pz] = z <=> t["left"][m] = z
    BY <1>1, <1>5
  <2>4. m = p /\ p # z /\ t["left"][p] = y <=> t["left"][m] = y
    BY <1>1
  <2> HIDE DEF p, pz, a, b, x
  <2> QED
    BY <2>1, <2>2, <2>3, <2>4
<1>8. ASSUME NEW m \in N \ {z}
      PROVE v["right"][m] = (IF m = y THEN IF p = z THEN x ELSE b ELSE IF t["right"][m] = z THEN y
                             ELSE IF t["right"][m] = y THEN x ELSE t["right"][m])
  <2>1. k["right"][m] = (IF m = y THEN IF p = z THEN x ELSE b
                         ELSE IF m = p /\ p # z /\ t["right"][p] = y THEN x ELSE t["right"][m])
    BY <1>3
  <2>2. v["right"][m] = (IF m = pz /\ k["right"][pz] = z THEN y ELSE k["right"][m])
    BY <1>4
  <2>3. m = pz /\ k["right"][pz] = z <=> t["right"][m] = z
    BY <1>1, <1>5
  <2>4. m = p /\ p # z /\ t["right"][p] = y <=> t["right"][m] = y
    BY <1>1
  <2>5. m = y => t["right"][m] # z
    BY <1>1
  <2> HIDE DEF p, pz, a, b, x
  <2> QED
    BY <2>1, <2>2, <2>3, <2>4, <2>5
<1>9. v.root = (IF pz = Nil THEN y ELSE t.root)
  BY <1>3, <1>4
<1> QED
  BY <1>6, <1>7, <1>8, <1>9 DEF Swapped

(* No link leads to the node that y has replaced.                            *)
LEMMA SwappedLoose ==
  ASSUME NEW N, Nil \notin N, NEW t \in Trees(N), NEW z \in N, NEW y \in N, Between(t, z, y, N),
         NEW v \in Trees(N), Swapped(v, t, z, y, N)
  PROVE Loose(v, z)
<1> DEFINE p == t.parent[y]
           pz == t.parent[z]
           a == t["left"][z]
           b == t["right"][z]
           x == t["right"][y]
<1>1. /\ y # z /\ b # z /\ x # z /\ a # z /\ pz # z /\ (pz = Nil <=> t.root = z)
      /\ \A n \in N : t.parent[n] = z => n = a \/ n = b
  BY DEF Between
<1>2. Nodes(v) = N /\ \A c \in Sides : c = "left" \/ c = "right"
  BY Fields DEF Sides
<1>3. v.root # z
  BY <1>1 DEF Swapped
<1>4. ASSUME NEW m \in N \ {z} PROVE v.parent[m] # z
  <2>1. v.parent[m] = (IF m = y THEN pz ELSE IF m \in {a, b} THEN y
                       ELSE IF m = x THEN As(z, y, p) ELSE t.parent[m])
    BY DEF Swapped
  <2> HIDE DEF pz, a, b, x
  <2> QED
    BY <1>1, <2>1 DEF As
<1>5. ASSUME NEW m \in N \ {z} PROVE v["left"][m] # z /\ v["right"][m] # z
  BY <1>1 DEF Swapped
<1> QED
  BY <1>2, <1>3, <1>4, <1>5 DEF Loose

(* The tree with y in the place of z is the one without y, with y for z.     *)
LEMMA SwappedRenamed ==
  ASSUME NEW N, Nil \notin N, NEW t \in Trees(N), NEW z \in N, NEW y \in N, Between(t, z, y, N),
         NEW v \in Trees(N), Swapped(v, t, z, y, N), NEW r \in Trees(N \ {z}), Dropped(r, v, z),
         NEW s \in Trees(N \ {y}), CutOut(s, t, y, t["right"][y])
  PROVE Renamed(r, s, z, y)
<1> DEFINE p == t.parent[y]
           pz == t.parent[z]
           a == t["left"][z]
           b == t["right"][z]
           x == t["right"][y]
           K == N \ {z}
<1>1. /\ y # z /\ p \in N /\ p # y /\ b \in N /\ b # z /\ x \in N \cup {Nil} /\ x # z /\ x # y /\ x # b /\ x # a
      /\ a \in N /\ a # y /\ a # b /\ a # z /\ (p = z <=> b = y) /\ t["left"][y] = Nil
      /\ pz \in N \cup {Nil} /\ pz # y /\ pz # z /\ t.parent[a] = z /\ t.parent[b] = z
      /\ (pz = Nil <=> t.root = z)
      /\ \A n \in N : (t["left"][n] = z => n = pz) /\ (t["left"][n] = y => n = p)
      /\ \A n \in N : (t["right"][n] = z => n = pz) /\ (t["right"][n] = y => n = p)
      /\ \A n \in N : t.parent[n] = z => n = a \/ n = b
  BY DEF Between, Sides
<1>2. /\ Nodes(t) = N /\ Nodes(v) = N /\ Nodes(s) = N \ {y} /\ z # Nil /\ y # Nil
      /\ "left" \in Sides /\ "right" \in Sides /\ \A c \in Sides : c = "left" \/ c = "right"
  BY <1>1, Fields DEF Sides
<1>3. (Nodes(s) \ {z}) \cup {y} = K
  BY <1>1, <1>2
<1>4. /\ s.root = t.root
      /\ s.parent = [m \in N \ {y} |-> IF m = x THEN p ELSE t.parent[m]]
      /\ s["left"] = [m \in N \ {y} |-> IF m = p /\ t["left"][p] = y THEN x ELSE t["left"][m]]
      /\ s["right"] = [m \in N \ {y} |-> IF m = p /\ t["right"][p] = y THEN x ELSE t["right"][m]]
  <2>1. p # Nil
    BY <1>1
  <2> QED
    BY <1>2, <2>1 DEF CutOut
<1>5. /\ r.root = v.root /\ r.parent = [m \in K |-> v.parent[m]]
      /\ r["left"] = [m \in K |-> v["left"][m]] /\ r["right"] = [m \in K |-> v["right"][m]]
  BY <1>2 DEF Dropped
<1>6. r.root = As(z, y, s.root)
  BY <1>1, <1>4, <1>5 DEF Swapped, As
<1>7. ASSUME NEW m \in K PROVE v.parent[m] = As(z, y, s.parent[As(y, z, m)])
  <2>1. v.parent[m] = (IF m = y THEN pz ELSE IF m \in {a, b} THEN y
                       ELSE IF m = x THEN As(z, y, p) ELSE t.parent[m])
    BY DEF Swapped
  <2>2. CASE m = y
    <3>1. As(y, z, m) = z /\ s.parent[z] = pz
      BY <1>1, <1>4, <2>2 DEF As
    <3> QED
      BY <1>1, <2>1, <2>2, <3>1 DEF As
  <2>3. CASE m # y
    <3>1. As(y, z, m) = m /\ s.parent[m] = IF m = x THEN p ELSE t.parent[m]
      BY <1>1, <1>4, <2>3 DEF As
    <3> HIDE DEF p, pz, a, b, x
    <3> QED
      BY <1>1, <2>1, <2>3, <3>1 DEF As
  <2> QED
    BY <2>2, <2>3
<1>8. ASSUME NEW m \in K PROVE v["left"][m] = As(z, y, s["left"][As(y, z, m)])
  <2>1. v["left"][m] = (IF m = y THEN a ELSE IF t["left"][m] = z THEN y
                        ELSE IF t["left"][m] = y THEN x ELSE t["left"][m])
    BY DEF Swapped
  <2>2. CASE m = y
    <3>1. As(y, z, m) = z /\ s["left"][z] = a
      BY <1>1, <1>4, <2>2 DEF As
    <3> QED
      BY <1>1, <2>1, <2>2, <3>1 DEF As
  <2>3. CASE m # y
    <3>1. As(y, z, m) = m /\ s["left"][m] = IF t["left"][m] = y THEN x ELSE t["left"][m]
      BY <1>1, <1>4, <2>3 DEF As
    <3> HIDE DEF p, pz, a, b, x
    <3> QED
      BY <1>1, <2>1, <2>3, <3>1 DEF As
  <2> QED
    BY <2>2, <2>3
<1>9. ASSUME NEW m \in K PROVE v["right"][m] = As(z, y, s["right"][As(y, z, m)])
  <2>1. v["right"][m] = (IF m = y THEN IF p = z THEN x ELSE b ELSE IF t["right"][m] = z THEN y
                         ELSE IF t["right"][m] = y THEN x ELSE t["right"][m])
    BY DEF Swapped
  <2>2. CASE m = y
    <3>1. As(y, z, m) = z /\ s["right"][z] = IF p = z THEN x ELSE b
      BY <1>1, <1>4, <2>2 DEF As
    <3> QED
      BY <1>1, <2>1, <2>2, <3>1 DEF As
  <2>3. CASE m # y
    <3>1. As(y, z, m) = m /\ s["right"][m] = IF t["right"][m] = y THEN x ELSE t["right"][m]
      BY <1>1, <1>4, <2>3 DEF As
    <3> HIDE DEF p, pz, a, b, x
    <3> QED
      BY <1>1, <2>1, <2>3, <3>1 DEF As
  <2> QED
    BY <2>2, <2>3
<1>10. r.parent = [m \in K |-> As(z, y, s.parent[As(y, z, m)])]
  <2> HIDE DEF K
  <2> QED
    BY <1>5, <1>7
<1>11. r["left"] = [m \in K |-> As(z, y, s["left"][As(y, z, m)])]
  <2> HIDE DEF K
  <2> QED
    BY <1>5, <1>8
<1>12. r["right"] = [m \in K |-> As(z, y, s["right"][As(y, z, m)])]
  <2> HIDE DEF K
  <2> QED
    BY <1>5, <1>9
<1>13. \A c \in Sides : r[c] = [m \in K |-> As(z, y, s[c][As(y, z, m)])]
  <2>1. SUFFICES ASSUME NEW c \in Sides PROVE r[c] = [m \in K |-> As(z, y, s[c][As(y, z, m)])]
    OBVIOUS
  <2>2. CASE c = "left"
    BY <1>11, <2>2
  <2>3. CASE c = "right"
    BY <1>12, <2>3
  <2> QED
    BY <1>2, <2>2, <2>3
<1> HIDE DEF K
<1> QED
  BY <1>3, <1>6, <1>10, <1>13 DEF Renamed

\* What Swap leaves: s without y, with y for z.
SwappedOut(r, t, s, z, y) ==
  /\ Renamed(r, s, z, y) /\ Recoloured(r, s, z, y) /\ r.size = t.size - 1 /\ MarkedLess(t, r, z)

(* Replace and the end of z.                                                 *)
LEMMA SwapFields ==
  ASSUME NEW N, Nil \notin N, NEW t \in Trees(N), NEW z \in N, NEW y \in N, Between(t, z, y, N), t.size # 0,
         NEW s \in Trees(N \ {y}), TakenOut(s, t, y, t["right"][y])
  PROVE Swap(t, z, y) \in Trees(N \ {z}) /\ SwappedOut(Swap(t, z, y), t, s, z, y)
<1> DEFINE p == t.parent[y]
           pz == t.parent[z]
           a == t["left"][z]
           b == t["right"][z]
           x == t["right"][y]
           K == N \ {z}
           k == FreeOf(t, z, y)
           v == Replace(t, z, y)
           r == Swap(t, z, y)
<1>1. Freed(k, t, z, y, N) /\ Replaced(v, k, t, z, y, N)
  BY FreedFields, ReplaceFields
<1> HIDE DEF k, v
<1>2. v \in Trees(N) /\ Swapped(v, t, z, y, N)
  <2>1. v \in Trees(N)
    BY <1>1 DEF Replaced
  <2> QED
    BY <1>1, <2>1, SwappedFields
<1>3. Loose(v, z)
  BY <1>2, SwappedLoose
<1>4. /\ v.size = t.size /\ v.red = (IF z \in t.red THEN t.red \cup {y} ELSE t.red \ {y})
      /\ v.dirty = t.dirty \cup (IF p = z THEN {} ELSE {p, y}) \cup {y} \cup ({pz} \ {Nil})
  BY <1>1 DEF Freed, Replaced
<1>5. r \in Trees(K) /\ Dropped(r, v, z)
  <2>1. v.size # 0
    BY <1>4
  <2>2. r = Drop(v, z)
    BY DEF Swap, v
  <2> QED
    BY <1>2, <1>3, <2>1, <2>2, DropFields
<1> HIDE DEF r
<1>6. /\ Nodes(t) = N /\ Nodes(v) = N /\ Nodes(r) = K /\ Nodes(s) = N \ {y}
      /\ "left" \in Sides /\ "right" \in Sides /\ \A c \in Sides : c = "left" \/ c = "right"
  BY <1>2, <1>5, Fields DEF Sides
<1>7. /\ y # z /\ p \in N /\ pz \in N \cup {Nil} /\ y # Nil
      /\ \A n \in N : (t["left"][n] = z => n = pz) /\ (t["left"][n] = y => n = p)
      /\ \A n \in N : (t["right"][n] = z => n = pz) /\ (t["right"][n] = y => n = p)
  BY DEF Between, Sides
<1>8. Renamed(r, s, z, y)
  BY <1>2, <1>5, SwappedRenamed DEF TakenOut
<1>9. r.red = v.red \ {z} /\ r.dirty = v.dirty \ {z} /\ r.size = t.size - 1
      /\ r["left"] = [m \in K |-> v["left"][m]] /\ r["right"] = [m \in K |-> v["right"][m]]
  BY <1>4, <1>5, <1>6 DEF Dropped
<1>10. Recoloured(r, s, z, y)
  <2>1. s.red = t.red \ {y}
    BY DEF TakenOut
  <2>2. SUFFICES ASSUME NEW m \in K PROVE m \in r.red <=> As(y, z, m) \in s.red
    BY <1>6 DEF Recoloured
  <2>3. CASE m = y
    <3>1. As(y, z, m) = z
      BY <2>3 DEF As
    <3> QED
      BY <1>4, <1>7, <1>9, <2>1, <2>3, <3>1
  <2>4. CASE m # y
    <3>1. As(y, z, m) = m
      BY <2>4 DEF As
    <3> QED
      BY <1>4, <1>7, <1>9, <2>1, <2>4, <3>1
  <2> QED
    BY <2>3, <2>4
<1>11. t.dirty \ {z} \subseteq r.dirty
  BY <1>4, <1>9
<1>12. ASSUME NEW n \in K, n \notin r.dirty
       PROVE r["left"][n] = t["left"][n] /\ r["right"][n] = t["right"][n] /\ (n \in r.red <=> n \in t.red)
  <2>1. n # y /\ n # pz /\ n # p
    BY <1>4, <1>7, <1>9, <1>12
  <2>2. /\ t["left"][n] # z /\ t["left"][n] # y /\ t["right"][n] # z /\ t["right"][n] # y
    BY <1>7, <2>1
  <2>3. v["left"][n] = t["left"][n] /\ v["right"][n] = t["right"][n]
    BY <1>2, <2>1, <2>2 DEF Swapped
  <2> QED
    BY <1>4, <1>9, <2>1, <2>3
<1>13. MarkedLess(t, r, z)
  BY <1>6, <1>11, <1>12 DEF MarkedLess
<1>14. SwappedOut(r, t, s, z, y)
  BY <1>8, <1>9, <1>10, <1>13 DEF SwappedOut
<1> QED
  BY <1>5, <1>14 DEF r

(* The places close up at that of z, for that of y is the next.              *)
LEMMA SwapLaid ==
  ASSUME NEW N, Nil \notin N, NEW t \in Trees(N), NEW pos, NEW edge, NEW end, Laid(t, pos, edge, end),
         Placed(t, pos, edge), NEW z \in N, NEW y \in N, y # z, pos[y] = pos[z] + 1, t["left"][y] = Nil,
         NEW s \in Trees(N \ {y}), CutOut(s, t, y, t["right"][y]),
         NEW r \in Trees(N \ {z}), Renamed(r, s, z, y)
  PROVE \E new : Laid(r, PosLess(pos, N \ {z}, pos[z]), EdgeLess(edge), new)
<1> DEFINE M == N \ {y}
           low == PosLess(pos, M, pos[y])
<1>1. "left" \in Sides /\ Other("left") = "right" /\ Nodes(t) = N /\ y # Nil /\ z # Nil
  BY Fields DEF Sides, Other
<1>2. \E end2 : Laid(s, low, EdgeLess(edge), end2)
  BY <1>1, CutLaid
<1>3. PICK end2 : Laid(s, low, EdgeLess(edge), end2)
  BY <1>2
<1>4. (M \ {z}) \cup {y} = N \ {z} /\ z \in M /\ y \notin M /\ Nil \notin M
  OBVIOUS
<1>5. \E new : Laid(r, Moved(low, M, z, y), EdgeLess(edge), new)
  <2> HIDE DEF low, M
  <2> QED
    BY <1>1, <1>3, <1>4, RenameLaid DEF M
<1>6. Moved(low, M, z, y) = PosLess(pos, N \ {z}, pos[z])
  <2>1. \A n \in N : pos[n] \in Int
    BY <1>1 DEF Laid
  <2>2. \A m, n \in N : pos[m] = pos[n] => m = n
    BY <1>1 DEF Placed
  <2>3. ASSUME NEW m \in N \ {z} PROVE low[As(y, z, m)] = Close(pos[z], pos[m])
    <3>1. CASE m = y
      <4>1. low[As(y, z, m)] = Close(pos[y], pos[z])
        BY <3>1 DEF As, PosLess
      <4> QED
        BY <2>1, <3>1, <4>1 DEF Close
    <3>2. CASE m # y
      <4>1. low[As(y, z, m)] = Close(pos[y], pos[m])
        BY <3>2 DEF As, PosLess
      <4>2. pos[m] # pos[y] /\ pos[m] # pos[z] /\ pos[m] \in Int /\ pos[y] \in Int /\ pos[z] \in Int
        BY <2>1, <2>2, <3>2
      <4> QED
        BY <4>1, <4>2 DEF Close
    <3> QED
      BY <3>1, <3>2
  <2>4. Moved(low, M, z, y) = [m \in N \ {z} |-> low[As(y, z, m)]]
    BY <1>4 DEF Moved
  <2> HIDE DEF low, M
  <2> QED
    BY <2>3, <2>4 DEF PosLess
<1> QED
  BY <1>5, <1>6

\* The child that Delete puts in the place of y.
Child(t, z) ==
  LET y == Spliced(t, z)
  IN IF y = z /\ t["left"][z] # Nil THEN t["left"][z] ELSE t["right"][y]

\* The tree that Delete fixes up.
Cut(t, z) ==
  LET y == Spliced(t, z)
  IN Drop(IF y = z THEN transplant(t, z, Child(t, z)) ELSE Replace(t, z, y), z)

\* Whether y and what it leaves have the colours the fixup is for.
CutOwing(r, t, z) ==
  LET x == Child(t, z)
  IN IF Spliced(t, z) \in t.red THEN EvenBlack(r)
     ELSE WrongParent(t, z) \/ Owing(r, x, ParentOf(r, x, FixupParent(t, z)))

\* What Delete leaves for the fixup.
CutAway(r, t, z, pos, edge) ==
  LET K == Nodes(t) \ {z}
  IN /\ r \in Trees(K) /\ r.size = t.size - 1 /\ MarkedLess(t, r, z)
     /\ \E new : Laid(r, PosLess(pos, K, pos[z]), EdgeLess(edge), new)
     /\ Child(t, z) \in K \cup {Nil} /\ FixupParent(t, z) \in K \cup {Nil}
     /\ EvenBlack(t) => CutOwing(r, t, z)

(* Delete of a node with at most one child.                                  *)
LEMMA CutAwayOne ==
  ASSUME NEW N, Nil \notin N, NEW t \in Trees(N), NEW pos, NEW edge, NEW end, Laid(t, pos, edge, end),
         Placed(t, pos, edge), t.size # 0, NEW z \in N, t["left"][z] = Nil \/ t["right"][z] = Nil
  PROVE CutAway(Cut(t, z), t, z, pos, edge)
<1> DEFINE c == IF t["left"][z] = Nil THEN "left" ELSE "right"
           x == t[Other(c)][z]
           r == Cut(t, z)
           K == N \ {z}
           p == t.parent[z]
<1>1. /\ Nodes(t) = N /\ c \in Sides /\ Other("left") = "right" /\ Other("right") = "left"
      /\ t[c][z] = Nil /\ x \in N \cup {Nil} /\ p \in N \cup {Nil} /\ z # Nil
  BY Fields DEF Sides, Other
<1>2. Spliced(t, z) = z
  BY DEF Spliced
<1>3. Child(t, z) = x
  BY <1>1, <1>2 DEF Child
<1>4. r = Drop(transplant(t, z, x), z)
  BY <1>2, <1>3 DEF Cut
<1>5. x # z /\ p # z
  <2>1. x # Nil => x # z
    BY <1>1, TwoSides, ChildBeyond
  <2> QED
    BY <1>1, <2>1, OneParent
<1>6. FixupParent(t, z) = p
  BY DEF FixupParent
<1>7. ~WrongParent(t, z)
  BY <1>2 DEF WrongParent
<1> HIDE DEF c, r
<1>8. r \in Trees(K) /\ TakenOut(r, t, z, x)
  <2>1. LET q == Drop(transplant(t, z, x), z)
        IN q \in Trees(N \ {z}) /\ TakenOut(q, t, z, x)
    BY <1>1, CutFields
  <2> QED
    BY <1>4, <2>1
<1> HIDE DEF x
<1>9. CutOut(r, t, z, x) /\ r.size = t.size - 1 /\ r.red = t.red \ {z} /\ MarkedLess(t, r, z)
  BY <1>8 DEF TakenOut
<1>10. \E new : Laid(r, PosLess(pos, N \ {z}, pos[z]), EdgeLess(edge), new)
  BY <1>1, <1>8, <1>9, CutLaid DEF x
<1>11. ASSUME EvenBlack(t) PROVE CutOwing(r, t, z)
  <2>1. PICK h : BlackRed(t, h, Nil)
    BY <1>11 DEF EvenBlack
  <2>2. IF z \in t.red THEN EvenBlack(r) ELSE Owing(r, x, p)
    BY <1>1, <1>8, <1>9, <2>1, CutColours DEF x
  <2>3. x # Nil => r.parent[x] = p
    BY <1>1, <1>5, <1>9 DEF CutOut
  <2>4. ParentOf(r, x, FixupParent(t, z)) = p
    BY <1>6, <2>3 DEF ParentOf
  <2> QED
    BY <1>2, <1>3, <2>2, <2>4 DEF CutOwing
<1> QED
  BY <1>1, <1>3, <1>5, <1>6, <1>8, <1>9, <1>10, <1>11 DEF CutAway, r

(* Delete of a node with two children.                                       *)
LEMMA CutAwayTwo ==
  ASSUME NEW N, Nil \notin N, NEW t \in Trees(N), NEW pos, NEW edge, NEW end, Laid(t, pos, edge, end),
         Placed(t, pos, edge), t.size # 0, NEW z \in N, t["left"][z] # Nil, t["right"][z] # Nil
  PROVE CutAway(Cut(t, z), t, z, pos, edge)
<1> DEFINE y == minimum(t, t["right"][z])
           x == t["right"][y]
           p == t.parent[y]
           s == Drop(transplant(t, y, x), y)
           r == Cut(t, z)
           K == N \ {z}
           M == N \ {y}
<1>1. pos[y] = pos[z] + 1 /\ Between(t, z, y, N)
  BY BetweenFacts
<1>2. /\ Nodes(t) = N /\ "left" \in Sides /\ Other("left") = "right" /\ z # Nil
      /\ t.parent \in [N -> N \cup {Nil}]
  BY Fields DEF Sides, Other
<1>3. Spliced(t, z) = y
  BY DEF Spliced
<1>4. FixupParent(t, z) = (IF p = z /\ x = Nil THEN y ELSE t.parent[z])
  BY DEF FixupParent
<1> HIDE DEF y
<1>5. /\ y \in N /\ y # z /\ y # Nil /\ t["left"][y] = Nil /\ p \in N /\ p # y /\ t.parent[z] \in N \cup {Nil}
      /\ t.parent[z] # z /\ x \in N \cup {Nil} /\ x # z /\ x # y
  BY <1>1 DEF Between
<1>6. Child(t, z) = x
  BY <1>3, <1>5 DEF Child
<1>7. r = Swap(t, z, y)
  BY <1>3, <1>5 DEF Cut, Swap
<1> HIDE DEF r, s
<1>8. s \in Trees(M) /\ TakenOut(s, t, y, x)
  <2>1. LET q == Drop(transplant(t, y, x), y)
        IN q \in Trees(N \ {y}) /\ TakenOut(q, t, y, x)
    BY <1>2, <1>5, CutFields
  <2> QED
    BY <2>1 DEF s
<1>9. r \in Trees(K) /\ SwappedOut(r, t, s, z, y)
  BY <1>1, <1>5, <1>7, <1>8, SwapFields
<1>10. CutOut(s, t, y, x) /\ s.red = t.red \ {y}
  BY <1>8 DEF TakenOut
<1>11. Renamed(r, s, z, y) /\ Recoloured(r, s, z, y) /\ r.size = t.size - 1 /\ MarkedLess(t, r, z)
  BY <1>9 DEF SwappedOut
<1>12. \E new : Laid(r, PosLess(pos, N \ {z}, pos[z]), EdgeLess(edge), new)
  BY <1>1, <1>5, <1>8, <1>9, <1>10, <1>11, SwapLaid
<1>13. ASSUME EvenBlack(t) PROVE CutOwing(r, t, z)
  <2>1. PICK h : BlackRed(t, h, Nil)
    BY <1>13 DEF EvenBlack
  <2>2. IF y \in t.red THEN EvenBlack(s) ELSE Owing(s, x, p)
    BY <1>2, <1>5, <1>8, <1>10, <2>1, CutColours
  <2>3. Nil \notin M /\ z \in M /\ y \notin M /\ (M \ {z}) \cup {y} = K /\ x \in M \cup {Nil} /\ p \in M \cup {Nil}
    BY <1>5
  <2>4. /\ EvenBlack(s) => EvenBlack(r)
        /\ \A xx \in M \cup {Nil}, pp \in M \cup {Nil} : Owing(s, xx, pp) => Owing(r, As(z, y, xx), As(z, y, pp))
    <3> HIDE DEF M, K, x, p
    <3> QED
      BY <1>5, <1>8, <1>9, <1>11, <2>3, RenameOwing
  <2>5. As(z, y, x) = x
    BY <1>5 DEF As
  <2>6. CASE y \in t.red
    BY <1>3, <2>2, <2>4, <2>6 DEF CutOwing
  <2>7. CASE y \notin t.red
    <3>1. Owing(r, x, As(z, y, p))
      BY <2>2, <2>3, <2>4, <2>5, <2>7
    <3>2. CASE x # Nil
      <4>1. s.parent[x] = p
        BY <1>2, <1>5, <1>10, <3>2 DEF CutOut
      <4>2. As(y, z, x) = x
        BY <1>5 DEF As
      <4>3. Nodes(s) = M
        BY <1>8, Fields
      <4>4. r.parent[x] = As(z, y, s.parent[As(y, z, x)])
        BY <1>5, <1>11, <3>2, <4>3 DEF Renamed
      <4>5. r.parent[x] = As(z, y, p)
        BY <4>1, <4>2, <4>4
      <4> QED
        BY <1>3, <1>6, <2>7, <3>1, <3>2, <4>5 DEF CutOwing, ParentOf
    <3>3. CASE x = Nil /\ p = z
      <4>1. FixupParent(t, z) = As(z, y, p)
        BY <1>4, <3>3 DEF As
      <4> HIDE DEF x, p
      <4> QED
        BY <1>3, <1>6, <2>7, <3>1, <3>3, <4>1 DEF CutOwing, ParentOf
    <3>4. CASE x = Nil /\ p # z
      <4>1. WrongParent(t, z)
        BY <1>3, <1>5, <2>7, <3>4 DEF WrongParent, IsRed
      <4> QED
        BY <1>3, <2>7, <4>1 DEF CutOwing
    <3> QED
      BY <3>2, <3>3, <3>4
  <2> QED
    BY <2>6, <2>7
<1>14. FixupParent(t, z) \in K \cup {Nil}
  BY <1>4, <1>5
<1>15. CutAway(r, t, z, pos, edge)
  BY <1>2, <1>5, <1>6, <1>9, <1>11, <1>12, <1>13, <1>14 DEF CutAway
<1> QED
  BY <1>15 DEF r

\* Delete took z out of t, and nothing else.
Shrank(r, t, z) ==
  /\ r \in Trees(Nodes(t) \ {z}) /\ Sound(r) /\ MarkedLess(t, r, z) /\ r.size = t.size - 1

(* What was marked for r before the fixup is marked after it.                *)
LEMMA MarkedOn ==
  ASSUME NEW N, NEW t \in Trees(N), NEW z, NEW k \in Trees(N \ {z}), NEW r \in Trees(N \ {z}),
         MarkedLess(t, k, z), Marked(k, r)
  PROVE MarkedLess(t, r, z)
<1>1. Nodes(k) = N \ {z} /\ Nodes(r) = N \ {z}
  BY Fields
<1>2. t.dirty \ {z} \subseteq k.dirty /\ k.dirty \subseteq r.dirty
  BY DEF MarkedLess, Marked
<1>3. ASSUME NEW n \in N \ {z}, n \notin r.dirty
      PROVE (\A d \in Sides : r[d][n] = t[d][n]) /\ (n \in r.red <=> n \in t.red)
  <2>1. n \notin k.dirty
    BY <1>2, <1>3
  <2>2. (\A d \in Sides : k[d][n] = t[d][n]) /\ (n \in k.red <=> n \in t.red)
    BY <1>1, <2>1 DEF MarkedLess
  <2>3. (\A d \in Sides : r[d][n] = k[d][n]) /\ (n \in r.red <=> n \in k.red)
    BY <1>1, <1>3 DEF Marked
  <2> QED
    BY <2>2, <2>3
<1> QED
  BY <1>1, <1>2, <1>3 DEF MarkedLess

(* Delete of a node of a tree whose links and order are right takes the node *)
(* out, keeps the order of the others, marks every node whose fields it      *)
(* changes, and, when the colours are a red-black tree's and the parent it   *)
(* gives rbDeleteFixup is the right one, dereferences no nil node and leaves *)
(* a red-black tree.                                                         *)
THEOREM DeleteSound ==
  ASSUME NEW N, Nil \notin N, NEW t \in Trees(N), Sound(t), NEW z \in N
  PROVE \/ /\ Shrank(Delete(t, z), t, z)
           /\ EvenBlack(t) /\ ~WrongParent(t, z) => EvenBlack(Delete(t, z))
        \/ Delete(t, z) = NilPointer /\ (~EvenBlack(t) \/ WrongParent(t, z))
<1>1. PICK pos, edge, end : Laid(t, pos, edge, end) /\ Placed(t, pos, edge) /\ Keyed(t, pos)
  BY DEF Sound
<1> DEFINE k == Cut(t, z)
           r == Delete(t, z)
           x == Child(t, z)
           par == FixupParent(t, z)
           pos2 == PosLess(pos, N \ {z}, pos[z])
           edge2 == EdgeLess(edge)
           K == N \ {z}
<1>2. Nodes(t) = N /\ t.size \in Nat
  BY Fields
<1>3. t.size # 0
  <2>1. pos[z] \in Int /\ edge["left"] \in Int /\ edge["right"] \in Int
    BY <1>1, <1>2 DEF Laid, Sides
  <2>2. edge["left"] <= pos[z] /\ pos[z] <= edge["right"]
    BY <1>1, Widths
  <2>3. t.size = edge["right"] - edge["left"] + 1
    BY <1>1 DEF Placed
  <2> QED
    BY <2>1, <2>2, <2>3
<1>4. CutAway(k, t, z, pos, edge)
  BY <1>1, <1>3, CutAwayOne, CutAwayTwo
<1>5. r = IF Spliced(t, z) \in t.red THEN k ELSE rbDeleteFixup(k, x, par)
  BY DEF Delete, Cut, Child, IsRed
<1> HIDE DEF k, r, x, par
<1>6. /\ k \in Trees(K) /\ k.size = t.size - 1 /\ MarkedLess(t, k, z) /\ \E new : Laid(k, pos2, edge2, new)
      /\ x \in K \cup {Nil} /\ par \in K \cup {Nil}
      /\ EvenBlack(t) => CutOwing(k, t, z)
  BY <1>2, <1>4 DEF CutAway, x, par
<1>12. EvenBlack(t) => IF Spliced(t, z) \in t.red THEN EvenBlack(k)
                       ELSE WrongParent(t, z) \/ Owing(k, x, ParentOf(k, x, par))
  <2>1. CutOwing(k, t, z) <=> IF Spliced(t, z) \in t.red THEN EvenBlack(k)
                             ELSE WrongParent(t, z) \/ Owing(k, x, ParentOf(k, x, par))
    BY DEF CutOwing, x, par
  <2> QED
    BY <1>6, <2>1
<1>7. Placed(k, pos2, edge2) /\ Keyed(k, pos2)
  BY <1>1, <1>6, CutPlaced, CutKeyed
<1> HIDE DEF pos2, edge2
<1>8. Nodes(k) = K
  BY <1>6, Fields
<1>9. ASSUME NEW q, Kept(q, k, pos2, edge2) PROVE Shrank(q, t, z)
  <2>1. q \in Trees(K) /\ Marked(k, q) /\ q.size = k.size /\ \E new : Laid(q, pos2, edge2, new)
    BY <1>8, <1>9 DEF Kept
  <2>2. Nodes(q) = K
    BY <2>1, Fields
  <2>3. Placed(q, pos2, edge2) /\ Keyed(q, pos2)
    BY <1>7, <1>8, <2>1, <2>2 DEF Placed, Keyed
  <2>4. Sound(q)
    BY <2>1, <2>3 DEF Sound
  <2>5. MarkedLess(t, q, z)
    BY <1>6, <2>1, MarkedOn
  <2> QED
    BY <1>2, <1>6, <2>1, <2>4, <2>5 DEF Shrank
<1>10. CASE Spliced(t, z) \in t.red
  <2>1. Sound(k)
    BY <1>6, <1>7 DEF Sound
  <2>2. Shrank(k, t, z)
    BY <1>2, <1>6, <2>1 DEF Shrank
  <2>3. EvenBlack(t) => EvenBlack(k)
    BY <1>10, <1>12
  <2> QED
    BY <1>5, <1>10, <2>2, <2>3 DEF r
<1>11. CASE Spliced(t, z) \notin t.red
  <2> DEFINE owed == Owing(k, x, ParentOf(k, x, par))
  <2>1. r = rbDeleteFixup(k, x, par)
    BY <1>5, <1>11
  <2>2. FixedUp(r, k, pos2, edge2, owed)
    <3>1. PICK new : Laid(k, pos2, edge2, new)
      BY <1>6
    <3>2. Nil \notin K
      OBVIOUS
    <3>3. FixedUp(rbDeleteFixup(k, x, par), k, pos2, edge2,
                  Owing(k, x, ParentOf(k, x, par)))
      <4> HIDE DEF K
      <4> QED
        BY <1>6, <3>1, <3>2, DeleteFixup
    <3> QED
      BY <2>1, <3>3
  <2>3. EvenBlack(t) => WrongParent(t, z) \/ owed
    BY <1>11, <1>12
  <2> HIDE DEF owed
  <2>4. \/ Kept(r, k, pos2, edge2) /\ (owed => EvenBlack(r))
        \/ ~owed /\ r = NilPointer
    BY <2>2 DEF FixedUp, EvenBlack
  <2>5. Kept(r, k, pos2, edge2) => Shrank(r, t, z)
    BY <1>9
  <2> QED
    BY <2>3, <2>4, <2>5 DEF r
<1> QED
  BY <1>10, <1>11
=============================================================================
