---------------------------- MODULE StorageProofs ----------------------------
(***************************************************************************)
(* Proofs about Storage, over the theorems on trees.                       *)
(***************************************************************************)
EXTENDS StorageProperties, TreeProofs, FiniteSetTheorems, SequenceTheorems

-----------------------------------------------------------------------------
(***************************************************************************)
(* Numbers, and functions defined along them.                              *)
(***************************************************************************)

(* A set that 0 is in, and with i its successor, has every number.           *)
LEMMA Induct ==
  ASSUME NEW S, 0 \in S, \A i \in Nat : i \in S => i + 1 \in S
  PROVE \A i \in Nat : i \in S
<1> DEFINE T == {i \in Nat : i \notin S}
           r == [i \in Nat |-> i]
<1>1. SUFFICES ASSUME T # {} PROVE FALSE
  OBVIOUS
<1>2. \E x \in T : \A y \in T : r[x] <= r[y]
  <2>1. \A x \in T : r[x] \in Nat
    OBVIOUS
  <2> HIDE DEF T, r
  <2> QED
    BY <1>1, <2>1, Least
<1>3. PICK x \in Nat : x \notin S /\ \A y \in Nat : y \notin S => x <= y
  BY <1>2
<1>4. x # 0
  BY <1>3
<1>5. x - 1 \in Nat /\ x - 1 \in S
  BY <1>3, <1>4
<1>6. (x - 1) + 1 \in S
  BY <1>5
<1> QED
  BY <1>3, <1>6

-----------------------------------------------------------------------------
(***************************************************************************)
(* The loop that writes the nodes of a tree.                               *)
(***************************************************************************)

Colls(D) == [dirs : [D -> Entry], free : SUBSET D, saved : [D -> Entry]]

\* The nodes of a tree of the entries D.
NodesOf(D) == Nat \X D

\* The list s has each of N once.
Lists(s, N) ==
  /\ s \in Seq(N) /\ \A n \in N : \E i \in 1 .. Len(s) : s[i] = n
  /\ \A i, j \in 1 .. Len(s) : i < j => s[i] # s[j]

(* Iterator() and Next() come to every node, once.                           *)
LEMMA IterationFacts ==
  ASSUME NEW N, Nil \notin N, NEW t \in Trees(N), Sound(t), t.root # Nil
  PROVE Lists(Iteration(t), N)
<1> DEFINE s == Iteration(t)
<1>1. PICK pos, edge, end : Laid(t, pos, edge, end) /\ Placed(t, pos, edge) /\ Keyed(t, pos)
  BY DEF Sound
<1>2. s \in Seq(N)
  <2>1. PICK m \in N : ListFrom(s, m, N, pos, edge)
    BY <1>1, IterationList
  <2> HIDE DEF s
  <2> QED
    BY <2>1 DEF ListFrom
<1>3. /\ Nodes(t) = {s[i] : i \in DOMAIN s}
      /\ \A i, j \in DOMAIN s : i < j => s[i] # s[j]
  BY SoundOrder DEF InOrder
<1>4. Nodes(t) = N
  BY Fields
<1> HIDE DEF s
<1>5. DOMAIN s = 1 .. Len(s)
  BY <1>2
<1>6. N = {s[i] : i \in 1 .. Len(s)} /\ \A i, j \in 1 .. Len(s) : i < j => s[i] # s[j]
  BY <1>3, <1>4, <1>5
<1>7. \A n \in N : \E i \in 1 .. Len(s) : s[i] = n
  BY <1>6
<1>8. Lists(s, N)
  BY <1>2, <1>6, <1>7 DEF Lists
<1> QED
  BY <1>8 DEF s

\* The nodes N are of different entries.
OneEach(N) == \A m, n \in N : Value(m) = Value(n) => m = n

\* The entry that Modified makes.
Brought(r, ent, t, n) ==
  /\ r.kind = ent.kind /\ r.name = ent.name /\ r.child = ent.child
  /\ r.red = IsRed(t, n) /\ r.left = ValueOf(t["left"][n]) /\ r.right = ValueOf(t["right"][n])

(* The nodes of the entries D.                                               *)
LEMMA NodeFacts ==
  ASSUME NEW D, D \subseteq Nat, NEW N, N \subseteq NodesOf(D), NEW t \in Trees(N), Nil \notin Nat \cup (Nat \X Nat)
  PROVE /\ Nil \notin N /\ \A n \in N : Key(n) \in Nat /\ Value(n) \in D /\ n = NewNode(Key(n), Value(n))
        /\ \A n \in N, d \in Sides : /\ ValueOf(t[d][n]) \in D \cup {Nil} /\ ValueOf(t[d][n]) \in Nat \cup {Nil}
                                     /\ ValueOf(t[d][n]) = Nil <=> t[d][n] = Nil
                                     /\ t[d][n] # Nil => t[d][n] \in N /\ ValueOf(t[d][n]) = Value(t[d][n])
<1>1. \A n \in N : n \in Nat \X D /\ n \in Nat \X Nat
  BY DEF NodesOf
<1>2. Nil \notin N /\ \A n \in N : Key(n) \in Nat /\ Value(n) \in D /\ n = NewNode(Key(n), Value(n))
  BY <1>1 DEF Key, Value, NewNode
<1>3. \A d \in Sides : \A n \in N : t[d][n] \in N \cup {Nil}
  BY Fields
<1> QED
  BY <1>2, <1>3 DEF ValueOf

(* Modified brings the entry of a node up to date.                           *)
LEMMA ModifiedFields ==
  ASSUME NEW D, D \subseteq Nat, NEW N, N \subseteq NodesOf(D), NEW t \in Trees(N), Nil \notin Nat \cup (Nat \X Nat),
         NEW c \in Colls(D), NEW n \in N
  PROVE Modified(c, t, n) \in Entry /\ Brought(Modified(c, t, n), c.dirs[Value(n)], t, n)
<1>1. Value(n) \in D /\ ValueOf(t["left"][n]) \in Nat \cup {Nil} /\ ValueOf(t["right"][n]) \in Nat \cup {Nil}
  BY NodeFacts DEF Sides
<1>2. c.dirs[Value(n)] \in Entry
  BY <1>1 DEF Colls
<1>3. IsRed(t, n) \in BOOLEAN
  BY DEF IsRed
<1> QED
  BY <1>1, <1>2, <1>3 DEF Modified, Brought, Entry

\* The entries of the nodes in X are written.
Written(r, c, t, new, X, D) ==
  /\ r \in Colls(D) /\ r.free = c.free
  /\ \A n \in X \cap t.dirty :
       /\ r.dirs[Value(n)] = Modified(c, t, n)
       /\ \/ r.saved[Value(n)] = r.dirs[Value(n)]
          \/ n # new /\ r.dirs[Value(n)] = c.dirs[Value(n)] /\ r.saved[Value(n)] = c.saved[Value(n)]
  /\ \A f \in D : (\A n \in X \cap t.dirty : Value(n) # f) => r.dirs[f] = c.dirs[f] /\ r.saved[f] = c.saved[f]

(* One node more.                                                            *)
LEMMA WriteNodeStep ==
  ASSUME NEW D, D \subseteq Nat, NEW N, N \subseteq NodesOf(D), NEW t \in Trees(N), Nil \notin Nat \cup (Nat \X Nat),
         OneEach(N), NEW c \in Colls(D), NEW X \in SUBSET N, NEW new, NEW k, Written(k, c, t, new, X, D),
         NEW n \in N, n \notin X
  PROVE Written(WriteNode(k, t, new, n), c, t, new, X \cup {n}, D)
<1> DEFINE f == Value(n)
           r == WriteNode(k, t, new, n)
           m == Modified(k, t, n)
<1>1. f \in D /\ \A x \in X : Value(x) # f
  BY NodeFacts DEF OneEach
<1>2. k \in Colls(D) /\ k.free = c.free /\ k.dirs[f] = c.dirs[f] /\ k.saved[f] = c.saved[f]
  BY <1>1 DEF Written
<1>3. CASE n \notin t.dirty
  <2>1. r = k
    BY <1>3 DEF WriteNode
  <2>2. (X \cup {n}) \cap t.dirty = X \cap t.dirty
    BY <1>3
  <2> HIDE DEF r
  <2> QED
    BY <2>1, <2>2 DEF Written, r
<1>4. CASE n \in t.dirty
  <2>1. m = Modified(c, t, n) /\ m \in Entry
    <3>1. m = Modified(c, t, n)
      BY <1>2 DEF Modified
    <3> QED
      BY <3>1, ModifiedFields
  <2> DEFINE k2 == [k EXCEPT !.dirs[f] = m]
             both == Update(k2, f)
  <2>2. r = (IF m = k.dirs[f] /\ n # new THEN k ELSE both)
    BY <1>4 DEF WriteNode
  <2> HIDE DEF m, r
  <2>3. /\ k2 \in Colls(D) /\ k2.free = k.free /\ k2.saved = k.saved
        /\ k2.dirs[f] = m /\ \A g \in D : g # f => k2.dirs[g] = k.dirs[g]
    BY <1>1, <1>2, <2>1 DEF Colls
  <2>4. both = [k2 EXCEPT !.saved[f] = k2.dirs[f]]
    BY DEF Update
  <2> HIDE DEF k2, both
  <2>5. /\ both \in Colls(D) /\ both.free = k.free /\ both.dirs = k2.dirs
        /\ both.saved[f] = m /\ \A g \in D : g # f => both.saved[g] = k.saved[g]
    BY <1>1, <2>1, <2>3, <2>4 DEF Colls
  <2>6. /\ r \in Colls(D) /\ r.free = c.free /\ r.dirs[f] = m
        /\ r.saved[f] = r.dirs[f] \/ (n # new /\ r.dirs[f] = c.dirs[f] /\ r.saved[f] = c.saved[f])
        /\ \A g \in D : g # f => r.dirs[g] = k.dirs[g] /\ r.saved[g] = k.saved[g]
    <3>1. CASE m = k.dirs[f] /\ n # new
      BY <1>2, <2>2, <2>3, <3>1
    <3>2. CASE ~(m = k.dirs[f] /\ n # new)
      BY <1>2, <2>2, <2>3, <2>5, <3>2
    <3> QED
      BY <3>1, <3>2
  <2>7. ASSUME NEW x \in (X \cup {n}) \cap t.dirty
        PROVE /\ r.dirs[Value(x)] = Modified(c, t, x)
              /\ \/ r.saved[Value(x)] = r.dirs[Value(x)]
                 \/ x # new /\ r.dirs[Value(x)] = c.dirs[Value(x)] /\ r.saved[Value(x)] = c.saved[Value(x)]
    <3>1. CASE x = n
      BY <2>1, <2>6, <3>1
    <3>2. CASE x # n
      <4>1. x \in X \cap t.dirty /\ Value(x) \in D /\ Value(x) # f
        BY <1>1, <3>2, NodeFacts
      <4>2. r.dirs[Value(x)] = k.dirs[Value(x)] /\ r.saved[Value(x)] = k.saved[Value(x)]
        BY <2>6, <4>1
      <4> QED
        BY <4>1, <4>2 DEF Written
    <3> QED
      BY <3>1, <3>2
  <2>8. ASSUME NEW g \in D, \A x \in (X \cup {n}) \cap t.dirty : Value(x) # g
        PROVE r.dirs[g] = c.dirs[g] /\ r.saved[g] = c.saved[g]
    <3>1. g # f /\ \A x \in X \cap t.dirty : Value(x) # g
      BY <1>4, <2>8
    <3>2. k.dirs[g] = c.dirs[g] /\ k.saved[g] = c.saved[g]
      BY <3>1 DEF Written
    <3> QED
      BY <2>6, <3>1, <3>2
  <2>9. Written(r, c, t, new, X \cup {n}, D)
    BY <2>6, <2>7, <2>8 DEF Written
  <2> QED
    BY <2>9 DEF r
<1> QED
  BY <1>3, <1>4

\* The states of WriteBack's loop.
WriteSteps(f, c, t, new, s, n) ==
  f = [i \in 0 .. n |-> IF i = 0 THEN c ELSE WriteNode(f[i - 1], t, new, s[i])]

(* There is such a loop, of any length.                                      *)
LEMMA WriteStepsExist ==
  ASSUME NEW c, NEW t, NEW new, NEW s
  PROVE \A n \in Nat : \E f : WriteSteps(f, c, t, new, s, n)
<1> DEFINE S == {n \in Nat : \E f : WriteSteps(f, c, t, new, s, n)}
<1>1. 0 \in S
  <2>1. WriteSteps([i \in 0 .. 0 |-> c], c, t, new, s, 0)
    BY DEF WriteSteps
  <2> QED
    BY <2>1
<1>2. ASSUME NEW n \in Nat, n \in S PROVE n + 1 \in S
  <2>1. PICK f : WriteSteps(f, c, t, new, s, n)
    BY <1>2
  <2> DEFINE g == [i \in 0 .. (n + 1) |-> IF i = 0 THEN c ELSE WriteNode(f[i - 1], t, new, s[i])]
  <2>2. \A i \in 0 .. n : g[i] = f[i]
    <3>1. SUFFICES ASSUME NEW i \in 0 .. n PROVE g[i] = f[i]
      OBVIOUS
    <3>2. i \in 0 .. (n + 1)
      OBVIOUS
    <3>3. f[i] = IF i = 0 THEN c ELSE WriteNode(f[i - 1], t, new, s[i])
      BY <2>1 DEF WriteSteps
    <3> QED
      BY <3>2, <3>3
  <2>3. \A i \in 0 .. (n + 1) : i # 0 => i - 1 \in 0 .. n
    OBVIOUS
  <2>4. \A i \in 0 .. (n + 1) : i # 0 => f[i - 1] = g[i - 1]
    <3> HIDE DEF g
    <3> QED
      BY <2>2, <2>3
  <2>5. g = [i \in 0 .. (n + 1) |-> IF i = 0 THEN c ELSE WriteNode(g[i - 1], t, new, s[i])]
    BY <2>4
  <2> HIDE DEF g
  <2>6. WriteSteps(g, c, t, new, s, n + 1)
    BY <2>5 DEF WriteSteps
  <2> QED
    BY <2>6
<1> HIDE DEF S
<1>3. \A n \in Nat : n \in S
  BY <1>1, <1>2, Induct
<1> QED
  BY <1>3 DEF S

(* WriteBack writes every modified node.                                     *)
LEMMA WriteBackDone ==
  ASSUME NEW D, D \subseteq Nat, NEW N, N \subseteq NodesOf(D), NEW t \in Trees(N), Nil \notin Nat \cup (Nat \X Nat),
         OneEach(N), Sound(t), t.root # Nil, NEW c \in Colls(D), NEW new
  PROVE Written(WriteBack(c, t, new), c, t, new, N, D)
<1> DEFINE s == Iteration(t)
           F(f) == WriteSteps(f, c, t, new, s, Len(s))
           w == CHOOSE f : F(f)
           X(i) == {s[j] : j \in 1 .. i}
           S == {i \in Nat : i <= Len(s) => Written(w[i], c, t, new, X(i), D)}
<1>1. /\ s \in Seq(N) /\ \A n \in N : \E i \in 1 .. Len(s) : s[i] = n
      /\ \A i, j \in 1 .. Len(s) : i < j => s[i] # s[j]
  <2>1. Lists(s, N)
    BY NodeFacts, IterationFacts
  <2> HIDE DEF s
  <2> QED
    BY <2>1 DEF Lists
<1>2. WriteBack(c, t, new) = w[Len(s)]
  BY DEF WriteBack, WriteSteps
<1> HIDE DEF s
<1>3. Len(s) \in Nat /\ \A i \in 1 .. Len(s) : s[i] \in N
  BY <1>1
<1>4. F(w)
  <2>1. \E f : F(f)
    BY <1>3, WriteStepsExist
  <2> HIDE DEF F
  <2> QED
    BY <2>1
<1> HIDE DEF w
<1>5. w = [i \in 0 .. Len(s) |-> IF i = 0 THEN c ELSE WriteNode(w[i - 1], t, new, s[i])]
  BY <1>4 DEF WriteSteps
<1>6. 0 \in S
  <2>1. w[0] = c /\ X(0) = {}
    BY <1>3, <1>5
  <2>2. Written(c, c, t, new, {}, D)
    BY DEF Written
  <2> HIDE DEF X
  <2> QED
    BY <2>1, <2>2
<1>7. ASSUME NEW i \in Nat, i \in S PROVE i + 1 \in S
  <2>1. SUFFICES ASSUME i + 1 <= Len(s) PROVE Written(w[i + 1], c, t, new, X(i + 1), D)
    OBVIOUS
  <2>2. Written(w[i], c, t, new, X(i), D)
    BY <1>3, <1>7, <2>1
  <2>3. i + 1 \in 0 .. Len(s) /\ i + 1 # 0 /\ (i + 1) - 1 = i /\ i + 1 \in 1 .. Len(s)
    BY <1>3, <2>1
  <2>4. w[i + 1] = WriteNode(w[i], t, new, s[i + 1])
    BY <1>5, <2>3
  <2>5. s[i + 1] \in N /\ s[i + 1] \notin X(i) /\ X(i) \in SUBSET N
    <3>1. \A j \in 1 .. i : j \in 1 .. Len(s) /\ j < i + 1
      BY <1>3, <2>1
    <3>2. \A j \in 1 .. i : s[j] \in N /\ s[j] # s[i + 1]
      BY <1>1, <1>3, <2>3, <3>1
    <3> QED
      BY <1>3, <2>3, <3>2
  <2>6. X(i + 1) = X(i) \cup {s[i + 1]}
    <3>1. 1 .. (i + 1) = (1 .. i) \cup {i + 1}
      OBVIOUS
    <3> QED
      BY <3>1
  <2> HIDE DEF X
  <2>7. Written(WriteNode(w[i], t, new, s[i + 1]), c, t, new, X(i) \cup {s[i + 1]}, D)
    BY <2>2, <2>5, WriteNodeStep
  <2> QED
    BY <2>4, <2>6, <2>7
<1>8. \A i \in Nat : i \in S
  <2> HIDE DEF S
  <2> QED
    BY <1>6, <1>7, Induct
<1>9. Written(w[Len(s)], c, t, new, X(Len(s)), D)
  <2>1. Len(s) \in S
    BY <1>3, <1>8
  <2> HIDE DEF X
  <2> QED
    BY <1>3, <2>1
<1>10. X(Len(s)) = N
  <2>1. X(Len(s)) \subseteq N
    BY <1>3
  <2>2. \A n \in N : \E i \in 1 .. Len(s) : n = s[i]
    BY <1>1
  <2> QED
    BY <2>1, <2>2
<1> HIDE DEF X
<1> QED
  BY <1>2, <1>9, <1>10

-----------------------------------------------------------------------------
(***************************************************************************)
(* Trees and their nodes.                                                  *)
(***************************************************************************)

\* r is t, with other marks.
Remarked(r, t, ds) ==
  /\ r.root = t.root /\ r.parent = t.parent /\ r.red = t.red /\ r.size = t.size /\ r.dirty = ds
  /\ \A d \in Sides : r[d] = t[d]

(* The marks make no difference to the tree.                                 *)
LEMMA RemarkedSound ==
  ASSUME NEW N, NEW t \in Trees(N), NEW r \in Trees(N), NEW ds, Remarked(r, t, ds)
  PROVE (Sound(t) => Sound(r)) /\ (EvenBlack(t) => EvenBlack(r))
<1>1. Nodes(r) = N /\ Nodes(t) = N
  BY Fields
<1>2. r.root = t.root /\ r.parent = t.parent /\ r.red = t.red /\ r.size = t.size /\ \A d \in Sides : r[d] = t[d]
  BY DEF Remarked
<1>3. ASSUME Sound(t) PROVE Sound(r)
  <2>1. PICK pos, edge, end : Laid(t, pos, edge, end) /\ Placed(t, pos, edge) /\ Keyed(t, pos)
    BY <1>3 DEF Sound
  <2>2. Children(r, pos, end)
    BY <1>1, <1>2, <2>1 DEF Laid, Children
  <2>3. Ends(r, pos, edge, end) /\ AtRoot(r, edge, end)
    BY <1>1, <1>2, <2>1 DEF Laid, Ends, AtRoot
  <2>4. Parents(r)
    BY <1>1, <1>2, <2>1 DEF Laid, Parents
  <2>5. Laid(r, pos, edge, end)
    BY <1>1, <2>1, <2>2, <2>3, <2>4 DEF Laid
  <2>6. Placed(r, pos, edge) /\ Keyed(r, pos)
    BY <1>1, <1>2, <2>1 DEF Placed, Keyed
  <2> QED
    BY <2>5, <2>6 DEF Sound
<1>4. ASSUME EvenBlack(t) PROVE EvenBlack(r)
  <2>1. PICK h : BlackRed(t, h, Nil)
    BY <1>4 DEF EvenBlack
  <2>2. Even(r, h) /\ OneRedRed(r, Nil)
    BY <1>1, <1>2, <2>1 DEF BlackRed, Even, OneRedRed
  <2> QED
    BY <2>2 DEF EvenBlack, BlackRed
<1> QED
  BY <1>3, <1>4

(* A tree with its marks changed.                                            *)
LEMMA RemarkFields ==
  ASSUME NEW N, NEW t \in Trees(N), NEW ds, ds \subseteq N
  PROVE [t EXCEPT !.dirty = ds] \in Trees(N) /\ Remarked([t EXCEPT !.dirty = ds], t, ds)
BY DEF Trees, Remarked, Sides

(* The loop over the tree takes every mark away.                             *)
LEMMA CleanFields ==
  ASSUME NEW N, Nil \notin N, NEW t \in Trees(N), Sound(t), t.root # Nil
  PROVE Clean(t) \in Trees(N) /\ Remarked(Clean(t), t, {})
<1> DEFINE s == Iteration(t)
           ds == t.dirty \ {s[i] : i \in DOMAIN s}
<1>1. Lists(s, N)
  BY IterationFacts
<1>2. Clean(t) = [t EXCEPT !.dirty = ds]
  BY DEF Clean
<1> HIDE DEF s
<1>3. DOMAIN s = 1 .. Len(s) /\ t.dirty \subseteq N
  BY <1>1, Fields DEF Lists
<1>4. ds = {}
  BY <1>1, <1>3 DEF Lists
<1>5. Clean(t) = [t EXCEPT !.dirty = {}]
  BY <1>2, <1>4
<1> QED
  BY <1>5, RemarkFields

(* A set of nodes that has the root, and with a node its children, has them  *)
(* all.                                                                      *)
LEMMA TreeSpans ==
  ASSUME NEW N, Nil \notin N, NEW t \in Trees(N), Sound(t), NEW X \in SUBSET N, t.root # Nil => t.root \in X,
         \A n \in X, d \in Sides : t[d][n] # Nil => t[d][n] \in X
  PROVE X = N
<1>1. PICK pos, edge, end : Laid(t, pos, edge, end)
  BY DEF Sound
<1>2. Nodes(t) = N
  BY Fields
<1> DEFINE T == N \ X
           r == [n \in N |-> edge["right"] - edge["left"] - Width(end, n)]
<1>3. SUFFICES ASSUME T # {} PROVE FALSE
  OBVIOUS
<1>4. \E x \in T : \A y \in T : r[x] <= r[y]
  <2>1. \A x \in T : r[x] \in Nat
    BY <1>1, Widths
  <2> HIDE DEF T, r
  <2> QED
    BY <1>3, <2>1, Least
<1>5. PICK n \in N : n \notin X /\ \A y \in N : y \notin X => r[n] <= r[y]
  BY <1>4
<1>6. t.root # Nil /\ n # t.root
  BY <1>1, <1>2, <1>5 DEF Laid, AtRoot
<1> DEFINE p == t.parent[n]
<1>7. p # Nil /\ \E d \in Sides : t[d][p] = n
  BY <1>1, <1>2, <1>6 DEF Laid, Parents
<1>8. p \in N
  BY <1>7, Fields
<1>9. p \notin X
  BY <1>5, <1>7, Fields
<1> HIDE DEF p
<1>10. Width(end, n) \in Int /\ Width(end, p) \in Int /\ Width(end, n) < Width(end, p)
  BY <1>1, <1>7, <1>8, ChildWidth
<1>11. edge["right"] \in Int /\ edge["left"] \in Int
  BY <1>1, Widths
<1>12. r[n] <= r[p]
  BY <1>5, <1>8, <1>9
<1> QED
  BY <1>8, <1>10, <1>11, <1>12

(* The new tree is a tree, of no nodes.                                      *)
LEMMA NewTreeSound ==
  NewTree \in Trees({}) /\ Sound(NewTree) /\ EvenBlack(NewTree)
<1> DEFINE t == NewTree
           none == [n \in {} |-> 0]
           edge == [d \in Sides |-> IF d = "left" THEN 1 ELSE 0]
           end == [d \in Sides |-> none]
<1>1. /\ t.root = Nil /\ t.parent = <<>> /\ t.red = {} /\ t.dirty = {} /\ t.size = 0
      /\ t.left = <<>> /\ t.right = <<>> /\ DOMAIN t = {"root", "left", "right", "parent", "red", "dirty", "size"}
  BY DEF NewTree
<1>2. <<>> \in [{} -> {Nil}]
  OBVIOUS
<1>3. t \in Trees({})
  <2>1. t = [root |-> Nil, left |-> <<>>, right |-> <<>>, parent |-> <<>>, red |-> {}, dirty |-> {}, size |-> 0]
    BY DEF NewTree
  <2> HIDE DEF t
  <2> QED
    BY <1>2, <2>1 DEF Trees
<1>4. Nodes(t) = {}
  BY <1>3, Fields
<1> HIDE DEF t
<1>5. Laid(t, none, edge, end)
  <2>1. none \in [Nodes(t) -> Int] /\ edge \in [Sides -> Int] /\ end \in [Sides -> [Nodes(t) -> Int]]
    BY <1>4
  <2> HIDE DEF none, edge, end
  <2>2. Ends(t, none, edge, end) /\ Children(t, none, end) /\ AtRoot(t, edge, end) /\ Parents(t)
    BY <1>1, <1>4 DEF Ends, Children, AtRoot, Parents
  <2> QED
    BY <2>1, <2>2 DEF Laid
<1>6. Placed(t, none, edge) /\ Keyed(t, none)
  <2>1. edge["left"] = 1 /\ edge["right"] = 0
    BY DEF Sides
  <2> QED
    BY <1>1, <1>4, <2>1 DEF Placed, Keyed
<1>7. BlackRed(t, none, Nil)
  BY <1>1, <1>4 DEF BlackRed, Even, OneRedRed
<1>8. Sound(t) /\ EvenBlack(t)
  <2> HIDE DEF none, edge, end
  <2> QED
    BY <1>5, <1>6, <1>7 DEF Sound, EvenBlack
<1> QED
  BY <1>3, <1>8 DEF t

-----------------------------------------------------------------------------
(***************************************************************************)
(* The invariant of the collection of entries.                             *)
(*                                                                         *)
(* own[f] is the storage that has the entry f, or Nil.  It is not a state  *)
(* of the code: that there are such owners is what the steps keep.         *)
(***************************************************************************)

Numbered(D) == \E n \in Nat : n # 0 /\ D = 0 .. (n - 1)

Owned(own, e) == {f \in DOMAIN own : own[f] = e}

\* What an ill-formed name may be stored as.
IllFormed(x) == \E n \in Names \ Refused : Stored[n] = x /\ n # Stored[n]

RootUsed(c, own) == 0 \notin c.free /\ own[0] = Nil /\ c.dirs[0].kind = "root"

FreeEmpty(c, own) == \A f \in c.free : own[f] = Nil /\ c.dirs[f] = EmptyEntry /\ c.saved[f] = EmptyEntry

\* The links of an entry lead to entries of the same storage, and the storage's
\* to one of its entries.
LinksOwned(ents, own) ==
  /\ \A f \in DOMAIN own : own[f] # Nil =>
       ents[f].kind # "unallocated" /\ \A d \in Sides : ents[f][d] \in Owned(own, own[f]) \cup {Nil}
  /\ \A e \in DOMAIN own : ents[e].child \in Owned(own, e) \cup {Nil}

\* The entries in the sectors are those in memory, or were given to a call that
\* failed.
SavedAs(c, own) ==
  \A f \in DOMAIN own : /\ \/ c.saved[f] = c.dirs[f]
                           \/ own[f] = Nil /\ f # 0 /\ c.saved[f] = EmptyEntry
                        /\ c.saved[f].kind = "unallocated" => c.saved[f] = EmptyEntry

NamesDiffer(ents, own) ==
  \A f, g \in DOMAIN own : own[f] # Nil /\ own[f] = own[g] /\ f # g /\ ents[f].name = ents[g].name
                           => IllFormed(ents[f].name)

\* A set of V that has the child of e and is closed under the links is V.
Spanned(ents, e, V) ==
  \A C \in SUBSET V :
    /\ ents[e].child # Nil => ents[e].child \in C
    /\ \A f \in C, d \in Sides : ents[f][d] # Nil => ents[f][d] \in C
    => C = V

\* No entry of V has two links to it, and the child of e none.
SingleLinks(ents, e, V) ==
  /\ \A p \in V, d \in Sides : ents[p][d] # Nil => ents[p][d] # ents[e].child
  /\ \A p, q \in V, d, s \in Sides : ents[p][d] # Nil /\ ents[p][d] = ents[q][s] => p = q /\ d = s

\* The entries of e hang from it in a tree.
Hangs(ents, own, e) == Spanned(ents, e, Owned(own, e)) /\ SingleLinks(ents, e, Owned(own, e))

EachHangs(ents, own) == \A e \in DOMAIN own : Hangs(ents, own, e)

\* An entry that has entries is a storage's, and written.
StoragesHave(c, own) ==
  \A f \in DOMAIN own : c.dirs[f].child # Nil => (f = 0 \/ c.dirs[f].kind = "storage") /\ c.saved[f] = c.dirs[f]

Collected(c, own, D) ==
  /\ Numbered(D) /\ c \in Colls(D) /\ own \in [D -> D \cup {Nil}]
  /\ RootUsed(c, own) /\ FreeEmpty(c, own) /\ LinksOwned(c.dirs, own) /\ SavedAs(c, own)
  /\ NamesDiffer(c.dirs, own) /\ EachHangs(c.dirs, own) /\ StoragesHave(c, own)

-----------------------------------------------------------------------------
(***************************************************************************)
(* The invariant of the handles.                                           *)
(***************************************************************************)

\* The node n is as the entry is in memory.
Agrees(c, t, n) ==
  c.dirs[Value(n)].red = IsRed(t, n) /\ \A d \in Sides : c.dirs[Value(n)][d] = ValueOf(t[d][n])

\* The tree t has the entries of the storage e.
Fits(c, own, e, t) ==
  /\ \A n \in Nodes(t) : Value(n) \in Owned(own, e) /\ Key(n) = c.dirs[Value(n)].name
  /\ \A f \in Owned(own, e) : \E n \in Nodes(t) : Value(n) = f
  /\ \A n \in Nodes(t) : n \notin t.dirty => Agrees(c, t, n)

\* The entry is in use, and written.
Used(c, e, D) ==
  e \in D /\ e \notin c.free /\ c.dirs[e].kind # "unallocated" /\ c.saved[e] = c.dirs[e]

\* So is the entry of a storage that is there.
Held(c, e, D) == Used(c, e, D) /\ (e = 0 \/ c.dirs[e].kind = "storage")

\* A cached tree, whether its storage is there or not.
Cached(t, D, wrong) ==
  /\ Nodes(t) \subseteq NodesOf(D) /\ t \in Trees(Nodes(t)) /\ Sound(t)
  /\ wrong \/ EvenBlack(t)

\* A handle on a storage that is there.
Current(c, own, D, a) ==
  a.entry # Nil => Held(c, a.entry, D) /\ (a.tree # Nil => Fits(c, own, a.entry, a.tree))

\* The handles hs of the variables H.
Handled(hs, H, D, wrong) ==
  /\ hs = [h \in H |-> [entry |-> hs[h].entry, tree |-> hs[h].tree]]
  /\ \A h \in H : hs[h].entry \in D \cup {Nil} /\ (hs[h].tree # Nil => Cached(hs[h].tree, D, wrong))

\* Of one storage there is one cached tree.
Apart(hs, H, out) ==
  \A g, h \in H \ out : g # h /\ hs[g].entry = hs[h].entry /\ hs[h].entry # Nil
                        => hs[g].tree = Nil \/ hs[h].tree = Nil

Holds(c, own, D, hs, H, out, wrong) ==
  /\ Collected(c, own, D) /\ Handled(hs, H, D, wrong) /\ Apart(hs, H, out)
  /\ \A h \in H \ out : Current(c, own, D, hs[h])

-----------------------------------------------------------------------------
(***************************************************************************)
(* The invariant of the account of the entries.                            *)
(***************************************************************************)

\* The entries that are neither the root's, nor leaked, nor free.
InUse(D, fr, lk) == D \ (lk \cup fr \cup {0})

\* An entry in use is of a storage in use, or of the root; one that is leaked of
\* none, or of one that is leaked; and the storages in use have all that is in use.
Reckoned(own, D, fr, lk) ==
  /\ \A x \in InUse(D, fr, lk) : own[x] # Nil /\ own[x] \notin lk
  /\ \A x \in lk : x \in D /\ x \notin fr /\ x # 0 /\ (own[x] = Nil \/ own[x] \in lk)
  /\ \A S \in SUBSET InUse(D, fr, lk) :
       (\A e \in S \cup {0} : Owned(own, e) \subseteq S) => S = InUse(D, fr, lk)

\* No call is made on what is leaked.
Unleaked(hs, H, out, lk) == \A h \in H \ out : hs[h].entry \notin lk

Keeps(c, own, D, hs, H, out, wrong, lk) ==
  Holds(c, own, D, hs, H, out, wrong) /\ Reckoned(own, D, c.free, lk) /\ Unleaked(hs, H, out, lk)

-----------------------------------------------------------------------------
(***************************************************************************)
(* What the steps of a call leave of the other storages.                   *)
(***************************************************************************)

\* Nothing of what is in the storage e has changed.
Untouched(c2, own2, c, own, e) ==
  /\ Owned(own2, e) = Owned(own, e) /\ c2.dirs[e].child = c.dirs[e].child
  /\ \A f \in Owned(own, e) : /\ c2.dirs[f].name = c.dirs[f].name /\ c2.dirs[f].red = c.dirs[f].red
                              /\ \A d \in Sides : c2.dirs[f][d] = c.dirs[f][d]

(* A tree fits a storage that is not touched.                                *)
LEMMA FitsUntouched ==
  ASSUME NEW c, NEW own, NEW e, NEW t, Fits(c, own, e, t), NEW c2, NEW own2, Untouched(c2, own2, c, own, e)
  PROVE Fits(c2, own2, e, t)
<1> DEFINE V == Owned(own, e)
<1>1. V = Owned(own2, e)
  BY DEF Untouched
<1>2. /\ \A n \in Nodes(t) : Value(n) \in V /\ Key(n) = c.dirs[Value(n)].name
      /\ \A f \in V : \E n \in Nodes(t) : Value(n) = f
      /\ \A n \in Nodes(t) : n \notin t.dirty => Agrees(c, t, n)
  BY DEF Fits
<1>3. /\ c2.dirs[e].child = c.dirs[e].child
      /\ \A f \in V : /\ c2.dirs[f].name = c.dirs[f].name /\ c2.dirs[f].red = c.dirs[f].red
                      /\ \A d \in Sides : c2.dirs[f][d] = c.dirs[f][d]
  BY DEF Untouched
<1> HIDE DEF V
<1>4. \A n \in Nodes(t) : n \notin t.dirty => Agrees(c2, t, n)
  <2>1. SUFFICES ASSUME NEW n \in Nodes(t), n \notin t.dirty PROVE Agrees(c2, t, n)
    OBVIOUS
  <2>2. Agrees(c, t, n) /\ Value(n) \in V
    BY <1>2, <2>1
  <2> QED
    BY <1>3, <2>2 DEF Agrees
<1>5. /\ \A n \in Nodes(t) : Value(n) \in V /\ Key(n) = c2.dirs[Value(n)].name
      /\ \A f \in V : \E n \in Nodes(t) : Value(n) = f
  BY <1>2, <1>3
<1> QED
  BY <1>1, <1>4, <1>5 DEF Fits

(* Nor do its entries hang from it in another way.                           *)
LEMMA HangsUntouched ==
  ASSUME NEW c, NEW own, NEW e, Hangs(c.dirs, own, e), NEW c2, NEW own2, Untouched(c2, own2, c, own, e)
  PROVE Hangs(c2.dirs, own2, e)
<1> DEFINE V == Owned(own, e)
<1>1. /\ V = Owned(own2, e) /\ c2.dirs[e].child = c.dirs[e].child
      /\ \A f \in V, d \in Sides : c2.dirs[f][d] = c.dirs[f][d]
  BY DEF Untouched
<1>2. Spanned(c.dirs, e, V) /\ SingleLinks(c.dirs, e, V)
  BY DEF Hangs
<1> HIDE DEF V
<1>3. Spanned(c2.dirs, e, V)
  <2>1. SUFFICES ASSUME NEW C \in SUBSET V, c2.dirs[e].child # Nil => c2.dirs[e].child \in C,
                        \A f \in C, d \in Sides : c2.dirs[f][d] # Nil => c2.dirs[f][d] \in C
                 PROVE C = V
    BY DEF Spanned
  <2>2. c.dirs[e].child # Nil => c.dirs[e].child \in C
    BY <1>1, <2>1
  <2>3. \A f \in C, d \in Sides : c.dirs[f][d] # Nil => c.dirs[f][d] \in C
    BY <1>1, <2>1
  <2> QED
    BY <1>2, <2>2, <2>3 DEF Spanned
<1>4. SingleLinks(c2.dirs, e, V)
  BY <1>1, <1>2 DEF SingleLinks
<1> QED
  BY <1>1, <1>3, <1>4 DEF Hangs

(* A storage that has no entries has them in a tree.                         *)
LEMMA NoneHang ==
  ASSUME NEW ents, NEW own, NEW e, ents[e].child = Nil, Owned(own, e) = {}
  PROVE Hangs(ents, own, e)
BY DEF Hangs, Spanned, SingleLinks

\* What the storage e has is not touched, and its entry is as good as before.
Spared(c2, own2, D2, c, own, D, e) ==
  (Held(c, e, D) => Held(c2, e, D2)) /\ Untouched(c2, own2, c, own, e)

(* A handle on a storage that is spared is as good as before.                *)
LEMMA CurrentSpared ==
  ASSUME NEW c, NEW own, NEW D, NEW a, Current(c, own, D, a), NEW c2, NEW own2, NEW D2,
         a.entry # Nil => Spared(c2, own2, D2, c, own, D, a.entry)
  PROVE Current(c2, own2, D2, a)
BY FitsUntouched DEF Current, Spared

(* More entries, or a Delete that goes wrong, make no difference to a tree.  *)
LEMMA HandledMore ==
  ASSUME NEW D, NEW D2, D \subseteq D2, NEW wrong, NEW wrong2, wrong => wrong2, NEW hs, NEW H,
         Handled(hs, H, D, wrong)
  PROVE Handled(hs, H, D2, wrong2)
<1>1. NodesOf(D) \subseteq NodesOf(D2)
  BY DEF NodesOf
<1>2. ASSUME NEW t, Cached(t, D, wrong) PROVE Cached(t, D2, wrong2)
  <2>1. Nodes(t) \subseteq NodesOf(D2)
    BY <1>1, <1>2 DEF Cached
  <2> QED
    BY <1>2, <2>1, Zenon DEF Cached
<1> QED
  BY <1>2 DEF Handled

(* A step that spares every storage, and changes no handle.                  *)
LEMMA HoldsSpared ==
  ASSUME NEW c, NEW own, NEW D, NEW hs, NEW H, NEW out, NEW wrong, Holds(c, own, D, hs, H, out, wrong),
         NEW c2, NEW own2, NEW D2, D \subseteq D2, Collected(c2, own2, D2),
         \A e \in D : Spared(c2, own2, D2, c, own, D, e)
  PROVE Holds(c2, own2, D2, hs, H, out, wrong)
<1>1. Handled(hs, H, D2, wrong)
  BY HandledMore DEF Holds
<1>2. \A h \in H : hs[h].entry \in D \cup {Nil}
  BY DEF Holds, Handled
<1>3. ASSUME NEW h \in H \ out PROVE Current(c2, own2, D2, hs[h])
  <2>1. Current(c, own, D, hs[h])
    BY <1>3 DEF Holds
  <2>2. hs[h].entry # Nil => Spared(c2, own2, D2, c, own, D, hs[h].entry)
    BY <1>2
  <2> QED
    BY <2>1, <2>2, CurrentSpared
<1> QED
  BY <1>1, <1>3 DEF Holds

-----------------------------------------------------------------------------
(***************************************************************************)
(* A new entry: Pop, and addSector before it if no entry is free.          *)
(***************************************************************************)

\* c2 is c with more entries, all of them free.
Enlarged(c2, own2, D2, c, own, D) ==
  /\ D \subseteq D2 /\ \A f \in D : c2.dirs[f] = c.dirs[f] /\ c2.saved[f] = c.saved[f] /\ own2[f] = own[f]
  /\ \A f \in D2 : f \notin D => c2.dirs[f] = EmptyEntry /\ c2.saved[f] = EmptyEntry /\ own2[f] = Nil
  /\ c2.free = c.free \cup (D2 \ D)

(* Enlarging spares every storage.                                           *)
LEMMA EnlargedSpares ==
  ASSUME NEW c, NEW own, NEW D, NEW c2, NEW own2, NEW D2, Nil \notin D,
         own \in [D -> D \cup {Nil}], own2 \in [D2 -> D2 \cup {Nil}], Enlarged(c2, own2, D2, c, own, D)
  PROVE \A e \in D : Spared(c2, own2, D2, c, own, D, e)
<1>1. SUFFICES ASSUME NEW e \in D PROVE Spared(c2, own2, D2, c, own, D, e)
  OBVIOUS
<1>2. D \subseteq D2 /\ \A f \in D : c2.dirs[f] = c.dirs[f] /\ c2.saved[f] = c.saved[f] /\ own2[f] = own[f]
  BY DEF Enlarged
<1>3. Owned(own2, e) = Owned(own, e)
  <2>1. \A f \in D2 : f \notin D => own2[f] # e
    BY DEF Enlarged
  <2> QED
    BY <1>2, <2>1 DEF Owned
<1>4. Owned(own, e) \subseteq D
  BY DEF Owned
<1>5. Untouched(c2, own2, c, own, e)
  BY <1>2, <1>3, <1>4 DEF Untouched
<1>6. Held(c, e, D) => Held(c2, e, D2)
  BY <1>2 DEF Held, Used, Enlarged
<1> QED
  BY <1>5, <1>6 DEF Spared

(* A collection enlarged is a collection.                                    *)
LEMMA EnlargedCollected ==
  ASSUME NEW c, NEW own, NEW D, Nil \notin Nat, Collected(c, own, D), NEW c2, NEW own2, NEW D2, Numbered(D2),
         c2 \in Colls(D2), own2 \in [D2 -> D2 \cup {Nil}], Enlarged(c2, own2, D2, c, own, D)
  PROVE Collected(c2, own2, D2)
<1>1. /\ D \subseteq D2 /\ \A f \in D : c2.dirs[f] = c.dirs[f] /\ c2.saved[f] = c.saved[f] /\ own2[f] = own[f]
      /\ \A f \in D2 : f \notin D => c2.dirs[f] = EmptyEntry /\ c2.saved[f] = EmptyEntry /\ own2[f] = Nil
      /\ c2.free = c.free \cup (D2 \ D)
  BY DEF Enlarged
<1>2. /\ own \in [D -> D \cup {Nil}] /\ RootUsed(c, own) /\ FreeEmpty(c, own) /\ LinksOwned(c.dirs, own)
      /\ SavedAs(c, own) /\ NamesDiffer(c.dirs, own) /\ c \in Colls(D)
      /\ EachHangs(c.dirs, own) /\ StoragesHave(c, own)
  BY DEF Collected
<1>3. Nil \notin D /\ Nil \notin D2 /\ 0 \in D
  <2>1. D \subseteq Nat /\ 0 \in D /\ D2 \subseteq Nat
    BY DEF Collected, Numbered
  <2> QED
    BY <2>1
<1>4. DOMAIN own = D /\ DOMAIN own2 = D2
  BY <1>2
<1>5. RootUsed(c2, own2)
  BY <1>1, <1>2, <1>3 DEF RootUsed
<1>6. FreeEmpty(c2, own2)
  <2>1. c.free \subseteq D
    BY <1>2 DEF Colls
  <2> QED
    BY <1>1, <1>2, <2>1 DEF FreeEmpty
<1>7. \A e \in D : Owned(own, e) \subseteq Owned(own2, e)
  BY <1>1, <1>4 DEF Owned
<1>8. LinksOwned(c2.dirs, own2)
  <2>1. ASSUME NEW f \in D2, own2[f] # Nil
        PROVE c2.dirs[f].kind # "unallocated" /\ \A d \in Sides : c2.dirs[f][d] \in Owned(own2, own2[f]) \cup {Nil}
    <3>1. f \in D /\ own2[f] = own[f] /\ own[f] \in D
      BY <1>1, <1>2, <2>1
    <3>2. c.dirs[f].kind # "unallocated" /\ \A d \in Sides : c.dirs[f][d] \in Owned(own, own[f]) \cup {Nil}
      BY <1>2, <1>4, <2>1, <3>1 DEF LinksOwned
    <3> QED
      BY <1>1, <1>7, <3>1, <3>2
  <2>2. ASSUME NEW e \in D2 PROVE c2.dirs[e].child \in Owned(own2, e) \cup {Nil}
    <3>1. CASE e \in D
      BY <1>1, <1>2, <1>4, <1>7, <3>1 DEF LinksOwned
    <3>2. CASE e \notin D
      BY <1>1, <3>2 DEF EmptyEntry
    <3> QED
      BY <3>1, <3>2
  <2> QED
    BY <1>4, <2>1, <2>2 DEF LinksOwned
<1>9. SavedAs(c2, own2)
  BY <1>1, <1>2, <1>4 DEF SavedAs
<1>10. NamesDiffer(c2.dirs, own2)
  <2>1. ASSUME NEW f \in D2, NEW g \in D2, own2[f] # Nil, own2[f] = own2[g], f # g,
               c2.dirs[f].name = c2.dirs[g].name
        PROVE IllFormed(c2.dirs[f].name)
    <3>1. f \in D /\ g \in D
      BY <1>1, <2>1
    <3> QED
      BY <1>1, <1>2, <1>4, <2>1, <3>1 DEF NamesDiffer
  <2> QED
    BY <1>4, <2>1 DEF NamesDiffer
<1>11. EachHangs(c2.dirs, own2)
  <2>1. SUFFICES ASSUME NEW e \in D2 PROVE Hangs(c2.dirs, own2, e)
    BY <1>4 DEF EachHangs
  <2>2. CASE e \in D
    <3>1. Untouched(c2, own2, c, own, e)
      BY <1>2, <1>3, <2>2, EnlargedSpares DEF Spared
    <3> QED
      BY <1>2, <1>4, <2>2, <3>1, HangsUntouched DEF EachHangs
  <2>3. CASE e \notin D
    <3>1. \A f \in D2 : own2[f] # e
      BY <1>1, <1>2, <1>3, <2>1, <2>3
    <3>2. Owned(own2, e) = {}
      BY <1>4, <3>1 DEF Owned
    <3>3. c2.dirs[e].child = Nil
      BY <1>1, <2>3 DEF EmptyEntry
    <3> QED
      BY <3>2, <3>3, NoneHang
  <2> QED
    BY <2>2, <2>3
<1>12. StoragesHave(c2, own2)
  <2>1. \A f \in D2 : f \notin D => c2.dirs[f].child = Nil
    BY <1>1 DEF EmptyEntry
  <2> QED
    BY <1>1, <1>2, <1>4, <2>1 DEF StoragesHave
<1> QED
  BY <1>5, <1>6, <1>8, <1>9, <1>10, <1>11, <1>12 DEF Collected

(* There are as many numbered entries as the least number that is not one.   *)
LEMMA NumberedCount ==
  ASSUME NEW D, Numbered(D)
  PROVE /\ Cardinality(D) \in Nat /\ Cardinality(D) # 0 /\ D = 0 .. (Cardinality(D) - 1) /\ IsFiniteSet(D)
        /\ D \subseteq Nat /\ 0 \in D
<1>1. PICK n \in Nat : n # 0 /\ D = 0 .. (n - 1)
  BY DEF Numbered
<1>2. IsFiniteSet(0 .. (n - 1)) /\ Cardinality(0 .. (n - 1)) = n
  BY <1>1, FS_Interval
<1> QED
  BY <1>1, <1>2

(* addSector of a directory sector.                                          *)
LEMMA GrownHolds ==
  ASSUME NEW c, NEW own, NEW D, NEW hs, NEW H, NEW out, NEW wrong, Holds(c, own, D, hs, H, out, wrong),
         c.free = {}
  PROVE LET c2 == Grown(c) IN
        \E D2, own2 : Holds(c2, own2, D2, hs, H, out, wrong) /\ Enlarged(c2, own2, D2, c, own, D) /\ c2.free # {}
<1> DEFINE n == Cardinality(DOMAIN c.dirs)
           D2 == 0 .. (n + EntriesPerSector - 1)
           New == n .. (n + EntriesPerSector - 1)
           more == [e \in New |-> EmptyEntry]
           dirs2 == [e \in D2 |-> IF e \in D THEN c.dirs[e] ELSE EmptyEntry]
           saved2 == [e \in D2 |-> IF e \in D THEN c.saved[e] ELSE EmptyEntry]
           own2 == [e \in D2 |-> IF e \in D THEN own[e] ELSE Nil]
           c2 == Grown(c)
<1>1. Collected(c, own, D)
  BY DEF Holds
<1>2. c \in Colls(D) /\ Numbered(D) /\ own \in [D -> D \cup {Nil}]
  BY <1>1 DEF Collected
<1>3. DOMAIN c.dirs = D /\ DOMAIN c.saved = D
  BY <1>2 DEF Colls
<1>4. n \in Nat /\ n # 0 /\ D = 0 .. (n - 1)
  BY <1>2, <1>3, NumberedCount
<1>5. EntriesPerSector \in Nat /\ EntriesPerSector # 0 /\ Nil \notin Nat
  BY StorageAssumption DEF StorageAssumption
<1> HIDE DEF n
<1>6. D2 = D \cup New /\ D \cap New = {} /\ n \in New
  BY <1>4, <1>5
<1>7. c2 = [dirs |-> Joined(c.dirs, more), free |-> c.free \cup DOMAIN more, saved |-> Joined(c.saved, more)]
  BY DEF Grown, n
<1>8. DOMAIN more = New
  OBVIOUS
<1>9. Joined(c.dirs, more) = dirs2 /\ Joined(c.saved, more) = saved2
  <2>1. DOMAIN c.dirs \cup DOMAIN more = D2 /\ DOMAIN c.saved \cup DOMAIN more = D2
    BY <1>3, <1>6, <1>8
  <2>2. \A e \in D2 : e \notin D => more[e] = EmptyEntry
    BY <1>6
  <2> HIDE DEF D2, more
  <2> QED
    BY <1>3, <2>1, <2>2 DEF Joined
<1>10. EmptyEntry \in Entry
  BY DEF EmptyEntry, Entry
<1>11. dirs2 \in [D2 -> Entry] /\ saved2 \in [D2 -> Entry]
  BY <1>2, <1>10 DEF Colls
<1>12. own2 \in [D2 -> D2 \cup {Nil}]
  BY <1>2, <1>6
<1>13. c2 = [dirs |-> dirs2, free |-> c.free \cup New, saved |-> saved2]
  BY <1>7, <1>8, <1>9
<1> HIDE DEF c2
<1>14. Enlarged(c2, own2, D2, c, own, D)
  <2>1. New = D2 \ D
    BY <1>6
  <2>2. D \subseteq D2
    BY <1>6
  <2> HIDE DEF D2, New
  <2> QED
    BY <1>13, <2>1, <2>2 DEF Enlarged
<1>15. c2 \in Colls(D2)
  <2>1. c.free \cup New \subseteq D2
    BY <1>2, <1>6 DEF Colls
  <2> HIDE DEF D2, New, dirs2, saved2
  <2> QED
    BY <1>11, <1>13, <2>1 DEF Colls
<1>16. Numbered(D2)
  <2>1. n + EntriesPerSector \in Nat /\ n + EntriesPerSector # 0
    BY <1>4, <1>5
  <2>2. D2 = 0 .. ((n + EntriesPerSector) - 1)
    BY <1>4, <1>5
  <2> QED
    BY <2>1, <2>2 DEF Numbered
<1>17. c2.free # {}
  <2> HIDE DEF New
  <2> QED
    BY <1>6, <1>13
<1> HIDE DEF own2, D2
<1>18. Collected(c2, own2, D2)
  BY <1>1, <1>5, <1>12, <1>14, <1>15, <1>16, EnlargedCollected
<1>19. \A e \in D : Spared(c2, own2, D2, c, own, D, e)
  <2>1. Nil \notin D
    BY <1>4, <1>5
  <2> QED
    BY <1>2, <1>12, <1>14, <2>1, EnlargedSpares
<1>20. Holds(c2, own2, D2, hs, H, out, wrong)
  BY <1>14, <1>18, <1>19, HoldsSpared DEF Enlarged
<1> QED
  BY <1>14, <1>17, <1>20 DEF c2

(* There is an entry to pop, and it is of no storage.                        *)
LEMMA RoomyHolds ==
  ASSUME NEW c, NEW own, NEW D, NEW hs, NEW H, NEW out, NEW wrong, Holds(c, own, D, hs, H, out, wrong)
  PROVE LET c2 == Roomy(c) IN
        \E D2, own2 : Holds(c2, own2, D2, hs, H, out, wrong) /\ Enlarged(c2, own2, D2, c, own, D) /\ c2.free # {}
<1>1. CASE c.free = {}
  <2>1. Roomy(c) = Grown(c)
    BY <1>1 DEF Roomy
  <2> QED
    BY <1>1, <2>1, GrownHolds
<1>2. CASE c.free # {}
  <2>1. Roomy(c) = c
    BY <1>2 DEF Roomy
  <2>2. Enlarged(c, own, D, c, own, D)
    BY DEF Enlarged
  <2> QED
    BY <1>2, <2>1, <2>2
<1> QED
  BY <1>1, <1>2

(* Pop.                                                                      *)
LEMMA PoppedFree ==
  ASSUME NEW c, NEW D, D \subseteq Nat, c \in Colls(D), c.free # {}
  PROVE Popped(c) \in c.free /\ Popped(c) \in D
<1> DEFINE r == [e \in c.free |-> e]
<1>1. c.free \subseteq D
  BY DEF Colls
<1>2. \A x \in c.free : r[x] \in Nat
  BY <1>1
<1>3. \E e \in c.free : \A f \in c.free : r[e] <= r[f]
  <2> HIDE DEF r
  <2> QED
    BY <1>2, Least
<1>4. \E e \in c.free : \A f \in c.free : e <= f
  BY <1>3
<1> QED
  BY <1>1, <1>4 DEF Popped

\* c2 is c with the entry that New makes; with a name that is refused it has
\* none.
EntryMade(c2, c, id, name, kind, D) ==
  /\ c2 \in Colls(D) /\ c2.free = c.free \ {id} /\ c2.saved = c.saved
  /\ \A f \in D : f # id => c2.dirs[f] = c.dirs[f]
  /\ c2.dirs[id].kind = kind /\ \A d \in Sides \cup {"child"} : c2.dirs[id][d] = c.dirs[id][d]
  /\ name \notin Refused => c2.dirs[id].name = Stored[name]

(* New.                                                                      *)
LEMMA NewEntryFields ==
  ASSUME NEW c, NEW D, D \subseteq Nat, c \in Colls(D), c.free # {}, NEW name \in Names, NEW kind \in {"storage", "stream"}
  PROVE EntryMade(NewEntry(c, name, kind), c, Popped(c), name, kind, D)
<1> DEFINE id == Popped(c)
           New == [c.dirs[id] EXCEPT !.kind = kind, !.red = FALSE,
                                     !.name = IF name \in Refused THEN @ ELSE Stored[name]]
           c2 == NewEntry(c, name, kind)
<1>1. id \in c.free /\ id \in D
  BY PoppedFree
<1>2. c.dirs \in [D -> Entry] /\ c.saved \in [D -> Entry] /\ c.free \in SUBSET D
  BY DEF Colls
<1>3. Stored[name] \in Nat
  BY StorageAssumption DEF StorageAssumption
<1>4. c = [dirs |-> c.dirs, free |-> c.free, saved |-> c.saved]
  BY DEF Colls
<1>5. c2 = [c EXCEPT !.free = @ \ {id}, !.dirs[id] = New]
  BY DEF NewEntry
<1> HIDE DEF id, c2
<1>10. /\ New \in Entry /\ New.kind = kind /\ \A d \in Sides \cup {"child"} : New[d] = c.dirs[id][d]
       /\ name \notin Refused => New.name = Stored[name]
  <2>1. c.dirs[id] \in Entry
    BY <1>1, <1>2
  <2> QED
    BY <1>3, <2>1 DEF Entry, Sides
<1> HIDE DEF New
<1>9. c2 = [dirs |-> [c.dirs EXCEPT ![id] = New], free |-> c.free \ {id}, saved |-> c.saved]
  BY <1>4, <1>5
<1>11. [c.dirs EXCEPT ![id] = New] \in [D -> Entry]
  BY <1>1, <1>2, <1>10
<1>12. c2 \in Colls(D)
  BY <1>2, <1>9, <1>11 DEF Colls
<1> QED
  BY <1>1, <1>2, <1>9, <1>10, <1>12 DEF EntryMade, id, c2

-----------------------------------------------------------------------------
(***************************************************************************)
(* WriteBack and Adopt: the entries of a storage get the links of a tree.  *)
(***************************************************************************)

\* The entries of the nodes N.
EntriesOf(N) == {Value(n) : n \in N}

\* Every entry of a node is as the node is, and written.
WrittenBack(k, c, t, N, D) ==
  /\ k \in Colls(D) /\ k.free = c.free
  /\ \A f \in D : f \notin EntriesOf(N) => k.dirs[f] = c.dirs[f] /\ k.saved[f] = c.saved[f]
  /\ \A f \in EntriesOf(N) : /\ k.saved[f] = k.dirs[f] /\ k.dirs[f].kind = c.dirs[f].kind
                             /\ k.dirs[f].name = c.dirs[f].name /\ k.dirs[f].child = c.dirs[f].child
  /\ \A n \in N : Agrees(k, t, n)

(* WriteBack brings the entries up to the tree, when those that are not      *)
(* marked are so already.                                                    *)
LEMMA WriteBackFields ==
  ASSUME NEW D, D \subseteq Nat, NEW N, N \subseteq NodesOf(D), NEW t \in Trees(N), Nil \notin Nat \cup (Nat \X Nat),
         OneEach(N), Sound(t), t.root # Nil, NEW c \in Colls(D), NEW new, new \in N => new \in t.dirty,
         \A n \in N : n \notin t.dirty => Agrees(c, t, n),
         \A n \in N : n # new => c.saved[Value(n)] = c.dirs[Value(n)]
  PROVE WrittenBack(WriteBack(c, t, new), c, t, N, D)
<1> DEFINE k == WriteBack(c, t, new)
<1>1. Written(k, c, t, new, N, D)
  BY WriteBackDone
<1> HIDE DEF k
<1>2. \A n \in N : Value(n) \in D
  BY NodeFacts
<1>3. N \cap t.dirty = t.dirty
  BY Fields
<1>4. /\ k \in Colls(D) /\ k.free = c.free
      /\ \A n \in t.dirty : /\ k.dirs[Value(n)] = Modified(c, t, n)
                            /\ \/ k.saved[Value(n)] = k.dirs[Value(n)]
                               \/ n # new /\ k.dirs[Value(n)] = c.dirs[Value(n)] /\ k.saved[Value(n)] = c.saved[Value(n)]
      /\ \A f \in D : (\A n \in t.dirty : Value(n) # f) => k.dirs[f] = c.dirs[f] /\ k.saved[f] = c.saved[f]
  BY <1>1, <1>3 DEF Written
<1>5. \A f \in D : f \notin EntriesOf(N) => k.dirs[f] = c.dirs[f] /\ k.saved[f] = c.saved[f]
  BY <1>3, <1>4 DEF EntriesOf
<1>6. ASSUME NEW n \in N
      PROVE LET f == Value(n) IN
            /\ k.saved[f] = k.dirs[f] /\ k.dirs[f].kind = c.dirs[f].kind
            /\ k.dirs[f].name = c.dirs[f].name /\ k.dirs[f].child = c.dirs[f].child
            /\ Agrees(k, t, n)
  <2> DEFINE f == Value(n)
  <2>1. CASE n \in t.dirty
    <3>1. k.dirs[f] = Modified(c, t, n)
      BY <1>4, <2>1
    <3>2. Brought(Modified(c, t, n), c.dirs[f], t, n)
      BY ModifiedFields
    <3>3. Agrees(k, t, n)
      BY <3>1, <3>2 DEF Brought, Agrees, Sides
    <3>4. n # new => c.saved[f] = c.dirs[f]
      OBVIOUS
    <3> QED
      BY <1>4, <2>1, <3>1, <3>2, <3>3, <3>4 DEF Brought
  <2>2. CASE n \notin t.dirty
    <3>1. \A m \in t.dirty : Value(m) # f
      BY <1>3, <2>2 DEF OneEach
    <3>2. k.dirs[f] = c.dirs[f] /\ k.saved[f] = c.saved[f]
      BY <1>2, <1>4, <3>1
    <3>3. Agrees(k, t, n)
      BY <2>2, <3>2 DEF Agrees
    <3>4. n # new
      BY <2>2
    <3> QED
      BY <3>2, <3>3, <3>4
  <2> QED
    BY <2>1, <2>2
<1>7. \A f \in EntriesOf(N) : /\ k.saved[f] = k.dirs[f] /\ k.dirs[f].kind = c.dirs[f].kind
                              /\ k.dirs[f].name = c.dirs[f].name /\ k.dirs[f].child = c.dirs[f].child
  BY <1>6 DEF EntriesOf
<1>8. \A n \in N : Agrees(k, t, n)
  BY <1>6
<1>9. WrittenBack(k, c, t, N, D)
  BY <1>4, <1>5, <1>7, <1>8 DEF WrittenBack
<1> QED
  BY <1>9 DEF k

\* The storage e has the tree t, in memory and in the sectors.
Relinked(r, c, e, t, N, D) ==
  /\ r \in Colls(D) /\ r.free = c.free
  /\ \A f \in D : f # e /\ f \notin EntriesOf(N) => r.dirs[f] = c.dirs[f] /\ r.saved[f] = c.saved[f]
  /\ \A f \in EntriesOf(N) \cup {e} : r.saved[f] = r.dirs[f]
  /\ \A f \in D : r.dirs[f].kind = c.dirs[f].kind /\ r.dirs[f].name = c.dirs[f].name
  /\ \A f \in D : f # e => r.dirs[f].child = c.dirs[f].child
  /\ \A f \in D : f \notin EntriesOf(N) => r.dirs[f].red = c.dirs[f].red /\ \A d \in Sides : r.dirs[f][d] = c.dirs[f][d]
  /\ r.dirs[e].child = Value(t.root)
  /\ \A n \in N : Agrees(r, t, n)

(* Adopt.                                                                    *)
LEMMA AdoptFields ==
  ASSUME NEW D, NEW N, EntriesOf(N) \subseteq D, NEW t, NEW c, NEW k, WrittenBack(k, c, t, N, D), NEW e \in D,
         c.saved[e] = c.dirs[e], Value(t.root) \in Nat
  PROVE Relinked(Adopt(k, e, t), c, e, t, N, D)
<1> DEFINE x == Value(t.root)
           r == Adopt(k, e, t)
<1>1. /\ k \in Colls(D) /\ k.free = c.free
      /\ \A f \in D : f \notin EntriesOf(N) => k.dirs[f] = c.dirs[f] /\ k.saved[f] = c.saved[f]
      /\ \A f \in EntriesOf(N) : /\ k.saved[f] = k.dirs[f] /\ k.dirs[f].kind = c.dirs[f].kind
                                 /\ k.dirs[f].name = c.dirs[f].name /\ k.dirs[f].child = c.dirs[f].child
      /\ \A n \in N : Agrees(k, t, n)
  BY DEF WrittenBack
<1>2. k.saved[e] = k.dirs[e]
  BY <1>1
<1>3. k = [dirs |-> k.dirs, free |-> k.free, saved |-> k.saved]
  BY <1>1 DEF Colls
<1> DEFINE ent == [k.dirs[e] EXCEPT !.child = x]
           k2 == [k EXCEPT !.dirs[e].child = x]
<1>4. r = IF k.dirs[e].child = x THEN k ELSE Update(k2, e)
  BY DEF Adopt
<1>5. k.dirs \in [D -> Entry] /\ k.saved \in [D -> Entry] /\ k.free \in SUBSET D
  BY <1>1 DEF Colls
<1>6. k.dirs[e] \in Entry
  BY <1>5
<1>7. /\ ent \in Entry /\ ent.kind = k.dirs[e].kind /\ ent.name = k.dirs[e].name /\ ent.red = k.dirs[e].red
      /\ ent.child = x /\ \A d \in Sides : ent[d] = k.dirs[e][d]
  BY <1>6 DEF Entry, Sides
<1>8. k2 = [dirs |-> [k.dirs EXCEPT ![e] = ent], free |-> k.free, saved |-> k.saved]
  BY <1>3
<1>9. Update(k2, e) = [k2 EXCEPT !.saved[e] = k2.dirs[e]]
  BY DEF Update
<1> HIDE DEF r, k2, ent, x
<1>10. k2.dirs[e] = ent
  BY <1>5, <1>8
<1>11. Update(k2, e) = [dirs |-> [k.dirs EXCEPT ![e] = ent], free |-> k.free, saved |-> [k.saved EXCEPT ![e] = ent]]
  BY <1>8, <1>9, <1>10
<1>12. /\ r \in Colls(D) /\ r.free = k.free
       /\ \A f \in D : f # e => r.dirs[f] = k.dirs[f] /\ r.saved[f] = k.saved[f]
       /\ r.saved[e] = r.dirs[e] /\ r.dirs[e].kind = k.dirs[e].kind /\ r.dirs[e].name = k.dirs[e].name
       /\ r.dirs[e].red = k.dirs[e].red /\ r.dirs[e].child = x /\ \A d \in Sides : r.dirs[e][d] = k.dirs[e][d]
  <2>1. CASE k.dirs[e].child = x
    BY <1>1, <1>2, <1>4, <2>1
  <2>2. CASE k.dirs[e].child # x
    <3>1. r = [dirs |-> [k.dirs EXCEPT ![e] = ent], free |-> k.free, saved |-> [k.saved EXCEPT ![e] = ent]]
      BY <1>4, <1>11, <2>2
    <3>2. r \in Colls(D)
      BY <1>5, <1>7, <3>1 DEF Colls
    <3>3. r.dirs[e] = ent /\ r.saved[e] = ent /\ r.free = k.free
      BY <1>5, <3>1
    <3>4. \A f \in D : f # e => r.dirs[f] = k.dirs[f] /\ r.saved[f] = k.saved[f]
      BY <1>5, <3>1
    <3> QED
      BY <1>7, <3>2, <3>3, <3>4
  <2> QED
    BY <2>1, <2>2
<1>13. \A f \in D : /\ r.dirs[f].kind = k.dirs[f].kind /\ r.dirs[f].name = k.dirs[f].name
                    /\ r.dirs[f].red = k.dirs[f].red /\ \A d \in Sides : r.dirs[f][d] = k.dirs[f][d]
  BY <1>12
<1>14. \A n \in N : Agrees(r, t, n)
  <2>1. \A n \in N : Value(n) \in D
    BY DEF EntriesOf
  <2> QED
    BY <1>1, <1>13, <2>1 DEF Agrees
<1>15. \A f \in EntriesOf(N) \cup {e} : r.saved[f] = r.dirs[f]
  BY <1>1, <1>12
<1>16. \A f \in D : r.dirs[f].kind = c.dirs[f].kind /\ r.dirs[f].name = c.dirs[f].name
  BY <1>1, <1>13
<1>17. \A f \in D : f # e => r.dirs[f].child = c.dirs[f].child
  BY <1>1, <1>12
<1>18. \A f \in D : f \notin EntriesOf(N) => r.dirs[f].red = c.dirs[f].red /\ \A d \in Sides : r.dirs[f][d] = c.dirs[f][d]
  BY <1>1, <1>13
<1>19. \A f \in D : f # e /\ f \notin EntriesOf(N) => r.dirs[f] = c.dirs[f] /\ r.saved[f] = c.saved[f]
  BY <1>1, <1>12
<1> QED
  BY <1>1, <1>12, <1>14, <1>15, <1>16, <1>17, <1>18, <1>19 DEF Relinked, r, x

(* The entries of a tree are linked as its nodes, and span it.               *)
LEMMA TreeLinks ==
  ASSUME NEW D, D \subseteq Nat, NEW N, N \subseteq NodesOf(D), NEW t \in Trees(N), Nil \notin Nat \cup (Nat \X Nat),
         OneEach(N), Sound(t), t.root # Nil, NEW c, NEW e, \A n \in N : Agrees(c, t, n),
         c.dirs[e].child = Value(t.root)
  PROVE /\ c.dirs[e].child \in EntriesOf(N)
        /\ \A f \in EntriesOf(N), d \in Sides : c.dirs[f][d] \in EntriesOf(N) \cup {Nil}
        /\ Spanned(c.dirs, e, EntriesOf(N)) /\ SingleLinks(c.dirs, e, EntriesOf(N))
<1>1. Nil \notin N /\ \A n \in N, d \in Sides : /\ ValueOf(t[d][n]) = Nil <=> t[d][n] = Nil
                                                /\ t[d][n] # Nil => t[d][n] \in N /\ ValueOf(t[d][n]) = Value(t[d][n])
  <2>1. Nil \notin N
    BY NodeFacts
  <2>2. ASSUME NEW n \in N, NEW d \in Sides
        PROVE /\ ValueOf(t[d][n]) = Nil <=> t[d][n] = Nil
              /\ t[d][n] # Nil => t[d][n] \in N /\ ValueOf(t[d][n]) = Value(t[d][n])
    <3>1. t[d][n] \in N \cup {Nil}
      BY Fields
    <3>2. \A m \in N : Value(m) \in D
      BY NodeFacts
    <3> QED
      BY <2>1, <3>1, <3>2 DEF ValueOf
  <2> QED
    BY <2>1, <2>2
<1>2. t.root \in N
  BY Fields
<1>3. \A n \in N, d \in Sides : c.dirs[Value(n)][d] = ValueOf(t[d][n])
  BY DEF Agrees
<1>4. \A n \in N, d \in Sides : c.dirs[Value(n)][d] \in EntriesOf(N) \cup {Nil}
  <2>1. SUFFICES ASSUME NEW n \in N, NEW d \in Sides PROVE ValueOf(t[d][n]) \in EntriesOf(N) \cup {Nil}
    BY <1>3
  <2> QED
    BY <1>1 DEF EntriesOf
<1>5. ASSUME NEW C \in SUBSET EntriesOf(N), c.dirs[e].child # Nil => c.dirs[e].child \in C,
             \A f \in C, d \in Sides : c.dirs[f][d] # Nil => c.dirs[f][d] \in C
      PROVE C = EntriesOf(N)
  <2> DEFINE X == {n \in N : Value(n) \in C}
  <2>1. t.root \in X
    <3>1. Value(t.root) \in D /\ Value(t.root) # Nil
      <4>1. Value(t.root) \in D
        BY <1>2, NodeFacts
      <4> QED
        BY <4>1
    <3> QED
      BY <1>2, <1>5, <3>1
  <2>2. ASSUME NEW n \in X, NEW d \in Sides, t[d][n] # Nil PROVE t[d][n] \in X
    <3>1. ValueOf(t[d][n]) # Nil /\ t[d][n] \in N /\ ValueOf(t[d][n]) = Value(t[d][n])
      BY <1>1, <2>2
    <3>2. c.dirs[Value(n)][d] = Value(t[d][n]) /\ Value(t[d][n]) # Nil
      BY <1>3, <3>1
    <3> QED
      BY <1>5, <3>1, <3>2
  <2>3. X \in SUBSET N
    OBVIOUS
  <2> HIDE DEF X
  <2>4. X = N
    BY <1>1, <2>1, <2>2, <2>3, TreeSpans
  <2> QED
    BY <2>4 DEF X, EntriesOf
<1>6. Spanned(c.dirs, e, EntriesOf(N))
  BY <1>5 DEF Spanned
<1>7. LinksAgree(t) /\ Nodes(t) = N
  BY <1>1, SoundLinks, Fields
<1>8. /\ \A n \in N, d \in Sides : t[d][n] # Nil => t.parent[t[d][n]] = n
      /\ t.parent[t.root] = Nil /\ \A n \in N : t.left[n] # Nil => t.left[n] # t.right[n]
  BY <1>2, <1>7 DEF LinksAgree, Sides
<1>9. ASSUME NEW m \in N, NEW d \in Sides, c.dirs[Value(m)][d] # Nil
      PROVE t[d][m] \in N /\ t.parent[t[d][m]] = m /\ c.dirs[Value(m)][d] = Value(t[d][m])
  BY <1>1, <1>3, <1>8, <1>9
<1>10. SingleLinks(c.dirs, e, EntriesOf(N))
  <2>1. ASSUME NEW m \in N, NEW d \in Sides, c.dirs[Value(m)][d] # Nil PROVE c.dirs[Value(m)][d] # c.dirs[e].child
    <3>1. t[d][m] \in N /\ t.parent[t[d][m]] = m /\ c.dirs[Value(m)][d] = Value(t[d][m])
      BY <1>9, <2>1
    <3>2. t[d][m] # t.root
      BY <1>1, <1>8, <3>1
    <3> QED
      BY <1>2, <3>1, <3>2 DEF OneEach
  <2>2. ASSUME NEW m \in N, NEW n \in N, NEW d \in Sides, NEW s \in Sides, c.dirs[Value(m)][d] # Nil,
               c.dirs[Value(m)][d] = c.dirs[Value(n)][s]
        PROVE Value(m) = Value(n) /\ d = s
    <3>1. /\ t[d][m] \in N /\ t.parent[t[d][m]] = m /\ c.dirs[Value(m)][d] = Value(t[d][m])
          /\ t[s][n] \in N /\ t.parent[t[s][n]] = n /\ c.dirs[Value(n)][s] = Value(t[s][n])
      BY <1>9, <2>2
    <3>2. t[d][m] = t[s][n] /\ m = n /\ t[d][m] # Nil
      <4>1. Value(t[d][m]) = Value(t[s][n])
        BY <2>2, <3>1
      <4>2. t[d][m] = t[s][n]
        BY <1>2, <3>1, <4>1 DEF OneEach
      <4>3. Nil \notin N
        BY <1>1
      <4> QED
        BY <3>1, <4>2, <4>3
    <3>3. d = s
      BY <1>8, <3>2 DEF Sides
    <3> QED
      BY <3>2, <3>3
  <2> QED
    BY <2>1, <2>2 DEF SingleLinks, EntriesOf
<1> QED
  BY <1>2, <1>4, <1>6, <1>10 DEF EntriesOf

\* The storage e has the entries X, and no others.
Reowned(own, e, X) ==
  [f \in DOMAIN own |-> IF f \in X THEN e ELSE IF own[f] = e THEN Nil ELSE own[f]]

(* The owners there are then.                                                *)
LEMMA ReownedFields ==
  ASSUME NEW D, Nil \notin D, NEW own \in [D -> D \cup {Nil}], NEW e \in D, NEW X \in SUBSET D,
         \A f \in X : own[f] \in {e, Nil}
  PROVE LET own2 == Reowned(own, e, X) IN
        /\ own2 \in [D -> D \cup {Nil}] /\ Owned(own2, e) = X
        /\ \A f \in X : own2[f] = e
        /\ \A f \in D : f \notin X => own2[f] # e /\ (own[f] = Nil => own2[f] = Nil)
        /\ \A f \in D : own2[f] # Nil /\ own2[f] # e => f \notin X /\ own2[f] = own[f]
        /\ \A g \in D : g # e => Owned(own2, g) = Owned(own, g)
<1> DEFINE own2 == Reowned(own, e, X)
<1>1. own2 = [f \in D |-> IF f \in X THEN e ELSE IF own[f] = e THEN Nil ELSE own[f]]
  BY DEF Reowned
<1>2. e # Nil
  OBVIOUS
<1> HIDE DEF own2
<1>3. own2 \in [D -> D \cup {Nil}]
  BY <1>1
<1>4. \A f \in D : own2[f] = IF f \in X THEN e ELSE IF own[f] = e THEN Nil ELSE own[f]
  BY <1>1
<1>5. Owned(own2, e) = X
  BY <1>2, <1>3, <1>4 DEF Owned
<1>6. \A f \in D : f \notin X => own2[f] # e /\ (own[f] = Nil => own2[f] = Nil)
  BY <1>2, <1>4
<1>7. \A f \in D : own2[f] # Nil /\ own2[f] # e => f \notin X /\ own2[f] = own[f]
  BY <1>4
<1>8. ASSUME NEW g \in D, g # e PROVE Owned(own2, g) = Owned(own, g)
  <2>1. \A f \in D : own2[f] = g <=> own[f] = g
    BY <1>4, <1>8
  <2> QED
    BY <1>3, <2>1 DEF Owned
<1> QED
  BY <1>3, <1>4, <1>5, <1>6, <1>7, <1>8 DEF own2

(* A collection in which the storage e has got the tree t is one.            *)
LEMMA RelinkedCollected ==
  ASSUME NEW c, NEW own, NEW D, Collected(c, own, D), Nil \notin Nat, NEW c2, NEW e \in D, NEW t, NEW N,
         EntriesOf(N) \subseteq D, Relinked(c2, c, e, t, N, D), e = 0 \/ c.dirs[e].kind = "storage",
         Spanned(c2.dirs, e, EntriesOf(N)), SingleLinks(c2.dirs, e, EntriesOf(N)),
         \A f \in EntriesOf(N) : own[f] \in {e, Nil} /\ f # 0 /\ f \notin c.free /\ c.dirs[f].kind # "unallocated",
         c2.dirs[e].child \in EntriesOf(N),
         \A f \in EntriesOf(N), d \in Sides : c2.dirs[f][d] \in EntriesOf(N) \cup {Nil},
         \A f, g \in EntriesOf(N) : f # g /\ c.dirs[f].name = c.dirs[g].name => IllFormed(c.dirs[f].name)
  PROVE LET own2 == Reowned(own, e, EntriesOf(N)) IN
        /\ Collected(c2, own2, D)
        /\ Held(c, e, D) => Held(c2, e, D)
        /\ \A g \in D : g # e => Spared(c2, own2, D, c, own, D, g)
<1> DEFINE X == EntriesOf(N)
           own2 == Reowned(own, e, X)
<1>1. /\ Numbered(D) /\ own \in [D -> D \cup {Nil}] /\ RootUsed(c, own) /\ FreeEmpty(c, own) /\ LinksOwned(c.dirs, own)
      /\ SavedAs(c, own) /\ NamesDiffer(c.dirs, own) /\ c \in Colls(D)
      /\ EachHangs(c.dirs, own) /\ StoragesHave(c, own)
  BY DEF Collected
<1>2. Nil \notin D /\ 0 \in D
  BY <1>1, NumberedCount
<1>3. /\ own2 \in [D -> D \cup {Nil}] /\ Owned(own2, e) = X
      /\ \A f \in X : own2[f] = e
      /\ \A f \in D : f \notin X => own2[f] # e /\ (own[f] = Nil => own2[f] = Nil)
      /\ \A f \in D : own2[f] # Nil /\ own2[f] # e => f \notin X /\ own2[f] = own[f]
      /\ \A g \in D : g # e => Owned(own2, g) = Owned(own, g)
  BY <1>1, <1>2, ReownedFields
<1>4. /\ c2 \in Colls(D) /\ c2.free = c.free
      /\ \A f \in D : f # e /\ f \notin X => c2.dirs[f] = c.dirs[f] /\ c2.saved[f] = c.saved[f]
      /\ \A f \in X \cup {e} : c2.saved[f] = c2.dirs[f]
      /\ \A f \in D : c2.dirs[f].kind = c.dirs[f].kind /\ c2.dirs[f].name = c.dirs[f].name
      /\ \A f \in D : f # e => c2.dirs[f].child = c.dirs[f].child
      /\ \A f \in D : f \notin X => c2.dirs[f].red = c.dirs[f].red /\ \A d \in Sides : c2.dirs[f][d] = c.dirs[f][d]
  BY DEF Relinked
<1>5. DOMAIN own = D /\ DOMAIN own2 = D /\ X \subseteq D /\ c.free \subseteq D
  BY <1>1, <1>3 DEF Colls
<1>6. /\ \A f \in X : own[f] \in {e, Nil} /\ f # 0 /\ f \notin c.free /\ c.dirs[f].kind # "unallocated"
      /\ c2.dirs[e].child \in X /\ \A f \in X, d \in Sides : c2.dirs[f][d] \in X \cup {Nil}
      /\ \A f, g \in X : f # g /\ c.dirs[f].name = c.dirs[g].name => IllFormed(c.dirs[f].name)
      /\ Spanned(c2.dirs, e, X) /\ SingleLinks(c2.dirs, e, X) /\ (e = 0 \/ c.dirs[e].kind = "storage")
  OBVIOUS
<1> HIDE DEF X, own2
<1>18. e \notin c.free /\ c.dirs[e].kind # "unallocated"
  <2>1. c.dirs[0].kind = "root" /\ 0 \notin c.free /\ \A f \in c.free : c.dirs[f].kind = "unallocated"
    BY <1>1 DEF RootUsed, FreeEmpty, EmptyEntry
  <2> QED
    BY <1>6, <2>1
<1>7. RootUsed(c2, own2)
  BY <1>1, <1>2, <1>3, <1>4, <1>6 DEF RootUsed
<1>8. FreeEmpty(c2, own2)
  BY <1>1, <1>3, <1>4, <1>5, <1>6, <1>18 DEF FreeEmpty
<1>9. LinksOwned(c2.dirs, own2)
  <2>1. ASSUME NEW f \in D, own2[f] # Nil
        PROVE c2.dirs[f].kind # "unallocated" /\ \A d \in Sides : c2.dirs[f][d] \in Owned(own2, own2[f]) \cup {Nil}
    <3>1. CASE f \in X
      BY <1>3, <1>4, <1>5, <1>6, <3>1
    <3>2. CASE f \notin X
      <4>1. own2[f] # e /\ own2[f] = own[f] /\ own[f] \in D
        BY <1>3, <1>1, <2>1, <3>2
      <4>2. c.dirs[f].kind # "unallocated" /\ \A d \in Sides : c.dirs[f][d] \in Owned(own, own[f]) \cup {Nil}
        BY <1>1, <1>5, <2>1, <4>1 DEF LinksOwned
      <4> QED
        BY <1>3, <1>4, <3>2, <4>1, <4>2
    <3> QED
      BY <3>1, <3>2
  <2>2. ASSUME NEW g \in D PROVE c2.dirs[g].child \in Owned(own2, g) \cup {Nil}
    <3>1. CASE g = e
      BY <1>3, <1>6, <3>1
    <3>2. CASE g # e
      BY <1>1, <1>3, <1>4, <1>5, <3>2 DEF LinksOwned
    <3> QED
      BY <3>1, <3>2
  <2> QED
    BY <1>5, <2>1, <2>2 DEF LinksOwned
<1>10. SavedAs(c2, own2)
  <2>1. ASSUME NEW f \in D
        PROVE /\ \/ c2.saved[f] = c2.dirs[f]
                 \/ own2[f] = Nil /\ f # 0 /\ c2.saved[f] = EmptyEntry
              /\ c2.saved[f].kind = "unallocated" => c2.saved[f] = EmptyEntry
    <3>1. CASE f \in X \cup {e}
      BY <1>4, <1>5, <1>6, <1>18, <3>1
    <3>2. CASE f \notin X \cup {e}
      <4>1. c2.dirs[f] = c.dirs[f] /\ c2.saved[f] = c.saved[f] /\ (own[f] = Nil => own2[f] = Nil)
        BY <1>3, <1>4, <3>2
      <4> QED
        BY <1>1, <1>5, <4>1 DEF SavedAs
    <3> QED
      BY <3>1, <3>2
  <2> QED
    BY <1>5, <2>1 DEF SavedAs
<1>11. NamesDiffer(c2.dirs, own2)
  <2>1. ASSUME NEW f \in D, NEW g \in D, own2[f] # Nil, own2[f] = own2[g], f # g,
               c2.dirs[f].name = c2.dirs[g].name
        PROVE IllFormed(c2.dirs[f].name)
    <3>1. c.dirs[f].name = c.dirs[g].name /\ c2.dirs[f].name = c.dirs[f].name
      BY <1>4, <2>1
    <3>2. CASE own2[f] = e
      <4>1. f \in X /\ g \in X
        BY <1>3, <2>1, <3>2
      <4> QED
        BY <1>6, <2>1, <3>1, <4>1
    <3>3. CASE own2[f] # e
      <4>1. own[f] # Nil /\ own[f] = own[g]
        BY <1>3, <2>1, <3>3
      <4> QED
        BY <1>1, <1>5, <2>1, <3>1, <4>1 DEF NamesDiffer
    <3> QED
      BY <3>2, <3>3
  <2> QED
    BY <1>5, <2>1 DEF NamesDiffer
<1>12. \A g \in D : Held(c, g, D) => Held(c2, g, D)
  <2>1. \A g \in D : c.saved[g] = c.dirs[g] => c2.saved[g] = c2.dirs[g]
    BY <1>4
  <2> QED
    BY <1>4, <2>1 DEF Held, Used
<1>13. ASSUME NEW g \in D, g # e PROVE Untouched(c2, own2, c, own, g)
  <2>1. Owned(own2, g) = Owned(own, g) /\ c2.dirs[g].child = c.dirs[g].child
    BY <1>3, <1>4, <1>13
  <2>2. \A f \in Owned(own, g) : f \in D /\ f \notin X
    BY <1>2, <1>5, <1>6, <1>13 DEF Owned
  <2> QED
    BY <1>4, <2>1, <2>2 DEF Untouched
<1>14. \A g \in D : g # e => Spared(c2, own2, D, c, own, D, g)
  BY <1>12, <1>13 DEF Spared
<1>15. EachHangs(c2.dirs, own2)
  <2>1. Hangs(c2.dirs, own2, e)
    BY <1>3, <1>6 DEF Hangs
  <2>2. \A g \in D : g # e => Hangs(c2.dirs, own2, g)
    BY <1>1, <1>5, <1>13, HangsUntouched DEF EachHangs
  <2> QED
    BY <1>5, <2>1, <2>2 DEF EachHangs
<1>16. StoragesHave(c2, own2)
  <2>1. SUFFICES ASSUME NEW f \in D, c2.dirs[f].child # Nil
                 PROVE (f = 0 \/ c2.dirs[f].kind = "storage") /\ c2.saved[f] = c2.dirs[f]
    BY <1>5 DEF StoragesHave
  <2>2. CASE f = e
    BY <1>4, <1>6, <2>2
  <2>3. CASE f # e
    <3>1. (f = 0 \/ c.dirs[f].kind = "storage") /\ c.saved[f] = c.dirs[f]
      BY <1>1, <1>4, <1>5, <2>1, <2>3 DEF StoragesHave
    <3> QED
      BY <1>4, <2>3, <3>1
  <2> QED
    BY <2>2, <2>3
<1>17. Collected(c2, own2, D)
  BY <1>1, <1>3, <1>4, <1>7, <1>8, <1>9, <1>10, <1>11, <1>15, <1>16 DEF Collected
<1> QED
  BY <1>12, <1>14, <1>17 DEF own2, X

\* The entries S have the kinds and the names they had.
LabelsKept(c2, c, S) == \A f \in S : c2.dirs[f].kind = c.dirs[f].kind /\ c2.dirs[f].name = c.dirs[f].name

\* A call has left the storage e with the tree t, in the entries own2 gives it.
Done(c2, own2, c, own, e, t, D, wrong) ==
  /\ Collected(c2, own2, D) /\ Held(c2, e, D) /\ Fits(c2, own2, e, Clean(t)) /\ Cached(Clean(t), D, wrong)
  /\ \A g \in D : g # e => Spared(c2, own2, D, c, own, D, g)

\* The node is of a new entry, that no storage has.
NewIn(c, own, n) ==
  /\ own[Value(n)] = Nil /\ Value(n) # 0 /\ Value(n) \notin c.free
  /\ c.dirs[Value(n)].kind # "unallocated"

\* The tree t of the storage e: the nodes are its entries', but for a new one,
\* and those not marked agree with them.
Current2(c, own, e, t, N, new) ==
  /\ \A n \in N : IF n = new THEN n \in t.dirty /\ NewIn(c, own, n) ELSE own[Value(n)] = e
  /\ \A n \in N : n \notin t.dirty => Agrees(c, t, n)
  /\ \A n \in N : Key(n) = c.dirs[Value(n)].name
  /\ \A n \in N : new \in N /\ n # new /\ Key(n) = Key(new) => IllFormed(Key(new))

(* The loop over the tree and the storage's entry bring the storage up to    *)
(* the tree.                                                                 *)
LEMMA RelinkDone ==
  ASSUME NEW D, NEW c, NEW own, Collected(c, own, D), NEW e, Held(c, e, D), NEW N, N \subseteq NodesOf(D),
         NEW t \in Trees(N), Sound(t), t.root # Nil, NEW wrong, wrong \/ EvenBlack(t), NEW new,
         Current2(c, own, e, t, N, new)
  PROVE /\ Done(Adopt(WriteBack(c, t, new), e, t), Reowned(own, e, EntriesOf(N)), c, own, e, t, D, wrong)
        /\ Adopt(WriteBack(c, t, new), e, t).free = c.free
        /\ LabelsKept(Adopt(WriteBack(c, t, new), e, t), c, D)
<1> DEFINE X == EntriesOf(N)
           own2 == Reowned(own, e, X)
           k == WriteBack(c, t, new)
           c2 == Adopt(k, e, t)
<1>1. /\ Numbered(D) /\ own \in [D -> D \cup {Nil}] /\ RootUsed(c, own) /\ FreeEmpty(c, own) /\ LinksOwned(c.dirs, own)
      /\ SavedAs(c, own) /\ NamesDiffer(c.dirs, own) /\ c \in Colls(D)
      /\ EachHangs(c.dirs, own) /\ StoragesHave(c, own)
  BY DEF Collected
<1>2. Nil \notin Nat \cup (Nat \X Nat) /\ Nil \notin Nat
  BY StorageAssumption DEF StorageAssumption
<1>3. D \subseteq Nat /\ 0 \in D /\ Nil \notin D /\ DOMAIN own = D
  BY <1>1, <1>2, NumberedCount
<1>4. Nil \notin N /\ \A n \in N : Key(n) \in Nat /\ Value(n) \in D /\ n = NewNode(Key(n), Value(n))
  BY <1>2, <1>3, NodeFacts
<1>5. /\ \A n \in N : IF n = new THEN n \in t.dirty /\ NewIn(c, own, n) ELSE own[Value(n)] = e
      /\ \A n \in N : n \notin t.dirty => Agrees(c, t, n)
      /\ \A n \in N : Key(n) = c.dirs[Value(n)].name
      /\ \A n \in N : new \in N /\ n # new /\ Key(n) = Key(new) => IllFormed(Key(new))
  BY DEF Current2
<1>6. e \in D /\ c.saved[e] = c.dirs[e] /\ e # Nil /\ (e = 0 \/ c.dirs[e].kind = "storage")
  BY <1>3 DEF Held, Used
<1>7. OneEach(N)
  <2>1. ASSUME NEW m \in N, NEW n \in N, Value(m) = Value(n) PROVE m = n
    <3>1. Key(m) = Key(n)
      BY <1>5, <2>1
    <3> QED
      BY <1>4, <2>1, <3>1
  <2> QED
    BY <2>1 DEF OneEach
<1>8. \A n \in N : n # new => /\ c.saved[Value(n)] = c.dirs[Value(n)] /\ Value(n) # 0 /\ Value(n) \notin c.free
                              /\ c.dirs[Value(n)].kind # "unallocated"
  <2>1. SUFFICES ASSUME NEW n \in N, n # new
                 PROVE /\ c.saved[Value(n)] = c.dirs[Value(n)] /\ Value(n) # 0 /\ Value(n) \notin c.free
                       /\ c.dirs[Value(n)].kind # "unallocated"
    OBVIOUS
  <2>2. own[Value(n)] = e /\ Value(n) \in D /\ own[Value(n)] # Nil
    BY <1>4, <1>5, <1>6, <2>1
  <2>3. c.saved[Value(n)] = c.dirs[Value(n)]
    BY <1>1, <1>3, <2>2 DEF SavedAs
  <2>4. Value(n) # 0 /\ Value(n) \notin c.free
    BY <1>1, <2>2 DEF RootUsed, FreeEmpty
  <2>5. c.dirs[Value(n)].kind # "unallocated"
    BY <1>1, <1>3, <2>2 DEF LinksOwned
  <2> QED
    BY <2>3, <2>4, <2>5
<1>9. WrittenBack(k, c, t, N, D)
  BY <1>1, <1>2, <1>3, <1>5, <1>7, <1>8, WriteBackFields
<1>10. X \subseteq D /\ Value(t.root) \in Nat /\ Value(t.root) \in X
  <2>1. t.root \in N
    BY Fields
  <2> QED
    BY <1>3, <1>4, <2>1 DEF EntriesOf
<1> HIDE DEF k
<1>11. Relinked(c2, c, e, t, N, D)
  BY <1>6, <1>9, <1>10, AdoptFields
<1> HIDE DEF c2
<1>12. c2.dirs[e].child = Value(t.root) /\ \A n \in N : Agrees(c2, t, n)
  BY <1>11 DEF Relinked
<1>13. /\ c2.dirs[e].child \in X /\ \A f \in X, d \in Sides : c2.dirs[f][d] \in X \cup {Nil}
       /\ Spanned(c2.dirs, e, X) /\ SingleLinks(c2.dirs, e, X)
  BY <1>2, <1>3, <1>7, <1>12, TreeLinks
<1>14. \A f \in X : own[f] \in {e, Nil} /\ f # 0 /\ f \notin c.free /\ c.dirs[f].kind # "unallocated"
  <2>1. SUFFICES ASSUME NEW n \in N
                 PROVE LET f == Value(n) IN
                       own[f] \in {e, Nil} /\ f # 0 /\ f \notin c.free /\ c.dirs[f].kind # "unallocated"
    BY DEF EntriesOf
  <2> QED
    BY <1>5, <1>8 DEF NewIn
<1>15. \A f, g \in X : f # g /\ c.dirs[f].name = c.dirs[g].name => IllFormed(c.dirs[f].name)
  <2>1. SUFFICES ASSUME NEW m \in N, NEW n \in N, Value(m) # Value(n), Key(m) = Key(n)
                 PROVE IllFormed(Key(m))
    BY <1>5 DEF EntriesOf
  <2>2. CASE m = new \/ n = new
    BY <1>5, <2>1, <2>2
  <2>3. CASE m # new /\ n # new
    <3>1. own[Value(m)] = e /\ own[Value(n)] = e /\ Value(m) \in D /\ Value(n) \in D
      BY <1>4, <1>5, <2>3
    <3>2. c.dirs[Value(m)].name = c.dirs[Value(n)].name
      BY <1>5, <2>1
    <3>3. IllFormed(c.dirs[Value(m)].name)
      BY <1>1, <1>3, <1>6, <2>1, <3>1, <3>2 DEF NamesDiffer
    <3> QED
      BY <1>5, <3>3
  <2> QED
    BY <2>2, <2>3
<1>16. /\ Collected(c2, own2, D) /\ (Held(c, e, D) => Held(c2, e, D))
       /\ \A g \in D : g # e => Spared(c2, own2, D, c, own, D, g)
  BY <1>2, <1>6, <1>10, <1>11, <1>13, <1>14, <1>15, RelinkedCollected
<1>17. Owned(own2, e) = X
  <2>1. \A f \in X : own[f] \in {e, Nil}
    BY <1>14
  <2>2. own \in [D -> D \cup {Nil}] /\ Nil \notin D /\ e \in D /\ X \in SUBSET D
    BY <1>1, <1>3, <1>6, <1>10
  <2>3. /\ own2 \in [D -> D \cup {Nil}] /\ Owned(own2, e) = X
        /\ \A f \in X : own2[f] = e
        /\ \A f \in D : f \notin X => own2[f] # e /\ (own[f] = Nil => own2[f] = Nil)
        /\ \A f \in D : own2[f] # Nil /\ own2[f] # e => f \notin X /\ own2[f] = own[f]
        /\ \A g \in D : g # e => Owned(own2, g) = Owned(own, g)
    <3> HIDE DEF X
    <3> QED
      BY <2>1, <2>2, ReownedFields
  <2> QED
    BY <2>3
<1>18. Clean(t) \in Trees(N) /\ Remarked(Clean(t), t, {})
  BY <1>4, CleanFields
<1> DEFINE q == Clean(t)
<1> HIDE DEF q, X, own2
<1>19. Nodes(q) = N /\ q.red = t.red /\ \A d \in Sides : q[d] = t[d]
  BY <1>18, Fields DEF q, Remarked
<1>20. Sound(q) /\ (wrong \/ EvenBlack(q))
  BY <1>18, RemarkedSound DEF q
<1>21. Cached(q, D, wrong)
  BY <1>18, <1>19, <1>20, Zenon DEF Cached, q
<1>22. Fits(c2, own2, e, q)
  <2>1. \A n \in N : Value(n) \in X /\ Key(n) = c2.dirs[Value(n)].name
    <3>1. \A n \in N : Value(n) \in X
      BY DEF X, EntriesOf
    <3>2. \A f \in D : c2.dirs[f].name = c.dirs[f].name
      BY <1>11 DEF Relinked
    <3> QED
      BY <1>4, <1>5, <3>1, <3>2
  <2>2. \A f \in X : \E n \in N : Value(n) = f
    BY DEF X, EntriesOf
  <2>3. \A n \in N : Agrees(c2, q, n)
    BY <1>12, <1>19 DEF Agrees, IsRed
  <2> QED
    BY <1>17, <1>19, <2>1, <2>2, <2>3 DEF Fits
<1>23. c2.free = c.free /\ LabelsKept(c2, c, D)
  BY <1>11 DEF Relinked, LabelsKept
<1> QED
  BY <1>16, <1>21, <1>22, <1>23 DEF Done, q, own2, X, c2, k

-----------------------------------------------------------------------------
(***************************************************************************)
(* AddStream and AddStorage.                                               *)
(***************************************************************************)

(* The new entry belongs to no storage yet, and nothing else has changed.    *)
LEMMA NewEntryCollected ==
  ASSUME NEW c, NEW own, NEW D, Collected(c, own, D), c.free # {}, NEW name \in Names,
         NEW kind \in {"storage", "stream"}
  PROVE LET c2 == NewEntry(c, name, kind) IN
        Collected(c2, own, D) /\ \A e \in D : Spared(c2, own, D, c, own, D, e)
<1> DEFINE id == Popped(c)
           c2 == NewEntry(c, name, kind)
<1>1. /\ Numbered(D) /\ own \in [D -> D \cup {Nil}] /\ RootUsed(c, own) /\ FreeEmpty(c, own) /\ LinksOwned(c.dirs, own)
      /\ SavedAs(c, own) /\ NamesDiffer(c.dirs, own) /\ c \in Colls(D)
      /\ EachHangs(c.dirs, own) /\ StoragesHave(c, own)
  BY DEF Collected
<1>2. D \subseteq Nat /\ Nil \notin D /\ DOMAIN own = D /\ 0 \in D
  BY <1>1, StorageAssumption, NumberedCount DEF StorageAssumption
<1>3. id \in c.free /\ id \in D
  BY <1>1, <1>2, PoppedFree
<1>4. /\ c2 \in Colls(D) /\ c2.free = c.free \ {id} /\ c2.saved = c.saved
      /\ \A f \in D : f # id => c2.dirs[f] = c.dirs[f]
      /\ c2.dirs[id].kind = kind /\ \A d \in Sides \cup {"child"} : c2.dirs[id][d] = c.dirs[id][d]
      /\ name \notin Refused => c2.dirs[id].name = Stored[name]
  <2>0. D \subseteq Nat /\ c \in Colls(D) /\ c.free # {}
    BY <1>1, <1>2
  <2>1. EntryMade(NewEntry(c, name, kind), c, Popped(c), name, kind, D)
    BY <2>0, NewEntryFields, Zenon
  <2> QED
    BY <2>1 DEF EntryMade
<1> HIDE DEF id, c2
<1>5. own[id] = Nil /\ c.dirs[id] = EmptyEntry /\ c.saved[id] = EmptyEntry /\ id # 0
  BY <1>1, <1>3 DEF FreeEmpty, RootUsed
<1>6. c2.dirs[id].child = Nil /\ c.dirs[id].child = Nil
  BY <1>4, <1>5 DEF EmptyEntry
<1>7. RootUsed(c2, own) /\ FreeEmpty(c2, own)
  <2>1. c.free \subseteq D
    BY <1>1 DEF Colls
  <2> QED
    BY <1>1, <1>2, <1>4, <1>5, <2>1 DEF RootUsed, FreeEmpty
<1>8. LinksOwned(c2.dirs, own)
  BY <1>1, <1>2, <1>4, <1>5, <1>6 DEF LinksOwned
<1>9. SavedAs(c2, own)
  BY <1>1, <1>2, <1>4, <1>5 DEF SavedAs
<1>10. NamesDiffer(c2.dirs, own)
  <2>1. ASSUME NEW f \in D, NEW g \in D, own[f] # Nil, own[f] = own[g], f # g, c2.dirs[f].name = c2.dirs[g].name
        PROVE IllFormed(c2.dirs[f].name)
    <3>1. c2.dirs[f] = c.dirs[f] /\ c2.dirs[g] = c.dirs[g]
      BY <1>4, <1>5, <2>1
    <3> QED
      BY <1>1, <1>2, <2>1, <3>1 DEF NamesDiffer
  <2> QED
    BY <1>2, <2>1 DEF NamesDiffer
<1>11. ASSUME NEW e \in D PROVE Spared(c2, own, D, c, own, D, e)
  <2>1. Held(c, e, D) => Held(c2, e, D)
    <3>1. e \notin c.free => e # id /\ e \notin c2.free
      BY <1>3, <1>4
    <3> QED
      BY <1>4, <3>1 DEF Held, Used
  <2>2. c2.dirs[e].child = c.dirs[e].child
    BY <1>4, <1>6
  <2>3. \A f \in Owned(own, e) : f \in D /\ f # id
    BY <1>2, <1>5 DEF Owned
  <2>4. Untouched(c2, own, c, own, e)
    BY <1>4, <2>2, <2>3 DEF Untouched
  <2> QED
    BY <2>1, <2>4 DEF Spared
<1>12. EachHangs(c2.dirs, own)
  BY <1>1, <1>2, <1>11, HangsUntouched DEF EachHangs, Spared
<1>13. StoragesHave(c2, own)
  BY <1>1, <1>2, <1>4, <1>6 DEF StoragesHave
<1>14. Collected(c2, own, D)
  BY <1>1, <1>4, <1>7, <1>8, <1>9, <1>10, <1>12, <1>13 DEF Collected
<1> QED
  BY <1>11, <1>14 DEF c2

\* A call has left the storage e with the tree t, and the new entry id, of the name x.
DoneWith(c2, own2, c, own, e, id, x, kind, t, D, wrong) ==
  /\ Done(c2, own2, c, own, e, t, D, wrong) /\ own2 = [own EXCEPT ![id] = e] /\ c2.free = c.free \ {id}
  /\ Used(c2, id, D) /\ c2.dirs[id].kind = kind /\ c2.dirs[id].name = x /\ LabelsKept(c2, c, D \ {id})

\* No name of t0 is the one given: the only entry of that name is the one that
\* an ill-formed name is stored as.
NameFree(t0, name) == \A n \in Nodes(t0) : Key(n) = Stored[name] => IllFormed(Stored[name])

(* An entry of a storage is in use, and written.                             *)
LEMMA OwnedUsed ==
  ASSUME NEW c, NEW own, NEW D, Collected(c, own, D), NEW f \in D, own[f] # Nil
  PROVE Used(c, f, D) /\ f # 0
<1>1. /\ own \in [D -> D \cup {Nil}] /\ RootUsed(c, own) /\ FreeEmpty(c, own) /\ LinksOwned(c.dirs, own) /\ SavedAs(c, own)
  BY DEF Collected
<1>2. f # 0 /\ f \notin c.free
  BY <1>1 DEF RootUsed, FreeEmpty
<1>3. c.dirs[f].kind # "unallocated" /\ c.saved[f] = c.dirs[f]
  BY <1>1 DEF LinksOwned, SavedAs
<1> QED
  BY <1>2, <1>3 DEF Used

(* The insertion of a new entry.                                             *)
LEMMA InsertedDone ==
  ASSUME NEW c0, NEW own, NEW D, Collected(c0, own, D), c0.free # {}, NEW e, Held(c0, e, D), NEW t0, NEW wrong,
         Cached(t0, D, wrong), Fits(c0, own, e, t0), NEW name \in Names \ Refused, NEW kind \in {"storage", "stream"},
         NameFree(t0, name)
  PROVE LET id == Popped(c0)
            node == NewNode(Stored[name], id)
            c == NewEntry(c0, name, kind)
            t == Insert(t0, node)
            own2 == Reowned(own, e, EntriesOf(Nodes(t0) \cup {node}))
        IN \/ t = NilPointer /\ wrong
           \/ /\ Grew(t, t0, node)
              /\ DoneWith(Inserted(c, e, t, node), own2, c0, own, e, id, Stored[name], kind, t, D, wrong)
<1> DEFINE id == Popped(c0)
           node == NewNode(Stored[name], id)
           c == NewEntry(c0, name, kind)
           t == Insert(t0, node)
           N0 == Nodes(t0)
           N == N0 \cup {node}
           own2 == Reowned(own, e, EntriesOf(N))
           c2 == Inserted(c, e, t, node)
<1>1. /\ Numbered(D) /\ own \in [D -> D \cup {Nil}] /\ FreeEmpty(c0, own) /\ RootUsed(c0, own) /\ c0 \in Colls(D)
  BY DEF Collected
<1>2. Nil \notin Nat \cup (Nat \X Nat) /\ Nil \notin Nat /\ Stored[name] \in Nat
  BY StorageAssumption DEF StorageAssumption
<1>3. D \subseteq Nat /\ Nil \notin D /\ DOMAIN own = D
  BY <1>1, <1>2, NumberedCount
<1>4. id \in c0.free /\ id \in D
  BY <1>1, <1>3, PoppedFree
<1>5. own[id] = Nil /\ id # 0
  BY <1>1, <1>4 DEF FreeEmpty, RootUsed
<1>6. /\ c \in Colls(D) /\ c.free = c0.free \ {id} /\ c.saved = c0.saved
      /\ \A f \in D : f # id => c.dirs[f] = c0.dirs[f]
      /\ c.dirs[id].kind = kind /\ \A d \in Sides \cup {"child"} : c.dirs[id][d] = c0.dirs[id][d]
      /\ name \notin Refused => c.dirs[id].name = Stored[name]
  <2>1. EntryMade(NewEntry(c0, name, kind), c0, Popped(c0), name, kind, D)
    <3>1. name \in Names /\ D \subseteq Nat /\ c0 \in Colls(D)
      BY <1>1, <1>3
    <3> HIDE DEF id, node, c, t, N0, N, own2, c2
    <3> QED
      BY <3>1, NewEntryFields
  <2> QED
    BY <2>1 DEF EntryMade
<1>7. Collected(c, own, D) /\ \A g \in D : Spared(c, own, D, c0, own, D, g)
  BY NewEntryCollected
<1>8. Key(node) = Stored[name] /\ Value(node) = id /\ node \in NodesOf(D) /\ node \in Nat \X Nat
  BY <1>2, <1>3, <1>4 DEF Key, Value, NewNode, NodesOf
<1> HIDE DEF id, c, node
<1>9. N0 \subseteq NodesOf(D) /\ t0 \in Trees(N0) /\ Sound(t0)
  BY DEF Cached
<1>14. Held(c, e, D) /\ Fits(c, own, e, t0)
  <2>1. e \in D
    BY DEF Held, Used
  <2>2. Spared(c, own, D, c0, own, D, e)
    BY <1>7, <2>1
  <2> QED
    BY <2>2, FitsUntouched DEF Spared
<1>10. /\ \A n \in N0 : Value(n) \in Owned(own, e) /\ Key(n) = c.dirs[Value(n)].name
       /\ \A n \in N0 : n \notin t0.dirty => Agrees(c, t0, n)
  BY <1>14 DEF Fits
<1>11. e \in D /\ e # Nil
  BY <1>3 DEF Held, Used
<1>12. node \notin N0 /\ Nil \notin N0 \cup {node}
  <2>1. node \notin N0
    BY <1>5, <1>8, <1>10, <1>11 DEF Owned
  <2>2. Nil \notin N0
    BY <1>2, <1>3, <1>9, NodeFacts
  <2> QED
    BY <1>2, <1>8, <2>1, <2>2
<1>13. \/ Grew(t, t0, node) /\ (EvenBlack(t0) => EvenBlack(t))
       \/ t = NilPointer /\ ~EvenBlack(t0)
  BY <1>2, <1>8, <1>9, <1>12, InsertSound
<1> HIDE DEF t
<1>15. CASE t = NilPointer /\ ~EvenBlack(t0)
  <2>1. wrong
    BY <1>15 DEF Cached
  <2> QED
    BY <1>15, <2>1 DEF t, node, id
<1>16. CASE Grew(t, t0, node) /\ (EvenBlack(t0) => EvenBlack(t))
  <2>1. t \in Trees(N) /\ Sound(t) /\ Marked(t0, t) /\ node \in t.dirty
    BY <1>16 DEF Grew
  <2>2. t.root # Nil
    <3>1. Nodes(t) = N
      BY <2>1, Fields
    <3> QED
      BY <2>1, <3>1 DEF Sound, Laid, AtRoot
  <2>3. wrong \/ EvenBlack(t)
    BY <1>16 DEF Cached
  <2>4. N \subseteq NodesOf(D)
    BY <1>8, <1>9
  <2>5. Current2(c, own, e, t, N, node)
    <3>1. \A n \in N : IF n = node THEN n \in t.dirty /\ NewIn(c, own, n) ELSE own[Value(n)] = e
      <4>1. NewIn(c, own, node)
        BY <1>5, <1>6, <1>8 DEF NewIn
      <4> QED
        BY <1>10, <2>1, <4>1 DEF Owned
    <3>2. ASSUME NEW n \in N, n \notin t.dirty PROVE Agrees(c, t, n)
      <4>1. n # node /\ n \in N0 /\ n \notin t0.dirty
        BY <2>1, <3>2 DEF Marked
      <4>2. Agrees(c, t0, n)
        BY <1>10, <4>1
      <4>3. (n \in t.red <=> n \in t0.red) /\ \A d \in Sides : t[d][n] = t0[d][n]
        BY <2>1, <3>2, <4>1 DEF Marked
      <4>4. IsRed(t, n) = IsRed(t0, n)
        BY <4>3 DEF IsRed
      <4> QED
        BY <4>2, <4>3, <4>4 DEF Agrees
    <3>3. \A n \in N : Key(n) = c.dirs[Value(n)].name
      BY <1>6, <1>8, <1>10
    <3>4. \A n \in N : node \in N /\ n # node /\ Key(n) = Key(node) => IllFormed(Key(node))
      BY <1>8 DEF NameFree
    <3> QED
      BY <3>1, <3>2, <3>3, <3>4 DEF Current2
  <2> HIDE DEF N, N0
  <2>6. /\ Done(Adopt(WriteBack(c, t, node), e, t), Reowned(own, e, EntriesOf(N)), c, own, e, t, D, wrong)
        /\ Adopt(WriteBack(c, t, node), e, t).free = c.free
        /\ LabelsKept(Adopt(WriteBack(c, t, node), e, t), c, D)
    BY <1>7, <1>14, <2>1, <2>2, <2>3, <2>4, <2>5, RelinkDone
  <2>7. /\ Done(c2, own2, c, own, e, t, D, wrong) /\ c2.free = c0.free \ {id} /\ LabelsKept(c2, c, D)
    BY <1>6, <2>6 DEF Inserted
  <2>12. own2 = [own EXCEPT ![id] = e]
    <3>1. EntriesOf(N) = Owned(own, e) \cup {id}
      <4>1. Owned(own, e) = EntriesOf(N0)
        BY <1>14 DEF Fits, EntriesOf, N0
      <4> QED
        BY <1>8, <4>1 DEF EntriesOf, N
    <3>2. \A f \in D : Reowned(own, e, EntriesOf(N))[f] = IF f = id THEN e ELSE own[f]
      BY <1>3, <3>1 DEF Reowned, Owned
    <3>3. DOMAIN Reowned(own, e, EntriesOf(N)) = D /\ Reowned(own, e, EntriesOf(N)) = [f \in D |-> Reowned(own, e, EntriesOf(N))[f]]
      BY <1>3 DEF Reowned
    <3> QED
      BY <1>1, <1>3, <1>4, <3>2, <3>3
  <2> HIDE DEF c2, own2
  <2>8. /\ Collected(c2, own2, D) /\ Held(c2, e, D) /\ Fits(c2, own2, e, Clean(t)) /\ Cached(Clean(t), D, wrong)
        /\ \A g \in D : g # e => Spared(c2, own2, D, c, own, D, g)
    BY <2>7 DEF Done
  <2>9. Done(c2, own2, c0, own, e, t, D, wrong)
    <3>1. ASSUME NEW g \in D, g # e PROVE Spared(c2, own2, D, c0, own, D, g)
      <4>1. Spared(c2, own2, D, c, own, D, g) /\ Spared(c, own, D, c0, own, D, g)
        BY <1>7, <2>8, <3>1
      <4> QED
        BY <4>1 DEF Spared, Untouched
    <3> QED
      BY <2>8, <3>1 DEF Done
  <2>10. Used(c2, id, D)
    <3>1. node \in Nodes(Clean(t))
      <4>1. Nil \notin N
        BY <1>12 DEF N, N0
      <4>2. Clean(t) \in Trees(N)
        BY <2>1, <2>2, <4>1, CleanFields
      <4>3. Nodes(Clean(t)) = N
        BY <4>2, Fields
      <4> QED
        BY <4>3 DEF N
    <3>2. own2[id] = e
      BY <1>8, <2>8, <3>1 DEF Fits, Owned
    <3> QED
      BY <1>4, <1>11, <2>8, <3>2, OwnedUsed
  <2>13. c2.dirs[id].kind = kind /\ c2.dirs[id].name = Stored[name] /\ LabelsKept(c2, c0, D \ {id})
    BY <1>4, <1>6, <2>7 DEF LabelsKept
  <2>11. Grew(t, t0, node) /\ DoneWith(c2, own2, c0, own, e, id, Stored[name], kind, t, D, wrong)
    BY <1>16, <2>7, <2>9, <2>10, <2>12, <2>13 DEF DoneWith
  <2> QED
    BY <2>11 DEF c2, own2, N, N0, t, c, node, id
<1> QED
  BY <1>13, <1>15, <1>16

-----------------------------------------------------------------------------
(***************************************************************************)
(* What a call does to the handles.                                        *)
(***************************************************************************)

\* No other handle has a tree of the storage that h is on.
Alone(hs, h, H, out) ==
  \A g \in H \ out : g # h /\ hs[g].entry = hs[h].entry => hs[g].tree = Nil

\* The handles hs2 are hs, but for the tree q that h has.
Given(hs2, hs, h, q, H, D, wrong) ==
  /\ Handled(hs2, H, D, wrong) /\ hs2[h].entry = hs[h].entry /\ hs2[h].tree = q
  /\ \A g \in H : g # h => hs2[g] = hs[g]

(* A handle is given a tree.                                                 *)
LEMMA TreeSet ==
  ASSUME NEW hs, NEW H, NEW D, NEW wrong, Handled(hs, H, D, wrong), NEW h \in H, NEW q, Cached(q, D, wrong)
  PROVE Given([hs EXCEPT ![h].tree = q], hs, h, q, H, D, wrong)
<1> DEFINE hs2 == [hs EXCEPT ![h].tree = q]
           a == [hs[h] EXCEPT !.tree = q]
<1>1. /\ hs = [g \in H |-> [entry |-> hs[g].entry, tree |-> hs[g].tree]]
      /\ \A g \in H : hs[g].entry \in D \cup {Nil} /\ (hs[g].tree # Nil => Cached(hs[g].tree, D, wrong))
  BY DEF Handled
<1>2. hs[h] = [entry |-> hs[h].entry, tree |-> hs[h].tree]
  BY <1>1
<1>3. a = [entry |-> hs[h].entry, tree |-> q]
  BY <1>2
<1>4. hs2 = [hs EXCEPT ![h] = a]
  OBVIOUS
<1> HIDE DEF hs2, a
<1>5. DOMAIN hs = H
  BY <1>1
<1>6. hs2[h] = a /\ (\A g \in H : g # h => hs2[g] = hs[g]) /\ hs2 = [g \in H |-> hs2[g]]
  BY <1>4, <1>5
<1>7. a.entry = hs[h].entry /\ a.tree = q /\ a = [entry |-> a.entry, tree |-> a.tree]
  BY <1>3
<1>8. \A g \in H : hs2[g] = [entry |-> hs2[g].entry, tree |-> hs2[g].tree]
  <2>1. SUFFICES ASSUME NEW g \in H PROVE hs2[g] = [entry |-> hs2[g].entry, tree |-> hs2[g].tree]
    OBVIOUS
  <2>2. CASE g = h
    BY <1>6, <1>7, <2>2
  <2>3. CASE g # h
    <3>1. hs[g] = [entry |-> hs[g].entry, tree |-> hs[g].tree]
      BY <1>1
    <3> QED
      BY <1>6, <2>3, <3>1
  <2> QED
    BY <2>2, <2>3
<1>9. hs2 = [g \in H |-> [entry |-> hs2[g].entry, tree |-> hs2[g].tree]]
  BY <1>6, <1>8
<1>10. \A g \in H : hs2[g].entry \in D \cup {Nil} /\ (hs2[g].tree # Nil => Cached(hs2[g].tree, D, wrong))
  BY <1>1, <1>6, <1>7
<1>11. Handled(hs2, H, D, wrong)
  BY <1>9, <1>10 DEF Handled
<1> QED
  BY <1>6, <1>7, <1>11 DEF hs2, Given

(* A call on the storage of h leaves it with the tree q, and spares those    *)
(* that there are still handles on.                                          *)
LEMMA HandleStep ==
  ASSUME NEW c, NEW own, NEW D, NEW hs, NEW H, NEW out, NEW wrong, Holds(c, own, D, hs, H, out, wrong),
         NEW h \in H, Alone(hs, h, H, out), NEW c2, NEW own2, NEW wrong2, wrong => wrong2, NEW out2, out \subseteq out2,
         Collected(c2, own2, D), NEW q, Cached(q, D, wrong2), hs[h].entry # Nil,
         \/ Held(c2, hs[h].entry, D) /\ Fits(c2, own2, hs[h].entry, q)
         \/ \A g \in H \ out2 : hs[g].entry # hs[h].entry,
         \A g \in H \ out2 : hs[g].entry # hs[h].entry /\ hs[g].entry # Nil => Spared(c2, own2, D, c, own, D, hs[g].entry)
  PROVE Holds(c2, own2, D, [hs EXCEPT ![h].tree = q], H, out2, wrong2)
<1> DEFINE hs2 == [hs EXCEPT ![h].tree = q]
<1>1. /\ Handled(hs, H, D, wrong) /\ Apart(hs, H, out)
      /\ \A g \in H \ out : Current(c, own, D, hs[g])
  BY DEF Holds
<1>2. Handled(hs, H, D, wrong2)
  BY <1>1, HandledMore
<1>3. /\ Handled(hs2, H, D, wrong2) /\ hs2[h].entry = hs[h].entry /\ hs2[h].tree = q
      /\ \A g \in H : g # h => hs2[g] = hs[g]
  <2>1. Given([hs EXCEPT ![h].tree = q], hs, h, q, H, D, wrong2)
    BY <1>2, TreeSet, Zenon
  <2> QED
    BY <2>1 DEF Given
<1> HIDE DEF hs2
<1>4. \A g \in H : hs2[g].entry = hs[g].entry
  BY <1>3
<1>5. Apart(hs2, H, out2)
  <2>1. ASSUME NEW f \in H \ out2, NEW g \in H \ out2, f # g, hs2[f].entry = hs2[g].entry, hs2[g].entry # Nil
        PROVE hs2[f].tree = Nil \/ hs2[g].tree = Nil
    <3>1. f \in H \ out /\ g \in H \ out /\ hs[f].entry = hs[g].entry /\ hs[g].entry # Nil
      BY <1>4, <2>1
    <3>2. CASE f # h /\ g # h
      BY <1>1, <1>3, <2>1, <3>1, <3>2 DEF Apart
    <3>3. CASE f = h
      BY <1>3, <2>1, <3>1, <3>3 DEF Alone
    <3>4. CASE g = h
      BY <1>3, <2>1, <3>1, <3>4 DEF Alone
    <3> QED
      BY <3>2, <3>3, <3>4
  <2> QED
    BY <2>1 DEF Apart
<1>6. ASSUME NEW g \in H \ out2 PROVE Current(c2, own2, D, hs2[g])
  <2>1. g \in H \ out /\ Current(c, own, D, hs[g])
    BY <1>1, <1>6
  <2>2. CASE hs[g].entry # hs[h].entry
    <3>1. hs[g].entry # Nil => Spared(c2, own2, D, c, own, D, hs[g].entry)
      BY <1>6, <2>2
    <3>2. Current(c2, own2, D, hs[g])
      BY <2>1, <3>1, CurrentSpared
    <3>3. hs2[g] = hs[g]
      BY <1>3, <2>2, <1>6
    <3> QED
      BY <3>2, <3>3
  <2>3. CASE hs[g].entry = hs[h].entry
    <3>1. Held(c2, hs[h].entry, D) /\ Fits(c2, own2, hs[h].entry, q)
      BY <1>6, <2>3
    <3>2. CASE g = h
      BY <1>3, <3>1, <3>2 DEF Current
    <3>3. CASE g # h
      <4>1. hs2[g].tree = Nil /\ hs2[g].entry = hs[h].entry
        BY <1>3, <2>1, <2>3, <3>3 DEF Alone
      <4> QED
        BY <3>1, <4>1 DEF Current
    <3> QED
      BY <3>2, <3>3
  <2> QED
    BY <2>2, <2>3
<1>7. Holds(c2, own2, D, hs2, H, out2, wrong2)
  BY <1>3, <1>5, <1>6, Zenon DEF Holds
<1> QED
  BY <1>7 DEF hs2

(* A handle is bound to a storage that is there.                             *)
LEMMA BindHolds ==
  ASSUME NEW c, NEW own, NEW D, NEW hs, NEW H, NEW out, NEW wrong, Holds(c, own, D, hs, H, out, wrong),
         NEW g \in H, NEW e, Held(c, e, D)
  PROVE Holds(c, own, D, Bind(hs, g, e), H, out \ {g}, wrong)
<1> DEFINE hs2 == Bind(hs, g, e)
<1>1. /\ Collected(c, own, D) /\ Handled(hs, H, D, wrong) /\ Apart(hs, H, out)
      /\ \A h \in H \ out : Current(c, own, D, hs[h])
  BY DEF Holds
<1>2. /\ hs = [h \in H |-> [entry |-> hs[h].entry, tree |-> hs[h].tree]]
      /\ \A h \in H : hs[h].entry \in D \cup {Nil} /\ (hs[h].tree # Nil => Cached(hs[h].tree, D, wrong))
  BY <1>1 DEF Handled
<1>3. hs2[g] = [entry |-> e, tree |-> Nil] /\ (\A h \in H : h # g => hs2[h] = hs[h]) /\ hs2 = [h \in H |-> hs2[h]]
  <2>1. hs2 = [hs EXCEPT ![g] = Fresh(e)]
    BY DEF Bind
  <2>2. DOMAIN hs = H
    BY <1>2
  <2> HIDE DEF hs2
  <2> QED
    BY <2>1, <2>2 DEF Fresh
<1> HIDE DEF hs2
<1>4. hs2[g].entry = e /\ hs2[g].tree = Nil /\ e \in D
  BY <1>3 DEF Held, Used
<1>5. \A h \in H : hs2[h] = [entry |-> hs2[h].entry, tree |-> hs2[h].tree]
  <2>1. \A h \in H : hs[h] = [entry |-> hs[h].entry, tree |-> hs[h].tree]
    BY <1>2
  <2> QED
    BY <1>3, <2>1
<1>6. Handled(hs2, H, D, wrong)
  <2>1. hs2 = [h \in H |-> [entry |-> hs2[h].entry, tree |-> hs2[h].tree]]
    BY <1>3, <1>5
  <2>2. \A h \in H : hs2[h].entry \in D \cup {Nil} /\ (hs2[h].tree # Nil => Cached(hs2[h].tree, D, wrong))
    BY <1>2, <1>3, <1>4
  <2> QED
    BY <2>1, <2>2 DEF Handled
<1>7. Apart(hs2, H, out \ {g})
  BY <1>1, <1>3, <1>4 DEF Apart
<1>8. ASSUME NEW h \in H \ (out \ {g}) PROVE Current(c, own, D, hs2[h])
  <2>1. CASE h = g
    BY <1>4, <2>1 DEF Current
  <2>2. CASE h # g
    <3>1. hs2[h] = hs[h] /\ Current(c, own, D, hs[h])
      BY <1>1, <1>3, <2>2
    <3> QED
      BY <3>1
  <2> QED
    BY <2>1, <2>2
<1>9. Holds(c, own, D, hs2, H, out \ {g}, wrong)
  BY <1>1, <1>6, <1>7, <1>8, Zenon DEF Holds
<1> QED
  BY <1>9 DEF hs2

-----------------------------------------------------------------------------
(***************************************************************************)
(* The entries that the links lead to.                                     *)
(***************************************************************************)

\* The set C has what the links `sides' lead to from the storage e.
ClosedBelow(C, ents, e, sides) ==
  /\ Linked(ents, e, "child") # Nil => Linked(ents, e, "child") \in C
  /\ \A f \in C, d \in sides : Linked(ents, f, d) # Nil => Linked(ents, f, d) \in C

\* R is the least such set.
LeastBelow(R, ents, e, sides, D) ==
  /\ R \subseteq D /\ ClosedBelow(R, ents, e, sides)
  /\ \A C \in SUBSET D : ClosedBelow(C, ents, e, sides) => R \subseteq C

Ahead(ents, sides, X) == UNION {({f} \cup {Linked(ents, f, d) : d \in sides}) \ {Nil} : f \in X}

\* The sets of Reached.
ReachSteps(g, ents, e, sides, n) ==
  g = [i \in 0 .. n |-> IF i = 0 THEN {Linked(ents, e, "child")} \ {Nil} ELSE Ahead(ents, sides, g[i - 1])]

(* There are such sets, any number of them.                                  *)
LEMMA ReachStepsExist ==
  ASSUME NEW ents, NEW e, NEW sides
  PROVE \A n \in Nat : \E g : ReachSteps(g, ents, e, sides, n)
<1> DEFINE first == {Linked(ents, e, "child")} \ {Nil}
           S == {n \in Nat : \E g : ReachSteps(g, ents, e, sides, n)}
<1>1. 0 \in S
  <2>1. ReachSteps([i \in 0 .. 0 |-> first], ents, e, sides, 0)
    BY DEF ReachSteps
  <2> QED
    BY <2>1
<1>2. ASSUME NEW n \in Nat, n \in S PROVE n + 1 \in S
  <2>1. PICK f : ReachSteps(f, ents, e, sides, n)
    BY <1>2
  <2> DEFINE g == [i \in 0 .. (n + 1) |-> IF i = 0 THEN first ELSE Ahead(ents, sides, f[i - 1])]
  <2> HIDE DEF first
  <2>2. \A i \in 0 .. n : g[i] = f[i]
    <3>1. SUFFICES ASSUME NEW i \in 0 .. n PROVE g[i] = f[i]
      OBVIOUS
    <3>2. i \in 0 .. (n + 1)
      OBVIOUS
    <3>3. f[i] = IF i = 0 THEN first ELSE Ahead(ents, sides, f[i - 1])
      BY <2>1 DEF ReachSteps, first
    <3> QED
      BY <3>2, <3>3
  <2>3. \A i \in 0 .. (n + 1) : i # 0 => i - 1 \in 0 .. n
    OBVIOUS
  <2>4. \A i \in 0 .. (n + 1) : i # 0 => f[i - 1] = g[i - 1]
    <3> HIDE DEF g
    <3> QED
      BY <2>2, <2>3
  <2>5. g = [i \in 0 .. (n + 1) |-> IF i = 0 THEN first ELSE Ahead(ents, sides, g[i - 1])]
    BY <2>4
  <2> HIDE DEF g
  <2>6. ReachSteps(g, ents, e, sides, n + 1)
    BY <2>5 DEF ReachSteps, first
  <2> QED
    BY <2>6
<1> HIDE DEF S
<1>3. \A n \in Nat : n \in S
  BY <1>1, <1>2, Induct
<1> QED
  BY <1>3 DEF S

(* A link leads to an entry, or nowhere.                                     *)
LEMMA LinkedType ==
  ASSUME NEW D, NEW ents \in [D -> Entry], NEW f, NEW d
  PROVE Linked(ents, f, d) \in D \cup {Nil}
BY DEF Linked

(* Reached is the least set: as many steps as there are entries are enough.  *)
LEMMA ReachedLeast ==
  ASSUME NEW D, Numbered(D), NEW ents \in [D -> Entry], NEW e, NEW sides
  PROVE LeastBelow(Reached(ents, e, sides), ents, e, sides, D)
<1> DEFINE n == Cardinality(DOMAIN ents)
           F(g) == ReachSteps(g, ents, e, sides, n)
           r == CHOOSE g : F(g)
           first == Linked(ents, e, "child")
           A(X) == Ahead(ents, sides, X)
           Closed(X) == \A f \in X, d \in sides : Linked(ents, f, d) # Nil => Linked(ents, f, d) \in X
<1>1. n \in Nat /\ IsFiniteSet(D) /\ n = Cardinality(D)
  <2>1. DOMAIN ents = D
    OBVIOUS
  <2> QED
    BY <2>1, NumberedCount
<1>2. Reached(ents, e, sides) = r[n]
  BY DEF Reached, ReachSteps, Ahead
<1> HIDE DEF n
<1>3. F(r)
  <2>1. \E g : F(g)
    BY <1>1, ReachStepsExist
  <2> HIDE DEF F
  <2> QED
    BY <2>1
<1> HIDE DEF r
<1>4. r = [i \in 0 .. n |-> IF i = 0 THEN {first} \ {Nil} ELSE A(r[i - 1])]
  BY <1>3 DEF ReachSteps
<1> HIDE DEF first, F
<1>5. \A f, d : Linked(ents, f, d) \in D \cup {Nil}
  BY LinkedType
<1>6. first \in D \cup {Nil}
  BY <1>5 DEF first
<1>7. ASSUME NEW X \in SUBSET D
      PROVE /\ A(X) \in SUBSET D /\ \A C \in SUBSET D : Closed(C) /\ X \subseteq C => A(X) \subseteq C
            /\ X \ {Nil} \subseteq A(X) /\ (Closed(X) => A(X) \subseteq X)
            /\ (~Closed(X) => \E f \in A(X) : f \notin X)
  <2>1. A(X) \in SUBSET D
    BY <1>5 DEF Ahead
  <2>2. \A C \in SUBSET D : Closed(C) /\ X \subseteq C => A(X) \subseteq C
    BY DEF Ahead
  <2>3. X \ {Nil} \subseteq A(X)
    BY DEF Ahead
  <2>4. Closed(X) => A(X) \subseteq X
    BY DEF Ahead
  <2>5. ASSUME ~Closed(X) PROVE \E f \in A(X) : f \notin X
    <3>1. PICK f \in X, d \in sides : Linked(ents, f, d) # Nil /\ Linked(ents, f, d) \notin X
      BY <2>5
    <3>2. Linked(ents, f, d) \in A(X)
      BY <3>1 DEF Ahead
    <3> QED
      BY <3>1, <3>2
  <2> QED
    BY <2>1, <2>2, <2>3, <2>4, <2>5
<1> HIDE DEF A, Closed
<1>8. Nil \notin D
  BY StorageAssumption, NumberedCount DEF StorageAssumption
<1>9. \A i \in 0 .. n : i # 0 => i - 1 \in 0 .. n
  BY <1>1
<1> DEFINE Good(X) == /\ X \in SUBSET D /\ (first # Nil => first \in X)
                      /\ \A C \in SUBSET D : Closed(C) /\ (first # Nil => first \in C) => X \subseteq C
           S == {i \in Nat : i <= n => Good(r[i]) /\ (Closed(r[i]) \/ Cardinality(r[i]) > i)}
<1>10. 0 \in S
  <2>1. r[0] = {first} \ {Nil}
    BY <1>1, <1>4
  <2>2. Good(r[0])
    BY <1>6, <2>1
  <2>3. Closed(r[0]) \/ Cardinality(r[0]) > 0
    <3>1. CASE first = Nil
      <4>1. r[0] = {}
        BY <2>1, <3>1
      <4> QED
        BY <4>1 DEF Closed
    <3>2. CASE first # Nil
      <4>1. r[0] = {first}
        BY <2>1, <3>2
      <4>2. Cardinality(r[0]) = 1
        BY <4>1, FS_Singleton
      <4> QED
        BY <4>2
    <3> QED
      BY <3>1, <3>2
  <2> QED
    BY <2>2, <2>3
<1>11. ASSUME NEW i \in Nat, i \in S PROVE i + 1 \in S
  <2>1. SUFFICES ASSUME i + 1 <= n PROVE Good(r[i + 1]) /\ (Closed(r[i + 1]) \/ Cardinality(r[i + 1]) > i + 1)
    OBVIOUS
  <2>2. Good(r[i]) /\ (Closed(r[i]) \/ Cardinality(r[i]) > i)
    BY <1>1, <1>11, <2>1
  <2>3. i + 1 \in 0 .. n /\ i + 1 # 0 /\ (i + 1) - 1 = i
    BY <1>1, <2>1
  <2>4. r[i + 1] = A(r[i])
    BY <1>4, <2>3
  <2>5. r[i] \in SUBSET D
    BY <2>2
  <2>6. /\ A(r[i]) \in SUBSET D /\ \A C \in SUBSET D : Closed(C) /\ r[i] \subseteq C => A(r[i]) \subseteq C
        /\ r[i] \ {Nil} \subseteq A(r[i]) /\ (Closed(r[i]) => A(r[i]) \subseteq r[i])
        /\ (~Closed(r[i]) => \E f \in A(r[i]) : f \notin r[i])
    BY <1>7, <2>5
  <2>7. r[i] \subseteq A(r[i])
    BY <1>8, <2>5, <2>6
  <2>8. Good(A(r[i]))
    <3>1. first # Nil => first \in A(r[i])
      BY <2>2, <2>7
    <3>2. \A C \in SUBSET D : Closed(C) /\ (first # Nil => first \in C) => A(r[i]) \subseteq C
      BY <2>2, <2>6
    <3> QED
      BY <2>6, <3>1, <3>2
  <2>9. Closed(A(r[i])) \/ Cardinality(A(r[i])) > i + 1
    <3>1. CASE Closed(r[i])
      <4>1. A(r[i]) = r[i]
        BY <2>6, <2>7, <3>1
      <4> QED
        BY <3>1, <4>1
    <3>2. CASE ~Closed(r[i])
      <4>1. IsFiniteSet(A(r[i]))
        BY <1>1, <2>6, FS_Subset
      <4>2. /\ IsFiniteSet(r[i]) /\ Cardinality(r[i]) <= Cardinality(A(r[i]))
            /\ Cardinality(A(r[i])) = Cardinality(r[i]) => A(r[i]) = r[i]
        BY <2>7, <4>1, FS_Subset
      <4>3. A(r[i]) # r[i]
        BY <2>6, <3>2
      <4>4. Cardinality(r[i]) \in Nat /\ Cardinality(A(r[i])) \in Nat
        BY <4>1, <4>2, FS_CardinalityType
      <4> QED
        BY <2>2, <3>2, <4>2, <4>3, <4>4
    <3> QED
      BY <3>1, <3>2
  <2> QED
    BY <2>4, <2>8, <2>9
<1>12. \A i \in Nat : i \in S
  <2> HIDE DEF S
  <2> QED
    BY <1>10, <1>11, Induct
<1>13. Good(r[n]) /\ (Closed(r[n]) \/ Cardinality(r[n]) > n)
  <2>1. n \in S
    BY <1>1, <1>12
  <2> QED
    BY <1>1, <2>1
<1>14. Closed(r[n])
  <2>1. r[n] \in SUBSET D
    BY <1>13
  <2>2. Cardinality(r[n]) <= n /\ IsFiniteSet(r[n])
    BY <1>1, <2>1, FS_Subset
  <2>3. Cardinality(r[n]) \in Nat
    BY <2>2, FS_CardinalityType
  <2> QED
    BY <1>1, <1>13, <2>2, <2>3
<1>15. LeastBelow(r[n], ents, e, sides, D)
  BY <1>13, <1>14 DEF LeastBelow, ClosedBelow, Closed, first
<1> QED
  BY <1>2, <1>15

(* The entries of a storage that the links of the tree span are those below  *)
(* it.                                                                       *)
LEMMA BelowOwned ==
  ASSUME NEW D, Numbered(D), NEW ents \in [D -> Entry], NEW e \in D, NEW V \in SUBSET D,
         ents[e].child \in V \cup {Nil}, \A f \in V, d \in Sides : ents[f][d] \in V \cup {Nil}
  PROVE Below(ents, e) \subseteq V /\ (Spanned(ents, e, V) => Below(ents, e) = V)
<1> DEFINE R == Below(ents, e)
<1>1. Nil \notin D
  BY StorageAssumption, NumberedCount DEF StorageAssumption
<1>2. LeastBelow(R, ents, e, Sides, D)
  BY ReachedLeast DEF Below, Sides
<1> HIDE DEF R
<1>3. Linked(ents, e, "child") = ents[e].child
  BY <1>1 DEF Linked
<1>4. \A f \in V, d \in Sides : Linked(ents, f, d) = ents[f][d]
  BY <1>1 DEF Linked
<1>5. ClosedBelow(V, ents, e, Sides)
  BY <1>3, <1>4 DEF ClosedBelow
<1>6. R \subseteq V
  BY <1>2, <1>5 DEF LeastBelow
<1>7. ASSUME Spanned(ents, e, V) PROVE R = V
  <2>1. ClosedBelow(R, ents, e, Sides)
    BY <1>2 DEF LeastBelow
  <2>2. ents[e].child # Nil => ents[e].child \in R
    BY <1>3, <2>1 DEF ClosedBelow
  <2>3. \A f \in R, d \in Sides : ents[f][d] # Nil => ents[f][d] \in R
    BY <1>4, <1>6, <2>1 DEF ClosedBelow
  <2> QED
    BY <1>6, <1>7, <2>2, <2>3 DEF Spanned
<1> QED
  BY <1>6, <1>7 DEF R

-----------------------------------------------------------------------------
(***************************************************************************)
(* loadChildren.                                                           *)
(***************************************************************************)

\* The stack s has the entries K, each once.
StackOf(s, K, D) ==
  /\ s \in Seq(D) /\ \A j \in 1 .. Len(s) : s[j] \in K
  /\ \A x \in K : \E j \in 1 .. Len(s) : s[j] = x
  /\ \A i, j \in 1 .. Len(s) : s[i] = s[j] => i = j

(* An entry more on the stack.                                               *)
LEMMA StackPush ==
  ASSUME NEW D, NEW s, NEW K, StackOf(s, K, D), NEW x \in D, x \notin K
  PROVE StackOf(<<x>> \o s, K \cup {x}, D)
<1> DEFINE q == <<x>> \o s
<1>1. /\ s \in Seq(D) /\ Len(s) \in Nat /\ \A j \in 1 .. Len(s) : s[j] \in K
      /\ \A y \in K : \E j \in 1 .. Len(s) : s[j] = y
      /\ \A i, j \in 1 .. Len(s) : s[i] = s[j] => i = j
  BY DEF StackOf
<1>2. <<x>> \in Seq(D) /\ Len(<<x>>) = 1 /\ <<x>>[1] = x
  OBVIOUS
<1>3. /\ q \in Seq(D) /\ Len(q) = 1 + Len(s)
      /\ \A i \in 1 .. (1 + Len(s)) : q[i] = IF i <= 1 THEN <<x>>[i] ELSE s[i - 1]
  BY <1>1, <1>2, ConcatProperties
<1> HIDE DEF q
<1>4. q[1] = x
  BY <1>1, <1>2, <1>3
<1>5. \A i \in 1 .. Len(q) : i # 1 => i - 1 \in 1 .. Len(s) /\ q[i] = s[i - 1]
  BY <1>1, <1>3
<1>6. \A j \in 1 .. Len(s) : j + 1 \in 1 .. Len(q) /\ q[j + 1] = s[j]
  BY <1>1, <1>3
<1>7. \A j \in 1 .. Len(q) : q[j] \in K \cup {x}
  BY <1>1, <1>4, <1>5
<1>8. \A y \in K \cup {x} : \E j \in 1 .. Len(q) : q[j] = y
  <2>1. 1 \in 1 .. Len(q)
    BY <1>1, <1>3
  <2> QED
    BY <1>1, <1>4, <1>6, <2>1
<1>9. ASSUME NEW i \in 1 .. Len(q), NEW j \in 1 .. Len(q), q[i] = q[j] PROVE i = j
  <2>1. CASE i = 1 /\ j = 1
    BY <2>1
  <2>2. CASE i = 1 /\ j # 1
    BY <1>1, <1>4, <1>5, <1>9, <2>2
  <2>3. CASE i # 1 /\ j = 1
    BY <1>1, <1>4, <1>5, <1>9, <2>3
  <2>4. CASE i # 1 /\ j # 1
    <3>1. i - 1 \in 1 .. Len(s) /\ j - 1 \in 1 .. Len(s) /\ s[i - 1] = s[j - 1]
      BY <1>5, <1>9, <2>4
    <3>2. i - 1 = j - 1
      BY <1>1, <3>1
    <3> QED
      BY <3>2
  <2> QED
    BY <2>1, <2>2, <2>3, <2>4
<1>10. StackOf(q, K \cup {x}, D)
  BY <1>3, <1>7, <1>8, <1>9 DEF StackOf
<1> QED
  BY <1>10 DEF q

(* The first of the stack taken off.                                         *)
LEMMA StackPop ==
  ASSUME NEW D, NEW s, NEW K, StackOf(s, K, D), s # <<>>
  PROVE Head(s) \in K /\ Head(s) \in D /\ StackOf(Tail(s), K \ {Head(s)}, D)
<1> DEFINE q == Tail(s)
           x == Head(s)
<1>1. /\ s \in Seq(D) /\ Len(s) \in Nat /\ \A j \in 1 .. Len(s) : s[j] \in K
      /\ \A y \in K : \E j \in 1 .. Len(s) : s[j] = y
      /\ \A i, j \in 1 .. Len(s) : s[i] = s[j] => i = j
  BY DEF StackOf
<1>2. x \in D /\ q \in Seq(D) /\ Len(q) = Len(s) - 1 /\ \A i \in 1 .. Len(q) : q[i] = s[i + 1]
  BY <1>1, HeadTailProperties
<1>3. Len(s) # 0 /\ x = s[1]
  BY <1>1
<1> HIDE DEF q, x
<1>4. 1 \in 1 .. Len(s) /\ x \in K
  BY <1>1, <1>3
<1>5. \A i \in 1 .. Len(q) : i + 1 \in 1 .. Len(s) /\ q[i] = s[i + 1]
  BY <1>1, <1>2
<1>6. \A j \in 1 .. Len(s) : j # 1 => j - 1 \in 1 .. Len(q) /\ q[j - 1] = s[j]
  BY <1>1, <1>2
<1>7. \A i \in 1 .. Len(q) : q[i] \in K \ {x}
  <2>1. SUFFICES ASSUME NEW i \in 1 .. Len(q) PROVE q[i] \in K \ {x}
    OBVIOUS
  <2>2. i + 1 \in 1 .. Len(s) /\ q[i] = s[i + 1] /\ i + 1 # 1
    BY <1>5
  <2>3. s[i + 1] # s[1]
    BY <1>1, <1>4, <2>2
  <2> QED
    BY <1>1, <1>3, <2>2, <2>3
<1>8. ASSUME NEW y \in K \ {x} PROVE \E j \in 1 .. Len(q) : q[j] = y
  <2>1. PICK j \in 1 .. Len(s) : s[j] = y
    BY <1>1, <1>8
  <2>2. j # 1
    BY <1>3, <1>8, <2>1
  <2> QED
    BY <1>6, <2>1, <2>2
<1>9. ASSUME NEW i \in 1 .. Len(q), NEW j \in 1 .. Len(q), q[i] = q[j] PROVE i = j
  <2>1. i + 1 \in 1 .. Len(s) /\ j + 1 \in 1 .. Len(s) /\ s[i + 1] = s[j + 1]
    BY <1>5, <1>9
  <2>2. i + 1 = j + 1
    BY <1>1, <2>1
  <2> QED
    BY <2>2
<1>10. StackOf(q, K \ {x}, D)
  BY <1>2, <1>7, <1>8, <1>9 DEF StackOf
<1> QED
  BY <1>2, <1>4, <1>10 DEF q, x

\* The rounds of loadChildren.
LoadStart(ents, e) ==
  [tree |-> NewTree, stack |-> IF Linked(ents, e, "child") = Nil THEN <<>> ELSE <<Linked(ents, e, "child")>>]

LoadSteps(g, ents, e, n) ==
  g = [i \in 0 .. n |-> IF i = 0 THEN LoadStart(ents, e) ELSE addNode(ents, g[i - 1])]

(* There are such rounds, any number of them.                                *)
LEMMA LoadStepsExist ==
  ASSUME NEW ents, NEW e
  PROVE \A n \in Nat : \E g : LoadSteps(g, ents, e, n)
<1> DEFINE first == LoadStart(ents, e)
           S == {n \in Nat : \E g : LoadSteps(g, ents, e, n)}
<1>1. 0 \in S
  <2>1. LoadSteps([i \in 0 .. 0 |-> first], ents, e, 0)
    BY DEF LoadSteps
  <2> QED
    BY <2>1
<1>2. ASSUME NEW n \in Nat, n \in S PROVE n + 1 \in S
  <2>1. PICK f : LoadSteps(f, ents, e, n)
    BY <1>2
  <2> DEFINE g == [i \in 0 .. (n + 1) |-> IF i = 0 THEN first ELSE addNode(ents, f[i - 1])]
  <2> HIDE DEF first
  <2>2. \A i \in 0 .. n : g[i] = f[i]
    <3>1. SUFFICES ASSUME NEW i \in 0 .. n PROVE g[i] = f[i]
      OBVIOUS
    <3>2. i \in 0 .. (n + 1)
      OBVIOUS
    <3>3. f[i] = IF i = 0 THEN first ELSE addNode(ents, f[i - 1])
      BY <2>1 DEF LoadSteps, first
    <3> QED
      BY <3>2, <3>3
  <2>3. \A i \in 0 .. (n + 1) : i # 0 => i - 1 \in 0 .. n
    OBVIOUS
  <2>4. \A i \in 0 .. (n + 1) : i # 0 => f[i - 1] = g[i - 1]
    <3> HIDE DEF g
    <3> QED
      BY <2>2, <2>3
  <2>5. g = [i \in 0 .. (n + 1) |-> IF i = 0 THEN first ELSE addNode(ents, g[i - 1])]
    BY <2>4
  <2> HIDE DEF g
  <2>6. LoadSteps(g, ents, e, n + 1)
    BY <2>5 DEF LoadSteps, first
  <2> QED
    BY <2>6
<1> HIDE DEF S
<1>3. \A n \in Nat : n \in S
  BY <1>1, <1>2, Induct
<1> QED
  BY <1>3 DEF S

\* No entry below e has two links to it, and its first child none.
LinkedOnce(ents, e, B) ==
  /\ \A p \in B, d \in Sides : Linked(ents, p, d) # Nil => Linked(ents, p, d) # Linked(ents, e, "child")
  /\ \A p, q \in B, d, s \in Sides : Linked(ents, p, d) # Nil /\ Linked(ents, p, d) = Linked(ents, q, s) => p = q /\ d = s

(* So it is in a tree.                                                       *)
LEMMA TreeLinkedOnce ==
  ASSUME NEW D, Numbered(D), NEW ents \in [D -> Entry], NEW e, LinksTree(ents, e)
  PROVE LinkedOnce(ents, e, Below(ents, e))
<1> DEFINE B == Below(ents, e)
           L(f, d) == Linked(ents, f, d)
           first == L(e, "child")
           into(f) == {l \in B \X Sides : L(l[1], l[2]) = f}
<1>1. IsFiniteSet(D) /\ LeastBelow(B, ents, e, Sides, D)
  BY NumberedCount, ReachedLeast DEF Below, Sides
<1>2. \A f \in B : Cardinality(into(f)) = IF f = first THEN 0 ELSE 1
  BY DEF LinksTree, Sides
<1>3. \A p \in B, d \in Sides : L(p, d) # Nil => L(p, d) \in B
  BY <1>1 DEF LeastBelow, ClosedBelow
<1>4. IsFiniteSet(B \X Sides)
  <2>1. IsFiniteSet(B)
    BY <1>1, FS_Subset DEF LeastBelow
  <2>2. IsFiniteSet(Sides)
    <3>1. IsFiniteSet({"left"})
      BY FS_Singleton
    <3>2. Sides = {"left"} \cup {"right"}
      BY DEF Sides
    <3> QED
      BY <3>1, <3>2, FS_AddElement
  <2> QED
    BY <2>1, <2>2, FS_Product
<1> HIDE DEF B, L, first
<1>5. \A f : IsFiniteSet(into(f))
  BY <1>4, FS_Subset
<1>6. \A p \in B, d \in Sides : <<p, d>> \in into(L(p, d))
  OBVIOUS
<1>7. ASSUME NEW p \in B, NEW d \in Sides, L(p, d) # Nil PROVE L(p, d) # first
  <2>1. SUFFICES ASSUME L(p, d) = first PROVE FALSE
    OBVIOUS
  <2>2. Cardinality(into(L(p, d))) = 0
    BY <1>2, <1>3, <1>7, <2>1
  <2>3. into(L(p, d)) = {}
    BY <1>5, <2>2, FS_EmptySet
  <2> QED
    BY <1>6, <2>3
<1>8. ASSUME NEW p \in B, NEW q \in B, NEW d \in Sides, NEW s \in Sides, L(p, d) # Nil, L(p, d) = L(q, s)
      PROVE p = q /\ d = s
  <2>1. Cardinality(into(L(p, d))) = 1
    BY <1>2, <1>3, <1>7, <1>8
  <2> DEFINE Z == into(L(p, d))
  <2>2. <<p, d>> \in Z /\ <<q, s>> \in Z
    BY <1>6, <1>8
  <2>3. IsFiniteSet(Z) /\ Cardinality(Z) = 1
    BY <1>5, <2>1
  <2> HIDE DEF Z
  <2>4. PICK x : Z = {x}
    BY <2>3, FS_Singleton
  <2>5. <<p, d>> = <<q, s>>
    BY <2>2, <2>4
  <2> QED
    BY <2>5
<1> QED
  BY <1>7, <1>8 DEF LinkedOnce, L, first, B

(* What is left and right of an entry goes on the stack.                     *)
LEMMA OnwardPushed ==
  ASSUME NEW D, NEW ents, NEW f, NEW s, NEW K, StackOf(s, K, D), NEW l, NEW r,
         l = Linked(ents, f, "left"), r = Linked(ents, f, "right"),
         l = Nil \/ (l \in D /\ l \notin K), r = Nil \/ (r \in D /\ r \notin K), l = Nil \/ l # r
  PROVE StackOf(Onward(ents, f) \o s, K \cup ({l, r} \ {Nil}), D)
<1>1. Onward(ents, f) = (IF l = Nil THEN <<>> ELSE <<l>>) \o (IF r = Nil THEN <<>> ELSE <<r>>)
  BY DEF Onward
<1>2. s \in Seq(D)
  BY DEF StackOf
<1>3. CASE l = Nil /\ r = Nil
  <2>1. Onward(ents, f) \o s = s
    <3>1. Onward(ents, f) = <<>> \o <<>>
      BY <1>1, <1>3
    <3>2. <<>> \o <<>> = <<>> /\ <<>> \o s = s
      BY <1>2
    <3> QED
      BY <3>1, <3>2
  <2>2. K \cup ({l, r} \ {Nil}) = K
    BY <1>3
  <2> QED
    BY <2>1, <2>2
<1>4. CASE l # Nil /\ r = Nil
  <2>1. Onward(ents, f) \o s = <<l>> \o s
    <3>1. Onward(ents, f) = <<l>> \o <<>>
      BY <1>1, <1>4
    <3>2. <<l>> \o <<>> = <<l>>
      BY <1>4
    <3> QED
      BY <3>1, <3>2
  <2>2. K \cup ({l, r} \ {Nil}) = K \cup {l}
    BY <1>4
  <2>3. StackOf(<<l>> \o s, K \cup {l}, D)
    BY <1>4, StackPush
  <2> QED
    BY <2>1, <2>2, <2>3
<1>5. CASE l = Nil /\ r # Nil
  <2>1. Onward(ents, f) \o s = <<r>> \o s
    <3>1. Onward(ents, f) = <<>> \o <<r>>
      BY <1>1, <1>5
    <3>2. <<>> \o <<r>> = <<r>>
      BY <1>5
    <3> QED
      BY <3>1, <3>2
  <2>2. K \cup ({l, r} \ {Nil}) = K \cup {r}
    BY <1>5
  <2>3. StackOf(<<r>> \o s, K \cup {r}, D)
    BY <1>5, StackPush
  <2> QED
    BY <2>1, <2>2, <2>3
<1>6. CASE l # Nil /\ r # Nil
  <2>1. Onward(ents, f) \o s = <<l>> \o (<<r>> \o s)
    <3>1. Onward(ents, f) = <<l>> \o <<r>>
      BY <1>1, <1>6
    <3>2. <<l>> \in Seq(D) /\ <<r>> \in Seq(D)
      BY <1>6
    <3>3. (<<l>> \o <<r>>) \o s = <<l>> \o (<<r>> \o s)
      BY <1>2, <3>2, ConcatAssociative
    <3> QED
      BY <3>1, <3>3
  <2>2. K \cup ({l, r} \ {Nil}) = (K \cup {r}) \cup {l}
    BY <1>6
  <2>3. StackOf(<<r>> \o s, K \cup {r}, D)
    BY <1>6, StackPush
  <2>4. l \notin K \cup {r} /\ l \in D
    BY <1>6
  <2>5. StackOf(<<l>> \o (<<r>> \o s), (K \cup {r}) \cup {l}, D)
    BY <2>3, <2>4, StackPush
  <2> QED
    BY <2>1, <2>2, <2>5
<1> QED
  BY <1>3, <1>4, <1>5, <1>6

\* The entries I are in the tree, the entries K on the stack, and what is below e
\* is these and what is below those on the stack.
InTree(ents, t, I, D) ==
  /\ Cached(t, D, FALSE) /\ I = EntriesOf(Nodes(t))
  /\ \A n \in Nodes(t) : Key(n) = ents[Value(n)].name /\ n \in t.dirty

Frontier(ents, e, B, I, K) ==
  /\ I \subseteq B /\ K \subseteq B /\ I \cap K = {}
  /\ Linked(ents, e, "child") # Nil => Linked(ents, e, "child") \in I \cup K
  /\ \A f \in I, d \in Sides : Linked(ents, f, d) # Nil => Linked(ents, f, d) \in I \cup K
  /\ \A f \in I \cup K : f = Linked(ents, e, "child") \/ \E p \in I, d \in Sides : Linked(ents, p, d) = f

\* The entry x goes from the stack to the tree, and l and r, below it, are new.
MovesOn(ents, e, B, I, K, x, l, r, D) ==
  /\ Frontier(ents, e, B, I \cup {x}, (K \ {x}) \cup ({l, r} \ {Nil}))
  /\ l = Nil \/ (l \in D /\ l \notin K)
  /\ l = Nil \/ l # r
  /\ r = Nil \/ (r \in D /\ r \notin K)

(* An entry goes from the stack to the tree.                                 *)
LEMMA FrontierMoves ==
  ASSUME NEW D, NEW ents, NEW e, NEW B, LeastBelow(B, ents, e, Sides, D), LinkedOnce(ents, e, B), Nil \notin D,
         NEW I, NEW K, Frontier(ents, e, B, I, K), NEW x \in K, NEW l, NEW r,
         l = Linked(ents, x, "left"), r = Linked(ents, x, "right")
  PROVE MovesOn(ents, e, B, I, K, x, l, r, D)
<1> DEFINE L(f, d) == Linked(ents, f, d)
           first == L(e, "child")
           I2 == I \cup {x}
           K2 == (K \ {x}) \cup ({l, r} \ {Nil})
<1>1. /\ B \subseteq D /\ \A f \in B, d \in Sides : L(f, d) # Nil => L(f, d) \in B
  BY DEF LeastBelow, ClosedBelow
<1>2. /\ \A p \in B, d \in Sides : L(p, d) # Nil => L(p, d) # first
      /\ \A p, q \in B, d, s \in Sides : L(p, d) # Nil /\ L(p, d) = L(q, s) => p = q /\ d = s
  BY DEF LinkedOnce
<1>3. /\ I \subseteq B /\ K \subseteq B /\ I \cap K = {} /\ (first # Nil => first \in I \cup K)
      /\ \A f \in I, d \in Sides : L(f, d) # Nil => L(f, d) \in I \cup K
      /\ \A f \in I \cup K : f = first \/ \E p \in I, d \in Sides : L(p, d) = f
  BY DEF Frontier
<1>4. "left" \in Sides /\ "right" \in Sides /\ Sides = {"left", "right"} /\ "left" # "right" /\ l = L(x, "left") /\ r = L(x, "right")
  BY DEF Sides
<1> HIDE DEF L, first
<1>5. x \in B /\ x \notin I
  BY <1>3
<1>6. \A d \in Sides : L(x, d) # Nil => L(x, d) \in B /\ L(x, d) \notin I \cup K
  <2>1. SUFFICES ASSUME NEW d \in Sides, L(x, d) # Nil, L(x, d) \in I \cup K PROVE FALSE
    BY <1>1, <1>5
  <2>2. L(x, d) # first
    BY <1>2, <1>5, <2>1
  <2>3. PICK p \in I, s \in Sides : L(p, s) = L(x, d)
    BY <1>3, <2>1, <2>2
  <2>4. p \in B
    BY <1>3, <2>3
  <2>5. p = x
    BY <1>2, <1>5, <2>1, <2>3, <2>4
  <2> QED
    BY <1>5, <2>3, <2>5
<1>7. l = Nil \/ l # r
  BY <1>2, <1>4, <1>5
<1>8. I2 \subseteq B /\ K2 \subseteq B /\ I2 \cap K2 = {} /\ I \cup K \subseteq I2 \cup K2
  BY <1>3, <1>4, <1>5, <1>6
<1>9. \A f \in I2, d \in Sides : L(f, d) # Nil => L(f, d) \in I2 \cup K2
  <2>1. SUFFICES ASSUME NEW f \in I2, NEW d \in Sides, L(f, d) # Nil PROVE L(f, d) \in I2 \cup K2
    OBVIOUS
  <2>2. CASE f \in I
    BY <1>3, <1>8, <2>1, <2>2
  <2>3. CASE f = x
    BY <1>4, <2>1, <2>3
  <2> QED
    BY <2>2, <2>3
<1>10. \A f \in I2 \cup K2 : f = first \/ \E p \in I2, d \in Sides : L(p, d) = f
  <2>1. SUFFICES ASSUME NEW f \in I2 \cup K2, f # first PROVE \E p \in I2, d \in Sides : L(p, d) = f
    OBVIOUS
  <2>2. CASE f \in I \cup K
    BY <1>3, <2>1, <2>2
  <2>3. CASE f \in {l, r}
    BY <1>4, <2>3
  <2> QED
    BY <1>3, <2>2, <2>3
<1>11. first # Nil => first \in I2 \cup K2
  BY <1>3, <1>8
<1>12. Frontier(ents, e, B, I2, K2)
  <2> HIDE DEF I2, K2
  <2> QED
    BY <1>8, <1>9, <1>10, <1>11 DEF Frontier, L, first
<1>13. l = Nil \/ (l \in D /\ l \notin K)
  BY <1>1, <1>4, <1>6
<1>14. r = Nil \/ (r \in D /\ r \notin K)
  BY <1>1, <1>4, <1>6
<1> QED
  BY <1>7, <1>12, <1>13, <1>14 DEF I2, K2, MovesOn

(* One entry more in the tree.                                               *)
LEMMA InTreeMore ==
  ASSUME NEW D, Numbered(D), NEW ents \in [D -> Entry], NEW t, NEW I, InTree(ents, t, I, D), NEW x \in D, x \notin I
  PROVE InTree(ents, Insert(t, NewNode(ents[x].name, x)), I \cup {x}, D)
<1> DEFINE node == NewNode(ents[x].name, x)
           r == Insert(t, node)
           N == Nodes(t)
<1>1. /\ N \subseteq NodesOf(D) /\ t \in Trees(N) /\ Sound(t) /\ EvenBlack(t) /\ I = EntriesOf(N)
      /\ \A n \in N : Key(n) = ents[Value(n)].name /\ n \in t.dirty
  BY DEF InTree, Cached
<1>2. Nil \notin Nat \cup (Nat \X Nat) /\ D \subseteq Nat
  BY StorageAssumption, NumberedCount DEF StorageAssumption
<1>3. ents[x].name \in Nat
  BY DEF Entry
<1>4. node \in NodesOf(D) /\ node \in Nat \X Nat /\ Key(node) = ents[x].name /\ Value(node) = x
  BY <1>2, <1>3 DEF node, NewNode, Key, Value, NodesOf
<1> HIDE DEF N, node
<1>5. node \notin N /\ Nil \notin N \cup {node}
  <2>1. node \notin N
    BY <1>1, <1>4 DEF EntriesOf
  <2>2. Nil \notin N
    BY <1>1, <1>2, NodeFacts
  <2> QED
    BY <1>2, <1>4, <2>1, <2>2
<1>6. Key(node) \in Nat
  BY <1>3, <1>4
<1>7. Grew(r, t, node) /\ EvenBlack(r)
  <2>1. \/ Grew(Insert(t, node), t, node) /\ (EvenBlack(t) => EvenBlack(Insert(t, node)))
        \/ Insert(t, node) = NilPointer /\ ~EvenBlack(t)
    BY <1>1, <1>5, <1>6, InsertSound
  <2> QED
    BY <1>1, <2>1
<1> HIDE DEF r
<1>8. r \in Trees(N \cup {node}) /\ Sound(r) /\ node \in r.dirty /\ t.dirty \subseteq r.dirty
  BY <1>7 DEF Grew, Marked, N
<1>9. Nodes(r) = N \cup {node}
  BY <1>8, Fields
<1>10. Cached(r, D, FALSE)
  <2>1. Nodes(r) \subseteq NodesOf(D) /\ r \in Trees(Nodes(r))
    BY <1>1, <1>4, <1>8, <1>9
  <2> QED
    BY <1>7, <1>8, <2>1, Zenon DEF Cached
<1>11. I \cup {x} = EntriesOf(Nodes(r))
  BY <1>1, <1>4, <1>9 DEF EntriesOf
<1>12. \A n \in Nodes(r) : Key(n) = ents[Value(n)].name /\ n \in r.dirty
  BY <1>1, <1>4, <1>8, <1>9
<1>13. InTree(ents, r, I \cup {x}, D)
  BY <1>10, <1>11, <1>12 DEF InTree
<1> QED
  BY <1>13 DEF r, node

\* After i rounds.
LoadState(l, i, ents, e, B, D) ==
  \E I, K : /\ InTree(ents, l.tree, I, D) /\ StackOf(l.stack, K, D) /\ Frontier(ents, e, B, I, K)
            /\ l.stack # <<>> => Cardinality(I) = i

(* One round.                                                                *)
LEMMA LoadStep ==
  ASSUME NEW D, Numbered(D), NEW ents \in [D -> Entry], NEW e, NEW B, LeastBelow(B, ents, e, Sides, D),
         LinkedOnce(ents, e, B), NEW i \in Nat, NEW l, LoadState(l, i, ents, e, B, D)
  PROVE LoadState(addNode(ents, l), i + 1, ents, e, B, D)
<1>1. PICK I, K : /\ InTree(ents, l.tree, I, D) /\ StackOf(l.stack, K, D) /\ Frontier(ents, e, B, I, K)
                  /\ l.stack # <<>> => Cardinality(I) = i
  BY DEF LoadState
<1>2. CASE l.stack = <<>>
  <2>1. addNode(ents, l) = l
    BY <1>2 DEF addNode
  <2> QED
    BY <1>1, <1>2, <2>1 DEF LoadState
<1>3. CASE l.stack # <<>>
  <2> DEFINE x == Head(l.stack)
             a == Linked(ents, x, "left")
             b == Linked(ents, x, "right")
             t2 == Insert(l.tree, NewNode(ents[x].name, x))
             s2 == Onward(ents, x) \o Tail(l.stack)
             K1 == K \ {x}
             K2 == K1 \cup ({a, b} \ {Nil})
             I2 == I \cup {x}
  <2>1. x \in K /\ x \in D /\ StackOf(Tail(l.stack), K1, D)
    BY <1>1, <1>3, StackPop
  <2>2. addNode(ents, l).tree = t2 /\ addNode(ents, l).stack = s2
    BY <1>3 DEF addNode
  <2>3. Nil \notin D /\ IsFiniteSet(D)
    BY StorageAssumption, NumberedCount DEF StorageAssumption
  <2> HIDE DEF x
  <2>4. /\ Frontier(ents, e, B, I \cup {x}, (K \ {x}) \cup ({a, b} \ {Nil}))
        /\ a = Nil \/ (a \in D /\ a \notin K)
        /\ a = Nil \/ a # b
        /\ b = Nil \/ (b \in D /\ b \notin K)
    <3> DEFINE aa == a
               bb == b
    <3>1. aa = Linked(ents, x, "left") /\ bb = Linked(ents, x, "right")
      OBVIOUS
    <3> HIDE DEF aa, bb
    <3>2. MovesOn(ents, e, B, I, K, x, aa, bb, D)
      BY <1>1, <2>1, <2>3, <3>1, FrontierMoves
    <3> QED
      BY <3>1, <3>2 DEF MovesOn
  <2>5. x \notin I /\ I \subseteq D
    BY <1>1, <2>1 DEF Frontier, LeastBelow
  <2>6. InTree(ents, t2, I2, D)
    BY <1>1, <2>1, <2>5, InTreeMore
  <2>7. StackOf(s2, K2, D)
    <3> DEFINE aa == a
               bb == b
               q == Tail(l.stack)
               Kq == K1
    <3>1. aa = Linked(ents, x, "left") /\ bb = Linked(ents, x, "right")
      OBVIOUS
    <3>2. StackOf(q, Kq, D) /\ Kq \subseteq K
      BY <2>1
    <3> HIDE DEF a, b
    <3>3. (aa = Nil \/ (aa \in D /\ aa \notin Kq)) /\ (bb = Nil \/ (bb \in D /\ bb \notin Kq)) /\ (aa = Nil \/ aa # bb)
      BY <2>4
    <3> HIDE DEF aa, bb, Kq, q, K1
    <3>4. StackOf(Onward(ents, x) \o q, Kq \cup ({aa, bb} \ {Nil}), D)
      BY <3>1, <3>2, <3>3, OnwardPushed
    <3> QED
      BY <3>4 DEF aa, bb, q, Kq
  <2>8. Cardinality(I2) = i + 1
    <3>1. IsFiniteSet(I)
      BY <2>3, <2>5, FS_Subset
    <3>2. Cardinality(I) = i
      BY <1>1, <1>3
    <3> QED
      BY <2>5, <3>1, <3>2, FS_AddElement
  <2>9. Frontier(ents, e, B, I2, K2)
    BY <2>4
  <2> HIDE DEF I2, K2, s2, t2
  <2> QED
    BY <2>2, <2>6, <2>7, <2>8, <2>9 DEF LoadState
<1> QED
  BY <1>2, <1>3

(* Before the first round.                                                   *)
LEMMA LoadStarts ==
  ASSUME NEW D, NEW ents \in [D -> Entry], NEW e, NEW B, LeastBelow(B, ents, e, Sides, D)
  PROVE LoadState(LoadStart(ents, e), 0, ents, e, B, D)
<1> DEFINE first == Linked(ents, e, "child")
           l == LoadStart(ents, e)
           K == {first} \ {Nil}
<1>1. l.tree = NewTree /\ l.stack = IF first = Nil THEN <<>> ELSE <<first>>
  BY DEF LoadStart
<1>2. first \in D \cup {Nil} /\ (first # Nil => first \in B)
  BY LinkedType DEF LeastBelow, ClosedBelow
<1> HIDE DEF l, first
<1>3. InTree(ents, l.tree, {}, D)
  <2>1. NewTree \in Trees({}) /\ Sound(NewTree) /\ EvenBlack(NewTree)
    BY NewTreeSound
  <2>2. Nodes(NewTree) = {}
    BY <2>1, Fields
  <2>3. Cached(NewTree, D, FALSE)
    <3>1. Nodes(NewTree) \subseteq NodesOf(D) /\ NewTree \in Trees(Nodes(NewTree))
      BY <2>1, <2>2
    <3> QED
      BY <2>1, <3>1, Zenon DEF Cached
  <2>4. EntriesOf({}) = {}
    BY DEF EntriesOf
  <2>5. InTree(ents, NewTree, {}, D)
    BY <2>2, <2>3, <2>4 DEF InTree
  <2> QED
    BY <1>1, <2>5
<1>4. StackOf(l.stack, K, D)
  <2>1. StackOf(<<>>, {}, D)
    BY DEF StackOf
  <2>2. CASE first = Nil
    <3>1. K = {}
      BY <2>2
    <3> QED
      BY <1>1, <2>1, <2>2, <3>1
  <2>3. CASE first # Nil
    <3>1. K = {} \cup {first} /\ first \in D /\ first \notin {}
      BY <1>2, <2>3
    <3>2. StackOf(<<first>> \o <<>>, {} \cup {first}, D)
      BY <2>1, <3>1, StackPush
    <3>3. <<first>> \o <<>> = <<first>>
      OBVIOUS
    <3> QED
      BY <1>1, <2>3, <3>1, <3>2, <3>3
  <2> QED
    BY <2>2, <2>3
<1>5. Frontier(ents, e, B, {}, K)
  <2>1. Linked(ents, e, "child") = first
    BY DEF first
  <2> QED
    BY <1>2, <2>1 DEF Frontier
<1>6. Cardinality({}) = 0
  BY FS_EmptySet
<1> HIDE DEF K
<1>7. LoadState(l, 0, ents, e, B, D)
  BY <1>3, <1>4, <1>5, <1>6 DEF LoadState
<1> QED
  BY <1>7 DEF l

(* loadChildren makes a tree of the entries below e: the rounds are enough.  *)
LEMMA LoadedTree ==
  ASSUME NEW D, Numbered(D), NEW ents \in [D -> Entry], NEW e, LinksTree(ents, e)
  PROVE InTree(ents, loadChildren(ents, e), Below(ents, e), D)
<1> DEFINE B == Below(ents, e)
           n == Cardinality(DOMAIN ents)
           F(g) == LoadSteps(g, ents, e, n)
           r == CHOOSE g : F(g)
<1>1. n \in Nat /\ IsFiniteSet(D) /\ n = Cardinality(D)
  <2>1. DOMAIN ents = D
    OBVIOUS
  <2> QED
    BY <2>1, NumberedCount
<1>2. loadChildren(ents, e) = r[n].tree
  BY DEF loadChildren, LoadSteps, LoadStart
<1>3. LinkedOnce(ents, e, B)
  BY TreeLinkedOnce
<1>4. LeastBelow(B, ents, e, Sides, D)
  BY ReachedLeast DEF Below, Sides
<1> HIDE DEF n, B
<1>5. F(r)
  <2>1. \E g : F(g)
    BY <1>1, LoadStepsExist
  <2> HIDE DEF F
  <2> QED
    BY <2>1
<1> HIDE DEF r
<1>6. r = [i \in 0 .. n |-> IF i = 0 THEN LoadStart(ents, e) ELSE addNode(ents, r[i - 1])]
  BY <1>5 DEF LoadSteps
<1> HIDE DEF F
<1> DEFINE S == {i \in Nat : i <= n => LoadState(r[i], i, ents, e, B, D)}
<1>7. 0 \in S
  <2>1. r[0] = LoadStart(ents, e)
    BY <1>1, <1>6
  <2> QED
    BY <1>4, <2>1, LoadStarts
<1>8. ASSUME NEW i \in Nat, i \in S PROVE i + 1 \in S
  <2>1. SUFFICES ASSUME i + 1 <= n PROVE LoadState(r[i + 1], i + 1, ents, e, B, D)
    OBVIOUS
  <2>2. i + 1 \in 0 .. n /\ i + 1 # 0 /\ (i + 1) - 1 = i /\ i <= n
    BY <1>1, <2>1
  <2>3. r[i + 1] = addNode(ents, r[i])
    BY <1>6, <2>2
  <2>4. LoadState(r[i], i, ents, e, B, D)
    BY <1>8, <2>2
  <2>5. LoadState(addNode(ents, r[i]), i + 1, ents, e, B, D)
    BY <1>3, <1>4, <2>4, LoadStep
  <2> QED
    BY <2>3, <2>5
<1>9. n \in S
  <2> HIDE DEF S
  <2> QED
    BY <1>1, <1>7, <1>8, Induct
<1>10. LoadState(r[n], n, ents, e, B, D)
  BY <1>1, <1>9
<1>11. PICK I, K : /\ InTree(ents, r[n].tree, I, D) /\ StackOf(r[n].stack, K, D) /\ Frontier(ents, e, B, I, K)
                   /\ r[n].stack # <<>> => Cardinality(I) = n
  BY <1>10 DEF LoadState
<1>12. I \subseteq D
  BY <1>4, <1>11 DEF Frontier, LeastBelow
<1>13. r[n].stack = <<>>
  <2>1. SUFFICES ASSUME r[n].stack # <<>> PROVE FALSE
    OBVIOUS
  <2>2. PICK x : x \in K
    BY <1>11, <2>1, StackPop
  <2>3. x \notin I /\ x \in D
    BY <1>4, <1>11, <2>2 DEF Frontier, LeastBelow
  <2>4. I = D
    BY <1>1, <1>11, <1>12, <2>1, FS_Subset
  <2> QED
    BY <2>3, <2>4
<1>14. K = {}
  BY <1>11, <1>13 DEF StackOf
<1>15. I = B
  <2>1. ClosedBelow(I, ents, e, Sides)
    BY <1>11, <1>14 DEF Frontier, ClosedBelow
  <2> QED
    BY <1>4, <1>11, <1>12, <2>1 DEF Frontier, LeastBelow
<1> QED
  BY <1>2, <1>11, <1>15 DEF B

(* The entries of a storage are those below it.                              *)
LEMMA BelowIsOwned ==
  ASSUME NEW c, NEW own, NEW D, Collected(c, own, D), NEW e \in D
  PROVE /\ Below(c.dirs, e) = Owned(own, e) /\ Owned(own, e) \in SUBSET D
        /\ c.dirs[e].child \in Owned(own, e) \cup {Nil}
        /\ \A f \in Owned(own, e), d \in Sides : c.dirs[f][d] \in Owned(own, e) \cup {Nil}
<1> DEFINE V == Owned(own, e)
<1>1. /\ Numbered(D) /\ own \in [D -> D \cup {Nil}] /\ LinksOwned(c.dirs, own) /\ c \in Colls(D) /\ EachHangs(c.dirs, own)
  BY DEF Collected
<1>2. Nil \notin D /\ DOMAIN own = D
  BY <1>1, StorageAssumption, NumberedCount DEF StorageAssumption
<1>3. c.dirs \in [D -> Entry]
  BY <1>1 DEF Colls
<1>4. V \in SUBSET D /\ c.dirs[e].child \in V \cup {Nil} /\ \A f \in V, d \in Sides : c.dirs[f][d] \in V \cup {Nil}
  BY <1>1, <1>2 DEF LinksOwned, Owned
<1>5. Spanned(c.dirs, e, V)
  BY <1>1, <1>2 DEF EachHangs, Hangs
<1> HIDE DEF V
<1>6. Below(c.dirs, e) = V
  BY <1>1, <1>3, <1>4, <1>5, BelowOwned
<1> QED
  BY <1>4, <1>6 DEF V

(* A tree that is loaded fits the storage.                                   *)
LEMMA LoadedFits ==
  ASSUME NEW c, NEW own, NEW D, Collected(c, own, D), NEW e \in D, LinksTree(c.dirs, e), NEW wrong
  PROVE Cached(loadChildren(c.dirs, e), D, wrong) /\ Fits(c, own, e, loadChildren(c.dirs, e))
<1> DEFINE X == Below(c.dirs, e)
           t == loadChildren(c.dirs, e)
<1>1. Numbered(D) /\ c.dirs \in [D -> Entry]
  BY DEF Collected, Colls
<1>2. X = Owned(own, e)
  BY BelowIsOwned
<1>3. InTree(c.dirs, t, X, D)
  BY <1>1, LoadedTree
<1> HIDE DEF X, t
<1>4. Cached(t, D, wrong)
  <2>1. Cached(t, D, FALSE)
    BY <1>3 DEF InTree
  <2> QED
    BY <2>1, Zenon DEF Cached
<1>5. Fits(c, own, e, t)
  <2>1. X = EntriesOf(Nodes(t)) /\ \A n \in Nodes(t) : Key(n) = c.dirs[Value(n)].name /\ n \in t.dirty
    BY <1>3 DEF InTree
  <2>2. (\A n \in Nodes(t) : Value(n) \in X) /\ \A f \in X : \E n \in Nodes(t) : Value(n) = f
    BY <2>1 DEF EntriesOf
  <2> QED
    BY <1>2, <2>1, <2>2 DEF Fits
<1> QED
  BY <1>4, <1>5 DEF t

-----------------------------------------------------------------------------
(***************************************************************************)
(* The account of the entries, as the steps change it.                     *)
(***************************************************************************)

\* The types of the owners.
OwnersOf(own, D) == own \in [D -> D \cup {Nil}] /\ Nil \notin D /\ 0 \in D /\ own[0] = Nil

(* The owners of a collection; a free entry is of no storage, and has none.  *)
LEMMA FreeOwnNone ==
  ASSUME NEW c, NEW own, NEW D, Collected(c, own, D)
  PROVE /\ OwnersOf(own, D) /\ c.free \subseteq D /\ 0 \notin c.free
        /\ \A f \in c.free : own[f] = Nil /\ Owned(own, f) = {}
<1>1. /\ Numbered(D) /\ own \in [D -> D \cup {Nil}] /\ RootUsed(c, own) /\ FreeEmpty(c, own) /\ EachHangs(c.dirs, own)
      /\ c \in Colls(D)
  BY DEF Collected
<1>2. OwnersOf(own, D) /\ 0 \notin c.free
  BY <1>1, StorageAssumption, NumberedCount DEF StorageAssumption, RootUsed, OwnersOf
<1>3. c.free \subseteq D
  BY <1>1 DEF Colls
<1>4. ASSUME NEW f \in c.free PROVE own[f] = Nil /\ Owned(own, f) = {}
  <2>1. own[f] = Nil /\ c.dirs[f].child = Nil
    BY <1>1 DEF FreeEmpty, EmptyEntry
  <2>2. Spanned(c.dirs, f, Owned(own, f))
    BY <1>1, <1>3 DEF EachHangs, Hangs
  <2>3. {} \in SUBSET Owned(own, f) /\ \A x \in {}, d \in Sides : c.dirs[x][d] # Nil => c.dirs[x][d] \in {}
    OBVIOUS
  <2> QED
    BY <2>1, <2>2, <2>3 DEF Spanned
<1> QED
  BY <1>2, <1>3, <1>4

(* addSector: what is new is free.                                           *)
LEMMA ReckonedMore ==
  ASSUME NEW own, NEW D, OwnersOf(own, D), NEW fr, NEW lk, Reckoned(own, D, fr, lk),
         NEW own2, NEW D2, D \subseteq D2, own2 \in [D2 -> D2 \cup {Nil}],
         \A f \in D : own2[f] = own[f], \A f \in D2 : f \notin D => own2[f] = Nil
  PROVE Reckoned(own2, D2, fr \cup (D2 \ D), lk)
<1> DEFINE C == InUse(D, fr, lk)
           C2 == InUse(D2, fr \cup (D2 \ D), lk)
<1>1. /\ \A x \in C : own[x] # Nil /\ own[x] \notin lk
      /\ \A x \in lk : x \in D /\ x \notin fr /\ x # 0 /\ (own[x] = Nil \/ own[x] \in lk)
      /\ \A S \in SUBSET C : (\A e \in S \cup {0} : Owned(own, e) \subseteq S) => S = C
  BY DEF Reckoned
<1>2. own \in [D -> D \cup {Nil}] /\ Nil \notin D /\ 0 \in D
  BY DEF OwnersOf
<1>3. C2 = C /\ C \subseteq D
  BY DEF InUse
<1>4. \A e \in D : Owned(own, e) \subseteq Owned(own2, e)
  BY <1>2 DEF Owned
<1> HIDE DEF C, C2
<1>5. \A S \in SUBSET C : (\A e \in S \cup {0} : Owned(own2, e) \subseteq S) => S = C
  BY <1>1, <1>2, <1>3, <1>4
<1>6. /\ \A x \in C : own2[x] # Nil /\ own2[x] \notin lk
      /\ \A x \in lk : x \in D2 /\ x \notin fr \cup (D2 \ D) /\ x # 0 /\ (own2[x] = Nil \/ own2[x] \in lk)
  BY <1>1, <1>3
<1> QED
  BY <1>3, <1>5, <1>6 DEF Reckoned, C2

(* A call that fails leaks the entry it has popped.                          *)
LEMMA ReckonedFails ==
  ASSUME NEW own, NEW D, OwnersOf(own, D), NEW fr, NEW lk, Reckoned(own, D, fr, lk),
         NEW id \in fr, id \in D, id # 0, own[id] = Nil, Owned(own, id) = {}
  PROVE Reckoned(own, D, fr \ {id}, lk \cup {id})
<1> DEFINE C == InUse(D, fr, lk)
<1>1. /\ \A x \in C : own[x] # Nil /\ own[x] \notin lk
      /\ \A x \in lk : x \in D /\ x \notin fr /\ x # 0 /\ (own[x] = Nil \/ own[x] \in lk)
      /\ \A S \in SUBSET C : (\A e \in S \cup {0} : Owned(own, e) \subseteq S) => S = C
  BY DEF Reckoned
<1>2. InUse(D, fr \ {id}, lk \cup {id}) = C /\ C \subseteq D
  BY DEF InUse
<1>3. \A x \in D : own[x] # id
  BY DEF Owned, OwnersOf
<1> HIDE DEF C
<1>4. \A x \in C : own[x] # Nil /\ own[x] \notin lk \cup {id}
  BY <1>1, <1>2, <1>3
<1>5. \A x \in lk \cup {id} : x \in D /\ x \notin fr \ {id} /\ x # 0 /\ (own[x] = Nil \/ own[x] \in lk \cup {id})
  BY <1>1
<1> QED
  BY <1>1, <1>2, <1>4, <1>5 DEF Reckoned

(* A new entry is in use, of the storage e.                                  *)
LEMMA ReckonedAdd ==
  ASSUME NEW own, NEW D, OwnersOf(own, D), NEW fr, NEW lk, Reckoned(own, D, fr, lk),
         NEW id \in fr, id \in D, id # 0, own[id] = Nil, Owned(own, id) = {},
         NEW e \in D, e \notin lk, e \notin fr
  PROVE Reckoned([own EXCEPT ![id] = e], D, fr \ {id}, lk)
<1> DEFINE C == InUse(D, fr, lk)
           C2 == InUse(D, fr \ {id}, lk)
           own2 == [own EXCEPT ![id] = e]
<1>1. /\ \A x \in C : own[x] # Nil /\ own[x] \notin lk
      /\ \A x \in lk : x \in D /\ x \notin fr /\ x # 0 /\ (own[x] = Nil \/ own[x] \in lk)
      /\ \A S \in SUBSET C : (\A f \in S \cup {0} : Owned(own, f) \subseteq S) => S = C
  BY DEF Reckoned
<1>2. own \in [D -> D \cup {Nil}] /\ Nil \notin D /\ 0 \in D
  BY DEF OwnersOf
<1>3. id \notin lk
  BY <1>1
<1>4. C2 = C \cup {id} /\ C \subseteq D /\ id \notin C /\ e \in C \cup {0}
  BY <1>3 DEF InUse
<1>5. \A x \in D : own2[x] = IF x = id THEN e ELSE own[x]
  BY <1>2
<1>6. DOMAIN own = D /\ DOMAIN own2 = D
  BY <1>2
<1> HIDE DEF C, C2, own2
<1>7. ASSUME NEW S \in SUBSET C2, \A f \in S \cup {0} : Owned(own2, f) \subseteq S PROVE S = C2
  <2> DEFINE T == S \ {id}
  <2>1. T \in SUBSET C
    BY <1>4
  <2>2. ASSUME NEW f \in T \cup {0} PROVE Owned(own, f) \subseteq T
    <3>1. f # Nil
      BY <1>2, <1>4, <2>1
    <3>2. SUFFICES ASSUME NEW x \in D, own[x] = f PROVE x \in T
      BY <1>6 DEF Owned
    <3>3. x # id
      BY <3>1, <3>2
    <3>4. x \in Owned(own2, f)
      BY <1>5, <1>6, <3>2, <3>3 DEF Owned
    <3> QED
      BY <1>7, <2>2, <3>3, <3>4
  <2>3. T = C
    BY <1>1, <2>1, <2>2
  <2>4. id \in Owned(own2, e)
    BY <1>5, <1>6 DEF Owned
  <2>5. e \in S \cup {0}
    BY <1>4, <2>3
  <2>6. id \in S
    BY <1>7, <2>4, <2>5
  <2> QED
    BY <1>4, <1>7, <2>3, <2>6
<1>8. \A x \in C2 : own2[x] # Nil /\ own2[x] \notin lk
  BY <1>1, <1>2, <1>4, <1>5
<1>9. \A x \in lk : x \in D /\ x \notin fr \ {id} /\ x # 0 /\ (own2[x] = Nil \/ own2[x] \in lk)
  BY <1>1, <1>3, <1>5
<1> QED
  BY <1>7, <1>8, <1>9 DEF Reckoned, C2, own2

\* The entry v is of no storage, nor is what it had.
Orphaned(own, v) == [x \in DOMAIN own |-> IF x = v \/ own[x] = v THEN Nil ELSE own[x]]

(* The entry v is free, and the entries B below it are leaked.               *)
LEMMA ReckonedDelete ==
  ASSUME NEW own, NEW D, OwnersOf(own, D), NEW fr, NEW lk, Reckoned(own, D, fr, lk),
         NEW v \in InUse(D, fr, lk), NEW B \in SUBSET InUse(D, fr, lk), v \notin B, Owned(own, v) \subseteq B,
         \A w \in B : Owned(own, w) \subseteq B /\ own[w] \in B \cup {v}
  PROVE Reckoned(Orphaned(own, v), D, fr \cup {v}, lk \cup B)
<1> DEFINE C == InUse(D, fr, lk)
           C2 == InUse(D, fr \cup {v}, lk \cup B)
           own2 == Orphaned(own, v)
<1>1. /\ \A x \in C : own[x] # Nil /\ own[x] \notin lk
      /\ \A x \in lk : x \in D /\ x \notin fr /\ x # 0 /\ (own[x] = Nil \/ own[x] \in lk)
      /\ \A S \in SUBSET C : (\A f \in S \cup {0} : Owned(own, f) \subseteq S) => S = C
  BY DEF Reckoned
<1>2. own \in [D -> D \cup {Nil}] /\ Nil \notin D /\ 0 \in D
  BY DEF OwnersOf
<1>3. C2 = C \ ({v} \cup B) /\ C \subseteq D /\ v \in C /\ B \subseteq C /\ C \cap (lk \cup fr \cup {0}) = {}
  BY DEF InUse
<1>4. DOMAIN own = D /\ DOMAIN own2 = D /\ \A x \in D : own2[x] = IF x = v \/ own[x] = v THEN Nil ELSE own[x]
  BY <1>2 DEF Orphaned
<1>5. \A x \in D : own[x] = v => x \in B
  BY <1>4 DEF Owned
<1>6. \A x \in D : own[x] \in B => x \in B
  BY <1>4 DEF Owned
<1> HIDE DEF C, C2, own2
<1>7. \A x \in C2 : own2[x] # Nil /\ own2[x] \notin lk \cup B
  BY <1>1, <1>3, <1>4, <1>5, <1>6
<1>8. ASSUME NEW x \in lk \cup B
      PROVE x \in D /\ x \notin fr \cup {v} /\ x # 0 /\ (own2[x] = Nil \/ own2[x] \in lk \cup B)
  <2>1. x \in D /\ x \notin fr \cup {v} /\ x # 0
    BY <1>1, <1>3
  <2>2. own[x] = Nil \/ own[x] \in lk \cup B \cup {v}
    BY <1>1
  <2> QED
    BY <1>4, <2>1, <2>2
<1>9. ASSUME NEW S \in SUBSET C2, \A f \in S \cup {0} : Owned(own2, f) \subseteq S PROVE S = C2
  <2> DEFINE T == S \cup {v} \cup B
  <2>1. T \in SUBSET C
    BY <1>3
  <2>2. ASSUME NEW f \in T \cup {0}, NEW x \in D, own[x] = f PROVE x \in T
    <3>1. CASE f = v \/ f \in B
      BY <1>5, <1>6, <2>2, <3>1
    <3>2. CASE f \notin {v} \cup B
      <4>1. f \in S \cup {0}
        BY <2>2, <3>2
      <4>2. CASE x = v
        BY <4>2
      <4>3. CASE x # v
        <5>1. own2[x] = f
          BY <1>4, <2>2, <3>2, <4>3
        <5>2. x \in Owned(own2, f)
          BY <1>4, <5>1 DEF Owned
        <5> QED
          BY <1>9, <4>1, <5>2
      <4> QED
        BY <4>2, <4>3
    <3> QED
      BY <3>1, <3>2
  <2>3. \A f \in T \cup {0} : Owned(own, f) \subseteq T
    BY <1>4, <2>2 DEF Owned
  <2>4. T = C
    <3> HIDE DEF T
    <3> QED
      BY <1>1, <2>1, <2>3
  <2> QED
    BY <1>3, <1>9, <2>4
<1> QED
  BY <1>7, <1>8, <1>9 DEF Reckoned, C2, own2

(* What was given to a call that failed is free once the document is opened  *)
(* again.                                                                    *)
LEMMA ReckonedRead ==
  ASSUME NEW own, NEW D, OwnersOf(own, D), NEW fr, NEW lk, Reckoned(own, D, fr, lk), NEW fr2, NEW lk2,
         fr \subseteq fr2, fr2 \in SUBSET D, 0 \notin fr2, lk2 = lk \ fr2, \A x \in fr2 : own[x] = Nil /\ Owned(own, x) = {}
  PROVE Reckoned(own, D, fr2, lk2)
<1> DEFINE C == InUse(D, fr, lk)
<1>1. /\ \A x \in C : own[x] # Nil /\ own[x] \notin lk
      /\ \A x \in lk : x \in D /\ x \notin fr /\ x # 0 /\ (own[x] = Nil \/ own[x] \in lk)
      /\ \A S \in SUBSET C : (\A f \in S \cup {0} : Owned(own, f) \subseteq S) => S = C
  BY DEF Reckoned
<1>2. InUse(D, fr2, lk2) = C
  <2>1. fr2 \cap C = {}
    BY <1>1
  <2> QED
    BY <2>1 DEF InUse
<1>3. \A x \in D : own[x] \notin fr2
  BY DEF Owned, OwnersOf
<1> HIDE DEF C
<1> QED
  BY <1>1, <1>2, <1>3 DEF Reckoned

(* What a storage in use has is in use, and what is in use is of one.        *)
LEMMA InUseOwned ==
  ASSUME NEW c, NEW own, NEW D, Collected(c, own, D), NEW lk, Reckoned(own, D, c.free, lk)
  PROVE LET C == InUse(D, c.free, lk) IN
        /\ C \subseteq D /\ 0 \notin C
        /\ \A x \in C \cup {0} : Owned(own, x) \subseteq C
        /\ \A x \in C : own[x] \in C \cup {0}
<1> DEFINE C == InUse(D, c.free, lk)
<1>1. /\ own \in [D -> D \cup {Nil}] /\ Nil \notin D /\ 0 \in D /\ own[0] = Nil /\ c.free \subseteq D
      /\ \A f \in c.free : own[f] = Nil /\ Owned(own, f) = {}
  BY FreeOwnNone DEF OwnersOf
<1>2. /\ \A x \in C : own[x] # Nil /\ own[x] \notin lk
      /\ \A x \in lk : x \in D /\ x \notin c.free /\ x # 0 /\ (own[x] = Nil \/ own[x] \in lk)
  BY DEF Reckoned
<1>3. \A x \in D : x \in C <=> x \notin lk /\ x \notin c.free /\ x # 0
  BY DEF InUse
<1>4. C \subseteq D /\ 0 \notin C
  BY DEF InUse
<1> HIDE DEF C
<1>5. ASSUME NEW x \in C \cup {0} PROVE Owned(own, x) \subseteq C
  <2>1. SUFFICES ASSUME NEW f \in D, own[f] = x PROVE f \in C
    BY <1>1 DEF Owned
  <2>2. x # Nil /\ x \notin lk
    BY <1>1, <1>2, <1>3, <1>4, <1>5
  <2> QED
    BY <1>1, <1>2, <1>3, <2>1, <2>2
<1>6. ASSUME NEW x \in C PROVE own[x] \in C \cup {0}
  <2>1. own[x] \in D /\ own[x] \notin lk
    BY <1>1, <1>2, <1>4
  <2>2. x \in Owned(own, own[x])
    BY <1>1, <1>4 DEF Owned
  <2> QED
    BY <1>1, <1>3, <2>1, <2>2
<1> QED
  BY <1>4, <1>5, <1>6 DEF C

(* The descendants of a storage in use: what it has, with what those have,   *)
(* and nothing else; those of the root are all that is in use.               *)
LEMMA DescendantsOwned ==
  ASSUME NEW c, NEW own, NEW D, Collected(c, own, D), NEW lk, Reckoned(own, D, c.free, lk),
         NEW v \in InUse(D, c.free, lk) \cup {0}
  PROVE LET R == Descendants(c.dirs, v)
            C == InUse(D, c.free, lk)
        IN /\ R \subseteq C /\ Owned(own, v) \subseteq R
           /\ \A w \in R : Owned(own, w) \subseteq R /\ own[w] \in R \cup {v}
           /\ v = 0 => R = C
           /\ v # 0 => v \notin R
<1> DEFINE R == Descendants(c.dirs, v)
           C == InUse(D, c.free, lk)
           ents == c.dirs
           sides == {"left", "right", "child"}
<1>1. /\ Numbered(D) /\ own \in [D -> D \cup {Nil}] /\ LinksOwned(ents, own) /\ EachHangs(ents, own) /\ ents \in [D -> Entry]
  BY DEF Collected, Colls
<1>2. Nil \notin D /\ 0 \in D /\ DOMAIN own = D
  BY <1>1, FreeOwnNone DEF OwnersOf
<1>3. /\ C \subseteq D /\ 0 \notin C
      /\ \A x \in C \cup {0} : Owned(own, x) \subseteq C
      /\ \A x \in C : own[x] \in C \cup {0}
  BY InUseOwned
<1>4. \A S \in SUBSET C : (\A e \in S \cup {0} : Owned(own, e) \subseteq S) => S = C
  BY DEF Reckoned
<1>5. LeastBelow(R, ents, v, sides, D)
  BY <1>1, ReachedLeast DEF Descendants
<1> HIDE DEF C, R, ents
<1>6. v \in C \cup {0} /\ v \in D /\ v # Nil
  BY <1>2, <1>3 DEF C
<1>7. \A x \in D : ents[x].child \in Owned(own, x) \cup {Nil} /\ Linked(ents, x, "child") = ents[x].child
  <2>1. ASSUME NEW x \in D PROVE ents[x].child \in Owned(own, x) \cup {Nil}
    BY <1>1, <1>2 DEF LinksOwned
  <2> QED
    BY <1>1, <1>2, <2>1 DEF Linked, Owned
<1>8. \A x \in C, d \in Sides : ents[x][d] \in Owned(own, own[x]) \cup {Nil} /\ Linked(ents, x, d) = ents[x][d]
  <2>1. ASSUME NEW x \in C, NEW d \in Sides PROVE ents[x][d] \in Owned(own, own[x]) \cup {Nil}
    <3>1. own[x] # Nil /\ x \in D
      BY <1>2, <1>3
    <3> QED
      BY <1>1, <1>2, <3>1 DEF LinksOwned
  <2> QED
    BY <1>1, <1>2, <2>1 DEF Linked, Owned
<1>9. sides = Sides \cup {"child"}
  BY DEF Sides
<1> HIDE DEF sides
<1>10. R \subseteq C
  <2>1. ents[v].child # Nil => ents[v].child \in C
    BY <1>3, <1>6, <1>7
  <2>2. ASSUME NEW f \in C, NEW d \in sides, Linked(ents, f, d) # Nil PROVE Linked(ents, f, d) \in C
    <3>1. CASE d = "child"
      BY <1>3, <1>7, <2>2, <3>1
    <3>2. CASE d \in Sides
      BY <1>3, <1>8, <2>2, <3>2
    <3> QED
      BY <1>9, <3>1, <3>2
  <2>3. ClosedBelow(C, ents, v, sides)
    BY <1>6, <1>7, <2>1, <2>2 DEF ClosedBelow
  <2> QED
    BY <1>3, <1>5, <2>3 DEF LeastBelow
<1>11. /\ ents[v].child # Nil => ents[v].child \in R
       /\ \A f \in R, d \in Sides : ents[f][d] # Nil => ents[f][d] \in R
       /\ \A f \in R : ents[f].child # Nil => ents[f].child \in R
  <2>1. ClosedBelow(R, ents, v, sides)
    BY <1>5 DEF LeastBelow
  <2>2. \A f \in R, d \in sides : Linked(ents, f, d) # Nil => Linked(ents, f, d) \in R
    BY <2>1 DEF ClosedBelow
  <2>3. ents[v].child # Nil => ents[v].child \in R
    BY <1>6, <1>7, <2>1 DEF ClosedBelow
  <2>4. \A f \in R, d \in Sides : ents[f][d] # Nil => ents[f][d] \in R
    BY <1>8, <1>9, <1>10, <2>2
  <2>5. \A f \in R : ents[f].child # Nil => ents[f].child \in R
    BY <1>3, <1>7, <1>9, <1>10, <2>2
  <2> QED
    BY <2>3, <2>4, <2>5
<1>12. ASSUME NEW w \in R \cup {v} PROVE Owned(own, w) \subseteq R
  <2> DEFINE V == Owned(own, w)
             T == R \cap V
  <2>1. w \in D /\ w # Nil /\ (ents[w].child # Nil => ents[w].child \in R)
    BY <1>3, <1>6, <1>10, <1>11, <1>2
  <2>2. ents[w].child # Nil => ents[w].child \in T
    BY <1>7, <2>1
  <2>3. ASSUME NEW f \in T, NEW d \in Sides, ents[f][d] # Nil PROVE ents[f][d] \in T
    <3>1. f \in R /\ f \in C /\ own[f] = w
      BY <1>10, <2>3 DEF Owned
    <3> QED
      BY <1>8, <1>11, <2>3, <3>1
  <2>4. Spanned(ents, w, V)
    BY <1>1, <1>2, <2>1 DEF EachHangs, Hangs
  <2> HIDE DEF V
  <2>5. T \in SUBSET V
    OBVIOUS
  <2> HIDE DEF T
  <2>6. T = V
    BY <2>2, <2>3, <2>4, <2>5 DEF Spanned
  <2> QED
    BY <2>6 DEF T, V
<1>13. ASSUME NEW w \in R PROVE own[w] \in R \cup {v}
  <2> DEFINE T == {x \in R : own[x] \in R \cup {v}}
  <2>1. T \in SUBSET D
    BY <1>3, <1>10
  <2>2. ents[v].child # Nil => ents[v].child \in T
    BY <1>6, <1>7, <1>11 DEF Owned
  <2>3. ASSUME NEW f \in T, NEW d \in sides, Linked(ents, f, d) # Nil PROVE Linked(ents, f, d) \in T
    <3>1. f \in R /\ f \in C /\ f \in D /\ own[f] \in R \cup {v}
      BY <1>3, <1>10, <2>3
    <3>2. CASE d = "child"
      <4>1. ents[f].child \in R /\ own[ents[f].child] = f
        BY <1>7, <1>11, <2>3, <3>1, <3>2 DEF Owned
      <4> QED
        BY <1>7, <3>1, <3>2, <4>1
    <3>3. CASE d \in Sides
      <4>1. ents[f][d] \in R /\ own[ents[f][d]] = own[f]
        BY <1>8, <1>11, <2>3, <3>1, <3>3 DEF Owned
      <4> QED
        BY <1>8, <3>1, <3>3, <4>1
    <3> QED
      BY <1>9, <3>2, <3>3
  <2> HIDE DEF T
  <2>4. ClosedBelow(T, ents, v, sides)
    BY <1>6, <1>7, <2>2, <2>3 DEF ClosedBelow
  <2>5. R \subseteq T
    BY <1>5, <2>1, <2>4 DEF LeastBelow
  <2> QED
    BY <2>5 DEF T
<1>14. ASSUME v = 0 PROVE R = C
  BY <1>4, <1>10, <1>12, <1>14
<1>15. ASSUME v # 0, v \in R PROVE FALSE
  <2> DEFINE S == C \ R
  <2>1. ASSUME NEW e \in S \cup {0}, NEW x \in Owned(own, e) PROVE x \in S
    <3>1. x \in C /\ own[x] = e
      BY <1>3, <2>1 DEF Owned
    <3>2. e \notin R \cup {v}
      BY <1>3, <1>10, <1>15, <2>1
    <3> QED
      BY <1>13, <3>1, <3>2
  <2>2. S \in SUBSET C
    OBVIOUS
  <2> HIDE DEF S
  <2>3. S = C
    BY <1>4, <2>1, <2>2
  <2> QED
    BY <1>10, <1>15, <2>3 DEF S
<1> QED
  BY <1>10, <1>12, <1>13, <1>14, <1>15 DEF R, C, ents

-----------------------------------------------------------------------------
(***************************************************************************)
(* A call, up to where it changes an entry.                                *)
(***************************************************************************)

\* The handle h has the tree t, which is that of its storage.
Ready(c, own, D, hs, h, t, H, out, wrong) ==
  /\ Holds(c, own, D, hs, H, out, wrong) /\ h \in H \ out /\ Alone(hs, h, H, out)
  /\ hs[h].entry \in D /\ hs[h].entry # Nil /\ hs[h].tree = t
  /\ Cached(t, D, wrong) /\ Held(c, hs[h].entry, D) /\ Fits(c, own, hs[h].entry, t)

(* The handle gets the tree.                                                 *)
LEMMA ReadySet ==
  ASSUME NEW c, NEW own, NEW D, NEW hs, NEW H, NEW out, NEW wrong, Holds(c, own, D, hs, H, out, wrong),
         NEW h \in H \ out, Alone(hs, h, H, out), hs[h].entry # Nil, NEW t,
         Cached(t, D, wrong), Fits(c, own, hs[h].entry, t)
  PROVE Ready(c, own, D, [hs EXCEPT ![h].tree = t], h, t, H, out, wrong)
<1> DEFINE e == hs[h].entry
           hs2 == [hs EXCEPT ![h].tree = t]
<1>1. Current(c, own, D, hs[h]) /\ Handled(hs, H, D, wrong)
  BY DEF Holds
<1>2. e \in D /\ Held(c, e, D)
  BY <1>1 DEF Current, Held, Used
<1>3. Collected(c, own, D) /\ Cached(t, D, wrong) /\ Fits(c, own, e, t)
  BY DEF Holds
<1>5. Holds(c, own, D, hs2, H, out, wrong)
  <2>1. \A g \in H \ out : hs[g].entry # hs[h].entry /\ hs[g].entry # Nil => Spared(c, own, D, c, own, D, hs[g].entry)
    BY DEF Spared, Untouched
  <2>2. Held(c, hs[h].entry, D) /\ Fits(c, own, hs[h].entry, t)
    BY <1>2, <1>3
  <2>3. h \in H /\ out \subseteq out
    OBVIOUS
  <2> HIDE DEF hs2
  <2>4. Holds(c, own, D, [hs EXCEPT ![h].tree = t], H, out, wrong)
    BY <1>3, <2>1, <2>2, <2>3, HandleStep
  <2> QED
    BY <2>4 DEF hs2
<1>6. /\ hs2[h].entry = hs[h].entry /\ hs2[h].tree = t
      /\ \A g \in H : g # h => hs2[g] = hs[g]
  <2>1. Given([hs EXCEPT ![h].tree = t], hs, h, t, H, D, wrong)
    BY <1>1, <1>3, TreeSet, Zenon
  <2> QED
    BY <2>1 DEF Given
<1> HIDE DEF hs2
<1>7. Alone(hs2, h, H, out)
  BY <1>6 DEF Alone
<1> HIDE DEF e
<1>8. Ready(c, own, D, hs2, h, t, H, out, wrong)
  BY <1>2, <1>3, <1>5, <1>6, <1>7 DEF Ready, e
<1> QED
  BY <1>8 DEF hs2

(* What hangs below an entry is a tree to LinksTree.                         *)
LEMMA HangsTree ==
  ASSUME NEW c, NEW own, NEW D, Collected(c, own, D), NEW e \in D
  PROVE LinksTree(c.dirs, e)
<1> DEFINE ents == c.dirs
           V == Owned(own, e)
           into(f) == {l \in V \X {"left", "right"} : Linked(ents, l[1], l[2]) = f}
<1>1. /\ Below(ents, e) = V /\ V \in SUBSET D /\ ents[e].child \in V \cup {Nil}
      /\ \A p \in V, d \in Sides : ents[p][d] \in V \cup {Nil}
  BY BelowIsOwned
<1>2. Spanned(ents, e, V) /\ SingleLinks(ents, e, V) /\ DOMAIN ents = D /\ Nil \notin D
  <2>1. own \in [D -> D \cup {Nil}] /\ Nil \notin D
    BY FreeOwnNone DEF OwnersOf
  <2>2. c \in Colls(D) /\ EachHangs(ents, own)
    BY DEF Collected
  <2> QED
    BY <2>1, <2>2 DEF Colls, EachHangs, Hangs
<1> HIDE DEF ents, V
<1>3. /\ \A p \in V, d \in Sides : Linked(ents, p, d) = ents[p][d]
      /\ Linked(ents, e, "child") = ents[e].child
  BY <1>1, <1>2 DEF Linked
<1>4. ASSUME NEW f \in V PROVE Cardinality(into(f)) = (IF f = Linked(ents, e, "child") THEN 0 ELSE 1)
  <2>1. f # Nil
    BY <1>1, <1>2
  <2>2. CASE f = ents[e].child
    <3>1. \A p \in V, d \in Sides : ents[p][d] # f
      BY <1>2, <2>1, <2>2 DEF SingleLinks
    <3>2. into(f) = {}
      BY <1>3, <3>1 DEF Sides
    <3> QED
      BY <1>3, <2>2, <3>2, FS_EmptySet
  <2>3. CASE f # ents[e].child
    <3>1. PICK p \in V, d \in Sides : ents[p][d] = f
      <4>1. SUFFICES ASSUME \A p \in V, d \in Sides : ents[p][d] # f PROVE FALSE
        OBVIOUS
      <4> DEFINE C == V \ {f}
      <4>2. C \in SUBSET V /\ f \notin C
        OBVIOUS
      <4>3. ents[e].child # Nil => ents[e].child \in C
        BY <1>1, <2>3
      <4>4. \A p \in C, d \in Sides : ents[p][d] # Nil => ents[p][d] \in C
        BY <1>1, <4>1
      <4> HIDE DEF C
      <4>5. C = V
        BY <1>2, <4>2, <4>3, <4>4 DEF Spanned
      <4> QED
        BY <4>2, <4>5
    <3>2. \A q \in V, s \in Sides : ents[q][s] = f => q = p /\ s = d
      BY <1>2, <2>1, <3>1 DEF SingleLinks
    <3>3. into(f) = {<<p, d>>}
      <4>1. ASSUME NEW l \in into(f) PROVE l = <<p, d>>
        <5>1. l[1] \in V /\ l[2] \in Sides /\ l = <<l[1], l[2]>> /\ Linked(ents, l[1], l[2]) = f
          BY DEF Sides
        <5> QED
          BY <1>3, <3>2, <5>1
      <4>2. <<p, d>> \in into(f)
        BY <1>3, <3>1 DEF Sides
      <4> QED
        BY <4>1, <4>2
    <3> QED
      BY <1>3, <2>3, <3>3, FS_Singleton
  <2> QED
    BY <2>2, <2>3
<1> QED
  BY <1>1, <1>4 DEF LinksTree, ents

(* A handle that a call can be made on is ready, once it has loaded its      *)
(* children.                                                                 *)
LEMMA CallReady ==
  ASSUME NEW own, Holds(Collection, own, Ids, handle, Handles, gone, lost), NEW h \in Callable
  PROVE Ready(Collection, own, Ids, [handle EXCEPT ![h].tree = TreeOf(h)], h, TreeOf(h), Handles, gone, lost)
<1> DEFINE e == handle[h].entry
           c == Collection
<1>1. h \in Handles \ gone /\ e # Nil /\ Alone(handle, h, Handles, gone)
  BY DEF Callable, CanUse, Alone, Loaded
<1>2. Current(c, own, Ids, handle[h]) /\ Handled(handle, Handles, Ids, lost) /\ Collected(c, own, Ids)
  BY <1>1 DEF Holds
<1>3. e \in Ids /\ Held(c, e, Ids)
  BY <1>1, <1>2 DEF Current, Held, Used
<1>4. CASE Loaded(h)
  <2>1. TreeOf(h) = handle[h].tree /\ handle[h].tree # Nil
    BY <1>4 DEF TreeOf, Loaded
  <2>2. Cached(TreeOf(h), Ids, lost) /\ Fits(c, own, e, TreeOf(h))
    BY <1>1, <1>2, <2>1 DEF Current, Handled
  <2> HIDE DEF c
  <2> QED
    BY <1>1, <2>2, ReadySet DEF c
<1>5. CASE ~Loaded(h)
  <2>1. TreeOf(h) = loadChildren(dirs, e) /\ c.dirs = dirs
    BY <1>5 DEF TreeOf, Collection
  <2>2. LinksTree(c.dirs, e)
    <3> HIDE DEF c, e
    <3> QED
      BY <1>2, <1>3, HangsTree
  <2>3. Cached(TreeOf(h), Ids, lost) /\ Fits(c, own, e, TreeOf(h))
    <3>1. Cached(loadChildren(c.dirs, e), Ids, lost) /\ Fits(c, own, e, loadChildren(c.dirs, e))
      <4> HIDE DEF c, e
      <4> QED
        BY <1>2, <1>3, <2>2, LoadedFits
    <3> QED
      BY <2>1, <3>1
  <2> HIDE DEF c
  <2> QED
    BY <1>1, <2>3, ReadySet DEF c
<1> QED
  BY <1>4, <1>5

-----------------------------------------------------------------------------
(***************************************************************************)
(* What a reader of the directory sectors sees, and what a call does to it. *)
(***************************************************************************)

\* What the sectors hold is read into memory.
Reread(c, f) == [dirs |-> c.saved, free |-> f, saved |-> c.saved]

(* What is read is a collection.                                             *)
LEMMA RereadCollected ==
  ASSUME NEW c, NEW own, NEW D, Collected(c, own, D), NEW f \in SUBSET D, 0 \notin f,
         \A x \in f : own[x] = Nil /\ c.saved[x] = EmptyEntry
  PROVE Collected(Reread(c, f), own, D)
<1> DEFINE c2 == Reread(c, f)
<1>1. /\ Numbered(D) /\ own \in [D -> D \cup {Nil}] /\ RootUsed(c, own) /\ FreeEmpty(c, own) /\ LinksOwned(c.dirs, own)
      /\ SavedAs(c, own) /\ NamesDiffer(c.dirs, own) /\ c \in Colls(D)
      /\ EachHangs(c.dirs, own) /\ StoragesHave(c, own)
  BY DEF Collected
<1>2. DOMAIN own = D /\ 0 \in D /\ EmptyEntry.child = Nil
  BY <1>1, NumberedCount DEF EmptyEntry
<1>3. c2.dirs = c.saved /\ c2.saved = c.saved /\ c2.free = f /\ c2 \in Colls(D)
  BY <1>1 DEF Reread, Colls
<1> HIDE DEF c2
<1>4. \A x \in D : /\ c.saved[x] = c.dirs[x] \/ (own[x] = Nil /\ x # 0 /\ c.saved[x] = EmptyEntry)
                   /\ c.saved[x].kind = "unallocated" => c.saved[x] = EmptyEntry
  BY <1>1, <1>2 DEF SavedAs
<1>5. RootUsed(c2, own)
  BY <1>1, <1>2, <1>3, <1>4 DEF RootUsed
<1>6. FreeEmpty(c2, own)
  BY <1>3 DEF FreeEmpty
<1>7. LinksOwned(c2.dirs, own)
  <2>1. ASSUME NEW x \in D, own[x] # Nil
        PROVE c2.dirs[x].kind # "unallocated" /\ \A d \in Sides : c2.dirs[x][d] \in Owned(own, own[x]) \cup {Nil}
    <3>1. c2.dirs[x] = c.dirs[x]
      BY <1>3, <1>4, <2>1
    <3> QED
      BY <1>1, <1>2, <2>1, <3>1 DEF LinksOwned
  <2>2. ASSUME NEW g \in D PROVE c2.dirs[g].child \in Owned(own, g) \cup {Nil}
    <3>1. c.dirs[g].child \in Owned(own, g) \cup {Nil}
      BY <1>1, <1>2 DEF LinksOwned
    <3> QED
      BY <1>2, <1>3, <1>4, <3>1
  <2> QED
    BY <1>2, <2>1, <2>2 DEF LinksOwned
<1>8. SavedAs(c2, own)
  BY <1>2, <1>3, <1>4 DEF SavedAs
<1>9. NamesDiffer(c2.dirs, own)
  <2>1. ASSUME NEW x \in D, NEW y \in D, own[x] # Nil, own[x] = own[y], x # y, c2.dirs[x].name = c2.dirs[y].name
        PROVE IllFormed(c2.dirs[x].name)
    <3>1. c2.dirs[x] = c.dirs[x] /\ c2.dirs[y] = c.dirs[y]
      BY <1>3, <1>4, <2>1
    <3> QED
      BY <1>1, <1>2, <2>1, <3>1 DEF NamesDiffer
  <2> QED
    BY <1>2, <2>1 DEF NamesDiffer
<1>11. \A x \in D : c.saved[x].child = c.dirs[x].child
  BY <1>1, <1>2, <1>4 DEF StoragesHave
<1>12. ASSUME NEW e \in D PROVE Untouched(c2, own, c, own, e)
  <2>1. Nil \notin D
    BY <1>1, StorageAssumption, NumberedCount DEF StorageAssumption
  <2>2. \A x \in Owned(own, e) : c2.dirs[x] = c.dirs[x]
    BY <1>2, <1>3, <1>4, <2>1 DEF Owned
  <2> QED
    BY <1>3, <1>11, <2>2 DEF Untouched
<1>13. EachHangs(c2.dirs, own)
  BY <1>1, <1>2, <1>12, HangsUntouched DEF EachHangs
<1>14. StoragesHave(c2, own)
  <2>1. SUFFICES ASSUME NEW x \in D, c2.dirs[x].child # Nil
                 PROVE (x = 0 \/ c2.dirs[x].kind = "storage") /\ c2.saved[x] = c2.dirs[x]
    BY <1>2 DEF StoragesHave
  <2>2. (x = 0 \/ c.dirs[x].kind = "storage") /\ c.saved[x] = c.dirs[x]
    BY <1>1, <1>2, <1>3, <1>11, <2>1 DEF StoragesHave
  <2> QED
    BY <1>3, <2>2
<1>10. Collected(c2, own, D)
  BY <1>1, <1>3, <1>5, <1>6, <1>7, <1>8, <1>9, <1>13, <1>14 DEF Collected
<1> QED
  BY <1>10 DEF c2

(* What is reached from the root is what is in use.                          *)
LEMMA RootHasInUse ==
  ASSUME NEW c, NEW own, NEW D, Collected(c, own, D), NEW lk, Reckoned(own, D, c.free, lk)
  PROVE Descendants(c.dirs, 0) = InUse(D, c.free, lk)
<1> DEFINE v == 0
<1>1. v \in InUse(D, c.free, lk) \cup {0} /\ v = 0
  OBVIOUS
<1> HIDE DEF v
<1>2. LET R == Descendants(c.dirs, v)
          C == InUse(D, c.free, lk)
      IN v = 0 => R = C
  BY <1>1, DescendantsOwned
<1> QED
  BY <1>1, <1>2

\* What the names given to storages are stored as.
StorageStored == {Stored[n] : n \in StorageNames}

\* The storages that a reader of the sectors sv comes to, the names in them, and
\* whether the storages' names are of those given to storages.
SavedStorages(sv) == {0} \cup {x \in Descendants(sv, 0) : sv[x].kind = "storage"}
SavedKids(sv) == [s \in SavedStorages(sv) |-> {sv[f].name : f \in Below(sv, s)}]
SavedNamed(sv) == \A x \in Descendants(sv, 0) : sv[x].kind = "storage" => sv[x].name \in StorageStored

\* The same of the entries C, which are of the storages own says.
Storages(ents, C) == {0} \cup {x \in C : ents[x].kind = "storage"}
Kids(ents, own, C) == [s \in Storages(ents, C) |-> {ents[f].name : f \in Owned(own, s)}]
Named(ents, C) == \A x \in C : ents[x].kind = "storage" => ents[x].name \in StorageStored

\* What a reader comes to are the entries C.
Seen(sv, ents, own, C) == SavedKids(sv) = Kids(ents, own, C) /\ (SavedNamed(sv) <=> Named(ents, C))

\* The sectors sv2 are to a reader as sv.
Alike(sv, sv2) == SavedKids(sv2) = SavedKids(sv) /\ (SavedNamed(sv2) <=> SavedNamed(sv))

\* From sv to sv2 a reader sees what Folder's call q does.
Moves(sv, sv2, q) ==
  NamesApart /\ SavedNamed(sv) => SavedNamed(sv2) /\ Promise!Answer(q, SavedKids(sv), SavedKids(sv2))

\* The call q, of the name given on the storage e, has been done.
DoneCall(q, op, e, name) == q.done /\ q.op = op /\ q.storage = e /\ q.name = name

\* From sv to sv2 a reader sees what this call does, when it is done.
MovesDone(sv, sv2, op, e, name) == \A q : DoneCall(q, op, e, name) => Moves(sv, sv2, q)

(* A call that does nothing leaves the sectors as they were.                 *)
LEMMA MovesNot ==
  ASSUME NEW sv, NEW q, ~q.done
  PROVE Moves(sv, sv, q)
BY DEF Moves, Promise!Answer

(* What a call does from sectors that look alike.                           *)
LEMMA MovesAlike ==
  ASSUME NEW sv, NEW sv1, NEW sv2, NEW q, Alike(sv, sv1), Moves(sv1, sv2, q)
  PROVE Moves(sv, sv2, q)
<1>1. SavedKids(sv1) = SavedKids(sv) /\ (SavedNamed(sv1) <=> SavedNamed(sv))
  BY DEF Alike
<1> QED
  BY <1>1 DEF Moves

(* A reader of the sectors sees the entries in use.                          *)
LEMMA ReaderSees ==
  ASSUME NEW c, NEW own, NEW D, Collected(c, own, D), NEW lk, Reckoned(own, D, c.free, lk)
  PROVE Seen(c.saved, c.dirs, own, InUse(D, c.free, lk))
<1> DEFINE C == InUse(D, c.free, lk)
           c2 == Reread(c, c.free)
           sv == c.saved
<1>1. Collected(c2, own, D)
  <2>1. c.free \in SUBSET D /\ 0 \notin c.free /\ \A x \in c.free : own[x] = Nil /\ c.saved[x] = EmptyEntry
    BY DEF Collected, Colls, RootUsed, FreeEmpty
  <2> QED
    BY <2>1, RereadCollected
<1>2. c2.dirs = sv /\ c2.free = c.free
  BY DEF Reread
<1> HIDE DEF c2, C, sv
<1>3. Reckoned(own, D, c2.free, lk)
  BY <1>2
<1>4. Descendants(sv, 0) = C
  <2>1. Descendants(c2.dirs, 0) = InUse(D, c2.free, lk)
    BY <1>1, <1>3, RootHasInUse
  <2> QED
    BY <1>2, <2>1 DEF C
<1>5. C \subseteq D /\ 0 \in D /\ Nil \notin D /\ DOMAIN own = D
  BY FreeOwnNone DEF C, InUse, OwnersOf
<1>6. \A e \in D : Below(sv, e) = Owned(own, e)
  <2>1. \A e \in D : Below(c2.dirs, e) = Owned(own, e)
    BY <1>1, BelowIsOwned
  <2> QED
    BY <1>2, <2>1
<1>7. \A x \in D : own[x] # Nil => sv[x] = c.dirs[x]
  BY <1>5 DEF Collected, SavedAs, sv
<1>8. \A x \in C : own[x] # Nil
  BY DEF Reckoned, C
<1>9. SavedStorages(sv) = Storages(c.dirs, C)
  BY <1>4, <1>5, <1>7, <1>8 DEF SavedStorages, Storages
<1>10. \A s \in Storages(c.dirs, C) : {sv[f].name : f \in Below(sv, s)} = {c.dirs[f].name : f \in Owned(own, s)}
  <2>1. SUFFICES ASSUME NEW s \in D PROVE {sv[f].name : f \in Below(sv, s)} = {c.dirs[f].name : f \in Owned(own, s)}
    BY <1>5 DEF Storages
  <2>2. \A f \in Owned(own, s) : sv[f] = c.dirs[f]
    BY <1>5, <1>7 DEF Owned
  <2> QED
    BY <1>6, <2>2
<1>11. SavedKids(sv) = Kids(c.dirs, own, C)
  BY <1>9, <1>10 DEF SavedKids, Kids
<1>12. SavedNamed(sv) <=> Named(c.dirs, C)
  BY <1>4, <1>5, <1>7, <1>8 DEF SavedNamed, Named
<1> QED
  BY <1>11, <1>12 DEF Seen, C, sv

(* More free entries make no difference to it.                               *)
LEMMA EnlargedAlike ==
  ASSUME NEW c, NEW own, NEW D, Collected(c, own, D), NEW lk, Reckoned(own, D, c.free, lk),
         NEW c2, NEW own2, NEW D2, Collected(c2, own2, D2), Reckoned(own2, D2, c2.free, lk),
         Enlarged(c2, own2, D2, c, own, D)
  PROVE Alike(c.saved, c2.saved)
<1> DEFINE C == InUse(D, c.free, lk)
           C2 == InUse(D2, c2.free, lk)
<1>1. Seen(c.saved, c.dirs, own, C) /\ Seen(c2.saved, c2.dirs, own2, C2)
  BY ReaderSees
<1>2. /\ D \subseteq D2 /\ \A f \in D : c2.dirs[f] = c.dirs[f] /\ own2[f] = own[f]
      /\ \A f \in D2 : f \notin D => own2[f] = Nil
      /\ c2.free = c.free \cup (D2 \ D)
  BY DEF Enlarged
<1>3. /\ 0 \in D /\ Nil \notin D /\ DOMAIN own = D /\ DOMAIN own2 = D2
  BY FreeOwnNone DEF OwnersOf
<1>4. C2 = C /\ C \subseteq D
  BY <1>2 DEF InUse
<1> HIDE DEF C, C2
<1>5. Storages(c2.dirs, C) = Storages(c.dirs, C) /\ Storages(c.dirs, C) \subseteq D
  BY <1>2, <1>3, <1>4 DEF Storages
<1>6. ASSUME NEW s \in D PROVE {c2.dirs[f].name : f \in Owned(own2, s)} = {c.dirs[f].name : f \in Owned(own, s)}
  <2>1. Owned(own2, s) = Owned(own, s) /\ Owned(own, s) \subseteq D
    BY <1>2, <1>3 DEF Owned
  <2> QED
    BY <1>2, <2>1
<1>7. Kids(c2.dirs, own2, C) = Kids(c.dirs, own, C)
  BY <1>5, <1>6 DEF Kids
<1>8. Named(c2.dirs, C) <=> Named(c.dirs, C)
  BY <1>2, <1>4 DEF Named
<1> QED
  BY <1>1, <1>4, <1>7, <1>8 DEF Seen, Alike

(* A handle that is ready is, once there is a free entry.                    *)
LEMMA ReadyRoomy ==
  ASSUME NEW c, NEW own, NEW D, NEW hs, NEW h, NEW t, NEW H, NEW out, NEW wrong,
         Ready(c, own, D, hs, h, t, H, out, wrong), NEW lk, Keeps(c, own, D, hs, H, out, wrong, lk)
  PROVE \E D2, own2 : /\ Ready(Roomy(c), own2, D2, hs, h, t, H, out, wrong) /\ Keeps(Roomy(c), own2, D2, hs, H, out, wrong, lk)
                      /\ D \subseteq D2 /\ Roomy(c).free # {} /\ Alike(c.saved, Roomy(c).saved)
<1> DEFINE e == hs[h].entry
           c2 == Roomy(c)
<1>1. /\ Holds(c, own, D, hs, H, out, wrong) /\ h \in H \ out /\ Alone(hs, h, H, out)
      /\ e \in D /\ e # Nil /\ hs[h].tree = t
      /\ Cached(t, D, wrong) /\ Held(c, e, D) /\ Fits(c, own, e, t)
  BY DEF Ready
<1>2. PICK D2, own2 : Holds(c2, own2, D2, hs, H, out, wrong) /\ Enlarged(c2, own2, D2, c, own, D) /\ c2.free # {}
  BY <1>1, RoomyHolds
<1> HIDE DEF c2
<1>3. D \subseteq D2
  BY <1>2 DEF Enlarged
<1>4. Nil \notin D /\ own \in [D -> D \cup {Nil}] /\ own2 \in [D2 -> D2 \cup {Nil}]
  BY <1>1, <1>2, StorageAssumption, NumberedCount DEF StorageAssumption, Holds, Collected
<1>5. Spared(c2, own2, D2, c, own, D, e)
  BY <1>1, <1>2, <1>4, EnlargedSpares
<1>6. Held(c2, e, D2) /\ Fits(c2, own2, e, t)
  BY <1>1, <1>5, FitsUntouched DEF Spared
<1>7. Cached(t, D2, wrong)
  <2>1. Nodes(t) \subseteq NodesOf(D2)
    BY <1>1, <1>3 DEF Cached, NodesOf
  <2> QED
    BY <1>1, <2>1, Zenon DEF Cached
<1>8. Ready(c2, own2, D2, hs, h, t, H, out, wrong)
  BY <1>1, <1>2, <1>3, <1>6, <1>7 DEF Ready
<1>9. Reckoned(own2, D2, c2.free, lk)
  <2>1. OwnersOf(own, D)
    BY <1>1, FreeOwnNone DEF Holds
  <2>2. /\ \A f \in D : own2[f] = own[f]
        /\ \A f \in D2 : f \notin D => own2[f] = Nil
        /\ c2.free = c.free \cup (D2 \ D)
    BY <1>2 DEF Enlarged
  <2>3. Reckoned(own2, D2, c.free \cup (D2 \ D), lk)
    BY <1>3, <1>4, <2>1, <2>2, ReckonedMore DEF Keeps
  <2> QED
    BY <2>2, <2>3
<1>10. Keeps(c2, own2, D2, hs, H, out, wrong, lk)
  BY <1>2, <1>9 DEF Keeps
<1>11. Alike(c.saved, c2.saved)
  <2>1. Collected(c, own, D) /\ Collected(c2, own2, D2) /\ Reckoned(own, D, c.free, lk)
    BY <1>2 DEF Keeps, Holds
  <2> QED
    BY <1>2, <1>9, <2>1, EnlargedAlike
<1> QED
  BY <1>2, <1>3, <1>8, <1>10, <1>11 DEF c2

\* A storage e of the entries C has got the entry id, of the name x.
EntryAdded(c2, own2, c, own, D, e, id, x, kind) ==
  /\ own2 = [own EXCEPT ![id] = e] /\ c2.free = c.free \ {id} /\ LabelsKept(c2, c, D \ {id})
  /\ c2.dirs[id].kind = kind /\ c2.dirs[id].name = x

\* The name may be given to an entry of the kind.
NameFor(kind, name) ==
  /\ kind \in {"storage", "stream"} /\ name \in Names \ Refused
  /\ kind = "storage" => Stored[name] \in StorageStored

(* What it has got is what Folder says.                                      *)
LEMMA AddedMoves ==
  ASSUME NEW c, NEW own, NEW D, Collected(c, own, D), NEW lk, Reckoned(own, D, c.free, lk),
         NEW c2, NEW own2, Collected(c2, own2, D), Reckoned(own2, D, c2.free, lk),
         NEW id \in c.free, NEW e, Held(c, e, D), e \notin lk, NEW kind, NEW name, NameFor(kind, name),
         NEW x, x = Stored[name], EntryAdded(c2, own2, c, own, D, e, id, x, kind), NEW q, DoneCall(q, Adding[kind], e, name)
  PROVE Moves(c.saved, c2.saved, q)
<1> DEFINE C == InUse(D, c.free, lk)
           C2 == InUse(D, c2.free, lk)
           K == Kids(c.dirs, own, C)
           K2 == Kids(c2.dirs, own2, C2)
<1>1. Seen(c.saved, c.dirs, own, C) /\ Seen(c2.saved, c2.dirs, own2, C2)
  BY ReaderSees
<1>2. /\ own2 = [own EXCEPT ![id] = e] /\ c2.free = c.free \ {id}
      /\ \A f \in D \ {id} : c2.dirs[f].kind = c.dirs[f].kind /\ c2.dirs[f].name = c.dirs[f].name
      /\ c2.dirs[id].kind = kind /\ c2.dirs[id].name = x
  BY DEF EntryAdded, LabelsKept
<1>3. /\ 0 \in D /\ Nil \notin D /\ own \in [D -> D \cup {Nil}] /\ c.free \subseteq D /\ 0 \notin c.free /\ id \in D /\ id # 0
      /\ own[id] = Nil /\ Owned(own, id) = {}
  BY FreeOwnNone DEF OwnersOf
<1>4. DOMAIN own = D /\ DOMAIN own2 = D /\ own2[id] = e /\ \A f \in D : f # id => own2[f] = own[f]
  BY <1>2, <1>3
<1>5. id \notin lk
  BY DEF Reckoned
<1>6. C2 = C \cup {id} /\ id \notin C /\ C \subseteq D
  BY <1>2, <1>3, <1>5 DEF InUse
<1>7. e \in D /\ e # id /\ e \notin c.free /\ (e = 0 \/ c.dirs[e].kind = "storage")
  BY DEF Held, Used
<1>8. e \in Storages(c.dirs, C)
  BY <1>7 DEF Storages, InUse
<1> HIDE DEF C, C2
<1>9. Storages(c.dirs, C) \subseteq D /\ id \notin Storages(c.dirs, C)
  BY <1>3, <1>6 DEF Storages
<1>10. Storages(c2.dirs, C2) = Storages(c.dirs, C) \cup (IF kind = "storage" THEN {id} ELSE {})
  BY <1>2, <1>3, <1>6 DEF Storages
<1>11. Owned(own2, e) = Owned(own, e) \cup {id}
  BY <1>3, <1>4, <1>7 DEF Owned
<1>12. \A s \in D : s # e => Owned(own2, s) = Owned(own, s)
  BY <1>3, <1>4, <1>7 DEF Owned
<1>13. \A s \in D : Owned(own, s) \subseteq D \ {id}
  BY <1>3, <1>4 DEF Owned
<1>14. \A s \in D : {c2.dirs[f].name : f \in Owned(own, s)} = {c.dirs[f].name : f \in Owned(own, s)}
  BY <1>2, <1>13
<1>15. K2[e] = K[e] \cup {x}
  <2>1. K[e] = {c.dirs[f].name : f \in Owned(own, e)}
    BY <1>8 DEF Kids
  <2>2. K2[e] = {c2.dirs[f].name : f \in Owned(own2, e)}
    BY <1>8, <1>10 DEF Kids
  <2> HIDE DEF K, K2
  <2>3. {c2.dirs[f].name : f \in Owned(own2, e)} = {c2.dirs[f].name : f \in Owned(own, e)} \cup {x}
    <3>1. c2.dirs[id].name = x
      BY <1>2
    <3> QED
      BY <1>11, <3>1
  <2> QED
    BY <1>7, <1>14, <2>1, <2>2, <2>3
<1>16. \A s \in Storages(c.dirs, C) : s # e => K2[s] = K[s]
  BY <1>9, <1>10, <1>12, <1>14 DEF Kids
<1>17. kind = "storage" => K2[id] = {}
  BY <1>3, <1>7, <1>10, <1>12 DEF Kids
<1>18. DOMAIN K = Storages(c.dirs, C) /\ DOMAIN K2 = Storages(c2.dirs, C2)
  BY DEF Kids
<1>19. x \in K[e] => IllFormed(x)
  <2>1. ASSUME x \in K[e] PROVE IllFormed(x)
    <3>1. PICK f \in Owned(own, e) : c.dirs[f].name = x
      BY <1>8, <2>1 DEF Kids
    <3>2. f \in D /\ f # id /\ own2[f] = e /\ own2[id] = e /\ e # Nil /\ c2.dirs[f].name = x
      BY <1>2, <1>3, <1>4, <1>7, <1>13, <3>1 DEF Owned
    <3>3. NamesDiffer(c2.dirs, own2)
      BY DEF Collected
    <3>4. IllFormed(c2.dirs[f].name)
      BY <1>2, <1>3, <1>4, <3>2, <3>3 DEF NamesDiffer
    <3> QED
      BY <3>2, <3>4
  <2> QED
    BY <2>1
<1>20. kind = "storage" => x \in StorageStored
  BY DEF NameFor
<1>21. name \in Names \ Refused /\ kind \in {"storage", "stream"}
  BY DEF NameFor
<1> HIDE DEF K, K2
<1>22. ASSUME NamesApart PROVE Promise!Answer(q, K, K2)
  <2>1. Promise!Gains(e, Stored[name], K, K2) /\ Promise!OthersSame(e, K, K2)
    <3>1. e \in DOMAIN K /\ K2[e] = K[e] \cup {Stored[name]}
      BY <1>8, <1>15, <1>18
    <3>2. \A s \in (DOMAIN K \cap DOMAIN K2) \ {e} : K2[s] = K[s]
      BY <1>16, <1>18
    <3> QED
      BY <3>1, <3>2 DEF Promise!Gains, Promise!OthersSame
  <2>2. q.done /\ q.op = Adding[kind] /\ q.storage = e /\ q.name = name
    BY DEF DoneCall
  <2>3. CASE kind = "stream"
    <3>1. Stored[name] \in K[e] => Promise!MayBeTwice(Stored[name])
      BY <1>19 DEF IllFormed, Promise!MayBeTwice
    <3>2. DOMAIN K2 = DOMAIN K
      BY <1>10, <1>18, <2>3
    <3>3. Promise!AddStream(e, name, K, K2)
      BY <1>21, <2>1, <3>1, <3>2 DEF Promise!AddStream
    <3>4. q.op = "AddStream"
      BY <2>2, <2>3 DEF Adding
    <3> QED
      BY <2>2, <3>3, <3>4 DEF Promise!Answer
  <2>4. CASE kind = "storage"
    <3>1. Stored[name] \notin K[e]
      BY <1>19, <1>20, <1>22, <2>4 DEF NamesApart, StorageStored, IllFormed
    <3>2. id \in DOMAIN K2 \ DOMAIN K /\ DOMAIN K2 = DOMAIN K \cup {id} /\ K2[id] = {}
      BY <1>9, <1>10, <1>17, <1>18, <2>4
    <3>3. Promise!AddStorage(e, name, K, K2)
      BY <1>21, <2>1, <3>1, <3>2 DEF Promise!AddStorage
    <3>4. q.op = "AddStorage"
      BY <2>2, <2>4 DEF Adding
    <3> QED
      BY <2>2, <3>3, <3>4 DEF Promise!Answer
  <2> QED
    BY <1>21, <2>3, <2>4
<1>23. Named(c.dirs, C) => Named(c2.dirs, C2)
  BY <1>2, <1>6, <1>20 DEF Named
<1>24. SavedKids(c.saved) = K /\ SavedKids(c2.saved) = K2
  BY <1>1 DEF Seen, K, K2
<1>25. SavedNamed(c.saved) => SavedNamed(c2.saved)
  BY <1>1, <1>23 DEF Seen
<1> QED
  BY <1>22, <1>24, <1>25 DEF Moves

\* What was below the entry v is of no storage in use.
Fallen(ents, v) == IF ents[v].kind = "storage" THEN Descendants(ents, v) ELSE {}

\* The storage e has lost the entry v.
EntryRemoved(c2, own2, c, own, D, v) ==
  own2 = Orphaned(own, v) /\ c2.free = c.free \cup {v} /\ LabelsKept(c2, c, D \ {v})

(* What it has lost is what Folder says.                                     *)
LEMMA RemovedMoves ==
  ASSUME NEW c, NEW own, NEW D, Collected(c, own, D), NEW lk, Reckoned(own, D, c.free, lk),
         NEW v \in D, v \notin c.free, NEW e, own[v] = e, Held(c, e, D), e \notin lk, NEW c2, NEW own2, Collected(c2, own2, D),
         Reckoned(own2, D, c2.free, lk \cup Fallen(c.dirs, v)), EntryRemoved(c2, own2, c, own, D, v),
         NEW q, DoneCall(q, "Delete", e, c.dirs[v].name)
  PROVE Moves(c.saved, c2.saved, q)
<1> DEFINE C == InUse(D, c.free, lk)
           B == Fallen(c.dirs, v)
           C2 == InUse(D, c2.free, lk \cup B)
           K == Kids(c.dirs, own, C)
           K2 == Kids(c2.dirs, own2, C2)
           x == c.dirs[v].name
<1>1. Seen(c.saved, c.dirs, own, C) /\ Seen(c2.saved, c2.dirs, own2, C2)
  BY ReaderSees
<1>2. /\ own2 = Orphaned(own, v) /\ c2.free = c.free \cup {v}
      /\ \A f \in D \ {v} : c2.dirs[f].kind = c.dirs[f].kind /\ c2.dirs[f].name = c.dirs[f].name
  BY DEF EntryRemoved, LabelsKept
<1>3. 0 \in D /\ Nil \notin D /\ own \in [D -> D \cup {Nil}] /\ own[0] = Nil /\ DOMAIN own = D
  BY FreeOwnNone DEF OwnersOf
<1>4. e \in D /\ e # Nil /\ e \notin c.free /\ (e = 0 \/ c.dirs[e].kind = "storage") /\ v # 0
  BY <1>3 DEF Held, Used
<1>5. v \in C
  BY <1>4 DEF InUse, Reckoned
<1>6. C2 = C \ ({v} \cup B) /\ C \subseteq D /\ 0 \notin C
  BY <1>2 DEF InUse
<1>7. e \in C \cup {0}
  BY <1>4 DEF InUse
<1>8. B \subseteq C /\ e # v /\ e \notin B
  <2> DEFINE R == Descendants(c.dirs, v)
  <2>1. v \in InUse(D, c.free, lk) \cup {0}
    BY <1>5
  <2>2. R \subseteq C /\ Owned(own, v) \subseteq R /\ (\A w \in R : Owned(own, w) \subseteq R) /\ v \notin R
    BY <1>4, <2>1, DescendantsOwned
  <2>3. v \in Owned(own, e)
    BY <1>3 DEF Owned
  <2>4. B \subseteq R
    BY DEF Fallen
  <2> HIDE DEF R, B
  <2> QED
    BY <2>2, <2>3, <2>4
<1>9. \A f \in D : own2[f] = IF f = v \/ own[f] = v THEN Nil ELSE own[f]
  BY <1>2, <1>3 DEF Orphaned
<1>10. DOMAIN own2 = D
  BY <1>2, <1>3 DEF Orphaned
<1> HIDE DEF C, C2, B
<1>11. Storages(c2.dirs, C2) = Storages(c.dirs, C) \ ({v} \cup B)
  BY <1>2, <1>4, <1>6, <1>8 DEF Storages
<1>12. e \in Storages(c2.dirs, C2) /\ e \in Storages(c.dirs, C)
  BY <1>4, <1>7, <1>8, <1>11 DEF Storages
<1>13. \A s \in D : s # v => Owned(own2, s) = Owned(own, s) \ {v}
  BY <1>3, <1>9, <1>10 DEF Owned
<1>14. \A s \in D : s # e => v \notin Owned(own, s)
  BY DEF Owned
<1>15. \A s \in D : s # v => {c2.dirs[f].name : f \in Owned(own2, s)} = {c.dirs[f].name : f \in Owned(own, s) \ {v}}
  <2>1. SUFFICES ASSUME NEW s \in D, s # v
                 PROVE {c2.dirs[f].name : f \in Owned(own2, s)} = {c.dirs[f].name : f \in Owned(own, s) \ {v}}
    OBVIOUS
  <2>2. Owned(own2, s) = Owned(own, s) \ {v} /\ Owned(own, s) \subseteq D
    BY <1>3, <1>13, <2>1 DEF Owned
  <2> QED
    BY <1>2, <2>2
<1>16. Storages(c2.dirs, C2) \subseteq D /\ v \notin Storages(c2.dirs, C2)
  BY <1>3, <1>6, <1>11 DEF Storages
<1>17. \A s \in Storages(c2.dirs, C2) : s # e => K2[s] = K[s]
  <2>1. SUFFICES ASSUME NEW s \in Storages(c2.dirs, C2), s # e PROVE K2[s] = K[s]
    OBVIOUS
  <2>2. s \in D /\ s # v /\ s \in Storages(c.dirs, C) /\ Owned(own, s) \ {v} = Owned(own, s)
    BY <1>11, <1>14, <1>16, <2>1
  <2>3. K2[s] = {c2.dirs[f].name : f \in Owned(own2, s)} /\ K[s] = {c.dirs[f].name : f \in Owned(own, s)}
    BY <2>1, <2>2 DEF Kids
  <2> HIDE DEF K, K2
  <2> QED
    BY <1>15, <2>2, <2>3
<1>18. K2[e] = {c.dirs[f].name : f \in Owned(own, e) \ {v}} /\ K[e] = {c.dirs[f].name : f \in Owned(own, e)}
  BY <1>12, <1>15, <1>16 DEF Kids
<1>19. v \in Owned(own, e)
  BY <1>3 DEF Owned
<1>20. DOMAIN K = Storages(c.dirs, C) /\ DOMAIN K2 = Storages(c2.dirs, C2)
  BY DEF Kids
<1> HIDE DEF K, K2
<1>26. q.done /\ q.op = "Delete" /\ q.storage = e /\ q.name = x
  BY DEF DoneCall
<1>27. Promise!OthersSame(e, K, K2) /\ e \in DOMAIN K \cap DOMAIN K2 /\ x \in K[e]
  <2>1. \A s \in (DOMAIN K \cap DOMAIN K2) \ {e} : K2[s] = K[s]
    BY <1>17, <1>20
  <2> QED
    BY <1>12, <1>18, <1>19, <1>20, <2>1 DEF Promise!OthersSame
<1>28. DOMAIN K2 \subseteq DOMAIN K
  BY <1>11, <1>20
<1> HIDE DEF x
<1>21. ASSUME NamesApart, Named(c.dirs, C) PROVE Promise!Answer(q, K, K2)
  <2>1. CASE \E f \in Owned(own, e) \ {v} : c.dirs[f].name = x
    <3>1. PICK f \in Owned(own, e) : f # v /\ c.dirs[f].name = x
      BY <2>1
    <3>2. IllFormed(x)
      <4>1. NamesDiffer(c.dirs, own)
        BY DEF Collected
      <4>2. f \in D /\ own[f] = own[v] /\ own[v] # Nil
        BY <1>3, <1>4, <3>1 DEF Owned
      <4> QED
        BY <1>3, <3>1, <4>1, <4>2 DEF NamesDiffer, x
    <3>3. c.dirs[v].kind # "storage"
      BY <1>5, <1>21, <3>2 DEF Named, NamesApart, StorageStored, IllFormed, x
    <3>4. B = {}
      BY <3>3 DEF B, Fallen
    <3>5. DOMAIN K2 = DOMAIN K
      BY <1>4, <1>11, <1>20, <3>3, <3>4 DEF Storages
    <3>6. K2[e] = K[e]
      BY <1>18, <1>19, <3>1 DEF x
    <3>7. \A s \in DOMAIN K : K2[s] = K[s]
      BY <1>17, <1>20, <3>5, <3>6
    <3>8. K = [s \in DOMAIN K |-> K[s]] /\ K2 = [s \in DOMAIN K2 |-> K2[s]]
      BY DEF K, K2, Kids
    <3>9. K2 = K
      BY <3>5, <3>7, <3>8
    <3>10. Promise!MayBeTwice(x)
      BY <3>2 DEF IllFormed, Promise!MayBeTwice
    <3>11. Promise!Delete(e, x, K, K2)
      BY <1>27, <1>28, <3>9, <3>10 DEF Promise!Delete
    <3> QED
      BY <1>26, <3>11 DEF Promise!Answer
  <2>2. CASE \A f \in Owned(own, e) \ {v} : c.dirs[f].name # x
    <3>1. K2[e] = K[e] \ {x}
      BY <1>18, <1>19, <2>2 DEF x
    <3>2. Promise!Delete(e, x, K, K2)
      BY <1>27, <1>28, <3>1 DEF Promise!Delete
    <3> QED
      BY <1>26, <3>2 DEF Promise!Answer
  <2> QED
    BY <2>1, <2>2
<1>22. Named(c.dirs, C) => Named(c2.dirs, C2)
  BY <1>2, <1>6 DEF Named
<1>23. SavedKids(c.saved) = K /\ SavedKids(c2.saved) = K2
  BY <1>1 DEF Seen, K, K2
<1>24. SavedNamed(c.saved) <=> Named(c.dirs, C)
  BY <1>1 DEF Seen
<1>25. SavedNamed(c2.saved) <=> Named(c2.dirs, C2)
  BY <1>1 DEF Seen
<1> QED
  BY <1>21, <1>22, <1>23, <1>24, <1>25 DEF Moves

-----------------------------------------------------------------------------
(***************************************************************************)
(* The invariant of the specification, and its steps.                      *)
(***************************************************************************)

\* The owners of the entries, with whom all of it holds.
Owners(own) == Keeps(Collection, own, Ids, handle, Handles, gone, lost, leaked)

IHolds == \E own : Owners(own)

ITypes == leaked \subseteq Ids /\ gone \subseteq Handles /\ opened \in Nat /\ panicked \in BOOLEAN /\ lost \in BOOLEAN

IInv == IHolds /\ ITypes

(* The collection has its own type.                                          *)
LEMMA CollectionFields ==
  ASSUME NEW c, NEW D, c \in Colls(D)
  PROVE c = [dirs |-> c.dirs, free |-> c.free, saved |-> c.saved] /\ DOMAIN c.dirs = D
BY DEF Colls

(* What a call leaves holds in the next state.                               *)
LEMMA CommitHolds ==
  ASSUME NEW c, NEW own, NEW D, NEW hs, NEW out, NEW wrong, NEW lk, Keeps(c, own, D, hs, Handles, out, wrong, lk),
         Commit(c), handle' = hs, gone' = out, lost' = wrong, leaked' = lk
  PROVE IHolds' /\ Ids' = D
<1>1. c \in Colls(D)
  BY DEF Keeps, Holds, Collected
<1>2. c = [dirs |-> c.dirs, free |-> c.free, saved |-> c.saved] /\ DOMAIN c.dirs = D
  BY <1>1, CollectionFields
<1>3. Collection' = c
  BY <1>2 DEF Collection, Commit
<1>4. Ids' = D
  BY <1>2 DEF Ids, Commit
<1> QED
  BY <1>3, <1>4 DEF IHolds, Owners

(* What is leaked does not depend on the trees of the handles.               *)
LEMMA UnleakedSet ==
  ASSUME NEW hs, NEW H, NEW D, NEW wrong, Handled(hs, H, D, wrong), NEW h \in H, NEW out, NEW lk, Unleaked(hs, H, out, lk), NEW q
  PROVE Unleaked([hs EXCEPT ![h].tree = q], H, out, lk)
<1>1. hs = [x \in H |-> [entry |-> hs[x].entry, tree |-> hs[x].tree]]
  BY DEF Handled
<1>2. DOMAIN hs = H /\ \A x \in H : hs[x] = [entry |-> hs[x].entry, tree |-> hs[x].tree]
  BY <1>1
<1> DEFINE hs2 == [hs EXCEPT ![h].tree = q]
<1>3. \A x \in H : hs2[x].entry = hs[x].entry
  BY <1>2
<1> HIDE DEF hs2
<1>4. Unleaked(hs2, H, out, lk)
  BY <1>3 DEF Unleaked
<1> QED
  BY <1>4 DEF hs2

(* A handle that a call can be made on has its children loaded.              *)
LEMMA CallKept ==
  ASSUME NEW own, Owners(own), NEW h \in Callable
  PROVE LET hs == [handle EXCEPT ![h].tree = TreeOf(h)] IN
        /\ Ready(Collection, own, Ids, hs, h, TreeOf(h), Handles, gone, lost)
        /\ Keeps(Collection, own, Ids, hs, Handles, gone, lost, leaked)
<1> DEFINE hs == [handle EXCEPT ![h].tree = TreeOf(h)]
<1>1. /\ Holds(Collection, own, Ids, handle, Handles, gone, lost)
      /\ Reckoned(own, Ids, Collection.free, leaked) /\ Unleaked(handle, Handles, gone, leaked)
  BY DEF Owners, Keeps
<1>2. Ready(Collection, own, Ids, hs, h, TreeOf(h), Handles, gone, lost)
  BY <1>1, CallReady
<1>3. h \in Handles /\ Handled(handle, Handles, Ids, lost)
  BY <1>1 DEF Callable, Holds
<1>4. Unleaked(hs, Handles, gone, leaked)
  BY <1>1, <1>3, UnleakedSet
<1> HIDE DEF hs
<1>5. Keeps(Collection, own, Ids, hs, Handles, gone, lost, leaked)
  BY <1>1, <1>2, <1>4 DEF Keeps, Ready
<1> QED
  BY <1>2, <1>5 DEF hs

(* A name is found, or there is none.                                        *)
LEMMA FindReady ==
  ASSUME NEW c, NEW own, NEW D, NEW hs, NEW h, NEW t, NEW H, NEW out, NEW wrong,
         Ready(c, own, D, hs, h, t, H, out, wrong), NEW name \in Names
  PROVE LET n == findnode(t, name) IN
        IF n = Nil THEN \A m \in Nodes(t) : Key(m) # name
        ELSE n \in Nodes(t) /\ Key(n) = name /\ own[Value(n)] = hs[h].entry /\ Value(n) \in D /\ Used(c, Value(n), D)
<1> DEFINE n == findnode(t, name)
           N == Nodes(t)
<1>1. Holds(c, own, D, hs, H, out, wrong) /\ Cached(t, D, wrong) /\ Fits(c, own, hs[h].entry, t) /\ hs[h].entry # Nil
  BY DEF Ready
<1>2. N \subseteq NodesOf(D) /\ t \in Trees(N) /\ Sound(t)
  BY <1>1 DEF Cached
<1>3. Collected(c, own, D) /\ Numbered(D) /\ own \in [D -> D \cup {Nil}]
  BY <1>1 DEF Holds, Collected
<1>4. Nil \notin Nat \cup (Nat \X Nat) /\ D \subseteq Nat /\ name \in Nat
  BY <1>3, StorageAssumption, NumberedCount DEF StorageAssumption
<1>5. Nil \notin N
  <2> HIDE DEF N
  <2> QED
    BY <1>2, <1>4, NodeFacts
<1>6. IF n = Nil THEN \A m \in N : Key(m) # name ELSE n \in N /\ Key(n) = name
  <2> HIDE DEF N
  <2> QED
    BY <1>2, <1>4, <1>5, FindSound
<1>7. \A m \in N : Value(m) \in Owned(own, hs[h].entry)
  BY <1>1 DEF Fits
<1> HIDE DEF n
<1>8. ASSUME n # Nil PROVE own[Value(n)] = hs[h].entry /\ Value(n) \in D /\ Used(c, Value(n), D)
  <2>1. own[Value(n)] = hs[h].entry /\ Value(n) \in D
    BY <1>3, <1>6, <1>7, <1>8 DEF Owned
  <2>2. own[Value(n)] # Nil
    BY <1>1, <2>1
  <2> QED
    BY <1>3, <2>1, <2>2, OwnedUsed
<1> QED
  BY <1>6, <1>8 DEF n

(* A handle is bound to a storage that is not leaked.                        *)
LEMMA BindKeeps ==
  ASSUME NEW c, NEW own, NEW D, NEW hs, NEW H, NEW out, NEW wrong, NEW lk, Keeps(c, own, D, hs, H, out, wrong, lk),
         NEW g \in H, NEW e, Held(c, e, D), e \notin lk
  PROVE Keeps(c, own, D, Bind(hs, g, e), H, out \ {g}, wrong, lk)
<1> DEFINE hs2 == Bind(hs, g, e)
<1>1. Holds(c, own, D, hs, H, out, wrong) /\ Reckoned(own, D, c.free, lk) /\ Unleaked(hs, H, out, lk)
  BY DEF Keeps
<1>2. Holds(c, own, D, hs2, H, out \ {g}, wrong)
  BY <1>1, BindHolds
<1>3. hs = [x \in H |-> [entry |-> hs[x].entry, tree |-> hs[x].tree]]
  BY <1>1 DEF Holds, Handled
<1>4. \A x \in H : hs2[x].entry = IF x = g THEN e ELSE hs[x].entry
  BY <1>3 DEF Bind, Fresh
<1> HIDE DEF hs2
<1>5. Unleaked(hs2, H, out \ {g}, lk)
  BY <1>1, <1>4 DEF Unleaked
<1>6. Keeps(c, own, D, hs2, H, out \ {g}, wrong, lk)
  BY <1>1, <1>2, <1>5 DEF Keeps
<1> QED
  BY <1>6 DEF hs2

(* GetStream.                                                                *)
LEMMA GetStreamStep ==
  ASSUME IInv, NEW h \in Handles, GetStream(h)
  PROVE IInv'
<1> DEFINE c == Collection
           hs == [handle EXCEPT ![h].tree = TreeOf(h)]
<1>1. PICK own : Owners(own)
  BY DEF IInv, IHolds
<1>2. h \in Callable /\ handle' = hs /\ UNCHANGED <<dirs, free, saved, opened, panicked, lost, leaked, gone>>
  BY DEF GetStream
<1>4. Keeps(c, own, Ids, hs, Handles, gone, lost, leaked)
  BY <1>1, <1>2, CallKept
<1>5. Commit(c)
  BY <1>2 DEF Commit, Collection
<1>6. IHolds' /\ Ids' = Ids
  <2> HIDE DEF c, hs
  <2> QED
    BY <1>2, <1>4, <1>5, CommitHolds
<1> QED
  BY <1>2, <1>6 DEF IInv, ITypes

(* GetStorage.                                                               *)
LEMMA GetStorageStep ==
  ASSUME IInv, NEW h \in Handles, NEW name \in Names, NEW g \in Handles, GetStorage(h, name, g)
  PROVE IInv'
<1> DEFINE c == Collection
           t == TreeOf(h)
           n == findnode(t, name)
           hs == [handle EXCEPT ![h].tree = t]
<1>1. PICK own : Owners(own)
  BY DEF IInv, IHolds
<1>2. /\ h \in Callable
      /\ IF n # Nil /\ dirs[Value(n)].kind = "storage"
         THEN handle' = Bind(hs, g, Value(n)) /\ gone' = gone \ {g}
         ELSE handle' = hs /\ gone' = gone
      /\ UNCHANGED <<dirs, free, saved, opened, panicked, lost, leaked>>
  BY DEF GetStorage
<1>3. Ready(c, own, Ids, hs, h, t, Handles, gone, lost) /\ Keeps(c, own, Ids, hs, Handles, gone, lost, leaked)
  BY <1>1, <1>2, CallKept
<1>4. /\ Holds(c, own, Ids, hs, Handles, gone, lost) /\ Reckoned(own, Ids, c.free, leaked)
      /\ Unleaked(hs, Handles, gone, leaked)
  BY <1>3 DEF Keeps
<1>5. Commit(c)
  BY <1>2 DEF Commit, Collection
<1>6. n # Nil /\ dirs[Value(n)].kind = "storage" => Held(c, Value(n), Ids) /\ Value(n) \notin leaked
  <2>1. c.dirs = dirs
    BY DEF Collection
  <2> HIDE DEF c, hs, t
  <2>2. n # Nil => Used(c, Value(n), Ids) /\ own[Value(n)] = hs[h].entry
    BY <1>3, FindReady
  <2>3. hs[h].entry # Nil /\ hs[h].entry \notin leaked
    BY <1>3, <1>4 DEF Ready, Unleaked
  <2>4. \A x \in leaked : own[x] = Nil \/ own[x] \in leaked
    BY <1>4 DEF Reckoned
  <2>5. ASSUME n # Nil, dirs[Value(n)].kind = "storage" PROVE Held(c, Value(n), Ids) /\ Value(n) \notin leaked
    <3>1. Used(c, Value(n), Ids) /\ own[Value(n)] = hs[h].entry
      BY <2>2, <2>5
    <3>2. Value(n) \notin leaked
      BY <2>3, <2>4, <3>1
    <3> QED
      BY <2>1, <2>5, <3>1, <3>2 DEF Held
  <2> QED
    BY <2>5
<1> HIDE DEF c, hs, t, n
<1>7. IHolds' /\ Ids' = Ids
  <2>1. CASE handle' = hs /\ gone' = gone
    BY <1>2, <1>3, <1>5, <2>1, CommitHolds
  <2>2. CASE n # Nil /\ dirs[Value(n)].kind = "storage" /\ handle' = Bind(hs, g, Value(n)) /\ gone' = gone \ {g}
    <3> DEFINE v == Value(n)
    <3>1. Held(c, v, Ids) /\ v \notin leaked
      BY <1>6, <2>2
    <3> HIDE DEF v
    <3>2. Keeps(c, own, Ids, Bind(hs, g, v), Handles, gone \ {g}, lost, leaked)
      BY <1>3, <3>1, BindKeeps
    <3> QED
      BY <1>2, <1>5, <2>2, <3>2, CommitHolds DEF v
  <2> QED
    BY <1>2, <2>1, <2>2
<1>8. gone' \subseteq Handles
  BY <1>2 DEF IInv, ITypes
<1> QED
  BY <1>2, <1>7, <1>8 DEF IInv, ITypes

\* The handles, once h has the tree t.
WithTree(hs, h, t) == hs = [handle EXCEPT ![h].tree = t]

(* The handles that differ in the tree of h.                                 *)
LEMMA WithTreeFields ==
  ASSUME IInv, NEW h \in Handles, NEW hs, NEW t, WithTree(hs, h, t)
  PROVE /\ \A g \in Handles : hs[g].entry = handle[g].entry
        /\ \A q : [handle EXCEPT ![h].tree = q] = [hs EXCEPT ![h].tree = q]
<1>1. PICK own : Holds(Collection, own, Ids, handle, Handles, gone, lost)
  BY DEF IInv, IHolds, Owners, Keeps
<1>2. handle = [x \in Handles |-> [entry |-> handle[x].entry, tree |-> handle[x].tree]]
  BY <1>1 DEF Holds, Handled
<1>3. handle[h] = [entry |-> handle[h].entry, tree |-> handle[h].tree] /\ DOMAIN handle = Handles
  BY <1>2
<1>4. hs = [handle EXCEPT ![h].tree = t]
  BY DEF WithTree
<1>5. hs[h] = [entry |-> handle[h].entry, tree |-> t] /\ \A g \in Handles : g # h => hs[g] = handle[g]
  BY <1>3, <1>4
<1>6. \A g \in Handles : hs[g].entry = handle[g].entry
  BY <1>5
<1>7. ASSUME NEW q PROVE [handle EXCEPT ![h].tree = q] = [hs EXCEPT ![h].tree = q]
  <2>1. [handle[h] EXCEPT !.tree = q] = [hs[h] EXCEPT !.tree = q]
    BY <1>3, <1>5
  <2>2. [handle EXCEPT ![h] = [handle[h] EXCEPT !.tree = q]] = [hs EXCEPT ![h] = [hs[h] EXCEPT !.tree = q]]
    BY <1>3, <1>4, <2>1
  <2> QED
    BY <2>2
<1> QED
  BY <1>6, <1>7

(* A call that fails once it has popped an entry.                            *)
LEMMA AddFailsStep ==
  ASSUME IInv, NEW h \in Handles, NEW c, NEW own, NEW D, NEW hs, NEW t, Ready(c, own, D, hs, h, t, Handles, gone, lost),
         Keeps(c, own, D, hs, Handles, gone, lost, leaked), WithTree(hs, h, t), Ids \subseteq D, c.free # {},
         NEW name \in Names, NEW kind \in {"storage", "stream"}, NEW panics \in BOOLEAN,
         AddFails(h, NewEntry(c, name, kind), t, Popped(c), panics), UNCHANGED <<opened, lost>>
  PROVE IInv' /\ saved' = c.saved
<1> DEFINE c2 == NewEntry(c, name, kind)
<1>1. Holds(c, own, D, hs, Handles, gone, lost)
  BY DEF Ready
<1>2. Collected(c, own, D) /\ Numbered(D) /\ c \in Colls(D)
  BY <1>1 DEF Holds, Collected
<1>3. Collected(c2, own, D) /\ \A e \in D : Spared(c2, own, D, c, own, D, e)
  BY <1>2, NewEntryCollected
<1>4. Popped(c) \in D /\ Popped(c) \in c.free /\ c2.free = c.free \ {Popped(c)} /\ c2.saved = c.saved
  <2>1. D \subseteq Nat
    BY <1>2, NumberedCount
  <2>2. Popped(c) \in c.free /\ Popped(c) \in D
    BY <1>2, <2>1, PoppedFree
  <2>3. EntryMade(NewEntry(c, name, kind), c, Popped(c), name, kind, D)
    BY <1>2, <2>1, NewEntryFields, Zenon
  <2> QED
    BY <2>2, <2>3 DEF EntryMade
<1>5. Commit(c2) /\ handle' = hs /\ leaked' = leaked \cup {Popped(c)} /\ panicked' = panics /\ UNCHANGED <<gone, opened, lost>>
  BY DEF AddFails, WithTree
<1> HIDE DEF c2
<1>6. Holds(c2, own, D, hs, Handles, gone, lost)
  BY <1>1, <1>3, HoldsSpared
<1> DEFINE id == Popped(c)
           lk == leaked \cup {id}
<1> HIDE DEF id
<1>9. id \in D /\ id \in c.free /\ c2.free = c.free \ {id}
  BY <1>4 DEF id
<1>10. OwnersOf(own, D) /\ id # 0 /\ own[id] = Nil /\ Owned(own, id) = {}
  BY <1>2, <1>9, FreeOwnNone
<1>11. Reckoned(own, D, c.free, leaked) /\ Unleaked(hs, Handles, gone, leaked)
  BY DEF Keeps
<1>12. Reckoned(own, D, c.free \ {id}, lk)
  BY <1>9, <1>10, <1>11, ReckonedFails
<1>13. Unleaked(hs, Handles, gone, lk)
  <2>1. ASSUME NEW x \in Handles \ gone PROVE hs[x].entry # id
    <3>1. Current(c, own, D, hs[x])
      BY <1>1, <2>1 DEF Holds
    <3>2. id # Nil
      BY <1>9, <1>10 DEF OwnersOf
    <3> QED
      BY <1>9, <3>1, <3>2 DEF Current, Held, Used
  <2> QED
    BY <1>11, <2>1 DEF Unleaked
<1>14. Keeps(c2, own, D, hs, Handles, gone, lost, lk)
  BY <1>6, <1>9, <1>12, <1>13 DEF Keeps
<1>15. leaked' = lk
  BY <1>5 DEF id
<1> HIDE DEF lk
<1>7. IHolds' /\ Ids' = D
  BY <1>5, <1>14, <1>15, CommitHolds
<1>8. leaked' \subseteq Ids'
  BY <1>4, <1>5, <1>7 DEF IInv, ITypes
<1>16. saved' = c.saved
  BY <1>4, <1>5 DEF Commit
<1> QED
  BY <1>5, <1>7, <1>8, <1>16 DEF IInv, ITypes

(* A storage that has got a new tree, its handle too.                        *)
LEMMA ReadyDone ==
  ASSUME NEW c, NEW own, NEW D, NEW hs, NEW h, NEW t0, NEW H, NEW out, NEW wrong,
         Ready(c, own, D, hs, h, t0, H, out, wrong), NEW c2, NEW own2, NEW t,
         Done(c2, own2, c, own, hs[h].entry, t, D, wrong)
  PROVE Holds(c2, own2, D, [hs EXCEPT ![h].tree = Clean(t)], H, out, wrong)
<1> DEFINE q == Clean(t)
<1>1. Holds(c, own, D, hs, H, out, wrong) /\ Alone(hs, h, H, out) /\ hs[h].entry # Nil /\ h \in H
  BY DEF Ready
<1>2. /\ Collected(c2, own2, D) /\ Held(c2, hs[h].entry, D) /\ Fits(c2, own2, hs[h].entry, q) /\ Cached(q, D, wrong)
      /\ \A f \in D : f # hs[h].entry => Spared(c2, own2, D, c, own, D, f)
  BY DEF Done
<1>3. \A x \in H : hs[x].entry \in D \cup {Nil}
  BY <1>1 DEF Holds, Handled
<1>4. \A x \in H \ out : hs[x].entry # hs[h].entry /\ hs[x].entry # Nil => Spared(c2, own2, D, c, own, D, hs[x].entry)
  BY <1>2, <1>3
<1>5. out \subseteq out /\ (wrong => wrong)
  OBVIOUS
<1> HIDE DEF q
<1>6. Holds(c2, own2, D, [hs EXCEPT ![h].tree = q], H, out, wrong)
  BY <1>1, <1>2, <1>4, <1>5, HandleStep
<1> QED
  BY <1>6 DEF q

(* A call that inserts the new entry.                                        *)
LEMMA AddDoneStep ==
  ASSUME IInv, NEW h \in Handles, NEW c, NEW own, NEW D, NEW hs, NEW t0, Ready(c, own, D, hs, h, t0, Handles, gone, lost),
         Keeps(c, own, D, hs, Handles, gone, lost, leaked), WithTree(hs, h, t0), Ids \subseteq D, c.free # {},
         NEW name \in Names \ Refused, NEW kind \in {"storage", "stream"}, NEW g \in Handles,
         NEW id, id = Popped(c), NEW node, node = NewNode(Stored[name], id), NEW t,
         DoneWith(Inserted(NewEntry(c, name, kind), hs[h].entry, t, node), Reowned(own, hs[h].entry, EntriesOf(Nodes(t0) \cup {node})),
                  c, own, hs[h].entry, id, Stored[name], kind, t, D, lost),
         AddDone(h, NewEntry(c, name, kind), t, node, kind, g), UNCHANGED <<opened, lost>>,
         kind = "storage" => name \in StorageNames
  PROVE IInv' /\ MovesDone(c.saved, saved', Adding[kind], hs[h].entry, name)
<1> DEFINE e == hs[h].entry
           c2 == Inserted(NewEntry(c, name, kind), e, t, node)
           own2 == Reowned(own, e, EntriesOf(Nodes(t0) \cup {node}))
           qt == Clean(t)
           hs2 == [hs EXCEPT ![h].tree = qt]
<1>1. Holds(c, own, D, hs, Handles, gone, lost) /\ Alone(hs, h, Handles, gone) /\ e # Nil
  BY DEF Ready
<1>2. /\ handle[h].entry = e /\ [handle EXCEPT ![h].tree = qt] = hs2
  <2>1. PICK own0 : Holds(Collection, own0, Ids, handle, Handles, gone, lost)
    BY DEF IInv, IHolds, Owners, Keeps
  <2>2. handle = [x \in Handles |-> [entry |-> handle[x].entry, tree |-> handle[x].tree]]
    BY <2>1 DEF Holds, Handled
  <2>3. handle[h] = [entry |-> handle[h].entry, tree |-> handle[h].tree] /\ DOMAIN handle = Handles
    BY <2>2
  <2>8. hs = [handle EXCEPT ![h].tree = t0]
    BY DEF WithTree
  <2>4. hs[h] = [entry |-> handle[h].entry, tree |-> t0]
    BY <2>3, <2>8
  <2>5. hs[h].entry = handle[h].entry
    BY <2>4
  <2>6. [handle[h] EXCEPT !.tree = qt] = [hs[h] EXCEPT !.tree = qt]
    BY <2>3, <2>4
  <2>7. [handle EXCEPT ![h] = [handle[h] EXCEPT !.tree = qt]] = [hs EXCEPT ![h] = [hs[h] EXCEPT !.tree = qt]]
    BY <2>3, <2>6, <2>8
  <2> QED
    BY <2>5, <2>7
<1>4. Value(node) = id
  BY DEF Value, NewNode
<1>5. /\ Commit(c2) /\ UNCHANGED <<leaked, panicked, opened, lost>>
      /\ handle' = IF kind = "storage" THEN Bind(hs2, g, id) ELSE hs2
      /\ gone' = IF kind = "storage" THEN gone \ {g} ELSE gone
  <2>1. /\ Commit(Inserted(NewEntry(c, name, kind), handle[h].entry, t, node))
        /\ handle' = IF kind = "storage" THEN Bind([handle EXCEPT ![h].tree = qt], g, Value(node)) ELSE [handle EXCEPT ![h].tree = qt]
        /\ gone' = IF kind = "storage" THEN gone \ {g} ELSE gone
        /\ UNCHANGED <<leaked, panicked, opened, lost>>
    BY DEF AddDone
  <2> HIDE DEF hs2, qt
  <2> QED
    BY <1>2, <1>4, <2>1
<1>7. Holds(c2, own2, D, hs2, Handles, gone, lost)
  <2> HIDE DEF c2, own2
  <2>1. Done(c2, own2, c, own, hs[h].entry, t, D, lost)
    BY DEF c2, own2, DoneWith
  <2>2. Holds(c2, own2, D, [hs EXCEPT ![h].tree = Clean(t)], Handles, gone, lost)
    BY <2>1, ReadyDone
  <2> QED
    BY <2>2
<1>10. /\ own2 = [own EXCEPT ![id] = e] /\ c2.free = c.free \ {id} /\ Used(c2, id, D) /\ c2.dirs[id].kind = kind
       /\ EntryAdded(c2, own2, c, own, D, e, id, Stored[name], kind)
  BY DEF DoneWith, EntryAdded
<1>11. Unleaked(hs2, Handles, gone, leaked)
  BY <1>1, UnleakedSet DEF Keeps, Holds
<1> HIDE DEF c2, own2, qt
<1> HIDE DEF hs2, e
<1>12. Collected(c, own, D) /\ Held(c, e, D) /\ h \in Handles \ gone
  BY <1>1 DEF Holds, Ready, e
<1>13. id \in c.free /\ id \in D
  <2>1. D \subseteq Nat /\ c \in Colls(D)
    BY <1>12, NumberedCount DEF Collected
  <2> QED
    BY <2>1, PoppedFree
<1>14. OwnersOf(own, D) /\ id # 0 /\ own[id] = Nil /\ Owned(own, id) = {}
  BY <1>12, <1>13, FreeOwnNone
<1>15. Reckoned(own, D, c.free, leaked) /\ id \notin leaked
  BY <1>13 DEF Keeps, Reckoned
<1>16. e \in D /\ e \notin leaked /\ e \notin c.free
  BY <1>12 DEF Held, Used, Keeps, Unleaked, e
<1>17. Reckoned(own2, D, c2.free, leaked)
  <2>1. Reckoned([own EXCEPT ![id] = e], D, c.free \ {id}, leaked)
    BY <1>13, <1>14, <1>15, <1>16, ReckonedAdd
  <2> QED
    BY <1>10, <2>1
<1>18. Keeps(c2, own2, D, hs2, Handles, gone, lost, leaked)
  BY <1>7, <1>11, <1>17 DEF Keeps
<1>8. IHolds' /\ Ids' = D
  <2>1. CASE kind = "storage"
    <3>1. Held(c2, id, D)
      BY <1>10, <2>1 DEF Held
    <3>2. Keeps(c2, own2, D, Bind(hs2, g, id), Handles, gone \ {g}, lost, leaked)
      BY <1>15, <1>18, <3>1, BindKeeps
    <3> QED
      BY <1>5, <2>1, <3>2, CommitHolds
  <2>2. CASE kind # "storage"
    BY <1>5, <1>18, <2>2, CommitHolds
  <2> QED
    BY <2>1, <2>2
<1>9. gone' \subseteq Handles
  BY <1>5 DEF IInv, ITypes
<1>19. MovesDone(c.saved, c2.saved, Adding[kind], e, name)
  <2>1. Collected(c2, own2, D)
    BY <1>18 DEF Keeps, Holds
  <2>2. EntryAdded(c2, own2, c, own, D, e, id, Stored[name], kind)
    BY <1>10
  <2>3. Collected(c, own, D) /\ Reckoned(own, D, c.free, leaked) /\ Held(c, e, D) /\ e \notin leaked /\ id \in c.free
    BY <1>12, <1>13, <1>15, <1>16
  <2>4. Reckoned(own2, D, c2.free, leaked)
    BY <1>17
  <2>5. NameFor(kind, name)
    BY DEF NameFor, StorageStored
  <2> QED
    BY <2>1, <2>2, <2>3, <2>4, <2>5, AddedMoves DEF MovesDone
<1>20. saved' = c2.saved
  BY <1>5 DEF Commit
<1> QED
  BY <1>5, <1>8, <1>9, <1>19, <1>20 DEF IInv, ITypes, e

(* The outcome of a method that panics is no tree.                           *)
LEMMA PanicIsNoTree ==
  ASSUME NEW N
  PROVE NilPointer \notin Trees(N)
<1>1. DOMAIN NilPointer = {"panics"}
  BY DEF NilPointer
<1>2. \A t \in Trees(N) : "root" \in DOMAIN t
  BY DEF Trees
<1> QED
  BY <1>1, <1>2

\* The call q is this one; whether it is done is a truth value.
CallMade(q, op, e, name, done) == q.op = op /\ q.storage = e /\ q.name = name /\ (q.done <=> done)

(* What Made makes.                                                          *)
LEMMA MadeCall ==
  ASSUME NEW q, NEW op, NEW h, NEW name, NEW done, q = Made(op, h, name, done)
  PROVE CallMade(q, op, handle[h].entry, name, done)
<1>1. q.op = op /\ q.storage = handle[h].entry /\ q.name = name
  BY DEF Made
<1>2. q.done = done
  BY Zenon DEF Made
<1> QED
  BY <1>1, <1>2, Zenon DEF CallMade

(* AddStream and AddStorage.  An insertion panics only in a tree that a       *)
(* deletion has left unbalanced.                                             *)
LEMMA AddStep ==
  ASSUME IInv, NEW h \in Handles, NEW name \in Names, NEW kind \in {"storage", "stream"}, NEW g \in Handles,
         Add(h, name, kind, g), kind = "storage" => name \in StorageNames
  PROVE IInv' /\ (panicked' => lost') /\ Moves(saved, saved', call')
<1> DEFINE t0 == TreeOf(h)
           hs == [handle EXCEPT ![h].tree = t0]
           c == Roomy(Collection)
<1>1. PICK own : Owners(own)
  BY DEF IInv, IHolds
<1>2. /\ h \in Callable /\ ~panicked /\ UNCHANGED <<opened, lost>>
      /\ IF findnode(t0, name) # Nil
         THEN handle' = hs /\ UNCHANGED <<dirs, free, saved, panicked, leaked, gone>>
         ELSE Added(h, t0, c, name, kind, g)
  BY DEF Add, Callable
<1>6. CallMade(call', Adding[kind], handle[h].entry, name, findnode(t0, name) = Nil /\ name \notin Refused /\ ~panicked')
  <2>1. /\ findnode(t0, name) # Nil => call' = Made(Adding[kind], h, name, FALSE)
        /\ findnode(t0, name) = Nil => call' = Made(Adding[kind], h, name, name \notin Refused /\ ~panicked')
    BY DEF Add, Asked
  <2> QED
    BY <2>1, MadeCall
<1>3. Ready(Collection, own, Ids, hs, h, t0, Handles, gone, lost) /\ Keeps(Collection, own, Ids, hs, Handles, gone, lost, leaked)
  BY <1>1, <1>2, CallKept
<1>4. CASE findnode(t0, name) # Nil
  <2>2. Commit(Collection) /\ UNCHANGED <<panicked, leaked, gone>> /\ handle' = hs
    BY <1>2, <1>4 DEF Commit, Collection
  <2>3. IHolds' /\ Ids' = Ids
    <3> HIDE DEF hs
    <3> QED
      BY <1>2, <1>3, <2>2, CommitHolds
  <2>4. Moves(saved, saved', call')
    BY <1>2, <1>4, <1>6, MovesNot DEF CallMade
  <2> QED
    BY <1>2, <2>2, <2>3, <2>4 DEF IInv, ITypes
<1>5. CASE findnode(t0, name) = Nil
  <2>1. PICK D, own2 : /\ Ready(c, own2, D, hs, h, t0, Handles, gone, lost) /\ Keeps(c, own2, D, hs, Handles, gone, lost, leaked)
                       /\ Ids \subseteq D /\ c.free # {} /\ Alike(saved, c.saved)
    <3> HIDE DEF hs
    <3>1. Collection.saved = saved
      BY DEF Collection
    <3> QED
      BY <1>3, <3>1, ReadyRoomy
  <2>2. Added(h, t0, c, name, kind, g)
    BY <1>2, <1>5
  <2>3. WithTree(hs, h, t0)
    BY DEF WithTree
  <2>8. hs[h].entry = handle[h].entry
    <3> HIDE DEF hs, t0
    <3> QED
      BY <2>3, WithTreeFields
  <2>9. name \in Refused \/ panicked' => ~call'.done
    BY <1>5, <1>6, Zenon DEF CallMade
  <2>10. name \notin Refused /\ ~panicked' => DoneCall(call', Adding[kind], hs[h].entry, name)
    BY <1>5, <1>6, <2>8, Zenon DEF DoneCall, CallMade
  <2> DEFINE e == hs[h].entry
             id == Popped(c)
             node == NewNode(Stored[name], id)
             named == NewEntry(c, name, kind)
             t == Insert(t0, node)
  <2>4. \/ name \in Refused /\ AddFails(h, named, t0, id, FALSE)
        \/ name \notin Refused /\ t = NilPointer /\ AddFails(h, named, t0, id, TRUE)
        \/ name \notin Refused /\ t # NilPointer /\ AddDone(h, named, t, node, kind, g)
    BY <2>2, Zenon DEF Added
  <2> HIDE DEF hs, c, t0, named, t, node, id
  <2>5. /\ Holds(c, own2, D, hs, Handles, gone, lost) /\ Cached(t0, D, lost) /\ Fits(c, own2, e, t0) /\ Held(c, e, D)
        /\ Collected(c, own2, D)
    BY <2>1 DEF Ready, Holds
  <2>6. CASE name \in Refused /\ AddFails(h, named, t0, id, FALSE)
    <3>1. AddFails(h, NewEntry(c, name, kind), t0, Popped(c), FALSE) /\ FALSE \in BOOLEAN
      BY <2>6 DEF named, id
    <3>2. IInv' /\ saved' = c.saved
      BY <1>2, <2>1, <2>3, <3>1, AddFailsStep
    <3>3. panicked' = FALSE
      BY <2>6 DEF AddFails
    <3>4. Moves(saved, saved', call')
      BY <2>1, <2>6, <2>9, <3>2, MovesNot, MovesAlike
    <3> QED
      BY <3>2, <3>3, <3>4
  <2>7. CASE name \notin Refused
    <3>1. NameFree(t0, name)
      <4>1. \A m \in Nodes(t0) : Key(m) # name
        BY <1>5, <2>1, FindReady
      <4> QED
        BY <2>7, <4>1 DEF NameFree, IllFormed
    <3> DEFINE own3 == Reowned(own2, e, EntriesOf(Nodes(t0) \cup {node}))
               c2 == Inserted(named, e, t, node)
    <3>2. \/ t = NilPointer /\ lost
          \/ Grew(t, t0, node) /\ DoneWith(c2, own3, c, own2, e, id, Stored[name], kind, t, D, lost)
      <4> DEFINE w == lost
                 ee == e
      <4>1. Cached(t0, D, w) /\ Fits(c, own2, ee, t0) /\ Held(c, ee, D) /\ Collected(c, own2, D) /\ name \in Names \ Refused
        BY <2>5, <2>7
      <4> HIDE DEF w, e, ee
      <4>2. LET id0 == Popped(c)
                node0 == NewNode(Stored[name], id0)
                k == NewEntry(c, name, kind)
                t1 == Insert(t0, node0)
                own4 == Reowned(own2, ee, EntriesOf(Nodes(t0) \cup {node0}))
            IN \/ t1 = NilPointer /\ w
               \/ /\ Grew(t1, t0, node0)
                  /\ DoneWith(Inserted(k, ee, t1, node0), own4, c, own2, ee, id0, Stored[name], kind, t1, D, w)
        BY <2>1, <3>1, <4>1, InsertedDone
      <4> QED
        BY <4>2 DEF w, e, ee, t, node, named, id
    <3>3. CASE t = NilPointer /\ AddFails(h, named, t0, id, TRUE)
      <4>1. AddFails(h, NewEntry(c, name, kind), t0, Popped(c), TRUE) /\ TRUE \in BOOLEAN
        BY <3>3 DEF named, id
      <4>2. IInv' /\ saved' = c.saved
        BY <1>2, <2>1, <2>3, <4>1, AddFailsStep
      <4>3. lost'
        <5>1. t = NilPointer
          BY <3>3
        <5>2. Grew(t, t0, node) => t \in Trees(Nodes(t0) \cup {node})
          BY DEF Grew
        <5>3. lost
          BY <3>2, <5>1, <5>2, PanicIsNoTree
        <5> QED
          BY <1>2, <5>3
      <4>5. panicked'
        BY <3>3 DEF AddFails
      <4>4. Moves(saved, saved', call')
        BY <2>1, <2>9, <4>2, <4>5, MovesNot, MovesAlike
      <4> QED
        BY <4>2, <4>3, <4>4
    <3>4. CASE t # NilPointer /\ AddDone(h, named, t, node, kind, g)
      <4>1. DoneWith(c2, own3, c, own2, e, id, Stored[name], kind, t, D, lost)
        BY <3>2, <3>4
      <4>3. ~panicked'
        BY <1>2, <3>4 DEF AddDone
      <4>2. IInv' /\ Moves(c.saved, saved', call')
        <5>3. DoneCall(call', Adding[kind], hs[h].entry, name)
          BY <2>7, <2>10, <4>3
        <5>4. IInv' /\ MovesDone(c.saved, saved', Adding[kind], hs[h].entry, name)
          <6>1. name \in Names \ Refused /\ id = Popped(c) /\ node = NewNode(Stored[name], id)
            BY <2>7 DEF t, node, id
          <6>2. /\ DoneWith(Inserted(NewEntry(c, name, kind), hs[h].entry, t, node), Reowned(own2, hs[h].entry, EntriesOf(Nodes(t0) \cup {node})),
                            c, own2, hs[h].entry, id, Stored[name], kind, t, D, lost)
                /\ AddDone(h, NewEntry(c, name, kind), t, node, kind, g)
            BY <3>4, <4>1 DEF named
          <6> HIDE DEF e, c2, own3
          <6> QED
            BY <1>2, <2>1, <2>3, <6>1, <6>2, AddDoneStep, SMTT(30)
        <5> QED
          BY <5>3, <5>4 DEF MovesDone
      <4>4. Moves(saved, saved', call')
        BY <2>1, <4>2, MovesAlike
      <4> QED
        BY <4>2, <4>3, <4>4
    <3> QED
      BY <2>4, <2>7, <3>3, <3>4
  <2> QED
    BY <2>4, <2>6, <2>7
<1> QED
  BY <1>4, <1>5

-----------------------------------------------------------------------------
(***************************************************************************)
(* Delete.                                                                 *)
(***************************************************************************)

(* The marks make no difference to the parent rbDeleteFixup is called with.  *)
LEMMA RemarkedParent ==
  ASSUME NEW N, NEW t \in Trees(N), NEW r \in Trees(N), NEW ds, Remarked(r, t, ds), NEW z
  PROVE WrongParent(r, z) <=> WrongParent(t, z)
<1>1. r.left = t.left /\ r.right = t.right /\ r.parent = t.parent /\ r.red = t.red /\ Nodes(r) = Nodes(t)
  BY Fields DEF Remarked, Sides
<1>2. \A n : minimum(r, n) = minimum(t, n)
  BY <1>1 DEF minimum
<1>3. Spliced(r, z) = Spliced(t, z)
  BY <1>1, <1>2 DEF Spliced
<1> QED
  BY <1>1, <1>3 DEF WrongParent, IsRed

\* The tree is t, without the node z; wrong is whether it may be unbalanced.
Unhung(t, t0, z, wrong) ==
  /\ t \in Trees(Nodes(t0) \ {z}) /\ Sound(t) /\ (wrong \/ EvenBlack(t)) /\ t0.dirty \ {z} \subseteq t.dirty
  /\ \A n \in Nodes(t) : n \notin t.dirty => /\ \A d \in Sides : t[d][n] = t0[d][n]
                                             /\ IsRed(t, n) <=> IsRed(t0, n)

(* Delete of a node that is marked first.                                    *)
LEMMA MarkedDelete ==
  ASSUME NEW N, Nil \notin N, NEW t0 \in Trees(N), Sound(t0), NEW wrong, wrong \/ EvenBlack(t0), NEW z \in N,
         NEW t, t = Delete([t0 EXCEPT !.dirty = @ \cup {z}], z)
  PROVE \/ Unhung(t, t0, z, wrong \/ WrongParent(t0, z))
        \/ t = NilPointer /\ (wrong \/ WrongParent(t0, z))
<1> DEFINE t1 == [t0 EXCEPT !.dirty = t0.dirty \cup {z}]
           ds == t0.dirty \cup {z}
<1>1. t1 \in Trees(N) /\ Remarked(t1, t0, ds)
  <2>1. ds \subseteq N
    BY Fields
  <2> HIDE DEF ds
  <2>2. [t0 EXCEPT !.dirty = ds] \in Trees(N) /\ Remarked([t0 EXCEPT !.dirty = ds], t0, ds)
    BY <2>1, RemarkFields
  <2> QED
    BY <2>2 DEF ds
<1>2. t = Delete(t1, z)
  OBVIOUS
<1> HIDE DEF t1, ds
<1>3. Sound(t1) /\ (EvenBlack(t0) => EvenBlack(t1)) /\ (WrongParent(t1, z) <=> WrongParent(t0, z))
  BY <1>1, RemarkedSound, RemarkedParent
<1>4. \/ /\ Shrank(t, t1, z)
         /\ EvenBlack(t1) /\ ~WrongParent(t1, z) => EvenBlack(t)
      \/ t = NilPointer /\ (~EvenBlack(t1) \/ WrongParent(t1, z))
  BY <1>1, <1>2, <1>3, DeleteSound
<1>5. CASE t = NilPointer /\ (~EvenBlack(t1) \/ WrongParent(t1, z))
  BY <1>3, <1>5, Zenon
<1>6. CASE Shrank(t, t1, z) /\ (EvenBlack(t1) /\ ~WrongParent(t1, z) => EvenBlack(t))
  <2>1. (wrong \/ WrongParent(t0, z)) \/ EvenBlack(t)
    BY <1>3, <1>6, Zenon
  <2>2. Nodes(t0) = N /\ Nodes(t1) = N
    BY <1>1, Fields
  <2>3. t1.red = t0.red /\ t1.dirty = t0.dirty \cup {z} /\ \A d \in Sides : t1[d] = t0[d]
    BY <1>1 DEF Remarked, ds
  <2>4. t \in Trees(N \ {z}) /\ Sound(t) /\ MarkedLess(t1, t, z)
    BY <1>6, <2>2 DEF Shrank
  <2>5. t1.dirty \ {z} \subseteq t.dirty
    BY <2>4 DEF MarkedLess
  <2>6. t0.dirty \ {z} \subseteq t.dirty
    BY <2>3, <2>5
  <2>7. \A n \in Nodes(t) : n \notin t.dirty => /\ \A d \in Sides : t[d][n] = t0[d][n]
                                                /\ IsRed(t, n) <=> IsRed(t0, n)
    <3>1. SUFFICES ASSUME NEW n \in Nodes(t), n \notin t.dirty
                   PROVE (\A d \in Sides : t[d][n] = t0[d][n]) /\ (IsRed(t, n) <=> IsRed(t0, n))
      BY Zenon
    <3>2. (\A d \in Sides : t[d][n] = t1[d][n]) /\ (n \in t.red <=> n \in t1.red)
      BY <2>4, <3>1 DEF MarkedLess
    <3>3. \A d \in Sides : t[d][n] = t0[d][n]
      BY <2>3, <3>2
    <3>4. n \in t.red <=> n \in t0.red
      BY <2>3, <3>2
    <3> QED
      BY <3>3, <3>4 DEF IsRed
  <2>8. Unhung(t, t0, z, wrong \/ WrongParent(t0, z))
    BY <2>1, <2>2, <2>4, <2>6, <2>7, Zenon DEF Unhung
  <2> QED
    BY <2>8
<1> QED
  BY <1>4, <1>5, <1>6

\* A call has left the storage e with the tree t, without the entry v.
DoneWithout(c2, own2, c, own, e, v, t, D, wrong) ==
  /\ Done(c2, own2, c, own, e, t, D, wrong) /\ own2 = [own EXCEPT ![v] = Nil] /\ c2.free = c.free
  /\ own[v] = e /\ v \in D /\ v # 0 /\ v \notin c.free /\ LabelsKept(c2, c, D)

(* The storage without the node.                                             *)
LEMMA UnhungDone ==
  ASSUME NEW D, NEW c, NEW own, Collected(c, own, D), NEW e, Held(c, e, D), NEW t0, NEW wrong0, Cached(t0, D, wrong0),
         Fits(c, own, e, t0), NEW z \in Nodes(t0), NEW t, NEW wrong, Unhung(t, t0, z, wrong), t.root # Nil
  PROVE DoneWithout(Adopt(WriteBack(c, t, Nil), e, t), Reowned(own, e, EntriesOf(Nodes(t0) \ {z})),
                    c, own, e, Value(z), t, D, wrong)
<1> DEFINE N == Nodes(t0) \ {z}
<1>1. /\ Numbered(D) /\ own \in [D -> D \cup {Nil}] /\ FreeEmpty(c, own) /\ RootUsed(c, own)
  BY DEF Collected
<1>2. Nil \notin Nat \cup (Nat \X Nat) /\ D \subseteq Nat /\ Nil \notin D /\ DOMAIN own = D /\ e \in D /\ e # Nil
  BY <1>1, StorageAssumption, NumberedCount DEF StorageAssumption, Held, Used
<1>3. Nodes(t0) \subseteq NodesOf(D) /\ t0 \in Trees(Nodes(t0))
  BY DEF Cached
<1>4. Nil \notin Nodes(t0) /\ \A n \in Nodes(t0) : n = NewNode(Key(n), Value(n))
  <2> DEFINE M == Nodes(t0)
  <2>2. M \subseteq NodesOf(D) /\ t0 \in Trees(M)
    BY <1>3
  <2> HIDE DEF M
  <2>3. Nil \notin M /\ \A n \in M : Key(n) \in Nat /\ Value(n) \in D /\ n = NewNode(Key(n), Value(n))
    BY <1>2, <2>2, NodeFacts
  <2>1. Nil \notin M /\ \A n \in M : n = NewNode(Key(n), Value(n))
    BY <2>3
  <2> QED
    BY <2>1 DEF M
<1>5. /\ \A n \in Nodes(t0) : own[Value(n)] = e /\ Value(n) \in D /\ Key(n) = c.dirs[Value(n)].name
      /\ \A n \in Nodes(t0) : n \notin t0.dirty => Agrees(c, t0, n)
  BY <1>2 DEF Fits, Owned
<1>6. /\ t \in Trees(N) /\ Sound(t) /\ (wrong \/ EvenBlack(t)) /\ t0.dirty \ {z} \subseteq t.dirty
      /\ \A n \in Nodes(t) : n \notin t.dirty => /\ \A d \in Sides : t[d][n] = t0[d][n]
                                                 /\ IsRed(t, n) <=> IsRed(t0, n)
  BY Zenon DEF Unhung
<1>7. Nodes(t) = N /\ N \subseteq NodesOf(D) /\ N \subseteq Nodes(t0)
  BY <1>3, <1>6, Fields
<1>8. \A n \in N : n \notin t.dirty => Agrees(c, t, n)
  <2>1. SUFFICES ASSUME NEW n \in N, n \notin t.dirty PROVE Agrees(c, t, n)
    OBVIOUS
  <2>2. n \notin t0.dirty /\ n \in Nodes(t0) /\ n \in Nodes(t)
    BY <1>6, <1>7, <2>1
  <2>3. Agrees(c, t0, n)
    BY <1>5, <2>2
  <2>4. (\A d \in Sides : t[d][n] = t0[d][n]) /\ IsRed(t, n) = IsRed(t0, n)
    <3>1. (\A d \in Sides : t[d][n] = t0[d][n]) /\ (IsRed(t, n) <=> IsRed(t0, n))
      BY <1>6, <2>1, <2>2
    <3>2. IsRed(t, n) \in BOOLEAN /\ IsRed(t0, n) \in BOOLEAN
      BY DEF IsRed
    <3> QED
      BY <3>1, <3>2
  <2> QED
    BY <2>3, <2>4 DEF Agrees
<1>9. Current2(c, own, e, t, N, Nil)
  <2>1. \A n \in N : IF n = Nil THEN n \in t.dirty /\ NewIn(c, own, n) ELSE own[Value(n)] = e
    BY <1>4, <1>5, <1>7
  <2>2. Nil \notin N
    BY <1>4
  <2>3. \A n \in N : Key(n) = c.dirs[Value(n)].name
    BY <1>5
  <2> HIDE DEF N
  <2> QED
    BY <1>8, <2>1, <2>2, <2>3 DEF Current2
<1> HIDE DEF N
<1>10. /\ Done(Adopt(WriteBack(c, t, Nil), e, t), Reowned(own, e, EntriesOf(N)), c, own, e, t, D, wrong)
       /\ Adopt(WriteBack(c, t, Nil), e, t).free = c.free
       /\ LabelsKept(Adopt(WriteBack(c, t, Nil), e, t), c, D)
  BY <1>6, <1>7, <1>9, RelinkDone
<1>11. Value(z) \notin EntriesOf(N)
  <2>1. SUFFICES ASSUME NEW n \in N, Value(n) = Value(z) PROVE FALSE
    BY DEF EntriesOf
  <2>2. n \in Nodes(t0) /\ n # z
    BY DEF N
  <2>3. Key(n) = Key(z)
    BY <1>5, <2>1, <2>2
  <2> QED
    BY <1>4, <2>1, <2>2, <2>3
<1>12. Reowned(own, e, EntriesOf(N)) = [own EXCEPT ![Value(z)] = Nil]
  <2> DEFINE X == EntriesOf(N)
  <2>1. \A f \in X : f \in D /\ own[f] = e /\ f # Value(z)
    BY <1>5, <1>7, <1>11 DEF EntriesOf
  <2>2. ASSUME NEW f \in D, own[f] = e, f \notin X PROVE f = Value(z)
    <3>1. PICK n \in Nodes(t0) : Value(n) = f
      BY <1>2, <2>2 DEF Fits, Owned
    <3>2. n \notin N
      BY <2>2, <3>1 DEF EntriesOf
    <3> QED
      BY <3>1, <3>2 DEF N
  <2>3. own[Value(z)] = e /\ Value(z) \in D /\ Value(z) \notin X
    BY <1>5, <1>11
  <2> HIDE DEF X
  <2>4. [f \in D |-> IF f \in X THEN e ELSE IF own[f] = e THEN Nil ELSE own[f]] = [own EXCEPT ![Value(z)] = Nil]
    BY <1>1, <1>2, <2>1, <2>2, <2>3
  <2> QED
    BY <1>2, <2>4 DEF Reowned, X
<1>13. own[Value(z)] = e /\ Value(z) \in D /\ Value(z) # 0 /\ Value(z) \notin c.free
  BY <1>1, <1>2, <1>5 DEF RootUsed, FreeEmpty
<1> QED
  BY <1>10, <1>12, <1>13 DEF N, DoneWithout

\* The entry v is free, and what it had is in no storage.
Emptied(c2, own2, c, own, D, v) ==
  /\ Collected(c2, own2, D) /\ c2.free = c.free \cup {v} /\ LabelsKept(c2, c, D \ {v})
  /\ \A g \in D : g # v => Spared(c2, own2, D, c, own, D, g)

(* Push, of an entry that no storage has.                                    *)
LEMMA ClearedEmptied ==
  ASSUME NEW c, NEW own, NEW D, Collected(c, own, D), NEW v \in D, v # 0, own[v] = Nil, v \notin c.free
  PROVE Emptied(Pushed(c, v), Reowned(own, v, {}), c, own, D, v)
<1> DEFINE c2 == Pushed(c, v)
           own2 == Reowned(own, v, {})
<1>1. /\ Numbered(D) /\ own \in [D -> D \cup {Nil}] /\ RootUsed(c, own) /\ FreeEmpty(c, own) /\ LinksOwned(c.dirs, own)
      /\ SavedAs(c, own) /\ NamesDiffer(c.dirs, own) /\ c \in Colls(D)
      /\ EachHangs(c.dirs, own) /\ StoragesHave(c, own)
  BY DEF Collected
<1>2. D \subseteq Nat /\ Nil \notin D /\ DOMAIN own = D /\ 0 \in D /\ v # Nil
  BY <1>1, StorageAssumption, NumberedCount DEF StorageAssumption
<1>3. /\ c2.free = c.free \cup {v} /\ c2 \in Colls(D) /\ c2.dirs[v] = EmptyEntry /\ c2.saved[v] = EmptyEntry
      /\ \A f \in D : f # v => c2.dirs[f] = c.dirs[f] /\ c2.saved[f] = c.saved[f]
  <2>1. c2 = [dirs |-> [c.dirs EXCEPT ![v] = EmptyEntry], free |-> c.free \cup {v},
              saved |-> [c.saved EXCEPT ![v] = [c.dirs EXCEPT ![v] = EmptyEntry][v]]]
    BY <1>1 DEF Pushed, Cleared, Update, Colls
  <2>2. EmptyEntry \in Entry
    BY <1>2 DEF EmptyEntry, Entry
  <2>3. c.dirs \in [D -> Entry] /\ c.saved \in [D -> Entry] /\ c.free \in SUBSET D
    BY <1>1 DEF Colls
  <2>4. [c.dirs EXCEPT ![v] = EmptyEntry][v] = EmptyEntry
    BY <2>3
  <2>5. [c.dirs EXCEPT ![v] = EmptyEntry] \in [D -> Entry] /\ [c.saved EXCEPT ![v] = EmptyEntry] \in [D -> Entry]
    BY <2>2, <2>3
  <2> HIDE DEF c2
  <2> QED
    BY <2>1, <2>2, <2>3, <2>4, <2>5 DEF Colls
<1>4. EmptyEntry.child = Nil /\ EmptyEntry.kind = "unallocated"
  BY DEF EmptyEntry
<1>5. /\ own2 \in [D -> D \cup {Nil}] /\ Owned(own2, v) = {}
      /\ \A f \in D : own2[f] # v /\ (own[f] = Nil => own2[f] = Nil)
      /\ \A f \in D : own2[f] # Nil => own2[f] = own[f]
      /\ \A g \in D : g # v => Owned(own2, g) = Owned(own, g)
  <2> DEFINE X == {}
             o == Reowned(own, v, X)
  <2>1. X = {} /\ X \in SUBSET D /\ \A f \in X : own[f] \in {v, Nil}
    OBVIOUS
  <2>2. o = own2
    OBVIOUS
  <2> HIDE DEF X
  <2>3. /\ o \in [D -> D \cup {Nil}] /\ Owned(o, v) = X
        /\ \A f \in X : o[f] = v
        /\ \A f \in D : f \notin X => o[f] # v /\ (own[f] = Nil => o[f] = Nil)
        /\ \A f \in D : o[f] # Nil /\ o[f] # v => f \notin X /\ o[f] = own[f]
        /\ \A g \in D : g # v => Owned(o, g) = Owned(own, g)
    <3>1. own \in [D -> D \cup {Nil}] /\ Nil \notin D /\ X \in SUBSET D
      BY <1>1, <1>2, <2>1
    <3>2. \A f \in X : own[f] \in {v, Nil}
      BY <2>1
    <3> QED
      BY <3>1, <3>2, ReownedFields
  <2> HIDE DEF own2, o
  <2> QED
    BY <2>1, <2>2, <2>3
<1> HIDE DEF own2, c2
<1>6. own2[v] = Nil /\ DOMAIN own2 = D
  BY <1>5
<1>7. RootUsed(c2, own2)
  BY <1>1, <1>2, <1>3, <1>5 DEF RootUsed
<1>8. FreeEmpty(c2, own2)
  <2>1. SUFFICES ASSUME NEW f \in c2.free PROVE own2[f] = Nil /\ c2.dirs[f] = EmptyEntry /\ c2.saved[f] = EmptyEntry
    BY DEF FreeEmpty
  <2>2. CASE f = v
    BY <1>3, <1>6, <2>2
  <2>3. CASE f # v
    <3>1. f \in c.free /\ f \in D
      BY <1>1, <1>3, <2>3 DEF Colls
    <3> QED
      BY <1>1, <1>3, <1>5, <2>3, <3>1 DEF FreeEmpty
  <2> QED
    BY <2>2, <2>3
<1>9. LinksOwned(c2.dirs, own2)
  <2>1. ASSUME NEW f \in D, own2[f] # Nil
        PROVE c2.dirs[f].kind # "unallocated" /\ \A d \in Sides : c2.dirs[f][d] \in Owned(own2, own2[f]) \cup {Nil}
    <3>1. own2[f] = own[f] /\ own2[f] \in D /\ own2[f] # v /\ f # v
      BY <1>5, <1>6, <2>1
    <3>2. c.dirs[f].kind # "unallocated" /\ \A d \in Sides : c.dirs[f][d] \in Owned(own, own[f]) \cup {Nil}
      BY <1>1, <1>2, <2>1, <3>1 DEF LinksOwned
    <3> QED
      BY <1>3, <1>5, <3>1, <3>2
  <2>2. ASSUME NEW g \in D PROVE c2.dirs[g].child \in Owned(own2, g) \cup {Nil}
    <3>1. CASE g = v
      BY <1>3, <1>4, <3>1
    <3>2. CASE g # v
      <4>1. c.dirs[g].child \in Owned(own, g) \cup {Nil}
        BY <1>1, <1>2 DEF LinksOwned
      <4> QED
        BY <1>3, <1>5, <3>2, <4>1
    <3> QED
      BY <3>1, <3>2
  <2> QED
    BY <1>6, <2>1, <2>2 DEF LinksOwned
<1>10. SavedAs(c2, own2)
  <2>1. ASSUME NEW f \in D
        PROVE /\ c2.saved[f] = c2.dirs[f] \/ (own2[f] = Nil /\ f # 0 /\ c2.saved[f] = EmptyEntry)
              /\ c2.saved[f].kind = "unallocated" => c2.saved[f] = EmptyEntry
    <3>1. CASE f = v
      BY <1>3, <3>1
    <3>2. CASE f # v
      BY <1>1, <1>2, <1>3, <1>5, <3>2 DEF SavedAs
    <3> QED
      BY <3>1, <3>2
  <2> QED
    BY <1>6, <2>1 DEF SavedAs
<1>11. NamesDiffer(c2.dirs, own2)
  <2>1. ASSUME NEW f \in D, NEW g \in D, own2[f] # Nil, own2[f] = own2[g], f # g, c2.dirs[f].name = c2.dirs[g].name
        PROVE IllFormed(c2.dirs[f].name)
    <3>1. own[f] # Nil /\ own[f] = own[g] /\ f # v /\ g # v
      BY <1>5, <1>6, <2>1
    <3> QED
      BY <1>1, <1>2, <1>3, <2>1, <3>1 DEF NamesDiffer
  <2> QED
    BY <1>6, <2>1 DEF NamesDiffer
<1>13. ASSUME NEW g \in D, g # v PROVE Spared(c2, own2, D, c, own, D, g)
  <2>1. Held(c, g, D) => Held(c2, g, D)
    BY <1>3, <1>13 DEF Held, Used
  <2>2. \A f \in Owned(own, g) : f \in D /\ f # v
    BY <1>2, <1>13 DEF Owned
  <2>3. Untouched(c2, own2, c, own, g)
    BY <1>3, <1>5, <1>13, <2>2 DEF Untouched
  <2> QED
    BY <2>1, <2>3 DEF Spared
<1>12. Collected(c2, own2, D)
  <2>1. EachHangs(c2.dirs, own2)
    <3>1. Hangs(c2.dirs, own2, v)
      BY <1>3, <1>4, <1>5, NoneHang
    <3>2. \A g \in D : g # v => Hangs(c2.dirs, own2, g)
      BY <1>1, <1>2, <1>13, HangsUntouched DEF EachHangs, Spared
    <3> QED
      BY <1>6, <3>1, <3>2 DEF EachHangs
  <2>2. StoragesHave(c2, own2)
    BY <1>1, <1>2, <1>3, <1>4, <1>6 DEF StoragesHave
  <2> QED
    BY <1>1, <1>3, <1>5, <1>7, <1>8, <1>9, <1>10, <1>11, <2>1, <2>2 DEF Collected
<1>14. LabelsKept(c2, c, D \ {v})
  BY <1>3 DEF LabelsKept
<1> QED
  BY <1>3, <1>12, <1>13, <1>14 DEF Emptied, c2, own2

(* What two steps spare.                                                     *)
LEMMA SparedTwice ==
  ASSUME NEW c, NEW own, NEW D, NEW c2, NEW own2, NEW D2, NEW c3, NEW own3, NEW D3, NEW e,
         Spared(c2, own2, D2, c, own, D, e), Spared(c3, own3, D3, c2, own2, D2, e)
  PROVE Spared(c3, own3, D3, c, own, D, e)
<1>1. Held(c, e, D) => Held(c3, e, D3)
  BY DEF Spared
<1>2. /\ Owned(own2, e) = Owned(own, e) /\ c2.dirs[e].child = c.dirs[e].child
      /\ \A f \in Owned(own, e) : /\ c2.dirs[f].name = c.dirs[f].name /\ c2.dirs[f].red = c.dirs[f].red
                                  /\ \A d \in Sides : c2.dirs[f][d] = c.dirs[f][d]
  BY DEF Spared, Untouched
<1>3. /\ Owned(own3, e) = Owned(own2, e) /\ c3.dirs[e].child = c2.dirs[e].child
      /\ \A f \in Owned(own2, e) : /\ c3.dirs[f].name = c2.dirs[f].name /\ c3.dirs[f].red = c2.dirs[f].red
                                   /\ \A d \in Sides : c3.dirs[f][d] = c2.dirs[f][d]
  BY DEF Spared, Untouched
<1>4. Untouched(c3, own3, c, own, e)
  BY <1>2, <1>3 DEF Untouched
<1> QED
  BY <1>1, <1>4 DEF Spared

\* After a delete: the entry v is free, and the rest is as it was.
Released(c3, own3, c, v, D, hs2, H, out2, wrong) ==
  Holds(c3, own3, D, hs2, H, out2, wrong) /\ c3.free = c.free \cup {v} /\ LabelsKept(c3, c, D \ {v})

\* The handles that are not out do not stand for the entry v.
OutOf(hs, H, out2, v) == \A g \in H : hs[g].entry = v => g \in out2

(* Delete of a node leaves a tree that is not empty.                         *)
LEMMA ReadyDeleted ==
  ASSUME NEW c, NEW own, NEW D, NEW hs, NEW h, NEW t0, NEW H, NEW out, NEW wrong0, NEW wrong, wrong0 => wrong,
         Ready(c, own, D, hs, h, t0, H, out, wrong0), NEW z \in Nodes(t0), NEW t, Unhung(t, t0, z, wrong), t.root # Nil,
         NEW out2, out \subseteq out2, OutOf(hs, H, out2, Value(z))
  PROVE Released(Pushed(Adopt(WriteBack(c, t, Nil), hs[h].entry, t), Value(z)), Orphaned(own, Value(z)), c, Value(z), D,
              [hs EXCEPT ![h].tree = Clean(t)], H, out2, wrong)
<1> DEFINE e == hs[h].entry
           v == Value(z)
           q == Clean(t)
           c2 == Adopt(WriteBack(c, t, Nil), e, t)
           own2 == Reowned(own, e, EntriesOf(Nodes(t0) \ {z}))
           c3 == Pushed(c2, v)
           own3 == Reowned(own2, v, {})
<1>1. /\ Holds(c, own, D, hs, H, out, wrong0) /\ Alone(hs, h, H, out) /\ e # Nil /\ h \in H
      /\ Cached(t0, D, wrong0) /\ Held(c, e, D) /\ Fits(c, own, e, t0) /\ e \in D
  BY DEF Ready
<1>2. Collected(c, own, D)
  BY <1>1 DEF Holds
<1>3. /\ Done(c2, own2, c, own, e, t, D, wrong) /\ own2 = [own EXCEPT ![v] = Nil] /\ v \in D /\ v # 0
      /\ v \notin c.free /\ c2.free = c.free /\ LabelsKept(c2, c, D)
  <2> DEFINE ee == e
  <2>1. Held(c, ee, D) /\ Fits(c, own, ee, t0)
    BY <1>1
  <2> HIDE DEF ee
  <2>2. DoneWithout(Adopt(WriteBack(c, t, Nil), ee, t), Reowned(own, ee, EntriesOf(Nodes(t0) \ {z})),
                    c, own, ee, Value(z), t, D, wrong)
    BY <1>1, <1>2, <2>1, UnhungDone
  <2>3. DoneWithout(c2, own2, c, own, e, v, t, D, wrong)
    BY <2>2 DEF ee
  <2> QED
    BY <2>3 DEF DoneWithout
<1> HIDE DEF own2, c2, v, q
<1>4. /\ Collected(c2, own2, D) /\ Held(c2, e, D) /\ Fits(c2, own2, e, q) /\ Cached(q, D, wrong)
      /\ \A g \in D : g # e => Spared(c2, own2, D, c, own, D, g)
  BY <1>3 DEF Done, q
<1>11. own \in [D -> D \cup {Nil}] /\ Nil \notin D
  BY <1>2, FreeOwnNone DEF OwnersOf
<1>12. own2[v] = Nil
  BY <1>3, <1>11
<1>5. /\ Collected(c3, own3, D) /\ \A g \in D : g # v => Spared(c3, own3, D, c2, own2, D, g)
      /\ c3.free = c.free \cup {v} /\ LabelsKept(c3, c2, D \ {v})
  <2>1. Emptied(c3, own3, c2, own2, D, v)
    BY <1>3, <1>4, <1>12, ClearedEmptied
  <2> QED
    BY <1>3, <2>1 DEF Emptied
<1>13. own3 = Orphaned(own, v)
  <2>1. DOMAIN own2 = D
    BY <1>3, <1>11
  <2>2. own3 = [x \in D |-> IF own2[x] = v THEN Nil ELSE own2[x]]
    BY <2>1 DEF Reowned
  <2>3. [x \in D |-> IF own2[x] = v THEN Nil ELSE own2[x]] = [x \in D |-> IF x = v \/ own[x] = v THEN Nil ELSE own[x]]
    BY <1>3, <1>11
  <2>4. DOMAIN own = D
    BY <1>11
  <2> QED
    BY <2>2, <2>3, <2>4 DEF Orphaned
<1> HIDE DEF c3, own3
<1>6. \A g \in H \ out2 : hs[g].entry # v /\ hs[g].entry \in D \cup {Nil}
  BY <1>1 DEF Holds, Handled, OutOf, v
<1>7. \A g \in H \ out2 : hs[g].entry # hs[h].entry /\ hs[g].entry # Nil => Spared(c3, own3, D, c, own, D, hs[g].entry)
  <2>1. SUFFICES ASSUME NEW g \in H \ out2, hs[g].entry # e, hs[g].entry # Nil
                 PROVE Spared(c3, own3, D, c, own, D, hs[g].entry)
    OBVIOUS
  <2>2. Spared(c2, own2, D, c, own, D, hs[g].entry)
    BY <1>4, <1>6, <2>1
  <2>3. Spared(c3, own3, D, c2, own2, D, hs[g].entry)
    BY <1>5, <1>6, <2>1
  <2> QED
    BY <2>2, <2>3, SparedTwice
<1>8. \/ Held(c3, hs[h].entry, D) /\ Fits(c3, own3, hs[h].entry, q)
      \/ \A g \in H \ out2 : hs[g].entry # hs[h].entry
  <2>1. CASE e = v
    BY <1>6, <2>1
  <2>2. CASE e # v
    <3>1. Spared(c3, own3, D, c2, own2, D, e)
      BY <1>1, <1>5, <2>2
    <3>2. Held(c3, e, D) /\ Fits(c3, own3, e, q)
      BY <1>4, <3>1, FitsUntouched DEF Spared
    <3> QED
      BY <3>2
  <2> QED
    BY <2>1, <2>2
<1>9. /\ Holds(c, own, D, hs, H, out, wrong0) /\ Alone(hs, h, H, out) /\ hs[h].entry # Nil /\ h \in H
      /\ Collected(c3, own3, D) /\ Cached(q, D, wrong)
  BY <1>1, <1>4, <1>5
<1> HIDE DEF e
<1>10. Holds(c3, own3, D, [hs EXCEPT ![h].tree = q], H, out2, wrong)
  BY <1>7, <1>8, <1>9, HandleStep
<1>14. LabelsKept(c3, c, D \ {v})
  BY <1>3, <1>5 DEF LabelsKept
<1> QED
  BY <1>5, <1>10, <1>13, <1>14 DEF Released, c3, c2, v, q, e

(* A tree that has lost its only node: there was one entry below.            *)
LEMMA OnlyChild ==
  ASSUME NEW D, Numbered(D), NEW t0, NEW wrong0, Cached(t0, D, wrong0), NEW z \in Nodes(t0), NEW t, NEW wrong,
         Unhung(t, t0, z, wrong), t.root = Nil
  PROVE Nodes(t0) = {z}
<1> DEFINE N == Nodes(t0) \ {z}
<1>3. Nodes(t0) \subseteq NodesOf(D) /\ D \subseteq Nat /\ Nil \notin Nat \cup (Nat \X Nat)
  BY NumberedCount, StorageAssumption DEF StorageAssumption, Cached
<1>4. Nil \notin N
  BY <1>3 DEF NodesOf
<1>5. t \in Trees(N) /\ Sound(t)
  BY DEF Unhung
<1>6. {} = N
  <2> DEFINE X == {}
  <2>1. X \in SUBSET N /\ \A n \in X, d \in Sides : t[d][n] # Nil => t[d][n] \in X
    OBVIOUS
  <2> HIDE DEF X, N
  <2>2. X = N
    BY <1>4, <1>5, <2>1, TreeSpans
  <2> QED
    BY <2>2 DEF X
<1> QED
  BY <1>6

(* A deletion that has gone wrong makes no difference to the rest.           *)
LEMMA HoldsWrong ==
  ASSUME NEW c, NEW own, NEW D, NEW hs, NEW H, NEW out, NEW wrong, Holds(c, own, D, hs, H, out, wrong),
         NEW wrong2, wrong => wrong2
  PROVE Holds(c, own, D, hs, H, out, wrong2)
<1>1. Handled(hs, H, D, wrong2)
  BY HandledMore DEF Holds
<1> QED
  BY <1>1, Zenon DEF Holds

\* The storage e has one entry, of that name.
OneBelow(e, name) ==
  Cardinality(Below(dirs, e)) = 1 /\ \A f \in Below(dirs, e) : dirs[f].name = name

(* Below a storage whose tree fits are its entries.                          *)
LEMMA BelowReady ==
  ASSUME NEW own, NEW hs, NEW h, NEW t0, NEW H, NEW out, NEW wrong, Ready(Collection, own, Ids, hs, h, t0, H, out, wrong)
  PROVE Below(dirs, hs[h].entry) = Owned(own, hs[h].entry)
<1> DEFINE e == hs[h].entry
<1>1. e \in Ids /\ Collected(Collection, own, Ids)
  BY DEF Ready, Holds
<1>2. Collection.dirs = dirs
  BY DEF Collection
<1> HIDE DEF e
<1>3. Below(Collection.dirs, e) = Owned(own, e)
  BY <1>1, BelowIsOwned
<1> QED
  BY <1>2, <1>3 DEF e

(* A deletion keeps the account: the entry is free, and what was below it is *)
(* leaked; a stream has nothing below.                                       *)
LEMMA DeleteReckoned ==
  ASSUME NEW c, NEW own, NEW D, Collected(c, own, D), NEW lk, Reckoned(own, D, c.free, lk),
         NEW v \in D, own[v] # Nil, own[v] \notin lk, v \notin c.free
  PROVE LET below == IF c.dirs[v].kind = "storage" THEN Descendants(c.dirs, v) ELSE {} IN
        below \subseteq D /\ Reckoned(Orphaned(own, v), D, c.free \cup {v}, lk \cup below)
<1> DEFINE below == IF c.dirs[v].kind = "storage" THEN Descendants(c.dirs, v) ELSE {}
           C == InUse(D, c.free, lk)
<1>1. OwnersOf(own, D)
  BY FreeOwnNone
<1>2. v # 0
  BY <1>1 DEF OwnersOf
<1>3. v \in C
  <2>1. v \notin lk
    BY DEF Reckoned
  <2> QED
    BY <1>2, <2>1 DEF InUse
<1>4. C \subseteq D
  BY DEF InUse
<1>5. below \in SUBSET C /\ v \notin below /\ Owned(own, v) \subseteq below /\ \A w \in below : Owned(own, w) \subseteq below /\ own[w] \in below \cup {v}
  <2>1. CASE c.dirs[v].kind = "storage"
    <3> DEFINE R == Descendants(c.dirs, v)
    <3>1. /\ R \subseteq C /\ Owned(own, v) \subseteq R
          /\ \A w \in R : Owned(own, w) \subseteq R /\ own[w] \in R \cup {v}
          /\ v # 0 => v \notin R
      <4>1. v \in C \cup {0}
        BY <1>3
      <4> QED
        BY <4>1, DescendantsOwned
    <3>2. below = R
      BY <2>1
    <3> HIDE DEF below, R, C
    <3> QED
      BY <1>2, <3>1, <3>2
  <2>2. CASE c.dirs[v].kind # "storage"
    <3>1. DOMAIN own = D /\ StoragesHave(c, own) /\ EachHangs(c.dirs, own)
      BY <1>1 DEF Collected, OwnersOf
    <3>2. c.dirs[v].child = Nil /\ Spanned(c.dirs, v, Owned(own, v))
      BY <1>2, <2>2, <3>1 DEF StoragesHave, EachHangs, Hangs
    <3> DEFINE X == {}
    <3>3. X \in SUBSET Owned(own, v) /\ \A f \in X, d \in Sides : c.dirs[f][d] # Nil => c.dirs[f][d] \in X
      OBVIOUS
    <3> HIDE DEF X
    <3>4. X = Owned(own, v)
      BY <3>2, <3>3 DEF Spanned
    <3>5. Owned(own, v) = {} /\ below = {}
      BY <2>2, <3>4 DEF X
    <3> QED
      BY <3>5
  <2> QED
    BY <2>1, <2>2
<1> HIDE DEF below
<1>6. Reckoned(Orphaned(own, v), D, c.free \cup {v}, lk \cup below)
  BY <1>1, <1>3, <1>5, ReckonedDelete
<1>7. below \subseteq D
  BY <1>4, <1>5
<1> QED
  BY <1>6, <1>7 DEF below

(* DeleteEntry.  It panics only after a wrong parent, or when it deletes the *)
(* one entry of the storage.                                                 *)
LEMMA DeleteEntryStep ==
  ASSUME IInv, NEW h \in Handles, NEW name \in Names, DeleteEntry(h, name)
  PROVE IInv' /\ (panicked' => lost' \/ OneBelow(handle[h].entry, name)) /\ Moves(saved, saved', call')
<1> DEFINE t0 == TreeOf(h)
           hs == [handle EXCEPT ![h].tree = t0]
           c == Collection
           z == findnode(t0, name)
<1>1. PICK own1 : Owners(own1)
  BY DEF IInv, IHolds
<1>2. /\ h \in Callable /\ ~panicked /\ opened' = opened
      /\ IF z = Nil
         THEN handle' = hs /\ UNCHANGED <<dirs, free, saved, panicked, lost, leaked, gone>>
         ELSE Deleted(h, t0, z) /\ lost' = (lost \/ WrongParent(t0, z))
  BY DEF DeleteEntry, Callable
<1>9. CallMade(call', "Delete", handle[h].entry, name, z # Nil /\ ~panicked')
  <2>1. /\ z = Nil => call' = Made("Delete", h, name, FALSE)
        /\ z # Nil => call' = Made("Delete", h, name, ~panicked')
    BY DEF DeleteEntry
  <2> QED
    BY <2>1, MadeCall
<1>3. /\ Ready(Collection, own1, Ids, hs, h, t0, Handles, gone, lost)
      /\ Keeps(Collection, own1, Ids, hs, Handles, gone, lost, leaked)
  BY <1>1, <1>2, CallKept
<1>4. WithTree(hs, h, t0)
  BY DEF WithTree
<1>5. Holds(c, own1, Ids, hs, Handles, gone, lost) /\ Cached(t0, Ids, lost)
  BY <1>3 DEF Ready
<1>6. handle[h].entry = hs[h].entry /\ \A g \in Handles : hs[g].entry = handle[g].entry
  <2> HIDE DEF hs, t0
  <2> QED
    BY <1>4, WithTreeFields
<1>7. CASE z = Nil
  <2>1. Commit(c) /\ UNCHANGED <<panicked, leaked, gone, lost>> /\ handle' = hs
    BY <1>2, <1>7 DEF Commit, Collection
  <2>2. IHolds' /\ Ids' = Ids
    <3> HIDE DEF hs, c
    <3> QED
      BY <1>3, <2>1, CommitHolds DEF c
  <2>3. Moves(saved, saved', call')
    BY <1>2, <1>7, <1>9, MovesNot DEF CallMade
  <2> QED
    BY <1>2, <2>1, <2>2, <2>3 DEF IInv, ITypes
<1>8. CASE z # Nil
  <2> DEFINE t == Delete([t0 EXCEPT !.dirty = @ \cup {z}], z)
             w == lost \/ WrongParent(t0, z)
             v == Value(z)
  <2>1. lost' = w /\ IF t = NilPointer \/ t.root = Nil THEN DeletePanics(h, t0) ELSE DeleteDone(h, t, v)
    BY <1>2, <1>8 DEF Deleted
  <2>2. z \in Nodes(t0) /\ Key(z) = name /\ v \in Ids /\ own1[v] = hs[h].entry /\ v \notin c.free
    <3> HIDE DEF hs, t0, c
    <3>1. z \in Nodes(t0) /\ Key(z) = name /\ own1[v] = hs[h].entry /\ v \in Ids /\ Used(Collection, v, Ids)
      BY <1>3, <1>8, FindReady
    <3> QED
      BY <3>1 DEF Used, c
  <2>3. \/ Unhung(t, t0, z, w)
        \/ t = NilPointer /\ w
    <3> DEFINE N == Nodes(t0)
    <3>1. Numbered(Ids)
      BY <1>5 DEF Holds, Collected
    <3>2. Nil \notin Nat \cup (Nat \X Nat) /\ Ids \subseteq Nat
      BY <3>1, NumberedCount, StorageAssumption DEF StorageAssumption
    <3>3. N \subseteq NodesOf(Ids) /\ t0 \in Trees(N) /\ Sound(t0) /\ (lost \/ EvenBlack(t0))
      BY <1>5, Zenon DEF Cached
    <3>4. Nil \notin N
      BY <3>2, <3>3 DEF NodesOf
    <3>5. z \in N
      BY <2>2
    <3> HIDE DEF N, z, t0
    <3> QED
      BY <3>3, <3>4, <3>5, MarkedDelete
  <2>4. (lost => w) /\ w \in BOOLEAN
    BY Zenon DEF IInv, ITypes, WrongParent
  <2>7. call'.done <=> ~panicked'
    BY <1>8, <1>9, Zenon DEF CallMade
  <2>8. ~panicked' => DoneCall(call', "Delete", hs[h].entry, name)
    BY <1>6, <1>8, <1>9, Zenon DEF DoneCall, CallMade
  <2>9. c.dirs[v].name = name
    <3> HIDE DEF t0, hs, c, z
    <3>1. Fits(c, own1, hs[h].entry, t0)
      BY <1>3 DEF Ready, c
    <3> QED
      BY <2>2, <3>1 DEF Fits
  <2> HIDE DEF t, w, t0, hs, z, v
  <2>5. CASE t = NilPointer \/ t.root = Nil
    <3>1. DeletePanics(h, t0)
      BY <2>1, <2>5
    <3>2. handle' = hs /\ panicked' = TRUE /\ UNCHANGED <<dirs, free, saved, leaked, gone>>
      BY <3>1 DEF DeletePanics, hs
    <3>3. Commit(c)
      BY <3>2 DEF Commit, Collection
    <3> HIDE DEF c
    <3>4. Keeps(c, own1, Ids, hs, Handles, gone, w, leaked)
      <4>1. Holds(c, own1, Ids, hs, Handles, gone, w)
        BY <1>5, <2>4, HoldsWrong
      <4> QED
        BY <1>3, <4>1 DEF Keeps, c
    <3>5. IHolds' /\ Ids' = Ids
      BY <2>1, <3>2, <3>3, <3>4, CommitHolds
    <3>6. IInv'
      <4>1. lost' \in BOOLEAN /\ panicked' \in BOOLEAN
        BY <2>1, <2>4, <3>2, Zenon
      <4> QED
        BY <1>2, <3>2, <3>5, <4>1 DEF IInv, ITypes
    <3>7. ASSUME ~lost' PROVE OneBelow(handle[h].entry, name)
      <4>1. ~w
        BY <2>1, <3>7, Zenon
      <4>2. Unhung(t, t0, z, w)
        BY <2>3, <4>1
      <4>3. t # NilPointer
        BY <4>2, PanicIsNoTree DEF Unhung
      <4>4. t.root = Nil
        BY <2>5, <4>3
      <4>5. Owned(own1, hs[h].entry) = {Value(z)}
        <5>1. Numbered(Ids) /\ Fits(Collection, own1, hs[h].entry, t0)
          BY <1>3 DEF Ready, Holds, Collected
        <5>2. Nodes(t0) = {z}
          BY <1>5, <2>2, <4>2, <4>4, <5>1, OnlyChild
        <5> QED
          BY <5>1, <5>2 DEF Fits
      <4>6. Below(dirs, hs[h].entry) = Owned(own1, hs[h].entry)
        BY <1>3, BelowReady
      <4>7. Cardinality(Below(dirs, hs[h].entry)) = 1
        BY <4>5, <4>6, FS_Singleton
      <4>8. \A f \in Below(dirs, hs[h].entry) : dirs[f].name = name
        BY <2>9, <4>5, <4>6 DEF v, c, Collection
      <4> QED
        BY <1>6, <4>7, <4>8 DEF OneBelow
    <3>8. Moves(saved, saved', call')
      BY <2>7, <3>2, MovesNot
    <3> QED
      BY <3>6, <3>7, <3>8
  <2>6. CASE t # NilPointer /\ t.root # Nil
    <3> DEFINE below == IF dirs[v].kind = "storage" THEN Descendants(dirs, v) ELSE {}
               out2 == gone \cup {g \in Handles : handle[g].entry \in {v} \cup below}
               c2 == Pushed(Adopt(WriteBack(Collection, t, Nil), handle[h].entry, t), v)
               hs2 == [hs EXCEPT ![h].tree = Clean(t)]
    <3>1. /\ handle' = [handle EXCEPT ![h].tree = Clean(t)] /\ Commit(c2) /\ leaked' = leaked \cup below
          /\ gone' = out2 /\ panicked' = panicked
      BY <2>1, <2>6 DEF DeleteDone
    <3>2. [handle EXCEPT ![h].tree = Clean(t)] = hs2
      <4>1. \A q : [handle EXCEPT ![h].tree = q] = [hs EXCEPT ![h].tree = q]
        BY <1>4, WithTreeFields
      <4> QED
        BY <4>1
    <3> DEFINE own3 == Orphaned(own1, v)
               lk == leaked \cup below
    <3>3. below \subseteq Ids /\ Reckoned(own3, Ids, c.free \cup {v}, lk)
      <4>1. Collected(c, own1, Ids) /\ Reckoned(own1, Ids, c.free, leaked) /\ hs[h].entry # Nil /\ hs[h].entry \notin leaked
        BY <1>3, <1>5 DEF Holds, Keeps, Ready, Unleaked, c
      <4>2. own1[v] # Nil /\ own1[v] \notin leaked
        BY <2>2, <4>1
      <4>3. c.dirs = dirs
        BY DEF c, Collection
      <4>4. LET b == IF c.dirs[v].kind = "storage" THEN Descendants(c.dirs, v) ELSE {} IN
            b \subseteq Ids /\ Reckoned(Orphaned(own1, v), Ids, c.free \cup {v}, leaked \cup b)
        BY <2>2, <4>1, <4>2, DeleteReckoned
      <4> QED
        BY <4>3, <4>4
    <3>4. Unhung(t, t0, z, w)
      BY <2>3, <2>6
    <3>5. gone \subseteq out2 /\ out2 \subseteq Handles /\ \A g \in Handles : hs[g].entry = Value(z) => g \in out2
      BY <1>6 DEF IInv, ITypes, v
    <3>10. \A g \in Handles \ out2 : hs[g].entry \notin below
      BY <1>6
    <3> HIDE DEF out2, below, c, hs2, own3, lk
    <3>6. /\ Holds(c2, own3, Ids, hs2, Handles, out2, w) /\ c2.free = c.free \cup {v}
          /\ LabelsKept(c2, c, Ids \ {v})
      <4> HIDE DEF c2
      <4>1. LET c3 == Pushed(Adopt(WriteBack(c, t, Nil), hs[h].entry, t), Value(z)) IN
            /\ Holds(c3, Orphaned(own1, Value(z)), Ids, [hs EXCEPT ![h].tree = Clean(t)], Handles, out2, w)
            /\ c3.free = c.free \cup {Value(z)} /\ LabelsKept(c3, c, Ids \ {Value(z)})
        <5>1. Ready(c, own1, Ids, hs, h, t0, Handles, gone, lost)
          BY <1>3 DEF c
        <5>2. z \in Nodes(t0) /\ (lost => w) /\ t.root # Nil /\ gone \subseteq out2
          BY <2>2, <2>4, <2>6, <3>5, Zenon
        <5>3. OutOf(hs, Handles, out2, Value(z))
          BY <3>5 DEF OutOf
        <5>4. Released(Pushed(Adopt(WriteBack(c, t, Nil), hs[h].entry, t), Value(z)), Orphaned(own1, Value(z)), c, Value(z),
                    Ids, [hs EXCEPT ![h].tree = Clean(t)], Handles, out2, w)
          BY <3>4, <5>1, <5>2, <5>3, ReadyDeleted, Zenon
        <5> QED
          BY <5>4 DEF Released
      <4> QED
        BY <1>6, <4>1 DEF c2, c, v, hs2, own3
    <3> HIDE DEF c2
    <3>11. Unleaked(hs2, Handles, out2, lk)
      <4>1. Unleaked(hs, Handles, out2, lk)
        BY <1>3, <3>5, <3>10 DEF Keeps, Unleaked, lk
      <4>2. Handled(hs, Handles, Ids, lost)
        BY <1>5 DEF Holds
      <4>3. Unleaked([hs EXCEPT ![h].tree = Clean(t)], Handles, out2, lk)
        BY <4>1, <4>2, UnleakedSet
      <4> QED
        BY <4>3 DEF hs2
    <3>12. Keeps(c2, own3, Ids, hs2, Handles, out2, w, lk)
      BY <3>3, <3>6, <3>11 DEF Keeps
    <3>13. leaked' = lk
      BY <3>1 DEF lk
    <3>7. IHolds' /\ Ids' = Ids
      BY <2>1, <3>1, <3>2, <3>12, <3>13, CommitHolds
    <3>8. IInv'
      <4>1. lost' \in BOOLEAN
        BY <2>1, <2>4, Zenon
      <4> QED
        BY <1>2, <3>1, <3>3, <3>5, <3>7, <4>1 DEF IInv, ITypes
    <3>9. ~panicked'
      BY <1>2, <3>1
    <3>14. Moves(c.saved, c2.saved, call')
      <4> DEFINE e == hs[h].entry
      <4>1. /\ Collected(c, own1, Ids) /\ Reckoned(own1, Ids, c.free, leaked) /\ Held(c, e, Ids) /\ e \notin leaked
        BY <1>3, <1>5 DEF Holds, Keeps, Ready, Unleaked, c
      <4>2. Collected(c2, own3, Ids) /\ c2.free = c.free \cup {v}
        BY <3>6 DEF Holds
      <4>3. below = Fallen(c.dirs, v)
        BY DEF below, Fallen, c, Collection
      <4>4. Reckoned(own3, Ids, c2.free, leaked \cup Fallen(c.dirs, v))
        BY <3>3, <4>2, <4>3 DEF lk
      <4>5. EntryRemoved(c2, own3, c, own1, Ids, v)
        BY <3>6, <4>2 DEF EntryRemoved, own3
      <4>6. own1[v] = e
        BY <2>2
      <4>7. DoneCall(call', "Delete", e, c.dirs[v].name)
        BY <2>8, <2>9, <3>9
      <4> HIDE DEF e
      <4> QED
        BY <2>2, <4>1, <4>2, <4>4, <4>5, <4>6, <4>7, RemovedMoves
    <3>15. Moves(saved, saved', call')
      BY <3>1, <3>14 DEF Commit, c, Collection
    <3> QED
      BY <3>8, <3>9, <3>15
  <2> QED
    BY <2>5, <2>6
<1> QED
  BY <1>7, <1>8

-----------------------------------------------------------------------------
(***************************************************************************)
(* Opening a document.                                                     *)
(***************************************************************************)

\* The handles of a document that has been opened.
Opened == [h \in Handles |-> IF h = Root THEN Fresh(0) ELSE NoHandle]

(* They are as the invariant has them.                                       *)
LEMMA OpenedHolds ==
  ASSUME NEW c, NEW own, NEW D, Collected(c, own, D), NEW wrong
  PROVE Holds(c, own, D, Opened, Handles, {}, wrong)
<1> DEFINE hs == Opened
<1>1. Numbered(D) /\ RootUsed(c, own) /\ SavedAs(c, own) /\ own \in [D -> D \cup {Nil}]
  BY DEF Collected
<1>2. Held(c, 0, D)
  <2>1. 0 \in D /\ DOMAIN own = D
    BY <1>1, NumberedCount
  <2> QED
    BY <1>1, <2>1 DEF Held, Used, RootUsed, SavedAs
<1>3. \A h \in Handles : hs[h].entry \in {0, Nil} /\ hs[h].tree = Nil /\ hs[h] = [entry |-> hs[h].entry, tree |-> hs[h].tree]
  BY DEF Opened, Fresh, NoHandle
<1>4. hs = [h \in Handles |-> [entry |-> hs[h].entry, tree |-> hs[h].tree]]
  <2>1. hs = [h \in Handles |-> hs[h]]
    BY DEF Opened
  <2> HIDE DEF hs
  <2> QED
    BY <1>3, <2>1
<1> HIDE DEF hs
<1>5. Handled(hs, Handles, D, wrong)
  BY <1>2, <1>3, <1>4 DEF Handled, Held, Used
<1>6. Apart(hs, Handles, {})
  BY <1>3 DEF Apart
<1>7. \A h \in Handles \ {} : Current(c, own, D, hs[h])
  BY <1>2, <1>3 DEF Current
<1>8. Holds(c, own, D, hs, Handles, {}, wrong)
  BY <1>5, <1>6, <1>7, Zenon DEF Holds
<1> QED
  BY <1>8 DEF hs

(* Reopen.                                                                   *)
LEMMA ReopenStep ==
  ASSUME IInv, Reopen
  PROVE IInv' /\ ~panicked'
<1> DEFINE c == Collection
           f == {e \in DOMAIN saved : saved[e].kind = "unallocated"}
<1>1. PICK own : Owners(own)
  BY DEF IInv, IHolds
<1>2. Collected(c, own, Ids) /\ Reckoned(own, Ids, c.free, leaked)
  BY <1>1 DEF Owners, Keeps, Holds
<1>3. /\ own \in [Ids -> Ids \cup {Nil}] /\ c \in Colls(Ids) /\ SavedAs(c, own) /\ LinksOwned(c.dirs, own) /\ RootUsed(c, own)
      /\ Numbered(Ids)
  BY <1>2 DEF Collected
<1>4. saved \in [Ids -> Entry] /\ c.saved = saved /\ c.dirs = dirs /\ DOMAIN own = Ids /\ 0 \in Ids
  BY <1>3, NumberedCount DEF Collection, Colls
<1>5. \A x \in Ids : /\ saved[x] = dirs[x] \/ (own[x] = Nil /\ x # 0 /\ saved[x] = EmptyEntry)
                     /\ saved[x].kind = "unallocated" => saved[x] = EmptyEntry
  BY <1>3, <1>4 DEF SavedAs
<1>6. /\ f \in SUBSET Ids /\ 0 \notin f /\ \A x \in f : own[x] = Nil /\ c.saved[x] = EmptyEntry
  <2>1. f \in SUBSET Ids
    BY <1>4
  <2>2. 0 \notin f
    BY <1>3, <1>4, <1>5 DEF RootUsed
  <2>3. ASSUME NEW x \in f PROVE own[x] = Nil /\ c.saved[x] = EmptyEntry
    <3>1. x \in Ids /\ saved[x].kind = "unallocated"
      BY <1>4, <2>3
    <3>2. own[x] = Nil
      BY <1>3, <1>4, <1>5, <3>1 DEF LinksOwned
    <3> QED
      BY <1>4, <1>5, <3>1, <3>2
  <2> QED
    BY <2>1, <2>2, <2>3
<1>7. /\ dirs' = [e \in DOMAIN saved |-> IF saved[e].kind = "unallocated" THEN EmptyEntry ELSE saved[e]]
      /\ saved' = saved /\ free' = f /\ handle' = Opened /\ gone' = {} /\ panicked' = FALSE /\ UNCHANGED <<opened, lost>>
      /\ leaked' = {e \in leaked : saved[e].kind # "unallocated"}
  BY DEF Reopen, Opened
<1>8. dirs' = saved
  BY <1>4, <1>5, <1>7
<1> HIDE DEF f
<1>9. Collected(Reread(c, f), own, Ids)
  <2> HIDE DEF c
  <2> QED
    BY <1>2, <1>6, RereadCollected
<1>10. Commit(Reread(c, f))
  BY <1>4, <1>7, <1>8 DEF Commit, Reread
<1>13. c.free \subseteq f
  <2>1. c.free \subseteq Ids /\ \A x \in c.free : c.saved[x].kind = "unallocated"
    BY <1>2 DEF Collected, Colls, FreeEmpty, EmptyEntry
  <2> QED
    BY <1>4, <2>1 DEF f
<1>14. leaked' = leaked \ f
  <2>1. leaked \subseteq Ids
    BY DEF IInv, ITypes
  <2> QED
    BY <1>4, <1>7, <2>1 DEF f
<1> HIDE DEF c
<1> DEFINE c2 == Reread(c, f)
<1>15. c2.free = f
  BY DEF Reread
<1> HIDE DEF c2
<1>16. Collected(c2, own, Ids)
  BY <1>9 DEF c2
<1>17. OwnersOf(own, Ids) /\ \A x \in f : own[x] = Nil /\ Owned(own, x) = {}
  BY <1>15, <1>16, FreeOwnNone
<1>18. Reckoned(own, Ids, f, leaked')
  BY <1>2, <1>6, <1>13, <1>14, <1>17, ReckonedRead
<1>19. Unleaked(Opened, Handles, {}, leaked')
  <2>1. 0 \notin leaked' /\ Nil \notin leaked'
    BY <1>14, <1>17, <1>18 DEF Reckoned, OwnersOf
  <2> QED
    BY <2>1 DEF Unleaked, Opened, Fresh, NoHandle
<1>11. Keeps(c2, own, Ids, Opened, Handles, {}, lost, leaked')
  <2>1. Holds(c2, own, Ids, Opened, Handles, {}, lost)
    BY <1>16, OpenedHolds
  <2> QED
    BY <1>15, <1>18, <1>19, <2>1 DEF Keeps
<1>12. IHolds' /\ Ids' = Ids
  <2>1. Commit(c2)
    BY <1>10 DEF c2
  <2> QED
    BY <1>7, <1>11, <2>1, CommitHolds
<1> QED
  BY <1>7, <1>12 DEF IInv, ITypes

-----------------------------------------------------------------------------
(***************************************************************************)
(* The documents there are to begin with.                                  *)
(***************************************************************************)

\* The entries of storages are streams, under names that were given.
StreamsOnly(c, own) ==
  \A f \in DOMAIN own : own[f] # Nil => c.dirs[f].kind = "stream" /\ c.dirs[f].name \in {Stored[n] : n \in Names \ Refused}

\* b is a document and the tree of its root's children, after the first j names.
Built(b, names, j) ==
  \E own, D :
    /\ Collected(b.written, own, D) /\ Held(b.written, 0, D)
    /\ Cached(b.tree, D, FALSE) /\ Fits(b.written, own, 0, b.tree) /\ Reckoned(own, D, b.written.free, {})
    /\ StreamsOnly(b.written, own)
    /\ \A n \in Nodes(b.tree) : \E i \in 1 .. j : Key(n) = Stored[names[i]]

(* New.                                                                      *)
LEMMA NewBuilt ==
  ASSUME NEW names
  PROVE Built([written |-> NewDocument, tree |-> NewTree], names, 0)
<1> DEFINE D == 0 .. (EntriesPerSector - 1)
           own == [e \in D |-> Nil]
           top == [EmptyEntry EXCEPT !.kind = "root", !.red = FALSE]
           ents == [e \in D |-> IF e = 0 THEN top ELSE EmptyEntry]
           c == NewDocument
<1>1. EntriesPerSector \in Nat /\ EntriesPerSector # 0 /\ Nil \notin Nat
  BY StorageAssumption DEF StorageAssumption
<1>2. c = [dirs |-> ents, free |-> DOMAIN ents \ {0}, saved |-> ents]
  BY DEF NewDocument
<1> HIDE DEF c
<1>3. Numbered(D) /\ 0 \in D /\ Nil \notin D
  BY <1>1 DEF Numbered
<1>4. /\ EmptyEntry \in Entry /\ top \in Entry /\ top.kind = "root" /\ EmptyEntry.child = Nil /\ top.child = Nil
      /\ EmptyEntry.kind = "unallocated"
  BY DEF EmptyEntry, Entry
<1> HIDE DEF top, D
<1>5. DOMAIN ents = D /\ ents[0] = top /\ \A e \in D : e # 0 => ents[e] = EmptyEntry
  BY <1>3
<1>6. ents \in [D -> Entry]
  BY <1>4
<1> HIDE DEF ents
<1>7. c.dirs = ents /\ c.saved = ents /\ c.free = D \ {0} /\ c \in Colls(D)
  BY <1>2, <1>5, <1>6 DEF Colls
<1>8. own \in [D -> D \cup {Nil}] /\ DOMAIN own = D /\ \A e \in D : own[e] = Nil
  OBVIOUS
<1> HIDE DEF own
<1>9. \A e \in D : ents[e].child = Nil /\ Owned(own, e) = {}
  BY <1>3, <1>4, <1>5, <1>8 DEF Owned
<1>10. RootUsed(c, own) /\ FreeEmpty(c, own) /\ LinksOwned(c.dirs, own)
  BY <1>3, <1>4, <1>5, <1>7, <1>8, <1>9 DEF RootUsed, FreeEmpty, LinksOwned
<1>11. SavedAs(c, own) /\ NamesDiffer(c.dirs, own)
  BY <1>3, <1>4, <1>5, <1>7, <1>8 DEF SavedAs, NamesDiffer
<1>12. Collected(c, own, D)
  <2>1. EachHangs(c.dirs, own)
    BY <1>7, <1>8, <1>9, NoneHang DEF EachHangs
  <2>2. StoragesHave(c, own)
    BY <1>7, <1>8, <1>9 DEF StoragesHave
  <2> QED
    BY <1>3, <1>7, <1>8, <1>10, <1>11, <2>1, <2>2 DEF Collected
<1>13. Held(c, 0, D)
  BY <1>3, <1>4, <1>5, <1>7 DEF Held, Used
<1>14. Nodes(NewTree) = {}
  BY NewTreeSound, Fields
<1>15. Cached(NewTree, D, FALSE)
  BY <1>14, NewTreeSound DEF Cached
<1>16. Fits(c, own, 0, NewTree)
  BY <1>3, <1>9, <1>14 DEF Fits
<1>17. Reckoned(own, D, c.free, {})
  <2>1. InUse(D, c.free, {}) = {}
    BY <1>7 DEF InUse
  <2> QED
    BY <2>1 DEF Reckoned
<1>18. StreamsOnly(c, own)
  BY <1>8 DEF StreamsOnly
<1> QED
  BY <1>12, <1>13, <1>14, <1>15, <1>16, <1>17, <1>18 DEF Built, c

(* AddStream of a name that is not there.                                    *)
LEMMA BuiltMore ==
  ASSUME NEW names \in Seq(Names \ Refused), \A i, k \in DOMAIN names : names[i] = names[k] => i = k,
         NEW j \in Nat, j < Len(names), NEW b, Built(b, names, j)
  PROVE Built(AddToDocument(b, names[j + 1]), names, j + 1)
<1> DEFINE name == names[j + 1]
           c0 == b.written
           t0 == b.tree
           c == Roomy(c0)
           id == Popped(c)
           node == NewNode(Stored[name], id)
           t == Insert(t0, node)
           c2 == Inserted(NewEntry(c, name, "stream"), 0, t, node)
<1>1. PICK own, D :
        /\ Collected(c0, own, D) /\ Held(c0, 0, D) /\ Cached(t0, D, FALSE) /\ Fits(c0, own, 0, t0)
        /\ Reckoned(own, D, c0.free, {}) /\ StreamsOnly(c0, own)
        /\ \A n \in Nodes(t0) : \E i \in 1 .. j : Key(n) = Stored[names[i]]
  BY DEF Built
<1>2. /\ name \in Names \ Refused /\ DOMAIN names = 1 .. Len(names) /\ j + 1 \in DOMAIN names
      /\ \A i \in 1 .. j : i \in DOMAIN names /\ names[i] \in Names \ Refused
  BY LenProperties, ElementOfSeq
<1>3. NameFree(t0, name)
  <2>1. ASSUME NEW n \in Nodes(t0), Key(n) = Stored[name] PROVE IllFormed(Stored[name])
    <3>1. PICK i \in 1 .. j : Key(n) = Stored[names[i]]
      BY <1>1, <2>1
    <3>2. names[i] # name
      BY <1>2
    <3> HIDE DEF name
    <3>3. names[i] \in Names \ Refused /\ name \in Names \ Refused
      BY <1>2
    <3> QED
      BY <2>1, <3>1, <3>2, <3>3 DEF IllFormed
  <2> QED
    BY <2>1 DEF NameFree
<1> HIDE DEF name
<1>4. Holds(c0, own, D, <<>>, {}, {}, FALSE)
  <2>1. Handled(<<>>, {}, D, FALSE)
    BY DEF Handled
  <2>2. Apart(<<>>, {}, {})
    BY DEF Apart
  <2> QED
    BY <1>1, <2>1, <2>2 DEF Holds
<1>5. \E D2, own2 : Holds(c, own2, D2, <<>>, {}, {}, FALSE) /\ Enlarged(c, own2, D2, c0, own, D) /\ c.free # {}
  BY <1>4, RoomyHolds
<1>6. PICK D2, own2 : Holds(c, own2, D2, <<>>, {}, {}, FALSE) /\ Enlarged(c, own2, D2, c0, own, D) /\ c.free # {}
  BY <1>5
<1> HIDE DEF c
<1>7. /\ Collected(c, own2, D2) /\ D \subseteq D2 /\ own \in [D -> D \cup {Nil}] /\ own2 \in [D2 -> D2 \cup {Nil}]
      /\ Nil \notin D /\ 0 \in D
  <2>1. Collected(c, own2, D2) /\ D \subseteq D2
    BY <1>6 DEF Holds, Enlarged
  <2>2. Numbered(D) /\ own \in [D -> D \cup {Nil}] /\ own2 \in [D2 -> D2 \cup {Nil}]
    BY <1>1, <2>1 DEF Collected
  <2>3. D \subseteq Nat /\ 0 \in D
    BY <2>2, NumberedCount
  <2> QED
    BY <2>1, <2>2, <2>3, StorageAssumption DEF StorageAssumption
<1>8. Spared(c, own2, D2, c0, own, D, 0)
  BY <1>6, <1>7, EnlargedSpares
<1>9. Held(c, 0, D2) /\ Fits(c, own2, 0, t0)
  BY <1>1, <1>8, FitsUntouched DEF Spared
<1>10. Cached(t0, D2, FALSE) /\ t0 \in Trees(Nodes(t0))
  BY <1>1, <1>7 DEF Cached, NodesOf
<1> DEFINE own3 == Reowned(own2, 0, EntriesOf(Nodes(t0) \cup {node}))
<1>11. \/ t = NilPointer /\ FALSE
       \/ Grew(t, t0, node) /\ DoneWith(c2, own3, c, own2, 0, id, Stored[name], "stream", t, D2, FALSE)
  <2>1. c.free # {} /\ "stream" \in {"storage", "stream"}
    BY <1>6
  <2> QED
    BY <1>2, <1>3, <1>7, <1>9, <1>10, <2>1, InsertedDone
<1> HIDE DEF own3
<1>12. /\ Grew(t, t0, node) /\ Done(c2, own3, c, own2, 0, t, D2, FALSE)
       /\ own3 = [own2 EXCEPT ![id] = 0] /\ c2.free = c.free \ {id}
       /\ c2.dirs[id].kind = "stream" /\ c2.dirs[id].name = Stored[name] /\ LabelsKept(c2, c, D2 \ {id})
  BY <1>11 DEF DoneWith
<1>13. /\ Collected(c2, own3, D2) /\ Held(c2, 0, D2) /\ Fits(c2, own3, 0, Clean(t)) /\ Cached(Clean(t), D2, FALSE)
  BY <1>12 DEF Done
<1>14. Nodes(Clean(t)) = Nodes(t0) \cup {node}
  <2> DEFINE ds == t.dirty \ {Iteration(t)[i] : i \in DOMAIN Iteration(t)}
  <2>1. t \in Trees(Nodes(t0) \cup {node})
    BY <1>12 DEF Grew
  <2>2. Clean(t) = [t EXCEPT !.dirty = ds]
    BY DEF Clean
  <2> HIDE DEF ds, t, c2
  <2>3. Clean(t).parent = t.parent /\ DOMAIN t.parent = Nodes(t0) \cup {node}
    BY <2>1, <2>2 DEF Trees
  <2> QED
    BY <2>3 DEF Nodes
<1>15. Key(node) = Stored[names[j + 1]]
  BY DEF Key, NewNode, name
<1>16. AddToDocument(b, names[j + 1]) = [written |-> c2, tree |-> Clean(t)]
  BY DEF AddToDocument, c, name
<1> HIDE DEF c2, t, node
<1>17. \A n \in Nodes(Clean(t)) : \E i \in 1 .. (j + 1) : Key(n) = Stored[names[i]]
  <2>1. ASSUME NEW n \in Nodes(t0) PROVE \E i \in 1 .. (j + 1) : Key(n) = Stored[names[i]]
    <3>1. PICK i \in 1 .. j : Key(n) = Stored[names[i]]
      BY <1>1
    <3>2. i \in 1 .. (j + 1)
      OBVIOUS
    <3> QED
      BY <3>1, <3>2
  <2>2. j + 1 \in 1 .. (j + 1)
    OBVIOUS
  <2> QED
    BY <1>14, <1>15, <2>1, <2>2
<1> HIDE DEF id
<1>19. Reckoned(own3, D2, c2.free, {})
  <2>1. OwnersOf(own, D) /\ OwnersOf(own2, D2)
    BY <1>1, <1>7, FreeOwnNone
  <2>2. /\ \A f \in D : own2[f] = own[f]
        /\ \A f \in D2 : f \notin D => own2[f] = Nil
        /\ c.free = c0.free \cup (D2 \ D)
    BY <1>6 DEF Enlarged
  <2>3. Reckoned(own2, D2, c0.free \cup (D2 \ D), {})
    BY <1>1, <1>7, <2>1, <2>2, ReckonedMore
  <2>4. Reckoned(own2, D2, c.free, {})
    BY <2>2, <2>3
  <2>5. id \in c.free /\ id \in D2
    <3>1. D2 \subseteq Nat /\ c \in Colls(D2)
      BY <1>7, NumberedCount DEF Collected
    <3> QED
      BY <1>6, <3>1, PoppedFree DEF id
  <2>6. id # 0 /\ own2[id] = Nil /\ Owned(own2, id) = {} /\ 0 \in D2 /\ 0 \notin c.free /\ 0 \notin {}
    BY <1>7, <2>5, FreeOwnNone
  <2>7. Reckoned([own2 EXCEPT ![id] = 0], D2, c.free \ {id}, {})
    BY <2>1, <2>4, <2>5, <2>6, ReckonedAdd
  <2> QED
    BY <1>12, <2>7
<1>20. StreamsOnly(c2, own3)
  <2>1. SUFFICES ASSUME NEW f \in D2, own3[f] # Nil
                 PROVE c2.dirs[f].kind = "stream" /\ c2.dirs[f].name \in {Stored[n] : n \in Names \ Refused}
    <3>1. DOMAIN own3 = D2
      BY <1>13 DEF Collected
    <3> QED
      BY <3>1 DEF StreamsOnly
  <2>2. CASE f = id
    BY <1>2, <1>12, <2>2
  <2>3. CASE f # id
    <3>1. own3[f] = own2[f]
      BY <1>7, <1>12, <2>3
    <3>2. f \in D /\ own[f] = own2[f] /\ c.dirs[f] = c0.dirs[f]
      BY <1>6, <2>1, <3>1 DEF Enlarged
    <3>3. c0.dirs[f].kind = "stream" /\ c0.dirs[f].name \in {Stored[n] : n \in Names \ Refused}
      BY <1>1, <1>7, <2>1, <3>1, <3>2 DEF StreamsOnly
    <3>4. c2.dirs[f].kind = c.dirs[f].kind /\ c2.dirs[f].name = c.dirs[f].name
      BY <1>12, <2>3 DEF LabelsKept
    <3> QED
      BY <3>2, <3>3, <3>4
  <2> QED
    BY <2>2, <2>3
<1>18. Built([written |-> c2, tree |-> Clean(t)], names, j + 1)
  BY <1>13, <1>17, <1>19, <1>20 DEF Built
<1> QED
  BY <1>16, <1>18

BuildSteps(g, names, n) ==
  g = [i \in 0 .. n |-> IF i = 0 THEN [written |-> NewDocument, tree |-> NewTree]
                        ELSE AddToDocument(g[i - 1], names[i])]

(* There are such documents, after any number of names.                      *)
LEMMA BuildStepsExist ==
  ASSUME NEW names
  PROVE \A n \in Nat : \E g : BuildSteps(g, names, n)
<1> DEFINE first == [written |-> NewDocument, tree |-> NewTree]
           S == {n \in Nat : \E g : BuildSteps(g, names, n)}
<1>1. 0 \in S
  <2>1. BuildSteps([i \in 0 .. 0 |-> first], names, 0)
    BY DEF BuildSteps
  <2> QED
    BY <2>1
<1>2. ASSUME NEW n \in Nat, n \in S PROVE n + 1 \in S
  <2>1. PICK f : BuildSteps(f, names, n)
    BY <1>2
  <2> DEFINE g == [i \in 0 .. (n + 1) |-> IF i = 0 THEN first ELSE AddToDocument(f[i - 1], names[i])]
  <2> HIDE DEF first
  <2>2. \A i \in 0 .. n : g[i] = f[i]
    <3>1. SUFFICES ASSUME NEW i \in 0 .. n PROVE g[i] = f[i]
      OBVIOUS
    <3>2. i \in 0 .. (n + 1)
      OBVIOUS
    <3>3. f[i] = IF i = 0 THEN first ELSE AddToDocument(f[i - 1], names[i])
      BY <2>1 DEF BuildSteps, first
    <3> QED
      BY <3>2, <3>3
  <2>3. \A i \in 0 .. (n + 1) : i # 0 => i - 1 \in 0 .. n
    OBVIOUS
  <2>4. \A i \in 0 .. (n + 1) : i # 0 => f[i - 1] = g[i - 1]
    <3> HIDE DEF g
    <3> QED
      BY <2>2, <2>3
  <2>5. g = [i \in 0 .. (n + 1) |-> IF i = 0 THEN first ELSE AddToDocument(g[i - 1], names[i])]
    BY <2>4
  <2> HIDE DEF g
  <2>6. BuildSteps(g, names, n + 1)
    BY <2>5 DEF BuildSteps, first
  <2> QED
    BY <2>6
<1> HIDE DEF S
<1>3. \A n \in Nat : n \in S
  BY <1>1, <1>2, Induct
<1> QED
  BY <1>3 DEF S

(* A document is a collection, whose root is in use.                         *)
LEMMA DocumentBuilt ==
  ASSUME NEW names \in Seq(Names \ Refused), \A i, k \in DOMAIN names : names[i] = names[k] => i = k
  PROVE \E own, D : /\ Collected(DocumentOf(names), own, D) /\ Held(DocumentOf(names), 0, D)
                    /\ Reckoned(own, D, DocumentOf(names).free, {}) /\ StreamsOnly(DocumentOf(names), own)
<1> DEFINE F(f) == BuildSteps(f, names, Len(names))
           b == CHOOSE f : F(f)
           S == {i \in Nat : i <= Len(names) => Built(b[i], names, i)}
<1>1. DocumentOf(names) = b[Len(names)].written
  BY DEF DocumentOf, BuildSteps
<1>2. Len(names) \in Nat
  OBVIOUS
<1>3. \E f : F(f)
  BY <1>2, BuildStepsExist
<1>4. F(b)
  <2> HIDE DEF F
  <2> QED
    BY <1>3
<1>5. b = [i \in 0 .. Len(names) |-> IF i = 0 THEN [written |-> NewDocument, tree |-> NewTree]
                                     ELSE AddToDocument(b[i - 1], names[i])]
  BY <1>4 DEF BuildSteps
<1> HIDE DEF b
<1>6. 0 \in S
  <2>1. b[0] = [written |-> NewDocument, tree |-> NewTree]
    BY <1>2, <1>5
  <2> QED
    BY <2>1, NewBuilt
<1>7. ASSUME NEW i \in Nat, i \in S PROVE i + 1 \in S
  <2>1. SUFFICES ASSUME i + 1 <= Len(names) PROVE Built(b[i + 1], names, i + 1)
    OBVIOUS
  <2>2. i < Len(names) /\ i <= Len(names) /\ i + 1 \in 0 .. Len(names) /\ i + 1 # 0 /\ (i + 1) - 1 = i
    BY <1>2, <2>1
  <2>3. Built(b[i], names, i)
    BY <1>7, <2>2
  <2>4. b[i + 1] = AddToDocument(b[i], names[i + 1])
    BY <1>5, <2>2
  <2> QED
    BY <2>2, <2>3, <2>4, BuiltMore
<1> HIDE DEF S
<1>8. Len(names) \in S
  BY <1>2, <1>6, <1>7, Induct
<1>9. Built(b[Len(names)], names, Len(names))
  BY <1>2, <1>8 DEF S
<1> QED
  BY <1>1, <1>9 DEF Built

(* The invariant holds of the documents opened.                              *)
LEMMA InitInv ==
  ASSUME Init
  PROVE IInv
<1>1. PICK d \in Documents : /\ dirs = DocumentOf(d).saved /\ free = DocumentOf(d).free /\ saved = DocumentOf(d).saved
  BY DEF Init
<1>2. d \in Seq(Names \ Refused) /\ \A i, j \in DOMAIN d : d[i] = d[j] => i = j
  BY StorageAssumption DEF StorageAssumption
<1> DEFINE c == DocumentOf(d)
<1>3. PICK own, D : Collected(c, own, D) /\ Held(c, 0, D) /\ Reckoned(own, D, c.free, {})
  BY <1>2, DocumentBuilt
<1> HIDE DEF c
<1>4. /\ c.free \in SUBSET D /\ c.saved \in [D -> Entry] /\ Numbered(D) /\ 0 \notin c.free
      /\ \A x \in c.free : own[x] = Nil /\ c.saved[x] = EmptyEntry
  BY <1>3 DEF Collected, Colls, FreeEmpty, RootUsed
<1>5. Collected(Reread(c, c.free), own, D)
  BY <1>3, <1>4, RereadCollected
<1>6. Collection = Reread(c, c.free)
  BY <1>1 DEF Collection, Reread, c
<1>7. Ids = D
  BY <1>1, <1>4 DEF c, Ids
<1>8. handle = Opened /\ gone = {} /\ opened = Cardinality(Ids) /\ panicked = FALSE /\ lost = FALSE /\ leaked = {}
  BY DEF Init, Opened
<1>9. Collected(Collection, own, Ids)
  BY <1>5, <1>6, <1>7
<1>10. Holds(Collection, own, Ids, Opened, Handles, {}, lost)
  BY <1>9, OpenedHolds
<1>11. IHolds
  <2>1. Collection.free = c.free
    BY <1>6 DEF Reread
  <2>2. Reckoned(own, Ids, Collection.free, {})
    BY <1>3, <1>7, <2>1
  <2>3. Unleaked(Opened, Handles, {}, {})
    BY DEF Unleaked
  <2>4. Keeps(Collection, own, Ids, Opened, Handles, {}, lost, {})
    BY <1>10, <2>2, <2>3 DEF Keeps
  <2> QED
    BY <1>8, <2>4 DEF IHolds, Owners
<1>12. ITypes
  <2>1. Cardinality(D) \in Nat
    BY <1>4, NumberedCount
  <2> QED
    BY <1>7, <1>8, <2>1 DEF ITypes
<1> QED
  BY <1>11, <1>12 DEF IInv

-----------------------------------------------------------------------------
(***************************************************************************)
(* The theorems.                                                           *)
(***************************************************************************)

\* What PanicExplained says of a step.
Explained == panicked' => lost' \/ (call'.op = "Delete" /\ OneBelow(call'.storage, call'.name))

\* What is shown of a step.
Steps == IInv' /\ Explained /\ Moves(saved, saved', call')

(* A call on a handle keeps the invariant, changes what it says, and when it *)
(* panics there is a reason.                                                 *)
LEMMA CallStep ==
  ASSUME IInv, NEW h \in Handles, Call(h)
  PROVE Steps
<1>1. PICK name \in NamesFor(h) :
        \/ AddStream(h, name)
        \/ DeleteEntry(h, name)
        \/ \E g \in Handles \ {Root} : AddStorage(h, name, g) \/ GetStorage(h, name, g)
  BY DEF Call
<1>2. name \in Names
  BY StorageAssumption DEF StorageAssumption, NamesFor
<1>3. CASE AddStream(h, name)
  <2>1. Add(h, name, "stream", h) /\ "stream" \in {"storage", "stream"} /\ "stream" # "storage"
    BY <1>3 DEF AddStream
  <2>2. IInv' /\ (panicked' => lost') /\ Moves(saved, saved', call')
    BY <1>2, <2>1, AddStep
  <2> QED
    BY <2>2 DEF Steps, Explained
<1>4. CASE DeleteEntry(h, name)
  <2>1. IInv' /\ (panicked' => lost' \/ OneBelow(handle[h].entry, name)) /\ Moves(saved, saved', call')
    BY <1>2, <1>4, DeleteEntryStep
  <2>2. call'.op = "Delete" /\ call'.storage = handle[h].entry /\ call'.name = name
    BY <1>4 DEF DeleteEntry, Made
  <2> QED
    BY <2>1, <2>2 DEF Steps, Explained
<1>5. ASSUME NEW g \in Handles, AddStorage(h, name, g) PROVE Steps
  <2>1. Add(h, name, "storage", g) /\ "storage" \in {"storage", "stream"} /\ name \in StorageNames
    BY <1>5 DEF AddStorage
  <2>2. IInv' /\ (panicked' => lost') /\ Moves(saved, saved', call')
    BY <1>2, <2>1, AddStep
  <2> QED
    BY <2>2 DEF Steps, Explained
<1>6. ASSUME NEW g \in Handles, GetStorage(h, name, g) PROVE Steps
  <2>1. panicked' = panicked /\ ~panicked /\ saved' = saved /\ ~call'.done
    BY <1>6 DEF GetStorage, Callable, Made
  <2>2. Moves(saved, saved', call')
    BY <2>1, MovesNot
  <2> QED
    BY <1>2, <1>6, <2>1, <2>2, GetStorageStep DEF Steps, Explained
<1> QED
  BY <1>1, <1>3, <1>4, <1>5, <1>6

(* Every step does.                                                          *)
LEMMA NextStep ==
  ASSUME IInv, Next
  PROVE Steps
<1>1. CASE Reopen
  <2>1. saved' = saved /\ ~call'.done
    BY <1>1 DEF Reopen, Opening
  <2>2. Moves(saved, saved', call')
    BY <2>1, MovesNot
  <2> QED
    BY <1>1, <2>2, ReopenStep DEF Steps, Explained
<1>2. ASSUME NEW h \in Handles, GetStream(h) PROVE Steps
  <2>1. panicked' = panicked /\ ~panicked /\ saved' = saved /\ ~call'.done
    BY <1>2 DEF GetStream, Callable, Made
  <2>2. Moves(saved, saved', call')
    BY <2>1, MovesNot
  <2> QED
    BY <1>2, <2>1, <2>2, GetStreamStep DEF Steps, Explained
<1>3. ASSUME NEW h \in Handles, Call(h) PROVE Steps
  BY <1>3, CallStep
<1> QED
  BY <1>1, <1>2, <1>3 DEF Next

(* The invariant holds in every state.                                       *)
THEOREM StorageInvariant ==
  Spec => []IInv
<1>1. Init => IInv
  BY InitInv
<1>2. IInv /\ [Next]_vars => IInv'
  <2>1. ASSUME IInv, UNCHANGED vars PROVE IInv'
    BY <2>1 DEF vars, IInv, IHolds, Owners, ITypes, Ids, Collection
  <2>2. ASSUME IInv, Next PROVE IInv'
    BY <2>2, NextStep DEF Steps
  <2> QED
    BY <2>1, <2>2
<1> QED
  BY <1>1, <1>2, PTL DEF Spec

(* What it says of the collection.                                           *)
LEMMA OwnersFacts ==
  ASSUME NEW own, Owners(own)
  PROVE /\ Collected(Collection, own, Ids) /\ Numbered(Ids) /\ own \in [Ids -> Ids \cup {Nil}] /\ Nil \notin Ids
        /\ dirs \in [Ids -> Entry] /\ saved \in [Ids -> Entry] /\ free \subseteq Ids
        /\ \A f \in Ids : own[f] # Nil => saved[f] = dirs[f]
        /\ \A e \in Ids : /\ saved[e].child \in Owned(own, e) \cup {Nil}
                          /\ \A f \in Owned(own, e), d \in Sides : saved[f][d] \in Owned(own, e) \cup {Nil}
<1>1. Collected(Collection, own, Ids)
  BY DEF Owners, Keeps, Holds
<1>2. /\ Numbered(Ids) /\ Collection \in Colls(Ids) /\ own \in [Ids -> Ids \cup {Nil}]
      /\ LinksOwned(Collection.dirs, own) /\ SavedAs(Collection, own)
  BY <1>1 DEF Collected
<1>3. Collection.dirs = dirs /\ Collection.saved = saved /\ Collection.free = free
  BY DEF Collection
<1>4. Nil \notin Ids /\ DOMAIN own = Ids
  BY <1>2, NumberedCount, StorageAssumption DEF StorageAssumption
<1>5. dirs \in [Ids -> Entry] /\ saved \in [Ids -> Entry] /\ free \subseteq Ids
  BY <1>2, <1>3 DEF Colls
<1>6. \A f \in Ids : saved[f] = dirs[f] \/ (own[f] = Nil /\ saved[f] = EmptyEntry)
  BY <1>2, <1>3, <1>4 DEF SavedAs
<1>7. ASSUME NEW e \in Ids
      PROVE /\ saved[e].child \in Owned(own, e) \cup {Nil}
            /\ \A f \in Owned(own, e), d \in Sides : saved[f][d] \in Owned(own, e) \cup {Nil}
  <2>1. dirs[e].child \in Owned(own, e) \cup {Nil}
    BY <1>2, <1>3, <1>4 DEF LinksOwned
  <2>2. saved[e].child \in Owned(own, e) \cup {Nil}
    BY <1>6, <2>1 DEF EmptyEntry
  <2>3. ASSUME NEW f \in Owned(own, e), NEW d \in Sides PROVE saved[f][d] \in Owned(own, e) \cup {Nil}
    <3>1. f \in Ids /\ own[f] = e /\ own[f] # Nil
      BY <1>4 DEF Owned
    <3>2. saved[f] = dirs[f]
      BY <1>6, <3>1
    <3> QED
      BY <1>2, <1>3, <1>4, <3>1, <3>2 DEF LinksOwned
  <2> QED
    BY <2>2, <2>3
<1>8. \A f \in Ids : own[f] # Nil => saved[f] = dirs[f]
  BY <1>6
<1> QED
  BY <1>1, <1>2, <1>4, <1>5, <1>7, <1>8

(* What it says of a cached tree.                                            *)
LEMMA CachedFacts ==
  ASSUME NEW own, Owners(own), NEW h \in Handles, Loaded(h)
  PROVE LET t == handle[h].tree IN
        /\ Nodes(t) \subseteq Nat \X Ids /\ t \in Trees(Nodes(t)) /\ Sound(t) /\ Nil \notin Nodes(t)
        /\ lost \/ EvenBlack(t)
<1> DEFINE t == handle[h].tree
<1>1. Cached(t, Ids, lost)
  BY DEF Owners, Keeps, Holds, Handled, Loaded
<1>2. Nil \notin Nat \X Ids
  <2>1. Ids \subseteq Nat
    BY OwnersFacts, NumberedCount
  <2> QED
    BY <2>1, StorageAssumption DEF StorageAssumption
<1> HIDE DEF t
<1>3. Nodes(t) \subseteq Nat \X Ids /\ t \in Trees(Nodes(t)) /\ Sound(t)
  BY <1>1 DEF Cached, NodesOf
<1>4. lost \/ EvenBlack(t)
  BY <1>1, Zenon DEF Cached
<1>5. Nil \notin Nodes(t)
  BY <1>2, <1>3
<1> QED
  BY <1>3, <1>4, <1>5 DEF t

(* A call is made on an entry, under one of the names.                       *)
LEMMA MadeTyped ==
  ASSUME IInv, NEW h \in Callable, NEW op \in {"AddStream", "AddStorage", "Delete", "GetStream", "GetStorage"},
         NEW name \in Nat, NEW done \in BOOLEAN
  PROVE Made(op, h, name, done) \in Calls
<1>1. PICK own : Owners(own)
  BY DEF IInv, IHolds
<1>2. handle[h].entry \in Nat
  <2>1. h \in Handles /\ handle[h].entry # Nil
    BY DEF Callable
  <2>2. handle[h].entry \in Ids \cup {Nil}
    BY <1>1, <2>1 DEF Owners, Keeps, Holds, Handled
  <2>3. Ids \subseteq Nat
    BY <1>1, OwnersFacts, NumberedCount
  <2> QED
    BY <2>1, <2>2, <2>3
<1> QED
  BY <1>2, Zenon DEF Made, Calls

(* The last call has its type.                                               *)
LEMMA CallTyped ==
  ASSUME IInv, IInv', Next
  PROVE call' \in Calls
<1>1. Opening \in Calls
  BY DEF Opening, Calls
<1>2. panicked' \in BOOLEAN
  BY DEF IInv, ITypes
<1>3. 0 \in Nat /\ Names \subseteq Nat /\ StorageNames \subseteq Names /\ InnerNames \subseteq Names
  BY StorageAssumption DEF StorageAssumption
<1>4. ASSUME NEW h \in Handles, NEW name \in Names, NEW kind \in {"stream", "storage"}, NEW g \in Handles, Add(h, name, kind, g)
      PROVE call' \in Calls
  <2>1. h \in Callable /\ Adding[kind] \in {"AddStream", "AddStorage", "Delete", "GetStream", "GetStorage"}
    BY <1>4 DEF Add, Adding
  <2>2. \E done \in BOOLEAN : call' = Made(Adding[kind], h, name, done)
    BY <1>4, Zenon DEF Add, Asked
  <2> QED
    BY <1>3, <2>1, <2>2, MadeTyped
<1>5. ASSUME NEW h \in Handles, NEW name \in Names, DeleteEntry(h, name) PROVE call' \in Calls
  <2>1. h \in Callable /\ \E done \in BOOLEAN : call' = Made("Delete", h, name, done)
    BY <1>5, Zenon DEF DeleteEntry
  <2> QED
    BY <1>3, <2>1, MadeTyped
<1>6. ASSUME NEW h \in Handles, NEW name \in Names, NEW g \in Handles, GetStorage(h, name, g) PROVE call' \in Calls
  BY <1>3, <1>6, MadeTyped DEF GetStorage
<1>7. ASSUME NEW h \in Handles, GetStream(h) PROVE call' \in Calls
  BY <1>3, <1>7, MadeTyped DEF GetStream
<1>8. ASSUME NEW h \in Handles, Call(h) PROVE call' \in Calls
  BY <1>3, <1>4, <1>5, <1>6, <1>8 DEF Call, NamesFor, AddStream, AddStorage
<1>9. CASE Reopen
  BY <1>1, <1>9 DEF Reopen
<1> QED
  BY <1>7, <1>8, <1>9 DEF Next

(* Type correctness: StorageTypeOK.                                          *)
THEOREM StorageTyped ==
  Spec => []StorageTypeOK
<1>2. Init => call \in Calls
  BY DEF Init, Opening, Calls
<1>3. IInv /\ IInv' /\ call \in Calls /\ [Next]_vars => (call \in Calls)'
  BY CallTyped DEF vars
<1>1. ASSUME IInv, call \in Calls PROVE StorageTypeOK
  <2>1. PICK own : Owners(own)
    BY <1>1 DEF IInv, IHolds
  <2>2. dirs \in [0 .. (Cardinality(Ids) - 1) -> Entry] /\ saved \in [Ids -> Entry] /\ free \subseteq Ids
    <3>1. Ids = 0 .. (Cardinality(Ids) - 1)
      BY <2>1, OwnersFacts, NumberedCount
    <3>2. dirs \in [Ids -> Entry] /\ saved \in [Ids -> Entry] /\ free \subseteq Ids
      BY <2>1, OwnersFacts
    <3> QED
      BY <3>1, <3>2
  <2>3. ASSUME NEW h \in Handles
        PROVE /\ handle[h].entry \in Ids \cup {Nil}
              /\ Loaded(h) => /\ Nodes(handle[h].tree) \subseteq Nat \X Ids
                              /\ handle[h].tree \in Trees(Nodes(handle[h].tree))
    <3>1. handle[h].entry \in Ids \cup {Nil}
      BY <2>1 DEF Owners, Keeps, Holds, Handled
    <3>2. Loaded(h) => /\ Nodes(handle[h].tree) \subseteq Nat \X Ids
                       /\ handle[h].tree \in Trees(Nodes(handle[h].tree))
      BY <2>1, CachedFacts
    <3> QED
      BY <3>1, <3>2
  <2>4. /\ leaked \subseteq Ids /\ opened \in Nat /\ panicked \in BOOLEAN /\ lost \in BOOLEAN /\ gone \subseteq Handles
    BY <1>1, Zenon DEF IInv, ITypes
  <2> QED
    BY <1>1, <2>2, <2>3, <2>4, Zenon DEF StorageTypeOK
<1> QED
  BY <1>1, <1>2, <1>3, StorageInvariant, PTL DEF Spec

(* A cached tree's parents are the inverse of its links, and the loop over   *)
(* it meets each node once, in order: TreesSound.                            *)
THEOREM TreesAreSound ==
  Spec => []TreesSound
<1>1. ASSUME IInv PROVE TreesSound
  <2>1. PICK own : Owners(own)
    BY <1>1 DEF IInv, IHolds
  <2>2. ASSUME NEW h \in Open PROVE LinksAgree(handle[h].tree) /\ InOrder(handle[h].tree)
    <3> DEFINE t == handle[h].tree
    <3>1. /\ t \in Trees(Nodes(t)) /\ Sound(t) /\ Nil \notin Nodes(t)
      BY <2>1, <2>2, CachedFacts DEF Open
    <3> HIDE DEF t
    <3>2. LinksAgree(t) /\ InOrder(t)
      BY <3>1, SoundLinks, SoundOrder
    <3> QED
      BY <3>2 DEF t
  <2> QED
    BY <2>2 DEF TreesSound
<1> QED
  BY <1>1, StorageInvariant, PTL

(* A cached tree is a red-black tree, until a deletion has gone on from a    *)
(* wrong parent: Balanced.                                                   *)
THEOREM TreesAreBalanced ==
  Spec => []Balanced
<1>1. ASSUME IInv PROVE Balanced
  <2>1. PICK own : Owners(own)
    BY <1>1 DEF IInv, IHolds
  <2>2. ASSUME ~lost, NEW h \in Open PROVE RedBlack(handle[h].tree)
    <3> DEFINE t == handle[h].tree
    <3>1. /\ t \in Trees(Nodes(t)) /\ Sound(t) /\ Nil \notin Nodes(t) /\ (lost \/ EvenBlack(t))
      BY <2>1, <2>2, CachedFacts DEF Open
    <3> HIDE DEF t
    <3>2. RedBlack(t)
      BY <2>2, <3>1, SoundColours
    <3> QED
      BY <3>2 DEF t
  <2> QED
    BY <2>2 DEF Balanced
<1> QED
  BY <1>1, StorageInvariant, PTL

(* A node not marked modified is in its sector as in the tree: CleanIsSaved. *)
THEOREM CleanNodesSaved ==
  Spec => []CleanIsSaved
<1>1. ASSUME IInv PROVE CleanIsSaved
  <2>1. PICK own : Owners(own)
    BY <1>1 DEF IInv, IHolds
  <2>2. ASSUME NEW h \in Open \ gone, NEW n \in Nodes(handle[h].tree) \ handle[h].tree.dirty
        PROVE LET t == handle[h].tree
                  e == saved[Value(n)]
              IN /\ e = dirs[Value(n)]
                 /\ e.name = Key(n) /\ e.red = IsRed(t, n)
                 /\ e.left = ValueOf(t.left[n]) /\ e.right = ValueOf(t.right[n])
    <3> DEFINE t == handle[h].tree
               a == handle[h].entry
    <3>1. Fits(Collection, own, a, t) /\ a # Nil
      BY <2>1, <2>2 DEF Owners, Keeps, Holds, Current, Open, Loaded
    <3>2. n \in Nodes(t) /\ n \notin t.dirty
      BY <2>2
    <3> HIDE DEF t, a
    <3>3. Value(n) \in Owned(own, a) /\ Key(n) = dirs[Value(n)].name /\ Agrees(Collection, t, n)
      BY <3>1, <3>2 DEF Fits, Collection
    <3>4. saved[Value(n)] = dirs[Value(n)]
      <4>1. own \in [Ids -> Ids \cup {Nil}] /\ \A f \in Ids : own[f] # Nil => saved[f] = dirs[f]
        BY <2>1, OwnersFacts
      <4> QED
        BY <3>1, <3>3, <4>1 DEF Owned
    <3>5. dirs[Value(n)].red = IsRed(t, n) /\ \A d \in Sides : dirs[Value(n)][d] = ValueOf(t[d][n])
      BY <3>3 DEF Agrees, Collection
    <3>6. dirs[Value(n)].left = ValueOf(t.left[n]) /\ dirs[Value(n)].right = ValueOf(t.right[n])
      BY <3>5 DEF Sides
    <3> QED
      BY <3>3, <3>4, <3>5, <3>6 DEF t
  <2> QED
    BY <2>2 DEF CleanIsSaved
<1> QED
  BY <1>1, StorageInvariant, PTL

(* The collection as the sectors have it is one with the same owners, and    *)
(* what is below a storage is its own.                                       *)
LEMMA SavedCollected ==
  ASSUME NEW own, Owners(own)
  PROVE /\ Collected(Reread(Collection, free), own, Ids)
        /\ \A e \in Ids : Below(saved, e) = Owned(own, e)
<1>1. Collected(Collection, own, Ids) /\ free \subseteq Ids
  BY OwnersFacts
<1>2. Collection.free = free /\ Collection.saved = saved
  BY DEF Collection
<1>3. 0 \notin free /\ \A x \in free : own[x] = Nil /\ Collection.saved[x] = EmptyEntry
  BY <1>1, <1>2 DEF Collected, RootUsed, FreeEmpty
<1>4. Collected(Reread(Collection, free), own, Ids)
  BY <1>1, <1>3, RereadCollected
<1>5. Reread(Collection, free).dirs = saved
  BY <1>2 DEF Reread
<1> DEFINE c2 == Reread(Collection, free)
<1> HIDE DEF c2
<1>6. Collected(c2, own, Ids) /\ c2.dirs = saved
  BY <1>4, <1>5 DEF c2
<1>7. \A e \in Ids : Below(c2.dirs, e) = Owned(own, e)
  BY <1>6, BelowIsOwned
<1> QED
  BY <1>4, <1>6, <1>7

(* The entries of a cached tree are those below the storage, as the sectors  *)
(* have them: HandlesCurrent.                                                *)
THEOREM HandlesAreCurrent ==
  Spec => []HandlesCurrent
<1>1. ASSUME IInv PROVE HandlesCurrent
  <2>1. PICK own : Owners(own)
    BY <1>1 DEF IInv, IHolds
  <2>2. ASSUME NEW h \in Open \ gone
        PROVE {Value(n) : n \in Nodes(handle[h].tree)} = Below(saved, handle[h].entry)
    <3> DEFINE t == handle[h].tree
               a == handle[h].entry
               V == Owned(own, a)
    <3>1. Fits(Collection, own, a, t) /\ a # Nil /\ Held(Collection, a, Ids)
      BY <2>1, <2>2 DEF Owners, Keeps, Holds, Current, Open, Loaded
    <3> HIDE DEF t, a
    <3>2. a \in Ids
      BY <3>1 DEF Held, Used
    <3>3. /\ \A n \in Nodes(t) : Value(n) \in V
          /\ \A f \in V : \E n \in Nodes(t) : Value(n) = f
      BY <3>1 DEF Fits
    <3>4. Below(saved, a) = V
      BY <2>1, <3>2, SavedCollected
    <3>5. {Value(n) : n \in Nodes(t)} = V
      BY <3>3
    <3> QED
      BY <3>4, <3>5 DEF t, a
  <2> QED
    BY <2>2 DEF HandlesCurrent
<1> QED
  BY <1>1, StorageInvariant, PTL

(* The count of entries that are the root's, in use, free or leaked.         *)
LEMMA PartsCounted ==
  ASSUME NEW D, IsFiniteSet(D), 0 \in D, NEW fr \in SUBSET D, NEW lk \in SUBSET D, fr \cap lk = {}, 0 \notin fr \cup lk
  PROVE Cardinality(D) = 1 + Cardinality(InUse(D, fr, lk)) + Cardinality(fr) + Cardinality(lk)
<1> DEFINE C == InUse(D, fr, lk)
           E == C \cup {0}
           F == E \cup fr
<1>1. C \subseteq D /\ 0 \notin C /\ C \cap fr = {} /\ C \cap lk = {} /\ D = ((C \cup {0}) \cup fr) \cup lk
  BY DEF InUse
<1> HIDE DEF C
<1>2. IsFiniteSet(C) /\ IsFiniteSet(fr) /\ IsFiniteSet(lk)
  BY <1>1, FS_Subset
<1>3. Cardinality(C) \in Nat /\ Cardinality(fr) \in Nat /\ Cardinality(lk) \in Nat
  BY <1>2, FS_CardinalityType
<1>4. IsFiniteSet(E) /\ Cardinality(E) = Cardinality(C) + 1
  BY <1>1, <1>2, FS_AddElement
<1>5. E \cap fr = {}
  BY <1>1
<1> HIDE DEF E
<1>6. IsFiniteSet(F) /\ Cardinality(F) = Cardinality(E) + Cardinality(fr) - Cardinality(E \cap fr)
  BY <1>2, <1>4, FS_Union
<1>7. F \cap lk = {} /\ D = F \cup lk
  BY <1>1 DEF E
<1> HIDE DEF F
<1>8. Cardinality(F \cup lk) = Cardinality(F) + Cardinality(lk) - Cardinality(F \cap lk)
  BY <1>2, <1>6, FS_Union
<1>9. Cardinality({}) = 0
  BY FS_EmptySet
<1>10. Cardinality(F) = Cardinality(C) + 1 + Cardinality(fr)
  <2>1. Cardinality(E \cap fr) = 0
    BY <1>5, <1>9
  <2>2. Cardinality(E) \in Nat
    BY <1>3, <1>4
  <2>3. Cardinality(F) = Cardinality(E) + Cardinality(fr)
    BY <1>3, <1>6, <2>1, <2>2
  <2> QED
    BY <1>4, <2>3
<1>11. Cardinality(D) = Cardinality(F) + Cardinality(lk)
  <2>1. Cardinality(F \cup lk) = Cardinality(D)
    BY <1>7
  <2>2. Cardinality(F \cap lk) = 0
    BY <1>7, <1>9
  <2>3. Cardinality(F) \in Nat
    BY <1>3, <1>10
  <2> QED
    BY <1>3, <1>8, <2>1, <2>2, <2>3
<1>12. Cardinality(D) = 1 + Cardinality(C) + Cardinality(fr) + Cardinality(lk)
  <2>1. Cardinality(C) + 1 + Cardinality(fr) = 1 + Cardinality(C) + Cardinality(fr)
    BY <1>3
  <2> QED
    BY <1>10, <1>11, <2>1
<1> QED
  BY <1>12 DEF C

(* Every entry is the root's, free, leaked, or reached from the root's       *)
(* sector, in trees that share no entry, and it is one of these only:        *)
(* EntriesAccounted.                                                         *)
THEOREM EntriesAreAccounted ==
  Spec => []EntriesAccounted
<1>1. ASSUME IInv PROVE EntriesAccounted
  <2>1. PICK own : Owners(own)
    BY <1>1 DEF IInv, IHolds
  <2> DEFINE c == Reread(Collection, free)
             C == InUse(Ids, free, leaked)
  <2>2. /\ Collected(c, own, Ids) /\ \A e \in Ids : Below(saved, e) = Owned(own, e)
    BY <2>1, SavedCollected
  <2>3. c.dirs = saved /\ c.free = free
    BY DEF Reread, Collection
  <2>4. Reckoned(own, Ids, free, leaked)
    BY <2>1 DEF Owners, Keeps, Collection
  <2> HIDE DEF c
  <2>5. Reckoned(own, Ids, c.free, leaked)
    BY <2>3, <2>4
  <2>6. Live = C
    <3>1. Descendants(c.dirs, 0) = InUse(Ids, c.free, leaked)
      BY <2>2, <2>5, RootHasInUse
    <3> QED
      BY <2>3, <3>1 DEF Live
  <2>7. 0 \in Ids /\ IsFiniteSet(Ids) /\ free \in SUBSET Ids /\ 0 \notin free
    <3>1. Numbered(Ids)
      BY <2>2 DEF Collected
    <3> QED
      BY <2>2, <2>3, <3>1, FreeOwnNone, NumberedCount
  <2>8. leaked \in SUBSET Ids /\ free \cap leaked = {} /\ 0 \notin free \cup leaked
    BY <2>4, <2>7 DEF Reckoned
  <2>9. LiveStorages \subseteq Ids
    BY <2>6, <2>7 DEF LiveStorages, InUse
  <2>10. ASSUME NEW s \in LiveStorages PROVE LinksTree(saved, s)
    BY <2>2, <2>3, <2>9, HangsTree
  <2>11. ASSUME NEW s \in LiveStorages, NEW t \in LiveStorages, s # t PROVE Below(saved, s) \cap Below(saved, t) = {}
    BY <2>2, <2>9, <2>11 DEF Owned
  <2>12. Ids = {0} \cup Live \cup free \cup leaked
    BY <2>6, <2>7, <2>8 DEF InUse
  <2>13. Cardinality(Ids) = 1 + Cardinality(Live) + Cardinality(free) + Cardinality(leaked)
    BY <2>6, <2>7, <2>8, PartsCounted
  <2>14. \A e \in free : dirs[e] = EmptyEntry /\ saved[e] = EmptyEntry
    <3>1. Collected(Collection, own, Ids)
      BY <2>1, OwnersFacts
    <3> QED
      BY <3>1 DEF Collected, FreeEmpty, Collection
  <2> QED
    BY <2>10, <2>11, <2>12, <2>13, <2>14 DEF EntriesAccounted
<1> QED
  BY <1>1, StorageInvariant, PTL

(* Entries of one storage have different names, but for those an ill-formed  *)
(* name is stored as: UniqueNames.                                           *)
THEOREM NamesAreUnique ==
  Spec => []UniqueNames
<1>1. ASSUME IInv PROVE UniqueNames
  <2>1. PICK own : Owners(own)
    BY <1>1 DEF IInv, IHolds
  <2>2. /\ Collected(Collection, own, Ids) /\ Numbered(Ids) /\ own \in [Ids -> Ids \cup {Nil}] /\ Nil \notin Ids
        /\ saved \in [Ids -> Entry] /\ \A f \in Ids : own[f] # Nil => saved[f] = dirs[f]
    BY <2>1, OwnersFacts
  <2>3. LiveStorages \subseteq Ids
    <3>1. LeastBelow(Live, saved, 0, {"left", "right", "child"}, Ids)
      BY <2>2, ReachedLeast DEF Live, Descendants
    <3>2. 0 \in Ids
      BY <2>2, NumberedCount
    <3> QED
      BY <3>1, <3>2 DEF LiveStorages, LeastBelow
  <2>4. ASSUME NEW s \in LiveStorages, NEW e \in Below(saved, s), NEW f \in Below(saved, s), e # f, saved[e].name = saved[f].name
        PROVE \E n \in Names \ Refused : Stored[n] = saved[e].name /\ n # Stored[n]
    <3>1. e \in Owned(own, s) /\ f \in Owned(own, s)
      BY <2>1, <2>3, <2>4, SavedCollected
    <3>2. e \in Ids /\ f \in Ids /\ own[e] = s /\ own[f] = s /\ s # Nil
      BY <2>2, <2>3, <3>1 DEF Owned
    <3>3. saved[e] = dirs[e] /\ saved[f] = dirs[f]
      BY <2>2, <3>2
    <3>4. NamesDiffer(dirs, own) /\ DOMAIN own = Ids
      BY <2>2 DEF Collected, Collection
    <3>5. IllFormed(dirs[e].name)
      BY <2>4, <3>2, <3>3, <3>4 DEF NamesDiffer
    <3> QED
      BY <3>3, <3>5 DEF IllFormed
  <2> QED
    BY <2>4 DEF UniqueNames
<1> QED
  BY <1>1, StorageInvariant, PTL

(* A reader of a document that is opened sees names in the root's storage.   *)
LEMMA OpenedSeen ==
  ASSUME Init
  PROVE SavedNamed(saved) /\ SavedKids(saved) \in [{0} -> SUBSET {Stored[n] : n \in Names \ Refused}]
<1>1. PICK d \in Documents : saved = DocumentOf(d).saved
  BY DEF Init
<1>2. d \in Seq(Names \ Refused) /\ \A i, j \in DOMAIN d : d[i] = d[j] => i = j
  BY StorageAssumption DEF StorageAssumption
<1> DEFINE c == DocumentOf(d)
<1>3. PICK own, D : Collected(c, own, D) /\ Reckoned(own, D, c.free, {}) /\ StreamsOnly(c, own)
  BY <1>2, DocumentBuilt
<1> DEFINE C == InUse(D, c.free, {})
<1> HIDE DEF c
<1>4. Seen(saved, c.dirs, own, C)
  <2>1. Seen(c.saved, c.dirs, own, C)
    <3> DEFINE lk == {}
    <3>1. Reckoned(own, D, c.free, lk)
      BY <1>3
    <3> HIDE DEF lk
    <3>2. Seen(c.saved, c.dirs, own, InUse(D, c.free, lk))
      BY <1>3, <3>1, ReaderSees
    <3> QED
      BY <3>2 DEF lk
  <2> QED
    BY <1>1, <2>1 DEF c
<1>5. DOMAIN own = D /\ Nil \notin D /\ 0 \in D /\ C \subseteq D
  BY <1>3, FreeOwnNone DEF OwnersOf, InUse
<1>6. \A x \in C : own[x] # Nil
  BY <1>3 DEF Reckoned
<1> HIDE DEF C
<1>7. \A x \in C : c.dirs[x].kind # "storage"
  BY <1>3, <1>5, <1>6 DEF StreamsOnly
<1>8. Storages(c.dirs, C) = {0} /\ Named(c.dirs, C)
  BY <1>7 DEF Storages, Named
<1>9. {c.dirs[f].name : f \in Owned(own, 0)} \subseteq {Stored[n] : n \in Names \ Refused}
  BY <1>3, <1>5 DEF Owned, StreamsOnly
<1>10. Kids(c.dirs, own, C) \in [{0} -> SUBSET {Stored[n] : n \in Names \ Refused}]
  BY <1>8, <1>9 DEF Kids
<1> QED
  BY <1>4, <1>8, <1>10 DEF Seen

(* Read from the sectors, the storages are those of Folder, provided that    *)
(* the names given to storages are neither ill-formed nor what ill-formed    *)
(* ones are stored as: FolderImplemented.                                    *)
THEOREM FolderIsImplemented ==
  ASSUME NamesApart
  PROVE Spec => FolderImplemented
<1> DEFINE K == [s \in LiveStorages |-> NamesBelow(s)]
<1>1. K = SavedKids(saved)
  BY DEF SavedKids, SavedStorages, LiveStorages, Live, NamesBelow
<1>2. Init => Promise!Init /\ SavedNamed(saved)
  <2>1. ASSUME Init PROVE Promise!Init /\ SavedNamed(saved)
    <3>1. K \in [{0} -> SUBSET {Stored[n] : n \in Names \ Refused}]
      BY <1>1, <2>1, OpenedSeen
    <3>2. ~call.done
      BY <2>1 DEF Init, Opening
    <3> QED
      BY <2>1, <3>1, <3>2, OpenedSeen DEF Promise!Init
  <2> QED
    BY <2>1
<1>3. IInv /\ SavedNamed(saved) /\ [Next]_vars
      => SavedNamed(saved)' /\ [Promise!Next]_(<<[s \in LiveStorages |-> NamesBelow(s)], call>>)
  <2>1. SUFFICES ASSUME IInv, SavedNamed(saved), [Next]_vars
         PROVE SavedNamed(saved)' /\ [Promise!Next]_(<<[s \in LiveStorages |-> NamesBelow(s)], call>>)
    OBVIOUS
  <2>2. K' = SavedKids(saved')
    BY DEF SavedKids, SavedStorages, LiveStorages, Live, NamesBelow
  <2>3. CASE Next
    <3>1. Moves(saved, saved', call')
      BY <2>1, <2>3, NextStep DEF Steps
    <3>2. SavedNamed(saved') /\ Promise!Answer(call', SavedKids(saved), SavedKids(saved'))
      BY <2>1, <3>1 DEF Moves
    <3>3. Promise!Next
      BY <1>1, <2>2, <3>2 DEF Promise!Next
    <3> QED
      BY <3>2, <3>3
  <2>4. CASE UNCHANGED vars
    <3>1. saved' = saved /\ call' = call
      BY <2>4 DEF vars
    <3>2. K' = K
      BY <1>1, <2>2, <3>1
    <3> QED
      BY <2>1, <3>1, <3>2
  <2> QED
    BY <2>1, <2>3, <2>4
<1> QED
  BY <1>2, <1>3, StorageInvariant, PTL DEF Spec, FolderImplemented, Promise!Spec

(* A call that panics is a Delete of the one entry of its storage, unless a  *)
(* deletion has gone on from a wrong parent: PanicExplained.                 *)
THEOREM PanicsAreExplained ==
  Spec => PanicExplained
<1>1. IInv /\ [Next]_vars
      => [panicked' => \/ lost'
                       \/ /\ call'.op = "Delete"
                          /\ Cardinality(Below(dirs, call'.storage)) = 1
                          /\ \A e \in Below(dirs, call'.storage) : dirs[e].name = call'.name]_vars
  BY NextStep DEF Steps, Explained, OneBelow
<1> QED
  BY <1>1, StorageInvariant, PTL DEF Spec, PanicExplained
=============================================================================
