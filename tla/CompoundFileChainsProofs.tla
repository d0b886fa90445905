---------------------- MODULE CompoundFileChainsProofs ----------------------
(***************************************************************************)
(* Proof that, until a call returns an error, the FAT chains of the        *)
(* streams of a CarefulSpec caller never meet and never go through a       *)
(* sector in another use (directory.go:447-587, mcdf.go:415-651).          *)
(*                                                                         *)
(* The links alone do not say so: the last sector of a stream cut short    *)
(* keeps its link to the tail that has been freed (directory.go:528-533),  *)
(* and that tail may be another stream's by now.  The inductive invariant  *)
(* IChains says who owns what: each stream, and the part of a chain that   *)
(* FreeFAT has not freed yet, owns a sequence of sectors; no sector is     *)
(* owned twice; the links follow each sequence up to its end; and what is  *)
(* read or written is only what is owned.  Where a sequence ends, a link   *)
(* may dangle - but only to a sector that can never be given out again,    *)
(* because a free sector beyond the file has no data and a call that is    *)
(* given one ends in an error.  Such a call is Doomed, and the invariant   *)
(* says nothing of it.  This is where CarefulNext is needed: Save, Commit  *)
(* and SectorBytes may give a free sector its data back, and a longer file *)
(* lets it be read (BigStreamsKept is violated then).                      *)
(***************************************************************************)
EXTENDS CompoundFileSavedProofs

-----------------------------------------------------------------------------
(***************************************************************************)
(* Owners of sectors: the streams, by their directory entry, and Rest, the *)
(* part of a chain that FreeFAT has been given and not freed yet.          *)
(***************************************************************************)
Rest == -1
Owners == Nat \cup {Rest}
Ownings == [Owners -> Seq(Nat)]

\* No sector is owned twice.
Apart(own) ==
  \A d, e \in Owners : \A i \in 1..Len(own[d]), j \in 1..Len(own[e]) :
    own[d][i] = own[e][j] => d = e /\ i = j

\* Owned sectors are in S.
Within(own, S) == \A d \in Owners : \A i \in 1..Len(own[d]) : own[d][i] \in S

\* Each owned sector's link is the next one its owner has.
Linked(own, nx) ==
  \A d \in Owners : \A i \in 1..(Len(own[d]) - 1) : nx[own[d][i]] = own[d][i + 1]

\* A link that ends a chain: none, one to a sector in F, or the stale one to
\* what FreeFAT is about to free.
Stops(own, e, F) == e < 0 \/ e \in F \/ (own[Rest] # <<>> /\ e = own[Rest][1])
Ended(own, nx, F) ==
  \A d \in Owners : own[d] # <<>> => Stops(own, nx[own[d][Len(own[d])]], F)

Chains(own, nx, S, F) == Apart(own) /\ Within(own, S) /\ Linked(own, nx) /\ Ended(own, nx, F)

(* What is owned is of the right shape. *)
LEMMA OwnedSeq ==
  ASSUME NEW own \in Ownings, NEW d \in Owners
  PROVE own[d] \in Seq(Nat) /\ Len(own[d]) \in Nat /\ (own[d] # <<>> <=> Len(own[d]) > 0)
        /\ \A i \in 1..Len(own[d]) : own[d][i] \in Nat
<1>1. own[d] \in Seq(Nat)
  BY DEF Ownings
<1> HIDE DEF Ownings
<1> QED
  BY <1>1

(* The links of owned sectors are what they were. *)
LEMMA ChainsKept ==
  ASSUME NEW own \in Ownings, NEW nx, NEW ny, NEW S, NEW T, NEW F, NEW G, Chains(own, nx, S, F),
         S \subseteq T, F \subseteq G, \A x \in S : ny[x] = nx[x]
  PROVE Chains(own, ny, T, G)
<1>1. Within(own, T)
  BY DEF Chains, Within
<1>2. \A d \in Owners : \A i \in 1..Len(own[d]) : ny[own[d][i]] = nx[own[d][i]]
  BY DEF Chains, Within
<1>3. Linked(own, ny)
  <2>1. \A d \in Owners : \A i \in 1..(Len(own[d]) - 1) : i \in 1..Len(own[d])
    BY OwnedSeq
  <2> QED
    BY <1>2, <2>1 DEF Chains, Linked
<1>4. Ended(own, ny, G)
  <2>1. \A d \in Owners : own[d] # <<>> => Len(own[d]) \in 1..Len(own[d])
    BY OwnedSeq
  <2> QED
    BY <1>2, <2>1 DEF Chains, Ended, Stops
<1> QED
  BY <1>1, <1>3, <1>4 DEF Chains

(* A sequence without its first element. *)
LEMMA TailOf ==
  ASSUME NEW c \in Seq(Nat), Len(c) >= 1
  PROVE /\ Tail(c) \in Seq(Nat) /\ Len(Tail(c)) = Len(c) - 1 /\ (Tail(c) # <<>> <=> Len(c) > 1)
        /\ \A i \in 1..Len(Tail(c)) : Tail(c)[i] = c[i + 1]
<1>1. c # <<>> /\ Len(c) \in Nat
  OBVIOUS
<1>2. Tail(c) \in Seq(Nat) /\ Len(Tail(c)) = Len(c) - 1
  BY <1>1
<1>3. \A u \in Seq(Nat) : u # <<>> <=> Len(u) > 0
  OBVIOUS
<1>4. Tail(c) # <<>> <=> Len(Tail(c)) > 0
  BY <1>2, <1>3
<1>5. \A i \in 1..Len(Tail(c)) : Tail(c)[i] = c[i + 1]
  BY <1>1
<1> QED
  BY <1>1, <1>2, <1>4, <1>5

\* new is own without the first sector of the rest, whose link is e.
FreedBy(own, new, e, G) ==
  /\ \A d \in Nat : new[d] = own[d]
  /\ IF new[Rest] = <<>> THEN Stops(new, e, G) ELSE e = new[Rest][1]

(* FreeFAT frees the first sector of the rest.  Its link stays what it was    *)
(* for those that follow it.                                                 *)
LEMMA ChainsFreed ==
  ASSUME NEW own \in Ownings, NEW nx, NEW ny, NEW S, NEW F, NEW G, Chains(own, nx, S, F),
         own[Rest] # <<>>, own[Rest][1] \in G, F \subseteq G,
         \A x \in S : x # own[Rest][1] => ny[x] = nx[x]
  PROVE \E new \in Ownings :
          Chains(new, ny, S \ {own[Rest][1]}, G) /\ FreedBy(own, new, nx[own[Rest][1]], G)
<1> DEFINE c == own[Rest]
           x == c[1]
           t == Tail(c)
           new == [d \in Owners |-> IF d = Rest THEN t ELSE own[d]]
<1>1. c \in Seq(Nat) /\ Len(c) \in Nat /\ Len(c) >= 1 /\ Rest \in Owners /\ \A d \in Nat : d \in Owners /\ d # Rest
  BY OwnedSeq DEF Owners, Rest
<1>2. t \in Seq(Nat) /\ Len(t) = Len(c) - 1 /\ (t # <<>> <=> Len(c) > 1) /\ \A i \in 1..Len(t) : t[i] = c[i + 1]
  BY <1>1, TailOf
<1> HIDE DEF t, c
<1>3. new \in Ownings
  BY <1>2 DEF Ownings, c
<1>4. new[Rest] = t /\ \A d \in Owners : d # Rest => new[d] = own[d]
  BY <1>1
<1>5. \A i \in 1..Len(t) : i + 1 \in 1..Len(c) /\ i + 1 # 1
  BY <1>1, <1>2
<1> HIDE DEF new
<1>6. 1 \in 1..Len(c)
  BY <1>1
<1>7. \A d \in Owners, i \in Nat : i \in 1..Len(new[d]) =>
         \E j \in 1..Len(own[d]) : new[d][i] = own[d][j] /\ (d = Rest => j = i + 1) /\ (d # Rest => j = i)
  BY <1>2, <1>4, <1>5 DEF c
<1>8. Apart(new)
  <2>1. SUFFICES ASSUME NEW d \in Owners, NEW e \in Owners, NEW i \in 1..Len(new[d]), NEW j \in 1..Len(new[e]),
                        new[d][i] = new[e][j]
                 PROVE d = e /\ i = j
    BY DEF Apart
  <2>2. i \in Nat /\ j \in Nat
    BY OwnedSeq, <1>3
  <2>3. PICK k \in 1..Len(own[d]) : new[d][i] = own[d][k] /\ (d = Rest => k = i + 1) /\ (d # Rest => k = i)
    BY <1>7, <2>2
  <2>4. PICK l \in 1..Len(own[e]) : new[e][j] = own[e][l] /\ (e = Rest => l = j + 1) /\ (e # Rest => l = j)
    BY <1>7, <2>2
  <2>5. own[d][k] = own[e][l]
    BY <2>1, <2>3, <2>4
  <2>6. d = e /\ k = l
    BY <2>5 DEF Chains, Apart
  <2> QED
    BY <2>2, <2>3, <2>4, <2>6
<1>9. \A d \in Owners : \A i \in 1..Len(new[d]) : new[d][i] \in S /\ new[d][i] # x
  <2>1. SUFFICES ASSUME NEW d \in Owners, NEW i \in 1..Len(new[d])
                 PROVE new[d][i] \in S /\ new[d][i] # x
    OBVIOUS
  <2>2. i \in Nat /\ i >= 1
    BY OwnedSeq, <1>3
  <2>3. PICK k \in 1..Len(own[d]) : new[d][i] = own[d][k] /\ (d = Rest => k = i + 1) /\ (d # Rest => k = i)
    BY <1>7, <2>2
  <2>4. own[d][k] = own[Rest][1] => d = Rest /\ k = 1
    BY <1>1, <1>6 DEF Chains, Apart, c
  <2>5. own[d][k] # own[Rest][1]
    BY <2>2, <2>3, <2>4
  <2> QED
    BY <2>3, <2>5 DEF Chains, Within, c
<1>10. Within(new, S \ {x})
  BY <1>9 DEF Within
<1>11. \A d \in Owners : \A i \in 1..Len(new[d]) : ny[new[d][i]] = nx[new[d][i]]
  BY <1>9 DEF c
<1>12. Linked(new, ny)
  <2>1. SUFFICES ASSUME NEW d \in Owners, NEW i \in 1..(Len(new[d]) - 1)
                 PROVE nx[new[d][i]] = new[d][i + 1]
    <3>1. \A d \in Owners : \A i \in 1..(Len(new[d]) - 1) : i \in 1..Len(new[d])
      BY OwnedSeq, <1>3
    <3> QED
      BY <1>11, <2>1, <3>1 DEF Linked
  <2>2. CASE d = Rest
    <3>0. i \in 1..(Len(t) - 1) /\ Len(t) = Len(c) - 1
      BY <1>2, <1>4, <2>2
    <3>1. i \in 1..Len(t) /\ i + 1 \in 1..Len(t) /\ i + 1 \in 1..(Len(c) - 1)
      BY <1>1, <3>0
    <3>2. nx[c[i + 1]] = c[i + 1 + 1]
      BY <1>1, <3>1 DEF Chains, Linked, c
    <3> QED
      BY <1>2, <1>4, <2>2, <3>1, <3>2
  <2>3. CASE d # Rest
    BY <1>4, <2>1, <2>3 DEF Chains, Linked
  <2> QED
    BY <2>2, <2>3
<1>13. \A e : Stops(own, e, F) => e < 0 \/ e \in G
  BY DEF Stops, c
<1>14. \A d \in Owners : own[d] # <<>> => nx[own[d][Len(own[d])]] < 0 \/ nx[own[d][Len(own[d])]] \in G
  BY <1>13 DEF Chains, Ended
<1>15. Ended(new, ny, G)
  <2>1. SUFFICES ASSUME NEW d \in Owners, new[d] # <<>>
                 PROVE nx[new[d][Len(new[d])]] < 0 \/ nx[new[d][Len(new[d])]] \in G
    <3>1. \A d \in Owners : new[d] # <<>> => Len(new[d]) \in 1..Len(new[d])
      BY OwnedSeq, <1>3
    <3> QED
      BY <1>11, <2>1, <3>1 DEF Ended, Stops
  <2>2. CASE d = Rest
    <3>1. t # <<>> /\ Len(t) \in 1..Len(t) /\ Len(t) + 1 = Len(c)
      BY <1>1, <1>2, <1>4, <2>1, <2>2
    <3>2. new[d][Len(new[d])] = c[Len(c)]
      BY <1>2, <1>4, <2>2, <3>1
    <3>3. own[d] # <<>>
      BY <2>2
    <3> QED
      BY <1>14, <2>2, <3>2, <3>3 DEF c
  <2>3. CASE d # Rest
    BY <1>4, <1>14, <2>1, <2>3
  <2> QED
    BY <2>2, <2>3
<1>16. IF new[Rest] = <<>> THEN Stops(new, nx[x], G) ELSE nx[x] = new[Rest][1]
  <2>1. CASE new[Rest] = <<>>
    <3>1. Len(c) = 1 /\ c # <<>>
      BY <1>1, <1>2, <1>4, <2>1 DEF c
    <3>2. nx[x] < 0 \/ nx[x] \in G
      BY <1>1, <1>14, <3>1 DEF c
    <3> QED
      BY <2>1, <3>2 DEF Stops
  <2>2. CASE new[Rest] # <<>>
    <3>1. 1 \in 1..(Len(c) - 1) /\ 1 \in 1..Len(t)
      BY <1>1, <1>2, <1>4, <2>2
    <3>2. nx[c[1]] = c[1 + 1]
      BY <1>1, <3>1 DEF Chains, Linked, c
    <3> QED
      BY <1>2, <1>4, <2>2, <3>1, <3>2
  <2> QED
    BY <2>1, <2>2
<1>17. Chains(new, ny, S \ {x}, G)
  BY <1>8, <1>10, <1>12, <1>15 DEF Chains
<1>18. \A d \in Nat : new[d] = own[d]
  BY <1>1, <1>4
<1> QED
  BY <1>3, <1>16, <1>17, <1>18 DEF c, FreedBy

(* A sequence with one more element. *)
LEMMA AppendOf ==
  ASSUME NEW c \in Seq(Nat), NEW x \in Nat
  PROVE /\ Append(c, x) \in Seq(Nat) /\ Len(Append(c, x)) = Len(c) + 1 /\ Append(c, x) # <<>>
        /\ Append(c, x)[Len(c) + 1] = x /\ \A i \in 1..Len(c) : Append(c, x)[i] = c[i]
<1>1. Append(c, x) \in Seq(Nat) /\ Len(Append(c, x)) = Len(c) + 1 /\ Len(c) \in Nat
  OBVIOUS
<1>2. \A u \in Seq(Nat) : Len(u) > 0 => u # <<>>
  OBVIOUS
<1>3. Append(c, x) # <<>>
  BY <1>1, <1>2
<1> QED
  BY <1>1, <1>3

\* new is own with x at the end of what a owns; ny links it there.
GrownBy(own, new, a, x) ==
  /\ \A d \in Owners : d # a => new[d] = own[d]
  /\ new[a] # <<>> /\ Len(new[a]) = Len(own[a]) + 1 /\ new[a][Len(own[a]) + 1] = x
  /\ \A i \in 1..Len(own[a]) : new[a][i] = own[a][i]
LinkedOn(own, a, nx, ny, S, x) ==
  /\ ny[x] < 0
  /\ \A y \in S : own[a] = <<>> \/ y # own[a][Len(own[a])] => ny[y] = nx[y]
  /\ own[a] # <<>> => ny[own[a][Len(own[a])]] = x

(* One more sector x is linked at the end of what a owns. *)
LEMMA ChainsGrown ==
  ASSUME NEW own \in Ownings, NEW a \in Nat, NEW nx, NEW ny, NEW S, NEW T, NEW F, Chains(own, nx, S, F),
         own[Rest] = <<>>, NEW x \in Nat, x \in T, x \notin S, S \subseteq T, LinkedOn(own, a, nx, ny, S, x)
  PROVE \E new \in Ownings : Chains(new, ny, T, F) /\ GrownBy(own, new, a, x)
<1>0. /\ ny[x] < 0
      /\ \A y \in S : own[a] = <<>> \/ y # own[a][Len(own[a])] => ny[y] = nx[y]
      /\ own[a] # <<>> => ny[own[a][Len(own[a])]] = x
  BY DEF LinkedOn
<1> DEFINE c == own[a]
           n == Len(c)
           t == Append(c, x)
           new == [d \in Owners |-> IF d = a THEN t ELSE own[d]]
<1>1. c \in Seq(Nat) /\ n \in Nat /\ a \in Owners /\ Rest \in Owners /\ a # Rest /\ (c # <<>> <=> n > 0)
  BY OwnedSeq DEF Owners, Rest
<1>2. t \in Seq(Nat) /\ Len(t) = n + 1 /\ t # <<>> /\ t[n + 1] = x /\ \A i \in 1..n : t[i] = c[i]
  BY <1>1, AppendOf
<1> HIDE DEF t
<1>3. new \in Ownings
  BY <1>2 DEF Ownings
<1>4. new[a] = t /\ \A d \in Owners : d # a => new[d] = own[d]
  BY <1>1
<1> HIDE DEF new, n
<1>5. \A d \in Owners, i \in Nat : i \in 1..Len(new[d]) =>
         \/ i \in 1..Len(own[d]) /\ new[d][i] = own[d][i]
         \/ d = a /\ i = n + 1 /\ new[d][i] = x
  <2>1. \A i \in Nat : i \in 1..(n + 1) => i \in 1..n \/ i = n + 1
    BY <1>1
  <2>2. \A i \in Nat : i \in 1..Len(new[a]) => i \in 1..n \/ i = n + 1
    BY <1>2, <1>4, <2>1
  <2>3. n = Len(own[a])
    BY DEF n
  <2> QED
    BY <1>1, <1>2, <1>4, <2>2, <2>3
<1>6. \A d \in Owners : \A i \in 1..Len(own[d]) : own[d][i] \in S /\ own[d][i] # x
  BY DEF Chains, Within
<1>7. \A d \in Owners : \A i \in 1..Len(new[d]) : i \in Nat
  BY OwnedSeq, <1>3
<1>8. Apart(new)
  <2>1. SUFFICES ASSUME NEW d \in Owners, NEW e \in Owners, NEW i \in 1..Len(new[d]), NEW j \in 1..Len(new[e]),
                        new[d][i] = new[e][j]
                 PROVE d = e /\ i = j
    BY DEF Apart
  <2>2. i \in Nat /\ j \in Nat
    BY <1>7
  <2>3. CASE i \in 1..Len(own[d]) /\ new[d][i] = own[d][i]
    <3>0. new[e][j] # x
      BY <1>6, <2>1, <2>3
    <3>1. j \in 1..Len(own[e]) /\ new[e][j] = own[e][j]
      BY <1>5, <2>2, <3>0
    <3>2. own[d][i] = own[e][j]
      BY <2>1, <2>3, <3>1
    <3> QED
      BY <2>3, <3>1, <3>2 DEF Chains, Apart
  <2>4. CASE d = a /\ i = n + 1 /\ new[d][i] = x
    <3>1. e = a /\ j = n + 1
      BY <1>5, <1>6, <2>1, <2>2, <2>4
    <3> QED
      BY <2>4, <3>1
  <2> QED
    BY <1>5, <2>2, <2>3, <2>4
<1>9. Within(new, T)
  BY <1>5, <1>6, <1>7 DEF Within
<1>10. \A d \in Owners : \A i \in 1..Len(own[d]) : ~(d = a /\ i = n) => ny[own[d][i]] = nx[own[d][i]]
  <2>1. SUFFICES ASSUME NEW d \in Owners, NEW i \in 1..Len(own[d]), ~(d = a /\ i = n)
                 PROVE c = <<>> \/ own[d][i] # c[n]
    BY <1>0, <1>6 DEF n
  <2>2. c # <<>> => n \in 1..Len(own[a])
    BY <1>1 DEF n
  <2> QED
    BY <1>1, <2>1, <2>2 DEF Chains, Apart
<1>11. Linked(new, ny)
  <2>1. SUFFICES ASSUME NEW d \in Owners, NEW i \in 1..(Len(new[d]) - 1)
                 PROVE ny[new[d][i]] = new[d][i + 1]
    BY DEF Linked
  <2>2. Len(new[d]) \in Nat /\ Len(own[d]) \in Nat
    BY OwnedSeq, <1>3
  <2>3. CASE d = a /\ i = n
    <3>1. c # <<>> /\ i \in 1..n
      BY <1>1, <2>2, <2>3
    <3> QED
      BY <1>0, <1>2, <1>4, <2>3, <3>1 DEF n
  <2>4. CASE ~(d = a /\ i = n)
    <3>0. d = a => Len(new[d]) = n + 1 /\ n = Len(own[d])
      BY <1>2, <1>4 DEF n
    <3>1. i \in 1..(Len(own[d]) - 1) /\ i \in 1..Len(own[d]) /\ i + 1 \in 1..Len(own[d])
      <4>1. CASE d = a
        <5>1. i \in 1..n /\ i # n
          BY <1>1, <2>1, <2>4, <3>0, <4>1
        <5> QED
          BY <1>1, <3>0, <4>1, <5>1
      <4>2. CASE d # a
        BY <1>4, <2>1, <2>2, <4>2
      <4> QED
        BY <4>1, <4>2
    <3>2. new[d][i] = own[d][i] /\ new[d][i + 1] = own[d][i + 1]
      BY <1>2, <1>4, <3>1 DEF n
    <3>3. nx[own[d][i]] = own[d][i + 1]
      BY <3>1 DEF Chains, Linked
    <3> QED
      BY <1>10, <2>4, <3>1, <3>2, <3>3
  <2> QED
    BY <2>3, <2>4
<1>12. Ended(new, ny, F)
  <2>1. SUFFICES ASSUME NEW d \in Owners, new[d] # <<>>
                 PROVE ny[new[d][Len(new[d])]] < 0 \/ ny[new[d][Len(new[d])]] \in F
    BY DEF Ended, Stops
  <2>2. CASE d = a
    BY <1>0, <1>2, <1>4, <2>2
  <2>3. CASE d # a
    <3>1. own[d] # <<>> /\ new[d] = own[d]
      BY <1>4, <2>1, <2>3
    <3>2. Len(own[d]) \in 1..Len(own[d])
      BY <3>1, OwnedSeq
    <3>3. ny[own[d][Len(own[d])]] = nx[own[d][Len(own[d])]]
      BY <1>10, <2>3, <3>2
    <3>4. Stops(own, nx[own[d][Len(own[d])]], F)
      BY <3>1 DEF Chains, Ended
    <3> QED
      BY <3>1, <3>3, <3>4 DEF Stops
  <2> QED
    BY <2>2, <2>3
<1>13. Chains(new, ny, T, F)
  BY <1>8, <1>9, <1>11, <1>12 DEF Chains
<1>14. GrownBy(own, new, a, x)
  BY <1>2, <1>4 DEF n, GrownBy
<1> QED
  BY <1>3, <1>13, <1>14

\* new is own with a's sectors from the (k + 1)-st on moved to the rest.
CutAt(own, new, a, k) ==
  /\ \A d \in Nat : d # a => new[d] = own[d]
  /\ Len(new[a]) = k /\ \A i \in 1..k : new[a][i] = own[a][i]
  /\ new[Rest] # <<>> /\ new[Rest][1] = own[a][k + 1]

(* What a owns after its first k sectors becomes the rest to be freed. *)
LEMMA ChainsCut ==
  ASSUME NEW own \in Ownings, NEW a \in Nat, NEW nx, NEW S, NEW F, Chains(own, nx, S, F),
         own[Rest] = <<>>, NEW k \in Nat, k < Len(own[a])
  PROVE \E new \in Ownings : Chains(new, nx, S, F) /\ CutAt(own, new, a, k)
<1> DEFINE c == own[a]
           n == Len(c)
           b == [i \in 1..k |-> c[i]]
           t == [i \in 1..(n - k) |-> c[i + k]]
           new == [d \in Owners |-> IF d = a THEN b ELSE IF d = Rest THEN t ELSE own[d]]
<1>1. /\ n \in Nat /\ a \in Owners /\ Rest \in Owners /\ a # Rest
      /\ \A i \in 1..n : c[i] \in Nat
  BY OwnedSeq DEF Owners, Rest
<1> HIDE DEF c, n
<1>2. k < n /\ n - k \in Nat
  BY <1>1 DEF n, c
<1>3. b \in Seq(Nat) /\ Len(b) = k /\ \A i \in 1..k : b[i] = c[i]
  <2>1. \A i \in 1..k : i \in 1..n
    BY <1>1, <1>2
  <2> QED
    BY <1>1, <2>1, IsASeq
<1>4. t \in Seq(Nat) /\ Len(t) = n - k /\ \A i \in 1..(n - k) : t[i] = c[i + k]
  <2>1. \A i \in 1..(n - k) : i + k \in 1..n
    BY <1>1, <1>2
  <2>2. \A i \in 1..(n - k) : c[i + k] \in Nat
    BY <1>1, <2>1
  <2>3. \A i \in 1..(n - k) : t[i] = c[i + k]
    OBVIOUS
  <2>4. t \in Seq(Nat)
    BY <1>2, <2>2, IsASeq
  <2>5. Len(t) = n - k
    <3>1. DOMAIN t = 1..(n - k)
      OBVIOUS
    <3> HIDE DEF t
    <3> QED
      BY <1>2, <2>4, <3>1, LenProperties
  <2> HIDE DEF t
  <2> QED
    BY <2>3, <2>4, <2>5
<1> HIDE DEF b, t
<1>5. new \in Ownings
  BY <1>3, <1>4 DEF Ownings
<1>6. new[a] = b /\ new[Rest] = t /\ \A d \in Owners : d # a /\ d # Rest => new[d] = own[d]
  BY <1>1
<1> HIDE DEF new
<1>7. \A d \in Owners : \A i \in 1..Len(new[d]) : i \in Nat /\ Len(new[d]) \in Nat
  BY OwnedSeq, <1>5
\* where each sector was
<1>8. \A d \in Owners, i \in Nat : i \in 1..Len(new[d]) =>
         \/ d # a /\ d # Rest /\ i \in 1..Len(own[d]) /\ new[d][i] = own[d][i]
         \/ d = a /\ i \in 1..n /\ i <= k /\ new[d][i] = c[i]
         \/ d = Rest /\ i + k \in 1..n /\ i >= 1 /\ new[d][i] = c[i + k]
  <2>1. \A i \in Nat : i \in 1..k => i \in 1..n /\ i <= k
    BY <1>1, <1>2
  <2>2. \A i \in Nat : i \in 1..(n - k) => i + k \in 1..n /\ i >= 1
    BY <1>1, <1>2
  <2> QED
    BY <1>3, <1>4, <1>6, <2>1, <2>2
<1>9. Within(new, S)
  <2>1. \A i \in 1..n : c[i] \in S
    BY <1>1 DEF Chains, Within, c, n
  <2>2. \A d \in Owners : \A i \in 1..Len(own[d]) : own[d][i] \in S
    BY DEF Chains, Within
  <2> QED
    BY <1>7, <1>8, <2>1, <2>2 DEF Within
<1>10. Apart(new)
  <2>1. SUFFICES ASSUME NEW d \in Owners, NEW e \in Owners, NEW i \in 1..Len(new[d]), NEW j \in 1..Len(new[e]),
                        new[d][i] = new[e][j]
                 PROVE d = e /\ i = j
    BY DEF Apart
  <2>2. i \in Nat /\ j \in Nat
    BY <1>7
  <2> DEFINE At(f, l, g, m) == /\ g \in Owners /\ m \in 1..Len(own[g]) /\ new[f][l] = own[g][m]
                               /\ (f # a /\ f # Rest => g = f /\ m = l)
                               /\ (f = a => g = a /\ m = l /\ l <= k)
                               /\ (f = Rest => g = a /\ m = l + k /\ l >= 1)
  <2>3. \A f \in Owners, l \in Nat : l \in 1..Len(new[f]) => \E g \in Owners, m \in Int : At(f, l, g, m)
    <3>1. SUFFICES ASSUME NEW f \in Owners, NEW l \in Nat, l \in 1..Len(new[f])
                   PROVE \E g \in Owners, m \in Int : At(f, l, g, m)
      OBVIOUS
    <3>2. CASE f # a /\ f # Rest /\ l \in 1..Len(own[f]) /\ new[f][l] = own[f][l]
      <4>1. At(f, l, f, l)
        BY <3>2
      <4> QED
        BY <3>2, <4>1
    <3>3. CASE f = a /\ l \in 1..n /\ l <= k /\ new[f][l] = c[l]
      <4>1. At(f, l, a, l)
        BY <1>1, <3>3 DEF c, n
      <4> QED
        BY <1>1, <4>1
    <3>4. CASE f = Rest /\ l + k \in 1..n /\ l >= 1 /\ new[f][l] = c[l + k]
      <4>1. At(f, l, a, l + k)
        BY <1>1, <3>4 DEF c, n
      <4>2. l + k \in Int
        OBVIOUS
      <4> QED
        BY <1>1, <4>1, <4>2
    <3> QED
      BY <1>8, <3>1, <3>2, <3>3, <3>4
  <2>4. PICK g \in Owners, m \in Int : At(d, i, g, m)
    BY <2>2, <2>3
  <2>5. PICK h \in Owners, l \in Int : At(e, j, h, l)
    BY <2>2, <2>3
  <2>6. own[g][m] = own[h][l]
    BY <2>1, <2>4, <2>5
  <2>7. g = h /\ m = l
    BY <2>4, <2>5, <2>6 DEF Chains, Apart
  <2> QED
    BY <1>1, <2>2, <2>4, <2>5, <2>7
<1>11. Linked(new, nx)
  <2>1. SUFFICES ASSUME NEW d \in Owners, NEW i \in 1..(Len(new[d]) - 1)
                 PROVE nx[new[d][i]] = new[d][i + 1]
    BY DEF Linked
  <2>2. \A j \in 1..(n - 1) : nx[c[j]] = c[j + 1]
    BY <1>1 DEF Chains, Linked, c, n
  <2>3. CASE d = a
    <3>1. i \in 1..(k - 1)
      BY <1>3, <1>6, <2>1, <2>3
    <3>2. i \in 1..k /\ i + 1 \in 1..k /\ i \in 1..(n - 1)
      BY <1>1, <1>2, <3>1
    <3> QED
      BY <1>3, <1>6, <2>2, <2>3, <3>2
  <2>4. CASE d = Rest
    <3>1. i \in 1..((n - k) - 1)
      BY <1>4, <1>6, <2>1, <2>4
    <3>2. i \in 1..(n - k) /\ i + 1 \in 1..(n - k) /\ i + k \in 1..(n - 1) /\ (i + k) + 1 = (i + 1) + k
      BY <1>1, <1>2, <3>1
    <3>3. new[d][i] = c[i + k] /\ new[d][i + 1] = c[(i + 1) + k]
      BY <1>4, <1>6, <2>4, <3>2
    <3>4. nx[c[i + k]] = c[(i + k) + 1]
      BY <2>2, <3>2
    <3> QED
      BY <3>2, <3>3, <3>4
  <2>5. CASE d # a /\ d # Rest
    BY <1>6, <2>1, <2>5 DEF Chains, Linked
  <2> QED
    BY <2>3, <2>4, <2>5
<1>12. /\ t # <<>> /\ t[1] = c[k + 1]
       /\ n > k /\ n >= 1 /\ n \in 1..n /\ 1 \in 1..(n - k) /\ n - k \in 1..(n - k) /\ k + 1 \in 1..n
  <2>1. n > k /\ n >= 1 /\ n \in 1..n /\ 1 \in 1..(n - k) /\ n - k \in 1..(n - k) /\ k + 1 \in 1..n
    BY <1>1, <1>2
  <2>2. t # <<>>
    BY <1>4, <2>1
  <2> QED
    BY <1>4, <2>1, <2>2
<1>13. Ended(new, nx, F)
  <2>1. SUFFICES ASSUME NEW d \in Owners, new[d] # <<>>
                 PROVE Stops(new, nx[new[d][Len(new[d])]], F)
    BY DEF Ended
  <2>2. \A e \in Owners : own[e] # <<>> => nx[own[e][Len(own[e])]] < 0 \/ nx[own[e][Len(own[e])]] \in F
    BY DEF Chains, Ended, Stops
  <2>3. CASE d = a
    <3>1. k >= 1 /\ k \in 1..k /\ k \in 1..(n - 1)
      <4>1. Len(new[a]) > 0
        BY <1>5, <1>1, <2>1, <2>3, OwnedSeq
      <4> QED
        BY <1>1, <1>2, <1>3, <1>6, <4>1
    <3>2. nx[c[k]] = c[k + 1]
      BY <1>1, <3>1 DEF Chains, Linked, c, n
    <3> QED
      BY <1>3, <1>6, <1>12, <2>3, <3>1, <3>2 DEF Stops
  <2>4. CASE d = Rest
    <3>1. new[d][Len(new[d])] = c[n]
      <4>1. (n - k) + k = n
        BY <1>1
      <4> QED
        BY <1>4, <1>6, <1>12, <2>4, <4>1
    <3>2. own[a] # <<>>
      BY <1>1, <1>12, OwnedSeq DEF n, c
    <3> QED
      BY <1>1, <2>2, <3>1, <3>2 DEF Stops, c, n
  <2>5. CASE d # a /\ d # Rest
    BY <1>6, <2>1, <2>2, <2>5 DEF Stops
  <2> QED
    BY <2>3, <2>4, <2>5
<1>14. Chains(new, nx, S, F)
  BY <1>9, <1>10, <1>11, <1>13 DEF Chains
<1>15. \A d \in Nat : d # a => new[d] = own[d]
  BY <1>6 DEF Owners, Rest
<1>16. CutAt(own, new, a, k)
  BY <1>3, <1>6, <1>12, <1>15 DEF c, CutAt
<1> QED
  BY <1>5, <1>14, <1>16

-----------------------------------------------------------------------------
(***************************************************************************)
(* What holds of a call whatever is owned.                                 *)
(***************************************************************************)

\* The write in progress has found no mini sector to go on with.
Growing ==
  \/ pc \in {"MiniTable", "Container"}
  \/ pc \in {"Alloc", "AllocNew"} /\ caller \in {"MiniTable", "Container"}
IGrow == Growing => offset < arg.size /\ ~Existing /\ miniFree = {}

\* directory.New is under way, for New or for AddStream.
ForEntry ==
  pc \in {"DirSector", "NewEntry"} \/ (pc \in {"Alloc", "AllocNew"} /\ caller = "DirSector")

\* Entry 0 is the root, and only streams have a size.
IRoot ==
  /\ \A d \in DOMAIN dirs : dirs[d].kind # "stream" => dirs[d].size = 0
  /\ \A d \in dirFree : dirs[d].kind = "unallocated"
  /\ pc # "Idle" /\ ~ForEntry => arg.d \in Streams
  /\ \/ DOMAIN dirs = {} /\ arg.op = "New" /\ ForEntry /\ pc # "NewEntry"
     \/ 0 \in dirFree /\ arg.op = "New" /\ pc = "NewEntry"
     \/ 0 \in DOMAIN dirs /\ 0 \notin dirFree /\ dirs[0].kind = "root"

\* The call has been given a sector whose data it cannot have: it will return
\* an error.
Doomed ==
  \/ pc \in {"BigSector", "MiniTable", "DirSector"} /\ s \notin loaded
  \/ pc = "Container" /\ ~Readable(s)
  \/ /\ pc = "WriteMini" /\ offset < arg.size /\ ~Existing
     /\ miniFree # {} /\ \A m \in miniFree : ~Readable(SectorOf(m))

(* A container is asked for only by a write that has no mini sector left. *)
LEMMA StepGrow ==
  ASSUME TypeOK, IControl, IGrow, [Next]_vars
  PROVE IGrow'
<1>1. ASSUME UNCHANGED <<offset, arg, OldSize, SecID, miniFree>>, Growing' => Growing
      PROVE IGrow'
  BY <1>1 DEF IGrow, Existing
<1>2. ASSUME ~Growing'
      PROVE IGrow'
  BY <1>2 DEF IGrow
<1>3. CASE FreeFAT \/ FreeMiniFAT \/ Freed
  <2>1. pc' \in {"Idle", "FreeFAT", "FreeMiniFAT", "Resize", "Update"}
    BY <1>3 DEF FreeFAT, FreeMiniFAT, Freed, Return, Goto, IControl
  <2> QED
    BY <1>2, <2>1 DEF Growing
<1>4. CASE Resize \/ Update \/ NewEntry \/ FinishBig \/ FinishMini \/ BigSector \/ WriteBigExisting
  <2>1. pc' \in {"Idle", "Update", "WriteBig", "WriteMini", "FreeFAT", "FreeMiniFAT"}
    BY <1>4 DEF Resize, Update, NewEntry, FinishBig, FinishMini, BigSector, WriteBigExisting, Return, Goto
  <2> QED
    BY <1>2, <2>1 DEF Growing
<1>5. CASE WriteMiniExisting \/ WriteMiniNew \/ Container \/ DirSector
  <2>1. pc' \in {"Idle", "WriteMini", "NewEntry"}
    BY <1>5 DEF WriteMiniExisting, WriteMiniNew, WriteMiniAt, Container, DirSector, Return, Goto
  <2> QED
    BY <1>2, <2>1 DEF Growing
<1>6. CASE WriteBigGrow
  BY <1>2, <1>6 DEF WriteBigGrow, Goto, Growing
<1>7. CASE WriteMiniGrow
  BY <1>7 DEF WriteMiniGrow, IGrow, Existing, miniVars, loopVars
<1>8. CASE AllocFree \/ AllocTable \/ AllocNew
  <2>1. /\ pc \in {"Alloc", "AllocNew"} /\ pc' \in {"AllocNew", caller} /\ caller' = caller
        /\ UNCHANGED <<offset, arg, OldSize, SecID, miniFree>>
    BY <1>8 DEF AllocFree, AllocTable, AllocNew, Allocated, Goto, miniVars, loopVars
  <2>2. Growing' => Growing
    BY <2>1 DEF Growing, IControl
  <2> QED
    BY <1>1, <2>1, <2>2
<1>9. CASE MiniTable
  <2>1. pc = "MiniTable" /\ (pc' = "Idle" \/ UNCHANGED <<offset, arg, OldSize, SecID, miniFree>>)
    BY <1>9 DEF MiniTable, Return, Goto, loopVars
  <2> QED
    BY <1>1, <1>2, <2>1 DEF Growing
<1>10. CASE Continue
  BY <1>3, <1>4, <1>5, <1>6, <1>7, <1>8, <1>9, <1>10 DEF Continue
<1>11. CASE AddStream
  <2>1. pc' = "NewEntry" \/ (caller' = "DirSector" /\ pc' = "Alloc")
    BY <1>11, Zenon DEF AddStream
  <2> QED
    BY <1>2, <2>1 DEF Growing
<1>12. ASSUME NEW d \in Streams, GetData(d)
       PROVE IGrow'
  BY <1>2, <1>12 DEF GetData, Answer, CanCall, Growing
<1>13. ASSUME NEW d \in Streams, NEW n, NEW b, Write(d, n, b), pc = "Idle"
       PROVE IGrow'
  <2>1. pc' \in {"Idle", "FreeFAT", "FreeMiniFAT", "Resize"}
    BY <1>13 DEF Write
  <2> QED
    BY <1>2, <2>1 DEF Growing
<1>14. ASSUME NEW d \in Streams, NEW v \in Values, NEW n \in Sizes, SetData(d, v, n)
       PROVE IGrow'
  BY <1>13, <1>14 DEF SetData, CanCall
<1>15. ASSUME NEW d \in Streams, NEW v \in Values, NEW n \in AppendSizes, AppendData(d, v, n)
       PROVE IGrow'
  BY <1>2, <1>13, <1>15 DEF AppendData, CanCall, Growing
<1>16. CASE UNCHANGED vars
  BY <1>1, <1>16 DEF vars, loopVars, miniVars, Growing
<1>17. CASE FileCall
  BY <1>2, <1>17, FileCallKeeps DEF Growing
<1> QED
  BY <1>10, <1>11, <1>12, <1>14, <1>15, <1>16, <1>17 DEF Next, StreamCall

(* A call given a sector it cannot read goes on to an error. *)
LEMMA DoomedStays ==
  ASSUME TypeOK, IControl, IGrow, Doomed, [Next]_vars, errors' = 0
  PROVE Doomed'
<1>1. CASE UNCHANGED vars
  BY <1>1 DEF vars, Doomed, Readable, SectorOf, Existing, memVars, sectorVars, miniVars, loopVars
<1>2. ASSUME ~UNCHANGED vars
      PROVE Continue /\ pc \in {"BigSector", "MiniTable", "DirSector", "Container", "WriteMini"}
  BY <1>2, FileCallKeeps DEF Doomed, Next, StreamCall, AddStream, GetData, SetData, AppendData, CanCall
<1>3. CASE pc \in {"BigSector", "MiniTable", "DirSector"} /\ ~UNCHANGED vars
  <2>1. s \notin loaded
    BY <1>3 DEF Doomed
  <2>2. BigSector \/ MiniTable \/ DirSector
    BY <1>2, <1>3 DEF Continue, FreeFAT, FreeMiniFAT, Freed, Resize, WriteBigExisting, WriteBigGrow, FinishBig,
       WriteMiniExisting, WriteMiniNew, WriteMiniGrow, FinishMini, AllocFree, AllocTable, AllocNew, Container,
       NewEntry, Update
  <2>3. ~CanAdd(s, "TableMini") /\ ~CanAdd(s, "Dir")
    BY <2>1 DEF CanAdd
  <2>4. Return("err")
    BY <2>1, <2>2, <2>3 DEF BigSector, MiniTable, DirSector
  <2> QED
    BY <2>4, ErrorReturned
<1>4. CASE pc = "Container" /\ ~UNCHANGED vars
  <2>1. Container /\ ~Readable(s)
    BY <1>2, <1>4 DEF Doomed, Continue, FreeFAT, FreeMiniFAT, Freed, Resize, WriteBigExisting, WriteBigGrow, FinishBig,
       WriteMiniExisting, WriteMiniNew, WriteMiniGrow, FinishMini, AllocFree, AllocTable, AllocNew, BigSector,
       MiniTable, DirSector, NewEntry, Update
  <2>2. /\ pc' = "WriteMini" /\ UNCHANGED <<arg, offset, OldSize, SecID, loaded, file>>
        /\ containers' = Append(containers, s)
        /\ miniFree' = miniFree \cup Cardinality(Minis)..(Cardinality(Minis) + MinisPerSector - 1)
    BY <2>1 DEF Container, Goto, loopVars
  <2>3. offset < arg.size /\ ~Existing /\ miniFree = {}
    BY <1>4 DEF IGrow, Growing
  <2> DEFINE L == Len(containers)
             M == MinisPerSector
  <2>4. L \in Nat /\ containers \in Seq(Nat) /\ s \in Nat /\ Cardinality(Minis) = M * L /\ M \in Nat /\ M >= 1
    BY <1>4, Counts, LayoutFacts DEF TypeOK, MiniType, SectorsType, IControl, Sectors
  <2>5. Append(containers, s)[L + 1] = s
    BY <2>4
  <2> HIDE DEF L, M
  <2>6. M * L \in Nat /\ M * L \in (M * L)..(M * L + M - 1)
    BY <2>4
  <2>7. \A m \in (M * L)..(M * L + M - 1) : m \div M = L
    <3>1. TAKE m \in (M * L)..(M * L + M - 1)
    <3>2. M * L <= m /\ m < M * L + M /\ m \in Int
      BY <2>4, <2>6, <3>1
    <3> QED
      BY <2>4, <3>2
  <2>8. miniFree' = (M * L)..(M * L + M - 1)
    BY <2>2, <2>3, <2>4 DEF M
  <2>9. \A m \in miniFree' : SectorOf(m)' = s
    BY <2>2, <2>5, <2>7, <2>8 DEF SectorOf, M
  <2>10. \A m \in miniFree' : ~Readable(SectorOf(m))'
    BY <2>1, <2>2, <2>9 DEF Readable, SectorOf
  <2> QED
    BY <2>2, <2>3, <2>6, <2>8, <2>10 DEF Doomed, Existing
<1>5. CASE pc = "WriteMini" /\ ~UNCHANGED vars
  <2>1. offset < arg.size /\ ~Existing /\ miniFree # {} /\ \A m \in miniFree : ~Readable(SectorOf(m))
    BY <1>5 DEF Doomed
  <2>2. offset \in Nat /\ arg.size \in Nat
    BY DEF TypeOK, CallType
  <2>3. WriteMiniNew
    BY <1>2, <1>5, <2>1, <2>2 DEF Continue, FreeFAT, FreeMiniFAT, Freed, Resize, WriteBigExisting, WriteBigGrow,
       FinishBig, WriteMiniExisting, WriteMiniGrow, FinishMini, AllocFree, AllocTable, AllocNew, BigSector,
       MiniTable, Container, DirSector, NewEntry, Update
  <2>4. Return("err")
    BY <2>1, <2>3 DEF WriteMiniNew, WriteMiniAt
  <2> QED
    BY <2>4, ErrorReturned
<1> QED
  BY <1>1, <1>2, <1>3, <1>4, <1>5

(* Steps that change no kind, and the size of a stream at most. *)
LEMMA RootKept ==
  ASSUME TypeOK, IRoot, dirFree' = dirFree, DOMAIN dirs' = DOMAIN dirs,
         \A d \in DOMAIN dirs :
           dirs'[d].kind = dirs[d].kind /\ (dirs'[d].size = dirs[d].size \/ d \in Streams),
         ForEntry => ForEntry' /\ arg'.op = arg.op /\ (pc' = "NewEntry" <=> pc = "NewEntry"),
         pc' # "Idle" /\ ~ForEntry' => arg'.d \in Streams
  PROVE IRoot'
<1>1. \A d \in DOMAIN dirs' : dirs'[d].kind # "stream" => dirs'[d].size = 0
  BY DEF IRoot, Streams
<1>2. Streams' = Streams
  BY DEF Streams
<1>3. ForEntry \/ (0 \in DOMAIN dirs /\ 0 \notin dirFree /\ dirs[0].kind = "root")
  BY DEF IRoot, ForEntry
<1>4. \A d \in dirFree' : dirs'[d].kind = "unallocated"
  BY DEF IRoot, TypeOK, DirType
<1> QED
  BY <1>1, <1>2, <1>3, <1>4 DEF IRoot

(* Changing the start of an entry, or the size of one, changes no kind. *)
LEMMA ChangedEntry ==
  ASSUME NEW dr, NEW a, NEW n, NEW st, \A d \in DOMAIN dr : dr[d] \in Entry
  PROVE /\ DOMAIN [dr EXCEPT ![a].start = st] = DOMAIN dr
        /\ DOMAIN [dr EXCEPT ![a].size = n, ![a].start = st] = DOMAIN dr
        /\ \A d \in DOMAIN dr :
             /\ [dr EXCEPT ![a].start = st][d].kind = dr[d].kind
             /\ [dr EXCEPT ![a].start = st][d].size = dr[d].size
             /\ [dr EXCEPT ![a].start = st][d].start = IF d = a THEN st ELSE dr[d].start
             /\ [dr EXCEPT ![a].size = n, ![a].start = st][d].kind = dr[d].kind
             /\ [dr EXCEPT ![a].size = n, ![a].start = st][d].size = IF d = a THEN n ELSE dr[d].size
             /\ [dr EXCEPT ![a].size = n, ![a].start = st][d].start = IF d = a THEN st ELSE dr[d].start
BY DEF Entry

(* A new sector of entries: all of them free, without kind or size. *)
LEMMA DirSectorRoot ==
  ASSUME TypeOK, IRoot, DirSector, errors' = 0
  PROVE IRoot'
<1> DEFINE n == Cardinality(DOMAIN dirs)
           K == DirsPerSector
<1>1. /\ n \in Nat /\ K \in Nat /\ K >= 1 /\ DOMAIN dirs = 0..(n - 1) /\ dirFree \subseteq DOMAIN dirs
  <2>1. n = DirsPerSector * Len(memDir) /\ DirsPerSector * Len(memDir) \in Nat
    BY Counts, LayoutFacts DEF TypeOK, TablesType
  <2>2. DOMAIN dirs = 0..(DirsPerSector * Len(memDir) - 1)
    BY DEF TypeOK, DirType
  <2> QED
    BY <2>1, <2>2, LayoutFacts DEF TypeOK, DirType
<1>2. /\ dirs' = Extend(dirs, n, K, EmptyEntry) /\ dirFree' = dirFree \cup n..(n + K - 1)
      /\ pc = "DirSector" /\ pc' = "NewEntry" /\ arg' = arg
  BY ErrorReturned DEF DirSector, Goto
<1> HIDE DEF n, K
<1>3. DOMAIN dirs' = 0..(n + K - 1) /\ \A d \in DOMAIN dirs' : dirs'[d] = IF d < n THEN dirs[d] ELSE EmptyEntry
  BY <1>2 DEF Extend
<1>4. \A d \in DOMAIN dirs' : (d \in DOMAIN dirs /\ dirs'[d] = dirs[d]) \/ (d \notin DOMAIN dirs /\ dirs'[d] = EmptyEntry)
  BY <1>1, <1>3
<1>5. EmptyEntry.kind = "unallocated" /\ EmptyEntry.size = 0
  BY DEF EmptyEntry
<1>6. \A d \in DOMAIN dirs' : dirs'[d].kind # "stream" => dirs'[d].size = 0
  BY <1>4, <1>5 DEF IRoot
<1>7. \A d \in dirFree' : d \in DOMAIN dirs' /\ (d \in dirFree \/ d \notin DOMAIN dirs)
  BY <1>1, <1>2, <1>3
<1>8. \A d \in dirFree' : dirs'[d].kind = "unallocated"
  BY <1>1, <1>4, <1>5, <1>7 DEF IRoot
<1>9. \/ 0 \in dirFree' /\ arg'.op = "New" /\ pc' = "NewEntry"
      \/ 0 \in DOMAIN dirs' /\ 0 \notin dirFree' /\ dirs'[0].kind = "root"
  <2>1. CASE DOMAIN dirs = {} /\ arg.op = "New"
    <3>1. n = 0
      BY <1>1, <2>1
    <3>2. 0 \in n..(n + K - 1)
      BY <1>1, <3>1
    <3> QED
      BY <1>2, <2>1, <3>2
  <2>2. CASE 0 \in DOMAIN dirs /\ 0 \notin dirFree /\ dirs[0].kind = "root"
    <3>1. 0 \in DOMAIN dirs'
      BY <1>1, <1>3, <2>2
    <3> QED
      BY <1>4, <1>7, <2>2, <3>1
  <2> QED
    BY <1>2, <2>1, <2>2 DEF IRoot
<1> QED
  BY <1>2, <1>6, <1>8, <1>9 DEF IRoot, ForEntry

(* The first entry taken is the root's; later ones are streams'. *)
LEMMA NewEntryRoot ==
  ASSUME TypeOK, IRoot, NewEntry, errors' = 0
  PROVE IRoot'
<1>1. PICK d \in dirFree :
        /\ \A e \in dirFree : d <= e
        /\ dirFree' = dirFree \ {d}
        /\ dirs' = [dirs EXCEPT ![d].kind = IF arg.op = "New" THEN "root" ELSE "stream"]
  BY DEF NewEntry
<1>2. pc' = "Idle" /\ pc = "NewEntry"
  BY DEF NewEntry, Return
<1>3. dirFree \subseteq DOMAIN dirs /\ dirFree \subseteq Nat /\ \A e \in DOMAIN dirs : dirs[e] \in Entry
  <2>1. DOMAIN dirs \subseteq Nat
    BY DEF TypeOK, DirType
  <2> QED
    BY <2>1 DEF TypeOK, DirType
<1>4. DOMAIN dirs' = DOMAIN dirs /\ \A e \in DOMAIN dirs : e # d => dirs'[e] = dirs[e]
  BY <1>1
<1>5. dirs'[d].kind = (IF arg.op = "New" THEN "root" ELSE "stream") /\ dirs'[d].size = dirs[d].size
  BY <1>1, <1>3 DEF Entry
<1>6. dirs[d].size = 0
  BY <1>3 DEF IRoot
<1>7. \A e \in DOMAIN dirs' : dirs'[e].kind # "stream" => dirs'[e].size = 0
  BY <1>4, <1>5, <1>6 DEF IRoot
<1>8. \A e \in dirFree' : dirs'[e].kind = "unallocated"
  BY <1>1, <1>3, <1>4 DEF IRoot
<1>9. 0 \in DOMAIN dirs' /\ 0 \notin dirFree' /\ dirs'[0].kind = "root"
  <2>1. CASE 0 \in dirFree /\ arg.op = "New"
    <3>1. d = 0
      BY <1>1, <1>3, <2>1
    <3> QED
      BY <1>1, <1>3, <1>4, <1>5, <2>1, <3>1
  <2>2. CASE 0 \in DOMAIN dirs /\ 0 \notin dirFree /\ dirs[0].kind = "root"
    BY <1>1, <1>4, <2>2
  <2> QED
    BY <1>2, <2>1, <2>2 DEF IRoot
<1> QED
  BY <1>2, <1>7, <1>8, <1>9 DEF IRoot

(* IRoot is kept by every step that is no error. *)
LEMMA StepRoot ==
  ASSUME TypeOK, IControl, IRoot, [Next]_vars, errors' = 0
  PROVE IRoot'
<1>0. \A d \in DOMAIN dirs : dirs[d] \in Entry
  BY DEF TypeOK, DirType
<1>1. ASSUME dirs' = dirs, dirFree' = dirFree,
             ForEntry => ForEntry' /\ arg'.op = arg.op /\ (pc' = "NewEntry" <=> pc = "NewEntry"),
             pc' # "Idle" /\ ~ForEntry' => arg'.d \in Streams
      PROVE IRoot'
  BY <1>1, RootKept
<1>2. ASSUME dirFree' = dirFree, ~ForEntry, pc # "Idle", pc' = "Idle" \/ arg' = arg,
             \/ dirs' = dirs
             \/ \E a, st : dirs' = [dirs EXCEPT ![a].start = st]
             \/ \E n, st : dirs' = [dirs EXCEPT ![arg.d].size = n, ![arg.d].start = st]
      PROVE IRoot'
  <2>1. arg.d \in Streams
    BY <1>2 DEF IRoot
  <2>2. CASE dirs' = dirs
    BY <1>2, <2>1, <2>2, RootKept
  <2>3. ASSUME NEW a, NEW st, dirs' = [dirs EXCEPT ![a].start = st]
        PROVE IRoot'
    <3>1. /\ DOMAIN dirs' = DOMAIN dirs
          /\ \A d \in DOMAIN dirs : dirs'[d].kind = dirs[d].kind /\ dirs'[d].size = dirs[d].size
      BY <1>0, <2>3, ChangedEntry
    <3> QED
      BY <1>2, <2>1, <3>1, RootKept
  <2>4. ASSUME NEW n, NEW st, dirs' = [dirs EXCEPT ![arg.d].size = n, ![arg.d].start = st]
        PROVE IRoot'
    <3>1. /\ DOMAIN dirs' = DOMAIN dirs
          /\ \A d \in DOMAIN dirs :
               dirs'[d].kind = dirs[d].kind /\ dirs'[d].size = IF d = arg.d THEN n ELSE dirs[d].size
      BY <1>0, <2>4, ChangedEntry
    <3> QED
      BY <1>2, <2>1, <3>1, RootKept
  <2> QED
    BY <1>2, <2>2, <2>3, <2>4
<1>3. CASE FreeFAT \/ FreeMiniFAT \/ Freed \/ Update
  <2>1. /\ pc \in {"FreeFAT", "FreeMiniFAT", "Update"} /\ UNCHANGED <<dirs, dirFree>>
        /\ pc' = "Idle" \/ arg' = arg
    BY <1>3 DEF FreeFAT, FreeMiniFAT, Freed, Update, Return, dirVars
  <2> QED
    BY <1>2, <2>1 DEF ForEntry
<1>4. CASE Resize
  <2>1. PICK n, st : dirs' = [dirs EXCEPT ![arg.d].size = n, ![arg.d].start = st]
    <3>1. arg.d \in DOMAIN dirs
      BY <1>4 DEF Resize, IControl
    <3>2. dirs' = [dirs EXCEPT ![arg.d].size = IF OldSize # arg.size THEN arg.size ELSE dirs[arg.d].size,
                               ![arg.d].start = IF arg.size = 0 THEN ENDOFCHAIN ELSE dirs[arg.d].start]
      BY <1>0, <1>4, <3>1 DEF Resize, Entry
    <3> QED
      BY <3>2
  <2>2. pc = "Resize" /\ dirFree' = dirFree /\ arg' = arg
    BY <1>4 DEF Resize
  <2> QED
    BY <1>2, <2>1, <2>2 DEF ForEntry
<1>5. CASE WriteBigExisting \/ WriteBigGrow \/ FinishBig \/ WriteMiniExisting \/ WriteMiniGrow \/ FinishMini
  <2>1. /\ pc \in {"WriteBig", "WriteMini"} /\ UNCHANGED <<dirs, dirFree>>
        /\ pc' = "Idle" \/ arg' = arg
    BY <1>5 DEF WriteBigExisting, WriteBigGrow, FinishBig, WriteMiniExisting, WriteMiniAt, WriteMiniGrow,
       FinishMini, Return, dirVars
  <2> QED
    BY <1>2, <2>1 DEF ForEntry
<1>6. CASE BigSector \/ MiniTable \/ Container
  <2>1. /\ pc \in {"BigSector", "MiniTable", "Container"} /\ dirFree' = dirFree
        /\ pc' = "Idle" \/ arg' = arg
        /\ dirs' = dirs \/ \E a, st : dirs' = [dirs EXCEPT ![a].start = st]
    BY <1>6 DEF BigSector, MiniTable, Container, Return, dirVars
  <2> QED
    BY <1>2, <2>1 DEF ForEntry
<1>7. CASE WriteMiniNew
  <2>1. /\ pc = "WriteMini" /\ dirFree' = dirFree
        /\ pc' = "Idle" \/ arg' = arg
        /\ dirs' = dirs \/ \E a, st : dirs' = [dirs EXCEPT ![a].start = st]
    BY <1>7 DEF WriteMiniNew, WriteMiniAt, Return
  <2> QED
    BY <1>2, <2>1 DEF ForEntry
<1>8. CASE AllocFree \/ AllocTable \/ AllocNew
  <2>1. /\ pc \in {"Alloc", "AllocNew"} /\ pc' \in {"AllocNew", caller} /\ caller' = caller
        /\ UNCHANGED <<dirs, dirFree, arg>>
    BY <1>8 DEF AllocFree, AllocTable, AllocNew, Allocated, Goto, dirVars
  <2>2. caller \in {"BigSector", "MiniTable", "Container", "DirSector"}
    BY <2>1 DEF IControl
  <2>3. (ForEntry' <=> ForEntry) /\ pc' # "NewEntry" /\ pc # "NewEntry" /\ pc # "Idle"
    BY <2>1, <2>2 DEF ForEntry
  <2> QED
    BY <1>1, <2>1, <2>3 DEF IRoot
<1>9. CASE Continue
  BY <1>3, <1>4, <1>5, <1>6, <1>7, <1>8, <1>9, DirSectorRoot, NewEntryRoot DEF Continue
<1>10. CASE AddStream
  <2>1. pc = "Idle" /\ UNCHANGED <<dirs, dirFree>> /\ (pc' = "NewEntry" \/ (pc' = "Alloc" /\ caller' = "DirSector"))
    BY <1>10, Zenon DEF AddStream, CanCall, dirVars
  <2> QED
    BY <1>1, <2>1 DEF ForEntry
<1>11. ASSUME NEW d \in Streams, GetData(d)
       PROVE IRoot'
  BY <1>1, <1>11 DEF GetData, Answer, CanCall, dirVars, ForEntry
<1>12. ASSUME NEW d \in Streams, NEW n, NEW b, Write(d, n, b), pc = "Idle", UNCHANGED dirVars
       PROVE IRoot'
  <2>1. /\ pc' = "Idle" \/ (arg' = [op |-> "SetData", d |-> d, size |-> n, buf |-> b])
    BY <1>12 DEF Write
  <2>2. pc' = "Idle" \/ arg'.d = d
    BY <2>1
  <2> QED
    BY <1>1, <1>12, <2>2 DEF dirVars, ForEntry
<1>13. ASSUME NEW d \in Streams, NEW v \in Values, NEW n \in Sizes, SetData(d, v, n)
       PROVE IRoot'
  BY <1>12, <1>13 DEF SetData, CanCall
<1>14. ASSUME NEW d \in Streams, NEW v \in Values, NEW n \in AppendSizes, AppendData(d, v, n)
       PROVE IRoot'
  BY <1>1, <1>12, <1>14 DEF AppendData, CanCall, ForEntry, dirVars
<1>15. CASE UNCHANGED vars
  BY <1>1, <1>15 DEF vars, dirVars, ForEntry, IRoot
<1>16. CASE FileCall
  BY <1>1, <1>16, FileCallKeeps DEF ForEntry
<1> QED
  BY <1>9, <1>10, <1>11, <1>13, <1>14, <1>15, <1>16 DEF Next, StreamCall

(* IGrow and IRoot hold after New and Open. *)
LEMMA InitRoot ==
  ASSUME Init
  PROVE IGrow /\ IRoot
<1>1. CASE InitNew
  <2>1. pc = "Alloc" /\ caller = "DirSector" /\ DOMAIN dirs = {} /\ dirFree = {} /\ arg.op = "New"
    BY <1>1 DEF InitNew, NoArg
  <2> QED
    BY <2>1 DEF IGrow, Growing, IRoot, ForEntry
<1>2. ASSUME NEW n \in 2..EntriesPerSector, InitOpened(n)
      PROVE IGrow /\ IRoot
  <2>1. /\ pc = "Idle" /\ dirFree = 1..(DirsPerSector - 1)
        /\ dirs = [d \in 0..(DirsPerSector - 1) |->
                     IF d = 0 THEN [EmptyEntry EXCEPT !.kind = "root"] ELSE EmptyEntry]
    BY <1>2 DEF InitOpened
  <2>2. DirsPerSector \in Nat /\ DirsPerSector >= 1
    BY LayoutFacts
  <2>3. 0 \in 0..(DirsPerSector - 1) /\ 0 \notin dirFree /\ dirFree \subseteq DOMAIN dirs
    BY <2>1, <2>2
  <2>4. /\ EmptyEntry.size = 0 /\ EmptyEntry.kind = "unallocated"
        /\ [EmptyEntry EXCEPT !.kind = "root"].size = 0 /\ [EmptyEntry EXCEPT !.kind = "root"].kind = "root"
    BY DEF EmptyEntry
  <2>5. /\ \A d \in DOMAIN dirs : dirs[d].size = 0
        /\ dirs[0].kind = "root" /\ \A d \in DOMAIN dirs : d # 0 => dirs[d].kind = "unallocated"
    BY <2>1, <2>3, <2>4
  <2> QED
    BY <2>1, <2>3, <2>5 DEF IGrow, Growing, IRoot
<1> QED
  BY <1>1, <1>2, InstanceAssumption DEF Init

-----------------------------------------------------------------------------
(***************************************************************************)
(* The invariant.                                                          *)
(***************************************************************************)
Helpers == {"BigSector", "MiniTable", "Container", "DirSector"}
InContainers(x) == \E i \in 1..Len(containers) : containers[i] = x

\* A free sector has no data, a container is in no list, and a sector handed
\* to a stream is a new one.
IMarks ==
  /\ file <= nsec
  /\ \A x \in Sectors : set[x] = "Free" => x \notin loaded
  /\ \A i \in 1..Len(containers) : set[containers[i]] = "none"
  /\ pc \in Helpers => ~InContainers(s)
  /\ pc = "BigSector" => s >= file /\ s # 0

\* The sectors a stream may own, and those that can never be handed to one.
Used ==
  {x \in Sectors : /\ x \in loaded /\ x # 0 /\ x >= file /\ set[x] = "none"
                   /\ ~InContainers(x) /\ (pc \in Helpers => x # s)}
Dead == {x \in Sectors : x >= file /\ set[x] = "Free"}

\* The stream being written has nothing any more and has been given nothing.
Dropped ==
  \/ pc \in {"FreeFAT", "FreeMiniFAT"} /\ caller = "Resize"
  \/ pc = "Resize" /\ OldSize = 0

\* Entry d of dr has a FAT chain, and owns it.
Chained(dr, d) == d \in DOMAIN dr /\ IsBig(dr[d].size) /\ dr[d].start # ENDOFCHAIN
Settled(own, dr, d) ==
  IF Chained(dr, d)
  THEN own[d] # <<>> /\ dr[d].start = own[d][1] /\ Len(own[d]) = SectorCount(dr[d].size)
  ELSE own[d] = <<>>

\* The loop over sectors has written the first k of what the stream owns.
WrittenTo(own, k) ==
  LET c == own[arg.d] IN
  /\ offset = k * SectorSize
  /\ old = IF k = 0 THEN -1 ELSE c[k]
  /\ k > 0 => (k - 1) * SectorSize < arg.size
  /\ k < Len(c) => pc = "WriteBig" /\ SecID = c[k + 1] /\ Len(c) = SectorCount(OldSize)
  /\ k = Len(c) => ~Existing
  /\ pc # "WriteBig" => offset < arg.size
  /\ c # <<>> => dirs[arg.d].start = c[1]
  /\ dirs[arg.d].size = arg.size

Holds(own) ==
  /\ \A d \in Nat : Settled(own, dirs, d) \/ ((Dropped \/ InBig) /\ d = arg.d)
  /\ Dropped => own[arg.d] = <<>>
  /\ InBig => \E k \in 0..Len(own[arg.d]) : WrittenTo(own, k)
  /\ pc # "FreeFAT" => own[Rest] = <<>>
  /\ pc = "FreeFAT" => IF own[Rest] = <<>> THEN Stops(own, SecID, Dead) ELSE SecID = own[Rest][1]

\* A stream rewritten in place keeps its kind of chain (directory.go:447-475).
IKind == pc = "Resize" /\ IsBig(OldSize) => IsBig(arg.size)

Good(own) == IMarks /\ IKind /\ Chains(own, next, Used, Dead) /\ Holds(own)
IChains == errors = 0 /\ ~Doomed => \E own \in Ownings : Good(own)

(* What the invariants that are proved already say where they are needed. *)
Facts == TypeOK /\ IControl /\ ListsMatchSet /\ Coverage /\ IPointers /\ IGrow /\ IRoot

(* The marks: IMarks after a step that changes no mark and no container. *)
LEMMA MarksKept ==
  ASSUME IMarks, UNCHANGED <<file, nsec, set, containers>>,
         \A x \in Sectors : x \in loaded' => x \in loaded \/ set[x] # "Free",
         pc' \notin Helpers \/ (pc' = pc /\ s' = s)
  PROVE IMarks'
BY DEF IMarks, Sectors, InContainers, Helpers

(* What is owned is so after a step that changes no mark and loses no data. *)
LEMMA UsedKept ==
  ASSUME UNCHANGED <<file, nsec, set, containers>>, loaded \subseteq loaded',
         pc' \notin Helpers \/ (pc' = pc /\ s' = s)
  PROVE Used \subseteq Used' /\ Dead' = Dead
BY DEF Used, Dead, Sectors, InContainers, Helpers

(* The same entries have chains. *)
LEMMA SettledKept ==
  ASSUME NEW own, NEW dr, NEW dq, NEW d, Settled(own, dr, d), Chained(dq, d) <=> Chained(dr, d),
         Chained(dr, d) => dq[d].start = dr[d].start /\ dq[d].size = dr[d].size
  PROVE Settled(own, dq, d)
BY DEF Settled

(* A step outside the loops that follow chains. *)
LEMMA HoldsKept ==
  ASSUME NEW own \in Ownings, Holds(own), ~InBig, ~InBig', pc # "FreeFAT", pc' # "FreeFAT",
         Dropped' <=> Dropped, Dropped => arg'.d = arg.d,
         \A d \in Nat : Settled(own, dirs, d) => Settled(own, dirs', d)
  PROVE Holds(own)'
BY DEF Holds

(* A step that leaves links, marks and containers alone, outside the loops.  *)
LEMMA QuietStep ==
  ASSUME NEW own \in Ownings, Good(own), TypeOK, UNCHANGED <<file, nsec, next, set, containers>>,
         loaded \subseteq loaded', \A x \in Sectors : x \in loaded' => x \in loaded \/ set[x] # "Free",
         pc' \notin Helpers, IKind',
         ~InBig, ~InBig', pc # "FreeFAT", pc' # "FreeFAT",
         Dropped' <=> Dropped, Dropped => arg'.d = arg.d,
         \A d \in Nat : Settled(own, dirs, d) => Settled(own, dirs', d)
  PROVE Good(own)'
<1>1. IMarks'
  BY MarksKept DEF Good
<1>2. Used \subseteq Used' /\ Dead \subseteq Dead'
  BY UsedKept
<1>3. Chains(own, next', Used', Dead')
  BY <1>2, ChainsKept DEF Good
<1>4. Holds(own)'
  BY HoldsKept DEF Good
<1> QED
  BY <1>1, <1>3, <1>4 DEF Good

(* The start of a stream in mini sectors, or of the root, is no chain's. *)
LEMMA StartSettled ==
  ASSUME NEW own, TypeOK, NEW a, NEW st, a \in DOMAIN dirs => ~IsBig(dirs[a].size),
         dirs' = [dirs EXCEPT ![a].start = st]
  PROVE \A d \in Nat : Settled(own, dirs, d) => Settled(own, dirs', d)
<1>1. \A d \in DOMAIN dirs : dirs[d] \in Entry
  BY DEF TypeOK, DirType
<1>2. /\ DOMAIN dirs' = DOMAIN dirs
      /\ \A d \in DOMAIN dirs : /\ dirs'[d].size = dirs[d].size
                                /\ dirs'[d].start = IF d = a THEN st ELSE dirs[d].start
  BY <1>1, ChangedEntry
<1>3. \A d \in Nat : /\ Chained(dirs', d) <=> Chained(dirs, d)
                     /\ Chained(dirs, d) => dirs'[d].start = dirs[d].start /\ dirs'[d].size = dirs[d].size
  BY <1>2 DEF Chained
<1> QED
  BY <1>3, SettledKept

(* Mini sectors are freed. *)
LEMMA FreeMiniChains ==
  ASSUME NEW own \in Ownings, Good(own), Facts, FreeMiniFAT, errors' = 0
  PROVE Good(own)'
<1>1. /\ pc = "FreeMiniFAT" /\ UNCHANGED <<pc, caller, arg, OldSize, s, dirs, containers>> /\ UNCHANGED memVars /\ file' = file
  BY ErrorReturned DEF FreeMiniFAT, dirVars, Facts
<1> QED
  BY <1>1, QuietStep DEF Facts, memVars, sectorVars, memoryVars, InBig, Helpers, Dropped, IKind

(* A chain has been freed. *)
LEMMA FreedChains ==
  ASSUME NEW own \in Ownings, Good(own), Facts, Freed
  PROVE Good(own)'
<1>1. /\ UNCHANGED <<arg, dirs, containers, file>> /\ UNCHANGED memVars
      /\ pc' = caller /\ pc \in {"FreeFAT", "FreeMiniFAT"} /\ pc' \in {"Resize", "Update"} /\ caller' = "none"
      /\ OldSize' = IF caller = "Resize" THEN 0 ELSE OldSize
      /\ SecID < 0
  BY DEF Freed, Goto, Facts, IControl, dirVars, miniVars
<1>2. IKind'
  BY <1>1, CutoffPositive DEF IKind, IsBig
<1>3. Dropped' <=> Dropped
  BY <1>1 DEF Dropped
<1>4. CASE pc = "FreeMiniFAT"
  BY <1>1, <1>2, <1>3, <1>4, QuietStep DEF Facts, memVars, sectorVars, memoryVars, InBig, Helpers
<1>5. CASE pc = "FreeFAT"
  <2>1. own[Rest] = <<>>
    <3>1. SUFFICES ASSUME own[Rest] # <<>> PROVE FALSE
      OBVIOUS
    <3>2. SecID = own[Rest][1] /\ Rest \in Owners
      BY <1>5, <3>1 DEF Good, Holds, Owners
    <3>3. 1 \in 1..Len(own[Rest])
      BY <3>1, <3>2, OwnedSeq
    <3>4. SecID \in Nat
      BY <3>2, <3>3, OwnedSeq
    <3> QED
      BY <1>1, <3>4
  <2>2. ~InBig /\ ~InBig' /\ pc' # "FreeFAT" /\ pc' \notin Helpers
    BY <1>1, <1>5 DEF InBig, Helpers
  <2>3. Holds(own)'
    BY <1>1, <1>3, <2>1, <2>2 DEF Good, Holds
  <2>4. IMarks'
    BY <1>1, <2>2, MarksKept DEF Good, memVars, sectorVars, memoryVars
  <2>5. Used \subseteq Used' /\ Dead \subseteq Dead'
    BY <1>1, <2>2, UsedKept DEF memVars, sectorVars, memoryVars
  <2>6. Chains(own, next', Used', Dead')
    BY <1>1, <2>5, ChainsKept DEF Good, memVars, sectorVars
  <2> QED
    BY <1>2, <2>3, <2>4, <2>6 DEF Good
<1> QED
  BY <1>1, <1>4, <1>5

(* Mini sectors are written. *)
LEMMA MiniChains ==
  ASSUME NEW own \in Ownings, Good(own), Facts, errors' = 0,
         WriteMiniExisting \/ WriteMiniNew \/ WriteMiniGrow \/ FinishMini
  PROVE Good(own)'
<1>1. pc = "WriteMini" /\ (arg.d \in DOMAIN dirs => ~IsBig(dirs[arg.d].size))
  BY DEF WriteMiniExisting, WriteMiniNew, WriteMiniGrow, FinishMini, Facts, IPointers, PCall, InMini
<1>2. ASSUME UNCHANGED <<file, nsec, next, set, containers>>, loaded \subseteq loaded',
             \A x \in Sectors : x \in loaded' => x \in loaded \/ set[x] # "Free",
             \/ pc' \in {"WriteMini", "Update"}
             \/ pc' = "Alloc" /\ caller' \in {"MiniTable", "Container"}
             \/ pc' = "FreeMiniFAT" /\ caller' = "Update",
             dirs' = dirs \/ \E m : dirs' = [dirs EXCEPT ![arg.d].start = m]
      PROVE Good(own)'
  <2>1. pc' \notin Helpers /\ IKind' /\ ~InBig /\ ~InBig' /\ ~Dropped /\ ~Dropped' /\ pc' # "FreeFAT"
    BY <1>1, <1>2 DEF Helpers, IKind, InBig, Dropped
  <2>2. \A d \in Nat : Settled(own, dirs, d) => Settled(own, dirs', d)
    BY <1>1, <1>2, StartSettled DEF Facts
  <2> QED
    BY <1>1, <1>2, <2>1, <2>2, QuietStep DEF Facts
<1>3. CASE WriteMiniGrow
  BY <1>2, <1>3 DEF WriteMiniGrow, Goto, memVars, sectorVars, memoryVars, miniVars, dirVars
<1>4. CASE FinishMini
  BY <1>2, <1>4 DEF FinishMini, Goto, memVars, sectorVars, memoryVars, dirVars
<1>5. ASSUME NEW m \in Minis, NEW l, NEW u, WriteMiniAt(m, l, u)
      PROVE /\ loaded' = loaded \cup {SectorOf(m)} /\ pc' = "WriteMini"
            /\ set[SectorOf(m)] = "none"
  <2>1. (m \div MinisPerSector) + 1 \in 1..Len(containers)
    <3>1. MinisPerSector \in Nat /\ MinisPerSector >= 1 /\ Len(containers) \in Nat
      BY LayoutFacts DEF Facts, TypeOK, MiniType
    <3>2. m \in 0..(MinisPerSector * Len(containers) - 1)
      BY DEF Facts, TypeOK, MiniType, Minis
    <3> QED
      BY <3>1, <3>2
  <2>2. set[SectorOf(m)] = "none"
    BY <2>1 DEF SectorOf, Good, IMarks
  <2> QED
    BY <1>5, <2>2, ErrorReturned DEF Facts, WriteMiniAt, Goto
<1>6. CASE WriteMiniExisting
  <2>1. WriteMiniAt(SecID, miniNext[SecID], updateDE) /\ SecID \in Minis
    BY <1>6, ErrorReturned DEF WriteMiniExisting, Facts
  <2>2. /\ loaded' = loaded \cup {SectorOf(SecID)} /\ pc' = "WriteMini"
        /\ set[SectorOf(SecID)] = "none"
    BY <1>5, <2>1
  <2> QED
    BY <1>2, <1>6, <2>2 DEF WriteMiniExisting, memoryVars, miniVars, dirVars
<1>7. CASE WriteMiniNew
  <2>1. PICK m \in miniFree :
          /\ dirs' = IF old >= 0 THEN dirs ELSE [dirs EXCEPT ![arg.d].start = m]
          /\ WriteMiniAt(m, miniNext'[m], updateDE \/ old < 0)
    BY <1>7 DEF WriteMiniNew
  <2>2. m \in Minis
    BY DEF Facts, TypeOK, MiniType
  <2>3. loaded' = loaded \cup {SectorOf(m)} /\ pc' = "WriteMini" /\ set[SectorOf(m)] = "none"
    BY <1>5, <2>1, <2>2
  <2> QED
    BY <1>2, <1>7, <2>1, <2>3 DEF WriteMiniNew, memoryVars
<1> QED
  BY <1>3, <1>4, <1>6, <1>7

(* The entry is written, and a new one is taken. *)
LEMMA UpdateChains ==
  ASSUME NEW own \in Ownings, Good(own), Facts, Update \/ NewEntry
  PROVE Good(own)'
<1>1. pc \in {"Update", "NewEntry"} /\ pc' = "Idle" /\ UNCHANGED memVars /\ UNCHANGED <<file, containers>>
  BY DEF Update, NewEntry, Return, miniVars
<1>2. pc' \notin Helpers /\ IKind' /\ ~InBig /\ ~InBig' /\ ~Dropped /\ ~Dropped' /\ pc' # "FreeFAT" /\ pc # "FreeFAT"
  BY <1>1 DEF Helpers, IKind, InBig, Dropped
<1>3. \A d \in Nat : Settled(own, dirs, d) => Settled(own, dirs', d)
  <2>1. CASE dirs' = dirs
    BY <2>1
  <2>2. CASE NewEntry
    <3>1. PICK d, k : dirs' = [dirs EXCEPT ![d].kind = k]
      BY <2>2 DEF NewEntry
    <3>2. \A e \in DOMAIN dirs : dirs[e] \in Entry
      BY DEF Facts, TypeOK, DirType
    <3>3. /\ DOMAIN dirs' = DOMAIN dirs
          /\ \A e \in DOMAIN dirs : dirs'[e].size = dirs[e].size /\ dirs'[e].start = dirs[e].start
      BY <3>1, <3>2 DEF Entry
    <3>4. \A e \in Nat : /\ Chained(dirs', e) <=> Chained(dirs, e)
                         /\ Chained(dirs, e) => dirs'[e].start = dirs[e].start /\ dirs'[e].size = dirs[e].size
      BY <3>3 DEF Chained
    <3> QED
      BY <3>4, SettledKept
  <2> QED
    BY <2>1, <2>2 DEF Update
<1> QED
  BY <1>1, <1>2, <1>3, QuietStep DEF Facts, memVars, sectorVars, memoryVars

(* The size and the start of the entry are set (directory.go:477-486). *)
LEMMA ResizeChains ==
  ASSUME NEW own \in Ownings, Good(own), Facts, Resize
  PROVE Good(own)'
<1> DEFINE n == arg.size
           a == arg.d
<1>1. /\ pc = "Resize" /\ UNCHANGED <<arg, OldSize, offset, old, file, containers>> /\ UNCHANGED memVars
      /\ n \in Nat /\ a \in DOMAIN dirs /\ a \in Nat /\ OldSize \in Nat
      /\ dirs' = [dirs EXCEPT ![a].size = IF OldSize # n THEN n ELSE @, ![a].start = IF n = 0 THEN ENDOFCHAIN ELSE @]
      /\ SecID' = IF n = 0 THEN ENDOFCHAIN ELSE dirs[a].start
      /\ pc' = IF n = 0 THEN "Update" ELSE IF IsBig(n) THEN "WriteBig" ELSE "WriteMini"
  BY DEF Resize, Goto, Facts, TypeOK, CallType, IControl, miniVars
<1>2. \A d \in DOMAIN dirs : dirs[d] \in Entry
  BY DEF Facts, TypeOK, DirType
<1>3. dirs' = [dirs EXCEPT ![a].size = IF OldSize # n THEN n ELSE dirs[a].size,
                           ![a].start = IF n = 0 THEN ENDOFCHAIN ELSE dirs[a].start]
  BY <1>1, <1>2 DEF Entry
<1>4. /\ DOMAIN dirs' = DOMAIN dirs
      /\ dirs'[a].size = (IF OldSize # n THEN n ELSE dirs[a].size)
      /\ dirs'[a].start = (IF n = 0 THEN ENDOFCHAIN ELSE dirs[a].start)
      /\ \A d \in DOMAIN dirs : d # a => dirs'[d].size = dirs[d].size /\ dirs'[d].start = dirs[d].start
  <2> DEFINE sz == IF OldSize # n THEN n ELSE dirs[a].size
             st == IF n = 0 THEN ENDOFCHAIN ELSE dirs[a].start
  <2>1. dirs' = [dirs EXCEPT ![a].size = sz, ![a].start = st] /\ a \in DOMAIN dirs
    BY <1>1, <1>3
  <2> HIDE DEF sz, st
  <2>2. /\ DOMAIN dirs' = DOMAIN dirs
        /\ \A d \in DOMAIN dirs : /\ dirs'[d].size = IF d = a THEN sz ELSE dirs[d].size
                                  /\ dirs'[d].start = IF d = a THEN st ELSE dirs[d].start
    BY <1>2, <2>1, ChangedEntry
  <2>3. dirs'[a].size = sz /\ dirs'[a].start = st
    BY <2>1, <2>2
  <2> QED
    BY <2>2, <2>3 DEF sz, st
<1> HIDE DEF n, a
<1>5. OldSize # 0 => OldSize = dirs[a].size /\ (IsBig(n) => IsBig(OldSize))
  BY <1>1 DEF Facts, IPointers, PCall, n, a
<1>6. IsBig(OldSize) => IsBig(n)
  BY <1>1 DEF Good, IKind, n
<1>7. ~InBig /\ ~Dropped' /\ offset = 0 /\ old = -1 /\ pc' \notin Helpers /\ pc' # "FreeFAT" /\ IKind'
  BY <1>1 DEF InBig, Dropped, Facts, IPointers, PCall, IControl, NotWriting, Helpers, IKind
<1>8. Dropped <=> OldSize = 0
  BY <1>1 DEF Dropped
<1>9. \A d \in Nat : d # a => Settled(own, dirs', d)
  <2>1. TAKE d \in Nat
  <2>2. HAVE d # a
  <2>3. Settled(own, dirs, d)
    BY <1>7, <2>2 DEF Good, Holds, a
  <2>4. /\ Chained(dirs', d) <=> Chained(dirs, d)
        /\ Chained(dirs, d) => dirs'[d].start = dirs[d].start /\ dirs'[d].size = dirs[d].size
    BY <1>4, <2>2 DEF Chained
  <2> QED
    BY <2>3, <2>4, SettledKept
<1>10. OldSize = 0 => own[a] = <<>>
  BY <1>8 DEF Good, Holds, a
<1>11. OldSize # 0 => Settled(own, dirs, a)
  BY <1>1, <1>7, <1>8 DEF Good, Holds, a
<1>12. own[Rest] = <<>>
  BY <1>1 DEF Good, Holds
<1>13. Holds(own)'
  <2>1. CASE ~IsBig(n)
    <3>1. own[a] = <<>>
      BY <1>5, <1>6, <1>10, <1>11, <2>1 DEF Settled, Chained
    <3>2. ~Chained(dirs', a)
      <4>1. OldSize = n => dirs'[a].size = n \/ dirs'[a].start = ENDOFCHAIN
        BY <1>4, <1>5
      <4> QED
        BY <1>4, <2>1, <4>1 DEF Chained
    <3>3. \A d \in Nat : Settled(own, dirs', d)
      BY <1>9, <3>1, <3>2 DEF Settled
    <3>4. ~InBig'
      BY <1>1, <2>1 DEF InBig
    <3> QED
      BY <1>7, <1>12, <3>3, <3>4 DEF Holds
  <2>2. CASE IsBig(n)
    <3>1. n # 0 /\ pc' = "WriteBig" /\ SecID' = dirs[a].start
      BY <1>1, <2>2, CutoffPositive DEF n
    <3>2. InBig'
      BY <3>1 DEF InBig
    <3>3. dirs'[a].size = n /\ dirs'[a].start = dirs[a].start
      BY <1>4, <1>5, <3>1
    <3> DEFINE c == own[a]
    <3>4. c \in Seq(Nat) /\ Len(c) \in Nat /\ (c # <<>> <=> Len(c) > 0)
      BY <1>1, OwnedSeq DEF Owners
    <3>5. /\ c # <<>> => dirs[a].start = c[1] /\ Len(c) = SectorCount(OldSize)
          /\ c = <<>> => OldSize = 0 \/ dirs[a].start = ENDOFCHAIN
      <4>1. OldSize = 0 => c = <<>>
        BY <1>10
      <4>2. OldSize # 0 => a \in DOMAIN dirs /\ IsBig(dirs[a].size) /\ dirs[a].size = OldSize
        BY <1>1, <1>5, <2>2
      <4> QED
        BY <1>11, <4>1, <4>2 DEF Settled, Chained
    <3>6. c = <<>> => ~(OldSize > 0 /\ SecID' >= 0)
      BY <1>1, <3>1, <3>5 DEF ENDOFCHAIN
    <3>7. WrittenTo(own, 0)'
      <4>1. offset' = 0 * SectorSize /\ offset' = 0 /\ old' = -1
        BY <1>1, <1>7, LayoutAssumption
      <4>2. 0 < Len(c) => SecID' = c[0 + 1] /\ Len(c) = SectorCount(OldSize')
        BY <1>1, <3>1, <3>4, <3>5
      <4>3. 0 = Len(c) => ~Existing'
        <5>1. 0 = Len(c) => c = <<>>
          BY <3>4
        <5> QED
          BY <1>1, <3>6, <4>1, <5>1 DEF Existing
      <4> QED
        BY <1>1, <3>1, <3>3, <3>5, <4>1, <4>2, <4>3 DEF WrittenTo, a, n
    <3>8. 0 \in 0..Len(c)
      BY <3>4
    <3> QED
      BY <1>1, <1>7, <1>9, <1>12, <3>1, <3>2, <3>7, <3>8 DEF Holds, a
  <2> QED
    BY <2>1, <2>2
<1>14. IMarks'
  BY <1>1, <1>7, MarksKept DEF Good, memVars, sectorVars, memoryVars
<1>15. Used \subseteq Used' /\ Dead \subseteq Dead'
  BY <1>1, <1>7, UsedKept DEF memVars, sectorVars, memoryVars
<1>16. Chains(own, next', Used', Dead')
  BY <1>1, <1>15, ChainsKept DEF Good, memVars, sectorVars
<1> QED
  BY <1>7, <1>13, <1>14, <1>16 DEF Good

(* The number of sectors n bytes fill. *)
LEMMA SectorCounts ==
  ASSUME NEW n \in Nat, NEW k \in Nat
  PROVE /\ SectorSize \in Nat /\ SectorSize >= 1 /\ SectorCount(n) \in Nat
        /\ k * SectorSize \in Nat /\ (k + 1) * SectorSize = k * SectorSize + SectorSize
        /\ k < SectorCount(n) <=> k * SectorSize < n
        /\ k * SectorSize >= n /\ (k > 0 => (k - 1) * SectorSize < n) => k = SectorCount(n)
        /\ n > 0 => SectorCount(n) > 0
<1> DEFINE S == SectorSize
           q == SectorCount(n)
<1>1. S \in Nat /\ S >= 1
  BY LayoutAssumption
<1>2. q = (n + S - 1) \div S
  BY DEF SectorCount
<1> HIDE DEF S, q
<1>3. q \in Nat /\ S * q <= n + S - 1 /\ n + S - 1 < S * q + S
  BY <1>1, <1>2
<1>4. S * q \in Nat /\ S * q >= n
  BY <1>1, <1>3
<1>5. \A j \in Nat : j * S \in Nat /\ (j + 1) * S = j * S + S
  BY <1>1
<1>6. \A j \in Nat : j < q => j * S < n
  <2>1. TAKE j \in Nat
  <2>2. HAVE j < q
  <2>3. (j + 1) * S <= q * S
    BY <1>1, <1>3, <2>2
  <2>4. q * S = S * q
    BY <1>1, <1>3
  <2> QED
    BY <1>1, <1>3, <1>5, <2>3, <2>4
<1>7. \A j \in Nat : j >= q => j * S >= n
  <2>1. TAKE j \in Nat
  <2>2. HAVE j >= q
  <2>3. j * S >= q * S
    BY <1>1, <1>3, <2>2
  <2>4. q * S = S * q
    BY <1>1, <1>3
  <2> QED
    BY <1>4, <1>5, <2>3, <2>4
<1>8. \A j \in Nat : j < q <=> j * S < n
  <2>1. TAKE j \in Nat
  <2> QED
    BY <1>3, <1>5, <1>6, <1>7
<1>9. \A j \in Nat : j * S >= n /\ (j > 0 => (j - 1) * S < n) => j = q
  <2>1. TAKE j \in Nat
  <2>2. HAVE j * S >= n /\ (j > 0 => (j - 1) * S < n)
  <2>3. j >= q
    BY <1>3, <1>5, <1>6, <2>2
  <2>4. CASE j > 0
    <3>1. j - 1 \in Nat
      BY <2>4
    <3>2. j - 1 < q
      BY <1>8, <2>2, <2>4, <3>1
    <3> QED
      BY <1>3, <2>3, <3>2
  <2> QED
    BY <1>3, <2>3, <2>4
<1>10. n > 0 => q > 0
  BY <1>1, <1>3, <1>4
<1> QED
  BY <1>1, <1>3, <1>5, <1>8, <1>9, <1>10 DEF S, q

(* Where the loop over sectors is, taken apart. *)
LEMMA LoopFacts ==
  ASSUME NEW own \in Ownings, Good(own), Facts, InBig
  PROVE /\ \E k \in 0..Len(own[arg.d]) : WrittenTo(own, k)
        /\ arg.d \in Streams /\ arg.d \in DOMAIN dirs /\ arg.d \in Nat /\ arg.d \in Owners
        /\ arg.size \in Nat /\ arg.size > 0 /\ IsBig(arg.size) /\ OldSize \in Nat
        /\ own[arg.d] \in Seq(Nat) /\ Len(own[arg.d]) \in Nat
        /\ own[Rest] = <<>> /\ ~Dropped
        /\ \A d \in Nat : d # arg.d => Settled(own, dirs, d)
<1>1. arg.d \in Streams /\ arg.d \in DOMAIN dirs
  BY DEF Facts, IRoot, InBig, ForEntry, Streams
<1>2. arg.d \in Nat /\ arg.size \in Nat /\ OldSize \in Nat /\ arg.d \in Owners
  BY DEF Facts, TypeOK, CallType, Owners
<1>3. IsBig(arg.size) /\ arg.size > 0
  BY <1>2, CutoffPositive DEF Facts, IPointers, PCall
<1>4. own[Rest] = <<>> /\ ~Dropped
  BY DEF Good, Holds, InBig, Dropped
<1> QED
  BY <1>1, <1>2, <1>3, <1>4, OwnedSeq DEF Good, Holds

(* The loop writes the next sector the stream has. *)
LEMMA BigExistingChains ==
  ASSUME NEW own \in Ownings, Good(own), Facts, WriteBigExisting, errors' = 0
  PROVE Good(own)'
<1> DEFINE c == own[arg.d]
<1>1. /\ pc = "WriteBig" /\ offset < arg.size /\ Existing /\ SecID \in Sectors /\ InBig
      /\ loaded' = loaded \cup {SecID} /\ offset' = offset + SectorSize /\ old' = SecID /\ SecID' = next[SecID]
      /\ pc' = "WriteBig" /\ UNCHANGED <<arg, OldSize, nsec, next, file, set, containers, dirs>>
  BY ErrorReturned DEF WriteBigExisting, Goto, Facts, InBig, memoryVars, miniVars, dirVars
<1>2. PICK k \in 0..Len(c) : WrittenTo(own, k)
  BY <1>1, LoopFacts
<1>3. Len(c) \in Nat /\ arg.d \in Owners /\ OldSize \in Nat /\ arg.size \in Nat /\ own[Rest] = <<>>
  BY <1>1, LoopFacts
<1>4. k \in Nat /\ k < Len(c) /\ SecID = c[k + 1] /\ Len(c) = SectorCount(OldSize) /\ k + 1 \in 1..Len(c) /\ k + 1 \in 0..Len(c)
  <2>1. k # Len(c)
    BY <1>1, <1>2 DEF WrittenTo
  <2>2. k \in Nat /\ k < Len(c) /\ k + 1 \in 1..Len(c) /\ k + 1 \in 0..Len(c)
    BY <1>2, <1>3, <2>1
  <2> QED
    BY <1>2, <2>2 DEF WrittenTo
<1>5. SecID \in Used
  BY <1>3, <1>4 DEF Good, Chains, Within
<1>6. loaded' = loaded
  BY <1>1, <1>5 DEF Used
<1>7. k + 1 < Len(c) => next[SecID] = c[k + 1 + 1]
  <2>1. k + 1 < Len(c) => k + 1 \in 1..(Len(c) - 1)
    BY <1>3, <1>4
  <2> QED
    BY <1>3, <1>4, <2>1 DEF Good, Chains, Linked
<1>8. /\ offset = k * SectorSize /\ (k + 1) * SectorSize = offset + SectorSize /\ k + 1 # 0 /\ (k + 1) - 1 = k
      /\ k + 1 = Len(c) => ~(OldSize > offset + SectorSize)
  <2>1. offset = k * SectorSize
    BY <1>2 DEF WrittenTo
  <2> DEFINE j == k + 1
  <2>2. SectorSize \in Nat /\ k * SectorSize \in Nat /\ j * SectorSize = k * SectorSize + SectorSize /\ j \in Nat
    BY <1>3, <1>4, SectorCounts
  <2>3. j = Len(c) => ~(j < SectorCount(OldSize))
    BY <1>3, <1>4
  <2> HIDE DEF j
  <2>4. j < SectorCount(OldSize) <=> j * SectorSize < OldSize
    BY <1>3, <2>2, SectorCounts
  <2>5. j = Len(c) => ~(OldSize > offset + SectorSize)
    BY <1>3, <2>1, <2>2, <2>3, <2>4
  <2> QED
    BY <1>4, <2>1, <2>2, <2>5 DEF j
<1>9. WrittenTo(own, k + 1)'
  <2>1. /\ c # <<>> => dirs[arg.d].start = c[1]
        /\ dirs[arg.d].size = arg.size
    BY <1>2 DEF WrittenTo
  <2>2. k + 1 = Len(c) => ~Existing'
    BY <1>1, <1>8 DEF Existing
  <2>3. (k + 1 > 0 => ((k + 1) - 1) * SectorSize < arg'.size)
    BY <1>1, <1>8
  <2> QED
    BY <1>1, <1>4, <1>7, <1>8, <2>1, <2>2, <2>3 DEF WrittenTo
<1>10. ~Dropped' /\ InBig' /\ IKind' /\ pc' \notin Helpers /\ ~Dropped
  BY <1>1 DEF Dropped, InBig, IKind, Helpers
<1>11. Holds(own)'
  BY <1>1, <1>3, <1>4, <1>9, <1>10 DEF Good, Holds
<1>12. IMarks'
  BY <1>1, <1>6, <1>10, MarksKept DEF Good
<1>13. Used \subseteq Used' /\ Dead \subseteq Dead'
  BY <1>1, <1>10, UsedKept
<1>14. Chains(own, next', Used', Dead')
  BY <1>1, <1>13, ChainsKept DEF Good
<1> QED
  BY <1>10, <1>11, <1>12, <1>14 DEF Good

(* The loop asks for a sector when the stream has no more. *)
LEMMA BigGrowChains ==
  ASSUME NEW own \in Ownings, Good(own), Facts, WriteBigGrow
  PROVE Good(own)'
<1> DEFINE c == own[arg.d]
<1>1. /\ pc = "WriteBig" /\ offset < arg.size /\ ~Existing /\ InBig
      /\ pc' = "Alloc" /\ caller' = "BigSector"
      /\ UNCHANGED <<arg, OldSize, offset, SecID, old, nsec, loaded, next, file, set, containers, dirs>>
  BY DEF WriteBigGrow, Goto, InBig, memVars, sectorVars, memoryVars, miniVars, dirVars, loopVars
<1>2. PICK k \in 0..Len(c) : WrittenTo(own, k)
  BY <1>1, LoopFacts
<1>3. Len(c) \in Nat /\ arg.d \in Owners /\ OldSize \in Nat
  BY <1>1, LoopFacts
<1>4. k = Len(c)
  <2>1. SUFFICES ASSUME k < Len(c) PROVE FALSE
    BY <1>2, <1>3
  <2>2. SecID = c[k + 1] /\ Len(c) = SectorCount(OldSize) /\ offset = k * SectorSize /\ k \in Nat
    BY <1>2, <2>1 DEF WrittenTo
  <2>3. k + 1 \in 1..Len(c)
    BY <1>3, <2>1, <2>2
  <2>4. SecID \in Nat
    BY <1>3, <2>2, <2>3, OwnedSeq
  <2>5. k * SectorSize < OldSize /\ k * SectorSize \in Nat
    <3>1. k < SectorCount(OldSize)
      BY <2>1, <2>2
    <3> QED
      BY <1>3, <2>2, <3>1, SectorCounts
  <2> QED
    BY <1>1, <1>3, <2>2, <2>4, <2>5 DEF Existing
<1>5. WrittenTo(own, k)'
  <2>1. ~(k < Len(c)) /\ ~Existing'
    BY <1>1, <1>3, <1>4 DEF Existing
  <2> QED
    BY <1>1, <1>2, <2>1 DEF WrittenTo
<1>6. ~Dropped' /\ InBig' /\ IKind' /\ pc' \notin Helpers /\ ~Dropped /\ own[Rest] = <<>>
  BY <1>1, LoopFacts DEF Dropped, InBig, IKind, Helpers
<1>7. Holds(own)'
  BY <1>1, <1>5, <1>6 DEF Good, Holds
<1>8. IMarks'
  BY <1>1, <1>6, MarksKept DEF Good
<1>9. Used \subseteq Used' /\ Dead \subseteq Dead'
  BY <1>1, <1>6, UsedKept
<1>10. Chains(own, next', Used', Dead')
  BY <1>1, <1>9, ChainsKept DEF Good
<1> QED
  BY <1>6, <1>7, <1>8, <1>10 DEF Good

(* Another owning, for the entries that are owned for as before. *)
LEMMA SettledSame ==
  ASSUME NEW own, NEW new, NEW dr, NEW dq, NEW d, Settled(own, dr, d), new[d] = own[d],
         Chained(dq, d) <=> Chained(dr, d),
         Chained(dr, d) => dq[d].start = dr[d].start /\ dq[d].size = dr[d].size
  PROVE Settled(new, dq, d)
BY DEF Settled

(* A new sector is linked to the end of what the stream owns, and written. *)
LEMMA BigSectorChains ==
  ASSUME NEW own \in Ownings, Good(own), Facts, BigSector, errors' = 0
  PROVE \E new \in Ownings : Good(new)'
<1> DEFINE a == arg.d
           c == own[a]
           n == Len(c)
<1>1. /\ pc = "BigSector" /\ s \in loaded /\ s \in Sectors /\ set[s] = "none" /\ InBig
      /\ pc' = "WriteBig" /\ offset' = offset + SectorSize /\ old' = s /\ SecID' = next'[s]
      /\ UNCHANGED <<arg, OldSize, nsec, loaded, file, set, containers>>
      /\ dirs' = IF old >= 0 THEN dirs ELSE [dirs EXCEPT ![a].start = s]
  BY ErrorReturned DEF BigSector, Goto, Facts, InBig, IControl, memoryVars, miniVars
<1>2. next' = IF old >= 0 THEN [[next EXCEPT ![s] = ENDOFCHAIN] EXCEPT ![old] = s] ELSE [next EXCEPT ![s] = ENDOFCHAIN]
  BY DEF BigSector
<1>3. PICK k \in 0..n : WrittenTo(own, k)
  BY <1>1, LoopFacts
<1>4. /\ a \in DOMAIN dirs /\ a \in Nat /\ a \in Owners /\ arg.size \in Nat /\ OldSize \in Nat
      /\ c \in Seq(Nat) /\ n \in Nat /\ own[Rest] = <<>> /\ \A d \in Nat : d # a => Settled(own, dirs, d)
  BY <1>1, LoopFacts
<1>5. next \in [Sectors -> Int] /\ s \in Nat /\ Sectors' = Sectors /\ old \in Sectors \cup {-1}
  BY <1>1 DEF Facts, TypeOK, SectorsType, Sectors, IControl
<1> HIDE DEF a, c, n
<1>6. k = n /\ offset < arg.size
  BY <1>1, <1>3, <1>4 DEF WrittenTo, a, c, n
<1>7. /\ c = <<>> <=> n = 0
      /\ n > 0 => n \in 1..n /\ old = c[n]
      /\ n = 0 => old = -1
  <2>1. old = IF k = 0 THEN -1 ELSE c[k]
    BY <1>3 DEF WrittenTo, a, c
  <2> QED
    BY <1>4, <1>6, <2>1 DEF n
<1>8. \A i \in 1..n : c[i] \in Used
  BY <1>4 DEF Good, Chains, Within, c, n
<1>9. \A y \in Used : y # s /\ y \in Sectors /\ y >= 0 /\ ~(y < 0)
  BY <1>1 DEF Used, Helpers, Sectors
<1>10. s \notin Used /\ Used \subseteq Used' /\ Dead' = Dead /\ s \in Used'
  <2>1. pc' \notin Helpers /\ pc \in Helpers
    BY <1>1 DEF Helpers
  <2>2. Used \subseteq Used' /\ Dead' = Dead
    BY <1>1, <2>1, UsedKept
  <2>3. s # 0 /\ s >= file /\ ~InContainers(s)
    BY <1>1, <2>1 DEF Good, IMarks
  <2>4. \A i \in 1..Len(containers') : containers'[i] # s
    BY <1>1, <2>3 DEF InContainers
  <2>5. s \in Used'
    BY <1>1, <1>5, <2>1, <2>3, <2>4 DEF Used, InContainers
  <2> QED
    BY <1>9, <2>2, <2>5
<1>11. /\ next'[s] = ENDOFCHAIN
       /\ \A y \in Used : c = <<>> \/ y # c[n] => next'[y] = next[y]
       /\ c # <<>> => next'[c[n]] = s
       /\ dirs' = IF n > 0 THEN dirs ELSE [dirs EXCEPT ![a].start = s]
  <2>1. CASE n = 0
    <3>1. next' = [next EXCEPT ![s] = ENDOFCHAIN] /\ c = <<>> /\ ~(old >= 0) /\ ~(n > 0)
      BY <1>2, <1>7, <2>1
    <3> QED
      BY <1>1, <1>5, <1>9, <3>1
  <2>2. CASE n > 0
    <3>1. old = c[n] /\ old \in Used /\ old >= 0 /\ old # s /\ old \in Sectors
      BY <1>7, <1>8, <1>9, <2>2
    <3>2. next' = [[next EXCEPT ![s] = ENDOFCHAIN] EXCEPT ![old] = s]
      BY <1>2, <3>1
    <3>3. c # <<>>
      BY <1>7, <2>2
    <3> QED
      BY <1>1, <1>5, <1>9, <2>2, <3>1, <3>2, <3>3
  <2> QED
    BY <1>4, <2>1, <2>2
<1>12. PICK new \in Ownings :
         /\ Chains(new, next', Used', Dead)
         /\ \A d \in Owners : d # a => new[d] = own[d]
         /\ new[a] # <<>> /\ Len(new[a]) = n + 1 /\ new[a][n + 1] = s
         /\ \A i \in 1..n : new[a][i] = c[i]
  <2>1. next'[s] < 0
    BY <1>11 DEF ENDOFCHAIN
  <2>2. Chains(own, next, Used, Dead)
    BY DEF Good
  <2>3. LinkedOn(own, a, next, next', Used, s)
    BY <1>11, <2>1 DEF c, n, LinkedOn
  <2>4. own[Rest] = <<>> /\ s \in Used' /\ s \in Nat /\ s \notin Used /\ Used \subseteq Used'
    BY <1>4, <1>5, <1>10
  <2>5. \E new \in Ownings : Chains(new, next', Used', Dead) /\ GrownBy(own, new, a, s)
    BY <1>4, <2>2, <2>3, <2>4, ChainsGrown
  <2> QED
    BY <2>5 DEF c, n, GrownBy
<1>13. \A d \in DOMAIN dirs : dirs[d] \in Entry
  BY DEF Facts, TypeOK, DirType
<1>14. /\ DOMAIN dirs' = DOMAIN dirs
       /\ \A d \in DOMAIN dirs : dirs'[d].size = dirs[d].size /\ (d # a => dirs'[d].start = dirs[d].start)
       /\ dirs'[a].start = IF n > 0 THEN dirs[a].start ELSE s
  <2>1. CASE n > 0
    BY <1>11, <2>1
  <2>2. CASE ~(n > 0)
    <3>1. dirs' = [dirs EXCEPT ![a].start = s]
      BY <1>11, <2>2
    <3>2. /\ DOMAIN dirs' = DOMAIN dirs
          /\ \A d \in DOMAIN dirs : /\ dirs'[d].size = dirs[d].size
                                    /\ dirs'[d].start = IF d = a THEN s ELSE dirs[d].start
      BY <1>13, <3>1, ChangedEntry
    <3>3. dirs'[a].start = s
      BY <1>4, <3>2
    <3> QED
      BY <2>2, <3>2, <3>3
  <2> QED
    BY <2>1, <2>2
<1>e. PICK m \in Nat : m = n + 1
  BY <1>4
<1>15. WrittenTo(new, m)'
  <2> DEFINE e == new[a]
  <2>1. offset' = (n + 1) * SectorSize /\ ((n + 1) - 1) * SectorSize < arg.size
    <3>1. offset = n * SectorSize /\ (n + 1) * SectorSize = n * SectorSize + SectorSize /\ (n + 1) - 1 = n
      BY <1>3, <1>4, <1>6, SectorCounts DEF WrittenTo
    <3> QED
      BY <1>1, <1>6, <3>1
  <2>2. n + 1 # 0 /\ old' = e[n + 1] /\ ~(n + 1 < Len(e))
    BY <1>1, <1>4, <1>12
  <2>3. ~Existing'
    BY <1>1, <1>11 DEF Existing, ENDOFCHAIN
  <2>4. dirs'[a].start = e[1]
    <3>1. CASE n > 0
      <4>1. c # <<>> /\ 1 \in 1..n
        BY <1>4, <1>7, <3>1
      <4>2. dirs[a].start = c[1]
        BY <1>3, <4>1 DEF WrittenTo, a, c
      <4> QED
        BY <1>12, <1>14, <3>1, <4>1, <4>2
    <3>2. CASE ~(n > 0)
      <4>1. n + 1 = 1
        BY <1>4, <3>2
      <4> QED
        BY <1>12, <1>14, <3>2, <4>1
    <3> QED
      BY <3>1, <3>2
  <2>5. dirs'[a].size = arg.size
    BY <1>3, <1>4, <1>14 DEF WrittenTo, a
  <2>6. /\ offset' = m * SectorSize /\ (m - 1) * SectorSize < arg.size /\ m # 0 /\ old' = e[m] /\ ~(m < Len(e))
    BY <1>e, <2>1, <2>2
  <2>7. arg' = arg /\ pc' = "WriteBig" /\ e = new[arg.d] /\ dirs'[arg.d].start = e[1] /\ dirs'[arg.d].size = arg.size
    BY <1>1, <2>4, <2>5 DEF a
  <2> HIDE DEF e
  <2> QED
    BY <2>3, <2>6, <2>7 DEF WrittenTo
<1>16. \A d \in Nat : d # a => Settled(new, dirs', d)
  <2>1. TAKE d \in Nat
  <2>2. HAVE d # a
  <2>3. new[d] = own[d]
    BY <1>12, <2>2 DEF Owners
  <2>4. /\ Chained(dirs', d) <=> Chained(dirs, d)
        /\ Chained(dirs, d) => dirs'[d].start = dirs[d].start /\ dirs'[d].size = dirs[d].size
    BY <1>14, <2>2 DEF Chained
  <2> QED
    BY <1>4, <2>2, <2>3, <2>4, SettledSame
<1>17. ~Dropped' /\ InBig' /\ IKind' /\ pc' \notin Helpers /\ new[Rest] = <<>>
  <2>1. Rest \in Owners /\ Rest # a
    BY <1>4 DEF Owners, Rest
  <2>2. new[Rest] = <<>>
    BY <1>4, <1>12, <2>1
  <2> QED
    BY <1>1, <2>2 DEF Dropped, InBig, IKind, Helpers
<1>18. Holds(new)'
  <2>1. m \in 0..Len(new[a])
    BY <1>4, <1>12, <1>e
  <2>2. m \in 0..Len(new[arg'.d])
    BY <1>1, <2>1 DEF a
  <2>3. pc' # "FreeFAT" /\ arg' = arg
    BY <1>1
  <2> QED
    BY <1>15, <1>16, <1>17, <2>2, <2>3 DEF Holds, a
<1>19. IMarks'
  BY <1>1, <1>17, MarksKept DEF Good
<1>20. Good(new)'
  BY <1>10, <1>12, <1>17, <1>18, <1>19 DEF Good
<1> QED
  BY <1>20

(* The loop is over: the stream keeps what has been written, and what        *)
(* follows is freed.                                                         *)
LEMMA FinishBigChains ==
  ASSUME NEW own \in Ownings, Good(own), Facts, FinishBig
  PROVE \E new \in Ownings : Good(new)'
<1> DEFINE a == arg.d
           c == own[a]
           n == Len(c)
<1>1. /\ pc = "WriteBig" /\ offset >= arg.size /\ InBig
      /\ UNCHANGED <<arg, OldSize, SecID, offset, nsec, next, loaded, file, set, containers, dirs>>
      /\ IF SecID > 0 /\ offset < OldSize THEN caller' = "Update" /\ pc' = "FreeFAT" ELSE pc' = "Update"
  BY DEF FinishBig, Goto, InBig, sectorVars, memoryVars, miniVars, dirVars, loopVars
<1>2. PICK k \in 0..n : WrittenTo(own, k)
  BY <1>1, LoopFacts
<1>3. /\ a \in DOMAIN dirs /\ a \in Nat /\ a \in Owners /\ arg.size \in Nat /\ arg.size > 0 /\ OldSize \in Nat
      /\ c \in Seq(Nat) /\ n \in Nat /\ own[Rest] = <<>> /\ \A d \in Nat : d # a => Settled(own, dirs, d)
      /\ IsBig(arg.size)
  BY <1>1, LoopFacts
<1>4. \A i \in 1..n : c[i] \in Used /\ c[i] \in Nat
  BY <1>3, OwnedSeq DEF Good, Chains, Within
<1>5. c # <<>> <=> n > 0
  BY <1>3
<1> HIDE DEF a, c, n
<1>6. /\ offset = k * SectorSize /\ (k > 0 => (k - 1) * SectorSize < arg.size)
      /\ k < n => SecID = c[k + 1] /\ n = SectorCount(OldSize)
      /\ k = n => ~Existing
      /\ c # <<>> => dirs[a].start = c[1]
      /\ dirs[a].size = arg.size
  BY <1>2 DEF WrittenTo, a, c, n
<1>7. k \in Nat /\ k = SectorCount(arg.size) /\ k > 0 /\ n > 0 /\ 1 \in 1..k /\ 1 \in 1..n
  <2>1. k \in Nat
    BY <1>2
  <2>2. k = SectorCount(arg.size) /\ SectorCount(arg.size) > 0
    BY <1>1, <1>3, <1>6, <2>1, SectorCounts
  <2> QED
    BY <1>2, <1>3, <2>1, <2>2
<1>8. dirs[a].start = c[1] /\ c[1] \in Nat /\ Chained(dirs, a)
  <2>1. dirs[a].start = c[1] /\ c[1] \in Nat
    BY <1>4, <1>5, <1>6, <1>7
  <2> QED
    BY <1>3, <1>6, <2>1 DEF Chained, ENDOFCHAIN
<1>9. ~Dropped' /\ ~InBig' /\ IKind' /\ pc' \notin Helpers
  BY <1>1 DEF Dropped, InBig, IKind, Helpers
<1>10. IMarks'
  BY <1>1, <1>9, MarksKept DEF Good
<1>11. Used \subseteq Used' /\ Dead' = Dead
  BY <1>1, <1>9, UsedKept
<1>12. CASE k = n
  <2>1. pc' = "Update"
    <3>1. ~(SecID > 0 /\ offset < OldSize)
      <4>1. ~(OldSize > offset /\ SecID >= 0) /\ SecID \in Int /\ offset \in Nat
        BY <1>6, <1>12 DEF Existing, Facts, TypeOK, CallType
      <4> QED
        BY <1>3, <4>1
    <3> QED
      BY <1>1, <3>1
  <2>2. Settled(own, dirs, a)
    BY <1>5, <1>6, <1>7, <1>8, <1>12 DEF Settled, c, n
  <2>3. Holds(own)'
    BY <1>1, <1>3, <1>9, <2>1, <2>2 DEF Holds
  <2>4. Chains(own, next', Used', Dead')
    BY <1>1, <1>11, ChainsKept DEF Good
  <2>5. Good(own)'
    BY <1>9, <1>10, <2>3, <2>4 DEF Good
  <2> QED
    BY <2>5
<1>13. CASE k < n
  <2>1. k + 1 \in 1..n /\ SecID = c[k + 1] /\ n = SectorCount(OldSize)
    BY <1>3, <1>6, <1>7, <1>13
  <2>2. SecID > 0
    <3>1. c[k + 1] # 0 /\ c[k + 1] \in Nat
      BY <1>4, <2>1 DEF Used
    <3> QED
      BY <2>1, <3>1
  <2>3. offset < OldSize
    BY <1>3, <1>6, <1>7, <1>13, <2>1, SectorCounts
  <2>4. pc' = "FreeFAT"
    BY <1>1, <2>2, <2>3
  <2>5. PICK new \in Ownings :
          /\ Chains(new, next, Used, Dead)
          /\ \A d \in Nat : d # a => new[d] = own[d]
          /\ Len(new[a]) = k /\ \A i \in 1..k : new[a][i] = c[i]
          /\ new[Rest] # <<>> /\ new[Rest][1] = c[k + 1]
    <3>1. Chains(own, next, Used, Dead) /\ k < Len(own[a])
      BY <1>13 DEF Good, c, n
    <3>2. \E new \in Ownings : Chains(new, next, Used, Dead) /\ CutAt(own, new, a, k)
      BY <1>3, <1>7, <3>1, ChainsCut
    <3> QED
      BY <3>2 DEF c, CutAt
  <2>6. Settled(new, dirs, a)
    <3>1. new[a] # <<>>
      BY <1>3, <1>7, <2>5, OwnedSeq
    <3> QED
      BY <1>6, <1>7, <1>8, <2>5, <3>1 DEF Settled
  <2>7. \A d \in Nat : Settled(new, dirs, d)
    <3>1. TAKE d \in Nat
    <3>2. CASE d # a
      BY <1>3, <2>5, <3>2, SettledSame
    <3> QED
      BY <2>6, <3>2
  <2>8. Holds(new)'
    BY <1>1, <1>9, <2>1, <2>4, <2>5, <2>7 DEF Holds
  <2>9. Chains(new, next', Used', Dead')
    BY <1>1, <1>11, <2>5, ChainsKept
  <2>10. Good(new)'
    BY <1>9, <1>10, <2>8, <2>9 DEF Good
  <2> QED
    BY <2>10
<1> QED
  BY <1>2, <1>3, <1>12, <1>13

(* A sector of the rest is freed. *)
LEMMA FreeFATChains ==
  ASSUME NEW own \in Ownings, Good(own), Facts, FreeFAT, errors' = 0
  PROVE \E new \in Ownings : Good(new)'
<1>1. /\ pc = "FreeFAT" /\ pc' = "FreeFAT" /\ SecID \in Sectors /\ SecID \in Nat
      /\ set[SecID] = "none" /\ SecID' = next[SecID]
      /\ UNCHANGED <<caller, arg, OldSize, offset, old, s, nsec, file, containers, dirs>>
      /\ loaded' = loaded \ {SecID}
      /\ next' = [next EXCEPT ![SecID] = next'[SecID]]
      /\ set' = [set EXCEPT ![SecID] = "Free"]
  <2>1. /\ pc = "FreeFAT" /\ SecID >= 0 /\ SecID \in Sectors /\ CanAdd(SecID, "Free") /\ SecID' = next[SecID]
        /\ Push(SecID) /\ UNCHANGED <<pc, caller, arg, OldSize, offset, old, s>>
        /\ UNCHANGED <<file, containers, dirs>>
    BY ErrorReturned DEF FreeFAT, Facts, miniVars, dirVars
  <2>2. /\ set[SecID] = "none" /\ SecID \in Nat /\ nsec' = nsec
        /\ loaded' = loaded \ {SecID} /\ set' = [set EXCEPT ![SecID] = "Free"]
        /\ next' = [next EXCEPT ![SecID] = DefaultNext(@, "Free")]
    <3>1. set[SecID] = "none"
      BY <2>1 DEF CanAdd
    <3> QED
      BY <2>1, <3>1 DEF Push, Sectors
  <2>3. next' = [next EXCEPT ![SecID] = next'[SecID]]
    BY <2>1, <2>2 DEF Facts, TypeOK, SectorsType
  <2> QED
    BY <2>1, <2>2, <2>3
<1>2. own[Rest] # <<>> /\ SecID = own[Rest][1] /\ Rest \in Owners
  <2>1. SUFFICES ASSUME own[Rest] = <<>> PROVE FALSE
    BY <1>1 DEF Good, Holds, Owners
  <2>2. Stops(own, SecID, Dead)
    BY <1>1, <2>1 DEF Good, Holds
  <2> QED
    BY <1>1, <2>1, <2>2 DEF Stops, Dead
<1>3. SecID \in Used
  <2>1. 1 \in 1..Len(own[Rest])
    BY <1>2, OwnedSeq
  <2> QED
    BY <1>2, <2>1 DEF Good, Chains, Within
<1>4. SecID >= file /\ ~InContainers(SecID) /\ SecID # 0
  BY <1>3 DEF Used
<1>5. Sectors' = Sectors /\ pc' \notin Helpers
  BY <1>1 DEF Sectors, Helpers
<1>6. set \in [Sectors -> ListNames \cup {"none"}] /\ next \in [Sectors -> Int]
  BY DEF Facts, TypeOK, SectorsType
<1>7. \A y \in Sectors : y # SecID => set'[y] = set[y] /\ next'[y] = next[y]
  BY <1>1, <1>6
<1>8. set'[SecID] = "Free"
  BY <1>1, <1>6
<1>9. Dead \subseteq Dead' /\ SecID \in Dead'
  BY <1>1, <1>4, <1>5, <1>7, <1>8 DEF Dead
<1>10. Used \ {SecID} \subseteq Used'
  <2>1. SUFFICES ASSUME NEW y \in Used, y # SecID PROVE y \in Used'
    OBVIOUS
  <2>2. y \in Sectors /\ y \in loaded /\ y # 0 /\ y >= file /\ set[y] = "none" /\ ~InContainers(y)
    BY DEF Used
  <2>3. \A i \in 1..Len(containers') : containers'[i] # y
    BY <1>1, <2>2 DEF InContainers
  <2> QED
    BY <1>1, <1>5, <1>7, <2>1, <2>2, <2>3 DEF Used, InContainers
<1>11. PICK new \in Ownings :
         /\ Chains(new, next', Used \ {SecID}, Dead')
         /\ \A d \in Nat : new[d] = own[d]
         /\ IF new[Rest] = <<>> THEN Stops(new, next[SecID], Dead') ELSE next[SecID] = new[Rest][1]
  <2>1. Chains(own, next, Used, Dead)
    BY DEF Good
  <2>2. \A y \in Used : y # own[Rest][1] => next'[y] = next[y]
    BY <1>2, <1>7 DEF Used
  <2>3. own[Rest][1] \in Dead'
    BY <1>2, <1>9
  <2>4. \E new \in Ownings :
          Chains(new, next', Used \ {own[Rest][1]}, Dead') /\ FreedBy(own, new, next[own[Rest][1]], Dead')
    BY <1>2, <1>9, <2>1, <2>2, <2>3, ChainsFreed
  <2>5. \E new \in Ownings : Chains(new, next', Used \ {SecID}, Dead') /\ FreedBy(own, new, next[SecID], Dead')
    BY <1>2, <2>4
  <2> QED
    BY <2>5 DEF FreedBy
<1>12. Chains(new, next', Used', Dead')
  BY <1>10, <1>11, ChainsKept
<1>13. Dropped' <=> Dropped
  BY <1>1 DEF Dropped
<1>14. Holds(new)'
  <2>1. ~InBig /\ ~InBig'
    BY <1>1 DEF InBig
  <2>2. \A d \in Nat : Settled(new, dirs, d) \/ (Dropped /\ d = arg.d)
    <3>1. TAKE d \in Nat
    <3>2. Settled(own, dirs, d) \/ (Dropped /\ d = arg.d)
      BY <2>1 DEF Good, Holds
    <3> QED
      BY <1>11, <3>2, SettledSame
  <2>3. Dropped => new[arg.d] = <<>>
    BY <1>11 DEF Good, Holds, Facts, TypeOK, CallType
  <2> QED
    BY <1>1, <1>11, <1>13, <2>1, <2>2, <2>3 DEF Holds
<1>15. IMarks'
  <2>1. IMarks
    BY DEF Good
  <2>2. \A i \in 1..Len(containers) : containers[i] \in Sectors /\ containers[i] # SecID
    BY <1>4 DEF InContainers, Facts, TypeOK, MiniType
  <2>3. \A y \in Sectors : set'[y] = "Free" => y \notin loaded'
    BY <1>1, <1>7, <2>1 DEF IMarks
  <2>4. \A i \in 1..Len(containers') : set'[containers'[i]] = "none"
    BY <1>1, <1>7, <2>1, <2>2 DEF IMarks
  <2>5. file' <= nsec' /\ pc' # "BigSector"
    BY <1>1, <2>1 DEF IMarks
  <2> QED
    BY <1>5, <2>3, <2>4, <2>5 DEF IMarks
<1>16. IKind'
  BY <1>1 DEF IKind
<1> QED
  BY <1>12, <1>14, <1>15, <1>16 DEF Good

(* Write, up to its first loop: what the stream owns is dropped when its size  *)
(* crosses the cutoff.                                                       *)
LEMMA WriteChains ==
  ASSUME NEW own \in Ownings, Good(own), Facts, NEW d \in Streams, NEW n \in Nat, NEW b, Write(d, n, b),
         pc = "Idle", UNCHANGED <<file, nsec, next, set, containers, dirs>>,
         loaded \subseteq loaded', \A x \in Sectors : x \in loaded' => x \in loaded \/ set[x] # "Free",
         errors' = 0
  PROVE \E new \in Ownings : Good(new)'
<1> DEFINE was == dirs[d].size
           dropsFAT == IsBig(was) /\ ~IsBig(n)
           dropsMini == was > 0 /\ ~IsBig(was) /\ (IsBig(n) \/ n = 0)
<1>1. d \in DOMAIN dirs /\ d \in Nat /\ d \in Owners /\ was \in Nat /\ errors \in Nat
  BY DEF Streams, Facts, TypeOK, DirType, Entry, Owners, CallType
<1>2. /\ ~((dropsFAT \/ dropsMini) /\ dirs[d].start < 0)
      /\ arg'.d = d /\ arg'.size = n /\ OldSize' = was
      /\ SecID' = IF dropsFAT \/ dropsMini THEN dirs[d].start ELSE ENDOFCHAIN
      /\ pc' = IF dropsFAT THEN "FreeFAT" ELSE IF dropsMini THEN "FreeMiniFAT" ELSE "Resize"
      /\ caller' = IF dropsFAT \/ dropsMini THEN "Resize" ELSE "none"
  BY <1>1 DEF Write
<1> HIDE DEF was
<1>3. /\ pc' \notin Helpers /\ ~InBig /\ ~InBig' /\ ~Dropped
      /\ Dropped' <=> dropsFAT \/ dropsMini \/ was = 0
  BY <1>1, <1>2, CutoffPositive DEF Helpers, InBig, Dropped, IsBig
<1>4. IKind'
  BY <1>2 DEF IKind
<1>5. IMarks' /\ Used \subseteq Used' /\ Dead' = Dead
  BY <1>3, MarksKept, UsedKept DEF Good
<1>6. \A e \in Nat : Settled(own, dirs, e)
  BY <1>3 DEF Good, Holds
<1>7. own[Rest] = <<>>
  BY DEF Good, Holds
<1>8. CASE ~dropsFAT
  <2>1. dropsMini \/ was = 0 => own[d] = <<>>
    BY <1>1, <1>6, CutoffPositive DEF Settled, Chained, was, IsBig
  <2>2. pc' # "FreeFAT"
    BY <1>2, <1>8
  <2>3. Holds(own)'
    BY <1>2, <1>3, <1>6, <1>7, <1>8, <2>1, <2>2 DEF Holds
  <2>4. Chains(own, next', Used', Dead')
    BY <1>5, ChainsKept DEF Good
  <2>5. Good(own)'
    BY <1>4, <1>5, <2>3, <2>4 DEF Good
  <2> QED
    BY <2>5
<1>9. CASE dropsFAT
  <2>1. Chained(dirs, d)
    BY <1>1, <1>2, <1>9 DEF Chained, was, ENDOFCHAIN
  <2>2. own[d] # <<>> /\ dirs[d].start = own[d][1] /\ 0 < Len(own[d])
    BY <1>1, <1>6, <2>1, OwnedSeq DEF Settled
  <2>3. PICK new \in Ownings : Chains(new, next, Used, Dead) /\ CutAt(own, new, d, 0)
    <3>1. Chains(own, next, Used, Dead) /\ 0 \in Nat
      BY DEF Good
    <3> QED
      BY <1>1, <1>7, <2>2, <3>1, ChainsCut
  <2>4. /\ \A e \in Nat : e # d => new[e] = own[e]
        /\ new[d] = <<>> /\ new[Rest] # <<>> /\ new[Rest][1] = own[d][1]
    BY <1>1, <2>3, OwnedSeq DEF CutAt
  <2>5. \A e \in Nat : e # d => Settled(new, dirs, e)
    BY <1>6, <2>4, SettledSame
  <2>6. Holds(new)'
    BY <1>2, <1>3, <1>9, <2>2, <2>4, <2>5 DEF Holds
  <2>7. Chains(new, next', Used', Dead')
    BY <1>5, <2>3, ChainsKept
  <2>8. Good(new)'
    BY <1>4, <1>5, <2>6, <2>7 DEF Good
  <2> QED
    BY <2>8
<1> QED
  BY <1>8, <1>9

\* The links of nx lead from k[1] through k[n].
Follows(nx, k, n) == k \in [1..n -> DOMAIN nx] /\ \A i \in 1..(n - 1) : nx[k[i]] = k[i + 1]

(* Following links gives the sectors that are linked. *)
LEMMA WalkOf ==
  ASSUME NEW nx, NEW n \in Nat, n > 0, NEW k, Follows(nx, k, n)
  PROVE \A i \in 0..(n - 1) : Walk(nx, k[1], n)[i] = k[i + 1]
<1>0. k \in [1..n -> DOMAIN nx] /\ \A i \in 1..(n - 1) : nx[k[i]] = k[i + 1]
  BY DEF Follows
<1> DEFINE C(f) == [i \in 0..(n - 1) |->
                      IF i = 0 THEN k[1]
                      ELSE IF f[i - 1] \in DOMAIN nx THEN nx[f[i - 1]] ELSE ENDOFCHAIN]
           c == CHOOSE f : f = C(f)
           m == [i \in 0..(n - 1) |-> k[i + 1]]
<1>1. \A i \in 0..(n - 1) : i # 0 => i - 1 \in 0..(n - 1) /\ i \in 1..(n - 1) /\ i - 1 + 1 = i /\ i \in 1..n
  OBVIOUS
<1>2. Walk(nx, k[1], n) = c
  BY DEF Walk
<1>3. C(m) = m
  <2>1. ASSUME NEW i \in 0..(n - 1), i # 0
        PROVE m[i - 1] \in DOMAIN nx /\ nx[m[i - 1]] = k[i + 1]
    <3>1. i - 1 \in 0..(n - 1) /\ i \in 1..(n - 1) /\ i - 1 + 1 = i /\ i \in 1..n
      BY <1>1, <2>1
    <3>2. m[i - 1] = k[i]
      BY <3>1
    <3> HIDE DEF m
    <3> QED
      BY <1>0, <3>1, <3>2
  <2>2. \A i \in 0..(n - 1) : C(m)[i] = k[i + 1]
    <3> HIDE DEF m
    <3> QED
      BY <2>1
  <2> QED
    BY <2>2
<1>4. c = C(c)
  <2> HIDE DEF m, C
  <2> QED
    BY <1>3
<1>5. \A i \in 0..(n - 1) : c[i] = k[i + 1]
  <2> HIDE DEF c
  <2>1. c[0] = k[1]
    BY <1>4
  <2>2. ASSUME NEW i \in 2..n, c[(i - 1) - 1] = k[i - 1]
        PROVE c[i - 1] = k[i]
    <3> DEFINE j == i - 1
    <3>1. j \in 0..(n - 1) /\ j # 0 /\ j + 1 = i /\ j \in 1..(n - 1) /\ j \in 1..n
      OBVIOUS
    <3>2. c[j - 1] = k[j]
      BY <2>2
    <3> HIDE DEF j
    <3>3. c[j] = IF c[j - 1] \in DOMAIN nx THEN nx[c[j - 1]] ELSE ENDOFCHAIN
      BY <1>4, <3>1
    <3>4. c[j] = k[j + 1]
      BY <1>0, <3>1, <3>2, <3>3
    <3> QED
      BY <3>1, <3>4 DEF j
  <2> DEFINE P == {i \in 1..n : c[i - 1] = k[i]}
  <2>3. n >= 1 => 1 \in P
    BY <2>1
  <2>4. \A i \in 2..n : i - 1 \in P => i \in P
    <3>1. SUFFICES ASSUME NEW i \in 2..n, i - 1 \in P PROVE i \in P
      OBVIOUS
    <3>2. c[(i - 1) - 1] = k[i - 1]
      BY <3>1
    <3> QED
      BY <2>2, <3>2
  <2> HIDE DEF P
  <2>5. \A i \in 1..n : i \in P
    BY <2>3, <2>4, Induct
  <2>6. \A i \in 1..n : c[i - 1] = k[i]
    BY <2>5 DEF P
  <2>7. \A i \in 0..(n - 1) : i + 1 \in 1..n /\ (i + 1) - 1 = i
    OBVIOUS
  <2> QED
    BY <2>6, <2>7
<1> HIDE DEF c
<1> QED
  BY <1>2, <1>5

(* Reading a stream goes through the sectors it owns. *)
LEMMA ChainOwned ==
  ASSUME NEW own \in Ownings, Good(own), Facts, NEW d \in Nat, Settled(own, dirs, d), Chained(dirs, d)
  PROVE /\ ChainLen(d) = Len(own[d]) /\ Len(own[d]) \in Nat
        /\ \A i \in 0..(ChainLen(d) - 1) :
             i + 1 \in 1..Len(own[d]) /\ Chain(d)[i] = own[d][i + 1] /\ Chain(d)[i] \in Used
<1> DEFINE n == Len(own[d])
           k == [i \in 1..n |-> own[d][i]]
<1>1. d \in Owners /\ n \in Nat /\ n > 0 /\ dirs[d].start = own[d][1] /\ n = SectorCount(dirs[d].size)
      /\ IsBig(dirs[d].size)
  BY OwnedSeq DEF Settled, Chained, Owners
<1>2. ChainLen(d) = n /\ Chain(d) = Walk(next, own[d][1], n)
  BY <1>1 DEF ChainLen, Chain
<1>3. \A i \in 1..n : own[d][i] \in Used /\ own[d][i] \in DOMAIN next
  BY <1>1 DEF Good, Chains, Within, Used, Facts, TypeOK, SectorsType
<1>4. \A i \in 1..(n - 1) : next[own[d][i]] = own[d][i + 1]
  BY <1>1 DEF Good, Chains, Linked
<1>5. \A i \in 0..(n - 1) : i + 1 \in 1..n
  BY <1>1
<1> HIDE DEF n
<1>6. k \in [1..n -> DOMAIN next] /\ k[1] = own[d][1]
  BY <1>1, <1>3
<1>7. \A i \in 1..(n - 1) : i \in 1..n /\ i + 1 \in 1..n
  BY <1>1
<1>8. \A i \in 1..(n - 1) : next[k[i]] = k[i + 1]
  BY <1>4, <1>7
<1>9. \A i \in 1..n : k[i] = own[d][i]
  OBVIOUS
<1> HIDE DEF k
<1>10. \A i \in 0..(n - 1) : Walk(next, k[1], n)[i] = k[i + 1]
  <2>1. n \in Nat /\ n > 0 /\ k \in [1..n -> DOMAIN next]
    BY <1>1, <1>6
  <2>2. Follows(next, k, n)
    BY <1>8, <2>1 DEF Follows
  <2>3. \A i \in 0..(n - 1) : Walk(next, k[1], n)[i] = k[i + 1]
    BY <2>1, <2>2, WalkOf
  <2> QED
    BY <2>3
<1>11. \A i \in 0..(n - 1) : Chain(d)[i] = own[d][i + 1] /\ Chain(d)[i] \in Used
  BY <1>2, <1>3, <1>5, <1>6, <1>9, <1>10
<1> QED
  BY <1>1, <1>2, <1>5, <1>11 DEF n

(* No free sector is read. *)
LEMMA ReadKnown ==
  ASSUME NEW own \in Ownings, Good(own), Facts, pc = "Idle", NEW d \in Streams
  PROVE \A x \in ReadSectors(d) : set[x] = "none"
<1>1. d \in Nat /\ Settled(own, dirs, d) /\ d \in DOMAIN dirs
  BY DEF Streams, Facts, TypeOK, DirType, Good, Holds, Dropped, InBig
<1>2. SUFFICES ASSUME NEW i \in 0..(ChainLen(d) - 1), \A j \in 0..i : StepReadable(d, j)
               PROVE set[IF IsBig(dirs[d].size) THEN Chain(d)[i] ELSE SectorOf(Chain(d)[i])] = "none"
  BY DEF ReadSectors
<1>3. StepReadable(d, i)
  BY <1>2
<1>4. CASE IsBig(dirs[d].size)
  <2>1. dirs[d].start > 0
    BY <1>3, <1>4 DEF StepReadable
  <2>2. Chained(dirs, d)
    BY <1>1, <1>4, <2>1 DEF Chained, ENDOFCHAIN
  <2>3. Chain(d)[i] \in Used
    BY <1>1, <2>2, ChainOwned
  <2> QED
    BY <1>4, <2>3 DEF Used
<1>5. CASE ~IsBig(dirs[d].size)
  <2> DEFINE m == Chain(d)[i]
  <2>1. m \in Minis
    BY <1>3, <1>5 DEF StepReadable
  <2> HIDE DEF m
  <2>2. (m \div MinisPerSector) + 1 \in 1..Len(containers)
    <3>1. MinisPerSector \in Nat /\ MinisPerSector >= 1 /\ Len(containers) \in Nat
      BY LayoutFacts DEF Facts, TypeOK, MiniType
    <3>2. m \in 0..(MinisPerSector * Len(containers) - 1)
      BY <2>1 DEF Facts, TypeOK, MiniType, Minis
    <3> QED
      BY <3>1, <3>2
  <2>3. set[SectorOf(m)] = "none"
    BY <2>2 DEF SectorOf, Good, IMarks
  <2> QED
    BY <1>5, <2>3 DEF m
<1> QED
  BY <1>4, <1>5

(* The calls: what they read and what they start. *)
LEMMA CallChains ==
  ASSUME NEW own \in Ownings, Good(own), Facts, errors' = 0, errors = 0,
         \/ StreamCall
         \/ FileCall /\ file' = file /\ \A x \in loaded' : set[x] # "Free"
  PROVE \E new \in Ownings : Good(new)'
<1>1. ASSUME NEW d \in Streams, pc = "Idle", LoadRead(d)
      PROVE loaded \subseteq loaded' /\ \A x \in Sectors : x \in loaded' => x \in loaded \/ set[x] # "Free"
  BY <1>1, ReadKnown DEF LoadRead, ReadIn
<1>2. ASSUME pc = "Idle", pc' \in {"Idle", "Alloc", "NewEntry"}, pc' = "Alloc" => caller' = "DirSector",
             UNCHANGED <<file, nsec, next, set, containers, dirs>>,
             loaded \subseteq loaded', \A x \in Sectors : x \in loaded' => x \in loaded \/ set[x] # "Free"
      PROVE Good(own)'
  <2>1. pc' \notin Helpers /\ IKind' /\ ~InBig /\ ~InBig' /\ ~Dropped /\ ~Dropped' /\ pc' # "FreeFAT"
    BY <1>2 DEF Helpers, IKind, InBig, Dropped
  <2> QED
    BY <1>2, <2>1, QuietStep DEF Facts
<1>3. CASE AddStream
  <2>1. /\ pc = "Idle" /\ pc' \in {"Alloc", "NewEntry"} /\ (pc' = "Alloc" => caller' = "DirSector")
        /\ UNCHANGED <<file, nsec, next, loaded, set, containers, dirs>>
    BY <1>3, Zenon DEF AddStream, CanCall, memVars, sectorVars, memoryVars, miniVars, dirVars
  <2>2. Good(own)'
    BY <1>2, <2>1
  <2> QED
    BY <2>2
<1>4. ASSUME NEW d \in Streams, GetData(d)
      PROVE Good(own)'
  BY <1>1, <1>2, <1>4 DEF GetData, Answer, CanCall, LoadRead, ReadIn, memoryVars, miniVars, dirVars
<1>5. ASSUME NEW d \in Streams, NEW v \in Values, NEW n \in Sizes, SetData(d, v, n)
      PROVE \E new \in Ownings : Good(new)'
  <2>1. n \in Nat /\ pc = "Idle" /\ UNCHANGED <<file, nsec, next, loaded, set, containers, dirs>>
    BY <1>5, InstanceAssumption DEF SetData, CanCall, memVars, sectorVars, memoryVars, miniVars, dirVars
  <2> DEFINE b == Fresh(d, v, n)
  <2>2. Write(d, n, b)
    BY <1>5 DEF SetData
  <2> HIDE DEF b
  <2> QED
    BY <2>1, <2>2, WriteChains
<1>6. ASSUME NEW d \in Streams, NEW v \in Values, NEW n \in AppendSizes, AppendData(d, v, n)
      PROVE \E new \in Ownings : Good(new)'
  <2>1. n \in Nat /\ pc = "Idle" /\ UNCHANGED <<file, nsec, next, set, containers, dirs>> /\ LoadRead(d)
        /\ dirs[d].size \in Nat
    BY <1>6, InstanceAssumption
       DEF AppendData, CanCall, memoryVars, miniVars, dirVars, Facts, TypeOK, DirType, Entry, Streams
  <2> DEFINE m == dirs[d].size + n
  <2>2. \E b : Write(d, m, b)
    BY <1>6 DEF AppendData
  <2>3. m \in Nat
    BY <2>1
  <2> HIDE DEF m
  <2> QED
    BY <1>1, <2>1, <2>2, <2>3, WriteChains
<1>7. CASE FileCall /\ file' = file /\ \A x \in loaded' : set[x] # "Free"
  <2>1. /\ pc = "Idle" /\ pc' = "Idle" /\ UNCHANGED <<file, nsec, next, set, containers, dirs>>
        /\ loaded \subseteq loaded'
    BY <1>7, FileCallKeeps DEF Facts
  <2>2. Good(own)'
    BY <1>2, <1>7, <2>1
  <2> QED
    BY <2>2
<1> QED
  BY <1>3, <1>4, <1>5, <1>6, <1>7 DEF StreamCall

(* While a sector is being found, what the loops say stays true. *)
LEMMA AllocHolds ==
  ASSUME NEW own \in Ownings, Good(own), Facts, pc \in {"Alloc", "AllocNew"}, pc' \in {"AllocNew", caller},
         UNCHANGED <<caller, arg, OldSize, offset, SecID, old, dirs>>
  PROVE Holds(own)' /\ IKind' /\ (InBig' <=> InBig)
<1>1. caller \in Helpers
  BY DEF Facts, IControl, Helpers
<1>2. /\ pc' # "FreeFAT" /\ pc' # "WriteBig" /\ ~Dropped /\ ~Dropped' /\ IKind'
      /\ InBig <=> caller = "BigSector"
      /\ InBig' <=> caller = "BigSector"
  BY <1>1 DEF Helpers, Dropped, InBig, IKind
<1>3. own[Rest] = <<>>
  BY DEF Good, Holds
<1>4. ASSUME InBig, NEW k \in 0..Len(own[arg.d]), WrittenTo(own, k)
      PROVE WrittenTo(own, k)'
  BY <1>2, <1>4 DEF WrittenTo, Existing
<1>5. InBig => \E k \in 0..Len(own[arg.d]) : WrittenTo(own, k)
  BY DEF Good, Holds
<1>6. \A d \in Nat : Settled(own, dirs, d) \/ (InBig /\ d = arg.d)
  BY <1>2 DEF Good, Holds
<1>7. InBig' => \E k \in 0..Len(own[arg'.d]) : WrittenTo(own, k)'
  BY <1>2, <1>4, <1>5
<1> QED
  BY <1>2, <1>3, <1>6, <1>7 DEF Holds

(* New sectors take nothing from what is owned. *)
LEMMA AppendChains ==
  ASSUME NEW own \in Ownings, Good(own), Facts, NEW k \in {1, 2}, NEW ts, NEW slots, AppendSectors(k, ts, slots),
         \A j \in 1..k : ts[j] \in {"none", "TableFat", "DIFAT"},
         UNCHANGED <<file, containers>>, pc \notin Helpers, pc' \in Helpers => s' = nsec
  PROVE /\ Chains(own, next', Used', Dead')
        /\ file' <= nsec' /\ \A x \in Sectors' : set'[x] = "Free" => x \notin loaded'
        /\ \A i \in 1..Len(containers') : set'[containers'[i]] = "none" /\ containers'[i] # nsec
<1>1. TypeOK /\ IMarks /\ Chains(own, next, Used, Dead)
  BY DEF Facts, Good
<1>2. /\ Sectors \subseteq Sectors' /\ nsec \in Nat
      /\ \A y \in Sectors' : \/ y \in Sectors /\ set'[y] = set[y]
                             \/ \E j \in 1..k : y = nsec + j - 1 /\ y \notin Sectors /\ set'[y] = ts[j]
  BY <1>1, AppendMarks
<1>3. /\ nsec' = nsec + k /\ loaded' = loaded \cup nsec..(nsec + k - 1)
      /\ Sectors = 0..(nsec - 1) /\ Sectors' = 0..(nsec + k - 1)
      /\ \A y \in Sectors : next'[y] = next[y]
  BY <1>2 DEF AppendSectors, Sectors
<1>4. \A y \in Sectors : y \in loaded' <=> y \in loaded
  BY <1>2, <1>3
<1>5. \A y \in Sectors : set'[y] = set[y] /\ y \in Sectors'
  BY <1>2
<1>6. \A y \in Sectors' : set'[y] = "Free" => y \in Sectors /\ set[y] = "Free"
  BY <1>2
<1>7. \A i \in 1..Len(containers) : containers[i] \in Sectors
  BY <1>1 DEF TypeOK, MiniType
<1>8. nsec \notin Sectors
  BY <1>2, <1>3
<1>9. \A x \in Sectors' : set'[x] = "Free" => x \notin loaded'
  BY <1>1, <1>4, <1>6 DEF IMarks
<1>10. \A i \in 1..Len(containers') : set'[containers'[i]] = "none" /\ containers'[i] # nsec
  BY <1>1, <1>5, <1>7, <1>8 DEF IMarks
<1>11. file' <= nsec'
  BY <1>1, <1>2, <1>3 DEF IMarks, TypeOK, SectorsType
<1>12. Dead \subseteq Dead'
  BY <1>5 DEF Dead
<1>13. Used \subseteq Used'
  <2>1. SUFFICES ASSUME NEW y \in Used PROVE y \in Used'
    OBVIOUS
  <2>2. y \in Sectors /\ y \in loaded /\ y # 0 /\ y >= file /\ set[y] = "none" /\ ~InContainers(y)
    BY DEF Used
  <2>3. \A i \in 1..Len(containers') : containers'[i] # y
    BY <2>2 DEF InContainers
  <2>4. pc' \in Helpers => y # s'
    BY <1>8, <2>2
  <2> QED
    BY <1>4, <1>5, <2>2, <2>3, <2>4 DEF Used, InContainers
<1>14. Chains(own, next', Used', Dead')
  <2>1. \A y \in Used : next'[y] = next[y]
    BY <1>3 DEF Used
  <2> QED
    BY <1>1, <1>12, <1>13, <2>1, ChainsKept
<1> QED
  BY <1>9, <1>10, <1>11, <1>14

(* A new sector is never sector 0. *)
LEMMA NewNotFirst ==
  ASSUME TypeOK, ListsMatchSet, Coverage, AllocNew
  PROVE nsec # 0
<1>1. nsec < CountFat
  BY Counts DEF AllocNew, NeedsTable, Coverage, TypeOK, SectorsType
<1>2. SUFFICES ASSUME nsec = 0 PROVE FALSE
  OBVIOUS
<1>3. Sectors = {}
  BY <1>2 DEF Sectors
<1>4. Len(memFat) = 0
  <2>1. Len(memFat) \in Nat
    BY DEF TypeOK, TablesType
  <2>2. Len(memFat) >= 1 => 1 \in 1..Len(memFat)
    BY <2>1
  <2>3. \A i \in 1..Len(memFat) : memFat[i] \in Sectors
    BY DEF ListsMatchSet, IsList
  <2> QED
    BY <1>3, <2>1, <2>2, <2>3
<1>5. CountFat = 0
  BY <1>4, LayoutFacts DEF CountFat
<1> QED
  BY <1>1, <1>2, <1>5

(* A sector is found, and not one that the caller cannot use. *)
LEMMA AllocChains ==
  ASSUME NEW own \in Ownings, Good(own), Facts, ~Doomed', AllocFree \/ AllocTable \/ AllocNew
  PROVE Good(own)'
<1>1. caller \in Helpers /\ pc \notin Helpers
  BY DEF AllocFree, AllocTable, AllocNew, Facts, IControl, Helpers
<1>2. /\ pc \in {"Alloc", "AllocNew"} /\ pc' \in {"AllocNew", caller}
      /\ UNCHANGED <<caller, arg, OldSize, offset, SecID, old, dirs, file, containers>>
  BY DEF AllocFree, AllocTable, AllocNew, Allocated, Goto, miniVars, dirVars, loopVars
<1>3. Holds(own)' /\ IKind' /\ (InBig' <=> InBig)
  BY <1>2, AllocHolds
<1>4. CASE AllocTable
  <2>1. pc' = "AllocNew" /\ pc' \notin Helpers
    BY <1>4 DEF AllocTable, Goto, Helpers
  <2>2. PICK k \in {1, 2}, ts \in {<<"TableFat">>, <<"TableFat", "DIFAT">>} :
          AppendSectors(k, ts, EntriesPerSector) /\ \A j \in 1..k : ts[j] \in {"none", "TableFat", "DIFAT"}
    BY <1>4 DEF AllocTable, AddTableInHeader, AddTableInDIFAT, AddTableAndDIFAT
  <2>3. /\ Chains(own, next', Used', Dead')
        /\ file' <= nsec' /\ \A x \in Sectors' : set'[x] = "Free" => x \notin loaded'
        /\ \A i \in 1..Len(containers') : set'[containers'[i]] = "none"
    BY <1>1, <1>2, <2>1, <2>2, AppendChains
  <2>4. IMarks'
    BY <2>1, <2>3 DEF IMarks, Helpers
  <2> QED
    BY <1>3, <2>3, <2>4 DEF Good
<1>5. CASE AllocNew
  <2>1. s' = nsec /\ AppendSectors(1, <<"none">>, 0) /\ pc' = caller
    BY <1>5 DEF AllocNew, NewSector, Allocated, Goto
  <2>2. /\ Chains(own, next', Used', Dead')
        /\ file' <= nsec' /\ \A x \in Sectors' : set'[x] = "Free" => x \notin loaded'
        /\ \A i \in 1..Len(containers') : set'[containers'[i]] = "none" /\ containers'[i] # nsec
    <3> DEFINE ts == <<"none">>
    <3>1. \A j \in 1..1 : ts[j] \in {"none", "TableFat", "DIFAT"}
      OBVIOUS
    <3>2. AppendSectors(1, ts, 0) /\ 1 \in {1, 2}
      BY <2>1
    <3> HIDE DEF ts
    <3> QED
      BY <1>1, <1>2, <2>1, <3>1, <3>2, AppendChains
  <2>3. s' >= file' /\ s' # 0
    <3>1. nsec # 0
      BY <1>5, NewNotFirst DEF Facts
    <3> QED
      BY <1>2, <2>1, <3>1 DEF Good, IMarks, Facts, TypeOK, SectorsType
  <2>4. IMarks'
    BY <2>1, <2>2, <2>3 DEF IMarks, InContainers
  <2> QED
    BY <1>3, <2>2, <2>4 DEF Good
<1>6. CASE AllocFree
  <2>1. PICK x \in Sectors : /\ memFree # <<>> /\ x = Head(memFree) /\ set' = [set EXCEPT ![x] = "none"]
                             /\ UNCHANGED <<nsec, next, loaded>> /\ s' = x /\ pc' = caller
    BY <1>6 DEF AllocFree, PopFree, Allocated, Goto, sectorVars
  <2>2. set[x] = "Free"
    <3>1. memFree \in Seq(Nat)
      BY DEF Facts, TypeOK, TablesType
    <3>2. 1 \in 1..Len(memFree) /\ Head(memFree) = memFree[1]
      BY <2>1, <3>1
    <3> QED
      BY <2>1, <3>2 DEF Facts, ListsMatchSet, IsList
  <2>3. x \notin loaded
    BY <2>2 DEF Good, IMarks
  <2>4. pc' = "Container" /\ x < file
    BY <1>1, <1>2, <2>1, <2>3 DEF Doomed, Readable, Helpers
  <2>5. Sectors' = Sectors /\ \A y \in Sectors : y # x => set'[y] = set[y]
    BY <2>1 DEF Sectors, Facts, TypeOK, SectorsType
  <2>6. set'[x] = "none"
    BY <2>1 DEF Facts, TypeOK, SectorsType
  <2>7. \A i \in 1..Len(containers) : containers[i] \in Sectors /\ set[containers[i]] = "none"
    BY DEF Good, IMarks, Facts, TypeOK, MiniType
  <2>8. Dead \subseteq Dead'
    <3>1. \A y \in Sectors : y >= file => y # x
      BY <2>4 DEF Sectors, Facts, TypeOK, SectorsType
    <3> QED
      BY <1>2, <2>5, <3>1 DEF Dead
  <2>9. Used \subseteq Used'
    <3>1. SUFFICES ASSUME NEW y \in Used PROVE y \in Used'
      OBVIOUS
    <3>2. y \in Sectors /\ y \in loaded /\ y # 0 /\ y >= file /\ set[y] = "none" /\ ~InContainers(y) /\ y # x
      BY <2>3 DEF Used
    <3>3. \A i \in 1..Len(containers') : containers'[i] # y
      BY <1>2, <3>2 DEF InContainers
    <3> QED
      BY <1>2, <2>1, <2>5, <3>2, <3>3 DEF Used, InContainers
  <2>10. Chains(own, next', Used', Dead')
    BY <2>1, <2>8, <2>9, ChainsKept DEF Good
  <2>11. IMarks'
    <3>1. IMarks
      BY DEF Good
    <3>2. \A y \in Sectors' : set'[y] = "Free" => y \notin loaded'
      BY <2>1, <2>5, <2>6, <3>1 DEF IMarks
    <3>3. \A i \in 1..Len(containers') : set'[containers'[i]] = "none" /\ containers'[i] # s'
      BY <1>2, <2>1, <2>2, <2>5, <2>6, <2>7
    <3> QED
      BY <1>2, <2>1, <2>4, <3>1, <3>2, <3>3 DEF IMarks, InContainers
  <2> QED
    BY <1>3, <2>10, <2>11 DEF Good
<1> QED
  BY <1>4, <1>5, <1>6

(* A sector becomes a table, a container or a directory sector: it and those  *)
(* it is linked to are no stream's.                                          *)
LEMMA TableChains ==
  ASSUME NEW own \in Ownings, Good(own), Facts, pc \in {"MiniTable", "Container", "DirSector"},
         \/ pc' \in {"WriteMini", "NewEntry"}
         \/ pc' = "Alloc" /\ caller' \in {"MiniTable", "Container"},
         UNCHANGED <<nsec, file, loaded, arg, OldSize>>,
         \A y \in Used : next'[y] = next[y],
         \A y \in Sectors : y # s => set'[y] = set[y],
         set'[s] # "Free",
         \A i \in 1..Len(containers') : \/ i \in 1..Len(containers) /\ containers'[i] = containers[i]
                                        \/ containers'[i] = s /\ set'[s] = "none",
         \A d \in Nat : Settled(own, dirs, d) => Settled(own, dirs', d)
  PROVE Good(own)'
<1>1. /\ pc' \notin Helpers /\ pc \in Helpers /\ pc # "FreeFAT" /\ pc' # "FreeFAT"
      /\ ~InBig /\ ~InBig' /\ ~Dropped /\ ~Dropped' /\ IKind'
  BY DEF Helpers, InBig, Dropped, IKind
<1>2. s \in Sectors /\ set[s] = "none" /\ ~InContainers(s) /\ Sectors' = Sectors
  BY <1>1 DEF Facts, IControl, Helpers, Good, IMarks, Sectors
<1>3. Holds(own)'
  BY <1>1 DEF Good, Holds
<1>4. IMarks'
  <2>1. IMarks
    BY DEF Good
  <2>2. \A i \in 1..Len(containers) : containers[i] \in Sectors /\ containers[i] # s
    BY <1>2 DEF InContainers, Facts, TypeOK, MiniType
  <2>3. \A y \in Sectors : set'[y] = "Free" => set[y] = "Free"
    BY <1>2
  <2>4. \A i \in 1..Len(containers') : set'[containers'[i]] = "none"
    BY <2>1, <2>2 DEF IMarks
  <2>5. pc' # "BigSector"
    OBVIOUS
  <2> QED
    BY <1>1, <1>2, <2>1, <2>3, <2>4, <2>5 DEF IMarks
<1>5. Dead \subseteq Dead'
  BY <1>2 DEF Dead
<1>6. Used \subseteq Used'
  <2>1. SUFFICES ASSUME NEW y \in Used PROVE y \in Used'
    OBVIOUS
  <2>2. y \in Sectors /\ y \in loaded /\ y # 0 /\ y >= file /\ set[y] = "none" /\ ~InContainers(y) /\ y # s
    BY <1>1 DEF Used
  <2>3. \A i \in 1..Len(containers') : containers'[i] # y
    BY <2>2 DEF InContainers
  <2> QED
    BY <1>1, <1>2, <2>2, <2>3 DEF Used, InContainers
<1>7. Chains(own, next', Used', Dead')
  BY <1>5, <1>6, ChainsKept DEF Good
<1> QED
  BY <1>1, <1>3, <1>4, <1>7 DEF Good

(* A miniFAT sector is added. *)
LEMMA MiniTableChains ==
  ASSUME NEW own \in Ownings, Good(own), Facts, MiniTable, errors' = 0
  PROVE Good(own)'
<1>1. /\ pc = "MiniTable" /\ pc' = "Alloc" /\ caller' = "Container"
      /\ UNCHANGED <<nsec, file, loaded, arg, OldSize, containers, dirs>>
      /\ set' = [set EXCEPT ![s] = "TableMini"]
      /\ \E v : next' = [(IF memMini = <<>> THEN next ELSE [next EXCEPT ![Last(memMini)] = s]) EXCEPT ![s] = v]
  <2>1. /\ pc = "MiniTable" /\ pc' = "Alloc" /\ caller' = "Container"
        /\ UNCHANGED <<nsec, file, loaded, arg, OldSize, containers, dirs>>
        /\ set' = [set EXCEPT ![s] = "TableMini"]
    BY ErrorReturned DEF MiniTable, Goto, Facts, loopVars, dirVars
  <2>2. next' = [(IF memMini = <<>> THEN next ELSE [next EXCEPT ![Last(memMini)] = s])
                   EXCEPT ![s] = DefaultNext(@, "TableMini")]
    BY ErrorReturned DEF MiniTable, Facts
  <2> QED
    BY <2>1, <2>2
<1>2. next \in [Sectors -> Int] /\ set \in [Sectors -> ListNames \cup {"none"}] /\ s \in Sectors
  BY <1>1 DEF Facts, TypeOK, SectorsType, IControl
<1>3. memMini # <<>> => set[Last(memMini)] = "TableMini"
  <2>1. memMini \in Seq(Nat)
    BY DEF Facts, TypeOK, TablesType
  <2>2. memMini # <<>> => Len(memMini) \in 1..Len(memMini)
    BY <2>1
  <2> QED
    BY <2>2 DEF Last, Facts, ListsMatchSet, IsList
<1>4. \A y \in Used : y \in Sectors /\ y # s /\ (memMini # <<>> => y # Last(memMini))
  BY <1>1, <1>3 DEF Used, Helpers
<1>5. \A y \in Used : next'[y] = next[y]
  <2> DEFINE l == Last(memMini)
  <2>1. \A y \in Used : y \in Sectors /\ y # s /\ (memMini # <<>> => y # l)
    BY <1>4
  <2>2. \E v : next' = [(IF memMini = <<>> THEN next ELSE [next EXCEPT ![l] = s]) EXCEPT ![s] = v]
    BY <1>1
  <2> HIDE DEF l
  <2> QED
    BY <1>2, <2>1, <2>2
<1>6. (\A y \in Sectors : y # s => set'[y] = set[y]) /\ set'[s] # "Free"
  BY <1>1, <1>2
<1> QED
  BY <1>1, <1>5, <1>6, TableChains

(* A container is added, at the end of the chain the root entry starts. *)
LEMMA ContainerChains ==
  ASSUME NEW own \in Ownings, Good(own), Facts, Container
  PROVE Good(own)'
<1>1. /\ pc = "Container" /\ pc' = "WriteMini"
      /\ UNCHANGED <<nsec, file, loaded, arg, OldSize, set>>
      /\ next' = IF containers = <<>> THEN [next EXCEPT ![s] = ENDOFCHAIN]
                 ELSE [[next EXCEPT ![s] = ENDOFCHAIN] EXCEPT ![Last(containers)] = s]
      /\ containers' = Append(containers, s)
      /\ dirs' = IF containers = <<>> THEN [dirs EXCEPT ![0].start = s] ELSE dirs
  BY DEF Container, Goto, loopVars, memoryVars
<1>2. next \in [Sectors -> Int] /\ s \in Sectors /\ set[s] = "none" /\ containers \in Seq(Nat) /\ s \in Nat
  BY <1>1 DEF Facts, TypeOK, SectorsType, MiniType, IControl, Sectors
<1>3. \A y \in Used : y \in Sectors /\ y # s /\ (containers # <<>> => y # Last(containers))
  <2>1. containers # <<>> => Len(containers) \in 1..Len(containers)
    BY <1>2
  <2>2. containers # <<>> => InContainers(Last(containers))
    BY <2>1 DEF Last, InContainers
  <2> QED
    BY <1>1, <2>2 DEF Used, Helpers
<1>4. \A y \in Used : next'[y] = next[y]
  <2> DEFINE l == Last(containers)
  <2>1. \A y \in Used : y \in Sectors /\ y # s /\ (containers # <<>> => y # l)
    BY <1>3
  <2>2. next' = IF containers = <<>> THEN [next EXCEPT ![s] = ENDOFCHAIN]
                ELSE [[next EXCEPT ![s] = ENDOFCHAIN] EXCEPT ![l] = s]
    BY <1>1
  <2> HIDE DEF l
  <2> QED
    BY <1>2, <2>1, <2>2
<1>5. \A i \in 1..Len(containers') : \/ i \in 1..Len(containers) /\ containers'[i] = containers[i]
                                     \/ containers'[i] = s /\ set'[s] = "none"
  <2> DEFINE c == Append(containers, s)
  <2>1. /\ Len(c) = Len(containers) + 1 /\ Len(containers) \in Nat /\ c[Len(containers) + 1] = s
        /\ \A i \in 1..Len(containers) : c[i] = containers[i]
    BY <1>2, AppendOf
  <2>2. containers' = c
    BY <1>1
  <2> HIDE DEF c
  <2>3. \A i \in 1..(Len(containers) + 1) : i \in 1..Len(containers) \/ i = Len(containers) + 1
    BY <2>1
  <2> QED
    BY <1>1, <1>2, <2>1, <2>2, <2>3
<1>6. \A d \in Nat : Settled(own, dirs, d) => Settled(own, dirs', d)
  <2>1. 0 \in DOMAIN dirs => ~IsBig(dirs[0].size)
    BY <1>1, CutoffPositive DEF Facts, IRoot, ForEntry, IsBig
  <2>2. CASE dirs' = dirs
    BY <2>2
  <2>3. CASE dirs' = [dirs EXCEPT ![0].start = s]
    <3> DEFINE z == 0
    <3>1. (z \in DOMAIN dirs => ~IsBig(dirs[z].size)) /\ dirs' = [dirs EXCEPT ![z].start = s]
      BY <2>1, <2>3
    <3> HIDE DEF z
    <3> QED
      BY <3>1, StartSettled DEF Facts
  <2> QED
    BY <1>1, <2>2, <2>3
<1>7. (\A y \in Sectors : y # s => set'[y] = set[y]) /\ set'[s] # "Free"
  BY <1>1, <1>2
<1> QED
  BY <1>1, <1>4, <1>5, <1>6, <1>7, TableChains

(* A directory sector is added. *)
LEMMA DirSectorChains ==
  ASSUME NEW own \in Ownings, Good(own), Facts, DirSector, errors' = 0
  PROVE Good(own)'
<1> DEFINE n == Cardinality(DOMAIN dirs)
           K == DirsPerSector
<1>1. /\ pc = "DirSector" /\ pc' = "NewEntry"
      /\ UNCHANGED <<nsec, file, loaded, arg, OldSize, containers>>
      /\ set' = [set EXCEPT ![s] = "Dir"]
      /\ dirs' = Extend(dirs, n, K, EmptyEntry)
  BY ErrorReturned DEF DirSector, Goto, Facts, loopVars, miniVars
<1>2. \E v : next' = IF memDir = <<>> THEN [next EXCEPT ![s] = v]
                     ELSE [[next EXCEPT ![s] = v] EXCEPT ![Last(memDir)] = s]
  <2>1. next' = IF memDir = <<>> THEN [next EXCEPT ![s] = DefaultNext(@, "Dir")]
                ELSE [[next EXCEPT ![s] = DefaultNext(@, "Dir")] EXCEPT ![Last(memDir)] = s]
    BY ErrorReturned DEF DirSector, Facts
  <2> QED
    BY <2>1
<1>3. next \in [Sectors -> Int] /\ set \in [Sectors -> ListNames \cup {"none"}] /\ s \in Sectors
  BY <1>1 DEF Facts, TypeOK, SectorsType, IControl
<1>4. memDir # <<>> => set[Last(memDir)] = "Dir"
  <2>1. memDir \in Seq(Nat)
    BY DEF Facts, TypeOK, TablesType
  <2>2. memDir # <<>> => Len(memDir) \in 1..Len(memDir)
    BY <2>1
  <2> QED
    BY <2>2 DEF Last, Facts, ListsMatchSet, IsList
<1>5. \A y \in Used : next'[y] = next[y]
  <2> DEFINE l == Last(memDir)
  <2>1. \A y \in Used : y \in Sectors /\ y # s /\ (memDir # <<>> => y # l)
    BY <1>1, <1>4 DEF Used, Helpers
  <2>2. \E v : next' = IF memDir = <<>> THEN [next EXCEPT ![s] = v] ELSE [[next EXCEPT ![s] = v] EXCEPT ![l] = s]
    BY <1>2
  <2> HIDE DEF l
  <2> QED
    BY <1>3, <2>1, <2>2
<1>6. n \in Nat /\ K \in Nat /\ DOMAIN dirs = 0..(n - 1)
  <2>1. n = DirsPerSector * Len(memDir) /\ DirsPerSector * Len(memDir) \in Nat
    BY Counts, LayoutFacts DEF Facts, TypeOK, TablesType
  <2>2. DOMAIN dirs = 0..(DirsPerSector * Len(memDir) - 1)
    BY DEF Facts, TypeOK, DirType
  <2> QED
    BY <2>1, <2>2, LayoutFacts
<1> HIDE DEF n, K
<1>7. \A d \in Nat : Settled(own, dirs, d) => Settled(own, dirs', d)
  <2>1. DOMAIN dirs' = 0..(n + K - 1) /\ \A d \in DOMAIN dirs' : dirs'[d] = IF d < n THEN dirs[d] ELSE EmptyEntry
    BY <1>1 DEF Extend
  <2>2. \A d \in Nat : d \in DOMAIN dirs => d \in DOMAIN dirs' /\ dirs'[d] = dirs[d]
    BY <1>6, <2>1
  <2>3. \A d \in Nat : d \in DOMAIN dirs' /\ d \notin DOMAIN dirs => ~IsBig(dirs'[d].size)
    <3>1. ~IsBig(EmptyEntry.size)
      BY CutoffPositive DEF EmptyEntry, IsBig
    <3> QED
      BY <1>6, <2>1, <3>1
  <2>4. \A d \in Nat : /\ Chained(dirs', d) <=> Chained(dirs, d)
                       /\ Chained(dirs, d) => dirs'[d].start = dirs[d].start /\ dirs'[d].size = dirs[d].size
    BY <2>2, <2>3 DEF Chained
  <2> QED
    BY <2>4, SettledKept
<1>8. (\A y \in Sectors : y # s => set'[y] = set[y]) /\ set'[s] # "Free"
  BY <1>1, <1>3
<1> QED
  BY <1>1, <1>5, <1>7, <1>8, TableChains

-----------------------------------------------------------------------------
(***************************************************************************)
(* The invariant is inductive, and says what BigChainsApart says.          *)
(***************************************************************************)

(* What a step does to the invariant. *)
LEMMA StepChains ==
  ASSUME TypeOK, IControl, ListsMatchSet, Coverage, IPointers, IGrow, errors = 0 => IRoot, IChains,
         [CarefulNext]_vars
  PROVE IChains'
<1>0. [Next]_vars
  BY DEF CarefulNext, Next
<1>1. SUFFICES ASSUME errors' = 0, ~Doomed' PROVE \E new \in Ownings : Good(new)'
  BY DEF IChains
<1>2. errors = 0
  BY <1>0, <1>1, NoErrorBefore
<1>3. ~Doomed
  BY <1>0, <1>1, DoomedStays
<1>4. Facts
  BY <1>2 DEF Facts
<1>5. PICK own \in Ownings : Good(own)
  BY <1>2, <1>3 DEF IChains
<1>6. CASE FreeFAT
  BY <1>1, <1>4, <1>5, <1>6, FreeFATChains
<1>7. CASE FreeMiniFAT \/ Freed \/ Resize
  BY <1>1, <1>4, <1>5, <1>7, FreeMiniChains, FreedChains, ResizeChains
<1>8. CASE WriteBigExisting \/ WriteBigGrow
  BY <1>1, <1>4, <1>5, <1>8, BigExistingChains, BigGrowChains
<1>9. CASE BigSector \/ FinishBig
  BY <1>1, <1>4, <1>5, <1>9, BigSectorChains, FinishBigChains
<1>10. CASE WriteMiniExisting \/ WriteMiniNew \/ WriteMiniGrow \/ FinishMini
  BY <1>1, <1>4, <1>5, <1>10, MiniChains
<1>11. CASE AllocFree \/ AllocTable \/ AllocNew
  BY <1>1, <1>4, <1>5, <1>11, AllocChains
<1>12. CASE MiniTable \/ Container \/ DirSector
  BY <1>1, <1>4, <1>5, <1>12, MiniTableChains, ContainerChains, DirSectorChains
<1>13. CASE NewEntry \/ Update
  BY <1>4, <1>5, <1>13, UpdateChains
<1>14. CASE \/ StreamCall
            \/ FileCall /\ file' = file /\ \A x \in loaded' : set[x] # "Free"
  BY <1>1, <1>2, <1>4, <1>5, <1>14, CallChains
<1>15. CASE UNCHANGED vars
  <2>1. Good(own)'
    BY <1>5, <1>15 DEF vars, Good, IMarks, IKind, Holds, Settled, Chained, WrittenTo, Existing, Dropped, InBig,
                       Used, Dead, Sectors, InContainers, memVars, sectorVars, memoryVars, miniVars, dirVars, loopVars
  <2> QED
    BY <2>1
<1> QED
  BY <1>6, <1>7, <1>8, <1>9, <1>10, <1>11, <1>12, <1>13, <1>14, <1>15 DEF CarefulNext, Continue

(* At first nobody owns anything. *)
LEMMA InitChains == Init => IChains
<1> SUFFICES ASSUME Init PROVE \E own \in Ownings : Good(own)
  BY DEF IChains
<1> DEFINE own == [d \in Owners |-> <<>>]
<1>1. own \in Ownings
  BY DEF Ownings
<1>2. \A d \in Owners : own[d] = <<>> /\ Len(own[d]) = 0
  OBVIOUS
<1>3. Rest \in Owners /\ \A d \in Nat : d \in Owners
  BY DEF Owners, Rest
<1> HIDE DEF own
<1>4. \A S, F : Chains(own, next, S, F)
  BY <1>2 DEF Chains, Apart, Within, Linked, Ended
<1>5. \A d \in DOMAIN dirs : ~IsBig(dirs[d].size)
  <2>1. ~IsBig(EmptyEntry.size) /\ ~IsBig([EmptyEntry EXCEPT !.kind = "root"].size)
    BY CutoffPositive DEF EmptyEntry, IsBig
  <2>2. CASE InitNew
    BY <2>2 DEF InitNew
  <2>3. ASSUME NEW n \in OpenedFiles, InitOpened(n)
        PROVE \A d \in DOMAIN dirs : ~IsBig(dirs[d].size)
    <3>1. dirs = [d \in 0..(DirsPerSector - 1) |->
                    IF d = 0 THEN [EmptyEntry EXCEPT !.kind = "root"] ELSE EmptyEntry]
      BY <2>3 DEF InitOpened
    <3> QED
      BY <2>1, <3>1
  <2> QED
    BY <2>2, <2>3 DEF Init
<1>6. \A d \in Nat : Settled(own, dirs, d)
  BY <1>2, <1>3, <1>5 DEF Settled, Chained
<1>7. pc \in {"Idle", "Alloc"} /\ (pc = "Alloc" => caller = "DirSector")
  BY DEF Init, InitNew, InitOpened
<1>8. ~Dropped /\ ~InBig /\ pc # "FreeFAT" /\ IKind /\ pc \notin Helpers
  BY <1>7 DEF Dropped, InBig, IKind, Helpers
<1>9. Holds(own)
  BY <1>2, <1>3, <1>6, <1>8 DEF Holds
<1>10. IMarks
  <2>1. containers = <<>>
    BY DEF Init, InitCommon
  <2>2. \A i \in 1..Len(containers) : FALSE
    BY <2>1
  <2>3. CASE InitNew
    BY <1>8, <2>2, <2>3 DEF InitNew, IMarks, Helpers
  <2>4. ASSUME NEW n \in OpenedFiles, n # 0, InitOpened(n) PROVE IMarks
    <3>1. n \in Nat
      BY InstanceAssumption, LayoutFacts
    <3> QED
      BY <1>8, <2>2, <2>4, <3>1 DEF InitOpened, IMarks, Helpers, Sectors
  <2> QED
    BY <2>3, <2>4 DEF Init
<1>11. Good(own)
  BY <1>4, <1>8, <1>9, <1>10 DEF Good
<1> QED
  BY <1>1, <1>11

(* Between calls the chains are those that are owned. *)
LEMMA OwnedApart ==
  ASSUME TypeOK, IControl, ListsMatchSet, Coverage, IPointers, IGrow, errors = 0 => IRoot, IChains
  PROVE BigChainsApart
<1>1. SUFFICES ASSUME pc = "Idle", errors = 0, NEW d \in BigStreams, NEW i \in 0..(ChainLen(d) - 1)
               PROVE /\ Chain(d)[i] \in loaded
                     /\ set[Chain(d)[i]] = "none"
                     /\ Chain(d)[i] \notin Range(containers)
                     /\ \A e \in BigStreams : \A j \in 0..(ChainLen(e) - 1) :
                          Chain(d)[i] = Chain(e)[j] => d = e /\ i = j
  BY DEF BigChainsApart
<1>2. ~Doomed /\ ~Dropped /\ ~InBig
  BY <1>1 DEF Doomed, Dropped, InBig
<1>3. PICK own \in Ownings : Good(own)
  BY <1>1, <1>2 DEF IChains
<1>4. Facts
  BY <1>1 DEF Facts
<1>5. \A e \in BigStreams : e \in Nat /\ e \in Owners /\ Settled(own, dirs, e) /\ Chained(dirs, e)
  BY <1>2, <1>3 DEF BigStreams, Streams, Chained, Good, Holds, TypeOK, DirType, Owners
<1>6. \A e \in BigStreams : \A j \in 0..(ChainLen(e) - 1) :
        j + 1 \in 1..Len(own[e]) /\ Chain(e)[j] = own[e][j + 1] /\ Chain(e)[j] \in Used
  BY <1>3, <1>4, <1>5, ChainOwned
<1>7. Chain(d)[i] \in Used
  BY <1>1, <1>6
<1>8. Chain(d)[i] \notin Range(containers)
  <2>1. \A x \in Range(containers) : InContainers(x)
    BY DEF Range, InContainers, TypeOK, MiniType
  <2> QED
    BY <1>7, <2>1 DEF Used
<1>9. ASSUME NEW e \in BigStreams, NEW j \in 0..(ChainLen(e) - 1), Chain(d)[i] = Chain(e)[j]
      PROVE d = e /\ i = j
  <2>1. /\ i + 1 \in 1..Len(own[d]) /\ j + 1 \in 1..Len(own[e])
        /\ own[d][i + 1] = own[e][j + 1]
    BY <1>1, <1>6, <1>9
  <2>2. d = e /\ i + 1 = j + 1
    BY <1>3, <1>5, <2>1 DEF Good, Chains, Apart
  <2>3. ChainLen(d) \in Int /\ i \in Int /\ j \in Int
    BY <1>3, <1>4, <1>5, ChainOwned
  <2> QED
    BY <2>2, <2>3
<1> QED
  BY <1>7, <1>8, <1>9 DEF Used

(* Until a call returns an error, the FAT chains of two streams never meet,   *)
(* and never go through a sector that is free, a table or a container: the   *)
(* stale link FinishBig leaves behind a shrunk stream (directory.go:528-533) *)
(* is never followed.  This is of CarefulSpec, whose calls on the file give  *)
(* no free sector its data back (sector.go:162-199 from mcdf.go:672, 707 and *)
(* 769-776) and add nothing to the file; without that it is false.           *)
THEOREM BigChainsCorrect == CarefulSpec => []BigChainsApart
<1> DEFINE I == /\ TypeOK /\ IControl /\ ListsMatchSet /\ Coverage /\ AtHelper /\ IPointers /\ IGrow
                /\ (errors = 0 => IRoot) /\ IChains
<1>1. Init => I
  BY InitType, InitLists, InitCoverage, InitPointers, InitRoot, InitChains
<1>2. I /\ [CarefulNext]_vars => I'
  <2>1. SUFFICES ASSUME I, [CarefulNext]_vars PROVE I'
    OBVIOUS
  <2>0. [Next]_vars
    BY <2>1 DEF CarefulNext, Next
  <2>2. TypeOK' /\ IControl' /\ ListsMatchSet' /\ Coverage' /\ AtHelper' /\ IPointers' /\ IGrow'
    BY <2>0, <2>1, StepType, StepLists, StepCoverage, StepPointers, StepGrow
  <2>3. errors' = 0 => IRoot'
    BY <2>0, <2>1, StepRoot, NoErrorBefore
  <2>4. IChains'
    BY <2>1, StepChains
  <2> QED
    BY <2>2, <2>3, <2>4
<1>3. I => BigChainsApart
  BY OwnedApart
<1> QED
  BY <1>1, <1>2, <1>3, PTL DEF CarefulSpec

============================================================================
