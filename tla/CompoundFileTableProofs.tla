----------------------- MODULE CompoundFileTableProofs -----------------------
(***************************************************************************)
(* Proofs that the lists of Memory and the length of the tables stay what  *)
(* the allocator takes them for: ListsMatchSet and Coverage of             *)
(* CompoundFile, for every geometry, every call and every return.          *)
(***************************************************************************)
EXTENDS CompoundFileProofs

-----------------------------------------------------------------------------
(***************************************************************************)
(* IsList with what it reads of the state as arguments: l is a list of the *)
(* members of S that f marks t, each once.                                 *)
(***************************************************************************)
ListOf(l, t, f, S) ==
  /\ \A i \in 1..Len(l) : l[i] \in S /\ f[l[i]] = t
  /\ \A i, j \in 1..Len(l) : l[i] = l[j] => i = j
  /\ \A x \in S : f[x] = t => \E i \in 1..Len(l) : l[i] = x

(* IsList, said of values that may be those of the next state. *)
LEMMA IsListOf ==
  \A l, t : IsList(l, t) <=> ListOf(l, t, set, Sectors)
BY DEF IsList, ListOf

(* The marks t are where they were.                                          *)
LEMMA ListSame ==
  ASSUME NEW l, NEW t, NEW f, NEW g, NEW S, NEW T, ListOf(l, t, f, S), S \subseteq T,
         \A x \in T : g[x] = t <=> x \in S /\ f[x] = t
  PROVE ListOf(l, t, g, T)
BY DEF ListOf

(* One more sector is marked t and added at the end.                         *)
LEMMA ListAppend ==
  ASSUME NEW l \in Seq(Nat), NEW t, NEW f, NEW g, NEW S, NEW T, NEW x \in T, x \in Nat,
         ListOf(l, t, f, S), S \subseteq T, ~(x \in S /\ f[x] = t),
         \A y \in T : g[y] = t <=> y = x \/ (y \in S /\ f[y] = t)
  PROVE ListOf(Append(l, x), t, g, T)
<1> DEFINE m == Append(l, x)
<1>1. Len(m) = Len(l) + 1 /\ Len(l) \in Nat /\ m[Len(l) + 1] = x /\ \A i \in 1..Len(l) : m[i] = l[i]
  OBVIOUS
<1> HIDE DEF m
<1>2. \A i \in 1..Len(m) : i \in 1..Len(l) \/ i = Len(l) + 1
  BY <1>1
<1>3. 1..Len(l) \subseteq 1..Len(m) /\ Len(l) + 1 \in 1..Len(m)
  BY <1>1
<1>4. \A i \in 1..Len(m) : m[i] \in T /\ g[m[i]] = t
  BY <1>1, <1>2 DEF ListOf
<1>5. \A i, j \in 1..Len(m) : m[i] = m[j] => i = j
  <2>1. \A i \in 1..Len(l) : m[i] \in S /\ m[i] # x
    BY <1>1 DEF ListOf
  <2>2. \A i, j \in 1..Len(l) : m[i] = m[j] => i = j
    BY <1>1 DEF ListOf
  <2> QED
    BY <1>1, <1>2, <2>1, <2>2
<1>6. \A y \in T : g[y] = t => \E i \in 1..Len(m) : m[i] = y
  BY <1>1, <1>3 DEF ListOf
<1> QED
  BY <1>4, <1>5, <1>6 DEF ListOf, m

(* The first sector of the list loses its mark.                              *)
LEMMA ListTail ==
  ASSUME NEW l \in Seq(Nat), l # <<>>, NEW t, NEW f, NEW g, NEW S, ListOf(l, t, f, S),
         \A y \in S : g[y] = t <=> y # Head(l) /\ f[y] = t
  PROVE ListOf(Tail(l), t, g, S)
<1> DEFINE m == Tail(l)
<1>1. /\ Len(l) \in Nat /\ Len(l) >= 1 /\ Len(m) = Len(l) - 1 /\ Head(l) = l[1]
      /\ \A i \in 1..Len(m) : m[i] = l[i + 1]
  OBVIOUS
<1> HIDE DEF m
<1>2. \A i \in 1..Len(m) : i + 1 \in 1..Len(l) /\ i + 1 # 1 /\ 1 \in 1..Len(l)
  BY <1>1
<1>3. \A i \in 1..Len(l) : i = 1 \/ (i - 1 \in 1..Len(m) /\ (i - 1) + 1 = i)
  BY <1>1
<1>4. \A i \in 1..Len(m) : m[i] \in S /\ g[m[i]] = t
  <2>1. TAKE i \in 1..Len(m)
  <2>2. m[i] = l[i + 1] /\ l[i + 1] \in S /\ f[l[i + 1]] = t
    BY <1>1, <1>2 DEF ListOf
  <2>3. l[i + 1] # l[1]
    BY <1>2 DEF ListOf
  <2> QED
    BY <1>1, <2>2, <2>3
<1>5. \A i, j \in 1..Len(m) : m[i] = m[j] => i = j
  <2>1. TAKE i, j \in 1..Len(m)
  <2>2. HAVE m[i] = m[j]
  <2>3. l[i + 1] = l[j + 1]
    BY <1>1, <2>2
  <2>4. i + 1 = j + 1
    BY <1>2, <2>3 DEF ListOf
  <2> QED
    BY <1>1, <2>4
<1>6. \A y \in S : g[y] = t => \E i \in 1..Len(m) : m[i] = y
  <2>1. TAKE y \in S
  <2>2. HAVE g[y] = t
  <2>3. PICK i \in 1..Len(l) : l[i] = y
    BY <2>2 DEF ListOf
  <2>4. i # 1
    BY <1>1, <2>2, <2>3
  <2> QED
    BY <1>1, <1>3, <2>3, <2>4
<1> QED
  BY <1>4, <1>5, <1>6 DEF ListOf, m

(* The lists, as one fact about the state before or after a step.            *)
LEMMA ListsMatch ==
  /\ ListsMatchSet <=> /\ ListOf(memFat, "TableFat", set, Sectors)
                       /\ ListOf(memMini, "TableMini", set, Sectors)
                       /\ ListOf(memDir, "Dir", set, Sectors)
                       /\ ListOf(memDIFAT, "DIFAT", set, Sectors)
                       /\ ListOf(memFree, "Free", set, Sectors)
  /\ ListsMatchSet' <=> /\ ListOf(memFat', "TableFat", set', Sectors')
                        /\ ListOf(memMini', "TableMini", set', Sectors')
                        /\ ListOf(memDir', "Dir", set', Sectors')
                        /\ ListOf(memDIFAT', "DIFAT", set', Sectors')
                        /\ ListOf(memFree', "Free", set', Sectors')
BY DEF ListsMatchSet, IsList, ListOf

(* A step that leaves the lists and the marks alone keeps ListsMatchSet. *)
LEMMA ListsKeep ==
  ASSUME ListsMatchSet,
         UNCHANGED <<nsec, set, memFat, memMini, memDir, memDIFAT, memFree>>
  PROVE ListsMatchSet'
BY ListsMatch DEF Sectors

(* Memory.Push (memory.go:239-245) keeps lists and marks in agreement. *)
LEMMA PushLists ==
  ASSUME TypeOK, ListsMatchSet, NEW x \in Sectors, Push(x)
  PROVE ListsMatchSet'
<1>1. UNCHANGED <<nsec, memFat, memMini, memDir, memDIFAT>> /\ Sectors' = Sectors
  BY DEF Push, Sectors
<1>2. CASE CanAdd(x, "Free")
  <2>1. set' = [set EXCEPT ![x] = "Free"] /\ memFree' = Append(memFree, x) /\ set[x] = "none"
    BY <1>2 DEF Push, CanAdd
  <2>2. set \in [Sectors -> ListNames \cup {"none"}] /\ x \in Nat /\ memFree \in Seq(Nat)
    BY DEF TypeOK, SectorsType, TablesType, Sectors
  <2>3. \A t \in ListNames \ {"Free"} : \A y \in Sectors' : set'[y] = t <=> y \in Sectors /\ set[y] = t
    BY <1>1, <2>1, <2>2 DEF ListNames
  <2>4. \A y \in Sectors' : set'[y] = "Free" <=> y = x \/ (y \in Sectors /\ set[y] = "Free")
    BY <1>1, <2>1, <2>2
  <2>5. ListOf(memFree', "Free", set', Sectors')
    BY <1>1, <2>1, <2>2, <2>4, ListsMatch, ListAppend
  <2>6. ASSUME NEW t \in ListNames \ {"Free"}, NEW l, ListOf(l, t, set, Sectors)
        PROVE ListOf(l, t, set', Sectors')
    BY <2>6, <1>1, <2>3, ListSame
  <2> QED
    BY <1>1, <2>5, <2>6, ListsMatch DEF ListNames
<1>3. CASE ~CanAdd(x, "Free")
  BY <1>1, <1>3, ListsKeep DEF Push
<1> QED
  BY <1>2, <1>3

(* Memory.Pop (memory.go:229-237) keeps lists and marks in agreement. *)
LEMMA AllocFreeLists ==
  ASSUME TypeOK, ListsMatchSet, AllocFree
  PROVE ListsMatchSet'
<1>1. PICK x \in Sectors : PopFree(x)
  BY DEF AllocFree
<1>2. /\ UNCHANGED <<nsec, memFat, memMini, memDir, memDIFAT>> /\ Sectors' = Sectors
      /\ memFree # <<>> /\ x = Head(memFree) /\ memFree' = Tail(memFree)
      /\ set' = [set EXCEPT ![x] = "none"]
  BY <1>1 DEF PopFree, sectorVars, fatVars, Sectors
<1>3. set \in [Sectors -> ListNames \cup {"none"}] /\ memFree \in Seq(Nat)
  BY DEF TypeOK, SectorsType, TablesType
<1>4. set[x] = "Free"
  <2>1. 1 \in 1..Len(memFree) /\ memFree[1] = x
    BY <1>2, <1>3
  <2> QED
    BY <2>1, ListsMatch DEF ListOf
<1>5. \A t \in ListNames \ {"Free"} : \A y \in Sectors' : set'[y] = t <=> y \in Sectors /\ set[y] = t
  BY <1>2, <1>3, <1>4 DEF ListNames
<1>6. \A y \in Sectors : set'[y] = "Free" <=> y # Head(memFree) /\ set[y] = "Free"
  BY <1>2, <1>3
<1>7. ListOf(memFree', "Free", set', Sectors')
  BY <1>2, <1>3, <1>6, ListsMatch, ListTail
<1>8. ASSUME NEW t \in ListNames \ {"Free"}, NEW l, ListOf(l, t, set, Sectors)
      PROVE ListOf(l, t, set', Sectors')
  <2>1. Sectors \subseteq Sectors' /\ \A y \in Sectors' : set'[y] = t <=> y \in Sectors /\ set[y] = t
    BY <1>2, <1>5
  <2> QED
    BY <1>8, <2>1, ListSame
<1> QED
  BY <1>2, <1>7, <1>8, ListsMatch DEF ListNames

(* The sectors AppendSectors adds are in the lists ts names and in no other. *)
LEMMA AppendMarks ==
  ASSUME TypeOK, NEW k \in {1, 2}, NEW ts, NEW slots, AppendSectors(k, ts, slots)
  PROVE /\ Sectors \subseteq Sectors' /\ nsec \in Nat
        /\ \A y \in Sectors' : \/ y \in Sectors /\ set'[y] = set[y]
                               \/ \E j \in 1..k : y = nsec + j - 1 /\ y \notin Sectors /\ set'[y] = ts[j]
        /\ \A j \in 1..k : nsec + j - 1 \in Sectors' \ Sectors /\ set'[nsec + j - 1] = ts[j]
<1>1. nsec \in Nat /\ nsec' = nsec + k /\ Sectors = 0..(nsec - 1) /\ Sectors' = 0..(nsec + k - 1)
  BY DEF TypeOK, SectorsType, AppendSectors, Sectors
<1>2. set' = [i \in Sectors' |-> IF i < nsec THEN set[i] ELSE ts[i - nsec + 1]]
  BY <1>1 DEF AppendSectors
<1>3. \A y \in Sectors' : \/ y \in Sectors /\ y < nsec
                          \/ ~(y < nsec) /\ y \notin Sectors /\ y - nsec + 1 \in 1..k
                             /\ y = nsec + (y - nsec + 1) - 1
  BY <1>1
<1>4. \A j \in 1..k : /\ nsec + j - 1 \in Sectors' \ Sectors
                      /\ ~(nsec + j - 1 < nsec) /\ nsec + j - 1 - nsec + 1 = j
  BY <1>1
<1>5. \A j \in 1..k : set'[nsec + j - 1] = ts[j]
  <2>1. TAKE j \in 1..k
  <2> DEFINE y == nsec + j - 1
  <2>2. y \in Sectors' /\ ~(y < nsec) /\ y - nsec + 1 = j
    BY <1>1, <2>1
  <2> HIDE DEF y
  <2>3. set'[y] = ts[j]
    BY <1>2, <2>2
  <2> QED
    BY <2>3 DEF y
<1>6. \A y \in Sectors' : \/ y \in Sectors /\ set'[y] = set[y]
                          \/ \E j \in 1..k : y = nsec + j - 1 /\ y \notin Sectors /\ set'[y] = ts[j]
  BY <1>2, <1>3
<1> QED
  BY <1>1, <1>4, <1>5, <1>6

(* A sector appended to no list keeps lists and marks in agreement. *)
LEMMA AllocNewLists ==
  ASSUME TypeOK, ListsMatchSet, AllocNew
  PROVE ListsMatchSet'
<1>1. AppendSectors(1, <<"none">>, 0) /\ UNCHANGED <<memFat, memMini, memDir, memDIFAT, memFree>>
  BY DEF AllocNew, NewSector
<1>2. /\ Sectors \subseteq Sectors'
      /\ \A y \in Sectors' : (y \in Sectors /\ set'[y] = set[y]) \/ (y \notin Sectors /\ set'[y] = "none")
  BY <1>1, AppendMarks
<1>3. \A t \in ListNames : \A y \in Sectors' : set'[y] = t <=> y \in Sectors /\ set[y] = t
  BY <1>2 DEF ListNames
<1>4. ASSUME NEW t \in ListNames, NEW l, ListOf(l, t, set, Sectors)
      PROVE ListOf(l, t, set', Sectors')
  BY <1>2, <1>3, <1>4, ListSame
<1> QED
  BY <1>1, <1>4, ListsMatch DEF ListNames

(* New FAT and DIFAT sectors join the list their mark names. *)
LEMMA AllocTableLists ==
  ASSUME TypeOK, ListsMatchSet, AllocTable
  PROVE ListsMatchSet'
<1>1. UNCHANGED <<memMini, memDir, memFree>> /\ memFat' = Append(memFat, nsec)
  BY DEF AllocTable, AddTableInHeader, AddTableInDIFAT, AddTableAndDIFAT
<1>2. memFat \in Seq(Nat) /\ memDIFAT \in Seq(Nat)
  BY DEF TypeOK, TablesType
<1>3. CASE AddTableInHeader \/ AddTableInDIFAT
  <2>1. AppendSectors(1, <<"TableFat">>, EntriesPerSector) /\ memDIFAT' = memDIFAT
    BY <1>3 DEF AddTableInHeader, AddTableInDIFAT
  <2>2. /\ Sectors \subseteq Sectors' /\ nsec \in Nat /\ nsec \in Sectors' \ Sectors
        /\ set'[nsec] = "TableFat"
        /\ \A y \in Sectors' : (y \in Sectors /\ set'[y] = set[y]) \/ y = nsec
    BY <2>1, AppendMarks
  <2>3. \A t \in ListNames \ {"TableFat"} :
          \A y \in Sectors' : set'[y] = t <=> y \in Sectors /\ set[y] = t
    BY <2>2
  <2>4. \A y \in Sectors' : set'[y] = "TableFat" <=> y = nsec \/ (y \in Sectors /\ set[y] = "TableFat")
    BY <2>2
  <2>5. ListOf(memFat', "TableFat", set', Sectors')
    BY <1>1, <1>2, <2>2, <2>4, ListsMatch, ListAppend
  <2>6. ASSUME NEW t \in ListNames \ {"TableFat"}, NEW l, ListOf(l, t, set, Sectors)
        PROVE ListOf(l, t, set', Sectors')
    BY <2>6, <2>2, <2>3, ListSame
  <2> QED
    BY <1>1, <2>1, <2>5, <2>6, ListsMatch DEF ListNames
<1>4. CASE AddTableAndDIFAT
  <2>1. /\ AppendSectors(2, <<"TableFat", "DIFAT">>, EntriesPerSector)
        /\ memDIFAT' = Append(memDIFAT, nsec + 1)
    BY <1>4 DEF AddTableAndDIFAT
  <2>2. /\ Sectors \subseteq Sectors' /\ nsec \in Nat
        /\ nsec \in Sectors' \ Sectors /\ nsec + 1 \in Sectors' \ Sectors
        /\ set'[nsec] = "TableFat" /\ set'[nsec + 1] = "DIFAT"
        /\ \A y \in Sectors' : (y \in Sectors /\ set'[y] = set[y]) \/ y = nsec \/ y = nsec + 1
    BY <2>1, AppendMarks
  <2>3. \A t \in ListNames \ {"TableFat", "DIFAT"} :
          \A y \in Sectors' : set'[y] = t <=> y \in Sectors /\ set[y] = t
    BY <2>2
  <2>4. /\ \A y \in Sectors' : set'[y] = "TableFat" <=> y = nsec \/ (y \in Sectors /\ set[y] = "TableFat")
        /\ \A y \in Sectors' : set'[y] = "DIFAT" <=> y = nsec + 1 \/ (y \in Sectors /\ set[y] = "DIFAT")
    BY <2>2
  <2>5. ListOf(memFat', "TableFat", set', Sectors')
    BY <1>1, <1>2, <2>2, <2>4, ListsMatch, ListAppend
  <2>6. ListOf(memDIFAT', "DIFAT", set', Sectors')
    <3>1. nsec + 1 \in Nat
      BY <2>2
    <3> QED
      BY <1>2, <2>1, <2>2, <2>4, <3>1, ListsMatch, ListAppend
  <2>7. ASSUME NEW t \in ListNames \ {"TableFat", "DIFAT"}, NEW l, ListOf(l, t, set, Sectors)
        PROVE ListOf(l, t, set', Sectors')
    BY <2>2, <2>3, <2>7, ListSame
  <2> QED
    BY <1>1, <2>5, <2>6, <2>7, ListsMatch DEF ListNames
<1> QED
  BY <1>3, <1>4 DEF AllocTable

(* A sector in no list joins list t.                                         *)
LEMMA JoinLists ==
  ASSUME TypeOK, nsec' = nsec, NEW t \in ListNames, NEW l \in Seq(Nat), ListOf(l, t, set, Sectors),
         s \in Sectors, set[s] = "none", set' = [set EXCEPT ![s] = t]
  PROVE /\ ListOf(Append(l, s), t, set', Sectors')
        /\ \A u \in ListNames \ {t} : \A m : ListOf(m, u, set, Sectors) => ListOf(m, u, set', Sectors')
<1>1. set \in [Sectors -> ListNames \cup {"none"}] /\ s \in Nat /\ t # "none" /\ Sectors' = Sectors
  BY DEF TypeOK, SectorsType, Sectors, ListNames
<1>2. s \in Sectors' /\ Sectors \subseteq Sectors' /\ ~(s \in Sectors /\ set[s] = t)
  BY <1>1
<1>3. \A y \in Sectors' : set'[y] = t <=> y = s \/ (y \in Sectors /\ set[y] = t)
  BY <1>1
<1>4. ListOf(Append(l, s), t, set', Sectors')
  BY <1>1, <1>2, <1>3, ListAppend
<1>5. ASSUME NEW u \in ListNames \ {t}, NEW m, ListOf(m, u, set, Sectors)
      PROVE ListOf(m, u, set', Sectors')
  <2>1. u # t /\ u # "none"
    BY DEF ListNames
  <2>2. \A y \in Sectors' : set'[y] = u <=> y \in Sectors /\ set[y] = u
    BY <1>1, <2>1
  <2> QED
    BY <1>2, <1>5, <2>2, ListSame
<1> QED
  BY <1>4, <1>5

(* A miniFAT sector joins its list, or addSector refuses it. *)
LEMMA MiniTableLists ==
  ASSUME TypeOK, IControl, ListsMatchSet, MiniTable
  PROVE ListsMatchSet'
<1>1. UNCHANGED <<nsec, memFat, memDir, memDIFAT, memFree>> /\ s \in Sectors /\ set[s] = "none"
  BY DEF MiniTable, IControl
<1>2. CASE CanAdd(s, "TableMini")
  <2>1. set' = [set EXCEPT ![s] = "TableMini"] /\ memMini' = Append(memMini, s)
    BY <1>2 DEF MiniTable
  <2>2. "TableMini" \in ListNames /\ memMini \in Seq(Nat)
    BY DEF ListNames, TypeOK, TablesType
  <2>3. /\ ListOf(memMini', "TableMini", set', Sectors')
        /\ \A u \in ListNames \ {"TableMini"} : \A m : ListOf(m, u, set, Sectors) => ListOf(m, u, set', Sectors')
    BY <1>1, <2>1, <2>2, JoinLists, ListsMatch
  <2> QED
    BY <1>1, <2>3, ListsMatch DEF ListNames
<1>3. CASE ~CanAdd(s, "TableMini")
  BY <1>1, <1>3, ListsKeep DEF MiniTable
<1> QED
  BY <1>2, <1>3

(* A directory sector joins its list, or addSector refuses it. *)
LEMMA DirSectorLists ==
  ASSUME TypeOK, IControl, ListsMatchSet, DirSector
  PROVE ListsMatchSet'
<1>1. UNCHANGED <<nsec, memFat, memMini, memDIFAT, memFree>> /\ s \in Sectors /\ set[s] = "none"
  BY DEF DirSector, IControl
<1>2. CASE CanAdd(s, "Dir")
  <2>1. set' = [set EXCEPT ![s] = "Dir"] /\ memDir' = Append(memDir, s)
    BY <1>2 DEF DirSector
  <2>2. "Dir" \in ListNames /\ memDir \in Seq(Nat)
    BY DEF ListNames, TypeOK, TablesType
  <2>3. /\ ListOf(memDir', "Dir", set', Sectors')
        /\ \A u \in ListNames \ {"Dir"} : \A m : ListOf(m, u, set, Sectors) => ListOf(m, u, set', Sectors')
    BY <1>1, <2>1, <2>2, JoinLists, ListsMatch
  <2> QED
    BY <1>1, <2>3, ListsMatch DEF ListNames
<1>3. CASE ~CanAdd(s, "Dir")
  BY <1>1, <1>3, ListsKeep DEF DirSector
<1> QED
  BY <1>2, <1>3

(* A round of FreeFAT keeps lists and marks in agreement. *)
LEMMA FreeFATLists ==
  ASSUME TypeOK, ListsMatchSet, FreeFAT
  PROVE ListsMatchSet'
<1>1. CASE SecID \in Sectors
  BY <1>1, PushLists DEF FreeFAT
<1>2. CASE SecID \notin Sectors
  BY <1>2, ListsKeep DEF FreeFAT, memVars, sectorVars, fatVars, memoryVars
<1> QED
  BY <1>1, <1>2

(* Every step keeps lists and marks in agreement. *)
LEMMA StepLists ==
  ASSUME TypeOK, IControl, ListsMatchSet, [Next]_vars
  PROVE ListsMatchSet'
<1> USE DEF memVars, sectorVars, fatVars, memoryVars
<1>1. CASE Freed \/ FreeMiniFAT \/ Resize \/ WriteBigGrow \/ WriteMiniGrow \/ FinishMini \/ Update
           \/ NewEntry
  BY <1>1, ListsKeep DEF Freed, FreeMiniFAT, Resize, WriteBigGrow, WriteMiniGrow, FinishMini, Update,
     NewEntry
<1>2. CASE WriteBigExisting \/ BigSector \/ FinishBig \/ WriteMiniExisting \/ WriteMiniNew
           \/ Container
  BY <1>2, ListsKeep DEF WriteBigExisting, BigSector, FinishBig, WriteMiniExisting, WriteMiniNew,
     Container
<1>3. CASE Continue
  BY <1>1, <1>2, <1>3, FreeFATLists, AllocFreeLists, AllocTableLists, AllocNewLists, MiniTableLists,
     DirSectorLists DEF Continue
<1>4. CASE AddStream
  BY <1>4, ListsKeep DEF AddStream
<1>5. ASSUME NEW d \in Streams, GetData(d)
      PROVE ListsMatchSet'
  BY <1>5, ListsKeep DEF GetData, Answer
<1>6. ASSUME NEW d \in Streams, NEW v \in Values, NEW n \in Sizes, SetData(d, v, n)
      PROVE ListsMatchSet'
  BY <1>6, ListsKeep DEF SetData
<1>7. ASSUME NEW d \in Streams, NEW v \in Values, NEW n \in AppendSizes, AppendData(d, v, n)
      PROVE ListsMatchSet'
  BY <1>7, ListsKeep DEF AppendData
<1>8. CASE UNCHANGED vars
  BY <1>8, ListsKeep DEF vars
<1>9. CASE FileCall
  BY <1>9, ListsKeep, FileCallKeeps
<1> QED
  BY <1>3, <1>4, <1>5, <1>6, <1>7, <1>8, <1>9 DEF Next, StreamCall

(* After New and Open lists and marks agree. *)
LEMMA InitLists ==
  ASSUME Init
  PROVE ListsMatchSet
<1>1. memMini = <<>> /\ memDIFAT = <<>>
  BY DEF Init, InitCommon
<1>2. CASE InitNew
  <2>1. Sectors = {} /\ memFat = <<>> /\ memDir = <<>> /\ memFree = <<>>
    BY <1>2 DEF InitNew, Sectors
  <2> QED
    BY <1>1, <2>1, ListsMatch DEF ListOf
<1>3. ASSUME NEW n \in 2..EntriesPerSector, InitOpened(n)
      PROVE ListsMatchSet
  <2> DEFINE m == n - 2
  <2>1. n \in Nat /\ m \in Nat /\ n = m + 2
    BY LayoutFacts
  <2> HIDE DEF m
  <2>2. Sectors = 0..(m + 1) /\ memFat = <<0>> /\ memDir = <<1>> /\ memFree = [i \in 1..m |-> i + 1]
    BY <1>3, <2>1 DEF InitOpened, Sectors
  <2>3. \A x \in Sectors : set[x] = IF x = 0 THEN "TableFat" ELSE IF x = 1 THEN "Dir" ELSE "Free"
    BY <1>3 DEF InitOpened
  <2>4. Len(memFree) = m /\ \A i \in 1..m : memFree[i] = i + 1
    BY <2>1, <2>2
  <2>5. ListOf(memFree, "Free", set, Sectors)
    <3>1. \A i \in 1..m : i + 1 \in Sectors /\ i + 1 # 0 /\ i + 1 # 1
      BY <2>1, <2>2
    <3>2. \A x \in Sectors : x = 0 \/ x = 1 \/ (x - 1 \in 1..m /\ (x - 1) + 1 = x)
      BY <2>1, <2>2
    <3>3. \A x \in Sectors : set[x] = "Free" => \E i \in 1..m : memFree[i] = x
      BY <2>3, <2>4, <3>2
    <3>4. \A i, j \in 1..m : memFree[i] = memFree[j] => i = j
      BY <2>1, <2>4
    <3> QED
      BY <2>3, <2>4, <3>1, <3>3, <3>4 DEF ListOf
  <2>6. ListOf(memFat, "TableFat", set, Sectors) /\ ListOf(memDir, "Dir", set, Sectors)
    <3>1. 0 \in Sectors /\ 1 \in Sectors /\ set[0] = "TableFat" /\ set[1] = "Dir"
      BY <2>1, <2>2, <2>3
    <3>2. \A x \in Sectors : (set[x] = "TableFat" => x = 0) /\ (set[x] = "Dir" => x = 1)
      BY <2>3
    <3>3. Len(memFat) = 1 /\ Len(memDir) = 1 /\ memFat[1] = 0 /\ memDir[1] = 1 /\ 1..1 = {1}
      BY <2>2
    <3> QED
      BY <3>1, <3>2, <3>3 DEF ListOf
  <2>7. ListOf(memMini, "TableMini", set, Sectors) /\ ListOf(memDIFAT, "DIFAT", set, Sectors)
    BY <1>1, <2>3 DEF ListOf
  <2> QED
    BY <2>5, <2>6, <2>7, ListsMatch
<1> QED
  BY <1>2, <1>3, InstanceAssumption DEF Init

(***************************************************************************)
(* In every state of every run a sector is in at most one list of Memory,  *)
(* once, under the name Memory.set gives it: the check of Memory.addSector *)
(* (memory.go:45-85) before each append, and the delete of Memory.Pop, are *)
(* enough for every order of calls, frees and failures.                    *)
(***************************************************************************)
THEOREM ListsCorrect == Spec => []ListsMatchSet
<1>1. Init => TypeOK /\ IControl /\ ListsMatchSet
  BY InitType, InitLists
<1>2. TypeOK /\ IControl /\ ListsMatchSet /\ [Next]_vars => TypeOK' /\ IControl' /\ ListsMatchSet'
  BY StepType, StepLists
<1> QED
  BY <1>1, <1>2, PTL DEF Spec

-----------------------------------------------------------------------------
(***************************************************************************)
(* Coverage.                                                               *)
(***************************************************************************)

(* A helper put to work by addSector is the one caller names.                *)
AtHelper == pc \in {"BigSector", "MiniTable", "Container", "DirSector"} => caller = pc

ForContainer == pc \in {"Alloc", "AllocNew", "Container"} /\ caller = "Container"

(* Containers come whole: room for one mini sector is room for a container.  *)
LEMMA WholeContainers ==
  ASSUME NEW P \in Nat, P >= 1, NEW k \in Nat, NEW L \in Nat, NEW T \in Nat, P * L < (k * P) * T
  PROVE P * L + P <= (k * P) * T
<1> DEFINE q == k * T
<1>1. q \in Nat /\ (k * P) * T = P * q
  OBVIOUS
<1> HIDE DEF q
<1>2. L < q
  <2>1. SUFFICES ASSUME L >= q PROVE FALSE
    BY <1>1
  <2>2. P * L >= P * q
    BY <1>1, <2>1
  <2> QED
    BY <1>1, <2>2
<1>3. P * (L + 1) <= P * q
  BY <1>1, <1>2
<1>4. P * (L + 1) = P * L + P
  OBVIOUS
<1> QED
  BY <1>1, <1>3, <1>4

(* The counts, in the next state. *)
LEMMA CountsNext ==
  ASSUME TypeOK'
  PROVE Cardinality(Minis') = MinisPerSector * Len(containers')
<1>1. MinisPerSector * Len(containers') \in Nat
  BY LayoutFacts DEF TypeOK, MiniType
<1>2. Cardinality(0..(MinisPerSector * Len(containers') - 1)) = MinisPerSector * Len(containers')
  BY <1>1, FS_Interval
<1> QED
  BY <1>2 DEF TypeOK, MiniType, Minis

(* A step that adds no sector and starts no allocation keeps Coverage. *)
LEMMA CoverageKeep ==
  ASSUME Coverage, AtHelper, UNCHANGED <<nsec, memFat, memMini, miniNext>>,
         pc' # "AllocNew", pc' \notin {"BigSector", "MiniTable", "Container", "DirSector"},
         ~ForContainer'
  PROVE Coverage' /\ AtHelper'
BY DEF Coverage, AtHelper, ForContainer, CountFat, CountMini, Minis

(* A return keeps Coverage. *)
LEMMA ReturnCoverage ==
  ASSUME Coverage, AtHelper, NEW r, Return(r), nsec' = nsec, memFat' = memFat, memMini' = memMini,
         Minis' = Minis
  PROVE Coverage' /\ AtHelper'
BY DEF Coverage, AtHelper, Return, CountFat, CountMini

(* addSector grows the FAT before the sector that needs the slot. *)
LEMMA AllocCoverage ==
  ASSUME TypeOK, IControl, Coverage, AtHelper, AllocFree \/ AllocTable \/ AllocNew
  PROVE Coverage' /\ AtHelper'
<1>1. memMini' = memMini /\ miniNext' = miniNext /\ Minis' = Minis /\ CountMini' = CountMini /\ caller' = caller
  BY DEF AllocFree, AllocTable, AllocNew, PopFree, NewSector, AddTableInHeader, AddTableInDIFAT,
     AddTableAndDIFAT, Allocated, miniVars, Minis, CountMini
<1>2. CountFat \in Nat /\ nsec \in Nat /\ EntriesPerSector \in Nat /\ EntriesPerSector >= 3
  BY Counts, LayoutFacts DEF TypeOK, SectorsType
<1>3. pc \in {"Alloc", "AllocNew"} /\ pc' \in {"AllocNew", "BigSector", "MiniTable", "Container", "DirSector"}
  BY DEF AllocFree, AllocTable, AllocNew, Allocated, Goto, IControl
<1>4. Cardinality(Minis') <= CountMini' /\ (ForContainer' => Cardinality(Minis') < CountMini')
  BY <1>1, <1>3 DEF Coverage, ForContainer
<1>5. nsec' <= CountFat' /\ (pc' = "AllocNew" => nsec' < CountFat') /\ AtHelper'
  <2>1. CASE AllocFree
    BY <2>1 DEF AllocFree, PopFree, Allocated, Goto, sectorVars, fatVars, Coverage, CountFat, AtHelper, IControl
  <2>2. CASE AllocTable
    <3>1. nsec >= CountFat /\ nsec <= CountFat /\ memFat' = Append(memFat, nsec) /\ pc' = "AllocNew"
      BY <2>2 DEF AllocTable, NeedsTable, Coverage, AddTableInHeader, AddTableInDIFAT, AddTableAndDIFAT, Goto
    <3>2. CountFat' = CountFat + EntriesPerSector
      BY <1>2, <3>1, CountAppend DEF TypeOK, TablesType, CountFat
    <3>3. nsec' \in {nsec + 1, nsec + 2}
      BY <2>2 DEF AllocTable, AddTableInHeader, AddTableInDIFAT, AddTableAndDIFAT, AppendSectors
    <3> QED
      BY <1>2, <3>1, <3>2, <3>3 DEF AtHelper
  <2>3. CASE AllocNew
    <3>1. nsec' = nsec + 1 /\ CountFat' = CountFat /\ pc' = caller /\ pc' # "AllocNew"
      BY <2>3 DEF AllocNew, NewSector, AppendSectors, CountFat, Allocated, Goto, IControl
    <3>2. nsec < CountFat
      BY <1>2, <2>3 DEF AllocNew, NeedsTable, Coverage
    <3> QED
      BY <1>1, <1>2, <3>1, <3>2 DEF AtHelper
  <2> QED
    BY <2>1, <2>2, <2>3
<1> QED
  BY <1>4, <1>5 DEF Coverage, ForContainer

(* addSector grows the miniFAT before the container that needs its slots. *)
LEMMA HelperCoverage ==
  ASSUME TypeOK, IControl, Coverage, AtHelper, MiniTable \/ Container \/ DirSector \/ BigSector
  PROVE Coverage' /\ AtHelper'
<1>1. nsec' = nsec /\ memFat' = memFat /\ CountFat' = CountFat
  BY DEF MiniTable, Container, DirSector, BigSector, CountFat
<1>2. CASE BigSector \/ DirSector
  <2>1. memMini' = memMini /\ Minis' = Minis /\ CountMini' = CountMini
    BY <1>2 DEF BigSector, DirSector, memoryVars, miniVars, Minis, CountMini
  <2>2. CASE Return("err")
    BY <1>1, <2>1, <2>2, ReturnCoverage
  <2>3. CASE pc' \in {"WriteBig", "NewEntry"}
    BY <1>1, <2>1, <2>3 DEF Coverage, AtHelper
  <2> QED
    BY <1>2, <2>2, <2>3 DEF BigSector, DirSector, Goto
<1>3. CASE MiniTable
  <2>1. Minis' = Minis
    BY <1>3 DEF MiniTable, Minis
  <2>2. CASE CanAdd(s, "TableMini")
    <3>1. CountMini' = CountMini + EntriesPerSector /\ CountMini \in Nat /\ EntriesPerSector \in Nat /\ EntriesPerSector >= 3
      <4>1. memMini' = Append(memMini, s) /\ s \in Nat
        BY <1>3, <2>2 DEF MiniTable, IControl, Sectors, TypeOK, SectorsType
      <4> QED
        BY <4>1, CountAppend, LayoutFacts, Counts DEF TypeOK, TablesType, CountMini
    <3>2. pc' = "Alloc"
      BY <1>3, <2>2 DEF MiniTable, Goto
    <3>3. Cardinality(Minis) \in Nat
      BY Counts, CountAppend DEF TypeOK, MiniType
    <3> QED
      BY <1>1, <2>1, <3>1, <3>2, <3>3 DEF Coverage, AtHelper
  <2>3. CASE ~CanAdd(s, "TableMini")
    BY <1>1, <1>3, <2>1, <2>3, ReturnCoverage DEF MiniTable
  <2> QED
    BY <2>2, <2>3
<1>4. CASE Container
  <2> DEFINE L == Len(containers)
  <2>1. /\ Cardinality(Minis) = MinisPerSector * L /\ Cardinality(Minis) < CountMini
        /\ CountMini = EntriesPerSector * Len(memMini) /\ L \in Nat /\ Len(memMini) \in Nat
    BY <1>4, Counts DEF Container, AtHelper, Coverage, CountMini, TypeOK, MiniType, TablesType
  <2>2. PICK k \in 1..EntriesPerSector : EntriesPerSector = k * MinisPerSector
    BY LayoutAssumption
  <2>3. MinisPerSector * L + MinisPerSector <= CountMini
    <3>1. k \in Nat /\ MinisPerSector \in Nat /\ MinisPerSector >= 1
      BY LayoutFacts
    <3>2. MinisPerSector * L < (k * MinisPerSector) * Len(memMini)
      BY <2>1, <2>2
    <3>3. MinisPerSector * L + MinisPerSector <= (k * MinisPerSector) * Len(memMini)
      BY <2>1, <3>1, <3>2, WholeContainers
    <3> QED
      BY <2>1, <2>2, <3>3
  <2>4. Cardinality(Minis') = MinisPerSector * L + MinisPerSector
    <3>1. TypeOK'
      BY <1>4, ContainerType
    <3>2. Cardinality(Minis') = MinisPerSector * Len(containers')
      BY <3>1, CountsNext
    <3>3. containers' = Append(containers, s) /\ s \in Nat
      BY <1>4 DEF Container, IControl, TypeOK, SectorsType, Sectors
    <3> QED
      BY <3>2, <3>3, CountAppend DEF TypeOK, MiniType
  <2>5. CountMini' = CountMini /\ pc' = "WriteMini"
    BY <1>4 DEF Container, memoryVars, CountMini, Goto
  <2> QED
    BY <1>1, <2>3, <2>4, <2>5 DEF Coverage, AtHelper
<1> QED
  BY <1>2, <1>3, <1>4

(* Steps that allocate nothing: only WriteMiniGrow asks for a container.     *)
LEMMA WriteCoverage ==
  ASSUME TypeOK, IControl, Coverage, AtHelper,
         \/ FreeFAT \/ FreeMiniFAT \/ Freed \/ Resize \/ WriteBigExisting \/ WriteBigGrow \/ FinishBig
         \/ WriteMiniExisting \/ WriteMiniNew \/ WriteMiniGrow \/ FinishMini \/ NewEntry \/ Update
  PROVE Coverage' /\ AtHelper'
<1>1. nsec' = nsec /\ memFat' = memFat /\ memMini' = memMini
  BY DEF FreeFAT, Push, FreeMiniFAT, Freed, Resize, WriteBigExisting, WriteBigGrow, FinishBig,
     WriteMiniExisting, WriteMiniNew, WriteMiniGrow, FinishMini, NewEntry, Update, memVars, sectorVars,
     fatVars, memoryVars
<1>2. Minis' = Minis
  <2>1. CASE FreeMiniFAT
    BY <2>1 DEF FreeMiniFAT, Minis
  <2>2. CASE WriteMiniNew
    BY <2>2 DEF WriteMiniNew, Minis
  <2>3. CASE miniNext' = miniNext
    BY <2>3 DEF Minis
  <2> QED
    BY <2>1, <2>2, <2>3 DEF FreeFAT, Freed, Resize, WriteBigExisting, WriteBigGrow, FinishBig,
       WriteMiniExisting, WriteMiniGrow, FinishMini, NewEntry, Update, miniVars
<1>3. CountFat' = CountFat /\ CountMini' = CountMini
  BY <1>1 DEF CountFat, CountMini
<1>4. CASE WriteMiniGrow
  <2>1. pc' = "Alloc" /\ (caller' = "Container" => ~(CountMini <= Cardinality(Minis)))
    BY <1>4 DEF WriteMiniGrow, Goto
  <2>2. CountMini \in Nat /\ Cardinality(Minis) \in Nat
    BY Counts, CountAppend DEF TypeOK, MiniType
  <2> QED
    BY <1>1, <1>2, <1>3, <2>1, <2>2 DEF Coverage, AtHelper
<1>5. CASE WriteBigGrow
  <2>1. pc' = "Alloc" /\ caller' = "BigSector"
    BY <1>5 DEF WriteBigGrow, Goto
  <2> QED
    BY <1>1, <1>2, <1>3, <2>1 DEF Coverage, AtHelper
<1>6. CASE pc' \notin {"Alloc", "AllocNew", "BigSector", "MiniTable", "Container", "DirSector"}
  BY <1>1, <1>2, <1>3, <1>6 DEF Coverage, AtHelper
<1>7. CASE \/ FreeFAT \/ FreeMiniFAT \/ Freed \/ Resize \/ NewEntry \/ Update
  <2>1. pc' \in {"FreeFAT", "FreeMiniFAT", "Idle", "Resize", "Update", "WriteBig", "WriteMini"}
    BY <1>7 DEF FreeFAT, FreeMiniFAT, Freed, Resize, NewEntry, Update, Return, Goto, IControl
  <2> QED
    BY <1>6, <2>1
<1>8. CASE \/ WriteBigExisting \/ FinishBig \/ WriteMiniExisting \/ WriteMiniNew \/ FinishMini
  <2>1. pc' \in {"Idle", "WriteBig", "WriteMini", "FreeFAT", "FreeMiniFAT", "Update"}
    BY <1>8 DEF WriteBigExisting, FinishBig, WriteMiniExisting, WriteMiniNew, WriteMiniAt, FinishMini,
       Return, Goto
  <2> QED
    BY <1>6, <2>1
<1> QED
  BY <1>4, <1>5, <1>7, <1>8

(* Calls begin with addSector only for a directory sector.                   *)
LEMMA CallCoverage ==
  ASSUME TypeOK, Coverage, AtHelper,
         \/ AddStream \/ FileCall \/ UNCHANGED vars
         \/ \E d \in Streams : GetData(d)
         \/ \E d \in Streams, v \in Values, n \in Sizes : SetData(d, v, n)
         \/ \E d \in Streams, v \in Values, n \in AppendSizes : AppendData(d, v, n)
  PROVE Coverage' /\ AtHelper'
<1>1. nsec' = nsec /\ memFat' = memFat /\ memMini' = memMini /\ miniNext' = miniNext
  BY FileCallKeeps DEF AddStream, GetData, Answer, SetData, AppendData, vars, memVars, sectorVars,
     fatVars, memoryVars, miniVars
<1>2. CountFat' = CountFat /\ CountMini' = CountMini /\ Minis' = Minis
  BY <1>1 DEF CountFat, CountMini, Minis
<1>3. CASE UNCHANGED vars
  <2>1. pc' = pc /\ caller' = caller
    BY <1>3 DEF vars
  <2> QED
    BY <1>1, <1>2, <2>1 DEF Coverage, AtHelper
<1>4. CASE AddStream
  <2>1. (pc' = "Alloc" /\ caller' = "DirSector") \/ pc' = "NewEntry"
    BY <1>4 DEF AddStream
  <2> QED
    BY <1>1, <1>2, <2>1 DEF Coverage, AtHelper
<1>5. CASE pc' \in {"Idle", "FreeFAT", "FreeMiniFAT", "Resize"}
  BY <1>1, <1>2, <1>5 DEF Coverage, AtHelper
<1> QED
  BY <1>3, <1>4, <1>5, FileCallKeeps DEF GetData, Answer, SetData, AppendData, Write, CanCall

(* Every step keeps Coverage. *)
LEMMA StepCoverage ==
  ASSUME TypeOK, IControl, Coverage, AtHelper, [Next]_vars
  PROVE Coverage' /\ AtHelper'
<1>1. CASE Continue
  BY <1>1, WriteCoverage, AllocCoverage, HelperCoverage DEF Continue
<1>2. CASE ~Continue
  BY <1>2, CallCoverage DEF Next, StreamCall
<1> QED
  BY <1>1, <1>2

(* After New and Open every sector has its slot. *)
LEMMA InitCoverage ==
  ASSUME Init
  PROVE Coverage /\ AtHelper
<1>1. TypeOK /\ memMini = <<>> /\ containers = <<>>
  BY InitType DEF Init, InitCommon
<1>2. Cardinality(Minis) = 0 /\ CountMini = 0
  BY <1>1, Counts, LayoutFacts DEF CountMini
<1>3. pc \in {"Idle", "Alloc"} /\ caller \in {"none", "DirSector"}
  BY DEF Init, InitNew, InitOpened
<1>4. nsec <= CountFat
  <2>1. CASE InitNew
    BY <2>1, LayoutFacts DEF InitNew, CountFat
  <2>2. ASSUME NEW n \in 2..EntriesPerSector, InitOpened(n)
        PROVE nsec <= CountFat
    <3>1. nsec = n /\ Len(memFat) = 1
      BY <2>2 DEF InitOpened
    <3> QED
      BY <3>1, LayoutFacts DEF CountFat
  <2> QED
    BY <2>1, <2>2, InstanceAssumption DEF Init
<1> QED
  BY <1>2, <1>3, <1>4 DEF Coverage, AtHelper

(***************************************************************************)
(* In every state of every run each sector has its FAT slot and each mini  *)
(* sector its miniFAT slot, at every growth boundary: growing the FAT one  *)
(* sector at a time when the last slot is used (mcdf.go:470-479) leaves    *)
(* room for the new FAT sector, for the DIFAT sector that may come with it *)
(* and for the sector asked for, and one miniFAT sector (mcdf.go:568) is   *)
(* always enough for a container.  So changeFAT and changeMiniFAT          *)
(* (memory.go:192-226) never look beyond their tables.                     *)
(***************************************************************************)
THEOREM CoverageCorrect == Spec => []Coverage
<1>1. Init => TypeOK /\ IControl /\ Coverage /\ AtHelper
  BY InitType, InitCoverage
<1>2. TypeOK /\ IControl /\ Coverage /\ AtHelper /\ [Next]_vars
        => TypeOK' /\ IControl' /\ Coverage' /\ AtHelper'
  BY StepType, StepCoverage
<1> QED
  BY <1>1, <1>2, PTL DEF Spec
=============================================================================
