------------------------- MODULE CompoundFileProofs -------------------------
(***************************************************************************)
(* Proof of type correctness of CompoundFile.                              *)
(*                                                                         *)
(* TypeOK is not inductive: BigSector assigns next[old] and next[s],       *)
(* WriteMiniNew miniNext[old], and a new directory sector is put at s, so  *)
(* the proof also needs IControl, which says of every place in the calls   *)
(* what the locals used there hold.  There is one lemma for each action.   *)
(***************************************************************************)
EXTENDS CompoundFile, FiniteSetTheorems, TLAPS

(* Where a call is, and what the locals it will use there hold. *)
InBig == pc \in {"WriteBig", "BigSector"} \/ (pc \in {"Alloc", "AllocNew"} /\ caller = "BigSector")
InMini ==
  \/ pc \in {"WriteMini", "MiniTable", "Container"}
  \/ pc \in {"Alloc", "AllocNew"} /\ caller \in {"MiniTable", "Container"}
NotWriting == pc \in {"Idle", "Resize"} \/ (pc \in {"FreeFAT", "FreeMiniFAT"} /\ caller = "Resize")

IControl ==
  /\ pc \in {"FreeFAT", "FreeMiniFAT"} => caller \in {"Resize", "Update"}
  /\ pc \in {"Alloc", "AllocNew"} => caller \in {"BigSector", "MiniTable", "Container", "DirSector"}
  /\ pc \in {"BigSector", "MiniTable", "Container", "DirSector"} => s \in Sectors /\ set[s] = "none"
  /\ pc = "Resize" \/ caller = "Resize" => arg.d \in DOMAIN dirs
  /\ NotWriting => old = -1
  /\ InBig => old \in Sectors \cup {-1}
  /\ InMini => old \in Minis \cup {-1}

(* The ranges of the geometry's parameters (header.go). *)
LEMMA LayoutFacts ==
  /\ EntriesPerSector \in Nat /\ EntriesPerSector >= 3
  /\ MinisPerSector \in Nat /\ MinisPerSector >= 1
  /\ DirsPerSector \in Nat /\ DirsPerSector >= 1
  /\ HeaderSlots \in Nat /\ HeaderSlots >= 1
BY LayoutAssumption

(* Assigning to one place of a function keeps its type, whatever the place. *)
LEMMA ExceptType ==
  ASSUME NEW D, NEW R, NEW f \in [D -> R], NEW x, NEW v \in R
  PROVE [f EXCEPT ![x] = v] \in [D -> R]
OBVIOUS

(* Changing an entry's size and start (directory.go:477-486) leaves an entry. *)
LEMMA EntryType ==
  ASSUME NEW e \in Entry, NEW n \in Nat, NEW a \in Int
  PROVE [e EXCEPT !.size = n, !.start = a] \in Entry /\ [e EXCEPT !.start = a] \in Entry
BY DEF Entry

(* There are whole containers of mini sectors and whole sectors of entries. *)
LEMMA Counts ==
  ASSUME TypeOK
  PROVE /\ Cardinality(Minis) = MinisPerSector * Len(containers)
        /\ Cardinality(DOMAIN dirs) = DirsPerSector * Len(memDir)
        /\ CountFat \in Nat /\ CountMini \in Nat
<1>1. MinisPerSector * Len(containers) \in Nat /\ DirsPerSector * Len(memDir) \in Nat
  BY LayoutFacts DEF TypeOK, MiniType, TablesType
<1>2. Cardinality(0..(MinisPerSector * Len(containers) - 1)) = MinisPerSector * Len(containers)
  BY <1>1, FS_Interval
<1>3. Cardinality(0..(DirsPerSector * Len(memDir) - 1)) = DirsPerSector * Len(memDir)
  BY <1>1, FS_Interval
<1>4. CountFat \in Nat /\ CountMini \in Nat
  BY LayoutFacts DEF TypeOK, TablesType, CountFat, CountMini
<1> QED
  BY <1>2, <1>3, <1>4 DEF TypeOK, MiniType, DirType, Minis

(* A return of a call keeps the types of the call's variables. *)
LEMMA ReturnType ==
  ASSUME CallType, NEW r \in {"ok", "err"}, Return(r)
  PROVE CallType' /\ pc' = "Idle"
<1>1. arg'.d \in Nat /\ arg'.size \in Nat
  BY DEF Return, NoArg
<1>2. errors' \in Nat
  BY DEF Return, CallType
<1>3. pc' \in Pcs /\ pc' = "Idle" /\ caller' = "none"
  BY DEF Return, Pcs
<1>4. OldSize' = 0 /\ offset' = 0 /\ SecID' = ENDOFCHAIN /\ old' = -1 /\ s' = -1 /\ updateDE' = FALSE
  BY DEF Return
<1>5. updateDE' \in BOOLEAN
  BY <1>4, Zenon
<1>6. SecID' \in Int /\ OldSize' \in Nat /\ offset' \in Nat /\ old' \in Int /\ s' \in Int
  BY <1>4 DEF ENDOFCHAIN
<1> QED
  BY <1>1, <1>2, <1>3, <1>5, <1>6, Zenon DEF CallType

(* Memory.Push (memory.go:239-245) keeps the types of the sectors and tables. *)
LEMMA PushType ==
  ASSUME SectorsType, TablesType, NEW x \in Sectors, Push(x), file' = file
  PROVE SectorsType' /\ TablesType' /\ Sectors' = Sectors /\ memMini' = memMini /\ memDir' = memDir
<1>0. Sectors' = Sectors /\ CountFat' = CountFat
  BY DEF Push, Sectors, CountFat
<1>1. next[x] \in Int /\ DefaultNext(next[x], "Free") \in Int
  BY DEF SectorsType, DefaultNext, FREESECT
<1>2. CASE CanAdd(x, "Free")
  <2>1. SectorsType'
    <3>1. next' \in [Sectors' -> Int]
      BY <1>0, <1>1, <1>2 DEF SectorsType, Push
    <3>2. set' \in [Sectors' -> ListNames \cup {"none"}]
      BY <1>0, <1>2 DEF SectorsType, Push, ListNames
    <3>3. DOMAIN data' = Sectors' /\ \A y \in Sectors' : DOMAIN data'[y] = 0..(MinisPerSector - 1)
      BY <1>0 DEF SectorsType, Push, BlockOf
    <3> QED
      BY <1>0, <3>1, <3>2, <3>3 DEF SectorsType, Push
  <2>2. fat' \in [0..(CountFat' - 1) -> Int] /\ memFree' \in Seq(Nat)
    <3>1. next'[x] \in Int
      BY <1>0, <1>1, <1>2 DEF SectorsType, Push
    <3>2. fat' = [fat EXCEPT ![x] = next'[x]] /\ fat \in [0..(CountFat - 1) -> Int]
      BY <1>2 DEF TablesType, Push
    <3>3. memFree' = Append(memFree, x) /\ x \in Nat
      BY <1>2 DEF TablesType, Push, Sectors, SectorsType
    <3>4. fat' \in [0..(CountFat' - 1) -> Int]
      BY <1>0, <3>1, <3>2
    <3> QED
      BY <3>3, <3>4 DEF TablesType
  <2>3. TablesType'
    BY <1>0, <1>2, <2>2 DEF TablesType, Push
  <2> QED
    BY <1>0, <2>1, <2>3 DEF Push
<1>3. CASE ~CanAdd(x, "Free")
  <2>1. SectorsType'
    BY <1>0, <1>3 DEF SectorsType, Push, BlockOf
  <2>3. TablesType'
    BY <1>0, <1>3 DEF TablesType, Push
  <2> QED
    BY <1>0, <2>1, <2>3 DEF Push
<1> QED
  BY <1>2, <1>3

(* A step that leaves the sectors and tables alone keeps their types. *)
LEMMA MemoryKeep ==
  ASSUME SectorsType, TablesType, UNCHANGED memVars, file' = file
  PROVE /\ SectorsType' /\ TablesType'
        /\ Sectors' = Sectors /\ set' = set /\ memMini' = memMini /\ memDir' = memDir
BY DEF memVars, sectorVars, fatVars, memoryVars, SectorsType, TablesType, Sectors, CountFat

(* A step that leaves the mini sectors alone keeps their types. *)
LEMMA MiniKeep ==
  ASSUME MiniType, UNCHANGED miniVars, memMini' = memMini, Sectors \subseteq Sectors'
  PROVE MiniType' /\ Minis' = Minis
BY DEF miniVars, MiniType, Minis, CountMini

(* A step that leaves the entries alone keeps their types. *)
LEMMA DirKeep ==
  ASSUME DirType, UNCHANGED dirVars, memDir' = memDir
  PROVE DirType'
BY DEF dirVars, DirType

(* Giving an entry its first sector. *)
LEMMA StartType ==
  ASSUME DirType, UNCHANGED <<memDir, dirSect, dirFree>>, NEW d, NEW x \in Int,
         dirs' = dirs \/ dirs' = [dirs EXCEPT ![d] = [dirs[d] EXCEPT !.start = x]]
  PROVE DirType' /\ DOMAIN dirs' = DOMAIN dirs
<1> DEFINE D == 0..(DirsPerSector * Len(memDir) - 1)
<1>1. dirs \in [D -> Entry]
  BY DEF DirType
<1>2. dirs' \in [D -> Entry]
  <2> HIDE DEF D
  <2>1. CASE d \in D
    <3>1. [dirs[d] EXCEPT !.start = x] \in Entry
      BY <1>1, <2>1, EntryType, 0 \in Nat
    <3> QED
      BY <1>1, <3>1, ExceptType
  <2>2. CASE d \notin D
    BY <1>1, <2>2
  <2> QED
    BY <2>1, <2>2
<1>3. DOMAIN dirs' = DOMAIN dirs
  BY <1>1, <1>2
<1> QED
  BY <1>2, <1>3 DEF DirType

(* After a return no helper is running. *)
LEMMA ReturnControl ==
  ASSUME CallType, NEW r \in {"ok", "err"}, Return(r)
  PROVE CallType' /\ IControl'
BY ReturnType DEF Return, IControl, NotWriting, InBig, InMini

(* A round of FreeFAT (mcdf.go:720-743) keeps every type. *)
LEMMA FreeFATType ==
  ASSUME TypeOK, IControl, FreeFAT
  PROVE TypeOK' /\ IControl'
<1> USE DEF FreeFAT, memVars, sectorVars, fatVars, memoryVars, resVars
<1>1. SectorsType' /\ TablesType' /\ Sectors' = Sectors /\ memMini' = memMini /\ memDir' = memDir
  <2>1. CASE SecID \in Sectors
    BY <2>1, PushType DEF TypeOK
  <2>2. CASE SecID \notin Sectors
    BY <2>2, MemoryKeep DEF TypeOK
  <2> QED
    BY <2>1, <2>2
<1>2. MiniType' /\ DirType' /\ Minis' = Minis
  BY <1>1, MiniKeep, DirKeep DEF TypeOK
<1>3. CallType' /\ IControl'
  <2>1. CASE SecID \in Sectors /\ CanAdd(SecID, "Free")
    <3>1. /\ SecID' \in Int
          /\ UNCHANGED <<pc, caller, arg, OldSize, offset, old, s, updateDE, errors, dirs>>
      BY <2>1 DEF TypeOK, SectorsType, dirVars
    <3>2. CallType'
      BY <3>1 DEF TypeOK, CallType
    <3>3. pc = "FreeFAT"
      OBVIOUS
    <3> HIDE DEF FreeFAT
    <3>4. IControl'
      BY <1>1, <1>2, <3>1, <3>3 DEF IControl, NotWriting, InBig, InMini
    <3> QED
      BY <3>2, <3>4
  <2>2. CASE ~(SecID \in Sectors /\ CanAdd(SecID, "Free"))
    BY <2>2, ReturnControl DEF TypeOK
  <2> QED
    BY <2>1, <2>2
<1> QED
  BY <1>1, <1>2, <1>3 DEF TypeOK

(* A round of FreeMiniFAT (mcdf.go:745-767) keeps every type. *)
LEMMA FreeMiniFATType ==
  ASSUME TypeOK, IControl, FreeMiniFAT
  PROVE TypeOK' /\ IControl'
<1> USE DEF FreeMiniFAT, resVars
<1>1. SectorsType' /\ TablesType' /\ Sectors' = Sectors /\ memMini' = memMini /\ memDir' = memDir
  BY MemoryKeep DEF TypeOK
<1>2. DirType'
  BY <1>1, DirKeep DEF TypeOK
<1>3. CASE SecID \in Minis \ miniFree
  <2>1. /\ miniNext' \in [0..(MinisPerSector * Len(containers) - 1) -> Int]
        /\ miniTable' \in [0..(CountMini - 1) -> Int]
        /\ miniFree' \subseteq Minis
        /\ SecID' \in Int
    <3>1. miniNext \in [0..(MinisPerSector * Len(containers) - 1) -> Int] /\ SecID \in Minis
      BY <1>3 DEF TypeOK, MiniType
    <3>2. miniTable \in [0..(CountMini - 1) -> Int] /\ miniFree \subseteq Minis
      BY DEF TypeOK, MiniType
    <3>3. /\ SecID' = miniNext[SecID] /\ miniNext' = [miniNext EXCEPT ![SecID] = -1]
          /\ miniTable' = [miniTable EXCEPT ![SecID] = -1] /\ miniFree' = miniFree \cup {SecID}
      BY <1>3 DEF FREESECT
    <3> HIDE DEF FreeMiniFAT
    <3>4. SecID' \in Int
      BY <3>1, <3>3 DEF Minis
    <3>5. miniNext' \in [0..(MinisPerSector * Len(containers) - 1) -> Int]
      BY <3>1, <3>3, -1 \in Int, ExceptType
    <3>6. miniTable' \in [0..(CountMini - 1) -> Int]
      BY <3>2, <3>3, -1 \in Int, ExceptType
    <3> QED
      BY <3>1, <3>2, <3>3, <3>4, <3>5, <3>6
  <2>2. MiniType' /\ Minis' = Minis
    BY <1>1, <2>1 DEF TypeOK, MiniType, Minis, CountMini
  <2>3. /\ UNCHANGED <<pc, caller, arg, OldSize, offset, old, s, updateDE, errors, dirs>>
        /\ pc = "FreeMiniFAT"
    BY <1>3 DEF dirVars
  <2>4. CallType'
    BY <2>1, <2>3 DEF TypeOK, CallType
  <2> HIDE DEF FreeMiniFAT
  <2>5. IControl'
    BY <1>1, <2>2, <2>3 DEF IControl, NotWriting, InBig, InMini
  <2> QED
    BY <1>1, <1>2, <2>2, <2>4, <2>5 DEF TypeOK
<1>4. CASE SecID \notin Minis \ miniFree
  <2>1. CallType' /\ IControl'
    BY <1>4, ReturnControl DEF TypeOK
  <2>2. MiniType'
    BY <1>1, <1>4, MiniKeep DEF TypeOK, miniVars
  <2> QED
    BY <1>1, <1>2, <2>1, <2>2 DEF TypeOK
<1> QED
  BY <1>3, <1>4

(* The end of a free loop keeps every type. *)
LEMMA FreedType ==
  ASSUME TypeOK, IControl, Freed
  PROVE TypeOK' /\ IControl'
<1>1. /\ SectorsType' /\ TablesType' /\ MiniType' /\ DirType'
      /\ Sectors' = Sectors /\ set' = set /\ Minis' = Minis
  BY MemoryKeep, MiniKeep, DirKeep DEF TypeOK, Freed
<1>2. /\ UNCHANGED <<arg, offset, SecID, old, s, updateDE, errors, dirs>>
      /\ caller' = "none" /\ OldSize' \in {0, OldSize}
      /\ \/ pc' = "Resize" /\ caller = "Resize" /\ old = -1
         \/ pc' = "Update"
  BY DEF Freed, Goto, resVars, dirVars, IControl, NotWriting
<1>3. CallType'
  BY <1>2 DEF TypeOK, CallType, Pcs
<1>4. IControl'
  BY <1>1, <1>2 DEF IControl, NotWriting, InBig, InMini
<1> QED
  BY <1>1, <1>3, <1>4 DEF TypeOK

(* Setting the size of an entry (directory.go:477-488) keeps every type. *)
LEMMA ResizeType ==
  ASSUME TypeOK, IControl, Resize
  PROVE TypeOK' /\ IControl'
<1> USE DEF Resize, Goto, resVars
<1>1. SectorsType' /\ TablesType' /\ MiniType' /\ Sectors' = Sectors /\ memDir' = memDir /\ Minis' = Minis
  BY MemoryKeep, MiniKeep DEF TypeOK
<1>2. DirType'
  <2> DEFINE n == arg.size
             D == 0..(DirsPerSector * Len(memDir) - 1)
  <2>1. n \in Nat /\ dirs \in [D -> Entry]
    BY DEF TypeOK, DirType, CallType
  <2>2. dirs' = [dirs EXCEPT ![arg.d] = [dirs[arg.d] EXCEPT !.size = IF OldSize # n THEN n ELSE dirs[arg.d].size,
                                           !.start = IF n = 0 THEN ENDOFCHAIN ELSE dirs[arg.d].start]]
    OBVIOUS
  <2> HIDE DEF n, Resize
  <2>3. dirs' \in [D -> Entry]
    <3> HIDE DEF D
    <3>1. CASE arg.d \in D
      <4>1. dirs[arg.d] \in Entry
        BY <2>1, <3>1
      <4> DEFINE a == IF n = 0 THEN ENDOFCHAIN ELSE dirs[arg.d].start
                 k == IF OldSize # n THEN n ELSE dirs[arg.d].size
      <4>2. a \in Int /\ k \in Nat
        BY <2>1, <4>1 DEF Entry, ENDOFCHAIN
      <4>3. dirs' = [dirs EXCEPT ![arg.d] = [dirs[arg.d] EXCEPT !.size = k, !.start = a]]
        BY <2>2
      <4> HIDE DEF a, k
      <4>4. [dirs[arg.d] EXCEPT !.size = k, !.start = a] \in Entry
        BY <2>1, <4>1, <4>2, EntryType
      <4> QED
        BY <2>1, <4>3, <4>4, ExceptType
    <3>2. CASE arg.d \notin D
      BY <2>1, <2>2, <3>2
    <3> QED
      BY <3>1, <3>2
  <2>4. DOMAIN dirs' = DOMAIN dirs
    BY <2>1, <2>3
  <2>5. UNCHANGED <<dirSect, dirFree>>
    BY DEF Resize
  <2> QED
    BY <1>1, <2>3, <2>4, <2>5 DEF TypeOK, DirType
<1>3. SecID' \in Int
  BY DEF TypeOK, DirType, Entry, ENDOFCHAIN, IControl
<1>4. updateDE' \in BOOLEAN
  <2>1. updateDE' = (OldSize # arg.size \/ arg.size = 0)
    BY Zenon
  <2> HIDE DEF Resize
  <2> QED
    BY <2>1, Zenon
<1>5. /\ UNCHANGED <<caller, arg, OldSize, offset, old, s, errors>>
      /\ pc' \in {"Update", "WriteBig", "WriteMini"} /\ old = -1
      /\ DOMAIN dirs' = DOMAIN dirs
  <2>1. UNCHANGED <<caller, arg, OldSize, offset, old, s, errors>>
    OBVIOUS
  <2>2. pc' \in {"Update", "WriteBig", "WriteMini"}
    OBVIOUS
  <2>3. old = -1
    BY DEF IControl, NotWriting
  <2>4. DOMAIN dirs' = DOMAIN dirs
    BY DEF TypeOK, DirType
  <2> QED
    BY <2>1, <2>2, <2>3, <2>4
<1>6. CallType'
  BY <1>3, <1>4, <1>5 DEF TypeOK, CallType, Pcs
<1> HIDE DEF Resize
<1>7. IControl'
  BY <1>1, <1>5 DEF IControl, NotWriting, InBig, InMini
<1> QED
  BY <1>1, <1>2, <1>6, <1>7 DEF TypeOK

(* Rewriting a sector of a stream (directory.go:494-501) keeps every type. *)
LEMMA WriteBigExistingType ==
  ASSUME TypeOK, IControl, WriteBigExisting
  PROVE TypeOK' /\ IControl'
<1> USE DEF WriteBigExisting, fatVars, memoryVars
<1>1. TablesType' /\ memMini' = memMini /\ memDir' = memDir /\ Sectors' = Sectors /\ set' = set
  BY DEF TypeOK, TablesType, CountFat, Sectors
<1>2. MiniType' /\ DirType' /\ Minis' = Minis
  BY <1>1, MiniKeep, DirKeep DEF TypeOK
<1>3. CASE SecID \in Sectors
  <2>1. /\ loaded' \subseteq Sectors
        /\ DOMAIN data' = Sectors /\ \A x \in Sectors : DOMAIN data'[x] = 0..(MinisPerSector - 1)
    BY <1>3 DEF TypeOK, SectorsType, Filled
  <2>2. SectorsType'
    BY <1>1, <2>1 DEF TypeOK, SectorsType
  <2>3. /\ UNCHANGED <<caller, arg, OldSize, s, updateDE, errors, dirs>>
        /\ pc = "WriteBig" /\ pc' = "WriteBig" /\ old' = SecID
    BY <1>3 DEF Goto, resVars, dirVars
  <2>4. offset' \in Nat
    BY <1>3, LayoutAssumption DEF TypeOK, CallType
  <2>5. SecID' \in Int /\ old' \in Int
    BY <1>3 DEF TypeOK, SectorsType, CallType
  <2>6. CallType'
    BY <2>3, <2>4, <2>5 DEF TypeOK, CallType
  <2> HIDE DEF WriteBigExisting
  <2>7. IControl'
    BY <1>1, <1>2, <1>3, <2>3 DEF IControl, NotWriting, InBig, InMini
  <2> QED
    BY <1>1, <1>2, <2>2, <2>6, <2>7 DEF TypeOK
<1>4. CASE SecID \notin Sectors
  <2>1. SectorsType'
    BY <1>1, <1>4 DEF TypeOK, SectorsType
  <2> QED
    BY <1>1, <1>2, <1>4, <2>1, ReturnControl DEF TypeOK
<1> QED
  BY <1>3, <1>4

(* Asking addSector for a sector keeps every type. *)
LEMMA GrowType ==
  ASSUME TypeOK, IControl, WriteBigGrow \/ WriteMiniGrow
  PROVE TypeOK' /\ IControl'
<1>1. /\ SectorsType' /\ TablesType' /\ MiniType' /\ DirType'
      /\ Sectors' = Sectors /\ set' = set /\ Minis' = Minis
  BY MemoryKeep, MiniKeep, DirKeep DEF TypeOK, WriteBigGrow, WriteMiniGrow
<1>2. /\ UNCHANGED <<arg, offset, OldSize, SecID, old, s, updateDE, errors, dirs>>
      /\ pc' = "Alloc"
      /\ \/ pc = "WriteBig" /\ caller' = "BigSector"
         \/ pc = "WriteMini" /\ caller' \in {"MiniTable", "Container"}
  BY DEF WriteBigGrow, WriteMiniGrow, Goto, resVars, dirVars, loopVars
<1>3. CallType'
  BY <1>2 DEF TypeOK, CallType, Pcs
<1>4. IControl'
  BY <1>1, <1>2 DEF IControl, NotWriting, InBig, InMini
<1> QED
  BY <1>1, <1>3, <1>4 DEF TypeOK

(* The end of the sector loop (directory.go:524-533) keeps every type. *)
LEMMA FinishBigType ==
  ASSUME TypeOK, IControl, FinishBig
  PROVE TypeOK' /\ IControl'
<1> USE DEF FinishBig, sectorVars, memoryVars
<1>1. SectorsType' /\ Sectors' = Sectors /\ set' = set
  BY DEF TypeOK, SectorsType, Sectors
<1>2. MiniType' /\ DirType' /\ Minis' = Minis
  BY <1>1, MiniKeep, DirKeep DEF TypeOK
<1>3. fat' \in [0..(CountFat - 1) -> Int]
  <2>1. fat \in [0..(CountFat - 1) -> Int] /\ fat' = [fat EXCEPT ![old] = next[old]]
    BY DEF TypeOK, TablesType
  <2>2. old \in Sectors \cup {-1}
    BY DEF IControl, InBig
  <2>3. CASE old \in Sectors
    <3>1. next[old] \in Int
      BY <2>3 DEF TypeOK, SectorsType
    <3> QED
      BY <2>1, <3>1, ExceptType
  <2>4. CASE old = -1
    <3>1. old \notin DOMAIN fat
      BY <2>1, <2>4
    <3> QED
      BY <2>1, <3>1, Zenon
  <2> QED
    BY <2>2, <2>3, <2>4
<1>4. TablesType'
  BY <1>3 DEF TypeOK, TablesType, CountFat
<1>5. /\ UNCHANGED <<arg, offset, OldSize, SecID, old, s, updateDE, errors, dirs>>
      /\ pc = "WriteBig"
      /\ \/ pc' = "FreeFAT" /\ caller' = "Update"
         \/ pc' = "Update" /\ caller' = caller
  BY DEF Goto, resVars, dirVars, loopVars
<1>6. CallType'
  BY <1>5 DEF TypeOK, CallType, Pcs
<1> HIDE DEF FinishBig
<1>7. IControl'
  BY <1>1, <1>5 DEF IControl, NotWriting, InBig, InMini
<1> QED
  BY <1>1, <1>2, <1>4, <1>6, <1>7 DEF TypeOK

(* Linking a sector to a stream (directory.go:503-522) keeps every type. *)
LEMMA BigSectorType ==
  ASSUME TypeOK, IControl, BigSector
  PROVE TypeOK' /\ IControl'
<1> USE DEF BigSector, memoryVars
<1>1. /\ UNCHANGED <<nsec, file, loaded, set, memMini, memDir, dirSect, dirFree>>
      /\ Sectors' = Sectors /\ pc = "BigSector" /\ s \in Sectors /\ old \in Sectors \cup {-1}
  BY DEF Sectors, IControl, InBig
<1>2. MiniType' /\ Minis' = Minis
  BY <1>1, MiniKeep DEF TypeOK
<1>3. next' \in [Sectors -> Int] /\ next'[s] \in Int
  <2>1. next \in [Sectors -> Int] /\ -2 \in Int /\ s \in Int
    BY <1>1 DEF TypeOK, SectorsType, CallType
  <2>2. [next EXCEPT ![s] = -2] \in [Sectors -> Int]
    BY <2>1, ExceptType
  <2>3. next' \in [Sectors -> Int]
    BY <2>1, <2>2, ExceptType DEF ENDOFCHAIN
  <2> QED
    BY <1>1, <2>3
<1>4. TablesType'
  <2>1. fat \in [0..(CountFat - 1) -> Int] /\ s \in Int
    BY DEF TypeOK, TablesType, CallType
  <2>2. fat' \in [0..(CountFat - 1) -> Int]
    BY <2>1, ExceptType
  <2> QED
    BY <2>2 DEF TypeOK, TablesType, CountFat
<1>5. DirType' /\ DOMAIN dirs' = DOMAIN dirs
  <2>1. dirs' = dirs \/ dirs' = [dirs EXCEPT ![arg.d] = [dirs[arg.d] EXCEPT !.start = s]]
    OBVIOUS
  <2>2. s \in Int
    BY DEF TypeOK, CallType
  <2> QED
    BY <1>1, <2>1, <2>2, StartType DEF TypeOK
<1>6. CASE s \in loaded
  <2>1. DOMAIN data' = Sectors /\ \A x \in Sectors : DOMAIN data'[x] = 0..(MinisPerSector - 1)
    BY <1>6 DEF TypeOK, SectorsType, Filled
  <2>2. SectorsType'
    BY <1>1, <1>3, <2>1 DEF TypeOK, SectorsType
  <2>3. /\ UNCHANGED <<arg, OldSize, errors>>
        /\ pc' = "WriteBig" /\ caller' = "none" /\ old' = s /\ SecID' = next'[s] /\ s' = -1
        /\ offset' = offset + SectorSize
    BY <1>6 DEF Goto, resVars
  <2>4. offset' \in Nat
    BY <2>3, LayoutAssumption DEF TypeOK, CallType
  <2>5. updateDE' \in BOOLEAN
    <3>1. updateDE' = (updateDE \/ old < 0)
      BY <1>6
    <3> HIDE DEF BigSector
    <3> QED
      BY <3>1, Zenon
  <2> HIDE DEF BigSector
  <2>6. CallType'
    BY <1>1, <1>3, <2>3, <2>4, <2>5 DEF TypeOK, CallType, Pcs
  <2>7. IControl'
    BY <1>1, <2>3 DEF IControl, NotWriting, InBig, InMini
  <2> QED
    BY <1>2, <1>4, <1>5, <2>2, <2>6, <2>7 DEF TypeOK
<1>7. CASE s \notin loaded
  <2>1. SectorsType'
    BY <1>1, <1>3, <1>7 DEF TypeOK, SectorsType
  <2> QED
    BY <1>2, <1>4, <1>5, <1>7, <2>1, ReturnControl DEF TypeOK
<1> QED
  BY <1>6, <1>7

(* The container of a mini sector is a sector. *)
LEMMA ContainerOf ==
  ASSUME MiniType, NEW m \in Minis
  PROVE SectorOf(m) \in Sectors
<1> DEFINE P == MinisPerSector
           L == Len(containers)
           q == m \div P
<1>1. P \in Nat /\ P >= 1 /\ L \in Nat /\ m \in 0..(P * L - 1)
  BY LayoutFacts DEF MiniType, Minis
<1> HIDE DEF P, L
<1>2. q \in Int /\ P * q <= m /\ m < P * q + P
  BY <1>1
<1> HIDE DEF q
<1>3. q < L
  <2>1. SUFFICES ASSUME q >= L PROVE FALSE
    BY <1>1, <1>2
  <2>2. P * q >= P * L
    BY <1>1, <1>2, <2>1
  <2> QED
    BY <1>1, <1>2, <2>2
<1>4. q >= 0
  <2>1. SUFFICES ASSUME q <= -1 PROVE FALSE
    BY <1>1, <1>2
  <2>2. P * q <= P * (-1)
    BY <1>1, <1>2, <2>1
  <2> QED
    BY <1>1, <1>2, <2>2
<1>5. q + 1 \in 1..L
  BY <1>1, <1>2, <1>3, <1>4
<1> QED
  BY <1>5 DEF MiniType, SectorOf, q, P, L

(* What the write of one mini sector leaves behind when its container could  *)
(* be read.                                                                  *)
LEMMA MiniWritten ==
  ASSUME TypeOK, IControl, pc = "WriteMini", NEW m \in Minis,
         UNCHANGED <<nsec, next, set, file, caller, arg, OldSize, s, errors>>,
         Minis' = Minis, DOMAIN dirs' = DOMAIN dirs,
         loaded' = loaded \cup {SectorOf(m)},
         data' = [data EXCEPT ![SectorOf(m)] =
                    [Content(SectorOf(m)) EXCEPT
                       ![PieceOf(m)] = arg.buf[offset \div MiniSectorSize]]],
         offset' = offset + MiniSectorSize, old' = m, SecID' \in Int, updateDE' \in BOOLEAN,
         pc' = "WriteMini"
  PROVE SectorsType' /\ CallType' /\ IControl'
<1>1. SectorOf(m) \in Sectors /\ Sectors' = Sectors
  BY ContainerOf DEF TypeOK, Sectors
<1>2. DOMAIN Content(SectorOf(m)) = 0..(MinisPerSector - 1)
  BY <1>1 DEF TypeOK, SectorsType, Content, BlockOf
<1>3. /\ loaded' \subseteq Sectors
      /\ DOMAIN data' = Sectors /\ \A x \in Sectors : DOMAIN data'[x] = 0..(MinisPerSector - 1)
  BY <1>1, <1>2 DEF TypeOK, SectorsType
<1>4. SectorsType'
  BY <1>1, <1>3 DEF TypeOK, SectorsType
<1>5. offset' \in Nat /\ old' \in Int
  BY LayoutAssumption DEF TypeOK, CallType, MiniType, Minis
<1>6. CallType'
  BY <1>5 DEF TypeOK, CallType, Pcs
<1>7. IControl'
  BY <1>1 DEF IControl, NotWriting, InBig, InMini
<1> QED
  BY <1>4, <1>6, <1>7

(* Rewriting a mini sector (directory.go:538-542) keeps every type. *)
LEMMA WriteMiniExistingType ==
  ASSUME TypeOK, IControl, WriteMiniExisting
  PROVE TypeOK' /\ IControl'
<1> USE DEF WriteMiniExisting, fatVars, memoryVars
<1>1. TablesType' /\ memMini' = memMini /\ memDir' = memDir /\ Sectors' = Sectors
  BY DEF TypeOK, TablesType, CountFat, Sectors
<1>2. MiniType' /\ DirType' /\ Minis' = Minis /\ dirs' = dirs
  BY <1>1, MiniKeep, DirKeep DEF TypeOK, dirVars
<1>3. CASE SecID \in Minis /\ Readable(SectorOf(SecID))
  <2>1. miniNext[SecID] \in Int /\ updateDE \in BOOLEAN
    BY <1>3 DEF TypeOK, MiniType, CallType, Minis
  <2>2. SectorsType' /\ CallType' /\ IControl'
    BY <1>2, <1>3, <2>1, MiniWritten DEF WriteMiniAt, Goto, resVars
  <2> QED
    BY <1>1, <1>2, <2>2 DEF TypeOK
<1>4. CASE ~(SecID \in Minis /\ Readable(SectorOf(SecID)))
  <2>1. Return("err") /\ UNCHANGED <<loaded, data>>
    BY <1>4 DEF WriteMiniAt
  <2>2. SectorsType'
    BY <1>1, <2>1 DEF TypeOK, SectorsType
  <2> QED
    BY <1>1, <1>2, <2>1, <2>2, ReturnControl DEF TypeOK
<1> QED
  BY <1>3, <1>4

(* Linking a mini sector to a stream (directory.go:544-569) keeps every type. *)
LEMMA WriteMiniNewType ==
  ASSUME TypeOK, IControl, WriteMiniNew
  PROVE TypeOK' /\ IControl'
<1>1. PICK m \in miniFree :
        LET ended == [miniNext EXCEPT ![m] = ENDOFCHAIN]
        IN /\ miniFree' = miniFree \ {m}
           /\ miniNext' = IF old >= 0 THEN [ended EXCEPT ![old] = m] ELSE ended
           /\ miniTable' = IF old >= 0 THEN [miniTable EXCEPT ![old] = m] ELSE miniTable
           /\ dirs' = IF old >= 0 THEN dirs ELSE [dirs EXCEPT ![arg.d].start = m]
           /\ WriteMiniAt(m, miniNext'[m], updateDE \/ old < 0)
  BY DEF WriteMiniNew
<1>2. /\ UNCHANGED <<nsec, next, set, memMini, memDir, file, containers, dirFree, dirSect>>
      /\ pc = "WriteMini" /\ Sectors' = Sectors /\ m \in Minis /\ m \in Int
  BY DEF WriteMiniNew, memoryVars, Sectors, TypeOK, MiniType, Minis
<1>3. TablesType'
  BY DEF WriteMiniNew, memoryVars, fatVars, TypeOK, TablesType, CountFat
<1>4. MiniType' /\ Minis' = Minis /\ miniNext'[m] \in Int
  <2> DEFINE D == 0..(MinisPerSector * Len(containers) - 1)
             ended == [miniNext EXCEPT ![m] = -2]
  <2>1. miniNext \in [D -> Int] /\ miniTable \in [0..(CountMini - 1) -> Int] /\ -2 \in Int
    BY DEF TypeOK, MiniType
  <2>2. miniNext' = IF old >= 0 THEN [ended EXCEPT ![old] = m] ELSE ended
    BY <1>1 DEF ENDOFCHAIN
  <2>3. ended \in [D -> Int]
    BY <2>1, ExceptType
  <2> HIDE DEF D, ended
  <2>4. miniNext' \in [D -> Int]
    BY <1>2, <2>2, <2>3, ExceptType
  <2>5. miniTable' \in [0..(CountMini - 1) -> Int]
    BY <1>1, <1>2, <2>1, ExceptType
  <2>6. Minis' = Minis /\ m \in D
    BY <1>2, <2>1, <2>4 DEF Minis
  <2> QED
    BY <1>1, <1>2, <2>4, <2>5, <2>6 DEF TypeOK, MiniType, CountMini, D
<1>5. DirType' /\ DOMAIN dirs' = DOMAIN dirs
  <2>1. dirs' = dirs \/ dirs' = [dirs EXCEPT ![arg.d] = [dirs[arg.d] EXCEPT !.start = m]]
    BY <1>1
  <2> QED
    BY <1>2, <2>1, StartType DEF TypeOK
<1>6. CASE Readable(SectorOf(m))
  <2>1. updateDE' \in BOOLEAN
    <3>1. updateDE' = (updateDE \/ old < 0)
      BY <1>1, <1>6 DEF WriteMiniAt
    <3> QED
      BY <3>1, Zenon
  <2>2. SectorsType' /\ CallType' /\ IControl'
    BY <1>1, <1>2, <1>4, <1>5, <1>6, <2>1, MiniWritten DEF WriteMiniAt, Goto, resVars
  <2> QED
    BY <1>3, <1>4, <1>5, <2>2 DEF TypeOK
<1>7. CASE ~Readable(SectorOf(m))
  <2>1. Return("err") /\ UNCHANGED <<loaded, data>>
    BY <1>1, <1>7 DEF WriteMiniAt
  <2>2. SectorsType'
    BY <1>2, <2>1 DEF TypeOK, SectorsType
  <2> QED
    BY <1>3, <1>4, <1>5, <2>1, <2>2, ReturnControl DEF TypeOK
<1> QED
  BY <1>6, <1>7

(* The end of the mini sector loop (directory.go:570-579) keeps every type. *)
LEMMA FinishMiniType ==
  ASSUME TypeOK, IControl, FinishMini
  PROVE TypeOK' /\ IControl'
<1> USE DEF FinishMini
<1>1. /\ SectorsType' /\ TablesType' /\ Sectors' = Sectors /\ set' = set
      /\ memMini' = memMini /\ memDir' = memDir
  BY MemoryKeep DEF TypeOK
<1>2. DirType' /\ dirs' = dirs
  BY <1>1, DirKeep DEF TypeOK, dirVars
<1>3. MiniType' /\ Minis' = Minis
  <2>1. miniTable \in [0..(CountMini - 1) -> Int] /\ miniNext \in [Minis -> Int]
    BY DEF TypeOK, MiniType, Minis
  <2>2. old \in Minis \cup {-1}
    BY DEF IControl, InMini
  <2>3. miniTable' \in [0..(CountMini - 1) -> Int]
    <3>1. CASE old \in Minis
      BY <2>1, <3>1, ExceptType
    <3>2. CASE old = -1
      <4>1. old \notin DOMAIN miniTable
        BY <2>1, <3>2
      <4> QED
        BY <2>1, <4>1, Zenon
    <3> QED
      BY <2>2, <3>1, <3>2
  <2> QED
    BY <1>1, <2>3 DEF TypeOK, MiniType, Minis, CountMini
<1>4. /\ UNCHANGED <<arg, offset, OldSize, SecID, old, s, updateDE, errors, dirs>>
      /\ pc = "WriteMini"
      /\ \/ pc' = "FreeMiniFAT" /\ caller' = "Update"
         \/ pc' = "Update" /\ caller' = caller
  BY DEF Goto, resVars, dirVars, loopVars
<1>5. CallType'
  BY <1>4 DEF TypeOK, CallType, Pcs
<1> HIDE DEF FinishMini
<1>6. IControl'
  BY <1>1, <1>4 DEF IControl, NotWriting, InBig, InMini
<1> QED
  BY <1>1, <1>2, <1>3, <1>5, <1>6 DEF TypeOK

(* updateDirectory at the end of Directory.Write keeps every type. *)
LEMMA UpdateType ==
  ASSUME TypeOK, IControl, Update
  PROVE TypeOK' /\ IControl'
<1>1. SectorsType' /\ TablesType' /\ MiniType' /\ memDir' = memDir
  BY MemoryKeep, MiniKeep DEF TypeOK, Update
<1>2. dirSect' \in [DOMAIN dirs -> Entry]
  <2>1. dirSect \in [DOMAIN dirs -> Entry] /\ dirs \in [DOMAIN dirs -> Entry]
    BY DEF TypeOK, DirType
  <2>2. dirSect' = dirSect \/ dirSect' = [dirSect EXCEPT ![arg.d] = dirs[arg.d]]
    BY DEF Update
  <2>3. CASE arg.d \in DOMAIN dirs
    BY <2>1, <2>2, <2>3, ExceptType
  <2>4. CASE arg.d \notin DOMAIN dirs
    BY <2>1, <2>2, <2>4
  <2> QED
    BY <2>3, <2>4
<1>3. DirType'
  BY <1>1, <1>2 DEF Update, TypeOK, DirType
<1>4. CallType' /\ IControl'
  BY ReturnControl DEF TypeOK, Update
<1> QED
  BY <1>1, <1>3, <1>4 DEF TypeOK

(* Reading sectors of the file (sector.go:162-199) keeps types. *)
LEMMA ReadInType ==
  ASSUME TypeOK, NEW X \in SUBSET Sectors, ReadIn(X), UNCHANGED <<nsec, next, set>>, file' \in Nat
  PROVE SectorsType' /\ Sectors' = Sectors
<1>1. \A x \in Sectors : DOMAIN Content(x) = 0..(MinisPerSector - 1)
  BY DEF TypeOK, SectorsType, Content, BlockOf
<1>2. DOMAIN data' = Sectors /\ \A x \in Sectors : DOMAIN data'[x] = 0..(MinisPerSector - 1)
  BY <1>1 DEF ReadIn, TypeOK, SectorsType
<1>3. loaded' \subseteq Sectors /\ Sectors' = Sectors
  BY DEF ReadIn, TypeOK, SectorsType, Sectors
<1> QED
  BY <1>2, <1>3 DEF TypeOK, SectorsType

(* Loading the sectors a read goes through (directory.go:590-637) keeps types. *)
LEMMA LoadReadType ==
  ASSUME TypeOK, NEW d, LoadRead(d), UNCHANGED <<nsec, next, set, file>>
  PROVE SectorsType' /\ Sectors' = Sectors
<1>1. ReadSectors(d) \subseteq Sectors
  <2>1. SUFFICES ASSUME NEW i \in 0..(ChainLen(d) - 1), StepReadable(d, i)
                 PROVE (IF IsBig(dirs[d].size) THEN Chain(d)[i] ELSE SectorOf(Chain(d)[i])) \in Sectors
    BY DEF ReadSectors
  <2>2. CASE IsBig(dirs[d].size)
    BY <2>1, <2>2 DEF StepReadable
  <2>3. CASE ~IsBig(dirs[d].size)
    BY <2>1, <2>3, ContainerOf DEF StepReadable, TypeOK
  <2> QED
    BY <2>2, <2>3
<1>2. file' \in Nat
  BY DEF TypeOK, SectorsType
<1> QED
  BY <1>1, <1>2, ReadInType DEF LoadRead

(* The start of Directory.Write (directory.go:447-475) keeps the call's types. *)
LEMMA WriteType ==
  ASSUME TypeOK, IControl, pc = "Idle", NEW d \in DOMAIN dirs, NEW n \in Nat, NEW b, Write(d, n, b),
         UNCHANGED <<set, dirs, miniNext>>, Sectors' = Sectors
  PROVE CallType' /\ IControl'
<1>1. d \in Nat /\ dirs[d].start \in Int /\ dirs[d].size \in Nat /\ DOMAIN dirs' = DOMAIN dirs
  <2> DEFINE k == DirsPerSector * Len(memDir)
  <2>1. dirs \in [0..(k - 1) -> Entry]
    BY DEF TypeOK, DirType
  <2> HIDE DEF k
  <2>2. d \in Nat /\ dirs[d] \in Entry
    BY <2>1
  <2> QED
    BY <2>2 DEF Entry
<1>2. old = -1 /\ s \in Int /\ Minis' = Minis
  BY DEF IControl, NotWriting, TypeOK, CallType, Minis
<1>3. CASE UNCHANGED <<pc, caller, arg, loopVars, s>> /\ errors' = errors + 1
  <2>1. CallType'
    BY <1>3 DEF TypeOK, CallType, loopVars
  <2>2. IControl'
    BY <1>2, <1>3 DEF IControl, NotWriting, InBig, InMini, loopVars
  <2> QED
    BY <2>1, <2>2
<1>4. CASE ~(UNCHANGED <<pc, caller, arg, loopVars, s>> /\ errors' = errors + 1)
  <2>1. /\ arg' = [op |-> "SetData", d |-> d, size |-> n, buf |-> b]
        /\ OldSize' = dirs[d].size /\ SecID' \in {dirs[d].start, ENDOFCHAIN}
        /\ \/ pc' \in {"FreeFAT", "FreeMiniFAT"} /\ caller' = "Resize"
           \/ pc' = "Resize" /\ caller' = "none"
        /\ UNCHANGED <<offset, old, s, updateDE, errors>>
    BY <1>4 DEF Write
  <2>2. arg'.d = d /\ arg'.size = n
    BY <2>1
  <2>3. CallType'
    BY <1>1, <2>1, <2>2 DEF TypeOK, CallType, Pcs, ENDOFCHAIN
  <2>4. IControl'
    BY <1>1, <1>2, <2>1, <2>2 DEF IControl, NotWriting, InBig, InMini
  <2> QED
    BY <2>3, <2>4
<1> QED
  BY <1>3, <1>4

(* Starting SetData keeps every type. *)
LEMMA SetDataType ==
  ASSUME TypeOK, IControl, NEW d \in Streams, NEW v \in Values, NEW n \in Sizes, SetData(d, v, n)
  PROVE TypeOK' /\ IControl'
<1>1. SectorsType' /\ TablesType' /\ MiniType' /\ DirType' /\ Sectors' = Sectors
  BY MemoryKeep, MiniKeep, DirKeep DEF TypeOK, SetData
<1>2. d \in DOMAIN dirs /\ n \in Nat /\ pc = "Idle"
  BY InstanceAssumption DEF Streams, SetData, CanCall
<1>3. CallType' /\ IControl'
  BY <1>1, <1>2, WriteType DEF SetData, memVars, memoryVars, miniVars, dirVars
<1> QED
  BY <1>1, <1>3 DEF TypeOK

(* Control stays as it is while a call that runs in one step returns. *)
LEMMA IdleKeep ==
  ASSUME TypeOK, IControl, pc = "Idle", UNCHANGED <<pc, caller, arg, loopVars, s, dirs>>,
         errors' \in Nat
  PROVE CallType' /\ IControl'
<1>1. CallType'
  BY DEF TypeOK, CallType, loopVars
<1>2. IControl'
  BY DEF IControl, NotWriting, InBig, InMini, loopVars
<1> QED
  BY <1>1, <1>2

(* GetData keeps every type. *)
LEMMA GetDataType ==
  ASSUME TypeOK, IControl, NEW d \in Streams, GetData(d)
  PROVE TypeOK' /\ IControl'
<1> USE DEF GetData, Answer, fatVars, memoryVars
<1>1. SectorsType' /\ Sectors' = Sectors
  BY LoadReadType
<1>2. TablesType' /\ MiniType' /\ DirType'
  BY <1>1, MiniKeep, DirKeep DEF TypeOK, TablesType, CountFat
<1>3. errors' \in Nat /\ pc = "Idle" /\ dirs' = dirs
  BY DEF TypeOK, CallType, CanCall, dirVars
<1>4. CallType' /\ IControl'
  BY <1>3, IdleKeep
<1> QED
  BY <1>1, <1>2, <1>4 DEF TypeOK

(* What Save, Commit and SectorBytes (mcdf.go:653-718, 769-776) leave alone, and *)
(* what they read.                                                              *)
LEMMA FileCallKeeps ==
  ASSUME TypeOK, FileCall
  PROVE /\ pc = "Idle"
        /\ UNCHANGED <<nsec, next, memFat, memDIFAT, fat, difat, header, set, memMini, memDir,
                       memFree, miniNext, containers, miniFree, miniTable, dirs, dirFree, dirSect,
                       pc, caller, arg, OldSize, offset, SecID, old, updateDE, s, res>>
        /\ SectorsType' /\ Sectors' = Sectors /\ loaded \subseteq loaded'
        /\ errors' \in {errors, errors + 1}
<1> USE DEF Answer, CanCall, fatVars, memoryVars, miniVars, dirVars, loopVars
<1>0. file \in Nat /\ nsec \in Nat
  BY DEF TypeOK, SectorsType
<1>1. CASE Save
  <2> DEFINE read == {x \in Sectors : \A y \in 0..x : Readable(y)}
  <2>1. ReadIn(read) /\ read \in SUBSET Sectors
    BY <1>1 DEF Save
  <2>2. UNCHANGED <<nsec, next, set, file>>
    BY <1>1 DEF Save
  <2>3. SectorsType' /\ Sectors' = Sectors
    BY <1>0, <2>1, <2>2, ReadInType
  <2> QED
    BY <1>1, <2>1, <2>3 DEF Save, ReadIn
<1>2. CASE Commit
  <2>1. CASE file = 0
    <3>1. UNCHANGED <<nsec, next, set, file, loaded, data>>
      BY <1>2, <2>1 DEF Commit
    <3>2. SectorsType' /\ Sectors' = Sectors
      BY <3>1 DEF TypeOK, SectorsType, Sectors
    <3> QED
      BY <1>2, <2>1, <3>1, <3>2 DEF Commit
  <2>2. CASE file # 0
    <3>1. PICK read \in SUBSET {x \in Sectors \ loaded : Readable(x)} :
            /\ ReadIn(read)
            /\ file' \in file..nsec
            /\ \E ok \in {TRUE} \cup {\A x \in Sectors : Readable(x)} : Answer(ok)
      BY <1>2, <2>2 DEF Commit
    <3>2. read \in SUBSET Sectors /\ file' \in Nat
      BY <1>0, <3>1
    <3>3. UNCHANGED <<nsec, next, set>>
      BY <3>1
    <3>4. SectorsType' /\ Sectors' = Sectors
      BY <3>1, <3>2, <3>3, ReadInType
    <3> QED
      BY <1>2, <3>1, <3>4 DEF Commit, ReadIn
  <2> QED
    BY <2>1, <2>2
<1>3. ASSUME NEW x \in 0..nsec, SectorBytes(x)
      PROVE /\ pc = "Idle"
            /\ UNCHANGED <<nsec, next, memFat, memDIFAT, fat, difat, header, set, memMini, memDir,
                           memFree, miniNext, containers, miniFree, miniTable, dirs, dirFree, dirSect,
                           pc, caller, arg, OldSize, offset, SecID, old, updateDE, s, res>>
            /\ SectorsType' /\ Sectors' = Sectors /\ loaded \subseteq loaded'
            /\ errors' \in {errors, errors + 1}
  <2> DEFINE read == IF x \in Sectors /\ Readable(x) THEN {x} ELSE {}
  <2>1. ReadIn(read) /\ read \in SUBSET Sectors
    BY <1>3 DEF SectorBytes
  <2>2. UNCHANGED <<nsec, next, set, file>>
    BY <1>3 DEF SectorBytes
  <2>3. SectorsType' /\ Sectors' = Sectors
    BY <1>0, <2>1, <2>2, ReadInType
  <2> QED
    BY <1>3, <2>1, <2>3 DEF SectorBytes, ReadIn
<1> QED
  BY <1>1, <1>2, <1>3 DEF FileCall

(* Save, Commit and SectorBytes keep every type. *)
LEMMA FileCallType ==
  ASSUME TypeOK, IControl, FileCall
  PROVE TypeOK' /\ IControl'
<1>1. /\ pc = "Idle"
      /\ UNCHANGED <<nsec, next, memFat, memDIFAT, fat, difat, header, set, memMini, memDir,
                     memFree, miniNext, containers, miniFree, miniTable, dirs, dirFree, dirSect,
                     pc, caller, arg, OldSize, offset, SecID, old, updateDE, s, res>>
      /\ SectorsType' /\ Sectors' = Sectors /\ errors' \in {errors, errors + 1}
  BY FileCallKeeps
<1>2. TablesType' /\ MiniType' /\ DirType'
  BY <1>1, MiniKeep, DirKeep DEF TypeOK, TablesType, CountFat, miniVars, dirVars
<1>3. errors' \in Nat
  BY <1>1 DEF TypeOK, CallType
<1>4. CallType' /\ IControl'
  BY <1>1, <1>3, IdleKeep DEF loopVars
<1> QED
  BY <1>1, <1>2, <1>4 DEF TypeOK

(* Starting Append keeps every type. *)
LEMMA AppendDataType ==
  ASSUME TypeOK, IControl, NEW d \in Streams, NEW v \in Values, NEW n \in AppendSizes,
         AppendData(d, v, n)
  PROVE TypeOK' /\ IControl'
<1> DEFINE whole == [k \in 0..(Chunks(dirs[d].size + n) - 1) |->
                       IF (k + 1) * MiniSectorSize <= dirs[d].size THEN ReadBack(d)[k]
                       ELSE <<d, v, k>>]
<1>1. /\ LoadRead(d) /\ pc = "Idle"
      /\ UNCHANGED <<nsec, next, memFat, memDIFAT, fat, difat, header,
                     set, memMini, memDir, memFree, file, miniVars, dirVars>>
      /\ \/ Write(d, dirs[d].size + n, whole)
         \/ UNCHANGED <<pc, caller, arg, loopVars, s>> /\ errors' = errors + 1
  BY DEF AppendData, CanCall, fatVars, memoryVars
<1>2. SectorsType' /\ Sectors' = Sectors
  BY <1>1, LoadReadType
<1>3. TablesType' /\ MiniType' /\ DirType'
  BY <1>1, <1>2, MiniKeep, DirKeep DEF TypeOK, TablesType, CountFat
<1>4. d \in DOMAIN dirs /\ dirs[d].size + n \in Nat
  BY InstanceAssumption DEF Streams, TypeOK, DirType, Entry
<1>5. UNCHANGED <<set, dirs, miniNext>>
  BY <1>1 DEF miniVars, dirVars
<1> HIDE DEF whole
<1>6. CASE Write(d, dirs[d].size + n, whole)
  BY <1>1, <1>2, <1>3, <1>4, <1>5, <1>6, WriteType DEF TypeOK
<1>7. CASE UNCHANGED <<pc, caller, arg, loopVars, s>> /\ errors' = errors + 1
  <2>1. errors' \in Nat
    BY <1>7 DEF TypeOK, CallType
  <2> QED
    BY <1>1, <1>2, <1>3, <1>5, <1>7, <2>1, IdleKeep DEF TypeOK
<1> QED
  BY <1>1, <1>6, <1>7

(* Starting AddStream keeps every type. *)
LEMMA AddStreamType ==
  ASSUME TypeOK, IControl, AddStream
  PROVE TypeOK' /\ IControl'
<1>1. SectorsType' /\ TablesType' /\ MiniType' /\ DirType' /\ Sectors' = Sectors /\ dirs' = dirs
  BY MemoryKeep, MiniKeep, DirKeep DEF TypeOK, AddStream, dirVars
<1>2. /\ UNCHANGED <<OldSize, offset, SecID, old, updateDE, s, errors>>
      /\ \/ pc' = "Alloc" /\ caller' = "DirSector"
         \/ pc' = "NewEntry" /\ caller' = "none"
  BY DEF AddStream, loopVars
<1>3. arg'.d = 0 /\ arg'.size = 0
  <2>1. arg' = [NoArg EXCEPT !.op = "AddStream"]
    BY DEF AddStream
  <2> QED
    BY <2>1 DEF NoArg
<1>4. CallType'
  BY <1>2, <1>3 DEF TypeOK, CallType, Pcs
<1>5. IControl'
  BY <1>2 DEF IControl, NotWriting, InBig, InMini
<1> QED
  BY <1>1, <1>4, <1>5 DEF TypeOK

(* The value a link gets when its sector joins a list is an integer. *)
LEMMA DefaultNextInt ==
  ASSUME NEW n \in Int, NEW t \in ListNames
  PROVE DefaultNext(n, t) \in Int
<1>1. CASE n # 0
  BY <1>1 DEF DefaultNext
<1>2. CASE n = 0
  <2>1. CASE t = "TableFat"
    BY <1>2, <2>1 DEF DefaultNext, FATSECT
  <2>2. CASE t \in {"TableMini", "Dir"}
    BY <1>2, <2>2 DEF DefaultNext, ENDOFCHAIN
  <2>3. CASE t = "DIFAT"
    BY <1>2, <2>3 DEF DefaultNext, DIFSECT
  <2>4. CASE t = "Free"
    BY <1>2, <2>4 DEF DefaultNext, FREESECT
  <2> QED
    BY <2>1, <2>2, <2>3, <2>4 DEF ListNames
<1> QED
  BY <1>1, <1>2

(* A sector made by newSector keeps FREESECT in whichever list it joins.     *)
LEMMA NewNextFree == \A t : NewNext(t) = FREESECT
<1>1. FREESECT # 0
  BY DEF FREESECT
<1> QED
  BY <1>1, Zenon DEF NewNext, DefaultNext

(* Appending sectors and FAT slots (mcdf.go:460-566) keeps types and lengths. *)
LEMMA AppendSectorsType ==
  ASSUME SectorsType, TablesType, NEW k \in {1, 2}, NEW ts, NEW slots \in Nat,
         \A j \in 1..k : ts[j] \in ListNames \cup {"none"},
         AppendSectors(k, ts, slots), file' = file
  PROVE /\ SectorsType'
        /\ nsec' = nsec + k /\ Sectors \subseteq Sectors'
        /\ \A x \in Sectors : set'[x] = set[x]
        /\ \A j \in 1..k : set'[nsec + j - 1] = ts[j]
        /\ fat' \in [0..(CountFat + slots - 1) -> Int]
<1>1. nsec \in Nat /\ nsec' = nsec + k /\ Sectors' = 0..(nsec + k - 1) /\ Sectors \subseteq Sectors'
  BY DEF SectorsType, AppendSectors, Sectors
<1>2. \A t : NewNext(t) = -1
  BY NewNextFree DEF FREESECT
<1>3. next' \in [Sectors' -> Int]
  BY <1>1, <1>2 DEF SectorsType, AppendSectors, Sectors
<1>4. /\ set' \in [Sectors' -> ListNames \cup {"none"}]
      /\ \A x \in Sectors : set'[x] = set[x]
      /\ \A j \in 1..k : set'[nsec + j - 1] = ts[j]
  <2>1. set' = [i \in Sectors' |-> IF i < nsec THEN set[i] ELSE ts[i - nsec + 1]]
    BY <1>1 DEF AppendSectors
  <2>2. \A i \in Sectors' : i >= nsec => i - nsec + 1 \in 1..k
    BY <1>1
  <2>3. \A i \in Sectors' : i < nsec => i \in Sectors
    BY <1>1 DEF Sectors
  <2>4. \A i \in Sectors : i < nsec
    BY <1>1 DEF Sectors
  <2>5. \A j \in 1..k : nsec + j - 1 \in Sectors' /\ ~(nsec + j - 1 < nsec) /\ (nsec + j - 1) - nsec + 1 = j
    BY <1>1
  <2>6. set \in [Sectors -> ListNames \cup {"none"}]
    BY DEF SectorsType
  <2>7. \A i \in Sectors' : i < nsec \/ i >= nsec
    BY <1>1
  <2>8. set' \in [Sectors' -> ListNames \cup {"none"}]
    BY <2>1, <2>2, <2>3, <2>6, <2>7
  <2> QED
    BY <1>1, <2>1, <2>4, <2>5, <2>8
<1>5. loaded' \subseteq Sectors'
  BY <1>1 DEF SectorsType, AppendSectors, Sectors
<1>6. DOMAIN data' = Sectors' /\ \A x \in Sectors' : DOMAIN data'[x] = 0..(MinisPerSector - 1)
  BY <1>1 DEF SectorsType, AppendSectors, Sectors, Extend, BlockOf
<1>7. fat' \in [0..(CountFat + slots - 1) -> Int]
  <2> DEFINE new(i) == IF i \in nsec..(nsec + k - 1) THEN NewNext(ts[i - nsec + 1])
                       ELSE IF i < CountFat THEN fat[i] ELSE FREESECT
             D == 0..(CountFat + slots - 1)
  <2>1. fat \in [0..(CountFat - 1) -> Int] /\ CountFat \in Int
    BY LayoutFacts DEF TablesType, CountFat
  <2>2. \A i \in D : new(i) \in Int
    BY <1>2, <2>1 DEF FREESECT
  <2>3. fat' = [i \in D |-> new(i)]
    BY DEF AppendSectors
  <2> HIDE DEF new, D
  <2>4. fat' \in [D -> Int]
    BY <2>2, <2>3
  <2> QED
    BY <2>4 DEF D
<1>8. nsec' \in Nat /\ file' \in Nat
  BY <1>1 DEF SectorsType
<1> QED
  BY <1>1, <1>3, <1>4, <1>5, <1>6, <1>7, <1>8 DEF SectorsType

(* At the end of an allocation the sector goes to the helper that asked.     *)
LEMMA AllocatedControl ==
  ASSUME TypeOK, IControl, pc \in {"Alloc", "AllocNew"}, NEW x, Allocated(x),
         x \in Sectors', set'[x] = "none", Sectors \subseteq Sectors', x \in Nat
  PROVE CallType' /\ IControl' /\ Minis' = Minis
<1>1. /\ UNCHANGED <<caller, arg, OldSize, offset, SecID, old, updateDE, errors, dirs, miniNext>>
      /\ s' = x /\ pc' = caller
      /\ caller \in {"BigSector", "MiniTable", "Container", "DirSector"}
  BY DEF Allocated, Goto, resVars, loopVars, dirVars, miniVars, IControl
<1>2. CallType'
  BY <1>1 DEF TypeOK, CallType, Pcs
<1>3. Minis' = Minis
  BY <1>1 DEF Minis
<1>4. IControl'
  BY <1>1, <1>3 DEF IControl, NotWriting, InBig, InMini
<1> QED
  BY <1>2, <1>3, <1>4

(* Taking a sector from the free list (memory.go:229-237) keeps every type. *)
LEMMA AllocFreeType ==
  ASSUME TypeOK, IControl, AllocFree
  PROVE TypeOK' /\ IControl'
<1>1. PICK x \in Sectors : PopFree(x) /\ Allocated(x)
  BY DEF AllocFree
<1>2. /\ UNCHANGED <<nsec, next, loaded, data, memFat, memDIFAT, fat, difat, header,
                     memMini, memDir, file, miniVars, dirVars>>
      /\ Sectors' = Sectors /\ x \in Nat
  BY <1>1 DEF PopFree, Allocated, sectorVars, fatVars, Sectors, TypeOK, SectorsType
<1>3. set' \in [Sectors -> ListNames \cup {"none"}] /\ set'[x] = "none"
  BY <1>1 DEF PopFree, TypeOK, SectorsType
<1>4. SectorsType'
  BY <1>2, <1>3 DEF TypeOK, SectorsType
<1>5. memFree' \in Seq(Nat)
  BY <1>1 DEF PopFree, TypeOK, TablesType
<1>6. TablesType'
  BY <1>2, <1>5 DEF TypeOK, TablesType, CountFat
<1>7. MiniType' /\ DirType'
  BY <1>2, MiniKeep, DirKeep DEF TypeOK
<1>8. CallType' /\ IControl'
  BY <1>1, <1>2, <1>3, AllocatedControl DEF AllocFree
<1> QED
  BY <1>4, <1>6, <1>7, <1>8 DEF TypeOK

(* Appending the sector asked for (mcdf.go:475-482) keeps every type. *)
LEMMA AllocNewType ==
  ASSUME TypeOK, IControl, AllocNew
  PROVE TypeOK' /\ IControl'
<1>1. /\ AppendSectors(1, <<"none">>, 0) /\ Allocated(nsec) /\ pc \in {"Alloc", "AllocNew"}
      /\ UNCHANGED <<memFat, memMini, memDir, memDIFAT, memFree, difat, header,
                     file, miniVars, dirVars>>
  BY DEF AllocNew, NewSector, Allocated
<1>2. /\ SectorsType' /\ nsec' = nsec + 1 /\ Sectors \subseteq Sectors'
      /\ set'[nsec + 1 - 1] = "none" /\ fat' \in [0..(CountFat + 0 - 1) -> Int]
  BY <1>1, AppendSectorsType DEF TypeOK
<1>3. nsec \in Nat /\ nsec \in Sectors' /\ set'[nsec] = "none"
  BY <1>2 DEF TypeOK, SectorsType, Sectors
<1>4. CountFat \in Nat
  BY Counts
<1>5. TablesType'
  BY <1>1, <1>2, <1>4 DEF TypeOK, TablesType, CountFat
<1>6. MiniType' /\ DirType'
  BY <1>1, <1>2, MiniKeep, DirKeep DEF TypeOK
<1>7. CallType' /\ IControl'
  BY <1>1, <1>2, <1>3, AllocatedControl
<1> QED
  BY <1>2, <1>5, <1>6, <1>7 DEF TypeOK

(* One more table sector gives one sector's worth of slots.                  *)
LEMMA CountAppend ==
  ASSUME NEW l \in Seq(Nat), NEW x \in Nat
  PROVE /\ Append(l, x) \in Seq(Nat) /\ Len(Append(l, x)) = Len(l) + 1
        /\ EntriesPerSector * Len(Append(l, x)) = EntriesPerSector * Len(l) + EntriesPerSector
        /\ DirsPerSector * Len(Append(l, x)) = DirsPerSector * Len(l) + DirsPerSector
        /\ MinisPerSector * Len(Append(l, x)) = MinisPerSector * Len(l) + MinisPerSector
        /\ EntriesPerSector * Len(l) \in Nat /\ DirsPerSector * Len(l) \in Nat
        /\ MinisPerSector * Len(l) \in Nat
<1>1. Append(l, x) \in Seq(Nat) /\ Len(Append(l, x)) = Len(l) + 1 /\ Len(l) \in Nat
  OBVIOUS
<1>2. \A e \in Nat, n \in Nat : e * (n + 1) = e * n + e /\ e * n \in Nat
  OBVIOUS
<1> QED
  BY <1>1, <1>2, LayoutFacts

(* Adding a FAT sector, with or without a DIFAT sector, keeps every type. *)
LEMMA AllocTableType ==
  ASSUME TypeOK, IControl, AllocTable
  PROVE TypeOK' /\ IControl'
<1>1. /\ UNCHANGED <<file, miniVars, dirVars, caller, arg, loopVars, s, errors, memMini, memDir, memFree>>
      /\ pc = "Alloc" /\ pc' = "AllocNew"
      /\ memFat' = Append(memFat, nsec)
  BY DEF AllocTable, Goto, resVars, AddTableInHeader, AddTableInDIFAT, AddTableAndDIFAT
<1>2. nsec \in Nat /\ nsec \in Int /\ nsec + 1 \in Int /\ EntriesPerSector \in Nat /\ header \in HeaderType
  BY LayoutFacts DEF TypeOK, SectorsType, TablesType
<1>3. /\ SectorsType' /\ Sectors \subseteq Sectors'
      /\ fat' \in [0..(CountFat + EntriesPerSector - 1) -> Int]
  <2>1. CASE AddTableInHeader \/ AddTableInDIFAT
    <3>1. AppendSectors(1, <<"TableFat">>, EntriesPerSector)
      BY <2>1 DEF AddTableInHeader, AddTableInDIFAT
    <3>2. \A j \in 1..1 : <<"TableFat">>[j] \in ListNames \cup {"none"}
      BY DEF ListNames
    <3> QED
      BY <1>1, <1>2, <3>1, <3>2, AppendSectorsType DEF TypeOK
  <2>2. CASE AddTableAndDIFAT
    <3>1. AppendSectors(2, <<"TableFat", "DIFAT">>, EntriesPerSector)
      BY <2>2 DEF AddTableAndDIFAT
    <3>2. \A j \in 1..2 : <<"TableFat", "DIFAT">>[j] \in ListNames \cup {"none"}
      BY DEF ListNames
    <3> QED
      BY <1>1, <1>2, <3>1, <3>2, AppendSectorsType DEF TypeOK
  <2> QED
    BY <2>1, <2>2 DEF AllocTable
<1>4. memFat' \in Seq(Nat) /\ CountFat' = CountFat + EntriesPerSector
  BY <1>1, <1>2, CountAppend DEF TypeOK, TablesType, CountFat
<1>5. /\ memDIFAT' \in Seq(Nat) /\ header' \in HeaderType
      /\ difat' \in Seq([0..(EntriesPerSector - 1) -> Int]) /\ Len(difat') = Len(memDIFAT')
  <2> DEFINE Row == [0..(EntriesPerSector - 1) -> Int]
  <2>1. /\ difat \in Seq(Row) /\ Len(difat) = Len(memDIFAT) /\ memDIFAT \in Seq(Nat)
        /\ memFat \in Seq(Nat) /\ FATSize \in Nat
    BY DEF TypeOK, TablesType, FATSize
  <2>2. ASSUME NEW i \in 1..Len(difat), NEW j, NEW v \in Int
        PROVE /\ [difat EXCEPT ![i] = [difat[i] EXCEPT ![j] = v]] \in Seq(Row)
              /\ Len([difat EXCEPT ![i] = [difat[i] EXCEPT ![j] = v]]) = Len(difat)
    <3>1. difat[i] \in Row
      <4> HIDE DEF Row
      <4> QED
        BY <2>1
    <3>2. [difat[i] EXCEPT ![j] = v] \in Row
      BY <3>1, ExceptType
    <3> HIDE DEF Row
    <3> QED
      BY <2>1, <3>2
  <2>3. CASE AddTableInHeader
    <3>1. header' = [header EXCEPT !.numFATSector = FATSize, !.headerDIFAT[FATSize - 1] = nsec]
      BY <2>3 DEF AddTableInHeader
    <3>2. [header.headerDIFAT EXCEPT ![FATSize - 1] = nsec] \in [0..(HeaderSlots - 1) -> Int]
      <4>1. header.headerDIFAT \in [0..(HeaderSlots - 1) -> Int]
        BY <1>2 DEF HeaderType
      <4> QED
        BY <1>2, <4>1, ExceptType
    <3>3. header' \in HeaderType
      BY <1>2, <2>1, <3>1, <3>2 DEF HeaderType
    <3> QED
      BY <2>1, <2>3, <3>3 DEF AddTableInHeader
  <2>4. CASE AddTableInDIFAT
    <3> DEFINE i == DIFATIndex + 1
    <3>1. /\ UNCHANGED <<memDIFAT, header>>
          /\ difat' = [difat EXCEPT ![i] = [difat[i] EXCEPT ![DIFATOffset] = nsec]]
      BY <2>4 DEF AddTableInDIFAT
    <3> HIDE DEF i
    <3>2. difat' \in Seq(Row) /\ Len(difat') = Len(difat)
      <4>1. CASE i \in 1..Len(difat)
        BY <1>2, <2>2, <3>1, <4>1
      <4>2. CASE i \notin 1..Len(difat)
        <5>1. difat' = difat
          BY <2>1, <3>1, <4>2
        <5> QED
          BY <2>1, <5>1
      <4> QED
        BY <4>1, <4>2
    <3> QED
      BY <1>2, <2>1, <3>1, <3>2
  <2>5. CASE AddTableAndDIFAT
    <3> DEFINE linked == IF difat = <<>> THEN difat
                         ELSE [difat EXCEPT ![Len(difat)] =
                                 [difat[Len(difat)] EXCEPT ![EntriesPerSector - 1] = nsec + 1]]
    <3>1. /\ memDIFAT' = Append(memDIFAT, nsec + 1)
          /\ difat' = Append(linked, NewDIFATSlots(nsec))
          /\ header' = [header EXCEPT
                          !.numDIFATSector = Len(memDIFAT) + 1,
                          !.firstDIFATSectorLocation = IF difat = <<>> THEN nsec + 1 ELSE @]
      BY <2>5 DEF AddTableAndDIFAT
    <3>2. NewDIFATSlots(nsec) \in Row
      BY <1>2 DEF NewDIFATSlots, ENDOFCHAIN, FREESECT
    <3>3. linked \in Seq(Row) /\ Len(linked) = Len(difat)
      <4>1. CASE difat = <<>>
        BY <2>1, <4>1
      <4>2. CASE difat # <<>>
        <5>1. Len(difat) \in 1..Len(difat)
          <6> HIDE DEF Row
          <6> QED
            BY <2>1, <4>2
        <5>2. linked = [difat EXCEPT ![Len(difat)] =
                          [difat[Len(difat)] EXCEPT ![EntriesPerSector - 1] = nsec + 1]]
          BY <4>2
        <5> HIDE DEF linked
        <5> QED
          BY <1>2, <2>2, <5>1, <5>2
      <4> QED
        BY <4>1, <4>2
    <3>4. difat' \in Seq(Row) /\ Len(difat') = Len(difat) + 1
      <4> HIDE DEF linked, Row
      <4> QED
        BY <2>1, <3>1, <3>2, <3>3
    <3>5. header' \in HeaderType
      <4> DEFINE a == IF difat = <<>> THEN nsec + 1 ELSE header.firstDIFATSectorLocation
                 n == Len(memDIFAT) + 1
      <4>1. a \in Int /\ n \in Nat
        BY <1>2, <2>1 DEF HeaderType
      <4>2. header' = [header EXCEPT !.numDIFATSector = n, !.firstDIFATSectorLocation = a]
        BY <3>1
      <4> HIDE DEF a, n
      <4> QED
        BY <1>2, <4>1, <4>2 DEF HeaderType
    <3>6. memDIFAT' \in Seq(Nat) /\ Len(memDIFAT') = Len(memDIFAT) + 1
      BY <1>2, <2>1, <3>1
    <3> QED
      BY <2>1, <3>4, <3>5, <3>6
  <2> QED
    BY <2>3, <2>4, <2>5 DEF AllocTable
<1>6. TablesType'
  <2>1. fat' \in [0..(CountFat' - 1) -> Int]
    <3>1. CountFat + EntriesPerSector - 1 = CountFat' - 1
      BY <1>2, <1>4, Counts
    <3> QED
      BY <1>3, <3>1
  <2>2. memMini' \in Seq(Nat) /\ memDir' \in Seq(Nat) /\ memFree' \in Seq(Nat)
    BY <1>1 DEF TypeOK, TablesType
  <2> QED
    BY <1>4, <1>5, <2>1, <2>2, Zenon DEF TablesType
<1>7. MiniType' /\ DirType' /\ Minis' = Minis
  BY <1>1, <1>3, MiniKeep, DirKeep DEF TypeOK
<1>8. CallType'
  BY <1>1 DEF TypeOK, CallType, Pcs, loopVars
<1>9. IControl'
  BY <1>1, <1>3, <1>7 DEF IControl, NotWriting, InBig, InMini, loopVars, dirVars
<1> QED
  BY <1>3, <1>6, <1>7, <1>8, <1>9 DEF TypeOK

(* Adding a miniFAT sector (mcdf.go:616-648) keeps every type. *)
LEMMA MiniTableType ==
  ASSUME TypeOK, IControl, MiniTable
  PROVE TypeOK' /\ IControl'
<1> DEFINE first == memMini = <<>>
           linked == IF first THEN next ELSE [next EXCEPT ![Last(memMini)] = s]
           slots == IF first THEN fat ELSE [fat EXCEPT ![Last(memMini)] = s]
<1>1. /\ UNCHANGED <<nsec, loaded, data, memFat, memDIFAT, difat, memDir, memFree,
                     file, miniNext, containers, miniFree, dirVars>>
      /\ pc = "MiniTable" /\ s \in Sectors /\ set[s] = "none"
  BY DEF MiniTable, IControl
<1>2. Sectors' = Sectors /\ CountFat' = CountFat /\ Minis' = Minis
  BY <1>1 DEF Sectors, CountFat, Minis
<1>3. s \in Nat /\ s \in Int
  BY <1>1 DEF TypeOK, SectorsType, Sectors
<1>4. linked \in [Sectors -> Int] /\ slots \in [0..(CountFat - 1) -> Int]
  BY <1>3, ExceptType DEF TypeOK, SectorsType, TablesType
<1>5. header \in HeaderType
  BY DEF TypeOK, TablesType
<1>6. DirType'
  BY <1>1, DirKeep DEF TypeOK
<1>7. CASE CanAdd(s, "TableMini")
  <2>1. /\ next' = [linked EXCEPT ![s] = DefaultNext(linked[s], "TableMini")]
        /\ fat' = [slots EXCEPT ![s] = next'[s]]
        /\ set' = [set EXCEPT ![s] = "TableMini"]
        /\ memMini' = Append(memMini, s)
        /\ header' = [header EXCEPT
                        !.firstMiniFATSectorLocation = IF first THEN s ELSE @,
                        !.numMiniFATSector = Len(memMini) + 1]
        /\ miniTable' = Extend(miniTable, CountMini, EntriesPerSector, FREESECT)
        /\ caller' = "Container" /\ s' = -1 /\ pc' = "Alloc"
        /\ UNCHANGED <<arg, OldSize, offset, SecID, old, updateDE, errors>>
    BY <1>7 DEF MiniTable, Goto, resVars, loopVars
  <2> HIDE DEF linked, slots
  <2>2. next' \in [Sectors' -> Int] /\ next'[s] \in Int
    <3>1. linked[s] \in Int /\ "TableMini" \in ListNames
      BY <1>1, <1>4 DEF ListNames
    <3>2. DefaultNext(linked[s], "TableMini") \in Int
      BY <3>1, DefaultNextInt
    <3>3. next' \in [Sectors -> Int]
      BY <1>4, <2>1, <3>2, ExceptType
    <3> QED
      BY <1>1, <1>2, <3>3
  <2>3. fat' \in [0..(CountFat' - 1) -> Int]
    BY <1>2, <1>4, <2>1, <2>2, ExceptType
  <2>4. set' \in [Sectors' -> ListNames \cup {"none"}]
    BY <1>2, <2>1 DEF TypeOK, SectorsType, ListNames
  <2>5. SectorsType'
    BY <1>1, <1>2, <2>2, <2>4 DEF TypeOK, SectorsType
  <2>6. memMini' \in Seq(Nat) /\ Len(memMini) + 1 \in Nat
    BY <1>3, <2>1 DEF TypeOK, TablesType
  <2>7. header' \in HeaderType
    <3> DEFINE a == IF first THEN s ELSE header.firstMiniFATSectorLocation
               n == Len(memMini) + 1
    <3>1. a \in Int /\ n \in Nat
      BY <1>3, <1>5, <2>6 DEF HeaderType
    <3>2. header' = [header EXCEPT !.firstMiniFATSectorLocation = a, !.numMiniFATSector = n]
      BY <2>1
    <3> HIDE DEF a, n
    <3> QED
      BY <1>5, <3>1, <3>2 DEF HeaderType
  <2>8. TablesType'
    BY <1>1, <2>3, <2>6, <2>7 DEF TypeOK, TablesType
  <2>9. miniTable' \in [0..(CountMini' - 1) -> Int]
    <3>1. CountMini' = CountMini + EntriesPerSector /\ CountMini \in Nat
      BY <1>3, <2>1, CountAppend DEF TypeOK, TablesType, CountMini
    <3>2. miniTable \in [0..(CountMini - 1) -> Int]
      BY DEF TypeOK, MiniType
    <3>3. miniTable' \in [0..(CountMini + EntriesPerSector - 1) -> Int]
      BY <2>1, <3>1, <3>2, LayoutFacts DEF Extend, FREESECT
    <3>4. CountMini + EntriesPerSector - 1 = CountMini' - 1
      BY <3>1, LayoutFacts
    <3> QED
      BY <3>3, <3>4
  <2>10. MiniType'
    BY <1>1, <1>2, <2>9 DEF TypeOK, MiniType, Minis
  <2>11. CallType'
    BY <2>1 DEF TypeOK, CallType, Pcs
  <2>12. IControl'
    BY <1>1, <1>2, <2>1 DEF IControl, NotWriting, InBig, InMini, dirVars
  <2> QED
    BY <1>6, <2>5, <2>8, <2>10, <2>11, <2>12 DEF TypeOK
<1>8. CASE ~CanAdd(s, "TableMini")
  <2>1. /\ next' = linked /\ fat' = slots /\ Return("err")
        /\ header' = [header EXCEPT !.firstMiniFATSectorLocation = IF first THEN s ELSE @]
        /\ UNCHANGED <<set, memMini, miniTable>>
    BY <1>8 DEF MiniTable
  <2> HIDE DEF linked, slots
  <2>2. SectorsType'
    BY <1>1, <1>2, <1>4, <2>1 DEF TypeOK, SectorsType
  <2>3. header' \in HeaderType
    <3> DEFINE a == IF first THEN s ELSE header.firstMiniFATSectorLocation
    <3>1. a \in Int
      BY <1>3, <1>5 DEF HeaderType
    <3>2. header' = [header EXCEPT !.firstMiniFATSectorLocation = a]
      BY <2>1
    <3> HIDE DEF a
    <3> QED
      BY <1>5, <3>1, <3>2 DEF HeaderType
  <2>4. TablesType'
    BY <1>1, <1>2, <1>4, <2>1, <2>3 DEF TypeOK, TablesType
  <2>5. MiniType'
    BY <1>1, <1>2, <2>1, MiniKeep DEF TypeOK, miniVars
  <2> QED
    BY <1>6, <2>1, <2>2, <2>4, <2>5, ReturnControl DEF TypeOK
<1> QED
  BY <1>7, <1>8

(* Adding a container of mini sectors (mcdf.go:574-614) keeps every type. *)
LEMMA ContainerType ==
  ASSUME TypeOK, IControl, Container
  PROVE TypeOK' /\ IControl'
<1> DEFINE n == Cardinality(Minis)
           first == containers = <<>>
<1>1. /\ UNCHANGED <<nsec, loaded, data, memFat, memDIFAT, difat, header, memoryVars,
                     file, dirFree, arg, OldSize, offset, SecID, old, updateDE, errors>>
      /\ pc = "Container" /\ s \in Sectors
      /\ next' = IF first THEN [next EXCEPT ![s] = ENDOFCHAIN]
                  ELSE [[next EXCEPT ![s] = ENDOFCHAIN] EXCEPT ![Last(containers)] = s]
      /\ fat' = IF first THEN [fat EXCEPT ![s] = ENDOFCHAIN]
                 ELSE [[fat EXCEPT ![s] = ENDOFCHAIN] EXCEPT ![Last(containers)] = s]
      /\ dirs' = IF first THEN [dirs EXCEPT ![0].start = s] ELSE dirs
      /\ dirSect' = IF first THEN [dirSect EXCEPT ![0] = dirs'[0]] ELSE dirSect
      /\ containers' = Append(containers, s)
      /\ miniNext' = Extend(miniNext, n, MinisPerSector, FREESECT)
      /\ miniFree' = miniFree \cup n..(n + MinisPerSector - 1)
      /\ miniTable' = [m \in DOMAIN miniTable |->
                         IF m \in n..(n + MinisPerSector - 1) THEN FREESECT ELSE miniTable[m]]
      /\ caller' = "none" /\ s' = -1 /\ pc' = "WriteMini"
  BY DEF Container, IControl, Goto, resVars, loopVars
<1>2. Sectors' = Sectors /\ CountFat' = CountFat /\ CountMini' = CountMini /\ s \in Nat /\ s \in Int
  BY <1>1 DEF Sectors, CountFat, CountMini, memoryVars, TypeOK, SectorsType
<1>3. -2 \in Int /\ ENDOFCHAIN = -2
  BY DEF ENDOFCHAIN
<1>4. next' \in [Sectors -> Int] /\ fat' \in [0..(CountFat - 1) -> Int]
  <2>1. next \in [Sectors -> Int] /\ fat \in [0..(CountFat - 1) -> Int]
    BY DEF TypeOK, SectorsType, TablesType
  <2>2. [next EXCEPT ![s] = -2] \in [Sectors -> Int] /\ [fat EXCEPT ![s] = -2] \in [0..(CountFat - 1) -> Int]
    BY <1>3, <2>1, ExceptType
  <2> QED
    BY <1>1, <1>2, <1>3, <2>2, ExceptType
<1>5. SectorsType' /\ TablesType'
  BY <1>1, <1>2, <1>4 DEF TypeOK, SectorsType, TablesType, memoryVars
<1>6. MiniType' /\ Minis \subseteq Minis'
  <2> DEFINE k == MinisPerSector * Len(containers)
  <2>1. /\ n = k /\ k \in Nat /\ MinisPerSector \in Nat
        /\ MinisPerSector * Len(containers') = k + MinisPerSector
        /\ containers \in Seq(Nat) /\ containers' \in Seq(Nat)
    BY <1>1, <1>2, Counts, CountAppend, LayoutFacts DEF TypeOK, MiniType
  <2>2. \A i \in 1..Len(containers') : containers'[i] \in Sectors'
    BY <1>1, <1>2, <2>1 DEF TypeOK, MiniType
  <2>3. miniNext \in [0..(k - 1) -> Int] /\ miniFree \subseteq 0..(k - 1)
    BY DEF TypeOK, MiniType, Minis
  <2> HIDE DEF n, k
  <2>4. miniNext' \in [0..(k + MinisPerSector - 1) -> Int]
    BY <1>1, <2>1, <2>3 DEF Extend, FREESECT
  <2>5. miniFree' \subseteq 0..(k + MinisPerSector - 1)
    BY <1>1, <2>1, <2>3
  <2>6. miniTable' \in [0..(CountMini' - 1) -> Int]
    BY <1>1, <1>2 DEF TypeOK, MiniType, FREESECT
  <2>7. Minis = 0..(k - 1) /\ Minis' = 0..(k + MinisPerSector - 1)
    BY <2>3, <2>4 DEF Minis
  <2> QED
    BY <2>1, <2>2, <2>4, <2>5, <2>6, <2>7 DEF MiniType
<1>7. DirType' /\ DOMAIN dirs' = DOMAIN dirs
  <2> DEFINE D == 0..(DirsPerSector * Len(memDir) - 1)
  <2>1. dirs \in [D -> Entry] /\ dirSect \in [D -> Entry] /\ dirFree \subseteq D
    BY DEF TypeOK, DirType
  <2>2. memDir' = memDir /\ dirFree' = dirFree
    BY <1>1 DEF memoryVars
  <2>3. dirs' = dirs \/ dirs' = [dirs EXCEPT ![0] = [dirs[0] EXCEPT !.start = s]]
    BY <1>1
  <2>4. dirSect' = dirSect \/ dirSect' = [dirSect EXCEPT ![0] = dirs'[0]]
    BY <1>1
  <2>5. dirs' \in [D -> Entry] /\ dirSect' \in [D -> Entry]
    <3> HIDE DEF D
    <3>1. CASE 0 \in D
      <4>1. dirs[0] \in Entry
        BY <2>1, <3>1
      <4>2. [dirs[0] EXCEPT !.start = s] \in Entry
        BY <1>2, <4>1, EntryType, 0 \in Nat
      <4>3. dirs' \in [D -> Entry]
        BY <2>1, <2>3, <4>2, ExceptType
      <4>4. dirs'[0] \in Entry
        BY <3>1, <4>3
      <4> QED
        BY <2>1, <2>4, <4>3, <4>4, ExceptType
    <3>2. CASE 0 \notin D
      BY <2>1, <2>3, <2>4, <3>2
    <3> QED
      BY <3>1, <3>2
  <2>6. DOMAIN dirs' = D /\ DOMAIN dirs = D
    BY <2>1, <2>5
  <2> QED
    BY <2>1, <2>2, <2>5, <2>6 DEF DirType
<1> HIDE DEF n
<1>8. CallType'
  BY <1>1 DEF TypeOK, CallType, Pcs
<1>9. IControl'
  BY <1>1, <1>2, <1>6, <1>7 DEF IControl, NotWriting, InBig, InMini
<1> QED
  BY <1>5, <1>6, <1>7, <1>8, <1>9 DEF TypeOK

(* Adding a directory sector (mcdf.go:417-459) keeps every type. *)
LEMMA DirSectorType ==
  ASSUME TypeOK, IControl, DirSector
  PROVE TypeOK' /\ IControl'
<1> DEFINE n == Cardinality(DOMAIN dirs)
           first == memDir = <<>>
           own == [next EXCEPT ![s] = DefaultNext(next[s], "Dir")]
           slots == [fat EXCEPT ![s] = own[s]]
<1>1. /\ UNCHANGED <<nsec, loaded, data, memFat, memDIFAT, difat, memMini, memFree, file, miniVars>>
      /\ pc = "DirSector" /\ s \in Sectors
  BY DEF DirSector, IControl
<1>2. Sectors' = Sectors /\ CountFat' = CountFat /\ s \in Nat /\ s \in Int
  BY <1>1 DEF Sectors, CountFat, TypeOK, SectorsType
<1>3. MiniType' /\ Minis' = Minis
  BY <1>1, <1>2, MiniKeep DEF TypeOK
<1>4. CASE CanAdd(s, "Dir")
  <2>1. /\ set' = [set EXCEPT ![s] = "Dir"]
        /\ memDir' = Append(memDir, s)
        /\ next' = IF first THEN own ELSE [own EXCEPT ![Last(memDir)] = s]
        /\ fat' = IF first THEN slots ELSE [slots EXCEPT ![Last(memDir)] = s]
        /\ dirs' = Extend(dirs, n, DirsPerSector, EmptyEntry)
        /\ dirSect' = Extend(dirSect, n, DirsPerSector, EmptyEntry)
        /\ dirFree' = dirFree \cup n..(n + DirsPerSector - 1)
        /\ header' = [header EXCEPT
                        !.firstDirectorySectorLocation = IF @ < 0 THEN memDir'[1] ELSE @]
        /\ caller' = "none" /\ s' = -1 /\ pc' = "NewEntry"
        /\ UNCHANGED <<arg, OldSize, offset, SecID, old, updateDE, errors>>
    BY <1>4 DEF DirSector, Goto, resVars, loopVars
  <2>2. own \in [Sectors -> Int] /\ own[s] \in Int
    <3>1. next \in [Sectors -> Int] /\ next[s] \in Int /\ "Dir" \in ListNames
      BY <1>1 DEF TypeOK, SectorsType, ListNames
    <3>2. DefaultNext(next[s], "Dir") \in Int
      BY <3>1, DefaultNextInt
    <3>3. own \in [Sectors -> Int]
      BY <3>1, <3>2, ExceptType
    <3> QED
      BY <1>1, <3>3
  <2> HIDE DEF own
  <2>3. slots \in [0..(CountFat - 1) -> Int]
    BY <2>2, ExceptType DEF TypeOK, TablesType
  <2> HIDE DEF slots
  <2>4. next' \in [Sectors -> Int] /\ fat' \in [0..(CountFat - 1) -> Int]
    BY <1>2, <2>1, <2>2, <2>3, ExceptType
  <2>5. set' \in [Sectors' -> ListNames \cup {"none"}]
    BY <1>2, <2>1 DEF TypeOK, SectorsType, ListNames
  <2>6. SectorsType'
    BY <1>1, <1>2, <2>4, <2>5 DEF TypeOK, SectorsType
  <2>7. memDir' \in Seq(Nat) /\ memDir'[1] \in Int
    BY <1>2, <2>1 DEF TypeOK, TablesType
  <2>8. header' \in HeaderType
    <3> DEFINE f == header.firstDirectorySectorLocation
               a == IF f < 0 THEN memDir'[1] ELSE f
    <3>1. header \in HeaderType /\ a \in Int
      BY <2>7 DEF TypeOK, TablesType, HeaderType
    <3>2. header' = [header EXCEPT !.firstDirectorySectorLocation = a]
      BY <2>1
    <3> HIDE DEF a
    <3> QED
      BY <3>1, <3>2 DEF HeaderType
  <2>9. TablesType'
    BY <1>1, <1>2, <2>4, <2>7, <2>8 DEF TypeOK, TablesType
  <2>10. DirType' /\ DOMAIN dirs \subseteq DOMAIN dirs'
    <3> DEFINE k == DirsPerSector * Len(memDir)
    <3>1. /\ n = k /\ k \in Nat /\ DirsPerSector \in Nat
          /\ DirsPerSector * Len(memDir') = k + DirsPerSector
      BY <1>2, <2>1, Counts, CountAppend, LayoutFacts DEF TypeOK, TablesType
    <3>2. dirs \in [0..(k - 1) -> Entry] /\ dirSect \in [0..(k - 1) -> Entry] /\ dirFree \subseteq 0..(k - 1)
      BY DEF TypeOK, DirType
    <3>3. EmptyEntry \in Entry
      BY DEF EmptyEntry, Entry, ENDOFCHAIN
    <3> HIDE DEF n, k
    <3>4. /\ dirs' \in [0..(k + DirsPerSector - 1) -> Entry]
          /\ dirSect' \in [0..(k + DirsPerSector - 1) -> Entry]
      BY <2>1, <3>1, <3>2, <3>3 DEF Extend
    <3>5. dirFree' \subseteq 0..(k + DirsPerSector - 1)
      BY <2>1, <3>1, <3>2
    <3>6. DOMAIN dirs' = 0..(k + DirsPerSector - 1) /\ DOMAIN dirs = 0..(k - 1)
      BY <3>2, <3>4
    <3> QED
      BY <3>1, <3>4, <3>5, <3>6 DEF DirType
  <2>11. CallType'
    BY <2>1 DEF TypeOK, CallType, Pcs
  <2>12. IControl'
    BY <2>1 DEF IControl, NotWriting, InBig, InMini
  <2> QED
    BY <1>3, <2>6, <2>9, <2>10, <2>11, <2>12 DEF TypeOK
<1>5. CASE ~CanAdd(s, "Dir")
  <2>1. Return("err") /\ UNCHANGED <<set, memDir, next, fat, dirVars, header>>
    BY <1>5 DEF DirSector
  <2>2. SectorsType' /\ TablesType' /\ DirType'
    BY <1>1, <1>2, <2>1, DirKeep DEF TypeOK, SectorsType, TablesType
  <2> QED
    BY <1>3, <2>1, <2>2, ReturnControl DEF TypeOK
<1> QED
  BY <1>4, <1>5

(* Taking a free entry (directory.go:185-207) keeps every type. *)
LEMMA NewEntryType ==
  ASSUME TypeOK, IControl, NewEntry
  PROVE TypeOK' /\ IControl'
<1>1. SectorsType' /\ TablesType' /\ MiniType' /\ memDir' = memDir
  BY MemoryKeep, MiniKeep DEF TypeOK, NewEntry
<1>2. PICK d \in dirFree :
        /\ dirFree' = dirFree \ {d}
        /\ dirs' = [dirs EXCEPT ![d].kind = IF arg.op = "New" THEN "root" ELSE "stream"]
        /\ \E relinked \in SUBSET (DOMAIN dirs \ dirFree) :
             dirSect' = [e \in DOMAIN dirs |-> IF e \in relinked \cup {d} THEN dirs'[e]
                                               ELSE dirSect[e]]
  BY DEF NewEntry
<1> DEFINE D == DOMAIN dirs
           t == IF arg.op = "New" THEN "root" ELSE "stream"
<1>3. /\ dirs \in [D -> Entry] /\ dirSect \in [D -> Entry] /\ dirFree \subseteq D
      /\ D = 0..(DirsPerSector * Len(memDir) - 1)
  BY DEF TypeOK, DirType
<1>4. dirs' = [dirs EXCEPT ![d] = [dirs[d] EXCEPT !.kind = t]] /\ t \in {"root", "stream"}
  BY <1>2
<1>5. dirSect' = [e \in D |-> dirSect'[e]] /\ \A e \in D : dirSect'[e] \in {dirs'[e], dirSect[e]}
  BY <1>2
<1> HIDE DEF t, D
<1>6. [dirs[d] EXCEPT !.kind = t] \in Entry
  BY <1>3, <1>4 DEF Entry
<1>7. dirs' \in [D -> Entry]
  BY <1>3, <1>4, <1>6, ExceptType
<1>8. dirSect' \in [D -> Entry]
  BY <1>3, <1>5, <1>7
<1>9. DirType'
  BY <1>1, <1>2, <1>3, <1>7, <1>8 DEF DirType
<1>10. CallType' /\ IControl'
  BY ReturnControl DEF NewEntry, TypeOK
<1> QED
  BY <1>1, <1>9, <1>10 DEF TypeOK

(* A step that changes nothing keeps every type. *)
LEMMA StutterType ==
  ASSUME TypeOK, IControl, UNCHANGED vars
  PROVE TypeOK' /\ IControl'
<1> USE DEF vars
<1>1. SectorsType' /\ TablesType' /\ MiniType' /\ DirType' /\ Sectors' = Sectors
  BY MemoryKeep, MiniKeep, DirKeep DEF TypeOK
<1>2. UNCHANGED <<pc, caller, arg, OldSize, offset, SecID, old, s, updateDE, errors, dirs, set, miniNext>>
  BY DEF memVars, memoryVars, dirVars, miniVars, loopVars, resVars
<1>3. CallType'
  BY <1>2 DEF TypeOK, CallType
<1>4. IControl'
  BY <1>1, <1>2 DEF IControl, NotWriting, InBig, InMini, Minis
<1> QED
  BY <1>1, <1>3, <1>4 DEF TypeOK

(* Every step of every caller keeps the types and IControl. *)
LEMMA StepType ==
  ASSUME TypeOK, IControl, [Next]_vars
  PROVE TypeOK' /\ IControl'
<1>1. CASE Continue
  BY <1>1, FreeFATType, FreeMiniFATType, FreedType, ResizeType, WriteBigExistingType, GrowType,
     BigSectorType, FinishBigType, WriteMiniExistingType, WriteMiniNewType, FinishMiniType,
     AllocFreeType, AllocTableType, AllocNewType, MiniTableType, ContainerType, DirSectorType,
     NewEntryType, UpdateType DEF Continue
<1>2. CASE AddStream
  BY <1>2, AddStreamType
<1>3. ASSUME NEW d \in Streams, GetData(d)
      PROVE TypeOK' /\ IControl'
  BY <1>3, GetDataType
<1>4. ASSUME NEW d \in Streams, NEW v \in Values, NEW n \in Sizes, SetData(d, v, n)
      PROVE TypeOK' /\ IControl'
  BY <1>4, SetDataType
<1>5. ASSUME NEW d \in Streams, NEW v \in Values, NEW n \in AppendSizes, AppendData(d, v, n)
      PROVE TypeOK' /\ IControl'
  BY <1>5, AppendDataType
<1>6. CASE UNCHANGED vars
  BY <1>6, StutterType
<1>7. CASE FileCall
  BY <1>7, FileCallType
<1> QED
  BY <1>1, <1>2, <1>3, <1>4, <1>5, <1>6, <1>7 DEF Next, StreamCall

(* New and Open (mcdf.go:31-93) start with the types and IControl. *)
LEMMA InitType ==
  ASSUME Init
  PROVE TypeOK /\ IControl
<1> USE DEF InitCommon
<1>1. /\ InitCommon
      /\ EntriesPerSector * 0 = 0 /\ EntriesPerSector * 1 = EntriesPerSector
      /\ DirsPerSector * 0 = 0 /\ DirsPerSector * 1 = DirsPerSector /\ MinisPerSector * 0 = 0
  BY LayoutFacts DEF Init
<1>2. CountMini = 0 /\ MinisPerSector * Len(containers) = 0
  BY <1>1 DEF CountMini
<1>3. MiniType
  <2>1. containers \in Seq(Nat) /\ Len(containers) = 0 /\ miniFree = {}
    BY <1>1
  <2>2. miniNext \in [0..(0 - 1) -> Int] /\ miniTable \in [0..(0 - 1) -> Int]
    BY <1>1 DEF FREESECT
  <2> QED
    BY <1>2, <2>1, <2>2 DEF MiniType
<1>4. NoArg.d \in Nat /\ NoArg.size \in Nat
  BY DEF NoArg
<1>5. SecID \in Int /\ old = -1 /\ s = -1 /\ OldSize \in Nat /\ offset \in Nat /\ errors \in Nat
  BY <1>1 DEF ENDOFCHAIN
<1>6. updateDE \in BOOLEAN
  BY <1>1, Zenon
<1>7. \A x \in Sectors : DOMAIN BlockOf(Zero) = 0..(MinisPerSector - 1)
  BY DEF BlockOf
<1>8. CASE InitNew
  <2> USE DEF InitNew
  <2>1. nsec = 0 /\ Sectors = 0..(-1) /\ CountFat = 0
    BY <1>1, <1>8 DEF Sectors, CountFat
  <2>2. SectorsType
    BY <1>1, <1>7, <1>8, <2>1 DEF SectorsType, FREESECT
  <2>3. header \in HeaderType
    BY <1>8 DEF HeaderType, FREESECT, ENDOFCHAIN
  <2>4. fat \in [0..(0 - 1) -> Int]
    BY <1>8 DEF FREESECT
  <2>5. TablesType
    BY <1>1, <1>8, <2>1, <2>3, <2>4 DEF TablesType
  <2>6. DirType
    <3>1. dirs \in [0..(0 - 1) -> Entry] /\ dirSect = dirs /\ dirFree = {} /\ memDir = <<>>
      BY <1>8
    <3> QED
      BY <1>1, <3>1 DEF DirType
  <2>7. arg.d \in Nat /\ arg.size \in Nat
    <3>1. arg = [NoArg EXCEPT !.op = "New"]
      BY <1>8
    <3> QED
      BY <3>1 DEF NoArg
  <2>8. pc = "Alloc" /\ caller = "DirSector"
    BY <1>8
  <2> HIDE DEF InitNew, InitCommon
  <2>9. CallType
    BY <1>5, <1>6, <2>7, <2>8 DEF CallType, Pcs
  <2>10. IControl
    BY <2>8 DEF IControl, NotWriting, InBig, InMini
  <2> QED
    BY <1>3, <2>2, <2>5, <2>6, <2>9, <2>10 DEF TypeOK
<1>9. ASSUME NEW n \in 2..EntriesPerSector, InitOpened(n)
      PROVE TypeOK /\ IControl
  <2> USE DEF InitOpened
  <2>1. nsec = n /\ Sectors = 0..(n - 1) /\ CountFat = EntriesPerSector /\ n \in Nat /\ n >= 2 /\ n <= EntriesPerSector
    BY <1>1, <1>9, LayoutFacts DEF Sectors, CountFat
  <2>2. \A x \in Int : OpenedNext(x) \in Int
    BY DEF OpenedNext, FATSECT, ENDOFCHAIN, FREESECT
  <2>3. SectorsType
    <3>1. next \in [Sectors -> Int]
      BY <1>9, <2>1, <2>2
    <3>2. set \in [Sectors -> ListNames \cup {"none"}]
      BY <1>9, <2>1 DEF ListNames
    <3>3. loaded \subseteq Sectors /\ nsec \in Nat /\ file \in Nat
      BY <1>9, <2>1
    <3>4. DOMAIN data = Sectors /\ \A x \in Sectors : DOMAIN data[x] = 0..(MinisPerSector - 1)
      BY <1>1, <1>7
    <3> QED
      BY <3>1, <3>2, <3>3, <3>4 DEF SectorsType
  <2>4. header \in HeaderType
    BY <1>9 DEF HeaderType, FREESECT, ENDOFCHAIN
  <2>5. fat \in [0..(CountFat - 1) -> Int]
    BY <1>9, <2>1, <2>2
  <2>6. memFree \in Seq(Nat) /\ memFat \in Seq(Nat) /\ memDir \in Seq(Nat)
    <3>1. memFree = [i \in 1..(n - 2) |-> i + 1] /\ n - 2 \in Nat
      BY <1>9, <2>1
    <3>2. memFree \in Seq(Nat)
      <4> DEFINE m == n - 2
      <4>1. m \in Nat /\ memFree = [i \in 1..m |-> i + 1]
        BY <3>1
      <4> HIDE DEF m
      <4>2. memFree \in [1..m -> Nat]
        BY <4>1
      <4> HIDE DEF InitOpened
      <4> QED
        BY <4>1, <4>2
    <3>3. <<0>> \in Seq(Nat) /\ <<1>> \in Seq(Nat)
      OBVIOUS
    <3> QED
      BY <1>9, <3>2, <3>3
  <2>7. TablesType
    BY <1>1, <1>9, <2>1, <2>4, <2>5, <2>6 DEF TablesType
  <2>8. DirType
    <3>1. /\ dirs \in [0..(DirsPerSector - 1) -> Entry] /\ dirSect = dirs
          /\ dirFree = 1..(DirsPerSector - 1) /\ memDir = <<1>>
      BY <1>9 DEF EmptyEntry, Entry, ENDOFCHAIN
    <3> QED
      BY <1>1, <3>1, LayoutFacts DEF DirType
  <2>9. pc = "Idle" /\ caller = "none" /\ arg = NoArg
    BY <1>9
  <2> HIDE DEF InitOpened, InitCommon
  <2>10. CallType
    BY <1>4, <1>5, <1>6, <2>9 DEF CallType, Pcs
  <2>11. IControl
    BY <1>5, <2>9 DEF IControl, NotWriting, InBig, InMini
  <2> QED
    BY <1>3, <2>3, <2>7, <2>8, <2>10, <2>11 DEF TypeOK
<1> QED
  BY <1>8, <1>9, InstanceAssumption DEF Init

(***************************************************************************)
(* Every variable has its type in every state of every run: none of the    *)
(* updates the calls make, whatever they return, ever takes a table, a     *)
(* list or an entry outside what the code indexes (mcdf.go, memory.go,     *)
(* directory.go).                                                          *)
(***************************************************************************)
THEOREM TypeCorrect == Spec => []TypeOK
<1>1. Init => TypeOK /\ IControl
  BY InitType
<1>2. TypeOK /\ IControl /\ [Next]_vars => TypeOK' /\ IControl'
  BY StepType
<1> QED
  BY <1>1, <1>2, PTL DEF Spec
=============================================================================
