----------------------- MODULE CompoundFileSavedProofs -----------------------
(***************************************************************************)
(* Proofs that what the calls keep in two places agrees between calls:     *)
(* the FAT and the miniFAT with the links they were written from           *)
(* (TablesMatchMemory), and the directory sectors with the entries in      *)
(* memory (EntriesSaved), while no call has returned an error.             *)
(*                                                                         *)
(* Inside a call they do not agree.  Directory.Write links a sector to the *)
(* chain's end and writes the end's own slot only when the next one comes, *)
(* or when the loop is over: IFat and IMini say that old is the only one   *)
(* whose slot is behind, and only while the loop has no sector to go on    *)
(* to.  The entry is written at the end, and updateDE remembers it.  A     *)
(* sector just handed out still says FREESECT, and IInUse that it is the   *)
(* only one in no list that does.                                          *)
(***************************************************************************)
EXTENDS CompoundFileProperties, CompoundFileSafetyProofs, WellFoundedInduction, SequenceTheorems

IFat == \A x \in Sectors : fat[x] = next[x] \/ (InBig /\ x = old /\ SecID < 0)
IMini == \A m \in Minis : miniTable[m] = miniNext[m] \/ (InMini /\ m = old /\ SecID < 0)

AtSector == pc \in {"BigSector", "MiniTable", "Container", "DirSector"}
IInUse ==
  /\ s # -1 => AtSector
  /\ \A x \in Sectors : set[x] = "none" /\ next[x] = FREESECT => x = s
IMiniFree == \A m \in Minis : miniNext[m] = FREESECT => m \in miniFree

\* Where no entry waits to be written.
Unwritten ==
  \/ NotWriting \/ pc \in {"DirSector", "NewEntry"}
  \/ pc \in {"Alloc", "AllocNew"} /\ caller = "DirSector"

IEntries ==
  /\ Unwritten => ~updateDE
  /\ \A d \in DOMAIN dirs : dirSect[d] = dirs[d] \/ (updateDE /\ d = arg.d)

-----------------------------------------------------------------------------
(* A call that has returned an error is counted for good. *)
LEMMA ErrorReturned ==
  ASSUME TypeOK, NEW r, Return(r), errors' = 0
  PROVE errors = 0 /\ r # "err"
BY DEF Return, TypeOK, CallType

(* No error is forgotten. *)
LEMMA NoErrorBefore ==
  ASSUME TypeOK, [Next]_vars, errors' = 0
  PROVE errors = 0
<1>1. errors' = errors \/ errors' = errors + 1
  <2>1. CASE UNCHANGED vars
    BY <2>1 DEF vars, resVars
  <2>2. CASE FreeFAT \/ FreeMiniFAT \/ Freed \/ Resize \/ Update \/ NewEntry
    BY <2>2 DEF FreeFAT, FreeMiniFAT, Freed, Resize, Update, NewEntry, Goto, Return, resVars
  <2>3. CASE WriteBigExisting \/ WriteBigGrow \/ BigSector \/ FinishBig
    BY <2>3 DEF WriteBigExisting, WriteBigGrow, BigSector, FinishBig, Goto, Return, resVars
  <2>4. CASE WriteMiniExisting \/ WriteMiniNew \/ WriteMiniGrow \/ FinishMini
    BY <2>4 DEF WriteMiniExisting, WriteMiniNew, WriteMiniAt, WriteMiniGrow, FinishMini, Goto, Return, resVars
  <2>5. CASE AllocFree \/ AllocTable \/ AllocNew \/ MiniTable \/ Container \/ DirSector
    BY <2>5 DEF AllocFree, AllocTable, AllocNew, Allocated, MiniTable, Container, DirSector, Goto, Return, resVars
  <2>6. CASE AddStream
    BY <2>6 DEF AddStream
  <2>7. ASSUME NEW d \in Streams, GetData(d)
        PROVE errors' = errors \/ errors' = errors + 1
    BY <2>7 DEF GetData, Answer
  <2>8. ASSUME NEW d \in Streams, NEW v \in Values, NEW n \in Sizes, SetData(d, v, n)
        PROVE errors' = errors \/ errors' = errors + 1
    BY <2>8 DEF SetData, Write
  <2>9. ASSUME NEW d \in Streams, NEW v \in Values, NEW n \in AppendSizes, AppendData(d, v, n)
        PROVE errors' = errors \/ errors' = errors + 1
    BY <2>9 DEF AppendData, Write
  <2>10. CASE FileCall
    BY <2>10, FileCallKeeps
  <2> QED
    BY <2>1, <2>2, <2>3, <2>4, <2>5, <2>6, <2>7, <2>8, <2>9, <2>10 DEF Next, StreamCall, Continue
<1> QED
  BY <1>1 DEF TypeOK, CallType

-----------------------------------------------------------------------------
(***************************************************************************)
(* The FAT.                                                                *)
(***************************************************************************)

(* Links and slots are left alone, and what is behind stays so.              *)
LEMMA FatKept ==
  ASSUME IFat, UNCHANGED <<nsec, next, fat>>,
         InBig /\ SecID < 0 => InBig' /\ old' = old /\ SecID' = SecID
  PROVE IFat'
BY DEF IFat, Sectors

(* Every sector has its slot. *)
LEMMA SlotOf ==
  ASSUME TypeOK, Coverage
  PROVE /\ Sectors \subseteq DOMAIN fat /\ fat \in [DOMAIN fat -> Int]
        /\ next \in [Sectors -> Int] /\ DOMAIN fat = 0..(CountFat - 1)
<1>1. nsec \in Nat /\ CountFat \in Nat /\ nsec <= CountFat
  BY Counts DEF Coverage, TypeOK, SectorsType
<1> QED
  BY <1>1 DEF Sectors, TypeOK, TablesType, SectorsType

(* changeFAT of the sector FreeFAT pushes. *)
LEMMA FreeFATSlots ==
  ASSUME TypeOK, Coverage, IFat, FreeFAT, errors' = 0
  PROVE IFat'
<1>1. SecID \in Sectors /\ CanAdd(SecID, "Free")
  BY ErrorReturned DEF FreeFAT
<1>2. /\ nsec' = nsec /\ next' = [next EXCEPT ![SecID] = DefaultNext(next[SecID], "Free")]
      /\ fat' = [fat EXCEPT ![SecID] = next'[SecID]] /\ pc = "FreeFAT"
  BY <1>1 DEF FreeFAT, Push
<1>3. \A x \in Sectors : fat'[x] = next'[x]
  BY <1>1, <1>2, SlotOf DEF IFat, InBig
<1> QED
  BY <1>2, <1>3 DEF IFat, Sectors

(* A new sector's slot says what its link does. *)
LEMMA AppendSlots ==
  ASSUME TypeOK, Coverage, Coverage', TypeOK', IFat, NEW k \in {1, 2}, NEW ts, NEW n \in Nat,
         AppendSectors(k, ts, n), InBig' = InBig, old' = old, SecID' = SecID
  PROVE IFat'
<1>1. nsec \in Nat /\ nsec' = nsec + k /\ Sectors = 0..(nsec - 1) /\ Sectors' = 0..(nsec + k - 1)
  BY DEF TypeOK, SectorsType, AppendSectors, Sectors
<1>2. CountFat \in Nat /\ nsec <= CountFat
  BY Counts DEF Coverage
<1>3. DOMAIN fat' = 0..(CountFat + n - 1) /\ DOMAIN next' = Sectors'
  BY <1>1 DEF AppendSectors
<1>4. Sectors' \subseteq DOMAIN fat'
  <2>1. PICK c : c = CountFat'
    OBVIOUS
  <2>2. nsec' <= c /\ DOMAIN fat' = 0..(c - 1) /\ c = EntriesPerSector * Len(memFat') /\ Len(memFat') \in Nat
    BY <2>1 DEF Coverage, TypeOK, TablesType, CountFat
  <2>3. c \in Nat
    BY <2>2, LayoutFacts
  <2> QED
    BY <1>1, <2>2, <2>3
<1>5. \A x \in Sectors : next'[x] = next[x] /\ fat'[x] = fat[x]
  <2>1. TAKE x \in Sectors
  <2>2. x < nsec /\ x \in 0..(nsec + k - 1) /\ x \in 0..(CountFat + n - 1) /\ x \notin nsec..(nsec + k - 1) /\ x < CountFat
    BY <1>1, <1>2
  <2> QED
    BY <2>2 DEF AppendSectors
<1>6. \A x \in Sectors' \ Sectors : next'[x] = fat'[x]
  <2>1. TAKE x \in Sectors' \ Sectors
  <2>2. ~(x < nsec) /\ x \in 0..(nsec + k - 1) /\ x \in nsec..(nsec + k - 1) /\ x \in 0..(CountFat + n - 1)
    BY <1>1, <1>3, <1>4
  <2> QED
    BY <2>2 DEF AppendSectors
<1> QED
  BY <1>5, <1>6 DEF IFat

(* addSector keeps slots and links together. *)
LEMMA AllocSlots ==
  ASSUME TypeOK, TypeOK', Coverage, Coverage', IControl, IFat, AllocFree \/ AllocTable \/ AllocNew
  PROVE IFat'
<1>1. /\ pc \in {"Alloc", "AllocNew"} /\ pc' \in {"AllocNew", caller} /\ caller' = caller
      /\ UNCHANGED <<SecID, old>>
  BY DEF AllocFree, AllocTable, AllocNew, Allocated, Goto, loopVars
<1>2. InBig' = InBig
  BY <1>1 DEF InBig, IControl
<1>3. CASE AllocFree
  BY <1>1, <1>2, <1>3, FatKept DEF AllocFree, PopFree, sectorVars, fatVars
<1>4. CASE AllocTable
  <2>1. \/ AppendSectors(1, <<"TableFat">>, EntriesPerSector)
        \/ AppendSectors(2, <<"TableFat", "DIFAT">>, EntriesPerSector)
    BY <1>4 DEF AllocTable, AddTableInHeader, AddTableInDIFAT, AddTableAndDIFAT
  <2> QED
    BY <1>1, <1>2, <2>1, AppendSlots, LayoutFacts
<1>5. CASE AllocNew
  <2>1. AppendSectors(1, <<"none">>, 0)
    BY <1>5 DEF AllocNew, NewSector
  <2> QED
    BY <1>1, <1>2, <2>1, AppendSlots
<1> QED
  BY <1>3, <1>4, <1>5

(* A stream's new sector is the one whose slot is behind. *)
LEMMA BigSlots ==
  ASSUME TypeOK, Coverage, IControl, IFat, errors' = 0,
         WriteBigExisting \/ WriteBigGrow \/ BigSector \/ FinishBig
  PROVE IFat'
<1>1. CASE WriteBigExisting
  <2>1. SecID >= 0 /\ SecID \in Int /\ UNCHANGED <<nsec, next, fat>>
    BY <1>1 DEF WriteBigExisting, Existing, fatVars, TypeOK, CallType
  <2> QED
    BY <2>1, FatKept
<1>2. CASE WriteBigGrow
  <2>1. UNCHANGED <<nsec, next, fat, SecID, old>> /\ InBig'
    BY <1>2 DEF WriteBigGrow, memVars, sectorVars, fatVars, loopVars, Goto, InBig
  <2> QED
    BY <2>1, FatKept
<1>3. CASE BigSector
  <2>1. s \in loaded /\ nsec' = nsec /\ s \in Sectors /\ old \in Sectors \cup {-1}
    BY <1>3, ErrorReturned DEF BigSector, IControl, InBig
  <2>2. old' = s /\ SecID' = next'[s] /\ InBig' /\ Sectors' = Sectors
    BY <1>3, <2>1 DEF BigSector, Goto, InBig, Sectors
  <2>3. old >= 0 <=> old \in Sectors
    BY <2>1 DEF Sectors
  <2>4. /\ next' = IF old >= 0 THEN [[next EXCEPT ![s] = ENDOFCHAIN] EXCEPT ![old] = s]
                   ELSE [next EXCEPT ![s] = ENDOFCHAIN]
        /\ fat' = IF old >= 0 THEN [fat EXCEPT ![old] = s] ELSE fat
    BY <1>3 DEF BigSector
  <2>5. ~(old >= 0) => old \notin Sectors
    BY <2>1 DEF Sectors
  <2>6. \A x \in Sectors : x # s => fat'[x] = next'[x]
    <3>1. TAKE x \in Sectors
    <3>2. HAVE x # s
    <3>3. CASE x = old
      BY <2>3, <2>4, <3>3, SlotOf
    <3>4. CASE x # old
      <4>1. next'[x] = next[x] /\ fat'[x] = fat[x]
        BY <2>4, <3>2, <3>4, SlotOf
      <4> QED
        BY <3>4, <4>1 DEF IFat
    <3> QED
      BY <3>3, <3>4
  <2>7. fat'[s] = next'[s] \/ next'[s] = ENDOFCHAIN
    <3>1. CASE s = old
      BY <2>1, <2>3, <2>4, <3>1, SlotOf
    <3>2. CASE s # old
      BY <2>1, <2>4, <3>2, SlotOf
    <3> QED
      BY <3>1, <3>2
  <2> QED
    BY <2>2, <2>6, <2>7 DEF IFat, ENDOFCHAIN
<1>4. CASE FinishBig
  <2>1. fat' = [fat EXCEPT ![old] = next[old]] /\ UNCHANGED <<nsec, next>> /\ InBig /\ old \in Sectors \cup {-1}
    BY <1>4 DEF FinishBig, sectorVars, InBig, IControl
  <2>2. \A x \in Sectors : fat'[x] = next[x]
    BY <2>1, SlotOf DEF IFat
  <2> QED
    BY <2>1, <2>2 DEF IFat, Sectors
<1> QED
  BY <1>1, <1>2, <1>3, <1>4

(* The sectors of the tables, of the directory and of the containers are     *)
(* linked in both at once.                                                   *)
LEMMA HelperSlots ==
  ASSUME TypeOK, Coverage, ListsMatchSet, IControl, IFat, errors' = 0, MiniTable \/ Container \/ DirSector
  PROVE IFat'
<1>1. s \in Sectors /\ ~InBig /\ nsec' = nsec /\ Sectors' = Sectors
  BY DEF MiniTable, Container, DirSector, IControl, InBig, Sectors
<1>2. /\ \A x \in Sectors : fat[x] = next[x] /\ x \in DOMAIN fat
      /\ next \in [Sectors -> Int] /\ fat \in [DOMAIN fat -> Int]
  BY <1>1, SlotOf DEF IFat
<1>3. CASE MiniTable
  <2> DEFINE linked == IF memMini = <<>> THEN next ELSE [next EXCEPT ![Last(memMini)] = s]
             slots == IF memMini = <<>> THEN fat ELSE [fat EXCEPT ![Last(memMini)] = s]
  <2>1. /\ next' = [linked EXCEPT ![s] = DefaultNext(linked[s], "TableMini")]
        /\ fat' = [slots EXCEPT ![s] = next'[s]]
    BY <1>3, ErrorReturned DEF MiniTable
  <2>2. \A x \in Sectors : slots[x] = linked[x]
    BY <1>2
  <2>3. DOMAIN linked = Sectors /\ DOMAIN slots = DOMAIN fat
    BY <1>2
  <2> HIDE DEF linked, slots
  <2>4. \A x \in Sectors : fat'[x] = next'[x]
    BY <1>1, <1>2, <2>1, <2>2, <2>3
  <2> QED
    BY <1>1, <2>4 DEF IFat
<1>4. CASE DirSector
  <2> DEFINE own == [next EXCEPT ![s] = DefaultNext(next[s], "Dir")]
             slots == [fat EXCEPT ![s] = own[s]]
  <2>1. \/ next' = own /\ fat' = slots
        \/ next' = [own EXCEPT ![Last(memDir)] = s] /\ fat' = [slots EXCEPT ![Last(memDir)] = s]
    BY <1>4, ErrorReturned DEF DirSector
  <2>2. \A x \in Sectors : slots[x] = own[x]
    BY <1>1, <1>2
  <2>3. DOMAIN own = Sectors /\ DOMAIN slots = DOMAIN fat
    BY <1>2
  <2> HIDE DEF own, slots
  <2>4. \A x \in Sectors : fat'[x] = next'[x]
    BY <1>2, <2>1, <2>2, <2>3
  <2> QED
    BY <1>1, <2>4 DEF IFat
<1>5. CASE Container
  <2> DEFINE ended == [next EXCEPT ![s] = ENDOFCHAIN]
             slots == [fat EXCEPT ![s] = ENDOFCHAIN]
  <2>1. \/ next' = ended /\ fat' = slots
        \/ next' = [ended EXCEPT ![Last(containers)] = s] /\ fat' = [slots EXCEPT ![Last(containers)] = s]
    BY <1>5 DEF Container
  <2>2. \A x \in Sectors : slots[x] = ended[x]
    BY <1>1, <1>2
  <2>3. DOMAIN ended = Sectors /\ DOMAIN slots = DOMAIN fat
    BY <1>2
  <2> HIDE DEF ended, slots
  <2>4. \A x \in Sectors : fat'[x] = next'[x]
    BY <1>2, <2>1, <2>2, <2>3
  <2> QED
    BY <1>1, <2>4 DEF IFat
<1> QED
  BY <1>3, <1>4, <1>5

(* Every step that is no error keeps the FAT. *)
LEMMA StepFat ==
  ASSUME TypeOK, TypeOK', IControl, ListsMatchSet, Coverage, Coverage', IFat, [Next]_vars, errors' = 0
  PROVE IFat'
<1> USE DEF memVars, sectorVars, fatVars, memoryVars
<1>1. ASSUME UNCHANGED <<nsec, next, fat>>, ~InBig
      PROVE IFat'
  BY <1>1, FatKept
<1>2. CASE FreeMiniFAT \/ Freed \/ Resize \/ NewEntry \/ Update \/ AddStream
  BY <1>1, <1>2 DEF FreeMiniFAT, Freed, Resize, NewEntry, Update, AddStream, CanCall, InBig
<1>3. CASE WriteMiniExisting \/ WriteMiniNew \/ WriteMiniGrow \/ FinishMini
  BY <1>1, <1>3 DEF WriteMiniExisting, WriteMiniNew, WriteMiniAt, WriteMiniGrow, FinishMini, InBig
<1>4. CASE Continue
  BY <1>2, <1>3, <1>4, FreeFATSlots, AllocSlots, BigSlots, HelperSlots DEF Continue
<1>5. ASSUME NEW d \in Streams, GetData(d)
      PROVE IFat'
  BY <1>1, <1>5 DEF GetData, Answer, CanCall, InBig
<1>6. ASSUME NEW d \in Streams, NEW v \in Values, NEW n \in Sizes, SetData(d, v, n)
      PROVE IFat'
  BY <1>1, <1>6 DEF SetData, CanCall, InBig
<1>7. ASSUME NEW d \in Streams, NEW v \in Values, NEW n \in AppendSizes, AppendData(d, v, n)
      PROVE IFat'
  BY <1>1, <1>7 DEF AppendData, CanCall, InBig
<1>8. CASE UNCHANGED vars
  BY <1>8, FatKept DEF vars, InBig, loopVars
<1>9. CASE FileCall
  BY <1>1, <1>9, FileCallKeeps DEF InBig
<1> QED
  BY <1>2, <1>4, <1>5, <1>6, <1>7, <1>8, <1>9 DEF Next, StreamCall

(* What is in no list and says FREESECT stays so, or is handled. *)
LEMMA InUseKept ==
  ASSUME IInUse, ~AtSector, nsec' = nsec, s' = s \/ s' = -1,
         \A x \in Sectors : set'[x] = "none" /\ next'[x] = FREESECT =>
                            set[x] = "none" /\ next[x] = FREESECT
  PROVE IInUse'
<1>1. s = -1 /\ s' = -1 /\ Sectors' = Sectors
  BY DEF IInUse, Sectors
<1> QED
  BY <1>1 DEF IInUse

(* addSector hands out one sector in no list; table sectors are in theirs. *)
LEMMA AllocInUse ==
  ASSUME TypeOK, IControl, IInUse, AllocFree \/ AllocTable \/ AllocNew
  PROVE IInUse'
<1>1. ~AtSector /\ s = -1
  BY DEF AllocFree, AllocTable, AllocNew, AtSector, IInUse
<1>2. \A x \in Sectors : ~(set[x] = "none" /\ next[x] = FREESECT)
  BY <1>1 DEF IInUse, Sectors
<1>3. CASE AllocFree
  <2>1. PICK x \in Sectors : PopFree(x) /\ Allocated(x)
    BY <1>3 DEF AllocFree
  <2>2. /\ s' = x /\ pc' = caller /\ pc = "Alloc" /\ UNCHANGED <<nsec, next>>
        /\ set' = [set EXCEPT ![x] = "none"]
    BY <1>3, <2>1 DEF AllocFree, PopFree, Allocated, Goto, sectorVars
  <2>3. AtSector'
    BY <2>2 DEF AtSector, IControl
  <2>4. Sectors' = Sectors /\ \A y \in Sectors : y # x => set'[y] = set[y]
    BY <2>2 DEF Sectors, TypeOK, SectorsType
  <2> QED
    BY <1>2, <2>2, <2>3, <2>4 DEF IInUse
<1>4. CASE AllocTable
  <2>1. \/ AppendSectors(1, <<"TableFat">>, EntriesPerSector)
        \/ AppendSectors(2, <<"TableFat", "DIFAT">>, EntriesPerSector)
    BY <1>4 DEF AllocTable, AddTableInHeader, AddTableInDIFAT, AddTableAndDIFAT
  <2>2. s' = s
    BY <1>4 DEF AllocTable
  <2>3. \A x \in Sectors' : \/ x \in Sectors /\ set'[x] = set[x] /\ next'[x] = next[x]
                            \/ set'[x] \in {"TableFat", "DIFAT"}
    <3>1. nsec \in Nat
      BY DEF TypeOK, SectorsType
    <3>2. CASE AppendSectors(1, <<"TableFat">>, EntriesPerSector)
      BY <3>1, <3>2 DEF AppendSectors, Sectors
    <3>3. CASE AppendSectors(2, <<"TableFat", "DIFAT">>, EntriesPerSector)
      BY <3>1, <3>3 DEF AppendSectors, Sectors
    <3> QED
      BY <2>1, <3>2, <3>3
  <2> QED
    BY <1>1, <1>2, <2>2, <2>3 DEF IInUse
<1>5. CASE AllocNew
  <2>1. AppendSectors(1, <<"none">>, 0) /\ s' = nsec /\ pc' = caller /\ pc \in {"Alloc", "AllocNew"}
    BY <1>5 DEF AllocNew, NewSector, Allocated, Goto
  <2>2. AtSector'
    BY <2>1 DEF AtSector, IControl
  <2>3. \A x \in Sectors' : x = nsec \/ (x \in Sectors /\ set'[x] = set[x] /\ next'[x] = next[x])
    BY <2>1 DEF AppendSectors, Sectors, TypeOK, SectorsType
  <2> QED
    BY <1>2, <2>1, <2>2, <2>3 DEF IInUse
<1> QED
  BY <1>3, <1>4, <1>5

(* A sector handed out is linked or put in a list at once. *)
LEMMA SectorInUse ==
  ASSUME TypeOK, IControl, IInUse, errors' = 0, BigSector \/ MiniTable \/ Container \/ DirSector
  PROVE IInUse'
<1>1. s \in Sectors /\ s' = -1 /\ nsec' = nsec
  BY ErrorReturned DEF BigSector, MiniTable, Container, DirSector, IControl
<1>2. next \in [Sectors -> Int] /\ set \in [Sectors -> ListNames \cup {"none"}]
      /\ Sectors' = Sectors /\ s >= 0
  BY <1>1 DEF TypeOK, SectorsType, Sectors
<1> DEFINE ended == [next EXCEPT ![s] = ENDOFCHAIN]
<1>3. \A x \in Sectors : x # s => ended[x] = next[x]
  BY <1>2
<1>4. ended[s] = ENDOFCHAIN /\ ended \in [Sectors -> Int]
  BY <1>1, <1>2 DEF ENDOFCHAIN
<1> HIDE DEF ended
<1>5. CASE BigSector \/ Container
  <2>1. set' = set /\ (next' = ended \/ \E y : next' = [ended EXCEPT ![y] = s])
    BY <1>5 DEF BigSector, Container, memoryVars, ended
  <2>2. \A x \in Sectors : next'[x] = FREESECT => ended[x] = FREESECT
    <3>1. CASE next' = ended
      BY <3>1
    <3>2. ASSUME NEW y, next' = [ended EXCEPT ![y] = s]
          PROVE \A x \in Sectors : next'[x] = FREESECT => ended[x] = FREESECT
      BY <1>2, <1>4, <3>2 DEF FREESECT
    <3> QED
      BY <2>1, <3>1, <3>2
  <2>3. \A x \in Sectors : next'[x] = FREESECT => x # s /\ next[x] = FREESECT
    BY <1>3, <1>4, <2>2 DEF FREESECT, ENDOFCHAIN
  <2> QED
    BY <1>1, <1>2, <2>1, <2>3 DEF IInUse
<1>6. CASE MiniTable \/ DirSector
  <2>1. PICK t \in {"TableMini", "Dir"} : set' = [set EXCEPT ![s] = t]
    BY <1>6, ErrorReturned DEF MiniTable, DirSector
  <2>2. \A x \in Sectors : x # s /\ next'[x] = FREESECT => next[x] = FREESECT
    <3>1. CASE MiniTable
      <4> DEFINE linked == IF memMini = <<>> THEN next ELSE [next EXCEPT ![Last(memMini)] = s]
      <4>1. next' = [linked EXCEPT ![s] = DefaultNext(linked[s], "TableMini")]
        BY <3>1, ErrorReturned DEF MiniTable
      <4>2. DOMAIN linked = Sectors /\ \A x \in Sectors : linked[x] = FREESECT => next[x] = FREESECT
        BY <1>2 DEF FREESECT
      <4> HIDE DEF linked
      <4> QED
        BY <4>1, <4>2
    <3>2. CASE DirSector
      <4> DEFINE own == [next EXCEPT ![s] = DefaultNext(next[s], "Dir")]
      <4>1. next' = own \/ next' = [own EXCEPT ![Last(memDir)] = s]
        BY <3>2, ErrorReturned DEF DirSector
      <4>2. DOMAIN own = Sectors /\ \A x \in Sectors : x # s => own[x] = next[x]
        BY <1>2
      <4> HIDE DEF own
      <4>3. \A x \in Sectors : x # s => next'[x] = next[x] \/ next'[x] = s
        BY <4>1, <4>2
      <4> QED
        BY <1>2, <4>3 DEF FREESECT
    <3> QED
      BY <1>6, <3>1, <3>2
  <2>3. set'[s] # "none" /\ \A x \in Sectors : x # s => set'[x] = set[x]
    BY <1>1, <1>2, <2>1
  <2> QED
    BY <1>1, <1>2, <2>2, <2>3 DEF IInUse
<1> QED
  BY <1>5, <1>6

(* Every step that is no error keeps IInUse. *)
LEMMA StepInUse ==
  ASSUME TypeOK, IControl, IInUse, [Next]_vars, errors' = 0
  PROVE IInUse'
<1> USE DEF memVars, sectorVars, fatVars, memoryVars
<1>1. ASSUME UNCHANGED <<nsec, next, set>>, ~AtSector, s' = s \/ s' = -1
      PROVE IInUse'
  BY <1>1, InUseKept
<1>2. CASE Freed \/ FreeMiniFAT \/ Resize \/ NewEntry \/ Update \/ AddStream
  BY <1>1, <1>2, ErrorReturned DEF Freed, FreeMiniFAT, Resize, NewEntry, Update, AddStream, CanCall,
     AtSector, Return
<1>3. CASE WriteBigExisting \/ WriteBigGrow \/ FinishBig
  BY <1>1, <1>3, ErrorReturned DEF WriteBigExisting, WriteBigGrow, FinishBig, AtSector
<1>4. CASE WriteMiniExisting \/ WriteMiniNew \/ WriteMiniGrow \/ FinishMini
  BY <1>1, <1>4, ErrorReturned DEF WriteMiniExisting, WriteMiniNew, WriteMiniAt, WriteMiniGrow,
     FinishMini, AtSector
<1>5. CASE FreeFAT
  <2>1. /\ SecID \in Sectors /\ nsec' = nsec /\ s' = s /\ ~AtSector
        /\ next' = [next EXCEPT ![SecID] = DefaultNext(@, "Free")]
        /\ set' = [set EXCEPT ![SecID] = "Free"]
    BY <1>5, ErrorReturned DEF FreeFAT, Push, AtSector
  <2>2. next \in [Sectors -> Int] /\ set \in [Sectors -> ListNames \cup {"none"}]
    BY DEF TypeOK, SectorsType
  <2>3. \A x \in Sectors : set'[x] = "none" /\ next'[x] = FREESECT => set[x] = "none" /\ next[x] = FREESECT
    BY <2>1, <2>2
  <2> QED
    BY <2>1, <2>3, InUseKept
<1>6. CASE Continue
  BY <1>2, <1>3, <1>4, <1>5, <1>6, AllocInUse, SectorInUse DEF Continue
<1>7. ASSUME NEW d \in Streams, GetData(d)
      PROVE IInUse'
  BY <1>1, <1>7 DEF GetData, Answer, CanCall, AtSector
<1>8. ASSUME NEW d \in Streams, NEW v \in Values, NEW n \in Sizes, SetData(d, v, n)
      PROVE IInUse'
  BY <1>1, <1>8 DEF SetData, Write, CanCall, AtSector
<1>9. ASSUME NEW d \in Streams, NEW v \in Values, NEW n \in AppendSizes, AppendData(d, v, n)
      PROVE IInUse'
  BY <1>1, <1>9 DEF AppendData, Write, CanCall, AtSector
<1>10. CASE FileCall
  BY <1>1, <1>10, FileCallKeeps DEF AtSector
<1>11. CASE UNCHANGED vars
  BY <1>11 DEF vars, IInUse, AtSector, Sectors
<1> QED
  BY <1>2, <1>6, <1>7, <1>8, <1>9, <1>10, <1>11 DEF Next, StreamCall

-----------------------------------------------------------------------------
(***************************************************************************)
(* The miniFAT.                                                            *)
(***************************************************************************)

(* Mini links and slots are left alone, and what is behind stays so. *)
LEMMA MiniKept ==
  ASSUME IMini, UNCHANGED <<miniNext, miniTable>>,
         InMini /\ SecID < 0 => InMini' /\ old' = old /\ SecID' = SecID
  PROVE IMini'
BY DEF IMini, Minis

(* Every mini sector has its slot. *)
LEMMA MiniSlotOf ==
  ASSUME TypeOK, Coverage
  PROVE /\ Minis \subseteq DOMAIN miniTable /\ miniTable \in [DOMAIN miniTable -> Int]
        /\ miniNext \in [Minis -> Int]
        /\ Minis = 0..(Cardinality(Minis) - 1) /\ Cardinality(Minis) \in Nat /\ Minis \subseteq Nat
        /\ CountMini \in Nat /\ DOMAIN miniTable = 0..(CountMini - 1)
<1>1. /\ Cardinality(Minis) = MinisPerSector * Len(containers) /\ CountMini \in Nat
      /\ Cardinality(Minis) <= CountMini
  BY Counts DEF Coverage
<1>2. MinisPerSector * Len(containers) \in Nat
  BY LayoutFacts DEF TypeOK, MiniType
<1>3. /\ Minis = 0..(MinisPerSector * Len(containers) - 1) /\ miniNext \in [Minis -> Int]
      /\ miniTable \in [0..(CountMini - 1) -> Int]
  BY DEF TypeOK, MiniType, Minis
<1>4. Minis = 0..(Cardinality(Minis) - 1) /\ Cardinality(Minis) \in Nat
  BY <1>1, <1>2, <1>3
<1>5. Minis \subseteq 0..(CountMini - 1) /\ Minis \subseteq Nat
  BY <1>1, <1>4
<1> QED
  BY <1>1, <1>3, <1>4, <1>5

(* changeMiniFAT of the mini sector FreeMiniFAT pushes. *)
LEMMA FreeMiniSlots ==
  ASSUME TypeOK, Coverage, IMini, FreeMiniFAT, errors' = 0
  PROVE IMini'
<1>1. SecID \in Minis
  BY ErrorReturned DEF FreeMiniFAT
<1>2. /\ miniNext' = [miniNext EXCEPT ![SecID] = FREESECT]
      /\ miniTable' = [miniTable EXCEPT ![SecID] = FREESECT] /\ pc = "FreeMiniFAT"
  BY <1>1, ErrorReturned DEF FreeMiniFAT
<1>3. \A m \in Minis : miniTable'[m] = miniNext'[m]
  BY <1>1, <1>2, MiniSlotOf DEF IMini, InMini
<1>4. Minis' = Minis
  BY <1>2 DEF Minis
<1> QED
  BY <1>3, <1>4 DEF IMini

(* A stream's new mini sector is the one whose slot is behind. *)
LEMMA WriteMiniSlots ==
  ASSUME TypeOK, Coverage, IControl, IMini, errors' = 0,
         WriteMiniExisting \/ WriteMiniNew \/ WriteMiniGrow \/ FinishMini
  PROVE IMini'
<1>1. CASE WriteMiniExisting
  <2>1. SecID >= 0 /\ SecID \in Int /\ UNCHANGED <<miniNext, miniTable>>
    BY <1>1 DEF WriteMiniExisting, Existing, miniVars, TypeOK, CallType
  <2> QED
    BY <2>1, MiniKept
<1>2. CASE WriteMiniGrow
  <2>1. UNCHANGED <<miniNext, miniTable, SecID, old>> /\ InMini'
    BY <1>2 DEF WriteMiniGrow, miniVars, loopVars, Goto, InMini
  <2> QED
    BY <2>1, MiniKept
<1>3. CASE WriteMiniNew
  <2>1. PICK m \in miniFree :
          /\ miniNext' = IF old >= 0 THEN [[miniNext EXCEPT ![m] = ENDOFCHAIN] EXCEPT ![old] = m]
                         ELSE [miniNext EXCEPT ![m] = ENDOFCHAIN]
          /\ miniTable' = IF old >= 0 THEN [miniTable EXCEPT ![old] = m] ELSE miniTable
          /\ WriteMiniAt(m, miniNext'[m], updateDE \/ old < 0)
    BY <1>3 DEF WriteMiniNew
  <2>2. m \in Minis /\ old \in Minis \cup {-1} /\ Minis' = Minis
    BY <1>3, <2>1 DEF TypeOK, MiniType, WriteMiniNew, IControl, InMini, Minis
  <2>3. old' = m /\ SecID' = miniNext'[m] /\ InMini'
    BY <2>1, ErrorReturned DEF WriteMiniAt, Goto, InMini
  <2>4. /\ old >= 0 <=> old \in Minis
        /\ Minis \subseteq DOMAIN miniTable /\ miniTable \in [DOMAIN miniTable -> Int] /\ miniNext \in [Minis -> Int]
    BY <2>2, MiniSlotOf
  <2>5. \A x \in Minis : x # m => miniTable'[x] = miniNext'[x]
    <3>1. TAKE x \in Minis
    <3>2. HAVE x # m
    <3>3. CASE x = old
      BY <2>1, <2>4, <3>3
    <3>4. CASE x # old
      <4>1. miniNext'[x] = miniNext[x] /\ miniTable'[x] = miniTable[x]
        BY <2>1, <2>4, <3>2, <3>4
      <4> QED
        BY <3>4, <4>1 DEF IMini
    <3> QED
      BY <3>3, <3>4
  <2>6. miniTable'[m] = miniNext'[m] \/ miniNext'[m] = ENDOFCHAIN
    <3>1. CASE m = old
      BY <2>1, <2>2, <2>4, <3>1
    <3>2. CASE m # old
      BY <2>1, <2>2, <2>4, <3>2
    <3> QED
      BY <3>1, <3>2
  <2> QED
    BY <2>2, <2>3, <2>5, <2>6 DEF IMini, ENDOFCHAIN
<1>4. CASE FinishMini
  <2>1. /\ miniTable' = [miniTable EXCEPT ![old] = miniNext[old]] /\ miniNext' = miniNext
        /\ InMini /\ old \in Minis \cup {-1}
    BY <1>4 DEF FinishMini, InMini, IControl
  <2>2. \A m \in Minis : miniTable'[m] = miniNext[m]
    BY <2>1, MiniSlotOf DEF IMini
  <2> QED
    BY <2>1, <2>2 DEF IMini, Minis
<1> QED
  BY <1>1, <1>2, <1>3, <1>4

(* New miniFAT slots are behind no link; a container's mini sectors are free *)
(* in both.                                                                  *)
LEMMA HelperMiniSlots ==
  ASSUME TypeOK, TypeOK', Coverage, Coverage', IControl, IMini, errors' = 0, MiniTable \/ Container
  PROVE IMini'
<1>1. InMini /\ InMini' /\ old' = old /\ SecID' = SecID
  BY ErrorReturned DEF MiniTable, Container, Goto, loopVars, InMini
<1>2. CASE MiniTable
  <2>1. miniTable' = Extend(miniTable, CountMini, EntriesPerSector, FREESECT) /\ miniNext' = miniNext
    BY <1>2, ErrorReturned DEF MiniTable
  <2>2. \A m \in Minis : miniTable'[m] = miniTable[m]
    <3>1. \A m \in Minis : m < CountMini /\ m \in 0..(CountMini + EntriesPerSector - 1)
      BY MiniSlotOf, LayoutFacts
    <3> QED
      BY <2>1, <3>1 DEF Extend
  <2> QED
    BY <1>1, <2>1, <2>2 DEF IMini, Minis
<1>3. CASE Container
  <2> DEFINE n == Cardinality(Minis)
  <2>1. /\ miniNext' = Extend(miniNext, n, MinisPerSector, FREESECT)
        /\ miniTable' = [m \in DOMAIN miniTable |->
                           IF m \in n..(n + MinisPerSector - 1) THEN FREESECT ELSE miniTable[m]]
    BY <1>3 DEF Container
  <2>2. Minis' = 0..(n + MinisPerSector - 1) /\ Minis = 0..(n - 1) /\ n \in Nat
    BY <2>1, MiniSlotOf DEF Minis, Extend
  <2>3. Cardinality(Minis') = n + MinisPerSector
    <3> DEFINE b == n + MinisPerSector - 1
    <3>1. b \in Int /\ b >= 0 /\ b + 1 = n + MinisPerSector
      BY <2>2, LayoutFacts
    <3> HIDE DEF b
    <3>2. Cardinality(0..b) = b + 1
      BY <3>1, FS_Interval
    <3> QED
      BY <2>2, <3>1, <3>2 DEF b
  <2>4. n + MinisPerSector <= CountMini
    BY <1>3, <2>3 DEF Coverage, Container, memoryVars, CountMini
  <2>5. Minis' \subseteq DOMAIN miniTable
    BY <2>2, <2>4, MiniSlotOf, LayoutFacts
  <2>6. \A m \in Minis' : m \in Minis \/ miniTable'[m] = miniNext'[m]
    BY <2>1, <2>2, <2>5, LayoutFacts DEF Extend
  <2>7. \A m \in Minis : miniTable'[m] = miniTable[m] /\ miniNext'[m] = miniNext[m]
    BY <2>1, <2>2, LayoutFacts, MiniSlotOf DEF Extend
  <2> QED
    BY <1>1, <2>6, <2>7 DEF IMini
<1> QED
  BY <1>2, <1>3

(* Every step that is no error keeps the miniFAT. *)
LEMMA StepMini ==
  ASSUME TypeOK, TypeOK', IControl, Coverage, Coverage', IMini, [Next]_vars, errors' = 0
  PROVE IMini'
<1> USE DEF miniVars
<1>1. ASSUME UNCHANGED <<miniNext, miniTable>>, ~InMini
      PROVE IMini'
  BY <1>1, MiniKept
<1>2. CASE FreeFAT \/ Freed \/ Resize \/ NewEntry \/ Update \/ AddStream \/ DirSector
  BY <1>1, <1>2 DEF FreeFAT, Freed, Resize, NewEntry, Update, AddStream, CanCall, DirSector, InMini
<1>3. CASE WriteBigExisting \/ WriteBigGrow \/ BigSector \/ FinishBig
  BY <1>1, <1>3 DEF WriteBigExisting, WriteBigGrow, BigSector, FinishBig, InMini
<1>4. CASE AllocFree \/ AllocTable \/ AllocNew
  <2>1. /\ UNCHANGED <<miniNext, miniTable, SecID, old, caller>> /\ pc \in {"Alloc", "AllocNew"}
        /\ pc' \in {"AllocNew", caller}
    BY <1>4 DEF AllocFree, AllocTable, AllocNew, Allocated, Goto, loopVars
  <2>2. InMini' = InMini
    BY <2>1 DEF InMini, IControl
  <2> QED
    BY <2>1, <2>2, MiniKept
<1>5. CASE Continue
  BY <1>2, <1>3, <1>4, <1>5, FreeMiniSlots, WriteMiniSlots, HelperMiniSlots DEF Continue
<1>6. ASSUME NEW d \in Streams, GetData(d)
      PROVE IMini'
  BY <1>1, <1>6 DEF GetData, Answer, CanCall, InMini
<1>7. ASSUME NEW d \in Streams, NEW v \in Values, NEW n \in Sizes, SetData(d, v, n)
      PROVE IMini'
  BY <1>1, <1>7 DEF SetData, CanCall, InMini
<1>8. ASSUME NEW d \in Streams, NEW v \in Values, NEW n \in AppendSizes, AppendData(d, v, n)
      PROVE IMini'
  BY <1>1, <1>8 DEF AppendData, CanCall, InMini
<1>9. CASE UNCHANGED vars
  BY <1>9, MiniKept DEF vars, InMini, loopVars
<1>10. CASE FileCall
  BY <1>1, <1>10, FileCallKeeps DEF InMini
<1> QED
  BY <1>2, <1>5, <1>6, <1>7, <1>8, <1>9, <1>10 DEF Next, StreamCall

(* A mini sector that says FREESECT is free, whatever calls are made. *)
LEMMA StepMiniFree ==
  ASSUME TypeOK, IMiniFree, [Next]_vars
  PROVE IMiniFree'
<1> USE DEF miniVars
<1>0. miniFree \subseteq Minis /\ DOMAIN miniNext = Minis
  BY DEF TypeOK, MiniType, Minis
<1>1. ASSUME UNCHANGED <<miniNext, miniFree>>
      PROVE IMiniFree'
  BY <1>1 DEF IMiniFree, Minis
<1>2. CASE FreeMiniFAT
  <2>1. \/ UNCHANGED <<miniNext, miniFree>>
        \/ miniNext' = [miniNext EXCEPT ![SecID] = FREESECT] /\ miniFree' = miniFree \cup {SecID}
    BY <1>2 DEF FreeMiniFAT
  <2> QED
    BY <1>0, <1>1, <2>1 DEF IMiniFree, Minis
<1>3. CASE WriteMiniNew
  <2>1. PICK m \in miniFree :
          /\ miniFree' = miniFree \ {m}
          /\ miniNext' = IF old >= 0 THEN [[miniNext EXCEPT ![m] = ENDOFCHAIN] EXCEPT ![old] = m]
                         ELSE [miniNext EXCEPT ![m] = ENDOFCHAIN]
    BY <1>3 DEF WriteMiniNew
  <2>2. m \in Nat
    BY <1>0 DEF TypeOK, MiniType, Minis
  <2>3. Minis' = Minis /\ \A x \in Minis : miniNext'[x] = FREESECT => x # m /\ miniNext[x] = FREESECT
    BY <1>0, <2>1, <2>2 DEF FREESECT, ENDOFCHAIN, Minis
  <2> QED
    BY <2>1, <2>3 DEF IMiniFree
<1>4. CASE Container
  <2> DEFINE n == Cardinality(Minis)
  <2>1. /\ miniNext' = Extend(miniNext, n, MinisPerSector, FREESECT)
        /\ miniFree' = miniFree \cup n..(n + MinisPerSector - 1)
    BY <1>4 DEF Container
  <2>2. Minis = 0..(n - 1) /\ n \in Nat /\ Minis' = 0..(n + MinisPerSector - 1)
    <3>1. n = MinisPerSector * Len(containers) /\ Minis = 0..(MinisPerSector * Len(containers) - 1)
      BY Counts DEF TypeOK, MiniType, Minis
    <3>2. n \in Nat
      BY <3>1, LayoutFacts DEF TypeOK, MiniType
    <3> QED
      BY <2>1, <3>1, <3>2 DEF Extend, Minis
  <2>3. \A x \in Minis' : x \in n..(n + MinisPerSector - 1) \/ (x \in Minis /\ miniNext'[x] = miniNext[x])
    BY <2>1, <2>2, LayoutFacts DEF Extend
  <2> QED
    BY <2>1, <2>3 DEF IMiniFree
<1>5. CASE FreeFAT \/ Freed \/ Resize \/ NewEntry \/ Update \/ AddStream \/ DirSector \/ MiniTable
  BY <1>1, <1>5 DEF FreeFAT, Freed, Resize, NewEntry, Update, AddStream, DirSector, MiniTable
<1>6. CASE WriteBigExisting \/ WriteBigGrow \/ BigSector \/ FinishBig \/ WriteMiniExisting
           \/ WriteMiniGrow \/ FinishMini
  BY <1>1, <1>6 DEF WriteBigExisting, WriteBigGrow, BigSector, FinishBig, WriteMiniExisting,
     WriteMiniGrow, FinishMini
<1>7. CASE AllocFree \/ AllocTable \/ AllocNew
  BY <1>1, <1>7 DEF AllocFree, AllocTable, AllocNew, Allocated
<1>8. ASSUME NEW d \in Streams, GetData(d)
      PROVE IMiniFree'
  BY <1>1, <1>8 DEF GetData, Answer
<1>9. ASSUME NEW d \in Streams, NEW v \in Values, NEW n \in Sizes, SetData(d, v, n)
      PROVE IMiniFree'
  BY <1>1, <1>9 DEF SetData
<1>10. ASSUME NEW d \in Streams, NEW v \in Values, NEW n \in AppendSizes, AppendData(d, v, n)
       PROVE IMiniFree'
  BY <1>1, <1>10 DEF AppendData
<1>11. CASE UNCHANGED vars
  BY <1>1, <1>11 DEF vars
<1>12. CASE FileCall
  BY <1>1, <1>12, FileCallKeeps
<1> QED
  BY <1>2, <1>3, <1>4, <1>5, <1>6, <1>7, <1>8, <1>9, <1>10, <1>11, <1>12 DEF Next, StreamCall, Continue

(* The tables New and Open start with. *)
LEMMA InitTables ==
  ASSUME Init
  PROVE IFat /\ IMini /\ IInUse /\ IMiniFree
<1>1. Minis = {} /\ s = -1
  BY DEF Init, InitCommon, Minis
<1>2. CASE InitNew
  BY <1>1, <1>2 DEF InitNew, IFat, IMini, IInUse, IMiniFree, Sectors
<1>3. ASSUME NEW n \in 2..EntriesPerSector, InitOpened(n)
      PROVE IFat /\ IMini /\ IInUse /\ IMiniFree
  <2>1. Sectors = 0..(n - 1) /\ Sectors \subseteq 0..(EntriesPerSector - 1)
    BY <1>3, LayoutFacts DEF InitOpened, Sectors
  <2>2. \A x \in Sectors : fat[x] = next[x]
    BY <1>3, <2>1 DEF InitOpened
  <2>3. \A x \in Sectors : set[x] # "none"
    BY <1>3 DEF InitOpened
  <2> QED
    BY <1>1, <2>2, <2>3 DEF IFat, IMini, IInUse, IMiniFree
<1> QED
  BY <1>2, <1>3, InstanceAssumption DEF Init

(***************************************************************************)
(* Between calls, while none has returned an error, every slot of the FAT  *)
(* and of the miniFAT says what memory's link says: the late changeFAT of  *)
(* Directory.Write (directory.go:515, 528) and the one of FreeFAT leave    *)
(* nothing behind, so that a file saved then is read back with the same    *)
(* chains.  And no sector a stream or a container has been given, and no   *)
(* mini sector but a free one, says FREESECT, so that readFAT and          *)
(* readMiniFAT (mcdf.go:192-203, 319-331) free nothing in use.  That they  *)
(* find all that is free is not claimed: Push keeps a freed sector's link  *)
(* (memory.go:74-77), and the sector is lost when the file is reopened.    *)
(***************************************************************************)
THEOREM TablesCorrect == Spec => []TablesMatchMemory
<1> DEFINE I == /\ TypeOK /\ IControl /\ ListsMatchSet /\ Coverage /\ AtHelper
                /\ IMiniFree
                /\ errors = 0 => IFat /\ IMini /\ IInUse
<1>1. Init => I
  BY InitType, InitLists, InitCoverage, InitTables
<1>2. I /\ [Next]_vars => I'
  <2>1. SUFFICES ASSUME I, [Next]_vars PROVE I'
    OBVIOUS
  <2>2. TypeOK' /\ IControl' /\ ListsMatchSet' /\ Coverage' /\ AtHelper' /\ IMiniFree'
    BY <2>1, StepType, StepLists, StepCoverage, StepMiniFree
  <2>3. ASSUME errors' = 0 PROVE IFat' /\ IMini' /\ IInUse'
    <3>1. errors = 0
      BY <2>1, <2>3, NoErrorBefore
    <3> QED
      BY <2>1, <2>2, <2>3, <3>1, StepFat, StepMini, StepInUse
  <2> QED
    BY <2>2, <2>3
<1>3. I => TablesMatchMemory
  <2>1. SUFFICES ASSUME I, pc = "Idle", errors = 0
                 PROVE /\ \A x \in Sectors : fat[x] = next[x]
                       /\ \A x \in Sectors : fat[x] = FREESECT => set[x] # "none"
                       /\ \A m \in Minis : miniTable[m] = miniNext[m]
                       /\ \A m \in Minis : miniTable[m] = FREESECT => m \in miniFree
    BY DEF TablesMatchMemory
  <2>2. \A x \in Sectors : fat[x] = next[x]
    BY <2>1 DEF IFat, InBig
  <2>3. \A m \in Minis : miniTable[m] = miniNext[m]
    BY <2>1 DEF IMini, InMini
  <2>4. \A x \in Sectors : next[x] = FREESECT => set[x] # "none"
    BY <2>1 DEF IInUse, AtSector, Sectors
  <2> QED
    BY <2>1, <2>2, <2>3, <2>4 DEF IMiniFree
<1> QED
  BY <1>1, <1>2, <1>3, PTL DEF Spec

-----------------------------------------------------------------------------
(***************************************************************************)
(* The entries.                                                            *)
(***************************************************************************)

(* A return with success has left no entry to write. *)
LEMMA EntriesReturned ==
  ASSUME \A d \in DOMAIN dirs' : dirSect'[d] = dirs'[d], updateDE' = FALSE
  PROVE IEntries'
<1>1. ~updateDE'
  OBVIOUS
<1> QED
  BY <1>1, Zenon DEF IEntries

(* Entries are left alone. *)
LEMMA EntriesKept ==
  ASSUME IEntries, UNCHANGED <<dirs, dirSect, updateDE, arg>>, Unwritten' => Unwritten
  PROVE IEntries'
BY Zenon DEF IEntries

(* Only arg's entry changes, and updateDE remembers it. *)
LEMMA EntryChanged ==
  ASSUME IEntries, updateDE' = TRUE, arg' = arg, dirSect' = dirSect, DOMAIN dirs' = DOMAIN dirs,
         \A d \in DOMAIN dirs : d # arg.d => dirs'[d] = dirs[d], ~Unwritten'
  PROVE IEntries'
<1>1. updateDE'
  OBVIOUS
<1>2. \A d \in DOMAIN dirs : dirSect[d] = dirs[d] \/ d = arg.d
  BY Zenon DEF IEntries
<1>3. \A d \in DOMAIN dirs' : dirSect'[d] = dirs'[d] \/ d = arg'.d
  BY <1>2
<1> QED
  BY <1>1, <1>3, Zenon DEF IEntries

(* Where nothing waits to be written, the entries agree. *)
LEMMA EntriesAgree ==
  ASSUME IEntries, Unwritten
  PROVE ~updateDE /\ \A d \in DOMAIN dirs : dirSect[d] = dirs[d]
BY Zenon DEF IEntries

(* Directory.Write changes size and start together, and marks the entry. *)
LEMMA ResizeEntries ==
  ASSUME TypeOK, IControl, IEntries, Resize
  PROVE IEntries'
<1> DEFINE n == arg.size
<1>1. /\ dirs' = [dirs EXCEPT ![arg.d].size = IF OldSize # n THEN n ELSE @,
                              ![arg.d].start = IF n = 0 THEN ENDOFCHAIN ELSE @]
      /\ UNCHANGED <<arg, dirSect>> /\ arg.d \in DOMAIN dirs
  BY DEF Resize, IControl
<1>2. updateDE' = (OldSize # n \/ n = 0)
  BY Zenon DEF Resize
<1>3. Unwritten
  BY DEF Resize, Unwritten, NotWriting
<1>4. pc' \in {"Update", "WriteBig", "WriteMini"}
  BY DEF Resize, Goto
<1>5. ~Unwritten'
  BY <1>4 DEF Unwritten, NotWriting
<1>6. DOMAIN dirs' = DOMAIN dirs /\ \A d \in DOMAIN dirs : d # arg.d => dirs'[d] = dirs[d]
  BY <1>1
<1>7. CASE OldSize # n \/ n = 0
  <2>1. updateDE' = TRUE
    BY <1>2, <1>7, Zenon
  <2> QED
    BY <1>1, <1>5, <1>6, <2>1, EntryChanged
<1>8. CASE ~(OldSize # n \/ n = 0)
  <2>1. updateDE' = FALSE
    BY <1>2, <1>8, Zenon
  <2>2. dirs'[arg.d] = dirs[arg.d]
    <3>1. dirs[arg.d] \in Entry
      BY <1>1 DEF TypeOK, DirType
    <3>2. dirs'[arg.d] = [[dirs[arg.d] EXCEPT !.size = dirs[arg.d].size] EXCEPT !.start = dirs[arg.d].start]
      BY <1>1, <1>8 DEF TypeOK, DirType
    <3>3. dirs'[arg.d].kind = dirs[arg.d].kind /\ dirs'[arg.d].start = dirs[arg.d].start
          /\ dirs'[arg.d].size = dirs[arg.d].size
      BY <3>1, <3>2 DEF Entry
    <3> QED
      BY <3>1, <3>2, <3>3 DEF Entry
  <2>3. \A d \in DOMAIN dirs' : dirSect'[d] = dirs'[d]
    BY <1>1, <1>3, <1>6, <2>2, EntriesAgree
  <2> QED
    BY <2>1, <2>3, EntriesReturned
<1> QED
  BY <1>7, <1>8

(* The first sector of a stream changes its entry, which is marked. *)
LEMMA StartEntries ==
  ASSUME TypeOK, IEntries, BigSector \/ WriteMiniNew, errors' = 0
  PROVE IEntries'
<1>1. /\ dirSect' = dirSect /\ arg' = arg
      /\ \/ old >= 0 /\ dirs' = dirs
         \/ ~(old >= 0) /\ \E m : dirs' = [dirs EXCEPT ![arg.d].start = m]
  BY ErrorReturned DEF BigSector, WriteMiniNew, WriteMiniAt
<1>2. pc' \in {"WriteBig", "WriteMini"} /\ pc \in {"BigSector", "WriteMini"}
  BY ErrorReturned DEF BigSector, WriteMiniNew, WriteMiniAt, Goto
<1>3. ~Unwritten' /\ ~Unwritten
  BY <1>2 DEF Unwritten, NotWriting
<1>4. updateDE' = (updateDE \/ old < 0)
  <2>1. CASE BigSector
    BY <2>1, ErrorReturned, Zenon DEF BigSector
  <2>2. ASSUME NEW m, NEW l, NEW u, WriteMiniAt(m, l, u)
        PROVE updateDE' = u
    BY <2>2, ErrorReturned, Zenon DEF WriteMiniAt
  <2>3. CASE WriteMiniNew
    BY <2>2, <2>3, Zenon DEF WriteMiniNew
  <2> QED
    BY <2>1, <2>3
<1>5. old \in Int /\ updateDE \in BOOLEAN
  BY DEF TypeOK, CallType
<1>6. CASE old >= 0
  <2>1. ~(old < 0) /\ dirs' = dirs
    BY <1>1, <1>5, <1>6
  <2>2. updateDE' = updateDE
    BY <1>4, <1>5, <2>1, Zenon
  <2> QED
    BY <1>1, <1>3, <2>1, <2>2, EntriesKept
<1>7. CASE ~(old >= 0)
  <2>1. old < 0
    BY <1>5, <1>7
  <2>2. updateDE' = TRUE
    BY <1>4, <1>5, <2>1, Zenon
  <2>3. DOMAIN dirs' = DOMAIN dirs /\ \A d \in DOMAIN dirs : d # arg.d => dirs'[d] = dirs[d]
    BY <1>1, <1>7
  <2> QED
    BY <1>1, <1>3, <2>2, <2>3, EntryChanged
<1> QED
  BY <1>6, <1>7

(* The root entry and new entries are written at once. *)
LEMMA HelperEntries ==
  ASSUME TypeOK, IControl, IEntries, Container \/ DirSector \/ NewEntry, errors' = 0
  PROVE IEntries'
<1>0. dirs \in [DOMAIN dirs -> Entry] /\ dirSect \in [DOMAIN dirs -> Entry]
  BY DEF TypeOK, DirType
<1>1. CASE Container
  <2>1. arg' = arg /\ pc' = "WriteMini" /\ DOMAIN dirs' = DOMAIN dirs
        /\ \/ UNCHANGED <<dirs, dirSect>>
           \/ /\ dirs' = [dirs EXCEPT ![0].start = s]
              /\ dirSect' = [dirSect EXCEPT ![0] = dirs'[0]]
    BY <1>1 DEF Container, Goto
  <2>2. updateDE' = updateDE
    BY <1>1, Zenon DEF Container, loopVars
  <2>3. \A d \in DOMAIN dirs : (dirs'[d] = dirs[d] /\ dirSect'[d] = dirSect[d]) \/ dirSect'[d] = dirs'[d]
    BY <1>0, <2>1
  <2>4. \A d \in DOMAIN dirs' : dirSect'[d] = dirs'[d] \/ (updateDE /\ d = arg.d)
    <3>1. TAKE d \in DOMAIN dirs'
    <3>2. dirSect[d] = dirs[d] \/ (updateDE /\ d = arg.d)
      BY <2>1, <3>1, Zenon DEF IEntries
    <3>3. CASE dirSect[d] = dirs[d]
      BY <2>1, <2>3, <3>3
    <3> QED
      BY <3>2, <3>3, Zenon
  <2>5. ~Unwritten'
    BY <2>1 DEF Unwritten, NotWriting
  <2> QED
    BY <2>1, <2>2, <2>4, <2>5, Zenon DEF IEntries
<1>2. CASE DirSector
  <2>1. Unwritten
    BY <1>2 DEF DirSector, Unwritten
  <2> DEFINE n == Cardinality(DOMAIN dirs)
  <2>2. dirs' = Extend(dirs, n, DirsPerSector, EmptyEntry) /\ dirSect' = Extend(dirSect, n, DirsPerSector, EmptyEntry)
    BY <1>2, ErrorReturned DEF DirSector
  <2>3. updateDE' = updateDE
    BY <1>2, ErrorReturned, Zenon DEF DirSector, loopVars
  <2>4. n \in Nat /\ DOMAIN dirs = 0..(n - 1) /\ DirsPerSector \in Nat
    <3>1. n = DirsPerSector * Len(memDir) /\ DirsPerSector * Len(memDir) \in Nat
      BY Counts, LayoutFacts DEF TypeOK, TablesType
    <3> QED
      BY <3>1, LayoutFacts DEF TypeOK, DirType
  <2>5. \A d \in DOMAIN dirs : dirSect[d] = dirs[d]
    BY <2>1, EntriesAgree
  <2>6. \A d \in 0..(n + DirsPerSector - 1) : d < n => dirSect[d] = dirs[d]
    BY <2>4, <2>5
  <2> HIDE DEF n
  <2>7. \A d \in DOMAIN dirs' : dirSect'[d] = dirs'[d]
    BY <2>2, <2>6 DEF Extend
  <2>8. updateDE' = FALSE
    BY <2>1, <2>3, EntriesAgree, Zenon DEF TypeOK, CallType
  <2> QED
    BY <2>7, <2>8, EntriesReturned
<1>3. CASE NewEntry
  <2>1. Unwritten
    BY <1>3 DEF NewEntry, Unwritten
  <2>2. PICK d \in dirFree :
          /\ dirs' = [dirs EXCEPT ![d].kind = IF arg.op = "New" THEN "root" ELSE "stream"]
          /\ \E relinked \in SUBSET (DOMAIN dirs \ dirFree) :
               dirSect' = [e \in DOMAIN dirs |-> IF e \in relinked \cup {d} THEN dirs'[e] ELSE dirSect[e]]
    BY <1>3 DEF NewEntry
  <2>3. DOMAIN dirs' = DOMAIN dirs /\ \A e \in DOMAIN dirs : e # d => dirs'[e] = dirs[e]
    BY <2>2
  <2>4. \A e \in DOMAIN dirs' : dirSect'[e] = dirs'[e]
    BY <2>1, <2>2, <2>3, EntriesAgree
  <2>5. updateDE' = FALSE
    BY <1>3 DEF NewEntry, Return
  <2> QED
    BY <2>4, <2>5, EntriesReturned
<1> QED
  BY <1>1, <1>2, <1>3

(* updateDirectory at the end of Directory.Write. *)
LEMMA UpdateEntries ==
  ASSUME TypeOK, IEntries, Update
  PROVE IEntries'
<1>1. dirs' = dirs
  BY DEF Update
<1>2. updateDE' = FALSE
  BY Zenon DEF Update, Return
<1>3. updateDE \in BOOLEAN /\ dirSect \in [DOMAIN dirs -> Entry]
  BY DEF TypeOK, CallType, DirType
<1>4. CASE updateDE
  <2>1. dirSect' = [dirSect EXCEPT ![arg.d] = dirs[arg.d]]
    BY <1>4, Zenon DEF Update
  <2>2. \A d \in DOMAIN dirs : dirSect[d] = dirs[d] \/ d = arg.d
    BY Zenon DEF IEntries
  <2>3. \A d \in DOMAIN dirs : dirSect'[d] = dirs[d]
    BY <1>3, <2>1, <2>2
  <2> QED
    BY <1>1, <1>2, <2>3, EntriesReturned
<1>5. CASE ~updateDE
  <2>1. dirSect' = dirSect
    BY <1>5, Zenon DEF Update
  <2>2. \A d \in DOMAIN dirs : dirSect[d] = dirs[d]
    BY <1>5, Zenon DEF IEntries
  <2> QED
    BY <1>1, <1>2, <2>1, <2>2, EntriesReturned
<1> QED
  BY <1>4, <1>5

(* Every step that is no error keeps the entries. *)
LEMMA StepEntries ==
  ASSUME TypeOK, IControl, IEntries, [Next]_vars, errors' = 0
  PROVE IEntries'
<1>1. CASE FreeFAT \/ FreeMiniFAT
  <2>1. UNCHANGED <<dirs, dirSect, arg, pc, caller>>
    BY <1>1, ErrorReturned DEF FreeFAT, FreeMiniFAT, dirVars
  <2>2. updateDE' = updateDE
    BY <1>1, ErrorReturned, Zenon DEF FreeFAT, FreeMiniFAT
  <2> QED
    BY <2>1, <2>2, EntriesKept DEF Unwritten, NotWriting
<1>2. CASE Freed
  <2>1. UNCHANGED <<dirs, dirSect, arg>> /\ pc' = caller /\ pc \in {"FreeFAT", "FreeMiniFAT"}
    BY <1>2 DEF Freed, dirVars, Goto
  <2>2. updateDE' = updateDE
    BY <1>2, Zenon DEF Freed
  <2>3. Unwritten' => Unwritten
    <3>1. caller \in {"Resize", "Update"}
      BY <2>1 DEF IControl
    <3> QED
      BY <2>1, <3>1 DEF Unwritten, NotWriting
  <2> QED
    BY <2>1, <2>2, <2>3, EntriesKept
<1>3. CASE WriteBigExisting \/ WriteBigGrow \/ FinishBig \/ WriteMiniExisting \/ WriteMiniGrow \/ FinishMini
  <2>1. UNCHANGED <<dirs, dirSect, arg>>
    BY <1>3, ErrorReturned DEF WriteBigExisting, WriteBigGrow, FinishBig, WriteMiniExisting, WriteMiniAt,
       WriteMiniGrow, FinishMini, dirVars
  <2>2. updateDE' = updateDE
    <3>1. CASE WriteMiniExisting
      BY <3>1, ErrorReturned, Zenon DEF WriteMiniExisting, WriteMiniAt
    <3>2. CASE WriteBigExisting
      BY <3>2, ErrorReturned, Zenon DEF WriteBigExisting
    <3>3. CASE WriteBigGrow \/ FinishBig \/ WriteMiniGrow \/ FinishMini
      BY <3>3, Zenon DEF WriteBigGrow, FinishBig, WriteMiniGrow, FinishMini, loopVars
    <3> QED
      BY <1>3, <3>1, <3>2, <3>3
  <2>3. \/ pc' \in {"WriteBig", "WriteMini", "Update"}
        \/ pc' \in {"FreeFAT", "FreeMiniFAT"} /\ caller' = "Update"
        \/ pc' = "Alloc" /\ caller' \in {"BigSector", "MiniTable", "Container"}
    BY <1>3, ErrorReturned DEF WriteBigExisting, WriteBigGrow, FinishBig, WriteMiniExisting, WriteMiniAt,
       WriteMiniGrow, FinishMini, Goto
  <2>4. ~Unwritten'
    BY <2>3 DEF Unwritten, NotWriting
  <2> QED
    BY <2>1, <2>2, <2>4, EntriesKept
<1>4. CASE AllocFree \/ AllocTable \/ AllocNew
  <2>1. UNCHANGED <<dirs, dirSect, arg, caller>> /\ pc \in {"Alloc", "AllocNew"} /\ pc' \in {"AllocNew", caller}
    BY <1>4 DEF AllocFree, AllocTable, AllocNew, Allocated, Goto, dirVars
  <2>2. updateDE' = updateDE
    BY <1>4, Zenon DEF AllocFree, AllocTable, AllocNew, Allocated, loopVars
  <2>3. Unwritten' => Unwritten
    BY <2>1 DEF Unwritten, NotWriting, IControl
  <2> QED
    BY <2>1, <2>2, <2>3, EntriesKept
<1>5. CASE MiniTable
  <2>1. UNCHANGED <<dirs, dirSect, arg>> /\ pc' = "Alloc" /\ caller' = "Container"
    BY <1>5, ErrorReturned DEF MiniTable, dirVars, Goto
  <2>2. updateDE' = updateDE
    BY <1>5, ErrorReturned, Zenon DEF MiniTable, loopVars
  <2> QED
    BY <2>1, <2>2, EntriesKept DEF Unwritten, NotWriting
<1>6. CASE Continue
  BY <1>1, <1>2, <1>3, <1>4, <1>5, <1>6, ResizeEntries, StartEntries, HelperEntries, UpdateEntries DEF Continue
<1>7. CASE UNCHANGED vars
  <2>1. UNCHANGED <<dirs, dirSect, arg, pc, caller>>
    BY <1>7 DEF vars, dirVars
  <2>2. updateDE' = updateDE
    BY <1>7, Zenon DEF vars, loopVars
  <2> QED
    BY <2>1, <2>2, EntriesKept DEF Unwritten, NotWriting
<1>8. CASE AddStream \/ FileCall \/ (\E d \in Streams : GetData(d))
           \/ (\E d \in Streams, v \in Values, n \in Sizes : SetData(d, v, n))
           \/ (\E d \in Streams, v \in Values, n \in AppendSizes : AppendData(d, v, n))
  <2>1. Unwritten /\ UNCHANGED <<dirs, dirSect>>
    BY <1>8, FileCallKeeps DEF AddStream, GetData, Answer, SetData, AppendData, CanCall, Unwritten,
       NotWriting, dirVars
  <2>2. updateDE' = updateDE
    <3>1. CASE AddStream
      BY <3>1, Zenon DEF AddStream, loopVars
    <3>2. ASSUME NEW d \in Streams, GetData(d)
          PROVE updateDE' = updateDE
      BY <3>2, Zenon DEF GetData, Answer, loopVars
    <3>3. ASSUME NEW d \in Streams, NEW v \in Values, NEW n \in Sizes, SetData(d, v, n)
          PROVE updateDE' = updateDE
      BY <3>3, Zenon DEF SetData, Write, loopVars
    <3>4. ASSUME NEW d \in Streams, NEW v \in Values, NEW n \in AppendSizes, AppendData(d, v, n)
          PROVE updateDE' = updateDE
      BY <3>4, Zenon DEF AppendData, Write, loopVars
    <3>5. CASE FileCall
      BY <3>5, FileCallKeeps, Zenon
    <3> QED
      BY <1>8, <3>1, <3>2, <3>3, <3>4, <3>5
  <2>3. updateDE' = FALSE
    BY <2>1, <2>2, EntriesAgree, Zenon DEF TypeOK, CallType
  <2>4. \A d \in DOMAIN dirs' : dirSect'[d] = dirs'[d]
    BY <2>1, EntriesAgree
  <2> QED
    BY <2>3, <2>4, EntriesReturned
<1> QED
  BY <1>6, <1>7, <1>8 DEF Next, StreamCall

(***************************************************************************)
(* Between calls, while none has returned an error, the directory sectors  *)
(* hold every entry as memory does: what Directory.Write changes of an     *)
(* entry (directory.go:477-486, 513, 548) updateDirectory has written when *)
(* it returns (directory.go:582-586), and the root's start is written when *)
(* addSector gives it one.                                                 *)
(***************************************************************************)
THEOREM EntriesCorrect == Spec => []EntriesSaved
<1> DEFINE I == /\ TypeOK /\ IControl
                /\ errors = 0 => IEntries
<1>1. Init => I
  <2>1. SUFFICES ASSUME Init PROVE IEntries
    BY InitType
  <2>2. dirSect = dirs
    BY <2>1 DEF Init, InitNew, InitOpened
  <2>3. ~updateDE
    BY <2>1, Zenon DEF Init, InitCommon
  <2> QED
    BY <2>2, <2>3, Zenon DEF IEntries
<1>2. I /\ [Next]_vars => I'
  <2>1. SUFFICES ASSUME I, [Next]_vars PROVE I'
    OBVIOUS
  <2>2. TypeOK' /\ IControl'
    BY <2>1, StepType
  <2>3. ASSUME errors' = 0 PROVE IEntries'
    <3>1. errors = 0
      BY <2>1, <2>3, NoErrorBefore
    <3> QED
      BY <2>1, <2>3, <3>1, StepEntries
  <2> QED
    BY <2>2, <2>3
<1>3. I => EntriesSaved
  <2>1. SUFFICES ASSUME I, pc = "Idle", errors = 0 PROVE \A d \in Streams : dirSect[d] = dirs[d]
    BY DEF EntriesSaved
  <2>2. Unwritten /\ IEntries
    BY <2>1 DEF Unwritten, NotWriting
  <2> QED
    BY <2>2, EntriesAgree DEF Streams
<1> QED
  BY <1>1, <1>2, <1>3, PTL DEF Spec

-----------------------------------------------------------------------------
(***************************************************************************)
(* Proof that a reader of the header and of the DIFAT chain finds every    *)
(* FAT sector, in order, wherever the number of FAT sectors stands between *)
(* the boundaries of the header and of the DIFAT sectors                   *)
(* (mcdf.go:483-566 against mcdf.go:134-190).                              *)
(*                                                                         *)
(* The inductive invariant says where each FAT sector is named: the first  *)
(* HeaderSlots in the header, the others row by row in the DIFAT sectors.  *)
(* DIFATWalk and FlattenSeq are recursive functions; what they compute is  *)
(* proved from a closed form and the least index at which they could       *)
(* differ from it.                                                         *)
(***************************************************************************)

-----------------------------------------------------------------------------
(***************************************************************************)
(* The least member of a set of naturals: the form in which the recursive  *)
(* functions of the model are reasoned about.                              *)
(***************************************************************************)

(* The naturals are well-founded by <. *)
LEMMA NatLess == \E R : IsWellFoundedOn(R, Nat) /\ \A x, y \in Nat : x < y => <<x, y>> \in R
<1>1. IsWellFoundedOn(OpToRel(<, Nat), Nat)
  BY NatLessThanWellFounded
<1>2. \A x, y \in Nat : x < y => <<x, y>> \in OpToRel(<, Nat)
  BY DEF OpToRel
<1> QED
  BY <1>1, <1>2

(* A non-empty set of naturals has a least member. *)
LEMMA Least ==
  ASSUME NEW T, T \subseteq Nat, T # {}
  PROVE \E x \in T : \A y \in T : x <= y
<1>1. PICK R : IsWellFoundedOn(R, Nat) /\ \A x, y \in Nat : x < y => <<x, y>> \in R
  BY NatLess
<1>2. IsWellFoundedOn(R, Nat)
  BY <1>1
<1>3. \E x \in T : \A y \in T : ~(<<y, x>> \in R)
  BY <1>2, WFMin
<1>4. PICK x \in T : \A y \in T : ~(<<y, x>> \in R)
  BY <1>3
<1>5. \A y \in T : ~(y < x)
  BY <1>1, <1>4
<1>6. \A y \in T : x <= y
  BY <1>5
<1> QED
  BY <1>6

(* A set with 1, and with i whenever it has i - 1, has all of 1..n. *)
LEMMA Induct ==
  ASSUME NEW n \in Nat, NEW P, n >= 1 => 1 \in P, \A i \in 2..n : i - 1 \in P => i \in P
  PROVE \A i \in 1..n : i \in P
<1> DEFINE T == (1..n) \ P
<1>1. SUFFICES ASSUME T # {} PROVE FALSE
  OBVIOUS
<1>2. T \subseteq Nat
  OBVIOUS
<1> HIDE DEF T
<1>3. PICK i \in T : \A j \in T : i <= j
  BY <1>1, <1>2, Least
<1>4. i \in 1..n /\ i \notin P
  BY DEF T
<1>5. i - 1 \in 1..n => i - 1 \in P
  <2>1. i - 1 \notin T
    BY <1>2, <1>3
  <2> QED
    BY <2>1 DEF T
<1> QED
  BY <1>4, <1>5

-----------------------------------------------------------------------------
(***************************************************************************)
(* Where the FAT sectors are named.                                        *)
(***************************************************************************)

\* The FAT sectors a DIFAT sector names, and how many are named before the
\* j-th one's.
Row == EntriesPerSector - 1
Before(j) == HeaderSlots + Row * (j - 1)

\* The counts of the header, and the number of DIFAT sectors there are.
CountsMatch ==
  /\ header.numDIFATSector = Len(memDIFAT)
  /\ Len(memFat) <= Before(Len(memDIFAT) + 1)
  /\ IF Len(memDIFAT) = 0
     THEN header.numFATSector = Len(memFat)
     ELSE /\ header.numFATSector = HeaderSlots
          /\ Len(memFat) > Before(Len(memDIFAT))
          /\ header.firstDIFATSectorLocation = memDIFAT[1]

HeaderNames ==
  \A i \in 1..Len(memFat) : i <= HeaderSlots => header.headerDIFAT[i - 1] = memFat[i]

RowsName ==
  \A j \in 1..Len(memDIFAT), r \in 0..(Row - 1) :
    difat[j][r] = IF Before(j) + r + 1 <= Len(memFat) THEN memFat[Before(j) + r + 1] ELSE FREESECT

RowsLinked ==
  \A j \in 1..(Len(memDIFAT) - 1) : difat[j][Row] = memDIFAT[j + 1]

IDIFAT == CountsMatch /\ HeaderNames /\ RowsName /\ RowsLinked

(* The lengths of the header's slots and of a row. *)
LEMMA RowFacts ==
  /\ Row \in Nat /\ Row >= 2 /\ HeaderSlots \in Nat /\ HeaderSlots >= 1
  /\ EntriesPerSector - 1 = Row /\ EntriesPerSector - 2 = Row - 1 /\ EntriesPerSector = Row + 1
BY LayoutFacts DEF Row

(* The first row begins after the header's slots, and a row ends before any  *)
(* later one begins.                                                         *)
LEMMA Rows ==
  ASSUME NEW j \in Int
  PROVE /\ Before(j) \in Int /\ Before(j + 1) = Before(j) + Row
        /\ Before(1) = HeaderSlots
        /\ j >= 1 => HeaderSlots <= Before(j)
        /\ \A k \in Int : j < k => Before(j) + Row <= Before(k)
<1>1. Row \in Nat /\ HeaderSlots \in Nat
  BY RowFacts
<1>2. Before(1) = HeaderSlots
  BY <1>1 DEF Before
<1> HIDE DEF Row
<1>3. Before(j) \in Int /\ Before(j + 1) = Before(j) + Row
  <2>1. Row * (j - 1) \in Int /\ Row * (j + 1 - 1) = Row * (j - 1) + Row
    BY <1>1
  <2> QED
    BY <1>1, <2>1 DEF Before
<1>4. j >= 1 => HeaderSlots <= Before(j)
  <2>1. j >= 1 => Row * (j - 1) >= 0
    BY <1>1
  <2> QED
    BY <1>1, <2>1 DEF Before
<1>5. ASSUME NEW k \in Int, j < k PROVE Before(j) + Row <= Before(k)
  <2>1. Row * j <= Row * (k - 1)
    BY <1>1, <1>5
  <2>2. Row * j = Row * (j - 1) + Row
    BY <1>1
  <2> QED
    BY <1>1, <2>1, <2>2 DEF Before
<1> QED
  BY <1>2, <1>3, <1>4, <1>5

(* Steps that leave the FAT and DIFAT sectors and their place in the header  *)
(* alone.                                                                    *)
LEMMA DIFATKept ==
  ASSUME IDIFAT, UNCHANGED <<memFat, memDIFAT, difat>>,
         header'.numFATSector = header.numFATSector, header'.headerDIFAT = header.headerDIFAT,
         header'.numDIFATSector = header.numDIFATSector,
         header'.firstDIFATSectorLocation = header.firstDIFATSectorLocation
  PROVE IDIFAT'
BY DEF IDIFAT, CountsMatch, HeaderNames, RowsName, RowsLinked

(* The slot addSector computes for one more FAT sector (mcdf.go:505-520) is  *)
(* the next one of the last DIFAT sector, or the first one of a new one.     *)
LEMMA SlotOfNew ==
  ASSUME TypeOK, IDIFAT, ~InHeader
  PROVE /\ DIFATIndex \in Nat /\ DIFATOffset \in 0..(Row - 1)
        /\ Len(memFat) = Before(DIFATIndex + 1) + DIFATOffset
        /\ DIFATIndex < Len(memDIFAT) => DIFATIndex + 1 = Len(memDIFAT)
        /\ DIFATIndex >= Len(memDIFAT) => DIFATIndex = Len(memDIFAT) /\ DIFATOffset = 0
<1> DEFINE F == Len(memFat)
           D == Len(memDIFAT)
           a == F - HeaderSlots
           q == a \div Row
           r == a % Row
<1>1. F \in Nat /\ D \in Nat
  BY DEF TypeOK, TablesType
<1>2. F >= HeaderSlots
  <2>1. CASE D = 0
    <3>1. header.numDIFATSector = 0
      BY <2>1 DEF IDIFAT, CountsMatch
    <3> QED
      BY <1>1, <3>1, RowFacts DEF InHeader, FATSize
  <2>2. CASE D # 0
    <3>1. F > Before(D)
      BY <2>2 DEF IDIFAT, CountsMatch
    <3>2. HeaderSlots <= Before(D) /\ Before(D) \in Int
      BY <1>1, <2>2, Rows
    <3> QED
      BY <1>1, <3>1, <3>2, RowFacts
  <2> QED
    BY <2>1, <2>2
<1>3. DIFATIndex = q /\ DIFATOffset = r
  <2>1. FATSize - HeaderSlots - 1 = a
    BY <1>1, RowFacts DEF FATSize
  <2> QED
    BY <2>1, RowFacts DEF DIFATIndex, DIFATOffset
<1>4. a \in Nat /\ Row \in Nat /\ Row >= 2
  BY <1>1, <1>2, RowFacts
<1> HIDE DEF a
<1>5. q \in Nat /\ r \in 0..(Row - 1) /\ a = Row * q + r
  BY <1>4
<1> HIDE DEF q, r
<1>6. F = Before(q + 1) + r
  <2>1. q + 1 - 1 = q /\ Row * q \in Int
    BY <1>4, <1>5
  <2> QED
    BY <1>1, <1>5, <2>1, RowFacts DEF Before, a
<1>7. D > 0 => F > Before(D)
  BY <1>1 DEF IDIFAT, CountsMatch
<1>8. F <= Before(D + 1)
  BY DEF IDIFAT, CountsMatch
<1>9. Before(q + 1) \in Int /\ Before(D + 1) \in Int /\ Before(D) \in Int /\ D + 1 \in Int /\ q + 1 \in Int
  BY <1>1, <1>5, Rows
<1>10. q < D => q + 1 = D
  <2>1. SUFFICES ASSUME q + 1 < D PROVE FALSE
    BY <1>1, <1>5
  <2>2. Before(q + 1) + Row <= Before(D)
    BY <1>1, <1>5, <2>1, Rows
  <2> QED
    BY <1>1, <1>4, <1>5, <1>6, <1>7, <1>9, <2>1, <2>2
<1>11. q >= D => q = D /\ r = 0
  <2>1. SUFFICES ASSUME q >= D PROVE q = D /\ r = 0
    OBVIOUS
  <2>2. D + 1 < q + 1 => Before(D + 1) + Row <= Before(q + 1)
    BY <1>9, Rows
  <2> QED
    BY <1>1, <1>4, <1>5, <1>6, <1>8, <1>9, <2>1, <2>2
<1> QED
  BY <1>3, <1>5, <1>6, <1>10, <1>11

-----------------------------------------------------------------------------
(***************************************************************************)
(* A FAT sector is added.                                                  *)
(***************************************************************************)

(* While the header has room. *)
LEMMA InHeaderNamed ==
  ASSUME TypeOK, IDIFAT, AddTableInHeader
  PROVE IDIFAT'
<1> DEFINE F == Len(memFat)
<1>1. /\ F \in Nat /\ nsec \in Nat /\ header \in HeaderType /\ memFat \in Seq(Nat) /\ Len(memDIFAT) \in Nat
      /\ F + 1 <= HeaderSlots /\ header.numDIFATSector = 0
      /\ UNCHANGED <<memDIFAT, difat>> /\ memFat' = Append(memFat, nsec)
  BY DEF TypeOK, TablesType, SectorsType, AddTableInHeader, InHeader, FATSize
<1>2. /\ Len(memFat') = F + 1 /\ memFat'[F + 1] = nsec /\ \A i \in 1..F : memFat'[i] = memFat[i]
  BY <1>1
<1>3. /\ header'.numFATSector = F + 1 /\ header'.numDIFATSector = 0
      /\ header'.headerDIFAT = [header.headerDIFAT EXCEPT ![F] = nsec]
  BY <1>1 DEF AddTableInHeader, FATSize, HeaderType
<1>4. Len(memDIFAT) = 0
  BY <1>1 DEF IDIFAT, CountsMatch
<1>5. CountsMatch'
  <2>1. Before(Len(memDIFAT') + 1) = HeaderSlots
    BY <1>1, <1>4, Rows
  <2> QED
    BY <1>1, <1>2, <1>3, <1>4, <2>1 DEF CountsMatch, Before, Row
<1>6. HeaderNames'
  <2>1. SUFFICES ASSUME NEW i \in 1..(F + 1), i <= HeaderSlots
                 PROVE header'.headerDIFAT[i - 1] = memFat'[i]
    BY <1>2 DEF HeaderNames
  <2>3. header.headerDIFAT \in [0..(HeaderSlots - 1) -> Int]
    BY <1>1 DEF HeaderType
  <2>4. CASE i = F + 1
    BY <1>1, <1>2, <1>3, <2>3, <2>4, RowFacts
  <2>5. CASE i # F + 1
    <3>1. i \in 1..F /\ i - 1 # F
      BY <1>1, <1>2, <2>5
    <3> QED
      BY <1>2, <1>3, <2>1, <2>3, <3>1 DEF IDIFAT, HeaderNames
  <2> QED
    BY <2>4, <2>5
<1>7. RowsName' /\ RowsLinked'
  BY <1>1, <1>4 DEF RowsName, RowsLinked
<1> QED
  BY <1>5, <1>6, <1>7 DEF IDIFAT

(* In the last DIFAT sector, in its next slot. *)
LEMMA InDIFATNamed ==
  ASSUME TypeOK, IDIFAT, AddTableInDIFAT
  PROVE IDIFAT'
<1> DEFINE F == Len(memFat)
           D == Len(memDIFAT)
           r == DIFATOffset
<1>1. /\ F \in Nat /\ D \in Nat /\ nsec \in Nat /\ memFat \in Seq(Nat)
      /\ difat \in Seq([0..Row -> Int]) /\ Len(difat) = D
  BY RowFacts DEF TypeOK, TablesType, SectorsType
<1>2. /\ D >= 1 /\ r \in 0..(Row - 1) /\ F = Before(D) + r
      /\ DIFATIndex + 1 = D
  <2>1. ~InHeader /\ DIFATIndex < D
    BY DEF AddTableInDIFAT
  <2> QED
    BY <1>1, <2>1, SlotOfNew
<1>3. /\ UNCHANGED <<memDIFAT, header>> /\ memFat' = Append(memFat, nsec)
      /\ difat' = [difat EXCEPT ![D] = [difat[D] EXCEPT ![r] = nsec]]
  BY <1>2 DEF AddTableInDIFAT
<1> HIDE DEF r
<1>4. /\ Len(memFat') = F + 1 /\ memFat'[F + 1] = nsec /\ \A i \in 1..F : memFat'[i] = memFat[i]
  BY <1>1, <1>3
<1>5. difat[D] \in [0..Row -> Int] /\ D \in 1..D /\ D \in DOMAIN difat
  BY <1>1, <1>2
<1>6. /\ \A j \in 1..D : j # D => difat'[j] = difat[j]
      /\ difat'[D] = [difat[D] EXCEPT ![r] = nsec]
  BY <1>1, <1>3, <1>5
<1>7. /\ \A c \in 0..Row : c # r => difat'[D][c] = difat[D][c]
      /\ difat'[D][r] = nsec
  BY <1>2, <1>5, <1>6, RowFacts
<1>8. /\ Before(D) \in Int /\ HeaderSlots <= Before(D)
      /\ \A j \in 1..D : Before(j) \in Int /\ HeaderSlots <= Before(j)
  BY <1>1, <1>2, Rows
<1>9. CountsMatch'
  <2>1. F + 1 <= Before(D + 1)
    <3>1. Before(D + 1) = Before(D) + Row /\ Before(D) \in Int
      BY <1>1, Rows
    <3> QED
      BY <1>1, <1>2, <3>1, RowFacts
  <2>2. F > Before(D) /\ header.numDIFATSector = D /\ header.numFATSector = HeaderSlots
        /\ header.firstDIFATSectorLocation = memDIFAT[1]
    BY <1>1, <1>2 DEF IDIFAT, CountsMatch
  <2>3. F + 1 > Before(D)
    BY <1>1, <1>8, <2>2
  <2> QED
    BY <1>2, <1>3, <1>4, <2>1, <2>2, <2>3 DEF CountsMatch, Before, Row
<1>10. HeaderNames'
  <2>1. \A i \in 1..Len(memFat') : i <= HeaderSlots => i \in 1..F
    <3>1. F >= HeaderSlots
      BY <1>1, <1>2, <1>5, <1>8, RowFacts
    <3> QED
      BY <1>1, <1>4, <3>1, RowFacts
  <2> QED
    BY <1>3, <1>4, <2>1 DEF IDIFAT, HeaderNames
<1>11. RowsName'
  <2>1. SUFFICES ASSUME NEW j \in 1..D, NEW c \in 0..(Row - 1)
                 PROVE difat'[j][c] = IF Before(j) + c + 1 <= F + 1 THEN memFat'[Before(j) + c + 1]
                                      ELSE FREESECT
    <3>1. Len(memDIFAT') = D /\ Len(memFat') = F + 1
      BY <1>3, <1>4
    <3> QED
      BY <3>1 DEF RowsName
  <2> DEFINE i == Before(j) + c + 1
  <2>2. i \in Int /\ i >= 1
    BY <1>8, RowFacts
  <2>3. difat[j][c] = IF i <= F THEN memFat[i] ELSE FREESECT
    BY DEF IDIFAT, RowsName
  <2>4. CASE j = D /\ c = r
    <3>1. i = F + 1
      BY <1>2, <2>4
    <3> QED
      BY <1>1, <1>4, <1>7, <2>4, <3>1
  <2>5. CASE ~(j = D /\ c = r)
    <3>1. difat'[j][c] = difat[j][c]
      <4>1. c \in 0..Row
        BY RowFacts
      <4> QED
        BY <1>6, <1>7, <2>5, <4>1
    <3>2. i # F + 1
      <4>1. CASE j = D
        BY <1>2, <1>5, <1>8, <2>5, <4>1, RowFacts
      <4>2. CASE j # D
        <5>1. j < D /\ j \in Int /\ D \in Int
          BY <1>1, <4>2
        <5>2. Before(j) + Row <= Before(D) /\ Before(j) \in Int /\ Before(D) \in Int
          BY <5>1, Rows
        <5>3. F \in Nat /\ F >= Before(D) /\ Row \in Nat
          BY <1>1, <1>2, <5>2, RowFacts
        <5> QED
          BY <5>2, <5>3
      <4> QED
        BY <4>1, <4>2
    <3>3. i <= F + 1 <=> i <= F
      BY <1>1, <2>2, <3>2
    <3>4. i <= F => memFat'[i] = memFat[i]
      BY <1>1, <1>4, <2>2
    <3> HIDE DEF i
    <3> QED
      BY <2>3, <3>1, <3>3, <3>4 DEF i
  <2> QED
    BY <2>4, <2>5
<1>12. RowsLinked'
  <2>1. SUFFICES ASSUME NEW j \in 1..(D - 1) PROVE difat'[j][Row] = memDIFAT[j + 1]
    BY <1>3 DEF RowsLinked, Row
  <2>2. difat'[j] = difat[j]
    BY <1>1, <1>6
  <2> QED
    BY <2>2 DEF IDIFAT, RowsLinked
<1> QED
  BY <1>9, <1>10, <1>11, <1>12 DEF IDIFAT

(* In the first slot of a new DIFAT sector. *)
LEMMA AndDIFATNamed ==
  ASSUME TypeOK, IDIFAT, AddTableAndDIFAT
  PROVE IDIFAT'
<1> DEFINE F == Len(memFat)
           D == Len(memDIFAT)
           R == [0..Row -> Int]
           linked == IF difat = <<>> THEN difat
                     ELSE [difat EXCEPT ![D] = [difat[D] EXCEPT ![Row] = nsec + 1]]
           fresh == NewDIFATSlots(nsec)
<1>1. /\ F \in Nat /\ D \in Nat /\ nsec \in Nat /\ memFat \in Seq(Nat) /\ memDIFAT \in Seq(Nat)
      /\ difat \in Seq(R) /\ Len(difat) = D /\ header \in HeaderType
  BY RowFacts DEF TypeOK, TablesType, SectorsType
<1>2. F = Before(D + 1) /\ DIFATIndex = D
  <2>1. ~InHeader /\ DIFATIndex >= D
    BY DEF AddTableAndDIFAT
  <2>2. F = Before(D + 1) + 0
    BY <2>1, SlotOfNew
  <2>3. Before(D + 1) \in Int
    BY <1>1, Rows
  <2> QED
    BY <2>1, <2>2, <2>3, SlotOfNew
<1>3. /\ memFat' = Append(memFat, nsec) /\ memDIFAT' = Append(memDIFAT, nsec + 1)
      /\ difat' = Append(linked, fresh)
  BY <1>1, RowFacts DEF AddTableAndDIFAT
<1>4. /\ header'.numDIFATSector = D + 1
      /\ header'.firstDIFATSectorLocation = IF difat = <<>> THEN nsec + 1 ELSE header.firstDIFATSectorLocation
      /\ header'.headerDIFAT = header.headerDIFAT /\ header'.numFATSector = header.numFATSector
  BY <1>1 DEF AddTableAndDIFAT, HeaderType
<1>5. /\ Len(memFat') = F + 1 /\ memFat'[F + 1] = nsec /\ \A i \in 1..F : memFat'[i] = memFat[i]
      /\ Len(memDIFAT') = D + 1 /\ memDIFAT'[D + 1] = nsec + 1 /\ \A i \in 1..D : memDIFAT'[i] = memDIFAT[i]
  BY <1>1, <1>3
<1>6. /\ linked \in Seq(R) /\ Len(linked) = D
      /\ \A j \in 1..D : /\ \A c \in 0..(Row - 1) : linked[j][c] = difat[j][c]
                         /\ linked[j][Row] = IF j = D THEN nsec + 1 ELSE difat[j][Row]
  <2>1. CASE difat = <<>>
    BY <1>1, <2>1
  <2>2. CASE difat # <<>>
    <3> DEFINE last == [difat[D] EXCEPT ![Row] = nsec + 1]
    <3>1. D \in 1..D /\ difat[D] \in R
      <4> HIDE DEF R
      <4> QED
        BY <1>1, <2>2
    <3>2. /\ last \in R /\ last[Row] = nsec + 1
          /\ \A c \in 0..(Row - 1) : last[c] = difat[D][c]
      BY <1>1, <3>1, RowFacts
    <3> HIDE DEF R, last
    <3>3. linked = [difat EXCEPT ![D] = last]
      BY <2>2 DEF last
    <3> HIDE DEF linked
    <3> QED
      BY <1>1, <3>1, <3>2, <3>3
  <2> QED
    BY <2>1, <2>2
<1>7. /\ fresh \in R /\ fresh[0] = nsec
      /\ \A c \in 1..(Row - 1) : fresh[c] = FREESECT
  BY <1>1, RowFacts DEF NewDIFATSlots, FREESECT, ENDOFCHAIN
<1> HIDE DEF linked, fresh, R
<1>8. /\ \A j \in 1..D : difat'[j] = linked[j]
      /\ difat'[D + 1] = fresh
  BY <1>1, <1>3, <1>6, <1>7
<1>9. /\ Before(D + 1) \in Int /\ Before(D + 1) + Row = Before(D + 2) /\ HeaderSlots <= Before(D + 1)
  <2>1. D + 1 \in Int /\ D + 1 + 1 = D + 2 /\ D + 1 >= 1
    BY <1>1
  <2> QED
    BY <2>1, Rows
<1>10. \A j \in 1..D : Before(j) \in Int /\ HeaderSlots <= Before(j) /\ Before(j) + Row <= Before(D + 1)
  <2>1. TAKE j \in 1..D
  <2>2. j \in Int /\ j >= 1 /\ D + 1 \in Int /\ j < D + 1
    BY <1>1
  <2> QED
    BY <2>2, Rows
<1>11. CountsMatch'
  <2>1. header'.numFATSector = HeaderSlots
    <3>1. CASE D = 0
      <4>1. D + 1 = 1 /\ D \in Int
        BY <3>1
      <4>2. F = HeaderSlots
        BY <1>2, <4>1, Rows
      <4> QED
        BY <1>4, <3>1, <4>2 DEF IDIFAT, CountsMatch
    <3>2. CASE D # 0
      BY <1>4, <3>2 DEF IDIFAT, CountsMatch
    <3> QED
      BY <3>1, <3>2
  <2>2. header'.firstDIFATSectorLocation = memDIFAT'[1]
    <3>1. CASE difat = <<>>
      BY <1>1, <1>4, <1>5, <3>1
    <3>2. CASE difat # <<>>
      <4>1. D # 0 /\ 1 \in 1..D
        BY <1>1, <3>2
      <4> QED
        BY <1>4, <1>5, <3>2, <4>1 DEF IDIFAT, CountsMatch
    <3> QED
      BY <3>1, <3>2
  <2>3. F + 1 <= Before(D + 2) /\ F + 1 > Before(D + 1)
    BY <1>1, <1>2, <1>9, RowFacts
  <2>4. Len(memDIFAT') = D + 1 /\ D + 1 # 0 /\ D + 1 + 1 = D + 2
    BY <1>1, <1>5
  <2>5. Before(Len(memDIFAT') + 1) = Before(D + 2) /\ Before(Len(memDIFAT')) = Before(D + 1)
    BY <2>4
  <2> QED
    BY <1>4, <1>5, <2>1, <2>2, <2>3, <2>4, <2>5 DEF CountsMatch, Before, Row
<1>12. HeaderNames'
  <2>1. \A i \in 1..Len(memFat') : i <= HeaderSlots => i \in 1..F
    BY <1>1, <1>2, <1>5, <1>9, RowFacts
  <2> QED
    BY <1>4, <1>5, <2>1 DEF IDIFAT, HeaderNames
<1>13. RowsName'
  <2>1. SUFFICES ASSUME NEW j \in 1..(D + 1), NEW c \in 0..(Row - 1)
                 PROVE difat'[j][c] = IF Before(j) + c + 1 <= F + 1 THEN memFat'[Before(j) + c + 1]
                                      ELSE FREESECT
    BY <1>5 DEF RowsName, Before, Row
  <2> DEFINE i == Before(j) + c + 1
  <2>2. CASE j = D + 1
    <3>1. CASE c = 0
      <4>1. i = F + 1
        BY <1>2, <1>9, <2>2, <3>1
      <4>2. difat'[j][c] = nsec
        BY <1>7, <1>8, <2>2, <3>1
      <4> QED
        BY <1>1, <1>5, <4>1, <4>2
    <3>2. CASE c # 0
      <4>1. ~(i <= F + 1)
        BY <1>2, <1>9, <2>2, <3>2, RowFacts
      <4>2. difat'[j][c] = FREESECT
        BY <1>7, <1>8, <2>2, <3>2, RowFacts
      <4> QED
        BY <4>1, <4>2
    <3> QED
      BY <3>1, <3>2
  <2>3. CASE j # D + 1
    <3>1. j \in 1..D
      BY <1>1, <2>3
    <3>2. i \in 1..F
      <4>1. Before(j) \in Int /\ HeaderSlots <= Before(j) /\ Before(j) + Row <= Before(D + 1)
        BY <1>10, <3>1
      <4>2. Before(j) + Row <= F /\ F \in Nat /\ Row \in Nat /\ HeaderSlots >= 1 /\ HeaderSlots \in Nat
        BY <1>1, <1>2, <4>1, RowFacts
      <4> QED
        BY <4>1, <4>2
    <3>3. difat'[j][c] = difat[j][c]
      BY <1>6, <1>8, <3>1
    <3>4. difat[j][c] = IF i <= F THEN memFat[i] ELSE FREESECT
      BY <3>1 DEF IDIFAT, RowsName
    <3> HIDE DEF i
    <3>5. i <= F /\ i <= F + 1 /\ memFat'[i] = memFat[i]
      BY <1>1, <1>5, <3>2
    <3> QED
      BY <3>3, <3>4, <3>5 DEF i
  <2> QED
    BY <2>2, <2>3
<1>14. RowsLinked'
  <2>1. SUFFICES ASSUME NEW j \in 1..D PROVE difat'[j][Row] = memDIFAT'[j + 1]
    <3>1. Len(memDIFAT') - 1 = D
      BY <1>1, <1>5
    <3> QED
      BY <3>1 DEF RowsLinked, Row
  <2>2. difat'[j][Row] = IF j = D THEN nsec + 1 ELSE difat[j][Row]
    BY <1>6, <1>8
  <2>3. CASE j = D
    BY <1>5, <2>2, <2>3
  <2>4. CASE j # D
    <3>1. j \in 1..(D - 1) /\ j + 1 \in 1..D
      BY <1>1, <2>4
    <3> QED
      BY <1>5, <2>2, <2>4, <3>1 DEF IDIFAT, RowsLinked
  <2> QED
    BY <2>3, <2>4
<1> QED
  BY <1>11, <1>12, <1>13, <1>14 DEF IDIFAT

(* Every step keeps the FAT sectors named. *)
LEMMA StepDIFAT ==
  ASSUME TypeOK, IDIFAT, [Next]_vars
  PROVE IDIFAT'
<1> USE DEF memVars, fatVars
<1>1. CASE AllocTable
  BY <1>1, InHeaderNamed, InDIFATNamed, AndDIFATNamed DEF AllocTable
<1>2. CASE MiniTable \/ DirSector
  <2>1. /\ UNCHANGED <<memFat, memDIFAT, difat>>
        /\ \/ header' = header
           \/ \E x, y : header' = [header EXCEPT !.firstMiniFATSectorLocation = x, !.numMiniFATSector = y]
           \/ \E x : header' = [header EXCEPT !.firstMiniFATSectorLocation = x]
           \/ \E x : header' = [header EXCEPT !.firstDirectorySectorLocation = x]
    <3>1. CASE MiniTable
      BY <3>1 DEF MiniTable
    <3>2. CASE DirSector
      BY <3>2 DEF DirSector
    <3> QED
      BY <1>2, <3>1, <3>2
  <2>2. header \in HeaderType
    BY DEF TypeOK, TablesType
  <2>3. /\ header'.numFATSector = header.numFATSector /\ header'.headerDIFAT = header.headerDIFAT
        /\ header'.numDIFATSector = header.numDIFATSector
        /\ header'.firstDIFATSectorLocation = header.firstDIFATSectorLocation
    BY <2>1, <2>2 DEF HeaderType
  <2> QED
    BY <2>1, <2>3, DIFATKept
<1>3. CASE UNCHANGED <<memFat, memDIFAT, difat, header>>
  BY <1>3, DIFATKept
<1>4. CASE \/ Freed \/ FreeMiniFAT \/ Resize \/ WriteBigGrow \/ WriteMiniGrow \/ FinishMini \/ Update
           \/ NewEntry \/ FreeFAT \/ AllocFree \/ AllocNew
  BY <1>3, <1>4 DEF Freed, FreeMiniFAT, Resize, WriteBigGrow, WriteMiniGrow, FinishMini, Update,
     NewEntry, FreeFAT, Push, AllocFree, PopFree, AllocNew, NewSector
<1>5. CASE WriteBigExisting \/ BigSector \/ FinishBig \/ WriteMiniExisting \/ WriteMiniNew
           \/ Container
  BY <1>3, <1>5 DEF WriteBigExisting, BigSector, FinishBig, WriteMiniExisting, WriteMiniNew, Container
<1>6. CASE AddStream \/ UNCHANGED vars
  BY <1>3, <1>6 DEF AddStream, vars
<1>7. ASSUME NEW d \in Streams, GetData(d)
      PROVE IDIFAT'
  BY <1>3, <1>7 DEF GetData, Answer
<1>8. ASSUME NEW d \in Streams, NEW v \in Values, NEW n \in Sizes, SetData(d, v, n)
      PROVE IDIFAT'
  BY <1>3, <1>8 DEF SetData
<1>9. ASSUME NEW d \in Streams, NEW v \in Values, NEW n \in AppendSizes, AppendData(d, v, n)
      PROVE IDIFAT'
  BY <1>3, <1>9 DEF AppendData
<1>10. CASE FileCall
  BY <1>3, <1>10, FileCallKeeps
<1> QED
  BY <1>1, <1>2, <1>4, <1>5, <1>6, <1>7, <1>8, <1>9, <1>10 DEF Next, StreamCall, Continue

(* After New and Open the header names the FAT sectors there are. *)
LEMMA InitDIFAT ==
  ASSUME Init
  PROVE IDIFAT
<1>1. memDIFAT = <<>> /\ difat = <<>>
  BY DEF Init, InitCommon
<1>2. Before(1) = HeaderSlots /\ HeaderSlots \in Nat /\ HeaderSlots >= 1
  BY RowFacts, Rows
<1>3. CASE InitNew
  BY <1>1, <1>2, <1>3 DEF InitNew, IDIFAT, CountsMatch, HeaderNames, RowsName, RowsLinked
<1>4. ASSUME NEW n \in Nat, InitOpened(n)
      PROVE IDIFAT
  BY <1>1, <1>2, <1>4 DEF InitOpened, IDIFAT, CountsMatch, HeaderNames, RowsName, RowsLinked
<1> QED
  <2>1. OpenedFiles \subseteq Nat
    BY InstanceAssumption, LayoutFacts
  <2> QED
    BY <1>3, <1>4, <2>1 DEF Init

-----------------------------------------------------------------------------
(***************************************************************************)
(* What readFAT collects.                                                  *)
(***************************************************************************)

(* A DIFAT sector is found by its number: memDIFAT has it once. *)
LEMMA SlotsFound ==
  ASSUME TypeOK, ListsMatchSet, NEW j \in 1..Len(memDIFAT)
  PROVE (CHOOSE i \in 1..Len(memDIFAT) : memDIFAT[i] = memDIFAT[j]) = j
<1>1. \A i, k \in 1..Len(memDIFAT) : memDIFAT[i] = memDIFAT[k] => i = k
  BY DEF ListsMatchSet, IsList
<1> QED
  BY <1>1

(* The numbers a row holds are those of its FAT sectors. *)
LEMMA RowNames ==
  ASSUME TypeOK, ListsMatchSet, IDIFAT, NEW j \in 1..Len(memDIFAT)
  PROVE LET n == IF Before(j) + Row <= Len(memFat) THEN Row ELSE Len(memFat) - Before(j)
        IN n \in Nat /\ NamedBy(difat[j]) = [r \in 1..n |-> memFat[Before(j) + r]]
<1> DEFINE F == Len(memFat)
           n == IF Before(j) + Row <= F THEN Row ELSE F - Before(j)
           slots == difat[j]
           stops == {r \in 0..(Row - 1) : slots[r] \notin Sectors}
<1>1. F \in Nat /\ Before(j) \in Int /\ HeaderSlots <= Before(j) /\ Row \in Nat /\ HeaderSlots \in Nat
  BY Rows, RowFacts DEF TypeOK, TablesType
<1>2. Before(j) < F
  <2>1. Len(memDIFAT) \in Nat /\ Len(memDIFAT) # 0
    BY DEF TypeOK, TablesType
  <2>2. Before(Len(memDIFAT)) < F /\ Before(Len(memDIFAT)) \in Int
    BY <2>1, <1>1, Rows DEF IDIFAT, CountsMatch
  <2>3. j = Len(memDIFAT) \/ j < Len(memDIFAT)
    BY <2>1
  <2>4. CASE j < Len(memDIFAT)
    <3>1. Before(j) + Row <= Before(Len(memDIFAT))
      BY <2>1, <2>4, Rows
    <3> QED
      BY <1>1, <2>2, <3>1
  <2> QED
    BY <2>2, <2>3, <2>4
<1>3. n \in Nat /\ n <= Row
  BY <1>1, <1>2
<1>4. ASSUME NEW r \in 0..(Row - 1)
      PROVE IF r < n THEN slots[r] = memFat[Before(j) + r + 1] /\ slots[r] \in Sectors
            ELSE slots[r] \notin Sectors
  <2>1. slots[r] = IF Before(j) + r + 1 <= F THEN memFat[Before(j) + r + 1] ELSE FREESECT
    BY DEF IDIFAT, RowsName
  <2>2. Before(j) + r + 1 <= F <=> r < n
    BY <1>1
  <2>3. \A i \in 1..F : memFat[i] \in Sectors
    BY DEF ListsMatchSet, IsList
  <2>4. r < n => Before(j) + r + 1 \in 1..F
    BY <1>1, <2>2
  <2>5. FREESECT \notin Sectors
    BY DEF FREESECT, Sectors
  <2> HIDE DEF n
  <2> QED
    BY <2>1, <2>2, <2>3, <2>4, <2>5
<1>5. (IF stops = {} THEN Row ELSE Min(stops)) = n
  <2> HIDE DEF slots
  <2>1. CASE n = Row
    <3>1. stops = {}
      <4> HIDE DEF n
      <4> QED
        BY <1>1, <1>4, <2>1
    <3> QED
      BY <2>1, <3>1
  <2>2. CASE n # Row
    <3> HIDE DEF n
    <3>1. n \in stops /\ \A r \in stops : n <= r
      BY <1>1, <1>3, <1>4, <2>2
    <3>2. \A r \in stops : r \in Nat
      OBVIOUS
    <3>3. Min(stops) = n
      <4>1. \A x \in stops : (\A y \in stops : x <= y) => x = n
        BY <1>3, <3>1, <3>2
      <4> HIDE DEF stops
      <4> QED
        BY <3>1, <4>1 DEF Min
    <3> QED
      BY <3>1, <3>3
  <2> QED
    BY <2>1, <2>2
<1>6. NamedBy(slots) = [r \in 1..n |-> slots[r - 1]]
  <2>1. EntriesPerSector - 2 = Row - 1 /\ EntriesPerSector - 1 = Row
    BY RowFacts
  <2> HIDE DEF n, slots
  <2> QED
    BY <1>5, <2>1 DEF NamedBy
<1>7. \A r \in 1..n : slots[r - 1] = memFat[Before(j) + r]
  <2>1. TAKE r \in 1..n
  <2>2. r - 1 \in 0..(Row - 1) /\ r - 1 < n /\ Before(j) + (r - 1) + 1 = Before(j) + r
    BY <1>1, <1>3
  <2> HIDE DEF n, slots
  <2> QED
    BY <1>4, <2>2
<1> HIDE DEF slots
<1>8. NamedBy(slots) = [r \in 1..n |-> memFat[Before(j) + r]]
  BY <1>6, <1>7
<1> QED
  BY <1>3, <1>8 DEF slots

(* The walk of the DIFAT chain gives the FAT sectors of row after row. *)
LEMMA WalkRows ==
  ASSUME TypeOK, ListsMatchSet, IDIFAT
  PROVE DIFATWalk = [j \in 1..Len(memDIFAT) |-> NamedBy(difat[j])]
<1> DEFINE D == Len(memDIFAT)
           slotsOf(x) == difat[CHOOSE i \in 1..D : memDIFAT[i] = x]
           first == header.firstDIFATSectorLocation
           C(f) == [i \in 1..D |->
                      IF i = 1 THEN first
                      ELSE IF f[i - 1] \in Range(memDIFAT) THEN slotsOf(f[i - 1])[EntriesPerSector - 1]
                      ELSE ENDOFCHAIN]
           c == CHOOSE f : f = C(f)
           m == [i \in 1..D |-> memDIFAT[i]]
<1>1. D \in Nat /\ header.numDIFATSector = D /\ EntriesPerSector - 1 = Row
      /\ (D # 0 => first = memDIFAT[1])
  BY RowFacts DEF TypeOK, TablesType, IDIFAT, CountsMatch
<1>2. \A i \in 1..D : memDIFAT[i] \in Range(memDIFAT) /\ slotsOf(memDIFAT[i]) = difat[i]
  <2>1. TAKE i \in 1..D
  <2>2. memDIFAT[i] \in Range(memDIFAT)
    <3>1. i \in DOMAIN memDIFAT
      BY DEF TypeOK, TablesType
    <3> QED
      BY <3>1 DEF Range
  <2> QED
    BY <2>2, SlotsFound
<1>3. DIFATWalk = [i \in 1..D |->
                     IF c[i] \in Range(memDIFAT) THEN NamedBy(slotsOf(c[i])) ELSE <<>>]
  BY <1>1 DEF DIFATWalk
<1>4. C(m) = m
  <2>1. \A i \in 1..D : i # 1 => /\ i - 1 \in 1..D /\ m[i - 1] = memDIFAT[i - 1] /\ i - 1 \in 1..(D - 1)
                               /\ i - 1 + 1 = i
    BY <1>1
  <2>2. ASSUME NEW i \in 1..D, i # 1 PROVE slotsOf(m[i - 1])[EntriesPerSector - 1] = memDIFAT[i]
    <3>1. i - 1 \in 1..D /\ m[i - 1] = memDIFAT[i - 1] /\ i - 1 \in 1..(D - 1) /\ i - 1 + 1 = i
      BY <2>1, <2>2
    <3>2. slotsOf(m[i - 1]) = difat[i - 1]
      <4> HIDE DEF m, slotsOf
      <4> QED
        BY <1>2, <3>1
    <3>3. difat[i - 1][Row] = memDIFAT[i]
      BY <3>1 DEF IDIFAT, RowsLinked
    <3> HIDE DEF m, slotsOf
    <3> QED
      BY <1>1, <3>2, <3>3
  <2> HIDE DEF slotsOf
  <2>3. \A i \in 1..D : i # 1 => m[i - 1] \in Range(memDIFAT)
    BY <1>2, <2>1
  <2>4. \A i \in 1..D : C(m)[i] = memDIFAT[i]
    BY <1>1, <2>2, <2>3
  <2> QED
    BY <2>4
<1>5. c = C(c)
  <2> HIDE DEF m, C
  <2> QED
    BY <1>4
<1>6. \A i \in 1..D : c[i] = memDIFAT[i]
  <2> HIDE DEF c, slotsOf
  <2>1. D >= 1 => c[1] = memDIFAT[1]
    BY <1>1, <1>5
  <2>2. ASSUME NEW i \in 2..D, c[i - 1] = memDIFAT[i - 1]
        PROVE c[i] = memDIFAT[i]
    <3>1. i \in 1..D /\ i # 1 /\ i - 1 \in 1..(D - 1) /\ i - 1 \in 1..D /\ i - 1 + 1 = i
      BY <1>1
    <3>2. c[i] = IF c[i - 1] \in Range(memDIFAT) THEN slotsOf(c[i - 1])[EntriesPerSector - 1] ELSE ENDOFCHAIN
      BY <1>5, <3>1
    <3>3. c[i - 1] \in Range(memDIFAT) /\ slotsOf(c[i - 1]) = difat[i - 1]
      BY <1>2, <2>2, <3>1
    <3>4. difat[i - 1][Row] = memDIFAT[i]
      BY <3>1 DEF IDIFAT, RowsLinked
    <3> QED
      BY <1>1, <3>2, <3>3, <3>4
  <2> DEFINE P == {i \in 1..D : c[i] = memDIFAT[i]}
  <2>3. (D >= 1 => 1 \in P) /\ \A i \in 2..D : i - 1 \in P => i \in P
    BY <1>1, <2>1, <2>2
  <2> HIDE DEF D, P
  <2>4. \A i \in 1..D : i \in P
    BY <1>1, <2>3, Induct
  <2> QED
    BY <2>4 DEF P
<1>7. \A i \in 1..D : (IF c[i] \in Range(memDIFAT) THEN NamedBy(slotsOf(c[i])) ELSE <<>>) = NamedBy(difat[i])
  <2> HIDE DEF c, slotsOf
  <2> QED
    BY <1>2, <1>6
<1> HIDE DEF c, slotsOf
<1> QED
  BY <1>3, <1>7

(* The first a elements of a list and the next ones up to b are the first b. *)
LEMMA JoinPrefix ==
  ASSUME NEW l \in Seq(Nat), NEW a \in 0..Len(l), NEW b \in 0..Len(l), a <= b
  PROVE /\ [r \in 1..a |-> l[r]] \in Seq(Nat)
        /\ [r \in 1..a |-> l[r]] \o [r \in 1..(b - a) |-> l[a + r]] = [r \in 1..b |-> l[r]]
<1> DEFINE x == [r \in 1..a |-> l[r]]
           y == [r \in 1..(b - a) |-> l[a + r]]
           z == [r \in 1..b |-> l[r]]
           w == x \o y
<1>1. a \in Nat /\ b \in Nat /\ b - a \in Nat /\ Len(l) \in Nat
  OBVIOUS
<1>2. \A r \in 1..Len(l) : l[r] \in Nat
  OBVIOUS
<1>3. x \in Seq(Nat) /\ Len(x) = a /\ \A r \in 1..a : x[r] = l[r]
  BY <1>1, <1>2
<1>4. y \in Seq(Nat) /\ Len(y) = b - a /\ \A r \in 1..(b - a) : y[r] = l[a + r]
  BY <1>1, <1>2
<1>5. z \in Seq(Nat) /\ Len(z) = b /\ \A r \in 1..b : z[r] = l[r]
  BY <1>1, <1>2
<1> HIDE DEF x, y, z
<1>6. /\ w \in Seq(Nat) /\ Len(w) = b
      /\ \A r \in 1..b : w[r] = IF r <= a THEN x[r] ELSE y[r - a]
  <2>1. x \in Seq(Nat) /\ y \in Seq(Nat)
    BY <1>3, <1>4
  <2>2. /\ w \in Seq(Nat) /\ Len(w) = Len(x) + Len(y)
        /\ \A r \in 1..(Len(x) + Len(y)) : w[r] = IF r <= Len(x) THEN x[r] ELSE y[r - Len(x)]
    BY <2>1, ConcatProperties
  <2>3. Len(x) = a /\ Len(y) = b - a /\ Len(x) + Len(y) = b
    BY <1>1, <1>3, <1>4
  <2> HIDE DEF w
  <2> QED
    BY <2>2, <2>3
<1> HIDE DEF w
<1>7. ASSUME NEW r \in 1..b PROVE w[r] = l[r]
  <2>1. CASE r <= a
    <3>2. w[r] = x[r]
      BY <1>6, <2>1
    <3> QED
      BY <1>1, <1>3, <2>1, <3>2
  <2>2. CASE r > a
    <3>1. r - a \in 1..(b - a) /\ a + (r - a) = r
      BY <1>1, <2>2
    <3>2. w[r] = y[r - a]
      BY <1>1, <1>6, <2>2
    <3> QED
      BY <1>4, <3>1, <3>2
  <2> QED
    BY <1>1, <2>1, <2>2
<1>8. w = z
  <2>1. w \in Seq(Nat) /\ z \in Seq(Nat) /\ Len(w) = Len(z) /\ \A r \in 1..Len(w) : w[r] = z[r]
    BY <1>5, <1>6, <1>7
  <2> QED
    BY <2>1, SeqEqual
<1> QED
  BY <1>3, <1>8 DEF w, x, y, z

\* Cut at at[2], at[3], ..., at[D], the list l is in D rows.
Cut(l, at, rows, D) ==
  /\ rows \in Seq(Seq(Nat)) /\ Len(rows) = D
  /\ at[1] = 0 /\ at[D + 1] = Len(l)
  /\ \A j \in 1..(D + 1) : at[j] \in 0..Len(l)
  /\ \A j \in 1..D : /\ at[j] <= at[j + 1]
                     /\ rows[j] = [r \in 1..(at[j + 1] - at[j]) |-> l[at[j] + r]]

(* Rows put one after the other: what FlattenSeq gives for the rows of a     *)
(* list, the j-th of which begins after at[j] elements.                      *)
LEMMA FlattenRows ==
  ASSUME NEW D \in Nat, NEW l \in Seq(Nat), NEW rows, NEW at, Cut(l, at, rows, D)
  PROVE FlattenSeq(rows) = l
<1> DEFINE F(f) == [i \in 1..D |-> IF i = 1 THEN rows[i] ELSE f[i - 1] \o rows[i]]
           c == CHOOSE f : f = F(f)
           G(j) == [r \in 1..at[j + 1] |-> l[r]]
           g == [j \in 1..D |-> G(j)]
<1>1. FlattenSeq(rows) = IF D = 0 THEN rows ELSE c[D]
  <2>1. Len(rows) = D
    BY DEF Cut
  <2> QED
    BY <2>1 DEF FlattenSeq
<1>2. CASE D = 0
  <2>1. rows = <<>> /\ l = <<>>
    BY <1>2 DEF Cut
  <2> QED
    BY <1>1, <1>2, <2>1
<1>3. CASE D # 0
  <2>1. 1 \in 1..D /\ rows[1] = G(1)
    <3>1. 1 \in 1..D
      BY <1>3
    <3>2. rows[1] = [r \in 1..(at[2] - 0) |-> l[0 + r]] /\ at[2] \in Nat
      BY <3>1 DEF Cut
    <3>3. at[2] - 0 = at[2] /\ 1 + 1 = 2 /\ \A r \in 1..at[2] : 0 + r = r
      BY <3>2
    <3>4. rows[1] = [r \in 1..at[2] |-> l[r]]
      BY <3>2, <3>3
    <3>5. G(1) = [r \in 1..at[2] |-> l[r]]
      BY <3>3
    <3> QED
      BY <3>1, <3>4, <3>5
  <2>2. ASSUME NEW i \in 2..D PROVE G(i - 1) \o rows[i] = G(i)
    <3>1. i \in 1..D /\ i - 1 \in 1..D /\ i \in 1..(D + 1) /\ i + 1 \in 1..(D + 1) /\ i - 1 + 1 = i
      OBVIOUS
    <3>2. at[i] \in 0..Len(l) /\ at[i + 1] \in 0..Len(l) /\ at[i] <= at[i + 1]
      BY <3>1 DEF Cut
    <3>3. rows[i] = [r \in 1..(at[i + 1] - at[i]) |-> l[at[i] + r]]
      BY <3>1 DEF Cut
    <3>4. G(i - 1) = [r \in 1..at[i] |-> l[r]]
      BY <3>1
    <3>5. [r \in 1..at[i] |-> l[r]] \o [r \in 1..(at[i + 1] - at[i]) |-> l[at[i] + r]]
            = [r \in 1..at[i + 1] |-> l[r]]
      BY <3>2, JoinPrefix
    <3> QED
      BY <3>3, <3>4, <3>5, Zenon
  <2>3. F(g) = g
    <3>1. ASSUME NEW i \in 1..D PROVE F(g)[i] = g[i]
      <4>1. CASE i = 1
        BY <2>1, <4>1
      <4>2. CASE i # 1
        <5>1. i \in 2..D /\ i - 1 \in 1..D
          BY <4>2
        <5>2. G(i - 1) \o rows[i] = G(i)
          BY <2>2, <5>1
        <5> HIDE DEF G
        <5> QED
          BY <4>2, <5>1, <5>2
      <4> QED
        BY <4>1, <4>2
    <3>2. F(g) = [i \in 1..D |-> F(g)[i]] /\ g = [i \in 1..D |-> g[i]]
      BY DEF F, g
    <3> HIDE DEF F, g
    <3> QED
      BY <3>1, <3>2
  <2>4. c = F(c)
    <3> HIDE DEF F, g
    <3> QED
      BY <2>3
  <2>5. \A i \in 1..D : c[i] = g[i]
    <3> HIDE DEF c
    <3>1. c[1] = g[1]
      <4>1. c[1] = rows[1] /\ g[1] = G(1)
        BY <2>1, <2>4
      <4> QED
        BY <2>1, <4>1
    <3>2. ASSUME NEW i \in 2..D, c[i - 1] = g[i - 1]
          PROVE c[i] = g[i]
      <4>1. i \in 1..D /\ i # 1 /\ i - 1 \in 1..D
        OBVIOUS
      <4>2. G(i - 1) \o rows[i] = G(i)
        BY <2>2
      <4> HIDE DEF G
      <4>3. c[i] = c[i - 1] \o rows[i] /\ g[i] = G(i) /\ g[i - 1] = G(i - 1)
        BY <2>4, <4>1
      <4> QED
        BY <3>2, <4>2, <4>3
    <3> HIDE DEF F, G, g
    <3> DEFINE P == {i \in 1..D : c[i] = g[i]}
    <3>3. (D >= 1 => 1 \in P) /\ \A i \in 2..D : i - 1 \in P => i \in P
      BY <2>1, <3>1, <3>2
    <3> HIDE DEF P
    <3>4. \A i \in 1..D : i \in P
      BY <3>3, Induct
    <3> QED
      BY <3>4 DEF P
  <2>6. c[D] = G(D)
    <3>1. D \in 1..D
      BY <1>3
    <3>2. g[D] = G(D)
      BY <3>1
    <3> HIDE DEF c, g, G
    <3> QED
      BY <2>5, <3>1, <3>2
  <2>7. G(D) = l
    <3>1. at[D + 1] = Len(l) /\ l = [r \in 1..Len(l) |-> l[r]]
      BY DEF Cut
    <3> QED
      BY <3>1
  <2> HIDE DEF c, G
  <2> QED
    BY <1>1, <1>3, <2>6, <2>7
<1> QED
  BY <1>2, <1>3

(* A reader finds the FAT sectors. *)
LEMMA FoundAll ==
  ASSUME TypeOK, ListsMatchSet, IDIFAT
  PROVE FATFound = memFat
<1> DEFINE F == Len(memFat)
           D == Len(memDIFAT)
           num == IF header.numFATSector > HeaderSlots THEN HeaderSlots ELSE header.numFATSector
           named == [i \in 1..num |-> header.headerDIFAT[i - 1]]
           a == IF F <= HeaderSlots THEN F ELSE HeaderSlots
           rest == [i \in 1..(F - a) |-> memFat[a + i]]
           at == [j \in 1..(D + 1) |-> IF Before(j) <= F THEN Before(j) - a ELSE F - a]
           rows == [j \in 1..D |-> NamedBy(difat[j])]
<1>1. F \in Nat /\ D \in Nat /\ memFat \in Seq(Nat) /\ Row \in Nat /\ HeaderSlots \in Nat
  BY RowFacts DEF TypeOK, TablesType
<1>2. D + 1 >= 1 /\ Before(D + 1) \in Int /\ F <= Before(D + 1)
  BY <1>1, Rows DEF IDIFAT, CountsMatch
<1>3. /\ D = 0 => F <= HeaderSlots /\ header.numFATSector = F
      /\ D # 0 => F > HeaderSlots /\ header.numFATSector = HeaderSlots
  <2>1. CASE D = 0
    <3>1. D + 1 = 1 /\ D \in Int
      BY <2>1
    <3>2. Before(D + 1) = HeaderSlots
      BY <3>1, Rows
    <3> QED
      BY <1>2, <2>1, <3>2 DEF IDIFAT, CountsMatch
  <2>2. CASE D # 0
    <3>1. F > Before(D) /\ header.numFATSector = HeaderSlots
      BY <2>2 DEF IDIFAT, CountsMatch
    <3>2. Before(D) \in Int /\ HeaderSlots <= Before(D)
      BY <1>1, <2>2, Rows
    <3> QED
      BY <1>1, <2>2, <3>1, <3>2
  <2> QED
    BY <2>1, <2>2
<1>4. num = a /\ a \in 0..F /\ a <= HeaderSlots
  BY <1>1, <1>3
<1>5. named = [i \in 1..a |-> memFat[i]]
  <2>1. \A i \in 1..a : header.headerDIFAT[i - 1] = memFat[i]
    BY <1>1, <1>4 DEF IDIFAT, HeaderNames
  <2> HIDE DEF a, num
  <2> QED
    BY <1>4, <2>1
<1>6. rest \in Seq(Nat) /\ Len(rest) = F - a /\ \A i \in 1..(F - a) : rest[i] = memFat[a + i]
  <2>1. F - a \in Nat /\ \A i \in 1..(F - a) : a + i \in 1..F
    BY <1>1, <1>4
  <2> HIDE DEF a
  <2> QED
    BY <1>1, <2>1
<1>7. \A j \in 1..D : /\ Before(j) \in Int /\ HeaderSlots <= Before(j) /\ Before(j) <= F
                      /\ Before(j + 1) = Before(j) + Row
                      /\ j < D => Before(j) + Row <= F
                      /\ j = D => F <= Before(j) + Row
  <2>1. SUFFICES ASSUME NEW j \in 1..D
                 PROVE /\ Before(j) \in Int /\ HeaderSlots <= Before(j) /\ Before(j) <= F
                       /\ Before(j + 1) = Before(j) + Row
                       /\ j < D => Before(j) + Row <= F
                       /\ j = D => F <= Before(j) + Row
    OBVIOUS
  <2>2. j \in Int /\ D \in Int /\ j >= 1 /\ D # 0 /\ (j = D \/ j < D)
    BY <1>1
  <2>3. /\ Before(j) \in Int /\ HeaderSlots <= Before(j) /\ Before(j + 1) = Before(j) + Row
        /\ j < D => Before(j) + Row <= Before(D)
    BY <2>2, Rows
  <2>4. F > Before(D) /\ Before(D) \in Int
    BY <2>2, Rows DEF IDIFAT, CountsMatch
  <2> QED
    BY <1>1, <1>2, <2>2, <2>3, <2>4
<1>8. \A j \in 1..D : /\ D # 0 /\ a = HeaderSlots
                      /\ at[j] = Before(j) - a
                      /\ at[j + 1] = IF j < D THEN Before(j) + Row - a ELSE F - a
  <2>1. SUFFICES ASSUME NEW j \in 1..D
                 PROVE /\ D # 0 /\ a = HeaderSlots
                       /\ at[j] = Before(j) - a
                       /\ at[j + 1] = IF j < D THEN Before(j) + Row - a ELSE F - a
    OBVIOUS
  <2>2. D # 0 /\ a = HeaderSlots /\ j \in 1..(D + 1) /\ j + 1 \in 1..(D + 1)
    BY <1>1, <1>3
  <2>3. at[j] = Before(j) - a
    BY <1>7, <2>2
  <2> HIDE DEF a
  <2>4. at[j + 1] = IF Before(j) + Row <= F THEN Before(j) + Row - a ELSE F - a
    <3>1. Before(j + 1) = Before(j) + Row /\ Before(j) \in Int /\ Row \in Int /\ F \in Int /\ a \in Int
      BY <1>1, <1>4, <1>7
    <3>2. at[j + 1] = IF Before(j + 1) <= F THEN Before(j + 1) - a ELSE F - a
      BY <2>2
    <3> HIDE DEF at
    <3> QED
      BY <3>1, <3>2
  <2> HIDE DEF at
  <2>5. j < D \/ (j = D /\ ~(j < D))
    BY <1>1
  <2>6. CASE j = D /\ Before(j) + Row <= F
    <3>1. Before(j) + Row = F
      BY <1>1, <1>7, <2>6
    <3> QED
      <4>1. ~(j < D) /\ at[j + 1] = Before(j) + Row - a
        BY <2>4, <2>5, <2>6
      <4>2. at[j + 1] = F - a
        <5>1. Before(j) \in Int /\ Row \in Int /\ F \in Int /\ a \in Int
          BY <1>1, <1>4, <1>7
        <5> QED
          BY <3>1, <4>1, <5>1
      <4> QED
        BY <2>2, <2>3, <4>1, <4>2
  <2>7. CASE j < D \/ ~(Before(j) + Row <= F)
    <3>1. j < D => Before(j) + Row <= F
      BY <1>7
    <3>2. j < D \/ (~(j < D) /\ ~(Before(j) + Row <= F))
      BY <2>5, <2>7
    <3>3. at[j + 1] = IF j < D THEN Before(j) + Row - a ELSE F - a
      <4>1. CASE j < D
        BY <2>4, <3>1, <4>1
      <4>2. CASE ~(j < D)
        BY <2>4, <3>2, <4>2
      <4> QED
        BY <4>1, <4>2
    <3> QED
      BY <2>2, <2>3, <3>3
  <2> QED
    BY <2>5, <2>6, <2>7
<1>9. /\ at[1] = 0 /\ at[D + 1] = F - a
      /\ \A j \in 1..(D + 1) : at[j] \in 0..(F - a)
  <2>1. at[1] = 0
    <3>1. Before(1) = HeaderSlots /\ 1 \in 1..(D + 1)
      BY <1>1, Rows
    <3> QED
      BY <1>1, <3>1
  <2>2. D + 1 \in 1..(D + 1) /\ D + 1 \in Int
    BY <1>1
  <2> HIDE DEF a
  <2>3. at[D + 1] = F - a
    BY <1>1, <1>2, <1>4, <2>2
  <2>4. ASSUME NEW j \in 1..(D + 1) PROVE at[j] \in 0..(F - a)
    <3>1. j \in Int /\ j >= 1
      BY <1>1
    <3>2. Before(j) \in Int /\ HeaderSlots <= Before(j)
      BY <3>1, Rows
    <3>3. at[j] = IF Before(j) <= F THEN Before(j) - a ELSE F - a
      OBVIOUS
    <3> QED
      BY <1>1, <1>4, <3>2, <3>3
  <2> QED
    BY <2>1, <2>3, <2>4
<1> HIDE DEF at
<1>10. ASSUME NEW j \in 1..D
       PROVE /\ at[j] <= at[j + 1] /\ rows[j] \in Seq(Nat)
             /\ rows[j] = [r \in 1..(at[j + 1] - at[j]) |-> rest[at[j] + r]]
  <2> DEFINE b == Before(j)
             n == IF b + Row <= F THEN Row ELSE F - b
  <2>1. rows[j] = [r \in 1..n |-> memFat[b + r]] /\ n \in Nat
    <3>1. rows[j] = NamedBy(difat[j])
      OBVIOUS
    <3> QED
      BY <3>1, RowNames
  <2>2. b \in Int /\ HeaderSlots <= b /\ b + n <= F
    BY <1>1, <1>7
  <2>3. a = HeaderSlots /\ at[j] = b - a /\ at[j + 1] - at[j] = n
    <3>1. a = HeaderSlots /\ at[j] = b - a /\ at[j + 1] = IF j < D THEN b + Row - a ELSE F - a
      BY <1>8
    <3>2. /\ j < D => b + Row <= F
          /\ ~(j < D) => F <= b + Row
      BY <1>1, <1>7
    <3>3. a \in Int /\ b \in Int /\ F \in Int /\ Row \in Int
      BY <1>1, <1>4, <2>2
    <3>4. j <= D /\ j \in Int /\ D \in Int
      BY <1>1
    <3> HIDE DEF a, b, at
    <3>5. CASE j < D
      BY <3>1, <3>2, <3>3, <3>5 DEF n
    <3>6. CASE ~(j < D)
      BY <3>1, <3>2, <3>3, <3>6 DEF n
    <3> QED
      BY <3>5, <3>6
  <2> HIDE DEF n, b, a
  <2>4. ASSUME NEW r \in 1..n PROVE rest[at[j] + r] = memFat[b + r]
    <3>1. at[j] + r \in 1..(F - a) /\ a + (at[j] + r) = b + r
      BY <1>1, <1>4, <2>1, <2>2, <2>3
    <3> HIDE DEF rest
    <3> QED
      BY <1>6, <3>1
  <2>5. ASSUME NEW r \in 1..n PROVE memFat[b + r] \in Nat
    <3>1. b + r \in 1..F
      BY <1>1, <2>1, <2>2
    <3> QED
      BY <1>1, <3>1
  <2> HIDE DEF rows, rest
  <2>6. rows[j] \in Seq(Nat)
    BY <2>1, <2>5
  <2>7. at[j] <= at[j + 1]
    <3>1. at[j] \in Int /\ at[j + 1] \in Int
      <4>1. j \in 1..(D + 1) /\ j + 1 \in 1..(D + 1)
        BY <1>1
      <4> QED
        BY <1>9, <4>1
    <3> QED
      BY <2>1, <2>3, <3>1
  <2> QED
    BY <2>1, <2>3, <2>4, <2>6, <2>7
<1>11. rows \in Seq(Seq(Nat)) /\ Len(rows) = D
  <2>1. \A j \in 1..D : rows[j] \in Seq(Nat)
    BY <1>10
  <2>2. rows = [j \in 1..D |-> rows[j]]
    OBVIOUS
  <2> HIDE DEF rows
  <2> QED
    BY <1>1, <2>1, <2>2
<1> HIDE DEF a, rest, rows
<1>12. Cut(rest, at, rows, D)
  BY <1>6, <1>9, <1>10, <1>11 DEF Cut
<1>13. FlattenSeq(rows) = rest
  BY <1>1, <1>6, <1>12, FlattenRows
<1>14. named \o rest = memFat
  <2>1. F \in 0..Len(memFat) /\ a \in 0..Len(memFat) /\ a <= F
    BY <1>1, <1>4
  <2>2. [i \in 1..a |-> memFat[i]] \o [i \in 1..(F - a) |-> memFat[a + i]] = [i \in 1..F |-> memFat[i]]
    BY <1>1, <2>1, JoinPrefix
  <2>3. memFat = [i \in 1..F |-> memFat[i]]
    BY <1>1
  <2> HIDE DEF named
  <2> QED
    BY <1>5, <2>2, <2>3, Zenon DEF rest
<1> QED
  <2>1. FATFound = named \o FlattenSeq(DIFATWalk)
    BY DEF FATFound
  <2>2. DIFATWalk = rows
    BY WalkRows DEF rows
  <2> QED
    BY <1>13, <1>14, <2>1, <2>2, Zenon

(* The check of the header allows one DIFAT sector. *)
LEMMA CheckAllowsOne ==
  ASSUME TypeOK, IDIFAT, header.numDIFATSector > 0
  PROVE HeaderAccepted <=> header.numDIFATSector = 1
<1> DEFINE D == Len(memDIFAT)
<1>1. D \in Nat /\ D >= 1 /\ header.numDIFATSector = D /\ header.numFATSector = HeaderSlots
  BY DEF TypeOK, TablesType, IDIFAT, CountsMatch
<1>2. HeaderAccepted <=> D * Row + HeaderSlots <= HeaderSlots + Row
  BY <1>1, RowFacts DEF HeaderAccepted
<1>3. D * Row \in Nat /\ (D = 1 => D * Row = Row) /\ (D >= 2 => D * Row >= Row + Row)
  <2>1. \A a, b \in Nat : a * b \in Nat /\ (a = 1 => a * b = b) /\ (a >= 2 => a * b >= b + b)
    OBVIOUS
  <2> QED
    BY <1>1, <2>1, RowFacts
<1> HIDE DEF D
<1>4. CASE D = 1
  <2>1. D * Row + HeaderSlots <= HeaderSlots + Row
    BY <1>3, <1>4, RowFacts
  <2> QED
    BY <1>1, <1>2, <1>4, <2>1, Zenon
<1>5. CASE D >= 2
  <2>1. ~(D * Row + HeaderSlots <= HeaderSlots + Row)
    BY <1>3, <1>5, RowFacts
  <2>2. D # 1
    BY <1>1, <1>5
  <2> QED
    BY <1>1, <1>2, <2>1, <2>2, Zenon
<1> QED
  BY <1>1, <1>4, <1>5

(***************************************************************************)
(* Whatever the number of FAT sectors, the header's slots followed by the  *)
(* DIFAT chain give a reader every FAT sector, in order: though            *)
(* numFATSector stops counting when the header is full (mcdf.go:505-564),  *)
(* readFAT (mcdf.go:134-190), which follows numDIFATSector sectors of the  *)
(* chain and stops in each at the first slot that names no sector, misses  *)
(* none and takes none twice.  The check of the header before it accepts    *)
(* one DIFAT sector and no more (header.go:239-249).                       *)
(***************************************************************************)
THEOREM FATFoundCorrect == Spec => []FATFoundOnReopen
<1>1. Init => TypeOK /\ IControl /\ ListsMatchSet /\ IDIFAT
  BY InitType, InitLists, InitDIFAT
<1>2. TypeOK /\ IControl /\ ListsMatchSet /\ IDIFAT /\ [Next]_vars
        => TypeOK' /\ IControl' /\ ListsMatchSet' /\ IDIFAT'
  BY StepType, StepLists, StepDIFAT
<1>3. TypeOK /\ ListsMatchSet /\ IDIFAT => FATFoundOnReopen
  BY FoundAll, CheckAllowsOne DEF FATFoundOnReopen
<1> QED
  BY <1>1, <1>2, <1>3, PTL DEF Spec
=============================================================================
