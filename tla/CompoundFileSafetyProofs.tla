---------------------- MODULE CompoundFileSafetyProofs ----------------------
(***************************************************************************)
(* Proof that no chain ever leads to a FAT or DIFAT sector                 *)
(* (TableSectorsSafe of CompoundFile).                                     *)
(*                                                                         *)
(* TableSectorsSafe alone is not inductive: a link is written from s, from *)
(* Directory.Write's SecID and from the start an entry holds, and an entry *)
(* whose stream goes from mini sectors to sectors holds a mini sector's    *)
(* number as its start until BigSector replaces it.  IPointers says of     *)
(* each of them when it is a sector that is no table, and when it is not   *)
(* looked at.                                                              *)
(***************************************************************************)
EXTENDS CompoundFileTableProofs

\* The sectors that are neither FAT nor DIFAT sectors.
Plain == {x \in Sectors : set[x] \notin {"TableFat", "DIFAT"}}

\* p ends a chain or is in S.
EndOr(p, S) == p < 0 \/ p \in S

\* The write in progress has dropped what its stream held and has not given
\* it a first sector yet.
Unstarted == InBig /\ OldSize = 0 /\ old = -1

PTables == FATSectors \subseteq loaded
PNext == \A x \in Sectors : EndOr(next[x], Plain)
PStart ==
  \A d \in DOMAIN dirs :
    IsBig(dirs[d].size) => EndOr(dirs[d].start, Plain) \/ (Unstarted /\ d = arg.d)
PCall ==
  /\ EndOr(s, Plain)
  /\ pc = "FreeFAT" => EndOr(SecID, Plain)
  /\ InBig => IsBig(arg.size) /\ (OldSize > 0 => EndOr(SecID, Plain)) /\ (Unstarted => offset = 0)
  /\ InMini => ~(arg.d \in DOMAIN dirs /\ IsBig(dirs[arg.d].size))
  /\ NotWriting => offset = 0
  /\ pc = "Resize" /\ OldSize # 0 =>
       OldSize = dirs[arg.d].size /\ (IsBig(arg.size) => IsBig(OldSize))

IPointers == PTables /\ PNext /\ PStart /\ PCall

-----------------------------------------------------------------------------
(* What is no table stays no table: table sectors are always new ones.       *)
PlainKept == Plain \subseteq Plain'

(* A link that may be followed may still be in a larger set. *)
LEMMA EndOrKept ==
  ASSUME NEW p, NEW S, NEW T, S \subseteq T, EndOr(p, S)
  PROVE EndOr(p, T)
BY DEF EndOr

(* No mark changed: the same sectors are tables. *)
LEMMA SetSame ==
  ASSUME UNCHANGED <<nsec, set>>
  PROVE Plain' = Plain /\ FATSectors' = FATSectors /\ Sectors' = Sectors
BY DEF Plain, FATSectors, Sectors

(* Steps of a call that add no sector and no mark.                           *)
LEMMA QuietSet ==
  ASSUME \/ FreeMiniFAT \/ Freed \/ Resize \/ WriteBigExisting \/ WriteBigGrow \/ BigSector \/ FinishBig
         \/ WriteMiniExisting \/ WriteMiniNew \/ WriteMiniGrow \/ FinishMini \/ Container
         \/ NewEntry \/ Update \/ AddStream \/ UNCHANGED vars \/ (TypeOK /\ FileCall)
         \/ \E d \in Streams : GetData(d)
         \/ \E d \in Streams, v \in Values, n \in Sizes : SetData(d, v, n)
         \/ \E d \in Streams, v \in Values, n \in AppendSizes : AppendData(d, v, n)
  PROVE UNCHANGED <<nsec, set>>
BY FileCallKeeps DEF FreeMiniFAT, Freed, Resize, WriteBigExisting, WriteBigGrow, BigSector, FinishBig,
   WriteMiniExisting, WriteMiniNew, WriteMiniGrow, FinishMini, Container, NewEntry, Update, AddStream,
   vars, GetData, Answer, SetData, AppendData, memVars, sectorVars, memoryVars

(* Appended sectors are new ones, and their links lead nowhere. *)
LEMMA AppendPlain ==
  ASSUME TypeOK, NEW k \in {1, 2}, NEW ts, NEW slots, AppendSectors(k, ts, slots), PNext, PTables
  PROVE PlainKept /\ PNext' /\ PTables'
<1>1. /\ Sectors \subseteq Sectors' /\ nsec \in Nat
      /\ \A y \in Sectors' : \/ y \in Sectors /\ set'[y] = set[y]
                             \/ \E j \in 1..k : y = nsec + j - 1 /\ y \notin Sectors /\ set'[y] = ts[j]
      /\ \A j \in 1..k : nsec + j - 1 \in Sectors' \ Sectors /\ set'[nsec + j - 1] = ts[j]
  BY AppendMarks
<1>2. PlainKept
  BY <1>1 DEF PlainKept, Plain
<1>3. Sectors = 0..(nsec - 1) /\ Sectors' = 0..(nsec + k - 1)
  BY <1>1 DEF AppendSectors, Sectors
<1>4. \A x \in Sectors' : (x \in Sectors /\ next'[x] = next[x]) \/ next'[x] < 0
  <2>1. \A t : NewNext(t) = -1
    BY NewNextFree DEF FREESECT
  <2>2. next' = [i \in Sectors' |-> IF i < nsec THEN next[i] ELSE NewNext(ts[i - nsec + 1])]
    BY <1>3 DEF AppendSectors
  <2>3. \A x \in Sectors' : (x < nsec /\ x \in Sectors) \/ ~(x < nsec)
    BY <1>1, <1>3
  <2> QED
    BY <2>1, <2>2, <2>3
<1>5. PNext'
  BY <1>2, <1>4 DEF PNext, EndOr, PlainKept
<1>6. PTables'
  <2>1. \A y \in Sectors' \ Sectors : y \in nsec..(nsec + k - 1)
    BY <1>1, <1>3
  <2>2. loaded' = loaded \cup nsec..(nsec + k - 1)
    BY DEF AppendSectors
  <2>3. \A y \in Sectors : set'[y] = set[y]
    BY <1>1
  <2> QED
    BY <1>1, <2>1, <2>2, <2>3 DEF PTables, FATSectors
<1> QED
  BY <1>2, <1>5, <1>6

(* addSector hands out no FAT or DIFAT sector and links none. *)
LEMMA AllocPointers ==
  ASSUME TypeOK, IControl, ListsMatchSet, IPointers, AllocFree \/ AllocTable \/ AllocNew
  PROVE PlainKept /\ PNext' /\ PTables' /\ EndOr(s', Plain')
<1>1. CASE AllocFree
  <2>1. PICK x \in Sectors : PopFree(x) /\ Allocated(x)
    BY <1>1 DEF AllocFree
  <2>2. set' = [set EXCEPT ![x] = "none"] /\ Sectors' = Sectors /\ s' = x /\ UNCHANGED <<next, loaded>>
    BY <2>1 DEF PopFree, Allocated, sectorVars, Sectors
  <2>3. set \in [Sectors -> ListNames \cup {"none"}]
    BY DEF TypeOK, SectorsType
  <2>4. PlainKept /\ FATSectors' \subseteq FATSectors /\ x \in Plain'
    BY <2>2, <2>3 DEF PlainKept, Plain, FATSectors
  <2> QED
    BY <2>2, <2>4 DEF IPointers, PNext, PTables, EndOr, PlainKept
<1>2. CASE AllocTable
  <2>1. \/ AppendSectors(1, <<"TableFat">>, EntriesPerSector)
        \/ AppendSectors(2, <<"TableFat", "DIFAT">>, EntriesPerSector)
    BY <1>2 DEF AllocTable, AddTableInHeader, AddTableInDIFAT, AddTableAndDIFAT
  <2>2. s' = s
    BY <1>2 DEF AllocTable
  <2>3. PlainKept /\ PNext' /\ PTables'
    BY <2>1, AppendPlain DEF IPointers
  <2> QED
    BY <2>2, <2>3 DEF IPointers, PCall, EndOr, PlainKept
<1>3. CASE AllocNew
  <2>1. AppendSectors(1, <<"none">>, 0) /\ s' = nsec
    BY <1>3 DEF AllocNew, NewSector, Allocated
  <2>2. PlainKept /\ PNext' /\ PTables'
    BY <2>1, AppendPlain DEF IPointers
  <2>3. nsec \in Sectors' /\ set'[nsec] = "none"
    BY <2>1, AppendMarks
  <2> QED
    BY <2>1, <2>2, <2>3 DEF Plain, EndOr
<1> QED
  BY <1>1, <1>2, <1>3

(* FreeFAT pushes no FAT or DIFAT sector, and goes on to none. *)
LEMMA FreeFATPointers ==
  ASSUME TypeOK, IControl, IPointers, FreeFAT
  PROVE PlainKept /\ PNext' /\ PTables' /\ (SecID \in Sectors => EndOr(next[SecID], Plain))
<1>1. EndOr(SecID, Plain) /\ SecID >= 0 /\ SecID \in Int
  BY DEF IPointers, PCall, FreeFAT, TypeOK, CallType
<1>2. SecID \in Plain /\ SecID \in Sectors /\ Push(SecID)
  BY <1>1 DEF EndOr, Plain, FreeFAT
<1>3. /\ Sectors' = Sectors /\ loaded' = loaded \ {SecID}
      /\ next \in [Sectors -> Int] /\ set \in [Sectors -> ListNames \cup {"none"}]
      /\ set' = set \/ set' = [set EXCEPT ![SecID] = "Free"]
      /\ next' = next \/ next' = [next EXCEPT ![SecID] = DefaultNext(next[SecID], "Free")]
  BY <1>2 DEF Push, Sectors, TypeOK, SectorsType
<1>4. PlainKept /\ FATSectors' = FATSectors
  BY <1>2, <1>3 DEF PlainKept, Plain, FATSectors
<1>5. EndOr(next[SecID], Plain)
  BY <1>2 DEF IPointers, PNext
<1>6. EndOr(DefaultNext(next[SecID], "Free"), Plain)
  <2>1. CASE next[SecID] # 0
    BY <1>5, <2>1 DEF DefaultNext
  <2>2. CASE next[SecID] = 0
    <3>1. DefaultNext(next[SecID], "Free") = -1
      BY <2>2, Zenon DEF DefaultNext, FREESECT
    <3> QED
      BY <3>1 DEF EndOr
  <2> QED
    BY <2>1, <2>2
<1>7. PNext'
  BY <1>2, <1>3, <1>4, <1>6 DEF IPointers, PNext, EndOr, PlainKept
<1>8. PTables'
  BY <1>2, <1>3, <1>4 DEF IPointers, PTables, FATSectors, Plain
<1> QED
  BY <1>4, <1>5, <1>7, <1>8

(* Steps that link s, or end a chain, and mark no sector as FAT or DIFAT.    *)
LEMMA LinkPointers ==
  ASSUME PNext, PTables, PlainKept, Sectors' = Sectors, FATSectors' \subseteq FATSectors, loaded \subseteq loaded',
         \A x \in Sectors : next'[x] = next[x] \/ EndOr(next'[x], Plain)
  PROVE PNext' /\ PTables'
<1>1. \A x \in Sectors : EndOr(next'[x], Plain)
  BY DEF PNext
<1>2. PNext'
  BY <1>1 DEF PNext, EndOr, PlainKept
<1> QED
  BY <1>2 DEF PTables

(* The sector a helper has been given is in no list. *)
LEMMA HelperPlain ==
  ASSUME TypeOK, IControl, pc \in {"BigSector", "MiniTable", "Container", "DirSector"}
  PROVE s \in Plain /\ s \in Sectors /\ EndOr(s, Plain)
BY DEF IControl, Plain, EndOr

(* A sector that becomes a miniFAT or directory sector is not a FAT sector. *)
LEMMA JoinPlain ==
  ASSUME TypeOK, nsec' = nsec, s \in Sectors, set[s] = "none", NEW t \in {"TableMini", "Dir"},
         set' = [set EXCEPT ![s] = t]
  PROVE PlainKept /\ Sectors' = Sectors /\ FATSectors' \subseteq FATSectors
<1>1. Sectors' = Sectors /\ set \in [Sectors -> ListNames \cup {"none"}]
  BY DEF Sectors, TypeOK, SectorsType
<1> QED
  BY <1>1 DEF PlainKept, Plain, FATSectors

(* The default of a link ends its chain. *)
LEMMA DefaultEndOr ==
  ASSUME NEW n, NEW S, EndOr(n, S), NEW t \in {"TableMini", "Dir"}
  PROVE EndOr(DefaultNext(n, t), S)
<1>1. CASE n # 0
  BY <1>1 DEF DefaultNext
<1>2. CASE n = 0
  <2>1. DefaultNext(n, t) = -2
    BY <1>2, Zenon DEF DefaultNext, ENDOFCHAIN
  <2> QED
    BY <2>1 DEF EndOr
<1> QED
  BY <1>1, <1>2

(* A miniFAT sector is linked, or refused, without touching the FAT sectors. *)
LEMMA MiniTablePointers ==
  ASSUME TypeOK, IControl, IPointers, MiniTable
  PROVE PlainKept /\ PNext' /\ PTables'
<1>1. s \in Plain /\ s \in Sectors /\ EndOr(s, Plain) /\ set[s] = "none"
  BY HelperPlain DEF MiniTable, IControl
<1> DEFINE linked == IF memMini = <<>> THEN next ELSE [next EXCEPT ![Last(memMini)] = s]
<1>2. nsec' = nsec /\ loaded' = loaded /\ next \in [Sectors -> Int] /\ DOMAIN linked = Sectors
  BY DEF MiniTable, TypeOK, SectorsType
<1>3. \A x \in Sectors : EndOr(linked[x], Plain)
  BY <1>1, <1>2 DEF IPointers, PNext
<1>4. CASE CanAdd(s, "TableMini")
  <2>1. next' = [linked EXCEPT ![s] = DefaultNext(linked[s], "TableMini")] /\ set' = [set EXCEPT ![s] = "TableMini"]
    BY <1>4 DEF MiniTable
  <2> HIDE DEF linked
  <2>2. EndOr(DefaultNext(linked[s], "TableMini"), Plain)
    BY <1>1, <1>3, DefaultEndOr
  <2>3. \A x \in Sectors : EndOr(next'[x], Plain)
    BY <1>2, <1>3, <2>1, <2>2
  <2>4. PlainKept /\ Sectors' = Sectors /\ FATSectors' \subseteq FATSectors
    BY <1>1, <1>2, <2>1, JoinPlain
  <2> QED
    BY <1>2, <2>3, <2>4, LinkPointers DEF IPointers
<1>5. CASE ~CanAdd(s, "TableMini")
  <2>1. next' = linked /\ set' = set
    BY <1>5 DEF MiniTable
  <2> HIDE DEF linked
  <2> QED
    BY <1>2, <1>3, <2>1, SetSame, LinkPointers DEF IPointers, PlainKept
<1> QED
  BY <1>4, <1>5

(* A directory sector is linked without touching the FAT sectors. *)
LEMMA DirSectorPointers ==
  ASSUME TypeOK, IControl, IPointers, DirSector
  PROVE PlainKept /\ PNext' /\ PTables'
<1>1. s \in Plain /\ s \in Sectors /\ EndOr(s, Plain) /\ set[s] = "none"
  BY HelperPlain DEF DirSector, IControl
<1>2. nsec' = nsec /\ loaded' = loaded /\ next \in [Sectors -> Int]
  BY DEF DirSector, TypeOK, SectorsType
<1>3. CASE CanAdd(s, "Dir")
  <2> DEFINE own == [next EXCEPT ![s] = DefaultNext(next[s], "Dir")]
  <2>1. next' = (IF memDir = <<>> THEN own ELSE [own EXCEPT ![Last(memDir)] = s]) /\ set' = [set EXCEPT ![s] = "Dir"]
    BY <1>3 DEF DirSector
  <2>2. EndOr(DefaultNext(next[s], "Dir"), Plain)
    BY <1>1, DefaultEndOr DEF IPointers, PNext
  <2>3. DOMAIN own = Sectors /\ \A x \in Sectors : EndOr(own[x], Plain)
    BY <1>2, <2>2 DEF IPointers, PNext
  <2> HIDE DEF own
  <2>4. \A x \in Sectors : EndOr(next'[x], Plain)
    BY <1>1, <2>1, <2>3
  <2>5. PlainKept /\ Sectors' = Sectors /\ FATSectors' \subseteq FATSectors
    BY <1>1, <1>2, <2>1, JoinPlain
  <2> QED
    BY <1>2, <2>4, <2>5, LinkPointers DEF IPointers
<1>4. CASE ~CanAdd(s, "Dir")
  BY <1>2, <1>4, SetSame, LinkPointers DEF IPointers, PlainKept, DirSector
<1> QED
  BY <1>3, <1>4

(* A sector is linked at the end of a stream or of the containers.           *)
LEMMA AppendLinkPointers ==
  ASSUME TypeOK, IControl, IPointers, BigSector \/ Container
  PROVE PlainKept /\ PNext' /\ PTables'
<1>1. s \in Plain /\ s \in Sectors /\ EndOr(s, Plain)
  BY HelperPlain DEF BigSector, Container
<1>2. UNCHANGED <<nsec, set>> /\ loaded' = loaded
  BY QuietSet DEF BigSector, Container
<1> DEFINE ended == [next EXCEPT ![s] = ENDOFCHAIN]
<1>3. DOMAIN ended = Sectors /\ \A x \in Sectors : EndOr(ended[x], Plain)
  BY DEF IPointers, PNext, TypeOK, SectorsType, EndOr, ENDOFCHAIN
<1>4. next' = ended \/ \E y : next' = [ended EXCEPT ![y] = s]
  BY DEF BigSector, Container
<1> HIDE DEF ended
<1>5. \A x \in Sectors : EndOr(next'[x], Plain)
  BY <1>1, <1>3, <1>4
<1> QED
  BY <1>2, <1>5, SetSame, LinkPointers DEF IPointers, PlainKept

(* Every step leaves links off the FAT sectors, and the FAT sectors loaded. *)
LEMMA MemoryPointers ==
  ASSUME TypeOK, IControl, ListsMatchSet, IPointers, [Next]_vars
  PROVE PlainKept /\ PNext' /\ PTables'
<1>1. ASSUME UNCHANGED <<nsec, set, next>>, loaded \subseteq loaded'
      PROVE PlainKept /\ PNext' /\ PTables'
  BY <1>1, SetSame, LinkPointers DEF IPointers, PlainKept
<1> USE DEF memVars, sectorVars, fatVars, memoryVars
<1>2. CASE FreeMiniFAT \/ Freed \/ Resize \/ WriteBigExisting \/ WriteBigGrow \/ FinishBig
  BY <1>1, <1>2 DEF FreeMiniFAT, Freed, Resize, WriteBigExisting, WriteBigGrow, FinishBig
<1>3. CASE WriteMiniExisting \/ WriteMiniNew \/ WriteMiniGrow \/ FinishMini \/ NewEntry \/ Update \/ AddStream
  BY <1>1, <1>3 DEF WriteMiniExisting, WriteMiniNew, WriteMiniAt, WriteMiniGrow, FinishMini, NewEntry, Update, AddStream
<1>4. CASE Continue
  BY <1>2, <1>3, <1>4, FreeFATPointers, AllocPointers, MiniTablePointers, DirSectorPointers,
     AppendLinkPointers DEF Continue
<1>5. ASSUME NEW d \in Streams, GetData(d)
      PROVE PlainKept /\ PNext' /\ PTables'
  BY <1>1, <1>5 DEF GetData, Answer, LoadRead, ReadIn
<1>6. ASSUME NEW d \in Streams, NEW v \in Values, NEW n \in Sizes, SetData(d, v, n)
      PROVE PlainKept /\ PNext' /\ PTables'
  BY <1>1, <1>6 DEF SetData
<1>7. ASSUME NEW d \in Streams, NEW v \in Values, NEW n \in AppendSizes, AppendData(d, v, n)
      PROVE PlainKept /\ PNext' /\ PTables'
  BY <1>1, <1>7 DEF AppendData, LoadRead, ReadIn
<1>8. CASE UNCHANGED vars
  BY <1>1, <1>8 DEF vars
<1>9. CASE FileCall
  BY <1>1, <1>9, FileCallKeeps
<1> QED
  BY <1>3, <1>4, <1>5, <1>6, <1>7, <1>8, <1>9 DEF Next, StreamCall

-----------------------------------------------------------------------------
(* The starts: an entry's start and size change together only in Resize; a   *)
(* stream that grows into sectors is started by BigSector.                   *)
LEMMA StartKept ==
  ASSUME PStart, PlainKept,
         \A d \in DOMAIN dirs' :
           IsBig(dirs'[d].size) =>
             \/ EndOr(dirs'[d].start, Plain') \/ (Unstarted' /\ d = arg'.d)
             \/ d \in DOMAIN dirs /\ dirs'[d].size = dirs[d].size /\ dirs'[d].start = dirs[d].start
                  /\ (Unstarted /\ d = arg.d => Unstarted' /\ arg' = arg)
  PROVE PStart'
BY DEF PStart, EndOr, PlainKept, IsBig

(* A stream kept in sectors is not empty. *)
LEMMA CutoffPositive ==
  /\ ~IsBig(0)
  /\ \A n \in Nat : IsBig(n) => n > 0
BY LayoutAssumption DEF IsBig

(* Every step of a call leaves the starts off the FAT sectors. *)
LEMMA ContinueStarts ==
  ASSUME TypeOK, IControl, IPointers, PlainKept, Continue
  PROVE PStart'
<1>0. PStart /\ dirs \in [DOMAIN dirs -> Entry]
  BY DEF IPointers, TypeOK, DirType
<1>1. ASSUME dirs' = dirs, ~Unstarted
      PROVE PStart'
  BY <1>0, <1>1, StartKept
<1>2. ASSUME dirs' = dirs, arg' = arg, Unstarted'
      PROVE PStart'
  BY <1>0, <1>2, StartKept
<1>3. CASE FreeFAT \/ FreeMiniFAT \/ Freed \/ Update
  BY <1>1, <1>3 DEF FreeFAT, FreeMiniFAT, Freed, Update, dirVars, Unstarted, InBig
<1>4. CASE WriteMiniExisting \/ WriteMiniGrow \/ FinishMini \/ MiniTable
  BY <1>1, <1>4 DEF WriteMiniExisting, WriteMiniGrow, FinishMini, MiniTable, dirVars, Unstarted, InBig
<1>5. CASE WriteBigExisting
  <2>1. OldSize # 0
    BY <1>5 DEF WriteBigExisting, Existing, TypeOK, CallType
  <2> QED
    BY <1>1, <1>5, <2>1 DEF WriteBigExisting, dirVars, Unstarted
<1>6. CASE WriteBigGrow
  <2>1. dirs' = dirs /\ arg' = arg /\ OldSize' = OldSize /\ old' = old /\ pc' = "Alloc" /\ caller' = "BigSector"
    BY <1>6 DEF WriteBigGrow, dirVars, loopVars, Goto
  <2> QED
    BY <1>1, <1>2, <2>1 DEF Unstarted, InBig
<1>7. CASE FinishBig
  <2>1. dirs' = dirs /\ pc = "WriteBig" /\ offset >= arg.size
    BY <1>7 DEF FinishBig, dirVars
  <2>2. arg.size \in Nat /\ IsBig(arg.size)
    BY <2>1 DEF IPointers, PCall, InBig, TypeOK, CallType
  <2>3. offset # 0
    BY <2>1, <2>2, CutoffPositive
  <2>4. ~Unstarted
    BY <2>3 DEF IPointers, PCall, Unstarted
  <2> QED
    BY <1>1, <2>1, <2>4
<1>8. CASE AllocFree \/ AllocTable \/ AllocNew
  <2>1. dirs' = dirs /\ arg' = arg /\ OldSize' = OldSize /\ old' = old /\ caller' = caller /\ pc \in {"Alloc", "AllocNew"}
    BY <1>8 DEF AllocFree, AllocTable, AllocNew, Allocated, dirVars, loopVars
  <2>2. pc' \in {caller, "AllocNew"}
    BY <1>8 DEF AllocFree, AllocTable, AllocNew, Allocated, Goto
  <2> QED
    BY <1>1, <1>2, <2>1, <2>2 DEF Unstarted, InBig
<1>9. CASE BigSector
  <2>1. s \in Plain' /\ s >= 0 /\ pc = "BigSector"
    BY <1>9, HelperPlain DEF BigSector, PlainKept, TypeOK, CallType, Plain, Sectors
  <2>2. CASE old >= 0
    <3>1. dirs' = dirs /\ old # -1
      BY <1>9, <2>2 DEF BigSector
    <3> QED
      BY <1>1, <3>1 DEF Unstarted
  <2>3. CASE ~(old >= 0)
    <3>1. dirs' = [dirs EXCEPT ![arg.d].start = s]
      BY <1>9, <2>3 DEF BigSector
    <3>2. \A d \in DOMAIN dirs' : (d # arg.d /\ d \in DOMAIN dirs /\ dirs'[d] = dirs[d]) \/ dirs'[d].start = s
      BY <1>0, <3>1 DEF Entry
    <3> QED
      BY <1>0, <2>1, <3>2, StartKept DEF EndOr
  <2> QED
    BY <2>2, <2>3
<1>10. CASE WriteMiniNew
  <2>1. pc = "WriteMini" /\ (dirs' = dirs \/ \E m : dirs' = [dirs EXCEPT ![arg.d].start = m])
    BY <1>10 DEF WriteMiniNew
  <2>2. ~(arg.d \in DOMAIN dirs /\ IsBig(dirs[arg.d].size))
    BY <2>1 DEF IPointers, PCall, InMini
  <2>3. \A d \in DOMAIN dirs' :
          d \in DOMAIN dirs /\ dirs'[d].size = dirs[d].size /\ (d # arg.d => dirs'[d].start = dirs[d].start)
    <3>1. CASE dirs' = dirs
      BY <1>0, <3>1
    <3>2. ASSUME NEW m, dirs' = [dirs EXCEPT ![arg.d].start = m]
          PROVE \A d \in DOMAIN dirs : /\ d \in DOMAIN dirs' /\ dirs'[d].size = dirs[d].size
                                       /\ (d # arg.d => dirs'[d] = dirs[d])
      BY <1>0, <3>2 DEF Entry
    <3>3. DOMAIN dirs' = DOMAIN dirs
      BY <1>0, <2>1
    <3> QED
      BY <2>1, <3>1, <3>2, <3>3
  <2> QED
    BY <1>0, <2>1, <2>2, <2>3, StartKept DEF Unstarted, InBig
<1>11. CASE Container
  <2>1. pc = "Container" /\ (dirs' = dirs \/ dirs' = [dirs EXCEPT ![0].start = s])
    BY <1>11 DEF Container
  <2>2. s \in Plain'
    BY <2>1, HelperPlain DEF PlainKept
  <2>3. \A d \in DOMAIN dirs' : (d \in DOMAIN dirs /\ dirs'[d] = dirs[d]) \/ dirs'[d].start = s
    BY <1>0, <2>1 DEF Entry
  <2> QED
    BY <1>0, <2>1, <2>2, <2>3, StartKept DEF EndOr, Unstarted, InBig
<1>12. CASE DirSector
  <2>1. pc = "DirSector" /\ (dirs' = dirs \/ dirs' = Extend(dirs, Cardinality(DOMAIN dirs), DirsPerSector, EmptyEntry))
    BY <1>12 DEF DirSector, dirVars
  <2>2. \A d \in DOMAIN dirs' : (d \in DOMAIN dirs /\ dirs'[d] = dirs[d]) \/ dirs'[d] = EmptyEntry
    <3>1. Cardinality(DOMAIN dirs) = DirsPerSector * Len(memDir) /\ DOMAIN dirs = 0..(DirsPerSector * Len(memDir) - 1)
      BY Counts DEF TypeOK, DirType
    <3>2. DirsPerSector * Len(memDir) \in Nat /\ DirsPerSector \in Nat
      BY LayoutFacts DEF TypeOK, TablesType
    <3> QED
      BY <2>1, <3>1, <3>2 DEF Extend
  <2>3. ~IsBig(EmptyEntry.size)
    BY CutoffPositive DEF EmptyEntry
  <2> QED
    BY <1>0, <2>1, <2>2, <2>3, StartKept DEF Unstarted, InBig
<1>13. CASE NewEntry
  <2>1. pc = "NewEntry" /\ \E d, k : dirs' = [dirs EXCEPT ![d].kind = k]
    BY <1>13 DEF NewEntry
  <2>2. \A d \in DOMAIN dirs' : d \in DOMAIN dirs /\ dirs'[d].size = dirs[d].size /\ dirs'[d].start = dirs[d].start
    BY <1>0, <2>1 DEF Entry
  <2> QED
    BY <1>0, <2>1, <2>2, StartKept DEF Unstarted, InBig
<1>14. CASE Resize
  <2> DEFINE n == arg.size
  <2>1. /\ pc = "Resize" /\ arg' = arg /\ OldSize' = OldSize /\ old' = old /\ n \in Nat
        /\ dirs' = [dirs EXCEPT ![arg.d].size = IF OldSize # n THEN n ELSE @,
                               ![arg.d].start = IF n = 0 THEN ENDOFCHAIN ELSE @]
        /\ IsBig(n) => pc' = "WriteBig"
    BY <1>14, CutoffPositive DEF Resize, Goto, TypeOK, CallType
  <2>2. arg.d \in DOMAIN dirs /\ old = -1
    BY <2>1 DEF IControl, NotWriting
  <2>3. ~Unstarted
    BY <2>1 DEF Unstarted, InBig
  <2>4. \A d \in DOMAIN dirs' : d \in DOMAIN dirs /\ (d # arg.d => dirs'[d] = dirs[d])
    BY <2>1
  <2>5. /\ n # 0 => dirs'[arg.d].size = n /\ dirs'[arg.d].start = dirs[arg.d].start
        /\ n = 0 => EndOr(dirs'[arg.d].start, Plain')
    <3>1. dirs[arg.d] \in Entry /\ (OldSize # 0 => OldSize = dirs[arg.d].size)
      BY <1>0, <2>1, <2>2 DEF IPointers, PCall
    <3>2. dirs'[arg.d].start = IF n = 0 THEN ENDOFCHAIN ELSE dirs[arg.d].start
      BY <1>0, <2>1, <2>2, <3>1 DEF Entry
    <3>3. dirs'[arg.d].size = IF OldSize # n THEN n ELSE dirs[arg.d].size
      BY <1>0, <2>1, <2>2, <3>1 DEF Entry
    <3> QED
      BY <3>1, <3>2, <3>3 DEF EndOr, ENDOFCHAIN
  <2>6. IsBig(n) => EndOr(dirs'[arg.d].start, Plain') \/ Unstarted'
    <3>1. CASE OldSize = 0
      BY <2>1, <2>2, <3>1 DEF Unstarted, InBig
    <3>2. CASE OldSize # 0
      <4>1. IsBig(n) => IsBig(dirs[arg.d].size)
        BY <2>1, <3>2 DEF IPointers, PCall
      <4>2. IsBig(n) => EndOr(dirs[arg.d].start, Plain)
        BY <1>0, <2>2, <2>3, <4>1 DEF PStart
      <4>3. IsBig(n) => n # 0
        BY <2>1, CutoffPositive
      <4> QED
        BY <2>5, <4>2, <4>3 DEF PlainKept, EndOr
    <3> QED
      BY <3>1, <3>2
  <2> QED
    BY <1>0, <2>1, <2>3, <2>4, <2>5, <2>6, StartKept
<1> QED
  BY <1>3, <1>4, <1>5, <1>6, <1>7, <1>8, <1>9, <1>10, <1>11, <1>12, <1>13, <1>14 DEF Continue

(* Starting a call changes no start. *)
LEMMA CallStarts ==
  ASSUME TypeOK, IPointers, PlainKept, [Next]_vars, ~Continue
  PROVE PStart'
<1>1. CASE UNCHANGED vars
  BY <1>1, StartKept DEF IPointers, vars, dirVars, loopVars, Unstarted, InBig
<1>2. CASE ~UNCHANGED vars
  <2>1. dirs' = dirs /\ pc = "Idle"
    BY <1>2, FileCallKeeps DEF Next, StreamCall, AddStream, GetData, Answer, SetData, AppendData,
       dirVars, CanCall
  <2> QED
    BY <2>1, StartKept DEF IPointers, Unstarted, InBig
<1> QED
  BY <1>1, <1>2

-----------------------------------------------------------------------------
(* The locals of the call in progress.                                       *)
LEMMA SKept ==
  ASSUME IPointers, PlainKept, s' = s \/ s' = -1 \/ EndOr(s', Plain')
  PROVE EndOr(s', Plain')
BY DEF IPointers, PCall, EndOr, PlainKept

(* After a return the call's locals are empty. *)
LEMMA ReturnPointers ==
  ASSUME NEW r, Return(r)
  PROVE PCall'
BY DEF Return, PCall, EndOr, InBig, InMini, NotWriting

(* The free loops stay on sectors that are no FAT sectors. *)
LEMMA FreePointers ==
  ASSUME TypeOK, IControl, IPointers, PlainKept, FreeFAT \/ FreeMiniFAT \/ Freed
  PROVE PCall'
<1>1. CASE FreeFAT /\ SecID \in Sectors /\ CanAdd(SecID, "Free")
  <2>1. pc = "FreeFAT" /\ SecID' = next[SecID] /\ UNCHANGED <<pc, caller, arg, OldSize, offset, old, s>>
    BY <1>1 DEF FreeFAT
  <2>2. EndOr(SecID', Plain')
    BY <1>1, <2>1, FreeFATPointers DEF EndOr, PlainKept
  <2> QED
    BY <2>1, <2>2, SKept DEF IPointers, PCall, InBig, InMini, NotWriting
<1>2. CASE FreeMiniFAT /\ SecID \in Minis \ miniFree
  <2>1. pc = "FreeMiniFAT" /\ UNCHANGED <<pc, caller, arg, OldSize, offset, old, s>>
    BY <1>2 DEF FreeMiniFAT
  <2> QED
    BY <2>1, SKept DEF IPointers, PCall, InBig, InMini, NotWriting
<1>3. CASE Freed
  <2>1. pc \in {"FreeFAT", "FreeMiniFAT"} /\ pc' = caller /\ offset' = offset /\ s' = s
        /\ (caller = "Resize" => OldSize' = 0)
    BY <1>3 DEF Freed, Goto
  <2>2. caller \in {"Resize", "Update"}
    BY <2>1 DEF IControl
  <2>3. EndOr(s', Plain')
    BY <2>1, SKept
  <2>4. CASE caller = "Resize"
    BY <2>1, <2>3, <2>4 DEF IPointers, PCall, InBig, InMini, NotWriting
  <2>5. CASE caller = "Update"
    BY <2>1, <2>3, <2>5 DEF PCall, InBig, InMini, NotWriting
  <2> QED
    BY <2>2, <2>4, <2>5
<1> QED
  BY <1>1, <1>2, <1>3, ReturnPointers DEF FreeFAT, FreeMiniFAT

(* Directory.Write takes its first SecID from a start that is safe to follow. *)
LEMMA ResizePointers ==
  ASSUME TypeOK, IControl, IPointers, PlainKept, Resize
  PROVE PCall'
<1> DEFINE n == arg.size
<1>1. /\ pc = "Resize" /\ UNCHANGED <<arg, OldSize, offset, old, s>> /\ n \in Nat
      /\ dirs' = [dirs EXCEPT ![arg.d].size = IF OldSize # n THEN n ELSE @,
                               ![arg.d].start = IF n = 0 THEN ENDOFCHAIN ELSE @]
      /\ SecID' = IF n = 0 THEN ENDOFCHAIN ELSE dirs[arg.d].start
      /\ pc' = IF n = 0 THEN "Update" ELSE IF IsBig(n) THEN "WriteBig" ELSE "WriteMini"
  BY DEF Resize, Goto, TypeOK, CallType
<1>2. offset = 0 /\ arg.d \in DOMAIN dirs /\ ~InBig
  BY <1>1 DEF IPointers, PCall, IControl, NotWriting, InBig
<1>3. EndOr(s', Plain')
  BY <1>1, SKept
<1>4. CASE n = 0
  BY <1>1, <1>3, <1>4 DEF PCall, InBig, InMini, NotWriting
<1>5. CASE n # 0 /\ IsBig(n)
  <2>1. OldSize > 0 => EndOr(SecID', Plain')
    <3>1. OldSize > 0 => IsBig(dirs[arg.d].size)
      BY <1>1, <1>5 DEF IPointers, PCall
    <3>2. OldSize > 0 => EndOr(dirs[arg.d].start, Plain)
      BY <1>2, <3>1 DEF IPointers, PStart, Unstarted
    <3> QED
      BY <1>1, <1>5, <3>2 DEF EndOr, PlainKept
  <2>2. pc' = "WriteBig" /\ IsBig(arg'.size)
    BY <1>1, <1>5
  <2> QED
    BY <1>1, <1>2, <1>3, <2>1, <2>2 DEF PCall, InBig, InMini, NotWriting
<1>6. CASE n # 0 /\ ~IsBig(n)
  <2>1. pc' = "WriteMini" /\ dirs'[arg.d].size = n
    <3>1. dirs \in [DOMAIN dirs -> Entry] /\ (OldSize # 0 => OldSize = dirs[arg.d].size)
      BY <1>1 DEF TypeOK, DirType, IPointers, PCall
    <3>2. dirs'[arg.d].size = IF OldSize # n THEN n ELSE dirs[arg.d].size
      BY <1>1, <1>2, <3>1 DEF Entry
    <3> QED
      BY <1>1, <1>6, <3>1, <3>2
  <2>2. ~IsBig(dirs'[arg'.d].size)
    BY <1>1, <1>6, <2>1 DEF IsBig
  <2> QED
    BY <1>3, <2>1, <2>2 DEF PCall, InBig, InMini, NotWriting
<1> QED
  BY <1>4, <1>5, <1>6

(* The sector loop of Directory.Write follows safe links. *)
LEMMA BigPointers ==
  ASSUME TypeOK, IControl, IPointers, PlainKept, PNext',
         WriteBigExisting \/ WriteBigGrow \/ BigSector \/ FinishBig
  PROVE PCall'
<1>1. CASE WriteBigExisting /\ SecID \in Sectors
  <2>1. /\ pc = "WriteBig" /\ OldSize > 0 /\ pc' = "WriteBig" /\ SecID' = next[SecID]
        /\ UNCHANGED <<arg, OldSize, s>>
    BY <1>1 DEF WriteBigExisting, Existing, Goto, TypeOK, CallType
  <2>2. EndOr(SecID', Plain') /\ EndOr(s', Plain')
    BY <1>1, <2>1, SKept DEF IPointers, PNext, EndOr, PlainKept
  <2>3. IsBig(arg'.size) /\ OldSize' # 0
    BY <2>1 DEF IPointers, PCall, InBig, IsBig
  <2> QED
    BY <2>1, <2>2, <2>3 DEF PCall, InBig, InMini, NotWriting, Unstarted
<1>2. CASE WriteBigGrow
  <2>1. /\ pc = "WriteBig" /\ pc' = "Alloc" /\ caller' = "BigSector"
        /\ UNCHANGED <<arg, OldSize, offset, SecID, old, s>>
    BY <1>2 DEF WriteBigGrow, Goto, loopVars
  <2>2. IsBig(arg'.size) /\ EndOr(s', Plain')
    BY <2>1, SKept DEF IPointers, PCall, InBig, IsBig
  <2>3. OldSize' > 0 => EndOr(SecID', Plain')
    BY <2>1 DEF IPointers, PCall, InBig, EndOr, PlainKept
  <2>4. OldSize' = 0 /\ old' = -1 => offset' = 0
    BY <2>1 DEF IPointers, PCall, InBig, Unstarted
  <2> QED
    BY <2>1, <2>2, <2>3, <2>4 DEF PCall, InBig, InMini, NotWriting, Unstarted
<1>3. CASE BigSector /\ s \in loaded
  <2>1. /\ pc = "BigSector" /\ pc' = "WriteBig" /\ SecID' = next'[s] /\ old' = s /\ s' = -1
        /\ arg' = arg /\ nsec' = nsec
    BY <1>3 DEF BigSector, Goto
  <2>2. s \in Sectors /\ s # -1 /\ Sectors' = Sectors
    BY <2>1, HelperPlain DEF Sectors
  <2>3. EndOr(SecID', Plain')
    BY <2>1, <2>2 DEF PNext
  <2>4. IsBig(arg'.size)
    BY <2>1 DEF IPointers, PCall, InBig, IsBig
  <2> QED
    BY <2>1, <2>2, <2>3, <2>4 DEF PCall, InBig, InMini, NotWriting, Unstarted, EndOr
<1>4. CASE FinishBig
  <2>1. /\ pc = "WriteBig" /\ UNCHANGED <<OldSize, SecID, s>>
        /\ \/ pc' = "Update"
           \/ pc' = "FreeFAT" /\ caller' = "Update" /\ offset < OldSize
    BY <1>4 DEF FinishBig, Goto, loopVars
  <2>2. EndOr(s', Plain')
    BY <2>1, SKept
  <2>3. OldSize > 0 => EndOr(SecID', Plain')
    BY <2>1 DEF IPointers, PCall, InBig, EndOr, PlainKept
  <2>4. pc' = "FreeFAT" => OldSize > 0
    BY <2>1 DEF TypeOK, CallType
  <2> QED
    BY <2>1, <2>2, <2>3, <2>4 DEF PCall, InBig, InMini, NotWriting
<1> QED
  BY <1>1, <1>2, <1>3, <1>4, ReturnPointers DEF WriteBigExisting, BigSector

(* The mini sector loop of Directory.Write writes to no entry kept in sectors. *)
LEMMA MiniPointers ==
  ASSUME TypeOK, IControl, IPointers, PlainKept,
         WriteMiniExisting \/ WriteMiniNew \/ WriteMiniGrow \/ FinishMini
  PROVE PCall'
<1>1. pc = "WriteMini" /\ ~(arg.d \in DOMAIN dirs /\ IsBig(dirs[arg.d].size))
  BY DEF WriteMiniExisting, WriteMiniNew, WriteMiniGrow, FinishMini, IPointers, PCall, InMini
<1>2. ASSUME UNCHANGED <<arg, s>>, pc' = "WriteMini" \/ (pc' = "Alloc" /\ caller' \in {"MiniTable", "Container"}),
             dirs' = dirs \/ \E m : dirs' = [dirs EXCEPT ![arg.d].start = m]
      PROVE PCall'
  <2>1. EndOr(s', Plain')
    BY <1>2, SKept
  <2>2. DOMAIN dirs' = DOMAIN dirs /\ (arg.d \in DOMAIN dirs => dirs'[arg.d].size = dirs[arg.d].size)
    <3>1. dirs \in [DOMAIN dirs -> Entry]
      BY DEF TypeOK, DirType
    <3>2. ASSUME NEW m, dirs' = [dirs EXCEPT ![arg.d].start = m], arg.d \in DOMAIN dirs
          PROVE dirs'[arg.d].size = dirs[arg.d].size
      BY <3>1, <3>2 DEF Entry
    <3>3. DOMAIN dirs' = DOMAIN dirs
      BY <1>2, <3>1
    <3> QED
      BY <1>2, <3>2, <3>3
  <2> QED
    BY <1>1, <1>2, <2>1, <2>2 DEF PCall, InBig, InMini, NotWriting, IsBig
<1>3. CASE WriteMiniGrow
  BY <1>2, <1>3 DEF WriteMiniGrow, Goto, dirVars
<1>4. CASE FinishMini
  <2>1. s' = s /\ (pc' = "Update" \/ (pc' = "FreeMiniFAT" /\ caller' = "Update"))
    BY <1>4 DEF FinishMini, Goto
  <2> QED
    BY <2>1, SKept DEF PCall, InBig, InMini, NotWriting
<1>5. ASSUME NEW m, NEW link, NEW up, WriteMiniAt(m, link, up),
             dirs' = dirs \/ \E k : dirs' = [dirs EXCEPT ![arg.d].start = k]
      PROVE PCall'
  BY <1>2, <1>5, ReturnPointers DEF WriteMiniAt, Goto
<1>6. CASE WriteMiniExisting
  BY <1>5, <1>6, ReturnPointers DEF WriteMiniExisting, dirVars
<1>7. CASE WriteMiniNew
  BY <1>5, <1>7 DEF WriteMiniNew
<1> QED
  BY <1>3, <1>4, <1>6, <1>7

(* addSector keeps the locals of the write it serves. *)
LEMMA SectorPointers ==
  ASSUME TypeOK, IControl, ListsMatchSet, IPointers, PlainKept,
         AllocFree \/ AllocTable \/ AllocNew \/ MiniTable \/ Container \/ DirSector \/ NewEntry \/ Update
  PROVE PCall'
<1>1. CASE AllocFree \/ AllocTable \/ AllocNew
  <2>1. /\ pc \in {"Alloc", "AllocNew"} /\ pc' \in {"AllocNew", caller} /\ caller' = caller
        /\ dirs' = dirs /\ UNCHANGED <<arg, OldSize, offset, SecID, old>>
    BY <1>1 DEF AllocFree, AllocTable, AllocNew, Allocated, Goto, dirVars, loopVars
  <2>2. caller \in {"BigSector", "MiniTable", "Container", "DirSector"}
    BY <2>1 DEF IControl
  <2>3. EndOr(s', Plain')
    BY <1>1, AllocPointers
  <2>4. InBig' = InBig /\ InMini' = InMini /\ ~NotWriting' /\ pc' # "FreeFAT" /\ pc' # "Resize"
    BY <2>1, <2>2 DEF InBig, InMini, NotWriting
  <2>5. InBig => IsBig(arg'.size) /\ (OldSize' > 0 => EndOr(SecID', Plain'))
    BY <2>1 DEF IPointers, PCall, IsBig, EndOr, PlainKept
  <2>6. InBig /\ OldSize' = 0 /\ old' = -1 => offset' = 0
    BY <2>1 DEF IPointers, PCall, Unstarted
  <2>7. InMini => ~(arg'.d \in DOMAIN dirs' /\ IsBig(dirs'[arg'.d].size))
    BY <2>1 DEF IPointers, PCall, IsBig
  <2> QED
    BY <2>3, <2>4, <2>5, <2>6, <2>7 DEF PCall, Unstarted
<1>2. CASE MiniTable /\ CanAdd(s, "TableMini")
  <2>1. pc = "MiniTable" /\ pc' = "Alloc" /\ caller' = "Container" /\ s' = -1 /\ UNCHANGED <<arg, dirs>>
    BY <1>2 DEF MiniTable, Goto, dirVars
  <2>2. ~(arg'.d \in DOMAIN dirs' /\ IsBig(dirs'[arg'.d].size))
    BY <2>1 DEF IPointers, PCall, InMini, IsBig
  <2> QED
    BY <2>1, <2>2 DEF PCall, InBig, InMini, NotWriting, EndOr
<1>3. CASE Container
  <2>1. /\ pc = "Container" /\ pc' = "WriteMini" /\ s' = -1 /\ arg' = arg
        /\ dirs' = dirs \/ dirs' = [dirs EXCEPT ![0].start = s]
    BY <1>3 DEF Container, Goto
  <2>2. DOMAIN dirs' = DOMAIN dirs /\ (arg.d \in DOMAIN dirs => dirs'[arg.d].size = dirs[arg.d].size)
    <3>1. dirs \in [DOMAIN dirs -> Entry]
      BY DEF TypeOK, DirType
    <3>2. CASE dirs' = [dirs EXCEPT ![0].start = s]
      BY <3>1, <3>2 DEF Entry
    <3> QED
      BY <2>1, <3>2
  <2>3. ~(arg'.d \in DOMAIN dirs' /\ IsBig(dirs'[arg'.d].size))
    BY <2>1, <2>2 DEF IPointers, PCall, InMini, IsBig
  <2> QED
    BY <2>1, <2>3 DEF PCall, InBig, InMini, NotWriting, EndOr
<1>4. CASE DirSector /\ CanAdd(s, "Dir")
  <2>1. pc' = "NewEntry" /\ s' = -1
    BY <1>4 DEF DirSector, Goto
  <2> QED
    BY <2>1 DEF PCall, InBig, InMini, NotWriting, EndOr
<1> QED
  BY <1>1, <1>2, <1>3, <1>4, ReturnPointers DEF MiniTable, DirSector, NewEntry, Update

(* Directory.Write starts freeing at a start that is safe to follow. *)
LEMMA WritePointers ==
  ASSUME TypeOK, IPointers, PlainKept, pc = "Idle", UNCHANGED <<nsec, dirs>>,
         NEW d \in Streams, NEW n, NEW b, Write(d, n, b)
  PROVE PCall'
<1>1. s' = s /\ offset' = offset /\ offset = 0
  BY DEF Write, IPointers, PCall, NotWriting, loopVars
<1>2. EndOr(s', Plain')
  BY <1>1, SKept
<1>3. dirs[d].size \in Nat /\ (IsBig(dirs[d].size) => EndOr(dirs[d].start, Plain))
  BY DEF Streams, TypeOK, DirType, Entry, IPointers, PStart, Unstarted, InBig
<1> DEFINE was == dirs[d].size
           dropsFAT == IsBig(was) /\ ~IsBig(n)
           dropsMini == was > 0 /\ ~IsBig(was) /\ (IsBig(n) \/ n = 0)
<1>4. \/ pc' = "Idle"
      \/ dropsFAT /\ pc' = "FreeFAT" /\ caller' = "Resize" /\ SecID' = dirs[d].start
      \/ dropsMini /\ pc' = "FreeMiniFAT"
      \/ ~dropsFAT /\ ~dropsMini /\ pc' = "Resize" /\ OldSize' = was /\ arg' = [op |-> "SetData", d |-> d, size |-> n, buf |-> b]
  BY DEF Write
<1>5. CASE pc' \in {"Idle", "FreeMiniFAT"}
  BY <1>1, <1>2, <1>5 DEF PCall, InBig, InMini, NotWriting
<1>6. CASE dropsFAT /\ pc' = "FreeFAT" /\ SecID' = dirs[d].start
  <2>1. EndOr(SecID', Plain')
    BY <1>3, <1>6 DEF EndOr, PlainKept
  <2> QED
    BY <1>1, <1>2, <1>6, <2>1 DEF PCall, InBig, InMini, NotWriting
<1>7. CASE ~dropsFAT /\ ~dropsMini /\ pc' = "Resize" /\ OldSize' = was /\ arg' = [op |-> "SetData", d |-> d, size |-> n, buf |-> b]
  <2>1. OldSize' # 0 => OldSize' = dirs'[arg'.d].size
    BY <1>7
  <2>2. OldSize' # 0 /\ IsBig(arg'.size) => IsBig(OldSize')
    BY <1>3, <1>7 DEF IsBig
  <2> QED
    BY <1>1, <1>2, <1>7, <2>1, <2>2 DEF PCall, InBig, InMini, NotWriting, IsBig
<1> QED
  BY <1>4, <1>5, <1>6, <1>7

(* Every call starts with safe locals. *)
LEMMA CallPointers ==
  ASSUME TypeOK, IPointers, PlainKept, [Next]_vars, ~Continue
  PROVE PCall'
<1> USE DEF memVars, sectorVars, dirVars, loopVars
<1>0. ASSUME UNCHANGED <<pc, caller, arg, OldSize, offset, SecID, old, s, dirs>>
      PROVE PCall'
  <2>1. EndOr(s', Plain')
    BY <1>0, SKept
  <2> QED
    BY <1>0, <2>1 DEF IPointers, PCall, InBig, InMini, NotWriting, Unstarted, IsBig, EndOr, PlainKept
<1>1. CASE UNCHANGED vars
  BY <1>0, <1>1 DEF vars
<1>2. CASE AddStream
  <2>1. s' = s /\ ((pc' = "Alloc" /\ caller' = "DirSector") \/ pc' = "NewEntry")
    BY <1>2 DEF AddStream
  <2> QED
    BY <2>1, SKept DEF PCall, InBig, InMini, NotWriting
<1>3. ASSUME NEW d \in Streams, GetData(d)
      PROVE PCall'
  BY <1>0, <1>3 DEF GetData, Answer
<1>4. ASSUME NEW d \in Streams, NEW v \in Values, NEW n \in Sizes, SetData(d, v, n)
      PROVE PCall'
  BY <1>4, WritePointers DEF SetData, CanCall
<1>5. ASSUME NEW d \in Streams, NEW v \in Values, NEW n \in AppendSizes, AppendData(d, v, n)
      PROVE PCall'
  BY <1>0, <1>5, WritePointers DEF AppendData, CanCall
<1>6. CASE FileCall
  BY <1>0, <1>6, FileCallKeeps
<1> QED
  BY <1>1, <1>2, <1>3, <1>4, <1>5, <1>6 DEF Next, StreamCall

(* IPointers is kept by every step. *)
LEMMA StepPointers ==
  ASSUME TypeOK, IControl, ListsMatchSet, IPointers, [Next]_vars
  PROVE IPointers'
<1>1. PlainKept /\ PNext' /\ PTables'
  BY MemoryPointers
<1>2. PStart'
  BY <1>1, ContinueStarts, CallStarts
<1>3. PCall'
  BY <1>1, FreePointers, ResizePointers, BigPointers, MiniPointers, SectorPointers, CallPointers DEF Continue
<1> QED
  BY <1>1, <1>2, <1>3 DEF IPointers

(* IPointers holds after New and Open. *)
LEMMA InitPointers ==
  ASSUME Init
  PROVE IPointers
<1>1. s = -1 /\ offset = 0
  BY DEF Init, InitCommon
<1>2. CASE InitNew
  <2>1. Sectors = {} /\ DOMAIN dirs = {} /\ pc = "Alloc" /\ caller = "DirSector"
    BY <1>2 DEF InitNew, Sectors
  <2> QED
    BY <1>1, <2>1 DEF IPointers, PTables, FATSectors, PNext, PStart, PCall, EndOr, InBig, InMini, NotWriting
<1>3. ASSUME NEW n \in 2..EntriesPerSector, InitOpened(n)
      PROVE IPointers
  <2>1. pc = "Idle" /\ loaded = {0, 1} /\ \A x \in Sectors : next[x] < 0
    BY <1>3 DEF InitOpened, OpenedNext, FATSECT, ENDOFCHAIN, FREESECT
  <2>2. FATSectors \subseteq {0}
    BY <1>3 DEF InitOpened, FATSectors
  <2>3. \A d \in DOMAIN dirs : ~IsBig(dirs[d].size)
    <3>1. \A d \in DOMAIN dirs : dirs[d].size = 0
      BY <1>3 DEF InitOpened, EmptyEntry
    <3> QED
      BY <3>1, CutoffPositive
  <2> QED
    BY <1>1, <2>1, <2>2, <2>3 DEF IPointers, PTables, PNext, PStart, PCall, EndOr, InBig, InMini, NotWriting
<1> QED
  BY <1>2, <1>3, InstanceAssumption DEF Init

(***************************************************************************)
(* In every state of every run no sector's next, nor the sector a call     *)
(* holds, is a FAT or DIFAT sector, and every FAT and DIFAT sector has its *)
(* data: whatever chains the calls build, cut and leave half built, and    *)
(* whatever errors they return, Memory.Push (memory.go:239-245) never      *)
(* drops the FAT itself.                                                   *)
(***************************************************************************)
THEOREM TableSectorsCorrect == Spec => []TableSectorsSafe
<1>1. Init => TypeOK /\ IControl /\ ListsMatchSet /\ IPointers
  BY InitType, InitLists, InitPointers
<1>2. TypeOK /\ IControl /\ ListsMatchSet /\ IPointers /\ [Next]_vars
        => TypeOK' /\ IControl' /\ ListsMatchSet' /\ IPointers'
  BY StepType, StepLists, StepPointers
<1>3. TypeOK /\ IPointers => TableSectorsSafe
  <2>1. \A p : EndOr(p, Plain) => p \notin FATSectors
    <3>1. \A p \in FATSectors : p >= 0 /\ p \notin Plain
      BY DEF FATSectors, Plain, Sectors
    <3>2. \A p \in FATSectors : ~(p < 0)
      BY DEF FATSectors, Sectors
    <3> QED
      BY <3>1, <3>2 DEF EndOr
  <2> QED
    BY <2>1 DEF IPointers, PTables, PNext, PCall, TableSectorsSafe
<1> QED
  BY <1>1, <1>2, <1>3, PTL DEF Spec
=============================================================================
