---------------------------- MODULE SectorMemory ----------------------------
(***************************************************************************)
(* The sectors of a compound file and the memory that hands them out:      *)
(* sector.go (SectorCollection, Sector), memory.go (Memory) and the part   *)
(* of CompoundFile.addSector (mcdf.go) that allocates a sector and grows   *)
(* the FAT, the DIFAT and the header for it.                               *)
(*                                                                         *)
(* The sectors are 0..nsec-1.  What a table sector holds is kept in the    *)
(* table's own variable (fat, difat and, in CompoundFile, miniTable and    *)
(* dirSect); data is what a sector holds of the streams, one token for     *)
(* each mini sector of it.                                                 *)
(*                                                                         *)
(* Memory.changeFAT(s) is fat' = [fat EXCEPT ![s] = next'[s]].  Its error  *)
(* returns (no table sector for s, a table sector without data) are not    *)
(* branches: Coverage and TableSectorsSafe, checked and proved, say that   *)
(* they cannot be taken.                                                   *)
(***************************************************************************)
EXTENDS Layout, Sequences, FiniteSets

CONSTANT Values    \* payloads a caller writes

VARIABLES
  nsec,       \* SectorCollection.Len()
  next,       \* Sector.next, as the int32 the code compares
  loaded,     \* the sectors with data # nil
  data,       \* what a loaded sector holds of the streams
  set,        \* Memory.set: the list a sector is in, or "none"
  memFat, memMini, memDir, memDIFAT, memFree,   \* Memory.data[...]
  fat,        \* the slots of the FAT sectors, in the order of memFat
  difat,      \* the slots of each DIFAT sector, in the order of memDIFAT
  header      \* the header fields that change after New or Open

sectorVars == <<nsec, next, loaded, data>>
fatVars == <<memFat, memDIFAT, fat, difat, header>>
memoryVars == <<set, memMini, memDir, memFree>>
memVars == <<sectorVars, fatVars, memoryVars>>

Sectors == 0..(nsec - 1)

\* A token names what a mini-sector-sized piece of a sector holds: piece k of
\* the data written to stream d with payload v, zero bytes, or bytes that
\* were in the file.
Zero == <<0, "zero", 0>>
OnDisk == <<0, "disk", 0>>
BlockOf(tok) == [i \in 0..(MinisPerSector - 1) |-> tok]

ListNames == {"TableFat", "TableMini", "Dir", "DIFAT", "Free"}

CountFat == EntriesPerSector * Len(memFat)
CountMini == EntriesPerSector * Len(memMini)

\* Memory.addSector's `if s.next == 0`: the value next gets when the sector
\* joins list t.
DefaultNext(n, t) ==
  IF n # 0 THEN n
  ELSE CASE t = "TableFat" -> FATSECT
         [] t \in {"TableMini", "Dir"} -> ENDOFCHAIN
         [] t = "DIFAT" -> DIFSECT
         [] t = "Free" -> FREESECT

\* newSector sets next to FREESECT, so a table sector made by it keeps that.
NewNext(t) == DefaultNext(FREESECT, t)

\* Memory.addSector accepts sector x in list t.
CanAdd(x, t) == set[x] = "none" /\ (x \in loaded \/ t = "Free")

-----------------------------------------------------------------------------
(***************************************************************************)
(* addSector(TypeSectorFAT), mcdf.go:460-482, in three outcomes.           *)
(***************************************************************************)

\* Mutant of PopFree: without the delete from Memory.set.
PopFreeStillSet(x) ==
  /\ memFree # <<>>
  /\ x = Head(memFree)
  /\ memFree' = Tail(memFree)
  /\ UNCHANGED <<sectorVars, fatVars, memMini, memDir, set>>

\* A freed sector is handed out again, in the order they were freed; its
\* data stays nil and its next what it was.
PopFree(x) ==
  /\ memFree # <<>>
  /\ x = Head(memFree)
  /\ memFree' = Tail(memFree)
  /\ set' = [set EXCEPT ![x] = "none"]
  /\ UNCHANGED <<sectorVars, fatVars, memMini, memDir>>

\* Mutant of NeedsTable: the last slot of the table is taken for the sector
\* asked for, without room for a new table.
NeedsTableLate == memFree = <<>> /\ nsec > CountFat

NeedsTable == memFree = <<>> /\ nsec >= CountFat

\* k sectors are appended with zeroed data; the i-th joins list ts[i] and its
\* own FAT slot is written.
AppendSectors(k, ts, slots) ==
  /\ nsec' = nsec + k
  /\ next' = [i \in 0..(nsec + k - 1) |->
                IF i < nsec THEN next[i] ELSE NewNext(ts[i - nsec + 1])]
  /\ loaded' = loaded \cup nsec..(nsec + k - 1)
  /\ data' = Extend(data, nsec, k, BlockOf(Zero))
  /\ set' = [i \in 0..(nsec + k - 1) |->
               IF i < nsec THEN set[i] ELSE ts[i - nsec + 1]]
  /\ fat' = [i \in 0..(CountFat + slots - 1) |->
               IF i \in nsec..(nsec + k - 1) THEN NewNext(ts[i - nsec + 1])
               ELSE IF i < CountFat THEN fat[i] ELSE FREESECT]

\* sectors.Add(newSector()) and its FAT slot.
NewSector(x) ==
  /\ x = nsec
  /\ AppendSectors(1, <<"none">>, 0)
  /\ UNCHANGED <<memFat, memMini, memDir, memDIFAT, memFree, difat, header>>

-----------------------------------------------------------------------------
(***************************************************************************)
(* addSector(TypeSectorMemmoryFAT), mcdf.go:483-566: one more FAT sector,  *)
(* named in the header while it has room and no DIFAT sector exists, else  *)
(* in a DIFAT sector.                                                      *)
(***************************************************************************)
FATSize == Len(memFat) + 1
InHeader == FATSize <= HeaderSlots /\ header.numDIFATSector = 0
DIFATIndex == (FATSize - HeaderSlots - 1) \div (EntriesPerSector - 1)
DIFATOffset == (FATSize - HeaderSlots - 1) % (EntriesPerSector - 1)

AddTableInHeader ==
  /\ InHeader
  /\ AppendSectors(1, <<"TableFat">>, EntriesPerSector)
  /\ memFat' = Append(memFat, nsec)
  /\ header' = [header EXCEPT !.numFATSector = FATSize,
                              !.headerDIFAT[FATSize - 1] = nsec]
  /\ UNCHANGED <<memMini, memDir, memDIFAT, memFree, difat>>

\* The DIFAT sector with the slot exists.
AddTableInDIFAT ==
  /\ ~InHeader
  /\ DIFATIndex < Len(memDIFAT)
  /\ AppendSectors(1, <<"TableFat">>, EntriesPerSector)
  /\ memFat' = Append(memFat, nsec)
  /\ difat' = [difat EXCEPT ![DIFATIndex + 1][DIFATOffset] = nsec]
  /\ UNCHANGED <<memMini, memDir, memDIFAT, memFree, header>>

\* Mutant of NewDIFATSlots: the unused slots stay zero.
NewDIFATSlotsZero(x) ==
  [j \in 0..(EntriesPerSector - 1) |->
     IF j = 0 THEN x ELSE IF j = EntriesPerSector - 1 THEN ENDOFCHAIN ELSE 0]

\* The slots of a fresh DIFAT sector that names FAT sector x.
NewDIFATSlots(x) ==
  [j \in 0..(EntriesPerSector - 1) |->
     IF j = 0 THEN x ELSE IF j = EntriesPerSector - 1 THEN ENDOFCHAIN ELSE FREESECT]

\* A further DIFAT sector is appended after the FAT sector it names first and
\* linked from the last slot of the one before, or from the header.
AddTableAndDIFAT ==
  /\ ~InHeader
  /\ DIFATIndex >= Len(memDIFAT)
  /\ AppendSectors(2, <<"TableFat", "DIFAT">>, EntriesPerSector)
  /\ memFat' = Append(memFat, nsec)
  /\ memDIFAT' = Append(memDIFAT, nsec + 1)
  /\ difat' = Append(IF difat = <<>> THEN difat
                     ELSE [difat EXCEPT ![Len(difat)][EntriesPerSector - 1] = nsec + 1],
                     NewDIFATSlots(nsec))
  /\ header' = [header EXCEPT
                  !.numDIFATSector = Len(memDIFAT) + 1,
                  !.firstDIFATSectorLocation = IF difat = <<>> THEN nsec + 1 ELSE @]
  /\ UNCHANGED <<memMini, memDir, memFree>>

-----------------------------------------------------------------------------
(***************************************************************************)
(* Memory.Push(x), memory.go:239-245, and the changeFAT FreeFAT makes      *)
(* after it.  The data is dropped whether or not the sector joins the      *)
(* list; next, and so the FAT slot, keeps the old link.                    *)
(***************************************************************************)
Push(x) ==
  /\ loaded' = loaded \ {x}
  /\ data' = [data EXCEPT ![x] = BlockOf(Zero)]
  /\ IF CanAdd(x, "Free")
     THEN /\ next' = [next EXCEPT ![x] = DefaultNext(@, "Free")]
          /\ set' = [set EXCEPT ![x] = "Free"]
          /\ memFree' = Append(memFree, x)
          /\ fat' = [fat EXCEPT ![x] = next'[x]]
     ELSE UNCHANGED <<next, set, memFree, fat>>
  /\ UNCHANGED <<nsec, memFat, memDIFAT, difat, header, memMini, memDir>>
=============================================================================
