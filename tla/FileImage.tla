------------------------------ MODULE FileImage ------------------------------
(***************************************************************************)
(* The sectors in memory and the file they are read from and written to:   *)
(* the modified flags, Commit, Save, Close, Open, and a crash in between.  *)
(*                                                                         *)
(* What calls do to sectors is a choice of the steps they consist of, any  *)
(* sector and any content; which of them a call takes, and the list of the *)
(* sectors that are free, are the subject of CompoundFile.  Save and       *)
(* Commit go sector by sector.  Blocks of the file are numbered as the     *)
(* sectors they should hold.                                               *)
(***************************************************************************)
EXTENDS Naturals

CONSTANTS
  Contents,     \* what a sector can hold
  Headers,      \* what the header can say
  NoData,       \* Sector.data is nil
  Any,          \* of a sector: nobody relies on what it holds
  MaxSectors,   \* bound: no sector is added to more
  MaxOpened,    \* bound: the blocks of the files opened at first
  NewSectors    \* the sectors New leaves

ASSUME ImageAssumption ==
  /\ MaxSectors \in Nat /\ MaxOpened \in Nat /\ NewSectors \in Nat \ {0}
  /\ NoData \notin [value : Contents, bitten : BOOLEAN] /\ Any \notin Contents

VARIABLES
  count,           \* the number of sectors
  data,            \* Sector.data
  modified,        \* the sectors whose flag is set
  header,          \* the header in memory
  headerModified,
  attached,        \* CompoundFile.f is not nil
  size,            \* the number of blocks of that file
  blocks,          \* what they are
  diskHeader,      \* what its header says
  pc,              \* the call under way
  at,              \* the iterator of Save and Commit
  offset,          \* where Commit writes next, in blocks
  copy,            \* the File Save builds
  result,          \* of the last call, when it was Save or Commit
  doc,             \* history: what each sector should hold
  before,          \* history: the blocks when Commit began
  damaged,         \* history: a Commit wrote a block to a wrong place, or a wrong byte
  unmarked         \* history: the header has changed and has not been marked since

sectorVars == <<count, data, modified, doc>>
headerVars == <<header, headerModified, unmarked>>
fileVars == <<attached, size, blocks, diskHeader>>
callVars == <<pc, at, offset, before>>
vars == <<sectorVars, headerVars, fileVars, callVars, copy, result, damaged>>

Sectors == 0 .. (count - 1)

\* A block, and whether its first byte is the 513th of a header.
Block == [value : Contents, bitten : BOOLEAN]
Intact(c) == [value |-> c, bitten |-> FALSE]

NoBlocks == [s \in {} |-> NoData]
NoCopy == [header |-> NoData, blocks |-> NoBlocks]

-----------------------------------------------------------------------------
(***************************************************************************)
(* Reading and writing.                                                    *)
(***************************************************************************)

\* Sector.Read: data that is nil is read from the sector's place in the file,
\* which has to be there.
Readable(s) == data[s] # NoData \/ (attached /\ s < size)
BlockOf(s) == IF data[s] # NoData THEN data[s] ELSE blocks[s]

\* WriteAt at the place of block k: the file grows when it ends there.
Grown(n, k) == IF k < n THEN n ELSE k + 1
Written(bs, n, k, b) == [s \in 0 .. (Grown(n, k) - 1) |-> IF s = k THEN b ELSE bs[s]]

\* WriteAt of the 513 bytes of Header.Bytes, whose last is the flag `modified'.
Bitten(bs, n) ==
  [s \in 0 .. (n - 1) |-> IF s = 0 THEN [value |-> bs[s].value, bitten |-> TRUE] ELSE bs[s]]

-----------------------------------------------------------------------------
(***************************************************************************)
(* What the document's calls do to sectors and header.                     *)
(***************************************************************************)

Idle == pc = "Idle"

\* A step of another call than Save and Commit.
Step ==
  /\ Idle
  /\ result' = "none" /\ copy' = NoCopy
  /\ UNCHANGED <<fileVars, callVars, damaged>>

\* Sector.Read and read of a sector that a call comes to.
Load(s) ==
  /\ Step
  /\ data[s] = NoData /\ Readable(s)
  /\ data' = [data EXCEPT ![s] = blocks[s]]
  /\ UNCHANGED <<count, modified, doc, headerVars>>

\* Mutant of WriteSector: the sector is not marked.
WriteSectorUnmarked(s, c) ==
  /\ Step
  /\ data[s] # NoData
  /\ data' = [data EXCEPT ![s].value = c]
  /\ doc' = [doc EXCEPT ![s] = c]
  /\ UNCHANGED <<count, modified, headerVars>>

\* Sector.Write, which refuses a sector without data.  It need not reach the
\* first byte.
WriteSector(s, c) ==
  /\ Step
  /\ data[s] # NoData
  /\ data' = [data EXCEPT ![s].value = c]
  /\ modified' = modified \cup {s}
  /\ doc' = [doc EXCEPT ![s] = c]
  /\ UNCHANGED <<count, headerVars>>

\* Directory.Write comes to a sector of the stream that has not been read: it is
\* given zeroes, and then written.
WriteFresh(s, c) ==
  /\ Step
  /\ data[s] = NoData
  /\ data' = [data EXCEPT ![s] = Intact(c)]
  /\ modified' = modified \cup {s}
  /\ doc' = [doc EXCEPT ![s] = c]
  /\ UNCHANGED <<count, headerVars>>

\* changeFAT writes one slot of a FAT sector t, which holds d then.
IsFAT(t) == data[t] # NoData /\ doc[t] # Any
SlotSet(t, d) == [data EXCEPT ![t].value = d]

\* Mutant of Append: the new sector has no data yet.
AppendWithoutData(c, held, should) ==
  /\ Step
  /\ count < MaxSectors
  /\ count' = count + 1
  /\ data' = [s \in 0 .. count |-> IF s = count THEN NoData ELSE held[s]]
  /\ doc' = [s \in 0 .. count |-> IF s = count THEN c ELSE should[s]]

\* A sector is appended, with the content its caller gives it, to those that
\* hold what held says.
Append(c, held, should) ==
  /\ Step
  /\ count < MaxSectors
  /\ count' = count + 1
  /\ data' = [s \in 0 .. count |-> IF s = count THEN Intact(c) ELSE held[s]]
  /\ doc' = [s \in 0 .. count |-> IF s = count THEN c ELSE should[s]]

\* The new sector and the FAT sector with its slot are marked.
AppendInFAT(c, t, d) ==
  /\ IsFAT(t)
  /\ Append(c, SlotSet(t, d), [doc EXCEPT ![t] = d])
  /\ modified' = modified \cup {count, t}

\* For a stream, a directory sector of an opened file, or a container.
AddSector(c, t, d) == AppendInFAT(c, t, d) /\ UNCHANGED headerVars

\* For the FAT or a DIFAT sector, whose slots are in the new FAT sector: the
\* header is not marked.
AddFAT(c, h) ==
  /\ Append(c, data, doc)
  /\ modified' = modified \cup {count}
  /\ header' = h /\ unmarked' = TRUE /\ UNCHANGED headerModified

MarkHeader(h) == header' = h /\ headerModified' = TRUE /\ UNCHANGED unmarked

\* For the miniFAT: the header is marked.  A sector that was free has the data it
\* had, and memory refuses it when that is nil.
AddMiniFAT(c, h, t, d) == AppendInFAT(c, t, d) /\ MarkHeader(h)
ReuseForMiniFAT(h) ==
  Step /\ MarkHeader(h) /\ UNCHANGED sectorVars

\* FreeFAT comes to a sector that is in a list: Push refuses it, but leaves it
\* without data.  It is marked when it had none.
DropSector(s) ==
  /\ Step
  /\ data' = [data EXCEPT ![s] = NoData]
  /\ modified' = IF data[s] = NoData THEN modified \cup {s} ELSE modified
  /\ doc' = [doc EXCEPT ![s] = Any]
  /\ UNCHANGED <<count, headerVars>>

\* FreeFAT of one sector: the FAT sector with its slot is marked too.
FreeSector(s, t, d) ==
  /\ Step
  /\ IsFAT(t) /\ t # s
  /\ data' = [SlotSet(t, d) EXCEPT ![s] = NoData]
  /\ modified' = (IF data[s] = NoData THEN modified \cup {s} ELSE modified) \cup {t}
  /\ doc' = [doc EXCEPT ![t] = d, ![s] = Any]
  /\ UNCHANGED <<count, headerVars>>

\* A free sector becomes a container: it and the FAT sector with its slot are
\* marked, and it has the data it had.
Reuse(s, t, d) ==
  /\ Step
  /\ doc[s] = Any /\ IsFAT(t)
  /\ data' = SlotSet(t, d)
  /\ modified' = modified \cup {s, t}
  /\ doc' = [doc EXCEPT ![t] = d]
  /\ UNCHANGED <<count, headerVars>>

-----------------------------------------------------------------------------
(***************************************************************************)
(* Save.                                                                   *)
(***************************************************************************)

Begin(call) == pc' = call /\ at' = 0 /\ offset' = 0
End(outcome) ==
  /\ pc' = "Idle" /\ at' = 0 /\ offset' = 0 /\ before' = NoBlocks
  /\ result' = outcome

\* The header is written first: its last byte lies where sector 0 comes next.
Save ==
  /\ Idle
  /\ Begin("Save")
  /\ copy' = [header |-> header, blocks |-> NoBlocks]
  /\ result' = "none"
  /\ UNCHANGED <<sectorVars, headerVars, fileVars, before, damaged>>

\* Mutant of SaveSector: the sector is copied from the file if it is there.
SaveSectorFromFile ==
  /\ pc = "Save" /\ at < count /\ Readable(at)
  /\ data' = [data EXCEPT ![at] = BlockOf(at)]
  /\ copy' = [copy EXCEPT !.blocks =
                Written(@, at, at, IF attached /\ at < size THEN blocks[at] ELSE data[at])]
  /\ at' = at + 1
  /\ UNCHANGED <<count, modified, doc, headerVars, fileVars, pc, offset, before, result, damaged>>

\* One round of the loop: the sector is read, and stays read.
SaveSector ==
  /\ pc = "Save" /\ at < count /\ Readable(at)
  /\ data' = [data EXCEPT ![at] = BlockOf(at)]
  /\ copy' = [copy EXCEPT !.blocks = Written(@, at, at, BlockOf(at))]
  /\ at' = at + 1
  /\ UNCHANGED <<count, modified, doc, headerVars, fileVars, pc, offset, before, result, damaged>>

\* Neither the sector nor the file has the data.
SaveFails ==
  /\ pc = "Save" /\ at < count /\ ~Readable(at)
  /\ End("failed")
  /\ copy' = NoCopy
  /\ UNCHANGED <<sectorVars, headerVars, fileVars, damaged>>

SaveEnds ==
  /\ pc = "Save" /\ at = count
  /\ End("saved")
  /\ UNCHANGED <<sectorVars, headerVars, fileVars, copy, damaged>>

-----------------------------------------------------------------------------
(***************************************************************************)
(* Commit.                                                                 *)
(***************************************************************************)

\* The modified sectors are those before some sector, so that writing them one
\* after the other puts each in its place, and sector 0 is in memory and among
\* them if the header's last byte is to be written over.
InPlace ==
  /\ \A s \in modified : \A r \in 0..s : r \in modified
  /\ headerModified => 0 \in modified /\ data[0] # NoData

\* The header, when it is marked; without a file Commit only returns an error.
Commit ==
  /\ Idle /\ attached
  /\ Begin("Commit")
  /\ before' = blocks
  /\ damaged' = (damaged \/ ~InPlace)
  /\ diskHeader' = IF headerModified THEN header ELSE diskHeader
  /\ blocks' = IF headerModified THEN Bitten(blocks, size) ELSE blocks
  /\ unmarked' = (unmarked /\ ~headerModified)
  /\ headerModified' = FALSE
  /\ result' = "none" /\ copy' = NoCopy
  /\ UNCHANGED <<sectorVars, header, attached, size>>

CommitSkips ==
  /\ pc = "Commit" /\ at < count /\ at \notin modified
  /\ at' = at + 1
  /\ UNCHANGED <<sectorVars, headerVars, fileVars, pc, offset, before, copy, result, damaged>>

\* Mutant of CommitSector: the offset does not advance.
CommitSectorStays ==
  /\ pc = "Commit" /\ at < count /\ at \in modified /\ Readable(at)
  /\ data' = [data EXCEPT ![at] = BlockOf(at)]
  /\ blocks' = Written(blocks, size, offset, BlockOf(at))
  /\ size' = Grown(size, offset)
  /\ modified' = modified \ {at}
  /\ at' = at + 1
  /\ UNCHANGED <<count, doc, headerVars, attached, diskHeader, pc, offset, before, copy, result, damaged>>

\* The offset only advances here, with a sector that is written.
CommitSector ==
  /\ pc = "Commit" /\ at < count /\ at \in modified /\ Readable(at)
  /\ data' = [data EXCEPT ![at] = BlockOf(at)]
  /\ blocks' = Written(blocks, size, offset, BlockOf(at))
  /\ size' = Grown(size, offset)
  /\ modified' = modified \ {at}
  /\ offset' = offset + 1
  /\ at' = at + 1
  /\ UNCHANGED <<count, doc, headerVars, attached, diskHeader, pc, before, copy, result, damaged>>

\* What has been written stays written, and is not marked any more.
CommitFails ==
  /\ pc = "Commit" /\ at < count /\ at \in modified /\ ~Readable(at)
  /\ End("failed")
  /\ UNCHANGED <<sectorVars, headerVars, fileVars, copy, damaged>>

CommitEnds ==
  /\ pc = "Commit" /\ at = count
  /\ End("committed")
  /\ UNCHANGED <<sectorVars, headerVars, fileVars, copy, damaged>>

-----------------------------------------------------------------------------
(***************************************************************************)
(* Close, a crash, and Open.                                               *)
(***************************************************************************)

\* Mutant of Collection: the flags are those of the sectors there were.
CollectionMarked(bs, n, r) ==
  /\ count' = n /\ data' = [s \in 0 .. (n - 1) |-> IF s \in r THEN bs[s] ELSE NoData]
  /\ modified' = modified

\* The sectors of the n blocks bs, those in r read.
Collection(bs, n, r) ==
  /\ count' = n /\ data' = [s \in 0 .. (n - 1) |-> IF s \in r THEN bs[s] ELSE NoData]
  /\ modified' = {}

\* Open reads the FAT and the directory, so at least two sectors, none of them
\* free.  The others are read when a call comes to them.
LoadedByOpen(r, f) == r \cap f = {} /\ \E s, t \in r : s # t

\* Open of the file of header h and the n blocks bs, of which the FAT says that
\* those in f are free.
OpenFile(h, bs, n, r, f) ==
  /\ LoadedByOpen(r, f)
  /\ attached' = TRUE /\ size' = n /\ blocks' = bs /\ diskHeader' = h
  /\ Collection(bs, n, r)
  /\ doc' = [s \in 0 .. (n - 1) |-> IF s \in f THEN Any ELSE bs[s].value]
  /\ header' = h /\ headerModified' = FALSE /\ unmarked' = FALSE
  /\ damaged' = (\E s \in 0 .. (n - 1) : bs[s].bitten)
  /\ End("none") /\ copy' = NoCopy

\* Close, or a crash in Commit: the file is opened again as it was left.
Reopen ==
  /\ attached
  /\ \E r, f \in SUBSET (0 .. (size - 1)) : OpenFile(diskHeader, blocks, size, r, f)

\* The file that Save has written is opened.
OpenCopy ==
  /\ result = "saved"
  /\ \E r, f \in SUBSET Sectors : OpenFile(copy.header, copy.blocks, count, r, f)

-----------------------------------------------------------------------------

NewDocument ==
  /\ attached = FALSE /\ size = 0 /\ blocks = NoBlocks
  /\ diskHeader = header /\ headerModified = TRUE
  /\ count = NewSectors
  /\ doc \in [Sectors -> Contents]
  /\ data = [s \in Sectors |-> Intact(doc[s])]
  /\ modified = Sectors

OpenedDocument ==
  /\ attached = TRUE /\ size \in 2..MaxOpened
  /\ count = size
  /\ blocks \in [Sectors -> {Intact(c) : c \in Contents}]
  /\ doc = [s \in Sectors |-> blocks[s].value]
  /\ diskHeader = header /\ headerModified = FALSE
  /\ \E r \in SUBSET Sectors :
       LoadedByOpen(r, {}) /\ data = [s \in Sectors |-> IF s \in r THEN blocks[s] ELSE NoData]
  /\ modified = {}

Init ==
  /\ header \in Headers
  /\ NewDocument \/ OpenedDocument
  /\ pc = "Idle" /\ at = 0 /\ offset = 0 /\ before = NoBlocks
  /\ copy = NoCopy /\ result = "none" /\ damaged = FALSE /\ unmarked = FALSE

Calls ==
  \/ \E s \in Sectors : Load(s) \/ DropSector(s)
  \/ \E s \in Sectors, c \in Contents : WriteSector(s, c) \/ WriteFresh(s, c)
  \/ \E s, t \in Sectors, d \in Contents : FreeSector(s, t, d) \/ Reuse(s, t, d)
  \/ \E t \in Sectors, c, d \in Contents : AddSector(c, t, d)
  \/ \E t \in Sectors, c, d \in Contents, h \in Headers : AddMiniFAT(c, h, t, d)
  \/ \E c \in Contents, h \in Headers : AddFAT(c, h)
  \/ \E h \in Headers : ReuseForMiniFAT(h)

Saving == Save \/ SaveSector \/ SaveFails \/ SaveEnds
Committing == Commit \/ CommitSkips \/ CommitSector \/ CommitFails \/ CommitEnds

Next == Calls \/ Saving \/ Committing \/ Reopen \/ OpenCopy

Spec == Init /\ [][Next]_vars
=============================================================================
