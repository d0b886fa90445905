---------------------------- MODULE CompoundFile ----------------------------
(***************************************************************************)
(* An open compound file and the calls its owner makes: New or Open, then  *)
(* Storage.AddStream, Stream.SetData, Stream.Append, Stream.GetData, Save, *)
(* Commit and SectorBytes.  mcdf.go (addSector, addMiniSector,             *)
(* updateDirectory, FreeFAT, FreeMiniFAT, Save, Commit, SectorBytes),      *)
(* memory_mini.go, sector_mini.go and the write and read paths of          *)
(* directory.go and stream.go, over SectorMemory.  Of Save and Commit this *)
(* module has what they do to memory - the sectors they read, the length   *)
(* of the file; what they write is FileImage's.                            *)
(*                                                                         *)
(* The library runs on its caller's goroutine: one call at a time.  A call *)
(* is a run of small steps, one for each round of a loop and each sector   *)
(* allocated, so that every state an error return can leave behind is a    *)
(* state of the model.  pc is where the call is, caller where the helper   *)
(* it is in returns to, and the other locals are Directory.Write's.        *)
(***************************************************************************)
EXTENDS SectorMemory, SequencesExt

CONSTANTS Sizes,        \* lengths SetData is called with, in bytes
          AppendSizes,  \* lengths Append is called with
          OpenedFiles,  \* sector counts of the files Open is tried on; 0 is New
          MaxSectors,   \* no call is started on a file with more sectors
          MaxStreams,   \* no stream is added beyond these
          Retries       \* no call is started after more calls have failed

ASSUME InstanceAssumption ==
  /\ Sizes \subseteq Nat /\ AppendSizes \subseteq Nat
  /\ OpenedFiles \subseteq {0} \cup 2..EntriesPerSector
  /\ MaxSectors \in Nat /\ MaxStreams \in Nat /\ Retries \in Nat

VARIABLES
  file,        \* sectors of the os.File; 0 when cf.f is nil
  miniNext,    \* MiniSector.next
  containers,  \* the sectors the mini sectors lie in, in order
  miniFree,    \* MiniMemory.free
  miniTable,   \* the slots of the miniFAT sectors, in the order of memMini
  dirs,        \* DirectoryCollection.data
  dirFree,     \* DirectoryCollection.free
  dirSect,     \* the entries as the directory sectors hold them
  pc, caller, arg, OldSize, offset, SecID, old, s, updateDE,
  res,         \* the last call on a stream and what it returned
  errors       \* how many calls have returned an error, those on the file too

miniVars == <<miniNext, containers, miniFree, miniTable>>
dirVars == <<dirs, dirFree, dirSect>>
loopVars == <<OldSize, offset, SecID, old, updateDE>>
resVars == <<res, errors>>
vars == <<memVars, file, miniVars, dirVars, pc, caller, arg, loopVars, s, resVars>>

Minis == DOMAIN miniNext
Streams == {d \in DOMAIN dirs : dirs[d].kind = "stream"}

Entry == [kind : {"unallocated", "root", "stream"}, start : Int, size : Nat]
EmptyEntry == [kind |-> "unallocated", start |-> ENDOFCHAIN, size |-> 0]

\* MiniSector.sector and MiniSector.off.
SectorOf(m) == containers[(m \div MinisPerSector) + 1]
PieceOf(m) == m % MinisPerSector

IsBig(n) == n >= miniStreamCutoffSize

\* Sector.Read and Sector.read succeed on x: its data is there, or the file
\* is and is long enough.
Readable(x) == x \in loaded \/ x < file

\* What x holds once it has been read.
Content(x) == IF x \in loaded THEN data[x] ELSE BlockOf(OnDisk)

EmptyBuf == [k \in 0..(-1) |-> Zero]
NoArg == [op |-> "none", d |-> 0, size |-> 0, buf |-> EmptyBuf]
Fresh(d, v, n) == [k \in 0..(Chunks(n) - 1) |-> <<d, v, k>>]

-----------------------------------------------------------------------------
(***************************************************************************)
(* Reading: Directory.Read, directory.go:590-637.                          *)
(***************************************************************************)

\* The first n links of a chain, from start; ENDOFCHAIN after a bad link.
Walk(nx, start, n) ==
  LET c[i \in 0..(n - 1)] ==
        IF i = 0 THEN start
        ELSE IF c[i - 1] \in DOMAIN nx THEN nx[c[i - 1]] ELSE ENDOFCHAIN
  IN c

SectorCount(n) == (n + SectorSize - 1) \div SectorSize

ChainLen(d) == IF IsBig(dirs[d].size) THEN SectorCount(dirs[d].size) ELSE Chunks(dirs[d].size)
Chain(d) == Walk(IF IsBig(dirs[d].size) THEN next ELSE miniNext, dirs[d].start, ChainLen(d))

\* Mutants of StepReadable: without the lower bounds of the start and of the
\* sector number; with the bound of the one loop in the other.
StepReadableUnchecked(d, i) ==
  LET id == Chain(d)[i]
  IN IF IsBig(dirs[d].size)
     THEN id < nsec /\ Readable(id)
     ELSE dirs[d].start >= 0 /\ id \in Minis /\ Readable(SectorOf(id))
StepReadableFromOne(d, i) ==
  LET id == Chain(d)[i]
  IN IF IsBig(dirs[d].size)
     THEN dirs[d].start > 0 /\ id \in Sectors /\ Readable(id)
     ELSE dirs[d].start > 0 /\ id \in Minis /\ Readable(SectorOf(id))

\* The i-th step of the read loop succeeds.
StepReadable(d, i) ==
  LET id == Chain(d)[i]
  IN IF IsBig(dirs[d].size)
     THEN dirs[d].start > 0 /\ id \in Sectors /\ Readable(id)
     ELSE dirs[d].start >= 0 /\ id \in Minis /\ Readable(SectorOf(id))

ReadSucceeds(d) == \A i \in 0..(ChainLen(d) - 1) : StepReadable(d, i)

\* The sectors the read loop has data for when it ends or fails.
ReadSectors(d) ==
  LET done == {i \in 0..(ChainLen(d) - 1) : \A j \in 0..i : StepReadable(d, j)}
  IN {IF IsBig(dirs[d].size) THEN Chain(d)[i] ELSE SectorOf(Chain(d)[i]) : i \in done}

\* The bytes read, by mini-sector-sized pieces.
ReadBack(d) ==
  [k \in 0..(Chunks(dirs[d].size) - 1) |->
     IF IsBig(dirs[d].size)
     THEN Content(Chain(d)[k \div MinisPerSector])[k % MinisPerSector]
     ELSE Content(SectorOf(Chain(d)[k]))[PieceOf(Chain(d)[k])]]

\* Sector.Read leaves the sectors it has read loaded.
ReadIn(X) ==
  /\ loaded' = loaded \cup X
  /\ data' = [x \in Sectors |-> IF x \in X THEN Content(x) ELSE data[x]]

LoadRead(d) == ReadIn(ReadSectors(d))

-----------------------------------------------------------------------------
(***************************************************************************)
(* Calls and returns.                                                      *)
(***************************************************************************)
Goto(p) == pc' = p /\ UNCHANGED resVars

Return(status) ==
  /\ pc' = "Idle"
  /\ res' = [op |-> arg.op, d |-> arg.d, status |-> status]
  /\ errors' = IF status = "err" THEN errors + 1 ELSE errors
  /\ arg' = NoArg
  /\ caller' = "none"
  /\ OldSize' = 0 /\ offset' = 0 /\ SecID' = ENDOFCHAIN /\ old' = -1
  /\ s' = -1 /\ updateDE' = FALSE

\* Directory.Write up to the first loop, directory.go:447-475: which chain is
\* freed before anything is written.  FreeFAT and FreeMiniFAT refuse a
\* negative start.
Write(d, n, b) ==
  LET was == dirs[d].size
      first == dirs[d].start
      dropsFAT == IsBig(was) /\ ~IsBig(n)
      dropsMini == was > 0 /\ ~IsBig(was) /\ (IsBig(n) \/ n = 0)
  IN IF (dropsFAT \/ dropsMini) /\ first < 0
     THEN /\ res' = [op |-> "SetData", d |-> d, status |-> "err"]
          /\ errors' = errors + 1
          /\ UNCHANGED <<pc, caller, arg, loopVars, s>>
     ELSE /\ arg' = [op |-> "SetData", d |-> d, size |-> n, buf |-> b]
          /\ OldSize' = was
          /\ SecID' = IF dropsFAT \/ dropsMini THEN first ELSE ENDOFCHAIN
          /\ pc' = IF dropsFAT THEN "FreeFAT" ELSE IF dropsMini THEN "FreeMiniFAT" ELSE "Resize"
          /\ caller' = IF dropsFAT \/ dropsMini THEN "Resize" ELSE "none"
          /\ res' = [op |-> "SetData", d |-> d, status |-> "running"]
          /\ UNCHANGED <<offset, old, s, updateDE, errors>>

\* Bound: the model follows a document until one of its table or directory
\* sectors has lost its data (Push of a sector in a list drops it); from
\* there on changeMiniFAT and updateDirectory return errors.
TablesLoaded ==
  \A x \in Sectors : set[x] \in {"TableFat", "TableMini", "Dir", "DIFAT"} => x \in loaded

CanCall ==
  pc = "Idle" /\ nsec <= MaxSectors /\ errors <= Retries /\ TablesLoaded

SetData(d, v, n) ==
  /\ CanCall
  /\ Write(d, n, Fresh(d, v, n))
  /\ UNCHANGED <<memVars, file, miniVars, dirVars>>

\* A call that changes no table returns.
Answer(ok) ==
  /\ errors' = IF ok THEN errors ELSE errors + 1
  /\ UNCHANGED <<nsec, next, fatVars, memoryVars, miniVars, dirVars,
                 pc, caller, arg, loopVars, s>>

GetData(d) ==
  /\ CanCall
  /\ LoadRead(d)
  /\ LET ok == ReadSucceeds(d)
     IN /\ res' = [op |-> "GetData", d |-> d, status |-> IF ok THEN "ok" ELSE "err"]
        /\ Answer(ok)
  /\ UNCHANGED file

\* Save reads the sectors in order, the free ones too, up to the first that
\* has no data anywhere: a freed sector of the file gets data again.
Save ==
  /\ CanCall
  /\ LET read == {x \in Sectors : \A y \in 0..x : Readable(y)}
     IN ReadIn(read) /\ Answer(read = Sectors)
  /\ UNCHANGED <<file, res>>

\* Commit reads and writes the modified sectors.  Which of them are marked
\* modified, and what Commit makes of the file, FileImage says: here they are
\* any, and the file may have become longer.
Commit ==
  /\ CanCall
  /\ UNCHANGED res
  /\ IF file = 0
     THEN Answer(FALSE) /\ UNCHANGED <<loaded, data, file>>
     ELSE \E read \in SUBSET {x \in Sectors \ loaded : Readable(x)} :
            /\ ReadIn(read)
            /\ file' \in file..nsec
            /\ \E ok \in {TRUE} \cup {\A x \in Sectors : Readable(x)} : Answer(ok)

\* SectorBytes(x), for any SecID: what is no sector is an error.
SectorBytes(x) ==
  /\ CanCall
  /\ LET ok == x \in Sectors /\ Readable(x)
     IN ReadIn(IF ok THEN {x} ELSE {}) /\ Answer(ok)
  /\ UNCHANGED <<file, res>>

\* Stream.Append: read everything, then write everything and the new bytes.
\* A piece the old data filled keeps its token.  Nothing appended to nothing
\* is a nil slice, which Directory.Write refuses.
AppendData(d, v, n) ==
  LET was == dirs[d].size
      whole == [k \in 0..(Chunks(was + n) - 1) |->
                  IF (k + 1) * MiniSectorSize <= was THEN ReadBack(d)[k] ELSE <<d, v, k>>]
  IN /\ CanCall
     /\ LoadRead(d)
     /\ IF ReadSucceeds(d) /\ was + n > 0
        THEN Write(d, was + n, whole)
        ELSE /\ res' = [op |-> "Append", d |-> d, status |-> "err"]
             /\ errors' = errors + 1
             /\ UNCHANGED <<pc, caller, arg, loopVars, s>>
     /\ UNCHANGED <<nsec, next, fatVars, memoryVars, file, miniVars, dirVars>>

\* Storage.AddStream, for a new name: directory.New, which needs a directory
\* sector when no entry is free.
AddStream ==
  /\ CanCall
  /\ Cardinality(Streams) < MaxStreams
  /\ arg' = [NoArg EXCEPT !.op = "AddStream"]
  /\ IF dirFree = {} THEN pc' = "Alloc" /\ caller' = "DirSector"
                     ELSE pc' = "NewEntry" /\ caller' = "none"
  /\ res' = [op |-> "AddStream", d |-> 0, status |-> "running"]
  /\ UNCHANGED <<memVars, file, miniVars, dirVars, loopVars, s, errors>>

-----------------------------------------------------------------------------
(***************************************************************************)
(* FreeFAT and FreeMiniFAT, one round of the loop at a time.  The loops'   *)
(* offset never moves, so the whole rest of the chain is freed.            *)
(***************************************************************************)
FreeFAT ==
  /\ pc = "FreeFAT"
  /\ SecID >= 0
  /\ IF SecID \in Sectors THEN Push(SecID) ELSE UNCHANGED memVars
  /\ IF SecID \in Sectors /\ CanAdd(SecID, "Free")
     THEN /\ SecID' = next[SecID]
          /\ UNCHANGED <<pc, caller, arg, OldSize, offset, old, s, updateDE, resVars>>
     ELSE Return("err")
  /\ UNCHANGED <<file, miniVars, dirVars>>

FreeMiniFAT ==
  /\ pc = "FreeMiniFAT"
  /\ SecID >= 0
  /\ IF SecID \in Minis \ miniFree
     THEN /\ SecID' = miniNext[SecID]
          /\ miniNext' = [miniNext EXCEPT ![SecID] = FREESECT]
          /\ miniFree' = miniFree \cup {SecID}
          /\ miniTable' = [miniTable EXCEPT ![SecID] = FREESECT]
          /\ UNCHANGED <<pc, caller, arg, OldSize, offset, old, s, updateDE, resVars>>
     ELSE /\ Return("err")
          /\ UNCHANGED <<miniNext, miniFree, miniTable>>
  /\ UNCHANGED <<memVars, file, containers, dirVars>>

\* Mutants of Freed: the old size is kept after the whole of a stream is freed;
\* a chain is taken to end in FREESECT.
FreedKeepsOldSize ==
  /\ pc \in {"FreeFAT", "FreeMiniFAT"}
  /\ SecID < 0
  /\ caller' = "none"
  /\ Goto(caller)
  /\ UNCHANGED <<memVars, file, miniVars, dirVars, arg, loopVars, s>>
FreedAtFree ==
  /\ pc \in {"FreeFAT", "FreeMiniFAT"}
  /\ SecID = FREESECT
  /\ OldSize' = IF caller = "Resize" THEN 0 ELSE OldSize
  /\ caller' = "none"
  /\ Goto(caller)
  /\ UNCHANGED <<memVars, file, miniVars, dirVars, arg, offset, SecID, old, s, updateDE>>

\* The chain has ended: back to Directory.Write, which takes the old size as
\* 0 after freeing the whole of a stream.
Freed ==
  /\ pc \in {"FreeFAT", "FreeMiniFAT"}
  /\ SecID < 0
  /\ OldSize' = IF caller = "Resize" THEN 0 ELSE OldSize
  /\ caller' = "none"
  /\ Goto(caller)
  /\ UNCHANGED <<memVars, file, miniVars, dirVars, arg, offset, SecID, old, s, updateDE>>

-----------------------------------------------------------------------------
(***************************************************************************)
(* Directory.Write from the size on, directory.go:477-587.                 *)
(***************************************************************************)

\* The size is changed before anything is written, and only when it differs
\* from OldSize: a stream that has just been freed whole keeps its old size
\* when it is set to nothing.
Resize ==
  LET n == arg.size
  IN /\ pc = "Resize"
     /\ dirs' = [dirs EXCEPT ![arg.d].size = IF OldSize # n THEN n ELSE @,
                             ![arg.d].start = IF n = 0 THEN ENDOFCHAIN ELSE @]
     /\ updateDE' = (OldSize # n \/ n = 0)
     /\ SecID' = IF n = 0 THEN ENDOFCHAIN ELSE dirs[arg.d].start
     /\ Goto(IF n = 0 THEN "Update" ELSE IF IsBig(n) THEN "WriteBig" ELSE "WriteMini")
     /\ UNCHANGED <<memVars, file, miniVars, dirFree, dirSect, caller, arg, OldSize, offset, old, s>>

\* Mutant of Existing: one round too many.
ExistingLate == OldSize >= offset /\ SecID >= 0

\* The loop goes on over a sector the stream already has.
Existing == OldSize > offset /\ SecID >= 0

\* Mutant of Filled: the offset counted in sectors.
FilledBySector(block) ==
  [i \in 0..(MinisPerSector - 1) |->
     LET k == (offset \div SectorSize) + i
     IN IF k \in DOMAIN arg.buf THEN arg.buf[k] ELSE block[i]]

\* Sector.Write of the pieces of buf that fall in the sector at offset.
Filled(block) ==
  [i \in 0..(MinisPerSector - 1) |->
     LET k == (offset \div MiniSectorSize) + i
     IN IF k \in DOMAIN arg.buf THEN arg.buf[k] ELSE block[i]]

WriteBigExisting ==
  /\ pc = "WriteBig" /\ offset < arg.size /\ Existing
  /\ IF SecID \in Sectors
     THEN /\ loaded' = loaded \cup {SecID}
          /\ data' = [data EXCEPT ![SecID] =
                        Filled(IF SecID \in loaded THEN @ ELSE BlockOf(Zero))]
          /\ offset' = offset + SectorSize
          /\ old' = SecID
          /\ SecID' = next[SecID]
          /\ Goto("WriteBig")
          /\ UNCHANGED <<caller, arg, OldSize, s, updateDE>>
     ELSE Return("err") /\ UNCHANGED <<loaded, data>>
  /\ UNCHANGED <<nsec, next, fatVars, memoryVars, file, miniVars, dirVars>>

WriteBigGrow ==
  /\ pc = "WriteBig" /\ offset < arg.size /\ ~Existing
  /\ caller' = "BigSector"
  /\ Goto("Alloc")
  /\ UNCHANGED <<memVars, file, miniVars, dirVars, arg, loopVars, s>>

\* addSector has returned s: link it (directory.go:506-516), then write, which
\* fails on a sector from the free list, whose data is nil.
BigSector ==
  LET ended == [next EXCEPT ![s] = ENDOFCHAIN]
  IN /\ pc = "BigSector"
     /\ next' = IF old >= 0 THEN [ended EXCEPT ![old] = s] ELSE ended
     /\ fat' = IF old >= 0 THEN [fat EXCEPT ![old] = s] ELSE fat
     /\ dirs' = IF old >= 0 THEN dirs ELSE [dirs EXCEPT ![arg.d].start = s]
     /\ IF s \in loaded
        THEN /\ data' = [data EXCEPT ![s] = Filled(@)]
             /\ offset' = offset + SectorSize
             /\ old' = s
             /\ SecID' = next'[s]
             /\ updateDE' = (updateDE \/ old < 0)
             /\ s' = -1
             /\ caller' = "none"
             /\ Goto("WriteBig")
             /\ UNCHANGED <<arg, OldSize>>
        ELSE Return("err") /\ UNCHANGED data
     /\ UNCHANGED <<nsec, loaded, memFat, memDIFAT, difat, header, memoryVars,
                    file, miniVars, dirFree, dirSect>>

\* Mutant of FinishBig: without the changeFAT of the last sector.
FinishBigUnsaved ==
  /\ pc = "WriteBig" /\ offset >= arg.size
  /\ IF SecID > 0 /\ offset < OldSize
     THEN caller' = "Update" /\ Goto("FreeFAT")
     ELSE caller' = caller /\ Goto("Update")
  /\ UNCHANGED <<memVars, file, miniVars, dirVars, arg, loopVars, s>>

\* changeFAT of the last sector; then a shrunk stream's tail is freed, with
\* the last sector's next still pointing at it.
FinishBig ==
  /\ pc = "WriteBig" /\ offset >= arg.size
  /\ fat' = [fat EXCEPT ![old] = next[old]]
  /\ IF SecID > 0 /\ offset < OldSize
     THEN caller' = "Update" /\ Goto("FreeFAT")
     ELSE caller' = caller /\ Goto("Update")
  /\ UNCHANGED <<sectorVars, memFat, memDIFAT, difat, header, memoryVars,
                 file, miniVars, dirVars, arg, loopVars, s>>

\* Sector.read if the container has no data, then MiniSector.Write of one
\* piece, then the next round over link.
WriteMiniAt(m, link, update) ==
  LET c == SectorOf(m)
  IN IF Readable(c)
     THEN /\ loaded' = loaded \cup {c}
          /\ data' = [data EXCEPT ![c] =
                        [Content(c) EXCEPT ![PieceOf(m)] = arg.buf[offset \div MiniSectorSize]]]
          /\ offset' = offset + MiniSectorSize
          /\ old' = m
          /\ SecID' = link
          /\ updateDE' = update
          /\ Goto("WriteMini")
          /\ UNCHANGED <<caller, arg, OldSize, s>>
     ELSE Return("err") /\ UNCHANGED <<loaded, data>>

WriteMiniExisting ==
  /\ pc = "WriteMini" /\ offset < arg.size /\ Existing
  /\ IF SecID \in Minis
     THEN WriteMiniAt(SecID, miniNext[SecID], updateDE)
     ELSE Return("err") /\ UNCHANGED <<loaded, data>>
  /\ UNCHANGED <<nsec, next, fatVars, memoryVars, file, miniVars, dirVars>>

\* addMiniSector finds a free mini sector: any of them, since Pop takes the
\* first key of a map.
WriteMiniNew ==
  /\ pc = "WriteMini" /\ offset < arg.size /\ ~Existing
  /\ \E m \in miniFree :
       LET ended == [miniNext EXCEPT ![m] = ENDOFCHAIN]
       IN /\ miniFree' = miniFree \ {m}
          /\ miniNext' = IF old >= 0 THEN [ended EXCEPT ![old] = m] ELSE ended
          /\ miniTable' = IF old >= 0 THEN [miniTable EXCEPT ![old] = m] ELSE miniTable
          /\ dirs' = IF old >= 0 THEN dirs ELSE [dirs EXCEPT ![arg.d].start = m]
          /\ WriteMiniAt(m, miniNext'[m], updateDE \/ old < 0)
  /\ UNCHANGED <<nsec, next, fatVars, memoryVars, file, containers, dirFree, dirSect>>

\* addSector(TypeSectorMiniFAT): a miniFAT sector first when the table is full.
WriteMiniGrow ==
  /\ pc = "WriteMini" /\ offset < arg.size /\ ~Existing /\ miniFree = {}
  /\ caller' = IF CountMini <= Cardinality(Minis) THEN "MiniTable" ELSE "Container"
  /\ Goto("Alloc")
  /\ UNCHANGED <<memVars, file, miniVars, dirVars, arg, loopVars, s>>

FinishMini ==
  /\ pc = "WriteMini" /\ offset >= arg.size
  /\ miniTable' = [miniTable EXCEPT ![old] = miniNext[old]]
  /\ IF SecID > 0 /\ offset < OldSize
     THEN caller' = "Update" /\ Goto("FreeMiniFAT")
     ELSE caller' = caller /\ Goto("Update")
  /\ UNCHANGED <<memVars, file, miniNext, containers, miniFree, dirVars, arg, loopVars, s>>

\* Mutant of Update: an emptied stream's entry is not written.
UpdateNonEmpty ==
  /\ pc = "Update"
  /\ dirSect' = IF updateDE /\ arg.size > 0 THEN [dirSect EXCEPT ![arg.d] = dirs[arg.d]] ELSE dirSect
  /\ Return("ok")
  /\ UNCHANGED <<memVars, file, miniVars, dirs, dirFree>>

\* updateDirectory(this), only when the size or the start has changed.
Update ==
  /\ pc = "Update"
  /\ dirSect' = IF updateDE THEN [dirSect EXCEPT ![arg.d] = dirs[arg.d]] ELSE dirSect
  /\ Return("ok")
  /\ UNCHANGED <<memVars, file, miniVars, dirs, dirFree>>

-----------------------------------------------------------------------------
(***************************************************************************)
(* CompoundFile.addSector, mcdf.go:415-651.  At pc "Alloc" a sector is     *)
(* taken for caller; at pc = caller it is put to its use.                  *)
(***************************************************************************)
Allocated(x) ==
  /\ s' = x
  /\ Goto(caller)
  /\ UNCHANGED <<file, miniVars, dirVars, caller, arg, loopVars>>

AllocFree ==
  /\ pc = "Alloc"
  /\ \E x \in Sectors : PopFree(x) /\ Allocated(x)

AllocTable ==
  /\ pc = "Alloc" /\ NeedsTable
  /\ AddTableInHeader \/ AddTableInDIFAT \/ AddTableAndDIFAT
  /\ Goto("AllocNew")
  /\ UNCHANGED <<file, miniVars, dirVars, caller, arg, loopVars, s>>

AllocNew ==
  /\ pc = "AllocNew" \/ (pc = "Alloc" /\ memFree = <<>> /\ ~NeedsTable)
  /\ NewSector(nsec)
  /\ Allocated(nsec)

\* A miniFAT sector.  The chain is linked before Memory.addSector looks at the
\* sector, which it refuses when it comes from the free list without data.
MiniTable ==
  LET first == memMini = <<>>
      linked == IF first THEN next ELSE [next EXCEPT ![Last(memMini)] = s]
      slots == IF first THEN fat ELSE [fat EXCEPT ![Last(memMini)] = s]
  IN /\ pc = "MiniTable"
     /\ IF CanAdd(s, "TableMini")
        THEN /\ next' = [linked EXCEPT ![s] = DefaultNext(@, "TableMini")]
             /\ fat' = [slots EXCEPT ![s] = next'[s]]
             /\ set' = [set EXCEPT ![s] = "TableMini"]
             /\ memMini' = Append(memMini, s)
             /\ header' = [header EXCEPT
                             !.firstMiniFATSectorLocation = IF first THEN s ELSE @,
                             !.numMiniFATSector = Len(memMini) + 1]
             /\ miniTable' = Extend(miniTable, CountMini, EntriesPerSector, FREESECT)
             /\ caller' = "Container"
             /\ s' = -1
             /\ Goto("Alloc")
             /\ UNCHANGED <<arg, loopVars>>
        ELSE /\ next' = linked
             /\ fat' = slots
             /\ header' = [header EXCEPT
                             !.firstMiniFATSectorLocation = IF first THEN s ELSE @]
             /\ Return("err")
             /\ UNCHANGED <<set, memMini, miniTable>>
     /\ UNCHANGED <<nsec, loaded, data, memFat, memDIFAT, difat, memDir, memFree,
                    file, miniNext, containers, miniFree, dirVars>>

\* A container of mini sectors, the first one named by the root entry.
Container ==
  LET n == Cardinality(Minis)
      first == containers = <<>>
      ended == [next EXCEPT ![s] = ENDOFCHAIN]
      slots == [fat EXCEPT ![s] = ENDOFCHAIN]
  IN /\ pc = "Container"
     /\ next' = IF first THEN ended ELSE [ended EXCEPT ![Last(containers)] = s]
     /\ fat' = IF first THEN slots ELSE [slots EXCEPT ![Last(containers)] = s]
     /\ dirs' = IF first THEN [dirs EXCEPT ![0].start = s] ELSE dirs
     /\ dirSect' = IF first THEN [dirSect EXCEPT ![0] = dirs'[0]] ELSE dirSect
     /\ containers' = Append(containers, s)
     /\ miniNext' = Extend(miniNext, n, MinisPerSector, FREESECT)
     /\ miniFree' = miniFree \cup n..(n + MinisPerSector - 1)
     /\ miniTable' = [m \in DOMAIN miniTable |->
                        IF m \in n..(n + MinisPerSector - 1) THEN FREESECT ELSE miniTable[m]]
     /\ caller' = "none"
     /\ s' = -1
     /\ Goto("WriteMini")
     /\ UNCHANGED <<nsec, loaded, data, memFat, memDIFAT, difat, header, memoryVars,
                    file, dirFree, arg, loopVars>>

\* A directory sector, all of its entries unallocated.
DirSector ==
  LET n == Cardinality(DOMAIN dirs)
      first == memDir = <<>>
      own == [next EXCEPT ![s] = DefaultNext(@, "Dir")]
      slots == [fat EXCEPT ![s] = own[s]]
  IN /\ pc = "DirSector"
     /\ IF CanAdd(s, "Dir")
        THEN /\ set' = [set EXCEPT ![s] = "Dir"]
             /\ memDir' = Append(memDir, s)
             /\ next' = IF first THEN own ELSE [own EXCEPT ![Last(memDir)] = s]
             /\ fat' = IF first THEN slots ELSE [slots EXCEPT ![Last(memDir)] = s]
             /\ dirs' = Extend(dirs, n, DirsPerSector, EmptyEntry)
             /\ dirSect' = Extend(dirSect, n, DirsPerSector, EmptyEntry)
             /\ dirFree' = dirFree \cup n..(n + DirsPerSector - 1)
             /\ header' = [header EXCEPT
                             !.firstDirectorySectorLocation = IF @ < 0 THEN memDir'[1] ELSE @]
             /\ caller' = "none"
             /\ s' = -1
             /\ Goto("NewEntry")
             /\ UNCHANGED <<arg, loopVars>>
        ELSE Return("err") /\ UNCHANGED <<set, memDir, next, fat, dirVars, header>>
     /\ UNCHANGED <<nsec, loaded, data, memFat, memDIFAT, difat, memMini, memFree,
                    file, miniVars>>

\* DirectoryCollection.New takes the free entry with the smallest id, and the
\* caller (New, Storage.AddStream) writes it to its directory sector, with
\* those of its siblings and parent whose links have changed.
NewEntry ==
  /\ pc = "NewEntry"
  /\ \E d \in dirFree :
       /\ \A e \in dirFree : d <= e
       /\ dirFree' = dirFree \ {d}
       /\ dirs' = [dirs EXCEPT ![d].kind = IF arg.op = "New" THEN "root" ELSE "stream"]
       /\ \E relinked \in SUBSET (DOMAIN dirs \ dirFree) :
            dirSect' = [e \in DOMAIN dirs |-> IF e \in relinked \cup {d} THEN dirs'[e]
                                              ELSE dirSect[e]]
  /\ Return("ok")
  /\ UNCHANGED <<memVars, file, miniVars>>

-----------------------------------------------------------------------------
(***************************************************************************)
(* New and Open.                                                           *)
(***************************************************************************)

\* No stream, no mini sector, no call made.
InitCommon ==
  /\ memMini = <<>> /\ memDIFAT = <<>> /\ difat = <<>>
  /\ miniNext = [m \in 0..(-1) |-> FREESECT] /\ containers = <<>> /\ miniFree = {}
  /\ miniTable = [m \in 0..(-1) |-> FREESECT]
  /\ data = [x \in Sectors |-> BlockOf(Zero)]
  /\ OldSize = 0 /\ offset = 0 /\ SecID = ENDOFCHAIN /\ old = -1 /\ s = -1
  /\ updateDE = FALSE
  /\ errors = 0

\* New, mcdf.go:31-58: nothing is allocated and directory.New for the root
\* entry is under way.
InitNew ==
  /\ file = 0 /\ nsec = 0
  /\ next = [x \in Sectors |-> FREESECT]
  /\ set = [x \in Sectors |-> "none"]
  /\ loaded = {}
  /\ memFat = <<>> /\ memDir = <<>> /\ memFree = <<>>
  /\ fat = [x \in 0..(-1) |-> FREESECT]
  /\ header = [numFATSector |-> 0,
               headerDIFAT |-> [i \in 0..(HeaderSlots - 1) |-> FREESECT],
               firstDirectorySectorLocation |-> ENDOFCHAIN,
               firstMiniFATSectorLocation |-> ENDOFCHAIN, numMiniFATSector |-> 0,
               firstDIFATSectorLocation |-> ENDOFCHAIN, numDIFATSector |-> 0]
  /\ dirs = [d \in 0..(-1) |-> EmptyEntry] /\ dirSect = dirs /\ dirFree = {}
  /\ pc = "Alloc" /\ caller = "DirSector"
  /\ arg = [NoArg EXCEPT !.op = "New"]
  /\ res = [op |-> "New", d |-> 0, status |-> "running"]

\* Open and load (readFAT, readDirectory, readMiniFAT) of a file of n sectors
\* without streams, such as another program leaves: sector 0 is its FAT
\* sector, 1 its directory sector, and the others are free, with FREESECT in
\* their slots, and not yet read.
OpenedNext(x) == IF x = 0 THEN FATSECT ELSE IF x = 1 THEN ENDOFCHAIN ELSE FREESECT

InitOpened(n) ==
  /\ file = n /\ nsec = n
  /\ next = [x \in Sectors |-> OpenedNext(x)]
  /\ set = [x \in Sectors |-> IF x = 0 THEN "TableFat" ELSE IF x = 1 THEN "Dir" ELSE "Free"]
  /\ loaded = {0, 1}
  /\ memFat = <<0>> /\ memDir = <<1>> /\ memFree = [i \in 1..(n - 2) |-> i + 1]
  /\ fat = [x \in 0..(EntriesPerSector - 1) |-> OpenedNext(x)]
  /\ header = [numFATSector |-> 1,
               headerDIFAT |-> [i \in 0..(HeaderSlots - 1) |-> IF i = 0 THEN 0 ELSE FREESECT],
               firstDirectorySectorLocation |-> 1,
               firstMiniFATSectorLocation |-> ENDOFCHAIN, numMiniFATSector |-> 0,
               firstDIFATSectorLocation |-> ENDOFCHAIN, numDIFATSector |-> 0]
  /\ dirs = [d \in 0..(DirsPerSector - 1) |->
               IF d = 0 THEN [EmptyEntry EXCEPT !.kind = "root"] ELSE EmptyEntry]
  /\ dirSect = dirs /\ dirFree = 1..(DirsPerSector - 1)
  /\ pc = "Idle" /\ caller = "none"
  /\ arg = NoArg
  /\ res = [op |-> "Open", d |-> 0, status |-> "ok"]

Init ==
  /\ \E n \in OpenedFiles : IF n = 0 THEN InitNew ELSE InitOpened(n)
  /\ InitCommon

-----------------------------------------------------------------------------
\* The rest of the call in progress.
Continue ==
  \/ FreeFAT \/ FreeMiniFAT \/ Freed \/ Resize
  \/ WriteBigExisting \/ WriteBigGrow \/ BigSector \/ FinishBig
  \/ WriteMiniExisting \/ WriteMiniNew \/ WriteMiniGrow \/ FinishMini
  \/ AllocFree \/ AllocTable \/ AllocNew
  \/ MiniTable \/ Container \/ DirSector \/ NewEntry \/ Update

\* The calls on streams.
StreamCall ==
  \/ AddStream
  \/ \E d \in Streams : GetData(d)
  \/ \E d \in Streams, v \in Values, n \in Sizes : SetData(d, v, n)
  \/ \E d \in Streams, v \in Values, n \in AppendSizes : AppendData(d, v, n)

\* The calls on the file.
FileCall == Save \/ Commit \/ \E x \in 0..nsec : SectorBytes(x)

Next == Continue \/ StreamCall \/ FileCall

\* A caller whose calls on the file give no free sector its data back and leave
\* the file as long as it was: one that saves while no sector is free, or once
\* its last stream call has been made.
CarefulNext ==
  \/ Continue
  \/ StreamCall
  \/ FileCall /\ file' = file /\ \A x \in loaded' : set[x] # "Free"

\* A caller whose streams never shrink, and that reads the free sectors of the
\* file it has opened (Save reads all) before it writes.
Grows(d, n) == n >= dirs[d].size
FreeRead == \A x \in Sectors : set[x] = "Free" => x \in loaded

GrowNext ==
  \/ Continue
  \/ AddStream /\ FreeRead
  \/ \E d \in Streams, v \in Values, n \in Sizes : Grows(d, n) /\ FreeRead /\ SetData(d, v, n)
  \/ \E d \in Streams, v \in Values, n \in AppendSizes : FreeRead /\ AppendData(d, v, n)
  \/ Save
  \/ file > 0 /\ Commit
  \/ \E x \in Sectors : SectorBytes(x)

\* A call that has been made runs to its return: nothing else runs.
Spec == Init /\ [][Next]_vars /\ WF_vars(Continue)
CarefulSpec == Init /\ [][CarefulNext]_vars
GrowSpec == Init /\ [][GrowNext]_vars /\ WF_vars(Continue)

-----------------------------------------------------------------------------
(***************************************************************************)
(* The invariants: TypeOK is proved in CompoundFileProofs, Coverage and    *)
(* ListsMatchSet in CompoundFileTableProofs, TableSectorsSafe in           *)
(* CompoundFileSafetyProofs.                                               *)
(***************************************************************************)
Pcs == {"Idle", "FreeFAT", "FreeMiniFAT", "Resize", "WriteBig", "WriteMini", "Update",
        "Alloc", "AllocNew", "BigSector", "MiniTable", "Container", "DirSector", "NewEntry"}

HeaderType ==
  [numFATSector : Nat, headerDIFAT : [0..(HeaderSlots - 1) -> Int],
   firstDirectorySectorLocation : Int,
   firstMiniFATSectorLocation : Int, numMiniFATSector : Nat,
   firstDIFATSectorLocation : Int, numDIFATSector : Nat]

SectorsType ==
  /\ nsec \in Nat /\ file \in Nat
  /\ next \in [Sectors -> Int]
  /\ DOMAIN data = Sectors /\ \A x \in Sectors : DOMAIN data[x] = 0..(MinisPerSector - 1)
  /\ loaded \subseteq Sectors
  /\ set \in [Sectors -> ListNames \cup {"none"}]

\* fat has a slot for each slot of the FAT sectors, difat one row for each
\* DIFAT sector.
TablesType ==
  /\ memFat \in Seq(Nat) /\ memMini \in Seq(Nat) /\ memDir \in Seq(Nat)
  /\ memDIFAT \in Seq(Nat) /\ memFree \in Seq(Nat)
  /\ fat \in [0..(CountFat - 1) -> Int]
  /\ difat \in Seq([0..(EntriesPerSector - 1) -> Int]) /\ Len(difat) = Len(memDIFAT)
  /\ header \in HeaderType

\* There are as many mini sectors as the containers hold and as many entries
\* as the directory sectors hold.
MiniType ==
  /\ containers \in Seq(Nat)
  /\ \A i \in 1..Len(containers) : containers[i] \in Sectors
  /\ miniNext \in [0..(MinisPerSector * Len(containers) - 1) -> Int]
  /\ miniFree \subseteq Minis
  /\ miniTable \in [0..(CountMini - 1) -> Int]

DirType ==
  /\ dirs \in [0..(DirsPerSector * Len(memDir) - 1) -> Entry]
  /\ dirSect \in [DOMAIN dirs -> Entry]
  /\ dirFree \subseteq DOMAIN dirs

CallType ==
  /\ pc \in Pcs
  /\ caller \in {"none", "Resize", "Update", "BigSector", "MiniTable", "Container", "DirSector"}
  /\ arg.d \in Nat /\ arg.size \in Nat
  /\ OldSize \in Nat /\ offset \in Nat /\ SecID \in Int /\ old \in Int /\ s \in Int
  /\ updateDE \in BOOLEAN /\ errors \in Nat

\* Every variable has its type, and every table the length of what it
\* describes.
TypeOK == SectorsType /\ TablesType /\ MiniType /\ DirType /\ CallType

\* Every sector has a slot in the FAT and every mini sector one in the
\* miniFAT, so that changeFAT and changeMiniFAT never miss their table
\* (memory.go:192-201, 217-226), and the FAT sector added for a new sector
\* has room for it and for the DIFAT sector added with it (mcdf.go:470-479).
Coverage ==
  /\ nsec <= CountFat
  /\ Cardinality(Minis) <= CountMini
  /\ pc = "AllocNew" => nsec < CountFat
  /\ pc \in {"Alloc", "AllocNew", "Container"} /\ caller = "Container" =>
        Cardinality(Minis) < CountMini

\* list holds exactly the sectors marked t, each once.
IsList(list, t) ==
  /\ \A i \in 1..Len(list) : list[i] \in Sectors /\ set[list[i]] = t
  /\ \A i, j \in 1..Len(list) : list[i] = list[j] => i = j
  /\ \A x \in Sectors : set[x] = t => \E i \in 1..Len(list) : list[i] = x

\* Memory.set and the lists of Memory.data agree (memory.go:45-85, 229-245):
\* a sector is in at most one list, once, under the name the set gives.
ListsMatchSet ==
  /\ IsList(memFat, "TableFat") /\ IsList(memMini, "TableMini")
  /\ IsList(memDir, "Dir") /\ IsList(memDIFAT, "DIFAT") /\ IsList(memFree, "Free")

\* No link ever leads to a FAT or DIFAT sector and none of them loses its
\* data, whatever calls are made and whatever they return: Memory.Push drops
\* the data of whatever sector a chain leads FreeFAT to (memory.go:239-245),
\* and a FAT sector without data would make every later changeFAT fail.
FATSectors == {x \in Sectors : set[x] \in {"TableFat", "DIFAT"}}
TableSectorsSafe ==
  /\ FATSectors \subseteq loaded
  /\ \A x \in Sectors : next[x] \notin FATSectors
  /\ s \notin FATSectors
=============================================================================
