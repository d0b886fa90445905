----------------------- MODULE CompoundFileProperties -----------------------
(***************************************************************************)
(* What the runs check of CompoundFile beyond the invariants it states     *)
(* itself: what a reopened file would find, when streams are apart, and    *)
(* what the library's own tests expect of every call.                      *)
(***************************************************************************)
EXTENDS CompoundFile

-----------------------------------------------------------------------------
(***************************************************************************)
(* What Open reads back, mcdf.go:134-203.                                  *)
(***************************************************************************)

\* The FAT sectors a DIFAT sector's slots name: all up to the first slot that
\* names no sector (mcdf.go:172-187).
NamedBy(slots) ==
  LET stops == {j \in 0..(EntriesPerSector - 2) : slots[j] \notin Sectors}
      n == IF stops = {} THEN EntriesPerSector - 1 ELSE Min(stops)
  IN [i \in 1..n |-> slots[i - 1]]

\* The DIFAT chain from the header, at most numDIFATSector long.
DIFATWalk ==
  LET slotsOf(x) == difat[CHOOSE i \in 1..Len(memDIFAT) : memDIFAT[i] = x]
      c[i \in 1..header.numDIFATSector] ==
        IF i = 1 THEN header.firstDIFATSectorLocation
        ELSE IF c[i - 1] \in Range(memDIFAT) THEN slotsOf(c[i - 1])[EntriesPerSector - 1]
        ELSE ENDOFCHAIN
  IN [i \in 1..header.numDIFATSector |->
        IF c[i] \in Range(memDIFAT) THEN NamedBy(slotsOf(c[i])) ELSE <<>>]

\* The FAT sectors readFAT collects.
FATFound ==
  LET num == IF header.numFATSector > HeaderSlots THEN HeaderSlots ELSE header.numFATSector
  IN [i \in 1..num |-> header.headerDIFAT[i - 1]] \o FlattenSeq(DIFATWalk)

\* Header.chechNumDIFATSector accepts the header (its 109 is HeaderSlots).
HeaderAccepted ==
  header.numDIFATSector * (EntriesPerSector - 1) + HeaderSlots
    <= header.numFATSector + (EntriesPerSector - 1)

\* Whenever no call is in progress, the header and the DIFAT chain lead a
\* reader to every FAT sector, in order: numFATSector stops counting at the
\* first DIFAT sector (mcdf.go:505-564) and readFAT (mcdf.go:134-190) must
\* still find them all.  The check made of the header before that does not
\* allow for it: of the files with DIFAT sectors it accepts those with one,
\* and refuses the library's own header from the second on (header.go:239-249).
\* Such a file is opened only because the error is lost: Header.Read panics
\* with it and RecoverError is given the result by value (header.go:126).
FATFoundOnReopen ==
  pc = "Idle" =>
    /\ FATFound = memFat
    /\ header.numDIFATSector > 0 => (HeaderAccepted <=> header.numDIFATSector = 1)

\* readFAT accepts the FAT (mcdf.go:192-203): a FAT or DIFAT sector whose own
\* slot says FREESECT is pushed to the free list while it is in another, which
\* is an error.  msdf_test.go:593-594 saves a new file and opens it again.
SavedFileReopens ==
  pc = "Idle" => \A x \in Sectors : set[x] \in {"TableFat", "DIFAT"} => fat[x] # FREESECT

-----------------------------------------------------------------------------
(***************************************************************************)
(* Streams against each other.                                             *)
(***************************************************************************)
BigStreams == {d \in Streams : IsBig(dirs[d].size) /\ dirs[d].start # ENDOFCHAIN}

\* While no call has returned an error, between calls: the FAT chain of every
\* stream as long as its size says is of sectors in use by it alone - in no
\* list of Memory (not free, not a table), no container of mini sectors, met
\* once and by one stream.  The tail FreeFAT cuts off stays linked
\* (directory.go:528-533).  This holds of CarefulSpec alone: what keeps the
\* stale link from being followed is that a freed sector has no data, so that
\* no write can take it over.  BigStreamsKept shows what happens once Save,
\* Commit or SectorBytes has given it data again.
BigChainsApart ==
  pc = "Idle" /\ errors = 0 =>
    \A d \in BigStreams :
      \A i \in 0..(ChainLen(d) - 1) :
        /\ Chain(d)[i] \in loaded
        /\ set[Chain(d)[i]] = "none"
        /\ Chain(d)[i] \notin Range(containers)
        /\ \A e \in BigStreams : \A j \in 0..(ChainLen(e) - 1) :
             Chain(d)[i] = Chain(e)[j] => d = e /\ i = j

\* Between calls, while none has returned an error, a stream kept in sectors
\* can be read and holds nothing but its own pieces: msdf_test.go:431-433
\* reads back every stream it has written and compares.
BigStreamsKept ==
  pc = "Idle" /\ errors = 0 =>
    \A d \in BigStreams :
      /\ ReadSucceeds(d)
      /\ \A k \in DOMAIN ReadBack(d) : \E v \in Values : ReadBack(d)[k] = <<d, v, k>>

\* Between calls a stream that can be read holds only pieces written to it, or
\* zeroes: msdf_test.go:432-433 reads every stream back and compares.
OwnData ==
  pc = "Idle" /\ errors = 0 =>
    \A d \in Streams :
      ReadSucceeds(d) => \A k \in DOMAIN ReadBack(d) : ReadBack(d)[k][1] \in {0, d}

\* SetData returns no error, as every call of it in the tests is asserted to
\* (msdf_test.go:320-321).
SetDataSucceeds == ~(res.op = "SetData" /\ res.status = "err")

\* After a SetData that returned no error the stream's directory sector holds
\* its size and start, so that Commit or Save stores them (directory.go:582-586).
DirectorySaved ==
  res.op = "SetData" /\ res.status = "ok" => dirSect[res.d] = dirs[res.d]

-----------------------------------------------------------------------------
(***************************************************************************)
(* The workload of GrowSpec.                                               *)
(***************************************************************************)

\* No call returns an error.
NeverFails == errors = 0

\* Between calls, while none has returned an error, whoever reads the saved
\* tables follows the chains memory has, the FAT's and the miniFAT's; what
\* readFAT pushes to the free list (mcdf.go:192-203, the slots FREESECT) is
\* never a sector that is in no list of Memory (a stream's, a container), and
\* what readMiniFAT pushes (mcdf.go:319-331) is free in memory.  The free
\* lists do not come back whole: Push keeps the link a freed sector had
\* (memory.go:74-77), so that its slot does not say FREESECT and reopening
\* the file loses it; and a mini sector freed while another stream has it
\* (OwnData) may be linked again.
TablesMatchMemory ==
  pc = "Idle" /\ errors = 0 =>
    /\ \A x \in Sectors : fat[x] = next[x]
    /\ \A x \in Sectors : fat[x] = FREESECT => set[x] # "none"
    /\ \A m \in Minis : miniTable[m] = miniNext[m]
    /\ \A m \in Minis : miniTable[m] = FREESECT => m \in miniFree

\* Between calls, while none has returned an error, each stream's directory
\* sector holds its entry.
EntriesSaved ==
  pc = "Idle" /\ errors = 0 => \A d \in Streams : dirSect[d] = dirs[d]

\* A call that has been made returns.
Termination == pc # "Idle" ~> pc = "Idle"

-----------------------------------------------------------------------------
(***************************************************************************)
(* The promise: the streams as StreamStore sees them.                      *)
(***************************************************************************)
InWrite == pc # "Idle" /\ arg.op = "SetData"

Store == INSTANCE StreamStore WITH
  Names <- 1..(DirsPerSector * MaxSectors),
  content <- [d \in Streams |->
                IF InWrite /\ d = arg.d THEN <<>>
                ELSE IF ReadSucceeds(d) THEN ReadBack(d) ELSE <<Zero>>],
  writing <- IF InWrite THEN [d |-> arg.d, buf |-> arg.buf] ELSE [d |-> 0, buf |-> <<>>]

StoreRefined == Store!StoreSpec
=============================================================================
