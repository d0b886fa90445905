------------------------- MODULE FileImageProperties -------------------------
(***************************************************************************)
(* What the runs check of FileImage.                                       *)
(***************************************************************************)
EXTENDS FileImage

\* The variables have their types (sector.go:22-40, header.go:25-45, mcdf.go:14-29).
ImageTypeOK ==
  /\ count \in Nat /\ size \in Nat /\ at \in 0..count /\ offset \in 0..at
  /\ data \in [Sectors -> Block \cup {NoData}]
  /\ doc \in [Sectors -> Contents \cup {Any}]
  /\ modified \subseteq Sectors
  /\ blocks \in [0 .. (size - 1) -> Block]
  /\ header \in Headers /\ diskHeader \in Headers
  /\ headerModified \in BOOLEAN /\ attached \in BOOLEAN
  /\ pc \in {"Idle", "Save", "Commit"}
  /\ result \in {"none", "saved", "committed", "failed"}
  /\ damaged \in BOOLEAN /\ unmarked \in BOOLEAN

\* The content b is what sector s should hold.
Holds(b, s) == doc[s] = Any \/ b = Intact(doc[s])

\* Until a Commit has written a block to a wrong place, a sector that is not
\* marked modified is in the file with the content it should have: reading it
\* late, and not writing it, are both right (sector.go:163-184, mcdf.go:704).
UnmodifiedInFile ==
  ~damaged => \A s \in Sectors \ modified :
                doc[s] = Any \/ (s < size /\ Holds(blocks[s], s))

\* What Save writes is the document: the header in memory and of each sector
\* what it should hold, whether it had been read or not, and although the
\* header's bytes are one too many (mcdf.go:653-681).
SaveExact ==
  result = "saved" /\ ~damaged =>
    /\ copy.header = header
    /\ DOMAIN copy.blocks = Sectors
    /\ \A s \in Sectors : Holds(copy.blocks[s], s)

\* Every sector's content is in the file, at its place.
InFile == \A s \in Sectors : doc[s] = Any \/ (s < size /\ Holds(blocks[s], s))

\* A Commit whose modified sectors are the first ones leaves the document in the
\* file, its header too unless that was changed by the growth of the FAT and not
\* marked since (mcdf.go:683-718, 509, 544, 550).
CommitExact ==
  result = "committed" /\ ~damaged =>
    /\ InFile
    /\ unmarked \/ diskHeader = header

\* At each step of such a Commit the file is a prefix of new blocks followed by
\* the blocks of before: this is what a crash leaves.  Only the first block
\* has a wrong byte in between (mcdf.go:688-717).
TornOnly ==
  pc = "Commit" /\ ~damaged =>
    \A s \in 0 .. (size - 1) :
      \/ s < offset /\ Holds(blocks[s], s)
      \/ s >= offset /\ s > 0 /\ blocks[s] = before[s]
      \/ offset = 0 /\ s = 0 /\ blocks[s].value = before[s].value

\* Save and Commit fail only on a sector that was freed before it was ever in the
\* file (mcdf.go:240-242, 672, 707; sector.go:163-184).
FailuresExplained ==
  result = "failed" =>
    \E s \in Sectors : doc[s] = Any /\ data[s] = NoData /\ ~(attached /\ s < size)

\* A Commit that returns no error leaves every sector at its place in the file,
\* but for the byte the header takes of the first: this is what
\* Test/msdf_test.go:396-403, 471-480 and 502-512 add streams to a file for.
CommitDurable ==
  result = "committed" =>
    \A s \in Sectors : doc[s] = Any \/ (s < size /\ blocks[s].value = doc[s])
=============================================================================
