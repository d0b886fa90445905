--------------------------- MODULE FileImageProofs ---------------------------
(***************************************************************************)
(* The invariants of FileImageProperties, for any contents, any headers    *)
(* and any number of sectors.                                              *)
(*                                                                         *)
(* None of them is inductive by itself.  What is in the file depends on    *)
(* what is marked (UnmodifiedInFile), what is read later on what is in the *)
(* file (DataRight), and what Commit writes to the right place on which    *)
(* sectors are still marked (InOrder).                                     *)
(***************************************************************************)
EXTENDS FileImageProperties, TLAPS

\* A sector without data is free or in the file.
Explained ==
  \A s \in Sectors : data[s] = NoData => doc[s] = Any \/ (attached /\ s < size)

\* A sector with data has the content it should have; one that is marked and
\* has none is free.
DataRight ==
  /\ ~damaged => \A s \in Sectors : data[s] # NoData => Holds(data[s], s)
  /\ \A s \in modified : data[s] = NoData => doc[s] = Any

\* The header's last byte is nowhere but, between its writing and that of sector
\* 0, in the file's first block.
Unbitten ==
  ~damaged =>
    /\ \A s \in Sectors : data[s] # NoData => ~data[s].bitten
    /\ \A s \in 0 .. (size - 1) :
         blocks[s].bitten => /\ pc = "Commit" /\ at = 0 /\ s = 0
                             /\ 0 \in modified /\ data[0] # NoData

\* Commit has passed no marked sector, has an uninterrupted run of them ahead,
\* and writes the next one to its own place, never behind the end.
InOrder ==
  /\ offset <= size
  /\ pc = "Commit" /\ ~damaged =>
       /\ \A s \in modified : s >= at
       /\ \A s \in modified : \A r \in at..s : r \in modified
       /\ modified = {} \/ offset = at

\* The header that is not marked is the file's, unless the FAT has grown.
HeaderRight ==
  /\ ~headerModified /\ ~unmarked => diskHeader = header
  /\ pc = "Commit" \/ result = "committed" => ~headerModified

\* A copy of the sectors before n.
CopyOf(n) ==
  /\ copy = [header |-> header, blocks |-> copy.blocks]
  /\ copy.blocks \in [0 .. (n - 1) -> Block]
  /\ ~damaged => \A s \in 0 .. (n - 1) : Holds(copy.blocks[s], s)

\* The file Save builds has the sectors it has passed; Save has all.
Copied ==
  /\ pc = "Save" => CopyOf(at)
  /\ result = "saved" => CopyOf(count)

\* There is a result only between calls, and after a Commit nothing is marked.
Outcomes ==
  /\ result # "none" => pc = "Idle"
  /\ result = "committed" /\ ~damaged => modified = {}

IInv ==
  /\ ImageTypeOK /\ Explained /\ DataRight /\ Unbitten /\ UnmodifiedInFile
  /\ InOrder /\ HeaderRight /\ Copied /\ Outcomes /\ TornOnly /\ FailuresExplained

USE ImageAssumption DEF Sectors, Block, Intact, Holds, Idle

-----------------------------------------------------------------------------
(***************************************************************************)
(* The operators.                                                          *)
(***************************************************************************)

\* Only a block is neither NoData nor without value.
LEMMA BlockIsData ==
  ASSUME NEW b \in Block
  PROVE  b # NoData /\ b = [value |-> b.value, bitten |-> b.bitten]
  OBVIOUS

\* A sector that can be read has a block, read or not (sector.go:163-184).
LEMMA ReadIsBlock ==
  ASSUME ImageTypeOK, NEW s \in Sectors, Readable(s)
  PROVE  BlockOf(s) \in Block /\ BlockOf(s) # NoData
  BY DEF ImageTypeOK, Readable, BlockOf

\* It is not the one whose first byte is the header's: sector 0 has data then.
LEMMA ReadIsUnbitten ==
  ASSUME IInv, NEW s \in Sectors, Readable(s), ~damaged
  PROVE  ~BlockOf(s).bitten
<1>1. CASE data[s] # NoData
  BY <1>1 DEF BlockOf, IInv, Unbitten
<1>2. CASE data[s] = NoData
  <2>1. s \in 0 .. (size - 1) /\ BlockOf(s) = blocks[s]
    BY <1>2 DEF BlockOf, Readable, IInv, ImageTypeOK
  <2>2. QED  BY <1>2, <2>1 DEF IInv, Unbitten
<1>3. QED  BY <1>1, <1>2

\* Writing block k, not behind the end, changes it and no other block
\* (mcdf.go:711-715).
LEMMA WrittenAt ==
  ASSUME NEW n \in Nat, NEW k \in 0..n, NEW b \in Block, NEW bs \in [0 .. (n - 1) -> Block]
  PROVE  /\ Grown(n, k) \in Nat /\ n <= Grown(n, k) /\ k < Grown(n, k)
         /\ Grown(n, k) = n \/ (k = n /\ Grown(n, k) = n + 1)
         /\ Written(bs, n, k, b) \in [0 .. (Grown(n, k) - 1) -> Block]
         /\ Written(bs, n, k, b)[k] = b
         /\ \A s \in 0 .. (Grown(n, k) - 1) :
              s # k => s < n /\ Written(bs, n, k, b)[s] = bs[s]
  BY DEF Grown, Written

\* The same at the end, which is where Save writes (mcdf.go:677-680).
LEMMA WrittenNext ==
  ASSUME NEW k \in Nat, NEW b \in Block, NEW bs \in [0 .. (k - 1) -> Block]
  PROVE  /\ Written(bs, k, k, b) \in [0..k -> Block]
         /\ Written(bs, k, k, b)[k] = b
         /\ \A s \in 0 .. (k - 1) : Written(bs, k, k, b)[s] = bs[s]
<1>1. Grown(k, k) - 1 = k
  BY DEF Grown
<1>2. Written(bs, k, k, b) = [s \in 0..k |-> IF s = k THEN b ELSE bs[s]]
  BY <1>1, Zenon DEF Written
<1>3. QED  BY <1>2

\* The header's last byte changes no value of a block (header.go:211-217).
LEMMA BittenAt ==
  ASSUME NEW n \in Nat, NEW bs \in [0 .. (n - 1) -> Block]
  PROVE  /\ Bitten(bs, n) \in [0 .. (n - 1) -> Block]
         /\ \A s \in 0 .. (n - 1) : s > 0 => Bitten(bs, n)[s] = bs[s]
         /\ n > 0 => Bitten(bs, n)[0].value = bs[0].value
<1>1. n > 0 => [value |-> bs[0].value, bitten |-> TRUE] \in Block
  <2>1. n > 0 => bs[0] \in Block  OBVIOUS
  <2>2. QED  BY <2>1
<1>2. QED  BY <1>1 DEF Bitten

-----------------------------------------------------------------------------
(***************************************************************************)
(* The steps of the other calls.                                           *)
(***************************************************************************)

\* They leave Save and Commit, and what these have done, as they are.
LEMMA StepKeeps ==
  ASSUME IInv, Step
  PROVE  InOrder' /\ Copied' /\ Outcomes' /\ TornOnly' /\ FailuresExplained'
<1> USE DEF Step, fileVars, callVars
<1>1. InOrder'  BY DEF IInv, InOrder
<1>2. Copied'  BY DEF Copied
<1>3. Outcomes'  BY DEF Outcomes
<1>4. TornOnly'  BY DEF TornOnly
<1>5. FailuresExplained'  BY DEF FailuresExplained
<1>6. QED  BY <1>1, <1>2, <1>3, <1>4, <1>5

LEMMA LoadKeeps ==
  ASSUME IInv, NEW s \in Sectors, Load(s)
  PROVE  IInv'
<1> USE DEF Load, Step, fileVars, callVars, headerVars
<1>1. blocks[s] \in Block /\ s < size
  BY DEF IInv, ImageTypeOK, Readable
<1>2. blocks[s] # NoData
  BY <1>1, BlockIsData
<1>3. \A r \in Sectors : data'[r] = IF r = s THEN blocks[s] ELSE data[r]
  BY DEF IInv, ImageTypeOK
<1>4. ImageTypeOK'
  BY <1>1 DEF IInv, ImageTypeOK
<1>5. Explained'
  BY <1>2, <1>3 DEF IInv, Explained
<1>6. DataRight'
  <2>1. ~damaged => Holds(blocks[s], s)
    BY DEF IInv, DataRight, UnmodifiedInFile
  <2>2. modified \subseteq Sectors
    BY DEF IInv, ImageTypeOK
  <2>3. QED  BY <1>2, <1>3, <2>1, <2>2 DEF IInv, DataRight
<1>7. Unbitten'
  <2>1. ~damaged => ~blocks[s].bitten
    BY <1>1 DEF IInv, ImageTypeOK, Unbitten
  <2>2. QED  BY <1>3, <2>1 DEF IInv, Unbitten
<1>8. UnmodifiedInFile'
  BY DEF IInv, UnmodifiedInFile
<1>9. HeaderRight'
  BY DEF IInv, HeaderRight
<1>10. QED  BY <1>4, <1>5, <1>6, <1>7, <1>8, <1>9, StepKeeps DEF IInv

LEMMA WriteSectorKeeps ==
  ASSUME IInv, NEW s \in Sectors, NEW c \in Contents, WriteSector(s, c)
  PROVE  IInv'
<1> USE DEF WriteSector, Step, fileVars, callVars, headerVars
<1>1. data[s] \in Block
  BY DEF IInv, ImageTypeOK
<1>2. data'[s] = [value |-> c, bitten |-> data[s].bitten]
  <2>1. data'[s] = [data[s] EXCEPT !.value = c]
    BY DEF IInv, ImageTypeOK
  <2>2. QED  BY <1>1, <2>1
<1>3. data'[s] \in Block /\ data'[s] # NoData
  BY <1>1, <1>2, BlockIsData
<1>4. \A r \in Sectors \ {s} : data'[r] = data[r] /\ doc'[r] = doc[r]
  BY DEF IInv, ImageTypeOK
<1>5. doc'[s] = c
  BY DEF IInv, ImageTypeOK
<1>6. ImageTypeOK'
  <2>1. \A r \in Sectors : data'[r] \in Block \cup {NoData}
    BY <1>3, <1>4 DEF IInv, ImageTypeOK
  <2>2. data' = [r \in Sectors |-> data'[r]]
    BY DEF IInv, ImageTypeOK
  <2>3. data' \in [Sectors -> Block \cup {NoData}]
    BY <2>1, <2>2, Zenon
  <2>4. QED  BY <2>3 DEF IInv, ImageTypeOK
<1>7. Explained'
  BY <1>3, <1>4 DEF IInv, Explained
<1>8. modified \subseteq Sectors
  BY DEF IInv, ImageTypeOK
<1>9. DataRight'
  <2>1. ~damaged => data'[s] = Intact(c)
    BY <1>1, <1>2 DEF IInv, Unbitten, ImageTypeOK
  <2>2. QED  BY <1>3, <1>4, <1>5, <1>8, <2>1 DEF IInv, DataRight
<1>10. Unbitten'
  BY <1>2, <1>3, <1>4 DEF IInv, Unbitten
<1>11. UnmodifiedInFile'
  BY <1>4 DEF IInv, UnmodifiedInFile
<1>12. HeaderRight'
  BY DEF IInv, HeaderRight
<1>13. QED  BY <1>6, <1>7, <1>9, <1>10, <1>11, <1>12, StepKeeps DEF IInv

\* A sector that has not been read gets zeroes and is written
\* (directory.go:499-501, 518).
LEMMA WriteFreshKeeps ==
  ASSUME IInv, NEW s \in Sectors, NEW c \in Contents, WriteFresh(s, c)
  PROVE  IInv'
<1> USE DEF WriteFresh, Step, fileVars, callVars, headerVars
<1>1. Intact(c) \in Block /\ Intact(c) # NoData /\ ~Intact(c).bitten
  BY BlockIsData
<1>2. /\ \A r \in Sectors \ {s} : data'[r] = data[r] /\ doc'[r] = doc[r]
      /\ data'[s] = Intact(c) /\ doc'[s] = c
  BY DEF IInv, ImageTypeOK
<1>3. modified \subseteq Sectors
  BY DEF IInv, ImageTypeOK
<1>4. ImageTypeOK'
  BY <1>1 DEF IInv, ImageTypeOK
<1>5. Explained'
  BY <1>1, <1>2 DEF IInv, Explained
<1>6. DataRight'
  BY <1>1, <1>2, <1>3 DEF IInv, DataRight
<1>7. Unbitten'
  BY <1>1, <1>2 DEF IInv, Unbitten
<1>8. UnmodifiedInFile'
  BY <1>2 DEF IInv, UnmodifiedInFile
<1>9. HeaderRight'
  BY DEF IInv, HeaderRight
<1>10. QED  BY <1>4, <1>5, <1>6, <1>7, <1>8, <1>9, StepKeeps DEF IInv

\* What the FAT sector t holds when one slot of it is written, and that the
\* other sectors hold what they held (memory.go:201).
LEMMA SlotSetAt ==
  ASSUME IInv, NEW t \in Sectors, NEW d \in Contents, IsFAT(t)
  PROVE  /\ SlotSet(t, d) \in [Sectors -> Block \cup {NoData}]
         /\ SlotSet(t, d)[t] # NoData
         /\ SlotSet(t, d)[t] = [value |-> d, bitten |-> data[t].bitten]
         /\ ~damaged => SlotSet(t, d)[t] = Intact(d)
         /\ \A r \in Sectors \ {t} : SlotSet(t, d)[r] = data[r]
<1>1. data \in [Sectors -> Block \cup {NoData}]
  BY DEF IInv, ImageTypeOK
<1>2. data[t] \in Block
  BY <1>1 DEF IsFAT
<1>3. SlotSet(t, d)[t] = [value |-> d, bitten |-> data[t].bitten]
  BY <1>1, <1>2 DEF SlotSet
<1>4. SlotSet(t, d)[t] \in Block /\ SlotSet(t, d)[t] # NoData
  BY <1>2, <1>3, BlockIsData
<1>5. \A r \in Sectors \ {t} : SlotSet(t, d)[r] = data[r]
  BY <1>1 DEF SlotSet
<1>6. SlotSet(t, d) \in [Sectors -> Block \cup {NoData}]
  <2>1. \A r \in Sectors : SlotSet(t, d)[r] \in Block \cup {NoData}
    BY <1>1, <1>4, <1>5
  <2>2. SlotSet(t, d) = [r \in Sectors |-> SlotSet(t, d)[r]]
    BY <1>1 DEF SlotSet
  <2>3. QED  BY <2>1, <2>2, Zenon
<1>7. ~damaged => ~data[t].bitten
  BY DEF IsFAT, IInv, Unbitten
<1>8. data[t].bitten \in BOOLEAN
  BY <1>2
<1>9. ~damaged => SlotSet(t, d)[t] = Intact(d)
  BY <1>3, <1>7, <1>8
<1>10. QED  BY <1>3, <1>4, <1>5, <1>6, <1>9

\* The sectors in T have data and are written: they hold what held says and
\* should hold what should says, as the others do.
Rewrites(held, should, T) ==
  /\ T \subseteq Sectors
  /\ held \in [Sectors -> Block \cup {NoData}] /\ should \in [Sectors -> Contents \cup {Any}]
  /\ \A r \in Sectors : r \notin T => held[r] = data[r] /\ should[r] = doc[r]
  /\ \A r \in T : held[r] # NoData /\ data[r] # NoData
  /\ ~damaged => \A r \in T : held[r] = Intact(should[r])

\* What the sectors and the file are after a sector is added to such sectors.
LEMMA AppendKeeps ==
  ASSUME IInv, NEW c \in Contents, NEW held, NEW should, NEW T,
         Rewrites(held, should, T), Append(c, held, should),
         modified' = modified \cup {count} \cup T
  PROVE  /\ data' \in [0 .. count -> Block \cup {NoData}]
         /\ doc' \in [0 .. count -> Contents \cup {Any}]
         /\ modified' \subseteq 0 .. count
         /\ Explained' /\ DataRight' /\ Unbitten' /\ UnmodifiedInFile'
<1>1. Intact(c) \in Block /\ Intact(c) # NoData /\ ~Intact(c).bitten
  BY BlockIsData
<1>2. count \in Nat /\ modified \subseteq Sectors
  BY DEF IInv, ImageTypeOK
<1>3. /\ count' = count + 1 /\ attached' = attached /\ size' = size /\ blocks' = blocks
      /\ pc' = pc /\ at' = at /\ damaged' = damaged /\ pc = "Idle"
  BY DEF Append, Step, fileVars, callVars
<1>4. Sectors' = Sectors \cup {count} /\ 0..count = Sectors \cup {count} /\ count \notin Sectors
  BY <1>2, <1>3
<1>5. /\ \A r \in Sectors : data'[r] = held[r] /\ doc'[r] = should[r]
      /\ data'[count] = Intact(c) /\ doc'[count] = c
      /\ data' = [r \in 0..count |-> data'[r]] /\ doc' = [r \in 0..count |-> doc'[r]]
  BY <1>2 DEF Append
<1>6. data' \in [0 .. count -> Block \cup {NoData}]
  <2>1. \A r \in Sectors : held[r] \in Block \cup {NoData}
    BY DEF Rewrites
  <2>2. \A r \in 0..count : data'[r] \in Block \cup {NoData}
    BY <1>1, <1>4, <1>5, <2>1, Zenon
  <2>3. QED  BY <1>5, <2>2, Zenon
<1>7. doc' \in [0 .. count -> Contents \cup {Any}]
  <2>1. \A r \in 0..count : doc'[r] \in Contents \cup {Any}
    BY <1>2, <1>5 DEF Rewrites
  <2>2. QED  BY <1>5, <2>1, Zenon
<1>8. Explained'
  BY <1>1, <1>3, <1>4, <1>5 DEF IInv, Explained, Rewrites
<1>9. DataRight'
  <2>1. ~damaged => \A r \in Sectors : data'[r] # NoData => doc'[r] = Any \/ data'[r] = Intact(doc'[r])
    BY <1>5 DEF IInv, DataRight, Rewrites
  <2>2. \A r \in modified' : data'[r] = NoData => doc'[r] = Any
    BY <1>1, <1>2, <1>5 DEF IInv, DataRight, Rewrites
  <2>3. QED  BY <1>3, <1>4, <1>5, <2>1, <2>2 DEF DataRight
<1>10. Unbitten'
  <2>1. ~damaged => \A r \in Sectors : data'[r] # NoData => ~data'[r].bitten
    <3>1. ASSUME ~damaged, NEW r \in Sectors, data'[r] # NoData PROVE ~data'[r].bitten
      <4>1. CASE r \in T
        <5>1. held[r] = Intact(should[r])
          BY <3>1, <4>1 DEF Rewrites
        <5>2. QED  BY <1>5, <5>1
      <4>2. CASE r \notin T
        BY <1>5, <3>1, <4>2 DEF Rewrites, IInv, Unbitten
      <4>3. QED  BY <4>1, <4>2
    <3>2. QED  BY <3>1
  <2>2. QED  BY <1>1, <1>3, <1>4, <1>5, <2>1 DEF IInv, Unbitten
<1>11. UnmodifiedInFile'
  BY <1>3, <1>4, <1>5 DEF IInv, UnmodifiedInFile, Rewrites
<1>12. modified' \subseteq 0..count
  BY <1>2 DEF Rewrites
<1>13. QED  BY <1>6, <1>7, <1>8, <1>9, <1>10, <1>11, <1>12

\* The same when the FAT sector with the new sector's slot is written too
\* (mcdf.go:479).
LEMMA AppendInFATKeeps ==
  ASSUME IInv, NEW c \in Contents, NEW t \in Sectors, NEW d \in Contents, AppendInFAT(c, t, d)
  PROVE  /\ data' \in [0 .. count -> Block \cup {NoData}]
         /\ doc' \in [0 .. count -> Contents \cup {Any}]
         /\ modified' \subseteq 0 .. count
         /\ Explained' /\ DataRight' /\ Unbitten' /\ UnmodifiedInFile'
<1> DEFINE held == SlotSet(t, d)
           should == [doc EXCEPT ![t] = d]
<1>1. IsFAT(t) /\ Append(c, held, should) /\ modified' = modified \cup {count} \cup {t}
  BY DEF AppendInFAT
<1>2. /\ held \in [Sectors -> Block \cup {NoData}] /\ held[t] # NoData
      /\ ~damaged => held[t] = Intact(d)
      /\ \A r \in Sectors \ {t} : held[r] = data[r]
  BY <1>1, SlotSetAt
<1>3. /\ should \in [Sectors -> Contents \cup {Any}] /\ should[t] = d
      /\ \A r \in Sectors \ {t} : should[r] = doc[r]
  BY DEF IInv, ImageTypeOK
<1>4. data[t] # NoData
  BY <1>1 DEF IsFAT
<1> HIDE DEF held, should
<1>5. Rewrites(held, should, {t})
  BY <1>2, <1>3, <1>4 DEF Rewrites
<1>6. QED  BY <1>1, <1>5, AppendKeeps

LEMMA AddSectorKeeps ==
  ASSUME IInv, NEW c \in Contents, NEW t \in Sectors, NEW d \in Contents, AddSector(c, t, d)
  PROVE  IInv'
<1> USE DEF AddSector, Step, fileVars, callVars, headerVars
<1>1. Step /\ count' = count + 1
  BY DEF AppendInFAT, Append
<1>2. ImageTypeOK'
  BY <1>1, AppendInFATKeeps DEF IInv, ImageTypeOK
<1>3. HeaderRight'
  BY <1>1 DEF IInv, HeaderRight
<1>4. QED  BY <1>1, <1>2, <1>3, AppendInFATKeeps, StepKeeps DEF IInv

LEMMA AddFATKeeps ==
  ASSUME IInv, NEW c \in Contents, NEW h \in Headers, AddFAT(c, h)
  PROVE  IInv'
<1> USE DEF AddFAT, Step, fileVars, callVars
<1>1. Step /\ count' = count + 1 /\ Append(c, data, doc) /\ modified' = modified \cup {count} \cup {}
  BY DEF Append
<1>2. Rewrites(data, doc, {})
  BY DEF Rewrites, IInv, ImageTypeOK
<1>3. /\ data' \in [0 .. count -> Block \cup {NoData}]
      /\ doc' \in [0 .. count -> Contents \cup {Any}]
      /\ modified' \subseteq 0 .. count
      /\ Explained' /\ DataRight' /\ Unbitten' /\ UnmodifiedInFile'
  BY <1>1, <1>2, AppendKeeps
<1>4. ImageTypeOK'
  BY <1>1, <1>3 DEF IInv, ImageTypeOK
<1>5. HeaderRight'
  BY <1>1 DEF IInv, HeaderRight
<1>6. QED  BY <1>1, <1>3, <1>4, <1>5, StepKeeps DEF IInv

LEMMA AddMiniFATKeeps ==
  ASSUME IInv, NEW c \in Contents, NEW h \in Headers, NEW t \in Sectors, NEW d \in Contents,
         AddMiniFAT(c, h, t, d)
  PROVE  IInv'
<1> USE DEF AddMiniFAT, MarkHeader, Step, fileVars, callVars
<1>1. Step /\ count' = count + 1
  BY DEF AppendInFAT, Append
<1>2. ImageTypeOK'
  BY <1>1, AppendInFATKeeps DEF IInv, ImageTypeOK
<1>3. HeaderRight'
  BY <1>1 DEF IInv, HeaderRight
<1>4. QED  BY <1>1, <1>2, <1>3, AppendInFATKeeps, StepKeeps DEF IInv

LEMMA ReuseForMiniFATKeeps ==
  ASSUME IInv, NEW h \in Headers, ReuseForMiniFAT(h)
  PROVE  IInv'
<1> USE DEF ReuseForMiniFAT, MarkHeader, Step, fileVars, callVars, sectorVars
<1>1. ImageTypeOK'
  BY DEF IInv, ImageTypeOK
<1>2. Explained' /\ DataRight' /\ Unbitten' /\ UnmodifiedInFile'
  BY DEF IInv, Explained, DataRight, Unbitten, UnmodifiedInFile
<1>3. HeaderRight'
  BY DEF HeaderRight
<1>4. QED  BY <1>1, <1>2, <1>3, StepKeeps DEF IInv

LEMMA DropSectorKeeps ==
  ASSUME IInv, NEW s \in Sectors, DropSector(s)
  PROVE  IInv'
<1> USE DEF DropSector, Step, fileVars, callVars, headerVars
<1>1. /\ \A r \in Sectors \ {s} : data'[r] = data[r] /\ doc'[r] = doc[r]
      /\ data'[s] = NoData /\ doc'[s] = Any
  BY DEF IInv, ImageTypeOK
<1>2. modified \subseteq Sectors /\ modified' \subseteq modified \cup {s} /\ modified \subseteq modified'
  BY DEF IInv, ImageTypeOK
<1>3. ImageTypeOK'
  BY <1>2 DEF IInv, ImageTypeOK
<1>4. Explained'
  BY <1>1 DEF IInv, Explained
<1>5. DataRight'
  BY <1>1, <1>2 DEF IInv, DataRight
<1>6. Unbitten'
  BY <1>1 DEF IInv, Unbitten
<1>7. UnmodifiedInFile'
  BY <1>1, <1>2 DEF IInv, UnmodifiedInFile
<1>8. HeaderRight'
  BY DEF IInv, HeaderRight
<1>9. QED  BY <1>3, <1>4, <1>5, <1>6, <1>7, <1>8, StepKeeps DEF IInv

LEMMA FreeSectorKeeps ==
  ASSUME IInv, NEW s \in Sectors, NEW t \in Sectors, NEW d \in Contents, FreeSector(s, t, d)
  PROVE  IInv'
<1> USE DEF FreeSector, Step, fileVars, callVars, headerVars
<1>1. /\ SlotSet(t, d) \in [Sectors -> Block \cup {NoData}]
      /\ SlotSet(t, d)[t] # NoData
      /\ SlotSet(t, d)[t] = [value |-> d, bitten |-> data[t].bitten]
      /\ ~damaged => SlotSet(t, d)[t] = Intact(d)
      /\ \A r \in Sectors \ {t} : SlotSet(t, d)[r] = data[r]
  BY SlotSetAt
<1>2. /\ \A r \in Sectors \ {s, t} : data'[r] = data[r] /\ doc'[r] = doc[r]
      /\ data'[s] = NoData /\ doc'[s] = Any
      /\ data'[t] = SlotSet(t, d)[t] /\ doc'[t] = d
  BY <1>1 DEF IInv, ImageTypeOK
<1>3. modified \subseteq Sectors /\ modified' \subseteq modified \cup {s, t} /\ modified \subseteq modified'
  BY DEF IInv, ImageTypeOK
<1>4. t \in modified' /\ data[t] # NoData
  BY DEF IsFAT
<1>5. ImageTypeOK'
  BY <1>1, <1>3 DEF IInv, ImageTypeOK
<1>6. Explained'
  BY <1>1, <1>2 DEF IInv, Explained
<1>7. DataRight'
  BY <1>1, <1>2, <1>3 DEF IInv, DataRight
<1>8. Unbitten'
  BY <1>1, <1>2, <1>4 DEF IInv, Unbitten
<1>9. UnmodifiedInFile'
  BY <1>2, <1>3, <1>4 DEF IInv, UnmodifiedInFile
<1>10. HeaderRight'
  BY DEF IInv, HeaderRight
<1>11. QED  BY <1>5, <1>6, <1>7, <1>8, <1>9, <1>10, StepKeeps DEF IInv

LEMMA ReuseKeeps ==
  ASSUME IInv, NEW s \in Sectors, NEW t \in Sectors, NEW d \in Contents, Reuse(s, t, d)
  PROVE  IInv'
<1> USE DEF Reuse, Step, fileVars, callVars, headerVars
<1>1. /\ data' \in [Sectors -> Block \cup {NoData}] /\ data'[t] # NoData
      /\ data'[t] = [value |-> d, bitten |-> data[t].bitten]
      /\ ~damaged => data'[t] = Intact(d)
      /\ \A r \in Sectors \ {t} : data'[r] = data[r]
  BY SlotSetAt
<1>2. doc'[t] = d /\ \A r \in Sectors \ {t} : doc'[r] = doc[r]
  BY DEF IInv, ImageTypeOK
<1>3. s # t /\ data[t] # NoData /\ modified \subseteq Sectors
  BY DEF IsFAT, IInv, ImageTypeOK
<1>4. ImageTypeOK'
  BY <1>1, <1>3 DEF IInv, ImageTypeOK
<1>5. Explained'
  BY <1>1, <1>2 DEF IInv, Explained
<1>6. DataRight'
  BY <1>1, <1>2, <1>3 DEF IInv, DataRight
<1>7. Unbitten'
  BY <1>1, <1>3 DEF IInv, Unbitten
<1>8. UnmodifiedInFile'
  BY <1>1, <1>2 DEF IInv, UnmodifiedInFile
<1>9. HeaderRight'
  BY DEF IInv, HeaderRight
<1>10. QED  BY <1>4, <1>5, <1>6, <1>7, <1>8, <1>9, StepKeeps DEF IInv

-----------------------------------------------------------------------------
(***************************************************************************)
(* Save.                                                                   *)
(***************************************************************************)

LEMMA SaveKeeps ==
  ASSUME IInv, Save
  PROVE  IInv'
<1> USE DEF Save, Begin, sectorVars, headerVars, fileVars
<1>1. ImageTypeOK'
  BY DEF IInv, ImageTypeOK
<1>2. Explained' /\ DataRight' /\ Unbitten' /\ UnmodifiedInFile'
  BY DEF IInv, Explained, DataRight, Unbitten, UnmodifiedInFile
<1>3. InOrder' /\ HeaderRight' /\ Outcomes'
  BY DEF IInv, ImageTypeOK, InOrder, HeaderRight, Outcomes
<1>4. Copied'
  BY DEF Copied, CopyOf, NoBlocks
<1>5. TornOnly' /\ FailuresExplained'
  BY DEF TornOnly, FailuresExplained
<1>6. QED  BY <1>1, <1>2, <1>3, <1>4, <1>5 DEF IInv

LEMMA SaveSectorKeeps ==
  ASSUME IInv, SaveSector
  PROVE  IInv'
<1> USE DEF SaveSector, headerVars, fileVars
<1>1. at \in Sectors /\ count \in Nat /\ at \in Nat /\ modified \subseteq Sectors
  BY DEF IInv, ImageTypeOK
<1>2. BlockOf(at) \in Block /\ BlockOf(at) # NoData
  BY <1>1, ReadIsBlock DEF IInv
<1>3. \A r \in Sectors : data'[r] = IF r = at THEN BlockOf(at) ELSE data[r]
  BY <1>1 DEF IInv, ImageTypeOK
<1>4. ~damaged => Holds(BlockOf(at), at)
  BY <1>1, <1>2 DEF BlockOf, IInv, DataRight, UnmodifiedInFile
<1>5. ImageTypeOK'
  BY <1>1, <1>2 DEF IInv, ImageTypeOK
<1>6. Explained'
  BY <1>2, <1>3 DEF IInv, Explained
<1>7. DataRight'
  BY <1>1, <1>2, <1>3, <1>4 DEF IInv, DataRight
<1>8. Unbitten'
  <2>1. ~damaged => ~BlockOf(at).bitten
    BY <1>1, ReadIsUnbitten
  <2>2. QED  BY <1>2, <1>3, <2>1 DEF IInv, Unbitten
<1>9. UnmodifiedInFile' /\ InOrder' /\ HeaderRight' /\ Outcomes'
  BY DEF IInv, UnmodifiedInFile, InOrder, HeaderRight, Outcomes
<1>10. Copied'
  <2> DEFINE bs == Written(copy.blocks, at, at, BlockOf(at))
  <2>1. CopyOf(at)
    BY DEF IInv, Copied
  <2>2. copy' = [header |-> header, blocks |-> bs]
    BY <2>1 DEF CopyOf
  <2>3. /\ bs \in [0..at -> Block] /\ bs[at] = BlockOf(at)
        /\ \A s \in 0 .. (at - 1) : bs[s] = copy.blocks[s]
    <3>1. copy.blocks \in [0 .. (at - 1) -> Block]
      BY <2>1 DEF CopyOf
    <3>2. QED  BY <1>1, <1>2, <3>1, WrittenNext
  <2> HIDE DEF bs
  <2>4. /\ copy' = [header |-> header', blocks |-> copy'.blocks]
        /\ copy'.blocks \in [0 .. (at' - 1) -> Block]
    <3>1. copy'.blocks = bs /\ header' = header /\ at' - 1 = at
      BY <1>1, <2>2
    <3>2. QED  BY <2>2, <2>3, <3>1
  <2>5. ASSUME ~damaged, NEW s \in 0..at
        PROVE  doc'[s] = Any \/ copy'.blocks[s] = Intact(doc'[s])
    <3>1. copy'.blocks = bs  BY <2>2
    <3>2. CASE s = at
      BY <1>4, <2>3, <2>5, <3>1, <3>2
    <3>3. CASE s # at
      <4>1. s \in 0 .. (at - 1)  BY <1>1, <3>3
      <4>2. doc[s] = Any \/ copy.blocks[s] = Intact(doc[s])
        BY <2>1, <2>5, <4>1 DEF CopyOf
      <4>3. QED  BY <2>3, <3>1, <4>1, <4>2
    <3>4. QED  BY <3>2, <3>3
  <2>6. CopyOf(at)'
    BY <1>1, <2>4, <2>5 DEF CopyOf
  <2>7. QED  BY <2>6 DEF IInv, Copied, Outcomes
<1>11. TornOnly' /\ FailuresExplained'
  BY DEF IInv, TornOnly, FailuresExplained, Outcomes
<1>12. QED  BY <1>5, <1>6, <1>7, <1>8, <1>9, <1>10, <1>11 DEF IInv

\* A call that ends without having changed anything but the result.
LEMMA EndKeeps ==
  ASSUME IInv, NEW outcome \in {"saved", "committed", "failed"}, End(outcome),
         UNCHANGED <<sectorVars, headerVars, fileVars, damaged>>, pc # "Idle"
  PROVE  /\ ImageTypeOK' /\ Explained' /\ DataRight' /\ UnmodifiedInFile'
         /\ InOrder' /\ TornOnly'
<1> USE DEF End, sectorVars, headerVars, fileVars
<1>1. ImageTypeOK'
  BY DEF IInv, ImageTypeOK
<1>2. Explained' /\ DataRight' /\ UnmodifiedInFile'
  BY DEF IInv, Explained, DataRight, UnmodifiedInFile
<1>3. InOrder'
  BY DEF IInv, ImageTypeOK, InOrder
<1>4. TornOnly'
  BY DEF TornOnly
<1>5. QED  BY <1>1, <1>2, <1>3, <1>4

LEMMA SaveFailsKeeps ==
  ASSUME IInv, SaveFails
  PROVE  IInv'
<1> USE DEF SaveFails, End, sectorVars, headerVars, fileVars
<1>1. pc = "Save" /\ at \in Sectors
  BY DEF IInv, ImageTypeOK
<1>2. Unbitten' /\ HeaderRight' /\ Copied' /\ Outcomes'
  BY <1>1 DEF IInv, Unbitten, HeaderRight, Copied, Outcomes
<1>3. FailuresExplained'
  BY <1>1 DEF Readable, IInv, Explained, FailuresExplained
<1>4. QED  BY <1>1, <1>2, <1>3, EndKeeps DEF IInv

LEMMA SaveEndsKeeps ==
  ASSUME IInv, SaveEnds
  PROVE  IInv'
<1> USE DEF SaveEnds, End, sectorVars, headerVars, fileVars
<1>1. Unbitten' /\ HeaderRight' /\ Outcomes' /\ FailuresExplained'
  BY DEF IInv, Unbitten, HeaderRight, Outcomes, FailuresExplained
<1>2. Copied'
  BY DEF IInv, Copied, CopyOf
<1>3. QED  BY <1>1, <1>2, EndKeeps DEF IInv

-----------------------------------------------------------------------------
(***************************************************************************)
(* Commit.                                                                 *)
(***************************************************************************)

LEMMA CommitKeeps ==
  ASSUME IInv, Commit
  PROVE  IInv'
<1> USE DEF Commit, Begin, sectorVars
<1>1. /\ size \in Nat /\ blocks \in [0 .. (size - 1) -> Block]
      /\ count \in Nat /\ modified \subseteq Sectors /\ damaged \in BOOLEAN
  BY DEF IInv, ImageTypeOK
<1>2. /\ blocks' \in [0 .. (size - 1) -> Block]
      /\ \A s \in 0 .. (size - 1) : s > 0 => blocks'[s] = blocks[s]
      /\ size > 0 => blocks'[0].value = blocks[0].value
      /\ ~headerModified => blocks' = blocks
  BY <1>1, BittenAt
<1>3. ~damaged' => ~damaged /\ InPlace
  BY <1>1
<1>4. ImageTypeOK'
  <2>1. /\ headerModified' \in BOOLEAN /\ attached' \in BOOLEAN
        /\ damaged' \in BOOLEAN /\ unmarked' \in BOOLEAN
    BY Zenon DEF IInv, ImageTypeOK
  <2>2. diskHeader' \in Headers /\ header' \in Headers
    BY DEF IInv, ImageTypeOK
  <2>3. /\ pc' = "Commit" /\ at' = 0 /\ offset' = 0 /\ result' = "none"
        /\ UNCHANGED <<count, size, data, doc, modified>>
    OBVIOUS
  <2> HIDE DEF Commit
  <2>4. QED  BY <1>1, <1>2, <2>1, <2>2, <2>3 DEF IInv, ImageTypeOK
<1>5. Explained' /\ DataRight'
  BY <1>3 DEF IInv, Explained, DataRight
<1>6. Unbitten'
  <2>1. ~damaged' => \A s \in 0 .. (size - 1) : ~blocks[s].bitten
    BY <1>3 DEF IInv, Unbitten
  <2>2. QED  BY <1>1, <1>2, <1>3, <2>1 DEF IInv, Unbitten, InPlace
<1>7. UnmodifiedInFile'
  BY <1>1, <1>2, <1>3 DEF IInv, UnmodifiedInFile, InPlace
<1>8. InOrder'
  <2>1. size' >= 0 /\ \A s \in modified : s >= 0  BY <1>1
  <2>2. QED  BY <1>3, <2>1 DEF InOrder, InPlace
<1>9. HeaderRight'
  BY DEF IInv, HeaderRight
<1>10. Copied' /\ Outcomes' /\ FailuresExplained'
  BY DEF Copied, Outcomes, FailuresExplained
<1>11. TornOnly'
  BY <1>1, <1>2 DEF TornOnly
<1>12. QED  BY <1>4, <1>5, <1>6, <1>7, <1>8, <1>9, <1>10, <1>11 DEF IInv

LEMMA CommitSkipsKeeps ==
  ASSUME IInv, CommitSkips
  PROVE  IInv'
<1> USE DEF CommitSkips, sectorVars, headerVars, fileVars
<1>1. at \in Nat /\ count \in Nat /\ offset \in 0..at /\ modified \subseteq Sectors
  BY DEF IInv, ImageTypeOK
<1>2. ImageTypeOK'
  BY DEF IInv, ImageTypeOK
<1>3. Explained' /\ DataRight' /\ UnmodifiedInFile' /\ HeaderRight' /\ Outcomes'
  BY DEF IInv, Explained, DataRight, UnmodifiedInFile, HeaderRight, Outcomes
<1>4. Unbitten'
  BY DEF IInv, Unbitten
<1>5. InOrder'
  \* Nothing is marked any more: what is would be at the end of a run from at on.
  <2>1. ~damaged => modified = {}
    BY <1>1 DEF IInv, InOrder
  <2>2. QED  BY <2>1 DEF IInv, InOrder
<1>6. Copied' /\ FailuresExplained'
  BY DEF IInv, Copied, FailuresExplained, Outcomes
<1>7. TornOnly'
  BY DEF IInv, TornOnly
<1>8. QED  BY <1>2, <1>3, <1>4, <1>5, <1>6, <1>7 DEF IInv

LEMMA CommitSectorKeeps ==
  ASSUME IInv, CommitSector
  PROVE  IInv'
<1> USE DEF CommitSector, headerVars
<1>1. /\ at \in Sectors /\ at \in Nat /\ count \in Nat /\ modified \subseteq Sectors
      /\ size \in Nat /\ offset \in 0..at /\ offset \in 0..size
      /\ blocks \in [0 .. (size - 1) -> Block]
  BY DEF IInv, ImageTypeOK, InOrder
<1>2. BlockOf(at) \in Block /\ BlockOf(at) # NoData
  BY <1>1, ReadIsBlock DEF IInv
<1>3. \A r \in Sectors : data'[r] = IF r = at THEN BlockOf(at) ELSE data[r]
  BY <1>1 DEF IInv, ImageTypeOK
<1>4. /\ size' \in Nat /\ size <= size' /\ offset < size'
      /\ blocks' \in [0 .. (size' - 1) -> Block]
      /\ blocks'[offset] = BlockOf(at)
      /\ \A s \in 0 .. (size' - 1) : s # offset => s < size /\ blocks'[s] = blocks[s]
  BY <1>1, <1>2, WrittenAt
<1>5. ~damaged => offset = at
  BY DEF IInv, InOrder
<1>6. ~damaged => Holds(BlockOf(at), at)
  BY <1>1, <1>2 DEF BlockOf, IInv, DataRight
<1>7. ImageTypeOK'
  BY <1>1, <1>2, <1>4 DEF IInv, ImageTypeOK
<1>8. Explained'
  BY <1>1, <1>2, <1>3, <1>4 DEF IInv, Explained
<1>9. DataRight'
  BY <1>1, <1>2, <1>3, <1>6 DEF IInv, DataRight
<1>10. Unbitten'
  <2>1. ~damaged => ~BlockOf(at).bitten
    BY <1>1, ReadIsUnbitten
  <2>2. ~damaged => \A s \in 0 .. (size' - 1) : ~blocks'[s].bitten
    BY <1>1, <1>4, <1>5, <2>1 DEF IInv, Unbitten
  <2>3. QED  BY <1>2, <1>3, <2>1, <2>2 DEF IInv, Unbitten
<1>11. UnmodifiedInFile'
  <2> SUFFICES ASSUME ~damaged, NEW s \in Sectors, s \notin modified' , doc[s] # Any
               PROVE  s < size' /\ blocks'[s] = Intact(doc[s])
    BY DEF UnmodifiedInFile
  <2>1. CASE s = at
    BY <1>4, <1>5, <1>6, <2>1
  <2>2. CASE s # at
    <3>1. s < size /\ blocks[s] = Intact(doc[s])
      BY <2>2 DEF IInv, UnmodifiedInFile
    <3>2. QED  BY <1>1, <1>4, <1>5, <2>2, <3>1
  <2>3. QED  BY <2>1, <2>2
<1>12. InOrder'
  BY <1>1, <1>4, <1>5 DEF IInv, InOrder
<1>13. HeaderRight' /\ Outcomes' /\ Copied' /\ FailuresExplained'
  BY DEF IInv, HeaderRight, Outcomes, Copied, FailuresExplained
<1>14. TornOnly'
  BY <1>1, <1>4, <1>5, <1>6 DEF IInv, TornOnly
<1>15. QED
  BY <1>7, <1>8, <1>9, <1>10, <1>11, <1>12, <1>13, <1>14 DEF IInv

LEMMA CommitFailsKeeps ==
  ASSUME IInv, CommitFails
  PROVE  IInv'
<1> USE DEF CommitFails, End, sectorVars, headerVars, fileVars
<1>1. pc = "Commit" /\ at \in Sectors
  BY DEF IInv, ImageTypeOK
<1>2. HeaderRight' /\ Copied' /\ Outcomes'
  BY <1>1 DEF IInv, HeaderRight, Copied, Outcomes
<1>3. Unbitten'
  BY <1>1 DEF Readable, IInv, Unbitten
<1>4. FailuresExplained'
  BY <1>1 DEF Readable, IInv, Explained, FailuresExplained
<1>5. QED  BY <1>1, <1>2, <1>3, <1>4, EndKeeps DEF IInv

LEMMA CommitEndsKeeps ==
  ASSUME IInv, CommitEnds
  PROVE  IInv'
<1> USE DEF CommitEnds, End, sectorVars, headerVars, fileVars
<1>1. count \in Nat /\ modified \subseteq Sectors
  BY DEF IInv, ImageTypeOK
<1>2. HeaderRight' /\ Copied' /\ FailuresExplained'
  BY DEF IInv, HeaderRight, Copied, FailuresExplained
<1>3. Unbitten'
  BY <1>1 DEF IInv, Unbitten
<1>4. Outcomes'
  BY <1>1 DEF IInv, InOrder, Outcomes
<1>5. QED  BY <1>2, <1>3, <1>4, EndKeeps DEF IInv

-----------------------------------------------------------------------------
(***************************************************************************)
(* Opening a file, and the theorem.                                        *)
(***************************************************************************)

LEMMA OpenFileKeeps ==
  ASSUME NEW h \in Headers, NEW n \in Nat, NEW bs \in [0 .. (n - 1) -> Block],
         NEW r, NEW f, OpenFile(h, bs, n, r, f)
  PROVE  IInv'
<1> USE DEF OpenFile, Collection, End
<1>1. ImageTypeOK'
  <2>1. \A s \in 0 .. (n - 1) : bs[s].value \in Contents
    OBVIOUS
  <2>2. /\ headerModified' \in BOOLEAN /\ attached' \in BOOLEAN
        /\ damaged' \in BOOLEAN /\ unmarked' \in BOOLEAN
    BY Zenon
  <2>3. doc' \in [Sectors' -> Contents \cup {Any}]
    BY <2>1
  <2>4. /\ count' = n /\ data' \in [0 .. (n - 1) -> Block \cup {NoData}] /\ modified' = {}
        /\ size' = n /\ blocks' = bs /\ diskHeader' = h /\ header' = h
        /\ pc' = "Idle" /\ at' = 0 /\ offset' = 0 /\ result' = "none"
    OBVIOUS
  <2> HIDE DEF OpenFile
  <2>5. QED  BY <2>2, <2>3, <2>4 DEF ImageTypeOK
<1>2. ASSUME NEW s \in 0 .. (n - 1), ~bs[s].bitten
      PROVE  bs[s] = Intact(bs[s].value)
  BY <1>2
<1>3. Explained' /\ DataRight'
  <2>1. Explained'
    BY DEF Explained
  <2>2. ~damaged' => \A t \in 0 .. (n - 1) : ~bs[t].bitten
    BY Zenon
  <2>3. ASSUME ~damaged', NEW s \in 0 .. (n - 1), data'[s] # NoData
        PROVE  doc'[s] = Any \/ data'[s] = Intact(doc'[s])
    <3>1. data'[s] = bs[s] /\ doc'[s] \in {Any, bs[s].value}
      BY <2>3
    <3>2. bs[s] = Intact(bs[s].value)
      BY <1>2, <2>2, <2>3
    <3>3. QED  BY <3>1, <3>2
  <2>4. count' = n /\ modified' = {}
    OBVIOUS
  <2> HIDE DEF OpenFile
  <2>5. QED  BY <2>1, <2>3, <2>4 DEF DataRight
<1>4. Unbitten' /\ UnmodifiedInFile'
  BY <1>2 DEF Unbitten, UnmodifiedInFile
<1>5. InOrder' /\ HeaderRight' /\ Copied' /\ Outcomes'
  BY DEF InOrder, HeaderRight, Copied, Outcomes
<1>6. TornOnly' /\ FailuresExplained'
  BY DEF TornOnly, FailuresExplained
<1>7. QED  BY <1>1, <1>3, <1>4, <1>5, <1>6 DEF IInv

LEMMA InitHolds == Init => IInv
<1> SUFFICES ASSUME Init PROVE IInv
  OBVIOUS
<1> USE DEF Init
<1>1. CASE NewDocument
  BY <1>1 DEF NewDocument, NoBlocks, IInv, ImageTypeOK, Explained, DataRight, Unbitten,
     UnmodifiedInFile, InOrder, HeaderRight, Copied, Outcomes, TornOnly, FailuresExplained
<1>2. CASE OpenedDocument
  <2> USE <1>2 DEF OpenedDocument
  <2>1. /\ size \in Nat /\ count = size /\ modified = {}
        /\ header \in Headers /\ diskHeader = header
        /\ pc = "Idle" /\ at = 0 /\ offset = 0 /\ result = "none"
    BY DEF Init
  <2>2. /\ blocks \in [Sectors -> {Intact(c) : c \in Contents}]
        /\ doc = [s \in Sectors |-> blocks[s].value]
        /\ data = [s \in Sectors |-> data[s]]
        /\ \A s \in Sectors : data[s] = NoData \/ data[s] = blocks[s]
    OBVIOUS
  <2>3. /\ attached /\ headerModified \in BOOLEAN /\ attached \in BOOLEAN
        /\ damaged \in BOOLEAN /\ unmarked \in BOOLEAN
    BY Zenon DEF Init
  <2> HIDE <1>2 DEF Init, OpenedDocument
  <2>4. ASSUME NEW s \in Sectors
        PROVE  /\ blocks[s] \in Block /\ ~blocks[s].bitten
               /\ doc[s] \in Contents /\ blocks[s] = Intact(doc[s])
    <3>1. PICK c \in Contents : blocks[s] = Intact(c)
      BY <2>2
    <3>2. doc[s] = Intact(c).value
      BY <2>2, <3>1
    <3>3. QED  BY <3>1, <3>2
  <2>5. blocks \in [0 .. (size - 1) -> Block]
    <3>1. blocks = [s \in Sectors |-> blocks[s]]  BY <2>2
    <3>2. QED  BY <2>1, <2>4, <3>1
  <2>6. doc \in [Sectors -> Contents] /\ data \in [Sectors -> Block \cup {NoData}]
    <3>1. \A s \in Sectors : data[s] \in Block \cup {NoData}
      BY <2>2, <2>4
    <3>2. data \in [Sectors -> Block \cup {NoData}]
      BY <2>2, <3>1, Zenon
    <3>3. QED  BY <2>2, <2>4, <3>2
  <2>7. ImageTypeOK
    <3>1. doc \in [Sectors -> Contents \cup {Any}]
      BY <2>6
    <3>2. count \in Nat /\ at \in 0..count /\ offset \in 0..at
      BY <2>1
    <3>3. QED  BY <2>1, <2>3, <2>5, <2>6, <3>1, <3>2 DEF ImageTypeOK
  <2>8. Explained /\ UnmodifiedInFile
    BY <2>1, <2>3, <2>4 DEF Explained, UnmodifiedInFile
  <2>9. DataRight /\ Unbitten
    <3>1. \A s \in Sectors : data[s] # NoData => data[s] = Intact(doc[s]) /\ ~data[s].bitten
      BY <2>2, <2>4
    <3>2. QED  BY <2>1, <2>4, <3>1 DEF DataRight, Unbitten
  <2>10. InOrder /\ HeaderRight /\ Copied /\ Outcomes /\ TornOnly /\ FailuresExplained
    BY <2>1 DEF InOrder, HeaderRight, Copied, Outcomes, TornOnly, FailuresExplained
  <2>11. QED  BY <2>7, <2>8, <2>9, <2>10 DEF IInv
<1>3. QED  BY <1>1, <1>2

LEMMA NextKeeps == IInv /\ [Next]_vars => IInv'
<1> SUFFICES ASSUME IInv, [Next]_vars PROVE IInv'
  OBVIOUS
<1>1. CASE Calls
  BY <1>1, LoadKeeps, WriteSectorKeeps, WriteFreshKeeps, AddSectorKeeps, AddFATKeeps,
     AddMiniFATKeeps, ReuseForMiniFATKeeps, DropSectorKeeps, FreeSectorKeeps, ReuseKeeps
     DEF Calls
<1>2. CASE Saving
  BY <1>2, SaveKeeps, SaveSectorKeeps, SaveFailsKeeps, SaveEndsKeeps DEF Saving
<1>3. CASE Committing
  BY <1>3, CommitKeeps, CommitSkipsKeeps, CommitSectorKeeps, CommitFailsKeeps,
     CommitEndsKeeps DEF Committing
<1>4. CASE Reopen
  BY <1>4, OpenFileKeeps DEF Reopen, IInv, ImageTypeOK
<1>5. CASE OpenCopy
  <2>1. count \in Nat /\ header \in Headers /\ CopyOf(count)
    BY <1>5 DEF OpenCopy, IInv, ImageTypeOK, Copied
  <2>2. copy.header \in Headers /\ copy.blocks \in [0 .. (count - 1) -> Block]
    BY <2>1 DEF CopyOf
  <2>3. QED  BY <1>5, <2>1, <2>2, OpenFileKeeps DEF OpenCopy
<1>6. CASE UNCHANGED vars
  BY <1>6 DEF vars, sectorVars, headerVars, fileVars, callVars, IInv, ImageTypeOK, Explained,
     DataRight, Unbitten, UnmodifiedInFile, InOrder, HeaderRight, Copied, CopyOf, Outcomes,
     TornOnly, FailuresExplained
<1>7. QED  BY <1>1, <1>2, <1>3, <1>4, <1>5, <1>6 DEF Next

LEMMA Invariance == Spec => []IInv
BY InitHolds, NextKeeps, PTL DEF Spec

\* The variables have their types, for any number of sectors (sector.go:22-40).
THEOREM ImageTypes == Spec => []ImageTypeOK
<1>1. IInv => ImageTypeOK  BY DEF IInv
<1>2. QED  BY <1>1, Invariance, PTL

\* What is not marked is in the file (sector.go:163-184, mcdf.go:704).
THEOREM UnmodifiedCorrect == Spec => []UnmodifiedInFile
<1>1. IInv => UnmodifiedInFile  BY DEF IInv
<1>2. QED  BY <1>1, Invariance, PTL

\* Save writes the document (mcdf.go:653-681).
THEOREM SaveCorrect == Spec => []SaveExact
<1>1. IInv => SaveExact
  BY DEF IInv, ImageTypeOK, Copied, CopyOf, SaveExact
<1>2. QED  BY <1>1, Invariance, PTL

\* Commit of a document whose marked sectors are the first leaves it in the file
\* (mcdf.go:683-718).
THEOREM CommitCorrect == Spec => []CommitExact
<1>1. IInv => CommitExact
  BY DEF IInv, Outcomes, HeaderRight, UnmodifiedInFile, InFile, CommitExact
<1>2. QED  BY <1>1, Invariance, PTL

\* A crash in such a Commit leaves new blocks followed by old ones (mcdf.go:699-716).
THEOREM TornCorrect == Spec => []TornOnly
<1>1. IInv => TornOnly  BY DEF IInv
<1>2. QED  BY <1>1, Invariance, PTL

\* Save and Commit fail only for a sector freed before it was in the file
\* (mcdf.go:674, 707).
THEOREM FailuresCorrect == Spec => []FailuresExplained
<1>1. IInv => FailuresExplained  BY DEF IInv
<1>2. QED  BY <1>1, Invariance, PTL
=============================================================================
