# openmcdf in TLA+

A verification development of the Go library `openmcdf`, which creates, reads
and changes compound files (OLE structured storage): TLA+ modules translated
from the source, TLC runs over small documents, and TLAPS proofs for every
document. Line numbers are those of the files of `src/`.

## 1. Inventory

A compound file is a header of 512 bytes and numbered sectors. The *FAT* has a
slot for each sector, the number of the sector after it in its chain or a
sentinel; the FAT is itself kept in sectors, which the header names, and beyond
109 of them *DIFAT* sectors do. Streams shorter than 4096 bytes are kept in
64-byte *mini sectors* that lie in the sectors of one chain (the containers),
with a table of their own, the *miniFAT*. *Directory* sectors hold 128-byte
entries: the root, storages and streams, those of one storage linked as a
red-black tree.

| Component | State | Operations |
|---|---|---|
| header (`header.go`) | counts and first sectors of FAT, DIFAT, miniFAT and directory, `modified` | read and check, bytes |
| sectors (`sector.go`) | the collection; of each sector `next`, `data` or nil, `modified` | Add, Get, lazy Read, Write |
| memory (`memory.go`) | five lists (FAT, miniFAT, directory, DIFAT, free), the `set` of sectors in a list | addSector, Pop, Push, changeFAT, changeMiniFAT |
| mini memory (`memory_mini.go`, `sector_mini.go`) | mini sectors in their containers, the free set | addSector, Pop, Push, Read, Write |
| allocation (`mcdf.go:373-651, 720-767`) | none of its own | addSector for each type, addMiniSector, updateDirectory, FreeFAT, FreeMiniFAT |
| opening (`mcdf.go:31-334`) | the file | New, Open, readFAT, readDirectory, readMiniFAT |
| saving (`mcdf.go:343-371, 653-718`) | the file | Save, Commit, Close |
| directory entries (`directory.go`) | entries, the free set | New, Push, Pop, Write, Read |
| streams (`stream.go`) | a handle on an entry | SetData, Append, GetData |
| storages (`storage.go`) | a handle on an entry, its cached tree | AddStream, AddStorage, Delete, Get |
| tree (`tree.go`) | nodes, colours, `modified` marks | Insert, Delete, Find, traversal |
| byte file (`utils.go`) | bytes | WriteAt, Save |
| log (`log.go`) | none | prints |

How they interact: a stream handle calls `Directory.Write`, which frees the
chain that is no longer the right kind (`FreeFAT`, `FreeMiniFAT`), changes the
entry's size, writes the sectors the stream has, allocates the others, saves
links to the FAT or the miniFAT as it goes, frees what is left of the old chain
and writes the entry to its directory sector. An allocation takes a freed sector
or appends one, and may append a FAT sector and a DIFAT sector first; a mini
sector may need a container, and that a miniFAT sector. Everything is shared
state of one `CompoundFile`; there are no goroutines, callbacks or messages.

What is hard is therefore not concurrency. It is

- growth at boundaries: the FAT has to hold the slots of the sectors that extend
  it; the header stops counting FAT sectors at the first DIFAT sector;
- one fact kept twice: `next` and the FAT slot, the lists and the set, the entry
  and the directory sector, the size and the length of the chain;
- links that stay behind: a shortened stream's last sector still points at the
  freed tail, which others take over;
- failure half way: `Directory.Write` can return an error from eighteen places,
  most of them with sizes, links and lists changed and others not yet, and the caller may call again;
- an order nobody chose: which free mini sector comes next is the iteration
  order of a Go map;
- a cache and its origin: a storage's tree and the entries, a sector's data and
  the file, each with a `modified` flag that says which is ahead;
- what only shows later: on the next `Open`, after a `Commit`, after a crash.

What makes each component correct: *memory*: a sector is in one list at most,
and the set says which. *Allocation*: every sector has its slot; tables are
never given away, freed or emptied. *Opening and saving*: what is written can be
read, and reads back as it was. *Streams*: a stream holds what was written to it
and nothing else changes it; its sectors are its own; a call returns, and without
error. *Entries*: the directory sectors hold the entries. *Tree*: it is a
red-black tree of the names, and what its marks leave out is written already. *Storages*:
names are unique, what is deleted is free again, handles agree.

## 2. Plan

1. `Layout`, `SectorMemory`, `CompoundFile` - allocation and stream data, the
   core of the library, with `StreamStore` as its promise. *Done.*
2. `Tree` - insertion, deletion and rotation as operators on trees. *Done.*
3. `Storage`, which composes the tree with the entries: lookups, AddStream,
   AddStorage and Delete through several handles with cached trees, and `Folder`
   as its promise. *Done.*
4. `FileImage` - modified flags, Commit sector by sector with a crash between any
   two, Save, and Open of what they wrote; the byte file's `WriteAt`. *Done.*
5. Theorems: for 1 and 4, those of section 6: the types, the lists, the growth of
   the tables, what is saved, what a reader finds, and that chains are apart; for 2,
   insertion, deletion, lookup and iteration on trees of any size; for 3, types,
   trees, marks, handles, names, entries and panics over those, and the
   implementation of `Folder`. *Done.* Open: mini chains, and with them `NeverFails`
   and `StoreRefined` for a caller whose streams grow.
6. Open: a composition of `Storage` with `CompoundFile`, in which deleting an
   entry meets the sectors it still names.

The modules are written for both tools: parameters are constants with named
assumptions, there is one action for each step, invariants are conjunctions of
named parts, and no operator is declared RECURSIVE (chains are recursive
functions).

## 3. Modules and how they correspond to the code

`Layout` - the sizes as constants, with the one assumption `LayoutAssumption` on
them that both versions of the format satisfy; the sentinels as the int32 values
the code compares.

`SectorMemory` - the sector collection, `Memory`, and the cases of `addSector`
that allocate a sector and grow the FAT (`TypeSectorFAT`,
`TypeSectorMemmoryFAT`). `next`, `loaded` and `data` are the fields of
`Sector`, `set` and `memFat` ... `memFree` those of `Memory`; `fat` and `difat`
are what the bytes of those sectors say, kept apart from `next` because the code
keeps them apart.

`CompoundFile` - the rest of `addSector`, mini sectors, entries, and the calls
of a document's owner. A call is a run of steps: one for each round of a loop and
each allocation. `pc` says where in the code the call is, `caller` which caller
of `addSector` or of `FreeFAT` it returns to; `OldSize`, `offset`, `SecID`,
`old`, `s` and `updateDE` are `Directory.Write`'s locals, and `arg`, `res` and
`errors` what the call was and what calls have returned. The steps follow the
code's order, so that every early return leaves exactly what the code leaves:

| Code | Actions |
|---|---|
| `stream.go` SetData, Append, GetData; `storage.go` AddStream | `SetData`, `AppendData`, `GetData`, `AddStream` |
| `mcdf.go:653-718, 769-776` Save, Commit, SectorBytes | `Save`, `Commit`, `SectorBytes` |
| `Directory.Write` to line 475 | `Write` (part of the call), `FreeFAT`, `FreeMiniFAT`, `Freed` |
| lines 477-493 | `Resize` |
| lines 494-533, sectors | `WriteBigExisting`, `WriteBigGrow`, `BigSector`, `FinishBig` |
| lines 538-579, mini sectors | `WriteMiniExisting`, `WriteMiniNew`, `WriteMiniGrow`, `FinishMini` |
| line 582 | `Update` |
| `addSector` | `AllocFree`, `AllocTable`, `AllocNew`, `MiniTable`, `Container`, `DirSector` |
| `DirectoryCollection.New` and the writes of entries after it | `NewEntry` |

Stream data is a token for each piece of mini-sector size: *piece k of what was
written to stream d with payload v*, zeroes, or bytes of the file. That is
enough to tell whose data is where; the bytes of a table or directory sector are
in the table's variable and are not overlaid on `data`.

Save, Commit and SectorBytes are one step each here: what they do to the document is that
sectors without data are read (`ReadIn`), freed ones of the file too, and that a Commit may make
the file longer; in which order they write, and what a crash leaves, is `FileImage`'s.
`CarefulSpec` is the owner who makes these three calls only when no free sector gets data
by them, `GrowSpec` one whose streams never shrink.

`CompoundFileProperties` - what the runs check beyond the invariants stated in
`CompoundFile`, and the refinement mapping. `MCCompoundFile` - the values TLC
gives the constants.

`StreamStore` - the promise, without sectors: named streams, a write that begins
and finishes, nothing else changed meanwhile. The mapping takes a stream to the
pieces `Directory.Read` would return, and the stream being written to an
unfinished write.

`CompoundFileProofs`, `CompoundFileTableProofs`, `CompoundFileSafetyProofs`,
`CompoundFileSavedProofs`, `CompoundFileChainsProofs` - the proofs (section 6), each using those before it.

`Tree` - `tree.go`. A tree is a value: links, parents, the set of red nodes, the
set of nodes marked modified, and the size. Each method is an operator from the
tree it is called on to the tree it leaves, or to `NilPointer` where it would
dereference a nil node. The code is written twice, once for each side, and the
model once, with the side as a parameter; where the two sides of the code differ
(`LastCase` and `SiblingCase`: which nodes are marked) the side is tested. Loops
are recursive functions on the state of the loop (`Loop`). A key is greater on the
left, as `findnode` and `Insert` have it. `TreeProofs` has its proofs (section 6).

`Storage` - `storage.go` over those trees, the collection of entries of
`directory.go`, and the directory sectors. `dirs`, `free` and `saved` are the
entries in memory, the free set and the entries in the sectors; `handle` has for
each of the owner's storage variables the entry and the cached tree, Nil before
its first use. One action is one call, with everything it writes:

| Code | Definitions |
|---|---|
| `storage.go:21-49` GetStream, GetStorage, `getDirectory` | `GetStream`, `GetStorage`, `TreeOf` |
| `storage.go:55-139` AddStream, AddStorage | `AddStream`, `AddStorage`, `Add`, `Added`, `AddDone`, `AddFails` |
| `storage.go:141-184` Delete | `DeleteEntry`, `Deleted`, `DeleteDone`, `DeletePanics` |
| the loop over the tree that writes entries | `WriteBack`, `WriteNode`, `Modified`, `Adopt` |
| `directory.go:185-242` New, Pop, Push | `Roomy`, `NewEntry`, `Popped`, `Pushed` |
| `mcdf.go:373-397, 437-449` | `Update`, `Grown` |
| Save, Close, Open | `Reopen` |

Two sets, a flag and a record are the model's own: `leaked`, the entries no call reaches any
more (popped for a name that was refused, or in a storage that was deleted),
`gone`, the handles on a deleted storage, and `lost`, that a deletion has called
`rbDeleteFixup` with a wrong parent. `call` is the last call: what it was, the storage
it was made on, the name it was given and whether it did what it was asked to; no action
reads it. `panicked` ends a behaviour, as it ends the program. Names are numbers; `Stored` is what the UTF-16 encoding gives
back of one, `Refused` the names `SetName` does not take.

`Folder` - the promise of storages, without entries, trees and sectors: of each storage
the set of names in it, and the last call. A call that is done has added or deleted the name it was given,
in the storage it was made on, and nothing else has changed; a call that is not - a name refused
or not found, a lookup, a panic, Open - has changed nothing. `StorageProperties`
has what the run checks and the refinement mapping, which reads the storages from
the *directory sectors* and not from memory: so `FolderImplemented` also says that
after each call the sectors hold what the call has done. `MCStorage` - the names
and documents for TLC. `StorageProofs` - the proofs (section 6), over those of `TreeProofs`.

`FileImage` - the sectors in memory, their `modified` flags, the header with its
own, and the file. Save and Commit are taken sector by sector, with the order of
the code; `at` is their iterator and `offset` the place Commit writes to next.
What the other calls do to sectors is over-approximated: any sector may be loaded,
written, added or freed next, with any content, so that all the calls of
`CompoundFile` are covered and also sequences it never makes; what is kept
exactly is what such a step does to data, flags and header: a sector that is added,
freed or taken from the free list has its slot written, so a FAT sector is marked with it; `AddFAT`
does not mark the header, `AddMiniFAT` does; `FreeSector` and `DropSector` drop the data and
mark only a sector that had none; `WriteFresh` is `Directory.Write` at a sector that has not
been read, which it fills with zeroes first (`directory.go:499-501`). A block of the file is a content and the note whether its first
byte is the 513th of a header (`bitten`). A crash is the action `Reopen` at any
step: Open of the file as it is; every subset of the blocks may be free, which
is more than the FAT in the blocks may say, but the two sectors that Open reads at
least, one of the FAT and one of the directory, are not (`LoadedByOpen`). Histories: `doc`, what each sector
should hold (`Any` for one that is free), `before`, the file when Commit began,
`unmarked`, that the header has changed and has not been marked since, and
`damaged`, that a Commit began which puts a sector in another's place or leaves
the wrong byte (`InPlace` says when not). `FileImageProperties` has what the runs
check, `MCFileImage` is their module.

`FileImageProofs` - its proofs (section 6).

An operator whose comment says *Mutant of X* is X as a likely mistake would have
written it (a dropped guard, an off-by-one, a missing save). No module uses it;
putting it in X's place makes the property listed with it in `PROJECT.json`
fail, which shows that the property depends on the code at that place.

## 4. Runs

In the runs `core_...` sectors are 6 bytes, mini sectors 2, and streams of 12
bytes or more are kept in sectors; the header names one FAT sector. So a sector holds three mini sectors,
and either three table slots and two entries, or six slots and three entries.

| Run | What it shows | Distinct states |
|---|---|---|
| `core_tables` | 3 slots a sector, streams set to 0, 5, 12, 24 bytes and appended to, saved and committed, up to two failed calls: `TypeOK`, `Coverage`, `ListsMatchSet`, `TableSectorsSafe`, `FATFoundOnReopen`; while no call has failed, `TablesMatchMemory` and `EntriesSaved`; every call returns (`Termination`) | 531 796 |
| `core_sharing` | 6 slots a sector, new and opened files, two streams set to 0, 4, 12, 18 bytes by a careful owner: while no call has failed, `BigChainsApart` | 1 726 394 |
| `core_grow` | streams that never shrink, six sizes, two payloads, appends, in new files and in opened ones whose free sectors a Save has read: `NeverFails`, and `StoreRefined`, the implementation of `StreamStore` | 852 993 |
| `core_reopen` | violated: `SavedFileReopens` | |
| `core_own_data` | violated: `OwnData` | |
| `core_reload` | violated: `BigStreamsKept` | |
| `core_set_data` | violated: `SetDataSucceeds` | |
| `core_directory_saved` | violated: `DirectorySaved` | |
| `dir_tree` | storages in new documents, with names refused or ill-formed and a storage in the root, and in opened ones of eight and ten entries: `StorageTypeOK`, `TreesSound`, `Balanced`, `CleanIsSaved`, `EntriesAccounted`, `HandlesCurrent`, `UniqueNames`; until a wrong fix-up, a call that panics is a Delete of its storage's one entry (`PanicExplained`); `FolderImplemented`, the implementation of `Folder` | 62 482 |
| `dir_delete` | violated: `DeleteReturns` | |
| `image_save` | new and opened files of up to three sectors, saved, committed and reopened at any step: `ImageTypeOK`, `UnmodifiedInFile`, `SaveExact`, `CommitExact`, `TornOnly`, `FailuresExplained` | 771 725 |
| `image_commit` | violated: `CommitDurable` | |

The seven violated properties state what the repository's own tests expect of every call
and the code does not do for the sequence TLC prints:

- *`SavedFileReopens`*: the defaults `Memory.addSector` gives to table sectors
  are for `next == 0`, which `newSector` has already set to FREESECT. A saved
  new file has a FAT sector marked free, and `readFAT` refuses the file.
- *`OwnData`*: two shortenings of a small stream, with another stream written
  between them, free a mini sector the other stream owns. It is handed out twice,
  and no call has failed.
- *`BigStreamsKept`*: the same with sectors, in a file that Save has read: a stream cut
  short keeps its link to the freed tail, Save gives the tail its data back, another stream
  takes it over, and `FreeFAT` of the first stream, which follows its chain to the end,
  frees it a second time. The other stream has lost its data, and no call has failed.
- *`SetDataSucceeds`*: a sector taken from the free list has no data, and
  `Sector.Write` refuses it: a stream shortened by a sector cannot be lengthened.
- *`DirectorySaved`*: when that call is repeated it succeeds, but the size
  already equals the new one, so the entry is not written to its sector.
- *`DeleteReturns`*: deleting the last child of a storage leaves a tree without a
  root, and the loop that follows starts at its least node.
- *`CommitDurable`*: Commit advances its offset only when it writes, so that the
  modified sectors are written one after the other from the first block on.

Two more disagreements of the code with itself are in the models and have no violated run.
`chechNumDIFATSector` (`header.go:239-249`) compares the number of DIFAT sectors with
`numFATSector`, which stops counting at the header's last slot, and so refuses the library's own
header from the second DIFAT sector on; `FATFoundOnReopen` says so, next to `readFAT` finding
the whole FAT. Such files are opened because the error is lost (`RecoverError` is given it
by value, `header.go:126`). And setting a stream that has sectors to nothing frees them, but leaves the
old size with no start (`directory.go:466, 474, 479`: `Freed` and `Resize`), after which
the stream cannot be read.

The violated properties are why `BigChainsApart`, `TablesMatchMemory` and `EntriesSaved` are
stated until a call fails, why `BigChainsApart` is stated of the careful owner only, and why
`StoreRefined` is checked of callers whose
streams grow: these are the conditions under which the library keeps its promise.
In `core_sharing` many behaviours end in a failure soon after a sector has been
freed, since writing to a sector from the free list fails; what is shown is that
until then a link left behind is never followed by the stream's reads and writes.
The careful owner is not what a user of the library knows how to be: the condition
is there to say exactly what the chains' being apart depends on, which is that a freed sector has no data.
The other properties of `core_tables`, and the theorems on them, hold whatever fails and whoever calls.

`TablesMatchMemory` says what a reader of the saved tables is told: the chains
memory has, and as free no sector that is in none of memory's lists (a stream's or a container)
and no mini sector but those in the free set. It does not say that the free sectors come
back, because they do not: `Push` keeps the link a freed sector had
(`memory.go:74-77`), its slot does not say FREESECT, and `readFAT` passes it by. Neither does it
say that a mini sector free in memory is free in the table: one that has been freed while
another stream has it is linked and in the free set (`OwnData`). No call of `core_tables`
cuts a part off a stream of mini sectors, whose slots are then left to the theorem.

In the same way `dir_tree` and `image_save` say under which conditions the rest is
right. A tree is red-black until `rbDeleteFixup` is given the parent of the
deleted node for that of x, which needs a deletion of a node with two children
whose successor is black, without a child, and not a child itself (`lost`); even
then its order and its parents stay right, names are found and marks are
complete. A Commit is right, and a crash in it leaves a prefix of new
blocks, when the modified sectors are the first ones (`InPlace`): a new document
that has no file cannot be committed at all, so that this means a file whose
first sectors, and only those, have been changed. The header is 513 bytes, one
too many; this does no harm where sector 0 is written after it, which Save
always does.

### Bounds

- `MaxSectors`: no call is started on a file with more sectors (calls under way
  finish). In `core_tables` (8) a file passes the header's last FAT slot, the
  first DIFAT sector and its last slot, a second DIFAT sector, a second directory
  and a second miniFAT sector; 7 in `core_sharing` and 9 in `core_grow` leave room
  for two streams in sectors with a table grown between them.
- `MaxStreams` 2: a property of two streams' sectors needs two.
- `Retries`: calls go on until more than this many have failed. 0 is enough
  where the property is stated until a failure.
- `TablesLoaded` (in `CanCall`): the document is followed until a miniFAT or
  directory sector has lost its data, which a failed call can cause; from there
  on the code returns errors from `changeMiniFAT` and `updateDirectory`. For FAT
  and DIFAT sectors `TableSectorsSafe` shows that this never happens.
- Sizes are those at which something changes: nothing, a part of a mini sector,
  some mini sectors, the cutoff, whole sectors more.
- `OpenedFiles`: files Open is tried on have one FAT sector, one directory
  sector and free sectors (`InstanceAssumption`), so no stream; New is 0.
  The passing runs start from both, with one free sector, or two in `core_sharing`; `core_reload`
  needs four.

The caller stops at these bounds, so deadlock is not checked in the runs
`core_...`: a file at `MaxSectors` is the end of a behaviour and not a state of
the library.

`dir_tree` and `dir_delete`:

- `MaxEntries` 8, `EntriesPerSector` 4: no call when there are more entries
  and none is free; a new document grows by a directory sector, the root's tree gets seven nodes.
- `Documents`: a new one; two of eight streams, added in ascending and in mixed
  order, so that deletions come to every case of `rbDeleteFixup` on both sides and
  to the panic of the wrong parent; and one of ten, added in descending order, the smallest
  found in which the wrong parent leaves a tree out of balance and no panic.
- `EarlyNames` are added to a document of at most `MaxEntries`, `LateNames` to a
  larger one: 11 is refused, 12 is ill-formed and stored as 2. Any name may be
  deleted. `StorageNames` {1} and `InnerNames` {2}: a storage in the
  root with one stream in it.
- `MaxFree` 4 and `MaxLeaked` 0, counted before a call: a behaviour goes on until
  an entry is leaked or five are free.
- `CanUse`: the owner works on a storage through one handle with a cached
  tree, and drops the handles on what has been deleted. This is the condition for
  `HandlesCurrent`: with two such handles, what one adds the other does not see.
- `AllButCall` is the view the runs explore states under: two that differ in the last
  `call` alone are one. No action reads it and the properties that name it, `FolderImplemented` and
  `PanicExplained`, name it of the call that leads to a state.
- `Reopen` is taken when no directory sector has been added: after it, Open
  refuses the file, which is what `core_reopen` shows.

Deadlock is not checked in them either: after a panic, or at the bounds, nothing
goes on.

`image_save` and `image_commit`: two contents and two headers are enough to tell
one from another, and as nothing tells which is which they are symmetric (`Alike`);
`MaxSectors` 3 is the least with a first, a middle and a last
sector, which a modified set that is not a prefix and a torn Commit need; 2 is enough for
`image_commit`. Files of two blocks are opened at first, the least that Open takes, and later those
of up to three that a behaviour has left; New leaves two. Nothing ends here and deadlock
is checked.

### Fairness

Only `CompoundFile` states fairness, `WF_vars(Continue)`: a call that has been
made goes on. The library runs on its
caller's goroutine with nothing to wait for, so this is only that the goroutine
runs. Calls themselves have no fairness: the owner need not call. `Termination`
is not obvious, because the loops of `FreeFAT` and `FreeMiniFAT` never advance
their offset and end with the chain or at a sector freed already. `Storage` has
one step for a call, and Commit and Save of `FileImage` are one pass over the
sectors, so that their end is no question.

## 5. What the runs leave open

Of `CompoundFile`, `NeverFails` and `StoreRefined` are checked on the small
documents and not proved: they need of mini sectors what `BigChainsApart` says of
sectors, and that a write never runs out of them. Of an owner who saves and goes on writing after sectors
have been freed, nothing is shown of the streams' data, since nothing holds of it
(`BigStreamsKept`); the tables, the lists and the entries are covered (`core_tables`). `Tree` is proved
about for every tree, and `Storage` over it, its refinement included. There is no
induction rule the provers can instantiate, and the recursive functions - a loop
of `tree.go`, a stream's chain, the walk along the DIFAT sectors - are
proved about without one (section 6). Liveness under fairness
(`Termination`) is out of the prover's reach and stays with TLC.

## 6. Proofs

| Theorem | Module | Statement |
|---|---|---|
| `TypeCorrect` | `CompoundFileProofs` | `Spec => []TypeOK` |
| `ListsCorrect` | `CompoundFileTableProofs` | `Spec => []ListsMatchSet` |
| `CoverageCorrect` | `CompoundFileTableProofs` | `Spec => []Coverage` |
| `TableSectorsCorrect` | `CompoundFileSafetyProofs` | `Spec => []TableSectorsSafe` |
| `TablesCorrect` | `CompoundFileSavedProofs` | `Spec => []TablesMatchMemory` |
| `EntriesCorrect` | `CompoundFileSavedProofs` | `Spec => []EntriesSaved` |
| `FATFoundCorrect` | `CompoundFileSavedProofs` | `Spec => []FATFoundOnReopen` |
| `BigChainsCorrect` | `CompoundFileChainsProofs` | `CarefulSpec => []BigChainsApart` |
| `InsertSound` | `TreeProofs` | `Insert` of a `Sound` tree is `Grew`, and keeps `EvenBlack` |
| `DeleteSound` | `TreeProofs` | `Delete` of a `Sound` tree has `Shrank`, and keeps `EvenBlack` but for `WrongParent` |
| `FindSound` | `TreeProofs` | `findnode` of a `Sound` tree finds a key if and only if it is there |
| `SoundLinks` | `TreeProofs` | `Sound(t) => LinksAgree(t)` |
| `SoundOrder` | `TreeProofs` | `Sound(t) => InOrder(t)` |
| `SoundColours` | `TreeProofs` | `Sound(t) /\ EvenBlack(t) => RedBlack(t)` |
| `StorageTyped` | `StorageProofs` | `Spec => []StorageTypeOK` |
| `TreesAreSound` | `StorageProofs` | `Spec => []TreesSound` |
| `TreesAreBalanced` | `StorageProofs` | `Spec => []Balanced` |
| `CleanNodesSaved` | `StorageProofs` | `Spec => []CleanIsSaved` |
| `HandlesAreCurrent` | `StorageProofs` | `Spec => []HandlesCurrent` |
| `NamesAreUnique` | `StorageProofs` | `Spec => []UniqueNames` |
| `EntriesAreAccounted` | `StorageProofs` | `Spec => []EntriesAccounted` |
| `FolderIsImplemented` | `StorageProofs` | `Spec => FolderImplemented`, if `NamesApart` |
| `PanicsAreExplained` | `StorageProofs` | `Spec => PanicExplained` |
| `ImageTypes` | `FileImageProofs` | `Spec => []ImageTypeOK` |
| `UnmodifiedCorrect` | `FileImageProofs` | `Spec => []UnmodifiedInFile` |
| `SaveCorrect` | `FileImageProofs` | `Spec => []SaveExact` |
| `CommitCorrect` | `FileImageProofs` | `Spec => []CommitExact` |
| `TornCorrect` | `FileImageProofs` | `Spec => []TornOnly` |
| `FailuresCorrect` | `FileImageProofs` | `Spec => []FailuresExplained` |

The first eight assume `LayoutAssumption` (sizes are positive, a table sector has at least
three slots, and a whole number of containers' mini sectors fit a miniFAT
sector's slots) and `InstanceAssumption` (the bounds are numbers, and opened
files are those above). Sizes, payloads, bounds and geometry are arbitrary. Those
of `TreeProofs` are about operators and assume what they name: the nodes are any
set without Nil, finite or not, and their keys are numbers. Those of `StorageProofs`
assume `StorageAssumption`: names are numbers, the names of a document opened are
different and none is refused, a directory sector has an entry, and Nil is no
number or node. `FolderIsImplemented` assumes `NamesApart` as well: no name given to a
storage is ill-formed, or what an ill-formed name is stored as. Without it the statement is
false, as the code compares a new name with those stored and not as it will be
stored itself, so that a storage may come to stand beside an entry of its
name; `Folder` has a name once. `MCStorage` assumes it of the names of the runs. The
others assume `ImageAssumption`: the bounds are numbers, New and an opened file have a
sector, and the values that stand for "nil" and "anything" are no contents.

*Types.* `TypeOK` also fixes the length of every table, so it is not inductive:
`BigSector` writes `next[old]` and `next[s]`, `WriteMiniNew` `miniNext[old]`.
`IControl` says of each place of a call what the locals used there hold - at
"BigSector" that `s` is a sector in no list, in a loop that `old` is -1 or the
sector written last - and `TypeOK /\ IControl` is inductive, with a lemma for
each action.

*Lists.* Given those, `ListsMatchSet` is preserved by each action: a sector is
appended to a list only when its mark is "none" (`CanAdd`, or because it is new),
and taken from the free list with its mark.

*Coverage.* A sector is appended when there is a free slot or with a FAT sector
that brings at least three: its own, a DIFAT sector's, and the one asked for.
The argument needs `AtHelper`, that a helper's result is put to use by the caller
that asked for it, and the slots that are promised on the way: between
"Alloc" and "Container" the miniFAT has a free slot, and because its
length and the number of mini sectors are both multiples of a container's mini
sectors, it has room for a whole container.

*Table sectors.* No link leads to a FAT or DIFAT sector. A link is written from
three places: from `s`, which is new or was free; from another link
(`SecID`); and from the start of an entry. The last is the difficult one,
because an entry's start may be a mini sector's number: `IPointers` says that
the start of an entry whose size is a big stream's leads to no table sector
except while a write has just dropped the stream's mini sectors and has not
given it a first sector (`Unstarted`), that this write looks at `SecID` only
when `OldSize > 0`, and that the two sizes are then of the same kind. Only with
this is it clear that `FreeFAT` and `WriteBigExisting`, which follow links
without looking at what the sector is, never destroy the FAT - whatever calls
have failed before, and although a stale link may lead to another stream's
sectors, a container or a miniFAT sector.

*What is saved.* Inside a call the tables are behind: `Directory.Write` links a
sector to the end of the chain and writes the end's own slot when the next one
comes, or after the loop. `IFat` and `IMini` say that `old` is the only sector
whose slot may differ from its link, and only while the loop has nothing to go on
to (`SecID < 0`); a slot of a table that has just grown is free, as its sector
is, which is where `Coverage` is needed. In the same way `IEntries` says that the
only entry behind its directory sector is the one being written, and only as long
as `updateDE` is set. None of the three survives a call that fails on the way, and
`NoErrorBefore` is why they need not: errors are counted and never forgotten.
`IInUse` says that a sector in no list whose link is FREESECT is the one just
allocated (`s`), and `IMiniFree` that a mini sector with that link is in the free set.

*What a reader finds.* `IDIFAT` says where each FAT sector is named: the first
`HeaderSlots` in the header, the others row by row in the DIFAT sectors, the last
slot of a row the next DIFAT sector, and what is behind the last name no sector.
With it goes how `numFATSector` counts - every FAT sector until the header's slots
are full, and no further - and `FoundAll` says that the reader, who
stops at this number and then follows the chain, collects the same list; with the same counts
`CheckAllowsOne` says when the header check accepts. This one
needs no condition: it holds after failed calls too.
The reader is a recursive function and the rows are flattened by another.
For both, a closed form is given and shown to satisfy the recursive equation,
and the function `CHOOSE` picks is shown to agree with it: the least index at
which they differ (`Least`, from the well-foundedness of `<`) has none before it.

*Chains.* `BigChainsApart` is far from inductive, and so is any statement
about links alone: a stream cut short by `FreeFAT` keeps the link to its freed
tail, and that tail may be another's by now. `IChains` says that there is an
ownership: a sequence of sectors for each stream, and one, `Rest`, for what `FreeFAT`
has been given and not freed yet, such that

- no sector is owned twice (`Apart`), each is loaded, in no list and no
  container (`Within`), and the links follow each sequence (`Linked`);
- the link at the end of a sequence is negative, or leads to the rest, or to a
  sector that can never be given out again (`Ended`);
- each stream in sectors owns exactly as many as its size says, from its start
  on, and the loop that writes a stream has got as far as its offset says, with
  `SecID` the next sector owned (`Holds`).

Ownership is chosen anew at each step: `ChainsFreed` takes the first of the
rest away, `ChainsCut` moves a tail to the rest, `ChainsGrown` appends a sector that
nobody owns. That the dangling link of `Ended` is harmless rests on a freed sector having lost
its data: a sector from the free list that has none makes the write that asked
for it fail. Save, Commit and SectorBytes undo this when they read a freed sector of
the file again, and then the statement is false (`core_reload`): the theorem is about
`CarefulSpec`, in which they are called only when they do not. A call that has been given one is
`Doomed`, and the invariant says nothing of it, since it returns an error.
`Chain`, the function the property is stated with, is then the owned
sequence up to its length (`WalkOf`, by the least index once more).

*The tree.* `LinksAgree`, `InOrder` and `RedBlack` say of a tree what its readers
need, two of them by recursive functions, and none says where in the tree a
rotation leaves what. The invariant `Sound` says that there are values the program
does not keep: a place for each node along a line (`pos`), the first and last
place of what is under it (`end`), and those of the whole tree (`edge`), such that
a child's ends and its parent's fit together (`Laid`), no place is empty (`Placed`) and
keys never grow along the line (`Keyed`). A rotation leaves all places as they are and
moves two ends (`TurnLaid`); a new leaf opens a place and shifts those behind it
(`HangLaid`), and the walk down to it keeps the key between the ends of the node it is
at (`UnderSplits`). The colours are kept in the same way: `h` counts the black nodes on any way
down from a node, and `BlackRed(t, h, z)` says that it does and that z is the
only node that may be red under a red one, which is what the comment of every
textbook says of a round of `rbInsertFixup`. With these the grandparent and the node
that comes up in a rotation are never nil, so no pointer is: that is the
`NilPointer` of `InsertSound`. Each step is also shown to mark every node it
changes (`Marked`), on which `storage.go` relies when it writes back the marked ones only.

Of `Delete` the same is said in two steps. What it cuts out is the successor's
place or the node's own, and since a successor is at the next place, closing up
either leaves the same places (`CutAway`; with two children the tree is the one
without y, in which y is then put for z, `SwappedRenamed`). The colours then
lack a black node at one link, and `Owing(t, x, par)` says exactly that: under
`par`, on the side of x, the ways down are one short (`Short`), and only x may be
red under a red node. Each case of `rbDeleteFixup` restores the heights or moves
the gap to the parent (`DeleteRound`). The parent is an argument of its own
because x may be nil, and `DeleteSound` keeps the colours only where `FixupParent`
is the parent of the gap: `WrongParent` is what is left, the successor of a node
with two children that is black, has no child and is no child of the node. There
links, order and marks are still right, or the fixup dereferences nil.

A loop of `tree.go` is a recursive function on its state, and whether there is
one at all is a question for a prover: a loop that never ends has no value.
`LoopExists` shows that a function of this form always exists, whatever
the rounds do, and `LoopEnds` what it is where an invariant is kept and a measure
falls with each round, by the least measure of a state for which the conclusion fails (from the
well-foundedness of `<`). The measure is the number of places under a node: it
falls on a way down and grows on a way up. `SoundLinks`, `SoundOrder` and `SoundColours` lead back to the
properties: for `InOrder`, the list of the nodes from a place on is the one `Iteration` builds.

*Storages.* The tree of a storage is kept three times: in a handle, in the entries
in memory and in the directory sectors. The invariant `IInv` of `StorageProofs` says
that there is an owner for each entry, `own`, a storage or none (`Collected`):

- an entry's links lead to entries of the same owner, and a storage's child to one it
  owns (`LinksOwned`); a free entry is empty, has no owner, and is empty in its sector
  (`FreeEmpty`); an owned entry is in its sector as in memory (`SavedAs`); owned
  entries of one owner differ in name unless it is an ill-formed name's (`NamesDiffer`);
- what an entry owns hangs from it in a tree, cached or not (`Hangs`): a set that has its
  child and is closed under the links is all it owns (`Spanned`), and two links never lead
  to one entry, none to the child (`SingleLinks`);
- a cached tree is `Sound`, and `EvenBlack` unless `lost` (`Cached`); it has a node
  for each entry its storage owns and no other, and a node without a mark agrees with
  the entry (`Fits`);
- two handles in use on one storage do not both have a tree (`Apart`);
- an entry that is not the root's, free or leaked has an owner that is not leaked; a leaked one
  has none, or one that is leaked; and a set of entries in use that has whatever the root
  and its members own is all of them (`Reckoned`).

Owners are what makes the calls independent: a call changes the entries of one
storage and spares all others (`Spared`), so a tree cached for another still fits.
`loadChildren` follows the links without a check for cycles, and nothing in the model's guards
keeps it from one: `HangsTree` says that the links of any storage a handle can be on are a
tree, and `LoadedTree` that `addNode` then ends with every entry once, since the entries
inserted and those on the stack are always what the links lead to so far (`Frontier`). After a call the
marks do the rest: `InsertSound` and `DeleteSound` say that a node whose links or colour
changed is marked, `WriteBackDone` that the loop brings every marked node's entry and
sector up to date, so `RelinkDone` has the entries fit the tree again (`TreeLinks`,
`TreeSpans`). `Reached`, the links followed as often as there are entries, is
shown to be the least closed set (`ReachedLeast`): as long as a round adds an
entry there is one more, and there are no more than the collection has. What is below
an entry is therefore what it owns (`BelowIsOwned`), and what is below the root, with what
is below that, what is in use (`DescendantsOwned`): this is `EntriesAccounted`. Delete of a storage
is the step that needs it, since whatever hung from it has to be leaked with it
and nothing else (`DeleteReckoned`).

The refinement follows from the owners. What a reader of the sectors finds in a
storage are the names of the entries it owns (`ReaderSees`), so a step is
looked at there, where it changes one owner: an entry gets one (`AddedMoves`),
or it and those it owned lose theirs (`RemovedMoves`), and it is the call's own storage
and name, with which `Promise!Answer` is then shown (`Moves`, `MovesDone`); a new directory
sector, links written back and what Open clears change no reader's answer (`Alike`), which is all
that a call that is not done may do. The case that
is left is an entry whose name another of the storage has too. A stream's
changes nothing to a reader; a storage's would, and is excluded by
`SavedNamed` - a storage in the sectors has one of the names given to storages -
and `NamesApart`. With each step goes `Explained`: when a call panics and no fixup has begun at
a wrong parent, its tree has lost its root, so the tree had one node, which is that of the name given, and
the storage has one entry, as tree and storage agree (`Fits`, `BelowReady`).

*The file.* `UnmodifiedInFile` is not inductive: nothing in it says what Commit
writes next, or what late reading relies on. The invariant `IInv` of
`FileImageProofs` adds, in the conjuncts named here,

- `Explained` and `DataRight`: a sector has data, or is in the file, or was
  freed; data is what the sector should hold, and a modified sector without
  any is a free one;
- `Unbitten`: outside of damage no sector's data has a wrong byte, and the only
  block that has is the first, between the header and sector 0 of one Commit - the reason for
  `InPlace` to ask for sector 0 in memory: a Commit that had to read it would
  read the header's byte back;
- `InOrder`: during a Commit the sectors before `at` are written and
  unmarked, those marked are an unbroken run from `at` on, and as long as there
  are any, `offset` equals `at`. This is where the order of the loop and the
  offset that only advances with a write meet;
- `HeaderRight`: the file's header is the one in memory unless that is marked
  or was changed unmarked;
- `Copied` and `Outcomes`: what Save has copied so far, and that a result speaks
  of the state as it is, since the next step of a call takes it away.

`SaveExact` and `CommitExact` then follow at the last round of a loop, `TornOnly`
from `InOrder`, and `FailuresExplained` from `Explained`. There is a lemma for
each group of actions, and in it a step for each action and conjunct.

## 7. Not modelled

- Open of files with streams, in `CompoundFile`: whether an opened entry's start
  and size are read at all depends on the version of `encoding/binary`, since the
  times before them are read into values that are no pointers and the error is
  lost (`directory.go:370-371`, `utils.go:99`). The opened files of
  `CompoundFile` have no stream, for which both versions agree, and `Storage`
  looks at names and links only, which are read before.
- Files of others: headers that fail the checks (whose outcome is lost,
  `header.go:126`; of the library's own headers, those from the second DIFAT sector on fail them too
  and are read as if they did not), cyclic chains, entries whose links are no tree. What is opened
  is what the library has written, or left behind in a crash; that Open may refuse
  a torn file, because the FAT in it says something else, is not in
  `FileImage`, where it always succeeds.
- `Storage` with `CompoundFile`: a Delete does not free the sectors of the stream
  (the code does not), and what a `Stream` handle of a deleted entry does to the
  entry's next owner is not followed. In `CompoundFile` AddStream is modelled to
  the allocation of its entry, with the entries its insertion relinks chosen
  freely (`relinked`), which covers every tree.
- A write of the operating system that fails or is short: Commit and Save return
  the error, and what is on the disk then is the system's affair.
- Two handles with cached trees on one storage at once: they go apart by
  construction of the library, and nothing is promised of them.
- `SetData(nil)`, which `Directory.Write` refuses before it changes anything.
- The error returns of `changeFAT`, `changeMiniFAT` and `updateDirectory`:
  `Coverage`, `TableSectorsSafe` and the bound `TablesLoaded` exclude them.
- Times, GUIDs, names' encoding, String methods and logging: data and output
  that no property depends on. `MiniMemory.Delete`, `DirectoryCollection.Delete`
  and `Storage.loadSiblings` are called by nothing.
