------------------------------- MODULE Layout -------------------------------
(***************************************************************************)
(* The geometry of a compound file: how many table slots, mini sectors and *)
(* directory entries one sector holds, and the sentinels a FAT slot can    *)
(* hold instead of a sector number.  The sizes are header.go's             *)
(* (512 or 4096 byte sectors, 64 byte mini sectors, 128 byte entries,      *)
(* 4 byte slots, 109 header slots, a 4096 byte cutoff) made parameters, so *)
(* that a small instance has every boundary a real file has.               *)
(***************************************************************************)
EXTENDS Integers

CONSTANTS SectorSize,            \* bytes of a sector
          MiniSectorSize,        \* bytes of a mini sector
          DirectorySize,         \* bytes of a directory entry
          UInt32Size,            \* bytes of a table slot
          HeaderSlots,           \* FAT sectors the header can name itself
          miniStreamCutoffSize   \* first stream size kept in FAT sectors

\* Slots of a table sector, mini sectors of a container, entries of a
\* directory sector: the divisions the code repeats at every use.
EntriesPerSector == SectorSize \div UInt32Size
MinisPerSector == SectorSize \div MiniSectorSize
DirsPerSector == SectorSize \div DirectorySize

\* What holds of both versions of the format (512/4, 512/64, 512/128 and
\* 4096/4, 4096/64, 4096/128).  A FAT sector must have room for itself, for a
\* DIFAT sector and for the sector that made it necessary; a container's mini
\* sectors never straddle two miniFAT sectors.
ASSUME LayoutAssumption ==
  /\ {SectorSize, MiniSectorSize, DirectorySize, UInt32Size} \subseteq Nat \ {0}
  /\ HeaderSlots \in Nat \ {0}
  /\ miniStreamCutoffSize \in Nat \ {0}
  /\ EntriesPerSector \in Nat /\ EntriesPerSector >= 3
  /\ MinisPerSector \in Nat \ {0}
  /\ DirsPerSector \in Nat \ {0}
  /\ \E k \in 1..EntriesPerSector : EntriesPerSector = k * MinisPerSector

\* header.go:13-18.  DIFSECT is written there with seven hexadecimal digits,
\* so as an int32 it is not -4 but a large sector number.
FREESECT == -1
ENDOFCHAIN == -2
FATSECT == -3
DIFSECT == 268435452

\* The number of mini sectors a stream of n bytes fills.
Chunks(n) == (n + MiniSectorSize - 1) \div MiniSectorSize

\* The function f on 0..n-1 extended to 0..n+k-1, with v in the new places:
\* how appending to a Go slice indexed from 0 is written here.
Extend(f, n, k, v) == [i \in 0..(n + k - 1) |-> IF i < n THEN f[i] ELSE v]
=============================================================================
