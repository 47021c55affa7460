----------------------------- MODULE ParserFile -----------------------------
(***************************************************************************)
(* The WebM file that mkvparser reads, and the questions it asks of it.    *)
(*                                                                         *)
(* Positions are units: an element's ID and size take one unit, its own    *)
(* data, when it has any, the units behind it.  "hdr" has the header at    *)
(* each position where an element begins, master elements and what is in   *)
(* them alike; the elements inside a BlockGroup are data.  A file grows:    *)
(* only the first "avail" units can be read (IMkvReader::Length).          *)
(***************************************************************************)
EXTENDS Integers, Sequences, FiniteSetsExt

CONSTANTS
  Files   \* the files a reader may be given

Unknown == -1   \* an unknown size, a total that is not known

Blocks == {"SimpleBlock", "LacedBlock", "BlockGroup"}
Others == {"Info", "Tracks", "Void", "Timecode"}

Header == [ id : {"Cluster", "Cues"} \cup Blocks \cup Others,
            size : Nat \cup {Unknown} ]

\* start and size are the Segment's m_start and m_size; the size is unknown
\* unless the reader knows the file's length (finite) and the Segment is all in
\* it.  cues: the clusters that cue points name, as offsets from start.
\* arrivals: how much of the file the reader may have when it is asked.
ASSUME FilesAssumption == \A f \in Files :
  /\ f.start \in Nat \ {0} /\ f.length \in Nat /\ f.finite \in BOOLEAN
  /\ f.size \in Nat \cup {Unknown}
  /\ f.size # Unknown => f.finite /\ f.start + f.size <= f.length
  /\ f.hdr \in [DOMAIN f.hdr -> Header] /\ DOMAIN f.hdr \subseteq f.start .. f.length - 1
  /\ \A p \in DOMAIN f.hdr : f.hdr[p].size = Unknown => f.hdr[p].id = "Cluster"
  /\ f.cues \subseteq Nat /\ f.arrivals \subseteq f.start .. f.length

\* In the Segment the elements lie one behind the other up to its end, or up to
\* where the file ends, maybe within the last of them.  Only clusters have
\* elements in them that count here, other clusters and Cues not among these, and
\* one Timecode, in front of the blocks.  Cue points name clusters.
ASSUME LayoutAssumption == \A f \in Files :
  LET at      == DOMAIN f.hdr
      stop(p) == p + 1 + f.hdr[p].size
      last    == IF f.size = Unknown THEN f.length ELSE f.start + f.size
  IN  /\ f.start \in at \cup {last} /\ \A p \in at : p < last
      /\ \A p \in at : IF f.hdr[p].size = Unknown THEN p + 1 \in at \cup {last}
                        ELSE stop(p) \in at \/ stop(p) >= last
      /\ \A p, q \in at : f.hdr[p].size # Unknown /\ p < q /\ q < stop(p) =>
           /\ f.hdr[p].id = "Cluster" /\ f.hdr[q].id \notin {"Cluster", "Cues"}
           /\ stop(q) <= stop(p)
      /\ \A p, q \in at : f.hdr[p].id = "Cluster" /\ f.hdr[q].id \in Blocks /\ p < q =>
           \E t \in at : f.hdr[t].id = "Timecode" /\ p < t /\ t < q
      /\ \A t, u \in at : f.hdr[t].id = "Timecode" /\ f.hdr[u].id = "Timecode" /\ t < u =>
           \E p \in at : f.hdr[p].id = "Cluster" /\ t < p /\ p < u
      /\ \A c \in f.cues : f.start + c \in at /\ f.hdr[f.start + c].id = "Cluster"

VARIABLES file, avail

-----------------------------------------------------------------------------
Headers   == DOMAIN file.hdr
Id(p)     == file.hdr[p].id
Sized(p)  == file.hdr[p].size # Unknown
Stop(p)   == p + 1 + file.hdr[p].size   \* the end of a sized element

Total       == IF file.finite THEN file.length ELSE Unknown
SegmentStop == IF file.size = Unknown THEN Unknown ELSE file.start + file.size

AtTotal(p)       == Total # Unknown /\ p >= Total
AtSegmentStop(p) == SegmentStop # Unknown /\ p >= SegmentStop
AtEnd(p)         == AtTotal(p) \/ AtSegmentStop(p)

\* A header is read in full or not at all; each read stops at avail.
CanRead(p) == p + 1 <= avail

\* The size of the element at p does not take it out of the Segment.
InSegment(p) == Sized(p) /\ SegmentStop # Unknown => Stop(p) <= SegmentStop

-----------------------------------------------------------------------------
(* What is in a cluster.  One of unknown size ends before the next Cluster  *)
(* or Cues.                                                                 *)

Terminators(p) == { q \in Headers : q > p /\ Id(q) \in {"Cluster", "Cues"} }

ClusterStop(p) == IF Sized(p) THEN Stop(p)
                  ELSE IF Terminators(p) # {} THEN Min(Terminators(p))
                  ELSE file.length

Children(p) ==
  IF Sized(p) THEN { q \in Headers : p < q /\ q < Stop(p) }
  ELSE { q \in Headers : p < q /\ \A t \in Terminators(p) : q < t }

Entries(p) == { q \in Children(p) : Id(q) \in Blocks /\ file.hdr[q].size > 0 }

\* A walk over the children of p that finds no block has seen its end.  The end
\* of the file is no end of a cluster of unknown size.
SeesEnd(p) == IF Sized(p) THEN \A q \in Children(p) : CanRead(q)
              ELSE Terminators(p) # {} /\ CanRead(Min(Terminators(p)))

\* Mutant: the end of a sized cluster without blocks is not seen.
FirstEntryPatient(p) ==
  LET entries == Entries(p)
  IN  IF entries # {} THEN IF CanRead(Min(entries)) THEN "some" ELSE "more"
      ELSE IF ~ Sized(p) /\ SeesEnd(p) THEN "none" ELSE "more"

\* The walk itself: "some" at the first block, else "none" at the end.
FirstEntry(p) ==
  LET entries == Entries(p)
  IN  IF entries # {} THEN IF CanRead(Min(entries)) THEN "some" ELSE "more"
      ELSE IF SeesEnd(p) THEN "none" ELSE "more"

CutOff(p) == Sized(p) /\ Total # Unknown /\ Stop(p) > Total

\* Cluster::HasBlockEntries, for a cluster header that can be read.
HasBlockEntries(p) ==
  IF file.hdr[p].size = 0 \/ CutOff(p) THEN "none" ELSE FirstEntry(p)

\* Parsing a block reads a unit of it, all of it when it is laced or a group or
\* when the size of its cluster is not known.
BlockReadable(p, sized) ==
  IF sized /\ Id(p) = "SimpleBlock" THEN p + 2 <= avail ELSE Stop(p) <= avail
=============================================================================
