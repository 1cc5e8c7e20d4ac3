----------------------------- MODULE LayoutRequests -----------------------------
(***************************************************************************)
(* A caller that plans the layout of images: it describes an image segment *)
(* by segment, as a parser does, and asks for plans of it.                 *)
(***************************************************************************)
EXTENDS LayoutPlanner

CONSTANTS
    Segments,       \* the segments of files: a function to records
    Bases,          \* requested bases
    FileSize,       \* the size of the file
    MaxListed       \* bound on the segments of an image

VARIABLES
    listed,         \* the segments of the image: a sequence of keys
    base, merge,    \* the arguments of the last plan
    planned         \* whether plan was called for this image

layout_vars == <<listed, base, merge, planned>>

\* What the types of the inputs say.
IsSegment(s) ==
    /\ s.virtual_address \in Word /\ s.memory_size \in Word
    /\ s.file_offset \in Word /\ s.file_size \in Word
    /\ s.alignment \in Word

ASSUME LayoutAssumption ==
    /\ \A k \in DOMAIN Segments : IsSegment(Segments[k])
    /\ Bases \subseteq Word
    /\ FileSize \in Nat
    /\ MaxMappedBytes \in Nat

Requested ==
    [file        |-> [size |-> FileSize],
     sections    |-> <<>>,
     symbols     |-> <<>>,
     relocations |-> <<>>,
     segments    |-> [n \in DOMAIN listed |-> Segments[listed[n]]]]

Answer == Plan(Requested, base, merge)

LayoutInit ==
    /\ listed = <<>>
    /\ base = 0
    /\ merge = FALSE
    /\ planned = FALSE

AddSegment ==
    /\ Len(listed) < MaxListed
    /\ \E s \in DOMAIN Segments : listed' = Append(listed, s)
    /\ base' = 0
    /\ merge' = FALSE
    /\ planned' = FALSE

MakePlan ==
    /\ ~planned
    /\ base' \in Bases
    /\ merge' \in BOOLEAN
    /\ planned' = TRUE
    /\ UNCHANGED listed

NextImage ==
    /\ planned
    /\ listed' = <<>>
    /\ base' = 0
    /\ merge' = FALSE
    /\ planned' = FALSE

LayoutNext == AddSegment \/ MakePlan \/ NextImage

LayoutSpec == LayoutInit /\ [][LayoutNext]_layout_vars

-----------------------------------------------------------------------------
(* What a plan promises.                                                   *)

Accepted == planned /\ Answer.error = "none"

Targets(r) == r.target_address..(TargetEnd(r) - 1)

\* The addresses of the segments, each with its permissions and with the
\* place in the file that its byte comes from, -1 where there is none.
SourceOf(offset, size, k) == IF k < size THEN offset + k ELSE -1
SegmentCell(s, k) ==
    <<LayoutBase(Requested, base) + s.virtual_address + k - LowestAddress(Requested),
      s.perms, SourceOf(s.file_offset, s.file_size, k)>>
SegmentCells ==
    UNION {{SegmentCell(Requested.segments[n], k) :
              k \in 0..(Requested.segments[n].memory_size - 1)} :
              n \in DOMAIN Requested.segments}
RegionCells(r) ==
    {<<r.target_address + k, r.permissions,
       SourceOf(r.source_offset, r.source_size, k)>> : k \in 0..(r.target_size - 1)}
CellsOf(regions) == UNION {RegionCells(regions[n]) : n \in DOMAIN regions}
PlanCells == CellsOf(Answer.regions)
Places(cells) == {<<c[1], c[2]>> : c \in cells}

\* No two segments with memory share an address.
Separate(segments) ==
    \A m, n \in DOMAIN segments :
        LET s == segments[m]
            t == segments[n]
        IN  m # n /\ HasMemory(s) /\ HasMemory(t) =>
                \/ s.virtual_address + s.memory_size <= t.virtual_address
                \/ t.virtual_address + t.memory_size <= s.virtual_address

\* Comparing neighbours in the sorted order finds every overlap of two
\* segments, and reports no other (LayoutPlanner::plan).
OverlapIsFound ==
    planned /\ Valid(Requested) /\ PlacementsError(Requested, base) = "none" =>
        (Answer.error = "mapping_overlap" <=> ~Separate(Requested.segments))

\* The segment has its memory in this region of the plan.
LiesIn(s, r) == HasMemory(s) /\ TargetAddress(Requested, base, s) \in Targets(r)

\* Two segments were merged although the first is filled up with zeros and the
\* second, which follows it in memory and in the file, has bytes.
ZerosBeforeBytes(r) ==
    \E m, n \in DOMAIN Requested.segments :
        LET s == Requested.segments[m]
            t == Requested.segments[n]
        IN  /\ LiesIn(s, r) /\ LiesIn(t, r)
            /\ s.virtual_address < t.virtual_address
            /\ s.file_size < s.memory_size
            /\ t.file_size > 0

\* The plan has the addresses and permissions of all segments, moved
\* together, whether adjacent regions were merged or not; and it takes every byte
\* from its place in the file, except exactly when a merged region has zeros
\* before bytes (LayoutPlanner::plan).
PlanPlacesTheSegments ==
    Accepted /\ listed # <<>> =>
        /\ Places(PlanCells) = Places(SegmentCells)
        /\ PlanCells = SegmentCells
             <=> ~\E n \in DOMAIN Answer.regions : ZerosBeforeBytes(Answer.regions[n])

\* The totals, which are added up after merging, are those of the segments;
\* no sum has overflowed and the limit holds.
TotalsAreExact ==
    Accepted /\ listed # <<>> =>
        /\ Answer.mapped_bytes = Cardinality(SegmentCells)
        /\ Answer.file_bytes = Cardinality({c \in SegmentCells : c[3] >= 0})
        /\ Answer.mapped_bytes <= MaxMappedBytes
        /\ \A n \in DOMAIN Answer.regions :
                Targets(Answer.regions[n]) \subseteq Answer.image_begin..(Answer.image_end - 1)
        /\ Answer.image_end <= MaxWord
===============================================================================
