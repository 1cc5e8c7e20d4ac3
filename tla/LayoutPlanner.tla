----------------------------- MODULE LayoutPlanner -----------------------------
(***************************************************************************)
(* LayoutPlanner::plan (src/src/layout.cc): where the segments of an image *)
(* would lie at a requested base, without a memory.  The plan is a         *)
(* function of the image and the request; its stages are the operators     *)
(* below.  The texts that name regions and warn of writable code are left  *)
(* out.                                                                    *)
(***************************************************************************)
EXTENDS Image, Container, SequencesExt

CONSTANTS
    PageSize,           \* limits_.page_size
    MaxMappedBytes      \* limits_.max_mapped_bytes

Greater(a, b) == IF a > b THEN a ELSE b

\* The first address of a non-empty image; all segments count, also those
\* without memory.
LowestAddress(image) ==
    LET addresses == {image.segments[n].virtual_address : n \in DOMAIN image.segments}
    IN  CHOOSE a \in addresses : \A b \in addresses : a <= b

LayoutBase(image, requested_base) ==
    IF requested_base # 0 THEN requested_base ELSE LowestAddress(image)

-----------------------------------------------------------------------------
(* One region per segment that has memory.                                 *)

HasMemory(segment) == segment.memory_size # 0

TargetAddress(image, requested_base, segment) ==
    LayoutBase(image, requested_base)
        + (segment.virtual_address - LowestAddress(image))

RegionAlignment(segment) == Greater(PageSize, Greater(segment.alignment, 1))

RegionOf(image, requested_base, segment) ==
    [source_offset  |-> segment.file_offset,
     source_size    |-> segment.file_size,
     target_address |-> TargetAddress(image, requested_base, segment),
     target_size    |-> segment.memory_size,
     alignment      |-> RegionAlignment(segment),
     permissions    |-> segment.perms]

PlacementError(image, requested_base, segment) ==
    LET displacement == segment.virtual_address - LowestAddress(image)
        address == TargetAddress(image, requested_base, segment)
    IN
    IF ~AddFits(LayoutBase(image, requested_base), displacement)
    THEN "address_overflow"
    ELSE IF ~IsPowerOfTwo(RegionAlignment(segment)) THEN "invalid_alignment"
    ELSE IF ~AddFits(address, segment.memory_size) THEN "address_overflow"
    ELSE "none"

\* The error of the first segment that cannot be placed.
PlacementsError(image, requested_base) ==
    LET errors == [n \in DOMAIN image.segments |->
                     IF HasMemory(image.segments[n])
                     THEN PlacementError(image, requested_base, image.segments[n])
                     ELSE "none"]
        failed == {n \in DOMAIN errors : errors[n] # "none"}
    IN  IF failed = {} THEN "none"
        ELSE errors[CHOOSE n \in failed : \A m \in failed : n <= m]

\* A bug in Before: regions are ordered by size first.
BeforeBySize(left, right) ==
    \/ left.target_size < right.target_size
    \/ /\ left.target_size = right.target_size
       /\ left.target_address < right.target_address

\* The order of std::sort.
Before(left, right) ==
    \/ left.target_address < right.target_address
    \/ /\ left.target_address = right.target_address
       /\ left.target_size < right.target_size

\* Two regions that Before does not order have the same range and are refused
\* as an overlap below: that they keep their order here makes no difference.
Precedes(regions, m, n) ==
    \/ Before(regions[m], regions[n])
    \/ ~Before(regions[n], regions[m]) /\ m < n

\* What std::sort leaves: each region after as many as precede it.
Sorted(regions) ==
    LET keys == DOMAIN regions
        place(n) == Cardinality({m \in keys : Precedes(regions, m, n)}) + 1
    IN  [k \in 1..Cardinality(keys) |-> regions[CHOOSE n \in keys : place(n) = k]]

Holding(segments) == {n \in DOMAIN segments : HasMemory(segments[n])}

PlacedRegions(image, requested_base) ==
    Sorted([n \in Holding(image.segments) |->
               RegionOf(image, requested_base, image.segments[n])])

TargetEnd(region) == region.target_address + region.target_size

\* Each region is compared with the one before it only.
NeighboursOverlap(regions) ==
    \E n \in 1..(Len(regions) - 1) :
        TargetEnd(regions[n]) > regions[n + 1].target_address

-----------------------------------------------------------------------------
(* merge_adjacent.                                                         *)

\* A bug in CanMerge: the places in the file are not compared.
CanMergeAnySource(previous, region) ==
    /\ TargetEnd(previous) = region.target_address
    /\ previous.permissions = region.permissions

CanMerge(previous, region) ==
    /\ TargetEnd(previous) = region.target_address
    /\ previous.source_offset + previous.source_size = region.source_offset
    /\ previous.permissions = region.permissions

\* A bug in MergeNext: the bytes of the file are not added.
MergeNextTargets(merged, region) ==
    IF merged # <<>> /\ CanMerge(merged[Len(merged)], region)
    THEN [merged EXCEPT ![Len(merged)].target_size = @ + region.target_size]
    ELSE Append(merged, region)

MergeNext(merged, region) ==
    IF merged # <<>> /\ CanMerge(merged[Len(merged)], region)
    THEN [merged EXCEPT ![Len(merged)].target_size = @ + region.target_size,
                        ![Len(merged)].source_size = @ + region.source_size]
    ELSE Append(merged, region)

Merge(regions) ==
    LET merged[n \in 0..Len(regions)] ==
            IF n = 0 THEN <<>> ELSE MergeNext(merged[n - 1], regions[n])
    IN  merged[Len(regions)]

-----------------------------------------------------------------------------
(* The plan.                                                               *)

MappedBytes(regions) == Total([n \in DOMAIN regions |-> regions[n].target_size])
FileBytes(regions) == Total([n \in DOMAIN regions |-> regions[n].source_size])

Refused(error) ==
    [error |-> error, regions |-> <<>>, image_begin |-> 0, image_end |-> 0,
     mapped_bytes |-> 0, file_bytes |-> 0]

EmptyPlan(base) ==
    [Refused("none") EXCEPT !.image_begin = base, !.image_end = base]

\* That the ends, the merged sizes and the totals do not overflow follows from
\* what was checked before: the regions are disjoint, they end inside the
\* address space and have no more bytes in the file than in memory.
PlanOf(regions) ==
    [error        |-> "none",
     regions      |-> regions,
     image_begin  |-> IF regions = <<>> THEN 0 ELSE regions[1].target_address,
     image_end    |-> IF regions = <<>> THEN 0 ELSE TargetEnd(regions[Len(regions)]),
     mapped_bytes |-> MappedBytes(regions),
     file_bytes   |-> FileBytes(regions)]

\* plan(image, requested_base, merge_adjacent, error); an image that is not
\* valid is refused with one of the errors of its report.
Plan(image, requested_base, merge_adjacent) ==
    LET placed == PlacedRegions(image, requested_base)
        plan == PlanOf(IF merge_adjacent THEN Merge(placed) ELSE placed)
    IN
    IF ~Valid(image)
    THEN Refused(CHOOSE e \in ValidationErrors(image) : TRUE)
    ELSE IF image.segments = <<>> THEN EmptyPlan(requested_base)
    ELSE IF PlacementsError(image, requested_base) # "none"
    THEN Refused(PlacementsError(image, requested_base))
    ELSE IF NeighboursOverlap(placed) THEN Refused("mapping_overlap")
    ELSE IF plan.mapped_bytes > MaxMappedBytes THEN Refused("resource_limit")
    ELSE plan
===============================================================================
