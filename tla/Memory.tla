-------------------------------- MODULE Memory --------------------------------
(***************************************************************************)
(* What the operations of AddressSpace (src/src/address_space.cc) compute, *)
(* as operators on a value of regions_, so that every component that holds *)
(* an AddressSpace (the loader, the patch engine, the snapshot codec) uses *)
(* the same definitions.                                                   *)
(*                                                                         *)
(* regions_ is a std::map ordered by base: here a function from the bases  *)
(* in use to regions.  A region keeps its size, its permissions and its    *)
(* bytes; its name is left out, no operation reads it.  A buffer of n      *)
(* bytes (uint8_t* and size_t) is a function on 0..n-1 that travels with   *)
(* its size.                                                               *)
(***************************************************************************)
EXTENDS Word, FiniteSets

Permission == {"r", "w", "x"}

Buffer(n) == [0..(n - 1) -> Byte]

\* Every value a MemoryRegion can have.
IsRegion(region) ==
    /\ region = [size  |-> region.size,
                 perms |-> region.perms,
                 bytes |-> region.bytes]
    /\ region.size \in Word \ {0}
    /\ region.perms \in SUBSET Permission
    /\ region.bytes \in Buffer(region.size)

\* Every value regions_ can have, as far as types go.
IsRegions(regions) ==
    /\ DOMAIN regions \subseteq Word
    /\ regions = [b \in DOMAIN regions |-> regions[b]]
    /\ \A b \in DOMAIN regions : IsRegion(regions[b])

NoRegions == [b \in {} |-> {}]

\* The addresses the region at base b occupies, and all that are occupied.
Cells(regions, b) == b..(b + regions[b].size - 1)
MappedAddresses(regions) == UNION {Cells(regions, b) : b \in DOMAIN regions}

\* No two regions share an address and none reaches beyond the last one.
Disjoint(regions) ==
    /\ \A b, c \in DOMAIN regions :
          b # c => Cells(regions, b) \cap Cells(regions, c) = {}
    /\ \A b \in DOMAIN regions : AddFits(b, regions[b].size)

-----------------------------------------------------------------------------
(* Lookup.                                                                 *)

\* MemoryRegion::contains for the region at base b.
Contains(regions, b, address, length) ==
    /\ address >= b
    /\ RangeInside(address - b, length, regions[b].size)

\* A bug in IsAt: lower_bound where upper_bound is needed, so that the region
\* that starts at the address itself is missed.
IsAtLowerBound(regions, b, address) ==
    /\ b \in DOMAIN regions
    /\ b < address
    /\ \A c \in DOMAIN regions : c < address => c <= b

\* b is std::prev(regions_.upper_bound(address)).
IsAt(regions, b, address) ==
    /\ b \in DOMAIN regions
    /\ b <= address
    /\ \A c \in DOMAIN regions : c <= address => c <= b

\* region_at(address): the base of the region, as a set of at most one base.
RegionAt(regions, address) ==
    {b \in DOMAIN regions :
        IsAt(regions, b, address) /\ Contains(regions, b, address, 1)}

\* The region a read or a write of length bytes at address goes to.
Target(regions, address, length) ==
    {b \in RegionAt(regions, address) :
        Contains(regions, b, address, length)}

-----------------------------------------------------------------------------
(* map, unmap, protect.                                                    *)

\* n is regions_.lower_bound(base).
IsNext(regions, n, base) ==
    /\ n \in DOMAIN regions
    /\ n >= base
    /\ \A c \in DOMAIN regions : c >= base => n <= c

\* p is std::prev(regions_.lower_bound(base)).
IsPrevious(regions, p, base) ==
    /\ p \in DOMAIN regions
    /\ p < base
    /\ \A c \in DOMAIN regions : c < base => c <= p

OverlapsNext(regions, base, end) ==
    \E n \in DOMAIN regions : IsNext(regions, n, base) /\ end > n

\* A bug in OverlapsPrevious: the comparison lets the mapping start on the
\* last byte of the region before it.
OverlapsPreviousOffByOne(regions, base) ==
    \E p \in DOMAIN regions :
        /\ IsPrevious(regions, p, base)
        /\ \/ ~AddFits(p, regions[p].size)
           \/ p + regions[p].size > base + 1

OverlapsPrevious(regions, base) ==
    \E p \in DOMAIN regions :
        /\ IsPrevious(regions, p, base)
        /\ \/ ~AddFits(p, regions[p].size)
           \/ p + regions[p].size > base

\* The early returns of map, in order.
MapError(regions, mapped, limit, base, size) ==
    IF size = 0 THEN "invalid_segment"
    ELSE IF ~AddFits(base, size) THEN "address_overflow"
    ELSE IF ~AddFits(mapped, size) \/ mapped + size > limit
         THEN "resource_limit"
    ELSE IF \/ OverlapsNext(regions, base, base + size)
            \/ OverlapsPrevious(regions, base)
         THEN "mapping_overlap"
    ELSE "none"

\* A bug in NewRegion: bytes are reserved and never filled.
NewRegionReserved(size, perms) ==
    [size |-> size, perms |-> perms, bytes |-> [i \in {} |-> 0]]

NewRegion(size, perms) ==
    [size |-> size, perms |-> perms, bytes |-> [i \in 0..(size - 1) |-> 0]]

Mapped(regions, base, size, perms) ==
    [b \in DOMAIN regions \cup {base} |->
        IF b = base THEN NewRegion(size, perms) ELSE regions[b]]

Unmapped(regions, base) ==
    [b \in DOMAIN regions \ {base} |-> regions[b]]

ProtectError(regions, base, size) ==
    IF base \in RegionAt(regions, base) /\ regions[base].size = size
    THEN "none" ELSE "mapping_missing"

-----------------------------------------------------------------------------
(* read, write and their integer forms.                                    *)

ReadError(regions, address, size) ==
    IF size = 0 THEN "none"
    ELSE IF Target(regions, address, size) = {} THEN "mapping_missing"
    ELSE IF \A b \in Target(regions, address, size) : "r" \in regions[b].perms
         THEN "none" ELSE "permission_denied"

\* The bytes a successful read copies out.
Slice(regions, address, size) ==
    [i \in 0..(size - 1) |->
        LET b == CHOOSE b \in DOMAIN regions :
                    b \in Target(regions, address, size)
        IN  regions[b].bytes[(address - b) + i]]

WriteError(regions, address, size, ignore_permissions) ==
    IF size = 0 THEN "none"
    ELSE IF Target(regions, address, size) = {} THEN "mapping_missing"
    ELSE IF \/ ignore_permissions
            \/ \A b \in Target(regions, address, size) :
                  "w" \in regions[b].perms
         THEN "none" ELSE "permission_denied"

\* The memcpy of a successful write into the bytes of one region.
Overwrite(bytes, start, data, size) ==
    [i \in DOMAIN bytes |->
        IF start <= i /\ i < start + size THEN data[i - start] ELSE bytes[i]]

Written(regions, address, data, size) ==
    [b \in DOMAIN regions |->
        IF b \in Target(regions, address, size)
        THEN [regions[b] EXCEPT !.bytes = Overwrite(@, address - b, data, size)]
        ELSE regions[b]]

Width == {1, 2, 4, 8}

\* The bytes write_integer stores: digit i of the value goes to index i in
\* little and to index width - i - 1 in big byte order.
Digits(value, width, order) ==
    [i \in 0..(width - 1) |->
        LET shift == IF order = "little" THEN i ELSE width - i - 1
        IN  (value \div Radix^shift) % Radix]

\* The value read_integer accumulates, most significant byte first.
Accumulate(bytes, width, order) ==
    LET byte(k) == IF order = "little" THEN bytes[width - k] ELSE bytes[k - 1]
        value[k \in 0..width] ==
            IF k = 0 THEN 0 ELSE value[k - 1] * Radix + byte(k)
    IN  value[width]
===============================================================================
