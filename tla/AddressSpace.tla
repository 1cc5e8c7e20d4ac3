----------------------------- MODULE AddressSpace -----------------------------
(***************************************************************************)
(* AddressSpace (src/src/address_space.cc): the simulated memory every     *)
(* other component works on.  One action per member function; last is the  *)
(* call with its arguments and what it returned: the error code ("none"    *)
(* for success) and, for the reads, the value read.  No action reads last. *)
(***************************************************************************)
EXTENDS Memory

CONSTANTS
    Limit,      \* limits_.max_mapped_bytes
    Perms,      \* the permission sets callers ask for
    Sizes,      \* the sizes and widths callers pass
    Values      \* the integers callers write

ASSUME AddressSpaceAssumption == /\ Limit \in Word
                                 /\ Perms \subseteq SUBSET Permission
                                 /\ Sizes \subseteq Word
                                 /\ Values \subseteq Word

VARIABLES
    regions,        \* regions_
    mapped_bytes,   \* mapped_bytes_
    last            \* the last call and what it returned

vars == <<regions, mapped_bytes, last>>

Order == {"little", "big"}

\* The outcome of a call: its arguments, the error and what was read.
NoBytes == [i \in {} |-> 0]
Outcome(call, error, bytes, integer) ==
    [call |-> call, error |-> error, bytes |-> bytes, integer |-> integer]
Status(call, error) == Outcome(call, error, NoBytes, 0)

Init ==
    /\ regions = NoRegions
    /\ mapped_bytes = 0
    /\ last = Status(<<"construct">>, "none")

Map(base, size, perms) ==
    LET error == MapError(regions, mapped_bytes, Limit, base, size) IN
    /\ last' = Status(<<"map", base, size, perms>>, error)
    /\ \/ /\ error = "none"
          /\ regions' = Mapped(regions, base, size, perms)
          /\ mapped_bytes' = mapped_bytes + size
       \/ /\ error # "none"
          /\ UNCHANGED <<regions, mapped_bytes>>

\* A bug in Unmap: the bytes of the region stay in the account.
UnmapKeepsAccount(base) ==
    /\ base \in DOMAIN regions
    /\ regions' = Unmapped(regions, base)
    /\ UNCHANGED mapped_bytes
    /\ last' = Status(<<"unmap", base>>, "none")

Unmap(base) ==
    \/ /\ base \in DOMAIN regions
       /\ mapped_bytes' = mapped_bytes - regions[base].size
       /\ regions' = Unmapped(regions, base)
       /\ last' = Status(<<"unmap", base>>, "none")
    \/ /\ base \notin DOMAIN regions
       /\ last' = Status(<<"unmap", base>>, "mapping_missing")
       /\ UNCHANGED <<regions, mapped_bytes>>

Protect(base, size, perms) ==
    LET error == ProtectError(regions, base, size) IN
    /\ last' = Status(<<"protect", base, size, perms>>, error)
    /\ UNCHANGED mapped_bytes
    /\ \/ error = "none" /\ regions' = [regions EXCEPT ![base].perms = perms]
       \/ error # "none" /\ UNCHANGED regions

Read(address, size) ==
    LET error == ReadError(regions, address, size)
        call == <<"read", address, size>>
    IN
    /\ \/ /\ error = "none"
          /\ last' = Outcome(call, "none", Slice(regions, address, size), 0)
       \/ /\ error # "none"
          /\ last' = Status(call, error)
    /\ UNCHANGED <<regions, mapped_bytes>>

\* write, for the call that is given.
WriteBytes(call, address, data, size, ignore_permissions) ==
    LET error == WriteError(regions, address, size, ignore_permissions) IN
    /\ last' = Status(call, error)
    /\ UNCHANGED mapped_bytes
    /\ \/ error = "none" /\ regions' = Written(regions, address, data, size)
       \/ error # "none" /\ UNCHANGED regions

Write(address, data, size, ignore_permissions) ==
    WriteBytes(<<"write", address, data, size, ignore_permissions>>,
               address, data, size, ignore_permissions)

ReadInteger(address, width, order) ==
    LET error == ReadError(regions, address, width)
        call == <<"read_integer", address, width, order>>
    IN
    /\ \/ /\ width \notin Width
          /\ last' = Status(call, "invalid_relocation")
       \/ /\ width \in Width /\ error = "none"
          /\ last' = Outcome(call, "none", NoBytes,
                             Accumulate(Slice(regions, address, width),
                                        width, order))
       \/ /\ width \in Width /\ error # "none"
          /\ last' = Status(call, error)
    /\ UNCHANGED <<regions, mapped_bytes>>

WriteInteger(address, width, order, value, ignore_permissions) ==
    LET call == <<"write_integer", address, width, order, value,
                  ignore_permissions>>
    IN
    \/ /\ width \notin Width
       /\ last' = Status(call, "invalid_relocation")
       /\ UNCHANGED <<regions, mapped_bytes>>
    \/ /\ width \in Width
       /\ WriteBytes(call, address, Digits(value, width, order), width,
                     ignore_permissions)

Clear ==
    /\ regions' = NoRegions
    /\ mapped_bytes' = 0
    /\ last' = Status(<<"clear">>, "none")

Next ==
    \/ \E base \in Word, size \in Sizes, perms \in Perms :
          Map(base, size, perms)
    \/ \E base \in Word : Unmap(base)
    \/ \E base \in Word, size \in Sizes, perms \in Perms :
          Protect(base, size, perms)
    \/ \E address \in Word, size \in Sizes : Read(address, size)
    \/ \E address \in Word, size \in Sizes, ignore \in BOOLEAN :
          \E data \in Buffer(size) : Write(address, data, size, ignore)
    \/ \E address \in Word, width \in Sizes, order \in Order :
          ReadInteger(address, width, order)
    \/ \E address \in Word, width \in Sizes, value \in Values,
          order \in Order, ignore \in BOOLEAN :
          WriteInteger(address, width, order, value, ignore)
    \/ Clear

Spec == Init /\ [][Next]_vars

-----------------------------------------------------------------------------
(* What makes the address space correct.                                   *)

\* regions_ is well formed: every region has as many bytes as its size says,
\* so that the memcpy of read and write stays inside the vector.
TypeOK ==
    /\ IsRegions(regions)
    /\ mapped_bytes \in Word
    /\ last.error \in {"none", "invalid_segment", "address_overflow",
                       "resource_limit", "mapping_overlap", "mapping_missing",
                       "permission_denied", "invalid_relocation"}

\* map looks at two neighbours only; no two regions ever share an address,
\* however maps and unmaps follow each other, and none reaches beyond the
\* last address.
NoOverlap == Disjoint(regions)

\* mapped_bytes_ is kept by hand in map, unmap and clear: it is at every
\* moment the number of addresses that are mapped, and within the limit.
Accounting ==
    /\ mapped_bytes = Cardinality(MappedAddresses(regions))
    /\ mapped_bytes <= Limit

\* Seen from its calls the ordered map of regions is an array of cells (see
\* FlatMemory): the neighbour checks of map refuse exactly the ranges with a
\* cell in use, and the region the predecessor search finds is the owner.
FlatCells ==
    [a \in Word |->
        {[owner |-> b, perms |-> regions[b].perms,
          byte |-> regions[b].bytes[a - b]]
         : b \in {c \in DOMAIN regions : a \in Cells(regions, c)}}]

Flat == INSTANCE FlatMemory WITH cells <- FlatCells

FlatSpec == Flat!Spec
===============================================================================
