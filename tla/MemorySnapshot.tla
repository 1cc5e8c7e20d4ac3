---------------------------- MODULE MemorySnapshot ----------------------------
(***************************************************************************)
(* MemorySnapshotCodec (src/src/snapshot.cc).  A snapshot is plain data:   *)
(* the caller may restore the one it captured, long after the memory has   *)
(* moved on, write it to a file and read it back, or open a file from      *)
(* elsewhere.                                                              *)
(* restore builds a staged address space region by region and moves it     *)
(* over the memory only when every region was accepted; the memory then    *)
(* also has the limits of the codec.                                       *)
(*                                                                         *)
(* Region names, and the limit on their length, are left out.              *)
(***************************************************************************)
EXTENDS Memory, Sequences, Container

CONSTANTS
    MemoryLimit,    \* max_mapped_bytes of the memory before any restore
    CodecLimit,     \* limits_.max_mapped_bytes of the codec
    MaxSegments,    \* limits_.max_segments of the codec
    MaxFileSize,    \* limits_.max_file_size of the codec
    Foreign,        \* snapshots that were not captured here: a function
    ForeignFiles,   \* files that were not written here: a function
    Mappings,       \* the mappings a caller makes: <<base, size, perms>>
    Crc(_)          \* crc32 of a buffer: some function of its bytes

\* The types of SnapshotRegion and MemorySnapshot, and what decode can find in
\* a file.  The bytes of a region have a length of their own.
IsSnapshotRegion(source) ==
    /\ source.base \in Word
    /\ source.size \in Word
    /\ source.perms \in SUBSET Permission
    /\ \E n \in Word : source.bytes \in Buffer(n)

IsRegionList(list) ==
    /\ Len(list) \in Nat
    /\ list = [n \in 1..Len(list) |-> list[n]]
    /\ \A n \in 1..Len(list) : IsSnapshotRegion(list[n])

IsSnapshot(s) == s.mapped_bytes \in Word /\ IsRegionList(s.regions)

IsFile(file) == /\ file.size \in Nat
                /\ file.count \in Nat
                /\ file.mapped_bytes \in Word
                /\ IsRegionList(file.regions)

ASSUME SnapshotAssumption ==
    /\ MemoryLimit \in Word
    /\ CodecLimit \in Word
    /\ MaxSegments \in Nat
    /\ MaxFileSize \in Nat
    /\ Mappings \subseteq Word \X Word \X SUBSET Permission
    /\ \A key \in DOMAIN Foreign : IsSnapshot(Foreign[key])
    /\ \A key \in DOMAIN ForeignFiles : IsFile(ForeignFiles[key])

VARIABLES
    regions, mapped_bytes, limit,   \* the AddressSpace
    snapshot,       \* the snapshot the caller holds
    pc,             \* "idle" or "restoring"
    staged, total,  \* the locals of restore: staged.regions_ and total
    index,          \* the next region of the snapshot
    last,           \* the last call and the error it returned
    taken,          \* history: the memory a capture saw, {} for a foreign one
    before          \* history: the memory when restore was called, until the
                    \* next call

memory == <<regions, mapped_bytes, limit>>
vars == <<regions, mapped_bytes, limit, snapshot, pc, staged, total, index,
          last, taken, before>>

NoBytes == [i \in {} |-> 0]
ByteCount(region) == Cardinality(DOMAIN region.bytes)

\* The bases of a memory in the order of the map.
NthBase(rs, n) ==
    CHOOSE b \in DOMAIN rs : Cardinality({c \in DOMAIN rs : c < b}) = n - 1

SnapshotRegion(rs, b, include_bytes) ==
    [base     |-> b,
     size     |-> rs[b].size,
     perms    |-> rs[b].perms,
     checksum |-> Crc(rs[b].bytes),
     bytes    |-> IF include_bytes THEN rs[b].bytes ELSE NoBytes]

\* A snapshot of the whole memory, and the one a failed capture returns.
WholeSnapshot(include_bytes) ==
    [version |-> 1, mapped_bytes |-> mapped_bytes,
     regions |-> [n \in 1..Cardinality(DOMAIN regions) |->
                    SnapshotRegion(regions, NthBase(regions, n), include_bytes)]]
HeaderOnly == [version |-> 1, mapped_bytes |-> mapped_bytes, regions |-> <<>>]

Returned(call, error) == [call |-> call, error |-> error]

Init ==
    /\ regions = NoRegions
    /\ mapped_bytes = 0
    /\ limit = MemoryLimit
    /\ snapshot = HeaderOnly
    /\ pc = "idle"
    /\ staged = NoRegions
    /\ total = 0
    /\ index = 1
    /\ last = Returned("none", "none")
    /\ taken = {}
    /\ before = <<regions, mapped_bytes, limit>>

-----------------------------------------------------------------------------
(* The caller goes on using the memory; a call on the memory happens       *)
(* between calls on the codec, never during one.                           *)

UseMemory ==
    /\ pc = "idle"
    /\ \/ \E m \in Mappings :
             /\ MapError(regions, mapped_bytes, limit, m[1], m[2]) = "none"
             /\ regions' = Mapped(regions, m[1], m[2], m[3])
             /\ mapped_bytes' = mapped_bytes + m[2]
       \/ \E base \in DOMAIN regions :
             /\ regions' = Unmapped(regions, base)
             /\ mapped_bytes' = mapped_bytes - regions[base].size
       \/ \E base \in DOMAIN regions : \E data \in Buffer(1) :
             /\ WriteError(regions, base, 1, TRUE) = "none"
             /\ regions' = Written(regions, base, data, 1)
             /\ UNCHANGED mapped_bytes
    /\ before' = <<regions', mapped_bytes', limit>>
    /\ last' = Returned("none", "none")
    /\ UNCHANGED <<limit, snapshot, pc, staged, total, index, taken>>

Receive(s) ==
    /\ pc = "idle"
    /\ snapshot' = s
    /\ taken' = {}
    /\ last' = Returned("none", "none")
    /\ before' = memory
    /\ UNCHANGED <<regions, mapped_bytes, limit, pc, staged, total, index>>

-----------------------------------------------------------------------------
(* capture.                                                                *)

\* A bug in CaptureError: only the bytes are compared with a limit.
CaptureErrorIgnoresCount ==
    IF mapped_bytes > CodecLimit THEN "resource_limit" ELSE "none"

CaptureError ==
    IF \/ mapped_bytes > CodecLimit
       \/ Cardinality(DOMAIN regions) > MaxSegments
    THEN "resource_limit" ELSE "none"

Capture(include_bytes) ==
    /\ pc = "idle"
    /\ last' = Returned("capture", CaptureError)
    /\ \/ /\ CaptureError = "none"
          /\ snapshot' = WholeSnapshot(include_bytes)
          /\ taken' = {<<regions, mapped_bytes, include_bytes>>}
       \/ /\ CaptureError # "none"
          /\ snapshot' = HeaderOnly
          /\ taken' = {}
    /\ before' = memory
    /\ UNCHANGED <<regions, mapped_bytes, limit, pc, staged, total, index>>

-----------------------------------------------------------------------------
(* encode and decode: the snapshot the caller holds goes to a file and is  *)
(* read back, or is read from a file that came from elsewhere.             *)

EncodeError(s) ==
    IF \/ Len(s.regions) > MaxSegments
       \/ s.mapped_bytes > CodecLimit
       \/ \E n \in 1..Len(s.regions) : ByteCount(s.regions[n]) > CodecLimit
    THEN "resource_limit" ELSE "none"

\* Where the n-th region ends in the file.
RegionEnd(list, n) == 20 + Total([i \in 1..n |-> 33 + ByteCount(list[i])])

Encoded(s) ==
    [magic |-> TRUE, sealed |-> TRUE, version |-> s.version,
     mapped_bytes |-> s.mapped_bytes, count |-> Len(s.regions),
     regions |-> s.regions,
     size |-> RegionEnd(s.regions, Len(s.regions)) + SealBytes]

DecodeError(file) ==
    IF file.size < 24 \/ ~file.magic \/ file.size > CodecLimit + MaxFileSize
    THEN "bad_magic"
    ELSE IF \/ ~file.sealed
            \/ file.version # 1
            \/ file.count > MaxSegments
            \/ file.mapped_bytes > CodecLimit
         THEN "invalid_header"
    ELSE IF \E n \in 1..file.count :
               IF n > Len(file.regions) THEN TRUE
               ELSE \/ RegionEnd(file.regions, n) > ReadableEnd(file)
                    \/ ByteCount(file.regions[n]) > CodecLimit
         THEN "truncated"
    ELSE IF RegionEnd(file.regions, file.count) # ReadableEnd(file)
         THEN "invalid_header"
    ELSE "none"

Decoded(file) ==
    [version |-> file.version, mapped_bytes |-> file.mapped_bytes,
     regions |-> SubSeq(file.regions, 1, file.count)]

\* The caller keeps the snapshot it has when a call fails.
ReadFile(call, file, source) ==
    /\ last' = Returned(call, DecodeError(file))
    /\ \/ DecodeError(file) = "none" /\ snapshot' = Decoded(file)
                                    /\ taken' = source
       \/ DecodeError(file) # "none" /\ UNCHANGED <<snapshot, taken>>

WriteAndRead ==
    /\ pc = "idle"
    /\ \/ /\ EncodeError(snapshot) = "none"
          /\ ReadFile("decode", Encoded(snapshot), taken)
       \/ /\ EncodeError(snapshot) # "none"
          /\ last' = Returned("encode", EncodeError(snapshot))
          /\ UNCHANGED <<snapshot, taken>>
    /\ before' = memory
    /\ UNCHANGED <<regions, mapped_bytes, limit, pc, staged, total, index>>

OpenFile(file) ==
    /\ pc = "idle"
    /\ ReadFile("open", file, {})
    /\ before' = memory
    /\ UNCHANGED <<regions, mapped_bytes, limit, pc, staged, total, index>>

-----------------------------------------------------------------------------
(* restore.                                                                *)

MetadataError(s) ==
    IF \/ s.version # 1
       \/ s.mapped_bytes > CodecLimit
       \/ Len(s.regions) > MaxSegments
    THEN "resource_limit" ELSE "none"

\* The error of one turn of the loop, in the order of its checks.
RegionError(source) ==
    LET mapping == MapError(staged, total, CodecLimit, source.base, source.size)
        whole == ByteCount(source) = source.size
        given == ByteCount(source) # 0
    IN
    CASE source.size = 0 \/ source.size > CodecLimit \/ (given /\ ~whole) ->
            "invalid_segment"
      [] OTHER ->
         IF ~AddFits(total, source.size) \/ total + source.size > CodecLimit
         THEN "resource_limit"
         ELSE IF mapping # "none" THEN mapping
         ELSE IF given /\ Crc(source.bytes) # source.checksum
              THEN "invalid_header"
         ELSE "none"

\* A bug in Stage: the region is mapped writable for the copy and stays so.
StageWritable(source) ==
    LET mapped == Mapped(staged, source.base, source.size,
                         source.perms \cup {"w"})
    IN  IF ByteCount(source) = 0 THEN mapped
        ELSE Written(mapped, source.base, source.bytes, source.size)

\* staged after the turn; staged.mapped_bytes_ is total.
Stage(source) ==
    LET mapped == Mapped(staged, source.base, source.size, source.perms) IN
    IF ByteCount(source) = 0 THEN mapped
    ELSE Written(mapped, source.base, source.bytes, source.size)

BeginRestore ==
    /\ pc = "idle"
    /\ last' = Returned("restore", MetadataError(snapshot))
    /\ pc' = IF MetadataError(snapshot) = "none" THEN "restoring" ELSE "idle"
    /\ before' = memory
    /\ UNCHANGED <<regions, mapped_bytes, limit, snapshot, staged, total, index,
                   taken>>

\* The locals of restore go out of scope when it returns.
ReturnFromRestore(error) ==
    /\ last' = Returned("restore", error)
    /\ pc' = "idle"
    /\ staged' = NoRegions
    /\ total' = 0
    /\ index' = 1

RestoreRegion ==
    LET source == snapshot.regions[index] IN
    /\ pc = "restoring"
    /\ index <= Len(snapshot.regions)
    /\ \/ /\ RegionError(source) = "none"
          /\ staged' = Stage(source)
          /\ total' = total + source.size
          /\ index' = index + 1
          /\ UNCHANGED <<pc, last>>
       \/ /\ RegionError(source) # "none"
          /\ ReturnFromRestore(RegionError(source))
    /\ UNCHANGED <<regions, mapped_bytes, limit, snapshot, taken, before>>

\* A bug in FinishRestore: the declared total is believed.
FinishRestoreTrusting ==
    /\ pc = "restoring"
    /\ index > Len(snapshot.regions)
    /\ ReturnFromRestore("none")
    /\ regions' = staged
    /\ mapped_bytes' = snapshot.mapped_bytes
    /\ limit' = CodecLimit
    /\ UNCHANGED <<snapshot, taken, before>>

\* A bug in FinishRestore: the memory is emptied before the total is compared.
FinishRestoreClearsFirst ==
    /\ pc = "restoring"
    /\ index > Len(snapshot.regions)
    /\ ReturnFromRestore(IF snapshot.mapped_bytes = total
                         THEN "none" ELSE "invalid_header")
    /\ regions' = IF snapshot.mapped_bytes = total THEN staged ELSE NoRegions
    /\ mapped_bytes' = IF snapshot.mapped_bytes = total THEN total ELSE 0
    /\ limit' = CodecLimit
    /\ UNCHANGED <<snapshot, taken, before>>

FinishRestore ==
    /\ pc = "restoring"
    /\ index > Len(snapshot.regions)
    /\ \/ /\ snapshot.mapped_bytes = total
          /\ regions' = staged
          /\ mapped_bytes' = total
          /\ limit' = CodecLimit
          /\ ReturnFromRestore("none")
       \/ /\ snapshot.mapped_bytes # total
          /\ UNCHANGED memory
          /\ ReturnFromRestore("invalid_header")
    /\ UNCHANGED <<snapshot, taken, before>>

Step == RestoreRegion \/ FinishRestore

Next ==
    \/ UseMemory
    \/ \E key \in DOMAIN Foreign : Receive(Foreign[key])
    \/ \E key \in DOMAIN ForeignFiles : OpenFile(ForeignFiles[key])
    \/ WriteAndRead
    \/ \E include_bytes \in BOOLEAN : Capture(include_bytes)
    \/ BeginRestore
    \/ Step

Spec == Init /\ [][Next]_vars

-----------------------------------------------------------------------------
(* What a snapshot promises.                                               *)

\* Whatever a snapshot says, the memory it leaves behind is one the calls of
\* AddressSpace could have built: regions as long as their sizes say, disjoint, with
\* an exact byte account that is within the limits the memory has from then on.
RestoredMemoryIsSound ==
    /\ IsRegions(regions)
    /\ Disjoint(regions)
    /\ mapped_bytes = Cardinality(MappedAddresses(regions))
    /\ mapped_bytes <= limit

Ended(call) == pc = "idle" /\ last.call = call

\* A restore that fails leaves the memory as it was, limits included; and the
\* snapshot without regions that a failed capture of some bytes returns is never
\* restored, which would erase the memory.
RestoreIsAtomic ==
    Ended("restore") =>
        IF last.error # "none" THEN memory = before
        ELSE snapshot.regions = <<>> => snapshot.mapped_bytes = 0

\* Capture, any use of the memory, restore: the memory is the captured one;
\* without bytes it has the same layout and every byte is zero.
RestoresTheCapture ==
    Ended("restore") /\ last.error = "none" =>
        \A t \in taken :
            /\ mapped_bytes = t[2]
            /\ regions = [b \in DOMAIN t[1] |->
                  IF t[3] THEN t[1][b]
                  ELSE NewRegion(t[1][b].size, t[1][b].perms)]

\* A snapshot that was captured without an error can always be restored, and
\* written to a file that can be read, unless the headers of the regions take the
\* file past the sum of the two limits, which encode does not look at.
CaptureCanBeRestored ==
    /\ pc = "idle"
    /\ taken # {}
    /\ last.call # "open"
    /\ last.error # "none"
    => /\ last.call = "decode"
       /\ Encoded(snapshot).size > CodecLimit + MaxFileSize
===============================================================================
