-------------------------------- MODULE Manifest --------------------------------
(***************************************************************************)
(* ImageManifestCodec (src/src/manifest.cc): an image is written to a      *)
(* manifest with the parts the options ask for, the manifest may change on *)
(* the way, and an image is read from it and validated.                    *)
(*                                                                         *)
(* The tables of an image are sequences of records.  Of an entry the model *)
(* keeps what decode, or BinaryValidator, looks at: texts, the lengths of  *)
(* its strings, beside the fields of Image; everything else is in content. *)
(* A manifest has the fields of the image, and counts and checksums.       *)
(***************************************************************************)
EXTENDS Image, Container

LOCAL INSTANCE TLC

CONSTANTS
    Images,             \* the images callers write: a function to images
    Damages,            \* what may happen to a file: fields with other values
    OptionSets,         \* the options callers write with
    MaxString, MaxImports, MaxExports, MaxUnits,    \* limits_
    Crc(_)              \* crc32 of a buffer: some function of its bytes

VARIABLES
    manifest_key, manifest_options,     \* the image that was written, and how
    manifest_damage,    \* what happened to the manifest since
    manifest_stage,     \* "start", "written" or "read"
    manifest_error      \* the error of the last call; "silent": failed without

manifest_vars == <<manifest_key, manifest_options, manifest_damage,
                   manifest_stage, manifest_error>>

\* The tables in the order of the file, their limits and the bytes of an entry
\* without its texts.
Tables == <<"sections", "segments", "symbols", "relocations", "imports",
            "exports", "debug_units">>
Limit == <<MaxSections, MaxSegments, MaxSymbols, MaxRelocations, MaxImports,
           MaxExports, MaxUnits>>
FixedBytes == <<70, 49, 35, 30, 25, 25, 33>>
Optional == {"symbols", "relocations", "imports", "exports", "debug_units"}

EntryBytes(k, entry) ==
    FixedBytes[k] + Total(entry.texts)
    + IF Tables[k] = "segments" THEN 4 * Len(entry.sections) ELSE 0

\* The bytes of the file before its tables, and where table k and its first n
\* entries end.
HeaderBytes == 61
TableStart(image, k) ==
    HeaderBytes + 8 + image.file.size
    + Total([j \in 1..(k - 1) |->
               4 + Total([i \in 1..Len(image[Tables[j]]) |->
                            EntryBytes(j, image[Tables[j]][i])])])
EntryEnd(image, k, n) ==
    TableStart(image, k) + 4
    + Total([i \in 1..n |-> EntryBytes(k, image[Tables[k]][i])])

-----------------------------------------------------------------------------
(* encode.                                                                 *)

EncodeError(image) ==
    IF \/ image.file = NoFile
       \/ image.file.size > MaxFileSize
       \/ Len(image.sections) > MaxSections
       \/ Len(image.segments) > MaxSegments
       \/ Len(image.symbols) > MaxSymbols
       \/ Len(image.relocations) > MaxRelocations
    THEN "resource_limit" ELSE "none"

\* The image without the parts that are not asked for.
Without(image, options) ==
    [field \in DOMAIN image |->
        IF field \in Optional \ options THEN <<>> ELSE image[field]]

InFile(file, section) ==
    /\ section.file_size # 0
    /\ RangeInside(section.file_offset, section.file_size, file.size)
SectionCrc(file, section) ==
    Crc([i \in 0..(section.file_size - 1) |->
            file.bytes[section.file_offset + i]])

\* The checksum that is stored for a section; zero stands for none.
Checksum(file, section, options) ==
    IF "checksums" \in options /\ InFile(file, section)
    THEN SectionCrc(file, section) ELSE 0

Encoded(image, options) ==
    LET kept == Without(image, options) IN
    [magic |-> TRUE, sealed |-> TRUE, version |-> 1,
     counts |-> [k \in 1..Len(Tables) |-> Len(kept[Tables[k]])],
     checksums |-> [n \in 1..Len(image.sections) |->
                      Checksum(image.file, image.sections[n], options)],
     size |-> TableStart(kept, Len(Tables) + 1) + SealBytes] @@ kept

-----------------------------------------------------------------------------
(* decode.                                                                 *)

HeaderIsValid(header) ==
    /\ header.format \in {"unknown", "elf_like", "pe_like", "macho_like"}
    /\ header.word_size \in {4, 8}
    /\ header.byte_order \in {"little", "big"}

\* Entry n of table k can be read, with texts that are not too long.
Readable(file, k, n) ==
    LET table == file[Tables[k]] IN
    IF n > Len(table) THEN FALSE
    ELSE /\ EntryEnd(file, k, n) <= ReadableEnd(file)
         /\ \A i \in 1..Len(table[n].texts) : table[n].texts[i] <= MaxString

CountFails(file, k) ==
    \/ TableStart(file, k) + 4 > ReadableEnd(file)
    \/ file.counts[k] > Limit[k]

\* A bug in SectionError: the stored checksum is passed over.
SectionErrorUnchecked(file, n) ==
    IF Readable(file, 1, n) THEN "none" ELSE "truncated"

SectionError(file, n) ==
    LET section == file.sections[n] IN
    IF ~Readable(file, 1, n) THEN "truncated"
    ELSE IF /\ file.checksums[n] # 0
            /\ InFile(file.file, section)
            /\ SectionCrc(file.file, section) # file.checksums[n]
         THEN "invalid_section"
    ELSE "none"

\* The tables after the sections fail without an error.
TableFails(file, k) ==
    \/ CountFails(file, k)
    \/ \E n \in 1..file.counts[k] :
          \/ ~Readable(file, k, n)
          \/ /\ Tables[k] = "segments"
             /\ LET listed == file.segments[n].sections IN
                \/ Len(listed) > MaxSections
                \/ \E i \in 1..Len(listed) : listed[i] >= file.counts[1]

\* A bug in Decoded: the exports are read into the imports, and these into them.
DecodedCrossed(file) ==
    LET table(k) == SubSeq(file[Tables[k]], 1, file.counts[k]) IN
    [file |-> file.file, header |-> file.header,
     sections |-> table(1), segments |-> table(2), symbols |-> table(3),
     relocations |-> table(4), imports |-> table(6), exports |-> table(5),
     debug_units |-> table(7)]

\* The tables that were read; of a debug unit only the summary is stored.
Decoded(file) ==
    LET table(k) == SubSeq(file[Tables[k]], 1, file.counts[k])
        units == [n \in 1..file.counts[7] |->
                    [file.debug_units[n] EXCEPT !.rows = 0]]
    IN  [file |-> file.file, header |-> file.header,
         sections |-> table(1), segments |-> table(2), symbols |-> table(3),
         relocations |-> table(4), imports |-> table(5), exports |-> table(6),
         debug_units |-> units]

\* The last error stands for the first one of the validator's report.
DecodeError(file) ==
    LET wrong(n) == SectionError(file, n) # "none"
        first == FirstOf(file.counts[1], wrong)
    IN
    IF file.size < 16 \/ file.size > 2 * MaxFileSize THEN "truncated"
    ELSE IF ~file.magic THEN "bad_magic"
    ELSE IF ~file.sealed THEN "invalid_header"
    ELSE IF \/ file.version # 1
            \/ HeaderBytes > ReadableEnd(file)
            \/ ~HeaderIsValid(file.header)
         THEN "invalid_header"
    ELSE IF \/ file.file.size > MaxFileSize
            \/ TableStart(file, 1) > ReadableEnd(file)
         THEN "resource_limit"
    ELSE IF CountFails(file, 1) THEN "silent"
    ELSE IF first <= file.counts[1] THEN SectionError(file, first)
    ELSE IF \E k \in 2..Len(Tables) : TableFails(file, k) THEN "silent"
    ELSE IF EntryEnd(file, 7, file.counts[7]) # ReadableEnd(file)
         THEN "invalid_header"
    ELSE IF ~Valid(Decoded(file)) THEN "invalid_image"
    ELSE "none"

-----------------------------------------------------------------------------
File == Damaged(Encoded(Images[manifest_key], manifest_options),
                manifest_damage)

\* The image that decode has returned, as a set of at most one.
ManifestRead ==
    IF manifest_stage = "read" /\ manifest_error = "none"
    THEN {Decoded(File)} ELSE {}

ManifestInit ==
    /\ manifest_key = CHOOSE key \in DOMAIN Images : TRUE
    /\ manifest_options = {}
    /\ manifest_damage = <<>>
    /\ manifest_stage = "start"
    /\ manifest_error = "none"

WriteManifest(key, options) ==
    /\ manifest_stage = "start"
    /\ manifest_key' = key
    /\ manifest_options' = options
    /\ manifest_error' = EncodeError(Images[key])
    /\ manifest_stage' = IF manifest_error' = "none" THEN "written" ELSE "start"
    /\ UNCHANGED manifest_damage

DamageManifest(damage) ==
    /\ manifest_stage = "written"
    /\ manifest_damage = <<>>
    /\ manifest_damage' = damage
    /\ UNCHANGED <<manifest_key, manifest_options, manifest_stage,
                   manifest_error>>

ReadManifest ==
    /\ manifest_stage = "written"
    /\ manifest_stage' = "read"
    /\ manifest_error' = DecodeError(File)
    /\ UNCHANGED <<manifest_key, manifest_options, manifest_damage>>

ManifestNext ==
    \/ \E key \in DOMAIN Images, options \in OptionSets :
          WriteManifest(key, options)
    \/ \E damage \in Damages : DamageManifest(damage)
    \/ ReadManifest

-----------------------------------------------------------------------------
\* What can keep an image from being read back that encode has written: texts
\* and tables encode does not look at, a whole that is too large, parts that
\* refer to parts left out, and an image that was not valid at the start.
Unreadable(image, options) ==
    LET kept == Without(image, options) IN
    \/ Encoded(image, options).size > 2 * MaxFileSize
    \/ \E k \in 1..Len(Tables) :
          \/ Len(kept[Tables[k]]) > Limit[k]
          \/ \E n \in 1..Len(kept[Tables[k]]) :
                \E i \in 1..Len(kept[Tables[k]][n].texts) :
                    kept[Tables[k]][n].texts[i] > MaxString
    \/ \E n \in 1..Len(kept.segments) :
          \E i \in 1..Len(kept.segments[n].sections) :
             kept.segments[n].sections[i] >= Len(kept.sections)
    \/ ~HeaderIsValid(kept.header)
    \/ ~Valid(kept)

\* An image that was written is read back with every part that was asked for,
\* unless one of these reasons forbids it; and what is read can be written again.
ManifestsSurvive ==
    /\ manifest_stage = "read" /\ manifest_damage = <<>> =>
        LET kept == Without(Images[manifest_key], manifest_options) IN
        IF Unreadable(Images[manifest_key], manifest_options)
        THEN ManifestRead = {}
        ELSE ManifestRead =
                {[kept EXCEPT !.debug_units =
                    [n \in DOMAIN @ |-> [@[n] EXCEPT !.rows = 0]]]}
    /\ \A image \in ManifestRead : EncodeError(image) = "none"

\* A manifest whose file bytes were changed, and which was sealed again, is
\* accepted exactly if every section has its bytes' checksum still, or none was
\* stored: without checksums, outside the file, and also when the checksum that
\* was stored was zero, which stands for none.
ChangedSectionsAreNoticed ==
    LET image == Images[manifest_key]
        same(n) ==
            Checksum(image.file, image.sections[n], manifest_options)
               \in {0, SectionCrc(File.file, image.sections[n])}
    IN
    /\ manifest_stage = "read" /\ DOMAIN manifest_damage = {"file"}
    /\ ~Unreadable(image, manifest_options)
    => (ManifestRead # {} <=> \A n \in 1..Len(image.sections) : same(n))
=================================================================================
