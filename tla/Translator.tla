------------------------------- MODULE Translator -------------------------------
(***************************************************************************)
(* AddressTranslator (src/src/symbol_index.cc): where in the file an       *)
(* address of the image is, and back.  An optional result is a set with at *)
(* most one element.                                                       *)
(***************************************************************************)
EXTENDS Word, Sequences

LOCAL INSTANCE Container

\* A loop that takes the first part in which the range lies, counting from one
\* of its addresses, as far as one of its sizes.
Holds(part, start, position, length, size) ==
    /\ position >= part[start]
    /\ RangeInside(position - part[start], length, part[size])
FirstHolding(parts, start, position, length, size) ==
    LET holds(n) == Holds(parts[n], start, position, length, size)
        first == FirstOf(Len(parts), holds)
    IN  {first} \ {Len(parts) + 1}

\* A bug in FileAddress: memory after the bytes of the file counts as bytes.
FileAddressUnbounded(part, address, length, section) ==
    LET displacement == address - part.virtual_address IN
    {[file_offset |-> part.file_offset + displacement,
      available |-> part.memory_size - displacement, section |-> section]}

\* The FileAddress of an address that lies in a part.
FileAddress(part, address, length, section) ==
    LET displacement == address - part.virtual_address IN
    IF /\ RangeInside(displacement, length, part.file_size)
       /\ AddFits(part.file_offset, displacement)
    THEN {[file_offset |-> part.file_offset + displacement,
           available |-> part.file_size - displacement, section |-> section]}
    ELSE {}

\* virtual_to_file.  A section that has the address in memory decides.
VirtualToFile(image, address, length) ==
    LET inSection == FirstHolding(image.sections, "virtual_address", address,
                                  length, "memory_size")
        inSegment == FirstHolding(image.segments, "virtual_address", address,
                                  length, "file_size")
    IN  IF inSection # {}
        THEN UNION {FileAddress(image.sections[n], address, length,
                                image.sections[n].index) : n \in inSection}
        ELSE UNION {FileAddress(image.segments[n], address, length, -1) :
                       n \in inSegment}

\* file_to_virtual.
FileToVirtual(image, offset, length) ==
    LET address(part) ==
            LET displacement == offset - part.file_offset IN
            IF AddFits(part.virtual_address, displacement)
            THEN {part.virtual_address + displacement} ELSE {}
        inSection == FirstHolding(image.sections, "file_offset", offset, length,
                                  "file_size")
        inSegment == FirstHolding(image.segments, "file_offset", offset, length,
                                  "file_size")
    IN  IF inSection # {}
        THEN UNION {address(image.sections[n]) : n \in inSection}
        ELSE UNION {address(image.segments[n]) : n \in inSegment}

\* rva_to_file: the address above the image base, then the bare one.
RvaToFile(image, rva, length) ==
    LET base == image.header.image_base
        above == IF base # 0 /\ AddFits(base, rva)
                 THEN VirtualToFile(image, base + rva, length) ELSE {}
        inSection == FirstHolding(image.sections, "virtual_address", rva,
                                  length, "file_size")
    IN  IF base # 0 /\ ~AddFits(base, rva) THEN {}
        ELSE IF above # {} THEN above
        ELSE UNION {FileAddress(image.sections[n], rva, length,
                                image.sections[n].index) : n \in inSection}
=================================================================================
