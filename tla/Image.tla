--------------------------------- MODULE Image ---------------------------------
(***************************************************************************)
(* The normalized BinaryImage every parser produces and every consumer     *)
(* reads (include/binforge/binforge.h), and BinaryValidator                *)
(* (src/src/validator.cc), which rechecks it.                              *)
(*                                                                         *)
(* An image is a record of the header fields the consumers use and of      *)
(* sequences of section, segment, symbol, relocation and import records;   *)
(* file is the retained file: its size and a function on 0..size-1, or     *)
(* NoFile.                                                                 *)
(***************************************************************************)
EXTENDS Word, Sequences, FiniteSets

CONSTANTS
    MaxFileSize, MaxSections, MaxSegments, MaxSymbols, MaxRelocations  \* limits_

NoFile == [size |-> -1]

\* BinaryImage::symbol(index); the table is a C++ vector.
HasSymbol(image, index) == index < Len(image.symbols)
SymbolAt(image, index) == image.symbols[index + 1]

-----------------------------------------------------------------------------
(* BinaryValidator::validate: the codes of the errors in the report.  The  *)
(* report lists one error per check that fails; the image is valid when    *)
(* there is none.                                                          *)

Reported(check_fails, error) == IF check_fails THEN {error} ELSE {}

CountErrors(image) ==
    Reported(\/ image.file.size > MaxFileSize
             \/ Len(image.sections) > MaxSections
             \/ Len(image.segments) > MaxSegments
             \/ Len(image.symbols) > MaxSymbols
             \/ Len(image.relocations) > MaxRelocations,
             "resource_limit")

IndexErrors(table, error) ==
    Reported(\E n \in 1..Len(table) : table[n].index # n - 1, error)

\* A section with bits lies inside the file; alignments are powers of two.
SectionErrors(image) ==
    LET some(Fails(_)) ==
            \E n \in 1..Len(image.sections) : Fails(image.sections[n])
        outside(s) ==
            /\ s.kind # "no_bits"
            /\ ~RangeInside(s.file_offset, s.file_size, image.file.size)
        misaligned(s) == ~IsPowerOfTwo(s.alignment)
    IN  IndexErrors(image.sections, "invalid_section")
        \cup Reported(some(outside), "file_range_overflow")
        \cup Reported(some(misaligned), "invalid_alignment")

\* A segment lies inside the file and inside the address space.
SegmentErrors(image) ==
    LET some(Fails(_)) ==
            \E n \in 1..Len(image.segments) : Fails(image.segments[n])
        outside(s) ==
            \/ s.file_size > s.memory_size
            \/ ~RangeInside(s.file_offset, s.file_size, image.file.size)
        overflowing(s) == ~AddFits(s.virtual_address, s.memory_size)
    IN  Reported(some(outside), "invalid_segment")
        \cup Reported(some(overflowing), "address_overflow")

RelocationErrors(image) ==
    Reported(\E n \in 1..Len(image.relocations) :
                LET index == image.relocations[n].symbol_index
                IN  index # 0 /\ ~HasSymbol(image, index),
             "invalid_symbol")

ValidationErrors(image) ==
    IF image.file = NoFile THEN {"invalid_header"}
    ELSE CountErrors(image) \cup SectionErrors(image)
         \cup SegmentErrors(image)
         \cup IndexErrors(image.symbols, "invalid_symbol")
         \cup RelocationErrors(image)

Valid(image) == ValidationErrors(image) = {}
===============================================================================
