-------------------------------- MODULE Parsers --------------------------------
(***************************************************************************)
(* BinaryParser (src/src/parser.cc): the signature decides which parser a  *)
(* file goes to.  The image of an accepted file is a function of the file, *)
(* so the state is the file and the error of the call.                     *)
(***************************************************************************)
EXTENDS Image, Container

CONSTANTS
    Files,          \* the files there may be: a function to files
    MaxString, DebugNames

VARIABLES
    parse_file,     \* the file that was parsed last, a key of Files
    parse_error     \* "start", or the error of the last call

parse_vars == <<parse_file, parse_error>>

Elf == INSTANCE ElfParser
Pe == INSTANCE PeParser
MachO == INSTANCE MachOParser

\* detect: four bytes are enough to tell.
Detect(file) == IF file.size < 4 THEN "unknown" ELSE file.format

\* Each parser gives an error, "silent" for a failure that sets none.
ParseError(file) ==
    IF file.size < 4 THEN "truncated"
    ELSE IF file.size > MaxFileSize THEN "resource_limit"
    ELSE CASE Detect(file) = "elf_like" -> Elf!ElfError(file)
           [] Detect(file) = "pe_like" -> Pe!PeError(file)
           [] Detect(file) = "macho_like" -> MachO!MachOError(file)
           [] OTHER -> "bad_magic"

\* The image of a file that is accepted.
Parsed(file) ==
    CASE file.format = "elf_like" -> Elf!ElfImage(file)
      [] file.format = "pe_like" -> Pe!PeParsed(file)
      [] file.format = "macho_like" -> MachO!MachOImage(file)

ParseInit ==
    /\ parse_file = CHOOSE key \in DOMAIN Files : TRUE
    /\ parse_error = "start"

\* One call: a parser keeps nothing from one call to the next.
Parse(key) ==
    /\ parse_error = "start"
    /\ parse_file' = key
    /\ parse_error' = ParseError(Files[key])

ParseNext == \E key \in DOMAIN Files : Parse(key)

-----------------------------------------------------------------------------
Accepted == parse_error = "none"

\* What the validator may still say of the image a parser accepts.
LeftToTheValidator(format) ==
    CASE format = "elf_like" -> {"invalid_alignment", "invalid_symbol",
                                 "resource_limit", "address_overflow"}
      [] format = "pe_like" -> {"invalid_alignment", "file_range_overflow",
                                "invalid_segment", "resource_limit"}
      [] format = "macho_like" -> {"file_range_overflow", "address_overflow",
                                   "invalid_symbol", "resource_limit"}

\* A parser leaves the validator only the checks it does not make itself, for
\* its own reasons: symbols and segments are counted table by table, alignments
\* and the ends of segments in memory are not looked at, and sections without
\* bytes may begin anywhere.  Relocations are numbered across tables and stay
\* within the limit, and the sections that segments list exist.
ParsersLeaveKnownChecks ==
    Accepted =>
        LET file == Files[parse_file]
            image == Parsed(file)
        IN  /\ ValidationErrors(image) \subseteq LeftToTheValidator(file.format)
            /\ IndexErrors(image.relocations, "index") = {}
            /\ Len(image.relocations) <= MaxRelocations
            /\ \A n \in 1..Len(image.segments) :
                  LET listed == image.segments[n].sections IN
                  \A i \in 1..Len(listed) : listed[i] < Len(image.sections)

\* The relocations that the ELF tables before section s have, and s itself.
RelocationCount(file, s) ==
    LET raw == file.sections[s]
        minimum == Elf!MinimumEntry([explicit_addends |-> raw.type = 4,
                                     wide |-> file.class = 2])
    IN  IF raw.type \notin {4, 9} THEN 0
        ELSE raw.size \div IF raw.entry_size = 0 THEN minimum ELSE raw.entry_size
RelocationsBefore(file, s) ==
    Total([n \in 1..(s - 1) |-> RelocationCount(file, n)])

\* Relocations name the symbols of all tables as one list: the symbol numbers
\* from that of the symbols in earlier tables on mean a table's own symbols,
\* whatever table the relocations are linked to, and wherever in the file the
\* tables are.  So the relocations of a table linked to the first symbol table
\* name its symbols, and those of one linked to a later table name others.
RelocationsNameTheirSymbols ==
    Accepted /\ Files[parse_file].format = "elf_like" =>
        LET file == Files[parse_file]
            image == Parsed(file)
            numbers == 1..Len(file.sections)
            count(n) == IF Elf!IsSymbolTable(file, file.sections[n])
                        THEN file.sections[n].size \div file.sections[n].entry_size ELSE 0
            before(n) == Total([m \in 1..(n - 1) |-> count(m)])
        IN  \A n \in numbers, s \in numbers : \A k \in 1..RelocationCount(file, s) :
              LET number == file.sections[s].entries[k].symbol - before(n)
                  relocation == image.relocations[RelocationsBefore(file, s) + k]
                  symbol == SymbolAt(image, relocation.symbol_index)
              IN  number \in 0..(count(n) - 1) =>
                    /\ symbol.value = file.sections[n].entries[number + 1].value
                    /\ relocation.target_section = file.sections[s].info

\* The fuzz target of the parser stops on an accepted image that the validator
\* refuses: every accepted image is valid (BinaryParser::parse).
ParsedImagesAreValid == Accepted => Valid(Parsed(Files[parse_file]))

\* docs/architecture.md of the repository says that PE parsing validates
\* permissions: a section has those its characteristics give it
\* (PeParser::parse).
PePermissionsAreRead ==
    Accepted /\ Files[parse_file].format = "pe_like" =>
        \A n \in 1..Len(Files[parse_file].sections) :
            Parsed(Files[parse_file]).sections[n].permissions
                = Files[parse_file].sections[n].characteristics
                     \cap {"r", "w", "x"}
================================================================================
