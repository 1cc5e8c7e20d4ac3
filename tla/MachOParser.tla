------------------------------ MODULE MachOParser ------------------------------
(***************************************************************************)
(* MachOParser::parse (src/src/macho_parser.cc).                           *)
(*                                                                         *)
(* A file is what the parser finds in it, as in ElfParser: the load        *)
(* commands with their sections and their relocation tables.  A command is *)
(* a segment when its width is 32 or 64, whatever the class of the file.   *)
(***************************************************************************)
EXTENDS RelocationTables

LOCAL INSTANCE TLC
LOCAL INSTANCE SequencesExt

CONSTANT DebugNames     \* the names that begin with __debug

\* macho_arch, macho_kind; protections are given as sets.
MachOArchitectures ==
    7 :> "x86" @@ 16777223 :> "x86_64" @@ 12 :> "arm" @@ 16777228 :> "arm64"
MachOFileKinds ==
    1 :> "relocatable" @@ 2 :> "executable" @@ 4 :> "core"
    @@ 6 :> "shared_library" @@ 8 :> "shared_library"

HeaderEnd(file) == IF file.wide THEN 32 ELSE 28
Sized(command, wide, narrow) == IF command.width = 64 THEN wide ELSE narrow

MachOHeaderError(file) ==
    IF file.size < HeaderEnd(file) THEN "truncated"
    ELSE IF \/ Len(file.commands) > MaxSections
            \/ ~RangeInside(HeaderEnd(file), file.command_bytes, file.size)
         THEN "invalid_count"
    ELSE "none"

-----------------------------------------------------------------------------
\* A section record: n is its number in the command.  Nothing compares its end
\* with the end of the command.
MachOSectionError(file, state, command, n) ==
    LET raw == command.sections[n]
        end == state.cursor + Sized(command, 72, 56) + n * Sized(command, 80, 68)
    IN
    IF end > file.size THEN "silent"
    ELSE IF ~raw.zero_fill /\ ~RangeInside(raw.offset, raw.size, file.size)
         THEN "invalid_section"
    ELSE IF \/ ~RangeInside(raw.reloff, 8 * raw.nreloc, file.size)
            \/ raw.nreloc > Room(state.relocations)
         THEN "invalid_relocation"
    ELSE "none"

MachOSection(state, command, raw) ==
    [index |-> Len(state.sections), name |-> raw.name,
     file_offset |-> raw.offset,
     file_size |-> IF raw.zero_fill THEN 0 ELSE raw.size,
     virtual_address |-> raw.address, memory_size |-> raw.size,
     alignment |-> IF raw.align < 63 THEN 2^raw.align ELSE 1,
     permissions |-> command.protection,
     kind |-> IF raw.name \in DebugNames THEN "debug"
              ELSE IF raw.zero_fill THEN "no_bits" ELSE "program_bits"]

\* One turn of the loop over sections: the relocations, then the section.
AddSection(file, command, state, n) ==
    LET raw == command.sections[n]
        error == MachOSectionError(file, state, command, n)
        decoding ==
            IF error # "none" THEN Decoding(error, state.relocations)
            ELSE IF raw.nreloc = 0 THEN DecodingFrom(state.relocations)
            ELSE DecodeMachO([size |-> 8 * raw.nreloc, entries |-> raw.entries],
                             [target_section |-> Len(state.sections),
                              base_address |-> raw.address],
                             state.relocations)
    IN
    IF state.error # "none" THEN state
    ELSE IF decoding.error # "none" THEN [state EXCEPT !.error = decoding.error]
    ELSE [state EXCEPT
            !.relocations = decoding.output,
            !.sections = Append(@, MachOSection(state, command, raw))]

-----------------------------------------------------------------------------
CommandError(file, state, command) ==
    LET left == file.size - state.cursor IN
    IF left < 8 \/ command.size \notin 8..left THEN "invalid_segment"
    ELSE IF command.width = 0 THEN "none"
    ELSE IF left < Sized(command, 56, 40) THEN "silent"
    ELSE IF left < Sized(command, 72, 56) THEN "truncated"
    ELSE IF \/ Len(command.sections) > MaxSections - Len(state.sections)
            \/ command.filesize > command.vmsize
            \/ ~RangeInside(command.fileoff, command.filesize, file.size)
         THEN "invalid_segment"
    ELSE "none"

\* One turn of the loop over commands; the segment lists its sections.
AddCommand(file, state, command) ==
    LET error == CommandError(file, state, command)
        add(last, n) == AddSection(file, command, last, n)
        after == FoldLeft(add, state,
                          [n \in 1..Len(command.sections) |-> n])
    IN
    IF state.error # "none" THEN state
    ELSE IF error # "none" THEN [state EXCEPT !.error = error]
    ELSE IF command.width = 0
         THEN [state EXCEPT !.cursor = @ + command.size]
    ELSE [after EXCEPT
            !.cursor = @ + command.size,
            !.segments = Append(@,
                [index |-> Len(@), file_offset |-> command.fileoff,
                 file_size |-> command.filesize,
                 virtual_address |-> command.vmaddr,
                 memory_size |-> command.vmsize,
                 permissions |-> command.protection,
                 sections |-> [n \in 1..Len(command.sections) |->
                                 Len(state.sections) + n - 1]])]

MachOCommands(file) ==
    LET add(state, command) == AddCommand(file, state, command)
    IN  FoldLeft(add, [error |-> "none", cursor |-> HeaderEnd(file),
                       sections |-> <<>>, segments |-> <<>>,
                       relocations |-> <<>>], file.commands)

MachOError(file) ==
    IF MachOHeaderError(file) # "none" THEN MachOHeaderError(file)
    ELSE MachOCommands(file).error

\* No symbol is ever read, and no entry point.
MachOImage(file) ==
    LET last == MachOCommands(file) IN
    [file |-> [size |-> file.size],
     header |->
        [format |-> "macho_like", image_base |-> 0, entry_point |-> 0,
         kind |-> Lookup(MachOFileKinds, file.type, "unknown"),
         architecture |-> Lookup(MachOArchitectures, file.cpu, "unknown")],
     sections |-> last.sections, segments |-> last.segments,
     symbols |-> <<>>, relocations |-> last.relocations]
================================================================================
