---------------------------- MODULE RelocationTables ----------------------------
(***************************************************************************)
(* RelocationTableDecoder (src/src/relocation_decoder.cc): the relocation  *)
(* tables of the three formats, appended to a vector of relocations.       *)
(*                                                                         *)
(* A table is its size in bytes and what a reader finds in it, split into  *)
(* fields.  A decoder gives the error of the call and the vector, which    *)
(* keeps what was appended before an error.  Indices are C++ indices.      *)
(***************************************************************************)
EXTENDS Image

LOCAL INSTANCE TLC
LOCAL INSTANCE SequencesExt

\* A switch over the cases of a table.
Lookup(cases, key, default) ==
    IF key \in DOMAIN cases THEN cases[key] ELSE default

\* elf_kind.
ElfKinds ==
    LET riscv == 1 :> "absolute32" @@ 2 :> "absolute64" @@ 3 :> "relative64"
    IN  [x86 |-> 1 :> "absolute32" @@ 2 :> "pc_relative32" @@ 8 :> "relative32",
         x86_64 |-> 1 :> "absolute64" @@ 2 :> "pc_relative32"
                    @@ 8 :> "relative64" @@ 9 :> "got_relative",
         arm |-> 2 :> "absolute32" @@ 3 :> "pc_relative32"
                 @@ 23 :> "relative32",
         arm64 |-> 257 :> "absolute64" @@ 260 :> "pc_relative32"
                   @@ 1027 :> "relative64",
         riscv32 |-> riscv, riscv64 |-> riscv]
ElfRelocationKind(architecture, type) ==
    Lookup(Lookup(ElfKinds, architecture, <<>>), type, "none")

\* macho_kind.
MachORelocationKind(entry, width) ==
    IF entry.pc_relative THEN "pc_relative32"
    ELSE IF entry.type = 0 THEN IF width = 8 THEN "absolute64" ELSE "absolute32"
    ELSE IF entry.type = 1 /\ ~entry.external
         THEN IF width = 8 THEN "relative64" ELSE "relative32"
    ELSE Lookup(3 :> "got_relative" @@ 4 :> "plt_relative", entry.type, "none")

\* The type of a PE record decides the kind and the width.
PeKinds ==
    1 :> <<"high16", 2>> @@ 2 :> <<"low16", 2>>
    @@ 3 :> <<"relative32", 4>> @@ 10 :> <<"relative64", 8>>

\* append_relocation, with the index the decoders give a relocation, after the
\* checks of the entry, in the loop that ends at the first error.
Step(result, error, relocation) ==
    IF result.error # "none" THEN result
    ELSE IF error # "none" THEN [result EXCEPT !.error = error]
    ELSE IF Len(result.output) >= MaxRelocations
         THEN [result EXCEPT !.error = "resource_limit"]
    ELSE [result EXCEPT
            !.output = Append(@, [index |-> Len(@)] @@ relocation)]

Decoding(error, output) == [error |-> error, output |-> output]
DecodingFrom(output) == Decoding("none", output)

\* max_relocations - output.size() is unsigned.
Room(output) ==
    IF Len(output) <= MaxRelocations THEN MaxRelocations - Len(output)
    ELSE Wrap(MaxRelocations - Len(output))

\* checked_add(base, offset, target).
TargetError(base, offset) ==
    IF AddFits(base, offset) THEN "none" ELSE "address_overflow"

-----------------------------------------------------------------------------
\* decode_elf.  The fields of an entry fit the entry size: no entry of a table
\* that passes the checks is truncated, and no symbol index is too wide.
MinimumEntry(options) ==
    IF options.explicit_addends THEN IF options.wide THEN 24 ELSE 12
    ELSE IF options.wide THEN 16 ELSE 8

ElfRelocation(entry, options) ==
    LET kind == ElfRelocationKind(options.architecture, entry.type) IN
    [kind |-> kind, target_section |-> options.target_section,
     symbol_index |-> entry.symbol,
     offset |-> options.base_address + entry.offset,
     addend |-> IF options.explicit_addends THEN entry.addend ELSE 0,
     width |-> IF kind \in {"absolute64", "relative64"} THEN 8 ELSE 4]

DecodeElf(table, options, output) ==
    LET minimum == MinimumEntry(options)
        entry_size == IF options.entry_size # 0 THEN options.entry_size
                      ELSE minimum
        count == table.size \div entry_size
        decode(result, entry) ==
            Step(result, TargetError(options.base_address, entry.offset),
                 ElfRelocation(entry, options))
    IN
    IF entry_size < minimum \/ entry_size > table.size
       \/ table.size % entry_size # 0
    THEN Decoding("invalid_relocation", output)
    ELSE IF count > Room(output) THEN Decoding("resource_limit", output)
    ELSE FoldLeft(decode, DecodingFrom(output), SubSeq(table.entries, 1, count))

-----------------------------------------------------------------------------
\* decode_pe_base.  A block begins at position; records of type 0 are padding.
PeRecord(block, image_base, result, record) ==
    LET kind == Lookup(PeKinds, record.type, <<"none", 0>>)
        error == IF AddFits(image_base, block.page_rva)
                 THEN TargetError(image_base + block.page_rva, record.offset)
                 ELSE "address_overflow"
    IN  IF record.type = 0 THEN result
        ELSE Step(result, error,
                  [kind |-> kind[1], width |-> kind[2], target_section |-> 0,
                   symbol_index |-> 0, addend |-> 0,
                   offset |-> image_base + block.page_rva + record.offset])

PeBlock(table, image_base, result, block) ==
    LET left == table.size - result.position
        decode(state, record) == PeRecord(block, image_base, state, record)
    IN
    IF result.error # "none" \/ left = 0 THEN result
    ELSE IF left < 8 THEN [result EXCEPT !.error = "truncated"]
    ELSE IF block.size < 8 \/ block.size > left \/ (block.size - 8) % 2 # 0
         THEN [result EXCEPT !.error = "invalid_relocation"]
    ELSE [FoldLeft(decode, result,
                   SubSeq(block.records, 1, (block.size - 8) \div 2))
            EXCEPT !.position = @ + block.size]

DecodePeBase(table, image_base, output) ==
    LET decode(result, block) == PeBlock(table, image_base, result, block)
        last == FoldLeft(decode, [position |-> 0] @@ DecodingFrom(output),
                         table.blocks)
    IN  Decoding(last.error, last.output)

-----------------------------------------------------------------------------
\* decode_macho.  A scattered entry is one whose address is negative.
DecodeMachO(table, options, output) ==
    LET decode(result, entry) ==
            LET width == 2^entry.length IN
            Step(result,
                 IF entry.address < 0 THEN "invalid_relocation"
                 ELSE TargetError(options.base_address, entry.address),
                 [kind |-> MachORelocationKind(entry, width),
                  target_section |-> options.target_section,
                  symbol_index |-> IF entry.external THEN entry.symbol ELSE 0,
                  offset |-> options.base_address + entry.address,
                  addend |-> 0, width |-> width])
    IN
    IF table.size % 8 # 0 THEN Decoding("invalid_relocation", output)
    ELSE IF table.size \div 8 > Room(output)
         THEN Decoding("resource_limit", output)
    ELSE FoldLeft(decode, DecodingFrom(output),
                  SubSeq(table.entries, 1, table.size \div 8))
=================================================================================
