------------------------------- MODULE Container -------------------------------
(***************************************************************************)
(* The files that PatchEngine, MemorySnapshotCodec and ImageManifestCodec  *)
(* write and read back have one shape: four bytes of magic, a version,     *)
(* fields and counted entries, and a checksum of all that in the last four *)
(* bytes.                                                                  *)
(*                                                                         *)
(* A file is the record of what a reader finds in it: magic (whether it is *)
(* the right one), sealed (whether the checksum is that of the bytes), the *)
(* decoded fields, and size, the bytes there really are.  The reader gets  *)
(* the bytes between the magic and the checksum: what lies beyond size - 4 *)
(* cannot be read.  A text is its length.                                  *)
(***************************************************************************)
EXTENDS Naturals, Sequences

LOCAL INSTANCE TLC

SealBytes == 4

\* ByteReader: the end of what can be read, as an offset in the file.
ReadableEnd(file) == file.size - SealBytes

Total(sizes) ==
    LET sum[n \in 0..Len(sizes)] ==
            IF n = 0 THEN 0 ELSE sum[n - 1] + sizes[n]
    IN  sum[Len(sizes)]

\* A file in which some fields, or the size, are other than they were written.
Damaged(file, damage) == damage @@ file

\* The first of 1..n that has a property, or n + 1.
FirstOf(n, Has(_)) ==
    CHOOSE i \in 1..(n + 1) :
        /\ i = n + 1 \/ Has(i)
        /\ \A j \in 1..(i - 1) : ~Has(j)
================================================================================
