----------------------------- MODULE MCPatchEngine -----------------------------
(* PatchEngine on two adjacent regions and an unreadable one, for TLC. *)
EXTENDS PatchEngine, TLC

Zero(n) == [i \in 0..(n - 1) |-> 0]

\* Addresses 0 and 1 writable, 2 and 3 read-only, 5 writable but unreadable.
MCMemories ==
    {(0 :> [size |-> 2, perms |-> {"r", "w"}, bytes |-> (0 :> 0 @@ 1 :> c)]) @@
     (2 :> [size |-> 2, perms |-> {"r"},      bytes |-> (0 :> 0 @@ 1 :> 1)]) @@
     (5 :> [size |-> 1, perms |-> {"w"},      bytes |-> Zero(1)])
     : c \in Byte}

\* Order-sensitive enough to tell the memories of a plan apart.
MCMemoryChecksum(rs) == 1 + rs[0].bytes[0] + 2 * rs[0].bytes[1]

Operation(kind, address, length) ==
    [kind |-> kind, address |-> address, source_address |-> 0,
     length |-> length, integer |-> 1, width |-> 2, fill |-> 1,
     byte_order |-> "big", bytes |-> <<>>]

\* Operations that pass validation: two overlapping writes of the same bytes,
\* copies between the regions and within one, an integer in the read-only
\* region; an assertion, and two operations that a missing read permission
\* stops.
Operations ==
    <<[Operation("write_bytes", 0, 0) EXCEPT !.bytes = (0 :> 1 @@ 1 :> 0)],
      Operation("fill_bytes", 1, 1),
      [Operation("copy_bytes", 0, 2) EXCEPT !.source_address = 2],
      [Operation("copy_bytes", 1, 1) EXCEPT !.source_address = 0],
      [Operation("write_integer", 2, 0) EXCEPT !.byte_order = "little"],
      [Operation("assert_bytes", 1, 1) EXCEPT !.bytes = (0 :> 1)],
      Operation("fill_bytes", 5, 1),
      [Operation("copy_bytes", 0, 1) EXCEPT !.source_address = 5],
\* Operations that do not: a length that is not the number of bytes, no
\* length, an unknown width, a range across two regions, a range and a source
\* beyond the last address, a source that is not mapped.
      [Operation("write_bytes", 0, 1) EXCEPT !.bytes = Zero(2)],
      Operation("fill_bytes", 0, 0),
      [Operation("write_integer", 0, 0) EXCEPT !.width = 3],
      Operation("fill_bytes", 1, 2),
      Operation("fill_bytes", 7, 1),
      [Operation("copy_bytes", 0, 1) EXCEPT !.source_address = 7],
      [Operation("copy_bytes", 0, 1) EXCEPT !.source_address = 4]>>

Always  == 1..5
MayFail == 6..8
Valid   == Always \cup MayFail
Invalid == 9..15

\* A plan is called by the numbers of its operations, its declared byte count
\* and its expected checksum: up to two valid operations, and one that may fail
\* after two that do not; one more than MaxOperations; an invalid one first or
\* second; a declared count and a precondition that may not hold.
Keys ==
    {<<s, 0, 0>> : s \in UNION {[1..n -> Valid] : n \in 0..2}}
    \cup {<< <<a, b, c>>, 0, 0>> : a, b \in Always, c \in MayFail}
    \cup {<< <<a, a, a, a>>, 0, 0>> : a \in {2, 6}}
    \cup {<< <<b>>, 0, 0>> : b \in Invalid}
    \cup {<< <<a, b>>, 0, 0>> : a \in Valid, b \in Invalid}
    \cup {<< <<a, b>>, 2, c>> : a, b \in Valid, c \in {1, 3}}

MCPlans ==
    [key \in Keys |->
        [operations |-> [n \in 1..Len(key[1]) |-> Operations[key[1][n]]],
         bytes_written |-> key[2], expected_checksum |-> key[3]]]
===============================================================================
