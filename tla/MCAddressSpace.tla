---------------------------- MODULE MCAddressSpace ----------------------------
(* AddressSpace on a handful of addresses, for TLC. *)
EXTENDS AddressSpace

\* A mapping that may only be read and one that may only be written.
MCPerms == {{"r"}, {"w"}}

\* The two orders of the digits 0 and 1.
MCValues == {1, 2}

\* The view of a state: no action reads last, it only adds to what a step is
\* compared with.
MemoryView == <<regions, mapped_bytes>>
===============================================================================
