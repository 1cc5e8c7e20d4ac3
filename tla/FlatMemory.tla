------------------------------ MODULE FlatMemory ------------------------------
(***************************************************************************)
(* What AddressSpace promises, without its data structure: an array with   *)
(* one cell per address.  A cell is empty, or holds the base of the        *)
(* mapping it belongs to, that mapping's permissions and one byte.  There  *)
(* is no ordered map, no search and no byte counter here: an operation     *)
(* looks at every cell it concerns.                                        *)
(***************************************************************************)
EXTENDS Word, FiniteSets

CONSTANTS Limit, Perms, Sizes, Values

VARIABLES
    cells,      \* a set of at most one record for every address
    last        \* what the last call returned

vars == <<cells, last>>

Free == {}
Cell(owner, perms, byte) == [owner |-> owner, perms |-> perms, byte |-> byte]

Span(address, size) == address..(address + size - 1)
InUse(address) == cells[address] # Free
OwnedBy(base) == {a \in Word : \E c \in cells[a] : c.owner = base}
TheCell(address) == CHOOSE c \in cells[address] : TRUE

\* One mapping holds the whole span, with a permission in every cell.
OneMapping(address, size) ==
    /\ InUse(address)
    /\ Span(address, size) \subseteq OwnedBy(TheCell(address).owner)
Allowed(address, size, permission) ==
    \A a \in Span(address, size) : permission \in TheCell(a).perms

Outcome(call, error, bytes, integer) ==
    [call |-> call, error |-> error, bytes |-> bytes, integer |-> integer]

Returns(call, error) == last' = Outcome(call, error, [i \in {} |-> 0], 0)

Fails(call, error) == Returns(call, error) /\ UNCHANGED cells

Init ==
    /\ cells = [a \in Word |-> Free]
    /\ last = Outcome(<<"construct">>, "none", [i \in {} |-> 0], 0)

\* A mapping succeeds when it is not empty, ends within the address space,
\* keeps the number of used cells within the limit and finds all its cells
\* free.  The last address can never be mapped.
Map(base, size, perms) ==
    LET span == Span(base, size)
        used == Cardinality({a \in Word : InUse(a)})
        inside == base + size <= MaxWord
        call == <<"map", base, size, perms>>
    IN
    \/ Fails(call, "invalid_segment") /\ size = 0
    \/ Fails(call, "address_overflow") /\ size > 0 /\ ~inside
    \/ /\ Fails(call, "resource_limit")
       /\ size > 0 /\ inside /\ used + size > Limit
    \/ /\ Fails(call, "mapping_overlap")
       /\ size > 0 /\ inside /\ used + size <= Limit
       /\ \E a \in span : InUse(a)
    \/ /\ Returns(call, "none")
       /\ size > 0 /\ inside /\ used + size <= Limit
       /\ \A a \in span : ~InUse(a)
       /\ cells' = [a \in Word |->
                      IF a \in span THEN {Cell(base, perms, 0)} ELSE cells[a]]

Unmap(base) ==
    \/ Fails(<<"unmap", base>>, "mapping_missing") /\ OwnedBy(base) = {}
    \/ /\ Returns(<<"unmap", base>>, "none")
       /\ OwnedBy(base) # {}
       /\ cells' = [a \in Word |->
                      IF a \in OwnedBy(base) THEN Free ELSE cells[a]]

Protect(base, size, perms) ==
    LET whole == size > 0 /\ OwnedBy(base) = Span(base, size)
        call == <<"protect", base, size, perms>>
    IN
    \/ Fails(call, "mapping_missing") /\ ~whole
    \/ /\ Returns(call, "none")
       /\ whole
       /\ cells' = [a \in Word |->
                      IF a \in Span(base, size)
                      THEN {Cell(base, perms, TheCell(a).byte)} ELSE cells[a]]

\* The bytes and the integer a read returns.
Bytes(address, size) ==
    [i \in 0..(size - 1) |-> TheCell(address + i).byte]
Integer(address, width, order) ==
    LET byte == Bytes(address, width)
        weight(i) == Radix^(IF order = "little" THEN i ELSE width - 1 - i)
        sum[n \in 0..width] ==
            IF n = 0 THEN 0 ELSE sum[n - 1] + byte[n - 1] * weight(n - 1)
    IN  sum[width]

\* A read that succeeds has the outcome that is given.
Reads(call, address, size, outcome) ==
    LET readable == OneMapping(address, size) /\ Allowed(address, size, "r") IN
    \/ /\ Fails(call, "mapping_missing")
       /\ size > 0 /\ ~OneMapping(address, size)
    \/ /\ Fails(call, "permission_denied")
       /\ size > 0 /\ OneMapping(address, size)
       /\ ~Allowed(address, size, "r")
    \/ /\ last'.call = call /\ last'.error = "none"
       /\ size = 0 \/ readable
       /\ last' = outcome
       /\ UNCHANGED cells

Read(address, size) ==
    LET call == <<"read", address, size>> IN
    Reads(call, address, size,
          Outcome(call, "none", Bytes(address, size), 0))

WriteBytes(call, address, data, size, ignore_permissions) ==
    \/ Fails(call, "none") /\ size = 0
    \/ /\ Fails(call, "mapping_missing")
       /\ size > 0 /\ ~OneMapping(address, size)
    \/ /\ Fails(call, "permission_denied")
       /\ size > 0 /\ OneMapping(address, size)
       /\ ~ignore_permissions /\ ~Allowed(address, size, "w")
    \/ /\ Returns(call, "none")
       /\ size > 0 /\ OneMapping(address, size)
       /\ ignore_permissions \/ Allowed(address, size, "w")
       /\ cells' = [a \in Word |->
                      IF a \in Span(address, size)
                      THEN {[c EXCEPT !.byte = data[a - address]]
                              : c \in cells[a]}
                      ELSE cells[a]]

Write(address, data, size, ignore_permissions) ==
    WriteBytes(<<"write", address, data, size, ignore_permissions>>,
               address, data, size, ignore_permissions)

ReadInteger(address, width, order) ==
    LET call == <<"read_integer", address, width, order>> IN
    \/ width \notin {1, 2, 4, 8} /\ Fails(call, "invalid_relocation")
    \/ /\ width \in {1, 2, 4, 8}
       /\ Reads(call, address, width,
                Outcome(call, "none", [i \in {} |-> 0],
                        Integer(address, width, order)))

\* After a successful write of an integer the cells read back as its value,
\* reduced to the width; nothing else changes.
WriteInteger(address, width, order, value, ignore_permissions) ==
    LET weight(i) == Radix^(IF order = "little" THEN i ELSE width - 1 - i)
        data == [i \in 0..(width - 1) |-> (value \div weight(i)) % Radix]
        call == <<"write_integer", address, width, order, value,
                  ignore_permissions>>
    IN
    \/ width \notin {1, 2, 4, 8} /\ Fails(call, "invalid_relocation")
    \/ /\ width \in {1, 2, 4, 8}
       /\ WriteBytes(call, address, data, width, ignore_permissions)

Clear == cells' = [a \in Word |-> Free] /\ Returns(<<"clear">>, "none")

\* The member function that was called.
Called(name) == last'.call[1] = name

Next ==
    \/ /\ Called("map")
       /\ \E base \in Word, size \in Sizes, perms \in Perms :
             Map(base, size, perms)
    \/ /\ Called("unmap")
       /\ \E base \in Word : Unmap(base)
    \/ /\ Called("protect")
       /\ \E base \in Word, size \in Sizes, perms \in Perms :
             Protect(base, size, perms)
    \/ /\ Called("read")
       /\ \E address \in Word, size \in Sizes : Read(address, size)
    \/ /\ Called("write")
       /\ \E address \in Word, size \in Sizes, ignore \in BOOLEAN :
          \E data \in [0..(size - 1) -> Byte] :
             Write(address, data, size, ignore)
    \/ /\ Called("read_integer")
       /\ \E address \in Word, width \in Sizes, order \in {"little", "big"} :
             ReadInteger(address, width, order)
    \/ /\ Called("write_integer")
       /\ \E address \in Word, width \in Sizes, value \in Values,
             order \in {"little", "big"}, ignore \in BOOLEAN :
                WriteInteger(address, width, order, value, ignore)
    \/ Called("clear") /\ Clear

Spec == Init /\ [][Next]_vars
===============================================================================
