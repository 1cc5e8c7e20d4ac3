--------------------------------- MODULE Word ---------------------------------
(***************************************************************************)
(* The machine integers of binforge and the checked arithmetic of          *)
(* src/src/base.cc.                                                        *)
(*                                                                         *)
(* The word and the byte are scaled by two constants.  In the program      *)
(* Radix is 256 and MaxWord is 2^64 - 1; a model gives them small values   *)
(* so that every boundary (the largest address, the largest byte) lies     *)
(* within TLC's reach.  Nothing below depends on the values.               *)
(***************************************************************************)
EXTENDS Integers

CONSTANTS
    Radix,      \* number of values of a byte
    MaxWord     \* std::numeric_limits<uint64_t>::max()

ASSUME WordAssumption == /\ Radix \in Nat
                         /\ Radix > 1
                         /\ MaxWord \in Nat

\* The weights of the digits of a word.  A fact of arithmetic, stated because
\* the provers do not interpret exponentiation.
ASSUME PowerAssumption == /\ Radix^0 = 1
                          /\ \A k \in 0..8 : Radix^k \in Nat /\ Radix^k > 0
                          /\ \A k \in 0..7 : Radix^(k + 1) = Radix^k * Radix

Word == 0..MaxWord
Byte == 0..(Radix - 1)

\* Unsigned arithmetic that is not checked wraps around.
Wrap(n) == n % (MaxWord + 1)

\* checked_add(left, right, result) returns true; the result is left + right.
AddFits(left, right) == right <= MaxWord - left

\* checked_multiply(left, right, result) returns true.
MultiplyFits(left, right) == left = 0 \/ right <= MaxWord \div left

\* range_inside: the subtraction is only reached when it cannot wrap.
RangeInside(offset, length, container_size) ==
    /\ offset <= container_size
    /\ length <= container_size - offset

\* n && (n & (n - 1)) == 0: every divisor but 1 is even.
IsPowerOfTwo(n) ==
    /\ n > 0
    /\ \A d \in 2..n : n % d = 0 => d % 2 = 0

\* checked_align_up returns true, and the value it then returns.
AlignFits(value, alignment) ==
    /\ IsPowerOfTwo(alignment)
    /\ AddFits(value, alignment - 1)

AlignDown(value, alignment) == value - (value % alignment)

AlignUp(value, alignment) == AlignDown(value + (alignment - 1), alignment)

===============================================================================
