---------------------------- MODULE KAllocation ----------------------------
(***************************************************************************)
(* The memory of kallocation.c, and the size that arrays ask it for.       *)
(* Numbers are Width bits wide, as the 32 bits of uint32_t.                *)
(***************************************************************************)
EXTENDS Integers

CONSTANT Width

Wrap(x) == x % 2^Width

(* The operator | of C, bit by bit.                                        *)
Bit(x, n) == (x \div 2^n) % 2
BitOr(x, y) ==
  CHOOSE z \in 0 .. 2^Width - 1 :
    \A n \in 0 .. Width - 1 : Bit(z, n) = 1 <=> Bit(x, n) = 1 \/ Bit(y, n) = 1

(* The smear of KAllocationNextPowerOfTwoSize: every bit below the highest *)
(* is set by or-ing the number with itself shifted by 1, 2, 4, 8 and 16.   *)
OrShifted(x, n) == BitOr(x, x \div 2^n)
Smear(x) ==
  OrShifted(OrShifted(OrShifted(OrShifted(OrShifted(x, 1), 2), 4), 8), 16)

KAllocationNextPowerOfTwoSize(size) ==
  LET x == Wrap(size) IN IF x = 0 THEN 1 ELSE Wrap(Smear(x - 1) + 1)

(* KAllocationTruncate of an allocation to a size, with or without memory  *)
(* to spare.  bytes is what malloc has given for the buffer.  realloc to   *)
(* nothing frees the buffer, which the allocation goes on pointing to.     *)
Truncated(allocation, size) ==
  {[ok |-> FALSE, result |-> allocation]}
    \cup IF size = 0 THEN {[ok |-> FALSE, result |-> [allocation EXCEPT !.bytes = 0]]}
         ELSE {[ok |-> TRUE, result |-> [size |-> size, bytes |-> size]]}

KAllocationNew == [size |-> 0, bytes |-> 0]

=============================================================================
