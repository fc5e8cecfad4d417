------------------------------ MODULE CacheLine ------------------------------
(***************************************************************************)
(* How many elements a cache line holds (src/src/common/memory/            *)
(* cache_line.hpp): calculate_buffer_fit, which is computed before the     *)
(* type of the line exists, against the layout the compiler gives it.      *)
(***************************************************************************)
EXTENDS Integers

cache_line_size == 64

(* Where calculate_buffer_fit expects the first element: after the whole   *)
(* alignment units of the header and one more                              *)
FirstElement(align, header) == align + align * (header \div align)

calculate_buffer_fit(size, align, header) ==
    (cache_line_size - FirstElement(align, header)) \div size

(* Where it is: CacheLineSlot aligns its counter as an element, and the    *)
(* elements follow at the next multiple of their alignment                 *)
DataOffset(align, header) == align * ((header + align - 1) \div align)

(* The elements CacheLineSlot accepts: sizeof is below the line, and a     *)
(* multiple of alignof.  A header, a byte or LengthHeader, has fewer than  *)
(* 32 bytes.                                                               *)
IsElement(size, align) ==
    size \in 1 .. cache_line_size - 1 /\ align \in 1 .. size /\ size % align = 0
IsHeader(header) == header \in 1 .. 31

=============================================================================
