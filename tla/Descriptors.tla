---------------------------- MODULE Descriptors ----------------------------
(***************************************************************************)
(* Segment and gate descriptors: how start.c and lowlevel_init.s pack an    *)
(* address into their fields, and how the processor reads them.            *)
(***************************************************************************)
EXTENDS Integers

\* Bit k of a byte is set.
Bit(n, k) == (n \div <<1, 2, 4, 8, 16, 32, 64, 128>>[k + 1]) % 2 = 1

set_gatedesc(offset, selector, ar) ==
  [offset_low |-> offset % 65536, selector |-> selector,
   dw_count |-> (ar \div 256) % 256, access_right |-> ar % 256,
   offset_high |-> (offset \div 65536) % 65536]

\* A limit that needs more than twenty bits is kept in pages.
set_segmdesc(limit, base, ar) ==
  LET pages  == limit > 1048575
      length == IF pages THEN limit \div 4096 ELSE limit
      flags  == IF pages THEN ((ar \div 4096) % 8) + 8 ELSE (ar \div 4096) % 16
  IN [limit_low |-> length % 65536, base_low |-> base % 65536,
      base_mid |-> (base \div 65536) % 256, access_right |-> ar % 256,
      limit_high |-> ((length \div 65536) % 16) + 16 * flags,
      base_high |-> (base \div 16777216) % 256]

-----------------------------------------------------------------------------
(* The processor.                                                          *)

SegmentBase(d) == d.base_low + 65536 * d.base_mid + 16777216 * d.base_high
\* With the G bit set, the limit counts pages.
Within(d, offset) ==
  LET length == d.limit_low + 65536 * (d.limit_high % 16)
  IN IF d.limit_high >= 128 THEN offset \div 4096 <= length ELSE offset <= length

\* Present, ring 0, executable: what the selector of a gate must name.
KernelCode(d) == d.access_right \div 8 = 19

GateOffset(g) == g.offset_low + 65536 * g.offset_high
\* A present gate of the kind that disables interrupts.
InterruptGate(g) == g.access_right = 142
=============================================================================
