------------------------------ MODULE MemMapMC ------------------------------
(* Instances of MemMap for TLC: sorted lists of disjoint blocks. *)
EXTENDS MemMap

Blocks(bases, lengths) == [base : bases, length : lengths, type : 1..2]

Sorted(list) == \A n \in 1..(Len(list) - 1) :
                  list[n].base + list[n].length <= list[n + 1].base

Lists(bases, lengths, sizes) ==
  {list \in UNION {[1..n -> Blocks(bases, lengths)] : n \in sizes} : Sorted(list)}

\* Up to four blocks for a free_memory of three: empty ones, one that ends at the word's
\* width or lies above it, and usable ones that fill free_memory or run over it.
TwoOrMore == Lists({0, 6, 12, 18}, {0, 6, 16}, 2..4)

\* Two blocks as a machine has them.
Ordinary == Lists({0, 6}, {6}, {2})
=============================================================================
