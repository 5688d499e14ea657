------------------------- MODULE MCFrameAllocator -------------------------
(* FrameAllocator on a machine of a few frames of two units each.          *)
EXTENDS FrameAllocator

Entry(bs, sz, ty) == [base |-> bs, size |-> sz, type |-> ty]

\* Low memory and one block above it, as a PC reports them.
Plain ==
  [map |-> {Entry(0, 3, 1), Entry(3, 1, 2), Entry(4, 16, 1)}, total_ram |-> 19,
   ktext |-> 4, kernel_total |-> 1, blob_phys |-> 8, blob_size |-> 2,
   scratch |-> 18]

\* Unaligned entries, a hole that splits the free frames, a scratch area that
\* does not fit, an entry beyond the bitmap.
Holes ==
  [map |-> {Entry(0, 4, 1), Entry(5, 6, 1), Entry(14, 7, 1), Entry(60, 8, 1)},
   total_ram |-> 0, ktext |-> 4, kernel_total |-> 0, blob_phys |-> 2,
   blob_size |-> 1, scratch |-> 40]

\* No map at all: the reported size is used and nothing is free.
Empty == [Plain EXCEPT !.map = {}, !.total_ram = 12]

MCBoots == {Plain, Holes, Empty}
===========================================================================
