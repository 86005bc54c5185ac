------------------------------ MODULE FirstFree ------------------------------
(***************************************************************************)
(* What the physical memory manager promises to its callers, without any   *)
(* list: pages are free or belong to exactly one block that was handed     *)
(* out; a request is answered with the lowest run of free pages that is    *)
(* long enough, and refused only if there is none.                         *)
(***************************************************************************)
EXTENDS Integers, FiniteSets

CONSTANTS NPAGES,   \* pages 0 .. NPAGES - 1
          SIZES     \* sizes of requests

Page == 0..(NPAGES - 1)

VARIABLES held,     \* the blocks handed out, as pairs of first page and size
          refused   \* alloc_pages returned NULL the last time

(* The n pages from b on.                                                  *)
Span(b, n) == b..(b + n - 1)
HeldPages == UNION {Span(h[1], h[2]) : h \in held}
FreePages == Page \ HeldPages

Init == held = {} /\ refused = FALSE

Fits(b, n) == Span(b, n) \subseteq FreePages

Alloc(n) ==
  \E b \in Page :
    /\ Fits(b, n) /\ \A c \in Page : Fits(c, n) => b <= c
    /\ held' = held \cup {<<b, n>>}
    /\ refused' = FALSE

Refuse(n) ==
  /\ ~ \E b \in Page : Fits(b, n)
  /\ refused' = TRUE
  /\ UNCHANGED held

Free(h) ==
  /\ held' = held \ {h}
  /\ UNCHANGED refused

Next == (\E n \in SIZES : Alloc(n) \/ Refuse(n)) \/ (\E h \in held : Free(h))

Spec == Init /\ [][Next]_<<held, refused>>
=============================================================================
