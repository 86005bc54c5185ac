------------------------------ MODULE FirstFit -------------------------------
(***************************************************************************)
(* The first-fit memory manager, kern/mm/default_pmm.c, on the circular    *)
(* doubly linked lists of libs/list.h.  A free block is known by its first *)
(* page, which carries PG_property and the size of the block in property   *)
(* and is linked into free_list.  alloc_pages and free_pages of pmm.c call *)
(* it with interrupts off, so a call is never interrupted by another; a    *)
(* step of the model is one round of a loop.  Blocks are given back as     *)
(* they were handed out.  Swapping is off (swap_init_ok = 0).              *)
(***************************************************************************)
EXTENDS Integers, FiniteSets

CONSTANTS NPAGES, SIZES,
          HEAD       \* the list head free_list

Page == 0..(NPAGES - 1)
Node == Page \cup {HEAD}

ASSUME FirstFitAssumption ==
  /\ NPAGES \in Nat \ {0}
  /\ SIZES \subseteq Nat \ {0}
  /\ HEAD \notin Page

VARIABLES
  list,          \* the fields next and prev of every page_link and of HEAD
  property, PG_property, nr_free,
  op, le,        \* the call in progress and its list pointer (HEAD without one)
  held, refused, \* what the callers have, and whether the last got NULL
  behind         \* history, read by properties only: a block was given back
                 \* behind every block of a list that was not empty

vars == <<list, property, PG_property, nr_free, op, le, held, refused, behind>>

Idle == [do |-> "idle"]
Panic == [do |-> "panic"]
Span(b, n) == b..(b + n - 1)
HeldPages == UNION {Span(h[1], h[2]) : h \in held}

-----------------------------------------------------------------------------
(* libs/list.h, on a record l of both pointer fields.                      *)

(* __list_add, the assignments in their order.                             *)
Linked(l, elm, prev, next) ==
  [next |-> [l.next EXCEPT ![prev] = elm, ![elm] = next],
   prev |-> [l.prev EXCEPT ![next] = elm, ![elm] = prev]]

list_add(l, at, elm) == Linked(l, elm, at, l.next[at])
list_add_before(l, at, elm) == Linked(l, elm, l.prev[at], at)

list_del_NextOnly(l, elm) == [l EXCEPT !.next[l.prev[elm]] = l.next[elm]]
list_del(l, elm) ==
  [l EXCEPT !.next[l.prev[elm]] = l.next[elm], !.prev[l.next[elm]] = l.prev[elm]]

-----------------------------------------------------------------------------
(* default_init and default_init_memmap on the one region of page_init.    *)
Init ==
  /\ list = list_add([next |-> [p \in Node |-> HEAD], prev |-> [p \in Node |-> HEAD]], HEAD, 0)
  /\ property = [p \in Page |-> IF p = 0 THEN NPAGES ELSE 0]
  /\ PG_property = {0}
  /\ nr_free = NPAGES
  /\ op = Idle /\ le = HEAD
  /\ held = {} /\ refused = FALSE /\ behind = FALSE

(* default_alloc_pages: the test of nr_free.                               *)
AllocCall(n) ==
  /\ op = Idle
  /\ IF n > nr_free
     THEN refused' = TRUE /\ UNCHANGED <<op, le>>
     ELSE op' = [do |-> "alloc", n |-> n] /\ le' = list.next[HEAD] /\ UNCHANGED refused
  /\ UNCHANGED <<list, property, PG_property, nr_free, held, behind>>

Fits == le # HEAD /\ property[le] >= op.n

AllocNext ==
  /\ op.do = "alloc" /\ le # HEAD /\ ~ Fits
  /\ le' = list.next[le]
  /\ UNCHANGED <<list, property, PG_property, nr_free, op, held, refused, behind>>

AllocNone ==
  /\ op.do = "alloc" /\ le = HEAD
  /\ refused' = TRUE /\ op' = Idle
  /\ UNCHANGED <<list, property, PG_property, nr_free, le, held, behind>>

(* What is left of a block of which n pages are taken goes where the block *)
(* was.                                                                    *)
Remainder_AtFront(l, page, rest) == list_add(list_del(l, page), HEAD, rest)
Remainder(l, page, rest) == list_add(list_del(l, page), l.prev[page], rest)

RestSize(page, n) == property[page] - n

FreeAfterTaking(n) == nr_free - n

AllocTake ==
  LET n == op.n  rest == le + n IN
  /\ op.do = "alloc" /\ Fits
  /\ IF property[le] > n
     THEN /\ list' = Remainder(list, le, rest)
          /\ property' = [property EXCEPT ![rest] = RestSize(le, n)]
          /\ PG_property' = (PG_property \cup {rest}) \ {le}
     ELSE /\ list' = list_del(list, le)
          /\ PG_property' = PG_property \ {le}
          /\ UNCHANGED property
  /\ nr_free' = FreeAfterTaking(n)
  /\ held' = held \cup {<<le, n>>} /\ refused' = FALSE
  /\ op' = Idle /\ le' = HEAD
  /\ UNCHANGED behind

-----------------------------------------------------------------------------
(* default_free_pages: up to the test for an empty list.  No page of the   *)
(* block may carry the mark of a free block.                               *)
FreeCall(h) ==
  LET base == h[1]  pages == Span(base, h[2]) IN
  /\ op = Idle
  /\ IF pages \cap PG_property # {}
     THEN op' = Panic /\ UNCHANGED <<list, property, PG_property, nr_free, le, held>>
     ELSE /\ held' = held \ {h}
          /\ property' = [property EXCEPT ![base] = h[2]]
          /\ PG_property' = PG_property \cup {base}
          /\ nr_free' = nr_free + h[2]
          /\ IF list.next[HEAD] = HEAD
             THEN list' = list_add(list, HEAD, base) /\ op' = [do |-> "merge", base |-> base]
             ELSE op' = [do |-> "free", base |-> base] /\ UNCHANGED list
          /\ le' = list.next[HEAD]
  /\ UNCHANGED <<refused, behind>>

(* One round of the loop that looks for the place.  It stops when it       *)
(* inserts in front of a higher block.  When it inserts at the end it goes *)
(* on, comes to the block it has just inserted, which is at the end, and   *)
(* inserts it there again, after itself.                                   *)
FreeNext ==
  LET base == op.base IN
  /\ op.do = "free"
  /\ IF le = HEAD \/ base < le
     THEN /\ list' = IF le = HEAD THEN list ELSE list_add_before(list, le, base)
          /\ op' = [op EXCEPT !.do = "merge"]
          /\ le' = HEAD
     ELSE /\ list' = IF list.next[le] = HEAD THEN list_add(list, le, base) ELSE list
          /\ le' = list'.next[le]
          /\ UNCHANGED op
  /\ behind' = (behind \/ (le # HEAD /\ ~ (base < le) /\ list.next[le] = HEAD))
  /\ UNCHANGED <<property, PG_property, nr_free, held, refused>>

(* Block p ends where block q begins.                                      *)
Adjacent_Never(prop, p, q) == FALSE
Adjacent(prop, p, q) == HEAD \notin {p, q} /\ p + prop[p] = q

(* The free list with block q merged into block p before it.               *)
Joined(s, p, q) ==
  [list |-> list_del(s.list, q),
   property |-> [s.property EXCEPT ![p] = @ + s.property[q]],
   PG_property |-> s.PG_property \ {q}]

(* The block is merged with its neighbours on the list.                    *)
FreeMerge ==
  LET base == op.base
      prev == list.prev[base]
      low == Adjacent(property, prev, base)
      s == [list |-> list, property |-> property, PG_property |-> PG_property]
      t == IF low THEN Joined(s, prev, base) ELSE s
      b == IF low THEN prev ELSE base
      next == t.list.next[b]
      u == IF Adjacent(t.property, b, next) THEN Joined(t, b, next) ELSE t
  IN /\ op.do = "merge"
     /\ list' = u.list /\ property' = u.property /\ PG_property' = u.PG_property
     /\ op' = Idle
     /\ UNCHANGED <<nr_free, le, held, refused, behind>>

Walk == AllocNext \/ AllocNone \/ AllocTake \/ FreeNext \/ FreeMerge

Next == (\E n \in SIZES : AllocCall(n)) \/ (\E h \in held : FreeCall(h)) \/ Walk

Spec == Init /\ [][Next]_vars

(* A call goes on until it returns.                                        *)
FairSpec == Spec /\ WF_vars(Walk)

-----------------------------------------------------------------------------
(* Properties.                                                             *)

(* Types of the variables.                                                 *)
TypeOK ==
  /\ list \in [next : [Node -> Node], prev : [Node -> Node]]
  /\ property \in [Page -> 0..NPAGES]
  /\ PG_property \subseteq Page
  /\ nr_free \in 0..NPAGES
  /\ op \in [do : {"idle", "panic"}] \cup [do : {"alloc"}, n : SIZES]
             \cup [do : {"free", "merge"}, base : Page]
  /\ le \in Node
  /\ held \subseteq Page \X SIZES
  /\ refused \in BOOLEAN /\ behind \in BOOLEAN

FreePages == Page \ HeldPages

(* No two blocks touch: they begin where a run of free pages begins.       *)
Merged == PG_property = {p \in FreePages : p - 1 \notin FreePages}

(* Until a block is given back behind all others, no assert fails and      *)
(* between calls the list holds the free blocks in the order of their      *)
(* addresses, linked both ways; a block is a whole run of free pages;      *)
(* nr_free counts their pages, and no page of a block in use is marked     *)
(* (default_free_pages, and the asserts there and in default_check).       *)
FreeListExact ==
  ~ behind =>
  /\ op # Panic
  /\ op = Idle =>
    /\ Merged
    /\ \A p \in PG_property :
         /\ Span(p, property[p]) \subseteq FreePages
         /\ p + property[p] \notin FreePages
    /\ LET nodes == PG_property \cup {HEAD}
           before(p, q) == p = HEAD \/ q = HEAD \/ p < q
       IN \A p \in nodes :
            /\ list.next[p] \in nodes /\ before(p, list.next[p])
            /\ list.prev[list.next[p]] = p
            /\ \A q \in PG_property : ~ (before(p, q) /\ before(q, list.next[p]) /\ q # p /\ q # list.next[p])
    /\ nr_free = Cardinality(FreePages)

(* Until then a block that alloc_pages is about to return is free.         *)
GivesFree == ~ behind /\ op.do = "alloc" /\ Fits => Span(le, op.n) \subseteq FreePages

(* Until then the manager implements the allocator of FirstFree: the       *)
(* lowest run of free pages is given, and a request is refused only if     *)
(* there is none.                                                          *)
Abstract == INSTANCE FirstFree
ImplementsFirstFree ==
  Abstract!Init /\ [][behind' \/ Abstract!Next]_<<held, refused>>

(* Until then every call returns: no walk runs around in the list.         *)
CallsReturn == op # Idle ~> (op = Idle \/ behind)

(* The states to look at for what holds until then.                        *)
InOrder == ~ behind

-----------------------------------------------------------------------------
(* What default_pmm.c says of every call.                                  *)

(* Pages that were handed out are different (basic_check,                  *)
(* default_pmm.c:189).                                                     *)
AlwaysGivesFree == op.do = "alloc" /\ Fits => Span(le, op.n) \subseteq FreePages
=============================================================================
