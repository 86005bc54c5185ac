--------------------------- MODULE FirstFitProofs ----------------------------
(***************************************************************************)
(* What FirstFit promises, for every number of pages and every set of      *)
(* sizes, until a block is given back behind all others (behind).  The     *)
(* invariant says how the list and the blocks look between calls and in    *)
(* the middle of a walk.                                                   *)
(***************************************************************************)
EXTENDS FirstFit, FiniteSetTheorems, TLAPS

-----------------------------------------------------------------------------
(* Lists.                                                                  *)

List == [next : [Node -> Node], prev : [Node -> Node]]

(* l links the pages S in the order of their addresses, both ways.         *)
Sorted(l, S) ==
  /\ \A p \in S \cup {HEAD} :
       /\ l.next[p] \in S \cup {HEAD} /\ l.prev[p] \in S \cup {HEAD}
       /\ l.prev[l.next[p]] = p /\ l.next[l.prev[p]] = p
  /\ \A p \in S : l.next[p] # HEAD => p < l.next[p]
  /\ \A p, q \in S : p < q => l.next[p] # HEAD /\ l.next[p] <= q
  /\ \A q \in S : l.next[HEAD] # HEAD /\ l.next[HEAD] <= q

(* Taking a page off a sorted list.                                        *)
LEMMA DelSorted ==
  ASSUME NEW l \in List, NEW S \in SUBSET Page, NEW e \in S, Sorted(l, S)
  PROVE  /\ list_del(l, e) \in List
         /\ Sorted(list_del(l, e), S \ {e})
         /\ list_del(l, e).next[l.prev[e]] = l.next[e]
         /\ l.prev[e] \in (S \ {e}) \cup {HEAD}
<1> DEFINE m == list_del(l, e)
           a == l.prev[e]
           z == l.next[e]
<1>1. /\ HEAD \notin Page /\ \A p \in Page : p \in Int
      /\ l.next \in [Node -> Node] /\ l.prev \in [Node -> Node]
  BY FirstFitAssumption DEF List, Page
<1>2. a \in S \cup {HEAD} /\ z \in S \cup {HEAD} /\ e # HEAD /\ l.next[a] = e /\ l.prev[z] = e
  BY <1>1 DEF Sorted
<1>3. a # e /\ z # e
  BY <1>1, <1>2 DEF Sorted
<1>4. S \cup {HEAD} \subseteq Node
  BY DEF Node
<1>5. m = [next |-> [l.next EXCEPT ![a] = z], prev |-> [l.prev EXCEPT ![z] = a]]
  <2>1. l = [next |-> l.next, prev |-> l.prev]
    BY DEF List
  <2>2. m = [l EXCEPT !.next = [l.next EXCEPT ![a] = z], !.prev = [l.prev EXCEPT ![z] = a]]
    BY DEF list_del
  <2>3. QED
    BY <2>1, <2>2
<1>6. m \in List
  BY <1>1, <1>2, <1>4, <1>5 DEF List
<1>7. \A p \in Node : /\ m.next[p] = IF p = a THEN z ELSE l.next[p]
                      /\ m.prev[p] = IF p = z THEN a ELSE l.prev[p]
  BY <1>1, <1>5
<1>8. \A p \in (S \ {e}) \cup {HEAD} :
        /\ m.next[p] \in (S \ {e}) \cup {HEAD} /\ m.prev[p] \in (S \ {e}) \cup {HEAD}
        /\ m.prev[m.next[p]] = p /\ m.next[m.prev[p]] = p
  BY <1>2, <1>3, <1>4, <1>7 DEF Sorted
<1>9. \A p \in S \ {e} : m.next[p] # HEAD => p < m.next[p]
  <2>1. SUFFICES ASSUME NEW p \in S \ {e}, m.next[p] # HEAD PROVE p < m.next[p]
    OBVIOUS
  <2>2. CASE p = a
    BY <1>1, <1>2, <1>3, <1>4, <1>7, <2>1, <2>2 DEF Sorted
  <2>3. CASE p # a
    BY <1>4, <1>7, <2>1, <2>3 DEF Sorted
  <2>4. QED
    BY <2>2, <2>3
<1>10. \A p, q \in S \ {e} : p < q => m.next[p] # HEAD /\ m.next[p] <= q
  <2>1. SUFFICES ASSUME NEW p \in S \ {e}, NEW q \in S \ {e}, p < q
                 PROVE  m.next[p] # HEAD /\ m.next[p] <= q
    OBVIOUS
  <2>2. CASE p = a
    <3>1. e <= q
      BY <1>2, <2>1, <2>2 DEF Sorted
    <3>2. e < q
      BY <1>1, <2>1, <3>1
    <3>3. QED
      BY <1>4, <1>7, <2>1, <2>2, <3>2 DEF Sorted
  <2>3. CASE p # a
    BY <1>4, <1>7, <2>1, <2>3 DEF Sorted
  <2>4. QED
    BY <2>2, <2>3
<1>11. \A q \in S \ {e} : m.next[HEAD] # HEAD /\ m.next[HEAD] <= q
  <2>1. SUFFICES ASSUME NEW q \in S \ {e} PROVE m.next[HEAD] # HEAD /\ m.next[HEAD] <= q
    OBVIOUS
  <2>2. CASE a = HEAD
    <3>1. e <= q
      BY <1>2, <2>1, <2>2 DEF Sorted
    <3>2. e < q
      BY <1>1, <2>1, <3>1
    <3>3. QED
      BY <1>4, <1>7, <2>1, <2>2, <3>2 DEF Sorted
  <2>3. CASE a # HEAD
    BY <1>4, <1>7, <2>1, <2>3 DEF Sorted
  <2>4. QED
    BY <2>2, <2>3
<1>12. Sorted(m, S \ {e})
  BY <1>8, <1>9, <1>10, <1>11 DEF Sorted
<1>13. QED
  BY <1>2, <1>3, <1>4, <1>6, <1>7, <1>12

(* Putting a page in its place on a sorted list.                           *)
LEMMA AddSorted ==
  ASSUME NEW l \in List, NEW S \in SUBSET Page, NEW e \in Page \ S, Sorted(l, S),
         NEW a \in S \cup {HEAD},
         a # HEAD => a < e,
         l.next[a] # HEAD => e < l.next[a]
  PROVE  list_add(l, a, e) \in List /\ Sorted(list_add(l, a, e), S \cup {e})
<1> DEFINE m == list_add(l, a, e)
           z == l.next[a]
<1>1. /\ HEAD \notin Page /\ \A p \in Page : p \in Int
      /\ l.next \in [Node -> Node] /\ l.prev \in [Node -> Node]
  BY FirstFitAssumption DEF List, Page
<1>2. z \in S \cup {HEAD} /\ l.prev[z] = a /\ e # HEAD /\ e # a /\ e # z
  BY <1>1 DEF Sorted
<1>3. /\ S \cup {HEAD, e} \subseteq Node
      /\ e \in Int /\ (z # HEAD => z \in Int /\ e < z)
  BY <1>1, <1>2 DEF Node
<1>4. m = [next |-> [l.next EXCEPT ![a] = e, ![e] = z], prev |-> [l.prev EXCEPT ![z] = e, ![e] = a]]
  BY DEF list_add, Linked
<1>5. m \in List
  BY <1>1, <1>2, <1>3, <1>4 DEF List
<1>6. \A p \in Node : /\ m.next[p] = IF p = e THEN z ELSE IF p = a THEN e ELSE l.next[p]
                      /\ m.prev[p] = IF p = e THEN a ELSE IF p = z THEN e ELSE l.prev[p]
  BY <1>1, <1>3, <1>4
<1>7. \A p \in S \cup {HEAD} : p # e
  BY <1>2
<1>8. \A p \in (S \cup {e}) \cup {HEAD} :
        /\ m.next[p] \in (S \cup {e}) \cup {HEAD} /\ m.prev[p] \in (S \cup {e}) \cup {HEAD}
        /\ m.prev[m.next[p]] = p /\ m.next[m.prev[p]] = p
  BY <1>2, <1>3, <1>6, <1>7 DEF Sorted
<1>9. \A p \in S \cup {e} : m.next[p] # HEAD => p < m.next[p]
  BY <1>1, <1>2, <1>3, <1>6, <1>7 DEF Sorted
<1>10. \A p, q \in S \cup {e} : p < q => m.next[p] # HEAD /\ m.next[p] <= q
  <2>1. SUFFICES ASSUME NEW p \in S \cup {e}, NEW q \in S \cup {e}, p < q
                 PROVE  m.next[p] # HEAD /\ m.next[p] <= q
    OBVIOUS
  <2>2. p \in Int /\ q \in Int /\ p \in Node /\ q \in Node
    BY <1>1, <1>3
  <2>3. CASE p = e
    <3>1. q \in S
      BY <2>1, <2>2, <2>3
    <3>2. CASE a = HEAD
      BY <1>6, <2>2, <2>3, <3>1, <3>2 DEF Sorted
    <3>3. CASE a # HEAD
      <4>1. a \in S /\ a < q
        BY <1>1, <2>1, <2>2, <2>3, <3>3
      <4>2. QED
        BY <1>6, <2>2, <2>3, <3>1, <4>1 DEF Sorted
    <3>4. QED
      BY <3>2, <3>3
  <2>4. CASE p # e /\ p = a
    <3>1. q = e \/ (q \in S /\ z # HEAD /\ z <= q)
      BY <2>1, <2>4 DEF Sorted
    <3>2. e <= q
      BY <1>3, <1>1, <1>2, <2>2, <3>1
    <3>3. QED
      BY <1>2, <1>6, <2>2, <2>4, <3>2
  <2>5. CASE p # e /\ p # a
    <3>1. m.next[p] = l.next[p] /\ p \in S
      BY <1>6, <2>2, <2>5
    <3>2. CASE q \in S
      BY <2>1, <3>1, <3>2 DEF Sorted
    <3>3. CASE q = e
      <4>1. l.next[p] # z
        BY <1>2, <2>5, <3>1 DEF Sorted
      <4>2. CASE a # HEAD /\ p < a
        <5>1. l.next[p] # HEAD /\ l.next[p] <= a /\ a \in Page /\ l.next[p] \in Page
          BY <3>1, <4>2 DEF Sorted
        <5>2. QED
          BY <1>1, <2>2, <3>1, <3>3, <4>2, <5>1
      <4>3. CASE a # HEAD /\ ~ (p < a)
        <5>1. a \in S /\ a < p
          BY <1>1, <2>2, <2>5, <4>3
        <5>2. z # HEAD /\ z <= p
          BY <3>1, <5>1 DEF Sorted
        <5>3. QED
          BY <1>3, <1>1, <1>2, <2>1, <2>2, <3>3, <5>2
      <4>4. CASE a = HEAD
        <5>1. z # HEAD /\ z <= p
          BY <3>1, <4>4 DEF Sorted
        <5>2. QED
          BY <1>3, <1>1, <1>2, <2>1, <2>2, <3>3, <5>1
      <4>5. QED
        BY <4>2, <4>3, <4>4
    <3>4. QED
      BY <3>2, <3>3
  <2>6. QED
    BY <2>3, <2>4, <2>5
<1>11. \A q \in S \cup {e} : m.next[HEAD] # HEAD /\ m.next[HEAD] <= q
  <2>1. SUFFICES ASSUME NEW q \in S \cup {e} PROVE m.next[HEAD] # HEAD /\ m.next[HEAD] <= q
    OBVIOUS
  <2>2. q \in Int /\ e \in Int /\ HEAD \in Node
    BY <1>1, <1>3
  <2>3. CASE a = HEAD
    <3>1. m.next[HEAD] = e
      BY <1>2, <1>6, <2>2, <2>3
    <3>2. q = e \/ (z # HEAD /\ z <= q)
      BY <2>3 DEF Sorted
    <3>3. QED
      BY <1>3, <1>1, <1>2, <2>2, <3>1, <3>2
  <2>4. CASE a # HEAD
    <3>1. m.next[HEAD] = l.next[HEAD] /\ l.next[HEAD] # HEAD /\ l.next[HEAD] <= a /\ a \in Page
      BY <1>2, <1>6, <2>2, <2>4 DEF Sorted
    <3>2. l.next[HEAD] \in Page
      BY <3>1 DEF Sorted
    <3>3. CASE q \in S
      BY <3>1, <3>3 DEF Sorted
    <3>4. CASE q = e
      BY <1>1, <2>2, <2>4, <3>1, <3>2, <3>4
    <3>5. QED
      BY <3>3, <3>4
  <2>5. QED
    BY <2>3, <2>4
<1>12. QED
  BY <1>5, <1>8, <1>9, <1>10, <1>11 DEF Sorted

-----------------------------------------------------------------------------
(* Blocks.                                                                 *)

Sizes == [Page -> 0..NPAGES]

(* With the sizes prop, the blocks that begin at the pages S divide F.     *)
Blocks(prop, S, F) ==
  /\ \A p \in S : prop[p] >= 1 /\ Span(p, prop[p]) \subseteq F
  /\ \A x \in F : \E p \in S : x \in Span(p, prop[p])
  /\ \A p, q \in S : p < q => p + prop[p] <= q

(* No two blocks touch.                                                    *)
Gaps(prop, S) == \A p, q \in S : p < q => p + prop[p] # q
(* Only the block at b may touch the one after it.                         *)
GapsAfter(prop, S, b) == \A p, q \in S : p < q /\ p # b => p + prop[p] # q
(* Only the block at b may touch others.                                   *)
GapsAround(prop, S, b) == \A p, q \in S : p < q /\ p # b /\ q # b => p + prop[p] # q

(* Pages are numbers, and so are sizes.                                    *)
LEMMA PageFacts ==
  /\ HEAD \notin Page /\ NPAGES \in Nat /\ NPAGES > 0
  /\ Page = {x \in Int : 0 <= x /\ x < NPAGES}
  /\ \A prop \in Sizes : \A p \in Page : prop[p] \in Int /\ 0 <= prop[p] /\ prop[p] <= NPAGES
  /\ \A b, n, x : x \in Span(b, n) <=> x \in b..(b + n - 1)
  /\ \A n \in SIZES : n \in Int /\ n >= 1
  BY FirstFitAssumption DEF Page, Sizes, Span

(* Behind a block there is no free page.                                   *)
LEMMA EndNotFree ==
  ASSUME NEW prop \in Sizes, NEW F \in SUBSET Page, NEW S \in SUBSET Page,
         Blocks(prop, S, F), Gaps(prop, S), NEW p \in S
  PROVE  p + prop[p] \notin F
<1>1. SUFFICES ASSUME p + prop[p] \in F PROVE FALSE
  OBVIOUS
<1>2. PICK q \in S : p + prop[p] \in Span(q, prop[q])
  BY <1>1 DEF Blocks
<1>3. /\ p \in Int /\ q \in Int /\ prop[p] \in Int /\ prop[q] \in Int
      /\ q <= p + prop[p] /\ p + prop[p] < q + prop[q] /\ prop[p] >= 1
  BY <1>2, PageFacts DEF Blocks
<1>4. CASE q < p
  BY <1>3, <1>4 DEF Blocks
<1>5. CASE q = p
  BY <1>3, <1>5
<1>6. CASE p < q
  BY <1>3, <1>6 DEF Blocks, Gaps
<1>7. QED
  BY <1>3, <1>4, <1>5, <1>6

(* A run of free pages lies in one block.                                  *)
LEMMA RunInBlock ==
  ASSUME NEW prop \in Sizes, NEW F \in SUBSET Page, NEW S \in SUBSET Page,
         Blocks(prop, S, F), Gaps(prop, S),
         NEW c \in Int, NEW n \in Int, n >= 1, Span(c, n) \subseteq F
  PROVE  \E q \in S : q <= c /\ c + n <= q + prop[q]
<1>1. c \in Span(c, n)
  BY PageFacts
<1>2. PICK q \in S : c \in Span(q, prop[q])
  BY <1>1 DEF Blocks
<1>3. /\ q \in Int /\ prop[q] \in Int /\ q <= c /\ c < q + prop[q]
  BY <1>2, PageFacts
<1>4. q + prop[q] \notin Span(c, n)
  BY EndNotFree
<1>5. c + n <= q + prop[q]
  BY <1>3, <1>4, PageFacts
<1>6. QED
  BY <1>3, <1>5

(* Blocks begin where free pages begin.                                    *)
LEMMA Beginnings ==
  ASSUME NEW prop \in Sizes, NEW F \in SUBSET Page, NEW S \in SUBSET Page,
         Blocks(prop, S, F), Gaps(prop, S)
  PROVE  S = {p \in F : p - 1 \notin F}
<1>1. ASSUME NEW p \in S PROVE p \in F /\ p - 1 \notin F
  <2>1. p \in Int /\ prop[p] \in Int /\ prop[p] >= 1
    BY PageFacts DEF Blocks
  <2>2. p \in Span(p, prop[p])
    BY <2>1, PageFacts
  <2>3. p \in F
    BY <2>2 DEF Blocks
  <2>4. ASSUME p - 1 \in F PROVE FALSE
    <3>1. PICK q \in S : p - 1 \in Span(q, prop[q])
      BY <2>4 DEF Blocks
    <3>2. q \in Int /\ prop[q] \in Int /\ q <= p - 1 /\ p - 1 < q + prop[q]
      BY <2>1, <3>1, PageFacts
    <3>3. q < p
      BY <2>1, <3>2
    <3>4. q + prop[q] <= p /\ q + prop[q] # p
      BY <3>3 DEF Blocks, Gaps
    <3>5. QED
      BY <2>1, <3>2, <3>4
  <2>5. QED
    BY <2>3, <2>4
<1>2. ASSUME NEW p \in F, p - 1 \notin F PROVE p \in S
  <2>1. PICK q \in S : p \in Span(q, prop[q])
    BY DEF Blocks
  <2>2. p \in Int /\ q \in Int /\ prop[q] \in Int /\ q <= p /\ p < q + prop[q]
    BY <2>1, PageFacts
  <2>3. p - 1 \notin Span(q, prop[q])
    BY <1>2 DEF Blocks
  <2>4. q = p
    BY <2>2, <2>3, PageFacts
  <2>5. QED
    BY <2>4
<1>3. QED
  BY <1>1, <1>2

(* The sizes when the block at q is joined to the one at p before it.      *)
Join(prop, p, q) == [prop EXCEPT ![p] = @ + prop[q]]

(* The block at p ends where the one at q begins, the next in S.           *)
Touch(prop, S, p, q) == p + prop[p] = q /\ \A t \in S : p < t => q <= t

(* Two blocks that touch become one.                                       *)
LEMMA JoinBlocks ==
  ASSUME NEW prop \in Sizes, NEW F \in SUBSET Page, NEW S \in SUBSET Page, Blocks(prop, S, F),
         NEW p \in S, NEW q \in S, Touch(prop, S, p, q)
  PROVE  /\ Join(prop, p, q) \in Sizes
         /\ Blocks(Join(prop, p, q), S \ {q}, F)
         /\ p \in S \ {q}
<1> DEFINE new == Join(prop, p, q)
<1>0. new = [prop EXCEPT ![p] = @ + prop[q]]
  BY DEF Join
<1> HIDE DEF new
<1>1. /\ p \in Int /\ q \in Int /\ prop[p] \in Int /\ prop[q] \in Int /\ prop[p] >= 1 /\ prop[q] >= 1
      /\ p < q /\ p >= 0 /\ prop \in [Page -> 0..NPAGES] /\ p \in Page /\ q \in Page /\ p + prop[p] = q
  BY PageFacts DEF Blocks, Sizes, Touch
<1>2. (\A r \in Page \ {p} : new[r] = prop[r]) /\ new[p] = prop[p] + prop[q]
  BY <1>0, <1>1
<1>3. q + prop[q] <= NPAGES
  <2>1. q + prop[q] - 1 \in Span(q, prop[q])
    BY <1>1, PageFacts
  <2>2. q + prop[q] - 1 \in Page
    BY <2>1 DEF Blocks
  <2>3. QED
    BY <1>1, <2>2, PageFacts
<1>4. prop[p] + prop[q] \in 0..NPAGES
  BY <1>1, <1>3, PageFacts
<1>5. new \in Sizes
  BY <1>0, <1>1, <1>4 DEF Sizes
<1>6. \A x : x \in Span(p, new[p]) <=> x \in Span(p, prop[p]) \/ x \in Span(q, prop[q])
  BY <1>1, <1>2, PageFacts
<1>7. \A r \in S \ {q} : new[r] >= 1 /\ Span(r, new[r]) \subseteq F
  <2>1. TAKE r \in S \ {q}
  <2>2. CASE r = p
    <3>1. Span(p, prop[p]) \subseteq F /\ Span(q, prop[q]) \subseteq F
      BY DEF Blocks
    <3>2. QED
      BY <1>1, <1>2, <1>6, <2>2, <3>1
  <2>3. CASE r # p
    BY <1>2, <2>3 DEF Blocks
  <2>4. QED
    BY <2>2, <2>3
<1>8. \A x \in F : \E r \in S \ {q} : x \in Span(r, new[r])
  <2>1. TAKE x \in F
  <2>2. PICK r \in S : x \in Span(r, prop[r])
    BY DEF Blocks
  <2>3. CASE r = q \/ r = p
    BY <1>1, <1>6, <2>2, <2>3
  <2>4. CASE r # q /\ r # p
    BY <1>2, <2>2, <2>4
  <2>5. QED
    BY <2>3, <2>4
<1>9. ASSUME NEW r \in S \ {q}, NEW t \in S \ {q}, r < t PROVE r + new[r] <= t
  <2>1. CASE r = p
    <3>1. q <= t
      BY <1>9, <2>1 DEF Touch
    <3>2. q < t /\ t \in Int
      BY <1>1, <3>1, PageFacts
    <3>3. q + prop[q] <= t
      BY <3>2 DEF Blocks
    <3>4. QED
      BY <1>1, <1>2, <2>1, <3>2, <3>3
  <2>2. CASE r # p
    BY <1>2, <1>9, <2>2 DEF Blocks
  <2>3. QED
    BY <2>1, <2>2
<1>10. Blocks(new, S \ {q}, F)
  BY <1>7, <1>8, <1>9 DEF Blocks
<1>11. QED
  BY <1>1, <1>2, <1>5, <1>10 DEF new

(* The sizes when n pages are cut off the beginning of the block at e.     *)
Cut(prop, e, n) == [prop EXCEPT ![e + n] = prop[e] - n]

(* The blocks, when all of a block is taken.                               *)
LEMMA TakeAll ==
  ASSUME NEW prop \in Sizes, NEW F \in SUBSET Page, NEW S \in SUBSET Page,
         Blocks(prop, S, F), Gaps(prop, S), NEW e \in S
  PROVE  Blocks(prop, S \ {e}, F \ Span(e, prop[e])) /\ Gaps(prop, S \ {e})
<1>1. ASSUME NEW p \in S \ {e} PROVE Span(p, prop[p]) \cap Span(e, prop[e]) = {}
  <2>1. /\ p \in Int /\ e \in Int /\ prop[p] \in Int /\ prop[e] \in Int /\ p # e
    BY PageFacts
  <2>2. p + prop[p] <= e \/ e + prop[e] <= p
    BY <2>1 DEF Blocks
  <2>3. QED
    BY <2>1, <2>2, PageFacts
<1>2. \A p \in S \ {e} : prop[p] >= 1 /\ Span(p, prop[p]) \subseteq F \ Span(e, prop[e])
  BY <1>1 DEF Blocks
<1>3. \A x \in F \ Span(e, prop[e]) : \E p \in S \ {e} : x \in Span(p, prop[p])
  BY DEF Blocks
<1>4. QED
  BY <1>2, <1>3 DEF Blocks, Gaps

(* The blocks, when n pages are taken and a block at t is left.            *)
LEMMA TakePart ==
  ASSUME NEW prop \in Sizes, NEW F \in SUBSET Page, NEW S \in SUBSET Page,
         Blocks(prop, S, F), Gaps(prop, S), NEW e \in S,
         NEW n \in Int, n >= 1, n < prop[e], NEW t, t = e + n
  PROVE  /\ t \in Page \ S /\ \A q \in S : e < q => t < q
         /\ Cut(prop, e, n) \in Sizes
         /\ Blocks(Cut(prop, e, n), (S \cup {t}) \ {e}, F \ Span(e, n))
         /\ Gaps(Cut(prop, e, n), (S \cup {t}) \ {e})
<1> DEFINE new == Cut(prop, e, n)
           S2 == (S \cup {t}) \ {e}
<1>0. new = [prop EXCEPT ![t] = prop[e] - n]
  BY DEF Cut
<1> HIDE DEF new
<1>1. /\ e \in Int /\ prop[e] \in Int /\ t \in Int /\ prop[e] >= 1 /\ e \in Page
      /\ prop \in [Page -> 0..NPAGES] /\ prop[e] <= NPAGES
  BY PageFacts DEF Sizes, Blocks
<1>2. t \in Span(e, prop[e]) /\ t # e
  BY <1>1, PageFacts
<1>3. t \in Page
  BY <1>2 DEF Blocks
<1>4. \A q \in S : e < q => t < q
  <2>1. TAKE q \in S
  <2>2. e < q => e + prop[e] <= q /\ q \in Int
    BY PageFacts DEF Blocks
  <2>3. QED
    BY <1>1, <2>2
<1>5. t \notin S
  BY <1>1, <1>4
<1>6. new[t] = prop[e] - n /\ \A p \in Page \ {t} : new[p] = prop[p]
  BY <1>0, <1>1, <1>3
<1>7. new \in Sizes
  BY <1>0, <1>1, <1>3, PageFacts DEF Sizes
<1>8. \A x : x \in Span(e, prop[e]) <=> x \in Span(e, n) \/ x \in Span(t, new[t])
  BY <1>1, <1>6, PageFacts
<1>9. Span(e, n) \cap Span(t, new[t]) = {}
  BY <1>1, <1>6, PageFacts
<1>10. Blocks(prop, S \ {e}, F \ Span(e, prop[e])) /\ Gaps(prop, S \ {e})
  BY TakeAll
<1>11. \A p \in S \ {e} : new[p] = prop[p]
  BY <1>5, <1>6
<1>12. ASSUME NEW p \in S2 PROVE new[p] >= 1 /\ Span(p, new[p]) \subseteq F \ Span(e, n)
  <2>1. CASE p = t
    <3>1. Span(e, prop[e]) \subseteq F
      BY DEF Blocks
    <3>2. new[t] >= 1
      BY <1>1, <1>6
    <3>3. QED
      BY <1>8, <1>9, <2>1, <3>1, <3>2
  <2>2. CASE p # t
    <3>1. p \in S \ {e} /\ new[p] = prop[p]
      BY <1>11, <2>2
    <3>2. prop[p] >= 1 /\ Span(p, prop[p]) \subseteq F \ Span(e, prop[e])
      BY <1>10, <3>1 DEF Blocks
    <3>3. QED
      BY <1>8, <3>1, <3>2
  <2>3. QED
    BY <2>1, <2>2
<1>13. ASSUME NEW x \in F \ Span(e, n) PROVE \E p \in S2 : x \in Span(p, new[p])
  <2>1. CASE x \in Span(e, prop[e])
    BY <1>2, <1>8, <1>13, <2>1
  <2>2. CASE x \notin Span(e, prop[e])
    <3>1. PICK p \in S \ {e} : x \in Span(p, prop[p])
      BY <1>10, <2>2 DEF Blocks
    <3>2. QED
      BY <1>11, <3>1
  <2>3. QED
    BY <2>1, <2>2
<1>14. ASSUME NEW p \in S2, NEW q \in S2, p < q PROVE p + new[p] <= q /\ p + new[p] # q
  <2>1. p \in Int /\ q \in Int
    BY <1>3, PageFacts
  <2>2. CASE p = t
    <3>1. q \in S /\ e < q
      BY <1>1, <1>14, <2>1, <2>2
    <3>2. e + prop[e] <= q /\ e + prop[e] # q
      BY <3>1 DEF Blocks, Gaps
    <3>3. QED
      BY <1>1, <1>6, <2>1, <2>2, <3>2
  <2>3. CASE q = t
    <3>1. p \in S \ {e} /\ new[p] = prop[p]
      BY <1>11, <1>14, <2>1, <2>3
    <3>2. p < e
      BY <1>1, <1>4, <1>14, <2>1, <2>3, <3>1
    <3>3. p + prop[p] <= e /\ prop[p] \in Int
      BY <3>1, <3>2, PageFacts DEF Blocks
    <3>4. QED
      BY <1>1, <2>1, <2>3, <3>1, <3>3
  <2>4. CASE p # t /\ q # t
    BY <1>10, <1>11, <1>14, <2>4 DEF Blocks, Gaps
  <2>5. QED
    BY <2>2, <2>3, <2>4
<1>15. Blocks(new, S2, F \ Span(e, n)) /\ Gaps(new, S2)
  BY <1>12, <1>13, <1>14 DEF Blocks, Gaps
<1>16. QED
  BY <1>3, <1>4, <1>5, <1>7, <1>15 DEF new

(* The same for the list: the remainder takes the place of the block.      *)
LEMMA TakeSorted ==
  ASSUME NEW l \in List, NEW S \in SUBSET Page, Sorted(l, S), NEW e \in S,
         NEW t \in Page \ S, e < t, \A q \in S : e < q => t < q
  PROVE  Remainder(l, e, t) \in List /\ Sorted(Remainder(l, e, t), (S \cup {t}) \ {e})
<1> DEFINE m == list_del(l, e)
           a == l.prev[e]
<1>1. /\ m \in List /\ Sorted(m, S \ {e}) /\ m.next[a] = l.next[e] /\ a \in (S \ {e}) \cup {HEAD}
  BY DelSorted
<1>2. e # HEAD /\ HEAD \notin S /\ \A p \in Page : p \in Int
  BY PageFacts
<1>3. a # HEAD => a < e
  BY <1>1, <1>2 DEF Sorted
<1>4. a # HEAD => a < t
  BY <1>1, <1>2, <1>3
<1>5. l.next[e] # HEAD => l.next[e] \in S /\ e < l.next[e]
  BY <1>2 DEF Sorted
<1>6. m.next[a] # HEAD => t < m.next[a]
  BY <1>1, <1>5
<1>7. t \in Page \ (S \ {e}) /\ S \ {e} \in SUBSET Page
  OBVIOUS
<1>8. list_add(m, a, t) \in List /\ Sorted(list_add(m, a, t), (S \ {e}) \cup {t})
  BY <1>1, <1>4, <1>6, <1>7, AddSorted
<1>9. (S \ {e}) \cup {t} = (S \cup {t}) \ {e} /\ Remainder(l, e, t) = list_add(m, a, t)
  BY DEF Remainder
<1>10. QED
  BY <1>8, <1>9

-----------------------------------------------------------------------------
(* The inductive invariant.                                                *)

(* Blocks in use are whole and apart.                                      *)
HeldApart ==
  /\ \A h \in held : Span(h[1], h[2]) \subseteq Page
  /\ \A g, h \in held : g # h => Span(g[1], g[2]) \cap Span(h[1], h[2]) = {}
Counted == nr_free = Cardinality(FreePages)
(* The free list between calls and while alloc_pages walks it.             *)
AtRest ==
  op.do \in {"idle", "alloc"} =>
    /\ Sorted(list, PG_property) /\ Blocks(property, PG_property, FreePages)
    /\ Gaps(property, PG_property)
(* The blocks alloc_pages has passed are too small.                        *)
Searching ==
  op.do = "alloc" =>
    /\ le \in PG_property \cup {HEAD}
    /\ \A q \in PG_property : le = HEAD \/ q < le => property[q] < op.n
(* The block that free_pages has not listed yet lies above those it has    *)
(* passed.                                                                 *)
Placing ==
  op.do = "free" =>
    /\ op.base \in PG_property /\ Sorted(list, PG_property \ {op.base})
    /\ Blocks(property, PG_property, FreePages) /\ Gaps(property, PG_property \ {op.base})
    /\ le \in PG_property \ {op.base}
    /\ \A q \in PG_property \ {op.base} : q < le => q < op.base
(* Only the block just listed may touch its neighbours.                    *)
Merging ==
  op.do = "merge" =>
    /\ op.base \in PG_property /\ Sorted(list, PG_property)
    /\ Blocks(property, PG_property, FreePages) /\ GapsAround(property, PG_property, op.base)

IInv ==
  /\ TypeOK /\ op # Panic /\ HeldApart /\ Counted
  /\ AtRest /\ Searching /\ Placing /\ Merging

(* Consequences of the types.                                              *)
LEMMA TypeFacts ==
  ASSUME TypeOK
  PROVE  /\ list \in List /\ property \in Sizes /\ PG_property \in SUBSET Page
         /\ FreePages \in SUBSET Page
         /\ op.do = "idle" <=> op = Idle
         /\ op.do = "alloc" => op = [do |-> "alloc", n |-> op.n] /\ op.n \in SIZES
         /\ op.do \in {"free", "merge"} => op.base \in Page
         /\ op.do = "free" => op = [do |-> "free", base |-> op.base]
  <1>1. list \in List /\ property \in Sizes /\ PG_property \in SUBSET Page /\ FreePages \in SUBSET Page
    BY DEF TypeOK, List, Sizes, FreePages
  <1>2. CASE op \in [do : {"idle", "panic"}]
    BY <1>1, <1>2 DEF Idle
  <1>3. CASE op \in [do : {"alloc"}, n : SIZES]
    BY <1>1, <1>3 DEF Idle
  <1>4. CASE op \in [do : {"free", "merge"}, base : Page]
    BY <1>1, <1>4 DEF Idle
  <1>5. QED
    BY <1>2, <1>3, <1>4 DEF TypeOK

(* Cardinalities of runs of pages.                                         *)
LEMMA SpanCard ==
  ASSUME NEW b \in Int, NEW n \in Int, n >= 1
  PROVE  IsFiniteSet(Span(b, n)) /\ Cardinality(Span(b, n)) = n
  BY FS_Interval DEF Span

(* Memory has NPAGES pages.                                                *)
LEMMA PageCard == IsFiniteSet(Page) /\ Cardinality(Page) = NPAGES
<1>1. 0 \in Int /\ NPAGES - 1 \in Int /\ NPAGES - 1 >= 0
  BY PageFacts
<1>2. /\ IsFiniteSet(0..(NPAGES - 1))
      /\ Cardinality(0..(NPAGES - 1)) = IF 0 > NPAGES - 1 THEN 0 ELSE (NPAGES - 1) - 0 + 1
  BY <1>1, FS_Interval
<1>3. Cardinality(0..(NPAGES - 1)) = NPAGES
  BY <1>1, <1>2, PageFacts
<1>4. QED
  BY <1>2, <1>3 DEF Page

(* Taking and giving back n pages.                                         *)
LEMMA FreeCard ==
  ASSUME NEW F \in SUBSET Page
  PROVE  /\ IsFiniteSet(F) /\ Cardinality(F) \in 0..NPAGES
         /\ \A b, n \in Int : n >= 1 /\ Span(b, n) \subseteq F =>
              n <= Cardinality(F) /\ Cardinality(F \ Span(b, n)) = Cardinality(F) - n
         /\ \A b, n \in Int : n >= 1 /\ Span(b, n) \cap F = {} =>
              Cardinality(F \cup Span(b, n)) = Cardinality(F) + n
<1>1. IsFiniteSet(F) /\ Cardinality(F) <= NPAGES
  BY PageCard, FS_Subset
<1>2. Cardinality(F) \in Nat
  BY <1>1, FS_CardinalityType
<1>3. ASSUME NEW b \in Int, NEW n \in Int, n >= 1, Span(b, n) \subseteq F
      PROVE  n <= Cardinality(F) /\ Cardinality(F \ Span(b, n)) = Cardinality(F) - n
  <2>1. IsFiniteSet(Span(b, n)) /\ Cardinality(Span(b, n)) = n
    BY <1>3, SpanCard
  <2>2. F \cap Span(b, n) = Span(b, n) /\ Span(b, n) \in SUBSET F
    BY <1>3
  <2>3. Cardinality(Span(b, n)) <= Cardinality(F)
    BY <1>1, <2>2, FS_Subset
  <2>4. Cardinality(F \ Span(b, n)) = Cardinality(F) - Cardinality(F \cap Span(b, n))
    BY <1>1, FS_Difference
  <2>5. QED
    BY <2>1, <2>2, <2>3, <2>4
<1>4. ASSUME NEW b \in Int, NEW n \in Int, n >= 1, Span(b, n) \cap F = {}
      PROVE  Cardinality(F \cup Span(b, n)) = Cardinality(F) + n
  <2>1. IsFiniteSet(Span(b, n)) /\ Cardinality(Span(b, n)) = n
    BY <1>4, SpanCard
  <2>2. F \cap Span(b, n) = {}
    BY <1>4
  <2>3. Cardinality(F \cap Span(b, n)) = 0
    BY <2>2, FS_EmptySet
  <2>4. Cardinality(F \cup Span(b, n)) = Cardinality(F) + Cardinality(Span(b, n)) - Cardinality(F \cap Span(b, n))
    BY <1>1, <2>1, FS_Union
  <2>5. QED
    BY <1>2, <2>1, <2>3, <2>4
<1>5. Cardinality(F) \in 0..NPAGES
  BY <1>1, <1>2, PageFacts
<1>6. \A b, n \in Int : n >= 1 /\ Span(b, n) \subseteq F =>
        n <= Cardinality(F) /\ Cardinality(F \ Span(b, n)) = Cardinality(F) - n
  BY <1>3
<1>7. \A b, n \in Int : n >= 1 /\ Span(b, n) \cap F = {} =>
        Cardinality(F \cup Span(b, n)) = Cardinality(F) + n
  BY <1>4
<1>8. QED
  BY <1>1, <1>5, <1>6, <1>7

(* When a walk comes to a block that is large enough, that block begins    *)
(* with the lowest run of n free pages; when it comes to the end there is  *)
(* no such run.                                                            *)
LEMMA LowestRun ==
  ASSUME IInv, op.do = "alloc", NEW c \in Int, Span(c, op.n) \subseteq FreePages
  PROVE  le # HEAD /\ le <= c
<1>1. /\ property \in Sizes /\ PG_property \in SUBSET Page /\ FreePages \in SUBSET Page
      /\ op.n \in SIZES /\ op.n \in Int /\ op.n >= 1
  BY TypeFacts, PageFacts DEF IInv
<1>2. PICK q \in PG_property : q <= c /\ c + op.n <= q + property[q]
  BY <1>1, RunInBlock DEF IInv, AtRest
<1>3. q \in Int /\ property[q] \in Int
  BY <1>1, PageFacts
<1>4. ~ (property[q] < op.n)
  BY <1>1, <1>2, <1>3
<1>5. le # HEAD /\ ~ (q < le) /\ le \in PG_property
  BY <1>4 DEF IInv, Searching
<1>6. le \in Int
  BY <1>1, <1>5, PageFacts
<1>7. QED
  BY <1>2, <1>3, <1>5, <1>6

-----------------------------------------------------------------------------
(* The invariant holds at first and is kept by every step.                 *)

(* default_init_memmap: memory is one free block.                          *)
LEMMA InitIInv == Init => IInv
<1>1. SUFFICES ASSUME Init PROVE IInv
  OBVIOUS
<1> DEFINE l == [next |-> [p \in Node |-> HEAD], prev |-> [p \in Node |-> HEAD]]
<1>2. /\ 0 \in Page /\ HEAD \in Node /\ NPAGES - 1 \in Page /\ NPAGES \in 0..NPAGES /\ 0 \in 0..NPAGES
  BY PageFacts DEF Node
<1>3. l \in List /\ Sorted(l, {}) /\ l.next[HEAD] = HEAD
  BY <1>2 DEF List, Sorted
<1>4. list = list_add(l, HEAD, 0)
  BY <1>1 DEF Init
<1>5. list_add(l, HEAD, 0) \in List /\ Sorted(list_add(l, HEAD, 0), {} \cup {0})
  BY <1>2, <1>3, AddSorted
<1>6. list \in List /\ Sorted(list, {0})
  BY <1>4, <1>5
<1>7. HeldPages = {} /\ FreePages = Page
  BY <1>1 DEF Init, HeldPages, FreePages
<1>8. property \in Sizes /\ property[0] = NPAGES
  BY <1>1, <1>2 DEF Init, Sizes
<1>9. \A x : x \in Span(0, NPAGES) <=> x \in Page
  BY PageFacts
<1>10. Blocks(property, {0}, Page) /\ Gaps(property, {0})
  BY <1>8, <1>9, PageFacts DEF Blocks, Gaps
<1>11. Counted
  BY <1>1, <1>7, PageCard DEF Init, Counted
<1>12. TypeOK
  BY <1>1, <1>2, <1>6, <1>8 DEF Init, TypeOK, Idle, List, Sizes
<1>13. HeldApart /\ op # Panic
  BY <1>1, <1>2, <1>7 DEF Init, HeldApart, Idle, Panic
<1>14. AtRest /\ Searching /\ Placing /\ Merging
  BY <1>1, <1>6, <1>7, <1>10 DEF Init, Idle, AtRest, Searching, Placing, Merging
<1>15. QED
  BY <1>11, <1>12, <1>13, <1>14 DEF IInv

(* Nothing the invariant speaks of changes.                                *)
LEMMA Same ==
  ASSUME IInv, UNCHANGED <<list, property, PG_property, nr_free, op, le, held, behind>>,
         refused' \in BOOLEAN
  PROVE  IInv'
<1>1. HeldPages' = HeldPages /\ FreePages' = FreePages
  BY DEF HeldPages, FreePages
<1>2. TypeOK' /\ HeldApart' /\ Counted'
  BY <1>1 DEF IInv, TypeOK, HeldApart, Counted
<1>3. AtRest' /\ Placing' /\ Merging'
  BY <1>1 DEF IInv, AtRest, Placing, Merging
<1>4. Searching'
  BY <1>1 DEF IInv, Searching
<1>5. QED
  BY <1>2, <1>3, <1>4 DEF IInv

(* A call of alloc_pages begins.                                           *)
LEMMA AllocCallStep ==
  ASSUME IInv, NEW n \in SIZES, AllocCall(n)
  PROVE  IInv'
<1>1. op = Idle /\ UNCHANGED <<list, property, PG_property, nr_free, held, behind>>
  BY DEF AllocCall
<1>2. CASE n > nr_free
  BY <1>1, <1>2, Same DEF AllocCall
<1>3. CASE ~ (n > nr_free)
  <2>1. op' = [do |-> "alloc", n |-> n] /\ le' = list.next[HEAD] /\ refused' = refused
    BY <1>3 DEF AllocCall
  <2>2. HeldPages' = HeldPages /\ FreePages' = FreePages
    BY <1>1 DEF HeldPages, FreePages
  <2>3. Sorted(list, PG_property) /\ Blocks(property, PG_property, FreePages) /\ Gaps(property, PG_property)
    BY <1>1 DEF IInv, AtRest, Idle
  <2>4. le' \in PG_property \cup {HEAD}
    BY <2>1, <2>3 DEF Sorted
  <2>5. TypeOK'
    BY <1>1, <2>1, <2>4 DEF IInv, TypeOK, Node
  <2>6. HeldApart' /\ Counted' /\ AtRest'
    BY <1>1, <2>2, <2>3 DEF IInv, HeldApart, Counted, AtRest
  <2>7. \A q \in PG_property : ~ (le' = HEAD \/ q < le')
    <3>1. TAKE q \in PG_property
    <3>2. le' # HEAD /\ le' <= q
      BY <2>1, <2>3 DEF Sorted
    <3>3. q \in Int /\ le' \in Int
      BY <2>4, <3>2, PageFacts DEF IInv, TypeOK
    <3>4. QED
      BY <3>2, <3>3
  <2>8. Searching'
    BY <1>1, <2>1, <2>4, <2>7 DEF Searching
  <2>9. Placing' /\ Merging' /\ op' # Panic
    BY <2>1 DEF Placing, Merging, Panic
  <2>10. QED
    BY <2>5, <2>6, <2>8, <2>9 DEF IInv
<1>4. QED
  BY <1>2, <1>3

(* It passes a block that is too small.                                    *)
LEMMA AllocNextStep ==
  ASSUME IInv, AllocNext
  PROVE  IInv'
<1>1. /\ op.do = "alloc" /\ le # HEAD /\ ~ (property[le] >= op.n)
      /\ le' = list.next[le]
      /\ UNCHANGED <<list, property, PG_property, nr_free, op, held, refused, behind>>
  BY DEF AllocNext, Fits
<1>2. HeldPages' = HeldPages /\ FreePages' = FreePages
  BY <1>1 DEF HeldPages, FreePages
<1>3. Sorted(list, PG_property) /\ le \in PG_property
  BY <1>1 DEF IInv, AtRest, Searching
<1>4. le' \in PG_property \cup {HEAD}
  BY <1>1, <1>3 DEF Sorted
<1>5. TypeOK'
  BY <1>1, <1>4 DEF IInv, TypeOK, Node
<1>6. HeldApart' /\ Counted' /\ AtRest'
  BY <1>1, <1>2 DEF IInv, HeldApart, Counted, AtRest
<1>7. ASSUME NEW q \in PG_property, le' = HEAD \/ q < le' PROVE property[q] < op.n
  <2>1. /\ q \in Int /\ le \in Int /\ (le' # HEAD => le' \in Int)
        /\ property[q] \in Int /\ property[le] \in Int /\ op.n \in Int
    BY <1>1, <1>3, <1>4, TypeFacts, PageFacts DEF IInv
  <2>2. ~ (le < q)
    BY <1>1, <1>3, <1>7, <2>1 DEF Sorted
  <2>3. CASE q = le
    BY <1>1, <2>1, <2>3
  <2>4. CASE q # le
    <3>1. q < le
      BY <2>1, <2>2, <2>4
    <3>2. QED
      BY <1>1, <3>1 DEF IInv, Searching
  <2>5. QED
    BY <2>3, <2>4
<1>8. Searching'
  BY <1>1, <1>4, <1>7 DEF Searching
<1>9. Placing' /\ Merging' /\ op' # Panic
  BY <1>1 DEF IInv, Placing, Merging
<1>10. QED
  BY <1>5, <1>6, <1>8, <1>9 DEF IInv

(* It comes to the end of the list.                                        *)
LEMMA AllocNoneStep ==
  ASSUME IInv, AllocNone
  PROVE  IInv'
<1>1. /\ op.do = "alloc" /\ op' = Idle /\ refused' = TRUE
      /\ UNCHANGED <<list, property, PG_property, nr_free, le, held, behind>>
  BY DEF AllocNone
<1>2. HeldPages' = HeldPages /\ FreePages' = FreePages
  BY <1>1 DEF HeldPages, FreePages
<1>3. TypeOK'
  BY <1>1 DEF IInv, TypeOK, Idle
<1>4. HeldApart' /\ Counted' /\ AtRest'
  BY <1>1, <1>2 DEF IInv, HeldApart, Counted, AtRest
<1>5. Searching' /\ Placing' /\ Merging' /\ op' # Panic
  BY <1>1 DEF Searching, Placing, Merging, Idle, Panic
<1>6. QED
  BY <1>3, <1>4, <1>5 DEF IInv

(* The block a walk has come to is free.                                   *)
LEMMA FoundIsFree ==
  ASSUME IInv, op.do = "alloc", Fits
  PROVE  /\ le \in PG_property /\ le \in Page /\ le \in Int /\ op.n \in SIZES /\ op.n \in Int /\ op.n >= 1
         /\ property[le] \in Int /\ op.n <= property[le]
         /\ Span(le, op.n) \subseteq FreePages
<1>1. le \in PG_property /\ op.n <= property[le]
  <2>1. le \in PG_property /\ property[le] >= op.n
    BY DEF IInv, Searching, Fits
  <2>2. property[le] \in Int /\ op.n \in Int
    BY <2>1, TypeFacts, PageFacts DEF IInv
  <2>3. QED
    BY <2>1, <2>2
<1>2. le \in Page /\ le \in Int /\ op.n \in SIZES /\ op.n \in Int /\ op.n >= 1 /\ property[le] \in Int
  BY <1>1, TypeFacts, PageFacts DEF IInv
<1>3. Span(le, property[le]) \subseteq FreePages
  BY <1>1 DEF IInv, AtRest, Blocks
<1>4. Span(le, op.n) \subseteq Span(le, property[le])
  BY <1>1, <1>2, PageFacts
<1>5. QED
  BY <1>1, <1>2, <1>3, <1>4

(* It takes the block it has come to.                                      *)
LEMMA AllocTakeStep ==
  ASSUME IInv, AllocTake
  PROVE  IInv'
<1> DEFINE n == op.n
           rest == le + n
           F == FreePages
           S == PG_property
<1>1. /\ op.do = "alloc" /\ Fits /\ nr_free' = nr_free - n
      /\ held' = held \cup {<<le, n>>} /\ refused' = FALSE /\ op' = Idle /\ le' = HEAD
      /\ behind' = behind
  BY DEF AllocTake, FreeAfterTaking
<1>2. /\ le \in S /\ le \in Page /\ le \in Int /\ n \in SIZES /\ n \in Int /\ n >= 1
      /\ property[le] \in Int /\ n <= property[le] /\ Span(le, n) \subseteq F
  BY <1>1, FoundIsFree
<1>4. list \in List /\ property \in Sizes /\ S \in SUBSET Page /\ F \in SUBSET Page
  BY TypeFacts DEF IInv
<1>5. Sorted(list, S) /\ Blocks(property, S, F) /\ Gaps(property, S)
  BY <1>1 DEF IInv, AtRest
<1>6. \A x : x \in HeldPages' <=> x \in HeldPages \/ x \in Span(le, n)
  <2>1. \A x : x \in HeldPages' <=> \E h \in held' : x \in Span(h[1], h[2])
    BY DEF HeldPages, Span
  <2>2. \A x : x \in HeldPages <=> \E h \in held : x \in Span(h[1], h[2])
    BY DEF HeldPages
  <2>3. <<le, n>>[1] = le /\ <<le, n>>[2] = n
    OBVIOUS
  <2>4. QED
    BY <1>1, <2>1, <2>2, <2>3
<1>7. F' = F \ Span(le, n)
  BY <1>6 DEF FreePages
<1>8. /\ list' \in List /\ property' \in Sizes /\ PG_property' \in SUBSET Page
      /\ Sorted(list', PG_property') /\ Blocks(property', PG_property', F \ Span(le, n))
      /\ Gaps(property', PG_property')
  <2>1. CASE property[le] > n
    <3>1. /\ list' = Remainder(list, le, rest) /\ property' = [property EXCEPT ![rest] = property[le] - n]
          /\ PG_property' = (S \cup {rest}) \ {le}
      BY <2>1 DEF AllocTake, RestSize
    <3>2. n < property[le]
      BY <1>2, <2>1
    <3>3. /\ rest \in Page \ S /\ \A q \in S : le < q => rest < q
          /\ property' \in Sizes /\ Blocks(property', (S \cup {rest}) \ {le}, F \ Span(le, n))
          /\ Gaps(property', (S \cup {rest}) \ {le})
      <4>1. property' = Cut(property, le, n)
        BY <3>1 DEF Cut
      <4>2. le \in S /\ n \in Int /\ n >= 1
        BY <1>2
      <4> HIDE DEF F, S, n
      <4>3. /\ rest \in Page \ S /\ \A q \in S : le < q => rest < q
            /\ Cut(property, le, n) \in Sizes
            /\ Blocks(Cut(property, le, n), (S \cup {rest}) \ {le}, F \ Span(le, n))
            /\ Gaps(Cut(property, le, n), (S \cup {rest}) \ {le})
        BY <1>4, <1>5, <3>2, <4>2, TakePart, Zenon
      <4>4. QED
        BY <4>1, <4>3
    <3>4. le < rest
      BY <1>2
    <3>5. list' \in List /\ Sorted(list', (S \cup {rest}) \ {le})
      BY <1>2, <1>4, <1>5, <3>1, <3>3, <3>4, TakeSorted
    <3>6. QED
      BY <1>4, <3>1, <3>3, <3>5
  <2>2. CASE ~ (property[le] > n)
    <3>1. list' = list_del(list, le) /\ PG_property' = S \ {le} /\ property' = property
      BY <2>2 DEF AllocTake
    <3>2. property[le] = n
      BY <1>2, <2>2
    <3>3. Blocks(property, S \ {le}, F \ Span(le, n)) /\ Gaps(property, S \ {le})
      BY <1>2, <1>4, <1>5, <3>2, TakeAll
    <3>4. list' \in List /\ Sorted(list', S \ {le})
      BY <1>2, <1>4, <1>5, <3>1, DelSorted
    <3>5. QED
      BY <1>4, <3>1, <3>3, <3>4
  <2>3. QED
    BY <2>1, <2>2
<1>9. Counted'
  <2>1. Cardinality(F \ Span(le, n)) = Cardinality(F) - n
    BY <1>2, <1>4, FreeCard
  <2>2. QED
    BY <1>1, <1>7, <2>1 DEF Counted, IInv
<1>10. nr_free' \in 0..NPAGES
  BY <1>4, <1>7, <1>9, FreeCard DEF Counted
<1>11. held' \subseteq Page \X SIZES
  BY <1>1, <1>2 DEF IInv, TypeOK
<1>12. TypeOK'
  BY <1>1, <1>8, <1>10, <1>11 DEF IInv, TypeOK, Idle, Node, List, Sizes
<1>13. op' # Panic
  BY <1>1 DEF Idle, Panic
<1>14. HeldApart'
  <2>1. \A h \in held : Span(h[1], h[2]) \cap Span(le, n) = {}
    BY <1>2 DEF FreePages, HeldPages
  <2>2. Span(le, n) \subseteq Page
    BY <1>2, <1>4
  <2>3. \A h \in held' : h \in held \/ (h[1] = le /\ h[2] = n /\ h = <<le, n>>)
    BY <1>1
  <2>4. \A h \in held' : Span(h[1], h[2]) \subseteq Page
    BY <2>2, <2>3 DEF IInv, HeldApart
  <2>5. \A g, h \in held' : g # h => Span(g[1], g[2]) \cap Span(h[1], h[2]) = {}
    BY <2>1, <2>3 DEF IInv, HeldApart
  <2>6. QED
    BY <2>4, <2>5 DEF HeldApart
<1>15. AtRest'
  BY <1>7, <1>8 DEF AtRest
<1>16. Searching' /\ Placing' /\ Merging'
  BY <1>1 DEF Searching, Placing, Merging, Idle
<1>17. QED
  BY <1>9, <1>12, <1>13, <1>14, <1>15, <1>16 DEF IInv

(* A call of free_pages begins.                                            *)
LEMMA FreeCallStep ==
  ASSUME IInv, NEW h \in held, FreeCall(h)
  PROVE  IInv'
<1> DEFINE base == h[1]
           n == h[2]
           F == FreePages
           S == PG_property
<1>1. op = Idle /\ refused' = refused /\ behind' = behind
  BY DEF FreeCall
<1>2. list \in List /\ property \in Sizes /\ S \in SUBSET Page /\ F \in SUBSET Page
  BY TypeFacts DEF IInv
<1>3. base \in Page /\ n \in SIZES /\ base \in Int /\ n \in Int /\ n >= 1
  BY PageFacts DEF IInv, TypeOK
<1>4. Sorted(list, S) /\ Blocks(property, S, F) /\ Gaps(property, S)
  BY <1>1 DEF IInv, AtRest, Idle
<1>5. Span(base, n) \subseteq Page /\ Span(base, n) \cap F = {} /\ Span(base, n) \subseteq HeldPages
  BY DEF IInv, HeldApart, FreePages, HeldPages
<1>6. base \in Span(base, n)
  BY <1>3, PageFacts
<1>7. S \subseteq F
  BY <1>2, <1>4, Beginnings
<1>8. base \notin S /\ Span(base, n) \cap S = {}
  BY <1>5, <1>6, <1>7
<1>9. /\ held' = held \ {h} /\ property' = [property EXCEPT ![base] = n]
      /\ PG_property' = S \cup {base} /\ PG_property' \ {base} = S
      /\ nr_free' = nr_free + n /\ le' = list.next[HEAD]
  BY <1>8 DEF FreeCall
<1>10. F' = F \cup Span(base, n)
  <2>1. \A x : x \in HeldPages' <=> x \in HeldPages /\ x \notin Span(base, n)
    BY <1>9 DEF HeldPages, IInv, HeldApart
  <2>2. QED
    BY <1>5, <2>1 DEF FreePages
<1>11. n <= NPAGES
  <2>1. base + n - 1 \in Span(base, n)
    BY <1>3, PageFacts
  <2>2. base + n - 1 \in Page
    BY <1>5, <2>1
  <2>3. QED
    BY <1>3, <2>2, PageFacts
<1>12. property' \in Sizes /\ property'[base] = n /\ \A p \in S : property'[p] = property[p]
  BY <1>2, <1>3, <1>8, <1>9, <1>11, PageFacts DEF Sizes
<1>13. Gaps(property', S)
  BY <1>4, <1>12 DEF Gaps
<1>14. Blocks(property', PG_property', F')
  <2>1. ASSUME NEW p \in PG_property' PROVE property'[p] >= 1 /\ Span(p, property'[p]) \subseteq F'
    BY <1>3, <1>4, <1>10, <1>8, <1>9, <1>12, <2>1 DEF Blocks
  <2>2. ASSUME NEW x \in F' PROVE \E p \in PG_property' : x \in Span(p, property'[p])
    <3>1. CASE x \in Span(base, n)
      BY <1>8, <1>9, <1>12, <3>1
    <3>2. CASE x \in F
      <4>1. PICK p \in S : x \in Span(p, property[p])
        BY <1>4, <3>2 DEF Blocks
      <4>2. QED
        BY <1>8, <1>9, <1>12, <4>1
    <3>3. QED
      BY <1>10, <3>1, <3>2
  <2>3. ASSUME NEW p \in PG_property', NEW q \in PG_property', p < q PROVE p + property'[p] <= q
    <3>1. p \in Int /\ q \in Int
      BY <1>2, <1>3, <1>8, <1>9, PageFacts
    <3>2. CASE p = base
      <4>1. q \in S
        BY <1>8, <1>9, <2>3, <3>1, <3>2
      <4>2. q \notin Span(base, n)
        BY <1>5, <1>7, <4>1
      <4>3. QED
        BY <1>3, <1>12, <2>3, <3>1, <3>2, <4>2, PageFacts
    <3>3. CASE q = base
      <4>1. p \in S /\ property'[p] = property[p] /\ property[p] \in Int
        BY <1>2, <1>8, <1>9, <1>12, <2>3, <3>1, <3>3, PageFacts
      <4>2. base \notin Span(p, property[p])
        BY <1>4, <1>5, <1>6, <4>1 DEF Blocks
      <4>3. QED
        BY <1>3, <2>3, <3>1, <3>3, <4>1, <4>2, PageFacts
    <3>4. CASE p # base /\ q # base
      BY <1>4, <1>8, <1>9, <1>12, <2>3, <3>4 DEF Blocks
    <3>5. QED
      BY <3>2, <3>3, <3>4
  <2>4. QED
    BY <2>1, <2>2, <2>3 DEF Blocks
<1>15. Counted'
  <2>1. Cardinality(F \cup Span(base, n)) = Cardinality(F) + n
    BY <1>2, <1>3, <1>5, FreeCard
  <2>2. QED
    BY <1>9, <1>10, <2>1 DEF IInv, Counted
<1>16. F' \in SUBSET Page
  BY <1>2, <1>5, <1>10
<1>17. nr_free' \in 0..NPAGES
  BY <1>15, <1>16, FreeCard DEF Counted
<1>18. HeldApart'
  BY <1>9 DEF IInv, HeldApart
<1>19. CASE list.next[HEAD] = HEAD
  <2>1. S = {}
    BY <1>4, <1>19 DEF Sorted
  <2>2. list' = list_add(list, HEAD, base) /\ op' = [do |-> "merge", base |-> base]
    BY <1>8, <1>19 DEF FreeCall
  <2>3. list' \in List /\ Sorted(list', S \cup {base})
    <3>1. base \in Page \ S /\ HEAD \in S \cup {HEAD}
      BY <1>3, <1>8
    <3> HIDE DEF S, base
    <3>2. QED
      BY <1>2, <1>4, <1>19, <2>2, <3>1, AddSorted
  <2>4. GapsAround(property', PG_property', base)
    BY <1>9, <2>1 DEF GapsAround
  <2>5. Merging'
    BY <1>9, <1>14, <2>2, <2>3, <2>4 DEF Merging
  <2>6. op' \in [do : {"free", "merge"}, base : Page] /\ op' # Panic
    BY <1>3, <2>2 DEF Panic
  <2>7. TypeOK'
    BY <1>1, <1>2, <1>3, <1>9, <1>12, <1>17, <1>19, <2>3, <2>6 DEF IInv, TypeOK, Node, List, Sizes
  <2>8. AtRest' /\ Searching' /\ Placing'
    BY <2>2 DEF AtRest, Searching, Placing
  <2>9. QED
    BY <1>15, <1>18, <2>5, <2>6, <2>7, <2>8 DEF IInv
<1>20. CASE list.next[HEAD] # HEAD
  <2>1. list.next[HEAD] \in S /\ \A q \in S : list.next[HEAD] <= q
    BY <1>4, <1>20 DEF Sorted
  <2>2. op' = [do |-> "free", base |-> base] /\ list' = list
    BY <1>8, <1>20 DEF FreeCall
  <2>3. \A q \in S : ~ (q < le')
    <3>1. TAKE q \in S
    <3>2. le' <= q /\ q \in Int /\ le' \in Int
      BY <1>2, <1>9, <2>1, PageFacts
    <3>3. QED
      BY <3>2
  <2>4. Placing'
    BY <1>4, <1>9, <1>13, <1>14, <2>1, <2>2, <2>3 DEF Placing
  <2>5. op' \in [do : {"free", "merge"}, base : Page] /\ op' # Panic
    BY <1>3, <2>2 DEF Panic
  <2>6. TypeOK'
    BY <1>1, <1>2, <1>3, <1>9, <1>12, <1>17, <2>1, <2>2, <2>5 DEF IInv, TypeOK, Node, List, Sizes
  <2>7. AtRest' /\ Searching' /\ Merging'
    BY <2>2 DEF AtRest, Searching, Merging
  <2>8. QED
    BY <1>15, <1>18, <2>4, <2>5, <2>6, <2>7 DEF IInv
<1>21. QED
  BY <1>19, <1>20

(* One round of the walk of free_pages that does not come to the last      *)
(* block.                                                                  *)
LEMMA FreeNextStep ==
  ASSUME IInv, FreeNext, ~ behind'
  PROVE  IInv'
<1> DEFINE base == op.base
           S == PG_property \ {base}
<1>1. op.do = "free" /\ UNCHANGED <<property, PG_property, nr_free, held, refused>>
  BY DEF FreeNext
<1>2. /\ list \in List /\ property \in Sizes /\ PG_property \in SUBSET Page /\ S \in SUBSET Page
      /\ FreePages \in SUBSET Page /\ op = [do |-> "free", base |-> base]
  BY <1>1, TypeFacts DEF IInv
<1>3. /\ base \in PG_property /\ Sorted(list, S) /\ Blocks(property, PG_property, FreePages)
      /\ Gaps(property, S)
      /\ le \in S /\ \A q \in S : q < le => q < base
  BY <1>1 DEF IInv, Placing
<1>4. HeldPages' = HeldPages /\ FreePages' = FreePages
  BY <1>1 DEF HeldPages, FreePages
<1>5. base \in Page /\ base \in Int /\ le \in Int /\ le # HEAD /\ base # HEAD /\ le # base
  BY <1>2, <1>3, PageFacts
<1>6. HeldApart' /\ Counted'
  BY <1>1, <1>4 DEF IInv, HeldApart, Counted
<1>10. behind' \in BOOLEAN
  BY DEF FreeNext, IInv, TypeOK
<1>7. CASE base < le
  <2> DEFINE a == list.prev[le]
  <2>1. list' = list_add_before(list, le, base) /\ op' = [op EXCEPT !.do = "merge"] /\ le' = HEAD
    BY <1>5, <1>7 DEF FreeNext
  <2>2. op' = [do |-> "merge", base |-> base]
    BY <1>2, <2>1
  <2>3. a \in S \cup {HEAD} /\ list.next[a] = le
    BY <1>3 DEF Sorted
  <2>4. list_add_before(list, le, base) = list_add(list, a, base)
    BY <2>3 DEF list_add_before, list_add
  <2>5. a # HEAD => a < base
    <3>1. a # HEAD => a < le
      <4>1. \A p \in S : list.next[p] # HEAD => p < list.next[p]
        BY <1>3 DEF Sorted
      <4>2. QED
        BY <1>5, <2>3, <4>1
    <3>2. QED
      BY <1>3, <2>3, <3>1
  <2>6. list_add(list, a, base) \in List /\ Sorted(list_add(list, a, base), S \cup {base})
    <3>1. base \in Page \ S /\ (list.next[a] # HEAD => base < list.next[a])
      BY <1>5, <1>7, <2>3
    <3> HIDE DEF S
    <3>2. QED
      BY <1>2, <1>3, <2>3, <2>5, <3>1, AddSorted
  <2>7. S \cup {base} = PG_property
    BY <1>3
  <2>8. list' \in List /\ Sorted(list', PG_property)
    BY <2>1, <2>4, <2>6, <2>7
  <2>9. GapsAround(property, PG_property, base)
    BY <1>3 DEF Gaps, GapsAround
  <2>10. op'.do = "merge" /\ op'.base = base /\ op' # Panic
    BY <2>2 DEF Panic
  <2>11. Merging'
    BY <1>1, <1>3, <1>4, <2>8, <2>9, <2>10 DEF Merging
  <2>12. AtRest' /\ Searching' /\ Placing'
    BY <2>10 DEF AtRest, Searching, Placing
  <2>13. op' \in [do : {"free", "merge"}, base : Page]
    BY <1>5, <2>2
  <2>14. TypeOK'
    BY <1>1, <1>10, <2>1, <2>8, <2>13 DEF IInv, TypeOK, List, Node
  <2>15. QED
    BY <1>6, <2>10, <2>11, <2>12, <2>14 DEF IInv
<1>8. CASE ~ (base < le)
  <2>1. le < base
    BY <1>5, <1>8
  <2>5. list.next[le] # HEAD /\ list.next[le] \in S
    <3>1. list.next[le] # HEAD
      BY <1>5, <1>8 DEF FreeNext
    <3>2. QED
      BY <1>3, <3>1 DEF Sorted
  <2>6. list' = list /\ le' = list.next[le] /\ op' = op
    BY <1>5, <1>8, <2>5 DEF FreeNext
  <2>7. ASSUME NEW r \in S, r < list.next[le] PROVE r < base
    <3>1. r \in Int /\ list.next[le] \in Int
      BY <1>2, <2>5, PageFacts
    <3>2. ~ (le < r)
      <4>1. le < r => list.next[le] <= r
        BY <1>3 DEF Sorted
      <4>2. QED
        BY <2>7, <3>1, <4>1
    <3>3. QED
      BY <1>5, <2>1, <3>1, <3>2
  <2>8. Placing'
    BY <1>1, <1>3, <1>4, <2>5, <2>6, <2>7 DEF Placing
  <2>9. AtRest' /\ Searching' /\ Merging'
    BY <1>1, <2>6 DEF AtRest, Searching, Merging
  <2>10. TypeOK'
    BY <1>1, <1>2, <1>10, <2>5, <2>6 DEF IInv, TypeOK, Node
  <2>11. op' # Panic
    BY <1>1, <2>6 DEF Panic
  <2>12. QED
    BY <1>6, <2>8, <2>9, <2>10, <2>11 DEF IInv
<1>9. QED
  BY <1>7, <1>8

-----------------------------------------------------------------------------
(* Merging.                                                                *)

(* The list, the sizes and the marks of s describe the free pages F.       *)
Listed(s, F) ==
  /\ s.list \in List /\ s.property \in Sizes /\ s.PG_property \in SUBSET Page
  /\ Sorted(s.list, s.PG_property) /\ Blocks(s.property, s.PG_property, F)

(* One merge: the gaps.                                                    *)
LEMMA JoinGaps ==
  ASSUME NEW prop \in Sizes, NEW F \in SUBSET Page, NEW S \in SUBSET Page, Blocks(prop, S, F),
         NEW p \in S, NEW q \in S, Touch(prop, S, p, q)
  PROVE  /\ GapsAround(prop, S, q) => GapsAfter(Join(prop, p, q), S \ {q}, p)
         /\ GapsAfter(prop, S, p) => Gaps(Join(prop, p, q), S \ {q})
<1> DEFINE new == Join(prop, p, q)
<1>1. /\ p \in S \ {q}
      /\ \A r \in Page \ {p} : new[r] = prop[r]
      /\ new[p] = prop[p] + prop[q]
  <2>1. p \in S \ {q}
    BY JoinBlocks
  <2>2. QED
    BY <2>1 DEF Join, Sizes
<1> HIDE DEF new
<1>2. GapsAround(prop, S, q) => GapsAfter(new, S \ {q}, p)
  <2>1. SUFFICES ASSUME GapsAround(prop, S, q), NEW r \in S \ {q}, NEW t \in S \ {q}, r < t, r # p
                 PROVE  r + new[r] # t
    BY DEF GapsAfter
  <2>2. new[r] = prop[r]
    BY <1>1, <2>1
  <2>3. QED
    BY <2>1, <2>2 DEF GapsAround
<1>3. GapsAfter(prop, S, p) => Gaps(new, S \ {q})
  <2>1. SUFFICES ASSUME GapsAfter(prop, S, p), NEW r \in S \ {q}, NEW t \in S \ {q}, r < t
                 PROVE  r + new[r] # t
    BY DEF Gaps
  <2>2. CASE r # p
    <3>1. new[r] = prop[r]
      BY <1>1, <2>2
    <3>2. QED
      BY <2>1, <2>2, <3>1 DEF GapsAfter
  <2>3. CASE r = p
    <3>1. /\ p \in Int /\ q \in Int /\ t \in Int /\ prop[p] \in Int /\ prop[q] \in Int
      BY PageFacts
    <3>2. q <= t /\ p + prop[p] = q
      BY <2>1, <2>3 DEF Touch
    <3>3. q < t /\ q # p
      BY <1>1, <3>1, <3>2
    <3>4. q + prop[q] # t
      BY <2>1, <3>3 DEF GapsAfter
    <3>5. p + new[p] = q + prop[q]
      BY <1>1, <3>1, <3>2
    <3>6. QED
      BY <2>3, <3>4, <3>5
  <2>4. QED
    BY <2>2, <2>3
<1>4. QED
  BY <1>2, <1>3 DEF new

(* One merge: the block at q goes into the one at p.                       *)
LEMMA JoinedListed ==
  ASSUME NEW s, NEW F \in SUBSET Page, Listed(s, F),
         NEW p \in s.PG_property, NEW q \in s.PG_property,
         Touch(s.property, s.PG_property, p, q)
  PROVE  /\ Listed(Joined(s, p, q), F) /\ p \in Joined(s, p, q).PG_property
         /\ GapsAround(s.property, s.PG_property, q)
              => GapsAfter(Joined(s, p, q).property, Joined(s, p, q).PG_property, p)
         /\ GapsAfter(s.property, s.PG_property, p)
              => Gaps(Joined(s, p, q).property, Joined(s, p, q).PG_property)
<1> DEFINE j == Joined(s, p, q)
           l == s.list
           prop == s.property
           S == s.PG_property
<1>1. l \in List /\ prop \in Sizes /\ S \in SUBSET Page /\ Sorted(l, S) /\ Blocks(prop, S, F)
  BY DEF Listed
<1>2. j.list = list_del(l, q) /\ j.property = Join(prop, p, q) /\ j.PG_property = S \ {q}
  BY DEF Joined, Join
<1>3. p \in S /\ q \in S /\ Touch(prop, S, p, q)
  OBVIOUS
<1> HIDE DEF j, l, prop, S
<1>4. Join(prop, p, q) \in Sizes /\ Blocks(Join(prop, p, q), S \ {q}, F) /\ p \in S \ {q}
  BY <1>1, <1>3, JoinBlocks, Zenon
<1>5. list_del(l, q) \in List /\ Sorted(list_del(l, q), S \ {q})
  BY <1>1, <1>3, DelSorted
<1>6. Listed(j, F) /\ p \in j.PG_property
  BY <1>1, <1>2, <1>4, <1>5 DEF Listed
<1>7. /\ GapsAround(prop, S, q) => GapsAfter(Join(prop, p, q), S \ {q}, p)
      /\ GapsAfter(prop, S, p) => Gaps(Join(prop, p, q), S \ {q})
  BY <1>1, <1>3, JoinGaps, Zenon
<1>8. QED
  BY <1>2, <1>6, <1>7 DEF j, l, prop, S

(* A block that ends at the next one on the list touches it.               *)
LEMMA NextTouches ==
  ASSUME NEW l, NEW prop, NEW S, Sorted(l, S), NEW p \in S, NEW q \in S,
         l.next[p] = q, p + prop[p] = q
  PROVE  Touch(prop, S, p, q)
  BY DEF Sorted, Touch

(* If the block at b does not touch the one before it ...                  *)
LEMMA NoneBefore ==
  ASSUME NEW l \in List, NEW prop \in Sizes, NEW F \in SUBSET Page, NEW S \in SUBSET Page,
         Sorted(l, S), Blocks(prop, S, F), NEW b \in S, GapsAround(prop, S, b),
         l.prev[b] = HEAD \/ l.prev[b] + prop[l.prev[b]] # b
  PROVE  GapsAfter(prop, S, b)
<1> DEFINE a == l.prev[b]
<1>1. SUFFICES ASSUME NEW p \in S, NEW q \in S, p < q, p # b PROVE p + prop[p] # q
  BY DEF GapsAfter
<1>2. CASE q # b
  BY <1>1, <1>2 DEF GapsAround
<1>3. CASE q = b
  <2>0. a \in S \cup {HEAD} /\ l.next[a] = b
    BY DEF Sorted
  <2>1. /\ a \in S \cup {HEAD} /\ l.next[a] = b /\ p \in Int /\ b \in Int /\ prop[p] \in Int
        /\ b # HEAD /\ (a # HEAD => a \in Int)
    BY <2>0, PageFacts
  <2>2. a # HEAD
    <3>1. a = HEAD => b <= p
      BY <2>1 DEF Sorted
    <3>2. QED
      BY <1>1, <1>3, <2>1, <3>1
  <2>3. ~ (a < p)
    <3>1. a < p => b <= p
      BY <2>1, <2>2 DEF Sorted
    <3>2. QED
      BY <1>1, <1>3, <2>1, <3>1
  <2>4. CASE p = a
    BY <1>3, <2>2, <2>4
  <2>5. CASE p < a
    <3>1. p + prop[p] <= a /\ a < b
      BY <2>1, <2>2, <2>5 DEF Blocks, Sorted
    <3>2. QED
      BY <1>3, <2>1, <2>2, <3>1
  <2>6. QED
    BY <2>1, <2>2, <2>3, <2>4, <2>5
<1>4. QED
  BY <1>2, <1>3

(* ... nor the one after it, no blocks touch.                              *)
LEMMA NoneAfter ==
  ASSUME NEW l \in List, NEW prop \in Sizes, NEW F \in SUBSET Page, NEW S \in SUBSET Page,
         Sorted(l, S), Blocks(prop, S, F), NEW b \in S, GapsAfter(prop, S, b),
         l.next[b] = HEAD \/ b + prop[b] # l.next[b]
  PROVE  Gaps(prop, S)
<1>1. SUFFICES ASSUME NEW p \in S, NEW q \in S, p < q PROVE p + prop[p] # q
  BY DEF Gaps
<1>2. CASE p # b
  BY <1>1, <1>2 DEF GapsAfter
<1>3. CASE p = b
  <2>1. l.next[b] # HEAD /\ l.next[b] \in S /\ l.next[b] <= q /\ b < l.next[b]
    BY <1>1, <1>3 DEF Sorted
  <2>2. b \in Int /\ q \in Int /\ l.next[b] \in Int /\ prop[b] \in Int
    BY <2>1, PageFacts, Zenon
  <2>3. b + prop[b] <= l.next[b]
    BY <2>1 DEF Blocks
  <2>4. QED
    BY <1>3, <2>1, <2>2, <2>3
<1>4. QED
  BY <1>2, <1>3

(* The block just listed is merged.                                        *)
LEMMA FreeMergeStep ==
  ASSUME IInv, FreeMerge
  PROVE  IInv'
<1> DEFINE F == FreePages
           base == op.base
           prev == list.prev[base]
           low == Adjacent(property, prev, base)
           s == [list |-> list, property |-> property, PG_property |-> PG_property]
           t == IF low THEN Joined(s, prev, base) ELSE s
           b == IF low THEN prev ELSE base
           next == t.list.next[b]
           u == IF Adjacent(t.property, b, next) THEN Joined(t, b, next) ELSE t
<1>1. /\ op.do = "merge" /\ op' = Idle /\ UNCHANGED <<nr_free, le, held, refused, behind>>
      /\ list' = u.list /\ property' = u.property /\ PG_property' = u.PG_property
  BY ZenonT(30) DEF FreeMerge
<1>2. /\ base \in PG_property /\ Sorted(list, PG_property) /\ Blocks(property, PG_property, F)
      /\ GapsAround(property, PG_property, base)
  BY <1>1, ZenonT(30) DEF IInv, Merging
<1>3. list \in List /\ property \in Sizes /\ PG_property \in SUBSET Page /\ F \in SUBSET Page
  BY TypeFacts, ZenonT(30) DEF IInv
<1>4. F' = F
  BY <1>1 DEF FreePages, HeldPages
<1>5. /\ s.list = list /\ s.property = property /\ s.PG_property = PG_property
      /\ Listed(s, F) /\ GapsAround(s.property, s.PG_property, base)
  BY <1>2, <1>3 DEF Listed
<1> HIDE DEF s
<1>6. prev \in PG_property \cup {HEAD} /\ list.next[prev] = base
  BY <1>2 DEF Sorted
<1>7. Listed(t, F) /\ b \in t.PG_property /\ GapsAfter(t.property, t.PG_property, b)
  <2>1. CASE low
    <3>1. prev \in PG_property /\ prev + property[prev] = base
      BY <1>6, <2>1 DEF Adjacent
    <3>2. /\ Listed(Joined(s, prev, base), F) /\ prev \in Joined(s, prev, base).PG_property
          /\ GapsAfter(Joined(s, prev, base).property, Joined(s, prev, base).PG_property, prev)
      <4>1. Touch(s.property, s.PG_property, prev, base)
        BY <1>2, <1>5, <1>6, <3>1, NextTouches
      <4>2. prev \in s.PG_property /\ base \in s.PG_property
        BY <1>2, <1>5, <3>1
      <4>3. QED
        BY <1>3, <1>5, <4>1, <4>2, JoinedListed
    <3>3. t = Joined(s, prev, base) /\ b = prev
      BY <2>1
    <3>4. QED
      BY <3>2, <3>3
  <2>2. CASE ~ low
    <3>1. prev = HEAD \/ prev + property[prev] # base
      BY <1>2, <1>3, <2>2, PageFacts DEF Adjacent
    <3>2. GapsAfter(property, PG_property, base)
      BY <1>2, <1>3, <3>1, NoneBefore
    <3>3. t = s /\ b = base
      BY <2>2
    <3>4. QED
      BY <1>2, <1>5, <3>2, <3>3
  <2>3. QED
    BY <2>1, <2>2
<1> HIDE DEF t, b
<1>8. /\ t.list \in List /\ t.property \in Sizes /\ t.PG_property \in SUBSET Page
      /\ Sorted(t.list, t.PG_property) /\ Blocks(t.property, t.PG_property, F)
  BY <1>7 DEF Listed
<1>9. Listed(u, F) /\ Gaps(u.property, u.PG_property)
  <2>1. next \in t.PG_property \cup {HEAD}
    BY <1>7, <1>8 DEF Sorted
  <2>2. CASE Adjacent(t.property, b, next)
    <3>1. next \in t.PG_property /\ b + t.property[b] = next
      BY <2>1, <2>2 DEF Adjacent
    <3>2. Listed(Joined(t, b, next), F) /\ Gaps(Joined(t, b, next).property, Joined(t, b, next).PG_property)
      <4>1. Touch(t.property, t.PG_property, b, next)
        BY <1>7, <1>8, <3>1, NextTouches
      <4>2. QED
        BY <1>3, <1>7, <3>1, <4>1, JoinedListed
    <3>3. u = Joined(t, b, next)
      BY <2>2
    <3>4. QED
      BY <3>2, <3>3
  <2>3. CASE ~ Adjacent(t.property, b, next)
    <3>1. next = HEAD \/ b + t.property[b] # next
      BY <1>7, <1>8, <2>3, PageFacts DEF Adjacent
    <3>2. Gaps(t.property, t.PG_property)
      BY <1>3, <1>7, <1>8, <3>1, NoneAfter
    <3>3. u = t
      BY <2>3
    <3>4. QED
      BY <1>7, <3>2, <3>3
  <2>4. QED
    BY <2>2, <2>3
<1> HIDE DEF u
<1>10. /\ list' \in List /\ property' \in Sizes /\ PG_property' \in SUBSET Page
       /\ Sorted(list', PG_property') /\ Blocks(property', PG_property', F')
       /\ Gaps(property', PG_property')
  BY <1>1, <1>4, <1>9 DEF Listed
<1>11. TypeOK'
  BY <1>1, <1>10 DEF IInv, TypeOK, Idle, List, Sizes
<1>12. HeldApart' /\ Counted'
  BY <1>1, <1>4 DEF IInv, HeldApart, Counted
<1>13. AtRest'
  BY <1>10 DEF AtRest
<1>14. Searching' /\ Placing' /\ Merging' /\ op' # Panic
  BY <1>1 DEF Searching, Placing, Merging, Idle, Panic
<1>15. QED
  BY <1>11, <1>12, <1>13, <1>14 DEF IInv

-----------------------------------------------------------------------------
(* The results.                                                            *)

(* No step makes behind false again.                                       *)
LEMMA BehindStays == [Next]_vars /\ behind => behind'
<1> SUFFICES ASSUME [Next]_vars, behind PROVE behind'
  OBVIOUS
<1>1. ASSUME NEW n \in SIZES, AllocCall(n) PROVE behind'
  BY <1>1 DEF AllocCall
<1>2. ASSUME NEW h \in held, FreeCall(h) PROVE behind'
  BY <1>2 DEF FreeCall
<1>3. CASE AllocNext \/ AllocNone
  BY <1>3 DEF AllocNext, AllocNone
<1>4. CASE AllocTake
  BY <1>4, Zenon DEF AllocTake
<1>5. CASE FreeNext
  BY <1>5, Zenon DEF FreeNext
<1>6. CASE FreeMerge
  BY <1>6, Zenon DEF FreeMerge
<1>7. CASE UNCHANGED vars
  BY <1>7, Zenon DEF vars
<1>8. QED
  BY <1>1, <1>2, <1>3, <1>4, <1>5, <1>6, <1>7 DEF Next, Walk

(* Every step keeps the invariant until a block goes behind all others.    *)
LEMMA Inductive == Spec => [](behind \/ IInv)
<1>1. Init => IInv
  BY InitIInv
<1>2. (behind \/ IInv) /\ [Next]_vars => (behind \/ IInv)'
  <2>0. [Next]_vars /\ behind => behind'
    BY BehindStays
  <2>1. SUFFICES ASSUME IInv, [Next]_vars, ~ behind' PROVE IInv'
    BY <2>0
  <2>2. CASE UNCHANGED vars
    BY <2>1, <2>2, Same DEF vars, IInv, TypeOK
  <2>3. ASSUME NEW n \in SIZES, AllocCall(n) PROVE IInv'
    BY <2>1, <2>3, AllocCallStep
  <2>4. ASSUME NEW h \in held, FreeCall(h) PROVE IInv'
    BY <2>1, <2>4, FreeCallStep
  <2>5. CASE AllocNext
    BY <2>1, <2>5, AllocNextStep
  <2>6. CASE AllocNone
    BY <2>1, <2>6, AllocNoneStep
  <2>7. CASE AllocTake
    BY <2>1, <2>7, AllocTakeStep
  <2>8. CASE FreeNext
    BY <2>1, <2>8, FreeNextStep
  <2>9. CASE FreeMerge
    BY <2>1, <2>9, FreeMergeStep
  <2>10. QED
    BY <2>1, <2>2, <2>3, <2>4, <2>5, <2>6, <2>7, <2>8, <2>9 DEF Next, Walk
<1>3. QED
  BY <1>1, <1>2, PTL DEF Spec

(* A list as the invariant has it is exact.                                *)
LEMMA IInvExact == behind \/ IInv => FreeListExact
<1>1. SUFFICES ASSUME IInv, op = Idle PROVE FreeListExact
  BY DEF FreeListExact, IInv
<1>2. /\ Sorted(list, PG_property) /\ Blocks(property, PG_property, FreePages)
      /\ Gaps(property, PG_property)
  BY <1>1 DEF IInv, AtRest, Idle
<1>3. property \in Sizes /\ PG_property \in SUBSET Page /\ FreePages \in SUBSET Page
  BY <1>1, TypeFacts DEF IInv
<1>4. Merged
  BY <1>2, <1>3, Beginnings DEF Merged
<1>5. ASSUME NEW p \in PG_property
      PROVE  Span(p, property[p]) \subseteq FreePages /\ p + property[p] \notin FreePages
  <2>1. p + property[p] \notin FreePages
    BY <1>2, <1>3, EndNotFree
  <2>2. QED
    BY <1>2, <2>1 DEF Blocks
<1> DEFINE nodes == PG_property \cup {HEAD}
           before(p, q) == p = HEAD \/ q = HEAD \/ p < q
<1>6. ASSUME NEW p \in nodes
      PROVE  /\ list.next[p] \in nodes /\ before(p, list.next[p])
             /\ list.prev[list.next[p]] = p
  BY <1>2 DEF Sorted
<1>7. ASSUME NEW p \in nodes, NEW q \in PG_property,
             before(p, q), before(q, list.next[p]), q # p, q # list.next[p]
      PROVE  FALSE
  <2>1. q \in Int /\ q # HEAD
    BY <1>3, PageFacts
  <2>2. list.next[p] # HEAD /\ list.next[p] <= q
    BY <1>2, <1>7, <2>1 DEF Sorted
  <2>3. list.next[p] \in Int
    BY <1>3, <1>6, <2>2, PageFacts
  <2>4. QED
    BY <1>7, <2>1, <2>2, <2>3
<1>8. nr_free = Cardinality(FreePages)
  BY <1>1 DEF IInv, Counted
<1>9. QED
  BY <1>1, <1>4, <1>5, <1>6, <1>7, <1>8 DEF FreeListExact, IInv

(* Until a block is given back behind all others the variables of the      *)
(* memory manager have their types: no pointer of a list leads out of      *)
(* memory, no block is larger than memory and nr_free neither wraps below  *)
(* zero nor exceeds the number of pages.                                   *)
THEOREM TypeCorrect == Spec => [](behind \/ TypeOK)
<1>1. IInv => TypeOK
  BY DEF IInv
<1>2. QED
  BY <1>1, Inductive, PTL

(* default_free_pages: whatever is taken and given back in whatever order, *)
(* until a block is given back behind all others no assert fails and       *)
(* between calls free_list holds exactly the runs of free pages, sorted,   *)
(* merged and linked both ways, and nr_free is their number.               *)
THEOREM FreeListCorrect == Spec => []FreeListExact
  BY Inductive, IInvExact, PTL

(* Until then default_alloc_pages never returns a page that is in use.     *)
THEOREM GivesFreeCorrect == Spec => []GivesFree
<1>1. behind \/ IInv => GivesFree
  BY FoundIsFree DEF GivesFree
<1>2. QED
  BY <1>1, Inductive, PTL

(* Until then default_pmm.c implements the allocator of FirstFree: it      *)
(* answers with the lowest run of free pages that is long enough, and      *)
(* returns NULL only if there is none.                                     *)
THEOREM FirstFitImplements == Spec => ImplementsFirstFree
<1>1. Init => Abstract!Init
  BY DEF Init, Abstract!Init
<1>2. (behind \/ IInv) /\ [Next]_vars => [behind' \/ Abstract!Next]_<<held, refused>>
  <2>0. [Next]_vars /\ behind => behind'
    BY BehindStays
  <2>1. SUFFICES ASSUME IInv, [Next]_vars PROVE [Abstract!Next]_<<held, refused>>
    BY <2>0
  <2>2. \A b, n : Abstract!Fits(b, n) <=> Span(b, n) \subseteq FreePages
    BY DEF Abstract!Fits, Abstract!Span, Abstract!FreePages, Abstract!HeldPages, Abstract!Page,
           Span, FreePages, HeldPages, Page
  <2>3. Abstract!Page = Page
    BY DEF Abstract!Page, Page
  <2>4. CASE UNCHANGED vars
    BY <2>4 DEF vars
  <2>5. ASSUME NEW n \in SIZES, AllocCall(n) PROVE [Abstract!Next]_<<held, refused>>
    <3>1. CASE n > nr_free
      <4>1. FreePages \in SUBSET Page /\ nr_free = Cardinality(FreePages) /\ n \in Int /\ n >= 1
        BY <2>1, TypeFacts, PageFacts DEF IInv, Counted
      <4>2. ASSUME NEW b \in Page, Span(b, n) \subseteq FreePages PROVE FALSE
        <5>1. b \in Int
          BY PageFacts
        <5>2. n <= Cardinality(FreePages) /\ Cardinality(FreePages) \in Int
          <6>1. /\ Cardinality(FreePages) \in 0..NPAGES
                /\ \A c, m \in Int : m >= 1 /\ Span(c, m) \subseteq FreePages => m <= Cardinality(FreePages)
            BY <4>1, FreeCard
          <6>2. n <= Cardinality(FreePages)
            BY <4>1, <4>2, <5>1, <6>1
          <6>3. QED
            BY <6>1, <6>2, PageFacts
        <5>3. QED
          BY <3>1, <4>1, <5>2
      <4>3. Abstract!Refuse(n)
        BY <2>2, <2>3, <2>5, <3>1, <4>2 DEF Abstract!Refuse, AllocCall
      <4>4. QED
        BY <4>3 DEF Abstract!Next
    <3>2. CASE ~ (n > nr_free)
      BY <2>5, <3>2 DEF AllocCall
    <3>3. QED
      BY <3>1, <3>2
  <2>6. ASSUME NEW h \in held, FreeCall(h) PROVE [Abstract!Next]_<<held, refused>>
    <3>1. (held' = held \ {h} \/ held' = held) /\ refused' = refused
      BY <2>6, Zenon DEF FreeCall
    <3>2. QED
      BY <2>6, <3>1 DEF Abstract!Next, Abstract!Free
  <2>7. CASE AllocNext
    BY <2>7 DEF AllocNext
  <2>8. CASE AllocNone
    <3>1. op.do = "alloc" /\ le = HEAD /\ refused' = TRUE /\ held' = held
      BY <2>8 DEF AllocNone
    <3>2. op.n \in SIZES
      BY <2>1, <3>1, TypeFacts DEF IInv
    <3>3. ASSUME NEW b \in Page, Span(b, op.n) \subseteq FreePages PROVE FALSE
      <4>1. b \in Int
        BY PageFacts
      <4>2. QED
        BY <2>1, <3>1, <3>3, <4>1, LowestRun
    <3>4. Abstract!Refuse(op.n)
      BY <2>2, <2>3, <3>1, <3>3 DEF Abstract!Refuse
    <3>5. QED
      BY <3>2, <3>4 DEF Abstract!Next
  <2>9. CASE AllocTake
    <3>1. op.do = "alloc" /\ Fits /\ held' = held \cup {<<le, op.n>>} /\ refused' = FALSE
      BY <2>9 DEF AllocTake
    <3>2. le \in Page /\ op.n \in SIZES /\ Span(le, op.n) \subseteq FreePages
      BY <2>1, <3>1, FoundIsFree
    <3>3. ASSUME NEW c \in Page, Span(c, op.n) \subseteq FreePages PROVE le <= c
      <4>1. c \in Int
        BY PageFacts
      <4>2. QED
        BY <2>1, <3>1, <3>3, <4>1, LowestRun
    <3>4. Abstract!Alloc(op.n)
      BY <2>2, <2>3, <3>1, <3>2, <3>3 DEF Abstract!Alloc
    <3>5. QED
      BY <3>2, <3>4 DEF Abstract!Next
  <2>10. CASE FreeNext
    BY <2>10, ZenonT(30) DEF FreeNext
  <2>11. CASE FreeMerge
    BY <2>11, ZenonT(30) DEF FreeMerge
  <2>12. QED
    BY <2>1, <2>4, <2>5, <2>6, <2>7, <2>8, <2>9, <2>10, <2>11 DEF Next, Walk
<1>3. QED
  BY <1>1, <1>2, Inductive, PTL DEF Spec, ImplementsFirstFree
=============================================================================
