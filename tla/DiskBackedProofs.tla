-------------------------- MODULE DiskBackedProofs --------------------------
(***************************************************************************)
(* The log and the cache in front of the disk.                             *)
(*                                                                         *)
(* The rows of a feature cache's tier are the SIEVE queue, for any nodes,  *)
(* capacity, pinned and warm nodes (TierIsSieveQueue).  The argument names *)
(* an order of rows, oldest first, which the links follow both ways and    *)
(* the index, the hand and the free list agree with (SieveInv).  Every     *)
(* operation is first a fact about such orders: a row is unlinked or       *)
(* pushed, and the eviction loop, whose hand goes round the order at most  *)
(* two times and two rows on, takes the entry the policy names.            *)
(*                                                                         *)
(* Of the log: a committed edge survives every crash and is recovered      *)
(* once, what readers see is logged first, and a poisoned graph changes    *)
(* no more.                                                                *)
(***************************************************************************)
EXTENDS Wal, SieveCache, SequenceTheorems, FiniteSetTheorems, WellFoundedInduction, TLAPS

-----------------------------------------------------------------------------
(* The queue of a tier: a row stands in one place of an order, oldest       *)
(* first, which its links follow both ways.                                 *)

Entry(L) == [node : TierNodes, visited : BOOLEAN, prev : 0 .. L, next : 0 .. L]
Queues(L) == [links : [1 .. L -> Entry(L)], head : 0 .. L, tail : 0 .. L, hand : 0 .. L]
Places(o) == 1 .. Len(o)
Older(o, k) == IF k = 1 THEN NoRow ELSE o[k - 1]
Newer(o, k) == IF k = Len(o) THEN NoRow ELSE o[k + 1]

Order(o, L) == o \in Seq(1 .. L) /\ \A j, k \in Places(o) : o[j] = o[k] => j = k
Ends(q, o) ==
  /\ q.tail = IF o = <<>> THEN NoRow ELSE o[1]
  /\ q.head = IF o = <<>> THEN NoRow ELSE o[Len(o)]
Chained(q, o) ==
  \A k \in Places(o) : q.links[o[k]].prev = Older(o, k) /\ q.links[o[k]].next = Newer(o, k)
OnChain(q, o) == q.hand = NoRow \/ \E k \in Places(o) : q.hand = o[k]
NodesApart(q, o) ==
  \A j, k \in Places(o) : q.links[o[j]].node = q.links[o[k]].node => j = k

Linked(q, o, L) ==
  /\ q \in Queues(L) /\ Order(o, L)
  /\ Ends(q, o) /\ Chained(q, o) /\ OnChain(q, o) /\ NodesApart(q, o)

Nodes(q, o) == [k \in Places(o) |-> q.links[o[k]].node]
HandNode(q) == IF q.hand = NoRow THEN None ELSE q.links[q.hand].node
Marked(q, o) == {q.links[o[k]].node : k \in {k \in Places(o) : q.links[o[k]].visited}}
TierOfRows(q, o) == [queue |-> Nodes(q, o), hand |-> HandNode(q), visited |-> Marked(q, o)]

\* What is left of a sequence without its p-th element.
Dropped(s, p) == [k \in 1 .. Len(s) - 1 |-> IF k < p THEN s[k] ELSE s[k + 1]]

LEMMA DroppedAt ==
  ASSUME NEW S, NEW s \in Seq(S), NEW p \in 1 .. Len(s)
  PROVE  /\ Abstract!RemoveAt(s, p) = Dropped(s, p)
         /\ Dropped(s, p) \in Seq(S) /\ Len(Dropped(s, p)) = Len(s) - 1
<1> DEFINE n == Len(s)
           a == SubSeq(s, 1, p - 1)
           b == SubSeq(s, p + 1, n)
<1>1. n \in Nat /\ p \in 1 .. n /\ \A k \in 1 .. n : s[k] \in S
  OBVIOUS
<1>2. a \in Seq(S) /\ Len(a) = p - 1 /\ \A k \in 1 .. p - 1 : a[k] = s[k]
  OBVIOUS
<1>3. b \in Seq(S) /\ Len(b) = n - p /\ \A k \in 1 .. n - p : b[k] = s[p + k]
  OBVIOUS
<1>4. Dropped(s, p) \in Seq(S) /\ Len(Dropped(s, p)) = n - 1
  <2>1. Dropped(s, p) \in [1 .. n - 1 -> S]
    BY <1>1 DEF Dropped
  <2> QED
    BY <1>1, <2>1
<1> HIDE DEF a, b
<1>5. a \o b \in Seq(S) /\ Len(a \o b) = n - 1
  <2>1. a \o b \in Seq(S) /\ Len(a \o b) = Len(a) + Len(b)
    BY <1>2, <1>3, ConcatProperties
  <2> QED
    BY <2>1, <1>1, <1>2, <1>3
<1>6. \A k \in 1 .. n - 1 : (a \o b)[k] = Dropped(s, p)[k]
  <2> TAKE k \in 1 .. n - 1
  <2>1. (a \o b)[k] = IF k <= p - 1 THEN a[k] ELSE b[k - (p - 1)]
    <3>1. k \in 1 .. Len(a) + Len(b)
      BY <1>1, <1>2, <1>3
    <3>2. (a \o b)[k] = IF k <= Len(a) THEN a[k] ELSE b[k - Len(a)]
      BY <1>2, <1>3, <3>1, ConcatProperties
    <3> QED
      BY <1>2, <3>2
  <2>2. Dropped(s, p)[k] = IF k < p THEN s[k] ELSE s[k + 1]
    BY DEF Dropped
  <2>3. CASE k < p
    <3>1. k <= p - 1 /\ k \in 1 .. p - 1
      BY <2>3, <1>1
    <3>2. a[k] = s[k]
      BY <1>2, <3>1
    <3> QED
      BY <2>1, <2>2, <2>3, <3>1, <3>2
  <2>4. CASE k >= p
    <3>1. k - (p - 1) \in 1 .. n - p /\ p + (k - (p - 1)) = k + 1
      BY <2>4, <1>1
    <3>2. b[k - (p - 1)] = s[k + 1]
      BY <1>3, <3>1
    <3>3. ~(k < p) /\ ~(k <= p - 1)
      BY <2>4, <1>1
    <3> QED
      BY <2>1, <2>2, <3>2, <3>3
  <2>5. k < p \/ k >= p
    BY <1>1
  <2> QED
    BY <2>3, <2>4, <2>5, Zenon
<1>7. a \o b = Dropped(s, p)
  BY <1>4, <1>5, <1>6, SeqEqual
<1> QED
  BY <1>4, <1>7 DEF Abstract!RemoveAt, a, b

LEMMA PlaceOf ==
  ASSUME NEW S, NEW s \in Seq(S), NEW p \in 1 .. Len(s),
         \A j, k \in 1 .. Len(s) : s[j] = s[k] => j = k
  PROVE  Abstract!Position(s, s[p]) = p
<1>1. DOMAIN s = 1 .. Len(s)
  OBVIOUS
<1> QED
  BY <1>1, Zenon DEF Abstract!Position

QueueWith(l, h, t, d) == [links |-> l, head |-> h, tail |-> t, hand |-> d]

LEMMA QueueFields ==
  ASSUME NEW l, NEW h, NEW t, NEW d, NEW x
  PROVE  LET q == QueueWith(l, h, t, d) IN
         /\ [q EXCEPT !.links = x] = QueueWith(x, h, t, d)
         /\ [q EXCEPT !.head = x] = QueueWith(l, x, t, d)
         /\ [q EXCEPT !.tail = x] = QueueWith(l, h, x, d)
         /\ [q EXCEPT !.hand = x] = QueueWith(l, h, t, x)
         /\ q.links = l /\ q.head = h /\ q.tail = t /\ q.hand = d
BY DEF QueueWith

LEMMA QueueIs ==
  ASSUME NEW L, NEW q \in Queues(L)
  PROVE  q = QueueWith(q.links, q.head, q.tail, q.hand)
BY DEF Queues, QueueWith

LEMMA QueueChanged ==
  ASSUME NEW L, NEW q \in Queues(L), NEW a, NEW b, NEW c
  PROVE  [q EXCEPT !.links = a, !.tail = b, !.head = c] = QueueWith(a, c, b, q.hand)
<1> DEFINE h == q.head
           t == q.tail
           d == q.hand
<1>1. [q EXCEPT !.links = a] = QueueWith(a, h, t, d)
  BY QueueIs, QueueFields
<1>2. [QueueWith(a, h, t, d) EXCEPT !.tail = b] = QueueWith(a, h, b, d)
  BY QueueFields
<1>3. [QueueWith(a, h, b, d) EXCEPT !.head = c] = QueueWith(a, c, b, d)
  BY QueueFields
<1>4. [q EXCEPT !.links = a, !.tail = b, !.head = c]
      = [[[q EXCEPT !.links = a] EXCEPT !.tail = b] EXCEPT !.head = c]
  OBVIOUS
<1> QED
  BY <1>1, <1>2, <1>3, <1>4

LEMMA LinksChanged ==
  ASSUME NEW L, NEW q \in Queues(L), NEW x
  PROVE  [q EXCEPT !.links = x] = QueueWith(x, q.head, q.tail, q.hand)
BY QueueIs, QueueFields

LEMMA EntryWith ==
  ASSUME NEW L, NEW e \in Entry(L), NEW x \in 0 .. L
  PROVE  /\ LET d == [e EXCEPT !.prev = x] IN
            d \in Entry(L) /\ d.prev = x /\ d.next = e.next /\ d.node = e.node /\ d.visited = e.visited
         /\ LET d == [e EXCEPT !.next = x] IN
            d \in Entry(L) /\ d.next = x /\ d.prev = e.prev /\ d.node = e.node /\ d.visited = e.visited
BY DEF Entry

LEMMA LinkTypes ==
  ASSUME NEW L \in Nat, NEW q, NEW o, Linked(q, o, L)
  PROVE  /\ Len(o) \in Nat /\ o \in Seq(1 .. L)
         /\ \A k \in Places(o) : o[k] \in 1 .. L /\ o[k] # NoRow /\ q.links[o[k]] \in Entry(L)
         /\ DOMAIN q.links = 1 .. L
         /\ Nodes(q, o) \in Seq(TierNodes) /\ Len(Nodes(q, o)) = Len(o)
         /\ \A k \in Places(o) : Nodes(q, o)[k] = q.links[o[k]].node
<1> USE DEF Linked, Order, Queues, Places, NoRow
<1>1. \A k \in Places(o) : o[k] \in 1 .. L /\ o[k] # NoRow /\ q.links[o[k]] \in Entry(L)
  OBVIOUS
<1>2. \A e \in Entry(L) : e.node \in TierNodes
  BY DEF Entry
<1>3. Nodes(q, o) \in [1 .. Len(o) -> TierNodes]
  BY <1>1, <1>2 DEF Nodes
<1> QED
  BY <1>1, <1>3, SMTT(30) DEF Nodes

\* Taking the p-th row out of the links takes it out of the order.
\* unlink closes the chain around an entry.
LEMMA Unlinked ==
  ASSUME NEW L \in Nat, NEW q, NEW o, Linked(q, o, L), NEW p \in Places(o), q.hand # o[p]
  PROVE  LET u == Unlink(q, o[p]) IN
         /\ Linked(u, Dropped(o, p), L)
         /\ \A i \in 1 .. L : u.links[i].node = q.links[i].node /\ u.links[i].visited = q.links[i].visited
         /\ u.hand = q.hand
<1> DEFINE r == o[p]
           prev == q.links[r].prev
           next == q.links[r].next
           mended == [i \in 1 .. L |->
                   IF i = r THEN [q.links[i] EXCEPT !.prev = NoRow, !.next = NoRow]
                   ELSE IF i = prev THEN [q.links[i] EXCEPT !.next = next]
                   ELSE IF i = next THEN [q.links[i] EXCEPT !.prev = prev]
                   ELSE q.links[i]]
           u == [links |-> mended, tail |-> IF prev = NoRow THEN next ELSE q.tail,
                 head |-> IF next = NoRow THEN prev ELSE q.head, hand |-> q.hand]
           o2 == Dropped(o, p)
           n == Len(o)
<1>1. DOMAIN q.links = 1 .. L /\ n \in Nat /\ p \in 1 .. n
  BY LinkTypes DEF Places
<1>2. q \in Queues(L)
  BY DEF Linked
<1>3. Unlink(q, r) = u
  <2>1. [q EXCEPT !.links = mended, !.tail = IF prev = NoRow THEN next ELSE @,
                  !.head = IF next = NoRow THEN prev ELSE @] = u
    <3> HIDE DEF mended, prev, next
    <3> DEFINE a == IF prev = NoRow THEN next ELSE q.tail
               b == IF next = NoRow THEN prev ELSE q.head
    <3>1. u = QueueWith(mended, b, a, q.hand)
      BY DEF QueueWith
    <3> HIDE DEF u, a, b
    <3>2. [q EXCEPT !.links = mended, !.tail = a, !.head = b] = u
      BY <1>2, <3>1, QueueChanged, Zenon
    <3> QED
      BY <3>2 DEF a, b
  <2>2. mended = [i \in DOMAIN q.links |->
                   IF i = r THEN [q.links[i] EXCEPT !.prev = NoRow, !.next = NoRow]
                   ELSE IF i = prev THEN [q.links[i] EXCEPT !.next = next]
                   ELSE IF i = next THEN [q.links[i] EXCEPT !.prev = prev]
                   ELSE q.links[i]]
    BY <1>1, Zenon
  <2> QED
    BY <2>1, <2>2, Zenon DEF Unlink
<1>4. /\ o2 \in Seq(1 .. L) /\ Len(o2) = n - 1
      /\ \A k \in 1 .. n - 1 : o2[k] = IF k < p THEN o[k] ELSE o[k + 1]
  BY DroppedAt, LinkTypes DEF Dropped, Places
<1>5. prev = Older(o, p) /\ next = Newer(o, p) /\ prev \in 0 .. L /\ next \in 0 .. L /\ r \in 1 .. L
  BY LinkTypes DEF Linked, Chained, Entry
<1>6. \A j, k \in 1 .. n : o[j] = o[k] => j = k
  BY DEF Linked, Order, Places
<1>7. \A k \in 1 .. n : o[k] \in 1 .. L /\ o[k] # NoRow /\ q.links[o[k]] \in Entry(L)
  BY LinkTypes DEF Places
<1>8. \A i \in 1 .. L : q.links[i] \in Entry(L)
  BY DEF Linked, Queues
<1>9. u \in Queues(L)
  <2>1. \A i \in 1 .. L : mended[i] \in Entry(L)
    <3> TAKE i \in 1 .. L
    <3> DEFINE e == q.links[i]
    <3>1. e \in Entry(L) /\ NoRow \in 0 .. L
      BY <1>8 DEF NoRow
    <3>2. /\ [e EXCEPT !.prev = NoRow, !.next = NoRow] \in Entry(L)
          /\ [e EXCEPT !.next = next] \in Entry(L) /\ [e EXCEPT !.prev = prev] \in Entry(L)
      <4> HIDE DEF e, prev, next
      <4> QED
        BY <3>1, <1>5 DEF Entry
    <3> QED
      BY <3>1, <3>2
  <2>2. q.tail \in 0 .. L /\ q.head \in 0 .. L /\ q.hand \in 0 .. L
    BY DEF Linked, Queues
  <2>3. mended \in [1 .. L -> Entry(L)]
    BY <2>1
  <2> HIDE DEF mended, prev, next
  <2> QED
    BY <1>5, <2>2, <2>3 DEF Queues
<1>10. \A i \in 1 .. L : mended[i].node = q.links[i].node /\ mended[i].visited = q.links[i].visited
  BY <1>8 DEF Entry
<1>11. Order(o2, L)
  <2>1. \A j, k \in 1 .. n - 1 : o2[j] = o2[k] => j = k
    <3> TAKE j, k \in 1 .. n - 1
    <3> DEFINE aj == IF j < p THEN j ELSE j + 1
               ak == IF k < p THEN k ELSE k + 1
    <3>3. aj \in 1 .. n /\ ak \in 1 .. n
      BY <1>1
    <3>4. o2[j] = o[aj] /\ o2[k] = o[ak]
      <4> HIDE DEF o2
      <4> QED
        BY <1>4
    <3>1. aj \in 1 .. n /\ ak \in 1 .. n /\ o2[j] = o[aj] /\ o2[k] = o[ak]
      BY <3>3, <3>4
    <3>2. aj = ak => j = k
      BY <1>1
    <3> HIDE DEF aj, ak, o2
    <3> QED
      BY <3>1, <3>2, <1>6
  <2> HIDE DEF o2
  <2> QED
    BY <1>4, <2>1 DEF Order, Places
<1>12. Chained(u, o2)
  <2> SUFFICES ASSUME NEW k \in 1 .. n - 1
               PROVE  mended[o2[k]].prev = Older(o2, k) /\ mended[o2[k]].next = Newer(o2, k)
    BY <1>4 DEF Chained, Places
  <2> DEFINE at == IF k < p THEN k ELSE k + 1
  <2>1. at \in 1 .. n /\ at # p /\ o2[k] = o[at] /\ o[at] # r /\ o[at] \in 1 .. L
    BY <1>1, <1>4, <1>6, <1>7, SMTT(30)
  <2>2. q.links[o[at]].prev = Older(o, at) /\ q.links[o[at]].next = Newer(o, at)
    BY <2>1 DEF Linked, Chained, Places
  <2>3. o[at] = prev <=> at = p - 1
    BY <1>1, <1>5, <1>6, <1>7, <2>1 DEF Older
  <2>4. o[at] = next <=> at = p + 1
    BY <1>1, <1>5, <1>6, <1>7, <2>1 DEF Newer
  <2>5. q.links[o[at]] \in Entry(L)
    BY <2>1, <1>7
  <2> DEFINE e == q.links[o[at]]
  <2>6. mended[o[at]] = IF at = p - 1 THEN [e EXCEPT !.next = next]
                        ELSE IF at = p + 1 THEN [e EXCEPT !.prev = prev] ELSE e
    BY <2>1, <2>3, <2>4
  <2>11. /\ e.prev = Older(o, at) /\ e.next = Newer(o, at)
         /\ [e EXCEPT !.next = next].next = next /\ [e EXCEPT !.next = next].prev = e.prev
         /\ [e EXCEPT !.prev = prev].prev = prev /\ [e EXCEPT !.prev = prev].next = e.next
    <3> HIDE DEF prev, next, e
    <3> QED
      BY <1>5, <2>2, <2>5, EntryWith DEF e
  <2>7. mended[o[at]].prev = IF at = p + 1 THEN prev ELSE Older(o, at)
    <3> HIDE DEF mended, prev, next, e, at
    <3> QED
      BY <2>2, <2>6, <2>11, <1>1
  <2>8. mended[o[at]].next = IF at = p - 1 THEN next ELSE Newer(o, at)
    <3> HIDE DEF mended, prev, next, e, at
    <3> QED
      BY <2>2, <2>6, <2>11, <1>1
  <2> HIDE DEF mended, prev, next
  <2>12. n - 1 \in Nat /\ at = (IF k < p THEN k ELSE k + 1) /\ k \in 1 .. n - 1 /\ p \in 1 .. n
    BY <1>1
  <2>13. \A i \in 1 .. n - 1 : o2[i] = IF i < p THEN o[i] ELSE o[i + 1]
    BY <1>4
  <2>14. Len(o2) = n - 1
    BY <1>4
  <2> HIDE DEF at, o2
  <2>9. mended[o[at]].prev = Older(o2, k)
    <3>1. CASE k < p
      BY <3>1, <2>12, <2>13, <2>7 DEF Older
    <3>2. CASE k = p
      BY <3>2, <2>12, <2>13, <1>5, <2>7 DEF Older
    <3>3. CASE k > p
      <4>1. at = k + 1 /\ at # p + 1 /\ at # 1 /\ k # 1 /\ at - 1 = k /\ k - 1 \in 1 .. n - 1 /\ ~(k - 1 < p)
            /\ (k - 1) + 1 = k
        BY <3>3, <2>12
      <4>2. o2[k - 1] = o[k]
        BY <4>1, <2>13
      <4> QED
        BY <4>1, <4>2, <2>7 DEF Older
    <3> QED
      BY <3>1, <3>2, <3>3, <2>12
  <2>10. mended[o[at]].next = Newer(o2, k)
    <3>1. CASE k < p - 1
      <4>1. at = k /\ k # p - 1 /\ k # n /\ k # n - 1 /\ k + 1 \in 1 .. n - 1 /\ k + 1 < p
        BY <3>1, <2>12
      <4>2. o2[k + 1] = o[k + 1]
        BY <4>1, <2>13
      <4> QED
        BY <4>1, <4>2, <2>8, <2>14 DEF Newer
    <3>2. CASE k = p - 1
      BY <3>2, <2>12, <2>13, <1>4, <1>5, <2>8 DEF Newer
    <3>3. CASE k >= p
      <4>1. at = k + 1 /\ at # p - 1 /\ (at = n <=> k = n - 1)
        BY <3>3, <2>12
      <4>2. k # n - 1 => /\ o2[k + 1] = o[(k + 1) + 1]
        BY <3>3, <2>12, <2>13
      <4> QED
        BY <4>1, <4>2, <2>8, <2>14 DEF Newer
    <3> QED
      BY <3>1, <3>2, <3>3, <2>12
  <2> QED
    BY <2>1, <2>9, <2>10
<1>13. Ends(u, o2)
  <2>1. q.tail = o[1] /\ q.head = o[n]
    BY <1>1 DEF Linked, Ends
  <2>2. prev = NoRow <=> p = 1
    BY <1>1, <1>5, <1>7 DEF Older
  <2>3. next = NoRow <=> p = n
    BY <1>1, <1>5, <1>7 DEF Newer
  <2>4. u.tail = IF p = 1 THEN Newer(o, p) ELSE o[1]
    BY <2>1, <2>2, <1>5
  <2>5. u.head = IF p = n THEN Older(o, p) ELSE o[n]
    BY <2>1, <2>3, <1>5
  <2>6. o2 = <<>> <=> n = 1
    BY <1>1, <1>4
  <2> HIDE DEF u, o2, r
  <2>7. u.tail = IF n = 1 THEN NoRow ELSE o2[1]
    BY <1>1, <1>4, <2>4 DEF Newer
  <2>8. u.head = IF n = 1 THEN NoRow ELSE o2[n - 1]
    <3>1. CASE p = n
      <4>1. n # 1 => n - 1 \in 1 .. n - 1 /\ n - 1 < p
        BY <1>1, <3>1
      <4>2. n # 1 => o2[n - 1] = o[n - 1]
        BY <1>4, <4>1
      <4> QED
        BY <2>5, <3>1, <4>2 DEF Older
    <3>2. CASE p # n
      <4>1. n # 1 /\ n - 1 \in 1 .. n - 1 /\ ~(n - 1 < p) /\ (n - 1) + 1 = n
        BY <1>1, <3>2
      <4>2. o2[n - 1] = o[n]
        BY <1>4, <4>1
      <4> QED
        BY <2>5, <3>2, <4>1, <4>2
    <3> QED
      BY <3>1, <3>2
  <2> QED
    BY <1>4, <2>6, <2>7, <2>8 DEF Ends
<1>14. OnChain(u, o2)
  <2>1. CASE q.hand = NoRow
    BY <2>1 DEF OnChain
  <2>2. CASE q.hand # NoRow
    <3>1. PICK k \in 1 .. n : q.hand = o[k]
      BY <2>2 DEF Linked, OnChain, Places
    <3>2. k # p
      BY <3>1
    <3> DEFINE k2 == IF k < p THEN k ELSE k - 1
    <3>3. k2 \in 1 .. n - 1 /\ o2[k2] = o[k]
      BY <1>1, <1>4, <3>2
    <3> HIDE DEF k2, o2
    <3>4. u.hand = o2[k2]
      BY <3>1, <3>3
    <3> QED
      BY <1>4, <3>3, <3>4 DEF OnChain, Places
  <2> QED
    BY <2>1, <2>2
<1>15. NodesApart(u, o2)
  <2> SUFFICES ASSUME NEW j \in 1 .. n - 1, NEW k \in 1 .. n - 1,
                      mended[o2[j]].node = mended[o2[k]].node
               PROVE  j = k
    BY <1>4, Zenon DEF NodesApart, Places
  <2> HIDE DEF mended
  <2> DEFINE aj == IF j < p THEN j ELSE j + 1
             ak == IF k < p THEN k ELSE k + 1
  <2>1. aj \in 1 .. n /\ ak \in 1 .. n /\ o2[j] = o[aj] /\ o2[k] = o[ak]
    <3>1. aj \in 1 .. n /\ ak \in 1 .. n
      BY <1>1
    <3>2. o2[j] = o[aj]
      BY <1>4
    <3>3. o2[k] = o[ak]
      BY <1>4
    <3> QED
      BY <3>1, <3>2, <3>3
  <2>2. q.links[o[aj]].node = q.links[o[ak]].node
    BY <1>7, <1>10, <2>1
  <2>3. aj = ak
    <3> HIDE DEF aj, ak
    <3> QED
      BY <2>1, <2>2 DEF Linked, NodesApart, Places
  <2> QED
    BY <1>1, <2>3
<1> HIDE DEF mended, o2
<1>16. Linked(u, o2, L)
  BY <1>9, <1>11, <1>12, <1>13, <1>14, <1>15, Zenon DEF Linked
<1>17. u.links = mended /\ u.hand = q.hand
  OBVIOUS
<1> HIDE DEF u
<1>18. \A i \in 1 .. L : u.links[i].node = q.links[i].node /\ u.links[i].visited = q.links[i].visited
  BY <1>10, <1>17
<1> QED
  BY <1>3, <1>16, <1>17, <1>18, Zenon DEF o2

LEMMA UnlinkedTier ==
  ASSUME NEW L \in Nat, NEW q, NEW o, Linked(q, o, L), NEW p \in Places(o), q.hand # o[p]
  PROVE  LET u == Unlink(q, o[p])
             d == Dropped(o, p)
         IN /\ Nodes(u, d) = Dropped(Nodes(q, o), p)
            /\ HandNode(u) = HandNode(q)
            /\ Marked(u, d) = Marked(q, o) \ {q.links[o[p]].node}
<1> DEFINE u == Unlink(q, o[p])
           d == Dropped(o, p)
           n == Len(o)
<1>1. /\ \A i \in 1 .. L : u.links[i].node = q.links[i].node /\ u.links[i].visited = q.links[i].visited
      /\ u.hand = q.hand
  BY Unlinked
<1>2. /\ n \in Nat /\ p \in 1 .. n /\ \A k \in 1 .. n : o[k] \in 1 .. L
      /\ Nodes(q, o) \in Seq(TierNodes) /\ Len(Nodes(q, o)) = n
      /\ \A k \in 1 .. n : Nodes(q, o)[k] = q.links[o[k]].node
  BY LinkTypes DEF Places
<1>3. /\ Len(d) = n - 1
      /\ \A k \in 1 .. n - 1 : d[k] = IF k < p THEN o[k] ELSE o[k + 1]
  BY DroppedAt, LinkTypes DEF Dropped, Places
<1>4. HandNode(u) = HandNode(q)
  <2>1. q.hand \in 0 .. L
    BY DEF Linked, Queues
  <2> HIDE DEF u
  <2> QED
    BY <1>1, <2>1 DEF HandNode, NoRow
<1> HIDE DEF u, d
<1>5. Nodes(u, d) = Dropped(Nodes(q, o), p)
  <2>1. Dropped(Nodes(q, o), p) = [k \in 1 .. n - 1 |-> IF k < p THEN Nodes(q, o)[k] ELSE Nodes(q, o)[k + 1]]
    BY <1>2 DEF Dropped
  <2>2. Nodes(u, d) = [k \in 1 .. n - 1 |-> u.links[d[k]].node]
    BY <1>3 DEF Nodes, Places
  <2>3. \A k \in 1 .. n - 1 : u.links[d[k]].node = IF k < p THEN Nodes(q, o)[k] ELSE Nodes(q, o)[k + 1]
    <3> TAKE k \in 1 .. n - 1
    <3>1. CASE k < p
      <4>1. k \in 1 .. n
        BY <1>2
      <4>2. d[k] = o[k] /\ o[k] \in 1 .. L
        BY <3>1, <4>1, <1>2, <1>3
      <4>3. Nodes(q, o)[k] = q.links[o[k]].node
        BY <4>1, <1>2
      <4>4. u.links[d[k]].node = q.links[o[k]].node
        BY <4>2, <1>1
      <4> QED
        BY <3>1, <4>3, <4>4
    <3>2. CASE ~(k < p)
      <4>1. k + 1 \in 1 .. n
        BY <1>2
      <4>2. d[k] = o[k + 1] /\ o[k + 1] \in 1 .. L
        BY <3>2, <4>1, <1>2, <1>3
      <4>3. Nodes(q, o)[k + 1] = q.links[o[k + 1]].node
        BY <4>1, <1>2
      <4>4. u.links[d[k]].node = q.links[o[k + 1]].node
        BY <4>2, <1>1
      <4> QED
        BY <3>2, <4>3, <4>4
    <3> QED
      BY <3>1, <3>2
  <2> QED
    BY <2>1, <2>2, <2>3
<1>6. \A j, k \in 1 .. n : q.links[o[j]].node = q.links[o[k]].node => j = k
  BY DEF Linked, NodesApart, Places
<1>7. Marked(u, d) = {q.links[o[k]].node : k \in {k \in 1 .. n : q.links[o[k]].visited /\ k # p}}
  <2>1. Marked(u, d) = {u.links[d[k]].node : k \in {k \in 1 .. n - 1 : u.links[d[k]].visited}}
    BY <1>3 DEF Marked, Places
  <2>2. ASSUME NEW k \in 1 .. n - 1
        PROVE  \E j \in 1 .. n : j # p /\ d[k] = o[j]
    BY <1>2, <1>3, SMTT(30)
  <2>3. ASSUME NEW j \in 1 .. n, j # p
        PROVE  \E k \in 1 .. n - 1 : d[k] = o[j]
    <3> DEFINE k == IF j < p THEN j ELSE j - 1
    <3>1. k \in 1 .. n - 1 /\ (k < p => k = j) /\ (~(k < p) => k + 1 = j)
      BY <2>3, <1>2
    <3>2. d[k] = IF k < p THEN o[k] ELSE o[k + 1]
      BY <1>3, <3>1
    <3> HIDE DEF k
    <3> QED
      BY <3>1, <3>2
  <2>4. ASSUME NEW x \in Marked(u, d)
        PROVE  x \in {q.links[o[k]].node : k \in {k \in 1 .. n : q.links[o[k]].visited /\ k # p}}
    <3>1. PICK k \in 1 .. n - 1 : u.links[d[k]].visited /\ x = u.links[d[k]].node
      BY <2>1
    <3>2. PICK j \in 1 .. n : j # p /\ d[k] = o[j]
      BY <2>2
    <3>3. q.links[o[j]].visited /\ x = q.links[o[j]].node
      BY <1>1, <1>2, <3>1, <3>2, Zenon
    <3> QED
      BY <3>2, <3>3
  <2>5. ASSUME NEW j \in 1 .. n, q.links[o[j]].visited, j # p
        PROVE  q.links[o[j]].node \in Marked(u, d)
    <3>1. PICK k \in 1 .. n - 1 : d[k] = o[j]
      BY <2>3, <2>5
    <3>2. u.links[d[k]].visited /\ u.links[d[k]].node = q.links[o[j]].node
      BY <1>1, <1>2, <3>1, <2>5, Zenon
    <3> QED
      BY <2>1, <3>2
  <2> QED
    BY <2>4, <2>5
<1>8. Marked(q, o) = {q.links[o[k]].node : k \in {k \in 1 .. n : q.links[o[k]].visited}}
  BY DEF Marked, Places
<1>9. Marked(u, d) = Marked(q, o) \ {q.links[o[p]].node}
  BY <1>2, <1>6, <1>7, <1>8
<1> QED
  BY <1>4, <1>5, <1>9 DEF u, d

\* Taking a node out of the links, its hand stepped off first, is remove.
\* remove on the links is remove on the queue.
LEMMA Removed ==
  ASSUME NEW L \in Nat, NEW q, NEW o, Linked(q, o, L), NEW p \in Places(o)
  PROVE  LET u == Unlink(SteppedOff(q, o[p]), o[p])
             d == Dropped(o, p)
         IN /\ Linked(u, d, L)
            /\ TierOfRows(u, d) = Abstract!Without(TierOfRows(q, o), q.links[o[p]].node)
            /\ \A i \in 1 .. L : u.links[i].node = q.links[i].node
            /\ u.hand = IF q.hand = o[p] THEN q.links[o[p]].next ELSE q.hand
<1> DEFINE r == o[p]
           n == Len(o)
           node == q.links[r].node
           s == SteppedOff(q, r)
           u == Unlink(s, r)
           d == Dropped(o, p)
           tier == TierOfRows(q, o)
           hand2 == IF q.hand = r THEN q.links[r].next ELSE q.hand
<1>1. /\ n \in Nat /\ p \in 1 .. n /\ \A k \in 1 .. n : o[k] \in 1 .. L /\ o[k] # NoRow
      /\ Nodes(q, o) \in Seq(TierNodes) /\ Len(Nodes(q, o)) = n
      /\ \A k \in 1 .. n : Nodes(q, o)[k] = q.links[o[k]].node
      /\ q.links[r] \in Entry(L)
  BY LinkTypes DEF Places
<1>2. \A j, k \in 1 .. n : o[j] = o[k] => j = k
  BY DEF Linked, Order, Places
<1>3. q.links[r].next = Newer(o, p) /\ q.links[r].next \in 0 .. L
  BY <1>1 DEF Linked, Chained, Entry
<1>4. s = QueueWith(q.links, q.head, q.tail, hand2)
  <2>1. s = [q EXCEPT !.hand = hand2]
    BY DEF SteppedOff
  <2> HIDE DEF hand2, s
  <2> QED
    BY <2>1, QueueIs, QueueFields DEF Linked
<1>5. s.links = q.links /\ s.head = q.head /\ s.tail = q.tail /\ s.hand = hand2
  BY <1>4, QueueFields
<1>6. hand2 # r
  BY <1>1, <1>2, <1>3 DEF Newer
<1>7. hand2 \in 0 .. L
  BY <1>3 DEF Linked, Queues
<1> HIDE DEF s, hand2
<1>8. Linked(s, o, L)
  <2>1. s \in Queues(L)
    BY <1>4, <1>7 DEF QueueWith, Linked, Queues
  <2>2. Ends(s, o) /\ Chained(s, o) /\ NodesApart(s, o)
    BY <1>5 DEF Linked, Ends, Chained, NodesApart
  <2>3. OnChain(s, o)
    <3>1. CASE q.hand = r
      <4>1. hand2 = Newer(o, p)
        BY <3>1, <1>3 DEF hand2
      <4> QED
        BY <4>1, <1>1, <1>5 DEF OnChain, Newer, Places
    <3>2. CASE q.hand # r
      BY <3>2, <1>5 DEF hand2, Linked, OnChain
    <3> QED
      BY <3>1, <3>2
  <2> QED
    BY <2>1, <2>2, <2>3 DEF Linked
<1>9. /\ Linked(u, d, L)
      /\ \A i \in 1 .. L : u.links[i].node = q.links[i].node
      /\ u.hand = hand2
  BY <1>5, <1>6, <1>8, Unlinked
<1>10. /\ Nodes(u, d) = Dropped(Nodes(s, o), p)
       /\ HandNode(u) = HandNode(s)
       /\ Marked(u, d) = Marked(s, o) \ {s.links[r].node}
  BY <1>5, <1>6, <1>8, UnlinkedTier
<1>11. Nodes(s, o) = Nodes(q, o) /\ Marked(s, o) = Marked(q, o) /\ s.links[r].node = node
  BY <1>5 DEF Nodes, Marked
<1>12. \A j, k \in 1 .. n : Nodes(q, o)[j] = Nodes(q, o)[k] => j = k
  BY <1>1 DEF Linked, NodesApart, Places
<1>13. Abstract!Position(Nodes(q, o), node) = p
  BY <1>1, <1>12, PlaceOf
<1>14. Abstract!Resident(tier) = {Nodes(q, o)[k] : k \in 1 .. n}
  BY <1>1 DEF Abstract!Resident, Abstract!ToSet, TierOfRows
<1>15. node \in Abstract!Resident(tier)
  BY <1>1, <1>14
<1>16. HandNode(q) = node <=> q.hand = r
  <2>1. node \in TierNodes /\ node # None
    BY <1>1, SieveAssumption DEF Entry
  <2>2. CASE q.hand = NoRow
    BY <2>1, <2>2, <1>1 DEF HandNode
  <2>3. CASE q.hand # NoRow
    <3>1. PICK k \in 1 .. n : q.hand = o[k]
      BY <2>3 DEF Linked, OnChain, Places
    <3>2. q.links[o[k]].node = node <=> k = p
      BY <1>1, <1>12
    <3>3. o[k] = r <=> k = p
      BY <1>1, <1>2
    <3> QED
      BY <2>3, <3>1, <3>2, <3>3 DEF HandNode
  <2> QED
    BY <2>2, <2>3
<1>17. HandNode(s) = IF HandNode(q) = node THEN Abstract!NextOf(Nodes(q, o), node) ELSE HandNode(q)
  <2>1. CASE q.hand = r
    <3>1. s.hand = Newer(o, p)
      BY <1>3, <1>5, <2>1 DEF hand2
    <3>2. Abstract!NextOf(Nodes(q, o), node) = IF p = n THEN None ELSE Nodes(q, o)[p + 1]
      BY <1>1, <1>13 DEF Abstract!NextOf, Abstract!NIL, None
    <3>3. CASE p = n
      BY <3>1, <3>2, <3>3, <2>1, <1>16 DEF Newer, HandNode
    <3>4. CASE p # n
      <4>1. p + 1 \in 1 .. n
        BY <3>4, <1>1
      <4> QED
        BY <3>1, <3>2, <3>4, <4>1, <2>1, <1>1, <1>5, <1>16 DEF Newer, HandNode
    <3> QED
      BY <3>3, <3>4
  <2>2. CASE q.hand # r
    BY <2>2, <1>5, <1>16 DEF hand2, HandNode
  <2> QED
    BY <2>1, <2>2
<1>18. Abstract!RemoveAt(Nodes(q, o), p) = Dropped(Nodes(q, o), p)
  BY <1>1, DroppedAt
<1>19. /\ tier.queue = Nodes(q, o) /\ tier.hand = HandNode(q) /\ tier.visited = Marked(q, o)
       /\ TierOfRows(u, d) = [queue |-> Nodes(u, d), hand |-> HandNode(u), visited |-> Marked(u, d)]
  BY DEF TierOfRows
<1> HIDE DEF u, d, tier, node
<1>20. TierOfRows(u, d) = Abstract!Without(tier, node)
  BY <1>10, <1>11, <1>13, <1>15, <1>17, <1>18, <1>19, Zenon DEF Abstract!Without
<1> QED
  BY <1>9, <1>20 DEF u, d, tier, node, s, hand2

\* A queue in which a row of no place got a new entry.
Refilled(q, r, e) ==
  LET vacant == IF r > Len(q.links) THEN Append(q.links, [node |-> None]) ELSE q.links
  IN [q EXCEPT !.links = [vacant EXCEPT ![r] = e]]

IsRefilled(q, o, L, r, e) ==
  LET f == Refilled(q, r, e)
  IN /\ Linked(f, o, IF r > L THEN L + 1 ELSE L)
     /\ Len(q.links) = L
     /\ \A i \in 1 .. L : i # r => f.links[i] = q.links[i]
     /\ f.links[r] = e /\ f.hand = q.hand
     /\ TierOfRows(f, o) = TierOfRows(q, o)

\* A row of no place takes a newcomer without disturbing the queue.
LEMMA RowRefilled ==
  ASSUME NEW L \in Nat, NEW q, NEW o, Linked(q, o, L),
         NEW r \in 1 .. L + 1, \A k \in Places(o) : o[k] # r,
         NEW e \in Entry(0)
  PROVE  IsRefilled(q, o, L, r, e)
<1> DEFINE M == IF r > L THEN L + 1 ELSE L
           vacant == IF r > L THEN Append(q.links, [node |-> None]) ELSE q.links
           ls == [vacant EXCEPT ![r] = e]
           f == QueueWith(ls, q.head, q.tail, q.hand)
<1>1. q \in Queues(L) /\ q.links \in [1 .. L -> Entry(L)]
  BY DEF Linked, Queues
<1>2. Len(q.links) = L /\ q.links \in Seq(Entry(L))
  BY <1>1
<1>3. Refilled(q, r, e) = [q EXCEPT !.links = ls]
  BY <1>2 DEF Refilled
<1>4. DOMAIN vacant = 1 .. M /\ \A i \in 1 .. L : vacant[i] = q.links[i]
  <2>1. CASE r > L
    <3> DEFINE new == [node |-> None]
    <3> HIDE DEF new
    <3>1. Append(q.links, new) = [i \in 1 .. L + 1 |-> IF i = L + 1 THEN new ELSE q.links[i]]
      BY <1>1
    <3> QED
      BY <2>1, <3>1 DEF new
  <2>2. CASE ~(r > L)
    BY <2>2, <1>1
  <2> QED
    BY <2>1, <2>2
<1>5. r \in 1 .. M /\ M \in Nat /\ L <= M /\ \A i \in 1 .. M : i = r \/ i \in 1 .. L
  OBVIOUS
<1> HIDE DEF vacant, M
<1>6. DOMAIN ls = 1 .. M /\ ls[r] = e /\ \A i \in 1 .. L : i # r => ls[i] = q.links[i]
  BY <1>4, <1>5
<1>7. Refilled(q, r, e) = f
  <2> HIDE DEF ls
  <2>1. [q EXCEPT !.links = ls] = QueueWith(ls, q.head, q.tail, q.hand)
    BY <1>1, LinksChanged
  <2> QED
    BY <1>3, <2>1, Zenon
<1>8. e \in Entry(M) /\ Entry(L) \subseteq Entry(M)
  BY <1>5 DEF Entry
<1>9. ls \in [1 .. M -> Entry(M)]
  <2>1. \A i \in 1 .. M : ls[i] \in Entry(M)
    <3> HIDE DEF ls
    <3> QED
      BY <1>1, <1>5, <1>6, <1>8
  <2>2. ls = [i \in 1 .. M |-> ls[i]]
    BY <1>4
  <2> HIDE DEF ls
  <2> QED
    BY <2>1, <2>2
<1> HIDE DEF ls
<1>10. f.links = ls /\ f.head = q.head /\ f.tail = q.tail /\ f.hand = q.hand
  BY QueueFields
<1>11. f \in Queues(M)
  BY <1>1, <1>5, <1>9 DEF Queues, QueueWith
<1> HIDE DEF f
<1>12. \A k \in Places(o) : o[k] \in 1 .. L /\ f.links[o[k]] = q.links[o[k]]
  BY <1>6, <1>10, LinkTypes
<1>13. Order(o, M)
  <2>1. o \in Seq(1 .. M)
    BY <1>5 DEF Linked, Order
  <2> QED
    BY <2>1 DEF Linked, Order
<1>14. Linked(f, o, M)
  BY <1>10, <1>11, <1>12, <1>13 DEF Linked, Ends, Chained, OnChain, NodesApart
<1>15. Nodes(f, o) = Nodes(q, o) /\ Marked(f, o) = Marked(q, o)
  BY <1>12 DEF Nodes, Marked
<1>16. HandNode(f) = HandNode(q)
  BY <1>10, <1>12 DEF HandNode, Linked, OnChain
<1>17. TierOfRows(f, o) = TierOfRows(q, o)
  BY <1>15, <1>16 DEF TierOfRows
<1> QED
  BY <1>2, <1>6, <1>7, <1>10, <1>14, <1>17 DEF M, IsRefilled

\* push_head: a row put at the head is the newest in the order.
LEMMA Pushed ==
  ASSUME NEW L \in Nat, NEW q, NEW o, Linked(q, o, L),
         NEW r \in 1 .. L, \A k \in Places(o) : o[k] # r /\ q.links[o[k]].node # q.links[r].node
  PROVE  LET u == PushHead(q, r)
             a == Append(o, r)
             node == q.links[r].node
         IN /\ Linked(u, a, L)
            /\ \A i \in 1 .. L : u.links[i].node = q.links[i].node /\ u.links[i].visited = q.links[i].visited
            /\ TierOfRows(u, a) = [queue |-> Append(Nodes(q, o), node), hand |-> HandNode(q),
                                   visited |-> Marked(q, o) \cup (IF q.links[r].visited THEN {node} ELSE {})]
<1> DEFINE n == Len(o)
           a == Append(o, r)
           old == q.head
           node == q.links[r].node
           ls == [i \in 1 .. L |->
                    IF i = r THEN [q.links[i] EXCEPT !.prev = old, !.next = NoRow]
                    ELSE IF i = old THEN [q.links[i] EXCEPT !.next = r]
                    ELSE q.links[i]]
           tail2 == IF old = NoRow THEN r ELSE q.tail
           u == QueueWith(ls, r, tail2, q.hand)
<1>1. q \in Queues(L) /\ DOMAIN q.links = 1 .. L /\ old \in 0 .. L /\ q.tail \in 0 .. L /\ q.hand \in 0 .. L
      /\ \A i \in 1 .. L : q.links[i] \in Entry(L)
  BY DEF Linked, Queues
<1>2. /\ n \in Nat /\ o \in Seq(1 .. L) /\ \A k \in 1 .. n : o[k] \in 1 .. L /\ o[k] # NoRow
      /\ \A k \in 1 .. n : o[k] # r /\ q.links[o[k]].node # node
  BY LinkTypes DEF Places
<1>3. a \in Seq(1 .. L) /\ Len(a) = n + 1 /\ a[n + 1] = r /\ \A k \in 1 .. n : a[k] = o[k]
  BY <1>2
<1>4. old = IF n = 0 THEN NoRow ELSE o[n]
  BY <1>2 DEF Linked, Ends
<1>5. \A j, k \in 1 .. n : o[j] = o[k] => j = k
  BY DEF Linked, Order, Places
<1>6. PushHead(q, r) = u
  <2>1. ls = [i \in DOMAIN q.links |->
                IF i = r THEN [q.links[i] EXCEPT !.prev = old, !.next = NoRow]
                ELSE IF i = old THEN [q.links[i] EXCEPT !.next = r]
                ELSE q.links[i]]
    BY <1>1, Zenon
  <2> HIDE DEF ls
  <2>2. [[[q EXCEPT !.links = ls] EXCEPT !.head = r] EXCEPT !.tail = tail2] = u
    <3> HIDE DEF tail2
    <3>1. [q EXCEPT !.links = ls] = QueueWith(ls, q.head, q.tail, q.hand)
      BY <1>1, QueueIs, QueueFields
    <3>2. [QueueWith(ls, q.head, q.tail, q.hand) EXCEPT !.head = r] = QueueWith(ls, r, q.tail, q.hand)
      BY QueueFields
    <3>3. [QueueWith(ls, r, q.tail, q.hand) EXCEPT !.tail = tail2] = QueueWith(ls, r, tail2, q.hand)
      BY QueueFields
    <3> QED
      BY <3>1, <3>2, <3>3
  <2>3. [q EXCEPT !.links = ls, !.head = r, !.tail = IF old = NoRow THEN r ELSE @]
        = [[[q EXCEPT !.links = ls] EXCEPT !.head = r] EXCEPT !.tail = tail2]
    OBVIOUS
  <2> QED
    BY <2>1, <2>2, <2>3, Zenon DEF PushHead
<1> DEFINE Spliced(i) ==
             /\ ls[i] \in Entry(L) /\ ls[i].node = q.links[i].node /\ ls[i].visited = q.links[i].visited
           NewPrev(i) == IF i = r THEN old ELSE q.links[i].prev
           NewNext(i) == IF i = r THEN NoRow ELSE IF i = old THEN r ELSE q.links[i].next
<1>23. \A i \in 1 .. L : Spliced(i) /\ ls[i].prev = NewPrev(i) /\ ls[i].next = NewNext(i)
  <2> TAKE i \in 1 .. L
  <2> DEFINE e == q.links[i]
  <2>1. e \in Entry(L) /\ NoRow \in 0 .. L /\ r \in 0 .. L /\ old \in 0 .. L
    BY <1>1 DEF NoRow
  <2>2. ls[i] = IF i = r THEN [e EXCEPT !.prev = old, !.next = NoRow]
                ELSE IF i = old THEN [e EXCEPT !.next = r] ELSE e
    OBVIOUS
  <2>3. /\ [e EXCEPT !.prev = old, !.next = NoRow] \in Entry(L)
        /\ [e EXCEPT !.prev = old, !.next = NoRow].node = e.node
        /\ [e EXCEPT !.prev = old, !.next = NoRow].visited = e.visited
        /\ [e EXCEPT !.prev = old, !.next = NoRow].prev = old
        /\ [e EXCEPT !.prev = old, !.next = NoRow].next = NoRow
    <3> HIDE DEF e, old
    <3> QED
      BY <2>1 DEF Entry
  <2>4. /\ [e EXCEPT !.next = r] \in Entry(L)
        /\ [e EXCEPT !.next = r].node = e.node /\ [e EXCEPT !.next = r].visited = e.visited
        /\ [e EXCEPT !.next = r].prev = e.prev /\ [e EXCEPT !.next = r].next = r
    <3> HIDE DEF e, old
    <3> QED
      BY <2>1 DEF Entry
  <2>5. q.links[i] = e
    OBVIOUS
  <2> HIDE DEF ls, e, old
  <2>6. CASE i = r
    <3>1. ls[i] = [e EXCEPT !.prev = old, !.next = NoRow] /\ NewPrev(i) = old /\ NewNext(i) = NoRow
      BY <2>2, <2>6
    <3> HIDE DEF NewPrev, NewNext
    <3> QED
      BY <2>3, <2>5, <3>1, Zenon
  <2>7. CASE i # r /\ i = old
    <3>1. ls[i] = [e EXCEPT !.next = r] /\ NewPrev(i) = e.prev /\ NewNext(i) = r
      BY <2>2, <2>5, <2>7
    <3> HIDE DEF NewPrev, NewNext
    <3> QED
      BY <2>4, <2>5, <3>1, Zenon
  <2>8. CASE i # r /\ i # old
    <3>1. ls[i] = e /\ NewPrev(i) = e.prev /\ NewNext(i) = e.next
      BY <2>2, <2>5, <2>8
    <3> HIDE DEF NewPrev, NewNext
    <3> QED
      BY <2>1, <2>5, <3>1, Zenon
  <2> QED
    BY <2>6, <2>7, <2>8
<1>7. \A i \in 1 .. L : /\ ls[i] \in Entry(L)
                       /\ ls[i].node = q.links[i].node /\ ls[i].visited = q.links[i].visited
  BY <1>23, Zenon
<1>8. ls \in [1 .. L -> Entry(L)]
  <2>1. ls = [i \in 1 .. L |-> ls[i]]
    OBVIOUS
  <2> HIDE DEF ls
  <2> QED
    BY <1>7, <2>1
<1> HIDE DEF ls, old
<1>21. \A i \in 1 .. L : ls[i].prev = IF i = r THEN old ELSE q.links[i].prev
  BY <1>23, Zenon
<1>22. \A i \in 1 .. L : ls[i].next = IF i = r THEN NoRow ELSE IF i = old THEN r ELSE q.links[i].next
  BY <1>23, Zenon
<1> USE DEF old
<1>9. u \in Queues(L) /\ u.links = ls /\ u.head = r /\ u.tail = tail2 /\ u.hand = q.hand
  <2>1. tail2 \in 0 .. L
    BY <1>1
  <2> HIDE DEF tail2
  <2> QED
    BY <1>1, <1>8, <2>1 DEF Queues, QueueWith
<1> HIDE DEF u
<1>10. Order(a, L)
  <2>1. \A j, k \in 1 .. n + 1 : a[j] = a[k] => j = k
    <3> TAKE j, k \in 1 .. n + 1
    <3>1. (j = n + 1 \/ j \in 1 .. n) /\ (k = n + 1 \/ k \in 1 .. n)
      BY <1>2
    <3> HIDE DEF a
    <3> QED
      BY <3>1, <1>2, <1>3, <1>5
  <2> HIDE DEF a
  <2> QED
    BY <1>3, <2>1 DEF Order, Places
<1>11. Ends(u, a)
  <2>1. q.tail = IF n = 0 THEN NoRow ELSE o[1]
    BY <1>2 DEF Linked, Ends
  <2>2. old = NoRow <=> n = 0
    BY <1>2, <1>4
  <2>3. tail2 = a[1]
    <3> HIDE DEF a, old
    <3> QED
      BY <2>1, <2>2, <1>2, <1>3
  <2>4. a # <<>>
    <3>1. Len(a) # 0
      BY <1>3, <1>2
    <3> HIDE DEF a
    <3> QED
      BY <3>1
  <2> HIDE DEF a, tail2
  <2> QED
    BY <1>3, <1>9, <2>3, <2>4 DEF Ends
<1>12. Chained(u, a)
  <2> SUFFICES ASSUME NEW k \in 1 .. n + 1
               PROVE  ls[a[k]].prev = Older(a, k) /\ ls[a[k]].next = Newer(a, k)
    BY <1>3, <1>9 DEF Chained, Places
  <2> HIDE DEF a, old
  <2>1. CASE k = n + 1
    <3>1. ls[r].prev = old /\ ls[r].next = NoRow
      BY <1>21, <1>22
    <3>3. n # 0 => n \in 1 .. n
      BY <1>2
    <3>2. n # 0 => a[n] = o[n]
      BY <1>3, <3>3
    <3> QED
      BY <2>1, <3>1, <3>2, <1>2, <1>3, <1>4 DEF Older, Newer
  <2>2. CASE k # n + 1
    <3>1. k \in 1 .. n /\ a[k] = o[k] /\ o[k] \in 1 .. L /\ o[k] # r
      BY <2>2, <1>2, <1>3
    <3>2. q.links[o[k]].prev = Older(o, k) /\ q.links[o[k]].next = Newer(o, k)
      BY <3>1 DEF Linked, Chained, Places
    <3>3. o[k] = old <=> k = n
      BY <3>1, <1>2, <1>4, <1>5
    <3>4. ls[o[k]].prev = Older(o, k) /\ ls[o[k]].next = IF k = n THEN r ELSE Newer(o, k)
      <4>1. /\ ls[o[k]].prev = IF o[k] = r THEN old ELSE q.links[o[k]].prev
            /\ ls[o[k]].next = IF o[k] = r THEN NoRow ELSE IF o[k] = old THEN r ELSE q.links[o[k]].next
        BY <3>1, <1>21, <1>22
      <4> QED
        BY <4>1, <3>1, <3>2, <3>3
    <3>5. Older(a, k) = Older(o, k)
      <4>1. k # 1 => k - 1 \in 1 .. n
        BY <3>1, <1>2
      <4> QED
        BY <4>1, <1>3 DEF Older
    <3>6. Newer(a, k) = IF k = n THEN r ELSE Newer(o, k)
      <4>1. k # n => k + 1 \in 1 .. n
        BY <3>1, <1>2
      <4>2. k # Len(a)
        BY <3>1, <1>2, <1>3
      <4> QED
        BY <4>1, <4>2, <1>3 DEF Newer
    <3> QED
      BY <3>1, <3>4, <3>5, <3>6
  <2> QED
    BY <2>1, <2>2
<1>13. OnChain(u, a)
  <2> HIDE DEF a
  <2>1. \A k \in 1 .. n : k \in 1 .. n + 1 /\ a[k] = o[k]
    BY <1>2, <1>3
  <2> QED
    BY <1>3, <1>9, <2>1 DEF OnChain, Linked, Places
<1>14. \A k \in 1 .. n : ls[o[k]].node = q.links[o[k]].node /\ ls[o[k]].visited = q.links[o[k]].visited
  BY <1>2, <1>7
<1>15. NodesApart(u, a)
  <2> SUFFICES ASSUME NEW j \in 1 .. n + 1, NEW k \in 1 .. n + 1, ls[a[j]].node = ls[a[k]].node
               PROVE  j = k
    BY <1>3, <1>9, Zenon DEF NodesApart, Places
  <2>1. (j = n + 1 \/ j \in 1 .. n) /\ (k = n + 1 \/ k \in 1 .. n)
    BY <1>2
  <2>2. ls[r].node = node
    BY <1>7
  <2>3. \A i, m \in 1 .. n : q.links[o[i]].node = q.links[o[m]].node => i = m
    BY DEF Linked, NodesApart, Places
  <2> HIDE DEF a, node
  <2>4. CASE j = n + 1 /\ k \in 1 .. n
    BY <2>2, <2>4, <1>2, <1>3, <1>14, ZenonT(30)
  <2>5. CASE k = n + 1 /\ j \in 1 .. n
    BY <2>2, <2>5, <1>2, <1>3, <1>14, ZenonT(30)
  <2>6. CASE j \in 1 .. n /\ k \in 1 .. n
    <3>1. a[j] = o[j] /\ a[k] = o[k]
      BY <2>6, <1>3
    <3>2. q.links[o[j]].node = q.links[o[k]].node
      BY <3>1, <2>6, <1>14, Zenon
    <3> QED
      BY <3>2, <2>3, <2>6
  <2> QED
    BY <2>1, <2>4, <2>5, <2>6
<1>16. Linked(u, a, L)
  BY <1>9, <1>10, <1>11, <1>12, <1>13, <1>15 DEF Linked
<1>17. Nodes(u, a) = Append(Nodes(q, o), node)
  <2>1. Nodes(u, a) = [k \in 1 .. n + 1 |-> ls[a[k]].node]
    BY <1>3, <1>9 DEF Nodes, Places
  <2>2. /\ Nodes(q, o) \in Seq(TierNodes) /\ Len(Nodes(q, o)) = n
        /\ \A k \in 1 .. n : Nodes(q, o)[k] = q.links[o[k]].node
    BY LinkTypes DEF Places
  <2>3. node \in TierNodes
    BY <1>1 DEF Entry
  <2>4. Append(Nodes(q, o), node) = [k \in 1 .. n + 1 |-> IF k = n + 1 THEN node ELSE Nodes(q, o)[k]]
    <3> DEFINE before == Nodes(q, o)
    <3>1. before \in Seq(TierNodes) /\ Len(before) = n
      BY <2>2
    <3> HIDE DEF node, before
    <3>2. Append(before, node) = [k \in 1 .. n + 1 |-> IF k = n + 1 THEN node ELSE before[k]]
      <4> DEFINE f == [k \in 1 .. n + 1 |-> IF k = n + 1 THEN node ELSE before[k]]
      <4>1. f \in [1 .. n + 1 -> TierNodes] /\ \A k \in 1 .. n + 1 : f[k] = IF k = n + 1 THEN node ELSE before[k]
        BY <3>1, <2>3, <1>2
      <4> HIDE DEF f
      <4>2. f \in Seq(TierNodes) /\ Len(f) = n + 1
        BY <4>1, <1>2, SMTT(30)
      <4>3. /\ Append(before, node) \in Seq(TierNodes) /\ Len(Append(before, node)) = n + 1
            /\ \A k \in 1 .. n + 1 : Append(before, node)[k] = IF k = n + 1 THEN node ELSE before[k]
        BY <3>1, <2>3, <1>2, AppendProperties
      <4> QED
        BY <4>1, <4>2, <4>3, SeqEqual DEF f
    <3> QED
      BY <3>2 DEF before
  <2>5. \A k \in 1 .. n + 1 : ls[a[k]].node = IF k = n + 1 THEN node ELSE Nodes(q, o)[k]
    <3> TAKE k \in 1 .. n + 1
    <3>1. k = n + 1 \/ k \in 1 .. n
      BY <1>2
    <3> HIDE DEF a
    <3> QED
      BY <3>1, <2>2, <1>3, <1>7, <1>14
  <2> HIDE DEF a, node
  <2> QED
    BY <2>1, <2>4, <2>5
<1>18. Marked(u, a) = Marked(q, o) \cup (IF q.links[r].visited THEN {node} ELSE {})
  <2>1. Marked(u, a) = {ls[a[k]].node : k \in {k \in 1 .. n + 1 : ls[a[k]].visited}}
    BY <1>3, <1>9 DEF Marked, Places
  <2>2. Marked(q, o) = {q.links[o[k]].node : k \in {k \in 1 .. n : q.links[o[k]].visited}}
    BY DEF Marked, Places
  <2>3. \A k \in 1 .. n + 1 : k = n + 1 \/ k \in 1 .. n
    BY <1>2
  <2>4. \A k \in 1 .. n : k \in 1 .. n + 1 /\ ls[a[k]].node = q.links[o[k]].node /\ ls[a[k]].visited = q.links[o[k]].visited
    BY <1>2, <1>3, <1>14
  <2>5. n + 1 \in 1 .. n + 1 /\ ls[a[n + 1]].node = node /\ ls[a[n + 1]].visited = q.links[r].visited
    BY <1>2, <1>3, <1>7
  <2> HIDE DEF a, node
  <2> QED
    BY <2>1, <2>2, <2>3, <2>4, <2>5
<1>19. HandNode(u) = HandNode(q)
  BY <1>1, <1>7, <1>9 DEF HandNode, NoRow
<1> HIDE DEF a
<1>20. TierOfRows(u, a) = [queue |-> Append(Nodes(q, o), node), hand |-> HandNode(q),
                          visited |-> Marked(q, o) \cup (IF q.links[r].visited THEN {node} ELSE {})]
  BY <1>17, <1>18, <1>19 DEF TierOfRows
<1> QED
  BY <1>6, <1>7, <1>9, <1>16, <1>20 DEF a

-----------------------------------------------------------------------------
(* The eviction loop.                                                      *)

LEMMA FirstOf ==
  ASSUME NEW S \in SUBSET Nat, S # {}
  PROVE  \E k \in S : \A j \in S : k <= j
<1>1. IsWellFoundedOn(OpToRel(<, Nat), Nat)
  BY NatLessThanWellFounded
<1>2. PICK k \in S : \A j \in S : ~(<<j, k>> \in OpToRel(<, Nat))
  BY <1>1, WFMin
<1>3. ASSUME NEW j \in S PROVE k <= j
  <2>1. j \in Nat /\ k \in Nat
    OBVIOUS
  <2>2. j < k => <<j, k>> \in OpToRel(<, Nat)
    BY <2>1 DEF OpToRel
  <2>3. ~(j < k)
    BY <1>2, <2>2, Zenon
  <2> QED
    BY <2>1, <2>3
<1> QED
  BY <1>3

\* Induction along a sequence.
LEMMA Along ==
  ASSUME NEW T, NEW n \in Nat, NEW h, h[0] \in T,
         \A i \in 1 .. n : h[i - 1] \in T => h[i] \in T
  PROVE  h[n] \in T
<1> DEFINE Wrong == {i \in 0 .. n : h[i] \notin T}
<1> SUFFICES ASSUME Wrong # {} PROVE FALSE
  OBVIOUS
<1>1. PICK k \in Wrong : \A j \in Wrong : k <= j
  <2>1. Wrong \in SUBSET Nat
    OBVIOUS
  <2> HIDE DEF Wrong
  <2> QED
    BY <2>1, FirstOf
<1>2. k \in 1 .. n
  BY <1>1
<1>3. k - 1 \in 0 .. n /\ ~(k <= k - 1)
  BY <1>2
<1>4. h[k - 1] \in T
  BY <1>1, <1>3
<1> QED
  BY <1>1, <1>2, <1>4

IsSweep(g, q, budget) ==
  /\ g = [k \in 0 .. budget |-> g[k]]
  /\ g[0] = [queue |-> q, found |-> NoRow]
  /\ \A k \in 1 .. budget :
       g[k] = IF g[k - 1].found # NoRow THEN g[k - 1] ELSE Turn(Wrapped(g[k - 1].queue))

\* A sequence of turns is the sweep.
LEMMA SweepIs ==
  ASSUME NEW q, NEW budget \in Nat, NEW g, IsSweep(g, q, budget)
  PROVE  Sweep(q, budget) = g[budget]
<1> USE DEF IsSweep
<1> DEFINE base == [queue |-> q, found |-> NoRow]
           Onward(x) == IF x.found # NoRow THEN x ELSE Turn(Wrapped(x.queue))
           Run(f) == [k \in 0 .. budget |->
                        IF k = 0 THEN base
                        ELSE IF f[k - 1].found # NoRow THEN f[k - 1]
                        ELSE Turn(Wrapped(f[k - 1].queue))]
           sweep == CHOOSE f : f = Run(f)
<1>1. g = Run(g)
  <2>1. \A k \in 0 .. budget : g[k] = Run(g)[k]
    <3> TAKE k \in 0 .. budget
    <3>1. CASE k = 0
      BY <3>1
    <3>2. CASE k # 0
      <4>1. k \in 1 .. budget
        BY <3>2
      <4> QED
        BY <3>2, <4>1
    <3> QED
      BY <3>1, <3>2
  <2>2. Run(g) = [k \in 0 .. budget |-> Run(g)[k]]
    OBVIOUS
  <2> HIDE DEF Run
  <2> QED
    BY <2>1, <2>2
<1> HIDE DEF Run
<1>2. sweep = Run(sweep)
  BY <1>1, Zenon
<1>3. Sweep(q, budget) = sweep[budget]
  BY DEF Sweep, sweep, Run
<1> HIDE DEF sweep
<1>4. /\ sweep[0] = base
      /\ \A k \in 1 .. budget :
           sweep[k] = IF sweep[k - 1].found # NoRow THEN sweep[k - 1] ELSE Turn(Wrapped(sweep[k - 1].queue))
  BY <1>2 DEF Run
<1> DEFINE T == {1}
           h == [k \in 0 .. budget |-> IF sweep[k] = g[k] THEN 1 ELSE 0]
<1>5. h[0] \in T
  BY <1>4
<1>6. \A i \in 1 .. budget : h[i - 1] \in T => h[i] \in T
  <2> TAKE i \in 1 .. budget
  <2> HAVE h[i - 1] \in T
  <2>1. sweep[i - 1] = g[i - 1] /\ i \in 0 .. budget
    OBVIOUS
  <2>2. sweep[i] = Onward(sweep[i - 1]) /\ g[i] = Onward(g[i - 1])
    BY <1>4, Zenon DEF Onward
  <2>3. sweep[i] = g[i]
    <3> HIDE DEF Onward
    <3> QED
      BY <2>1, <2>2, Zenon
  <2> QED
    BY <2>1, <2>3
<1> HIDE DEF h, T
<1>7. h[budget] \in T
  BY <1>5, <1>6, Along, Zenon
<1> QED
  BY <1>3, <1>7 DEF h, T

\* The place the hand is on in the k-th turn, when it begins at place s of n.
Place(s, n, k) ==
  LET x == (s - 1) + k
  IN IF x <= n THEN x ELSE IF x <= 2 * n THEN x - n ELSE IF x <= 3 * n THEN x - 2 * n ELSE x - 3 * n

LEMMA PlaceSteps ==
  ASSUME NEW n \in Nat, n # 0, NEW s \in 1 .. n
  PROVE  /\ Place(s, n, 1) = s
         /\ \A k \in 1 .. 2 * n + 2 : Place(s, n, k) \in 1 .. n
         /\ \A k \in 2 .. 2 * n + 2 :
              Place(s, n, k) = IF Place(s, n, k - 1) = n THEN 1 ELSE Place(s, n, k - 1) + 1
BY DEF Place

LEMMA PlaceTurns ==
  ASSUME NEW n \in Nat, n # 0, NEW s \in 1 .. n
  PROVE  /\ \A k \in 1 .. n : Place(s, n, n + k) = Place(s, n, k)
         /\ \A j, k \in 1 .. n : Place(s, n, j) = Place(s, n, k) => j = k
         /\ \A i \in 1 .. n : \E k \in 1 .. n : Place(s, n, k) = i
         /\ \A k \in 1 .. n : Place(s, n, k) = IF k <= n - s + 1 THEN s - 1 + k ELSE k - (n - s + 1)
<1>1. \A k \in 1 .. n : Place(s, n, n + k) = Place(s, n, k)
  BY DEF Place
<1>2. \A j, k \in 1 .. n : Place(s, n, j) = Place(s, n, k) => j = k
  BY DEF Place
<1>3. ASSUME NEW i \in 1 .. n PROVE \E k \in 1 .. n : Place(s, n, k) = i
  <2> DEFINE k == IF i >= s THEN i - s + 1 ELSE n - s + 1 + i
  <2>1. k \in 1 .. n /\ Place(s, n, k) = i
    BY DEF Place
  <2> QED
    BY <2>1
<1>4. \A k \in 1 .. n : Place(s, n, k) = IF k <= n - s + 1 THEN s - 1 + k ELSE k - (n - s + 1)
  BY DEF Place
<1> QED
  BY <1>1, <1>2, <1>3, <1>4

\* Where the hand is when the budget has run out.
LEMMA PlaceOver ==
  ASSUME NEW n \in Nat, n # 0, NEW s \in 1 .. n
  PROVE  LET over == (s + 1) % n
             p == Place(s, n, 2 * n + 2)
         IN over = IF p = n THEN 0 ELSE p
<1>1. Place(s, n, 2 * n + 2) = IF s + 1 <= n THEN s + 1 ELSE IF n = 1 THEN 1 ELSE s + 1 - n
  BY DEF Place
<1>2. CASE s + 1 < n
  <2>1. (s + 1) % n = s + 1
    BY <1>2
  <2> QED
    BY <1>1, <1>2, <2>1
<1>3. CASE s + 1 = n
  <2>1. n % n = 0
    OBVIOUS
  <2> QED
    BY <1>1, <1>3, <2>1
<1>4. CASE s + 1 > n
  <2>1. s + 1 = n + 1
    BY <1>4
  <2>2. (n + 1) % n = IF n = 1 THEN 0 ELSE 1
    <3>1. CASE n = 1
      BY <3>1
    <3>2. CASE n # 1
      BY <3>2
    <3> QED
      BY <3>1, <3>2
  <2> QED
    BY <1>1, <1>4, <2>1, <2>2
<1> QED
  BY <1>2, <1>3, <1>4

StartsAt(q, o, s) == s \in Places(o) /\ (IF q.hand = NoRow THEN s = 1 ELSE q.hand = o[s])

\* The rows the hand was on in the first k turns, and the queue after them.
PassedRows(o, s, k) == {o[Place(s, Len(o), j)] : j \in 1 .. k}
Bit(q, i, rows) == q.links[i].visited /\ (q.links[i].node \in Pinned \/ i \notin rows)
Cleared(q, rows, L) == [i \in 1 .. L |-> [q.links[i] EXCEPT !.visited = Bit(q, i, rows)]]
After(q, o, s, k, L) ==
  QueueWith(Cleared(q, PassedRows(o, s, k), L), q.head, q.tail,
            IF k = 0 THEN q.hand ELSE Newer(o, Place(s, Len(o), k)))

StillMarked(q, o, rows) == {q.links[o[k]].node : k \in {k \in Places(o) : Bit(q, o[k], rows)}}

LEMMA ClearedLinks ==
  ASSUME NEW L \in Nat, NEW q \in Queues(L), NEW rows
  PROVE  LET c == Cleared(q, rows, L) IN
         /\ c \in [1 .. L -> Entry(L)]
         /\ \A i \in 1 .. L : /\ c[i].node = q.links[i].node /\ c[i].prev = q.links[i].prev
                               /\ c[i].next = q.links[i].next
         /\ \A i \in 1 .. L : c[i].visited = Bit(q, i, rows)
<1> DEFINE c == Cleared(q, rows, L)
<1>1. ASSUME NEW i \in 1 .. L
      PROVE  LET e == q.links[i]
                 d == [e EXCEPT !.visited = Bit(q, i, rows)]
             IN d \in Entry(L) /\ d.node = e.node /\ d.prev = e.prev /\ d.next = e.next
                /\ d.visited = Bit(q, i, rows)
  <2> DEFINE e == q.links[i]
             b == Bit(q, i, rows)
  <2>1. e \in Entry(L)
    BY DEF Queues
  <2>2. b \in BOOLEAN
    BY <2>1 DEF Bit, Entry
  <2> HIDE DEF e, b
  <2>3. [e EXCEPT !.visited = b] = [node |-> e.node, visited |-> b, prev |-> e.prev, next |-> e.next]
    BY <2>1 DEF Entry
  <2>4. [node |-> e.node, visited |-> b, prev |-> e.prev, next |-> e.next] \in Entry(L)
    BY <2>1, <2>2 DEF Entry
  <2> QED
    BY <2>3, <2>4, Zenon DEF e, b
<1>2. \A i \in 1 .. L : c[i] = [q.links[i] EXCEPT !.visited = Bit(q, i, rows)]
  BY DEF Cleared
<1>3. c = [i \in 1 .. L |-> c[i]]
  BY DEF Cleared
<1> HIDE DEF c
<1>4. \A i \in 1 .. L : c[i] \in Entry(L)
  BY <1>1, <1>2
<1>5. \A i \in 1 .. L : /\ c[i].node = q.links[i].node /\ c[i].prev = q.links[i].prev
                         /\ c[i].next = q.links[i].next
  BY <1>1, <1>2
<1>6. \A i \in 1 .. L : c[i].visited = Bit(q, i, rows)
  BY <1>1, <1>2, Zenon
<1>7. c \in [1 .. L -> Entry(L)]
  BY <1>3, <1>4
<1> QED
  BY <1>5, <1>6, <1>7, Zenon DEF c

\* A queue with some bits cleared and the hand on another place is linked the
\* same way.
LEMMA ClearedLinked ==
  ASSUME NEW L \in Nat, NEW q, NEW o, Linked(q, o, L), NEW rows,
         NEW hand2 \in 0 .. L, hand2 = NoRow \/ \E k \in Places(o) : hand2 = o[k]
  PROVE  LET c == QueueWith(Cleared(q, rows, L), q.head, q.tail, hand2)
         IN /\ Linked(c, o, L)
            /\ \A i \in 1 .. L : c.links[i].node = q.links[i].node
            /\ Nodes(c, o) = Nodes(q, o)
            /\ Marked(c, o) = StillMarked(q, o, rows)
<1> DEFINE c == QueueWith(Cleared(q, rows, L), q.head, q.tail, hand2)
<1>1. q \in Queues(L)
  BY DEF Linked
<1>2. c.links = Cleared(q, rows, L) /\ c.head = q.head /\ c.tail = q.tail /\ c.hand = hand2
  BY QueueFields
<1>3. c \in Queues(L)
  BY <1>1, ClearedLinks DEF Queues, QueueWith
<1> HIDE DEF c
<1>4. \A i \in 1 .. L : /\ c.links[i].node = q.links[i].node /\ c.links[i].prev = q.links[i].prev
                         /\ c.links[i].next = q.links[i].next
  BY <1>1, <1>2, ClearedLinks
<1>5. \A i \in 1 .. L : c.links[i].visited = Bit(q, i, rows)
  <2>1. \A i \in 1 .. L : Cleared(q, rows, L)[i].visited = Bit(q, i, rows)
    BY <1>1, ClearedLinks, Zenon
  <2> QED
    BY <1>2, <2>1, Zenon
<1>6. \A k \in Places(o) : o[k] \in 1 .. L
  BY LinkTypes
<1>7. Linked(c, o, L)
  BY <1>2, <1>3, <1>4, <1>6 DEF Linked, Ends, Chained, OnChain, NodesApart
<1>8. Nodes(c, o) = Nodes(q, o)
  BY <1>4, <1>6 DEF Nodes
<1>9. Marked(c, o) = {q.links[o[k]].node : k \in {k \in Places(o) : Bit(q, o[k], rows)}}
  <2>1. \A k \in Places(o) : (c.links[o[k]].visited <=> Bit(q, o[k], rows)) /\ c.links[o[k]].node = q.links[o[k]].node
    BY <1>4, <1>5, <1>6, Zenon
  <2> QED
    BY <2>1 DEF Marked
<1> QED
  BY <1>4, <1>7, <1>8, <1>9 DEF c, StillMarked

StaysAt(q, o, s, k) ==
  LET r == o[Place(s, Len(o), k)]
  IN q.links[r].node \in Pinned \/ Bit(q, r, PassedRows(o, s, k - 1))

\* The queue as the hand reaches the row of the k-th turn.
Reached(q, o, s, k, L) ==
  QueueWith(Cleared(q, PassedRows(o, s, k - 1), L), q.head, q.tail, o[Place(s, Len(o), k)])

\* What a turn finds: an entry that stays, or the victim.
LEMMA TurnTaken ==
  ASSUME NEW L \in Nat, NEW q, NEW o, Linked(q, o, L), NEW s, StartsAt(q, o, s),
         NEW k \in 1 .. 2 * Len(o) + 2
  PROVE  LET r == o[Place(s, Len(o), k)]
         IN Turn(Wrapped(After(q, o, s, k - 1, L))) =
              IF StaysAt(q, o, s, k) THEN [queue |-> After(q, o, s, k, L), found |-> NoRow]
              ELSE [queue |-> Unlink(SteppedOff(Reached(q, o, s, k, L), r), r), found |-> r]
<1> DEFINE n == Len(o)
           p == Place(s, n, k)
           r == o[p]
           rows == PassedRows(o, s, k - 1)
           c == Cleared(q, rows, L)
           before == After(q, o, s, k - 1, L)
           on == QueueWith(c, q.head, q.tail, r)
           hand1 == IF k - 1 = 0 THEN q.hand ELSE Newer(o, Place(s, n, k - 1))
<1>1. /\ n \in Nat /\ n # 0 /\ s \in 1 .. n /\ \A i \in 1 .. n : o[i] \in 1 .. L /\ o[i] # NoRow
      /\ k \in Nat /\ k >= 1
  BY LinkTypes DEF StartsAt, Places
<1>2. p \in 1 .. n /\ (k = 1 => p = s)
      /\ (k # 1 => /\ Place(s, n, k - 1) \in 1 .. n
                   /\ p = IF Place(s, n, k - 1) = n THEN 1 ELSE Place(s, n, k - 1) + 1)
  <2>1. /\ Place(s, n, 1) = s
        /\ \A i \in 1 .. 2 * n + 2 : Place(s, n, i) \in 1 .. n
        /\ \A i \in 2 .. 2 * n + 2 :
             Place(s, n, i) = IF Place(s, n, i - 1) = n THEN 1 ELSE Place(s, n, i - 1) + 1
    BY <1>1, PlaceSteps
  <2>2. k # 1 => k \in 2 .. 2 * n + 2 /\ k - 1 \in 1 .. 2 * n + 2
    BY <1>1
  <2> QED
    BY <2>1, <2>2
<1>3. r \in 1 .. L /\ r # NoRow
  BY <1>1, <1>2
<1> HIDE DEF n, p
<1>4. Wrapped(before) = on
  <2>1. before = QueueWith(c, q.head, q.tail, hand1)
    BY DEF After, n
  <2> HIDE DEF before, c, hand1, r
  <2>2. before.hand = hand1 /\ before.tail = q.tail
    BY <2>1, QueueFields
  <2>3. [before EXCEPT !.hand = r] = on
    BY <2>1, QueueFields
  <2>4. q.tail = o[1]
    BY <1>1 DEF Linked, Ends, n
  <2>5. (IF hand1 = NoRow THEN q.tail ELSE hand1) = r
    <3>1. CASE k = 1
      <4>1. hand1 = q.hand
        BY <3>1 DEF hand1
      <4> QED
        BY <3>1, <4>1, <2>4, <1>2, <1>1 DEF StartsAt, r
    <3>2. CASE k # 1
      <4> DEFINE before1 == Place(s, n, k - 1)
      <4>1. hand1 = Newer(o, before1) /\ before1 \in 1 .. n
        BY <3>2, <1>1, <1>2 DEF hand1
      <4>2. p = IF before1 = n THEN 1 ELSE before1 + 1
        BY <3>2, <1>2
      <4> HIDE DEF before1
      <4> QED
        BY <4>1, <4>2, <2>4, <1>1, <1>2 DEF Newer, r, n
    <3> QED
      BY <3>1, <3>2
  <2>6. Wrapped(before) = [before EXCEPT !.hand = IF before.hand = NoRow THEN before.tail ELSE before.hand]
    BY DEF Wrapped
  <2> QED
    BY <2>2, <2>3, <2>5, <2>6
<1>5. on.links = c /\ on.head = q.head /\ on.tail = q.tail /\ on.hand = r
  BY QueueFields
<1>6. q \in Queues(L)
  BY DEF Linked
<1>7. c \in [1 .. L -> Entry(L)] /\ c[r].node = q.links[r].node /\ c[r].next = q.links[r].next
  BY <1>3, <1>6, ClearedLinks
<1>8. c[r].visited = Bit(q, r, rows)
  BY <1>3, <1>6, ClearedLinks, Zenon
<1>9. q.links[r].next = Newer(o, p)
  BY <1>2 DEF Linked, Chained, Places, n
<1> DEFINE stays == q.links[r].node \in Pinned \/ Bit(q, r, rows)
<1>10. Stays(on, on.hand) <=> stays
  BY <1>5, <1>7, <1>8, Zenon DEF Stays
<1>11. Passed(on) = After(q, o, s, k, L)
  <2> DEFINE ls == [c EXCEPT ![r].visited = @ /\ c[r].node \in Pinned]
  <2>1. Passed(on) = [[on EXCEPT !.links = [on.links EXCEPT ![on.hand].visited =
                          on.links[on.hand].visited /\ on.links[on.hand].node \in Pinned]]
                      EXCEPT !.hand = on.links[on.hand].next]
    BY DEF Passed
  <2>2. Passed(on) = QueueWith(ls, q.head, q.tail, Newer(o, p))
    <3> DEFINE ls2 == [c EXCEPT ![r].visited = c[r].visited /\ c[r].node \in Pinned]
    <3>1. ls = ls2
      OBVIOUS
    <3>2. [on.links EXCEPT ![on.hand].visited = on.links[on.hand].visited /\ on.links[on.hand].node \in Pinned] = ls2
      BY <1>5
    <3>3. on.links[on.hand].next = Newer(o, p)
      BY <1>5, <1>7, <1>9
    <3> HIDE DEF ls, ls2, c
    <3>4. [on EXCEPT !.links = ls2] = QueueWith(ls2, q.head, q.tail, r)
      BY QueueFields
    <3>5. [QueueWith(ls2, q.head, q.tail, r) EXCEPT !.hand = Newer(o, p)] = QueueWith(ls2, q.head, q.tail, Newer(o, p))
      BY QueueFields
    <3> HIDE DEF on
    <3> QED
      BY <2>1, <3>1, <3>2, <3>3, <3>4, <3>5
  <2>3. PassedRows(o, s, k) = rows \cup {r}
    <3>1. 1 .. k = (1 .. k - 1) \cup {k}
      BY <1>1
    <3> QED
      BY <3>1 DEF PassedRows, r, p, n
  <2>4. ls = Cleared(q, PassedRows(o, s, k), L)
    <3> DEFINE d == Cleared(q, rows \cup {r}, L)
    <3>1. \A i \in 1 .. L : ls[i] = d[i]
      <4> TAKE i \in 1 .. L
      <4> DEFINE e == q.links[i]
      <4>1. c[i] = [e EXCEPT !.visited = Bit(q, i, rows)] /\ d[i] = [e EXCEPT !.visited = Bit(q, i, rows \cup {r})]
        BY DEF Cleared
      <4>2. CASE i # r
        <5>1. Bit(q, i, rows \cup {r}) <=> Bit(q, i, rows)
          BY <4>2 DEF Bit
        <5>2. Bit(q, i, rows \cup {r}) \in BOOLEAN /\ Bit(q, i, rows) \in BOOLEAN
          BY <1>6 DEF Bit, Queues, Entry
        <5>3. d[i] = c[i]
          BY <4>1, <5>1, <5>2
        <5>4. ls[i] = c[i]
          BY <4>2, <1>7
        <5> QED
          BY <5>3, <5>4
      <4>3. CASE i = r
        <5> DEFINE b == Bit(q, r, rows)
                   b2 == c[r].visited /\ c[r].node \in Pinned
        <5>1. Bit(q, r, rows \cup {r}) <=> (b /\ q.links[r].node \in Pinned)
          BY DEF Bit
        <5>2. b2 <=> Bit(q, r, rows \cup {r})
          BY <5>1, <1>7, <1>8, Zenon
        <5>3. b2 \in BOOLEAN /\ Bit(q, r, rows \cup {r}) \in BOOLEAN
          BY <1>6, <1>3 DEF Bit, Queues, Entry
        <5>4. ls[r] = [c[r] EXCEPT !.visited = b2]
          BY <1>3, <1>7
        <5>5. b2 = Bit(q, r, rows \cup {r})
          BY <5>2, <5>3
        <5>6. q.links[r] \in Entry(L)
          BY <1>3, <1>6 DEF Queues
        <5> HIDE DEF b2, b
        <5> DEFINE b3 == Bit(q, r, rows \cup {r})
                   b4 == Bit(q, r, rows)
        <5>7. ls[r] = [c[r] EXCEPT !.visited = b3] /\ c[r] = [q.links[r] EXCEPT !.visited = b4]
              /\ d[r] = [q.links[r] EXCEPT !.visited = b3]
          BY <4>1, <4>3, <5>4, <5>5
        <5> HIDE DEF b3, b4, ls, c, d
        <5>8. [[q.links[r] EXCEPT !.visited = b4] EXCEPT !.visited = b3] = [q.links[r] EXCEPT !.visited = b3]
          BY <5>6 DEF Entry
        <5> QED
          BY <5>7, <5>8, <4>3
      <4> QED
        BY <4>2, <4>3
    <3>2. ls = [i \in 1 .. L |-> ls[i]] /\ d = [i \in 1 .. L |-> d[i]]
      BY <1>7 DEF Cleared
    <3> HIDE DEF ls, d
    <3>3. ls = d
      BY <3>1, <3>2
    <3> QED
      BY <3>3, <2>3 DEF d
  <2> QED
    BY <2>2, <2>4, <1>1 DEF After, p, n
<1>12. SteppedOff(on, r) = [on EXCEPT !.hand = on.links[on.hand].next]
  BY <1>5 DEF SteppedOff
<1>13. Turn(on) = IF stays THEN [queue |-> Passed(on), found |-> NoRow]
                  ELSE [queue |-> Unlink([on EXCEPT !.hand = on.links[on.hand].next], r), found |-> r]
  <2> HIDE DEF on, stays
  <2> QED
    BY <1>3, <1>5, <1>10, Zenon DEF Turn
<1> HIDE DEF on, before, stays
<1>14. Turn(Wrapped(before)) = IF stays THEN [queue |-> After(q, o, s, k, L), found |-> NoRow]
                               ELSE [queue |-> Unlink(SteppedOff(on, r), r), found |-> r]
  BY <1>4, <1>11, <1>12, <1>13, Zenon
<1> QED
  BY <1>14, Zenon DEF on, before, stays, p, n, rows, StaysAt, Reached

LEMMA BeforeSweep ==
  ASSUME NEW L \in Nat, NEW q \in Queues(L), NEW o, NEW s
  PROVE  After(q, o, s, 0, L) = q
<1>1. PassedRows(o, s, 0) = {}
  BY DEF PassedRows
<1>2. \A i \in 1 .. L : [q.links[i] EXCEPT !.visited = Bit(q, i, {})] = q.links[i]
  <2> TAKE i \in 1 .. L
  <2> DEFINE e == q.links[i]
             b == Bit(q, i, {})
  <2>1. e \in Entry(L)
    BY DEF Queues
  <2>2. b <=> e.visited
    BY DEF Bit
  <2>3. b \in BOOLEAN /\ e.visited \in BOOLEAN
    BY <2>1 DEF Bit, Entry
  <2>4. b = e.visited
    BY <2>2, <2>3
  <2> HIDE DEF b, e
  <2> QED
    BY <2>1, <2>4 DEF Entry, b, e
<1>3. Cleared(q, {}, L) = q.links
  <2>1. q.links = [i \in 1 .. L |-> q.links[i]]
    BY DEF Queues
  <2> QED
    BY <1>2, <2>1 DEF Cleared
<1> QED
  BY <1>1, <1>3, QueueIs DEF After

\* The loop, when every turn meets an entry that stays.
LEMMA SweepPasses ==
  ASSUME NEW L \in Nat, NEW q, NEW o, Linked(q, o, L), NEW s, StartsAt(q, o, s),
         NEW budget \in 0 .. 2 * Len(o) + 2, \A k \in 1 .. budget : StaysAt(q, o, s, k)
  PROVE  Sweep(q, budget) = [queue |-> After(q, o, s, budget, L), found |-> NoRow]
<1> DEFINE g == [k \in 0 .. budget |-> [queue |-> After(q, o, s, k, L), found |-> NoRow]]
<1>1. Len(o) \in Nat
  BY LinkTypes
<1>2. budget \in Nat /\ 0 \in 0 .. budget /\ budget \in 0 .. budget
  BY <1>1
<1>3. g[0] = [queue |-> q, found |-> NoRow]
  BY <1>2, BeforeSweep DEF Linked
<1>4. ASSUME NEW k \in 1 .. budget
      PROVE  g[k] = IF g[k - 1].found # NoRow THEN g[k - 1] ELSE Turn(Wrapped(g[k - 1].queue))
  <2>1. k \in 1 .. 2 * Len(o) + 2 /\ k \in 0 .. budget /\ k - 1 \in 0 .. budget
    BY <1>1
  <2>2. Turn(Wrapped(After(q, o, s, k - 1, L))) = [queue |-> After(q, o, s, k, L), found |-> NoRow]
    BY <2>1, TurnTaken
  <2>3. /\ g[k] = [queue |-> After(q, o, s, k, L), found |-> NoRow]
        /\ g[k - 1].found = NoRow /\ g[k - 1].queue = After(q, o, s, k - 1, L)
    BY <2>1
  <2> HIDE DEF g
  <2> QED
    BY <2>2, <2>3
<1>5. g = [k \in 0 .. budget |-> g[k]] /\ g[budget] = [queue |-> After(q, o, s, budget, L), found |-> NoRow]
  BY <1>2
<1> HIDE DEF g
<1>7. g = [k \in 0 .. budget |-> g[k]]
  BY <1>5
<1>8. \A k \in 1 .. budget : g[k] = IF g[k - 1].found # NoRow THEN g[k - 1] ELSE Turn(Wrapped(g[k - 1].queue))
  BY <1>4
<1>6. Sweep(q, budget) = g[budget]
  <2>1. IsSweep(g, q, budget)
    BY <1>2, <1>3, <1>7, <1>8, Zenon DEF IsSweep
  <2> QED
    BY <2>1, <1>2, SweepIs
<1> QED
  BY <1>5, <1>6

\* The loop, when the m-th turn is the first to meet one that does not.
LEMMA SweepFinds ==
  ASSUME NEW L \in Nat, NEW q, NEW o, Linked(q, o, L), NEW s, StartsAt(q, o, s),
         NEW budget \in 0 .. 2 * Len(o) + 2, NEW m \in 1 .. budget,
         \A k \in 1 .. m - 1 : StaysAt(q, o, s, k), ~StaysAt(q, o, s, m)
  PROVE  LET r == o[Place(s, Len(o), m)]
         IN Sweep(q, budget) = [queue |-> Unlink(SteppedOff(Reached(q, o, s, m, L), r), r), found |-> r]
<1> DEFINE r == o[Place(s, Len(o), m)]
           last == [queue |-> Unlink(SteppedOff(Reached(q, o, s, m, L), r), r), found |-> r]
           g == [k \in 0 .. budget |-> IF k < m THEN [queue |-> After(q, o, s, k, L), found |-> NoRow] ELSE last]
<1>1. Len(o) \in Nat
  BY LinkTypes
<1>2. budget \in Nat /\ 0 \in 0 .. budget /\ budget \in 0 .. budget /\ m \in 1 .. 2 * Len(o) + 2
  BY <1>1
<1>3. g[0] = [queue |-> q, found |-> NoRow]
  BY <1>2, BeforeSweep DEF Linked
<1>4. Turn(Wrapped(After(q, o, s, m - 1, L))) = last
  <2>1. Turn(Wrapped(After(q, o, s, m - 1, L))) =
           IF StaysAt(q, o, s, m) THEN [queue |-> After(q, o, s, m, L), found |-> NoRow] ELSE last
    BY <1>2, TurnTaken DEF last, r
  <2> QED
    BY <2>1, Zenon
<1>5. r # NoRow
  <2>1. Place(s, Len(o), m) \in 1 .. Len(o)
    BY <1>1, <1>2, PlaceSteps DEF StartsAt, Places
  <2> QED
    BY <2>1, LinkTypes DEF Places
<1> HIDE DEF r
<1>6. last.found # NoRow
  BY <1>5
<1> HIDE DEF last
<1>7. ASSUME NEW k \in 1 .. budget
      PROVE  g[k] = IF g[k - 1].found # NoRow THEN g[k - 1] ELSE Turn(Wrapped(g[k - 1].queue))
  <2>1. k \in 1 .. 2 * Len(o) + 2 /\ k \in 0 .. budget /\ k - 1 \in 0 .. budget
    BY <1>1
  <2>2. CASE k < m
    <3>1. k \in 1 .. m - 1 /\ k - 1 < m
      BY <2>2
    <3>2. Turn(Wrapped(After(q, o, s, k - 1, L))) = [queue |-> After(q, o, s, k, L), found |-> NoRow]
      BY <2>1, <3>1, TurnTaken
    <3>3. /\ g[k] = [queue |-> After(q, o, s, k, L), found |-> NoRow]
          /\ g[k - 1].found = NoRow /\ g[k - 1].queue = After(q, o, s, k - 1, L)
      BY <2>1, <2>2, <3>1
    <3> HIDE DEF g
    <3> QED
      BY <3>2, <3>3
  <2>3. CASE k = m
    <3>1. k - 1 < m /\ ~(k < m)
      BY <2>3
    <3>2. /\ g[k] = last
          /\ g[k - 1].found = NoRow /\ g[k - 1].queue = After(q, o, s, k - 1, L)
      BY <2>1, <3>1
    <3> HIDE DEF g
    <3> QED
      BY <2>3, <3>2, <1>4
  <2>4. CASE k > m
    <3>1. ~(k - 1 < m) /\ ~(k < m)
      BY <2>4
    <3>2. g[k] = last /\ g[k - 1] = last
      BY <2>1, <3>1
    <3> HIDE DEF g
    <3> QED
      BY <3>2, <1>6
  <2> QED
    BY <2>2, <2>3, <2>4
<1>8. g = [k \in 0 .. budget |-> g[k]] /\ g[budget] = last
  BY <1>2
<1> HIDE DEF g
<1>9. Sweep(q, budget) = g[budget]
  <2>1. IsSweep(g, q, budget)
    BY <1>2, <1>3, <1>7, <1>8, Zenon DEF IsSweep
  <2> QED
    BY <2>1, <1>2, SweepIs
<1> QED
  BY <1>8, <1>9 DEF last, r

LEMMA SweepEmpty ==
  ASSUME NEW L \in Nat, NEW q, NEW o, Linked(q, o, L), Len(o) = 0, NEW budget \in Nat
  PROVE  Sweep(q, budget) = [queue |-> q, found |-> NoRow] /\ q.hand = NoRow
<1>1. q.hand = NoRow
  BY DEF Linked, OnChain, Places
<1>2. q.tail = NoRow
  <2>1. o = <<>>
    BY DEF Linked, Order
  <2> QED
    BY <2>1 DEF Linked, Ends
<1>3. Turn(Wrapped(q)) = [queue |-> q, found |-> NoRow]
  <2>1. [q EXCEPT !.hand = NoRow] = q
    BY <1>1, QueueIs, QueueFields DEF Linked
  <2>2. Wrapped(q) = q
    BY <1>1, <1>2, <2>1 DEF Wrapped
  <2> QED
    BY <1>1, <2>2 DEF Turn
<1> DEFINE g == [k \in 0 .. budget |-> [queue |-> q, found |-> NoRow]]
<1>4. /\ g = [k \in 0 .. budget |-> g[k]] /\ g[0] = [queue |-> q, found |-> NoRow]
      /\ g[budget] = [queue |-> q, found |-> NoRow]
  OBVIOUS
<1>5. ASSUME NEW k \in 1 .. budget
      PROVE  g[k] = IF g[k - 1].found # NoRow THEN g[k - 1] ELSE Turn(Wrapped(g[k - 1].queue))
  <2>1. g[k] = [queue |-> q, found |-> NoRow] /\ g[k - 1] = [queue |-> q, found |-> NoRow]
    OBVIOUS
  <2> HIDE DEF g
  <2> QED
    BY <2>1, <1>3
<1> HIDE DEF g
<1>7. g = [k \in 0 .. budget |-> g[k]]
  BY <1>4
<1>8. \A k \in 1 .. budget : g[k] = IF g[k - 1].found # NoRow THEN g[k - 1] ELSE Turn(Wrapped(g[k - 1].queue))
  BY <1>5
<1>6. Sweep(q, budget) = g[budget]
  <2>1. IsSweep(g, q, budget)
    BY <1>4, <1>7, <1>8, Zenon DEF IsSweep
  <2> QED
    BY <2>1, <1>4, SweepIs
<1> QED
  BY <1>1, <1>4, <1>6

LEMMA StartOf ==
  ASSUME NEW L \in Nat, NEW q, NEW o, Linked(q, o, L), Len(o) # 0
  PROVE  \E s : StartsAt(q, o, s) /\ Abstract!Start(TierOfRows(q, o)) = s
<1> DEFINE n == Len(o)
           N == Nodes(q, o)
<1>1. /\ n \in Nat /\ N \in Seq(TierNodes) /\ Len(N) = n
      /\ \A k \in 1 .. n : N[k] = q.links[o[k]].node /\ N[k] \in TierNodes /\ o[k] # NoRow
  BY LinkTypes DEF Places
<1>2. \A j, k \in 1 .. n : N[j] = N[k] => j = k
  BY <1>1 DEF Linked, NodesApart, Places
<1>3. Abstract!Start(TierOfRows(q, o)) = IF HandNode(q) = None THEN 1 ELSE Abstract!Position(N, HandNode(q))
  BY DEF Abstract!Start, TierOfRows, Abstract!NIL, None
<1> HIDE DEF N, n
<1>4. CASE q.hand = NoRow
  <2>1. HandNode(q) = None
    BY <1>4 DEF HandNode
  <2>2. StartsAt(q, o, 1)
    BY <1>1, <1>4 DEF StartsAt, Places, n
  <2> QED
    BY <1>3, <2>1, <2>2
<1>5. CASE q.hand # NoRow
  <2>1. PICK s \in 1 .. n : q.hand = o[s]
    BY <1>5 DEF Linked, OnChain, Places, n
  <2>2. HandNode(q) = N[s] /\ N[s] # None
    BY <1>1, <1>5, <2>1, SieveAssumption DEF HandNode
  <2>3. Abstract!Position(N, N[s]) = s
    BY <1>1, <1>2, PlaceOf
  <2>4. StartsAt(q, o, s)
    BY <1>5, <2>1 DEF StartsAt, Places, n
  <2> QED
    BY <1>3, <2>2, <2>3, <2>4
<1> QED
  BY <1>4, <1>5

\* The policy's order is the places the hand comes to.
LEMMA HandOrderIs ==
  ASSUME NEW S, NEW tier, tier.queue \in Seq(S), Len(tier.queue) # 0,
         NEW s \in 1 .. Len(tier.queue), Abstract!Start(tier) = s
  PROVE  LET order == Abstract!HandOrder(tier)
             n == Len(tier.queue)
         IN /\ DOMAIN order = 1 .. n /\ Len(order) = n /\ order # <<>>
            /\ \A j \in 1 .. n : order[j] = tier.queue[Place(s, n, j)]
<1> DEFINE N == tier.queue
           n == Len(N)
           a == SubSeq(N, s, n)
           b == SubSeq(N, 1, s - 1)
<1>1. n \in Nat /\ n # 0 /\ s \in 1 .. n /\ N \in Seq(S)
  OBVIOUS
<1>2. a \in Seq(S) /\ Len(a) = n - s + 1 /\ \A k \in 1 .. n - s + 1 : a[k] = N[s - 1 + k]
  <2>1. \A i \in s .. n : N[i] \in S
    BY <1>1
  <2>2. /\ a \in Seq(S) /\ Len(a) = IF s <= n THEN n - s + 1 ELSE 0
        /\ \A i \in 1 .. n - s + 1 : a[i] = N[s + i - 1]
    BY <1>1, <2>1, SubSeqProperties
  <2>3. \A k \in 1 .. n - s + 1 : s + k - 1 = s - 1 + k
    BY <1>1
  <2> HIDE DEF a
  <2> QED
    BY <1>1, <2>2, <2>3
<1>3. b \in Seq(S) /\ Len(b) = s - 1 /\ \A k \in 1 .. s - 1 : b[k] = N[k]
  <2>1. \A i \in 1 .. s - 1 : N[i] \in S
    BY <1>1
  <2>2. /\ b \in Seq(S) /\ Len(b) = IF 1 <= s - 1 THEN s - 1 - 1 + 1 ELSE 0
        /\ \A i \in 1 .. s - 1 - 1 + 1 : b[i] = N[1 + i - 1]
    BY <1>1, <2>1, SubSeqProperties
  <2>3. \A k \in 1 .. s - 1 : 1 + k - 1 = k /\ k \in 1 .. s - 1 - 1 + 1
    BY <1>1
  <2> HIDE DEF b
  <2> QED
    BY <1>1, <2>2, <2>3
<1>4. Abstract!HandOrder(tier) = a \o b
  BY DEF Abstract!HandOrder
<1> HIDE DEF a, b, n, N
<1>5. a \o b \in Seq(S) /\ Len(a \o b) = n
  <2>1. a \o b \in Seq(S) /\ Len(a \o b) = Len(a) + Len(b)
    BY <1>2, <1>3, ConcatProperties
  <2> QED
    BY <2>1, <1>1, <1>2, <1>3
<1>6. \A j \in 1 .. n : (a \o b)[j] = N[Place(s, n, j)]
  <2> TAKE j \in 1 .. n
  <2>1. j \in 1 .. Len(a) + Len(b)
    BY <1>1, <1>2, <1>3
  <2>2. (a \o b)[j] = IF j <= Len(a) THEN a[j] ELSE b[j - Len(a)]
    BY <1>2, <1>3, <2>1, ConcatProperties
  <2>3. Place(s, n, j) = IF j <= n - s + 1 THEN s - 1 + j ELSE j - (n - s + 1)
    BY <1>1, PlaceTurns
  <2>4. CASE j <= n - s + 1
    <3>1. j \in 1 .. n - s + 1 /\ j <= Len(a)
      BY <2>4, <1>1, <1>2
    <3>2. a[j] = N[s - 1 + j]
      BY <3>1, <1>2
    <3> QED
      BY <2>2, <2>3, <2>4, <3>1, <3>2
  <2>5. CASE ~(j <= n - s + 1)
    <3>1. j - (n - s + 1) \in 1 .. s - 1 /\ ~(j <= Len(a))
      BY <2>5, <1>1, <1>2
    <3>2. b[j - (n - s + 1)] = N[j - (n - s + 1)]
      BY <3>1, <1>3
    <3> QED
      BY <2>2, <2>3, <2>5, <3>1, <3>2, <1>2
  <2> QED
    BY <2>4, <2>5
<1>7. DOMAIN (a \o b) = 1 .. n /\ a \o b # <<>>
  BY <1>1, <1>5
<1> QED
  BY <1>4, <1>5, <1>6, <1>7 DEF n, N

\* The turn that takes an entry out: what is left is the tier without it.
\* The m-th turn is the first to meet an entry that does not stay.
FoundIn(q, o, s, m) ==
  /\ m \in 1 .. 2 * Len(o) + 2
  /\ (\A k \in 1 .. m - 1 : StaysAt(q, o, s, k)) /\ ~StaysAt(q, o, s, m)
TakesAt(q, o, L, s, m) ==
  LET n == Len(o)
      p == Place(s, n, m)
      N == Nodes(q, o)
      swept == Sweep(q, 2 * n + 2)
      passed == {N[Place(s, n, j)] : j \in 1 .. m - 1}
      on == [queue |-> N, hand |-> N[p], visited |-> Marked(q, o) \ (passed \ Pinned)]
  IN /\ p \in Places(o) /\ swept.found = o[p]
     /\ Linked(swept.queue, Dropped(o, p), L)
     /\ TierOfRows(swept.queue, Dropped(o, p)) = Abstract!Without(on, N[p])
     /\ \A i \in 1 .. L : swept.queue.links[i].node = q.links[i].node

\* The victim's row is taken out where the policy takes the victim.
LEMMA VictimTaken ==
  ASSUME NEW L \in Nat, NEW q, NEW o, Linked(q, o, L), NEW s, StartsAt(q, o, s), NEW m, FoundIn(q, o, s, m)
  PROVE  TakesAt(q, o, L, s, m)
<1>0. /\ m \in 1 .. 2 * Len(o) + 2
      /\ (\A k \in 1 .. m - 1 : StaysAt(q, o, s, k)) /\ ~StaysAt(q, o, s, m)
  BY DEF FoundIn
<1> DEFINE n == Len(o)
           p == Place(s, n, m)
           r == o[p]
           N == Nodes(q, o)
           swept == Sweep(q, 2 * n + 2)
           rows == PassedRows(o, s, m - 1)
           passed == {N[Place(s, n, j)] : j \in 1 .. m - 1}
           at == Reached(q, o, s, m, L)
<1>1. /\ n \in Nat /\ n # 0 /\ s \in 1 .. n
      /\ \A k \in 1 .. n : o[k] \in 1 .. L /\ o[k] # NoRow /\ N[k] = q.links[o[k]].node
  BY LinkTypes DEF StartsAt, Places
<1>2. \A k \in 1 .. 2 * n + 2 : Place(s, n, k) \in 1 .. n
  BY <1>1, PlaceSteps
<1>3. p \in 1 .. n /\ \A j \in 1 .. m - 1 : Place(s, n, j) \in 1 .. n
  BY <1>0, <1>1, <1>2
<1>4. swept = [queue |-> Unlink(SteppedOff(at, r), r), found |-> r]
  <2>1. 2 * n + 2 \in 0 .. 2 * Len(o) + 2 /\ m \in 1 .. 2 * n + 2
    BY <1>0, <1>1
  <2> QED
    BY <1>0, <2>1, SweepFinds
<1>5. at = QueueWith(Cleared(q, rows, L), q.head, q.tail, r)
  BY DEF Reached
<1>6. /\ Linked(at, o, L)
      /\ \A i \in 1 .. L : at.links[i].node = q.links[i].node
      /\ Nodes(at, o) = N
      /\ Marked(at, o) = {q.links[o[k]].node : k \in {k \in Places(o) : Bit(q, o[k], rows)}}
  <2>1. r \in 0 .. L /\ \E k \in Places(o) : r = o[k]
    BY <1>1, <1>3 DEF Places
  <2> DEFINE c == QueueWith(Cleared(q, rows, L), q.head, q.tail, r)
  <2> HIDE DEF r, at, rows
  <2>2. /\ Linked(c, o, L)
        /\ \A i \in 1 .. L : c.links[i].node = q.links[i].node
        /\ Nodes(c, o) = Nodes(q, o)
        /\ Marked(c, o) = StillMarked(q, o, rows)
    <3> HIDE DEF c
    <3>1. c = QueueWith(Cleared(q, rows, L), q.head, q.tail, r)
      BY DEF c
    <3> QED
      BY <2>1, <3>1, ClearedLinked
  <2> QED
    BY <1>5, <2>2 DEF StillMarked
<1>7. at.hand = r
  BY <1>5, QueueFields
<1> HIDE DEF swept, at, N
<1>8. \A j, k \in 1 .. n : o[j] = o[k] => j = k
  BY DEF Linked, Order, Places
<1>9. \A j, k \in 1 .. n : N[j] = N[k] => j = k
  BY <1>1 DEF Linked, NodesApart, Places
<1>10. \A k \in 1 .. n : o[k] \in rows <=> N[k] \in passed
  <2> TAKE k \in 1 .. n
  <2>1. o[k] \in rows <=> \E j \in 1 .. m - 1 : Place(s, n, j) = k
    BY <1>3, <1>8 DEF PassedRows
  <2>2. N[k] \in passed <=> \E j \in 1 .. m - 1 : Place(s, n, j) = k
    BY <1>3, <1>9
  <2> QED
    BY <2>1, <2>2
<1> HIDE DEF rows, passed
<1>11. Marked(at, o) = Marked(q, o) \ (passed \ Pinned)
  <2>1. Marked(q, o) = {N[k] : k \in {k \in 1 .. n : q.links[o[k]].visited}}
    <3>1. Marked(q, o) = {q.links[o[k]].node : k \in {k \in 1 .. n : q.links[o[k]].visited}}
      BY DEF Marked, Places
    <3>2. \A k \in {k \in 1 .. n : q.links[o[k]].visited} : N[k] = q.links[o[k]].node
      BY <1>1
    <3> QED
      BY <3>1, <3>2
  <2>2. Marked(at, o) = {N[k] : k \in {k \in 1 .. n : Bit(q, o[k], rows)}}
    <3>1. Marked(at, o) = {q.links[o[k]].node : k \in {k \in 1 .. n : Bit(q, o[k], rows)}}
      BY <1>6 DEF Places
    <3>2. \A k \in {k \in 1 .. n : Bit(q, o[k], rows)} : N[k] = q.links[o[k]].node
      BY <1>1
    <3> QED
      BY <3>1, <3>2
  <2>3. \A k \in 1 .. n : Bit(q, o[k], rows) <=> q.links[o[k]].visited /\ N[k] \notin passed \ Pinned
    BY <1>1, <1>10, Zenon DEF Bit
  <2>4. ASSUME NEW x \in Marked(at, o) PROVE x \in Marked(q, o) \ (passed \ Pinned)
    BY <2>1, <2>2, <2>3
  <2>5. ASSUME NEW x \in Marked(q, o) \ (passed \ Pinned) PROVE x \in Marked(at, o)
    <3>1. PICK k \in 1 .. n : q.links[o[k]].visited /\ x = N[k]
      BY <2>1
    <3>2. Bit(q, o[k], rows)
      BY <2>3, <3>1
    <3> QED
      BY <2>2, <3>1, <3>2
  <2> QED
    BY <2>4, <2>5
<1>12. HandNode(at) = N[p]
  BY <1>1, <1>3, <1>6, <1>7 DEF HandNode
<1>13. TierOfRows(at, o) = [queue |-> N, hand |-> N[p], visited |-> Marked(q, o) \ (passed \ Pinned)]
  BY <1>6, <1>11, <1>12 DEF TierOfRows
<1>14. /\ Linked(Unlink(SteppedOff(at, r), r), Dropped(o, p), L)
       /\ TierOfRows(Unlink(SteppedOff(at, r), r), Dropped(o, p)) = Abstract!Without(TierOfRows(at, o), at.links[r].node)
       /\ \A i \in 1 .. L : Unlink(SteppedOff(at, r), r).links[i].node = at.links[i].node
  <2>1. p \in Places(o)
    BY <1>3 DEF Places
  <2> HIDE DEF p
  <2> QED
    BY <1>6, <2>1, Removed
<1>15. at.links[r].node = N[p]
  BY <1>1, <1>3, <1>6
<1>16. \A i \in 1 .. L : swept.queue.links[i].node = q.links[i].node
  BY <1>4, <1>6, <1>14
<1>17. /\ swept.found = r /\ Linked(swept.queue, Dropped(o, p), L)
       /\ TierOfRows(swept.queue, Dropped(o, p)) =
            Abstract!Without([queue |-> N, hand |-> N[p], visited |-> Marked(q, o) \ (passed \ Pinned)], N[p])
  BY <1>4, <1>13, <1>14, <1>15
<1> QED
  BY <1>3, <1>16, <1>17 DEF Places, swept, N, passed, TakesAt

LEMMA MinOf ==
  ASSUME NEW S \in SUBSET Nat, S # {}
  PROVE  Abstract!Min(S) \in S /\ \A x \in S : Abstract!Min(S) <= x
<1>1. \E m \in S : \A x \in S : m <= x
  BY FirstOf
<1> QED
  BY <1>1, Zenon DEF Abstract!Min

LEMMA TierWith ==
  ASSUME NEW a, NEW b, NEW c, NEW t, t = [queue |-> a, hand |-> b, visited |-> c], NEW x, NEW y
  PROVE  /\ [t EXCEPT !.hand = x] = [queue |-> a, hand |-> x, visited |-> c]
         /\ [t EXCEPT !.visited = y] = [queue |-> a, hand |-> b, visited |-> y]
         /\ [t EXCEPT !.queue = x] = [queue |-> x, hand |-> b, visited |-> c]
OBVIOUS

HandAndMarks(t, x, y) == [t EXCEPT !.hand = x, !.visited = y]
QueueAndMarks(t, x, y) == [t EXCEPT !.queue = x, !.visited = y]

LEMMA TierWithTwo ==
  ASSUME NEW a, NEW b, NEW c, NEW t, t = [queue |-> a, hand |-> b, visited |-> c], NEW x, NEW y
  PROVE  /\ HandAndMarks(t, x, y) = [queue |-> a, hand |-> x, visited |-> y]
         /\ QueueAndMarks(t, x, y) = [queue |-> x, hand |-> b, visited |-> y]
<1>1. /\ [t EXCEPT !.hand = x, !.visited = y] = [[t EXCEPT !.hand = x] EXCEPT !.visited = y]
      /\ [t EXCEPT !.queue = x, !.visited = y] = [[t EXCEPT !.queue = x] EXCEPT !.visited = y]
  OBVIOUS
<1>2. /\ [t EXCEPT !.hand = x] = [queue |-> a, hand |-> x, visited |-> c]
      /\ [t EXCEPT !.queue = x] = [queue |-> x, hand |-> b, visited |-> c]
  OBVIOUS
<1>3. /\ [[queue |-> a, hand |-> x, visited |-> c] EXCEPT !.visited = y] = [queue |-> a, hand |-> x, visited |-> y]
      /\ [[queue |-> x, hand |-> b, visited |-> c] EXCEPT !.visited = y] = [queue |-> x, hand |-> b, visited |-> y]
  OBVIOUS
<1> QED
  BY <1>1, <1>2, <1>3 DEF HandAndMarks, QueueAndMarks

\* What the eviction loop leaves of a tier, and the entry it took, if any.
Evicts(q, o, L, swept, out) ==
  \/ /\ swept.found = NoRow /\ out.victim = None
     /\ Linked(swept.queue, o, L) /\ TierOfRows(swept.queue, o) = out.tier
     /\ \A i \in 1 .. L : swept.queue.links[i].node = q.links[i].node
  \/ \E p \in Places(o) :
       /\ swept.found = o[p] /\ out.victim = q.links[o[p]].node
       /\ Linked(swept.queue, Dropped(o, p), L) /\ TierOfRows(swept.queue, Dropped(o, p)) = out.tier
       /\ \A i \in 1 .. L : swept.queue.links[i].node = q.links[i].node

\* With nothing in the queue the loop finds nothing.
LEMMA NothingEvicted ==
  ASSUME NEW L \in Nat, NEW q, NEW o, Linked(q, o, L), Len(o) = 0
  PROVE  Evicts(q, o, L, Sweep(q, 2), Abstract!Evicted(TierOfRows(q, o), Pinned))
<1> DEFINE tier == TierOfRows(q, o)
<1>1. Sweep(q, 2) = [queue |-> q, found |-> NoRow] /\ q.hand = NoRow
  BY SweepEmpty
<1>2. tier.queue = Nodes(q, o) /\ tier.hand = None
  BY <1>1 DEF TierOfRows, HandNode
<1>3. Nodes(q, o) \in Seq(TierNodes) /\ Len(Nodes(q, o)) = 0
  BY LinkTypes
<1>4. Nodes(q, o) = <<>>
  BY <1>3
<1>5. Abstract!Start(tier) = 1
  BY <1>2 DEF Abstract!Start, Abstract!NIL, None
<1>6. Abstract!HandOrder(tier) = SubSeq(<<>>, 1, 0) \o SubSeq(<<>>, 1, 1 - 1)
  BY <1>2, <1>4, <1>5 DEF Abstract!HandOrder
<1>7. SubSeq(<<>>, 1, 0) \o SubSeq(<<>>, 1, 1 - 1) = <<>>
  OBVIOUS
<1>8. Abstract!HandOrder(tier) = <<>>
  BY <1>6, <1>7
<1>9. Abstract!Evicted(tier, Pinned) = [tier |-> tier, victim |-> None]
  BY <1>8, Zenon DEF Abstract!Evicted, Abstract!NIL, None
<1> HIDE DEF tier
<1> QED
  BY <1>1, <1>9 DEF Evicts, tier

\* The loop, whatever is pinned and visited, does to the links what the SIEVE
\* policy does to the queue.
LEMMA SweepEvicts ==
  ASSUME NEW L \in Nat, NEW q, NEW o, Linked(q, o, L)
  PROVE  Evicts(q, o, L, Sweep(q, 2 * Len(o) + 2), Abstract!Evicted(TierOfRows(q, o), Pinned))
<1> DEFINE n == Len(o)
           N == Nodes(q, o)
           tier == TierOfRows(q, o)
           budget == 2 * n + 2
           swept == Sweep(q, budget)
           out == Abstract!Evicted(tier, Pinned)
<1>0. CASE n = 0
  BY <1>0, NothingEvicted
<1>1. CASE n # 0
  <2> DEFINE order == Abstract!HandOrder(tier)
             free == {i \in DOMAIN order : order[i] \notin Pinned}
             unvisited == {i \in free : order[i] \notin tier.visited}
             passed == IF unvisited = {} THEN Abstract!Resident(tier)
                       ELSE {order[i] : i \in 1 .. Abstract!Min(unvisited) - 1}
             victim == order[IF unvisited = {} THEN Abstract!Min(free) ELSE Abstract!Min(unvisited)]
             over == (Abstract!Start(tier) + 1) % Len(order)
  <2>1. PICK s : StartsAt(q, o, s) /\ Abstract!Start(tier) = s
    BY <1>1, StartOf
  <2>2. /\ n \in Nat /\ n # 0 /\ s \in 1 .. n /\ N \in Seq(TierNodes) /\ Len(N) = n
        /\ \A k \in 1 .. n : o[k] \in 1 .. L /\ o[k] # NoRow /\ N[k] = q.links[o[k]].node
        /\ \A k \in 1 .. n : N[k] \in TierNodes
    BY <1>1, <2>1, LinkTypes DEF StartsAt, Places
  <2>3. tier = [queue |-> N, hand |-> HandNode(q), visited |-> Marked(q, o)]
    BY DEF TierOfRows
  <2>4. /\ DOMAIN order = 1 .. n /\ Len(order) = n /\ order # <<>>
        /\ \A j \in 1 .. n : order[j] = N[Place(s, n, j)]
    <3>1. tier.queue = N
      BY <2>3
    <3> HIDE DEF tier, N
    <3>2. /\ tier.queue \in Seq(TierNodes) /\ Len(tier.queue) # 0
          /\ s \in 1 .. Len(tier.queue) /\ Abstract!Start(tier) = s
      BY <2>1, <2>2, <3>1
    <3>3. /\ DOMAIN order = 1 .. Len(tier.queue) /\ Len(order) = Len(tier.queue) /\ order # <<>>
          /\ \A j \in 1 .. Len(tier.queue) : order[j] = tier.queue[Place(s, Len(tier.queue), j)]
      BY <3>2, HandOrderIs, Zenon
    <3>4. Len(tier.queue) = n
      BY <2>2, <3>1
    <3> HIDE DEF order
    <3> QED
      BY <3>1, <3>3, <3>4
  <2>5. out = IF free = {}
              THEN [tier |-> [tier EXCEPT !.hand = IF over = 0 THEN None ELSE tier.queue[over + 1]], victim |-> None]
              ELSE [tier |-> Abstract!Without([tier EXCEPT !.hand = victim, !.visited = @ \ (passed \ Pinned)], victim),
                    victim |-> victim]
    <3> HIDE DEF tier
    <3> QED
      BY <2>4, Zenon DEF Abstract!Evicted, Abstract!NIL, None
  <2>6. \A k \in 1 .. budget : Place(s, n, k) \in 1 .. n
    BY <2>2, PlaceSteps
  <2>7. /\ \A k \in 1 .. n : Place(s, n, n + k) = Place(s, n, k)
        /\ \A j, k \in 1 .. n : Place(s, n, j) = Place(s, n, k) => j = k
        /\ \A i \in 1 .. n : \E k \in 1 .. n : Place(s, n, k) = i
    BY <2>2, PlaceTurns, ZenonT(30)
  <2>8. \A j, k \in 1 .. n : (o[j] = o[k] => j = k) /\ (N[j] = N[k] => j = k)
    BY <2>2 DEF Linked, Order, NodesApart, Places
  <2> DEFINE Held(k) == N[Place(s, n, k)] \in Pinned
             Hit(k) == q.links[o[Place(s, n, k)]].visited
  <2>9. \A k \in 1 .. budget :
          StaysAt(q, o, s, k) <=> Held(k) \/ (Hit(k) /\ \A j \in 1 .. k - 1 : Place(s, n, j) # Place(s, n, k))
    <3> TAKE k \in 1 .. budget
    <3>1. Place(s, n, k) \in 1 .. n /\ \A j \in 1 .. k - 1 : Place(s, n, j) \in 1 .. n
      BY <2>2, <2>6
    <3>2. o[Place(s, n, k)] \in PassedRows(o, s, k - 1) <=> \E j \in 1 .. k - 1 : Place(s, n, j) = Place(s, n, k)
      BY <2>8, <3>1 DEF PassedRows
    <3>3. q.links[o[Place(s, n, k)]].node = N[Place(s, n, k)]
      BY <2>2, <3>1
    <3> HIDE DEF N
    <3> QED
      BY <3>2, <3>3, Zenon DEF StaysAt, Bit
  <2>10. /\ free = {i \in 1 .. n : ~Held(i)}
         /\ \A i \in 1 .. n : order[i] \in tier.visited <=> Hit(i)
    <3>1. \A i \in 1 .. n : order[i] = N[Place(s, n, i)] /\ Place(s, n, i) \in 1 .. n
      BY <2>2, <2>4, <2>6
    <3>2. tier.visited = {q.links[o[k]].node : k \in {k \in 1 .. n : q.links[o[k]].visited}}
      BY <2>3 DEF Marked, Places
    <3> HIDE DEF order, N, tier
    <3>3. \A i \in 1 .. n : order[i] \in tier.visited <=> Hit(i)
      <4> TAKE i \in 1 .. n
      <4> DEFINE at == Place(s, n, i)
      <4>1. order[i] = q.links[o[at]].node /\ at \in 1 .. n
        BY <2>2, <3>1
      <4>2. ASSUME NEW k \in 1 .. n, q.links[o[k]].node = order[i] PROVE k = at
        BY <4>1, <4>2, <2>2, <2>8
      <4> HIDE DEF at
      <4>3. order[i] \in tier.visited <=> q.links[o[at]].visited
        BY <3>2, <4>1, <4>2
      <4> QED
        BY <4>3 DEF at
    <3> QED
      BY <2>4, <3>1, <3>3
  <2>11. unvisited = {i \in free : ~Hit(i)}
    BY <2>10
  <2>12. free \in SUBSET Nat /\ free \subseteq 1 .. n /\ unvisited \in SUBSET Nat /\ unvisited \subseteq free
    BY <2>2, <2>10
  <2>13. Abstract!Resident(tier) = {N[k] : k \in 1 .. n}
    BY <2>2, <2>3 DEF Abstract!Resident, Abstract!ToSet
  <2> HIDE DEF order, tier, N, swept, out, free, unvisited, budget
  <2>14. CASE free = {}
    <3>1. \A k \in 1 .. n : Held(k)
      BY <2>10, <2>14
    <3>2. \A k \in 1 .. budget : Held(k)
      BY <2>6, <2>7, <3>1
    <3>3. \A k \in 1 .. budget : StaysAt(q, o, s, k)
      BY <2>9, <3>2
    <3> DEFINE after == After(q, o, s, budget, L)
               p == Place(s, n, budget)
               rows == PassedRows(o, s, budget)
               h == Newer(o, p)
    <3>4. swept = [queue |-> after, found |-> NoRow]
      <4>1. budget \in 0 .. 2 * Len(o) + 2
        BY <2>2 DEF budget
      <4> QED
        BY <2>1, <3>3, <4>1, SweepPasses DEF swept
    <3>5. p \in 1 .. n /\ budget # 0
      BY <2>2, <2>6 DEF budget
    <3>6. after = QueueWith(Cleared(q, rows, L), q.head, q.tail, h)
      BY <3>5 DEF After
    <3>7. h \in 0 .. L /\ (h = NoRow \/ \E k \in Places(o) : h = o[k])
      BY <2>2, <3>5 DEF Newer, Places, NoRow
    <3> HIDE DEF after, h, rows, p
    <3>8. /\ Linked(after, o, L)
          /\ \A i \in 1 .. L : after.links[i].node = q.links[i].node
          /\ Nodes(after, o) = Nodes(q, o)
          /\ Marked(after, o) = StillMarked(q, o, rows)
      BY <3>6, <3>7, ClearedLinked
    <3>9. StillMarked(q, o, rows) = Marked(q, o)
      <4>1. ASSUME NEW k \in 1 .. n PROVE q.links[o[k]].node \in Pinned
        <5>1. PICK j \in 1 .. n : Place(s, n, j) = k
          BY <2>7, Zenon
        <5>2. N[k] \in Pinned
          BY <3>1, <5>1, Zenon
        <5> QED
          BY <2>2, <5>2
      <4>2. \A k \in Places(o) : Bit(q, o[k], rows) <=> q.links[o[k]].visited
        BY <4>1, Zenon DEF Bit, Places
      <4> QED
        BY <4>2 DEF StillMarked, Marked
    <3>10. over = IF p = n THEN 0 ELSE p
      BY <2>1, <2>2, <2>4, PlaceOver DEF p, budget
    <3>11. HandNode(after) = IF over = 0 THEN None ELSE N[over + 1]
      <4>1. after.hand = h
        BY <3>6, QueueFields
      <4>2. CASE p = n
        BY <4>1, <4>2, <3>10 DEF HandNode, h, Newer
      <4>3. CASE p # n
        <5>1. p + 1 \in 1 .. n /\ over = p /\ over # 0
          BY <4>3, <3>5, <3>10, <2>2
        <5>2. h = o[p + 1] /\ h # NoRow /\ h \in 1 .. L
          BY <4>3, <5>1, <2>2 DEF h, Newer
        <5>3. after.links[h].node = N[p + 1]
          BY <5>1, <5>2, <3>8, <2>2
        <5> HIDE DEF over
        <5> QED
          BY <4>1, <5>1, <5>2, <5>3 DEF HandNode
      <4> QED
        BY <4>2, <4>3
    <3>12. TierOfRows(after, o) = [tier EXCEPT !.hand = IF over = 0 THEN None ELSE tier.queue[over + 1]]
      <4> HIDE DEF over
      <4>1. tier.queue = N
        BY <2>3
      <4>2. TierOfRows(after, o) = [queue |-> N, hand |-> HandNode(after), visited |-> Marked(q, o)]
        BY <3>8, <3>9 DEF TierOfRows, N
      <4> QED
        BY <2>3, <3>11, <4>1, <4>2, TierWith
    <3>13. out.tier = TierOfRows(after, o) /\ out.victim = None
      <4> HIDE DEF over
      <4> QED
        BY <2>5, <2>14, <3>12
    <3> QED
      BY <3>4, <3>8, <3>13 DEF Evicts, swept, out, tier, budget
  <2>15. CASE free # {}
    <3> DEFINE first == IF unvisited = {} THEN Abstract!Min(free) ELSE Abstract!Min(unvisited)
               m == IF unvisited = {} THEN n + first ELSE first
               p == Place(s, n, m)
    <3>1. /\ first \in 1 .. n /\ first \in free
          /\ unvisited = {} => \A i \in 1 .. first - 1 : Held(i)
          /\ unvisited # {} => ~Hit(first) /\ \A i \in 1 .. first - 1 : Held(i) \/ Hit(i)
      <4>1. CASE unvisited = {}
        <5>1. first \in free /\ \A x \in free : first <= x
          BY <4>1, <2>12, <2>15, MinOf
        <5> HIDE DEF first
        <5>2. \A i \in 1 .. first - 1 : i \in 1 .. n /\ i \notin free
          BY <5>1, <2>12
        <5> QED
          BY <4>1, <5>1, <5>2, <2>10, <2>12
      <4>2. CASE unvisited # {}
        <5>1. first \in unvisited /\ \A x \in unvisited : first <= x
          BY <4>2, <2>12, MinOf
        <5> HIDE DEF first
        <5>2. \A i \in 1 .. first - 1 : i \in 1 .. n /\ i \notin unvisited
          BY <5>1, <2>12
        <5> QED
          BY <4>2, <5>1, <5>2, <2>10, <2>11, <2>12
      <4> QED
        BY <4>1, <4>2
    <3> HIDE DEF first
    <3>2. m \in 1 .. budget /\ Place(s, n, m) = Place(s, n, first) /\ ~Held(first)
      <4>1. m \in 1 .. budget
        BY <3>1, <2>2 DEF budget
      <4>2. CASE unvisited = {}
        <5>1. Place(s, n, n + first) = Place(s, n, first)
          BY <3>1, <2>7
        <5>2. m = n + first
          BY <4>2
        <5> HIDE DEF m
        <5>3. Place(s, n, m) = Place(s, n, first)
          BY <5>1, <5>2
        <5> QED
          BY <4>1, <5>3, <3>1, <2>10, Zenon
      <4>3. CASE unvisited # {}
        <5>1. m = first
          BY <4>3
        <5> HIDE DEF m
        <5> QED
          BY <4>1, <5>1, <3>1, <2>10, Zenon
      <4> QED
        BY <4>2, <4>3
    <3>3. \A k \in 1 .. m - 1 : StaysAt(q, o, s, k)
      <4> TAKE k \in 1 .. m - 1
      <4>1. k \in 1 .. budget
        BY <3>2, <2>2 DEF budget
      <4>2. CASE k \in 1 .. n
        <5>1. Held(k) \/ Hit(k)
          BY <4>2, <3>1, <2>10, <2>11, <2>12
        <5>2. \A j \in 1 .. k - 1 : Place(s, n, j) # Place(s, n, k)
          BY <4>2, <2>2, <2>7
        <5> QED
          BY <4>1, <5>1, <5>2, <2>9
      <4>3. CASE k \notin 1 .. n
        <5> DEFINE i == k - n
        <5>1. unvisited = {} /\ i \in 1 .. first - 1 /\ i \in 1 .. n /\ k = n + i
          BY <4>3, <3>1, <2>2
        <5> HIDE DEF i
        <5>2. Held(i)
          BY <5>1, <3>1
        <5>3. Place(s, n, n + i) = Place(s, n, i)
          BY <5>1, <2>7
        <5>4. Place(s, n, k) = Place(s, n, i)
          BY <5>1, <5>3
        <5>5. Held(k)
          BY <5>2, <5>4, Zenon
        <5> QED
          BY <4>1, <5>5, <2>9
      <4> QED
        BY <4>2, <4>3
    <3>4. ~StaysAt(q, o, s, m)
      <4>1. ~Held(m)
        BY <3>2
      <4>2. CASE unvisited # {}
        <5>1. m = first /\ ~Hit(m)
          BY <4>2, <3>1
        <5> QED
          BY <4>1, <5>1, <3>2, <2>9
      <4>3. CASE unvisited = {}
        <5>1. first \in 1 .. m - 1 /\ Place(s, n, first) = Place(s, n, m)
          BY <4>3, <3>1, <3>2, <2>2
        <5> QED
          BY <4>1, <5>1, <3>2, <2>9
      <4> QED
        BY <4>2, <4>3
    <3>5. m \in 1 .. 2 * Len(o) + 2
      BY <3>2 DEF budget
    <3> DEFINE before == {N[Place(s, n, j)] : j \in 1 .. m - 1}
               on == [queue |-> N, hand |-> N[p], visited |-> Marked(q, o) \ (before \ Pinned)]
    <3>6. /\ p \in Places(o) /\ swept.found = o[p]
          /\ Linked(swept.queue, Dropped(o, p), L)
          /\ TierOfRows(swept.queue, Dropped(o, p)) = Abstract!Without(on, N[p])
          /\ \A i \in 1 .. L : swept.queue.links[i].node = q.links[i].node
      <4> HIDE DEF m
      <4>1. FoundIn(q, o, s, m)
        BY <3>3, <3>4, <3>5 DEF FoundIn
      <4>2. TakesAt(q, o, L, s, m)
        BY <2>1, <4>1, VictimTaken
      <4> QED
        BY <4>2 DEF TakesAt, swept, budget, N
    <3>7. passed = before
      <4>1. CASE unvisited # {}
        <5>1. \A i \in 1 .. m - 1 : i \in 1 .. n
          BY <4>1, <3>1, <2>2
        <5>2. \A i \in 1 .. m - 1 : order[i] = N[Place(s, n, i)]
          BY <2>4, <5>1
        <5>3. passed = {order[i] : i \in 1 .. m - 1}
          BY <4>1 DEF first
        <5> HIDE DEF m, passed
        <5> QED
          BY <5>2, <5>3
      <4>2. CASE unvisited = {}
        <5>1. passed = {N[k] : k \in 1 .. n}
          BY <4>2, <2>13
        <5>2. \A k \in 1 .. n : \E j \in 1 .. m - 1 : Place(s, n, j) = k
          <6>1. \A j \in 1 .. n : j \in 1 .. m - 1
            BY <4>2, <3>1, <2>2
          <6> QED
            BY <6>1, <2>7
        <5>3. \A j \in 1 .. m - 1 : Place(s, n, j) \in 1 .. n
          <6>1. \A j \in 1 .. m - 1 : j \in 1 .. budget
            BY <3>2, <2>2 DEF budget
          <6> QED
            BY <6>1, <2>6
        <5> HIDE DEF m, passed
        <5> QED
          BY <5>1, <5>2, <5>3
      <4> QED
        BY <4>1, <4>2
    <3>8. victim = N[p]
      <4>1. victim = order[first]
        BY DEF first
      <4> QED
        BY <4>1, <3>1, <3>2, <2>4
    <3>9. [tier EXCEPT !.hand = victim, !.visited = @ \ (passed \ Pinned)] = on
      <4> DEFINE x == victim
                 y == Marked(q, o) \ (passed \ Pinned)
      <4>1. tier.visited = Marked(q, o)
        BY <2>3
      <4>2. on = [queue |-> N, hand |-> x, visited |-> y]
        BY <3>7, <3>8
      <4> HIDE DEF x, y, on, victim, passed
      <4>3. HandAndMarks(tier, x, y) = [queue |-> N, hand |-> x, visited |-> y]
        <5> DEFINE b == HandNode(q)
                   c == Marked(q, o)
        <5>1. tier = [queue |-> N, hand |-> b, visited |-> c]
          BY <2>3
        <5> HIDE DEF b, c
        <5> QED
          BY <5>1, TierWithTwo
      <4>4. [tier EXCEPT !.hand = x, !.visited = tier.visited \ (passed \ Pinned)] = on
        BY <4>1, <4>2, <4>3, Zenon DEF y, HandAndMarks
      <4>5. x = victim
        BY DEF x
      <4> QED
        BY <4>4, <4>5, Zenon
    <3> HIDE DEF on, victim, passed
    <3>10. out.tier = Abstract!Without(on, N[p]) /\ out.victim = N[p]
      BY <2>5, <2>15, <3>8, <3>9
    <3>11. N[p] = q.links[o[p]].node
      BY <3>6, <2>2 DEF Places
    <3> QED
      BY <3>6, <3>10, <3>11 DEF Evicts, swept, out, tier, budget
  <2> QED
    BY <2>14, <2>15
<1> QED
  BY <1>0, <1>1

-----------------------------------------------------------------------------
(* What holds of a tier between two calls.                                 *)

Features == TierNodes \X Versions
InOrder(o, r) == \E k \in Places(o) : o[k] = r
Released(f, r) == \E i \in DOMAIN f : f[i] = r

\* Each queued row is indexed by its node, and nothing else is.
Indexed(q, index, o, L) ==
  /\ index \in [TierNodes -> 0 .. L]
  /\ \A k \in Places(o) : index[q.links[o[k]].node] = o[k]
  /\ \A n \in TierNodes : index[n] # NoRow =>
       \E k \in Places(o) : o[k] = index[n] /\ q.links[o[k]].node = n

\* A row is queued, or released once.
Shared(f, o, L) ==
  /\ f \in Seq(1 .. L) /\ \A i, j \in DOMAIN f : f[i] = f[j] => i = j
  /\ \A r \in 1 .. L : InOrder(o, r) <=> ~Released(f, r)
  /\ Len(o) + Len(f) = L

Shape(q, index, rows, f, o) ==
  /\ Linked(q, o, Len(rows)) /\ Indexed(q, index, o, Len(rows)) /\ Shared(f, o, Len(rows))
  /\ rows \in Seq(Features) /\ Len(rows) <= Capacity

\* The inductive invariant: some order of rows explains links, index, free
\* list and slab.
SieveInv == \E o : Shape(Queue, cache, slab, freeRows, o)

-----------------------------------------------------------------------------
(* The tier the links make is the order's.                                 *)

IsRow(g, q) ==
  /\ g = [k \in 1 .. Capacity |-> g[k]]
  /\ Capacity # 0 => g[1] = q.tail
  /\ \A k \in 2 .. Capacity : g[k] = IF g[k - 1] = NoRow THEN NoRow ELSE q.links[g[k - 1]].next

LEMMA OldestIs ==
  ASSUME NEW q, NEW g, IsRow(g, q)
  PROVE  OldestFirst(q) = [k \in 1 .. Cardinality({k \in 1 .. Capacity : g[k] # NoRow}) |-> q.links[g[k]].node]
<1> USE DEF IsRow
<1> DEFINE Onward(x) == IF x = NoRow THEN NoRow ELSE q.links[x].next
           Run(f) == [k \in 1 .. Capacity |->
                        IF k = 1 THEN q.tail
                        ELSE IF f[k - 1] = NoRow THEN NoRow ELSE q.links[f[k - 1]].next]
           row == CHOOSE f : f = Run(f)
<1>0. Capacity \in Nat
  BY SieveAssumption
<1>1. g = Run(g)
  <2>1. \A k \in 1 .. Capacity : g[k] = Run(g)[k]
    <3> TAKE k \in 1 .. Capacity
    <3>1. CASE k = 1
      BY <1>0, <3>1
    <3>2. CASE k # 1
      <4>1. k \in 2 .. Capacity
        BY <1>0, <3>2
      <4> QED
        BY <3>2, <4>1
    <3> QED
      BY <3>1, <3>2
  <2>2. Run(g) = [k \in 1 .. Capacity |-> Run(g)[k]]
    OBVIOUS
  <2> HIDE DEF Run
  <2> QED
    BY <2>1, <2>2
<1> HIDE DEF Run
<1>2. row = Run(row)
  BY <1>1, Zenon
<1>3. OldestFirst(q) = [k \in 1 .. Cardinality({k \in 1 .. Capacity : row[k] # NoRow}) |-> q.links[row[k]].node]
  BY DEF OldestFirst, row, Run
<1> HIDE DEF row
<1>4. /\ row = [k \in 1 .. Capacity |-> row[k]]
      /\ Capacity # 0 => row[1] = q.tail
      /\ \A k \in 2 .. Capacity : row[k] = IF row[k - 1] = NoRow THEN NoRow ELSE q.links[row[k - 1]].next
  <2>1. \A k \in 1 .. Capacity :
          row[k] = IF k = 1 THEN q.tail ELSE IF row[k - 1] = NoRow THEN NoRow ELSE q.links[row[k - 1]].next
    BY <1>2 DEF Run
  <2>2. row = [k \in 1 .. Capacity |-> row[k]]
    BY <1>2 DEF Run
  <2>3. Capacity # 0 => row[1] = q.tail
    BY <1>0, <2>1
  <2>4. ASSUME NEW k \in 2 .. Capacity
        PROVE  row[k] = IF row[k - 1] = NoRow THEN NoRow ELSE q.links[row[k - 1]].next
    <3>1. k \in 1 .. Capacity /\ k # 1
      BY <1>0
    <3> QED
      BY <2>1, <3>1, Zenon
  <2> QED
    BY <2>2, <2>3, <2>4
<1> DEFINE T == {1}
           same == [k \in 0 .. Capacity |-> IF k = 0 \/ row[k] = g[k] THEN 1 ELSE 0]
<1>5. same[0] \in T
  BY <1>0
<1>6. \A i \in 1 .. Capacity : same[i - 1] \in T => same[i] \in T
  <2> TAKE i \in 1 .. Capacity
  <2> HAVE same[i - 1] \in T
  <2>1. CASE i = 1
    BY <2>1, <1>0, <1>4
  <2>2. CASE i # 1
    <3>1. row[i - 1] = g[i - 1] /\ i \in 2 .. Capacity
      BY <1>0, <2>2
    <3>2. row[i] = Onward(row[i - 1]) /\ g[i] = Onward(g[i - 1])
      BY <1>4, <3>1, Zenon DEF Onward
    <3>3. row[i] = g[i]
      <4> HIDE DEF Onward
      <4> QED
        BY <3>1, <3>2, Zenon
    <3> QED
      BY <1>0, <3>3
  <2> QED
    BY <2>1, <2>2
<1>7. \A k \in 1 .. Capacity : row[k] = g[k]
  <2> TAKE k \in 1 .. Capacity
  <2> HIDE DEF same, T
  <2>1. k \in Nat /\ \A i \in 1 .. k : i \in 1 .. Capacity
    BY <1>0
  <2>2. same[k] \in T
    BY <2>1, <1>5, <1>6, Along
  <2> QED
    BY <1>0, <2>1, <2>2 DEF same, T
<1>8. row = g
  BY <1>4, <1>7
<1> QED
  BY <1>3, <1>8

LEMMA OldestNodes ==
  ASSUME NEW L \in Nat, NEW q, NEW o, Linked(q, o, L), Len(o) <= Capacity
  PROVE  OldestFirst(q) = Nodes(q, o)
<1> DEFINE n == Len(o)
           g == [k \in 1 .. Capacity |-> IF k <= n THEN o[k] ELSE NoRow]
<1>1. /\ n \in Nat /\ Capacity \in Nat /\ n <= Capacity
      /\ \A k \in 1 .. n : o[k] \in 1 .. L /\ o[k] # NoRow
  BY SieveAssumption, LinkTypes DEF Places
<1>2. IsRow(g, q)
  <2>1. Capacity # 0 => g[1] = q.tail
    <3>1. CASE n = 0
      <4>1. o = <<>>
        BY <3>1, LinkTypes
      <4> QED
        BY <1>1, <3>1, <4>1 DEF Linked, Ends
    <3>2. CASE n # 0
      <4>1. o # <<>>
        BY <3>2
      <4> QED
        BY <1>1, <3>2, <4>1 DEF Linked, Ends
    <3> QED
      BY <3>1, <3>2
  <2>2. ASSUME NEW k \in 2 .. Capacity
        PROVE  g[k] = IF g[k - 1] = NoRow THEN NoRow ELSE q.links[g[k - 1]].next
    <3>1. CASE k - 1 <= n
      <4>1. k - 1 \in Places(o) /\ g[k - 1] = o[k - 1] /\ g[k - 1] # NoRow
        BY <1>1, <3>1 DEF Places
      <4>2. q.links[o[k - 1]].next = Newer(o, k - 1)
        BY <4>1 DEF Linked, Chained
      <4>3. g[k] = Newer(o, k - 1)
        BY <1>1, <3>1 DEF Newer
      <4> HIDE DEF g
      <4> QED
        BY <4>1, <4>2, <4>3
    <3>2. CASE ~(k - 1 <= n)
      BY <1>1, <3>2
    <3> QED
      BY <3>1, <3>2
  <2> QED
    BY <2>1, <2>2 DEF IsRow
<1>3. {k \in 1 .. Capacity : g[k] # NoRow} = 1 .. n
  BY <1>1
<1>4. Cardinality(1 .. n) = n
  <2>1. 1 \in Int /\ n \in Int /\ n - 1 + 1 = n /\ (1 > n => n = 0)
    BY <1>1
  <2>2. Cardinality(1 .. n) = IF 1 > n THEN 0 ELSE n - 1 + 1
    BY <2>1, FS_Interval, Zenon
  <2> QED
    BY <2>1, <2>2
<1>5. OldestFirst(q) = [k \in 1 .. n |-> q.links[g[k]].node]
  <2> HIDE DEF g
  <2>1. OldestFirst(q) = [k \in 1 .. Cardinality({k \in 1 .. Capacity : g[k] # NoRow}) |-> q.links[g[k]].node]
    BY <1>2, OldestIs
  <2> QED
    BY <2>1, <1>3, <1>4
<1>6. \A k \in 1 .. n : g[k] = o[k]
  BY <1>1
<1> HIDE DEF g
<1> QED
  BY <1>5, <1>6 DEF Nodes, Places

\* What an order says of the tier the variables make.
LEMMA TierIs ==
  ASSUME NEW q, NEW index, NEW rows, NEW f, NEW o, Shape(q, index, rows, f, o)
  PROVE  /\ TierSeen(q, index) = TierOfRows(q, o)
         /\ Cardinality({n \in TierNodes : index[n] # NoRow}) = Len(o)
         /\ \A n \in TierNodes : n \in Abstract!Resident(TierOfRows(q, o)) <=> index[n] # NoRow
         /\ Abstract!Resident(TierOfRows(q, o)) \subseteq TierNodes
<1> DEFINE L == Len(rows)
           N == Nodes(q, o)
           R == {n \in TierNodes : index[n] # NoRow}
<1>1. /\ L \in Nat /\ Linked(q, o, L) /\ Indexed(q, index, o, L) /\ Shared(f, o, L)
      /\ L <= Capacity /\ Capacity \in Nat
  <2>1. Linked(q, o, L) /\ Indexed(q, index, o, L) /\ Shared(f, o, L) /\ L <= Capacity /\ rows \in Seq(Features)
    BY DEF Shape
  <2> QED
    BY <2>1, SieveAssumption
<1> HIDE DEF L
<1>2. /\ Len(o) \in Nat /\ N \in Seq(TierNodes) /\ Len(N) = Len(o)
      /\ \A k \in Places(o) : o[k] \in 1 .. L /\ o[k] # NoRow /\ N[k] = q.links[o[k]].node /\ N[k] \in TierNodes
  BY <1>1, LinkTypes DEF Places
<1>3. Len(o) <= Capacity
  <2>1. Len(f) \in Nat
    BY <1>1 DEF Shared
  <2> QED
    BY <1>1, <1>2, <2>1 DEF Shared
<1>4. OldestFirst(q) = N
  BY <1>1, <1>3, OldestNodes
<1> HIDE DEF N
<1>5. \A k \in Places(o) : index[N[k]] = o[k] /\ index[N[k]] # NoRow
  BY <1>1, <1>2 DEF Indexed
<1>6. \A n \in TierNodes : index[n] # NoRow <=> \E k \in Places(o) : N[k] = n
  BY <1>1, <1>2, <1>5 DEF Indexed
<1>7. {n \in TierNodes : index[n] # NoRow /\ q.links[index[n]].visited} = Marked(q, o)
  <2>1. \A n \in TierNodes : index[n] # NoRow /\ q.links[index[n]].visited
                             <=> \E k \in Places(o) : N[k] = n /\ q.links[o[k]].visited
    BY <1>5, <1>6
  <2> QED
    BY <1>2, <2>1 DEF Marked
<1>8. \A j, k \in Places(o) : N[j] = N[k] => j = k
  BY <1>1, <1>2 DEF Linked, NodesApart
<1>9. Cardinality(R) = Len(o)
  <2>1. N \in [1 .. Len(o) -> R]
    BY <1>2, <1>5 DEF Places
  <2>2. N \in Bijection(1 .. Len(o), R)
    BY <2>1, <1>6, <1>8 DEF Bijection, Injection, IsInjective, Surjection, Places
  <2>3. ExistsBijection(1 .. Len(o), R)
    BY <2>2 DEF ExistsBijection
  <2>4. IsFiniteSet(1 .. Len(o)) /\ Cardinality(1 .. Len(o)) = Len(o)
    <3>1. 1 \in Int /\ Len(o) \in Int /\ Len(o) - 1 + 1 = Len(o) /\ (1 > Len(o) => Len(o) = 0)
      BY <1>2
    <3>2. IsFiniteSet(1 .. Len(o)) /\ Cardinality(1 .. Len(o)) = IF 1 > Len(o) THEN 0 ELSE Len(o) - 1 + 1
      BY <3>1, FS_Interval, Zenon
    <3> QED
      BY <3>1, <3>2
  <2> QED
    BY <2>3, <2>4, FS_Bijection
<1>10. Abstract!Resident(TierOfRows(q, o)) = {N[k] : k \in Places(o)}
  BY <1>2 DEF Abstract!Resident, Abstract!ToSet, TierOfRows, N, Places
<1>11. TierSeen(q, index) = TierOfRows(q, o)
  BY <1>4, <1>7 DEF TierSeen, TierOfRows, HandNode, N
<1> QED
  BY <1>2, <1>6, <1>9, <1>10, <1>11

-----------------------------------------------------------------------------
(* What each method's change of the rows leaves.                           *)

LEMMA IndexedAgain ==
  ASSUME NEW L \in Nat, NEW q, NEW index, NEW o, Linked(q, o, L), Indexed(q, index, o, L),
         NEW u, \A i \in 1 .. L : u.links[i].node = q.links[i].node
  PROVE  Indexed(u, index, o, L)
<1>1. \A k \in Places(o) : u.links[o[k]].node = q.links[o[k]].node
  BY LinkTypes
<1> QED
  BY <1>1 DEF Indexed

\* A visited bit set on the row of a resident node.
TouchedLinks(q, index, n) == [q.links EXCEPT ![index[n]].visited = TRUE]

LEMMA TouchedRow ==
  ASSUME NEW q, NEW index, NEW rows, NEW f, NEW o, Shape(q, index, rows, f, o),
         NEW n \in TierNodes, index[n] # NoRow
  PROVE  LET u == QueueWith(TouchedLinks(q, index, n), q.head, q.tail, q.hand)
         IN /\ Shape(u, index, rows, f, o)
            /\ TierOfRows(u, o) = Abstract!Touched(TierOfRows(q, o), n)
<1> DEFINE L == Len(rows)
           ls == TouchedLinks(q, index, n)
           u == QueueWith(ls, q.head, q.tail, q.hand)
<1>1. L \in Nat /\ Linked(q, o, L) /\ Indexed(q, index, o, L) /\ Shared(f, o, L)
  BY DEF Shape
<1> HIDE DEF L
<1>2. PICK p \in Places(o) : o[p] = index[n] /\ q.links[o[p]].node = n
  BY <1>1 DEF Indexed
<1>3. q \in Queues(L) /\ q.links \in [1 .. L -> Entry(L)] /\ o[p] \in 1 .. L
  BY <1>1, LinkTypes DEF Linked, Queues
<1>4. /\ ls \in [1 .. L -> Entry(L)]
      /\ \A i \in 1 .. L : /\ ls[i].node = q.links[i].node /\ ls[i].prev = q.links[i].prev
                            /\ ls[i].next = q.links[i].next
      /\ \A i \in 1 .. L : i # o[p] => ls[i] = q.links[i]
      /\ ls[o[p]].visited = TRUE
  <2> DEFINE e == q.links[o[p]]
             d == [e EXCEPT !.visited = TRUE]
  <2>1. /\ d \in Entry(L) /\ d.node = e.node /\ d.prev = e.prev /\ d.next = e.next /\ d.visited = TRUE
    <3>1. e \in Entry(L)
      BY <1>3
    <3> HIDE DEF e
    <3> QED
      BY <3>1 DEF Entry
  <2>2. ls = [q.links EXCEPT ![o[p]] = d]
    BY <1>2 DEF TouchedLinks
  <2> HIDE DEF d, ls
  <2>3. \A i \in 1 .. L : ls[i] = IF i = o[p] THEN d ELSE q.links[i]
    BY <2>2, <1>3
  <2>4. ls \in [1 .. L -> Entry(L)]
    BY <2>1, <2>2, <1>3
  <2> QED
    BY <2>1, <2>3, <2>4, <1>3
<1> HIDE DEF ls, u
<1>5. u.links = ls /\ u.head = q.head /\ u.tail = q.tail /\ u.hand = q.hand
  BY QueueFields DEF u
<1>6. u \in Queues(L)
  BY <1>3, <1>4 DEF u, QueueWith, Queues
<1>7. \A k \in Places(o) : o[k] \in 1 .. L
  BY <1>1, LinkTypes
<1>8. Linked(u, o, L)
  <2>1. Ends(u, o) /\ OnChain(u, o)
    BY <1>1, <1>5 DEF Linked, Ends, OnChain
  <2>2. \A k \in Places(o) : /\ u.links[o[k]].node = q.links[o[k]].node
                             /\ u.links[o[k]].prev = q.links[o[k]].prev
                             /\ u.links[o[k]].next = q.links[o[k]].next
    BY <1>4, <1>5, <1>7
  <2>3. Chained(u, o) /\ NodesApart(u, o)
    BY <1>1, <2>2 DEF Linked, Chained, NodesApart
  <2> QED
    BY <1>1, <1>6, <2>1, <2>3 DEF Linked
<1>9. Indexed(u, index, o, L)
  BY <1>1, <1>4, <1>5, IndexedAgain
<1>10. Shape(u, index, rows, f, o)
  BY <1>1, <1>8, <1>9 DEF Shape, L
<1>11. Nodes(u, o) = Nodes(q, o)
  BY <1>4, <1>5, <1>7 DEF Nodes
<1>12. HandNode(u) = HandNode(q)
  BY <1>3, <1>4, <1>5 DEF HandNode, Queues, NoRow
<1>13. Marked(u, o) = Marked(q, o) \cup {n}
  <2>1. \A k \in Places(o) : k # p => o[k] # o[p]
    BY <1>1, <1>2 DEF Linked, Order
  <2>2. \A k \in Places(o) : u.links[o[k]].node = q.links[o[k]].node
    BY <1>4, <1>5, <1>7
  <2>3. \A k \in Places(o) : k # p => u.links[o[k]].visited = q.links[o[k]].visited
    BY <1>4, <1>5, <1>7, <2>1
  <2>4. u.links[o[p]].visited = TRUE
    BY <1>4, <1>5
  <2>5. Marked(u, o) = {q.links[o[k]].node : k \in {k \in Places(o) : u.links[o[k]].visited}}
    BY <2>2 DEF Marked
  <2>6. {k \in Places(o) : u.links[o[k]].visited} = {k \in Places(o) : q.links[o[k]].visited} \cup {p}
    BY <2>3, <2>4, <1>2
  <2> QED
    BY <2>5, <2>6, <1>2 DEF Marked
<1>14. TierOfRows(u, o) = Abstract!Touched(TierOfRows(q, o), n)
  BY <1>11, <1>12, <1>13 DEF TierOfRows, Abstract!Touched
<1> QED
  BY <1>10, <1>14 DEF u, ls

\* A row taken out of the queue and released.
LEMMA Taken ==
  ASSUME NEW q, NEW index, NEW rows, NEW f, NEW o, Shape(q, index, rows, f, o),
         NEW p \in Places(o), NEW u, Linked(u, Dropped(o, p), Len(rows)),
         \A i \in 1 .. Len(rows) : u.links[i].node = q.links[i].node
  PROVE  LET n == q.links[o[p]].node
         IN Shape(u, [index EXCEPT ![n] = NoRow], rows, Append(f, o[p]), Dropped(o, p))
<1> DEFINE L == Len(rows)
           r == o[p]
           n == q.links[r].node
           d == Dropped(o, p)
           g == Append(f, r)
           kept == [index EXCEPT ![n] = NoRow]
<1>1. L \in Nat /\ Linked(q, o, L) /\ Indexed(q, index, o, L) /\ Shared(f, o, L)
  BY DEF Shape
<1>2. /\ Len(o) \in Nat /\ o \in Seq(1 .. L) /\ p \in 1 .. Len(o)
      /\ \A k \in Places(o) : o[k] \in 1 .. L /\ o[k] # NoRow /\ q.links[o[k]].node \in TierNodes
  <2> HIDE DEF L
  <2> QED
    BY <1>1, LinkTypes DEF Places, Entry
<1>3. \A j, k \in Places(o) : o[j] = o[k] \/ q.links[o[j]].node = q.links[o[k]].node => j = k
  BY <1>1 DEF Linked, Order, NodesApart
<1> HIDE DEF L
<1>4. d \in Seq(1 .. L) /\ Len(d) = Len(o) - 1 /\ \A k \in 1 .. Len(o) - 1 : d[k] = IF k < p THEN o[k] ELSE o[k + 1]
  BY <1>2, DroppedAt DEF Dropped
<1> HIDE DEF d
<1>5. /\ \A k \in Places(d) : \E j \in Places(o) : j # p /\ d[k] = o[j]
      /\ \A j \in Places(o) : j # p => \E k \in Places(d) : d[k] = o[j]
  <2>1. ASSUME NEW k \in Places(d) PROVE \E j \in Places(o) : j # p /\ d[k] = o[j]
    <3>1. CASE k < p
      BY <3>1, <1>2, <1>4 DEF Places
    <3>2. CASE ~(k < p)
      <4>1. k + 1 \in Places(o) /\ k + 1 # p /\ d[k] = o[k + 1]
        BY <3>2, <1>2, <1>4 DEF Places
      <4> QED
        BY <4>1
    <3> QED
      BY <3>1, <3>2
  <2>2. ASSUME NEW j \in Places(o), j # p PROVE \E k \in Places(d) : d[k] = o[j]
    <3>1. CASE j < p
      BY <3>1, <1>2, <1>4 DEF Places
    <3>2. CASE ~(j < p)
      <4>1. j - 1 \in Places(d) /\ d[j - 1] = o[j]
        BY <2>2, <3>2, <1>2, <1>4 DEF Places
      <4> QED
        BY <4>1
    <3> QED
      BY <3>1, <3>2
  <2> QED
    BY <2>1, <2>2
<1>6. /\ n \in TierNodes /\ kept \in [TierNodes -> 0 .. L] /\ kept[n] = NoRow
      /\ \A m \in TierNodes : m # n => kept[m] = index[m]
  <2>1. n \in TierNodes /\ index \in [TierNodes -> 0 .. L]
    BY <1>1, <1>2 DEF Indexed
  <2> HIDE DEF n
  <2> QED
    BY <2>1, <1>1 DEF NoRow
<1> HIDE DEF kept
<1>7. \A k \in Places(o) : u.links[o[k]].node = q.links[o[k]].node
  BY <1>2 DEF L
<1>8. Indexed(u, kept, d, L)
  <2>1. ASSUME NEW k \in Places(d) PROVE kept[u.links[d[k]].node] = d[k]
    <3>1. PICK j \in Places(o) : j # p /\ d[k] = o[j]
      BY <1>5
    <3>2. q.links[o[j]].node # n /\ q.links[o[j]].node \in TierNodes
      BY <3>1, <1>2, <1>3
    <3>3. index[q.links[o[j]].node] = o[j]
      BY <1>1 DEF Indexed
    <3> QED
      BY <3>1, <3>2, <3>3, <1>6, <1>7
  <2>2. ASSUME NEW m \in TierNodes, kept[m] # NoRow
        PROVE  \E k \in Places(d) : d[k] = kept[m] /\ u.links[d[k]].node = m
    <3>1. m # n /\ kept[m] = index[m]
      BY <2>2, <1>6
    <3>2. PICK j \in Places(o) : o[j] = index[m] /\ q.links[o[j]].node = m
      BY <2>2, <3>1, <1>1 DEF Indexed
    <3>3. PICK k \in Places(d) : d[k] = o[j]
      BY <3>1, <3>2, <1>5
    <3> QED
      BY <3>1, <3>2, <3>3, <1>7
  <2> QED
    BY <2>1, <2>2, <1>6 DEF Indexed
<1>9. /\ g \in Seq(1 .. L) /\ Len(g) = Len(f) + 1 /\ Len(f) \in Nat
      /\ \A i \in 1 .. Len(f) : g[i] = f[i]
      /\ g[Len(f) + 1] = r /\ DOMAIN f = 1 .. Len(f) /\ DOMAIN g = 1 .. Len(f) + 1
  <2>1. f \in Seq(1 .. L) /\ r \in 1 .. L
    BY <1>1, <1>2 DEF Shared
  <2> HIDE DEF r
  <2> QED
    BY <2>1, AppendProperties
<1> HIDE DEF g
<1>10. \A i \in 1 .. Len(f) : f[i] # r
  <2>1. InOrder(o, r)
    BY DEF InOrder
  <2> QED
    BY <2>1, <1>1, <1>2, <1>9 DEF Shared, Released
<1>11. Shared(g, d, L)
  <2>1. ASSUME NEW i \in DOMAIN g, NEW j \in DOMAIN g, g[i] = g[j] PROVE i = j
    <3>1. CASE i # Len(f) + 1 /\ j # Len(f) + 1
      <4>1. i \in DOMAIN f /\ j \in DOMAIN f /\ g[i] = f[i] /\ g[j] = f[j]
        BY <3>1, <1>9
      <4> QED
        BY <2>1, <4>1, <1>1 DEF Shared
    <3>2. CASE i = Len(f) + 1 \/ j = Len(f) + 1
      <4>1. \A x \in DOMAIN g : x # Len(f) + 1 => g[x] # r
        BY <1>9, <1>10
      <4> QED
        BY <2>1, <3>2, <4>1, <1>9
    <3> QED
      BY <3>1, <3>2
  <2>2. ASSUME NEW x \in 1 .. L PROVE InOrder(d, x) <=> ~Released(g, x)
    <3>1. InOrder(o, x) <=> ~Released(f, x)
      BY <1>1 DEF Shared
    <3>2. InOrder(d, x) <=> InOrder(o, x) /\ x # r
      <4>1. \A j \in Places(o) : o[j] = r => j = p
        BY <1>3
      <4>2. InOrder(d, x) => InOrder(o, x) /\ x # r
        BY <1>5, <4>1 DEF InOrder
      <4>3. InOrder(o, x) /\ x # r => InOrder(d, x)
        BY <1>5 DEF InOrder
      <4> QED
        BY <4>2, <4>3
    <3>3. Released(g, x) <=> Released(f, x) \/ x = r
      BY <1>9 DEF Released
    <3> QED
      BY <3>1, <3>2, <3>3
  <2>3. Len(d) + Len(g) = L
    <3>1. Len(o) + Len(f) = L
      BY <1>1 DEF Shared
    <3> QED
      BY <3>1, <1>2, <1>4, <1>9
  <2> QED
    BY <2>1, <2>2, <2>3, <1>9 DEF Shared
<1> QED
  BY <1>8, <1>11 DEF Shape, L, d, g, kept

StoredEntry(n) == [node |-> n, visited |-> n \in Warm, prev |-> NoRow, next |-> NoRow]
StoredRow(rows, f) == IF f = <<>> THEN Len(rows) + 1 ELSE Last(f)
StoredIn(q, n, row) == PushHead(Refilled(q, row, StoredEntry(n)), row)
StoredRows(rows, row, ft) == IF row > Len(rows) THEN Append(rows, ft) ELSE [rows EXCEPT ![row] = ft]
StoredFree(f) == IF f = <<>> THEN <<>> ELSE Front(f)
PushedTier(tier, n) == [tier EXCEPT !.queue = Append(@, n), !.visited = @ \cup ({n} \cap Warm)]

\* The released row or the new one that a newcomer takes.
LEMMA RowStored ==
  ASSUME NEW q, NEW index, NEW rows, NEW f, NEW o, Shape(q, index, rows, f, o),
         f = <<>> => Len(rows) < Capacity
  PROVE  LET row == StoredRow(rows, f)
             g == StoredFree(f)
             M == IF row > Len(rows) THEN Len(rows) + 1 ELSE Len(rows)
         IN /\ row \in 1 .. Len(rows) + 1 /\ row # NoRow /\ M \in Nat /\ M <= Capacity
            /\ \A k \in Places(o) : o[k] # row
            /\ row \in 1 .. M /\ Shared(g, Append(o, row), M)
<1> DEFINE L == Len(rows)
           row == StoredRow(rows, f)
           g == StoredFree(f)
           M == IF row > L THEN L + 1 ELSE L
           a == Append(o, row)
<1>1. /\ L \in Nat /\ Linked(q, o, L) /\ Shared(f, o, L) /\ L <= Capacity /\ Capacity \in Nat
  BY SieveAssumption DEF Shape
<1> HIDE DEF L
<1>2. /\ Len(o) \in Nat /\ o \in Seq(1 .. L) /\ Places(o) = 1 .. Len(o) /\ \A k \in Places(o) : o[k] \in 1 .. L
  BY <1>1, LinkTypes DEF Places
<1>3. /\ f \in Seq(1 .. L) /\ Len(f) \in Nat /\ DOMAIN f = 1 .. Len(f) /\ \A i \in 1 .. Len(f) : f[i] \in 1 .. L
      /\ \A i, j \in DOMAIN f : f[i] = f[j] => i = j
      /\ \A r \in 1 .. L : InOrder(o, r) <=> ~Released(f, r)
      /\ Len(o) + Len(f) = L
  BY <1>1 DEF Shared
<1>4. CASE f = <<>>
  <2>1. row = L + 1 /\ M = L + 1 /\ g = <<>> /\ Len(f) = 0
    BY <1>1, <1>4 DEF StoredRow, StoredFree, L
  <2> HIDE DEF row, M, g
  <2>2. a \in Seq(1 .. M) /\ Len(a) = Len(o) + 1 /\ a[Len(o) + 1] = row /\ \A k \in 1 .. Len(o) : a[k] = o[k]
    <3>1. o \in Seq(1 .. M) /\ row \in 1 .. M
      BY <1>1, <1>2, <2>1
    <3> QED
      BY <3>1, <1>2, AppendProperties
  <2> HIDE DEF a
  <2>3. \A r \in 1 .. M : InOrder(a, r)
    <3> TAKE r \in 1 .. M
    <3>1. CASE r = L + 1
      <4>1. Len(o) + 1 \in Places(a) /\ a[Len(o) + 1] = r
        BY <1>2, <2>1, <2>2, <3>1 DEF Places
      <4> QED
        BY <4>1 DEF InOrder
    <3>2. CASE r # L + 1
      <4>1. r \in 1 .. L /\ ~Released(f, r)
        BY <1>1, <1>3, <2>1, <3>2 DEF Released
      <4>2. PICK k \in Places(o) : o[k] = r
        BY <4>1, <1>3 DEF InOrder
      <4>3. k \in Places(a) /\ a[k] = r
        BY <4>2, <1>2, <2>2 DEF Places
      <4> QED
        BY <4>3 DEF InOrder
    <3> QED
      BY <3>1, <3>2
  <2>4. Shared(g, a, M)
    <3>1. g \in Seq(1 .. M) /\ Len(g) = 0 /\ DOMAIN g = {}
      BY <2>1
    <3>2. Len(a) + Len(g) = M
      BY <1>1, <1>2, <1>3, <2>1, <2>2, <3>1
    <3> QED
      BY <2>3, <3>1, <3>2 DEF Shared, Released
  <2>5. L < Capacity
    BY <1>4 DEF L
  <2>6. \A k \in Places(o) : o[k] # row
    BY <1>1, <1>2, <2>1
  <2> QED
    BY <1>1, <2>1, <2>4, <2>5, <2>6 DEF NoRow, row, M, g, a, L
<1>5. CASE f # <<>>
  <2> DEFINE m == Len(f)
  <2>1. m >= 1 /\ row = f[m] /\ g = SubSeq(f, 1, m - 1)
    BY <1>3, <1>5 DEF StoredRow, StoredFree, Last, Front
  <2>2. row \in 1 .. L /\ M = L
    BY <1>1, <1>3, <2>1
  <2> HIDE DEF row, M, g
  <2>3. /\ g \in Seq(1 .. L) /\ Len(g) = m - 1 /\ \A i \in 1 .. m - 1 : g[i] = f[i]
    BY <1>3, <2>1
  <2>4. a \in Seq(1 .. L) /\ Len(a) = Len(o) + 1 /\ a[Len(o) + 1] = row /\ \A k \in 1 .. Len(o) : a[k] = o[k]
    BY <1>2, <2>2, AppendProperties
  <2> HIDE DEF a
  <2>5. Released(f, row) /\ m \in DOMAIN f
    BY <1>3, <2>1 DEF Released
  <2>6. \A k \in Places(o) : o[k] # row
    <3>1. ~InOrder(o, row)
      BY <1>3, <2>2, <2>5
    <3> QED
      BY <3>1 DEF InOrder
  <2>7. DOMAIN g = 1 .. m - 1
    BY <2>3
  <2>8. \A i, j \in DOMAIN g : g[i] = g[j] => i = j
    <3>1. \A i \in DOMAIN g : i \in DOMAIN f /\ g[i] = f[i]
      BY <1>3, <2>3, <2>7
    <3> QED
      BY <3>1, <1>3
  <2>9. ASSUME NEW r \in 1 .. L PROVE InOrder(a, r) <=> ~Released(g, r)
    <3>1. InOrder(a, r) <=> InOrder(o, r) \/ r = row
      <4>1. Places(a) = 1 .. Len(o) + 1
        BY <2>4 DEF Places
      <4> QED
        BY <1>2, <2>4, <4>1 DEF InOrder
    <3>2. Released(g, r) <=> Released(f, r) /\ r # row
      <4>1. \A i \in DOMAIN f : i # m => i \in DOMAIN g /\ g[i] = f[i]
        BY <1>3, <2>3, <2>7
      <4>2. \A i \in DOMAIN g : i \in DOMAIN f /\ g[i] = f[i] /\ i # m
        BY <1>3, <2>3, <2>7
      <4>3. \A i \in DOMAIN f : f[i] = row => i = m
        BY <1>3, <2>1, <2>5
      <4> QED
        BY <4>1, <4>2, <4>3, <2>1 DEF Released
    <3>3. InOrder(o, r) <=> ~Released(f, r)
      BY <1>3
    <3> QED
      BY <3>1, <3>2, <3>3, <2>5
  <2>10. Len(a) + Len(g) = L
    <3>1. Len(o) + Len(f) = L
      BY <1>3
    <3> QED
      BY <3>1, <1>2, <1>3, <2>3, <2>4
  <2>11. Shared(g, a, L)
    BY <2>3, <2>8, <2>9, <2>10 DEF Shared
  <2>12. row \in 1 .. L + 1 /\ row # NoRow
    BY <1>1, <2>2 DEF NoRow
  <2> QED
    BY <1>1, <2>2, <2>6, <2>11, <2>12 DEF row, M, g, a, L
<1> QED
  BY <1>4, <1>5

\* A newcomer's row joins the queue.
LEMMA Stored ==
  ASSUME NEW q, NEW index, NEW rows, NEW f, NEW o, Shape(q, index, rows, f, o),
         f = <<>> => Len(rows) < Capacity,
         NEW n \in TierNodes, index[n] = NoRow, NEW ft \in Features
  PROVE  LET row == StoredRow(rows, f)
             u == StoredIn(q, n, row)
         IN /\ Shape(u, [index EXCEPT ![n] = row], StoredRows(rows, row, ft), StoredFree(f), Append(o, row))
            /\ TierOfRows(u, Append(o, row)) = PushedTier(TierOfRows(q, o), n)
            /\ row # NoRow /\ row \in 1 .. Len(rows) + 1
            /\ \A m \in TierNodes : index[m] # NoRow => index[m] # row
<1> DEFINE L == Len(rows)
           row == StoredRow(rows, f)
           e == StoredEntry(n)
           x == Refilled(q, row, e)
           u == PushHead(x, row)
           a == Append(o, row)
           g == StoredFree(f)
           M == IF row > L THEN L + 1 ELSE L
           kept == [index EXCEPT ![n] = row]
           rows2 == StoredRows(rows, row, ft)
<1>1. /\ L \in Nat /\ Linked(q, o, L) /\ Indexed(q, index, o, L) /\ L <= Capacity /\ rows \in Seq(Features)
  BY DEF Shape
<1>2. /\ row \in 1 .. L + 1 /\ row # NoRow /\ M \in Nat /\ M <= Capacity
      /\ \A k \in Places(o) : o[k] # row
      /\ row \in 1 .. M /\ Shared(g, a, M)
  BY RowStored, Zenon
<1>3. rows2 \in Seq(Features) /\ Len(rows2) = M
  <2> HIDE DEF row
  <2>1. CASE row > L
    <3>1. rows2 = Append(rows, ft)
      BY <2>1 DEF StoredRows
    <3> QED
      BY <1>1, <2>1, <3>1, AppendProperties
  <2>2. CASE ~(row > L)
    <3>1. rows2 = [rows EXCEPT ![row] = ft]
      BY <2>2 DEF StoredRows
    <3>2. rows \in [1 .. L -> Features] /\ row \in 1 .. L /\ M = L
      BY <1>1, <1>2, <2>2
    <3> HIDE DEF rows2
    <3>3. rows2 \in [1 .. L -> Features]
      BY <3>1, <3>2
    <3> HIDE DEF L, M
    <3>4. rows2 \in Seq(Features) /\ Len(rows2) = L
      BY <1>1, <3>3
    <3> QED
      BY <3>2, <3>4
  <2> QED
    BY <2>1, <2>2
<1> HIDE DEF L, row, g, rows2
<1>4. e \in Entry(0) /\ e.node = n /\ e.visited = (n \in Warm)
  BY DEF StoredEntry, Entry, NoRow
<1> HIDE DEF e
<1>5. /\ Linked(x, o, M) /\ Len(q.links) = L
      /\ \A i \in 1 .. L : i # row => x.links[i] = q.links[i]
      /\ x.links[row] = e /\ TierOfRows(x, o) = TierOfRows(q, o)
  <2>1. IsRefilled(q, o, L, row, e)
    BY <1>1, <1>2, <1>4, RowRefilled
  <2> QED
    BY <2>1 DEF IsRefilled
<1> HIDE DEF x
<1>6. /\ Len(o) \in Nat /\ o \in Seq(1 .. L)
      /\ \A k \in Places(o) : o[k] \in 1 .. L /\ o[k] # NoRow /\ q.links[o[k]].node \in TierNodes
  BY <1>1, LinkTypes DEF Entry, Places
<1>7. \A k \in Places(o) : x.links[o[k]].node = q.links[o[k]].node /\ q.links[o[k]].node # n
  <2> SUFFICES ASSUME NEW k \in Places(o)
               PROVE  x.links[o[k]].node = q.links[o[k]].node /\ q.links[o[k]].node # n
    OBVIOUS
  <2>1. o[k] \in 1 .. L /\ o[k] # row
    BY <1>2, <1>6, Zenon
  <2>2. x.links[o[k]] = q.links[o[k]]
    BY <1>5, <2>1, Zenon
  <2>3. index[q.links[o[k]].node] = o[k] /\ o[k] # NoRow
    BY <1>1, <1>6, Zenon DEF Indexed
  <2> QED
    BY <2>2, <2>3, Zenon
<1>8. /\ Linked(u, a, M)
      /\ \A i \in 1 .. M : u.links[i].node = x.links[i].node
      /\ TierOfRows(u, a) = [queue |-> Append(Nodes(x, o), x.links[row].node), hand |-> HandNode(x),
                             visited |-> Marked(x, o) \cup (IF x.links[row].visited THEN {x.links[row].node} ELSE {})]
  <2>1. \A k \in Places(o) : o[k] # row /\ x.links[o[k]].node # x.links[row].node
    BY <1>2, <1>4, <1>5, <1>7
  <2> HIDE DEF M
  <2> QED
    BY <1>2, <1>5, <2>1, Pushed
<1>9. TierOfRows(u, a) = PushedTier(TierOfRows(q, o), n)
  <2> DEFINE N == Nodes(x, o)
             h == HandNode(x)
             v == Marked(x, o)
             tier == TierOfRows(q, o)
  <2>1. tier = [queue |-> N, hand |-> h, visited |-> v]
    BY <1>5 DEF TierOfRows
  <2>2. (IF x.links[row].visited THEN {x.links[row].node} ELSE {}) = {n} \cap Warm
    BY <1>4, <1>5
  <2>3. TierOfRows(u, a) = [queue |-> Append(N, n), hand |-> h, visited |-> v \cup ({n} \cap Warm)]
    BY <1>4, <1>5, <1>8, <2>2
  <2> HIDE DEF N, h, v, tier
  <2> DEFINE N2 == Append(N, n)
             v2 == v \cup ({n} \cap Warm)
  <2>4. PushedTier(tier, n) = QueueAndMarks(tier, N2, v2)
    BY <2>1 DEF PushedTier, QueueAndMarks
  <2>5. QueueAndMarks(tier, N2, v2) = [queue |-> N2, hand |-> h, visited |-> v2]
    <3> HIDE DEF N2, v2
    <3> QED
      BY <2>1, TierWithTwo
  <2> QED
    BY <2>3, <2>4, <2>5 DEF tier
<1>10. \A m \in TierNodes : index[m] # NoRow => index[m] # row
  BY <1>1, <1>2 DEF Indexed
<1>11. /\ Len(a) = Len(o) + 1 /\ a[Len(o) + 1] = row /\ \A k \in 1 .. Len(o) : a[k] = o[k]
       /\ Places(o) = 1 .. Len(o) /\ Places(a) = 1 .. Len(o) + 1
  <2>1. o \in Seq(1 .. L + 1) /\ row \in 1 .. L + 1
    BY <1>1, <1>2, <1>6
  <2> QED
    BY <2>1, <1>6, AppendProperties DEF Places
<1> HIDE DEF a, u
<1>12. /\ kept \in [TierNodes -> 0 .. M] /\ kept[n] = row
       /\ \A m \in TierNodes : m # n => kept[m] = index[m]
  <2>1. index \in [TierNodes -> 0 .. M]
    BY <1>1 DEF Indexed
  <2> HIDE DEF M
  <2> QED
    BY <2>1, <1>2
<1> HIDE DEF kept
<1>13. /\ \A k \in 1 .. Len(o) : u.links[a[k]].node = q.links[o[k]].node /\ a[k] = o[k]
       /\ u.links[row].node = n
  <2>1. \A k \in 1 .. Len(o) : o[k] \in 1 .. M
    BY <1>1, <1>6, <1>11
  <2>2. \A k \in 1 .. Len(o) : u.links[o[k]].node = x.links[o[k]].node /\ x.links[o[k]].node = q.links[o[k]].node
    BY <1>7, <1>8, <1>11, <2>1
  <2>3. u.links[row].node = x.links[row].node
    BY <1>2, <1>8
  <2> QED
    BY <1>4, <1>5, <1>11, <2>2, <2>3
<1>14. Indexed(u, kept, a, M)
  <2>1. ASSUME NEW k \in Places(a) PROVE kept[u.links[a[k]].node] = a[k]
    <3>1. CASE k = Len(o) + 1
      BY <3>1, <1>11, <1>12, <1>13
    <3>2. CASE k # Len(o) + 1
      <4>1. k \in 1 .. Len(o) /\ k \in Places(o)
        BY <3>2, <1>6, <1>11
      <4>2. index[q.links[o[k]].node] = o[k]
        BY <4>1, <1>1 DEF Indexed
      <4> QED
        BY <4>1, <4>2, <1>6, <1>7, <1>12, <1>13
    <3> QED
      BY <3>1, <3>2
  <2>2. ASSUME NEW m \in TierNodes, kept[m] # NoRow
        PROVE  \E k \in Places(a) : a[k] = kept[m] /\ u.links[a[k]].node = m
    <3>1. CASE m = n
      <4>1. Len(o) + 1 \in Places(a) /\ a[Len(o) + 1] = kept[m] /\ u.links[a[Len(o) + 1]].node = m
        BY <3>1, <1>6, <1>11, <1>12, <1>13
      <4> QED
        BY <4>1
    <3>2. CASE m # n
      <4>1. PICK k \in Places(o) : o[k] = index[m] /\ q.links[o[k]].node = m
        BY <2>2, <3>2, <1>1, <1>12 DEF Indexed
      <4>2. k \in Places(a) /\ a[k] = kept[m] /\ u.links[a[k]].node = m
        BY <4>1, <3>2, <1>6, <1>11, <1>12, <1>13
      <4> QED
        BY <4>2
    <3> QED
      BY <3>1, <3>2
  <2> QED
    BY <2>1, <2>2, <1>12 DEF Indexed
<1>15. Shape(u, kept, rows2, g, a)
  <2> HIDE DEF M
  <2> QED
    BY <1>2, <1>3, <1>8, <1>14 DEF Shape
<1> QED
  BY <1>2, <1>9, <1>10, <1>15 DEF StoredIn, L, row, e, x, u, a, g, kept, rows2

-----------------------------------------------------------------------------
(* Each method is a step of the SIEVE queue.                               *)

LEMMA IndexApart ==
  ASSUME NEW q, NEW index, NEW rows, NEW f, NEW o, Shape(q, index, rows, f, o),
         NEW m \in TierNodes, NEW n \in TierNodes, index[m] # NoRow, index[m] = index[n]
  PROVE  m = n
<1>1. Linked(q, o, Len(rows)) /\ Indexed(q, index, o, Len(rows))
  BY DEF Shape
<1>2. PICK j \in Places(o) : o[j] = index[m] /\ q.links[o[j]].node = m
  BY <1>1 DEF Indexed
<1>3. PICK k \in Places(o) : o[k] = index[n] /\ q.links[o[k]].node = n
  BY <1>1 DEF Indexed
<1> QED
  BY <1>2, <1>3

LEMMA RowOfNode ==
  ASSUME NEW q, NEW index, NEW rows, NEW f, NEW o, Shape(q, index, rows, f, o),
         NEW n \in TierNodes, index[n] # NoRow
  PROVE  \E p \in Places(o) : o[p] = index[n] /\ q.links[o[p]].node = n
BY DEF Shape, Indexed

LEMMA QueueFieldsNow ==
  /\ Queue = QueueWith(links, head, tail, hand)
  /\ Queue.links = links /\ Queue.head = head /\ Queue.tail = tail /\ Queue.hand = hand
BY DEF Queue, QueueWith

LEMMA ResidentNow ==
  ASSUME NEW o, Shape(Queue, cache, slab, freeRows, o)
  PROVE  /\ TierSeen(Queue, cache) = TierOfRows(Queue, o)
         /\ \A n \in TierNodes : n \in Abstract!Resident(TierOfRows(Queue, o)) <=> cache[n] # NoRow
         /\ Turns = 2 * Len(o) + 2
         /\ Full <=> Len(o) >= Capacity
BY TierIs DEF Turns, Full

\* get: a hit sets the bit the policy sets.
LEMMA GetMaps ==
  ASSUME SieveInv, NEW n \in TierNodes, Get(n)
  PROVE  SieveInv' /\ Abstract!QueueGet(n)
<1>1. PICK o : Shape(Queue, cache, slab, freeRows, o)
  BY DEF SieveInv
<1>2. /\ TierSeen(Queue, cache) = TierOfRows(Queue, o)
      /\ n \in Abstract!Resident(TierOfRows(Queue, o)) <=> cache[n] # NoRow
  BY <1>1, ResidentNow
<1>3. cache' = cache /\ slab' = slab /\ freeRows' = freeRows /\ head' = head /\ tail' = tail /\ hand' = hand
  BY DEF Get
<1>4. RowsSeen(cache', slab') = RowsSeen(cache, slab)
  BY <1>3
<1>5. RowsSeen(cache, slab)[n] = IF cache[n] = NoRow THEN None ELSE slab[cache[n]]
  BY DEF RowsSeen
<1>6. CASE cache[n] = NoRow
  <2>1. links' = links /\ returned' = <<"miss", None, None>>
    BY <1>6 DEF Get
  <2>2. Queue' = Queue
    BY <1>3, <2>1 DEF Queue
  <2>3. SieveInv'
    BY <1>1, <1>3, <2>2 DEF SieveInv
  <2>4. TierSeen(Queue', cache') = TierSeen(Queue, cache)
    BY <1>3, <2>2
  <2>5. RowsSeen(cache, slab)[n] = None
    BY <1>5, <1>6
  <2> QED
    BY <1>2, <1>4, <1>6, <2>1, <2>3, <2>4, <2>5 DEF Abstract!QueueGet, Abstract!NIL, None
<1>7. CASE cache[n] # NoRow
  <2> DEFINE u == QueueWith(TouchedLinks(Queue, cache, n), Queue.head, Queue.tail, Queue.hand)
  <2>1. Shape(u, cache, slab, freeRows, o) /\ TierOfRows(u, o) = Abstract!Touched(TierOfRows(Queue, o), n)
    BY <1>1, <1>7, TouchedRow
  <2>2. Queue' = u
    <3>1. links' = TouchedLinks(Queue, cache, n)
      BY <1>7, QueueFieldsNow DEF Get, TouchedLinks
    <3> QED
      BY <1>3, <3>1, QueueFieldsNow DEF Queue, QueueWith
  <2> HIDE DEF u
  <2>3. Shape(Queue', cache', slab', freeRows', o)
    BY <1>3, <2>1, <2>2
  <2>4. SieveInv'
    BY <2>3 DEF SieveInv
  <2>5. TierSeen(Queue', cache') = Abstract!Touched(TierSeen(Queue, cache), n)
    <3>1. TierSeen(u, cache) = TierOfRows(u, o)
      BY <2>1, TierIs
    <3> QED
      BY <1>2, <1>3, <2>1, <2>2, <3>1
  <2>6. returned' = <<"hit", None, RowsSeen(cache, slab)[n]>>
    BY <1>5, <1>7 DEF Get
  <2> QED
    BY <1>2, <1>4, <1>7, <2>4, <2>5, <2>6 DEF Abstract!QueueGet, Abstract!NIL, None
<1> QED
  BY <1>6, <1>7

\* remove: the node's row leaves the queue and is released.
LEMMA RemoveMaps ==
  ASSUME SieveInv, NEW n \in TierNodes, RemoveNode(n)
  PROVE  SieveInv' /\ Abstract!QueueRemove(n)
<1>1. PICK o : Shape(Queue, cache, slab, freeRows, o)
  BY DEF SieveInv
<1>2. /\ TierSeen(Queue, cache) = TierOfRows(Queue, o)
      /\ n \in Abstract!Resident(TierOfRows(Queue, o)) <=> cache[n] # NoRow
  BY <1>1, ResidentNow
<1>3. cache \in [TierNodes -> 0 .. Len(slab)] /\ Linked(Queue, o, Len(slab)) /\ Len(slab) \in Nat
  BY <1>1 DEF Shape, Indexed
<1>4. slab' = slab /\ returned' = <<IF cache[n] = NoRow THEN "absent" ELSE "removed", None, None>>
  BY DEF RemoveNode
<1>5. CASE cache[n] = NoRow
  <2>1. links' = links /\ cache' = cache /\ freeRows' = freeRows /\ head' = head /\ tail' = tail /\ hand' = hand
    BY <1>5 DEF RemoveNode
  <2>2. Queue' = Queue
    BY <2>1 DEF Queue
  <2>3. SieveInv'
    BY <1>1, <1>4, <2>1, <2>2 DEF SieveInv
  <2>4. TierSeen(Queue', cache') = Abstract!Without(TierSeen(Queue, cache), n)
    BY <1>2, <1>5, <2>1, <2>2, Zenon DEF Abstract!Without
  <2>5. RowsSeen(cache', slab') = [RowsSeen(cache, slab) EXCEPT ![n] = None]
    BY <1>4, <1>5, <2>1 DEF RowsSeen
  <2>6. returned' = <<"absent", None, None>>
    BY <1>4, <1>5
  <2> QED
    BY <1>2, <1>5, <2>3, <2>4, <2>5, <2>6 DEF Abstract!QueueRemove, Abstract!NIL, None
<1>6. CASE cache[n] # NoRow
  <2>1. PICK p \in Places(o) : o[p] = cache[n] /\ Queue.links[o[p]].node = n
    BY <1>1, <1>6, RowOfNode
  <2> DEFINE u == Unlink(SteppedOff(Queue, o[p]), o[p])
             d == Dropped(o, p)
             kept == [cache EXCEPT ![n] = NoRow]
             f == Append(freeRows, o[p])
  <2>2. /\ Linked(u, d, Len(slab))
        /\ TierOfRows(u, d) = Abstract!Without(TierOfRows(Queue, o), n)
        /\ \A i \in 1 .. Len(slab) : u.links[i].node = Queue.links[i].node
    BY <1>3, <2>1, Removed
  <2>3. Shape(u, kept, slab, f, d)
    <3> HIDE DEF u
    <3> QED
      BY <1>1, <2>1, <2>2, Taken
  <2>4. RemoveRow(n)
    BY <1>6 DEF RemoveNode
  <2>5. cache' = kept /\ freeRows' = f /\ SetQueue(u)
    BY <2>1, <2>4 DEF RemoveRow
  <2>6. Queue' = u
    <3>1. u \in Queues(Len(slab))
      BY <2>2 DEF Linked
    <3> HIDE DEF u
    <3>2. u = QueueWith(u.links, u.head, u.tail, u.hand)
      BY <3>1, QueueIs
    <3> QED
      BY <2>5, <3>2 DEF SetQueue, Queue, QueueWith
  <2> HIDE DEF u, d, f
  <2>7. SieveInv'
    BY <1>4, <2>3, <2>5, <2>6 DEF SieveInv
  <2>8. TierSeen(Queue', cache') = Abstract!Without(TierSeen(Queue, cache), n)
    <3>1. TierSeen(u, kept) = TierOfRows(u, d)
      BY <2>3, TierIs
    <3> QED
      BY <1>2, <2>2, <2>5, <2>6, <3>1
  <2>9. RowsSeen(cache', slab') = [RowsSeen(cache, slab) EXCEPT ![n] = None]
    BY <1>3, <1>4, <2>5 DEF RowsSeen
  <2>10. returned' = <<"removed", None, None>>
    BY <1>4, <1>6
  <2> QED
    BY <1>2, <1>6, <2>7, <2>8, <2>9, <2>10 DEF Abstract!QueueRemove, Abstract!NIL, None
<1> QED
  BY <1>5, <1>6

\* The four ends of an insert.
LEMMA InsertedIs ==
  ASSUME NEW tier, NEW n
  PROVE  LET out == Abstract!Evicted(tier, Pinned)
             done == Abstract!Inserted(tier, n, Capacity, Warm, Pinned)
         IN /\ n \in Abstract!Resident(tier) =>
                 done = [tier |-> Abstract!Touched(tier, n), kind |-> "stored", victim |-> None]
            /\ n \notin Abstract!Resident(tier) /\ Len(tier.queue) < Capacity =>
                 done = [tier |-> PushedTier(tier, n), kind |-> "stored", victim |-> None]
            /\ n \notin Abstract!Resident(tier) /\ ~(Len(tier.queue) < Capacity) /\ out.victim = None =>
                 done = [tier |-> out.tier, kind |-> "refused", victim |-> None]
            /\ n \notin Abstract!Resident(tier) /\ ~(Len(tier.queue) < Capacity) /\ out.victim # None =>
                 done = [tier |-> PushedTier(out.tier, n), kind |-> "evicting", victim |-> out.victim]
<1> DEFINE out == Abstract!Evicted(tier, Pinned)
           done == Abstract!Inserted(tier, n, Capacity, Warm, Pinned)
<1>1. done = IF n \in Abstract!Resident(tier)
             THEN [tier |-> Abstract!Touched(tier, n), kind |-> "stored", victim |-> None]
             ELSE IF Len(tier.queue) < Capacity
             THEN [tier |-> PushedTier(tier, n), kind |-> "stored", victim |-> None]
             ELSE IF out.victim = None THEN [tier |-> out.tier, kind |-> "refused", victim |-> None]
             ELSE [tier |-> PushedTier(out.tier, n), kind |-> "evicting", victim |-> out.victim]
  BY DEF Abstract!Inserted, PushedTier, Abstract!NIL, None
<1> HIDE DEF done, out
<1> QED
  BY <1>1, Zenon DEF done, out

\* Tier, rows and outcome of an insert make the abstract insert.
LEMMA InsertStep ==
  ASSUME NEW n, NEW f, NEW t, NEW k, NEW v,
         Abstract!Inserted(TierSeen(Queue, cache), n, Capacity, Warm, Pinned) = [tier |-> t, kind |-> k, victim |-> v],
         TierSeen(Queue', cache') = t,
         RowsSeen(cache', slab') =
           [m \in TierNodes |-> IF m = n /\ k # "refused" THEN f
                                ELSE IF m = v THEN None ELSE RowsSeen(cache, slab)[m]],
         returned' = <<k, v, IF v = None THEN None ELSE RowsSeen(cache, slab)[v]>>
  PROVE  Abstract!QueueInsert(n, f)
<1> DEFINE done == Abstract!Inserted(TierSeen(Queue, cache), n, Capacity, Warm, Pinned)
<1>1. done.tier = t /\ done.kind = k /\ done.victim = v
  <2> HIDE DEF done
  <2>1. done = [tier |-> t, kind |-> k, victim |-> v]
    BY DEF done
  <2> QED
    BY <2>1
<1>2. /\ TierSeen(Queue', cache') = done.tier
      /\ RowsSeen(cache', slab') =
           [m \in TierNodes |-> IF m = n /\ done.kind # "refused" THEN f
                                ELSE IF m = done.victim THEN None ELSE RowsSeen(cache, slab)[m]]
      /\ returned' = <<done.kind, done.victim, IF done.victim = None THEN None ELSE RowsSeen(cache, slab)[done.victim]>>
  <2> HIDE DEF done
  <2> QED
    BY <1>1
<1> QED
  BY <1>2, Zenon DEF Abstract!QueueInsert, Abstract!NIL, None

\* insert of a resident node.
LEMMA OverwriteMaps ==
  ASSUME SieveInv, NEW n \in TierNodes, NEW f \in {n} \X Versions, Overwrite(n, f)
  PROVE  SieveInv' /\ Abstract!QueueInsert(n, f)
<1>1. PICK o : Shape(Queue, cache, slab, freeRows, o)
  BY DEF SieveInv
<1> DEFINE t == TierOfRows(Queue, o)
           u == QueueWith(TouchedLinks(Queue, cache, n), Queue.head, Queue.tail, Queue.hand)
<1>2. /\ cache[n] # NoRow /\ links' = [links EXCEPT ![cache[n]].visited = TRUE]
      /\ slab' = [slab EXCEPT ![cache[n]] = f] /\ returned' = <<"stored", None, None>>
      /\ cache' = cache /\ freeRows' = freeRows /\ head' = head /\ tail' = tail /\ hand' = hand
  BY DEF Overwrite
<1>3. TierSeen(Queue, cache) = t /\ n \in Abstract!Resident(t)
  BY <1>1, <1>2, ResidentNow
<1>4. Shape(u, cache, slab, freeRows, o) /\ TierOfRows(u, o) = Abstract!Touched(t, n)
  BY <1>1, <1>2, TouchedRow
<1>5. Queue' = u
  <2>1. links' = TouchedLinks(Queue, cache, n)
    BY <1>2, QueueFieldsNow DEF TouchedLinks
  <2> QED
    BY <1>2, <2>1, QueueFieldsNow DEF Queue, QueueWith
<1> HIDE DEF u
<1>6. cache \in [TierNodes -> 0 .. Len(slab)] /\ slab \in Seq(Features)
  BY <1>1 DEF Shape, Indexed
<1>7. f \in Features /\ cache[n] \in 1 .. Len(slab)
  BY <1>2, <1>6 DEF Features, NoRow
<1>8. slab' \in Seq(Features) /\ Len(slab') = Len(slab)
  BY <1>2, <1>6, <1>7
<1>9. SieveInv'
  <2>1. Shape(Queue', cache', slab', freeRows', o)
    BY <1>2, <1>4, <1>5, <1>8 DEF Shape
  <2> QED
    BY <2>1 DEF SieveInv
<1>10. TierSeen(Queue', cache') = Abstract!Touched(t, n)
  <2>1. TierSeen(u, cache) = TierOfRows(u, o)
    BY <1>4, TierIs
  <2> QED
    BY <1>2, <1>4, <1>5, <2>1
<1>11. RowsSeen(cache', slab') =
         [m \in TierNodes |-> IF m = n /\ "stored" # "refused" THEN f
                              ELSE IF m = None THEN None ELSE RowsSeen(cache, slab)[m]]
  <2>1. \A m \in TierNodes : m # n /\ cache[m] # NoRow => cache[m] # cache[n] /\ cache[m] \in DOMAIN slab
    BY <1>1, <1>6, IndexApart DEF NoRow
  <2>2. \A m \in TierNodes : (IF cache'[m] = NoRow THEN None ELSE slab'[cache'[m]])
          = IF m = n THEN f ELSE IF cache[m] = NoRow THEN None ELSE slab[cache[m]]
    BY <1>2, <1>6, <1>7, <2>1
  <2>3. \A m \in TierNodes : m # None
    BY SieveAssumption
  <2> QED
    BY <2>2, <2>3 DEF RowsSeen
<1>12. Abstract!Inserted(t, n, Capacity, Warm, Pinned)
       = [tier |-> Abstract!Touched(t, n), kind |-> "stored", victim |-> None]
  BY <1>3, InsertedIs, Zenon
<1> HIDE DEF t
<1>13. returned' = <<"stored", None, IF None = None THEN None ELSE RowsSeen(cache, slab)[None]>>
  BY <1>2
<1> QED
  BY <1>3, <1>9, <1>10, <1>11, <1>12, <1>13, InsertStep

\* What Store leaves, when the rows before it are in shape.
LEMMA StoreLeaves ==
  ASSUME NEW q, NEW index, NEW f, NEW o, Shape(q, index, slab, f, o),
         f = <<>> => Len(slab) < Capacity,
         NEW n \in TierNodes, index[n] = NoRow, NEW ft \in Features, NEW result,
         Store(n, ft, q, f, index, result)
  PROVE  /\ SieveInv'
         /\ TierSeen(Queue', cache') = PushedTier(TierOfRows(q, o), n)
         /\ returned' = result
         /\ \A m \in TierNodes : RowsSeen(cache', slab')[m] = IF m = n THEN ft ELSE RowsSeen(index, slab)[m]
<1> DEFINE row == StoredRow(slab, f)
           u == StoredIn(q, n, row)
           kept == [index EXCEPT ![n] = row]
           a == Append(o, row)
           rows == StoredRows(slab, row, ft)
           g == StoredFree(f)
<1>1. /\ Shape(u, kept, rows, g, a)
      /\ TierOfRows(u, a) = PushedTier(TierOfRows(q, o), n)
      /\ row # NoRow /\ row \in 1 .. Len(slab) + 1
      /\ \A m \in TierNodes : index[m] # NoRow => index[m] # row
  BY Stored, Zenon
<1>2. freeRows' = g /\ slab' = rows /\ cache' = kept /\ returned' = result /\ SetQueue(u)
  BY DEF Store, StoredRow, StoredRows, StoredFree, StoredIn, Refilled, StoredEntry
<1>3. Queue' = u
  <2>1. u \in Queues(Len(rows))
    BY <1>1 DEF Shape, Linked
  <2> HIDE DEF u
  <2>2. u = QueueWith(u.links, u.head, u.tail, u.hand)
    BY <2>1, QueueIs
  <2> QED
    BY <1>2, <2>2 DEF SetQueue, Queue, QueueWith
<1>4. index \in [TierNodes -> 0 .. Len(slab)] /\ slab \in Seq(Features)
  BY DEF Shape, Indexed
<1>5. TierSeen(u, kept) = TierOfRows(u, a)
  BY <1>1, TierIs
<1>6. \A m \in TierNodes : m # n /\ index[m] # NoRow => rows[index[m]] = slab[index[m]]
  <2> TAKE m \in TierNodes
  <2> HAVE m # n /\ index[m] # NoRow
  <2>1. index[m] \in 1 .. Len(slab) /\ index[m] # row
    BY <1>1, <1>4 DEF NoRow
  <2> HIDE DEF row
  <2>2. CASE row > Len(slab)
    <3>1. rows = Append(slab, ft)
      BY <2>2 DEF StoredRows
    <3> QED
      BY <1>4, <2>1, <3>1, AppendProperties
  <2>3. CASE ~(row > Len(slab))
    <3>1. rows = [slab EXCEPT ![row] = ft]
      BY <2>3 DEF StoredRows
    <3> QED
      BY <1>4, <2>1, <3>1
  <2> QED
    BY <2>2, <2>3
<1>7. rows[row] = ft
  <2> HIDE DEF row
  <2>1. CASE row > Len(slab)
    <3>1. rows = Append(slab, ft) /\ row = Len(slab) + 1
      BY <1>1, <1>4, <2>1 DEF StoredRows
    <3> QED
      BY <1>4, <3>1, AppendProperties
  <2>2. CASE ~(row > Len(slab))
    <3>1. rows = [slab EXCEPT ![row] = ft] /\ row \in 1 .. Len(slab)
      BY <1>1, <1>4, <2>2 DEF StoredRows
    <3> QED
      BY <1>4, <3>1
  <2> QED
    BY <2>1, <2>2
<1> HIDE DEF row, u, a, rows, g
<1>8. \A m \in TierNodes : kept[m] = IF m = n THEN row ELSE index[m]
  BY <1>4
<1> HIDE DEF kept
<1>9. SieveInv'
  BY <1>1, <1>2, <1>3 DEF SieveInv
<1>10. \A m \in TierNodes : RowsSeen(kept, rows)[m] = IF m = n THEN ft ELSE RowsSeen(index, slab)[m]
  <2> TAKE m \in TierNodes
  <2>1. /\ RowsSeen(kept, rows)[m] = (IF kept[m] = NoRow THEN None ELSE rows[kept[m]])
        /\ RowsSeen(index, slab)[m] = (IF index[m] = NoRow THEN None ELSE slab[index[m]])
    BY DEF RowsSeen
  <2> QED
    BY <2>1, <1>1, <1>6, <1>7, <1>8
<1> QED
  BY <1>1, <1>2, <1>3, <1>5, <1>9, <1>10

\* insert below the capacity.
LEMMA InsertFreshMaps ==
  ASSUME SieveInv, NEW n \in TierNodes, NEW f \in {n} \X Versions, InsertFresh(n, f)
  PROVE  SieveInv' /\ Abstract!QueueInsert(n, f)
<1>1. PICK o : Shape(Queue, cache, slab, freeRows, o)
  BY DEF SieveInv
<1> DEFINE t == TierOfRows(Queue, o)
<1>2. cache[n] = NoRow /\ ~Full /\ Store(n, f, Queue, freeRows, cache, <<"stored", None, None>>)
  BY DEF InsertFresh
<1>3. TierSeen(Queue, cache) = t /\ n \notin Abstract!Resident(t) /\ ~(Len(o) >= Capacity)
  BY <1>1, <1>2, ResidentNow
<1>4. Len(o) \in Nat /\ Capacity \in Nat /\ Len(t.queue) = Len(o) /\ f \in Features
  <2>1. Len(slab) \in Nat /\ Linked(Queue, o, Len(slab))
    BY <1>1 DEF Shape
  <2> QED
    BY <2>1, LinkTypes, SieveAssumption DEF TierOfRows, Features
<1>5. freeRows = <<>> => Len(slab) < Capacity
  <2>1. Len(o) + Len(freeRows) = Len(slab)
    BY <1>1 DEF Shape, Shared
  <2> QED
    BY <2>1, <1>3, <1>4
<1>6. /\ SieveInv'
      /\ TierSeen(Queue', cache') = PushedTier(t, n)
      /\ returned' = <<"stored", None, None>>
      /\ \A m \in TierNodes : RowsSeen(cache', slab')[m] = IF m = n THEN f ELSE RowsSeen(cache, slab)[m]
  <2> DEFINE result == <<"stored", None, None>>
  <2> HIDE DEF result, t
  <2>1. Store(n, f, Queue, freeRows, cache, result)
    BY <1>2 DEF result
  <2>2. /\ SieveInv'
        /\ TierSeen(Queue', cache') = PushedTier(TierOfRows(Queue, o), n)
        /\ returned' = result
        /\ \A m \in TierNodes : RowsSeen(cache', slab')[m] = IF m = n THEN f ELSE RowsSeen(cache, slab)[m]
    BY <1>1, <1>2, <1>4, <1>5, <2>1, StoreLeaves
  <2> QED
    BY <2>2 DEF result, t
<1> HIDE DEF t
<1>7. Abstract!Inserted(t, n, Capacity, Warm, Pinned)
      = [tier |-> PushedTier(t, n), kind |-> "stored", victim |-> None]
  <2>1. Len(t.queue) < Capacity
    BY <1>3, <1>4
  <2> QED
    BY <1>3, <2>1, InsertedIs, Zenon
<1>8. RowsSeen(cache', slab') =
        [m \in TierNodes |-> IF m = n /\ "stored" # "refused" THEN f
                             ELSE IF m = None THEN None ELSE RowsSeen(cache, slab)[m]]
  <2>1. \A m \in TierNodes : m # None
    BY SieveAssumption
  <2>2. RowsSeen(cache', slab') = [m \in TierNodes |-> RowsSeen(cache', slab')[m]]
    BY DEF RowsSeen
  <2> QED
    BY <1>6, <2>1, <2>2
<1>9. returned' = <<"stored", None, IF None = None THEN None ELSE RowsSeen(cache, slab)[None]>>
  BY <1>6
<1> QED
  BY <1>3, <1>6, <1>7, <1>8, <1>9, InsertStep

\* What the eviction loop does to a full tier's rows.
LEMMA SweepNow ==
  ASSUME NEW o, Shape(Queue, cache, slab, freeRows, o)
  PROVE  LET swept == Sweep(Queue, Turns)
             out == Abstract!Evicted(TierOfRows(Queue, o), Pinned)
         IN \/ /\ swept.found = NoRow /\ out.victim = None
               /\ Shape(swept.queue, cache, slab, freeRows, o)
               /\ TierOfRows(swept.queue, o) = out.tier
            \/ \E p \in Places(o) :
                 LET n == Queue.links[o[p]].node
                 IN /\ swept.found = o[p] /\ o[p] # NoRow /\ out.victim = n
                    /\ n \in TierNodes /\ cache[n] = o[p]
                    /\ Shape(swept.queue, [cache EXCEPT ![n] = NoRow], slab, Append(freeRows, o[p]), Dropped(o, p))
                    /\ TierOfRows(swept.queue, Dropped(o, p)) = out.tier
<1> DEFINE L == Len(slab)
           swept == Sweep(Queue, Turns)
           out == Abstract!Evicted(TierOfRows(Queue, o), Pinned)
<1>1. L \in Nat /\ Linked(Queue, o, L) /\ Indexed(Queue, cache, o, L)
  BY DEF Shape
<1>2. Turns = 2 * Len(o) + 2
  BY ResidentNow
<1>3. Evicts(Queue, o, L, swept, out)
  <2> HIDE DEF L
  <2> QED
    BY <1>1, <1>2, SweepEvicts
<1> HIDE DEF swept, out
<1>4. CASE /\ swept.found = NoRow /\ out.victim = None
           /\ Linked(swept.queue, o, L) /\ TierOfRows(swept.queue, o) = out.tier
           /\ \A i \in 1 .. L : swept.queue.links[i].node = Queue.links[i].node
  <2>1. Indexed(swept.queue, cache, o, L)
    <3> HIDE DEF L
    <3> QED
      BY <1>1, <1>4, IndexedAgain
  <2>2. Shape(swept.queue, cache, slab, freeRows, o)
    BY <1>4, <2>1 DEF Shape
  <2> QED
    BY <1>4, <2>2 DEF swept, out
<1>5. CASE \E p \in Places(o) :
             /\ swept.found = o[p] /\ out.victim = Queue.links[o[p]].node
             /\ Linked(swept.queue, Dropped(o, p), L) /\ TierOfRows(swept.queue, Dropped(o, p)) = out.tier
             /\ \A i \in 1 .. L : swept.queue.links[i].node = Queue.links[i].node
  <2>1. PICK p \in Places(o) :
             /\ swept.found = o[p] /\ out.victim = Queue.links[o[p]].node
             /\ Linked(swept.queue, Dropped(o, p), L) /\ TierOfRows(swept.queue, Dropped(o, p)) = out.tier
             /\ \A i \in 1 .. L : swept.queue.links[i].node = Queue.links[i].node
    BY <1>5
  <2>2. /\ o[p] # NoRow /\ Queue.links[o[p]].node \in TierNodes
        /\ cache[Queue.links[o[p]].node] = o[p]
    <3> HIDE DEF L
    <3> QED
      BY <1>1, LinkTypes DEF Indexed, Entry
  <2>3. Shape(swept.queue, [cache EXCEPT ![Queue.links[o[p]].node] = NoRow], slab, Append(freeRows, o[p]), Dropped(o, p))
    BY <2>1, Taken
  <2> QED
    BY <2>1, <2>2, <2>3 DEF swept, out
<1> QED
  BY <1>3, <1>4, <1>5 DEF Evicts

\* insert into a tier whose nodes are all pinned.
LEMMA RefuseMaps ==
  ASSUME SieveInv, NEW n \in TierNodes, Refuse(n), NEW f
  PROVE  SieveInv' /\ Abstract!QueueInsert(n, f)
<1>1. PICK o : Shape(Queue, cache, slab, freeRows, o)
  BY DEF SieveInv
<1> DEFINE t == TierOfRows(Queue, o)
           swept == Sweep(Queue, Turns)
           out == Abstract!Evicted(t, Pinned)
           u == swept.queue
<1>2. /\ cache[n] = NoRow /\ Full /\ swept.found = NoRow /\ SetQueue(u)
      /\ returned' = <<"refused", None, None>>
      /\ cache' = cache /\ slab' = slab /\ freeRows' = freeRows
  BY DEF Refuse
<1>3. TierSeen(Queue, cache) = t /\ n \notin Abstract!Resident(t) /\ Len(o) >= Capacity
  BY <1>1, <1>2, ResidentNow
<1>4. Len(o) \in Nat /\ Capacity \in Nat /\ Len(t.queue) = Len(o)
  <2>1. Len(slab) \in Nat /\ Linked(Queue, o, Len(slab))
    BY <1>1 DEF Shape
  <2> QED
    BY <2>1, LinkTypes, SieveAssumption DEF TierOfRows
<1>5. out.victim = None /\ Shape(u, cache, slab, freeRows, o) /\ TierOfRows(u, o) = out.tier
  BY <1>1, <1>2, SweepNow
<1> HIDE DEF swept, u, out
<1>6. Queue' = u
  <2>1. u \in Queues(Len(slab))
    BY <1>5 DEF Shape, Linked
  <2>2. u = QueueWith(u.links, u.head, u.tail, u.hand)
    BY <2>1, QueueIs
  <2> QED
    BY <1>2, <2>2 DEF SetQueue, Queue, QueueWith
<1>7. SieveInv'
  BY <1>2, <1>5, <1>6 DEF SieveInv
<1>8. TierSeen(Queue', cache') = out.tier
  <2>1. TierSeen(u, cache) = TierOfRows(u, o)
    BY <1>5, TierIs
  <2> QED
    BY <1>2, <1>5, <1>6, <2>1
<1> HIDE DEF t
<1>9. Abstract!Inserted(t, n, Capacity, Warm, Pinned) = [tier |-> out.tier, kind |-> "refused", victim |-> None]
  <2>1. ~(Len(t.queue) < Capacity)
    BY <1>3, <1>4
  <2> QED
    BY <1>3, <1>5, <2>1, InsertedIs, Zenon DEF out
<1>10. RowsSeen(cache', slab') =
         [m \in TierNodes |-> IF m = n /\ "refused" # "refused" THEN f
                              ELSE IF m = None THEN None ELSE RowsSeen(cache, slab)[m]]
  <2>1. \A m \in TierNodes : m # None
    BY SieveAssumption
  <2>2. RowsSeen(cache', slab') = [m \in TierNodes |-> RowsSeen(cache, slab)[m]]
    BY <1>2 DEF RowsSeen
  <2> QED
    BY <2>1, <2>2
<1>11. returned' = <<"refused", None, IF None = None THEN None ELSE RowsSeen(cache, slab)[None]>>
  BY <1>2
<1> QED
  BY <1>3, <1>7, <1>8, <1>9, <1>10, <1>11, InsertStep

\* insert in place of the node the eviction loop finds.
LEMMA InsertEvictingMaps ==
  ASSUME SieveInv, NEW n \in TierNodes, NEW f \in {n} \X Versions, InsertEvicting(n, f)
  PROVE  SieveInv' /\ Abstract!QueueInsert(n, f)
<1>1. PICK o : Shape(Queue, cache, slab, freeRows, o)
  BY DEF SieveInv
<1> DEFINE t == TierOfRows(Queue, o)
           swept == Sweep(Queue, Turns)
           out == Abstract!Evicted(t, Pinned)
           u == swept.queue
           v == links[swept.found].node
           kept == [cache EXCEPT ![v] = NoRow]
           g == Append(freeRows, swept.found)
<1>2. /\ cache[n] = NoRow /\ Full /\ swept.found # NoRow
      /\ Store(n, f, u, g, kept, <<"evicting", v, slab[swept.found]>>)
  BY DEF InsertEvicting
<1>3. TierSeen(Queue, cache) = t /\ n \notin Abstract!Resident(t) /\ Len(o) >= Capacity
  BY <1>1, <1>2, ResidentNow
<1>4. Len(o) \in Nat /\ Capacity \in Nat /\ Len(t.queue) = Len(o) /\ f \in Features
  <2>1. Len(slab) \in Nat /\ Linked(Queue, o, Len(slab))
    BY <1>1 DEF Shape
  <2> QED
    BY <2>1, LinkTypes, SieveAssumption DEF TierOfRows, Features
<1>5. PICK p \in Places(o) :
        /\ swept.found = o[p] /\ o[p] # NoRow /\ out.victim = Queue.links[o[p]].node
        /\ Queue.links[o[p]].node \in TierNodes /\ cache[Queue.links[o[p]].node] = o[p]
        /\ Shape(u, [cache EXCEPT ![Queue.links[o[p]].node] = NoRow], slab, Append(freeRows, o[p]), Dropped(o, p))
        /\ TierOfRows(u, Dropped(o, p)) = out.tier
  BY <1>1, <1>2, SweepNow
<1> DEFINE d == Dropped(o, p)
<1>6. /\ v \in TierNodes /\ out.victim = v /\ cache[v] = swept.found
      /\ Shape(u, kept, slab, g, d) /\ TierOfRows(u, d) = out.tier
  BY <1>5, QueueFieldsNow
<1>7. g # <<>>
  <2>1. freeRows \in Seq(1 .. Len(slab))
    BY <1>1 DEF Shape, Shared
  <2> QED
    BY <2>1
<1>8. cache \in [TierNodes -> 0 .. Len(slab)]
  BY <1>1 DEF Shape, Indexed
<1> HIDE DEF v, swept, u, g
<1>9. kept[n] = NoRow /\ \A m \in TierNodes : kept[m] = IF m = v THEN NoRow ELSE cache[m]
  BY <1>2, <1>6, <1>8
<1> HIDE DEF kept, d, out
<1>10. /\ SieveInv'
       /\ TierSeen(Queue', cache') = PushedTier(TierOfRows(u, d), n)
       /\ returned' = <<"evicting", v, slab[swept.found]>>
       /\ \A m \in TierNodes : RowsSeen(cache', slab')[m] = IF m = n THEN f ELSE RowsSeen(kept, slab)[m]
  <2> DEFINE result == <<"evicting", v, slab[swept.found]>>
  <2> HIDE DEF result
  <2>1. Store(n, f, u, g, kept, result)
    BY <1>2 DEF result
  <2>2. /\ SieveInv'
        /\ TierSeen(Queue', cache') = PushedTier(TierOfRows(u, d), n)
        /\ returned' = result
        /\ \A m \in TierNodes : RowsSeen(cache', slab')[m] = IF m = n THEN f ELSE RowsSeen(kept, slab)[m]
    BY <1>4, <1>6, <1>7, <1>9, <2>1, StoreLeaves
  <2> QED
    BY <2>2 DEF result
<1> HIDE DEF t
<1>11. v # None
  BY <1>6, SieveAssumption
<1>12. Abstract!Inserted(t, n, Capacity, Warm, Pinned)
       = [tier |-> PushedTier(out.tier, n), kind |-> "evicting", victim |-> v]
  <2>1. ~(Len(t.queue) < Capacity)
    BY <1>3, <1>4
  <2> QED
    BY <1>3, <1>6, <1>11, <2>1, InsertedIs, Zenon DEF out
<1>13. RowsSeen(cache', slab') =
         [m \in TierNodes |-> IF m = n /\ "evicting" # "refused" THEN f
                              ELSE IF m = v THEN None ELSE RowsSeen(cache, slab)[m]]
  <2>1. \A m \in TierNodes : RowsSeen(kept, slab)[m] = IF m = v THEN None ELSE RowsSeen(cache, slab)[m]
    BY <1>9 DEF RowsSeen
  <2>2. RowsSeen(cache', slab') = [m \in TierNodes |-> RowsSeen(cache', slab')[m]]
    BY DEF RowsSeen
  <2> QED
    BY <1>10, <2>1, <2>2
<1>14. returned' = <<"evicting", v, IF v = None THEN None ELSE RowsSeen(cache, slab)[v]>>
  <2>1. RowsSeen(cache, slab)[v] = slab[swept.found]
    BY <1>2, <1>6 DEF RowsSeen
  <2> QED
    BY <1>10, <1>11, <2>1
<1>15. TierSeen(Queue', cache') = PushedTier(out.tier, n)
  BY <1>6, <1>10
<1> QED
  BY <1>3, <1>10, <1>12, <1>13, <1>14, <1>15, InsertStep

-----------------------------------------------------------------------------
LEMMA SieveStart == SieveInit => SieveInv /\ Abstract!QueueInit
<1> SUFFICES ASSUME SieveInit PROVE SieveInv /\ Abstract!QueueInit
  OBVIOUS
<1> DEFINE o == <<>>
<1>1. /\ Len(o) = 0 /\ Places(o) = {} /\ o \in Seq(1 .. 0) /\ DOMAIN o = {}
  BY DEF Places
<1> HIDE DEF o
<1>2. /\ links = <<>> /\ slab = <<>> /\ freeRows = <<>> /\ cache = [n \in TierNodes |-> NoRow]
      /\ head = NoRow /\ tail = NoRow /\ hand = NoRow /\ returned = <<None, None, None>> /\ Len(slab) = 0
  BY DEF SieveInit
<1>3. Linked(Queue, o, 0)
  <2>1. Queue \in Queues(0)
    BY <1>2 DEF Queue, Queues, NoRow
  <2>2. Queue.head = NoRow /\ Queue.tail = NoRow /\ Queue.hand = NoRow
    BY <1>2, QueueFieldsNow
  <2> QED
    BY <1>1, <2>1, <2>2 DEF Linked, Order, Ends, Chained, OnChain, NodesApart, o
<1>4. Indexed(Queue, cache, o, 0)
  BY <1>1, <1>2 DEF Indexed, NoRow
<1>5. Shared(freeRows, o, 0)
  BY <1>1, <1>2 DEF Shared
<1>6. Shape(Queue, cache, slab, freeRows, o)
  BY <1>2, <1>3, <1>4, <1>5, SieveAssumption DEF Shape
<1>7. SieveInv
  BY <1>6 DEF SieveInv
<1>8. TierSeen(Queue, cache) = TierOfRows(Queue, o)
  BY <1>6, ResidentNow
<1>9. TierOfRows(Queue, o) = [queue |-> <<>>, hand |-> None, visited |-> {}]
  <2>1. Nodes(Queue, o) = <<>>
    BY <1>1 DEF Nodes
  <2>2. HandNode(Queue) = None
    BY <1>2, QueueFieldsNow DEF HandNode
  <2>3. Marked(Queue, o) = {}
    BY <1>1 DEF Marked
  <2> QED
    BY <2>1, <2>2, <2>3 DEF TierOfRows
<1>10. RowsSeen(cache, slab) = [n \in TierNodes |-> None]
  BY <1>2 DEF RowsSeen
<1> QED
  BY <1>2, <1>7, <1>8, <1>9, <1>10 DEF Abstract!QueueInit, Abstract!EmptyTier, Abstract!NIL, None

\* Every call keeps the rows in shape and is a step of the policy or none.
LEMMA SieveStep == SieveInv /\ [SieveNext]_svars => SieveInv' /\ [Abstract!QueueNext]_Abstract!qvars
<1> SUFFICES ASSUME SieveInv, [SieveNext]_svars PROVE SieveInv' /\ [Abstract!QueueNext]_Abstract!qvars
  OBVIOUS
<1>1. CASE SieveNext
  <2>1. PICK n \in TierNodes :
          \/ Get(n) \/ RemoveNode(n) \/ Refuse(n)
          \/ \E f \in {n} \X Versions : Overwrite(n, f) \/ InsertFresh(n, f) \/ InsertEvicting(n, f)
    BY <1>1 DEF SieveNext
  <2>2. CASE Get(n)
    BY <2>2, GetMaps DEF Abstract!QueueNext
  <2>3. CASE RemoveNode(n)
    BY <2>3, RemoveMaps DEF Abstract!QueueNext
  <2>4. CASE Refuse(n)
    <3>1. PICK w : w \in Versions
      BY SieveAssumption
    <3> DEFINE f == <<n, w>>
    <3>2. f \in {n} \X Versions
      BY <3>1
    <3> HIDE DEF f
    <3> QED
      BY <2>4, <3>2, RefuseMaps DEF Abstract!QueueNext
  <2>5. CASE \E f \in {n} \X Versions : Overwrite(n, f) \/ InsertFresh(n, f) \/ InsertEvicting(n, f)
    <3>1. PICK f \in {n} \X Versions : Overwrite(n, f) \/ InsertFresh(n, f) \/ InsertEvicting(n, f)
      BY <2>5
    <3>2. SieveInv' /\ Abstract!QueueInsert(n, f)
      BY <3>1, OverwriteMaps, InsertFreshMaps, InsertEvictingMaps
    <3> QED
      BY <3>2 DEF Abstract!QueueNext
  <2> QED
    BY <2>1, <2>2, <2>3, <2>4, <2>5
<1>2. CASE UNCHANGED svars
  <2>1. /\ cache' = cache /\ links' = links /\ slab' = slab /\ freeRows' = freeRows /\ head' = head
        /\ tail' = tail /\ hand' = hand /\ returned' = returned
    BY <1>2 DEF svars
  <2>2. Queue' = Queue
    BY <2>1 DEF Queue
  <2>3. SieveInv'
    BY <2>1, <2>2 DEF SieveInv
  <2>4. UNCHANGED Abstract!qvars
    BY <2>1, <2>2 DEF Abstract!qvars
  <2> QED
    BY <2>3, <2>4
<1> QED
  BY <1>1, <1>2

LEMMA RowsAreAccounted == SieveInv => RowsAccounted
<1> SUFFICES ASSUME SieveInv PROVE RowsAccounted
  OBVIOUS
<1>1. PICK o : Shape(Queue, cache, slab, freeRows, o)
  BY DEF SieveInv
<1> DEFINE L == Len(slab)
<1>2. /\ Linked(Queue, o, L) /\ Indexed(Queue, cache, o, L) /\ Shared(freeRows, o, L)
      /\ slab \in Seq(Features) /\ L <= Capacity
  BY <1>1 DEF Shape
<1>3. ASSUME NEW r \in DOMAIN slab
      PROVE  Cardinality({n \in TierNodes : cache[n] = r}) + Cardinality({i \in DOMAIN freeRows : freeRows[i] = r}) = 1
  <2>1. r \in 1 .. L /\ r # NoRow /\ L \in Nat
    BY <1>2 DEF NoRow
  <2> HIDE DEF L
  <2>2. CASE InOrder(o, r)
    <3>1. PICK k \in Places(o) : o[k] = r
      BY <2>2 DEF InOrder
    <3>2. Queue.links[o[k]].node \in TierNodes /\ cache[Queue.links[o[k]].node] = r
      BY <1>2, <2>1, <3>1, LinkTypes DEF Indexed, Entry
    <3>3. \A n \in TierNodes : cache[n] = r => n = Queue.links[o[k]].node
      BY <1>1, <2>1, <3>2, IndexApart
    <3>4. {n \in TierNodes : cache[n] = r} = {Queue.links[o[k]].node}
      BY <3>2, <3>3
    <3>5. {i \in DOMAIN freeRows : freeRows[i] = r} = {}
      BY <1>2, <2>1, <2>2 DEF Shared, Released
    <3>6. Cardinality({Queue.links[o[k]].node}) = 1 /\ Cardinality({}) = 0
      BY FS_Singleton, FS_EmptySet
    <3> QED
      BY <3>4, <3>5, <3>6
  <2>3. CASE ~InOrder(o, r)
    <3>1. PICK at \in DOMAIN freeRows : freeRows[at] = r
      BY <1>2, <2>1, <2>3 DEF Shared, Released
    <3>2. {i \in DOMAIN freeRows : freeRows[i] = r} = {at}
      BY <1>2, <3>1 DEF Shared
    <3>3. {n \in TierNodes : cache[n] = r} = {}
      BY <1>2, <2>1, <2>3 DEF Indexed, InOrder
    <3>4. Cardinality({at}) = 1 /\ Cardinality({}) = 0
      BY FS_Singleton, FS_EmptySet
    <3>5. Cardinality({n \in TierNodes : cache[n] = r}) = 0
      BY <3>3, <3>4
    <3>6. Cardinality({i \in DOMAIN freeRows : freeRows[i] = r}) = 1
      BY <3>2, <3>4
    <3> QED
      BY <3>5, <3>6
  <2> QED
    BY <2>2, <2>3
<1> QED
  BY <1>2, <1>3 DEF RowsAccounted

\* Whatever hits, inserts, evictions and removals the tier has seen, each row
\* of its slab is one resident node's or is on the free list once, and the
\* slab has at most as many rows as the capacity (slab.rs).
THEOREM RowsAccountedAlways == SieveSpec => []RowsAccounted
<1>1. SieveInv /\ [SieveNext]_svars => SieveInv'
  BY SieveStep
<1> QED
  BY <1>1, SieveStart, RowsAreAccounted, PTL DEF SieveSpec

\* The rows, links and hand implement the SIEVE queue: every method is the
\* policy's step or changes nothing, with the same victim, row and outcome
\* (sieve.rs).
THEOREM LinkedRowsAreSieveQueue == SieveSpec => IsSieveQueue
<1> QED
  BY SieveStart, SieveStep, PTL DEF SieveSpec, IsSieveQueue, Abstract!QueueSpec

\* What the disk_backed run checks step by step, for any nodes, versions,
\* capacity, and warm and pinned nodes.
THEOREM TierIsSieveQueueAlways == SieveSpec => TierIsSieveQueue
<1>1. [Abstract!QueueNext]_Abstract!qvars => UNCHANGED svars \/ [Abstract!QueueNext]_Abstract!qvars
  OBVIOUS
<1> QED
  BY <1>1, SieveStart, SieveStep, RowsAreAccounted, PTL DEF SieveSpec, TierIsSieveQueue

-----------------------------------------------------------------------------
(* The log.                                                                 *)

USE WalAssumption

LEMMA NewBatchType ==
  ASSUME NEW s \in NewBatches
  PROVE  s \in Seq(Edges)
<1>1. PICK n \in 1..MaxBatch : s \in [1..n -> Edges \ live]
  BY DEF NewBatches
<1>2. s \in [1..n -> Edges]
  BY <1>1
<1> QED
  BY <1>1, <1>2

LEMMA FlagsStep == FlagsOK /\ [Next]_vars => FlagsOK'
<1> SUFFICES ASSUME FlagsOK, [Next]_vars PROVE FlagsOK'
  OBVIOUS
<1> USE DEF FlagsOK, vars, fileVars, memVars, histVars
<1>1. CASE CreateHeader
  BY <1>1, Zenon DEF CreateHeader
<1>2. CASE SyncHeader
  BY <1>2, Zenon DEF SyncHeader
<1>3. CASE OpenExisting
  BY <1>3, Zenon DEF OpenExisting
<1>4. CASE Replay
  BY <1>4, Zenon DEF Replay, ReplayStopsAt
<1>5. CASE SyncCut
  BY <1>5, Zenon DEF SyncCut
<1>6. CASE OpenGuard
  BY <1>6, Zenon DEF OpenGuard
<1>7. ASSUME NEW s \in NewBatches, Insert(s) PROVE FlagsOK'
  BY <1>7, Zenon DEF Insert, NewBatches
<1>8. CASE StageSpilled
  BY <1>8, Zenon DEF StageSpilled
<1>9. CASE Publish
  BY <1>9, Zenon DEF Publish, Elements
<1>10. CASE WriteHalf
  BY <1>10, Zenon DEF WriteHalf, flushFrame, Flushing
<1>11. CASE WriteRest
  BY <1>11, Zenon DEF WriteRest, flushFrame, Flushing
<1>12. CASE WriteFails
  BY <1>12, Zenon DEF WriteFails, flushFrame, Flushing
<1>13. CASE BeginDrop
  BY <1>13, Zenon DEF BeginDrop
<1>14. CASE SyncData
  BY <1>14, Zenon DEF SyncData
<1>15. CASE SyncFails
  BY <1>15, Zenon DEF SyncFails
<1>16. CASE RingSyncFails
  BY <1>16, Zenon DEF RingSyncFails
<1>17. CASE RingLost
  BY <1>17, Zenon DEF RingLost
<1>18. CASE Commit
  BY <1>18, Zenon DEF Commit
<1>19. CASE Poison
  BY <1>19, Zenon DEF Poison
<1>20. CASE Panic
  BY <1>20, Zenon DEF Panic
<1>21. CASE CloseGraph
  BY <1>21, Zenon DEF CloseGraph
<1>22. CASE Exit
  BY <1>22, Zenon DEF Exit, Forget
<1>23. CASE ProcessCrash
  BY <1>23, Zenon DEF ProcessCrash, Forget, Elements
<1>24. CASE PowerFailure
  BY <1>24, Zenon DEF PowerFailure, Forget, Elements
<1>25. CASE UNCHANGED vars
  BY <1>25, Zenon
<1> QED
  BY <1>1, <1>2, <1>3, <1>4, <1>5, <1>6, <1>7, <1>8, <1>9, <1>10, <1>11,
     <1>12, <1>13, <1>14, <1>15, <1>16, <1>17, <1>18, <1>19, <1>20, <1>21,
     <1>22, <1>23, <1>24, <1>25 DEF Next

LEMMA DataStep == TypeOK /\ [Next]_vars => DataOK'
<1> SUFFICES ASSUME TypeOK, [Next]_vars PROVE DataOK'
  OBVIOUS
<1> USE DEF TypeOK, DataOK, vars, fileVars, memVars, histVars
<1>1. CASE CreateHeader
  BY <1>1 DEF CreateHeader
<1>2. CASE SyncHeader
  BY <1>2 DEF SyncHeader
<1>3. CASE OpenExisting
  BY <1>3 DEF OpenExisting
<1>4. CASE Replay
  <2>1. PICK n \in 0..Len(os) :
          /\ live' = {os[i] : i \in 1..n} /\ replayed' = n
          /\ ReplayStopsAt(n)
          /\ \/ /\ os' = SubSeq(os, 1, n) /\ pc' = "cut"
                /\ dur' = IF dur < n THEN dur ELSE n
             \/ pc' = "idle" /\ UNCHANGED <<os, dur>>
    BY <1>4 DEF Replay
  <2>2. SubSeq(os, 1, n) \in Seq(Edges \cup {Bad})
        /\ Len(SubSeq(os, 1, n)) = n
    OBVIOUS
  <2>3. os' \in Seq(Edges \cup {Bad}) /\ dur' \in 0..Len(os')
    BY <2>1, <2>2
  <2>4. live' \subseteq Edges
    BY <2>1 DEF ReplayStopsAt
  <2> QED
    BY <1>4, <2>1, <2>3, <2>4 DEF Replay
<1>5. CASE SyncCut
  BY <1>5 DEF SyncCut
<1>6. CASE OpenGuard
  BY <1>6 DEF OpenGuard
<1>7. ASSUME NEW s \in NewBatches, Insert(s) PROVE DataOK'
  <2>1. s \in Seq(Edges)
    BY <1>7, NewBatchType
  <2>2. buf \o s \in Seq(Edges)
    BY <2>1
  <2>3. batch' \in Seq(Edges) /\ buf' \in Seq(Edges)
    BY <1>7, <2>1, <2>2 DEF Insert
  <2> QED
    BY <1>7, <2>3 DEF Insert
<1>8. CASE StageSpilled
  BY <1>8 DEF StageSpilled
<1>9. CASE Publish
  BY <1>9 DEF Publish, Elements
<1>10. CASE WriteHalf
  BY <1>10 DEF WriteHalf, flushFrame, Flushing
<1>11. CASE WriteRest
  BY <1>11 DEF WriteRest, flushFrame, Flushing
<1>12. CASE WriteFails
  BY <1>12 DEF WriteFails, flushFrame, Flushing
<1>13. CASE BeginDrop
  BY <1>13 DEF BeginDrop
<1>14. CASE SyncData
  BY <1>14 DEF SyncData
<1>15. CASE SyncFails
  BY <1>15 DEF SyncFails
<1>16. CASE RingSyncFails
  BY <1>16 DEF RingSyncFails
<1>17. CASE RingLost
  BY <1>17 DEF RingLost
<1>18. CASE Commit
  BY <1>18 DEF Commit
<1>19. CASE Poison
  BY <1>19 DEF Poison
<1>20. CASE Panic
  BY <1>20 DEF Panic
<1>21. CASE CloseGraph
  BY <1>21 DEF CloseGraph
<1>22. CASE Exit
  BY <1>22 DEF Exit, Forget
<1>23. CASE ProcessCrash
  BY <1>23 DEF ProcessCrash, Forget, Elements
<1>24. CASE PowerFailure
  <2>1. os' \in Seq(Edges \cup {Bad}) /\ dur' \in 0..Len(os')
    <3>1. CASE os' = <<>> /\ dur' = 0
      BY <3>1
    <3>2. ASSUME NEW n \in dur..Len(os), NEW bad \in SUBSET ((dur + 1)..n),
                 os' = [i \in 1..n |-> IF i \in bad THEN Bad ELSE os[i]],
                 dur' = n
          PROVE  os' \in Seq(Edges \cup {Bad}) /\ dur' \in 0..Len(os')
      <4>1. n \in Nat /\ n <= Len(os)
        OBVIOUS
      <4>2. os' \in [1..n -> Edges \cup {Bad}]
        BY <3>2, <4>1
      <4> QED
        BY <3>2, <4>1, <4>2
    <3> QED
      BY <1>24, <3>1, <3>2 DEF PowerFailure
  <2>2. header' \in {"none", "part", "ok"}
    BY <1>24 DEF PowerFailure
  <2> QED
    BY <1>24, <2>1, <2>2 DEF PowerFailure, Forget, Elements
<1>25. CASE UNCHANGED vars
  BY <1>25
<1> QED
  BY <1>1, <1>2, <1>3, <1>4, <1>5, <1>6, <1>7, <1>8, <1>9, <1>10, <1>11,
     <1>12, <1>13, <1>14, <1>15, <1>16, <1>17, <1>18, <1>19, <1>20, <1>21,
     <1>22, <1>23, <1>24, <1>25 DEF Next

\* Where the entries of a concatenation come from.
LEMMA ConcatIndices ==
  ASSUME NEW S, NEW a \in Seq(S), NEW b \in Seq(S)
  PROVE  /\ Len(a \o b) = Len(a) + Len(b)
         /\ \A i \in 1..Len(a) : (a \o b)[i] = a[i]
         /\ \A i \in 1..Len(b) : (a \o b)[Len(a) + i] = b[i]
  OBVIOUS

\* An edge stays durable while the part of the file that is on the medium is
\* not rewritten.
LEMMA DurableKept ==
  ASSUME dur \in Nat, dur' \in Nat, dur <= dur',
         \A i \in 1..dur : os'[i] = os[i],
         NEW e, Durable(e)
  PROVE  Durable(e)'
<1>1. PICK i \in 1..dur : os[i] = e /\ \A j \in 1..i : os[j] # Bad
  BY DEF Durable
<1>2. i \in 1..dur' /\ os'[i] = e /\ \A j \in 1..i : os'[j] # Bad
  BY <1>1
<1> QED
  BY <1>2 DEF Durable

LEMMA ElementsConcat ==
  ASSUME NEW S, NEW s \in Seq(S), NEW t \in Seq(S)
  PROVE  Elements(s \o t) = Elements(s) \cup Elements(t)
<1>1. ASSUME NEW i \in DOMAIN s PROVE s[i] \in Elements(s \o t)
  BY DEF Elements
<1>2. ASSUME NEW i \in DOMAIN t PROVE t[i] \in Elements(s \o t)
  <2>1. Len(s) + i \in DOMAIN (s \o t) /\ (s \o t)[Len(s) + i] = t[i]
    OBVIOUS
  <2> QED
    BY <2>1 DEF Elements
<1>3. ASSUME NEW i \in DOMAIN (s \o t)
      PROVE  (s \o t)[i] \in Elements(s) \cup Elements(t)
  <2>1. CASE i <= Len(s)
    BY <2>1 DEF Elements
  <2>2. CASE i > Len(s)
    <3>1. i - Len(s) \in DOMAIN t /\ (s \o t)[i] = t[i - Len(s)]
      BY <2>2
    <3> QED
      BY <3>1 DEF Elements
  <2> QED
    BY <2>1, <2>2
<1> QED
  BY <1>1, <1>2, <1>3 DEF Elements

LEMMA DurabilityStep ==
  ASSUME ~KillInCreate, TypeOK, DurabilityInv, [Next]_vars
  PROVE  DurabilityInv'
<1> USE DEF TypeOK, DataOK, FlagsOK, vars, fileVars, memVars, histVars
<1>0. DataOK'
  BY DataStep
<1>1. CASE CreateHeader
  BY <1>1 DEF CreateHeader, DurabilityInv, CommittedSurvives,
    PromisedDurable, Durable, FileNamed, Recovered, GuardLogged, Elements
<1>2. CASE SyncHeader
  BY <1>2 DEF SyncHeader, DurabilityInv, CommittedSurvives,
    PromisedDurable, Durable, FileNamed, Recovered, GuardLogged, Elements
<1>3. CASE OpenExisting
  BY <1>3 DEF OpenExisting, DurabilityInv, CommittedSurvives,
    PromisedDurable, Durable, FileNamed, Recovered, GuardLogged, Elements
<1>4. CASE Replay
  <2>1. PICK n \in 0..Len(os) :
          /\ ReplayStopsAt(n)
          /\ live' = {os[i] : i \in 1..n}
          /\ \/ /\ os' = SubSeq(os, 1, n)
                /\ dur' = IF dur < n THEN dur ELSE n
             \/ n = Len(os) /\ UNCHANGED <<os, dur>>
    BY <1>4 DEF Replay
  <2>2. Len(os') = n /\ \A i \in 1..n : os'[i] = os[i]
    BY <2>1
  <2>3. \A i \in 1..n : os[i] # Bad
    BY <2>1 DEF ReplayStopsAt
  <2>4. ASSUME NEW e \in promised PROVE e \in live' /\ Durable(e)'
    <3>1. PICK i \in 1..dur : os[i] = e /\ \A j \in 1..i : os[j] # Bad
      BY DEF DurabilityInv, PromisedDurable, Durable
    <3>2. i <= n
      BY <2>1, <3>1 DEF ReplayStopsAt
    <3>3. i \in 1..dur' /\ i \in 1..n
      BY <2>1, <3>2
    <3>4. os'[i] = e /\ \A j \in 1..i : os'[j] # Bad
      BY <2>2, <3>1, <3>3
    <3> QED
      BY <2>1, <3>1, <3>3, <3>4 DEF Durable
  <2>5. CommittedSurvives' /\ PromisedDurable'
    BY <1>4, <2>4 DEF Replay, CommittedSurvives, PromisedDurable
  <2>6. Recovered'
    <3>1. DOMAIN os' = 1..n
      BY <2>2, <1>0
    <3> QED
      BY <2>2, <2>3, <3>1 DEF Recovered
  <2> QED
    BY <1>4, <2>5, <2>6 DEF Replay, DurabilityInv, FileNamed, GuardLogged
<1>5. CASE SyncCut
  BY <1>5 DEF SyncCut, DurabilityInv, CommittedSurvives,
    PromisedDurable, Durable, FileNamed, Recovered, GuardLogged, Elements
<1>6. CASE OpenGuard
  BY <1>6 DEF OpenGuard, DurabilityInv, CommittedSurvives,
    PromisedDurable, Durable, FileNamed, Recovered, GuardLogged, Elements
<1>7. ASSUME NEW s \in NewBatches, Insert(s) PROVE DurabilityInv'
  <2>1. CommittedSurvives' /\ PromisedDurable' /\ FileNamed' /\ Recovered'
    BY <1>7 DEF Insert, DurabilityInv, CommittedSurvives, PromisedDurable,
                Durable, FileNamed, Recovered
  <2>2. s \in Seq(Edges)
    BY <1>7, NewBatchType
  <2>3. CASE pc' = "spill"
    <3>1. UNCHANGED <<os, buf, live, mine, pending>> /\ pc = "guard"
      BY <1>7, <2>3 DEF Insert
    <3> QED
      BY <2>1, <2>3, <3>1 DEF DurabilityInv, GuardLogged
  <2>4. CASE pc' = "staged" /\ buf' = buf \o s /\ pending'
    <3>1. Elements(buf \o s) = Elements(buf) \cup Elements(s)
      BY <2>2, ElementsConcat
    <3>2. UNCHANGED <<os, live, mine>> /\ pc = "guard" /\ batch' = s
      BY <1>7, <2>4 DEF Insert
    <3>3. /\ mine' \subseteq live' \cap (Elements(os') \cup Elements(buf'))
          /\ Elements(batch') \subseteq Elements(os') \cup Elements(buf')
      BY <2>4, <3>1, <3>2 DEF DurabilityInv, GuardLogged
    <3> QED
      BY <2>1, <2>4, <3>3 DEF DurabilityInv, GuardLogged
  <2> QED
    BY <1>7, <2>1, <2>3, <2>4 DEF Insert, DurabilityInv
<1>8. CASE StageSpilled
  BY <1>8 DEF StageSpilled, DurabilityInv, CommittedSurvives,
    PromisedDurable, Durable, FileNamed, Recovered, GuardLogged, Elements
<1>9. CASE Publish
  <2>1. CommittedSurvives' /\ PromisedDurable' /\ FileNamed' /\ Recovered'
    BY <1>9 DEF Publish, DurabilityInv, CommittedSurvives, PromisedDurable,
                Durable, FileNamed, Recovered
  <2>2. Elements(batch) \subseteq Elements(os) \cup Elements(buf)
    BY <1>9 DEF Publish, DurabilityInv, GuardLogged
  <2>3. Elements(os)' = Elements(os) /\ Elements(buf)' = Elements(buf)
    BY <1>9 DEF Publish, Elements
  <2>4. GuardLogged'
    BY <1>9, <2>2, <2>3 DEF Publish, DurabilityInv, GuardLogged
  <2> QED
    BY <2>1, <2>4 DEF DurabilityInv
<1>10. CASE WriteHalf
  BY <1>10 DEF WriteHalf, flushFrame, Flushing, DurabilityInv, CommittedSurvives,
    PromisedDurable, Durable, FileNamed, Recovered, GuardLogged, Elements
<1>11. CASE WriteRest
  <2>1. /\ os' = Append(os, Head(buf)) /\ buf' = Tail(buf) /\ buf # <<>>
        /\ Head(buf) \in Edges
        /\ UNCHANGED <<dur, header, named, live, promised, pending, mine, pc>>
        /\ pc \in {"spill", "sync", "close"}
    BY <1>11 DEF WriteRest, flushFrame, Flushing
  <2>2. /\ Len(os') = Len(os) + 1 /\ os'[Len(os) + 1] = Head(buf)
        /\ \A i \in 1..Len(os) : os'[i] = os[i]
    BY <2>1
  <2>3. PromisedDurable'
    BY <2>1, <2>2, DurableKept DEF DurabilityInv, PromisedDurable
  <2>4. Recovered'
    BY <2>1, <2>2 DEF DurabilityInv, Recovered
  <2>5. Elements(os) \cup Elements(buf)
          \subseteq Elements(os') \cup Elements(buf')
    <3>1. ASSUME NEW i \in DOMAIN os
          PROVE  os[i] \in Elements(os') \cup Elements(buf')
      <4>1. i \in 1..Len(os) /\ DOMAIN os' = 1..Len(os')
        BY <1>0
      <4>2. i \in DOMAIN os' /\ os'[i] = os[i]
        BY <4>1, <2>2
      <4> QED
        BY <4>2 DEF Elements
    <3>2. ASSUME NEW i \in DOMAIN buf
          PROVE  buf[i] \in Elements(os') \cup Elements(buf')
      <4>1. CASE i = 1
        <5>1. Len(os) + 1 \in DOMAIN os'
          BY <2>2, <1>0
        <5> QED
          BY <4>1, <5>1, <2>2, <2>1 DEF Elements
      <4>2. CASE i # 1
        <5>1. i - 1 \in DOMAIN buf' /\ buf'[i - 1] = buf[i]
          BY <2>1, <4>2
        <5> QED
          BY <5>1 DEF Elements
      <4> QED
        BY <4>1, <4>2
    <3> QED
      BY <3>1, <3>2 DEF Elements
  <2>6. GuardLogged'
    BY <2>1, <2>5 DEF DurabilityInv, GuardLogged
  <2>7. CommittedSurvives' /\ FileNamed'
    BY <2>1 DEF DurabilityInv, CommittedSurvives, FileNamed
  <2> QED
    BY <2>3, <2>4, <2>6, <2>7 DEF DurabilityInv
<1>12. CASE WriteFails
  BY <1>12 DEF WriteFails, flushFrame, Flushing, DurabilityInv, CommittedSurvives,
    PromisedDurable, Durable, FileNamed, Recovered, GuardLogged, Elements
<1>13. CASE BeginDrop
  BY <1>13 DEF BeginDrop, DurabilityInv, CommittedSurvives,
    PromisedDurable, Durable, FileNamed, Recovered, GuardLogged, Elements
<1>14. CASE SyncData
  BY <1>14 DEF SyncData, DurabilityInv, CommittedSurvives,
    PromisedDurable, Durable, FileNamed, Recovered, GuardLogged, Elements
<1>15. CASE SyncFails
  BY <1>15 DEF SyncFails, DurabilityInv, CommittedSurvives,
    PromisedDurable, Durable, FileNamed, Recovered, GuardLogged, Elements
<1>16. CASE RingSyncFails
  <2>1. /\ os' = os \o buf /\ dur <= dur' /\ dur' \in Nat
        /\ pc' \in {"poison", "exit"} /\ pc \in {"sync", "close"}
        /\ UNCHANGED <<live, promised, header, named>>
    BY <1>16, <1>0 DEF RingSyncFails
  <2>2. PromisedDurable'
    BY <2>1, DurableKept DEF DurabilityInv, PromisedDurable
  <2>3. Recovered'
    BY <2>1 DEF DurabilityInv, Recovered
  <2> QED
    BY <2>1, <2>2, <2>3
    DEF DurabilityInv, CommittedSurvives, FileNamed, GuardLogged
<1>17. CASE RingLost
  <2>1. PICK n \in 0..Len(buf) : os' = os \o SubSeq(buf, 1, n)
    BY <1>17 DEF RingLost
  <2>2. /\ pc' \in {"poison", "exit"} /\ pc \in {"sync", "close"}
        /\ UNCHANGED <<live, promised, header, named, dur>>
    BY <1>17 DEF RingLost
  <2>3. /\ SubSeq(buf, 1, n) \in Seq(Edges)
        /\ Len(os') = Len(os) + Len(SubSeq(buf, 1, n))
        /\ \A i \in 1..Len(os) : os'[i] = os[i]
        /\ \A i \in 1..Len(SubSeq(buf, 1, n)) :
             os'[Len(os) + i] = SubSeq(buf, 1, n)[i]
    <3>1. SubSeq(buf, 1, n) \in Seq(Edges)
      BY <2>1
    <3>2. SubSeq(buf, 1, n) \in Seq(Edges \cup {Bad})
      BY <3>1
    <3> QED
      BY <2>1, <3>1, <3>2, ConcatIndices
  <2>4. PromisedDurable'
    BY <2>2, <2>3, DurableKept DEF DurabilityInv, PromisedDurable
  <2>5. Recovered'
    <3>1. ASSUME NEW i \in DOMAIN os' PROVE os'[i] # Bad
      <4>1. i \in 1..Len(os')
        BY <1>0, SMTT(30)
      <4>2. CASE i \in 1..Len(os)
        BY <4>2, <2>2, <2>3 DEF DurabilityInv, Recovered
      <4>3. CASE i > Len(os)
        <5>1. i - Len(os) \in 1..Len(SubSeq(buf, 1, n))
          BY <4>1, <4>3, <2>3
        <5>2. os'[i] = SubSeq(buf, 1, n)[i - Len(os)]
          BY <5>1, <2>3, <4>1
        <5>3. os'[i] \in Edges
          BY <5>1, <5>2, <2>3
        <5> QED
          BY <5>3
      <4> QED
        BY <4>1, <4>2, <4>3
    <3> QED
      BY <3>1 DEF Recovered
  <2> QED
    BY <2>2, <2>4, <2>5
    DEF DurabilityInv, CommittedSurvives, FileNamed, GuardLogged
<1>18. CASE Commit
  BY <1>18 DEF Commit, DurabilityInv, CommittedSurvives,
    PromisedDurable, Durable, FileNamed, Recovered, GuardLogged, Elements
<1>19. CASE Poison
  BY <1>19 DEF Poison, DurabilityInv, CommittedSurvives,
    PromisedDurable, Durable, FileNamed, Recovered, GuardLogged, Elements
<1>20. CASE Panic
  BY <1>20 DEF Panic, DurabilityInv, CommittedSurvives,
    PromisedDurable, Durable, FileNamed, Recovered, GuardLogged, Elements
<1>21. CASE CloseGraph
  BY <1>21 DEF CloseGraph, DurabilityInv, CommittedSurvives,
    PromisedDurable, Durable, FileNamed, Recovered, GuardLogged, Elements
<1>22. CASE Exit
  BY <1>22 DEF Exit, Forget, DurabilityInv, CommittedSurvives,
    PromisedDurable, Durable, FileNamed, Recovered, GuardLogged, Elements
<1>23. CASE ProcessCrash
  BY <1>23 DEF ProcessCrash, Forget, DurabilityInv, CommittedSurvives,
    PromisedDurable, Durable, FileNamed, Recovered, GuardLogged, Elements
<1>24. CASE PowerFailure
  <2>1. pc' = "down" /\ promised' = promised
    BY <1>24 DEF PowerFailure, Forget
  <2>2. ASSUME NEW n \in dur..Len(os), NEW bad \in SUBSET ((dur + 1)..n),
               os' = [i \in 1..n |-> IF i \in bad THEN Bad ELSE os[i]],
               dur' = n, named' = (header = "ok"), header' = header
        PROVE  PromisedDurable' /\ FileNamed'
    <3>1. \A i \in 1..dur : os'[i] = os[i]
      BY <2>2
    <3>2. PromisedDurable'
      BY <2>1, <2>2, <3>1, <1>0, DurableKept
      DEF DurabilityInv, PromisedDurable
    <3>3. FileNamed'
      BY <2>1, <2>2, Zenon DEF DurabilityInv, FileNamed
    <3> QED
      BY <3>2, <3>3
  <2>3. ASSUME ~named, named' = named, header' \in {"none", "part"}
        PROVE  PromisedDurable' /\ FileNamed'
    BY <2>1, <2>3 DEF DurabilityInv, FileNamed, PromisedDurable
  <2>4. PromisedDurable' /\ FileNamed'
    BY <1>24, <2>2, <2>3 DEF PowerFailure
  <2> QED
    BY <2>1, <2>4
    DEF DurabilityInv, CommittedSurvives, Recovered, GuardLogged
<1>25. CASE UNCHANGED vars
  <2>1. CommittedSurvives' /\ PromisedDurable' /\ FileNamed' /\ Recovered'
    BY <1>25 DEF DurabilityInv, CommittedSurvives, PromisedDurable, Durable,
                 FileNamed, Recovered
  <2>2. GuardLogged'
    <3>1. UNCHANGED <<os, dur, pc, buf, pending, live, batch, mine>>
      BY <1>25
    <3> HIDE DEF TypeOK, DataOK, FlagsOK
    <3> QED
      BY <3>1 DEF DurabilityInv, GuardLogged
  <2> QED
    BY <2>1, <2>2 DEF DurabilityInv
<1> QED
  BY <1>1, <1>2, <1>3, <1>4, <1>5, <1>6, <1>7, <1>8, <1>9, <1>10, <1>11,
     <1>12, <1>13, <1>14, <1>15, <1>16, <1>17, <1>18, <1>19, <1>20, <1>21,
     <1>22, <1>23, <1>24, <1>25 DEF Next

\* Types of the log, the process and the history, in every reachable state.
THEOREM WalTypeCorrect == Spec => []TypeOK
<1>1. Init => TypeOK
  <2>1. Init => FlagsOK
    BY Zenon DEF Init, FlagsOK
  <2>2. Init => DataOK
    BY DEF Init, DataOK
  <2> QED
    BY <2>1, <2>2 DEF TypeOK
<1>2. TypeOK /\ [Next]_vars => TypeOK'
  BY FlagsStep, DataStep DEF TypeOK
<1> QED
  BY <1>1, <1>2, PTL DEF Spec

\* The inductive invariant holds when no kill hits the creation of the file.
THEOREM DurabilityInvariance ==
  ASSUME ~KillInCreate
  PROVE  Spec => []DurabilityInv
<1>1. Init => DurabilityInv
  BY DEF Init, DurabilityInv, CommittedSurvives, PromisedDurable, FileNamed,
         Recovered, GuardLogged
<1>2. TypeOK /\ DurabilityInv /\ [Next]_vars => DurabilityInv'
  BY DurabilityStep
<1> QED
  BY <1>1, <1>2, WalTypeCorrect, PTL DEF Spec

\* Durability: for any edges, buffer size, batches, number of crashes and
\* commit path, an edge of a cleanly dropped guard is in every graph that is
\* recovered later.
THEOREM CommittedEdgesSurvive ==
  ASSUME ~KillInCreate
  PROVE  Spec => []CommittedSurvives
<1>1. DurabilityInv => CommittedSurvives
  BY DEF DurabilityInv
<1> QED
  BY <1>1, DurabilityInvariance, PTL

-----------------------------------------------------------------------------
(* Poisoning, and what is published                                         *)

\* A poisoned graph has no guard, and opens none.
PoisonStops == poisoned => pc \in {"idle", "close", "exit"}

\* Outside a guard nothing is pending unless the graph is poisoned, so that
\* only a poisoned graph has anything to flush when it is closed.
PendingIsGuards ==
  /\ pc = "idle" /\ ~poisoned => ~pending
  /\ pc = "close" => poisoned
  /\ pc \in {"down", "header", "boot", "cut", "synced"} => ~pending

StopsInv == PoisonStops /\ PendingIsGuards

\* Poisoning is final, and closing has nothing to write in a healthy graph.
LEMMA StopsStep == StopsInv /\ [Next]_vars => StopsInv'
<1> SUFFICES ASSUME StopsInv, [Next]_vars PROVE StopsInv'
  OBVIOUS
<1> USE DEF StopsInv, PoisonStops, PendingIsGuards, vars, fileVars, memVars, histVars
<1>1. CASE CreateHeader \/ SyncHeader \/ OpenExisting
  BY <1>1 DEF CreateHeader, SyncHeader, OpenExisting
<1>2. CASE Replay
  <2>1. UNCHANGED <<poisoned, pending>> /\ pc = "boot" /\ pc' \in {"cut", "idle"}
    BY <1>2, Zenon DEF Replay
  <2> QED
    BY <2>1, Zenon
<1>3. CASE SyncCut \/ OpenGuard
  BY <1>3 DEF SyncCut, OpenGuard
<1>4. ASSUME NEW s \in NewBatches, Insert(s) PROVE StopsInv'
  <2>1. UNCHANGED poisoned /\ pc = "guard" /\ pc' \in {"spill", "staged"}
    BY <1>4, Zenon DEF Insert
  <2> QED
    BY <2>1, Zenon
<1>5. CASE StageSpilled \/ Publish
  BY <1>5 DEF StageSpilled, Publish
<1>6. CASE WriteHalf \/ WriteRest
  BY <1>6 DEF WriteHalf, WriteRest, flushFrame
<1>7. CASE WriteFails
  <2>1. /\ UNCHANGED <<poisoned, pending>>
        /\ \/ pc = "spill" /\ pc' = "guard"
           \/ pc = "sync" /\ pc' = "poison"
           \/ pc = "close" /\ pc' = "exit"
    BY <1>7, Zenon DEF WriteFails, flushFrame
  <2> QED
    BY <2>1, Zenon
<1>8. CASE BeginDrop
  <2>1. UNCHANGED <<poisoned, pending>> /\ pc = "guard"
        /\ (pc' = "sync" \/ (pc' = "synced" /\ ~pending))
    BY <1>8, Zenon DEF BeginDrop
  <2> QED
    BY <2>1, Zenon
<1>9. CASE SyncData
  <2>1. UNCHANGED poisoned /\ pending' = FALSE
    BY <1>9, Zenon DEF SyncData
  <2>2. (pc = "sync" /\ pc' = "synced") \/ (pc = "close" /\ pc' = "exit")
    BY <1>9 DEF SyncData
  <2> QED
    BY <2>1, <2>2, Zenon
<1>10. CASE SyncFails \/ RingSyncFails \/ RingLost
  <2>1. UNCHANGED <<poisoned, pending>>
    BY <1>10, Zenon DEF SyncFails, RingSyncFails, RingLost
  <2>2. (pc = "sync" /\ pc' = "poison") \/ (pc = "close" /\ pc' = "exit")
    BY <1>10 DEF SyncFails, RingSyncFails, RingLost
  <2> QED
    BY <2>1, <2>2, Zenon
<1>11. CASE Commit
  <2>1. UNCHANGED <<poisoned, pending>> /\ pc = "synced" /\ pc' \in {"poison", "idle"}
    BY <1>11, Zenon DEF Commit
  <2> QED
    BY <2>1, Zenon
<1>12. CASE Poison \/ Panic
  BY <1>12, Zenon DEF Poison, Panic
<1>13. CASE CloseGraph
  <2>1. UNCHANGED <<poisoned, pending>> /\ pc = "idle"
        /\ ((pc' = "close" /\ pending) \/ pc' = "exit")
    BY <1>13, Zenon DEF CloseGraph
  <2> QED
    BY <2>1, Zenon
<1>14. CASE Exit \/ ProcessCrash \/ PowerFailure
  BY <1>14, Zenon DEF Exit, ProcessCrash, PowerFailure, Forget
<1>15. CASE UNCHANGED vars
  BY <1>15, Zenon
<1> QED
  BY <1>1, <1>2, <1>3, <1>4, <1>5, <1>6, <1>7, <1>8, <1>9, <1>10, <1>11,
     <1>12, <1>13, <1>14, <1>15, Zenon DEF Next

LEMMA StopsInvariant == Spec => []StopsInv
<1>1. Init => StopsInv
  BY Zenon DEF Init, StopsInv, PoisonStops, PendingIsGuards
<1> QED
  BY <1>1, StopsStep, PTL DEF Spec

\* A poisoned graph has left every state in which it publishes or commits.
LEMMA PoisonedFrozen ==
  ASSUME StopsInv, [Next]_vars, poisoned, pc' # "down"
  PROVE  UNCHANGED <<live, latest, epoch>> /\ poisoned'
<1> USE DEF vars, fileVars, memVars, histVars
<1>1. pc \in {"idle", "close", "exit"}
  BY DEF StopsInv, PoisonStops
<1>2. CASE CloseGraph \/ UNCHANGED vars
  BY <1>2, Zenon DEF CloseGraph
<1>3. CASE WriteHalf \/ WriteRest \/ WriteFails
  BY <1>3, Zenon DEF WriteHalf, WriteRest, WriteFails, flushFrame
<1>4. CASE SyncData \/ SyncFails \/ RingSyncFails \/ RingLost
  BY <1>4, Zenon DEF SyncData, SyncFails, RingSyncFails, RingLost
<1>5. ~CreateHeader /\ ~SyncHeader /\ ~OpenExisting /\ ~Replay /\ ~SyncCut
  BY <1>1 DEF CreateHeader, SyncHeader, OpenExisting, Replay, SyncCut
<1>6. ~OpenGuard /\ ~StageSpilled /\ ~Publish /\ ~BeginDrop /\ ~Commit
  BY <1>1 DEF OpenGuard, StageSpilled, Publish, BeginDrop, Commit
<1>7. ~Poison /\ ~Panic /\ ~Exit /\ ~ProcessCrash /\ ~PowerFailure
  BY <1>1 DEF Poison, Panic, Exit, ProcessCrash, PowerFailure, Forget
<1>8. ASSUME NEW s \in NewBatches PROVE ~Insert(s)
  BY <1>1 DEF Insert
<1> QED
  BY <1>2, <1>3, <1>4, <1>5, <1>6, <1>7, <1>8, Zenon DEF Next

\* A poisoned graph never changes again until its process ends: no edge is
\* published, no snapshot or epoch committed, and the flag is not lifted
\* (writer() refuses, graph.rs; durable_failure, writer.rs).
THEOREM PoisonedIsReadOnly == Spec => PoisonedReadOnly
<1>1. StopsInv /\ [Next]_vars =>
        [poisoned /\ pc' # "down" =>
           live' = live /\ latest' = latest /\ epoch' = epoch /\ poisoned']_vars
  BY PoisonedFrozen
<1> QED
  BY <1>1, StopsInvariant, PTL DEF Spec, PoisonedReadOnly
-----------------------------------------------------------------------------
(* Every published edge is logged                                           *)

\* Flushing moves records from the buffer to the file, in order.
LEMMA FlushKeepsLog ==
  ASSUME TypeOK, WriteRest
  PROVE  os' \o buf' = os \o buf
<1> DEFINE S == Edges \cup {Bad}
<1>1. buf \in Seq(S) /\ buf # <<>> /\ os \in Seq(S) /\ Head(buf) \in S
  BY DEF TypeOK, DataOK, WriteRest
<1>2. os' = os \o <<Head(buf)>> /\ buf' = Tail(buf)
  BY <1>1 DEF WriteRest
<1>3. <<Head(buf)>> \in Seq(S) /\ Tail(buf) \in Seq(S)
  BY <1>1
<1>4. <<Head(buf)>> \o Tail(buf) = buf
  BY <1>1
<1> QED
  BY <1>1, <1>2, <1>3, <1>4, ConcatAssociative

LEMMA FlushKeepsElements ==
  ASSUME TypeOK, TypeOK', WriteRest
  PROVE  Elements(os') \cup Elements(buf') = Elements(os) \cup Elements(buf)
<1> DEFINE S == Edges \cup {Bad}
<1>1. os \in Seq(S) /\ buf \in Seq(S) /\ os' \in Seq(S) /\ buf' \in Seq(S)
  BY DEF TypeOK, DataOK
<1>2. Elements(os \o buf) = Elements(os) \cup Elements(buf)
  BY <1>1, ElementsConcat
<1>3. Elements(os' \o buf') = Elements(os') \cup Elements(buf')
  BY <1>1, ElementsConcat
<1> QED
  BY <1>2, <1>3, FlushKeepsLog

\* What an insert adds to the buffer comes after what is there.
LEMMA StagedAtTheEnd ==
  ASSUME TypeOK, NEW s \in NewBatches, Insert(s)
  PROVE  /\ batch' = s /\ UNCHANGED <<os, live, poisoned>>
         /\ \/ pc' = "spill" /\ UNCHANGED buf
            \/ pc' = "staged" /\ Elements(buf') = Elements(buf) \cup Elements(s)
<1>1. s \in Seq(Edges) /\ buf \in Seq(Edges)
  BY NewBatchType DEF TypeOK, DataOK
<1>2. Elements(buf \o s) = Elements(buf) \cup Elements(s)
  BY <1>1, ElementsConcat
<1>3. batch' = s /\ UNCHANGED <<os, live, poisoned>>
  BY DEF Insert, fileVars, memVars
<1>4. \/ pc' = "spill" /\ UNCHANGED buf
      \/ pc' = "staged" /\ buf' = buf \o s
  BY DEF Insert
<1> QED
  BY <1>2, <1>3, <1>4

\* Before recovery nothing is live.
NothingLive == pc \in {"down", "header", "boot"} => live = {}

\* The batch an insert is about to publish is in the file or in the buffer.
BatchStaged ==
  pc = "staged" => Elements(batch) \subseteq Elements(os) \cup Elements(buf)

PublishInv == NothingLive /\ BatchStaged /\ PublishedLogged

LEMMA PublishStep ==
  ASSUME TypeOK, TypeOK', StopsInv, StopsInv', PublishInv, [Next]_vars
  PROVE  PublishInv'
<1> USE DEF PublishInv, NothingLive, BatchStaged, PublishedLogged
<1>1. CASE CreateHeader \/ SyncHeader \/ OpenExisting
  <2>1. live' = {} /\ pc' \in {"header", "boot"}
    BY <1>1 DEF CreateHeader, SyncHeader, OpenExisting, memVars
  <2> QED
    BY <2>1
<1>2. CASE Replay
  <2>1. PICK n \in 0..Len(os) :
          /\ live' = {os[i] : i \in 1..n}
          /\ \/ os' = SubSeq(os, 1, n)
             \/ n = Len(os) /\ UNCHANGED os
    BY <1>2 DEF Replay
  <2>2. DOMAIN os' = 1..n /\ \A i \in 1..n : os'[i] = os[i]
    BY <2>1 DEF TypeOK, DataOK
  <2>3. live' \subseteq Elements(os')
    BY <2>1, <2>2 DEF Elements
  <2>4. pc' \in {"cut", "idle"}
    BY <1>2 DEF Replay
  <2> QED
    BY <2>3, <2>4
<1>3. CASE SyncCut \/ OpenGuard \/ BeginDrop \/ CloseGraph
  <2>1. UNCHANGED <<os, buf, live, poisoned>>
    BY <1>3, Zenon DEF SyncCut, OpenGuard, BeginDrop, CloseGraph, fileVars, memVars
  <2>2. pc \in {"cut", "idle", "guard"}
        /\ pc' \in {"idle", "guard", "sync", "synced", "close", "exit"}
    BY <1>3 DEF SyncCut, OpenGuard, BeginDrop, CloseGraph
  <2> QED
    BY <2>1, <2>2 DEF Elements
<1>4. ASSUME NEW s \in NewBatches, Insert(s) PROVE PublishInv'
  <2>1. pc = "guard"
    BY <1>4 DEF Insert
  <2> QED
    BY <1>4, <2>1, StagedAtTheEnd
<1>5. CASE StageSpilled
  <2>1. /\ Elements(buf') = Elements(batch') /\ pc = "spill" /\ pc' = "staged"
        /\ UNCHANGED <<os, live, poisoned>> /\ buf = <<>>
    BY <1>5 DEF StageSpilled, fileVars, memVars
  <2>2. Elements(buf) = {}
    BY <2>1 DEF Elements
  <2> QED
    BY <2>1, <2>2 DEF PublishedLogged
<1>6. CASE Publish
  <2>1. /\ live' = live \cup Elements(batch) /\ pc = "staged" /\ pc' = "guard"
        /\ UNCHANGED <<os, buf, poisoned>>
    BY <1>6 DEF Publish, fileVars
  <2> QED
    BY <2>1
<1>7. CASE WriteHalf
  <2>1. UNCHANGED <<os, buf, live, poisoned, pc>> /\ pc \in {"spill", "sync", "close"}
    BY <1>7, Zenon DEF WriteHalf, Flushing, flushFrame, memVars
  <2> QED
    BY <2>1
<1>8. CASE WriteRest
  <2>1. UNCHANGED <<live, poisoned, pc>> /\ pc \in {"spill", "sync", "close"}
    BY <1>8, Zenon DEF WriteRest, Flushing, flushFrame, memVars
  <2> QED
    BY <1>8, <2>1, FlushKeepsElements
<1>9. CASE WriteFails
  <2>1. /\ UNCHANGED <<os, buf, live, poisoned>> /\ pc \in {"spill", "sync", "close"}
        /\ pc' \in {"guard", "poison", "exit"}
    BY <1>9, Zenon DEF WriteFails, Flushing, flushFrame, memVars
  <2> QED
    BY <2>1
<1>10. CASE SyncData \/ SyncFails
  <2>1. UNCHANGED <<os, buf, live, poisoned>> /\ pc \in {"sync", "close"}
    BY <1>10, Zenon DEF SyncData, SyncFails, memVars
  <2>2. pc' \in {"synced", "poison", "exit"}
    BY <1>10 DEF SyncData, SyncFails
  <2> QED
    BY <2>1, <2>2
<1>11. CASE RingSyncFails \/ RingLost
  <2>1. pc \in {"sync", "close"} /\ UNCHANGED <<live, poisoned>>
    BY <1>11, Zenon DEF RingSyncFails, RingLost, memVars
  <2>2. \/ pc = "sync" /\ pc' = "poison"
        \/ pc = "close" /\ pc' = "exit" /\ poisoned
    BY <1>11, <2>1 DEF RingSyncFails, RingLost, StopsInv, PendingIsGuards
  <2> QED
    BY <2>1, <2>2
<1>12. CASE Commit
  <2>1. UNCHANGED <<os, buf, live, poisoned>> /\ pc = "synced"
    BY <1>12, Zenon DEF Commit, fileVars
  <2>2. pc' \in {"poison", "idle"}
    BY <1>12 DEF Commit
  <2> QED
    BY <2>1, <2>2
<1>13. CASE Poison \/ Panic
  <2>1. poisoned' = TRUE /\ pc' = "idle"
    BY <1>13, Zenon DEF Poison, Panic
  <2> QED
    BY <2>1
<1>14. CASE Exit \/ ProcessCrash \/ PowerFailure
  <2>1. live' = {} /\ pc' = "down"
    BY <1>14, Zenon DEF Exit, ProcessCrash, PowerFailure, Forget
  <2> QED
    BY <2>1
<1>15. CASE UNCHANGED vars
  <2>1. UNCHANGED <<os, buf, live, batch, poisoned, pc>>
    BY <1>15, Zenon DEF vars, fileVars, memVars
  <2> QED
    BY <2>1
<1> QED
  BY <1>1, <1>2, <1>3, <1>4, <1>5, <1>6, <1>7, <1>8, <1>9, <1>10, <1>11,
     <1>12, <1>13, <1>14, <1>15, Zenon DEF Next

\* Readers never see an edge the log does not have: whatever batches, spills,
\* failed writes and commits come between, a published edge is in the file or
\* in the buffer until its graph is poisoned (writer.rs: append before the
\* root store).
THEOREM PublishedIsLogged == Spec => []PublishedLogged
<1>1. Init => PublishInv
  BY DEF Init, PublishInv, NothingLive, BatchStaged, PublishedLogged
<1>2. TypeOK /\ TypeOK' /\ StopsInv /\ StopsInv' /\ PublishInv /\ [Next]_vars => PublishInv'
  BY PublishStep
<1>3. PublishInv => PublishedLogged
  BY DEF PublishInv
<1> QED
  BY <1>1, <1>2, <1>3, WalTypeCorrect, StopsInvariant, PTL DEF Spec
-----------------------------------------------------------------------------
(* A committed edge has one record                                          *)

\* Everything the kernel and the buffer hold, in order.
log == os \o buf

Once(e, s) == \A i, j \in DOMAIN s : s[i] = e /\ s[j] = e => i = j

LEMMA OnceAppended ==
  ASSUME NEW S, NEW s \in Seq(S), NEW t \in Seq(S), NEW e,
         \/ Once(e, s) /\ e \notin Elements(t)
         \/ e \notin Elements(s) /\ Once(e, t)
  PROVE  Once(e, s \o t)
<1> SUFFICES ASSUME NEW i \in DOMAIN (s \o t), NEW j \in DOMAIN (s \o t),
                    (s \o t)[i] = e, (s \o t)[j] = e
             PROVE  i = j
  BY DEF Once
<1> DEFINE n == Len(s)
<1>1. ASSUME NEW k \in DOMAIN (s \o t), (s \o t)[k] = e
      PROVE  \/ k \in DOMAIN s /\ s[k] = e /\ e \in Elements(s)
             \/ /\ k > n /\ k - n \in DOMAIN t /\ t[k - n] = e /\ e \in Elements(t)
                /\ k \in Int /\ k - n \in Int
  <2>1. k \in 1 .. n + Len(t) /\ n \in Nat /\ Len(t) \in Nat
    BY ConcatProperties
  <2>2. CASE k <= n
    BY <1>1, <2>1, <2>2, ConcatProperties DEF Elements
  <2>3. CASE k > n
    <3>1. k - n \in 1 .. Len(t) /\ t[k - n] = e
      BY <1>1, <2>1, <2>3, ConcatProperties
    <3> QED
      BY <2>1, <2>3, <3>1 DEF Elements
  <2> QED
    BY <2>1, <2>2, <2>3
<1>2. n \in Nat
  OBVIOUS
<1> QED
  BY <1>1, <1>2 DEF Once

LEMMA OnceBefore ==
  ASSUME NEW S, NEW s \in Seq(S), NEW t \in Seq(S), NEW e, Once(e, s \o t)
  PROVE  /\ Once(e, s)
         /\ e \in Elements(s) => e \notin Elements(t)
<1> DEFINE n == Len(s)
<1>0. n \in Nat /\ Len(t) \in Nat /\ DOMAIN (s \o t) = 1 .. n + Len(t)
  BY ConcatProperties
<1>1. \A i \in DOMAIN s : i \in DOMAIN (s \o t) /\ (s \o t)[i] = s[i]
  BY <1>0, ConcatProperties
<1>2. \A i \in DOMAIN t : n + i \in DOMAIN (s \o t) /\ (s \o t)[n + i] = t[i]
  BY <1>0, ConcatProperties
<1>3. \A i \in DOMAIN s : \A j \in DOMAIN t : i # n + j
  BY <1>0
<1>4. Once(e, s)
  BY <1>1 DEF Once
<1>5. ASSUME NEW i \in DOMAIN s, NEW j \in DOMAIN t, s[i] = e, t[j] = e PROVE FALSE
  BY <1>1, <1>2, <1>3, <1>5 DEF Once
<1> QED
  BY <1>4, <1>5 DEF Elements

\* Outside the open guard's last append, what is logged is live.
LogIsLive ==
  ~poisoned =>
    /\ pc \in {"cut", "idle", "guard", "spill", "sync", "synced"} => Elements(log) \subseteq live
    /\ pc = "staged" => Elements(log) \subseteq live \cup Elements(batch)

Guarded == {"guard", "spill", "staged", "sync", "synced"}

OnceInv ==
  /\ pc \in {"down", "header", "boot", "cut"} => buf = <<>>
  /\ LogIsLive
  \* A batch is new and without repetition, and logged once when it is staged.
  /\ pc = "spill" => \A e \in Elements(batch) : e \notin live /\ Once(e, batch)
  /\ pc = "staged" => \A e \in Elements(batch) : Once(e, log)
  \* So is what the guard has published, and what was committed.
  /\ pc \in Guarded => \A e \in mine : Once(e, log)
  /\ \A e \in promised : Once(e, log)

LEMMA LogTypes ==
  ASSUME TypeOK
  PROVE  /\ os \in Seq(Edges \cup {Bad}) /\ buf \in Seq(Edges \cup {Bad})
         /\ log \in Seq(Edges \cup {Bad})
         /\ Elements(log) = Elements(os) \cup Elements(buf)
<1>1. os \in Seq(Edges \cup {Bad}) /\ buf \in Seq(Edges \cup {Bad})
  BY DEF TypeOK, DataOK
<1> QED
  BY <1>1, ElementsConcat, ConcatProperties DEF log

\* A committed edge is in the file, so nothing that is appended to the file
\* out of the buffer repeats it.
LEMMA CommittedKept ==
  ASSUME TypeOK, PromisedDurable, \A e \in promised : Once(e, log),
         NEW t \in Seq(Edges \cup {Bad}), Elements(t) \subseteq Elements(buf)
  PROVE  \A e \in promised : Once(e, os \o t)
<1> SUFFICES ASSUME NEW e \in promised PROVE Once(e, os \o t)
  OBVIOUS
<1>1. e \in Elements(os)
  <2>1. PICK i \in 1..dur : os[i] = e
    BY DEF PromisedDurable, Durable
  <2>2. i \in DOMAIN os
    BY DEF TypeOK, DataOK
  <2> QED
    BY <2>1, <2>2 DEF Elements
<1>2. Once(e, os) /\ e \notin Elements(buf)
  BY <1>1, LogTypes, OnceBefore DEF log
<1> QED
  BY <1>2, LogTypes, OnceAppended

\* The batch of a guard whose append fits in the buffer, and of one that spilled.
LEMMA OnceStaged ==
  ASSUME TypeOK, TypeOK', OnceInv, ~poisoned, pc \in {"guard", "spill"},
         NEW s \in Seq(Edges), log' = log \o s, pc' = "staged", batch' = s,
         UNCHANGED <<live, promised, mine, poisoned>>,
         promised \subseteq live, mine \subseteq live,
         \A e \in Elements(s) : e \notin live /\ Once(e, s)
  PROVE  OnceInv'
<1> DEFINE S == Edges \cup {Bad}
<1>1. s \in Seq(S) /\ log \in Seq(S)
  BY LogTypes
<1>2. Elements(log \o s) = Elements(log) \cup Elements(s)
  BY <1>1, ElementsConcat
<1>3. Elements(log) \subseteq live
  BY DEF OnceInv, LogIsLive
<1>4. \A e \in Elements(s) : Once(e, log \o s)
  BY <1>1, <1>3, OnceAppended
<1>5. \A e \in mine \cup promised : Once(e, log) /\ e \notin Elements(s)
  BY DEF OnceInv, Guarded
<1>6. \A e \in mine \cup promised : Once(e, log \o s)
  BY <1>1, <1>5, OnceAppended
<1>7. LogIsLive'
  <2>1. Elements(log') \subseteq live' \cup Elements(batch')
    BY <1>2, <1>3
  <2> QED
    BY <2>1 DEF LogIsLive
<1>8. \A e \in Elements(batch') : Once(e, log')
  BY <1>4
<1>9. \A e \in mine' \cup promised' : Once(e, log')
  BY <1>6
<1> HIDE DEF log, Once, LogIsLive, Elements
<1> QED
  BY <1>7, <1>8, <1>9 DEF OnceInv

LEMMA NewBatchOnce ==
  ASSUME NEW s \in NewBatches
  PROVE  \A e \in Elements(s) : e \notin live /\ Once(e, s)
BY DEF NewBatches, Elements, Once

LEMMA OnceStep ==
  ASSUME ~KillInCreate, TypeOK, TypeOK', StopsInv, DurabilityInv, OnceInv, [Next]_vars
  PROVE  OnceInv'
<1> DEFINE S == Edges \cup {Bad}
<1>a. PromisedDurable /\ \A e \in promised : Once(e, log)
  BY DEF DurabilityInv, OnceInv
<1>b. <<>> \in Seq(S) /\ Elements(<<>>) = {} /\ os \o <<>> = os
  BY LogTypes, ConcatEmptySeq DEF Elements
<1>c. pc \notin {"down", "header", "boot"} => promised \subseteq live
  BY DEF DurabilityInv, CommittedSurvives
<1>1. CASE CreateHeader
  <2>1. pc = "down" /\ header # "ok" /\ pc' = "header" /\ UNCHANGED <<promised, buf>>
    BY <1>1 DEF CreateHeader, histVars
  <2>2. promised' = {}
    BY <2>1 DEF DurabilityInv, FileNamed
  <2> QED
    BY <2>1, <2>2 DEF OnceInv, LogIsLive, Guarded
<1>2. CASE SyncHeader \/ OpenExisting
  <2>1. UNCHANGED <<os, buf, promised>> /\ pc \in {"down", "header"} /\ pc' = "boot"
    BY <1>2 DEF SyncHeader, OpenExisting, fileVars, histVars
  <2>2. log' = log
    BY <2>1 DEF log
  <2> HIDE DEF log
  <2> QED
    BY <2>1, <2>2 DEF OnceInv, LogIsLive, Guarded, Once
<1>3. CASE Replay
  <2>1. PICK n \in 0..Len(os) :
          /\ live' = {os[i] : i \in 1..n}
          /\ \/ os' = SubSeq(os, 1, n)
             \/ n = Len(os) /\ UNCHANGED os
    BY <1>3 DEF Replay
  <2>2. DOMAIN os' = 1..n /\ \A i \in 1..n : os'[i] = os[i]
    BY <2>1, LogTypes
  <2>3. /\ pc = "boot" /\ pc' \in {"cut", "idle"} /\ buf = <<>> /\ buf' = <<>>
        /\ UNCHANGED promised
    BY <1>3 DEF Replay, OnceInv
  <2>4. log = os /\ log' = os'
    BY <2>3, <1>b, LogTypes, ConcatEmptySeq DEF log
  <2>5. Elements(os') \subseteq live'
    BY <2>1, <2>2 DEF Elements
  <2>6. \A e \in promised : Once(e, os')
    <3>1. 1..n \subseteq DOMAIN os
      BY LogTypes
    <3> QED
      BY <1>a, <2>2, <2>4, <3>1 DEF Once
  <2> HIDE DEF log
  <2> QED
    BY <2>3, <2>4, <2>5, <2>6 DEF OnceInv, LogIsLive, Guarded
<1>4. CASE SyncCut \/ OpenGuard \/ BeginDrop \/ CloseGraph
  <2>1. UNCHANGED <<os, buf, live, promised, poisoned>>
    BY <1>4, Zenon DEF SyncCut, OpenGuard, BeginDrop, CloseGraph, fileVars, memVars, histVars
  <2>2. \/ pc = "cut" /\ pc' = "idle"
        \/ pc = "idle" /\ pc' = "guard" /\ mine' = {}
        \/ pc = "guard" /\ pc' \in {"sync", "synced"} /\ mine' = mine
        \/ pc = "idle" /\ pc' \in {"close", "exit"}
    BY <1>4 DEF SyncCut, OpenGuard, BeginDrop, CloseGraph
  <2>3. log' = log
    BY <2>1 DEF log
  <2> HIDE DEF log
  <2> QED
    BY <2>1, <2>2, <2>3 DEF OnceInv, LogIsLive, Guarded, Once, Elements
<1>5. ASSUME NEW s \in NewBatches, Insert(s) PROVE OnceInv'
  <2>1. /\ pc = "guard" /\ batch' = s /\ s \in Seq(Edges)
        /\ UNCHANGED <<os, live, promised, mine, poisoned>>
    BY <1>5, NewBatchType DEF Insert, fileVars, memVars, histVars
  <2>2. ~poisoned
    BY <2>1 DEF StopsInv, PoisonStops
  <2>3. mine \subseteq live
    BY <2>1 DEF DurabilityInv, GuardLogged
  <2>4. CASE pc' = "spill"
    <3>1. log' = log
      BY <1>5, <2>1, <2>4 DEF Insert, log
    <3> HIDE DEF log
    <3>2. \A e \in Elements(batch') : e \notin live' /\ Once(e, batch')
      BY <2>1, NewBatchOnce
    <3> HIDE DEF Once
    <3> QED
      BY <2>1, <2>2, <2>4, <3>1, <3>2 DEF OnceInv, LogIsLive, Guarded
  <2>5. CASE pc' = "staged"
    <3>1. buf' = buf \o s
      BY <1>5, <2>5 DEF Insert
    <3>2. log' = log \o s
      BY <2>1, <3>1, LogTypes, ConcatAssociative DEF log
    <3> QED
      BY <1>c, <2>1, <2>2, <2>3, <2>5, <3>2, NewBatchOnce, OnceStaged
  <2> QED
    BY <1>5, <2>4, <2>5 DEF Insert
<1>6. CASE StageSpilled
  <2>1. /\ pc = "spill" /\ pc' = "staged" /\ buf = <<>> /\ buf' = batch
        /\ batch \in Seq(Edges) /\ UNCHANGED <<os, live, promised, mine, poisoned, batch>>
    BY <1>6 DEF StageSpilled, fileVars, memVars, histVars, TypeOK, DataOK
  <2>2. ~poisoned
    BY <2>1 DEF StopsInv, PoisonStops
  <2>3. mine \subseteq live
    BY <2>1 DEF DurabilityInv, GuardLogged
  <2>4. log' = log \o batch
    BY <1>b, <2>1 DEF log
  <2> QED
    BY <1>c, <2>1, <2>2, <2>3, <2>4, OnceStaged DEF OnceInv
<1>7. CASE Publish
  <2>1. /\ pc = "staged" /\ pc' = "guard" /\ UNCHANGED <<os, buf, promised, poisoned>>
        /\ live' = live \cup Elements(batch) /\ mine' = mine \cup Elements(batch)
    BY <1>7 DEF Publish, fileVars, histVars
  <2>2. log' = log
    BY <2>1 DEF log
  <2> HIDE DEF log
  <2> QED
    BY <2>1, <2>2 DEF OnceInv, LogIsLive, Guarded
<1>8. CASE WriteHalf \/ WriteRest
  <2>1. UNCHANGED <<live, promised, poisoned, mine, batch, pc>>
    BY <1>8, Zenon DEF WriteHalf, WriteRest, flushFrame, memVars, histVars
  <2>2. pc \in {"spill", "sync", "close"}
    BY <1>8 DEF WriteHalf, WriteRest, Flushing
  <2>3. log' = log
    BY <1>8, FlushKeepsLog DEF WriteHalf, log
  <2> HIDE DEF log
  <2> QED
    BY <2>1, <2>2, <2>3 DEF OnceInv, LogIsLive, Guarded
<1>9. CASE WriteFails
  <2>1. UNCHANGED <<os, buf, live, promised, poisoned, mine>>
    BY <1>9, Zenon DEF WriteFails, flushFrame, memVars, histVars
  <2>2. \/ pc = "spill" /\ pc' = "guard"
        \/ pc = "sync" /\ pc' = "poison"
        \/ pc = "close" /\ pc' = "exit"
    BY <1>9 DEF WriteFails
  <2>3. log' = log
    BY <2>1 DEF log
  <2> HIDE DEF log
  <2> QED
    BY <2>1, <2>2, <2>3 DEF OnceInv, LogIsLive, Guarded
<1>10. CASE SyncData \/ SyncFails
  <2>1. UNCHANGED <<os, buf, live, promised, poisoned, mine>>
    BY <1>10, Zenon DEF SyncData, SyncFails, memVars, histVars
  <2>2. \/ pc = "sync" /\ pc' \in {"synced", "poison"}
        \/ pc = "close" /\ pc' = "exit"
    BY <1>10 DEF SyncData, SyncFails
  <2>3. log' = log
    BY <2>1 DEF log
  <2> HIDE DEF log
  <2> QED
    BY <2>1, <2>2, <2>3 DEF OnceInv, LogIsLive, Guarded
<1>11. CASE RingSyncFails
  <2>1. /\ os' = os \o buf /\ UNCHANGED <<buf, promised>> /\ pc' \in {"poison", "exit"}
    BY <1>11 DEF RingSyncFails, histVars
  <2>2. log' = os \o (buf \o buf) /\ buf \o buf \in Seq(S)
    BY <2>1, LogTypes, ConcatAssociative, ConcatProperties DEF log
  <2>3. Elements(buf \o buf) = Elements(buf)
    <3>1. Elements(buf \o buf) = Elements(buf) \cup Elements(buf)
      BY LogTypes, ElementsConcat
    <3> HIDE DEF Elements
    <3> QED
      BY <3>1
  <2>4. \A e \in promised' : Once(e, log')
    BY <1>a, <2>1, <2>2, <2>3, CommittedKept
  <2> HIDE DEF log
  <2> QED
    BY <2>1, <2>4 DEF OnceInv, LogIsLive, Guarded
<1>12. CASE RingLost
  <2>1. PICK n \in 0..Len(buf) : os' = os \o SubSeq(buf, 1, n)
    BY <1>12 DEF RingLost
  <2>2. buf' = <<>> /\ UNCHANGED promised /\ pc' \in {"poison", "exit"}
    BY <1>12 DEF RingLost, histVars
  <2>3. SubSeq(buf, 1, n) \in Seq(S) /\ Elements(SubSeq(buf, 1, n)) \subseteq Elements(buf)
    BY LogTypes DEF Elements
  <2>4. os' \in Seq(S)
    BY <2>1, <2>3, LogTypes, ConcatProperties
  <2>5. log' = os \o SubSeq(buf, 1, n)
    BY <2>1, <2>2, <2>4, ConcatEmptySeq DEF log
  <2>6. \A e \in promised' : Once(e, log')
    BY <1>a, <2>2, <2>3, <2>5, CommittedKept
  <2> HIDE DEF log
  <2> QED
    BY <2>2, <2>6 DEF OnceInv, LogIsLive, Guarded
<1>13. CASE Commit
  <2>1. UNCHANGED <<os, buf, live, poisoned>> /\ pc = "synced"
    BY <1>13, Zenon DEF Commit, fileVars
  <2>2. \/ pc' = "poison" /\ promised' = promised
        \/ pc' = "idle" /\ promised' = promised \cup mine
    BY <1>13 DEF Commit
  <2>3. log' = log
    BY <2>1 DEF log
  <2> HIDE DEF log
  <2> QED
    BY <2>1, <2>2, <2>3 DEF OnceInv, LogIsLive, Guarded
<1>14. CASE Poison
  <2>1. UNCHANGED <<os, buf, promised>> /\ pc' = "idle" /\ poisoned'
    BY <1>14, Zenon DEF Poison, fileVars, histVars
  <2>2. log' = log
    BY <2>1 DEF log
  <2> HIDE DEF log
  <2> QED
    BY <2>1, <2>2, <1>a DEF OnceInv, LogIsLive, Guarded
<1>15. CASE Panic \/ Exit \/ ProcessCrash
  <2>1. UNCHANGED <<os, promised>> /\ buf' = <<>>
    BY <1>15, Zenon DEF Panic, Exit, ProcessCrash, Forget, fileVars, histVars
  <2>2. pc' = "down" \/ (pc' = "idle" /\ poisoned')
    BY <1>15, Zenon DEF Panic, Exit, ProcessCrash, Forget
  <2>3. log' = os \o <<>>
    BY <2>1 DEF log
  <2>4. \A e \in promised' : Once(e, log')
    BY <1>a, <1>b, <2>1, <2>3, CommittedKept
  <2> HIDE DEF log
  <2> QED
    BY <2>1, <2>2, <2>4 DEF OnceInv, LogIsLive, Guarded
<1>16. CASE PowerFailure
  <2>1. pc' = "down" /\ buf' = <<>> /\ UNCHANGED promised
    BY <1>16 DEF PowerFailure, Forget
  <2>2. log' = os'
    BY <2>1, ConcatEmptySeq DEF log, TypeOK, DataOK
  <2>3. ASSUME NEW n \in dur..Len(os), NEW bad \in SUBSET ((dur + 1)..n),
               os' = [i \in 1..n |-> IF i \in bad THEN Bad ELSE os[i]]
        PROVE  \A e \in promised' : Once(e, os')
    <3>1. ASSUME NEW e \in promised PROVE e # Bad
      BY <3>1 DEF TypeOK, DataOK
    <3>2. ASSUME NEW e \in promised PROVE Once(e, os)
      BY <1>a, <1>b, CommittedKept
    <3>3. n \in Nat /\ n <= Len(os) /\ 1..n \subseteq DOMAIN os
      BY LogTypes DEF TypeOK, DataOK
    <3>4. ASSUME NEW e \in promised PROVE Once(e, os')
      BY <2>3, <3>1, <3>2, <3>3 DEF Once
    <3> QED
      BY <2>1, <3>4
  <2>4. ASSUME ~named PROVE promised = {}
    BY <2>4 DEF DurabilityInv, FileNamed
  <2>5. \A e \in promised' : Once(e, os')
    BY <1>16, <2>1, <2>3, <2>4 DEF PowerFailure
  <2> HIDE DEF log
  <2> QED
    BY <2>1, <2>2, <2>5 DEF OnceInv, LogIsLive, Guarded
<1>17. CASE UNCHANGED vars
  <2>1. UNCHANGED <<os, buf, live, poisoned, promised, mine, batch, pc>>
    BY <1>17, Zenon DEF vars, fileVars, memVars, histVars
  <2>2. log' = log
    BY <2>1 DEF log
  <2> HIDE DEF log
  <2> QED
    BY <2>1, <2>2 DEF OnceInv, LogIsLive, Guarded
<1> QED
  BY <1>1, <1>2, <1>3, <1>4, <1>5, <1>6, <1>7, <1>8, <1>9, <1>10, <1>11,
     <1>12, <1>13, <1>14, <1>15, <1>16, <1>17, Zenon DEF Next

\* A committed edge has exactly one record in the file, whatever crashes,
\* partial writes, failed commits and recoveries come between: flush_buf and
\* sync_uring resume where the file ends and recovery does not log again what
\* it replays (wal.rs).
THEOREM CommittedIsOnce ==
  ASSUME ~KillInCreate
  PROVE  Spec => []CommittedOnce
<1>1. Init => OnceInv
  BY DEF Init, OnceInv, LogIsLive, Guarded
<1>2. TypeOK /\ TypeOK' /\ StopsInv /\ DurabilityInv /\ OnceInv /\ [Next]_vars => OnceInv'
  BY OnceStep
<1>3. TypeOK /\ DurabilityInv /\ OnceInv => CommittedOnce
  <2> SUFFICES ASSUME TypeOK, DurabilityInv, OnceInv, NEW e \in promised
               PROVE  Cardinality({i \in DOMAIN os : os[i] = e}) = 1
    BY DEF CommittedOnce
  <2>1. PICK k \in 1..dur : os[k] = e
    BY DEF DurabilityInv, PromisedDurable, Durable
  <2>2. k \in DOMAIN os
    BY DEF TypeOK, DataOK
  <2>3. Once(e, os)
    BY LogTypes, OnceBefore DEF OnceInv, log
  <2>4. {i \in DOMAIN os : os[i] = e} = {k}
    BY <2>1, <2>2, <2>3 DEF Once
  <2> QED
    BY <2>4, FS_Singleton
<1> QED
  BY <1>1, <1>2, <1>3, WalTypeCorrect, StopsInvariant, DurabilityInvariance, PTL DEF Spec
=============================================================================
