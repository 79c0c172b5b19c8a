------------------------- MODULE OrderBookSlabProofs --------------------------
(***************************************************************************)
(* Proofs about OrderBookSlab, for any prices, quantities and updates.     *)
(***************************************************************************)
EXTENDS OrderBookSlab, SequenceTheorems, WellFoundedInduction, TLAPS

Stored == [price : Prices, quantity : Quantities \ {0}]

\* The order of the prices on a side.
Precedes(side, p, q) == IF side = "Buy" THEN p > q ELSE p < q

Ordered(levels, side) ==
    \A i, j \in DOMAIN levels :
        i < j => Precedes(side, levels[i].price, levels[j].price)

LEMMA PrecedesIsOrder ==
    ASSUME NEW side, NEW p \in Nat, NEW q \in Nat, NEW r \in Nat
    PROVE  /\ ~Precedes(side, p, p)
           /\ Precedes(side, p, q) => ~Precedes(side, q, p) /\ p # q
           /\ Precedes(side, p, q) \/ Precedes(side, q, p) \/ p = q
           /\ Precedes(side, p, q) /\ Precedes(side, q, r) => Precedes(side, p, r)
    BY DEF Precedes

LEMMA CmpPriceIsPrecedes ==
    ASSUME NEW side, NEW l, NEW p
    PROVE  CmpPrice(l, p, side) <=> Precedes(side, l.price, p)
    BY DEF CmpPrice, Precedes

LEMMA Entries ==
    ASSUME NEW s \in Seq(Stored)
    PROVE  /\ Len(s) \in Nat /\ DOMAIN s = 1 .. Len(s)
           /\ \A i \in 1 .. Len(s) :
                 /\ s[i] \in Stored
                 /\ s[i].price \in Prices /\ s[i].price \in Nat
                 /\ s[i].quantity \in Quantities \ {0}
<1>1. \A e \in Stored : /\ e.price \in Prices /\ e.price \in Nat
                        /\ e.quantity \in Quantities \ {0}
    BY SlabAssumption DEF Stored
<1>2. Len(s) \in Nat /\ DOMAIN s = 1 .. Len(s) /\ \A i \in 1 .. Len(s) : s[i] \in Stored
    OBVIOUS
<1>. QED BY <1>1, <1>2

-------------------------------------------------------------------------------
(* The search.                                                             *)

\* Every non-empty set of numbers has a least element.
LEMMA LeastElement ==
    ASSUME NEW T \in SUBSET Nat, T # {}
    PROVE  \E x \in T : \A y \in T : x <= y
<1>1. PICK x \in T : \A y \in T : ~ (<<y, x>> \in OpToRel(<, Nat))
    BY NatLessThanWellFounded, WFMin
<1>2. \A y \in T : ~ (y < x)
    BY <1>1 DEF OpToRel
<1>. QED BY <1>2

\* A sorted side has a point up to which the comparison holds and after which
\* it does not.
LEMMA PartitionPointExists ==
    ASSUME NEW side \in Side, NEW s \in Seq(Stored), Ordered(s, side),
           NEW price \in Prices
    PROVE  \E pos \in 0 .. Len(s) :
              \A i \in DOMAIN s : CmpPrice(s[i], price, side) <=> i <= pos
<1> DEFINE T == {k \in 0 .. Len(s) :
                    k = Len(s) \/ ~CmpPrice(s[k + 1], price, side)}
<1>1. /\ Len(s) \in Nat
      /\ DOMAIN s = 1 .. Len(s)
      /\ \A i \in DOMAIN s : s[i].price \in Nat
      /\ price \in Nat
    BY Entries, SlabAssumption
<1>2. T \in SUBSET Nat /\ Len(s) \in T
    BY <1>1
<1>3. PICK pos \in T : \A k \in T : pos <= k
    BY <1>2, LeastElement
<1>4. pos \in 0 .. Len(s)
    BY <1>3
<1>5. pos = Len(s) \/ ~CmpPrice(s[pos + 1], price, side)
    BY <1>3
<1>6. ASSUME NEW i \in 1 .. Len(s)
      PROVE  CmpPrice(s[i], price, side) <=> i <= pos
    <2>1. CASE i <= pos
        <3>1. i - 1 \in 0 .. Len(s) /\ i - 1 < pos /\ (i - 1) + 1 = i /\ i - 1 # Len(s)
            BY <1>1, <1>4, <2>1
        <3>2. i - 1 \notin T
            <4> HIDE DEF T
            <4>. QED BY <1>1, <1>3, <1>4, <3>1
        <3>3. CmpPrice(s[(i - 1) + 1], price, side)
            BY <3>1, <3>2
        <3>. QED BY <2>1, <3>1, <3>3
    <2> HIDE DEF T
    <2>2. CASE i > pos
        <3>1. pos + 1 \in 1 .. Len(s) /\ (pos + 1 = i \/ pos + 1 < i) /\ pos # Len(s)
            <4>1. pos \in Nat /\ i \in Nat /\ Len(s) \in Nat /\ i <= Len(s) /\ pos < i
                BY <1>1, <1>4, <2>2
            <4>. QED BY <4>1
        <3>2. ~CmpPrice(s[pos + 1], price, side)
            BY <1>5, <3>1
        <3>3. ASSUME NEW k \in 1 .. Len(s), k < i, ~CmpPrice(s[k], price, side)
              PROVE  ~CmpPrice(s[i], price, side)
            <4>1. Precedes(side, s[k].price, s[i].price)
                BY <1>1, <3>3 DEF Ordered
            <4>2. s[k].price \in Nat /\ s[i].price \in Nat /\ price \in Nat
                BY <1>1
            <4>. QED BY <3>3, <4>1, <4>2, PrecedesIsOrder, CmpPriceIsPrecedes
        <3>4. ~CmpPrice(s[i], price, side)
            BY <3>1, <3>2, <3>3
        <3>. QED BY <1>1, <1>4, <2>2, <3>4
    <2>. QED BY <1>1, <1>4, <2>1, <2>2
<1>. QED BY <1>1, <1>4, <1>6

LEMMA PartitionPoint ==
    ASSUME NEW side \in Side, NEW s \in Seq(Stored), Ordered(s, side),
           NEW price \in Prices, NEW pos \in PartitionPoints(s, price, side)
    PROVE  /\ pos \in 0 .. Len(s)
           /\ \A i \in DOMAIN s : CmpPrice(s[i], price, side) <=> i <= pos
    BY PartitionPointExists DEF PartitionPoints

-------------------------------------------------------------------------------
(* One iteration.                                                          *)

LEMMA Piece ==
    ASSUME NEW s \in Seq(Stored), NEW m \in 1 .. Len(s) + 1, NEW n \in m - 1 .. Len(s)
    PROVE  /\ SubSeq(s, m, n) \in Seq(Stored)
           /\ Len(SubSeq(s, m, n)) = n - m + 1
           /\ \A i \in 1 .. n - m + 1 : SubSeq(s, m, n)[i] = s[m + i - 1]
<1>1. /\ Len(s) \in Nat /\ m \in Int /\ n \in Int
      /\ \A i \in m .. n : s[i] \in Stored
      /\ ~(m <= n) => n - m + 1 = 0
    OBVIOUS
<1>. QED BY <1>1, SubSeqProperties

LEMMA RemovedPieces ==
    ASSUME NEW s, NEW k, NEW m, NEW n, m = k - 1, n = k + 1
    PROVE  RemoveAt(s, k) = SubSeq(s, 1, m) \o SubSeq(s, n, Len(s))
    BY DEF RemoveAt

LEMMA InsertedPieces ==
    ASSUME NEW s, NEW k, NEW m, NEW e, m = k - 1
    PROVE  InsertAt(s, k, e) = SubSeq(s, 1, m) \o <<e>> \o SubSeq(s, k, Len(s))
    BY DEF InsertAt

\* t is s with the entry u put in after the first pos ones.
IsInsertion(s, t, pos, u) ==
    /\ Len(t) = Len(s) + 1
    /\ \A i \in 1 .. Len(t) :
          t[i] = IF i <= pos THEN s[i] ELSE IF i = pos + 1 THEN u ELSE s[i - 1]

\* What Updated makes of the vector, entry by entry.
LEMMA UpdatedEntries ==
    ASSUME NEW s \in Seq(Stored), NEW pos \in 0 .. Len(s), NEW u \in PriceLevel,
           NEW t, t = Updated(s, pos, u)
    PROVE  /\ t \in Seq(Stored)
           /\ \/ /\ IsAt(s, pos, u.price) /\ u.quantity = 0
                 /\ Len(t) = Len(s) - 1
                 /\ \A i \in 1 .. Len(t) : t[i] = IF i <= pos THEN s[i] ELSE s[i + 1]
              \/ /\ IsAt(s, pos, u.price) /\ u.quantity # 0
                 /\ Len(t) = Len(s)
                 /\ \A i \in 1 .. Len(t) : t[i] = IF i = pos + 1 THEN u ELSE s[i]
              \/ /\ ~IsAt(s, pos, u.price) /\ u.quantity = 0
                 /\ t = s
              \/ /\ ~IsAt(s, pos, u.price) /\ u.quantity # 0
                 /\ IsInsertion(s, t, pos, u)
<1>1. Len(s) \in Nat /\ DOMAIN s = 1 .. Len(s) /\ \A i \in 1 .. Len(s) : s[i] \in Stored
    OBVIOUS
<1>2. u.quantity # 0 => u \in Stored
    BY DEF PriceLevel, Stored
<1> DEFINE front == SubSeq(s, 1, pos)
           back  == SubSeq(s, pos + 1, Len(s))
           later == SubSeq(s, pos + 2, Len(s))
<1>3. /\ front \in Seq(Stored) /\ Len(front) = pos
      /\ \A i \in 1 .. pos : front[i] = s[1 + i - 1]
    <2>1. 1 \in 1 .. Len(s) + 1 /\ pos \in 1 - 1 .. Len(s) /\ pos - 1 + 1 = pos
        BY <1>1
    <2>. QED BY <2>1, Piece
<1>4. /\ back \in Seq(Stored) /\ Len(back) = Len(s) - pos
      /\ \A i \in 1 .. Len(s) - pos : back[i] = s[(pos + 1) + i - 1]
    <2>1. /\ pos + 1 \in 1 .. Len(s) + 1 /\ Len(s) \in (pos + 1) - 1 .. Len(s)
          /\ Len(s) - (pos + 1) + 1 = Len(s) - pos
        BY <1>1
    <2>. QED BY <2>1, Piece
<1>5. pos < Len(s) =>
          /\ later \in Seq(Stored) /\ Len(later) = Len(s) - pos - 1
          /\ \A i \in 1 .. Len(s) - pos - 1 : later[i] = s[(pos + 2) + i - 1]
    <2>1. pos < Len(s) =>
              /\ pos + 2 \in 1 .. Len(s) + 1 /\ Len(s) \in (pos + 2) - 1 .. Len(s)
              /\ Len(s) - (pos + 2) + 1 = Len(s) - pos - 1
        BY <1>1
    <2>. QED BY <2>1, Piece
<1>6. CASE IsAt(s, pos, u.price) /\ u.quantity = 0
    <2>1. t = front \o later
        <3>1. pos = (pos + 1) - 1 /\ pos + 2 = (pos + 1) + 1
            BY <1>1
        <3>2. t = RemoveAt(s, pos + 1)
            BY <1>6 DEF Updated
        <3>. QED BY <3>1, <3>2, RemovedPieces
    <2>2. pos < Len(s)
        BY <1>6 DEF IsAt
    <2> HIDE DEF front, later
    <2>3. /\ t \in Seq(Stored)
          /\ Len(t) = Len(front) + Len(later)
          /\ \A i \in 1 .. Len(t) :
                t[i] = IF i <= Len(front) THEN front[i] ELSE later[i - Len(front)]
        BY <1>3, <1>5, <2>1, <2>2, ConcatProperties
    <2>4. Len(t) = Len(s) - 1
        <3>1. Len(front) = pos /\ Len(later) = Len(s) - pos - 1
            BY <1>3, <1>5, <2>2
        <3>2. Len(t) = Len(front) + Len(later)
            BY <2>3
        <3>. QED BY <1>1, <3>1, <3>2
    <2>5. ASSUME NEW i \in 1 .. Len(t)
          PROVE  t[i] = IF i <= pos THEN s[i] ELSE s[i + 1]
        <3>1. CASE i <= pos
            <4>1. i \in 1 .. pos /\ 1 + i - 1 = i
                BY <3>1
            <4>. QED BY <1>3, <2>3, <3>1, <4>1
        <3>2. CASE i > pos
            <4>1. i - pos \in 1 .. Len(s) - pos - 1 /\ (pos + 2) + (i - pos) - 1 = i + 1
                BY <1>1, <2>2, <2>4, <3>2
            <4>2. t[i] = later[i - pos]
                BY <1>3, <2>3, <3>2
            <4>3. later[i - pos] = s[(pos + 2) + (i - pos) - 1]
                BY <1>5, <2>2, <4>1
            <4>. QED BY <3>2, <4>1, <4>2, <4>3
        <3>. QED BY <1>1, <2>4, <3>1, <3>2
    <2>. QED BY <1>6, <2>3, <2>4, <2>5
<1>7. CASE IsAt(s, pos, u.price) /\ u.quantity # 0
    <2>1. t = [s EXCEPT ![pos + 1] = u] /\ pos + 1 \in 1 .. Len(s)
        BY <1>1, <1>7 DEF Updated, IsAt
    <2>2. /\ t \in Seq(Stored) /\ Len(t) = Len(s)
          /\ \A i \in 1 .. Len(s) : t[i] = IF i = pos + 1 THEN u ELSE s[i]
        <3> DEFINE k == pos + 1
        <3>1. u \in Stored /\ k \in 1 .. Len(s) /\ t = [s EXCEPT ![k] = u]
            BY <1>2, <1>7, <2>1
        <3>2. /\ t \in Seq(Stored) /\ Len(t) = Len(s)
              /\ \A i \in 1 .. Len(s) : t[i] = IF i = k THEN u ELSE s[i]
            <4> HIDE DEF k
            <4>. QED BY <3>1, ExceptSeq
        <3>. QED BY <3>2
    <2>. QED BY <1>7, <2>2
<1>8. CASE ~IsAt(s, pos, u.price) /\ u.quantity = 0
    BY <1>8 DEF Updated
<1>9. CASE ~IsAt(s, pos, u.price) /\ u.quantity # 0
    <2> DEFINE head == front \o <<u>>
    <2>1. t = head \o back
        <3>1. pos = (pos + 1) - 1
            BY <1>1
        <3>2. t = InsertAt(s, pos + 1, u)
            BY <1>9 DEF Updated
        <3>. QED BY <3>1, <3>2, InsertedPieces
    <2> HIDE DEF front, back
    <2>2. <<u>> \in Seq(Stored) /\ Len(<<u>>) = 1 /\ <<u>>[1] = u
        BY <1>2, <1>9
    <2>3. /\ head \in Seq(Stored) /\ Len(head) = pos + 1
          /\ \A i \in 1 .. pos + 1 :
                head[i] = IF i <= pos THEN front[i] ELSE <<u>>[i - pos]
        BY <1>3, <2>2, ConcatProperties
    <2> HIDE DEF head
    <2>4. /\ t \in Seq(Stored)
          /\ Len(t) = Len(head) + Len(back)
          /\ \A i \in 1 .. Len(t) :
                t[i] = IF i <= Len(head) THEN head[i] ELSE back[i - Len(head)]
        BY <1>4, <2>1, <2>3, ConcatProperties
    <2>5. ASSUME NEW i \in 1 .. Len(t)
          PROVE  t[i] = IF i <= pos THEN s[i]
                        ELSE IF i = pos + 1 THEN u ELSE s[i - 1]
        <3>1. CASE i <= pos
            <4>1. i \in 1 .. pos /\ 1 + i - 1 = i /\ i <= pos + 1
                BY <1>1, <3>1
            <4>. QED BY <1>3, <2>3, <2>4, <3>1, <4>1
        <3>2. CASE i = pos + 1
            BY <1>1, <2>2, <2>3, <2>4, <3>2
        <3>3. CASE i > pos + 1
            <4>1. /\ i - (pos + 1) \in 1 .. Len(s) - pos
                  /\ (pos + 1) + (i - (pos + 1)) - 1 = i - 1
                BY <1>1, <1>4, <2>3, <2>4, <3>3
            <4>2. t[i] = back[i - (pos + 1)]
                BY <1>1, <2>3, <2>4, <3>3
            <4>3. back[i - (pos + 1)] = s[(pos + 1) + (i - (pos + 1)) - 1]
                BY <1>4, <4>1
            <4>. QED BY <3>3, <4>1, <4>2, <4>3
        <3>. QED BY <1>1, <1>4, <2>3, <2>4, <3>1, <3>2, <3>3
    <2>6. Len(t) = Len(s) + 1
        BY <1>1, <1>4, <2>3, <2>4
    <2>. QED BY <1>9, <2>4, <2>5, <2>6 DEF IsInsertion
<1>. QED BY <1>6, <1>7, <1>8, <1>9

\* Where the new price stands among the entries.
LEMMA AroundThePoint ==
    ASSUME NEW side \in Side, NEW s \in Seq(Stored), Ordered(s, side),
           NEW price \in Prices, NEW pos \in PartitionPoints(s, price, side)
    PROVE  /\ pos \in 0 .. Len(s)
           /\ \A i \in 1 .. Len(s) :
                 /\ i <= pos => Precedes(side, s[i].price, price)
                 /\ i > pos =>
                       \/ Precedes(side, price, s[i].price)
                       \/ i = pos + 1 /\ s[i].price = price
<1>1. /\ pos \in 0 .. Len(s) /\ price \in Nat
      /\ \A i \in 1 .. Len(s) : Precedes(side, s[i].price, price) <=> i <= pos
    BY PartitionPoint, Entries, CmpPriceIsPrecedes, SlabAssumption
<1>2. ASSUME NEW i \in 1 .. Len(s), i > pos
      PROVE  \/ Precedes(side, price, s[i].price)
             \/ i = pos + 1 /\ s[i].price = price
    <2>1. ~Precedes(side, s[i].price, price)
        BY <1>1, <1>2, Entries
    <2>2. CASE s[i].price = price /\ i # pos + 1
        <3>1. pos + 1 \in 1 .. Len(s) /\ pos + 1 < i /\ ~(pos + 1 <= pos)
            BY <1>1, <1>2, <2>2, Entries
        <3>2. Precedes(side, s[pos + 1].price, s[i].price)
            BY <3>1, Entries DEF Ordered
        <3>3. ~Precedes(side, s[pos + 1].price, price)
            BY <1>1, <3>1
        <3>. QED BY <2>2, <3>2, <3>3
    <2>. QED BY <1>1, <2>1, <2>2, Entries, PrecedesIsOrder
<1>. QED BY <1>1, <1>2

LEMMA QuantityOfEntry ==
    ASSUME NEW side \in Side, NEW s \in Seq(Stored), Ordered(s, side),
           NEW i \in 1 .. Len(s)
    PROVE  QuantityAt(s, s[i].price) = s[i].quantity
<1>1. ASSUME NEW j \in DOMAIN s, s[j].price = s[i].price PROVE j = i
    <2>1. j < i \/ i < j \/ i = j
        BY Entries
    <2>. QED BY <1>1, <2>1, Entries, PrecedesIsOrder DEF Ordered
<1>2. i \in DOMAIN s
    BY Entries
<1>. QED BY <1>1, <1>2 DEF QuantityAt

LEMMA QuantityOfNone ==
    ASSUME NEW s, NEW price, \A i \in DOMAIN s : s[i].price # price
    PROVE  QuantityAt(s, price) = 0
    BY DEF QuantityAt

\* Two sorted vectors with the same entry for a price agree on its quantity.
LEMMA SameQuantity ==
    ASSUME NEW side \in Side, NEW s \in Seq(Stored), NEW t \in Seq(Stored),
           Ordered(s, side), Ordered(t, side), NEW price,
           \A i \in 1 .. Len(s) : s[i].price = price =>
               \E j \in 1 .. Len(t) : t[j] = s[i],
           \A i \in 1 .. Len(t) : t[i].price = price =>
               \E j \in 1 .. Len(s) : s[j] = t[i]
    PROVE  QuantityAt(s, price) = QuantityAt(t, price)
<1>1. CASE \E i \in 1 .. Len(s) : s[i].price = price
    <2>1. PICK i \in 1 .. Len(s) : s[i].price = price
        BY <1>1
    <2>2. PICK j \in 1 .. Len(t) : t[j] = s[i]
        BY <2>1
    <2>3. QuantityAt(s, s[i].price) = s[i].quantity
        BY QuantityOfEntry
    <2>4. QuantityAt(t, t[j].price) = t[j].quantity
        BY QuantityOfEntry
    <2>. QED BY <2>1, <2>2, <2>3, <2>4
<1>2. CASE \A i \in 1 .. Len(s) : s[i].price # price
    <2>1. \A i \in 1 .. Len(t) : t[i].price # price
        BY <1>2
    <2>. QED BY <1>2, <2>1, Entries, QuantityOfNone
<1>. QED BY <1>1, <1>2

\* An iteration keeps a side sorted, gives the listed price its quantity, and
\* changes no other.
LEMMA UpdatedSide ==
    ASSUME NEW side \in Side, NEW s \in Seq(Stored), Ordered(s, side),
           NEW u \in PriceLevel, NEW pos \in PartitionPoints(s, u.price, side)
    PROVE  LET t == Updated(s, pos, u)
           IN  /\ t \in Seq(Stored)
               /\ Ordered(t, side)
               /\ \A price \in Prices :
                     QuantityAt(t, price) =
                         IF price = u.price THEN u.quantity ELSE QuantityAt(s, price)
<1> DEFINE t == Updated(s, pos, u)
<1>0. u.price \in Prices /\ u.price \in Nat
    BY SlabAssumption DEF PriceLevel
<1>1. /\ pos \in 0 .. Len(s)
      /\ \A i \in 1 .. Len(s) :
            /\ i <= pos => Precedes(side, s[i].price, u.price)
            /\ i > pos =>
                  \/ Precedes(side, u.price, s[i].price)
                  \/ i = pos + 1 /\ s[i].price = u.price
    BY <1>0, AroundThePoint
<1>2. IsAt(s, pos, u.price) <=> pos < Len(s) /\ s[pos + 1].price = u.price
    BY DEF IsAt
<1>3. /\ Len(s) \in Nat /\ DOMAIN s = 1 .. Len(s)
      /\ \A i \in 1 .. Len(s) : s[i].price \in Nat
      /\ \A i, j \in 1 .. Len(s) : i < j => Precedes(side, s[i].price, s[j].price)
    BY Entries DEF Ordered
<1>4. \A i \in 1 .. Len(s) :
         i > pos + 1 \/ (i > pos /\ ~IsAt(s, pos, u.price)) =>
             Precedes(side, u.price, s[i].price)
    BY <1>0, <1>1, <1>2, <1>3
<1>5. t \in Seq(Stored)
    BY <1>1, UpdatedEntries
<1>6. CASE IsAt(s, pos, u.price) /\ u.quantity = 0
    <2>1. /\ Len(t) = Len(s) - 1
          /\ \A i \in 1 .. Len(t) : t[i] = IF i <= pos THEN s[i] ELSE s[i + 1]
        BY <1>1, <1>6, UpdatedEntries
    <2> HIDE DEF t
    <2>2. Ordered(t, side)
        <3>1. ASSUME NEW i \in 1 .. Len(t), NEW j \in 1 .. Len(t), i < j
              PROVE  Precedes(side, t[i].price, t[j].price)
            <4>1. i + 1 \in 1 .. Len(s) /\ j + 1 \in 1 .. Len(s) /\ i \in 1 .. Len(s)
                  /\ j \in 1 .. Len(s) /\ i < j + 1 /\ i + 1 < j + 1
                BY <1>3, <2>1, <3>1
            <4>. QED BY <1>1, <1>3, <2>1, <3>1, <4>1
        <3>. QED BY <1>5, <3>1, Entries DEF Ordered
    <2>3. ASSUME NEW i \in 1 .. Len(t) PROVE t[i].price # u.price
        <3>1. i \in 1 .. Len(s) /\ i + 1 \in 1 .. Len(s) /\ (i > pos => i + 1 > pos + 1)
            BY <1>1, <1>3, <2>1
        <3>2. CASE i <= pos
            BY <1>0, <1>1, <1>3, <2>1, <3>1, <3>2, PrecedesIsOrder
        <3>3. CASE i > pos
            BY <1>0, <1>1, <1>3, <1>4, <2>1, <3>1, <3>3, PrecedesIsOrder
        <3>. QED BY <1>1, <3>1, <3>2, <3>3
    <2>4. QuantityAt(t, u.price) = u.quantity
        BY <1>5, <1>6, <2>3, Entries, QuantityOfNone
    <2>5. ASSUME NEW price \in Prices, price # u.price
          PROVE  QuantityAt(s, price) = QuantityAt(t, price)
        <3>1. ASSUME NEW i \in 1 .. Len(s), s[i].price = price
              PROVE  \E j \in 1 .. Len(t) : t[j] = s[i]
            <4>1. i # pos + 1
                BY <1>2, <1>6, <2>5, <3>1
            <4>2. CASE i <= pos
                <5>1. i \in 1 .. Len(t)
                    BY <1>1, <1>2, <1>3, <1>6, <2>1, <4>2
                <5>. QED BY <2>1, <4>2, <5>1
            <4>3. CASE i > pos + 1
                <5>1. i - 1 \in 1 .. Len(t) /\ ~(i - 1 <= pos) /\ (i - 1) + 1 = i
                    BY <1>1, <1>3, <2>1, <4>3
                <5>2. t[i - 1] = s[(i - 1) + 1]
                    BY <2>1, <5>1
                <5>. QED BY <5>1, <5>2
            <4>. QED BY <1>1, <1>3, <4>1, <4>2, <4>3
        <3>2. ASSUME NEW i \in 1 .. Len(t)
              PROVE  \E j \in 1 .. Len(s) : s[j] = t[i]
            <4>1. i \in 1 .. Len(s) /\ i + 1 \in 1 .. Len(s)
                BY <1>3, <2>1
            <4>. QED BY <2>1, <4>1
        <3>. QED BY <1>5, <2>2, <3>1, <3>2, SameQuantity
    <2>. QED BY <1>5, <2>2, <2>4, <2>5 DEF t
<1>7. CASE IsAt(s, pos, u.price) /\ u.quantity # 0
    <2>1. /\ Len(t) = Len(s)
          /\ \A i \in 1 .. Len(t) : t[i] = IF i = pos + 1 THEN u ELSE s[i]
        BY <1>1, <1>7, UpdatedEntries
    <2> HIDE DEF t
    <2>2. \A i \in 1 .. Len(t) : t[i].price = s[i].price
        BY <1>2, <1>7, <2>1
    <2>3. Ordered(t, side)
        BY <1>3, <1>5, <2>1, <2>2, Entries DEF Ordered
    <2>4. pos + 1 \in 1 .. Len(t) /\ t[pos + 1] = u
        BY <1>1, <1>2, <1>3, <1>7, <2>1
    <2>5. QuantityAt(t, u.price) = u.quantity
        <3>1. QuantityAt(t, t[pos + 1].price) = t[pos + 1].quantity
            BY <1>5, <2>3, <2>4, QuantityOfEntry
        <3>. QED BY <2>4, <3>1
    <2>6. ASSUME NEW price \in Prices, price # u.price
          PROVE  QuantityAt(s, price) = QuantityAt(t, price)
        BY <1>5, <2>1, <2>2, <2>3, <2>4, <2>6, SameQuantity
    <2>. QED BY <1>5, <2>3, <2>5, <2>6 DEF t
<1>8. CASE ~IsAt(s, pos, u.price) /\ u.quantity = 0
    <2>1. t = s
        BY <1>1, <1>8, UpdatedEntries
    <2> HIDE DEF t
    <2>2. \A i \in 1 .. Len(s) : s[i].price # u.price
        BY <1>0, <1>1, <1>3, <1>4, <1>8, PrecedesIsOrder
    <2>3. QuantityAt(t, u.price) = u.quantity
        BY <1>3, <1>8, <2>1, <2>2, QuantityOfNone
    <2>. QED BY <1>5, <2>1, <2>3 DEF t
<1>9. CASE ~IsAt(s, pos, u.price) /\ u.quantity # 0
    <2>1. /\ Len(t) = Len(s) + 1
          /\ \A i \in 1 .. Len(t) :
                t[i] = IF i <= pos THEN s[i]
                       ELSE IF i = pos + 1 THEN u ELSE s[i - 1]
        <3>1. IsInsertion(s, t, pos, u)
            BY <1>1, <1>9, UpdatedEntries
        <3>. QED BY <3>1 DEF IsInsertion
    <2> HIDE DEF t
    <2>2. /\ pos + 1 \in 1 .. Len(t) /\ t[pos + 1] = u
          /\ \A i \in 1 .. Len(t) :
                /\ i <= pos => i \in 1 .. Len(s) /\ t[i] = s[i]
                /\ i > pos + 1 => i - 1 \in 1 .. Len(s) /\ i - 1 > pos /\ t[i] = s[i - 1]
        BY <1>1, <1>3, <2>1
    <2>3. Ordered(t, side)
        <3>1. ASSUME NEW i \in 1 .. Len(t), NEW j \in 1 .. Len(t), i < j
              PROVE  Precedes(side, t[i].price, t[j].price)
            <4>1. CASE j <= pos
                BY <1>1, <1>3, <2>2, <3>1, <4>1
            <4>2. CASE j = pos + 1
                BY <1>1, <1>3, <2>2, <3>1, <4>2
            <4>3. CASE j > pos + 1
                <5>1. j - 1 \in 1 .. Len(s) /\ j - 1 > pos /\ t[j] = s[j - 1]
                    BY <2>2, <4>3
                <5>2. CASE i <= pos
                    BY <1>1, <1>3, <2>2, <5>1, <5>2
                <5>3. CASE i = pos + 1
                    BY <1>4, <1>9, <2>2, <5>1, <5>3
                <5>4. CASE i > pos + 1
                    <6>1. i - 1 \in 1 .. Len(s) /\ t[i] = s[i - 1] /\ i - 1 < j - 1
                        BY <2>2, <3>1, <5>4
                    <6>. QED BY <1>3, <5>1, <6>1
                <5>. QED BY <1>1, <1>3, <2>1, <5>2, <5>3, <5>4
            <4>. QED BY <1>1, <1>3, <2>1, <4>1, <4>2, <4>3
        <3>. QED BY <1>5, <3>1, Entries DEF Ordered
    <2>4. QuantityAt(t, u.price) = u.quantity
        <3>1. QuantityAt(t, t[pos + 1].price) = t[pos + 1].quantity
            BY <1>5, <2>2, <2>3, QuantityOfEntry
        <3>. QED BY <2>2, <3>1
    <2>5. ASSUME NEW price \in Prices, price # u.price
          PROVE  QuantityAt(s, price) = QuantityAt(t, price)
        <3>1. ASSUME NEW i \in 1 .. Len(s)
              PROVE  \E j \in 1 .. Len(t) : t[j] = s[i]
            <4>1. CASE i <= pos
                <5>1. i \in 1 .. Len(t)
                    BY <1>3, <2>1
                <5>. QED BY <2>2, <4>1, <5>1
            <4>2. CASE i > pos
                <5>1. i + 1 \in 1 .. Len(t) /\ i + 1 > pos + 1 /\ (i + 1) - 1 = i
                    BY <1>1, <1>3, <2>1, <4>2
                <5>2. t[i + 1] = s[(i + 1) - 1]
                    BY <2>2, <5>1
                <5>. QED BY <5>1, <5>2
            <4>. QED BY <1>1, <1>3, <4>1, <4>2
        <3>2. ASSUME NEW i \in 1 .. Len(t), t[i].price = price
              PROVE  \E j \in 1 .. Len(s) : s[j] = t[i]
            <4>1. i <= pos \/ i > pos + 1
                BY <1>1, <1>3, <2>1, <2>2, <2>5, <3>2
            <4>. QED BY <2>2, <4>1
        <3>. QED BY <1>5, <2>3, <3>1, <3>2, SameQuantity
    <2>. QED BY <1>5, <2>3, <2>4, <2>5 DEF t
<1>. QED BY <1>6, <1>7, <1>8, <1>9

-------------------------------------------------------------------------------
(* The lists of an update.                                                 *)

IsLast(list, price, i) ==
    /\ i \in DOMAIN list
    /\ list[i].price = price
    /\ \A j \in DOMAIN list : list[j].price = price => j <= i

LEMMA LastExists ==
    ASSUME NEW list \in Seq(PriceLevel), NEW price,
           \E i \in DOMAIN list : list[i].price = price
    PROVE  \E i \in DOMAIN list : IsLast(list, price, i)
<1> DEFINE T == {Len(list) - i : i \in {i \in 1 .. Len(list) : list[i].price = price}}
<1>1. Len(list) \in Nat /\ DOMAIN list = 1 .. Len(list)
    OBVIOUS
<1>2. T \in SUBSET Nat /\ T # {}
    BY <1>1
<1>3. PICK k \in T : \A m \in T : k <= m
    BY <1>2, LeastElement
<1>4. PICK i \in 1 .. Len(list) : list[i].price = price /\ k = Len(list) - i
    BY <1>3
<1>5. ASSUME NEW j \in 1 .. Len(list), list[j].price = price
      PROVE  j <= i
    <2>1. Len(list) - j \in T
        BY <1>5
    <2>2. Len(list) - i <= Len(list) - j
        BY <1>3, <1>4, <2>1
    <2>. QED BY <1>1, <2>2
<1>. QED BY <1>1, <1>4, <1>5 DEF IsLast

LEMMA QuantityOfLast ==
    ASSUME NEW list \in Seq(PriceLevel), NEW price, NEW i, IsLast(list, price, i)
    PROVE  LastQuantity(list, price) = list[i].quantity
<1>1. ASSUME NEW j \in DOMAIN list, IsLast(list, price, j) PROVE j = i
    <2>1. i <= j /\ j <= i /\ i \in Nat /\ j \in Nat
        BY <1>1 DEF IsLast
    <2>. QED BY <2>1
<1>2. LastQuantity(list, price) =
          list[CHOOSE j \in DOMAIN list : IsLast(list, price, j)].quantity
    BY DEF LastQuantity, IsLast
<1>3. i \in DOMAIN list
    BY DEF IsLast
<1>. QED BY <1>1, <1>2, <1>3

\* What the head of a list means next to its tail.
LEMMA HeadAndTail ==
    ASSUME NEW list \in Seq(PriceLevel), list # <<>>, NEW price
    PROVE  LET tail == Tail(list)
               inTail == \E i \in DOMAIN tail : tail[i].price = price
           IN  /\ Head(list) \in PriceLevel /\ tail \in Seq(PriceLevel)
               /\ (\E i \in DOMAIN list : list[i].price = price)
                      <=> inTail \/ Head(list).price = price
               /\ inTail => LastQuantity(list, price) = LastQuantity(tail, price)
               /\ ~inTail /\ Head(list).price = price =>
                      LastQuantity(list, price) = Head(list).quantity
<1> DEFINE tail == Tail(list)
           inTail == \E i \in DOMAIN tail : tail[i].price = price
<1>1. /\ Len(list) \in Nat \ {0} /\ DOMAIN list = 1 .. Len(list) /\ Head(list) = list[1]
      /\ Head(list) \in PriceLevel /\ tail \in Seq(PriceLevel)
      /\ Len(tail) = Len(list) - 1 /\ DOMAIN tail = 1 .. Len(list) - 1
      /\ \A i \in 1 .. Len(list) - 1 : tail[i] = list[i + 1]
    BY HeadTailProperties
<1> HIDE DEF tail
<1>2. ASSUME NEW i \in 1 .. Len(list)
      PROVE  i = 1 \/ (i - 1 \in DOMAIN tail /\ list[i] = tail[i - 1])
    <2>1. CASE i # 1
        <3>1. i - 1 \in 1 .. Len(list) - 1 /\ (i - 1) + 1 = i
            BY <1>1, <2>1
        <3>. QED BY <1>1, <3>1
    <2>. QED BY <2>1
<1>3. \A i \in DOMAIN tail : i + 1 \in 1 .. Len(list) /\ tail[i] = list[i + 1]
    BY <1>1
<1>4. (\E i \in DOMAIN list : list[i].price = price)
          <=> inTail \/ Head(list).price = price
    <2>1. ASSUME NEW i \in DOMAIN list, list[i].price = price
          PROVE  inTail \/ Head(list).price = price
        BY <1>1, <1>2, <2>1
    <2>2. ASSUME inTail PROVE \E i \in DOMAIN list : list[i].price = price
        <3>1. PICK i \in DOMAIN tail : tail[i].price = price
            BY <2>2
        <3>. QED BY <1>1, <1>3, <3>1
    <2>3. 1 \in DOMAIN list
        BY <1>1
    <2>. QED BY <1>1, <2>1, <2>2, <2>3
<1>5. ASSUME inTail PROVE LastQuantity(list, price) = LastQuantity(tail, price)
    <2>1. PICK i \in DOMAIN tail : IsLast(tail, price, i)
        BY <1>1, <1>5, LastExists
    <2>2. i + 1 \in DOMAIN list /\ list[i + 1] = tail[i] /\ list[i + 1].price = price
        BY <1>1, <1>3, <2>1 DEF IsLast
    <2>3. ASSUME NEW j \in DOMAIN list, list[j].price = price PROVE j <= i + 1
        <3>1. CASE j = 1
            BY <1>1, <2>1, <3>1
        <3>2. CASE j - 1 \in DOMAIN tail /\ list[j] = tail[j - 1]
            <4>1. j - 1 <= i
                BY <2>1, <2>3, <3>2 DEF IsLast
            <4>. QED BY <1>1, <2>1, <2>3, <4>1
        <3>. QED BY <1>1, <1>2, <2>3, <3>1, <3>2
    <2>4. IsLast(list, price, i + 1)
        BY <2>2, <2>3 DEF IsLast
    <2>5. LastQuantity(list, price) = list[i + 1].quantity
        BY <2>4, QuantityOfLast
    <2>6. LastQuantity(tail, price) = tail[i].quantity
        BY <1>1, <2>1, QuantityOfLast
    <2>. QED BY <2>2, <2>5, <2>6
<1>6. ASSUME ~inTail, Head(list).price = price
      PROVE  LastQuantity(list, price) = Head(list).quantity
    <2>1. \A j \in DOMAIN list : list[j].price = price => j <= 1
        BY <1>1, <1>2, <1>6
    <2>2. IsLast(list, price, 1)
        BY <1>1, <1>6, <2>1 DEF IsLast
    <2>3. LastQuantity(list, price) = list[1].quantity
        BY <2>2, QuantityOfLast
    <2>. QED BY <1>1, <2>3
<1>. QED BY <1>1, <1>4, <1>5, <1>6 DEF tail

-------------------------------------------------------------------------------
(* The invariant.                                                          *)

\* What is left at a level once the listed changes are made.
Outcome(l, levels, lists) ==
    IF l \in Listed(lists) THEN LastQuantity(lists[l[1]], l[2]) ELSE levels[l]

\* In the middle of a batch, what the rest of it will make of the vectors is what
\* the whole of it makes of the book as it was.
BatchInv ==
    /\ before = [sequence |-> before.sequence, levels |-> before.levels]
    /\ update = <<>> =>
          /\ rest = NoRest
          /\ before = [sequence |-> sequence, levels |-> LevelsOf(slab)]
    /\ update # <<>> =>
          /\ sequence = update[1].sequence
          /\ before.sequence < sequence
          /\ \A l \in Levels :
                Outcome(l, LevelsOf(slab), rest)
                    = Outcome(l, before.levels, update[1].levels)

SlabInv == TypeOK /\ SlabsAreSorted /\ BatchInv

LEMMA SidesAreOrdered == SlabsAreSorted <=> \A side \in Side : Ordered(slab[side], side)
    BY DEF SlabsAreSorted, Ordered, Precedes

LEMMA EmptySides ==
    /\ NoRest \in [Side -> Seq(Stored)] /\ NoRest \in [Side -> Seq(PriceLevel)]
    /\ \A side \in Side : NoRest[side] = <<>> /\ Ordered(<<>>, side)
    /\ Listed(NoRest) = {}
    /\ LevelsOf(NoRest) = [l \in Levels |-> 0]
<1>1. /\ NoRest \in [Side -> Seq(Stored)] /\ NoRest \in [Side -> Seq(PriceLevel)]
      /\ \A side \in Side : NoRest[side] = <<>>
    BY DEF NoRest
<1>2. \A side \in Side : Ordered(<<>>, side)
    BY DEF Ordered
<1>3. Listed(NoRest) = {}
    BY DEF Listed, NoRest
<1>4. \A l \in Levels : QuantityAt(NoRest[l[1]], l[2]) = 0
    BY DEF NoRest, Levels, QuantityAt
<1>5. LevelsOf(NoRest) = [l \in Levels |-> 0]
    BY <1>4 DEF LevelsOf, Levels
<1>. QED BY <1>1, <1>2, <1>3, <1>5

LEMMA LevelsType ==
    ASSUME NEW s \in [Side -> Seq(Stored)]
    PROVE  /\ LevelsOf(s) \in [Levels -> Quantities \cup {0}]
           /\ \A side \in Side, price \in Prices :
                 LevelsOf(s)[<<side, price>>] = QuantityAt(s[side], price)
<1>1. ASSUME NEW side \in Side, NEW price \in Prices
      PROVE  QuantityAt(s[side], price) \in Quantities \cup {0}
    <2>1. s[side] \in Seq(Stored)
        OBVIOUS
    <2>2. CASE \E i \in DOMAIN s[side] : s[side][i].price = price
        <3>1. QuantityAt(s[side], price) =
                  s[side][CHOOSE i \in DOMAIN s[side] : s[side][i].price = price].quantity
            BY <2>2 DEF QuantityAt
        <3>2. (CHOOSE i \in DOMAIN s[side] : s[side][i].price = price) \in DOMAIN s[side]
            BY <2>2
        <3>. QED BY <2>1, <3>1, <3>2, Entries
    <2>3. CASE ~\E i \in DOMAIN s[side] : s[side][i].price = price
        BY <2>3 DEF QuantityAt
    <2>. QED BY <2>2, <2>3
<1>2. \A l \in Levels : QuantityAt(s[l[1]], l[2]) \in Quantities \cup {0}
    BY <1>1 DEF Levels
<1>. QED BY <1>2 DEF LevelsOf, Levels

LEMMA InitSlab == Init => SlabInv
<1> SUFFICES ASSUME Init PROVE SlabInv
    OBVIOUS
<1> USE DEF Init
<1>1. LevelsOf(NoRest) \in [Levels -> Quantities \cup {0}]
    BY EmptySides, LevelsType
<1>2. TypeOK
    BY <1>1, EmptySides DEF TypeOK, EmptyBook, Stored
<1>3. SlabsAreSorted
    BY EmptySides, SidesAreOrdered
<1>4. BatchInv
    BY DEF BatchInv, EmptyBook
<1>. QED BY <1>2, <1>3, <1>4 DEF SlabInv

LEMMA StartApplySlab ==
    ASSUME SlabInv, NEW u \in Inputs, StartApply(u)
    PROVE  SlabInv'
<1> USE DEF SlabInv
<1>1. /\ u \in Update /\ u.sequence \in Nat /\ u.levels \in [Side -> Seq(PriceLevel)]
      /\ sequence < u.sequence
    <2>1. u \in Update
        BY SlabAssumption
    <2>2. u.sequence \in Nat /\ u.levels \in [Side -> Seq(PriceLevel)]
        BY <2>1 DEF Update
    <2>. QED BY <2>1, <2>2 DEF StartApply, IsStale, TypeOK
<1>2. update' = <<u>> /\ update' # <<>> /\ update'[1] = u /\ rest' = u.levels
      /\ sequence' = u.sequence /\ slab' = slab /\ before' = before
    BY DEF StartApply
<1>3. TypeOK'
    BY <1>1, <1>2 DEF TypeOK
<1>4. SlabsAreSorted'
    BY <1>2 DEF SlabsAreSorted
<1>5. before = [sequence |-> sequence, levels |-> LevelsOf(slab)]
    BY DEF StartApply, BatchInv
<1>6. LevelsOf(slab)' = LevelsOf(slab) /\ LevelsOf(slab) = before.levels
      /\ before.sequence = sequence
    BY <1>2, <1>5
<1>7. BatchInv'
    BY <1>1, <1>2, <1>5, <1>6 DEF BatchInv, Outcome
<1>. QED BY <1>3, <1>4, <1>7

LEMMA ApplyLevelSlab ==
    ASSUME SlabInv, NEW side \in Side, ApplyLevel(side)
    PROVE  SlabInv'
<1> USE DEF SlabInv
<1> DEFINE u == Head(rest[side])
<1>1. /\ rest \in [Side -> Seq(PriceLevel)] /\ rest[side] \in Seq(PriceLevel)
      /\ rest[side] # <<>>
      /\ slab \in [Side -> Seq(Stored)] /\ slab[side] \in Seq(Stored)
      /\ Ordered(slab[side], side)
    BY SidesAreOrdered DEF TypeOK, Stored, ApplyLevel
<1>2. /\ u \in PriceLevel /\ u.price \in Prices /\ Tail(rest[side]) \in Seq(PriceLevel)
    <2>1. u \in PriceLevel /\ Tail(rest[side]) \in Seq(PriceLevel)
        BY <1>1, HeadAndTail
    <2>. QED BY <2>1 DEF PriceLevel
<1>3. PICK pos \in PartitionPoints(slab[side], u.price, side) :
          slab' = [slab EXCEPT ![side] = Updated(slab[side], pos, u)]
    BY DEF ApplyLevel
<1>4. /\ rest' = [rest EXCEPT ![side] = Tail(rest[side])]
      /\ UNCHANGED <<sequence, update, before>>
    BY DEF ApplyLevel
<1> DEFINE t == Updated(slab[side], pos, u)
<1>5. /\ t \in Seq(Stored) /\ Ordered(t, side)
      /\ \A price \in Prices :
            QuantityAt(t, price) =
                IF price = u.price THEN u.quantity ELSE QuantityAt(slab[side], price)
    BY <1>1, <1>2, UpdatedSide
<1> HIDE DEF t, u
<1>6. /\ slab' \in [Side -> Seq(Stored)]
      /\ slab'[side] = t
      /\ \A other \in Side : other # side => slab'[other] = slab[other]
    BY <1>1, <1>3, <1>5 DEF t
<1>7. /\ rest' \in [Side -> Seq(PriceLevel)]
      /\ rest'[side] = Tail(rest[side])
      /\ \A other \in Side : other # side => rest'[other] = rest[other]
    BY <1>1, <1>2, <1>4
<1>8. TypeOK'
    BY <1>4, <1>6, <1>7 DEF TypeOK, Stored
<1>9. SlabsAreSorted'
    <2>1. \A other \in Side : Ordered(slab'[other], other)
        BY <1>5, <1>6, SidesAreOrdered
    <2>. QED BY <2>1 DEF SlabsAreSorted, Ordered, Precedes
<1>10. update # <<>>
    <2>1. update = <<>> => rest[side] = <<>>
        BY EmptySides DEF BatchInv
    <2>. QED BY <1>1, <2>1
<1>11. ASSUME NEW l \in Levels
       PROVE  Outcome(l, LevelsOf(slab'), rest') = Outcome(l, LevelsOf(slab), rest)
    <2>1. PICK other \in Side, price \in Prices : l = <<other, price>>
        BY DEF Levels
    <2>2. /\ LevelsOf(slab')[l] = QuantityAt(slab'[other], price)
          /\ LevelsOf(slab)[l] = QuantityAt(slab[other], price)
        BY <1>1, <1>6, <2>1, LevelsType
    <2>3. /\ l \in Listed(rest') <=> \E i \in DOMAIN rest'[other] : rest'[other][i].price = price
          /\ l \in Listed(rest) <=> \E i \in DOMAIN rest[other] : rest[other][i].price = price
          /\ l[1] = other /\ l[2] = price
        BY <2>1 DEF Listed
    <2>4. CASE other # side
        BY <1>6, <1>7, <2>2, <2>3, <2>4 DEF Outcome
    <2>5. CASE other = side
        <3> DEFINE tail == Tail(rest[side])
                   inTail == \E i \in DOMAIN tail : tail[i].price = price
        <3>1. /\ (\E i \in DOMAIN rest[side] : rest[side][i].price = price)
                     <=> inTail \/ u.price = price
              /\ inTail => LastQuantity(rest[side], price) = LastQuantity(tail, price)
              /\ ~inTail /\ u.price = price =>
                     LastQuantity(rest[side], price) = u.quantity
            BY <1>1, HeadAndTail DEF u
        <3>2. rest'[other] = tail /\ rest[other] = rest[side] /\ slab'[other] = t
              /\ slab[other] = slab[side]
            BY <1>6, <1>7, <2>5
        <3> HIDE DEF tail
        <3>3. CASE inTail
            BY <2>3, <3>1, <3>2, <3>3 DEF Outcome
        <3>4. CASE ~inTail /\ u.price = price
            <4>1. Outcome(l, LevelsOf(slab'), rest') = QuantityAt(t, price)
                BY <2>2, <2>3, <3>2, <3>4 DEF Outcome
            <4>2. Outcome(l, LevelsOf(slab), rest) = u.quantity
                BY <2>3, <3>1, <3>2, <3>4 DEF Outcome
            <4>. QED BY <1>5, <3>4, <4>1, <4>2
        <3>5. CASE ~inTail /\ u.price # price
            <4>1. Outcome(l, LevelsOf(slab'), rest') = QuantityAt(t, price)
                BY <2>2, <2>3, <3>2, <3>5 DEF Outcome
            <4>2. Outcome(l, LevelsOf(slab), rest) = QuantityAt(slab[side], price)
                BY <2>2, <2>3, <3>1, <3>2, <3>5 DEF Outcome
            <4>. QED BY <1>5, <3>5, <4>1, <4>2
        <3>. QED BY <3>3, <3>4, <3>5
    <2>. QED BY <2>4, <2>5
<1>12. BatchInv'
    BY <1>4, <1>10, <1>11 DEF BatchInv
<1>. QED BY <1>8, <1>9, <1>12

LEMMA FinishApplySlab ==
    ASSUME SlabInv, FinishApply
    PROVE  SlabInv'
<1> USE DEF SlabInv, FinishApply
<1>1. LevelsOf(slab) \in [Levels -> Quantities \cup {0}]
    BY LevelsType DEF TypeOK, Stored
<1>2. TypeOK'
    BY <1>1 DEF TypeOK
<1>3. SlabsAreSorted'
    BY DEF SlabsAreSorted
<1>4. BatchInv'
    BY DEF BatchInv
<1>. QED BY <1>2, <1>3, <1>4

LEMMA RenewSlab ==
    ASSUME SlabInv, Renew
    PROVE  SlabInv'
<1> USE DEF SlabInv, Renew
<1>1. LevelsOf(NoRest) \in [Levels -> Quantities \cup {0}]
    BY EmptySides, LevelsType
<1>2. TypeOK'
    BY <1>1, EmptySides DEF TypeOK, EmptyBook, Stored
<1>3. SlabsAreSorted'
    <2>1. \A side \in Side : Ordered(slab'[side], side)
        BY EmptySides
    <2>. QED BY <2>1 DEF SlabsAreSorted, Ordered, Precedes
<1>4. LevelsOf(slab)' = LevelsOf(NoRest)
    OBVIOUS
<1>5. BatchInv'
    BY <1>4 DEF BatchInv, EmptyBook
<1>. QED BY <1>2, <1>3, <1>5

LEMMA NextSlab == SlabInv /\ [Next]_vars => SlabInv'
<1> SUFFICES ASSUME SlabInv, [Next]_vars PROVE SlabInv'
    OBVIOUS
<1>1. CASE UNCHANGED vars
    BY <1>1 DEF SlabInv, TypeOK, SlabsAreSorted, BatchInv, vars, Outcome
<1>2. ASSUME NEW u \in Inputs, StartApply(u) PROVE SlabInv'
    BY <1>2, StartApplySlab
<1>3. ASSUME NEW u \in Inputs, DiscardStale(u) PROVE SlabInv'
    BY <1>1, <1>3 DEF DiscardStale
<1>4. ASSUME NEW side \in Side, ApplyLevel(side) PROVE SlabInv'
    BY <1>4, ApplyLevelSlab
<1>5. CASE FinishApply
    BY <1>5, FinishApplySlab
<1>6. CASE Renew
    BY <1>6, RenewSlab
<1>. QED BY <1>1, <1>2, <1>3, <1>4, <1>5, <1>6 DEF Next

LEMMA SlabInvariant == Spec => []SlabInv
    BY InitSlab, NextSlab, PTL DEF Spec

-------------------------------------------------------------------------------
(* The theorems.                                                           *)

\* Type correctness; no level without a quantity is ever stored (apply_batch).
THEOREM SlabTypeCorrect == Spec => []TypeOK
<1>. QED BY SlabInvariant, PTL DEF SlabInv

\* Whatever the updates list, both vectors stay sorted and free of duplicates,
\* between any two levels of a batch (apply_batch).
THEOREM SlabsAlwaysSorted == Spec => []SlabsAreSorted
<1>. QED BY SlabInvariant, PTL DEF SlabInv

LEMMA RefinementInit == Init => AsLevelBook!Init
    BY EmptySides DEF Init, EmptyBook, AsLevelBook!Init, AsLevelBook!NewBook,
                      AsLevelBook!NoLevels

LEMMA RefinementNext == SlabInv /\ [Next]_vars => [AsLevelBook!Next]_(AsLevelBook!vars)
<1> SUFFICES ASSUME SlabInv, [Next]_vars
             PROVE  [AsLevelBook!Next]_(AsLevelBook!vars)
    OBVIOUS
<1>1. CASE UNCHANGED <<update, before>>
    BY <1>1 DEF AsLevelBook!vars
<1>2. ASSUME NEW u \in Inputs, StartApply(u) PROVE AsLevelBook!Begin
    BY <1>2 DEF StartApply, AsLevelBook!Begin
<1>3. CASE FinishApply
    <2>1. /\ update # <<>> /\ update' = <<>> /\ rest = NoRest
          /\ before' = [sequence |-> sequence, levels |-> LevelsOf(slab)]
        BY <1>3 DEF FinishApply
    <2>2. /\ sequence = update[1].sequence /\ before.sequence < sequence
          /\ before.sequence \in Nat /\ sequence \in Nat
          /\ \A l \in Levels :
                LevelsOf(slab)[l] = Outcome(l, before.levels, update[1].levels)
        BY <2>1, EmptySides DEF SlabInv, BatchInv, TypeOK, Outcome
    <2> DEFINE changes == ChangesOf(update[1])
    <2>3. /\ DOMAIN changes = Listed(update[1].levels)
          /\ \A l \in Listed(update[1].levels) :
                changes[l] = LastQuantity(update[1].levels[l[1]], l[2])
        BY DEF ChangesOf
    <2>4. LevelsOf(slab) = [l \in Levels |-> LevelsOf(slab)[l]]
        BY DEF LevelsOf, Levels
    <2> HIDE DEF changes
    <2>5. LevelsOf(slab) = AsLevelBook!ApplyBatch(before.levels, changes)
        BY <2>2, <2>3, <2>4 DEF AsLevelBook!ApplyBatch, Outcome
    <2>6. ~(update[1].sequence <= before.sequence)
        BY <2>2
    <2>7. before' = AsLevelBook!Apply(before, [sequence |-> update[1].sequence,
                                              levels |-> changes])
        BY <2>1, <2>2, <2>5, <2>6 DEF AsLevelBook!Apply
    <2>8. AsLevelBook!End
        BY <2>1, <2>7 DEF AsLevelBook!End, changes
    <2>. QED BY <2>8 DEF AsLevelBook!Next
<1>4. CASE Renew
    <2>1. AsLevelBook!Renew
        BY <1>4, EmptySides DEF Renew, EmptyBook, AsLevelBook!Renew, AsLevelBook!NewBook,
                                AsLevelBook!NoLevels
    <2>. QED BY <2>1 DEF AsLevelBook!Next
<1>5. CASE UNCHANGED vars
    BY <1>1, <1>5 DEF vars
<1>6. ASSUME NEW u \in Inputs, DiscardStale(u) PROVE UNCHANGED <<update, before>>
    BY <1>6 DEF DiscardStale, vars
<1>7. ASSUME NEW side \in Side, ApplyLevel(side) PROVE UNCHANGED <<update, before>>
    BY <1>7 DEF ApplyLevel
<1>. QED BY <1>1, <1>2, <1>3, <1>4, <1>5, <1>6, <1>7 DEF Next, AsLevelBook!Next

\* For any prices and quantities, and whatever an update lists, in whatever order
\* and however often, a call of apply takes the book to the value Apply gives
\* (apply, apply_batch).
THEOREM SlabImplementsLevelBook == Spec => ImplementsLevelBook
<1>. QED BY SlabInvariant, RefinementInit, RefinementNext, PTL
         DEF Spec, ImplementsLevelBook, AsLevelBook!Spec

-------------------------------------------------------------------------------
(* The queries.                                                            *)

\* Between calls the entries of a side are the prices with a quantity.
LEMMA EntriesAreResting ==
    ASSUME SlabInv, update = <<>>, NEW side \in Side
    PROVE  /\ slab[side] \in Seq(Stored) /\ Ordered(slab[side], side)
           /\ \A i \in 1 .. Len(slab[side]) :
                 /\ slab[side][i].price \in Resting(side)
                 /\ before.levels[<<side, slab[side][i].price>>] = slab[side][i].quantity
           /\ \A p \in Resting(side) : \E i \in 1 .. Len(slab[side]) : slab[side][i].price = p
<1>1. slab \in [Side -> Seq(Stored)] /\ slab[side] \in Seq(Stored)
    BY DEF SlabInv, TypeOK, Stored
<1>2. Ordered(slab[side], side)
    BY SidesAreOrdered DEF SlabInv
<1>3. \A p \in Prices : before.levels[<<side, p>>] = QuantityAt(slab[side], p)
    BY <1>1, LevelsType DEF SlabInv, BatchInv
<1>4. ASSUME NEW i \in 1 .. Len(slab[side])
      PROVE  /\ slab[side][i].price \in Resting(side)
             /\ before.levels[<<side, slab[side][i].price>>] = slab[side][i].quantity
    <2>1. slab[side][i].price \in Prices /\ slab[side][i].quantity # 0
        BY <1>1, Entries
    <2>2. QuantityAt(slab[side], slab[side][i].price) = slab[side][i].quantity
        BY <1>1, <1>2, QuantityOfEntry
    <2>. QED BY <1>3, <2>1, <2>2 DEF Resting
<1>5. ASSUME NEW p \in Resting(side)
      PROVE  \E i \in 1 .. Len(slab[side]) : slab[side][i].price = p
    <2>1. QuantityAt(slab[side], p) # 0
        BY <1>3 DEF Resting
    <2>. QED BY <1>1, <2>1, Entries, QuantityOfNone
<1>. QED BY <1>1, <1>2, <1>4, <1>5

LEMMA BestIsBest ==
    ASSUME SlabInv, update = <<>>, NEW side \in Side
    PROVE  /\ Best(side) = None <=> Resting(side) = {}
           /\ Best(side) # None =>
                 LET best == Best(side)[1]
                 IN  /\ best.price \in Resting(side)
                     /\ best.quantity = before.levels[<<side, best.price>>]
                     /\ \A p \in Resting(side) :
                           IF side = "Buy" THEN p <= best.price ELSE best.price <= p
<1>1. /\ Len(slab[side]) \in Nat
      /\ \A i \in 1 .. Len(slab[side]) : slab[side][i].price \in Nat
      /\ slab[side] = <<>> <=> Len(slab[side]) = 0
    BY EntriesAreResting, Entries
<1>2. Best(side) = None <=> slab[side] = <<>>
    BY DEF Best, None
<1>3. slab[side] = <<>> <=> Resting(side) = {}
    <2>1. ASSUME slab[side] = <<>> PROVE Resting(side) = {}
        <3>1. 1 .. Len(slab[side]) = {}
            BY <1>1, <2>1
        <3>. QED BY <3>1, EntriesAreResting
    <2>2. ASSUME slab[side] # <<>> PROVE Resting(side) # {}
        <3>1. 1 \in 1 .. Len(slab[side])
            BY <1>1, <2>2
        <3>. QED BY <3>1, EntriesAreResting
    <2>. QED BY <2>1, <2>2
<1>4. ASSUME slab[side] # <<>>
      PROVE  /\ Best(side)[1] = slab[side][1] /\ 1 \in 1 .. Len(slab[side])
             /\ \A p \in Resting(side) :
                   IF side = "Buy" THEN p <= slab[side][1].price
                                   ELSE slab[side][1].price <= p
    <2>1. 1 \in 1 .. Len(slab[side])
        BY <1>1, <1>4
    <2>2. Best(side)[1] = slab[side][1]
        BY <1>4, EntriesAreResting DEF Best
    <2>3. ASSUME NEW p \in Resting(side)
          PROVE  IF side = "Buy" THEN p <= slab[side][1].price
                                 ELSE slab[side][1].price <= p
        <3>1. PICK i \in 1 .. Len(slab[side]) : slab[side][i].price = p
            BY EntriesAreResting
        <3>2. i = 1 \/ 1 < i
            BY <1>1
        <3>3. 1 < i => Precedes(side, slab[side][1].price, slab[side][i].price)
            BY <2>1, EntriesAreResting, Entries DEF Ordered
        <3>. QED BY <1>1, <2>1, <3>1, <3>2, <3>3 DEF Precedes
    <2>. QED BY <2>1, <2>2, <2>3
<1>. QED BY <1>2, <1>3, <1>4, EntriesAreResting

LEMMA SpreadIsLeast ==
    ASSUME SlabInv, update = <<>>, BothSides
    PROVE  LET pairs == Resting("Buy") \X Resting("Sell")
           IN  /\ \A q \in pairs : Spread <= q[2] - q[1]
               /\ \E q \in pairs : Spread = q[2] - q[1] /\ 2 * MidPrice = q[1] + q[2]
<1> DEFINE bid == Best("Buy")[1].price
           ask == Best("Sell")[1].price
<1>1. /\ bid \in Resting("Buy") /\ ask \in Resting("Sell")
      /\ \A p \in Resting("Buy") : p <= bid
      /\ \A p \in Resting("Sell") : ask <= p
    BY BestIsBest DEF BothSides, Side
<1>2. Spread = ask - bid /\ MidPrice = (bid + ask) \div 2
    BY DEF Spread, MidPrice
<1> HIDE DEF bid, ask
<1>3. \A side \in Side : \A p \in Resting(side) : p \in Nat /\ p % 2 = 0
    BY SlabAssumption DEF Resting
<1>4. /\ bid \in Nat /\ ask \in Nat
      /\ \A p \in Resting("Buy") : p \in Nat
      /\ \A p \in Resting("Sell") : p \in Nat
      /\ 2 * ((bid + ask) \div 2) = bid + ask
    <2>1. bid \in Nat /\ ask \in Nat /\ bid % 2 = 0 /\ ask % 2 = 0
        BY <1>1, <1>3 DEF Side
    <2>2. 2 * ((bid + ask) \div 2) = bid + ask
        BY <2>1
    <2>. QED BY <1>3, <2>1, <2>2 DEF Side
<1>5. ASSUME NEW b \in Resting("Buy"), NEW a \in Resting("Sell")
      PROVE  Spread <= a - b
    BY <1>1, <1>2, <1>4
<1>6. <<bid, ask>> \in Resting("Buy") \X Resting("Sell")
    BY <1>1
<1>7. Spread = <<bid, ask>>[2] - <<bid, ask>>[1] /\ 2 * MidPrice = <<bid, ask>>[1] + <<bid, ask>>[2]
    BY <1>2, <1>4
<1>. QED BY <1>5, <1>6, <1>7

\* Between any two calls, and for any prices, best_bid and best_ask, the depths,
\* mid_price and spread answer for the value the book stands for.
THEOREM QueriesAlwaysExact == Spec => []QueriesAreExact
<1>1. SlabInv => QueriesAreExact
    <2> SUFFICES ASSUME SlabInv, update = <<>> PROVE QueriesAreExact
        BY DEF QueriesAreExact
    <2>1. \A side \in Side :
             /\ \A p \in Resting(side) :
                   \E i \in 1 .. Depth(side) : slab[side][i].price = p
             /\ \A i \in 1 .. Depth(side) : slab[side][i].price \in Resting(side)
        BY EntriesAreResting DEF Depth
    <2>. QED BY <2>1, BestIsBest, SpreadIsLeast DEF QueriesAreExact
<1>. QED BY <1>1, SlabInvariant, PTL
==============================================================================
