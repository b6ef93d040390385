----------------------------- MODULE FeedProofs -----------------------------
(***************************************************************************)
(* What a UI server shows, for any number of symbols, clients and orders.  *)
(*                                                                         *)
(* The packets on their way make the view of the server later: applied in  *)
(* order, they lead from the view it has (History) to the one it will have *)
(* when nothing is under way.  Every one of these views is consistent in   *)
(* itself: its levels are the sums of its orders (SumsOK).  The last one   *)
(* follows the books, callback by callback (Synced).                       *)
(***************************************************************************)
EXTENDS Feed, GatewayProofs

---------------------------------------------------------------------------
(* Orders and levels                                                       *)

\* What the server keeps of an order.
Entry == [price : Prices, qty : Nat \ {0}, symbol : Symbols, side : Sides]

Shown(os) == IsFiniteSet(DOMAIN os) /\ os \in [DOMAIN os -> Entry]

Total(os, ids) == MapThenSumSet(LAMBDA id : os[id].qty, ids)

IdsOf(os, s, side, p) ==
    {id \in DOMAIN os : LET v == os[id] IN v.symbol = s /\ v.side = side /\ v.price = p}

LevelSums(os, s, side) ==
    [p \in {q \in Prices : IdsOf(os, s, side, q) # {}} |-> Total(os, IdsOf(os, s, side, p))]

SumsOK(v) ==
    /\ v = [order_state |-> v.order_state, order_book |-> v.order_book]
    /\ Shown(v.order_state)
    /\ v.order_book = [s \in DOMAIN v.order_book |->
                          [side \in Sides |-> LevelSums(v.order_state, s, side)]]
    /\ \A id \in DOMAIN v.order_state : v.order_state[id].symbol \in DOMAIN v.order_book

---------------------------------------------------------------------------
(* Sums                                                                    *)

\* Books whose orders have the quantities of the server's orders, or of a snapshot's entries.
BookOf(os) == [order_index_ |-> [id \in DOMAIN os |-> [leaves_qty |-> os[id].qty]]]
EntryBook(R) == [order_index_ |-> [o \in R |-> [leaves_qty |-> o.leaves_qty]]]

Leaved(R) == MapThenSumSet(LAMBDA o : o.leaves_qty, R)

\* The facts about SumLeaves hold of these sums.
LEMMA TotalIsSum ==
    ASSUME NEW os, NEW S, S \subseteq DOMAIN os
    PROVE  Total(os, S) = SumLeaves(BookOf(os), S)
<1>1. ASSUME NEW f
      PROVE  f = [s \in SUBSET S |->
                     IF s = {} THEN 0
                     ELSE os[CHOOSE x \in s : TRUE].qty + f[s \ {CHOOSE x \in s : TRUE}]]
             <=> IsSum(f, BookOf(os), S)
  <2>1. \A s \in SUBSET S : s # {} => (CHOOSE x \in s : TRUE) \in DOMAIN os
    OBVIOUS
  <2>2. \A x \in DOMAIN os : BookOf(os).order_index_[x].leaves_qty = os[x].qty
    BY DEF BookOf
  <2> QED BY <2>1, <2>2 DEF IsSum
<1>2. Total(os, S) = (CHOOSE f : f = [s \in SUBSET S |->
                     IF s = {} THEN 0
                     ELSE os[CHOOSE x \in s : TRUE].qty + f[s \ {CHOOSE x \in s : TRUE}]])[S]
  BY DEF Total, MapThenSumSet, MapThenFoldSet
<1>3. Total(os, S) = (CHOOSE f : IsSum(f, BookOf(os), S))[S]
  BY <1>1, <1>2
<1> QED BY <1>3, SumIsFold

LEMMA LeavedIsSum ==
    ASSUME NEW R
    PROVE  Leaved(R) = SumLeaves(EntryBook(R), R)
<1>1. ASSUME NEW f
      PROVE  f = [s \in SUBSET R |->
                     IF s = {} THEN 0
                     ELSE (CHOOSE x \in s : TRUE).leaves_qty + f[s \ {CHOOSE x \in s : TRUE}]]
             <=> IsSum(f, EntryBook(R), R)
  <2>1. \A s \in SUBSET R : s # {} => (CHOOSE x \in s : TRUE) \in R
    OBVIOUS
  <2>2. \A x \in R : EntryBook(R).order_index_[x].leaves_qty = x.leaves_qty
    BY DEF EntryBook
  <2> QED BY <2>1, <2>2 DEF IsSum
<1>2. Leaved(R) = (CHOOSE f : f = [s \in SUBSET R |->
                     IF s = {} THEN 0
                     ELSE (CHOOSE x \in s : TRUE).leaves_qty + f[s \ {CHOOSE x \in s : TRUE}]])[R]
  BY DEF Leaved, MapThenSumSet, MapThenFoldSet
<1>3. Leaved(R) = (CHOOSE f : IsSum(f, EntryBook(R), R))[R]
  BY <1>1, <1>2
<1> QED BY <1>3, SumIsFold

\* A set of orders that are shown.
LEMMA QuantitiesShown ==
    ASSUME NEW os, Shown(os), NEW S \in SUBSET DOMAIN os
    PROVE  /\ IsFiniteSet(S)
           /\ \A id \in S : /\ os[id].qty \in Nat \ {0}
                            /\ Leaves(BookOf(os), id) = os[id].qty
<1>1. IsFiniteSet(S)
  BY FS_Subset DEF Shown
<1>2. \A id \in S : os[id] \in Entry
  BY DEF Shown
<1> QED BY <1>1, <1>2 DEF Entry, Leaves, BookOf

\* Nothing adds up to nothing, something to more.
LEMMA TotalSign ==
    ASSUME NEW os, Shown(os), NEW S \in SUBSET DOMAIN os
    PROVE  Total(os, S) \in Nat /\ (Total(os, S) = 0 <=> S = {})
<1>1. /\ IsFiniteSet(S) /\ Total(os, S) = SumLeaves(BookOf(os), S)
      /\ \A id \in S : os[id].qty \in Nat \ {0} /\ Leaves(BookOf(os), id) = os[id].qty
  BY QuantitiesShown, TotalIsSum
<1>2. Total(os, S) \in Nat
  BY <1>1, SumRange
<1>3. CASE S = {}
  BY <1>1, <1>3, SumOfNone
<1>4. CASE S # {}
  <2>1. PICK id \in S : TRUE
    BY <1>4
  <2>2. /\ IsFiniteSet(S \ {id})
        /\ \A x \in S \ {id} : Leaves(BookOf(os), x) \in Int /\ Leaves(BookOf(os), x) >= 0
    BY <1>1, FS_Subset
  <2>3. SumLeaves(BookOf(os), S \ {id}) \in Nat
    BY <2>2, SumRange
  <2>4. Total(os, S) = os[id].qty + SumLeaves(BookOf(os), S \ {id})
    BY <1>1, <2>1, SumWithout
  <2> QED BY <1>1, <1>2, <1>4, <2>1, <2>3, <2>4
<1> QED BY <1>2, <1>3, <1>4

\* Any one quantity can be taken out of a sum.
LEMMA TotalWithout ==
    ASSUME NEW os, Shown(os), NEW S \in SUBSET DOMAIN os, NEW id \in S
    PROVE  Total(os, S) = os[id].qty + Total(os, S \ {id})
<1>1. /\ IsFiniteSet(S) /\ Total(os, S) = SumLeaves(BookOf(os), S)
      /\ \A x \in S : Leaves(BookOf(os), x) \in Int
      /\ Leaves(BookOf(os), id) = os[id].qty
  BY QuantitiesShown, TotalIsSum
<1>2. Total(os, S \ {id}) = SumLeaves(BookOf(os), S \ {id})
  BY TotalIsSum
<1> QED BY <1>1, <1>2, SumWithout

\* A sum depends on the quantities of its orders only.
LEMMA TotalDepends ==
    ASSUME NEW os, Shown(os), NEW ns, Shown(ns), NEW S \in SUBSET DOMAIN os, S \subseteq DOMAIN ns,
           \A id \in S : os[id].qty = ns[id].qty
    PROVE  Total(os, S) = Total(ns, S)
<1>1. /\ IsFiniteSet(S) /\ Total(os, S) = SumLeaves(BookOf(os), S)
      /\ Total(ns, S) = SumLeaves(BookOf(ns), S)
      /\ \A x \in S : Leaves(BookOf(os), x) = Leaves(BookOf(ns), x)
  BY QuantitiesShown, TotalIsSum
<1> QED BY <1>1, SumDepends

---------------------------------------------------------------------------
(* One packet                                                              *)

\* The orders are the same, but for this one.
Except(os, ns, id) ==
    \A x : x # id => /\ x \in DOMAIN os <=> x \in DOMAIN ns
                     /\ x \in DOMAIN os => os[x] = ns[x]

QtyAt(os, id) == IF id \in DOMAIN os THEN os[id].qty ELSE 0

\* The orders of another level.
LEMMA OtherLevel ==
    ASSUME NEW os, Shown(os), NEW ns, Shown(ns), NEW s, NEW side, NEW p,
           \A id : /\ id \in IdsOf(os, s, side, p) <=> id \in IdsOf(ns, s, side, p)
                   /\ id \in IdsOf(os, s, side, p) => os[id] = ns[id]
    PROVE  /\ IdsOf(os, s, side, p) = IdsOf(ns, s, side, p)
           /\ Total(os, IdsOf(os, s, side, p)) = Total(ns, IdsOf(ns, s, side, p))
<1>1. PICK S : S = IdsOf(os, s, side, p)
  OBVIOUS
<1>2. IdsOf(ns, s, side, p) = S
  BY <1>1
<1>3. S \in SUBSET DOMAIN os /\ S \subseteq DOMAIN ns
  BY <1>1, <1>2 DEF IdsOf
<1>4. Total(os, S) = Total(ns, S)
  BY <1>1, <1>2, <1>3, TotalDepends
<1> QED BY <1>1, <1>2, <1>4

\* The level the order is in.
LEMMA OwnLevel ==
    ASSUME NEW os, Shown(os), NEW ns, Shown(ns), NEW id, Except(os, ns, id),
           NEW s, NEW side, NEW p,
           id \in DOMAIN os => id \in IdsOf(os, s, side, p),
           id \in DOMAIN ns => id \in IdsOf(ns, s, side, p)
    PROVE  Total(ns, IdsOf(ns, s, side, p)) =
               Total(os, IdsOf(os, s, side, p)) + (QtyAt(ns, id) - QtyAt(os, id))
<1>1. PICK S, R, B : S = IdsOf(os, s, side, p) /\ R = IdsOf(ns, s, side, p) /\ B = S \ {id}
  OBVIOUS
<1>2. S \in SUBSET DOMAIN os /\ R \in SUBSET DOMAIN ns
  BY <1>1 DEF IdsOf
<1>3. B = R \ {id}
  BY <1>1 DEF IdsOf, Except
<1>4. B \in SUBSET DOMAIN os /\ B \in SUBSET DOMAIN ns /\ \A x \in B : os[x].qty = ns[x].qty
  BY <1>1, <1>2, <1>3 DEF Except
<1>5. Total(os, B) = Total(ns, B) /\ Total(os, B) \in Nat
  BY <1>4, TotalDepends, TotalSign
<1>6. Total(os, S) = QtyAt(os, id) + Total(os, B) /\ QtyAt(os, id) \in Nat
  <2>1. CASE id \in DOMAIN os
    <3>1. id \in S
      BY <1>1, <2>1
    <3>2. os[id].qty \in Nat
      BY <1>2, <3>1, QuantitiesShown
    <3>3. Total(os, S) = os[id].qty + Total(os, S \ {id})
      BY <1>2, <3>1, TotalWithout
    <3> QED BY <1>1, <2>1, <3>2, <3>3 DEF QtyAt
  <2>2. CASE id \notin DOMAIN os
    <3>1. S = B
      BY <1>1, <1>2, <2>2
    <3> QED BY <1>5, <2>2, <3>1 DEF QtyAt
  <2> QED BY <2>1, <2>2
<1>7. Total(ns, R) = QtyAt(ns, id) + Total(ns, B) /\ QtyAt(ns, id) \in Nat
  <2>1. CASE id \in DOMAIN ns
    <3>1. id \in R
      BY <1>1, <2>1
    <3>2. ns[id].qty \in Nat
      BY <1>2, <3>1, QuantitiesShown
    <3>3. Total(ns, R) = ns[id].qty + Total(ns, R \ {id})
      BY <1>2, <3>1, TotalWithout
    <3> QED BY <1>3, <2>1, <3>2, <3>3 DEF QtyAt
  <2>2. CASE id \notin DOMAIN ns
    <3>1. R = B
      BY <1>2, <1>3, <2>2
    <3> QED BY <1>5, <2>2, <3>1 DEF QtyAt
  <2> QED BY <2>1, <2>2
<1> QED BY <1>1, <1>5, <1>6, <1>7

\* The level changes by what the order's quantity changes.
LEMMA LevelChanged ==
    ASSUME NEW os, Shown(os), NEW ns, Shown(ns), NEW id, Except(os, ns, id),
           NEW s, NEW side, NEW p \in Prices,
           id \in DOMAIN os => id \in IdsOf(os, s, side, p),
           id \in DOMAIN ns => id \in IdsOf(ns, s, side, p)
    PROVE  SetLevel(LevelSums(os, s, side), p, QtyAt(ns, id) - QtyAt(os, id))
               = LevelSums(ns, s, side)
<1>1. PICK a, b, d : /\ a = Total(os, IdsOf(os, s, side, p)) /\ b = Total(ns, IdsOf(ns, s, side, p))
                     /\ d = QtyAt(ns, id) - QtyAt(os, id)
  OBVIOUS
<1>2. a \in Nat /\ (a = 0 <=> IdsOf(os, s, side, p) = {})
      /\ b \in Nat /\ (b = 0 <=> IdsOf(ns, s, side, p) = {})
  <2>1. IdsOf(os, s, side, p) \in SUBSET DOMAIN os /\ IdsOf(ns, s, side, p) \in SUBSET DOMAIN ns
    BY DEF IdsOf
  <2> QED BY <1>1, <2>1, TotalSign
<1>3. b = a + d
  BY <1>1, OwnLevel
<1>4. ASSUME NEW q \in Prices, q # p
      PROVE  /\ IdsOf(os, s, side, q) = IdsOf(ns, s, side, q)
             /\ Total(os, IdsOf(os, s, side, q)) = Total(ns, IdsOf(ns, s, side, q))
  <2>1. ASSUME NEW x
        PROVE  /\ x \in IdsOf(os, s, side, q) <=> x \in IdsOf(ns, s, side, q)
               /\ x \in IdsOf(os, s, side, q) => os[x] = ns[x]
    BY <1>4 DEF IdsOf, Except
  <2> QED BY <2>1, OtherLevel
<1>5. PICK L, M : L = LevelSums(os, s, side) /\ M = LevelSums(ns, s, side)
  OBVIOUS
<1>6. /\ L = [q \in DOMAIN L |-> L[q]]
      /\ \A q : q \in DOMAIN L <=> q \in Prices /\ IdsOf(os, s, side, q) # {}
      /\ \A q \in DOMAIN L : L[q] = Total(os, IdsOf(os, s, side, q))
  BY <1>5 DEF LevelSums
<1>7. /\ M = [q \in DOMAIN M |-> M[q]]
      /\ \A q : q \in DOMAIN M <=> q \in Prices /\ IdsOf(ns, s, side, q) # {}
      /\ \A q \in DOMAIN M : M[q] = Total(ns, IdsOf(ns, s, side, q))
  BY <1>5 DEF LevelSums
<1>8. /\ p \in DOMAIN L <=> a # 0
      /\ p \in DOMAIN L => L[p] = a
      /\ p \in DOMAIN M <=> b # 0
      /\ p \in DOMAIN M => M[p] = b
  BY <1>1, <1>2, <1>6, <1>7
<1>9. \A q : q # p => /\ q \in DOMAIN L <=> q \in DOMAIN M
                      /\ q \in DOMAIN L => L[q] = M[q]
  BY <1>4, <1>6, <1>7
<1>10. (IF p \in DOMAIN L THEN L[p] ELSE 0) + d = b
  BY <1>2, <1>3, <1>8
<1>11. SetLevel(L, p, d) = IF b <= 0 THEN Drop(L, p) ELSE Put(L, p, b)
  BY <1>10 DEF SetLevel
<1>12. CASE b = 0
  <2>1. M = Drop(L, p)
    <3>1. DOMAIN M = DOMAIN L \ {p}
      BY <1>8, <1>9, <1>12
    <3> QED BY <1>7, <1>9, <3>1 DEF Drop
  <2> QED BY <1>1, <1>5, <1>11, <1>12, <2>1
<1>13. CASE b # 0
  <2>1. M = Put(L, p, b)
    <3>1. DOMAIN M = DOMAIN L \cup {p}
      BY <1>8, <1>9, <1>13
    <3> QED BY <1>7, <1>8, <1>9, <1>13, <3>1 DEF Put
  <2>2. ~(b <= 0)
    BY <1>2, <1>13
  <2> QED BY <1>1, <1>5, <1>11, <2>1, <2>2
<1> QED BY <1>12, <1>13

\* What _set_level and the order's entry do together keeps the sums.
LEMMA ChangedOK ==
    ASSUME NEW v, SumsOK(v), NEW ns, Shown(ns), NEW pkt, pkt.side \in Sides,
           NEW p \in Prices, NEW id, Except(v.order_state, ns, id),
           id \in DOMAIN v.order_state => id \in IdsOf(v.order_state, pkt.symbol, pkt.side, p),
           id \in DOMAIN ns => id \in IdsOf(ns, pkt.symbol, pkt.side, p),
           NEW d, d = QtyAt(ns, id) - QtyAt(v.order_state, id)
    PROVE  SumsOK(Changed(v, pkt, p, d, ns))
<1>1. PICK os, B, s, side, w :
          /\ os = v.order_state /\ B = v.order_book /\ s = pkt.symbol /\ side = pkt.side
          /\ w = Changed(v, pkt, p, d, ns)
  OBVIOUS
<1>2. /\ Shown(os)
      /\ B = [t \in DOMAIN B |-> [sd \in Sides |-> LevelSums(os, t, sd)]]
      /\ \A x \in DOMAIN os : os[x].symbol \in DOMAIN B
  BY <1>1 DEF SumsOK
<1>3. Levels(v, s) = [sd \in Sides |-> LevelSums(os, s, sd)]
  <2>1. CASE s \in DOMAIN B
    BY <1>1, <1>2, <2>1 DEF Levels
  <2>2. CASE s \notin DOMAIN B
    <3>1. ASSUME NEW sd \in Sides
          PROVE  LevelSums(os, s, sd) = NoEntry
      <4>1. \A q : IdsOf(os, s, sd, q) = {}
        BY <1>2, <2>2 DEF IdsOf
      <4> QED BY <4>1 DEF LevelSums, NoEntry
    <3> QED BY <1>1, <2>2, <3>1 DEF Levels, NoLevels
  <2> QED BY <2>1, <2>2
<1>4. SetLevel(LevelSums(os, s, side), p, d) = LevelSums(ns, s, side)
  BY <1>1, <1>2, LevelChanged
<1>5. ASSUME NEW t, NEW sd \in Sides, t # s \/ sd # side
      PROVE  LevelSums(os, t, sd) = LevelSums(ns, t, sd)
  <2>1. ASSUME NEW q
        PROVE  /\ IdsOf(os, t, sd, q) = IdsOf(ns, t, sd, q)
               /\ Total(os, IdsOf(os, t, sd, q)) = Total(ns, IdsOf(ns, t, sd, q))
    <3>1. ASSUME NEW x
          PROVE  /\ x \in IdsOf(os, t, sd, q) <=> x \in IdsOf(ns, t, sd, q)
                 /\ x \in IdsOf(os, t, sd, q) => os[x] = ns[x]
      BY <1>1, <1>5 DEF IdsOf, Except
    <3> QED BY <1>2, <3>1, OtherLevel
  <2>2. {q \in Prices : IdsOf(os, t, sd, q) # {}} = {q \in Prices : IdsOf(ns, t, sd, q) # {}}
    BY <2>1
  <2> QED BY <2>1, <2>2 DEF LevelSums
<1>6. [Levels(v, s) EXCEPT ![side] = SetLevel(@, p, d)] = [sd \in Sides |-> LevelSums(ns, s, sd)]
  BY <1>1, <1>3, <1>4, <1>5
<1>7. w = [order_state |-> ns, order_book |-> Put(B, s, [sd \in Sides |-> LevelSums(ns, s, sd)])]
  BY <1>1, <1>6 DEF Changed
<1>8. w.order_book = [t \in DOMAIN w.order_book |-> [sd \in Sides |-> LevelSums(ns, t, sd)]]
  <2>1. ASSUME NEW t \in DOMAIN B, t # s
        PROVE  [sd \in Sides |-> LevelSums(os, t, sd)] = [sd \in Sides |-> LevelSums(ns, t, sd)]
    BY <1>5, <2>1
  <2>2. \A t \in DOMAIN B : t # s => B[t] = [sd \in Sides |-> LevelSums(ns, t, sd)]
    BY <1>2, <2>1
  <2> QED BY <1>7, <2>2 DEF Put
<1>9. \A x \in DOMAIN ns : ns[x].symbol \in DOMAIN w.order_book
  <2>1. DOMAIN w.order_book = DOMAIN B \cup {s}
    BY <1>7 DEF Put
  <2>2. ASSUME NEW x \in DOMAIN ns
        PROVE  ns[x].symbol \in DOMAIN B \cup {s}
    BY <1>1, <1>2 DEF IdsOf, Except
  <2> QED BY <2>1, <2>2
<1> QED BY <1>1, <1>7, <1>8, <1>9 DEF SumsOK

\* The orders a packet leaves.
OrdersAfter(os, pkt) ==
    IF pkt.side # "trade" /\ pkt.evt \in {"NewOrder", "ReplaceNew"}
    THEN Put(os, pkt.exchange_id,
             [price |-> pkt.price, qty |-> pkt.qty, symbol |-> pkt.symbol, side |-> pkt.side])
    ELSE IF pkt.side = "trade" \/ pkt.exchange_id \notin DOMAIN os THEN os
    ELSE IF \/ pkt.evt \in {"Cancel", "ReplaceDelete"}
            \/ pkt.evt = "FillResting" /\ pkt.qty = 0
    THEN Drop(os, pkt.exchange_id)
    ELSE Put(os, pkt.exchange_id, [os[pkt.exchange_id] EXCEPT !.qty = pkt.qty])

\* A packet that fits the orders of the server: it adds an order that is not there yet, or
\* names the symbol and the side of the one that is.
PacketOK(os, pkt) ==
    \/ pkt.side = "trade"
    \/ /\ pkt.side \in Sides /\ pkt.evt \in {"NewOrder", "ReplaceNew"}
       /\ pkt.exchange_id \notin DOMAIN os
       /\ pkt.price \in Prices /\ pkt.qty \in Nat \ {0} /\ pkt.symbol \in Symbols
    \/ /\ pkt.side \in Sides
       /\ pkt.evt \in {"Cancel", "ReplaceDelete", "FillResting", "ReplaceInPlace"}
       /\ pkt.qty \in Nat /\ (pkt.evt = "ReplaceInPlace" => pkt.qty > 0)
       /\ pkt.exchange_id \in DOMAIN os =>
              os[pkt.exchange_id].symbol = pkt.symbol /\ os[pkt.exchange_id].side = pkt.side

\* The orders of a server stay typed, and all but the packet's stay as they are.
LEMMA OrdersAfterOK ==
    ASSUME NEW os, Shown(os), NEW pkt, PacketOK(os, pkt)
    PROVE  /\ Shown(OrdersAfter(os, pkt))
           /\ Except(os, OrdersAfter(os, pkt), pkt.exchange_id)
<1>1. PICK id, ns : id = pkt.exchange_id /\ ns = OrdersAfter(os, pkt)
  OBVIOUS
<1>2. IsFiniteSet(DOMAIN os) /\ IsFiniteSet(DOMAIN os \cup {id}) /\ IsFiniteSet(DOMAIN os \ {id})
  BY FS_AddElement, FS_Subset DEF Shown
<1>3. \A x \in DOMAIN os : os[x] \in Entry
  BY DEF Shown
<1>4. CASE ns = os
  BY <1>1, <1>4 DEF Except
<1>5. CASE id \in DOMAIN os /\ ns = Drop(os, id)
  BY <1>1, <1>2, <1>3, <1>5 DEF Except, Shown, Drop
<1>6. ASSUME NEW e \in Entry, ns = Put(os, id, e)
      PROVE  Shown(ns) /\ Except(os, ns, id)
  <2>1. DOMAIN ns = DOMAIN os \cup {id} /\ \A x \in DOMAIN ns : ns[x] \in Entry
    BY <1>3, <1>6 DEF Put
  <2>2. ns = [x \in DOMAIN ns |-> ns[x]]
    BY <1>6 DEF Put
  <2> QED BY <1>2, <1>6, <2>1, <2>2 DEF Except, Shown, Put
<1>7. \/ ns = os
      \/ id \in DOMAIN os /\ ns = Drop(os, id)
      \/ /\ pkt.price \in Prices /\ pkt.qty \in Nat \ {0} /\ pkt.symbol \in Symbols /\ pkt.side \in Sides
         /\ ns = Put(os, id, [price |-> pkt.price, qty |-> pkt.qty, symbol |-> pkt.symbol,
                              side |-> pkt.side])
      \/ /\ id \in DOMAIN os /\ pkt.qty \in Nat \ {0}
         /\ ns = Put(os, id, [os[id] EXCEPT !.qty = pkt.qty])
  BY <1>1 DEF OrdersAfter, PacketOK
<1>8. ASSUME id \in DOMAIN os, pkt.qty \in Nat \ {0}
      PROVE  [os[id] EXCEPT !.qty = pkt.qty] \in Entry
  BY <1>3, <1>8 DEF Entry
<1>9. ASSUME pkt.price \in Prices, pkt.qty \in Nat \ {0}, pkt.symbol \in Symbols, pkt.side \in Sides
      PROVE  [price |-> pkt.price, qty |-> pkt.qty, symbol |-> pkt.symbol, side |-> pkt.side] \in Entry
  BY <1>9 DEF Entry
<1>10. CASE \E e \in Entry : ns = Put(os, id, e)
  BY <1>1, <1>6, <1>10
<1> QED BY <1>4, <1>5, <1>7, <1>8, <1>9, <1>10

\* _apply_md: the view stays consistent.
LEMMA PacketKeeps ==
    ASSUME NEW v, SumsOK(v), NEW pkt, PacketOK(v.order_state, pkt)
    PROVE  SumsOK(ApplyMd(v, pkt)) /\ ApplyMd(v, pkt).order_state = OrdersAfter(v.order_state, pkt)
<1>1. PICK os, id, ns, w : /\ os = v.order_state /\ id = pkt.exchange_id
                           /\ ns = OrdersAfter(os, pkt) /\ w = ApplyMd(v, pkt)
  OBVIOUS
<1>2. Shown(os)
  BY <1>1 DEF SumsOK
<1>3. Shown(ns) /\ Except(os, ns, id)
  BY <1>1, <1>2, OrdersAfterOK
<1>4. ASSUME NEW p \in Prices, NEW d, pkt.side \in Sides,
             id \in DOMAIN os => id \in IdsOf(os, pkt.symbol, pkt.side, p),
             id \in DOMAIN ns => id \in IdsOf(ns, pkt.symbol, pkt.side, p),
             d = QtyAt(ns, id) - QtyAt(os, id), w = Changed(v, pkt, p, d, ns)
      PROVE  SumsOK(w) /\ w.order_state = ns
  <2>1. SumsOK(Changed(v, pkt, p, d, ns))
    BY <1>1, <1>3, <1>4, ChangedOK
  <2> QED BY <1>4, <2>1 DEF Changed
<1>5. CASE pkt.side # "trade" /\ pkt.evt \in {"NewOrder", "ReplaceNew"}
  <2>1. /\ pkt.side \in Sides /\ id \notin DOMAIN os /\ pkt.price \in Prices /\ pkt.qty \in Nat
    BY <1>1, <1>5 DEF PacketOK
  <2>2. ns = Put(os, id, [price |-> pkt.price, qty |-> pkt.qty, symbol |-> pkt.symbol,
                          side |-> pkt.side])
    BY <1>1, <1>5 DEF OrdersAfter
  <2>3. w = Changed(v, pkt, pkt.price, pkt.qty, ns)
    BY <1>1, <1>5, <2>2 DEF ApplyMd, ApplyAdd
  <2>4. id \in IdsOf(ns, pkt.symbol, pkt.side, pkt.price) /\ ns[id].qty = pkt.qty
    BY <2>2 DEF IdsOf, Put
  <2>5. pkt.qty = QtyAt(ns, id) - QtyAt(os, id)
    BY <2>1, <2>4 DEF QtyAt, IdsOf
  <2> QED BY <1>1, <1>4, <2>1, <2>3, <2>4, <2>5
<1>6. CASE /\ ~(pkt.side # "trade" /\ pkt.evt \in {"NewOrder", "ReplaceNew"})
           /\ pkt.side = "trade" \/ id \notin DOMAIN os
  <2>1. ns = os
    BY <1>1, <1>6 DEF OrdersAfter
  <2>2. PICK B, s : B = v.order_book /\ s = pkt.symbol
    OBVIOUS
  <2>3. /\ v = [order_state |-> os, order_book |-> B]
        /\ B = [t \in DOMAIN B |-> [sd \in Sides |-> LevelSums(os, t, sd)]]
        /\ \A x \in DOMAIN os : os[x].symbol \in DOMAIN B
    BY <1>1, <2>2 DEF SumsOK
  <2>4. Levels(v, s) = [sd \in Sides |-> LevelSums(os, s, sd)]
    <3>1. CASE s \in DOMAIN B
      BY <2>2, <2>3, <3>1 DEF Levels
    <3>2. CASE s \notin DOMAIN B
      <4>1. ASSUME NEW sd \in Sides
            PROVE  LevelSums(os, s, sd) = NoEntry
        <5>1. \A q : IdsOf(os, s, sd, q) = {}
          BY <2>3, <3>2 DEF IdsOf
        <5> QED BY <5>1 DEF LevelSums, NoEntry
      <4> QED BY <2>2, <3>2, <4>1 DEF Levels, NoLevels
    <3> QED BY <3>1, <3>2
  <2>5. w = [order_state |-> os, order_book |-> Put(B, s, Levels(v, s))]
    BY <1>1, <1>6, <2>2, <2>3 DEF ApplyMd
  <2>6. /\ w.order_book = [t \in DOMAIN w.order_book |-> [sd \in Sides |-> LevelSums(os, t, sd)]]
        /\ \A x \in DOMAIN os : os[x].symbol \in DOMAIN w.order_book
    BY <2>3, <2>4, <2>5 DEF Put
  <2> QED BY <1>1, <1>2, <2>1, <2>5, <2>6 DEF SumsOK
<1>7. CASE /\ ~(pkt.side # "trade" /\ pkt.evt \in {"NewOrder", "ReplaceNew"})
           /\ ~(pkt.side = "trade" \/ id \notin DOMAIN os)
  <2>1. /\ pkt.side \in Sides /\ id \in DOMAIN os
        /\ pkt.evt \in {"Cancel", "ReplaceDelete", "FillResting", "ReplaceInPlace"} /\ pkt.qty \in Nat
        /\ os[id].symbol = pkt.symbol /\ os[id].side = pkt.side
    BY <1>1, <1>7 DEF PacketOK
  <2>2. os[id] \in Entry
    BY <1>2, <2>1 DEF Shown
  <2>3. os[id].price \in Prices /\ os[id].qty \in Nat
    BY <2>2 DEF Entry
  <2>4. id \in IdsOf(os, pkt.symbol, pkt.side, os[id].price) /\ QtyAt(os, id) = os[id].qty
    BY <2>1 DEF IdsOf, QtyAt
  <2>5. CASE pkt.evt \in {"Cancel", "ReplaceDelete"}
    <3>1. ns = Drop(os, id)
      BY <1>1, <1>7, <2>5 DEF OrdersAfter
    <3>2. w = Changed(v, pkt, os[id].price, -os[id].qty, ns)
      BY <1>1, <1>7, <2>5, <3>1 DEF ApplyMd, ApplyRemove
    <3>3. id \notin DOMAIN ns
      BY <3>1 DEF Drop
    <3>4. -os[id].qty = QtyAt(ns, id) - QtyAt(os, id)
      BY <2>3, <2>4, <3>3 DEF QtyAt
    <3> QED BY <1>1, <1>4, <2>1, <2>3, <2>4, <3>2, <3>3, <3>4
  <2>6. CASE pkt.evt \in {"FillResting", "ReplaceInPlace"}
    <3>1. ns = IF pkt.evt = "FillResting" /\ pkt.qty = 0 THEN Drop(os, id)
               ELSE Put(os, id, [os[id] EXCEPT !.qty = pkt.qty])
      BY <1>1, <1>7, <2>6 DEF OrdersAfter
    <3>2. w = Changed(v, pkt, os[id].price, pkt.qty - os[id].qty, ns)
      BY <1>1, <1>7, <2>6, <3>1 DEF ApplyMd, ApplyQty
    <3>3. \/ id \notin DOMAIN ns /\ pkt.qty = 0
          \/ id \in DOMAIN ns /\ ns[id] = [os[id] EXCEPT !.qty = pkt.qty]
      BY <3>1 DEF Drop, Put
    <3>4. id \in DOMAIN ns => /\ id \in IdsOf(ns, pkt.symbol, pkt.side, os[id].price)
                              /\ ns[id].qty = pkt.qty
      BY <2>1, <2>2, <3>3 DEF IdsOf, Entry
    <3>5. pkt.qty - os[id].qty = QtyAt(ns, id) - QtyAt(os, id)
      BY <2>3, <2>4, <3>3, <3>4 DEF QtyAt
    <3> QED BY <1>1, <1>4, <2>1, <2>3, <2>4, <3>2, <3>4, <3>5
  <2> QED BY <2>1, <2>5, <2>6
<1> QED BY <1>1, <1>5, <1>6, <1>7

---------------------------------------------------------------------------
(* The packets on their way                                                *)

Packets == [evt : {"NewOrder", "Cancel", "FillResting", "Trade", "ReplaceInPlace",
                   "ReplaceDelete", "ReplaceNew"},
            side : Sides \cup {"trade"}, symbol : Symbols, price : Int, qty : Int,
            exchange_id : Nat]

\* The views from v on, one for each packet of w, and each consistent.
History(v, w, h) ==
    /\ w \in Seq(Packets)
    /\ h[0] = v
    /\ \A k \in 1 .. Len(w) : h[k] = ApplyMd(h[k - 1], w[k])
    /\ \A k \in 0 .. Len(w) : SumsOK(h[k])

\* A packet is sent.
LEMMA HistoryGrows ==
    ASSUME NEW v, NEW w, NEW h, History(v, w, h), NEW pkt \in Packets,
           PacketOK(h[Len(w)].order_state, pkt)
    PROVE  \E g : /\ History(v, Append(w, pkt), g)
                  /\ g[Len(Append(w, pkt))].order_state = OrdersAfter(h[Len(w)].order_state, pkt)
<1> DEFINE n == Len(w)
           g == [k \in 0 .. n + 1 |-> IF k = n + 1 THEN ApplyMd(h[n], pkt) ELSE h[k]]
<1>1. w \in Seq(Packets) /\ n \in Nat
  BY DEF History
<1>2. Append(w, pkt) \in Seq(Packets) /\ Len(Append(w, pkt)) = n + 1
      /\ \A k \in 1 .. n : Append(w, pkt)[k] = w[k]
      /\ Append(w, pkt)[n + 1] = pkt
  BY <1>1
<1> HIDE DEF n
<1>3. SumsOK(h[n])
  BY <1>1 DEF History, n
<1>4. SumsOK(ApplyMd(h[n], pkt))
      /\ ApplyMd(h[n], pkt).order_state = OrdersAfter(h[n].order_state, pkt)
  BY <1>3, PacketKeeps DEF n
<1>5. g[n + 1] = ApplyMd(h[n], pkt) /\ \A k \in 0 .. n : g[k] = h[k]
  BY <1>1
<1> HIDE DEF g
<1>6. g[0] = v
  BY <1>1, <1>5 DEF History
<1>7. ASSUME NEW k \in 1 .. n + 1
      PROVE  g[k] = ApplyMd(g[k - 1], Append(w, pkt)[k])
  <2>1. CASE k = n + 1
    BY <1>1, <1>2, <1>5, <2>1
  <2>2. CASE k # n + 1
    <3>1. k \in 1 .. n /\ k \in 0 .. n /\ k - 1 \in 0 .. n
      BY <1>1, <2>2
    <3>2. h[k] = ApplyMd(h[k - 1], w[k])
      BY <3>1 DEF History, n
    <3> QED BY <1>2, <1>5, <3>1, <3>2
  <2> QED BY <2>1, <2>2
<1>8. ASSUME NEW k \in 0 .. n + 1
      PROVE  SumsOK(g[k])
  <2>1. CASE k = n + 1
    BY <1>4, <1>5, <2>1
  <2>2. CASE k # n + 1
    <3>1. k \in 0 .. n
      BY <1>1, <2>2
    <3> QED BY <1>5, <3>1 DEF History, n
  <2> QED BY <2>1, <2>2
<1>9. History(v, Append(w, pkt), g)
  BY <1>2, <1>6, <1>7, <1>8 DEF History
<1> QED BY <1>2, <1>4, <1>5, <1>9 DEF n

\* ... and received.
LEMMA HistoryPasses ==
    ASSUME NEW v, NEW w, NEW h, History(v, w, h), w # << >>
    PROVE  \E g : /\ History(ApplyMd(v, Head(w)), Tail(w), g)
                  /\ g[Len(Tail(w))] = h[Len(w)]
<1> DEFINE n == Len(w)
           g == [k \in 0 .. n - 1 |-> h[k + 1]]
<1>1. w \in Seq(Packets) /\ n \in Nat /\ n > 0
  BY DEF History
<1>2. Tail(w) \in Seq(Packets) /\ Len(Tail(w)) = n - 1 /\ Head(w) = w[1]
      /\ \A k \in 1 .. n - 1 : Tail(w)[k] = w[k + 1]
  BY <1>1
<1> HIDE DEF n
<1>3. \A k \in 0 .. n - 1 : g[k] = h[k + 1]
  OBVIOUS
<1> HIDE DEF g
<1>4. g[0] = ApplyMd(v, Head(w)) /\ g[n - 1] = h[n]
  <2>1. h[1] = ApplyMd(h[1 - 1], w[1]) /\ h[0] = v
    BY <1>1 DEF History, n
  <2> QED BY <1>1, <1>2, <1>3, <2>1
<1>5. ASSUME NEW k \in 1 .. n - 1
      PROVE  g[k] = ApplyMd(g[k - 1], Tail(w)[k])
  <2>1. k + 1 \in 1 .. n /\ k \in 0 .. n - 1 /\ k - 1 \in 0 .. n - 1
    BY <1>1
  <2>2. h[k + 1] = ApplyMd(h[(k + 1) - 1], w[k + 1])
    BY <2>1 DEF History, n
  <2>3. g[k] = h[k + 1] /\ g[k - 1] = h[(k - 1) + 1]
    BY <1>3, <2>1
  <2>4. (k + 1) - 1 = k /\ (k - 1) + 1 = k
    OBVIOUS
  <2> QED BY <1>2, <2>2, <2>3, <2>4
<1>6. ASSUME NEW k \in 0 .. n - 1
      PROVE  SumsOK(g[k])
  <2>1. k + 1 \in 0 .. n
    BY <1>1
  <2> QED BY <1>3, <2>1 DEF History, n
<1>7. History(ApplyMd(v, Head(w)), Tail(w), g)
  BY <1>2, <1>4, <1>5, <1>6 DEF History
<1> QED BY <1>2, <1>4, <1>7 DEF n

\* A server that has read everything.
LEMMA HistoryEnds ==
    ASSUME NEW v, NEW h, History(v, << >>, h)
    PROVE  h[Len(<< >>)] = v
  BY DEF History

---------------------------------------------------------------------------
(* A snapshot                                                              *)

IdsIn(R) == {o.exchange_id : o \in R}

\* Entries, one for each order, add up to what the orders do.
LEMMA LeavedIsTotal ==
    ASSUME NEW os, Shown(os), NEW R,
           \A o \in R : o.exchange_id \in DOMAIN os /\ os[o.exchange_id].qty = o.leaves_qty,
           \A o, x \in R : o.exchange_id = x.exchange_id => o = x
    PROVE  Leaved(R) = Total(os, IdsIn(R))
<1> DEFINE Bad == {n \in Nat : \E S \in SUBSET R : /\ Cardinality(S) = n
                                                 /\ Leaved(S) # Total(os, IdsIn(S))}
<1>1. IsFiniteSet(R)
  <2>1. PICK I : I = IdsIn(R)
    OBVIOUS
  <2>2. PICK f : f = [o \in R |-> o.exchange_id]
    OBVIOUS
  <2>3. f \in [R -> I] /\ \A o \in R : f[o] = o.exchange_id
    BY <2>1, <2>2 DEF IdsIn
  <2>4. f \in Injection(R, I)
    BY <2>3 DEF Injection, IsInjective
  <2>5. IsFiniteSet(I)
    BY <2>1, FS_Subset DEF IdsIn, Shown
  <2> QED BY <2>4, <2>5, FS_Injection
<1>2. SUFFICES ASSUME Bad # {} PROVE FALSE
  <2>1. R \in SUBSET R /\ Cardinality(R) \in Nat
    BY <1>1, FS_CardinalityType
  <2> QED BY <2>1
<1>3. PICK n \in Bad : \A k \in Bad : ~(k < n)
  <2>1. Bad \subseteq Nat
    OBVIOUS
  <2> HIDE DEF Bad
  <2> QED BY <1>2, <2>1, NatMinimum
<1>4. PICK S \in SUBSET R : Cardinality(S) = n /\ Leaved(S) # Total(os, IdsIn(S))
  BY <1>3
<1>5. IsFiniteSet(S) /\ IdsIn(S) \in SUBSET DOMAIN os
  BY <1>1, FS_Subset DEF IdsIn
<1>6. S # {}
  <2> SUFFICES ASSUME S = {} PROVE FALSE
    OBVIOUS
  <2>1. IdsIn({}) = {}
    BY DEF IdsIn
  <2>2. Total(os, {}) = 0
    BY TotalSign
  <2>3. Leaved({}) = 0
    BY LeavedIsSum, SumOfNone
  <2> QED BY <1>4, <2>1, <2>2, <2>3
<1>7. PICK o \in S : TRUE
  BY <1>6
<1>8. PICK B, id : B = S \ {o} /\ id = o.exchange_id
  OBVIOUS
<1>9. IdsIn(B) = IdsIn(S) \ {id} /\ id \in IdsIn(S)
  BY <1>7, <1>8 DEF IdsIn
<1>10. Leaved(B) = Total(os, IdsIn(B))
  <2>1. Cardinality(B) \in Nat /\ Cardinality(B) = Cardinality(S) - 1
    BY <1>5, <1>7, <1>8, FS_RemoveElement, FS_Subset, FS_CardinalityType
  <2>2. n = Cardinality(S) /\ n \in Nat
    BY <1>3, <1>4
  <2>3. Cardinality(B) < n
    BY <2>1, <2>2
  <2>4. Cardinality(B) \notin Bad
    BY <1>3, <2>3
  <2> QED BY <1>8, <2>1, <2>4
<1>11. Total(os, IdsIn(S)) = os[id].qty + Total(os, IdsIn(B))
  BY <1>5, <1>9, TotalWithout
<1>12. Leaved(S) = o.leaves_qty + Leaved(B)
  <2>1. \A x \in S : Leaves(EntryBook(S), x) = x.leaves_qty /\ x.leaves_qty \in Nat \ {0}
    <3>1. \A x \in S : x.exchange_id \in DOMAIN os /\ os[x.exchange_id].qty = x.leaves_qty
      OBVIOUS
    <3>2. \A x \in S : os[x.exchange_id] \in Entry
      BY <3>1 DEF Shown
    <3> QED BY <3>1, <3>2 DEF Entry, Leaves, EntryBook
  <2>2. Leaved(S) = SumLeaves(EntryBook(S), S)
    BY LeavedIsSum
  <2>3. SumLeaves(EntryBook(S), S) = Leaves(EntryBook(S), o) + SumLeaves(EntryBook(S), B)
    BY <1>5, <1>7, <1>8, <2>1, SumWithout
  <2>4. SumLeaves(EntryBook(S), B) = SumLeaves(EntryBook(B), B)
    <3>1. IsFiniteSet(B)
      BY <1>5, <1>8, FS_Subset
    <3>2. \A x \in B : Leaves(EntryBook(S), x) = Leaves(EntryBook(B), x)
      BY <1>8 DEF Leaves, EntryBook
    <3> QED BY <3>1, <3>2, SumDepends
  <2> QED BY <1>7, <2>1, <2>2, <2>3, <2>4, LeavedIsSum
<1> QED BY <1>4, <1>7, <1>8, <1>10, <1>11, <1>12

\* The entries R of a snapshot of s are the orders of E in s.
SnapshotFits(R, E, s) ==
    /\ \A o \in R : /\ o.exchange_id \in DOMAIN E
                    /\ E[o.exchange_id].price = o.price /\ E[o.exchange_id].qty = o.leaves_qty
                    /\ E[o.exchange_id].symbol = s /\ E[o.exchange_id].side = o.side
    /\ \A id \in DOMAIN E : E[id].symbol = s => id \in IdsIn(R)
    /\ \A o, x \in R : o.exchange_id = x.exchange_id => o = x

\* The snapshots were taken of the orders E; those of the symbols of box are not read yet.
HalfRead(v, box, E) ==
    /\ v.order_state = [id \in {x \in DOMAIN E : E[x].symbol \notin DOMAIN box} |-> E[id]]
    /\ \A s \in DOMAIN box : SnapshotFits(SnapshotEntries(box[s]), E, s)

\* The snapshot of one more symbol is read.
LEMMA SnapshotRead ==
    ASSUME NEW v, SumsOK(v), NEW box, NEW E, Shown(E), HalfRead(v, box, E),
           NEW s \in DOMAIN box, s \in DOMAIN v.order_book
    PROVE  LET w == ProcessMdSnapshot(v, s, box[s])
           IN  /\ SumsOK(w) /\ HalfRead(w, Drop(box, s), E)
               /\ DOMAIN w.order_book = DOMAIN v.order_book
<1>1. PICK os, B, R, w, ns :
          /\ os = v.order_state /\ B = v.order_book /\ R = SnapshotEntries(box[s])
          /\ w = ProcessMdSnapshot(v, s, box[s])
          /\ ns = [id \in {x \in DOMAIN E : E[x].symbol \notin DOMAIN Drop(box, s)} |-> E[id]]
  OBVIOUS
<1>2. /\ SnapshotFits(R, E, s)
      /\ os = [id \in {x \in DOMAIN E : E[x].symbol \notin DOMAIN box} |-> E[id]]
  BY <1>1 DEF HalfRead
<1>3. DOMAIN ns = DOMAIN os \cup IdsIn(R) /\ \A id \in DOMAIN ns : id \in DOMAIN E /\ ns[id] = E[id]
  <2>1. \A x \in DOMAIN E : E[x].symbol = s <=> x \in IdsIn(R)
    BY <1>2 DEF SnapshotFits, IdsIn
  <2>2. IdsIn(R) \subseteq DOMAIN E
    BY <1>2 DEF SnapshotFits, IdsIn
  <2>3. DOMAIN ns = {x \in DOMAIN E : E[x].symbol \notin DOMAIN box \/ E[x].symbol = s}
    BY <1>1 DEF Drop
  <2> QED BY <1>1, <1>2, <2>1, <2>2, <2>3
<1>4. Shown(ns)
  <2>1. IsFiniteSet(DOMAIN ns)
    BY <1>3, FS_Subset DEF Shown
  <2>2. \A id \in DOMAIN ns : ns[id] \in Entry
    BY <1>3 DEF Shown
  <2> QED BY <1>1, <2>1, <2>2 DEF Shown
<1>5. w.order_state = ns
  <2> DEFINE entry(id) == CHOOSE o \in R : o.exchange_id = id
  <2>1. w.order_state = [id \in DOMAIN os \cup IdsIn(R) |->
                            IF id \in IdsIn(R)
                            THEN [price |-> entry(id).price, qty |-> entry(id).leaves_qty,
                                  symbol |-> s, side |-> entry(id).side]
                            ELSE os[id]]
    BY <1>1 DEF ProcessMdSnapshot, IdsIn
  <2>2. \A id \in IdsIn(R) : entry(id) \in R /\ entry(id).exchange_id = id
    BY DEF IdsIn
  <2> HIDE DEF entry
  <2>3. \A id \in IdsIn(R) : [price |-> entry(id).price, qty |-> entry(id).leaves_qty,
                              symbol |-> s, side |-> entry(id).side] = ns[id]
    <3>1. \A id \in IdsIn(R) : /\ ns[id].price = entry(id).price /\ ns[id].qty = entry(id).leaves_qty
                              /\ ns[id].symbol = s /\ ns[id].side = entry(id).side
      BY <1>2, <1>3, <2>2 DEF SnapshotFits
    <3>2. \A id \in IdsIn(R) : ns[id] \in Entry
      BY <1>3, <1>4 DEF Shown
    <3> QED BY <3>1, <3>2 DEF Entry
  <2>4. \A id \in DOMAIN os : os[id] = ns[id]
    BY <1>2, <1>3
  <2>5. ns = [id \in DOMAIN os \cup IdsIn(R) |-> ns[id]]
    BY <1>1, <1>3
  <2> QED BY <2>1, <2>3, <2>4, <2>5
<1>6. ASSUME NEW t, t # s, NEW sd
      PROVE  LevelSums(os, t, sd) = LevelSums(ns, t, sd)
  <2>1. ASSUME NEW q
        PROVE  /\ IdsOf(os, t, sd, q) = IdsOf(ns, t, sd, q)
               /\ Total(os, IdsOf(os, t, sd, q)) = Total(ns, IdsOf(ns, t, sd, q))
    <3>1. ASSUME NEW x
          PROVE  /\ x \in IdsOf(os, t, sd, q) <=> x \in IdsOf(ns, t, sd, q)
                 /\ x \in IdsOf(os, t, sd, q) => os[x] = ns[x]
      <4>1. x \in IdsIn(R) => E[x].symbol = s
        BY <1>2 DEF SnapshotFits, IdsIn
      <4>2. x \in DOMAIN os => os[x] = ns[x]
        BY <1>2, <1>3
      <4> QED BY <1>3, <1>6, <4>1, <4>2 DEF IdsOf
    <3>2. Shown(os)
      BY <1>1 DEF SumsOK
    <3> QED BY <1>4, <3>1, <3>2, OtherLevel
  <2>2. {q \in Prices : IdsOf(os, t, sd, q) # {}} = {q \in Prices : IdsOf(ns, t, sd, q) # {}}
    BY <2>1
  <2> QED BY <2>1, <2>2 DEF LevelSums
<1>7. ASSUME NEW sd \in Sides
      PROVE  [p \in {o.price : o \in {x \in R : x.side = sd}} |-> EntriesAt(R, sd, p)]
                 = LevelSums(ns, s, sd)
  <2>1. ASSUME NEW p
        PROVE  IdsIn({o \in R : o.side = sd /\ o.price = p}) = IdsOf(ns, s, sd, p)
    <3>1. \A o \in R : /\ o.exchange_id \in DOMAIN ns /\ ns[o.exchange_id].price = o.price
                      /\ ns[o.exchange_id].side = o.side /\ ns[o.exchange_id].symbol = s
      BY <1>2, <1>3 DEF SnapshotFits, IdsIn
    <3>2. \A id \in DOMAIN ns : ns[id].symbol = s => id \in IdsIn(R)
      BY <1>2, <1>3 DEF SnapshotFits
    <3> QED BY <3>1, <3>2 DEF IdsIn, IdsOf
  <2>2. ASSUME NEW p
        PROVE  EntriesAt(R, sd, p) = Total(ns, IdsOf(ns, s, sd, p))
    <3>1. PICK Q : Q = {o \in R : o.side = sd /\ o.price = p}
      OBVIOUS
    <3>2. /\ \A o \in Q : o.exchange_id \in DOMAIN ns /\ ns[o.exchange_id].qty = o.leaves_qty
          /\ \A o, x \in Q : o.exchange_id = x.exchange_id => o = x
      BY <1>2, <1>3, <3>1 DEF SnapshotFits, IdsIn
    <3>3. Leaved(Q) = Total(ns, IdsIn(Q))
      BY <1>4, <3>2, LeavedIsTotal
    <3>4. EntriesAt(R, sd, p) = Leaved(Q)
      BY <3>1 DEF EntriesAt, Leaved
    <3> QED BY <2>1, <3>1, <3>3, <3>4
  <2>3. {o.price : o \in {x \in R : x.side = sd}} = {q \in Prices : IdsOf(ns, s, sd, q) # {}}
    <3>1. \A q : IdsOf(ns, s, sd, q) # {} <=> \E o \in R : o.side = sd /\ o.price = q
      <4>1. ASSUME NEW q
            PROVE  IdsIn({o \in R : o.side = sd /\ o.price = q}) # {}
                       <=> \E o \in R : o.side = sd /\ o.price = q
        BY DEF IdsIn
      <4> QED BY <2>1, <4>1
    <3>2. \A o \in R : o.price \in Prices
      <4>1. \A o \in R : /\ o.exchange_id \in DOMAIN ns
                        /\ ns[o.exchange_id].price = o.price
        BY <1>2, <1>3 DEF SnapshotFits, IdsIn
      <4> QED BY <1>4, <4>1 DEF Shown, Entry
    <3> QED BY <3>1, <3>2
  <2> QED BY <2>2, <2>3 DEF LevelSums
<1>8. w.order_book = [B EXCEPT ![s] = [sd \in Sides |-> LevelSums(ns, s, sd)]]
      /\ w = [order_state |-> w.order_state, order_book |-> w.order_book]
  <2>1. w.order_book = [B EXCEPT ![s] =
                           [sd \in Sides |-> [p \in {o.price : o \in {x \in R : x.side = sd}} |->
                                                EntriesAt(R, sd, p)]]]
        /\ w = [order_state |-> w.order_state, order_book |-> w.order_book]
    BY <1>1 DEF ProcessMdSnapshot
  <2>2. [sd \in Sides |-> [p \in {o.price : o \in {x \in R : x.side = sd}} |-> EntriesAt(R, sd, p)]]
            = [sd \in Sides |-> LevelSums(ns, s, sd)]
    BY <1>7
  <2> QED BY <2>1, <2>2
<1>9. DOMAIN w.order_book = DOMAIN B
  BY <1>8
<1>10. w.order_book = [t \in DOMAIN w.order_book |-> [sd \in Sides |-> LevelSums(ns, t, sd)]]
  <2>1. B = [t \in DOMAIN B |-> [sd \in Sides |-> LevelSums(os, t, sd)]]
    BY <1>1 DEF SumsOK
  <2>2. \A t : t # s => [sd \in Sides |-> LevelSums(os, t, sd)] = [sd \in Sides |-> LevelSums(ns, t, sd)]
    BY <1>6
  <2>3. w.order_book = [t \in DOMAIN B |-> IF t = s THEN [sd \in Sides |-> LevelSums(ns, s, sd)]
                                           ELSE B[t]]
    BY <1>8
  <2>4. \A t \in DOMAIN B : t # s => B[t] = [sd \in Sides |-> LevelSums(ns, t, sd)]
    BY <2>1, <2>2
  <2> QED BY <2>3, <2>4
<1>11. \A x \in DOMAIN ns : ns[x].symbol \in DOMAIN w.order_book
  <2>1. \A x \in DOMAIN os : os[x].symbol \in DOMAIN B /\ os[x] = ns[x]
    BY <1>1, <1>2, <1>3 DEF SumsOK
  <2>2. \A x \in IdsIn(R) : ns[x].symbol = s
    BY <1>2, <1>3 DEF SnapshotFits, IdsIn
  <2> QED BY <1>1, <1>3, <1>9, <2>1, <2>2
<1>12. SumsOK(w)
  BY <1>4, <1>5, <1>8, <1>10, <1>11 DEF SumsOK
<1>13. HalfRead(w, Drop(box, s), E)
  BY <1>1, <1>5 DEF HalfRead, Drop
<1> QED BY <1>1, <1>9, <1>12, <1>13

---------------------------------------------------------------------------
(* What the server will show, and the books                                *)

\* An order is not shown before it rests.
NotYet ==
    QueuedIds \cup SubmitIds
        \cup (IF pc = "match" /\ cur.tag = "ORDER" THEN {cur.order.exchange_id} ELSE {})
        \cup (IF call.fn = "on_order_rested" THEN {call.order.exchange_id} ELSE {})

\* The maker's fill is not published yet.
MakerDue == InFill({"begin", "maker_orders", "taker", "taker_orders", "trade"})

\* The orders the server knows agree with the gateway's copies, and with the maker of the
\* fill being reported, on what a packet is about.
Synced(os) ==
    /\ Shown(os)
    /\ DOMAIN os \subseteq 1 .. order_seq_
    /\ DOMAIN os \cap NotYet = {}
    /\ \A id \in DOMAIN os \cap DOMAIN active_orders_ :
           /\ os[id].symbol = active_orders_[id].symbol
           /\ os[id].side = active_orders_[id].side
           /\ os[id].price = active_orders_[id].price
    /\ MakerDue /\ call.maker.exchange_id \in DOMAIN os =>
           LET o == os[call.maker.exchange_id]
           IN  o.symbol = call.maker.symbol /\ o.side = call.maker.side

\* Every row of a configured symbol is among the orders.
Shows(T, os) ==
    \A r \in T : r.symbol \in InitSymbols =>
        /\ r.exchange_id \in DOMAIN os
        /\ os[r.exchange_id].price = r.price /\ os[r.exchange_id].qty = r.leaves_qty
        /\ os[r.exchange_id].symbol = r.symbol /\ os[r.exchange_id].side = r.side

\* The callback that reports an order as rested, about an order that does rest.
RestedOK ==
    call.fn = "on_order_rested" =>
        \E s \in DOMAIN books_ :
            LET id == call.order.exchange_id
                o  == books_[s].order_index_[id]
            IN  /\ id \in DOMAIN books_[s].order_index_
                /\ RowLike(call.order, o) /\ call.order.price = o.price
                /\ call.leaves_qty = o.leaves_qty

\* A replace names the symbol of its order.
ReplaceTerms ==
    /\ pc = "match" /\ cur.tag = "REPLACE" => cur.req.symbol = cur.order.symbol
    /\ call.fn = "on_replace" /\ call.found /\ call.req.orig_order_id \in DOMAIN active_orders_
           => active_orders_[call.req.orig_order_id].symbol = call.req.symbol

\* A snapshot has the books as they are.
SnapshotOK ==
    /\ InitSymbols \subseteq DOMAIN books_
    /\ call.fn = "snapshot_cb" =>
           /\ InitSymbols \subseteq DOMAIN call.snaps /\ DOMAIN call.snaps \subseteq DOMAIN books_
           /\ \A s \in DOMAIN call.snaps : call.snaps[s].orders = GetOrders(books_[s])

\* The server asks once, and is answered once.
Asked == {i \in DOMAIN queue_ : queue_[i].tag = "SNAPSHOT"}

AskedOK ==
    /\ Asked # {} \/ call.fn = "snapshot_cb" => ui = "asked" \/ (ui = "joined" /\ gap)
    /\ call.fn = "snapshot_cb" => Asked = {}
    /\ \A i, j \in Asked : i = j

EngineOK == RestedOK /\ ReplaceTerms /\ SnapshotOK

\* The orders of the server when it has read everything that is on its way.
Coming(os) ==
    IF ui = "answered" THEN SumsOK(view) /\ HalfRead(view, inbox, os)
    ELSE \E h : History(view, wire, h) /\ h[Len(wire)].order_state = os

UiOK ==
    /\ ui \in {"off", "asked", "answered", "joined"}
    /\ ui \in {"off", "asked"} => view = EmptyView(InitSymbols) /\ inbox = NoEntry
    /\ ui # "joined" => wire = << >>
    /\ ui = "answered" /\ ~gap => DOMAIN inbox \subseteq InitSymbols
                                  /\ DOMAIN view.order_book = InitSymbols
    /\ ui = "joined" /\ ~gap => inbox = NoEntry

ViewOK(T) ==
    ui \in {"answered", "joined"} /\ ~gap => \E os : Synced(os) /\ Shows(T, os) /\ Coming(os)

FeedInv ==
    /\ GInv /\ KInv /\ FInv /\ EngineOK /\ AskedOK /\ UiOK
    /\ \E T : RowsFollow(T) /\ ViewOK(T)

---------------------------------------------------------------------------
(* What a step sends                                                       *)

\* The packets w lead from the orders os to ns.
Sent(os, ns, w) ==
    \/ w = << >> /\ ns = os
    \/ \E p \in Packets : w = << p >> /\ PacketOK(os, p) /\ ns = OrdersAfter(os, p)
    \/ \E p, q \in Packets :
           /\ w = << p, q >> /\ PacketOK(os, p) /\ PacketOK(OrdersAfter(os, p), q)
           /\ ns = OrdersAfter(OrdersAfter(os, p), q)

LEMMA HistorySent ==
    ASSUME NEW v, NEW w, NEW h, History(v, w, h), NEW u, NEW ns,
           Sent(h[Len(w)].order_state, ns, u)
    PROVE  \E g : History(v, w \o u, g) /\ g[Len(w \o u)].order_state = ns
<1>1. w \in Seq(Packets)
  BY DEF History
<1>2. PICK os : os = h[Len(w)].order_state
  OBVIOUS
<1>3. CASE u = << >> /\ ns = os
  <2>1. w \o u = w
    BY <1>1, <1>3
  <2> QED BY <1>2, <1>3, <2>1
<1>4. CASE \E p \in Packets : u = << p >> /\ PacketOK(os, p) /\ ns = OrdersAfter(os, p)
  <2>1. PICK p \in Packets : u = << p >> /\ PacketOK(os, p) /\ ns = OrdersAfter(os, p)
    BY <1>4
  <2>2. w \o u = Append(w, p)
    BY <1>1, <2>1, AppendIsConcat
  <2>3. PICK g : /\ History(v, Append(w, p), g)
                 /\ g[Len(Append(w, p))].order_state = OrdersAfter(os, p)
    BY <1>2, <2>1, HistoryGrows
  <2> QED BY <2>1, <2>2, <2>3
<1>5. CASE \E p, q \in Packets :
               /\ u = << p, q >> /\ PacketOK(os, p) /\ PacketOK(OrdersAfter(os, p), q)
               /\ ns = OrdersAfter(OrdersAfter(os, p), q)
  <2>1. PICK p \in Packets, q \in Packets :
            /\ u = << p, q >> /\ PacketOK(os, p) /\ PacketOK(OrdersAfter(os, p), q)
            /\ ns = OrdersAfter(OrdersAfter(os, p), q)
    BY <1>5
  <2>2. PICK g : /\ History(v, Append(w, p), g)
                 /\ g[Len(Append(w, p))].order_state = OrdersAfter(os, p)
    BY <1>2, <2>1, HistoryGrows
  <2>3. PICK f : /\ History(v, Append(Append(w, p), q), f)
                 /\ f[Len(Append(Append(w, p), q))].order_state = ns
    <3>1. PacketOK(g[Len(Append(w, p))].order_state, q)
      BY <2>1, <2>2
    <3>2. PICK f : /\ History(v, Append(Append(w, p), q), f)
                   /\ f[Len(Append(Append(w, p), q))].order_state
                          = OrdersAfter(g[Len(Append(w, p))].order_state, q)
      <4>1. PICK x, y : x = Append(w, p) /\ y = g
        OBVIOUS
      <4>2. History(v, x, y) /\ PacketOK(y[Len(x)].order_state, q)
        BY <2>2, <3>1, <4>1
      <4>3. PICK f : /\ History(v, Append(x, q), f)
                     /\ f[Len(Append(x, q))].order_state = OrdersAfter(y[Len(x)].order_state, q)
        BY <4>2, HistoryGrows
      <4> QED BY <4>1, <4>3
    <3>3. f[Len(Append(Append(w, p), q))].order_state = ns
      BY <2>1, <2>2, <3>2
    <3> QED BY <3>2, <3>3
  <2>4. w \o u = Append(Append(w, p), q)
    <3>1. u = Append(<< p >>, q) /\ << p >> \in Seq(Packets)
      BY <2>1
    <3>2. Append(<< p >>, q) = << p >> \o << q >> /\ Append(w, p) = w \o << p >>
      BY <1>1, <3>1, AppendIsConcat
    <3>3. Append(w, p) \in Seq(Packets) /\ << q >> \in Seq(Packets)
      BY <1>1, AppendProperties
    <3>4. Append(Append(w, p), q) = Append(w, p) \o << q >>
      BY <3>3, AppendIsConcat
    <3>5. w \o (<< p >> \o << q >>) = (w \o << p >>) \o << q >>
      BY <1>1, <3>1, <3>3, ConcatAssociative
    <3> QED BY <3>1, <3>2, <3>4, <3>5
  <2> QED BY <2>3, <2>4
<1> QED BY <1>2, <1>3, <1>4, <1>5 DEF Sent

---------------------------------------------------------------------------
(* The rows and the orders                                                 *)

AsRow(r, price, leaves) ==
    [exchange_id |-> r.exchange_id, client_id |-> r.client_id, symbol |-> r.symbol,
     side |-> r.side, price |-> price, leaves_qty |-> leaves]

\* The orders of the server after the packets of an event.
Moves(os, ns, e) ==
    /\ \A id \in DOMAIN os : e.type = "TAKER_FILL" \/ id # Subject(e) =>
           id \in DOMAIN ns /\ ns[id] = os[id]
    /\ e.type = "FILL" /\ e.fill.leaves_qty > 0 /\ Subject(e) \in DOMAIN os =>
           /\ Subject(e) \in DOMAIN ns
           /\ ns[Subject(e)].price = os[Subject(e)].price
           /\ ns[Subject(e)].qty = e.fill.leaves_qty
           /\ ns[Subject(e)].symbol = os[Subject(e)].symbol
           /\ ns[Subject(e)].side = os[Subject(e)].side
    /\ e.type = "REPLACE" /\ e.leaves_qty > 0 /\ Subject(e) \in DOMAIN os =>
           /\ Subject(e) \in DOMAIN ns
           /\ ns[Subject(e)].price = e.req.new_price
           /\ ns[Subject(e)].qty = e.leaves_qty
           /\ ns[Subject(e)].symbol = os[Subject(e)].symbol
           /\ ns[Subject(e)].side = os[Subject(e)].side
    /\ e.type = "RESTED" =>
           /\ e.order.exchange_id \in DOMAIN ns
           /\ ns[e.order.exchange_id].price = e.order.price
           /\ ns[e.order.exchange_id].qty = e.leaves_qty
           /\ ns[e.order.exchange_id].symbol = e.order.symbol
           /\ ns[e.order.exchange_id].side = e.order.side

\* The table that takes the event, without the rows the server is no longer to show.
LEMMA ShowsFollow ==
    ASSUME NEW T, NEW os, Shows(T, os), NEW ns, NEW e, Moves(os, ns, e)
    PROVE  \E U : Follows(T, U, e) /\ Shows(U, ns)
<1> DEFINE In(r) == r.symbol \in InitSymbols =>
               /\ r.exchange_id \in DOMAIN ns
               /\ ns[r.exchange_id].price = r.price /\ ns[r.exchange_id].qty = r.leaves_qty
               /\ ns[r.exchange_id].symbol = r.symbol /\ ns[r.exchange_id].side = r.side
           more == T \cup {AsRow(r, r.price, e.fill.leaves_qty) : r \in T}
                     \cup {AsRow(r, e.req.new_price, e.leaves_qty) : r \in T}
                     \cup {AsRow(e.order, e.order.price, e.leaves_qty)}
           U == {r \in more : In(r)}
<1>1. Shows(U, ns)
  BY DEF Shows
<1>2. /\ \A r \in T : r \in more
      /\ \A r \in T : AsRow(r, r.price, e.fill.leaves_qty) \in more
      /\ \A r \in T : AsRow(r, e.req.new_price, e.leaves_qty) \in more
      /\ AsRow(e.order, e.order.price, e.leaves_qty) \in more
  OBVIOUS
<1> HIDE DEF more
<1>3. \A r \in more : In(r) => r \in U
  OBVIOUS
<1> HIDE DEF U
<1>4. \A r, p, q : /\ RowLike(AsRow(r, p, q), r)
                   /\ AsRow(r, p, q).price = p /\ AsRow(r, p, q).leaves_qty = q
  BY DEF AsRow, RowLike
<1>5. ASSUME NEW r \in T, e.type = "TAKER_FILL" \/ r.exchange_id # Subject(e)
      PROVE  r \in U
  <2>1. In(r)
    BY <1>5 DEF Shows, Moves
  <2> QED BY <1>2, <1>3, <2>1
<1>6. ASSUME e.type = "FILL", e.fill.leaves_qty > 0, NEW r \in T, r.exchange_id = Subject(e)
      PROVE  \E x \in U : RowLike(x, r) /\ x.price = r.price /\ x.leaves_qty = e.fill.leaves_qty
  <2>1. PICK x : x = AsRow(r, r.price, e.fill.leaves_qty)
    OBVIOUS
  <2>2. RowLike(x, r) /\ x.price = r.price /\ x.leaves_qty = e.fill.leaves_qty
    BY <1>4, <2>1
  <2>3. In(x)
    BY <1>6, <2>2 DEF Shows, Moves, RowLike
  <2> QED BY <1>2, <1>3, <2>1, <2>2, <2>3
<1>7. ASSUME e.type = "REPLACE", e.leaves_qty > 0, NEW r \in T, r.exchange_id = Subject(e)
      PROVE  \E x \in U : RowLike(x, r) /\ x.price = e.req.new_price /\ x.leaves_qty = e.leaves_qty
  <2>1. PICK x : x = AsRow(r, e.req.new_price, e.leaves_qty)
    OBVIOUS
  <2>2. RowLike(x, r) /\ x.price = e.req.new_price /\ x.leaves_qty = e.leaves_qty
    BY <1>4, <2>1
  <2>3. In(x)
    BY <1>7, <2>2 DEF Shows, Moves, RowLike
  <2> QED BY <1>2, <1>3, <2>1, <2>2, <2>3
<1>8. ASSUME e.type = "RESTED"
      PROVE  \E x \in U : /\ RowLike(x, e.order) /\ x.price = e.order.price
                          /\ x.leaves_qty = e.leaves_qty
  <2>1. PICK x : x = AsRow(e.order, e.order.price, e.leaves_qty)
    OBVIOUS
  <2>2. RowLike(x, e.order) /\ x.price = e.order.price /\ x.leaves_qty = e.leaves_qty
    BY <1>4, <2>1
  <2>3. In(x)
    BY <1>8, <2>2 DEF Moves, RowLike
  <2> QED BY <1>2, <1>3, <2>1, <2>2, <2>3
<1>9. Follows(T, U, e)
  BY <1>5, <1>6, <1>7, <1>8 DEF Follows
<1> QED BY <1>1, <1>9

---------------------------------------------------------------------------
(* The orders of the server, through the steps                             *)

\* What the other threads and the rest of the step leave of the orders' terms.
Steady(os) ==
    /\ order_seq_ <= order_seq_'
    /\ DOMAIN os \cap NotYet' = {}
    /\ \A id \in DOMAIN os \cap DOMAIN active_orders_' :
           /\ id \in DOMAIN active_orders_
           /\ active_orders_'[id].symbol = active_orders_[id].symbol
           /\ active_orders_'[id].side = active_orders_[id].side
           /\ active_orders_'[id].price = active_orders_[id].price
    /\ MakerDue' => MakerDue /\ call' = call

\* Orders that keep their terms, or go.
LEMMA SyncedThinner ==
    ASSUME NEW os, Synced(os), Steady(os), NEW ns, Shown(ns), DOMAIN ns \subseteq DOMAIN os,
           \A id \in DOMAIN ns : /\ ns[id].symbol = os[id].symbol /\ ns[id].side = os[id].side
                                 /\ ns[id].price = os[id].price,
           order_seq_ \in Nat, order_seq_' \in Nat
    PROVE  Synced(ns)'
<1>1. DOMAIN ns \subseteq 1 .. order_seq_'
  BY DEF Synced, Steady
<1>2. DOMAIN ns \cap NotYet' = {}
  BY DEF Steady
<1>3. \A id \in DOMAIN ns \cap DOMAIN active_orders_' :
          /\ ns[id].symbol = active_orders_'[id].symbol
          /\ ns[id].side = active_orders_'[id].side
          /\ ns[id].price = active_orders_'[id].price
  BY DEF Synced, Steady
<1>4. ASSUME MakerDue', call'.maker.exchange_id \in DOMAIN ns
      PROVE  /\ ns[call'.maker.exchange_id].symbol = call'.maker.symbol
             /\ ns[call'.maker.exchange_id].side = call'.maker.side
  BY <1>4 DEF Synced, Steady
<1> QED BY <1>1, <1>2, <1>3, <1>4 DEF Synced, Shown

\* One more order.
LEMMA SyncedWider ==
    ASSUME NEW os, Synced(os), NEW x, NEW v, NEW ns, Shown(ns), Except(os, ns, x),
           x \in DOMAIN ns, ns[x] = v, x \in 1 .. order_seq_, x \notin NotYet',
           x \in DOMAIN active_orders_' =>
               /\ v.symbol = active_orders_'[x].symbol /\ v.side = active_orders_'[x].side
               /\ v.price = active_orders_'[x].price,
           order_seq_ \in Nat, order_seq_' = order_seq_, NotYet' \subseteq NotYet,
           \A id \in DOMAIN active_orders_' : id # x =>
               id \in DOMAIN active_orders_ /\ active_orders_'[id] = active_orders_[id],
           ~MakerDue'
    PROVE  Synced(ns)'
<1>1. DOMAIN ns \subseteq 1 .. order_seq_'
  BY DEF Synced, Except
<1>2. DOMAIN ns \cap NotYet' = {}
  BY DEF Synced, Except
<1>3. ASSUME NEW id \in DOMAIN ns \cap DOMAIN active_orders_'
      PROVE  /\ ns[id].symbol = active_orders_'[id].symbol
             /\ ns[id].side = active_orders_'[id].side
             /\ ns[id].price = active_orders_'[id].price
  <2>1. CASE id = x
    BY <2>1
  <2>2. CASE id # x
    BY <2>2 DEF Synced, Except
  <2> QED BY <2>1, <2>2
<1> QED BY <1>1, <1>2, <1>3 DEF Synced, Shown

\* A callback hands out no id and moves no order.
LEMMA CallbackSteady ==
    ASSUME UNCHANGED vars \/ CallbackReturn, fix' = fix, GInv
    PROVE  /\ order_seq_ \in Nat /\ order_seq_' = order_seq_ /\ NotYet' \subseteq NotYet
           /\ CallbackReturn => ~MakerDue'
           /\ UNCHANGED vars => call' = call
<1>1. order_seq_ \in Nat
  BY DEF GInv, IInv, TypeOK
<1>2. UNCHANGED << queue_, pc, cur, order_seq_ >> /\ (call' = call \/ call' = NoCall)
  BY DEF vars, CallbackReturn
<1>3. QueuedIds' = QueuedIds /\ SubmitIds' = SubmitIds
  BY <1>2 DEF QueuedIds, SubmitIds
<1>4. NotYet' \subseteq NotYet
  BY <1>2, <1>3 DEF NotYet, NoCall
<1>5. CallbackReturn => ~MakerDue'
  BY DEF CallbackReturn, MakerDue, InFill, NoCall
<1>6. UNCHANGED vars => call' = call
  BY DEF vars
<1> QED BY <1>1, <1>2, <1>4, <1>5, <1>6

\* What a step of a callback comes to, for the orders of the server.
Advance(os) ==
    \E ns : /\ Sent(os, ns, Published) /\ Synced(ns)'
            /\ \/ Unreported /\ ns = os
               \/ \E e : EventOf(e) /\ Moves(os, ns, e)

\* Nothing is reported.
LEMMA SilentAdvance ==
    ASSUME GInv, NEW os, Synced(os), Unreported, fix' = fix, Published = << >>,
           \A id \in DOMAIN active_orders_' :
               /\ id \in DOMAIN active_orders_
               /\ active_orders_'[id].symbol = active_orders_[id].symbol
               /\ active_orders_'[id].side = active_orders_[id].side
               /\ active_orders_'[id].price = active_orders_[id].price
    PROVE  Advance(os)
<1>1. UNCHANGED vars \/ CallbackReturn
  BY DEF Unreported
<1>2. /\ order_seq_ \in Nat /\ order_seq_' = order_seq_ /\ NotYet' \subseteq NotYet
      /\ CallbackReturn => ~MakerDue'
      /\ UNCHANGED vars => call' = call
  BY <1>1, CallbackSteady
<1>3. MakerDue' => MakerDue /\ call' = call
  <2>1. CASE CallbackReturn
    BY <1>2, <2>1
  <2>2. CASE ~CallbackReturn
    <3>1. MakerDue
      BY <2>2 DEF Unreported, MakerDue, InFill
    <3> QED BY <1>1, <1>2, <2>2, <3>1
  <2> QED BY <2>1, <2>2
<1>4. Steady(os)
  BY <1>2, <1>3 DEF Steady, Synced
<1>5. Synced(os)'
  <2>1. Shown(os)
    BY DEF Synced
  <2> QED BY <1>2, <1>4, <2>1, SyncedThinner
<1>6. Sent(os, os, Published)
  BY DEF Sent
<1> QED BY <1>5, <1>6 DEF Advance

\* onFill: the routing and the reports send nothing, the tail sends the fill.
LEMMA FillAdvance ==
    ASSUME GInv, KInv, NEW os, Synced(os), OnFillStep
    PROVE  Advance(os)
<1> USE DEF InCallback, Return
<1>1. call.fn = "on_fill" /\ call # NoCall /\ fix' = fix
  BY DEF OnFillStep, SendFillRoute, SendFillReport, FillTrade, FillReturn
<1>2. CASE FillTrade
  <2> DEFINE m == call.maker
             p == Packet("FillResting", m.side, m.symbol, m.price, m.leaves_qty, m.exchange_id)
             q == Packet("Trade", "trade", m.symbol, m.price, m.qty, m.exchange_id)
             e == [type |-> "FILL", fill |-> m]
  <2>1. /\ phase = "trade" /\ UNCHANGED << vars, maps >> /\ phase' = "taker_event"
    BY <1>2 DEF FillTrade
  <2>2. m \in Fill /\ m.leaves_qty >= 0
    BY <1>1 DEF GInv, CallOK, KInv, PartiesOK, FillOK
  <2>3. /\ m.side \in Sides /\ m.symbol \in Symbols /\ m.price \in Prices /\ m.exchange_id \in Nat
        /\ m.leaves_qty \in Int /\ m.leaves_qty >= 0 /\ m.qty \in Int
    BY <2>2 DEF Fill
  <2>4. Published = << p, q >>
    BY <1>1, <2>1 DEF Published, FillPackets
  <2>5. m.exchange_id \in DOMAIN os =>
            os[m.exchange_id].symbol = m.symbol /\ os[m.exchange_id].side = m.side
    BY <1>1, <2>1 DEF Synced, MakerDue, InFill
  <2>6. EventOf(e)
    BY <1>1, <2>1 DEF EventOf, InFill
  <2> HIDE DEF m
  <2>7. p \in Packets /\ q \in Packets
    BY <2>3, PriceAssumption DEF Packet, Packets, Prices
  <2>8. /\ p.evt = "FillResting" /\ p.side = m.side /\ p.symbol = m.symbol /\ p.qty = m.leaves_qty
        /\ p.exchange_id = m.exchange_id /\ q.side = "trade" /\ p.side # "trade"
    BY <2>3 DEF Packet, Sides
  <2>9. /\ e.type = "FILL" /\ e.fill.leaves_qty = m.leaves_qty /\ Subject(e) = m.exchange_id
    BY DEF Subject
  <2> HIDE DEF p, q, e
  <2>0. PICK ns : ns = OrdersAfter(os, p)
    OBVIOUS
  <2>10. PacketOK(os, p)
    BY <2>3, <2>5, <2>8 DEF PacketOK
  <2>11. PacketOK(ns, q) /\ OrdersAfter(ns, q) = ns
    BY <2>8 DEF PacketOK, OrdersAfter
  <2>12. Shown(os) /\ Shown(ns) /\ Except(os, ns, m.exchange_id)
    BY <2>0, <2>8, <2>10, OrdersAfterOK DEF Synced
  <2>13. ns = IF m.exchange_id \notin DOMAIN os THEN os
              ELSE IF m.leaves_qty = 0 THEN Drop(os, m.exchange_id)
              ELSE Put(os, m.exchange_id, [os[m.exchange_id] EXCEPT !.qty = m.leaves_qty])
    BY <2>0, <2>8 DEF OrdersAfter
  <2>14. ASSUME m.exchange_id \in DOMAIN os, m.leaves_qty # 0
         PROVE  /\ m.exchange_id \in DOMAIN ns
                /\ ns[m.exchange_id].qty = m.leaves_qty
                /\ ns[m.exchange_id].symbol = os[m.exchange_id].symbol
                /\ ns[m.exchange_id].side = os[m.exchange_id].side
                /\ ns[m.exchange_id].price = os[m.exchange_id].price
    <3>1. os[m.exchange_id] \in Entry
      BY <2>12, <2>14 DEF Shown
    <3>2. m.exchange_id \in DOMAIN ns /\ ns[m.exchange_id] = [os[m.exchange_id] EXCEPT !.qty = m.leaves_qty]
      BY <2>13, <2>14 DEF Put
    <3> QED BY <3>1, <3>2 DEF Entry
  <2>15. DOMAIN ns \subseteq DOMAIN os /\ (m.exchange_id \in DOMAIN ns => m.leaves_qty # 0)
    BY <2>13 DEF Put, Drop
  <2>16. Moves(os, ns, e)
    BY <2>3, <2>9, <2>12, <2>14 DEF Moves, Except
  <2>17. Sent(os, ns, Published)
    BY <2>0, <2>4, <2>7, <2>10, <2>11 DEF Sent
  <2>18. /\ order_seq_ \in Nat /\ order_seq_' = order_seq_ /\ NotYet' \subseteq NotYet
    BY <1>1, <2>1, CallbackSteady
  <2>19. Steady(os)
    BY <2>1, <2>18 DEF Steady, Synced, MakerDue, InFill, maps
  <2>20. \A id \in DOMAIN ns : /\ ns[id].symbol = os[id].symbol /\ ns[id].side = os[id].side
                               /\ ns[id].price = os[id].price
    BY <2>12, <2>14, <2>15 DEF Except
  <2>21. Synced(ns)'
    BY <2>12, <2>15, <2>18, <2>19, <2>20, SyncedThinner
  <2>22. \E ev : EventOf(ev) /\ Moves(os, ns, ev)
    BY <2>6, <2>16
  <2> QED BY <2>17, <2>21, <2>22 DEF Advance
<1>3. CASE FillReturn
  <2> DEFINE e == [type |-> "TAKER_FILL", fill |-> call.taker]
  <2>1. phase = "taker_event" /\ UNCHANGED maps /\ CallbackReturn
    BY <1>3 DEF FillReturn
  <2>2. EventOf(e)
    BY <1>1, <2>1 DEF EventOf, InFill
  <2>3. Published = << >>
    BY <1>1, <2>1 DEF Published
  <2>4. Sent(os, os, Published) /\ Moves(os, os, e)
    BY <2>3 DEF Sent, Moves
  <2>5. /\ order_seq_ \in Nat /\ order_seq_' = order_seq_ /\ NotYet' \subseteq NotYet /\ ~MakerDue'
    BY <1>1, <2>1, CallbackSteady
  <2>6. Steady(os)
    BY <2>1, <2>5 DEF Steady, Synced, maps
  <2>7. Synced(os)'
    <3>1. Shown(os)
      BY DEF Synced
    <3> QED BY <2>5, <2>6, <3>1, SyncedThinner
  <2> QED BY <2>2, <2>4, <2>7 DEF Advance
<1>4. CASE ~FillTrade /\ ~FillReturn
  <2>1. /\ phase \in {"begin", "maker_orders", "taker", "taker_orders"} /\ UNCHANGED vars
        /\ phase' \in {"maker_orders", "taker", "taker_orders", "trade"}
    BY <1>4 DEF OnFillStep, SendFillRoute, SendFillReport
  <2>2. Unreported /\ Published = << >>
    BY <1>1, <2>1 DEF Unreported, Published
  <2>3. \/ active_orders_' = active_orders_
        \/ \E x : active_orders_' = Drop(active_orders_, x)
        \/ \E x, l : x \in DOMAIN active_orders_
               /\ active_orders_' = [active_orders_ EXCEPT ![x].leaves_qty = l]
    BY <1>4 DEF OnFillStep, SendFillRoute, SendFillReport
  <2>4. ASSUME NEW id \in DOMAIN active_orders_'
        PROVE  /\ id \in DOMAIN active_orders_
               /\ active_orders_'[id].symbol = active_orders_[id].symbol
               /\ active_orders_'[id].side = active_orders_[id].side
               /\ active_orders_'[id].price = active_orders_[id].price
    <3>1. id \in DOMAIN active_orders_
      BY <2>3 DEF Drop
    <3>2. active_orders_[id] \in Order
      BY <3>1 DEF GInv, MapsOK
    <3>3. \/ active_orders_'[id] = active_orders_[id]
          \/ \E l : active_orders_'[id] = [active_orders_[id] EXCEPT !.leaves_qty = l]
      BY <2>3, <3>1 DEF Drop
    <3> QED BY <3>1, <3>2, <3>3 DEF Order
  <2> QED BY <1>1, <2>2, <2>4, SilentAdvance
<1> QED BY <1>2, <1>3, <1>4

\* onCancel.
LEMMA OnCancelAdvance ==
    ASSUME GInv, NEW os, Synced(os), OnCancelStep
    PROVE  Advance(os)
<1> USE DEF InCallback, Return
<1>1. PICK id, a : id = call.req.orig_order_id /\ a = active_orders_[id]
  OBVIOUS
<1>2. call.fn = "on_cancel" /\ call # NoCall /\ phase = "begin" /\ fix' = fix /\ CallbackReturn
  BY DEF OnCancelStep
<1>3. CASE call.found /\ Tracked(id)
  <2>1. PICK p : p = Packet("Cancel", a.side, a.symbol, a.price, 0, id)
    OBVIOUS
  <2>2. PICK ns : ns = OrdersAfter(os, p)
    OBVIOUS
  <2>3. PICK e : e = [type |-> "CANCEL", order |-> a]
    OBVIOUS
  <2>4. a \in Order /\ a.exchange_id = id
    BY <1>1, <1>3 DEF GInv, MapsOK, Tracked
  <2>5. a.side \in Sides /\ a.symbol \in Symbols /\ a.price \in Int /\ a.exchange_id \in Nat
    BY <2>4 DEF Order
  <2>6. Published = << p >>
    <3>1. Published = CancelPackets(a)
      BY <1>1, <1>2, <1>3 DEF Published
    <3> QED BY <2>1, <2>4, <3>1 DEF CancelPackets
  <2>7. active_orders_' = Drop(active_orders_, id)
    BY <1>1, <1>3 DEF OnCancelStep, Tracked
  <2>8. EventOf(e)
    BY <1>1, <1>2, <1>3, <2>3, <2>7 DEF EventOf, Tracked
  <2>9. e.type = "CANCEL" /\ Subject(e) = id
    BY <2>3, <2>4 DEF Subject
  <2>10. p \in Packets
    BY <2>1, <2>4, <2>5 DEF Packet, Packets
  <2>11. /\ p.evt = "Cancel" /\ p.side = a.side /\ p.symbol = a.symbol /\ p.qty = 0
         /\ p.exchange_id = id /\ p.side # "trade" /\ p.side \in Sides
    BY <2>1, <2>5 DEF Packet, Sides
  <2>12. id \in DOMAIN os => os[id].symbol = a.symbol /\ os[id].side = a.side
    BY <1>1, <1>3 DEF Synced, Tracked
  <2>13. PacketOK(os, p)
    BY <2>11, <2>12 DEF PacketOK
  <2>14. Shown(os) /\ Shown(ns) /\ Except(os, ns, id)
    BY <2>2, <2>11, <2>13, OrdersAfterOK DEF Synced
  <2>15. ns = IF id \notin DOMAIN os THEN os ELSE Drop(os, id)
    BY <2>2, <2>11 DEF OrdersAfter
  <2>16. DOMAIN ns \subseteq DOMAIN os /\ \A x \in DOMAIN ns : ns[x] = os[x]
    BY <2>15 DEF Drop
  <2>17. Moves(os, ns, e)
    BY <2>9, <2>14 DEF Moves, Except
  <2>18. Sent(os, ns, Published)
    BY <2>2, <2>6, <2>10, <2>13 DEF Sent
  <2>19. /\ order_seq_ \in Nat /\ order_seq_' = order_seq_ /\ NotYet' \subseteq NotYet /\ ~MakerDue'
    BY <1>2, CallbackSteady
  <2>20. Steady(os)
    BY <2>7, <2>19 DEF Steady, Synced, Drop
  <2>21. Synced(ns)'
    BY <2>14, <2>16, <2>19, <2>20, SyncedThinner
  <2>22. \E ev : EventOf(ev) /\ Moves(os, ns, ev)
    BY <2>8, <2>17
  <2> QED BY <2>18, <2>21, <2>22 DEF Advance
<1>4. CASE ~(call.found /\ Tracked(id))
  <2>1. UNCHANGED maps
    BY <1>1, <1>4 DEF OnCancelStep, Tracked
  <2>2. Published = << >>
    BY <1>1, <1>2, <1>4 DEF Published
  <2>3. Unreported
    BY <1>1, <1>2, <1>4 DEF Unreported, Tracked
  <2> QED BY <1>2, <2>1, <2>2, <2>3, SilentAdvance DEF maps
<1> QED BY <1>3, <1>4

\* onOrderRested.
LEMMA RestedAdvance ==
    ASSUME GInv, KInv, InAdd, RestedOK, NEW os, Synced(os), OnOrderRestedStep
    PROVE  Advance(os)
<1> USE DEF InCallback, Return
<1>1. PICK o, id, l : o = call.order /\ id = o.exchange_id /\ l = call.leaves_qty
  OBVIOUS
<1>2. /\ call.fn = "on_order_rested" /\ call # NoCall /\ phase = "begin" /\ fix' = fix
      /\ CallbackReturn /\ UNCHANGED maps
  BY DEF OnOrderRestedStep
<1>3. PICK p : p = Packet("NewOrder", o.side, o.symbol, o.price, l, id)
  OBVIOUS
<1>4. PICK ns : ns = OrdersAfter(os, p)
  OBVIOUS
<1>5. PICK e : e = [type |-> "RESTED", order |-> o, leaves_qty |-> l]
  OBVIOUS
<1>6. PICK s, b :
          /\ s \in DOMAIN books_ /\ id \in DOMAIN books_[s].order_index_
          /\ b = books_[s].order_index_[id]
          /\ RowLike(o, b) /\ o.price = b.price /\ l = b.leaves_qty
  BY <1>1, <1>2 DEF RestedOK
<1>7. o \in Order /\ l \in Int
  BY <1>1, <1>2 DEF GInv, CallOK
<1>8. o.side \in Sides /\ o.symbol \in Symbols /\ id \in Nat
  BY <1>1, <1>7 DEF Order
<1>9. b.exchange_id = id
  BY <1>1, <1>6 DEF RowLike
<1>10. RestingOK(b)
  BY <1>6 DEF KInv, PartiesOK, ListedOK
<1>11. l > 0 /\ id \in DOMAIN active_orders_
       /\ active_orders_[id].symbol = o.symbol /\ active_orders_[id].side = o.side
       /\ active_orders_[id].price = o.price
  <2>1. ~Replacing(id)
    BY <1>2 DEF Replacing
  <2> QED BY <1>6, <1>9, <1>10, <2>1 DEF RestingOK, Known, SameOrder, SamePrice, RowLike
<1>12. id \in 1 .. order_seq_
  BY <1>11 DEF KInv, IdsOK
<1>13. o.price \in Prices
  <2>1. BookOK(books_[s])
    BY <1>6 DEF GInv, IInv, BooksOK
  <2>2. b.price \in DOMAIN books_[s].levels[b.side] /\ b \in Order
    BY <1>6, <2>1 DEF BookOK, IndexedIsListed, BookType
  <2>3. b.side \in Sides
    BY <2>2 DEF Order
  <2> QED BY <1>6, <2>1, <2>2, <2>3 DEF BookOK, BookType
<1>14. id \notin DOMAIN os
  <2>1. id \in NotYet
    BY <1>1, <1>2 DEF NotYet
  <2> QED BY <2>1 DEF Synced
<1>15. id \notin NotYet'
  <2>1. id \in ListedIds
    BY <1>6 DEF ListedIds
  <2>2. id \notin QueuedIds
    BY <2>1 DEF GInv, IInv, Fresh, OnePlace
  <2>3. id \notin SubmitIds
    BY <2>1 DEF GInv, FixOK, SubmitOK, LiveIds, SubmitIds
  <2>4. QueuedIds' = QueuedIds /\ SubmitIds' = SubmitIds /\ pc' = pc /\ call' = NoCall
    BY <1>2 DEF CallbackReturn, QueuedIds, SubmitIds
  <2>5. pc # "match"
    BY <1>2 DEF InAdd
  <2> QED BY <2>2, <2>3, <2>4, <2>5 DEF NotYet, NoCall
<1>16. Published = << p >>
  <2>1. Published = NewOrderPackets(o, l)
    BY <1>1, <1>2 DEF Published
  <2> QED BY <1>1, <1>3, <2>1 DEF NewOrderPackets
<1>17. EventOf(e)
  BY <1>1, <1>2, <1>5 DEF EventOf
<1>18. e.type = "RESTED" /\ Subject(e) = id /\ e.order = o /\ e.leaves_qty = l
  BY <1>1, <1>5 DEF Subject
<1>19. p \in Packets
  BY <1>3, <1>7, <1>8, <1>13, PriceAssumption DEF Packet, Packets, Prices
<1>20. /\ p.evt = "NewOrder" /\ p.side = o.side /\ p.symbol = o.symbol /\ p.price = o.price
       /\ p.qty = l /\ p.exchange_id = id /\ p.side # "trade" /\ p.side \in Sides
  BY <1>3, <1>8 DEF Packet, Sides
<1>21. l \in Nat \ {0}
  BY <1>7, <1>11
<1>22. PacketOK(os, p)
  BY <1>8, <1>13, <1>14, <1>20, <1>21 DEF PacketOK
<1>23. Shown(os) /\ Shown(ns) /\ Except(os, ns, id)
  BY <1>4, <1>20, <1>22, OrdersAfterOK DEF Synced
<1>24. PICK v : v = [price |-> o.price, qty |-> l, symbol |-> o.symbol, side |-> o.side]
  OBVIOUS
<1>25. ns = Put(os, id, v)
  BY <1>4, <1>20, <1>24 DEF OrdersAfter
<1>26. id \in DOMAIN ns /\ ns[id] = v
  BY <1>25 DEF Put
<1>27. v.price = o.price /\ v.qty = l /\ v.symbol = o.symbol /\ v.side = o.side
  BY <1>24
<1>28. Moves(os, ns, e)
  BY <1>1, <1>18, <1>23, <1>26, <1>27 DEF Moves, Except
<1>29. Sent(os, ns, Published)
  BY <1>4, <1>16, <1>19, <1>22 DEF Sent
<1>30. /\ order_seq_ \in Nat /\ order_seq_' = order_seq_ /\ NotYet' \subseteq NotYet /\ ~MakerDue'
  BY <1>2, CallbackSteady
<1>31. active_orders_' = active_orders_
  BY <1>2 DEF maps
<1>32. Synced(ns)'
  BY <1>11, <1>12, <1>15, <1>23, <1>26, <1>27, <1>30, <1>31, SyncedWider
<1>33. \E ev : EventOf(ev) /\ Moves(os, ns, ev)
  BY <1>17, <1>28
<1> QED BY <1>29, <1>32, <1>33 DEF Advance

\* onReplace: the new quantity, or the order taken out and put in at its new price.
LEMMA OnReplaceAdvance ==
    ASSUME GInv, KInv, InAdd, ReplaceTerms, NEW os, Synced(os), OnReplaceStep
    PROVE  Advance(os)
<1> USE DEF InCallback, Return
<1>1. PICK req, id, a, l : /\ req = call.req /\ id = req.orig_order_id
                           /\ a = active_orders_[id] /\ l = call.leaves_qty
  OBVIOUS
<1>2. call.fn = "on_replace" /\ call # NoCall /\ phase = "begin" /\ fix' = fix /\ CallbackReturn
  BY DEF OnReplaceStep
<1>3. CASE ~(call.found /\ Tracked(id))
  <2>1. UNCHANGED maps
    BY <1>1, <1>3 DEF OnReplaceStep, Tracked
  <2>2. Published = << >>
    BY <1>1, <1>2, <1>3 DEF Published
  <2>3. Unreported
    BY <1>1, <1>2, <1>3 DEF Unreported, Tracked
  <2> QED BY <1>2, <2>1, <2>2, <2>3, SilentAdvance DEF maps
<1>4. CASE call.found /\ Tracked(id)
  <2>1. /\ id \in DOMAIN active_orders_ /\ a \in Order
        /\ a.side \in Sides /\ a.symbol \in Symbols /\ a.price \in Int
    BY <1>1, <1>4 DEF GInv, MapsOK, Tracked, Order
  <2>2. l \in Nat \ {0}
    <3>1. l \in Int /\ call.found = (l >= 0)
      BY <1>1, <1>2 DEF GInv, CallOK
    <3>2. l # 0
      BY <1>1, <1>2, <2>1 DEF KInv, PartiesOK, CallbackOK
    <3>3. (l >= 0) = TRUE
      BY <1>4, <3>1, Zenon
    <3> QED BY <3>1, <3>2, <3>3
  <2>3. req.new_price \in Prices
    BY <1>1, <1>2 DEF GInv, CallOK, ReplaceRequest
  <2>4. a.symbol = req.symbol
    BY <1>1, <1>2, <1>4, <2>1 DEF ReplaceTerms
  <2>5. id \in 1 .. order_seq_
    BY <1>1, <1>2 DEF GInv, ReplacesOK, ReplaceOK
  <2>6. order_seq_ \in Nat /\ id \in Nat
    BY <2>5 DEF GInv, IInv, TypeOK
  <2>7. id \notin NotYet'
    <3>1. id \notin QueuedIds /\ id \notin SubmitIds
      BY <1>1, <1>2, <1>4 DEF KInv, IdsOK, CallIds
    <3>2. QueuedIds' = QueuedIds /\ SubmitIds' = SubmitIds /\ pc' = pc /\ call' = NoCall
      BY <1>2 DEF CallbackReturn, QueuedIds, SubmitIds
    <3>3. pc # "match"
      BY <1>2 DEF InAdd
    <3> QED BY <3>1, <3>2, <3>3 DEF NotYet, NoCall
  <2>8. active_orders_' = [active_orders_ EXCEPT ![id].clord_id = req.new_clord_id,
                                                 ![id].price = req.new_price,
                                                 ![id].qty = req.new_qty,
                                                 ![id].leaves_qty = l]
    <3>1. call.leaves_qty > 0 /\ call.leaves_qty # 0
      BY <1>1, <2>2
    <3> QED BY <1>1, <1>4, <3>1 DEF OnReplaceStep, Tracked
  <2>9. /\ DOMAIN active_orders_' = DOMAIN active_orders_
        /\ \A x \in DOMAIN active_orders_ : x # id => active_orders_'[x] = active_orders_[x]
        /\ active_orders_'[id].symbol = a.symbol /\ active_orders_'[id].side = a.side
        /\ active_orders_'[id].price = req.new_price
    BY <1>1, <2>1, <2>8 DEF Order
  <2>10. PICK e : e = [type |-> "REPLACE", req |-> req, leaves_qty |-> l]
    OBVIOUS
  <2>11. EventOf(e)
    BY <1>1, <1>2, <1>4, <2>2, <2>10 DEF EventOf
  <2>12. e.type = "REPLACE" /\ e.req = req /\ e.leaves_qty = l /\ Subject(e) = id
    BY <1>1, <2>10 DEF Subject
  <2>13. id \in DOMAIN os => /\ os[id].symbol = a.symbol /\ os[id].side = a.side
                             /\ os[id].price = a.price
    BY <1>1, <2>1 DEF Synced
  <2>14. /\ order_seq_' = order_seq_ /\ NotYet' \subseteq NotYet /\ ~MakerDue'
    BY <1>2, CallbackSteady
  <2>15. Published = ReplacePackets(req, a.side, l, a.price)
    BY <1>1, <1>2, <1>4 DEF Published
  <2>16. Shown(os)
    BY DEF Synced
  <2>17. CASE a.price = req.new_price
    <3>1. PICK p : p = Packet("ReplaceInPlace", a.side, req.symbol, req.new_price, l, id)
      OBVIOUS
    <3>2. PICK ns : ns = OrdersAfter(os, p)
      OBVIOUS
    <3>3. Published = << p >>
      BY <1>1, <2>15, <2>17, <3>1 DEF ReplacePackets
    <3>4. p \in Packets
      BY <2>1, <2>2, <2>3, <2>4, <2>6, <3>1, PriceAssumption DEF Packet, Packets, Prices
    <3>5. /\ p.evt = "ReplaceInPlace" /\ p.side = a.side /\ p.symbol = a.symbol /\ p.qty = l
          /\ p.exchange_id = id /\ p.side # "trade" /\ p.side \in Sides
      BY <2>1, <2>4, <3>1 DEF Packet, Sides
    <3>6. PacketOK(os, p)
      BY <2>2, <2>13, <3>5 DEF PacketOK
    <3>7. Shown(ns) /\ Except(os, ns, id)
      BY <2>16, <3>2, <3>5, <3>6, OrdersAfterOK
    <3>8. ns = IF id \notin DOMAIN os THEN os ELSE Put(os, id, [os[id] EXCEPT !.qty = l])
      BY <3>2, <3>5 DEF OrdersAfter
    <3>9. id \in DOMAIN os =>
              /\ id \in DOMAIN ns /\ ns[id].qty = l /\ ns[id].symbol = os[id].symbol
              /\ ns[id].side = os[id].side /\ ns[id].price = os[id].price
      <4>1. ASSUME id \in DOMAIN os
            PROVE  /\ id \in DOMAIN ns /\ ns[id].qty = l /\ ns[id].symbol = os[id].symbol
                   /\ ns[id].side = os[id].side /\ ns[id].price = os[id].price
        <5>1. os[id] \in Entry
          BY <2>16, <4>1 DEF Shown
        <5>2. id \in DOMAIN ns /\ ns[id] = [os[id] EXCEPT !.qty = l]
          BY <3>8, <4>1 DEF Put
        <5> QED BY <5>1, <5>2 DEF Entry
      <4> QED BY <4>1
    <3>10. DOMAIN ns \subseteq DOMAIN os
      BY <3>8 DEF Put
    <3>11. Moves(os, ns, e)
      BY <2>12, <2>13, <2>17, <3>7, <3>9 DEF Moves, Except
    <3>12. Sent(os, ns, Published)
      BY <3>2, <3>3, <3>4, <3>6 DEF Sent
    <3>13. Steady(os)
      BY <1>1, <2>6, <2>9, <2>14, <2>17 DEF Steady, Synced
    <3>14. \A x \in DOMAIN ns : /\ ns[x].symbol = os[x].symbol /\ ns[x].side = os[x].side
                                /\ ns[x].price = os[x].price
      BY <3>7, <3>9, <3>10 DEF Except
    <3>15. Synced(ns)'
      BY <2>6, <2>14, <3>7, <3>10, <3>13, <3>14, SyncedThinner
    <3>16. \E ev : EventOf(ev) /\ Moves(os, ns, ev)
      BY <2>11, <3>11
    <3> QED BY <3>12, <3>15, <3>16 DEF Advance
  <2>18. CASE a.price # req.new_price
    <3>1. PICK p, q : /\ p = Packet("ReplaceDelete", a.side, req.symbol, a.price, 0, id)
                      /\ q = Packet("ReplaceNew", a.side, req.symbol, req.new_price, l, id)
      OBVIOUS
    <3>2. PICK ms : ms = OrdersAfter(os, p)
      OBVIOUS
    <3>3. PICK ns : ns = OrdersAfter(ms, q)
      OBVIOUS
    <3>4. Published = << p, q >>
      BY <1>1, <2>15, <2>18, <3>1 DEF ReplacePackets
    <3>5. p \in Packets /\ q \in Packets
      BY <2>1, <2>2, <2>3, <2>4, <2>6, <3>1, PriceAssumption DEF Packet, Packets, Prices
    <3>6. /\ p.evt = "ReplaceDelete" /\ p.side = a.side /\ p.symbol = a.symbol /\ p.qty = 0
          /\ p.exchange_id = id /\ p.side # "trade" /\ p.side \in Sides
      BY <2>1, <2>4, <3>1 DEF Packet, Sides
    <3>7. /\ q.evt = "ReplaceNew" /\ q.side = a.side /\ q.symbol = a.symbol /\ q.qty = l
          /\ q.price = req.new_price /\ q.exchange_id = id /\ q.side # "trade" /\ q.side \in Sides
      BY <2>1, <2>4, <3>1 DEF Packet, Sides
    <3>8. PacketOK(os, p)
      BY <2>13, <3>6 DEF PacketOK
    <3>9. Shown(ms) /\ Except(os, ms, id)
      BY <2>16, <3>2, <3>6, <3>8, OrdersAfterOK
    <3>10. id \notin DOMAIN ms
      BY <3>2, <3>6 DEF OrdersAfter, Drop
    <3>11. PacketOK(ms, q)
      BY <2>1, <2>2, <2>3, <3>7, <3>10 DEF PacketOK
    <3>12. Shown(ns) /\ Except(ms, ns, id)
      BY <3>3, <3>7, <3>9, <3>11, OrdersAfterOK
    <3>13. Except(os, ns, id)
      BY <3>9, <3>12 DEF Except
    <3>14. PICK v : v = [price |-> req.new_price, qty |-> l, symbol |-> a.symbol, side |-> a.side]
      OBVIOUS
    <3>15. ns = Put(ms, id, v)
      BY <3>3, <3>7, <3>14 DEF OrdersAfter
    <3>16. id \in DOMAIN ns /\ ns[id] = v
      BY <3>15 DEF Put
    <3>17. v.price = req.new_price /\ v.qty = l /\ v.symbol = a.symbol /\ v.side = a.side
      BY <3>14
    <3>18. Moves(os, ns, e)
      BY <2>12, <2>13, <3>13, <3>16, <3>17 DEF Moves, Except
    <3>19. Sent(os, ns, Published)
      BY <3>2, <3>3, <3>4, <3>5, <3>8, <3>11 DEF Sent
    <3>20. Synced(ns)'
      BY <2>5, <2>6, <2>7, <2>9, <2>14, <3>12, <3>13, <3>16, <3>17, SyncedWider
    <3>21. \E ev : EventOf(ev) /\ Moves(os, ns, ev)
      BY <2>11, <3>18
    <3> QED BY <3>19, <3>20, <3>21 DEF Advance
  <2> QED BY <2>17, <2>18
<1> QED BY <1>3, <1>4

\* Every callback.
LEMMA CallbackAdvance ==
    ASSUME GInv, KInv, InAdd, EngineOK, NEW os, Synced(os), GwCallback
    PROVE  Advance(os)
<1> USE DEF InCallback, Return
<1>1. CASE OnFillStep
  BY <1>1, FillAdvance
<1>2. CASE OnCancelStep
  BY <1>2, OnCancelAdvance
<1>3. CASE OnReplaceStep
  BY <1>3, OnReplaceAdvance DEF EngineOK
<1>4. CASE OnOrderRestedStep
  BY <1>4, RestedAdvance DEF EngineOK
<1>5. CASE OnTifCancelStep
  <2>1. Unreported /\ Published = << >> /\ fix' = fix
    BY <1>5 DEF OnTifCancelStep, Unreported, Published
  <2>2. active_orders_' = active_orders_ \/ \E x : active_orders_' = Drop(active_orders_, x)
    BY <1>5 DEF OnTifCancelStep, maps
  <2>3. ASSUME NEW id \in DOMAIN active_orders_'
        PROVE  id \in DOMAIN active_orders_ /\ active_orders_'[id] = active_orders_[id]
    BY <2>2, DropFields
  <2> QED BY <2>1, <2>3, SilentAdvance
<1>6. CASE SnapshotStep
  <2>1. Unreported /\ Published = << >> /\ fix' = fix /\ active_orders_' = active_orders_
    BY <1>6 DEF SnapshotStep, Unreported, Published, maps
  <2> QED BY <2>1, SilentAdvance
<1> QED BY <1>1, <1>2, <1>3, <1>4, <1>5, <1>6 DEF GwCallback

---------------------------------------------------------------------------
(* The steps that are no callbacks                                         *)

LEMMA CallbackMovesOn ==
    ASSUME GwCallback
    PROVE  ~UNCHANGED << call, phase >> /\ call # NoCall
<1> USE DEF InCallback
<1>1. CASE CallbackReturn
  BY <1>1 DEF CallbackReturn, GwCallback, OnFillStep, SendFillRoute, SendFillReport, FillTrade,
              FillReturn, OnCancelStep, OnReplaceStep, OnTifCancelStep, OnOrderRestedStep,
              SnapshotStep
<1>2. CASE ~CallbackReturn
  BY <1>2 DEF Return, GwCallback, OnFillStep, SendFillRoute, SendFillReport, FillTrade,
              FillReturn, OnCancelStep, OnReplaceStep, OnTifCancelStep, OnOrderRestedStep,
              SnapshotStep
<1> QED BY <1>1, <1>2

\* main() and the admin thread, or nothing.
LEMMA AsideMoves ==
    ASSUME GInv, GwMain \/ GwAdmin \/ GwOver \/ UNCHANGED allvars
    PROVE  /\ UNCHANGED << gwvars, queue_, order_seq_, cur, call >>
           /\ pc' = pc \/ (pc' = "run" /\ pc # "match")
           /\ rows = << >> => \A s \in DOMAIN books_ : s \in DOMAIN books_' /\ books_'[s] = books_[s]
<1>1. pc = "match" => main # "recovery"
  BY DEF GInv, IInv, RowsOK
<1>2. CASE GwMain
  BY <1>1, <1>2 DEF GwMain, MainNext, RestoreOrder, Start, StopAcceptor, Stop
<1>3. CASE GwAdmin
  <2>1. PICK s \in Symbols : RegisterSymbol(s) /\ UNCHANGED gwvars
    BY <1>3 DEF GwAdmin, AdminNext
  <2> QED BY <2>1 DEF RegisterSymbol, Put, valid_symbols_
<1>4. CASE GwOver \/ UNCHANGED allvars
  BY <1>4 DEF GwOver, Over, allvars, vars
<1> QED BY <1>2, <1>3, <1>4

\* The handlers: what they hand over is new, or a request.
FixMoves ==
    /\ order_seq_ \in Nat /\ order_seq_' \in Nat /\ order_seq_ <= order_seq_'
    /\ \A id \in DOMAIN active_orders_' :
           \/ id \in DOMAIN active_orders_ /\ active_orders_'[id] = active_orders_[id]
           \/ id = order_seq_ + 1
    /\ \A id \in DOMAIN active_orders_ :
           id \in DOMAIN active_orders_' /\ active_orders_'[id] = active_orders_[id]
    /\ QueuedIds' \cup SubmitIds' \subseteq QueuedIds \cup SubmitIds \cup {order_seq_ + 1}
    /\ \/ queue_' = queue_
       \/ \E item \in WorkItem :
              /\ Push(item)
              /\ item.tag = "SNAPSHOT" => \E c \in Clients : RecvMarketDataRequest(c)

LEMMA FixMovesOK ==
    ASSUME GInv, GwFix
    PROVE  FixMoves
<1>1. order_seq_ \in Nat /\ IInv
  BY DEF GInv, IInv, TypeOK
<1>2. queue_' = queue_ => QueuedIds' = QueuedIds
  BY DEF QueuedIds
<1>3. fix' = Idle => SubmitIds' = {}
  BY DEF SubmitIds, Idle
<1>4. CASE \/ \E c \in Clients : Logon(c) \/ Logout(c)
           \/ SendStatus
           \/ \E m \in NewOrderMsgs, c \in Clients : RejectNew(m, c)
           \/ \E c \in Clients, orig \in ClOrdIds, s \in MsgSymbols : RecvCancel(c, orig, s)
           \/ \E c \in Clients, orig, cl \in ClOrdIds, s \in MsgSymbols, side \in Sides,
                 p \in Prices, q \in ReplaceQtys : RecvReplace(c, orig, cl, s, side, p, q)
  <2>1. /\ queue_' = queue_ /\ active_orders_' = active_orders_
        /\ order_seq_' = order_seq_ \/ order_seq_' = order_seq_ + 1
        /\ fix' = fix \/ fix'.at # "submit"
    <3>1. CASE \/ \E c \in Clients : Logon(c) \/ Logout(c)
               \/ SendStatus
      <4>1. ASSUME NEW c \in Clients, Logon(c)
            PROVE  fix'.at = "status" /\ UNCHANGED << vars, active_orders_ >>
        <5>1. PICK M : fix' = [at |-> "status", client |-> c, orders |-> M]
          BY <4>1 DEF Logon
        <5> QED BY <4>1, <5>1 DEF Logon
      <4>2. ASSUME NEW c \in Clients, Logout(c)
            PROVE  fix' = fix /\ UNCHANGED << vars, active_orders_ >>
        BY <4>2 DEF Logout, maps
      <4>3. (fix' = fix \/ fix'.at # "submit") /\ UNCHANGED << vars, active_orders_ >>
        <5>1. CASE \E c \in Clients : Logon(c)
          BY <4>1, <5>1
        <5>2. CASE \E c \in Clients : Logout(c)
          BY <4>2, <5>2
        <5>3. CASE SendStatus
          BY <5>3 DEF SendStatus, maps, Idle
        <5> QED BY <3>1, <5>1, <5>2, <5>3
      <4> QED BY <4>3 DEF vars
    <3>2. CASE \E m \in NewOrderMsgs, c \in Clients : RejectNew(m, c)
      BY <3>2 DEF RejectNew, Reject, gwvars
    <3>3. CASE \E c \in Clients, orig \in ClOrdIds, s \in MsgSymbols : RecvCancel(c, orig, s)
      BY <3>3 DEF RecvCancel, vars, maps
    <3>4. CASE \E c \in Clients, orig, cl \in ClOrdIds, s \in MsgSymbols, side \in Sides,
                  p \in Prices, q \in ReplaceQtys : RecvReplace(c, orig, cl, s, side, p, q)
      BY <3>4 DEF RecvReplace, vars, maps
    <3> QED BY <1>4, <3>1, <3>2, <3>3, <3>4
  <2>2. SubmitIds' \subseteq SubmitIds
    BY <2>1 DEF SubmitIds
  <2> QED BY <1>1, <1>2, <2>1, <2>2 DEF FixMoves
<1>5. ASSUME NEW m \in NewOrderMsgs, NEW c \in Clients, NEW cl \in ClOrdIds, AcceptNew(m, c, cl)
      PROVE  FixMoves
  <2>1. PICK o : o = NewOrder(m, c, cl)
    OBVIOUS
  <2>2. /\ queue_' = queue_ /\ order_seq_' = order_seq_ + 1
        /\ active_orders_' = Emplace(active_orders_, o.exchange_id, o)
        /\ fix' = [at |-> "submit", order |-> o]
    BY <1>5, <2>1 DEF AcceptNew
  <2>3. o.exchange_id = order_seq_ + 1
    BY <2>1 DEF NewOrder
  <2>4. SubmitIds' = {order_seq_ + 1}
    BY <2>2, <2>3 DEF SubmitIds
  <2>5. /\ \A id \in DOMAIN active_orders_' :
               \/ id \in DOMAIN active_orders_ /\ active_orders_'[id] = active_orders_[id]
               \/ id = order_seq_ + 1
        /\ \A id \in DOMAIN active_orders_ :
               id \in DOMAIN active_orders_' /\ active_orders_'[id] = active_orders_[id]
    BY <2>2, <2>3 DEF Emplace, Put
  <2> QED BY <1>1, <1>2, <2>2, <2>4, <2>5 DEF FixMoves
<1>6. CASE SubmitNew
  <2>1. PICK item : item = [tag |-> "ORDER", order |-> fix.order]
    OBVIOUS
  <2>2. fix.at = "submit" /\ SubmitOK(fix.order)
    BY <1>6 DEF SubmitNew, GInv, FixOK
  <2>3. item \in WorkItem /\ item.tag = "ORDER" /\ item.order = fix.order
    BY <2>1, <2>2 DEF SubmitOK, WorkItem
  <2>4. Push(item) /\ fix' = Idle /\ order_seq_' = order_seq_ /\ active_orders_' = active_orders_
    BY <1>6, <2>1 DEF SubmitNew, maps
  <2>5. QueuedIds' = QueuedIds \cup SubmitIds
    BY <1>1, <2>2, <2>3, <2>4, PushKeeps DEF SubmitIds
  <2>6. \E it \in WorkItem : /\ Push(it)
                             /\ it.tag = "SNAPSHOT" => \E c \in Clients : RecvMarketDataRequest(c)
    BY <2>3, <2>4
  <2> QED BY <1>1, <1>3, <2>4, <2>5, <2>6 DEF FixMoves
<1>7. CASE PushRequest
  <2>1. RequestOK(fix.item) /\ Push(fix.item) /\ fix' = Idle
        /\ order_seq_' = order_seq_ /\ active_orders_' = active_orders_
    BY <1>7 DEF PushRequest, Request, GInv, FixOK, maps
  <2>2. fix.item \in WorkItem /\ fix.item.tag \in {"CANCEL", "REPLACE"}
    BY <2>1, RequestIsWork
  <2>3. QueuedIds' = QueuedIds
    BY <1>1, <2>1, <2>2, PushKeeps
  <2>4. \E it \in WorkItem : /\ Push(it)
                             /\ it.tag = "SNAPSHOT" => \E c \in Clients : RecvMarketDataRequest(c)
    BY <2>1, <2>2
  <2> QED BY <1>1, <1>3, <2>1, <2>3, <2>4 DEF FixMoves
<1>8. ASSUME NEW c \in Clients, RecvMarketDataRequest(c)
      PROVE  FixMoves
  <2>1. PICK item : item = [tag |-> "SNAPSHOT"]
    OBVIOUS
  <2>2. item \in WorkItem /\ item.tag = "SNAPSHOT"
    BY <2>1 DEF WorkItem
  <2>3. Push(item) /\ UNCHANGED << order_seq_, gwvars >>
    BY <1>8, <2>1 DEF RecvMarketDataRequest, RequestSnapshot, Request
  <2>4. QueuedIds' = QueuedIds
    BY <1>1, <2>2, <2>3, PushKeeps
  <2>5. active_orders_' = active_orders_ /\ SubmitIds' = SubmitIds
    BY <2>3 DEF gwvars, SubmitIds
  <2>6. \E it \in WorkItem : /\ Push(it)
                             /\ it.tag = "SNAPSHOT" => \E d \in Clients : RecvMarketDataRequest(d)
    BY <1>8, <2>2, <2>3
  <2> QED BY <1>1, <2>3, <2>4, <2>5, <2>6 DEF FixMoves
<1> QED BY <1>4, <1>5, <1>6, <1>7, <1>8 DEF GwFix, GwOrders

LEMMA SyncedFrame ==
    ASSUME NEW os, Synced(os), order_seq_ \in Nat, order_seq_' \in Nat, order_seq_ <= order_seq_',
           DOMAIN os \cap NotYet' = {},
           \A id \in DOMAIN os \cap DOMAIN active_orders_' :
               id \in DOMAIN active_orders_ /\ active_orders_'[id] = active_orders_[id],
           MakerDue' =>
               \/ MakerDue /\ call' = call
               \/ call'.maker.exchange_id \in DOMAIN os =>
                      /\ os[call'.maker.exchange_id].symbol = call'.maker.symbol
                      /\ os[call'.maker.exchange_id].side = call'.maker.side
    PROVE  Synced(os)'
<1>1. DOMAIN os \subseteq 1 .. order_seq_'
  BY DEF Synced
<1>2. \A id \in DOMAIN os \cap DOMAIN active_orders_' :
          /\ os[id].symbol = active_orders_'[id].symbol
          /\ os[id].side = active_orders_'[id].side
          /\ os[id].price = active_orders_'[id].price
  BY DEF Synced
<1>3. ASSUME MakerDue', call'.maker.exchange_id \in DOMAIN os
      PROVE  /\ os[call'.maker.exchange_id].symbol = call'.maker.symbol
             /\ os[call'.maker.exchange_id].side = call'.maker.side
  BY <1>3 DEF Synced
<1> QED BY <1>1, <1>2, <1>3 DEF Synced, Shown

LEMMA AsideSynced ==
    ASSUME GInv, NEW os, Synced(os), GwMain \/ GwAdmin \/ GwOver \/ UNCHANGED allvars
    PROVE  Synced(os)'
<1>1. /\ UNCHANGED << gwvars, queue_, order_seq_, cur, call >>
      /\ pc' = pc \/ (pc' = "run" /\ pc # "match")
  BY AsideMoves
<1>2. QueuedIds' = QueuedIds /\ SubmitIds' = SubmitIds /\ active_orders_' = active_orders_
      /\ phase' = phase
  BY <1>1 DEF QueuedIds, SubmitIds, gwvars
<1>3. NotYet' \subseteq NotYet
  BY <1>1, <1>2 DEF NotYet
<1>4. DOMAIN os \cap NotYet' = {}
  BY <1>3 DEF Synced
<1>5. MakerDue' => MakerDue /\ call' = call
  BY <1>1, <1>2 DEF MakerDue, InFill
<1>6. order_seq_ \in Nat
  BY DEF GInv, IInv, TypeOK
<1> QED BY <1>1, <1>2, <1>4, <1>5, <1>6, SyncedFrame

LEMMA FixSynced ==
    ASSUME GInv, NEW os, Synced(os), GwFix
    PROVE  Synced(os)'
<1>1. UNCHANGED << call, cur, phase, pc >>
  BY FixLeavesEngine
<1>2. FixMoves
  BY FixMovesOK
<1>3. \A id \in DOMAIN os : id \in Int /\ id <= order_seq_
  BY <1>2 DEF Synced, FixMoves
<1>4. order_seq_ + 1 \notin DOMAIN os
  BY <1>2, <1>3 DEF FixMoves
<1>5. NotYet' \subseteq NotYet \cup {order_seq_ + 1}
  BY <1>1, <1>2 DEF NotYet, FixMoves
<1>6. DOMAIN os \cap NotYet' = {}
  BY <1>4, <1>5 DEF Synced
<1>7. \A id \in DOMAIN os \cap DOMAIN active_orders_' :
          id \in DOMAIN active_orders_ /\ active_orders_'[id] = active_orders_[id]
  BY <1>2, <1>4 DEF FixMoves
<1>8. MakerDue' => MakerDue /\ call' = call
  BY <1>1 DEF MakerDue, InFill
<1>9. order_seq_ \in Nat /\ order_seq_' \in Nat /\ order_seq_ <= order_seq_'
  BY <1>2 DEF FixMoves
<1> QED BY <1>6, <1>7, <1>8, <1>9, SyncedFrame

EngineSide ==
    /\ RunOrder \/ RunCancel \/ RunReplace \/ RunSnapshot \/ MatchFill \/ MatchEnd \/ Exit
    /\ UNCHANGED gwvars

\* An order leaves the queue for add(), and add() for a book.
LEMMA EngineNotYet ==
    ASSUME GInv, EngineSide
    PROVE  /\ NotYet' \subseteq NotYet /\ order_seq_' = order_seq_ /\ call = NoCall
           /\ ~MatchFill => ~MakerDue'
<1>1. SubmitIds' = SubmitIds /\ IInv
  BY DEF EngineSide, gwvars, SubmitIds, GInv
<1>2. ASSUME NEW tag, Pop(tag)
      PROVE  QueuedIds' \subseteq QueuedIds /\ call = NoCall /\ pc = "run"
             /\ (tag = "ORDER" => Head(queue_).order.exchange_id \in QueuedIds)
  <2>1. /\ 1 \in DOMAIN queue_ /\ Head(queue_) = queue_[1] /\ Head(queue_).tag = tag
        /\ pc = "run" /\ call = NoCall
        /\ \A i \in DOMAIN queue_' : i + 1 \in DOMAIN queue_ /\ queue_'[i] = queue_[i + 1]
    BY <1>1, <1>2, PopQueue
  <2> QED BY <2>1 DEF QueuedIds
<1>3. CASE RunOrder
  <2>1. PICK o : o = Head(queue_).order
    OBVIOUS
  <2>2. /\ Pop("ORDER") /\ UNCHANGED order_seq_
        /\ \/ /\ call'.fn = "on_tif_cancel" /\ UNCHANGED << pc, cur >>
           \/ /\ call' = NoCall /\ pc' = "match" /\ cur'.tag = "ORDER"
              /\ cur'.order.exchange_id = o.exchange_id
           \/ call' = NoCall /\ pc' # "match"
    BY <1>3, <2>1, RunOrderFacts DEF Alike
  <2>3. QueuedIds' \subseteq QueuedIds /\ call = NoCall /\ pc = "run" /\ o.exchange_id \in QueuedIds
    BY <1>2, <2>1, <2>2
  <2> QED BY <1>1, <2>2, <2>3 DEF NotYet, MakerDue, InFill, NoCall
<1>4. CASE RunCancel
  <2>1. Pop("CANCEL") /\ UNCHANGED order_seq_ /\ pc' # "match"
        /\ (call' = NoCall \/ call'.fn = "on_cancel")
    BY <1>4, RunCancelFacts
  <2> QED BY <1>1, <1>2, <2>1 DEF NotYet, MakerDue, InFill, NoCall
<1>5. CASE RunReplace
  <2>1. Pop("REPLACE") /\ UNCHANGED order_seq_ /\ (pc' # "match" \/ cur'.tag = "REPLACE")
        /\ (call' = NoCall \/ call'.fn = "on_replace")
    BY <1>5, RunReplaceFacts
  <2> QED BY <1>1, <1>2, <2>1 DEF NotYet, MakerDue, InFill, NoCall
<1>6. CASE RunSnapshot
  <2>1. Pop("SNAPSHOT") /\ UNCHANGED << order_seq_, pc >> /\ call'.fn = "snapshot_cb"
    BY <1>6 DEF RunSnapshot, SnapshotCb
  <2> QED BY <1>1, <1>2, <2>1 DEF NotYet, MakerDue, InFill
<1>7. CASE MatchFill
  <2>1. /\ pc = "match" /\ call = NoCall /\ UNCHANGED << queue_, pc, order_seq_ >>
        /\ cur'.tag = cur.tag /\ cur'.order.exchange_id = cur.order.exchange_id
        /\ call'.fn = "on_fill"
    BY <1>7, MatchFillFacts DEF Alike
  <2>2. QueuedIds' = QueuedIds
    BY <2>1 DEF QueuedIds
  <2> QED BY <1>1, <1>7, <2>1, <2>2 DEF NotYet
<1>8. CASE MatchEnd
  <2>1. /\ pc = "match" /\ call = NoCall /\ pc' = "run" /\ UNCHANGED << queue_, order_seq_ >>
        /\ call'.fn # "on_fill"
    BY <1>8, MatchEndFacts
  <2>2. call'.fn = "on_order_rested" =>
            cur.tag = "ORDER" /\ call'.order.exchange_id = cur.order.exchange_id
    BY <1>8, RestedFacts DEF Alike
  <2>3. QueuedIds' = QueuedIds
    BY <2>1 DEF QueuedIds
  <2> QED BY <1>1, <2>1, <2>2, <2>3 DEF NotYet, MakerDue, InFill
<1>9. CASE Exit
  <2>1. call = NoCall /\ call' = NoCall /\ pc' # "match" /\ UNCHANGED << queue_, order_seq_ >>
    BY <1>9 DEF Exit
  <2>2. QueuedIds' = QueuedIds
    BY <2>1 DEF QueuedIds
  <2> QED BY <1>1, <2>1, <2>2 DEF NotYet, MakerDue, InFill, NoCall
<1> QED BY <1>3, <1>4, <1>5, <1>6, <1>7, <1>8, <1>9 DEF EngineSide

LEMMA EngineSynced ==
    ASSUME GInv, KInv, NEW os, Synced(os), EngineSide
    PROVE  Synced(os)'
<1>1. NotYet' \subseteq NotYet /\ order_seq_' = order_seq_ /\ (~MatchFill => ~MakerDue')
  BY EngineNotYet
<1>2. active_orders_' = active_orders_ /\ order_seq_ \in Nat
  BY DEF EngineSide, gwvars, GInv, IInv, TypeOK
<1>3. DOMAIN os \cap NotYet' = {}
  BY <1>1 DEF Synced
<1>4. ASSUME MatchFill, call'.maker.exchange_id \in DOMAIN os
      PROVE  /\ os[call'.maker.exchange_id].symbol = call'.maker.symbol
             /\ os[call'.maker.exchange_id].side = call'.maker.side
  <2>1. PICK o, book, r : o = cur.order /\ book = books_[o.symbol] /\ r = Resting(book, o)
    OBVIOUS
  <2>2. /\ pc = "match" /\ CanMatch(book, o)
        /\ \E x, y, z : call' = OnFill(MakeFill(r, r.price, x, y), z)
    BY <1>4, <2>1 DEF MatchFill
  <2>3. /\ call'.maker.exchange_id = r.exchange_id /\ call'.maker.symbol = r.symbol
        /\ call'.maker.side = r.side
    BY <2>2 DEF OnFill, MakeFill
  <2>4. o \in Order /\ o.symbol \in DOMAIN books_ /\ BookOK(book)
    BY <2>1, <2>2 DEF GInv, IInv, TypeOK, BooksOK, Aggressor
  <2>5. r.exchange_id \in DOMAIN book.order_index_ /\ book.order_index_[r.exchange_id] = r
    BY <2>1, <2>2, <2>4, RestingProperties
  <2>6. RestingOK(r)
    BY <2>1, <2>4, <2>5 DEF KInv, PartiesOK, ListedOK
  <2>7. /\ r.exchange_id \in DOMAIN active_orders_
        /\ active_orders_[r.exchange_id].symbol = r.symbol
        /\ active_orders_[r.exchange_id].side = r.side
    BY <2>6 DEF RestingOK, Known, SameOrder
  <2> QED BY <1>4, <2>3, <2>7 DEF Synced
<1> QED BY <1>1, <1>2, <1>3, <1>4, SyncedFrame

\* A step of the exchange that is no callback.
LEMMA OtherSynced ==
    ASSUME GInv, KInv, NEW os, Synced(os), [GwNext]_allvars, ~GwCallback
    PROVE  Synced(os)'
<1>1. CASE GwMain \/ GwAdmin \/ GwOver \/ UNCHANGED allvars
  BY <1>1, AsideSynced
<1>2. CASE GwFix
  BY <1>2, FixSynced
<1>3. CASE EngineSide
  BY <1>3, EngineSynced
<1> QED BY <1>1, <1>2, <1>3 DEF GwNext, GwEngine, GwCallback, EngineSide

LEMMA EngineOKAside ==
    ASSUME GInv, KInv, EngineOK, GwMain \/ GwAdmin \/ GwOver \/ UNCHANGED allvars
    PROVE  EngineOK'
<1>1. /\ UNCHANGED << gwvars, cur, call >> /\ (pc' = "match" => pc = "match")
      /\ \A s \in DOMAIN books_ : s \in DOMAIN books_' /\ books_'[s] = books_[s]
  BY AsideMoves DEF KInv
<1>2. active_orders_' = active_orders_
  BY <1>1 DEF gwvars
<1>3. RestedOK'
  BY <1>1 DEF EngineOK, RestedOK
<1>4. ReplaceTerms'
  BY <1>1, <1>2 DEF EngineOK, ReplaceTerms
<1>5. SnapshotOK'
  BY <1>1 DEF EngineOK, SnapshotOK
<1> QED BY <1>3, <1>4, <1>5 DEF EngineOK

LEMMA EngineOKFix ==
    ASSUME GInv, EngineOK, GwFix
    PROVE  EngineOK'
<1>1. UNCHANGED << books_, call, cur, phase, pc >>
  BY FixLeavesEngine
<1>2. FixMoves
  BY FixMovesOK
<1>3. RestedOK' /\ SnapshotOK'
  BY <1>1 DEF EngineOK, RestedOK, SnapshotOK
<1>4. ReplaceTerms'
  <2>1. ASSUME call.fn = "on_replace", call.found, call.req.orig_order_id \in DOMAIN active_orders_'
        PROVE  active_orders_'[call.req.orig_order_id].symbol = call.req.symbol
    <3>1. call.req.orig_order_id \in 1 .. order_seq_ /\ order_seq_ \in Nat
      BY <1>2, <2>1 DEF GInv, ReplacesOK, ReplaceOK, FixMoves
    <3>2. call.req.orig_order_id # order_seq_ + 1
      BY <3>1
    <3> QED BY <1>2, <2>1, <3>2 DEF FixMoves, EngineOK, ReplaceTerms
  <2> QED BY <1>1, <2>1 DEF EngineOK, ReplaceTerms
<1> QED BY <1>3, <1>4 DEF EngineOK

LEMMA EngineOKCallback ==
    ASSUME GInv, EngineOK, GwCallback
    PROVE  EngineOK'
<1>1. \/ UNCHANGED vars /\ call.fn = "on_fill"
      \/ CallbackReturn
  BY CallbackPushes DEF Unreported, EventOf, InFill
<1>2. UNCHANGED << books_, cur, pc >> /\ (call' = NoCall \/ (call' = call /\ call.fn = "on_fill"))
  BY <1>1 DEF vars, CallbackReturn
<1> QED BY <1>2 DEF EngineOK, RestedOK, ReplaceTerms, SnapshotOK, NoCall

LEMMA EngineOKEngine ==
    ASSUME GInv, GInv', KInv, EngineOK, EngineSide
    PROVE  EngineOK'
<1>1. active_orders_' = active_orders_ /\ IInv
  BY DEF EngineSide, gwvars, GInv
<1>2. CallOK'
  BY DEF GInv
<1>3. CASE RunOrder
  <2>1. /\ UNCHANGED books_ /\ call = NoCall /\ pc = "run"
        /\ \/ call'.fn = "on_tif_cancel" /\ pc' = pc
           \/ call' = NoCall /\ (pc' # "match" \/ cur'.tag = "ORDER")
    BY <1>3, RunOrderFacts
  <2> QED BY <2>1 DEF EngineOK, RestedOK, ReplaceTerms, SnapshotOK, NoCall
<1>4. CASE RunCancel
  <2>1. /\ DOMAIN books_' = DOMAIN books_ /\ pc' # "match"
        /\ call' = NoCall \/ call'.fn = "on_cancel"
    BY <1>4, RunCancelFacts DEF StillBooks, Indexed
  <2> QED BY <2>1 DEF EngineOK, RestedOK, ReplaceTerms, SnapshotOK, NoCall
<1>5. CASE RunReplace
  <2>1. PICK req, s, id, e : /\ req = Head(queue_).req /\ s = req.symbol /\ id = req.orig_order_id
                             /\ e = books_[s].order_index_[id]
    OBVIOUS
  <2>2. \/ call' = NoCall /\ pc' # "match" /\ StillBooks
        \/ call'.fn = "on_replace" /\ call'.leaves_qty = -1 /\ pc' # "match" /\ StillBooks
        \/ /\ call'.fn = "on_replace" /\ call'.req = req /\ pc' # "match"
           /\ s \in DOMAIN books_ /\ id \in DOMAIN books_[s].order_index_
           /\ DOMAIN books_' = DOMAIN books_
        \/ /\ call' = NoCall /\ cur'.req = req
           /\ s \in DOMAIN books_ /\ id \in DOMAIN books_[s].order_index_
           /\ cur'.order.symbol = e.symbol
           /\ DOMAIN books_' = DOMAIN books_
    <3>1. /\ \/ call' = NoCall /\ pc' # "match" /\ cur' = cur /\ StillBooks
             \/ /\ call'.fn = "on_replace" /\ call'.req = req /\ call'.leaves_qty = -1
                /\ pc' # "match" /\ cur' = cur /\ StillBooks
             \/ /\ call'.fn = "on_replace" /\ call'.req = req
                /\ call'.leaves_qty = req.new_qty
                /\ pc' # "match" /\ cur' = cur
                /\ s \in DOMAIN books_ /\ id \in DOMAIN books_[s].order_index_
                /\ \E n : /\ Alike(n, e) /\ n.price = req.new_price
                          /\ n.leaves_qty = req.new_qty
                          /\ Indexed(s, Put(books_[s].order_index_, id, n))
             \/ /\ call' = NoCall /\ pc' = "match" /\ cur'.tag = "REPLACE" /\ cur'.req = req
                /\ s \in DOMAIN books_ /\ id \in DOMAIN books_[s].order_index_
                /\ Alike(cur'.order, e) /\ cur'.order.price = req.new_price
                /\ cur'.order.qty = req.new_qty /\ cur'.order.leaves_qty = req.new_qty
                /\ Indexed(s, Drop(books_[s].order_index_, id))
      BY <1>5, <2>1, RunReplaceFacts
    <3> QED BY <3>1 DEF Indexed, Alike
  <2>3. ASSUME s \in DOMAIN books_, id \in DOMAIN books_[s].order_index_
        PROVE  e.symbol = req.symbol
               /\ (id \in DOMAIN active_orders_ => active_orders_[id].symbol = req.symbol)
    <3>1. e.exchange_id = id /\ e.symbol = s
      BY <1>1, <2>1, <2>3, EntryFields
    <3>2. RestingOK(e)
      BY <2>1, <2>3 DEF KInv, PartiesOK, ListedOK
    <3> QED BY <2>1, <3>1, <3>2 DEF RestingOK, SameOrder
  <2>4. call'.fn = "on_replace" /\ call'.leaves_qty = -1 => ~call'.found
    <3> SUFFICES ASSUME call'.fn = "on_replace", call'.leaves_qty = -1 PROVE ~call'.found
      OBVIOUS
    <3>1. call'.found = (call'.leaves_qty >= 0)
      BY <1>2 DEF CallOK
    <3>2. ~(call'.leaves_qty >= 0)
      OBVIOUS
    <3> QED BY <3>1, <3>2, Zenon
  <2>5. DOMAIN books_' = DOMAIN books_
    BY <2>2 DEF StillBooks
  <2>6. RestedOK' /\ SnapshotOK'
    BY <2>2, <2>5 DEF EngineOK, RestedOK, SnapshotOK, NoCall
  <2>7. ReplaceTerms'
    BY <1>1, <2>1, <2>2, <2>3, <2>4 DEF ReplaceTerms, NoCall
  <2> QED BY <2>6, <2>7 DEF EngineOK
<1>6. CASE RunSnapshot
  <2>1. /\ UNCHANGED << books_, pc >> /\ pc = "run"
        /\ \E f : call' = SnapshotCb([s \in DOMAIN books_ |-> f[s]])
                  /\ \A s \in DOMAIN books_ : f[s].orders = GetOrders(books_[s])
    <3>1. PICK f : f = [s \in DOMAIN books_ |-> [bids   |-> GetLevels(books_[s], "buy"),
                                                 asks   |-> GetLevels(books_[s], "sell"),
                                                 orders |-> GetOrders(books_[s])]]
      OBVIOUS
    <3>2. call' = SnapshotCb(f) /\ UNCHANGED << books_, pc >> /\ pc = "run"
      BY <1>6, <3>1 DEF RunSnapshot, Pop, valid_symbols_
    <3>3. \A s \in DOMAIN books_ : f[s].orders = GetOrders(books_[s])
      BY <3>1
    <3>4. f = [s \in DOMAIN books_ |-> f[s]]
      BY <3>1
    <3> QED BY <3>2, <3>3, <3>4
  <2>2. PICK f : /\ call' = SnapshotCb([s \in DOMAIN books_ |-> f[s]])
                 /\ \A s \in DOMAIN books_ : f[s].orders = GetOrders(books_[s])
    BY <2>1
  <2>3. call'.fn = "snapshot_cb" /\ call'.snaps = [s \in DOMAIN books_ |-> f[s]]
    BY <2>2 DEF SnapshotCb
  <2> QED BY <2>1, <2>2, <2>3 DEF EngineOK, RestedOK, ReplaceTerms, SnapshotOK
<1>7. CASE MatchFill
  <2>1. /\ pc = "match" /\ call'.fn = "on_fill" /\ cur'.tag = cur.tag
        /\ cur.tag = "REPLACE" => cur'.req = cur.req
        /\ cur'.order.symbol = cur.order.symbol
        /\ DOMAIN books_' = DOMAIN books_
    BY <1>7, MatchFillFacts DEF Alike, Indexed
  <2> QED BY <2>1 DEF EngineOK, RestedOK, ReplaceTerms, SnapshotOK
<1>8. CASE MatchEnd
  <2>1. PICK o, s : o = cur.order /\ s = o.symbol
    OBVIOUS
  <2>2. /\ pc = "match" /\ pc' = "run" /\ s \in DOMAIN books_
        /\ IF o.leaves_qty > 0 /\ o.type = "limit" /\ o.tif # "ioc"
           THEN Indexed(s, Put(books_[s].order_index_, o.exchange_id, o))
           ELSE StillBooks
        /\ \/ cur.tag = "REPLACE" /\ call'.fn = "on_replace" /\ call'.req = cur.req
           \/ call'.fn \in {"on_tif_cancel", "none", "on_order_rested"}
    BY <1>8, <2>1, MatchEndFacts
  <2>3. DOMAIN books_' = DOMAIN books_
    BY <2>2 DEF StillBooks, Indexed
  <2>4. SnapshotOK'
    BY <2>2, <2>3 DEF EngineOK, SnapshotOK
  <2>5. ReplaceTerms'
    <3>1. ASSUME cur.tag = "REPLACE", cur.req.orig_order_id \in DOMAIN active_orders_
          PROVE  active_orders_[cur.req.orig_order_id].symbol = cur.req.symbol
      BY <2>2, <3>1 DEF EngineOK, ReplaceTerms, KInv, PartiesOK, CurrentOK, SameOrder
    <3> QED BY <1>1, <2>2, <3>1 DEF ReplaceTerms
  <2>6. RestedOK'
    <3>1. ASSUME call'.fn = "on_order_rested"
          PROVE  /\ s \in DOMAIN books_' /\ call'.order.exchange_id \in DOMAIN books_'[s].order_index_
                 /\ books_'[s].order_index_[call'.order.exchange_id] = o
                 /\ RowLike(call'.order, o) /\ call'.order.price = o.price
                 /\ call'.leaves_qty = o.leaves_qty
      <4>1. /\ o.tif = "gtc" /\ o.type = "limit" /\ o.leaves_qty > 0
            /\ call'.leaves_qty = o.leaves_qty /\ Alike(call'.order, o) /\ call'.order.price = o.price
        BY <1>8, <2>1, <3>1, RestedFacts
      <4>2. Indexed(s, Put(books_[s].order_index_, o.exchange_id, o))
        BY <2>2, <4>1
      <4> QED BY <4>1, <4>2 DEF Indexed, Put, Alike, RowLike
    <3> QED BY <3>1 DEF RestedOK
  <2> QED BY <2>4, <2>5, <2>6 DEF EngineOK
<1>9. CASE Exit
  BY <1>9 DEF Exit, EngineOK, RestedOK, ReplaceTerms, SnapshotOK, NoCall
<1> QED BY <1>3, <1>4, <1>5, <1>6, <1>7, <1>8, <1>9 DEF EngineSide

LEMMA EngineOKStep ==
    ASSUME GInv, GInv', KInv, EngineOK, [GwNext]_allvars
    PROVE  EngineOK'
<1>1. CASE GwMain \/ GwAdmin \/ GwOver \/ UNCHANGED allvars
  BY <1>1, EngineOKAside
<1>2. CASE GwFix
  BY <1>2, EngineOKFix
<1>3. CASE GwCallback
  BY <1>3, EngineOKCallback
<1>4. CASE EngineSide
  BY <1>4, EngineOKEngine
<1> QED BY <1>1, <1>2, <1>3, <1>4 DEF GwNext, GwEngine, GwCallback, EngineSide

---------------------------------------------------------------------------
(* The request of the server                                               *)

\* The handlers but that of MarketDataRequest push no snapshot.
LEMMA OrdersQueue ==
    ASSUME GInv, GwOrders
    PROVE  \/ queue_' = queue_
           \/ \E item \in WorkItem : Push(item) /\ item.tag # "SNAPSHOT"
<1>1. CASE \/ \E c \in Clients : Logon(c) \/ Logout(c)
           \/ SendStatus
           \/ \E c \in Clients, orig \in ClOrdIds, s \in MsgSymbols : RecvCancel(c, orig, s)
           \/ \E c \in Clients, orig, cl \in ClOrdIds, s \in MsgSymbols, side \in Sides,
                 p \in Prices, q \in ReplaceQtys : RecvReplace(c, orig, cl, s, side, p, q)
  <2>1. ASSUME NEW c \in Clients
        PROVE  /\ Logon(c) \/ Logout(c) => UNCHANGED vars
               /\ \A orig \in ClOrdIds, s \in MsgSymbols :
                      /\ RecvCancel(c, orig, s) => UNCHANGED vars
                      /\ \A cl \in ClOrdIds, side \in Sides, p \in Prices, q \in ReplaceQtys :
                             RecvReplace(c, orig, cl, s, side, p, q) => UNCHANGED vars
    BY DEF Logon, Logout, RecvCancel, RecvReplace
  <2>2. SendStatus => UNCHANGED vars
    BY DEF SendStatus
  <2>3. UNCHANGED vars
    BY <1>1, <2>1, <2>2, Zenon
  <2> QED BY <2>3 DEF vars
<1>2. CASE \E m \in NewOrderMsgs, c \in Clients : RejectNew(m, c)
  BY <1>2 DEF RejectNew, Reject
<1>3. CASE \E m \in NewOrderMsgs, c \in Clients, cl \in ClOrdIds : AcceptNew(m, c, cl)
  BY <1>3 DEF AcceptNew
<1>4. CASE SubmitNew
  <2>1. PICK item : item = [tag |-> "ORDER", order |-> fix.order]
    OBVIOUS
  <2>2. SubmitOK(fix.order) /\ Push(item)
    BY <1>4, <2>1 DEF SubmitNew, GInv, FixOK
  <2>3. item \in WorkItem /\ item.tag = "ORDER"
    BY <2>1, <2>2 DEF SubmitOK, WorkItem
  <2> QED BY <2>2, <2>3
<1>5. CASE PushRequest
  <2>1. RequestOK(fix.item) /\ Push(fix.item)
    BY <1>5 DEF PushRequest, Request, GInv, FixOK
  <2>2. fix.item \in WorkItem /\ fix.item.tag \in {"CANCEL", "REPLACE"}
    BY <2>1, RequestIsWork
  <2> QED BY <2>1, <2>2
<1> QED BY <1>1, <1>2, <1>3, <1>4, <1>5 DEF GwOrders

\* As long as the request is not answered its server waits for it or has given up.
AskedBy == ui = "asked" \/ (ui = "joined" /\ gap)

\* A step that pushes no snapshot and leaves the engine in its callback.
LEMMA AskedFrame ==
    ASSUME GInv, AskedOK, AskedBy => AskedBy', call'.fn = "snapshot_cb" => call.fn = "snapshot_cb",
           \/ queue_' = queue_
           \/ \E item \in WorkItem : Push(item) /\ item.tag # "SNAPSHOT"
    PROVE  AskedOK'
<1>1. Asked' = Asked
  <2>1. CASE queue_' = queue_
    BY <2>1 DEF Asked
  <2>2. ASSUME NEW item \in WorkItem, Push(item), item.tag # "SNAPSHOT"
        PROVE  Asked' = Asked
    <3>1. queue_ \in Seq(WorkItem) /\ queue_' = Append(queue_, item)
      BY <2>2 DEF Push, GInv, IInv, TypeOK
    <3>2. DOMAIN queue_' = DOMAIN queue_ \cup {Len(queue_) + 1}
          /\ Len(queue_) + 1 \notin DOMAIN queue_ /\ queue_'[Len(queue_) + 1] = item
          /\ \A i \in DOMAIN queue_ : queue_'[i] = queue_[i]
      BY <3>1, AppendProperties, LenProperties
    <3> QED BY <2>2, <3>2 DEF Asked
  <2> QED BY <2>1, <2>2
<1> QED BY <1>1 DEF AskedOK, AskedBy

\* A pop moves the requests that are left one place to the front.
LEMMA AskedPop ==
    ASSUME GInv, AskedOK, NEW tag, Pop(tag)
    PROVE  /\ Asked' # {} => Asked # {}
           /\ \A i, j \in Asked' : i = j
           /\ tag = "SNAPSHOT" => Asked # {} /\ Asked' = {}
<1>1. /\ 1 \in DOMAIN queue_ /\ queue_[1].tag = tag
      /\ \A i \in DOMAIN queue_' : i \in Nat /\ i # 0 /\ i + 1 \in DOMAIN queue_
                                   /\ queue_'[i] = queue_[i + 1]
  <2>1. queue_ \in Seq(WorkItem) /\ queue_ # << >> /\ queue_' = Tail(queue_) /\ Head(queue_).tag = tag
    BY DEF Pop, GInv, IInv, TypeOK
  <2>2. \A i \in DOMAIN Tail(queue_) : i # 0
    BY <2>1, HeadTailProperties, LenProperties
  <2> QED BY <2>1, <2>2, PopProperties
<1>2. \A i \in Asked' : i \in Nat /\ i # 0 /\ i + 1 \in Asked
  BY <1>1 DEF Asked
<1>3. \A i, j \in Asked : i = j
  BY DEF AskedOK
<1>4. ASSUME NEW i \in Asked', NEW j \in Asked' PROVE i = j
  <2>1. i \in Nat /\ j \in Nat /\ i + 1 = j + 1
    BY <1>2, <1>3
  <2> QED BY <2>1
<1>5. ASSUME tag = "SNAPSHOT" PROVE 1 \in Asked /\ Asked' = {}
  <2>1. 1 \in Asked
    BY <1>1, <1>5 DEF Asked
  <2>2. ASSUME NEW i \in Asked' PROVE FALSE
    <3>1. i \in Nat /\ i # 0 /\ i + 1 = 1
      BY <1>2, <1>3, <2>1
    <3> QED BY <3>1
  <2> QED BY <2>1, <2>2
<1> QED BY <1>2, <1>4, <1>5

\* The engine thread outside callbacks.
LEMMA AskedEngine ==
    ASSUME GInv, AskedOK, EngineSide, AskedBy => AskedBy'
    PROVE  AskedOK'
<1>1. IInv
  BY DEF GInv
<1>2. CASE RunOrder \/ RunCancel \/ RunReplace
  <2>1. \/ Pop("ORDER") /\ call'.fn # "snapshot_cb"
        \/ Pop("CANCEL") /\ call'.fn # "snapshot_cb"
        \/ Pop("REPLACE") /\ call'.fn # "snapshot_cb"
    <3>1. CASE RunOrder
      BY <3>1, RunOrderFacts DEF NoCall
    <3>2. CASE RunCancel
      <4>1. Pop("CANCEL") /\ (call' = NoCall \/ call'.fn = "on_cancel")
        BY <3>2, RunCancelFacts, Zenon
      <4> QED BY <4>1 DEF NoCall
    <3>3. CASE RunReplace
      <4>1. Pop("REPLACE") /\ (call' = NoCall \/ call'.fn = "on_replace")
        BY <3>3, RunReplaceFacts, Zenon
      <4> QED BY <4>1 DEF NoCall
    <3> QED BY <1>2, <3>1, <3>2, <3>3
  <2>2. call'.fn # "snapshot_cb" /\ (Asked' # {} => Asked # {}) /\ \A i, j \in Asked' : i = j
    BY <2>1, AskedPop
  <2> QED BY <2>2 DEF AskedOK, AskedBy
<1>3. CASE RunSnapshot
  <2>1. Pop("SNAPSHOT")
    BY <1>3 DEF RunSnapshot
  <2>2. Asked # {} /\ Asked' = {}
    BY <2>1, AskedPop
  <2> QED BY <2>2 DEF AskedOK, AskedBy
<1>4. CASE MatchFill \/ MatchEnd \/ Exit
  <2>1. queue_' = queue_ /\ call'.fn # "snapshot_cb"
    <3>1. CASE MatchFill
      BY <3>1, MatchFillFacts
    <3>2. CASE MatchEnd
      BY <3>2, MatchEndFacts
    <3>3. CASE Exit
      BY <3>3 DEF Exit, NoCall
    <3> QED BY <1>4, <3>1, <3>2, <3>3
  <2> QED BY <2>1, AskedFrame
<1> QED BY <1>2, <1>3, <1>4 DEF EngineSide

\* A callback; the answer finds no other request behind it.
LEMMA AskedCallback ==
    ASSUME GInv, AskedOK, GwCallback, call.fn # "snapshot_cb" => (AskedBy => AskedBy')
    PROVE  AskedOK'
<1>1. queue_' = queue_ /\ (call' = call \/ call' = NoCall)
  BY CallbackPushes DEF CallbackReturn, vars
<1>2. CASE call.fn = "snapshot_cb"
  <2>1. call' = NoCall
    BY <1>2, CallbackPushes DEF Unreported, EventOf, CallbackReturn, InFill
  <2>2. Asked' = {}
    BY <1>1, <1>2 DEF AskedOK, Asked
  <2> QED BY <2>1, <2>2 DEF AskedOK, NoCall
<1>3. CASE call.fn # "snapshot_cb"
  BY <1>1, <1>3, AskedFrame DEF NoCall
<1> QED BY <1>2, <1>3

\* Every step of the feed is one of the gateway's, or leaves the gateway alone.
LEMMA FeedIsGateway ==
    ASSUME [FeedNext]_fvars
    PROVE  /\ [GwNext]_allvars
           /\ \/ FeedEngine
              \/ FeedExchange
              \/ \E c \in Clients : UiAsk(c)
              \/ UNCHANGED allvars /\ \/ \E s \in InitSymbols : UiSnapshot(s)
                                      \/ UiJoin \/ UiTimeout \/ UiReceive
                                      \/ UNCHANGED feedvars
<1>1. \/ FeedEngine \/ FeedExchange
      \/ \E c \in Clients : UiAsk(c)
      \/ \E s \in InitSymbols : UiSnapshot(s)
      \/ UiJoin \/ UiTimeout \/ UiReceive
      \/ UNCHANGED fvars
  BY DEF FeedNext, FeedUi
<1>2. FeedEngine \/ FeedExchange => GwNext
  BY DEF FeedEngine, FeedExchange, GwNext, GwFix
<1>3. (\E c \in Clients : UiAsk(c)) => GwNext
  BY DEF UiAsk, GwNext, GwFix
<1>4. /\ (\E s \in InitSymbols : UiSnapshot(s)) => UNCHANGED allvars
      /\ UiJoin \/ UiTimeout \/ UiReceive => UNCHANGED allvars
  BY DEF UiSnapshot, UiJoin, UiTimeout, UiReceive
<1>5. UNCHANGED fvars => UNCHANGED allvars /\ UNCHANGED feedvars
  BY DEF fvars
<1> QED BY <1>1, <1>2, <1>3, <1>4, <1>5

\* There is at most one request of the server on its way, and only while it waits for the
\* answer or has given up waiting.
LEMMA AskedStep ==
    ASSUME GInv, AskedOK, UiOK, [FeedNext]_fvars
    PROVE  AskedOK'
<1>1. CASE FeedEngine
  <2>1. call.fn # "snapshot_cb" => (AskedBy => AskedBy')
    BY <1>1 DEF FeedEngine, AskedBy, InCallback
  <2>2. GwCallback \/ EngineSide
    BY <1>1 DEF FeedEngine, GwEngine, GwCallback, EngineSide
  <2>3. EngineSide => call.fn # "snapshot_cb"
    BY EngineNotYet DEF NoCall
  <2> QED BY <2>1, <2>2, <2>3, AskedCallback, AskedEngine
<1>2. CASE FeedExchange
  <2>1. AskedBy' <=> AskedBy
    BY <1>2 DEF FeedExchange, feedvars, AskedBy
  <2>2. CASE GwMain \/ GwAdmin \/ GwOver
    BY <2>1, <2>2, AsideMoves, AskedFrame
  <2>3. CASE GwOrders
    <3>1. call' = call
      BY <2>3, FixLeavesEngine DEF GwFix
    <3> QED BY <2>1, <2>3, <3>1, OrdersQueue, AskedFrame
  <2> QED BY <1>2, <2>2, <2>3 DEF FeedExchange
<1>3. ASSUME NEW c \in Clients, UiAsk(c)
      PROVE  AskedOK'
  <2>1. ui = "off" /\ ui' = "asked" /\ RecvMarketDataRequest(c)
    BY <1>3 DEF UiAsk
  <2>2. Asked = {} /\ call.fn # "snapshot_cb"
    BY <2>1 DEF AskedOK
  <2>3. call' = call /\ queue_' = Append(queue_, [tag |-> "SNAPSHOT"]) /\ queue_ \in Seq(WorkItem)
    BY <2>1 DEF RecvMarketDataRequest, RequestSnapshot, Request, Push, GInv, IInv, TypeOK
  <2>4. [tag |-> "SNAPSHOT"] \in WorkItem
    BY DEF WorkItem
  <2>5. \A i \in DOMAIN queue_' : (i \in DOMAIN queue_ /\ queue_'[i] = queue_[i])
                                   \/ i = Len(queue_) + 1
    BY <2>3, <2>4, PushProperties
  <2>6. Asked' \subseteq {Len(queue_) + 1}
    BY <2>2, <2>5 DEF Asked
  <2> QED BY <2>1, <2>2, <2>3, <2>6 DEF AskedOK
<1>4. CASE /\ UNCHANGED allvars
           /\ \/ \E s \in InitSymbols : UiSnapshot(s)
              \/ UiJoin \/ UiTimeout \/ UiReceive
              \/ UNCHANGED feedvars
  <2>1. AskedBy => AskedBy'
    BY <1>4 DEF AskedBy, UiSnapshot, UiJoin, UiTimeout, UiReceive, feedvars
  <2>2. call' = call /\ queue_' = queue_
    BY <1>4 DEF allvars, vars
  <2> QED BY <2>1, <2>2, AskedFrame
<1> QED BY <1>1, <1>2, <1>3, <1>4, FeedIsGateway

---------------------------------------------------------------------------
(* The server                                                              *)

LEMMA EmptyViewOK ==
    /\ DOMAIN EmptyView(InitSymbols).order_book = InitSymbols
    /\ EmptyView(InitSymbols).order_state = NoEntry
    /\ SumsOK(EmptyView(InitSymbols))
<1>1. PICK v : v = EmptyView(InitSymbols)
  OBVIOUS
<1>2. v.order_state = NoEntry /\ v.order_book = [s \in InitSymbols |-> NoLevels]
      /\ v = [order_state |-> v.order_state, order_book |-> v.order_book]
  BY <1>1 DEF EmptyView
<1>3. Shown(NoEntry)
  <2>1. DOMAIN NoEntry = {}
    BY DEF NoEntry
  <2>2. IsFiniteSet(DOMAIN NoEntry)
    BY <2>1, FS_EmptySet
  <2>3. NoEntry \in [DOMAIN NoEntry -> Entry]
    BY DEF NoEntry
  <2> QED BY <2>2, <2>3 DEF Shown
<1>4. \A s, side : LevelSums(NoEntry, s, side) = NoEntry
  <2>1. \A s, side, p : IdsOf(NoEntry, s, side, p) = {}
    BY DEF IdsOf, NoEntry
  <2> TAKE s, side
  <2>2. {q \in Prices : IdsOf(NoEntry, s, side, q) # {}} = {}
    BY <2>1
  <2>3. LevelSums(NoEntry, s, side)
            = [p \in {} |-> Total(NoEntry, IdsOf(NoEntry, s, side, p))]
    BY <2>2 DEF LevelSums
  <2>4. [p \in {} |-> Total(NoEntry, IdsOf(NoEntry, s, side, p))] = NoEntry
    BY DEF NoEntry
  <2> QED BY <2>3, <2>4
<1>5. v.order_book = [s \in DOMAIN v.order_book |->
                         [side \in Sides |-> LevelSums(v.order_state, s, side)]]
  <2>1. \A s : [side \in Sides |-> LevelSums(NoEntry, s, side)] = NoLevels
    BY <1>4 DEF NoLevels
  <2> QED BY <1>2, <2>1
<1>6. DOMAIN v.order_book = InitSymbols /\ DOMAIN v.order_state = {}
  BY <1>2 DEF NoEntry
<1>7. SumsOK(v)
  BY <1>2, <1>3, <1>5, <1>6 DEF SumsOK
<1> QED BY <1>1, <1>2, <1>6, <1>7

\* What the server waits for, at each of its stages.
LEMMA UiOKStep ==
    ASSUME GInv, AskedOK, UiOK, [FeedNext]_fvars
    PROVE  UiOK'
<1>1. CASE FeedEngine
  <2>1. view' = view /\ (gap => gap') /\ (ui # "joined" => wire' = wire)
    BY <1>1 DEF FeedEngine
  <2>2. CASE InCallback("snapshot_cb", "begin")
    <3>1. ui = "asked" \/ (ui = "joined" /\ gap)
      BY <2>2 DEF InCallback, AskedOK
    <3>2. ui' = IF ui = "asked" THEN "answered" ELSE ui
      BY <1>1, <2>2 DEF FeedEngine
    <3>3. DOMAIN inbox' \subseteq InitSymbols
      <4>1. inbox' = [s \in DOMAIN call.snaps \cap InitSymbols |-> call.snaps[s]]
        BY <1>1, <2>2 DEF FeedEngine
      <4> QED BY <4>1
    <3> QED BY <2>1, <3>1, <3>2, <3>3, EmptyViewOK DEF UiOK
  <2>3. CASE ~InCallback("snapshot_cb", "begin")
    <3>1. UNCHANGED << inbox, ui >>
      BY <1>1, <2>3 DEF FeedEngine
    <3> QED BY <2>1, <3>1 DEF UiOK
  <2> QED BY <2>2, <2>3
<1>2. CASE FeedExchange \/ UNCHANGED feedvars
  BY <1>2 DEF FeedExchange, feedvars, UiOK
<1>3. CASE \E c \in Clients : UiAsk(c)
  BY <1>3 DEF UiAsk, UiOK
<1>4. ASSUME NEW s \in InitSymbols, UiSnapshot(s)
      PROVE  UiOK'
  <2>1. s \in DOMAIN inbox /\ UNCHANGED << ui, wire, gap >> /\ inbox' = Drop(inbox, s)
        /\ view' = ProcessMdSnapshot(view, s, inbox[s])
    BY <1>4 DEF UiSnapshot
  <2>2. ui = "answered" \/ (ui = "joined" /\ gap)
    BY <2>1 DEF UiOK, NoEntry
  <2>3. DOMAIN inbox' \subseteq DOMAIN inbox
    BY <2>1 DEF Drop
  <2>4. s \in DOMAIN view.order_book => DOMAIN view'.order_book = DOMAIN view.order_book
    BY <2>1 DEF ProcessMdSnapshot
  <2> QED BY <2>1, <2>2, <2>3, <2>4 DEF UiOK
<1>5. CASE UiJoin \/ UiTimeout \/ UiReceive
  BY <1>5 DEF UiJoin, UiTimeout, UiReceive, UiOK
<1> QED BY <1>1, <1>2, <1>3, <1>4, <1>5, FeedIsGateway

---------------------------------------------------------------------------
(* The answer: the books when the engine thread reads them                 *)

LEMMA BookListing ==
    ASSUME NEW book, BookOK(book)
    PROVE  GetOrders(book) = {book.order_index_[id] : id \in DOMAIN book.order_index_}
<1>1. PICK L : L = UNION {UNION {IdsAt(book, s, p) : p \in DOMAIN book.levels[s]} : s \in Sides}
  OBVIOUS
<1>2. ASSUME NEW id \in L PROVE id \in DOMAIN book.order_index_
  <2>1. PICK s \in Sides : id \in UNION {IdsAt(book, s, p) : p \in DOMAIN book.levels[s]}
    BY <1>1
  <2>2. PICK p \in DOMAIN book.levels[s] : id \in IdsAt(book, s, p)
    BY <2>1
  <2>3. PICK i \in DOMAIN book.levels[s][p] : book.levels[s][p][i] = id
    BY <2>2 DEF IdsAt
  <2> QED BY <2>3 DEF BookOK, ListedIsIndexed
<1>3. ASSUME NEW id \in DOMAIN book.order_index_ PROVE id \in L
  <2>1. PICK o : o = book.order_index_[id]
    OBVIOUS
  <2>2. o \in Order /\ o.price \in DOMAIN book.levels[o.side]
        /\ \E i \in DOMAIN book.levels[o.side][o.price] : book.levels[o.side][o.price][i] = id
    BY <2>1 DEF BookOK, BookType, IndexedIsListed
  <2>3. o.side \in Sides /\ id \in IdsAt(book, o.side, o.price)
    BY <2>2 DEF Order, IdsAt
  <2>4. id \in UNION {IdsAt(book, o.side, p) : p \in DOMAIN book.levels[o.side]}
    BY <2>2, <2>3
  <2> QED BY <1>1, <2>3, <2>4
<1>4. L = DOMAIN book.order_index_
  BY <1>2, <1>3
<1>5. GetOrders(book) = {book.order_index_[id] : id \in L}
  BY <1>1 DEF GetOrders
<1> QED BY <1>4, <1>5

\* The orders of the books as rows, and as the entries of the server that asked for the
\* symbols of the configuration.
BookRows ==
    UNION {{AsRow(books_[s].order_index_[id], books_[s].order_index_[id].price,
                  books_[s].order_index_[id].leaves_qty) : id \in DOMAIN books_[s].order_index_} :
           s \in DOMAIN books_}
AsEntry(o) == [price |-> o.price, qty |-> o.leaves_qty, symbol |-> o.symbol, side |-> o.side]
BookEntries ==
    [id \in UNION {DOMAIN books_[s].order_index_ : s \in InitSymbols} |-> AsEntry(BookOrder(id))]

\* A resting order while the answer is made.
LEMMA ListedAnswer ==
    ASSUME GInv, KInv, call.fn = "snapshot_cb", NEW s \in DOMAIN books_,
           NEW id \in DOMAIN books_[s].order_index_, NEW o, o = books_[s].order_index_[id]
    PROVE  /\ BookOrder(id) = o /\ o.exchange_id = id /\ o.symbol = s /\ AsEntry(o) \in Entry
           /\ o.leaves_qty > 0
           /\ id \in 1 .. order_seq_ /\ id \in ListedIds /\ id \in DOMAIN active_orders_
           /\ active_orders_[id].symbol = o.symbol /\ active_orders_[id].side = o.side
           /\ active_orders_[id].price = o.price
<1>1. IInv /\ ListedOK /\ IdsOK
  BY DEF GInv, KInv, PartiesOK
<1>2. o \in Order /\ o.exchange_id = id /\ o.symbol = s /\ id \in ListedIds
  BY <1>1, EntryFields
<1>3. BookOrder(id) = o
  <2>1. \A t \in DOMAIN books_ : id \in DOMAIN books_[t].order_index_ => t = s
    BY <1>1, EntryUnique
  <2>2. (CHOOSE t \in DOMAIN books_ : id \in DOMAIN books_[t].order_index_) = s
    BY <2>1
  <2> QED BY <2>2 DEF BookOrder
<1>4. RestingOK(o)
  BY <1>1 DEF ListedOK
<1>5. ~Replacing(id)
  BY DEF Replacing
<1>6. /\ id \in DOMAIN active_orders_ /\ o.leaves_qty > 0
      /\ active_orders_[id].symbol = o.symbol /\ active_orders_[id].side = o.side
      /\ active_orders_[id].price = o.price
  BY <1>2, <1>4, <1>5 DEF RestingOK, Known, SameOrder, SamePrice
<1>7. id \in 1 .. order_seq_
  BY <1>1, <1>6 DEF IdsOK
<1>8. o.price \in Prices
  <2>1. BookOK(books_[s])
    BY <1>1 DEF IInv, BooksOK
  <2>2. o.price \in DOMAIN books_[s].levels[o.side] /\ o.side \in Sides
    BY <1>2, <2>1 DEF BookOK, IndexedIsListed, Order
  <2> QED BY <2>1, <2>2 DEF BookOK, BookType
<1>9. AsEntry(o) \in Entry
  <2>1. o.leaves_qty \in Nat \ {0} /\ o.symbol \in Symbols /\ o.side \in Sides
    BY <1>2, <1>6 DEF Order
  <2> QED BY <1>8, <2>1 DEF AsEntry, Entry
<1> QED BY <1>2, <1>3, <1>6, <1>7, <1>9

\* The entries are what the server has to show, and every snapshot of a symbol fits them.
LEMMA AnswerFits ==
    ASSUME GInv, KInv, InAdd, SnapshotOK, call.fn = "snapshot_cb",
           NEW E, E = BookEntries, NEW U, U = BookRows
    PROVE  /\ Synced(E) /\ Shows(U, E)
           /\ \A id \in DOMAIN E : E[id].symbol \in InitSymbols
           /\ \A s \in InitSymbols : SnapshotFits(SnapshotEntries(call.snaps[s]), E, s)
<1>1. IInv /\ InitSymbols \subseteq DOMAIN books_ /\ order_seq_ \in Nat
  BY DEF GInv, SnapshotOK, IInv, TypeOK
<1>2. /\ DOMAIN E = UNION {DOMAIN books_[s].order_index_ : s \in InitSymbols}
      /\ \A id \in DOMAIN E : E[id] = AsEntry(BookOrder(id))
  BY DEF BookEntries
<1>3. ASSUME NEW s \in DOMAIN books_, NEW id \in DOMAIN books_[s].order_index_, NEW o,
             o = books_[s].order_index_[id]
      PROVE  /\ BookOrder(id) = o /\ o.exchange_id = id /\ o.symbol = s /\ AsEntry(o) \in Entry
             /\ o.leaves_qty > 0
             /\ id \in 1 .. order_seq_ /\ id \in ListedIds /\ id \in DOMAIN active_orders_
             /\ active_orders_[id].symbol = o.symbol /\ active_orders_[id].side = o.side
             /\ active_orders_[id].price = o.price
  BY <1>3, ListedAnswer
<1>4. ASSUME NEW id \in DOMAIN E
      PROVE  /\ E[id] \in Entry /\ E[id].symbol \in InitSymbols
             /\ id \in 1 .. order_seq_ /\ id \in ListedIds /\ id \in DOMAIN active_orders_
             /\ E[id].symbol = active_orders_[id].symbol
             /\ E[id].side = active_orders_[id].side
             /\ E[id].price = active_orders_[id].price
  <2>1. PICK s \in InitSymbols : id \in DOMAIN books_[s].order_index_
    BY <1>2
  <2>2. PICK o : o = books_[s].order_index_[id]
    OBVIOUS
  <2>3. s \in DOMAIN books_
    BY <1>1
  <2>4. E[id] = AsEntry(o)
    BY <1>2, <1>3, <2>1, <2>2, <2>3
  <2> QED BY <1>3, <2>1, <2>2, <2>3, <2>4 DEF AsEntry
<1>5. Shown(E)
  <2>1. IsFiniteSet(1 .. order_seq_)
    BY <1>1, FS_Interval
  <2>2. IsFiniteSet(DOMAIN E)
    BY <1>4, <2>1, FS_Subset
  <2>3. E \in [DOMAIN E -> Entry]
    <3>1. E = [id \in DOMAIN E |-> E[id]]
      BY DEF BookEntries
    <3> QED BY <1>4, <3>1
  <2> QED BY <2>2, <2>3 DEF Shown
<1>6. ListedIds \cap NotYet = {}
  <2>1. pc # "match"
    BY DEF InAdd
  <2>2. ListedIds \cap QueuedIds = {}
    BY <1>1 DEF IInv, Fresh, OnePlace
  <2>3. ListedIds \cap SubmitIds = {}
    BY DEF SubmitIds, GInv, FixOK, SubmitOK, LiveIds
  <2> QED BY <2>1, <2>2, <2>3 DEF NotYet
<1>7. ~MakerDue
  BY DEF MakerDue, InFill
<1>8. Synced(E)
  BY <1>4, <1>5, <1>6, <1>7 DEF Synced
<1>9. ASSUME NEW s \in InitSymbols, NEW id \in DOMAIN books_[s].order_index_, NEW o,
             o = books_[s].order_index_[id]
      PROVE  /\ id \in DOMAIN E /\ E[id].price = o.price /\ E[id].qty = o.leaves_qty
             /\ E[id].symbol = s /\ o.symbol = s /\ E[id].side = o.side /\ o.exchange_id = id
             /\ o.leaves_qty > 0
  <2>1. s \in DOMAIN books_ /\ id \in DOMAIN E
    BY <1>1, <1>2, <1>9
  <2>2. BookOrder(id) = o /\ o.symbol = s /\ o.exchange_id = id /\ o.leaves_qty > 0
    BY <1>3, <1>9, <2>1
  <2>3. E[id] = AsEntry(o)
    BY <1>2, <2>1, <2>2
  <2>4. /\ E[id].price = o.price /\ E[id].qty = o.leaves_qty
        /\ E[id].symbol = o.symbol /\ E[id].side = o.side
    BY <2>3 DEF AsEntry
  <2> QED BY <2>1, <2>2, <2>4
<1>10. Shows(U, E)
  <2> SUFFICES ASSUME NEW r \in U, r.symbol \in InitSymbols
               PROVE  /\ r.exchange_id \in DOMAIN E
                      /\ E[r.exchange_id].price = r.price /\ E[r.exchange_id].qty = r.leaves_qty
                      /\ E[r.exchange_id].symbol = r.symbol /\ E[r.exchange_id].side = r.side
    BY DEF Shows
  <2>0. PICK s \in DOMAIN books_ :
            r \in {AsRow(books_[s].order_index_[id], books_[s].order_index_[id].price,
                        books_[s].order_index_[id].leaves_qty) :
                      id \in DOMAIN books_[s].order_index_}
    BY DEF BookRows
  <2>1. PICK id \in DOMAIN books_[s].order_index_ :
            r = AsRow(books_[s].order_index_[id], books_[s].order_index_[id].price,
                      books_[s].order_index_[id].leaves_qty)
    BY <2>0
  <2>2. PICK o : o = books_[s].order_index_[id]
    OBVIOUS
  <2>3. /\ r.exchange_id = o.exchange_id /\ r.symbol = o.symbol /\ r.side = o.side
        /\ r.price = o.price /\ r.leaves_qty = o.leaves_qty
    BY <2>1, <2>2 DEF AsRow
  <2>4. o.symbol = s
    BY <1>3, <2>2
  <2> QED BY <1>9, <2>2, <2>3, <2>4
<1>11. ASSUME NEW s \in InitSymbols
       PROVE  SnapshotFits(SnapshotEntries(call.snaps[s]), E, s)
  <2>1. s \in DOMAIN books_ /\ BookOK(books_[s]) /\ call.snaps[s].orders = GetOrders(books_[s])
    BY <1>1 DEF IInv, BooksOK, SnapshotOK
  <2>2. PICK R : R = SnapshotEntries(call.snaps[s])
    OBVIOUS
  <2>3. R = {o \in {books_[s].order_index_[id] : id \in DOMAIN books_[s].order_index_} :
                 o.leaves_qty > 0}
    BY <2>1, <2>2, BookListing DEF SnapshotEntries
  <2>4. ASSUME NEW o \in R
        PROVE  /\ o.exchange_id \in DOMAIN books_[s].order_index_
               /\ o = books_[s].order_index_[o.exchange_id]
    <3>1. PICK id \in DOMAIN books_[s].order_index_ : o = books_[s].order_index_[id]
      BY <2>3
    <3>2. o.exchange_id = id
      BY <1>9, <3>1
    <3> QED BY <3>1, <3>2
  <2>5. ASSUME NEW id \in DOMAIN E, E[id].symbol = s
        PROVE  id \in IdsIn(R)
    <3>1. PICK t \in InitSymbols : id \in DOMAIN books_[t].order_index_
      BY <1>2
    <3>2. PICK o : o = books_[t].order_index_[id]
      OBVIOUS
    <3>3. t = s /\ o.exchange_id = id /\ o.leaves_qty > 0
      BY <1>9, <2>5, <3>1, <3>2
    <3>4. o \in R
      BY <2>3, <3>1, <3>2, <3>3
    <3> QED BY <3>3, <3>4 DEF IdsIn
  <2>6. \A o, x \in R : o.exchange_id = x.exchange_id => o = x
    BY <2>4
  <2>7. \A o \in R : /\ o.exchange_id \in DOMAIN E
                     /\ E[o.exchange_id].price = o.price /\ E[o.exchange_id].qty = o.leaves_qty
                     /\ E[o.exchange_id].symbol = s /\ E[o.exchange_id].side = o.side
    BY <1>9, <2>4
  <2>8. SnapshotFits(R, E, s)
    BY <2>5, <2>6, <2>7 DEF SnapshotFits
  <2> QED BY <2>2, <2>8
<1> QED BY <1>4, <1>8, <1>10, <1>11

\* What the callback of the answer leaves the server to read.
LEMMA AnswerStep ==
    ASSUME GInv, KInv, InAdd, SnapshotOK, UiOK, FeedEngine, call.fn = "snapshot_cb",
           GwCallback, ui = "asked",
           NEW E, E = BookEntries, NEW U, U = BookRows
    PROVE  /\ Synced(E)' /\ Shows(U, E) /\ Coming(E)' /\ ui' = "answered"
           /\ RowsFollow(U)'
<1>1. /\ Synced(E) /\ Shows(U, E)
      /\ \A id \in DOMAIN E : E[id].symbol \in InitSymbols
      /\ \A s \in InitSymbols : SnapshotFits(SnapshotEntries(call.snaps[s]), E, s)
  BY AnswerFits
<1>2. CallbackReturn /\ UNCHANGED << fix >> /\ call # NoCall /\ phase = "begin"
  <2>1. CallbackReturn /\ fix' = fix
    BY CallbackPushes DEF Unreported, EventOf, InFill
  <2> QED BY <2>1 DEF GInv, PhaseOK, NoCall
<1>3. InCallback("snapshot_cb", "begin")
  BY <1>2 DEF InCallback
<1>4. /\ inbox' = [s \in DOMAIN call.snaps \cap InitSymbols |-> call.snaps[s]]
      /\ ui' = "answered" /\ view' = view
  BY <1>3 DEF FeedEngine
<1>5. view = EmptyView(InitSymbols)
  BY DEF UiOK
<1>6. DOMAIN inbox' = InitSymbols /\ \A s \in InitSymbols : inbox'[s] = call.snaps[s]
  BY <1>4 DEF SnapshotOK
<1>7. HalfRead(view', inbox', E)
  <2>1. {x \in DOMAIN E : E[x].symbol \notin DOMAIN inbox'} = {}
    BY <1>1, <1>6
  <2>2. [id \in {x \in DOMAIN E : E[x].symbol \notin DOMAIN inbox'} |-> E[id]] = NoEntry
    BY <2>1 DEF NoEntry
  <2>3. view'.order_state = NoEntry
    BY <1>4, <1>5, EmptyViewOK
  <2> QED BY <1>1, <1>6, <2>2, <2>3 DEF HalfRead
<1>8. SumsOK(view')
  BY <1>4, <1>5, EmptyViewOK
<1>9. Coming(E)'
  BY <1>4, <1>7, <1>8 DEF Coming
<1>10. Synced(E)'
  <2>1. CallbackReturn /\ fix' = fix
    BY <1>2
  <2>2. /\ order_seq_ \in Nat /\ order_seq_' = order_seq_ /\ NotYet' \subseteq NotYet
        /\ ~MakerDue'
    BY <2>1, CallbackSteady
  <2>3. active_orders_' = active_orders_
    BY DEF GwCallback, OnFillStep, SendFillRoute, SendFillReport, FillTrade, FillReturn,
       OnCancelStep, OnReplaceStep, OnTifCancelStep, OnOrderRestedStep, SnapshotStep,
       InCallback, maps
  <2>4. DOMAIN E \cap NotYet' = {}
    BY <1>1, <2>2 DEF Synced
  <2> QED BY <1>1, <2>2, <2>3, <2>4, SyncedFrame
<1>11. RowsFollow(U)'
  <2>1. UNCHANGED << books_, pc >> /\ call' = NoCall /\ pc # "match"
    BY <1>2 DEF CallbackReturn, InAdd
  <2>2. BooksRowed(U)'
    <3> SUFFICES ASSUME NEW s \in DOMAIN books_', NEW id \in DOMAIN books_'[s].order_index_
                 PROVE  ListedRow(U, books_[s].order_index_[id])'
      BY DEF BooksRowed
    <3>1. PICK o : o = books_[s].order_index_[id]
      OBVIOUS
    <3>2. AsRow(o, o.price, o.leaves_qty) \in U
      BY <2>1, <3>1 DEF BookRows
    <3>3. PICK r \in U : r = AsRow(o, o.price, o.leaves_qty)
      BY <3>2
    <3>4. RowLike(r, o) /\ r.price = o.price /\ r.leaves_qty = o.leaves_qty
      BY <3>3 DEF AsRow, RowLike
    <3>5. books_'[s].order_index_[id] = o
      BY <2>1, <3>1
    <3> QED BY <2>1, <3>4, <3>5 DEF ListedRow, RowOwed, NoCall
  <2> QED BY <2>1, <2>2 DEF RowsFollow, AmendedRow, InAdd
<1> QED BY <1>1, <1>4, <1>9, <1>10, <1>11

---------------------------------------------------------------------------
(* The invariant of the feed                                               *)

\* Some table follows every event.
LEMMA SomeFollows ==
    ASSUME NEW T, NEW e
    PROVE  \E U : Follows(T, U, e)
<1>1. PICK U : U = T \cup {AsRow(r, r.price, e.fill.leaves_qty) : r \in T}
                     \cup {AsRow(r, e.req.new_price, e.leaves_qty) : r \in T}
                     \cup {AsRow(e.order, e.order.price, e.leaves_qty)}
  OBVIOUS
<1>2. \A r, p, q : LET x == AsRow(r, p, q)
                   IN  RowLike(x, r) /\ x.price = p /\ x.leaves_qty = q
  BY DEF AsRow, RowLike
<1>3. ASSUME NEW r \in T
      PROVE  /\ \E x \in U : RowLike(x, r) /\ x.price = r.price /\ x.leaves_qty = e.fill.leaves_qty
             /\ \E x \in U : RowLike(x, r) /\ x.price = e.req.new_price /\ x.leaves_qty = e.leaves_qty
  <2>1. AsRow(r, r.price, e.fill.leaves_qty) \in U /\ AsRow(r, e.req.new_price, e.leaves_qty) \in U
    BY <1>1
  <2> QED BY <1>2, <2>1
<1>4. \E x \in U : /\ RowLike(x, e.order) /\ x.price = e.order.price
                   /\ x.leaves_qty = e.leaves_qty
  <2>1. AsRow(e.order, e.order.price, e.leaves_qty) \in U
    BY <1>1
  <2> QED BY <1>2, <2>1
<1>5. T \subseteq U
  BY <1>1
<1>6. Follows(T, U, e)
  BY <1>3, <1>4, <1>5 DEF Follows
<1> QED BY <1>6

\* What the server will show, after a step that sends the packets of Published.
LEMMA ComingSent ==
    ASSUME NEW os, Coming(os), NEW ns, Sent(os, ns, Published), FeedEngine, UiOK,
           ui \in {"answered", "joined"}, ui' = ui, inbox' = inbox, ~gap'
    PROVE  Coming(ns)'
<1>1. view' = view
  BY DEF FeedEngine
<1>2. CASE ui = "answered"
  <2>1. Published = << >>
    BY <1>2 DEF FeedEngine
  <2>2. ns = os
    BY <2>1 DEF Sent
  <2> QED BY <1>1, <1>2, <2>2 DEF Coming
<1>3. CASE ui = "joined"
  <2>1. PICK h : History(view, wire, h) /\ h[Len(wire)].order_state = os
    BY <1>3 DEF Coming
  <2>2. PICK u : u = Published
    OBVIOUS
  <2>3. \E g : History(view, wire \o u, g) /\ g[Len(wire \o u)].order_state = ns
    BY <2>1, <2>2, HistorySent
  <2>4. wire' = wire \o u
    BY <1>3, <2>2 DEF FeedEngine
  <2> QED BY <1>1, <1>3, <2>3, <2>4 DEF Coming
<1> QED BY <1>2, <1>3

\* ... and after a step of the server.
LEMMA ComingRead ==
    ASSUME NEW os, Coming(os), Shown(os), UiOK, ui \in {"answered", "joined"}, ~gap, ~gap',
           \/ \E s \in InitSymbols : UiSnapshot(s)
           \/ UiJoin \/ UiTimeout \/ UiReceive
           \/ UNCHANGED feedvars
    PROVE  Coming(os)'
<1>1. ASSUME NEW s \in InitSymbols, UiSnapshot(s)
      PROVE  Coming(os)'
  <2>1. /\ s \in DOMAIN inbox /\ view' = ProcessMdSnapshot(view, s, inbox[s])
        /\ inbox' = Drop(inbox, s) /\ ui' = ui
    BY <1>1 DEF UiSnapshot
  <2>2. ui = "answered"
    BY <2>1 DEF UiOK, NoEntry
  <2>3. SumsOK(view) /\ HalfRead(view, inbox, os) /\ s \in DOMAIN view.order_book
    BY <2>2 DEF Coming, UiOK
  <2>4. PICK v, box : v = view /\ box = inbox
    OBVIOUS
  <2>5. PICK w : w = ProcessMdSnapshot(v, s, box[s])
    OBVIOUS
  <2>6. SumsOK(w) /\ HalfRead(w, Drop(box, s), os)
    BY <2>1, <2>3, <2>4, <2>5, SnapshotRead
  <2>7. SumsOK(view') /\ HalfRead(view', inbox', os)
    BY <2>1, <2>4, <2>5, <2>6
  <2> QED BY <2>1, <2>2, <2>7 DEF Coming
<1>2. CASE UiJoin
  <2>1. ui = "answered" /\ inbox = NoEntry /\ ui' = "joined" /\ view' = view /\ wire' = wire
    BY <1>2 DEF UiJoin
  <2>2. wire = << >> /\ SumsOK(view) /\ HalfRead(view, inbox, os)
    BY <2>1 DEF UiOK, Coming
  <2>3. view.order_state = os
    <3>1. DOMAIN inbox = {}
      BY <2>1 DEF NoEntry
    <3>2. view.order_state = [id \in DOMAIN os |-> os[id]]
      BY <2>2, <3>1 DEF HalfRead
    <3>3. os = [id \in DOMAIN os |-> os[id]]
      BY DEF Shown
    <3> QED BY <3>2, <3>3
  <2>4. PICK h : h = [k \in {0} |-> view]
    OBVIOUS
  <2>5. h[0] = view /\ Len(wire) = 0 /\ wire \in Seq(Packets)
    BY <2>2, <2>4, EmptySeq
  <2>6. History(view, wire, h)
    BY <2>2, <2>5 DEF History
  <2>7. History(view, wire, h) /\ h[Len(wire)].order_state = os
    BY <2>3, <2>5, <2>6
  <2>8. \E g : History(view, wire, g) /\ g[Len(wire)].order_state = os
    BY <2>7
  <2> QED BY <2>1, <2>8 DEF Coming
<1>3. CASE UiTimeout
  BY <1>3 DEF UiTimeout
<1>4. CASE UiReceive
  <2>1. wire # << >> /\ view' = ApplyMd(view, Head(wire)) /\ wire' = Tail(wire) /\ ui' = ui
    BY <1>4 DEF UiReceive
  <2>2. ui = "joined"
    BY <2>1 DEF UiOK
  <2>3. PICK h : History(view, wire, h) /\ h[Len(wire)].order_state = os
    BY <2>2 DEF Coming
  <2>4. PICK v, w : v = view /\ w = wire
    OBVIOUS
  <2>5. \E g : History(ApplyMd(v, Head(w)), Tail(w), g) /\ g[Len(Tail(w))] = h[Len(w)]
    BY <2>1, <2>3, <2>4, HistoryPasses
  <2>6. \E g : History(view', wire', g) /\ g[Len(wire')].order_state = os
    BY <2>1, <2>3, <2>4, <2>5
  <2> QED BY <2>1, <2>2, <2>6 DEF Coming
<1>5. CASE UNCHANGED feedvars
  BY <1>5 DEF feedvars, Coming
<1> QED BY <1>1, <1>2, <1>3, <1>4, <1>5

\* A step that is no callback sends nothing; the server may read what it was sent.
LEMMA ViewAside ==
    ASSUME GInv, KInv, UiOK, AskedOK, NEW T, ViewOK(T), [FeedNext]_fvars, ~GwCallback
    PROVE  ViewOK(T)'
<1>1. [GwNext]_allvars
  BY FeedIsGateway
<1>2. CASE ~(ui' \in {"answered", "joined"} /\ ~gap')
  BY <1>2 DEF ViewOK
<1>3. ASSUME ui' \in {"answered", "joined"}, ~gap'
      PROVE  ViewOK(T)'
  <2>1. FeedEngine => call = NoCall /\ UNCHANGED << ui, inbox, view >>
                      /\ Published = << >> /\ ~gap
    <3>1. FeedEngine => EngineSide
      BY DEF FeedEngine, GwEngine, EngineSide, GwCallback
    <3>2. FeedEngine => call = NoCall
      BY <3>1, EngineNotYet
    <3>3. call = NoCall => Published = << >> /\ ~InCallback("snapshot_cb", "begin")
      BY DEF Published, InCallback
    <3> QED BY <1>3, <3>2, <3>3 DEF FeedEngine
  <2>2. /\ FeedExchange => UNCHANGED feedvars
        /\ ~\E c \in Clients : UiAsk(c)
    BY <1>3 DEF FeedExchange, UiAsk
  <2>3. \/ FeedEngine
        \/ \E s \in InitSymbols : UiSnapshot(s)
        \/ UiJoin \/ UiTimeout \/ UiReceive
        \/ UNCHANGED feedvars
    BY <2>2, FeedIsGateway
  <2>4. ui \in {"answered", "joined"} /\ ~gap
    BY <1>3, <2>1, <2>3 DEF UiSnapshot, UiJoin, UiTimeout, UiReceive, UiOK, NoEntry, feedvars
  <2>5. PICK os : Synced(os) /\ Shows(T, os) /\ Coming(os)
    BY <2>4 DEF ViewOK
  <2>6. Synced(os)'
    BY <1>1, <2>5, OtherSynced
  <2>7. Coming(os)'
    <3>1. CASE FeedEngine
      <4>1. Sent(os, os, Published)
        BY <2>1, <3>1 DEF Sent
      <4> QED BY <1>3, <2>1, <2>4, <2>5, <3>1, <4>1, ComingSent
    <3>2. CASE ~FeedEngine
      <4>1. Shown(os)
        BY <2>5 DEF Synced
      <4> QED BY <1>3, <2>3, <2>4, <2>5, <3>2, <4>1, ComingRead
    <3> QED BY <3>1, <3>2
  <2>8. Shows(T, os)'
    BY <2>5 DEF Shows
  <2> QED BY <2>6, <2>7, <2>8 DEF ViewOK
<1> QED BY <1>2, <1>3

\* A callback sends what it reports to the table: they move on together.
LEMMA ViewCallback ==
    ASSUME ReplaceQtys \subseteq Nat \ {0}, GInv, GInv', KInv, FInv, EngineOK, AskedOK, UiOK,
           NEW T, RowsFollow(T), ViewOK(T), FeedEngine, GwCallback
    PROVE  KInv' /\ FInv' /\ \E U : RowsFollow(U)' /\ ViewOK(U)'
<1>1. [GwNext]_allvars /\ InAdd
  BY DEF FeedEngine, GwNext, RowsFollow
<1>2. Unreported \/ \E e : EventOf(e)
  BY CallbackPushes
<1>3. (gap => gap') /\ (gap' => gap \/ ui' = "answered" \/ ui = "answered")
  BY DEF FeedEngine
<1>4. \E U : ((T = U /\ Unreported) \/ \E e : EventOf(e) /\ Follows(T, U, e))
  BY <1>2, SomeFollows
<1>5. ASSUME NEW U, (T = U /\ Unreported) \/ \E e : EventOf(e) /\ Follows(T, U, e)
      PROVE  KInv' /\ FInv' /\ RowsFollow(U)'
  BY <1>1, <1>5, TableFollows
<1>6. KInv' /\ FInv' /\ \E U : RowsFollow(U)'
  BY <1>4, <1>5
<1>7. CASE ~(ui' \in {"answered", "joined"} /\ ~gap')
  BY <1>6, <1>7 DEF ViewOK
<1>8. ASSUME ui' \in {"answered", "joined"}, ~gap', call.fn = "snapshot_cb"
      PROVE  \E U : RowsFollow(U)' /\ ViewOK(U)'
  <2>1. ui = "asked"
    BY <1>3, <1>8 DEF AskedOK
  <2>2. PICK E, U : E = BookEntries /\ U = BookRows
    OBVIOUS
  <2>3. Synced(E)' /\ Shows(U, E) /\ Coming(E)' /\ RowsFollow(U)'
    BY <1>1, <1>8, <2>1, <2>2, AnswerStep DEF EngineOK
  <2>4. Shows(U, E)'
    BY <2>3 DEF Shows
  <2>5. ViewOK(U)'
    BY <2>3, <2>4 DEF ViewOK
  <2> QED BY <2>3, <2>5
<1>9. ASSUME ui' \in {"answered", "joined"}, ~gap', call.fn # "snapshot_cb"
      PROVE  \E U : RowsFollow(U)' /\ ViewOK(U)'
  <2>1. UNCHANGED << inbox, ui >> /\ ~gap
    BY <1>3, <1>9 DEF FeedEngine, InCallback
  <2>2. PICK os : Synced(os) /\ Shows(T, os) /\ Coming(os)
    BY <1>9, <2>1 DEF ViewOK
  <2>3. PICK ns : /\ Sent(os, ns, Published) /\ Synced(ns)'
                  /\ \/ Unreported /\ ns = os
                     \/ \E e : EventOf(e) /\ Moves(os, ns, e)
    BY <1>1, <2>2, CallbackAdvance DEF Advance
  <2>4. \E U : /\ (T = U /\ Unreported) \/ \E e : EventOf(e) /\ Follows(T, U, e)
               /\ Shows(U, ns)
    BY <2>2, <2>3, ShowsFollow
  <2>5. PICK U : /\ (T = U /\ Unreported) \/ \E e : EventOf(e) /\ Follows(T, U, e)
                 /\ Shows(U, ns)
    BY <2>4
  <2>6. RowsFollow(U)'
    BY <1>5, <2>5
  <2>7. Coming(ns)'
    BY <1>9, <2>1, <2>2, <2>3, ComingSent
  <2>8. Shows(U, ns)'
    BY <2>5 DEF Shows
  <2>9. ViewOK(U)'
    BY <2>3, <2>7, <2>8 DEF ViewOK
  <2> QED BY <2>6, <2>9
<1> QED BY <1>6, <1>7, <1>8, <1>9

LEMMA FeedNextStep ==
    ASSUME ReplaceQtys \subseteq Nat \ {0}, FeedInv, [FeedNext]_fvars
    PROVE  FeedInv'
<1>1. /\ GInv /\ KInv /\ FInv /\ EngineOK /\ AskedOK /\ UiOK /\ [GwNext]_allvars
      /\ \E T : RowsFollow(T) /\ ViewOK(T)
  BY FeedIsGateway DEF FeedInv
<1>2. GInv'
  BY <1>1, GwNextStep
<1>3. EngineOK' /\ AskedOK' /\ UiOK'
  BY <1>1, <1>2, EngineOKStep, AskedStep, UiOKStep
<1>4. PICK T : RowsFollow(T) /\ ViewOK(T)
  BY <1>1
<1>5. CASE GwCallback
  <2>1. FeedEngine
    <3>1. call # NoCall /\ ~UNCHANGED << call, phase >>
      BY <1>5, CallbackMovesOn
    <3>2. FeedExchange => UNCHANGED << call, phase >>
      <4>1. GwMain \/ GwAdmin \/ GwOver => UNCHANGED << call, phase >>
        BY <1>1, AsideMoves DEF gwvars
      <4>2. GwOrders => UNCHANGED << call, phase >>
        BY FixLeavesEngine DEF GwFix
      <4> QED BY <4>1, <4>2 DEF FeedExchange
    <3>3. (\E c \in Clients : UiAsk(c)) => UNCHANGED << call, phase >>
      BY FixLeavesEngine DEF UiAsk, GwFix
    <3>4. UNCHANGED allvars => UNCHANGED << call, phase >>
      BY DEF allvars, vars, gwvars
    <3> QED BY <3>1, <3>2, <3>3, <3>4, FeedIsGateway
  <2>2. KInv' /\ FInv' /\ \E U : RowsFollow(U)' /\ ViewOK(U)'
    BY <1>1, <1>2, <1>4, <1>5, <2>1, ViewCallback
  <2> QED BY <1>2, <1>3, <2>2 DEF FeedInv
<1>6. CASE ~GwCallback
  <2>1. KInv' /\ FInv' /\ RowsFollow(T)'
    BY <1>1, <1>2, <1>4, <1>6, TableFollows
  <2>2. ViewOK(T)'
    BY <1>1, <1>4, <1>6, ViewAside
  <2> QED BY <1>2, <1>3, <2>1, <2>2 DEF FeedInv
<1> QED BY <1>5, <1>6

LEMMA FeedInitOK ==
    ASSUME RestingRows = {<< >>}, FeedInit
    PROVE  FeedInv
<1>1. GwInit /\ ui = "off" /\ view = EmptyView(InitSymbols) /\ inbox = NoEntry /\ wire = << >>
  BY DEF FeedInit
<1>2. GInv
  BY <1>1, GwInitOK
<1>3. PICK T : T = {}
  OBVIOUS
<1>4. KInv /\ FInv /\ RowsFollow(T)
  BY <1>1, NothingFollows
<1>5. queue_ = << >> /\ call = NoCall /\ pc = "created" /\ DOMAIN books_ = InitSymbols
  BY <1>1 DEF GwInit, Init
<1>6. EngineOK
  BY <1>5 DEF EngineOK, RestedOK, ReplaceTerms, SnapshotOK, NoCall
<1>7. AskedOK
  BY <1>5 DEF AskedOK, Asked, NoCall
<1>8. UiOK
  BY <1>1 DEF UiOK
<1>9. ViewOK(T)
  BY <1>1 DEF ViewOK
<1> QED BY <1>2, <1>4, <1>6, <1>7, <1>8, <1>9 DEF FeedInv

---------------------------------------------------------------------------
(* Theorems                                                                *)

\* At every step of every thread the view the server will have when nothing is under way
\* follows the books, and the views it has on the way there are consistent.
THEOREM FeedInvariant ==
    ASSUME RestingRows = {<< >>}, ReplaceQtys \subseteq Nat \ {0}
    PROVE  FeedSpec => []FeedInv
<1>1. FeedInit => FeedInv
  BY FeedInitOK
<1>2. FeedInv /\ [FeedNext]_fvars => FeedInv'
  BY FeedNextStep
<1> QED BY <1>1, <1>2, PTL DEF FeedSpec

\* The levels of a server that joined in time are the sums of its orders after every packet,
\* for any number of symbols, orders, fills and replaces: what _apply_md adds to and takes
\* from a level never drifts from the orders it is about.
THEOREM FeedLevelsAreSums ==
    ASSUME RestingRows = {<< >>}, ReplaceQtys \subseteq Nat \ {0}
    PROVE  FeedSpec => []UiLevelsAreSums
<1>1. FeedInv => UiLevelsAreSums
  <2> SUFFICES ASSUME FeedInv, ui = "joined", ~gap, NEW s \in DOMAIN view.order_book,
                      NEW side \in Sides
               PROVE  view.order_book[s][side] = LevelSums(view.order_state, s, side)
    BY DEF UiLevelsAreSums, LevelSums, Total, IdsOf
  <2>1. PICK T : ViewOK(T)
    BY DEF FeedInv
  <2>2. PICK h : History(view, wire, h)
    BY <2>1 DEF ViewOK, Coming
  <2>3. SumsOK(view)
    <3>1. Len(wire) \in Nat
      BY <2>2, LenProperties DEF History
    <3>2. 0 \in 0 .. Len(wire)
      BY <3>1
    <3> QED BY <2>2, <3>2 DEF History
  <2>4. PICK b : b = [x \in DOMAIN view.order_book |->
                         [y \in Sides |-> LevelSums(view.order_state, x, y)]]
    OBVIOUS
  <2>5. view.order_book = b
    BY <2>3, <2>4 DEF SumsOK
  <2> QED BY <2>4, <2>5
<1> QED BY <1>1, FeedInvariant, PTL

\* UiShowsResting for the symbols of the configuration, the ones the server asks for: an
\* order of a symbol that is registered later is not in its snapshot.
UiShowsConfigured ==
    Quiescent /\ ui = "joined" /\ ~gap /\ wire = << >> =>
        \A id \in ListedIds :
            BookOrder(id).symbol \in InitSymbols =>
                /\ id \in DOMAIN view.order_state
                /\ view.order_state[id].price = BookOrder(id).price
                /\ view.order_state[id].qty = BookOrder(id).leaves_qty
                /\ view.order_state[id].symbol = BookOrder(id).symbol
                /\ view.order_state[id].side = BookOrder(id).side

\* Once nothing is under way, a server that joined in time and has read what it was sent
\* shows every resting order of its symbols as the book has it: rested, filled in part,
\* replaced in place or at another price, from the snapshot or by packets.  Symbols may be
\* registered at any time.
THEOREM FeedShowsConfigured ==
    ASSUME RestingRows = {<< >>}, ReplaceQtys \subseteq Nat \ {0}
    PROVE  FeedSpec => []UiShowsConfigured
<1>1. FeedInv => UiShowsConfigured
  <2> SUFFICES ASSUME FeedInv, Quiescent, ui = "joined", ~gap, wire = << >>, NEW id \in ListedIds,
                      BookOrder(id).symbol \in InitSymbols
               PROVE  /\ id \in DOMAIN view.order_state
                      /\ view.order_state[id].price = BookOrder(id).price
                      /\ view.order_state[id].qty = BookOrder(id).leaves_qty
                      /\ view.order_state[id].symbol = BookOrder(id).symbol
                      /\ view.order_state[id].side = BookOrder(id).side
    BY DEF UiShowsConfigured
  <2>1. PICK T : RowsFollow(T) /\ ViewOK(T)
    BY DEF FeedInv
  <2>2. PICK os : Shows(T, os) /\ Coming(os)
    BY <2>1 DEF ViewOK
  <2>3. PICK h : History(view, wire, h) /\ h[Len(wire)].order_state = os
    BY <2>2 DEF Coming
  <2>4. view.order_state = os
    BY <2>3, HistoryEnds
  <2>5. IInv /\ call = NoCall
    BY DEF FeedInv, GInv, Quiescent
  <2>6. PICK s \in DOMAIN books_ : id \in DOMAIN books_[s].order_index_
    BY DEF ListedIds
  <2>7. PICK o : o = books_[s].order_index_[id]
    OBVIOUS
  <2>8. BookOrder(id) = o
    <3>1. \A t \in DOMAIN books_ : id \in DOMAIN books_[t].order_index_ => t = s
      BY <2>5, <2>6, EntryUnique
    <3>2. (CHOOSE t \in DOMAIN books_ : id \in DOMAIN books_[t].order_index_) = s
      BY <2>6, <3>1
    <3> QED BY <2>7, <3>2 DEF BookOrder
  <2>9. o \in Order /\ o.exchange_id = id
    BY <2>5, <2>6, <2>7, EntryFields
  <2>10. FullRow(T, o)
    BY <2>1, <2>5, <2>6, <2>7, IdleRows DEF RowsFollow
  <2>11. PICK r \in T : /\ r.exchange_id = o.exchange_id /\ r.symbol = o.symbol
                        /\ r.side = o.side /\ r.price = o.price /\ r.leaves_qty = o.leaves_qty
    BY <2>10 DEF FullRow, RowLike
  <2>12. r.symbol \in InitSymbols
    BY <2>8, <2>11
  <2> QED BY <2>2, <2>4, <2>8, <2>9, <2>11, <2>12 DEF Shows
<1> QED BY <1>1, FeedInvariant, PTL

\* When every symbol is configured, the server shows every resting order.
THEOREM FeedShowsResting ==
    ASSUME RestingRows = {<< >>}, ReplaceQtys \subseteq Nat \ {0}, InitSymbols = Symbols
    PROVE  FeedSpec => []UiShowsResting
<1>1. FeedInv /\ UiShowsConfigured => UiShowsResting
  <2> SUFFICES ASSUME FeedInv, UiShowsConfigured, Quiescent, ui = "joined", ~gap, wire = << >>,
                      NEW id \in ListedIds
               PROVE  BookOrder(id).symbol \in InitSymbols
    BY DEF UiShowsResting, UiShowsConfigured
  <2>1. IInv
    BY DEF FeedInv, GInv
  <2>2. PICK s \in DOMAIN books_ : id \in DOMAIN books_[s].order_index_
    BY DEF ListedIds
  <2>3. \A t \in DOMAIN books_ : id \in DOMAIN books_[t].order_index_ => t = s
    BY <2>1, <2>2, EntryUnique
  <2>4. (CHOOSE t \in DOMAIN books_ : id \in DOMAIN books_[t].order_index_) = s
    BY <2>2, <2>3
  <2>5. BookOrder(id) = books_[s].order_index_[id]
    BY <2>4 DEF BookOrder
  <2>6. books_[s].order_index_[id] \in Order
    BY <2>1, <2>2, EntryFields
  <2> QED BY <2>5, <2>6 DEF Order
<1> QED BY <1>1, FeedInvariant, FeedShowsConfigured, PTL
=============================================================================
