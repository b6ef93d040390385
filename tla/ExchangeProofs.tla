--------------------------- MODULE ExchangeProofs ---------------------------
(***************************************************************************)
(* The exchange with its database, for any number of clients, orders and   *)
(* batches, through crashes and restarts at any moment.                    *)
(*                                                                         *)
(* A restart rebuilds everything in memory from the table of resting       *)
(* orders, so what holds of the gateway (GInv) holds again after it, if    *)
(* the table is sound: its rows are orders of ids handed out, each once.   *)
(* The rows come from events, and the events from orders and callbacks,    *)
(* so this has to be known of all of them (XInv).                          *)
(*                                                                         *)
(* Until the first restart the table, once everything reported is          *)
(* committed, follows the books callback by callback (FirstLife).          *)
(*                                                                         *)
(* Across restarts, an order belongs to one client for good, and its row   *)
(* is given up only when its end is on record under that client (EInv).    *)
(***************************************************************************)
EXTENDS Exchange, GatewayProofs

---------------------------------------------------------------------------
(* The table and the events on their way to it                             *)

Row == [exchange_id : Nat, clord_id : ClOrdIds, client_id : Clients, symbol : Symbols,
        side : Sides, price : Prices, leaves_qty : Int]
Past == [type : {"fill", "taker_fill", "cancel"}, exchange_id : Nat, client_id : Clients,
         leaves_qty : Int]
Database == [resting_orders : Seq(Row), events : Seq(Past), symbols : SUBSET Symbols]

Report == [type : {"RESTED"}, order : Order, leaves_qty : Int]
            \cup [type : {"FILL", "TAKER_FILL"}, fill : Fill]
            \cup [type : {"CANCEL"}, order : Order]
            \cup [type : {"REPLACE"}, req : ReplaceRequest, leaves_qty : Int]
            \cup [type : {"SYMBOL"}, symbol : Symbols]

\* The rows of the table.
Table(d) == ToSet(d.resting_orders)

\* exchange_id is the primary key.
Keyed(rs) == \A i, j \in DOMAIN rs : rs[i].exchange_id = rs[j].exchange_id => i = j

Sound(d) == d \in Database /\ Keyed(d.resting_orders)

\* An order that was submitted, under a ClOrdID that is taken.
Submitted(o) == o.exchange_id \in 1 .. submitted_seq /\ o.clord_id \in used

ReportOK(e) ==
    /\ e \in Report
    /\ e.type = "RESTED" => Submitted(e.order) /\ e.order.price \in Prices
    /\ e.type = "REPLACE" => e.req.new_clord_id \in used

LogOK(log) == log \in Seq(Report) /\ \A i \in DOMAIN log : ReportOK(log[i])

DbOK == Sound(db) /\ \A r \in Table(db) : Submitted(r)

\* An order on its way to the callback that reports it as rested.
OrdersOK ==
    /\ fix.at = "submit" => fix.order.clord_id \in used
    /\ \A i \in DOMAIN queue_ : queue_[i].tag = "ORDER" => Submitted(queue_[i].order)
    /\ pc = "match" /\ cur.tag = "ORDER" => Submitted(cur.order)
    /\ call.fn = "on_order_rested" => Submitted(call.order) /\ call.order.price \in Prices

XInv == GInv /\ OrdersOK /\ DbOK /\ LogOK(batch) /\ LogOK(pqueue) /\ LogOK(adm)

---------------------------------------------------------------------------
(* The table and the books                                                 *)

\* The content of the database, and its rows, when everything reported so far is committed.
Coming == ApplyBatch(ApplyBatch(db, batch), pqueue)
ComingRows == Table(Coming)

\* The table, up to what the callback in progress has to report.
RowsKept == RowsFollow(ComingRows)

\* The admin thread only has registrations to push.
SymbolsOnly == \A i \in DOMAIN adm : adm[i].type = "SYMBOL"

\* Until the first restart.
FirstLife == SymbolsOnly /\ crashes \in Nat /\ (crashes = 0 => KInv /\ FInv /\ RowsKept)

---------------------------------------------------------------------------
(* A batch, event by event                                                 *)

\* The equation of the fold that ApplyBatch is, on the sets of positions up to n.
IsFold(f, d, b, n) ==
    f = [s \in SUBSET (1 .. n) |->
            IF s = {} THEN d ELSE ApplyEvent(f[s \ {Max(s)}], b[Max(s)])]

LEMMA BatchIsFold ==
    ASSUME NEW d, NEW S, NEW b \in Seq(S)
    PROVE  ApplyBatch(d, b) = (CHOOSE f : IsFold(f, d, b, Len(b)))[1 .. Len(b)]
<1>1. DOMAIN b = 1 .. Len(b)
  BY LenProperties
<1> QED BY <1>1 DEF ApplyBatch, FoldLeft, MapThenFoldSet, IsFold

LEMMA LastPosition ==
    ASSUME NEW n \in Nat, NEW s \in SUBSET (1 .. n), n \in s
    PROVE  Max(s) = n /\ s \ {Max(s)} \in SUBSET (1 .. n - 1)
<1>1. \A y \in s : y \in Nat /\ n >= y
  OBVIOUS
<1>2. \A x \in s : (\A y \in s : x >= y) => x = n
  BY <1>1
<1>3. Max(s) = n
  BY <1>1, <1>2 DEF Max
<1> QED BY <1>1, <1>3

\* The equation has a solution, whatever the events do.
LEMMA FoldExists ==
    ASSUME NEW d, NEW b, NEW n \in Nat
    PROVE  \E f : IsFold(f, d, b, n)
<1> DEFINE T == {k \in Nat : ~\E f : IsFold(f, d, b, k)}
<1> SUFFICES ASSUME T # {} PROVE FALSE
  OBVIOUS
<1>1. PICK k \in T : \A j \in T : ~(j < k)
  BY NatMinimum
<1>2. k \in Nat /\ ~\E f : IsFold(f, d, b, k)
  OBVIOUS
<1>3. k # 0
  <2> DEFINE f == [s \in SUBSET (1 .. 0) |-> d]
  <2>1. \A s \in SUBSET (1 .. 0) : s = {}
    OBVIOUS
  <2>2. f = [s \in SUBSET (1 .. 0) |->
                IF s = {} THEN d ELSE ApplyEvent(f[s \ {Max(s)}], b[Max(s)])]
    BY <2>1
  <2>3. IsFold(f, d, b, 0)
    BY <2>2 DEF IsFold
  <2> HIDE DEF f
  <2> QED BY <1>2, <2>3
<1>4. k - 1 \in Nat /\ k - 1 < k
  BY <1>2, <1>3
<1>5. PICK g : IsFold(g, d, b, k - 1)
  BY <1>1, <1>4
<1> DEFINE f == [s \in SUBSET (1 .. k) |->
                     IF k \in s THEN ApplyEvent(g[s \ {k}], b[k]) ELSE g[s]]
<1>6. ASSUME NEW s \in SUBSET (1 .. k)
      PROVE  f[s] = IF s = {} THEN d ELSE ApplyEvent(f[s \ {Max(s)}], b[Max(s)])
  <2>1. CASE k \in s
    <3>1. Max(s) = k /\ s \ {k} \in SUBSET (1 .. k)
      BY <1>2, <2>1, LastPosition
    <3>2. f[s \ {k}] = g[s \ {k}]
      BY <3>1
    <3> QED BY <2>1, <3>1, <3>2
  <2>2. CASE k \notin s
    <3>1. s \in SUBSET (1 .. k - 1)
      BY <1>2, <2>2
    <3>2. g[s] = IF s = {} THEN d ELSE ApplyEvent(g[s \ {Max(s)}], b[Max(s)])
      BY <1>5, <3>1 DEF IsFold
    <3>3. s \ {Max(s)} \in SUBSET (1 .. k) /\ k \notin s \ {Max(s)}
      BY <2>2
    <3>4. f[s \ {Max(s)}] = g[s \ {Max(s)}] /\ f[s] = g[s]
      BY <2>2, <3>3
    <3> QED BY <3>2, <3>4
  <2> QED BY <2>1, <2>2
<1>7. f = [s \in SUBSET (1 .. k) |->
              IF s = {} THEN d ELSE ApplyEvent(f[s \ {Max(s)}], b[Max(s)])]
  BY <1>6
<1>8. IsFold(f, d, b, k)
  BY <1>7 DEF IsFold
<1> HIDE DEF f
<1> QED BY <1>2, <1>8

\* The databases a batch goes through.
Through(h, d, b) ==
    /\ h[0] = d
    /\ \A k \in 1 .. Len(b) : h[k] = ApplyEvent(h[k - 1], b[k])
    /\ ApplyBatch(d, b) = h[Len(b)]

LEMMA BatchHistory ==
    ASSUME NEW d, NEW S, NEW b \in Seq(S)
    PROVE  \E h : Through(h, d, b)
<1>1. Len(b) \in Nat
  BY LenProperties
<1> DEFINE f == CHOOSE f : IsFold(f, d, b, Len(b))
           h == [k \in 0 .. Len(b) |-> f[1 .. k]]
<1>2. IsFold(f, d, b, Len(b))
  BY <1>1, FoldExists
<1>3. ApplyBatch(d, b) = f[1 .. Len(b)]
  BY BatchIsFold
<1> HIDE DEF f
<1>4. f[{}] = d
  BY <1>2 DEF IsFold
<1>5. ASSUME NEW k \in 1 .. Len(b)
      PROVE  f[1 .. k] = ApplyEvent(f[1 .. k - 1], b[k])
  <2>1. k \in Nat /\ (1 .. k) \in SUBSET (1 .. Len(b)) /\ k \in 1 .. k /\ 1 .. k # {}
    <3>1. k \in Nat /\ k \in 1 .. k
      BY <1>1
    <3>2. \A j \in 1 .. k : j \in 1 .. Len(b)
      BY <1>1
    <3> QED BY <3>1, <3>2
  <2>2. Max(1 .. k) = k
    BY <2>1, LastPosition
  <2>3. (1 .. k) \ {k} = 1 .. k - 1
    BY <2>1
  <2>4. f[1 .. k] = ApplyEvent(f[(1 .. k) \ {Max(1 .. k)}], b[Max(1 .. k)])
    BY <1>2, <2>1 DEF IsFold
  <2> QED BY <2>2, <2>3, <2>4
<1>6. 1 .. 0 = {}
  OBVIOUS
<1>7. h[0] = d
  BY <1>1, <1>4, <1>6
<1>8. \A k \in 1 .. Len(b) : h[k] = ApplyEvent(h[k - 1], b[k])
  <2>1. \A k \in 1 .. Len(b) : k \in 0 .. Len(b) /\ k - 1 \in 0 .. Len(b)
    BY <1>1
  <2> QED BY <1>5, <2>1
<1>9. ApplyBatch(d, b) = h[Len(b)]
  BY <1>1, <1>3
<1> HIDE DEF h
<1>10. Through(h, d, b)
  BY <1>7, <1>8, <1>9 DEF Through
<1> QED BY <1>10

\* Two such courses of the same events are the same.
Course(h, d, b, n) == h[0] = d /\ \A k \in 1 .. n : h[k] = ApplyEvent(h[k - 1], b[k])

LEMMA SameCourse ==
    ASSUME NEW d, NEW b, NEW n \in Nat, NEW g, NEW h, Course(g, d, b, n), Course(h, d, b, n)
    PROVE  g[n] = h[n]
<1> USE DEF Course
<1> DEFINE T == {k \in 0 .. n : g[k] # h[k]}
<1> SUFFICES ASSUME T # {} PROVE FALSE
  OBVIOUS
<1>1. T \subseteq Nat
  OBVIOUS
<1>2. PICK k \in T : \A j \in T : ~(j < k)
  BY <1>1, NatMinimum
<1>3. k \in 0 .. n /\ g[k] # h[k]
  OBVIOUS
<1>4. k # 0
  BY <1>3
<1>5. k \in 1 .. n /\ k - 1 \in 0 .. n /\ k - 1 < k
  BY <1>3, <1>4
<1>6. g[k - 1] = h[k - 1]
  BY <1>2, <1>5
<1> QED BY <1>3, <1>5, <1>6

\* No event changes nothing, and one more event comes last.
LEMMA EmptyBatch == ASSUME NEW d PROVE ApplyBatch(d, << >>) = d
<1>1. << >> \in Seq({}) /\ Len(<< >>) = 0
  BY EmptySeq
<1>2. PICK h : Through(h, d, << >>)
  BY <1>1, BatchHistory
<1> QED BY <1>1, <1>2 DEF Through

LEMMA LongerBatch ==
    ASSUME NEW d, NEW S, NEW b \in Seq(S), NEW e \in S
    PROVE  ApplyBatch(d, Append(b, e)) = ApplyEvent(ApplyBatch(d, b), e)
<1> DEFINE n == Len(b)
           c == Append(b, e)
<1>1. /\ n \in Nat /\ c \in Seq(S) /\ Len(c) = n + 1 /\ c[n + 1] = e
      /\ \A k \in 1 .. n : c[k] = b[k]
  BY AppendProperties, LenProperties
<1>2. PICK g : Through(g, d, b)
  BY BatchHistory
<1>3. PICK h : Through(h, d, c)
  BY <1>1, BatchHistory
<1> HIDE DEF n, c
<1>4. /\ g[0] = d /\ ApplyBatch(d, b) = g[n]
      /\ \A k \in 1 .. n : g[k] = ApplyEvent(g[k - 1], b[k])
  BY <1>2 DEF Through, n
<1>5. /\ h[0] = d /\ ApplyBatch(d, c) = h[n + 1]
      /\ \A k \in 1 .. n + 1 : h[k] = ApplyEvent(h[k - 1], c[k])
  BY <1>1, <1>3 DEF Through
<1>6. g[n] = h[n]
  <2>1. \A k \in 1 .. n : g[k] = ApplyEvent(g[k - 1], c[k])
    BY <1>1, <1>4
  <2>2. \A k \in 1 .. n : h[k] = ApplyEvent(h[k - 1], c[k])
    BY <1>1, <1>5
  <2>3. Course(g, d, c, n) /\ Course(h, d, c, n)
    BY <1>4, <1>5, <2>1, <2>2 DEF Course
  <2> QED BY <1>1, <2>3, SameCourse
<1>7. h[n + 1] = ApplyEvent(h[n], e)
  <2>1. n + 1 \in 1 .. n + 1 /\ (n + 1) - 1 = n
    BY <1>1
  <2> QED BY <1>1, <1>5, <2>1
<1> QED BY <1>4, <1>5, <1>6, <1>7 DEF c

\* What every event of a batch preserves, the batch preserves.
LEMMA BatchPreserves ==
    ASSUME NEW P, NEW d \in P, NEW S, NEW b \in Seq(S),
           \A x \in P : \A k \in 1 .. Len(b) : ApplyEvent(x, b[k]) \in P
    PROVE  ApplyBatch(d, b) \in P
<1> DEFINE n == Len(b)
<1>1. n \in Nat
  BY LenProperties
<1>2. PICK h : Through(h, d, b)
  BY BatchHistory
<1>3. h[0] = d /\ ApplyBatch(d, b) = h[n] /\ \A k \in 1 .. n : h[k] = ApplyEvent(h[k - 1], b[k])
  BY <1>2 DEF Through
<1> HIDE DEF n
<1> DEFINE T == {k \in 0 .. n : h[k] \notin P}
<1> SUFFICES ASSUME T # {} PROVE FALSE
  BY <1>1, <1>3
<1>4. T \subseteq Nat
  BY <1>1
<1>5. PICK k \in T : \A j \in T : ~(j < k)
  BY <1>4, NatMinimum
<1>6. k \in 0 .. n /\ h[k] \notin P
  OBVIOUS
<1>7. k # 0
  BY <1>3, <1>6
<1>8. k \in 1 .. n /\ k - 1 \in 0 .. n /\ k - 1 < k
  BY <1>1, <1>6, <1>7
<1>9. h[k - 1] \in P
  BY <1>5, <1>8
<1> QED BY <1>3, <1>6, <1>8, <1>9 DEF n

---------------------------------------------------------------------------
(* What an event does to the table                                         *)

\* DELETE takes out the row of the id, and nothing else.
LEMMA Deleted ==
    ASSUME NEW rs \in Seq(Row), Keyed(rs), NEW id
    PROVE  LET w == Without(rs, id)
           IN  /\ w \in Seq(Row) /\ Keyed(w)
               /\ ToSet(w) = {r \in ToSet(rs) : r.exchange_id # id}
<1> DEFINE n == Len(rs)
           I == {i \in 1 .. n : rs[i].exchange_id = id}
           w == Without(rs, id)
<1>1. /\ n \in Nat /\ DOMAIN rs = 1 .. n /\ \A i \in 1 .. n : rs[i] \in Row
  BY LenProperties, ElementOfSeq
<1>2. CASE I = {}
  <2>1. w = rs
    BY <1>2 DEF Without, RemoveFirstMatch
  <2>2. \A i \in 1 .. n : rs[i].exchange_id # id
    BY <1>2
  <2> QED BY <1>1, <2>1, <2>2 DEF ToSet
<1>3. CASE I # {}
  <2>1. PICK m \in I : TRUE
    BY <1>3
  <2>2. m \in 1 .. n /\ rs[m].exchange_id = id /\ \A i \in 1 .. n : rs[i].exchange_id = id => i = m
    BY <1>1, <2>1 DEF Keyed
  <2>3. (CHOOSE i \in I : \A j \in I : i <= j) = m
    <3>1. I = {m}
      BY <2>2
    <3> HIDE DEF I
    <3> QED BY <2>2, <3>1
  <2>4. w = RemoveAt(rs, m)
    <3>1. Without(rs, id) =
            IF \E i \in 1 .. Len(rs) : rs[i].exchange_id = id
            THEN RemoveAt(rs, IF {i \in 1 .. Len(rs) : rs[i].exchange_id = id} # {}
                              THEN CHOOSE i \in {j \in 1 .. Len(rs) : rs[j].exchange_id = id} :
                                       \A j \in {i2 \in 1 .. Len(rs) : rs[i2].exchange_id = id} : i <= j
                              ELSE 0)
            ELSE rs
      BY DEF Without, RemoveFirstMatch, SelectInSeq, Min
    <3>2. \E i \in 1 .. Len(rs) : rs[i].exchange_id = id
      BY <2>2
    <3> QED BY <1>3, <2>3, <3>1, <3>2
  <2>5. w = SubSeq(rs, 1, m - 1) \o SubSeq(rs, m + 1, n)
    BY <2>4 DEF RemoveAt
  <2>6. PICK a : a = SubSeq(rs, 1, m - 1)
    OBVIOUS
  <2>7. PICK b : b = SubSeq(rs, m + 1, n)
    OBVIOUS
  <2> HIDE DEF n, I, w
  <2>8. /\ a \in Seq(Row) /\ Len(a) = m - 1
        /\ \A i \in 1 .. m - 1 : a[i] = rs[i]
    <3>1. m - 1 \in Int /\ \A i \in 1 .. m - 1 : rs[i] \in Row
      BY <1>1, <2>2
    <3>2. /\ SubSeq(rs, 1, m - 1) \in Seq(Row)
          /\ Len(SubSeq(rs, 1, m - 1)) = IF 1 <= m - 1 THEN (m - 1) - 1 + 1 ELSE 0
          /\ \A i \in 1 .. (m - 1) - 1 + 1 : SubSeq(rs, 1, m - 1)[i] = rs[1 + i - 1]
      BY <3>1, SubSeqProperties
    <3> QED BY <1>1, <2>2, <2>6, <3>2
  <2>9. /\ b \in Seq(Row) /\ Len(b) = n - m
        /\ \A i \in 1 .. n - m : b[i] = rs[m + i]
    <3>1. m + 1 \in Int /\ n \in Int /\ \A i \in m + 1 .. n : rs[i] \in Row
      BY <1>1, <2>2
    <3>2. /\ SubSeq(rs, m + 1, n) \in Seq(Row)
          /\ Len(SubSeq(rs, m + 1, n)) = IF m + 1 <= n THEN n - (m + 1) + 1 ELSE 0
          /\ \A i \in 1 .. n - (m + 1) + 1 : SubSeq(rs, m + 1, n)[i] = rs[(m + 1) + i - 1]
      BY <3>1, SubSeqProperties
    <3> QED BY <1>1, <2>2, <2>7, <3>2
  <2>10. w = a \o b
    BY <2>5, <2>6, <2>7
  <2>11. /\ w \in Seq(Row) /\ Len(w) = n - 1
         /\ \A i \in 1 .. n - 1 : w[i] = IF i < m THEN rs[i] ELSE rs[i + 1]
    <3>1. /\ a \o b \in Seq(Row) /\ Len(a \o b) = Len(a) + Len(b)
          /\ \A i \in 1 .. Len(a) + Len(b) :
                 (a \o b)[i] = IF i <= Len(a) THEN a[i] ELSE b[i - Len(a)]
      BY <2>8, <2>9, ConcatProperties
    <3>2. Len(a) + Len(b) = n - 1
      BY <1>1, <2>2, <2>8, <2>9
    <3>3. ASSUME NEW i \in 1 .. n - 1 PROVE w[i] = IF i < m THEN rs[i] ELSE rs[i + 1]
      <4>1. CASE i < m
        <5>1. i \in 1 .. m - 1 /\ i <= m - 1
          BY <1>1, <2>2, <4>1
        <5> QED BY <2>8, <2>10, <3>1, <3>2, <4>1, <5>1
      <4>2. CASE ~(i < m)
        <5>1. i - (m - 1) \in 1 .. n - m /\ m + (i - (m - 1)) = i + 1 /\ ~(i <= m - 1)
          BY <1>1, <2>2, <4>2
        <5> QED BY <2>8, <2>9, <2>10, <3>1, <3>2, <4>2, <5>1
      <4> QED BY <4>1, <4>2
    <3> QED BY <2>10, <3>1, <3>2, <3>3
  <2>12. DOMAIN w = 1 .. n - 1
    BY <2>11, LenProperties
  <2>13. Keyed(w)
    <3> SUFFICES ASSUME NEW i \in 1 .. n - 1, NEW j \in 1 .. n - 1,
                        w[i].exchange_id = w[j].exchange_id
                 PROVE  i = j
      BY <2>12 DEF Keyed
    <3>1. PICK x \in 1 .. n : w[i] = rs[x] /\ x = IF i < m THEN i ELSE i + 1
      BY <1>1, <2>2, <2>11
    <3>2. PICK y \in 1 .. n : w[j] = rs[y] /\ y = IF j < m THEN j ELSE j + 1
      BY <1>1, <2>2, <2>11
    <3>3. x = y
      BY <1>1, <3>1, <3>2 DEF Keyed
    <3> QED BY <1>1, <2>2, <3>1, <3>2, <3>3
  <2>14. ASSUME NEW r
         PROVE  (\E i \in 1 .. n - 1 : w[i] = r)
                    <=> (\E i \in 1 .. n : rs[i] = r /\ r.exchange_id # id)
    <3>1. ASSUME NEW i \in 1 .. n - 1, w[i] = r
          PROVE  \E k \in 1 .. n : rs[k] = r /\ r.exchange_id # id
      <4>1. PICK k \in 1 .. n : k # m /\ rs[k] = r
        <5>1. CASE i < m
          BY <1>1, <2>2, <2>11, <3>1, <5>1
        <5>2. CASE ~(i < m)
          <6>1. i + 1 \in 1 .. n /\ i + 1 # m /\ rs[i + 1] = r
            BY <1>1, <2>2, <2>11, <3>1, <5>2
          <6> QED BY <6>1
        <5> QED BY <5>1, <5>2
      <4> QED BY <2>2, <4>1
    <3>2. ASSUME NEW k \in 1 .. n, rs[k] = r, r.exchange_id # id
          PROVE  \E i \in 1 .. n - 1 : w[i] = r
      <4>1. k # m
        BY <2>2, <3>2
      <4>2. CASE k < m
        <5>1. k \in 1 .. n - 1 /\ w[k] = r
          BY <1>1, <2>2, <2>11, <3>2, <4>2
        <5> QED BY <5>1
      <4>3. CASE k > m
        <5>1. k - 1 \in 1 .. n - 1 /\ ~(k - 1 < m) /\ (k - 1) + 1 = k
          BY <1>1, <2>2, <4>3
        <5>2. w[k - 1] = r
          BY <2>11, <3>2, <5>1
        <5> QED BY <5>1, <5>2
      <4> QED BY <1>1, <2>2, <4>1, <4>2, <4>3
    <3> QED BY <3>1, <3>2
  <2>15. ToSet(w) = {r \in ToSet(rs) : r.exchange_id # id}
    BY <1>1, <2>12, <2>14 DEF ToSet
  <2> QED BY <2>11, <2>13, <2>15 DEF w
<1> QED BY <1>2, <1>3

\* UPDATE sets the columns in the row of the id, and changes no other row.
Updated(r, set) == [c \in DOMAIN r |-> IF c \in DOMAIN set THEN set[c] ELSE r[c]]

LEMMA RowUpdated ==
    ASSUME NEW rs \in Seq(Row), Keyed(rs), NEW id, NEW set,
           \A r \in Row : Updated(r, set) \in Row /\ Updated(r, set).exchange_id = r.exchange_id
    PROVE  LET u == UpdateRow(rs, id, set)
           IN  /\ u \in Seq(Row) /\ Keyed(u)
               /\ ToSet(u) = {r \in ToSet(rs) : r.exchange_id # id}
                                \cup {Updated(r, set) : r \in {x \in ToSet(rs) : x.exchange_id = id}}
<1> DEFINE n == Len(rs)
           u == UpdateRow(rs, id, set)
<1>1. n \in Nat /\ DOMAIN rs = 1 .. n /\ \A i \in 1 .. n : rs[i] \in Row
  BY LenProperties, ElementOfSeq
<1>2. DOMAIN u = 1 .. n
  BY <1>1 DEF UpdateRow
<1>3. ASSUME NEW i \in 1 .. n
      PROVE  u[i] = IF rs[i].exchange_id = id THEN Updated(rs[i], set) ELSE rs[i]
  <2>1. u[i] = [c \in DOMAIN rs[i] |->
                   IF rs[i].exchange_id = id /\ c \in DOMAIN set THEN set[c] ELSE rs[i][c]]
    BY <1>1, <1>2 DEF UpdateRow
  <2>2. rs[i] = [c \in DOMAIN rs[i] |-> rs[i][c]]
    BY <1>1 DEF Row
  <2> QED BY <2>1, <2>2 DEF Updated
<1>4. \A i \in 1 .. n : u[i] \in Row /\ u[i].exchange_id = rs[i].exchange_id
  BY <1>1, <1>3
<1>5. u \in [1 .. n -> Row]
  <2>1. u = [i \in 1 .. n |-> u[i]]
    BY <1>1 DEF UpdateRow
  <2> HIDE DEF u
  <2> QED BY <1>2, <1>4, <2>1
<1> HIDE DEF u
<1>6. u \in Seq(Row)
  BY <1>1, <1>5, SeqDef
<1>7. Keyed(u)
  BY <1>1, <1>2, <1>4 DEF Keyed
<1>8. ToSet(u) = {r \in ToSet(rs) : r.exchange_id # id}
                   \cup {Updated(r, set) : r \in {x \in ToSet(rs) : x.exchange_id = id}}
  <2>1. ASSUME NEW i \in 1 .. n
        PROVE  \/ u[i] \in {r \in ToSet(rs) : r.exchange_id # id}
               \/ u[i] \in {Updated(r, set) : r \in {x \in ToSet(rs) : x.exchange_id = id}}
    BY <1>1, <1>3 DEF ToSet
  <2>2. ASSUME NEW i \in 1 .. n, rs[i].exchange_id # id PROVE rs[i] \in ToSet(u)
    BY <1>2, <1>3, <2>2 DEF ToSet
  <2>3. ASSUME NEW i \in 1 .. n, rs[i].exchange_id = id PROVE Updated(rs[i], set) \in ToSet(u)
    BY <1>2, <1>3, <2>3 DEF ToSet
  <2> QED BY <1>1, <1>2, <2>1, <2>2, <2>3 DEF ToSet
<1> QED BY <1>6, <1>7, <1>8 DEF u

\* The rows of the table after an event.
Others(T, id) == {r \in T : r.exchange_id # id}
With(T, id, set) == {Updated(r, set) : r \in {x \in T : x.exchange_id = id}}
NewTerms(e) == [clord_id |-> e.req.new_clord_id, price |-> e.req.new_price,
                leaves_qty |-> e.leaves_qty]
TableAfter(T, e) ==
    CASE e.type = "RESTED" ->
             Others(T, e.order.exchange_id) \cup {RowFor(e.order, e.leaves_qty)}
      [] e.type = "FILL" /\ e.fill.leaves_qty > 0 ->
             Others(T, e.fill.exchange_id)
                 \cup With(T, e.fill.exchange_id, [leaves_qty |-> e.fill.leaves_qty])
      [] e.type = "FILL" /\ ~(e.fill.leaves_qty > 0) -> Others(T, e.fill.exchange_id)
      [] e.type = "CANCEL" -> Others(T, e.order.exchange_id)
      [] e.type = "REPLACE" /\ e.leaves_qty > 0 ->
             Others(T, e.req.orig_order_id) \cup With(T, e.req.orig_order_id, NewTerms(e))
      [] e.type = "REPLACE" /\ ~(e.leaves_qty > 0) -> Others(T, e.req.orig_order_id)
      [] OTHER -> T

\* What an event adds to the ends a client is told at logon.
EndsIn(e, c) ==
    IF e.type \in {"FILL", "TAKER_FILL"} /\ e.fill.client_id = c /\ e.fill.leaves_qty = 0
    THEN {e.fill.exchange_id}
    ELSE IF e.type = "CANCEL" /\ e.order.client_id = c THEN {e.order.exchange_id} ELSE {}

\* The columns of a row after an UPDATE.
Columns == {"exchange_id", "clord_id", "client_id", "symbol", "side", "price", "leaves_qty"}

LEMMA RowColumns ==
    ASSUME NEW r \in Row, NEW set, DOMAIN set \subseteq {"clord_id", "price", "leaves_qty"},
           "clord_id" \in DOMAIN set => set["clord_id"] \in ClOrdIds,
           "price" \in DOMAIN set => set["price"] \in Prices,
           "leaves_qty" \in DOMAIN set => set["leaves_qty"] \in Int
    PROVE  LET u == Updated(r, set)
           IN  /\ u \in Row
               /\ u.exchange_id = r.exchange_id /\ u.client_id = r.client_id
               /\ u.symbol = r.symbol /\ u.side = r.side
               /\ u.clord_id = IF "clord_id" \in DOMAIN set THEN set["clord_id"] ELSE r.clord_id
               /\ u.price = IF "price" \in DOMAIN set THEN set["price"] ELSE r.price
               /\ u.leaves_qty = IF "leaves_qty" \in DOMAIN set THEN set["leaves_qty"]
                                                               ELSE r.leaves_qty
<1> DEFINE u == Updated(r, set)
<1>1. DOMAIN r = Columns
  BY DEF Row, Columns
<1>2. /\ r.exchange_id \in Nat /\ r.clord_id \in ClOrdIds /\ r.client_id \in Clients
      /\ r.symbol \in Symbols /\ r.side \in Sides /\ r.price \in Prices /\ r.leaves_qty \in Int
  BY DEF Row
<1>3. u = [c \in Columns |-> IF c \in DOMAIN set THEN set[c] ELSE r[c]]
  BY <1>1 DEF Updated
<1>4. /\ u.exchange_id = r.exchange_id /\ u.client_id = r.client_id
      /\ u.symbol = r.symbol /\ u.side = r.side
      /\ u.clord_id = IF "clord_id" \in DOMAIN set THEN set["clord_id"] ELSE r.clord_id
      /\ u.price = IF "price" \in DOMAIN set THEN set["price"] ELSE r.price
      /\ u.leaves_qty = IF "leaves_qty" \in DOMAIN set THEN set["leaves_qty"] ELSE r.leaves_qty
  BY <1>3 DEF Columns
<1>5. u = [c \in Columns |-> u[c]]
  BY <1>3
<1> HIDE DEF u
<1>6. u = [exchange_id |-> u.exchange_id, clord_id |-> u.clord_id, client_id |-> u.client_id,
           symbol |-> u.symbol, side |-> u.side, price |-> u.price, leaves_qty |-> u.leaves_qty]
  BY <1>5 DEF Columns
<1>7. u \in Row
  BY <1>2, <1>4, <1>6 DEF Row
<1> QED BY <1>4, <1>7 DEF u

\* The rows of the table after the statements of an event.
LEMMA LeavesUpdated ==
    ASSUME NEW rs \in Seq(Row), Keyed(rs), NEW id, NEW set, NEW l \in Int,
           set = [leaves_qty |-> l]
    PROVE  LET u == UpdateRow(rs, id, set)
           IN  /\ u \in Seq(Row) /\ Keyed(u)
               /\ ToSet(u) = Others(ToSet(rs), id) \cup With(ToSet(rs), id, set)
<1>1. DOMAIN set = {"leaves_qty"} /\ set["leaves_qty"] \in Int
  OBVIOUS
<1>2. \A r \in Row : Updated(r, set) \in Row /\ Updated(r, set).exchange_id = r.exchange_id
  BY <1>1, RowColumns
<1> QED BY <1>2, RowUpdated DEF Others, With

LEMMA TermsUpdated ==
    ASSUME NEW rs \in Seq(Row), Keyed(rs), NEW id, NEW set,
           DOMAIN set = {"clord_id", "price", "leaves_qty"}, set["clord_id"] \in ClOrdIds,
           set["price"] \in Prices, set["leaves_qty"] \in Int
    PROVE  LET u == UpdateRow(rs, id, set)
           IN  /\ u \in Seq(Row) /\ Keyed(u)
               /\ ToSet(u) = Others(ToSet(rs), id) \cup With(ToSet(rs), id, set)
<1>1. \A r \in Row : Updated(r, set) \in Row /\ Updated(r, set).exchange_id = r.exchange_id
  BY RowColumns
<1> QED BY <1>1, RowUpdated DEF Others, With

LEMMA Inserted ==
    ASSUME NEW rs \in Seq(Row), Keyed(rs), NEW r \in Row,
           \A x \in ToSet(rs) : x.exchange_id # r.exchange_id
    PROVE  LET a == Append(rs, r)
           IN  /\ a \in Seq(Row) /\ Keyed(a)
               /\ ToSet(a) = ToSet(rs) \cup {r}
<1> DEFINE n == Len(rs)
           a == Append(rs, r)
<1>1. n \in Nat /\ DOMAIN rs = 1 .. n
  BY LenProperties
<1>2. /\ a \in Seq(Row) /\ Len(a) = n + 1 /\ a[n + 1] = r
      /\ \A i \in 1 .. n : a[i] = rs[i]
  BY AppendProperties
<1> HIDE DEF n, a
<1>3. DOMAIN a = 1 .. n + 1
  BY <1>2, LenProperties
<1>4. \A i \in 1 .. n + 1 : i \in 1 .. n \/ i = n + 1
  BY <1>1
<1>5. Keyed(a)
  BY <1>1, <1>2, <1>3, <1>4 DEF Keyed, ToSet
<1>6. ToSet(a) = ToSet(rs) \cup {r}
  <2>1. \A i \in 1 .. n : i \in 1 .. n + 1
    BY <1>1
  <2>2. n + 1 \in 1 .. n + 1
    BY <1>1
  <2> QED BY <1>1, <1>2, <1>3, <1>4, <2>1, <2>2 DEF ToSet
<1> QED BY <1>2, <1>5, <1>6 DEF a

\* The ends on record after one more event.
LEMMA Recorded ==
    ASSUME NEW d, d.events \in Seq(Past), NEW x \in Past, NEW f,
           f.events = Append(d.events, x), NEW c
    PROVE  LoadHistoricalFills(f, c) = LoadHistoricalFills(d, c)
               \cup (IF x.client_id = c /\ x.leaves_qty = 0 THEN {x.exchange_id} ELSE {})
<1> DEFINE es == d.events
           n == Len(es)
           a == Append(es, x)
<1>1. n \in Nat /\ DOMAIN es = 1 .. n
  BY LenProperties
<1>2. /\ a \in Seq(Past) /\ Len(a) = n + 1 /\ a[n + 1] = x
      /\ \A i \in 1 .. n : a[i] = es[i]
  BY AppendProperties
<1> HIDE DEF n, a
<1>3. DOMAIN a = 1 .. n + 1
  BY <1>2, LenProperties
<1>4. /\ \A i \in 1 .. n + 1 : i \in 1 .. n \/ i = n + 1
      /\ \A i \in 1 .. n : i \in 1 .. n + 1
      /\ n + 1 \in 1 .. n + 1
  BY <1>1
<1>5. LoadHistoricalFills(d, c) =
          {es[i].exchange_id : i \in {j \in 1 .. n : es[j].client_id = c /\ es[j].leaves_qty = 0}}
  BY <1>1 DEF LoadHistoricalFills
<1>6. LoadHistoricalFills(f, c) =
          {a[i].exchange_id : i \in {j \in 1 .. n + 1 : a[j].client_id = c /\ a[j].leaves_qty = 0}}
  BY <1>3 DEF LoadHistoricalFills, a
<1> QED BY <1>2, <1>4, <1>5, <1>6, ZenonT(40)

\* What an event carries.
LEMMA ReportFields ==
    ASSUME NEW e \in Report
    PROVE  /\ e.type \in {"RESTED", "FILL", "TAKER_FILL", "CANCEL", "REPLACE", "SYMBOL"}
           /\ e.type = "RESTED" => e.order \in Order /\ e.leaves_qty \in Int
           /\ e.type \in {"FILL", "TAKER_FILL"} => e.fill \in Fill
           /\ e.type = "CANCEL" => e.order \in Order
           /\ e.type = "REPLACE" => e.req \in ReplaceRequest /\ e.leaves_qty \in Int
           /\ e.type = "SYMBOL" => e.symbol \in Symbols
  BY DEF Report

\* The table stays sound, its rows are those of TableAfter, and the ends on record grow.
LEMMA EventDone ==
    ASSUME NEW d, Sound(d), NEW e \in Report, e.type = "RESTED" => e.order.price \in Prices
    PROVE  LET f == ApplyEvent(d, e)
           IN  /\ Sound(f)
               /\ Table(f) = TableAfter(Table(d), e)
               /\ \A c : LoadHistoricalFills(f, c) = LoadHistoricalFills(d, c) \cup EndsIn(e, c)
<1> DEFINE f == ApplyEvent(d, e)
           rs == d.resting_orders
<1>1. /\ d \in Database /\ rs \in Seq(Row) /\ Keyed(rs) /\ d.events \in Seq(Past)
  BY DEF Sound, Database
<1>2. ASSUME NEW us, us \in Seq(Row), Keyed(us), NEW es, es \in Seq(Past), NEW ss,
             ss \in SUBSET Symbols,
             f = [resting_orders |-> us, events |-> es, symbols |-> ss]
      PROVE  Sound(f) /\ Table(f) = ToSet(us)
  BY <1>2 DEF Sound, Database, Table
<1>3. d = [resting_orders |-> rs, events |-> d.events, symbols |-> d.symbols]
      /\ d.symbols \in SUBSET Symbols
  BY <1>1 DEF Database
<1>4. CASE e.type = "RESTED"
  <2> DEFINE row == RowFor(e.order, e.leaves_qty)
             w == Without(rs, e.order.exchange_id)
  <2>1. f = [resting_orders |-> Append(w, row), events |-> d.events, symbols |-> d.symbols]
    BY <1>3, <1>4 DEF ApplyEvent, ApplyRested
  <2>2. row \in Row /\ row.exchange_id = e.order.exchange_id
    <3>1. e.order \in Order /\ e.leaves_qty \in Int /\ e.order.price \in Prices
      BY <1>4, ReportFields
    <3> QED BY <3>1 DEF RowFor, Row, Order
  <2>3. /\ w \in Seq(Row) /\ Keyed(w)
        /\ ToSet(w) = {r \in ToSet(rs) : r.exchange_id # e.order.exchange_id}
    BY <1>1, Deleted
  <2> HIDE DEF row, w
  <2>4. /\ Append(w, row) \in Seq(Row) /\ Keyed(Append(w, row))
        /\ ToSet(Append(w, row)) = ToSet(w) \cup {row}
    BY <2>2, <2>3, Inserted
  <2>5. Sound(f) /\ Table(f) = ToSet(w) \cup {row}
    BY <1>1, <1>2, <1>3, <2>1, <2>4
  <2>6. Table(f) = TableAfter(Table(d), e)
    BY <1>4, <2>3, <2>5 DEF TableAfter, Others, Table, row
  <2>7. \A c : LoadHistoricalFills(f, c) = LoadHistoricalFills(d, c) \cup EndsIn(e, c)
    BY <1>4, <2>1 DEF LoadHistoricalFills, EndsIn
  <2> QED BY <2>5, <2>6, <2>7
<1>5. ASSUME NEW us, us \in Seq(Row), Keyed(us), ToSet(us) = TableAfter(Table(d), e),
             NEW x \in Past,
             \A c : (IF x.client_id = c /\ x.leaves_qty = 0 THEN {x.exchange_id} ELSE {})
                       = EndsIn(e, c),
             f = [resting_orders |-> us, events |-> Append(d.events, x), symbols |-> d.symbols]
      PROVE  /\ Sound(f) /\ Table(f) = TableAfter(Table(d), e)
             /\ \A c : LoadHistoricalFills(f, c) = LoadHistoricalFills(d, c) \cup EndsIn(e, c)
  <2>1. Append(d.events, x) \in Seq(Past)
    BY <1>1, AppendProperties
  <2>2. Sound(f) /\ Table(f) = ToSet(us)
    BY <1>2, <1>3, <1>5, <2>1
  <2>3. ASSUME NEW c
        PROVE  LoadHistoricalFills(f, c) = LoadHistoricalFills(d, c) \cup EndsIn(e, c)
    <3>1. f.events = Append(d.events, x)
      BY <1>5
    <3> HIDE DEF f
    <3>2. LoadHistoricalFills(f, c) = LoadHistoricalFills(d, c)
             \cup (IF x.client_id = c /\ x.leaves_qty = 0 THEN {x.exchange_id} ELSE {})
      BY <1>1, <3>1, Recorded
    <3> QED BY <1>5, <3>2
  <2> QED BY <1>5, <2>2, <2>3
<1>6. CASE e.type = "FILL"
  <2> DEFINE id == e.fill.exchange_id
             l == e.fill.leaves_qty
             x == Event("fill", e.fill, l)
             set == [leaves_qty |-> l]
             us == IF l > 0 THEN UpdateRow(rs, id, set) ELSE Without(rs, id)
  <2>1. e.fill \in Fill
    BY <1>6, ReportFields
  <2>2. l \in Int /\ x \in Past
    BY <2>1 DEF Fill, Past, Event
  <2>3. f = [resting_orders |-> us, events |-> Append(d.events, x), symbols |-> d.symbols]
    BY <1>3, <1>6 DEF ApplyEvent, ApplyFill
  <2>4. us \in Seq(Row) /\ Keyed(us) /\ ToSet(us) = TableAfter(Table(d), e)
    <3>1. PICK s : s = set
      OBVIOUS
    <3>2. LET u == UpdateRow(rs, id, s)
          IN  /\ u \in Seq(Row) /\ Keyed(u)
              /\ ToSet(u) = Others(ToSet(rs), id) \cup With(ToSet(rs), id, s)
      BY <1>1, <2>2, <3>1, LeavesUpdated
    <3>3. LET w == Without(rs, id)
          IN  w \in Seq(Row) /\ Keyed(w) /\ ToSet(w) = Others(ToSet(rs), id)
      BY <1>1, Deleted DEF Others
    <3>4. CASE l > 0
      BY <1>6, <3>1, <3>2, <3>4 DEF TableAfter, Table
    <3>5. CASE ~(l > 0)
      BY <1>6, <3>3, <3>5 DEF TableAfter, Table
    <3> QED BY <3>4, <3>5
  <2>5. \A c : (IF x.client_id = c /\ x.leaves_qty = 0 THEN {x.exchange_id} ELSE {})
                  = EndsIn(e, c)
    BY <1>6 DEF EndsIn, Event
  <2> HIDE DEF us, x
  <2> QED BY <1>5, <2>2, <2>3, <2>4, <2>5
<1>7. CASE e.type = "TAKER_FILL"
  <2> DEFINE x == Event("taker_fill", e.fill, e.fill.leaves_qty)
  <2>1. e.fill \in Fill
    BY <1>7, ReportFields
  <2>2. x \in Past
    BY <2>1 DEF Fill, Past, Event
  <2>3. f = [resting_orders |-> rs, events |-> Append(d.events, x), symbols |-> d.symbols]
    BY <1>3, <1>7 DEF ApplyEvent, ApplyTakerFill
  <2>4. ToSet(rs) = TableAfter(Table(d), e)
    BY <1>7 DEF TableAfter, Table
  <2>5. \A c : (IF x.client_id = c /\ x.leaves_qty = 0 THEN {x.exchange_id} ELSE {})
                  = EndsIn(e, c)
    BY <1>7 DEF EndsIn, Event
  <2> HIDE DEF x
  <2> QED BY <1>1, <1>5, <2>2, <2>3, <2>4, <2>5
<1>8. CASE e.type = "CANCEL"
  <2> DEFINE id == e.order.exchange_id
             x == Event("cancel", e.order, 0)
             us == Without(rs, id)
  <2>1. e.order \in Order
    BY <1>8, ReportFields
  <2>2. x \in Past
    BY <2>1 DEF Order, Past, Event
  <2>3. f = [resting_orders |-> us, events |-> Append(d.events, x), symbols |-> d.symbols]
    BY <1>3, <1>8 DEF ApplyEvent, ApplyCancel
  <2>4. us \in Seq(Row) /\ Keyed(us) /\ ToSet(us) = TableAfter(Table(d), e)
    <3>1. us \in Seq(Row) /\ Keyed(us) /\ ToSet(us) = Others(ToSet(rs), id)
      BY <1>1, Deleted DEF Others
    <3> QED BY <1>8, <3>1 DEF TableAfter, Table
  <2>5. \A c : (IF x.client_id = c /\ x.leaves_qty = 0 THEN {x.exchange_id} ELSE {})
                  = EndsIn(e, c)
    BY <1>8 DEF EndsIn, Event
  <2> HIDE DEF us, x
  <2> QED BY <1>5, <2>2, <2>3, <2>4, <2>5
<1>9. CASE e.type = "REPLACE"
  <2> DEFINE id == e.req.orig_order_id
             us == IF e.leaves_qty > 0
                   THEN UpdateRow(rs, id, [clord_id |-> e.req.new_clord_id,
                                           price |-> e.req.new_price,
                                           leaves_qty |-> e.leaves_qty])
                   ELSE Without(rs, id)
  <2>1. e.req \in ReplaceRequest /\ e.leaves_qty \in Int
    BY <1>9, ReportFields
  <2>2. e.req.new_clord_id \in ClOrdIds /\ e.req.new_price \in Prices
    BY <2>1 DEF ReplaceRequest
  <2>3. f = [resting_orders |-> us, events |-> d.events, symbols |-> d.symbols]
    BY <1>3, <1>9 DEF ApplyEvent, ApplyReplace
  <2>4. us \in Seq(Row) /\ Keyed(us) /\ ToSet(us) = TableAfter(Table(d), e)
    <3>1. PICK s : s = [clord_id |-> e.req.new_clord_id, price |-> e.req.new_price,
                        leaves_qty |-> e.leaves_qty]
      OBVIOUS
    <3>2. LET u == UpdateRow(rs, id, s)
          IN  /\ u \in Seq(Row) /\ Keyed(u)
              /\ ToSet(u) = Others(ToSet(rs), id) \cup With(ToSet(rs), id, s)
      <4>1. /\ DOMAIN s = {"clord_id", "price", "leaves_qty"}
            /\ s["clord_id"] \in ClOrdIds /\ s["price"] \in Prices /\ s["leaves_qty"] \in Int
        BY <2>1, <2>2, <3>1
      <4> QED BY <1>1, <4>1, TermsUpdated
    <3>3. LET w == Without(rs, id)
          IN  w \in Seq(Row) /\ Keyed(w) /\ ToSet(w) = Others(ToSet(rs), id)
      BY <1>1, Deleted DEF Others
    <3>4. CASE e.leaves_qty > 0
      BY <1>9, <3>1, <3>2, <3>4 DEF TableAfter, Table, NewTerms
    <3>5. CASE ~(e.leaves_qty > 0)
      BY <1>9, <3>3, <3>5 DEF TableAfter, Table
    <3> QED BY <3>4, <3>5
  <2> HIDE DEF us
  <2>5. Sound(f) /\ Table(f) = ToSet(us)
    BY <1>1, <1>2, <1>3, <2>3, <2>4
  <2>6. \A c : LoadHistoricalFills(f, c) = LoadHistoricalFills(d, c) \cup EndsIn(e, c)
    BY <1>9, <2>3 DEF LoadHistoricalFills, EndsIn
  <2> QED BY <2>4, <2>5, <2>6
<1>10. CASE e.type = "SYMBOL"
  <2>1. f = [resting_orders |-> rs, events |-> d.events, symbols |-> d.symbols \cup {e.symbol}]
    BY <1>3, <1>10 DEF ApplyEvent, ApplySymbol
  <2>2. d.symbols \cup {e.symbol} \in SUBSET Symbols
    BY <1>3, <1>10, ReportFields
  <2>3. Sound(f) /\ Table(f) = ToSet(rs)
    BY <1>1, <1>2, <2>1, <2>2
  <2>4. Table(f) = TableAfter(Table(d), e)
    BY <1>10, <2>3 DEF TableAfter, Table
  <2>5. \A c : LoadHistoricalFills(f, c) = LoadHistoricalFills(d, c) \cup EndsIn(e, c)
    BY <1>10, <2>1 DEF LoadHistoricalFills, EndsIn
  <2> QED BY <2>3, <2>4, <2>5
<1> QED BY <1>4, <1>6, <1>7, <1>8, <1>9, <1>10, ReportFields

---------------------------------------------------------------------------
(* Steps of the gateway and the engine                                     *)

\* The ids and ClOrdIDs handed out only grow.
Grows == submitted_seq \in Nat /\ submitted_seq <= submitted_seq' /\ used \subseteq used'
           /\ submitted_seq' \in Nat

LEMMA SubmittedGrows ==
    ASSUME Grows
    PROVE  /\ \A o : Submitted(o) => o.exchange_id \in 1 .. submitted_seq' /\ o.clord_id \in used'
           /\ \A e : ReportOK(e) => ReportOK(e)'
           /\ \A log : LogOK(log) => /\ log \in Seq(Report)
                                     /\ \A i \in DOMAIN log : ReportOK(log[i])'
<1>1. \A o : Submitted(o) => o.exchange_id \in 1 .. submitted_seq' /\ o.clord_id \in used'
  BY DEF Grows, Submitted
<1>2. ASSUME NEW e, ReportOK(e) PROVE ReportOK(e)'
  BY <1>1, <1>2 DEF ReportOK, Submitted, Grows
<1> QED BY <1>1, <1>2 DEF LogOK

LEMMA SubmittedNat ==
    ASSUME GInv PROVE submitted_seq \in Nat /\ submitted_seq <= order_seq_ /\ order_seq_ \in Nat
  BY DEF GInv, IInv, TypeOK, FixOK, SubmitOK, submitted_seq

\* The database and the events on their way, after a step that leaves them alone.
LEMMA DatabaseKept ==
    ASSUME XInv, Grows, UNCHANGED << db, batch, adm >>
    PROVE  DbOK' /\ LogOK(batch)' /\ LogOK(adm)' /\ (pqueue' = pqueue => LogOK(pqueue)')
<1>1. DbOK'
  BY SubmittedGrows DEF XInv, DbOK, Submitted
<1>2. LogOK(batch)' /\ LogOK(adm)' /\ (pqueue' = pqueue => LogOK(pqueue)')
  BY SubmittedGrows DEF XInv, LogOK
<1> QED BY <1>1, <1>2

\* The engine's own steps move orders that were submitted.
LEMMA EngineSideOrders ==
    ASSUME GInv, OrdersOK, UNCHANGED gwvars,
           RunOrder \/ RunCancel \/ RunReplace \/ RunSnapshot \/ MatchFill \/ MatchEnd \/ Exit
    PROVE  OrdersOK' /\ UNCHANGED << submitted_seq, used >>
<1>1. UNCHANGED << submitted_seq, used, fix, order_seq_ >>
  BY DEF RunOrder, RunCancel, RunReplace, RunSnapshot, MatchFill, MatchEnd, Exit, gwvars,
         submitted_seq
<1>2. \A o, x : o.exchange_id = x.exchange_id /\ o.clord_id = x.clord_id /\ Submitted(x)
                  => Submitted(o)
  BY DEF Submitted
<1>3. fix.at = "submit" => fix.order.clord_id \in used
  BY DEF OrdersOK
<1> DEFINE Kept ==
             /\ \A i \in DOMAIN queue_' : queue_'[i].tag = "ORDER" => Submitted(queue_'[i].order)
             /\ pc' = "match" /\ cur'.tag = "ORDER" => Submitted(cur'.order)
             /\ call'.fn = "on_order_rested"
                    => Submitted(call'.order) /\ call'.order.price \in Prices
<1>4. Kept => OrdersOK'
  BY <1>1, <1>3 DEF OrdersOK, Submitted
<1> SUFFICES Kept
  BY <1>1, <1>4
<1>5. ASSUME NEW tag, Pop(tag)
      PROVE  /\ \A i \in DOMAIN queue_' : queue_'[i].tag = "ORDER" => Submitted(queue_'[i].order)
             /\ tag = "ORDER" => Submitted(Head(queue_).order)
             /\ pc # "match" /\ call = NoCall
  <2>1. IInv
    BY DEF GInv
  <2>2. /\ 1 \in DOMAIN queue_ /\ Head(queue_) = queue_[1]
        /\ Head(queue_).tag = tag /\ pc = "run" /\ call = NoCall
        /\ \A i \in DOMAIN queue_' : i + 1 \in DOMAIN queue_ /\ queue_'[i] = queue_[i + 1]
    BY <1>5, <2>1, PopQueue
  <2> QED BY <1>2, <2>2 DEF OrdersOK
<1>6. CASE RunOrder
  <2> DEFINE o == Head(queue_).order
  <2>1. /\ Pop("ORDER")
        /\ \/ call'.fn = "on_tif_cancel" /\ pc' # "match"
           \/ call' = NoCall /\ cur'.tag = "ORDER" /\ Alike(cur'.order, o)
    BY <1>6, RunOrderFacts
  <2> HIDE DEF o
  <2>2. Submitted(o) /\ \A i \in DOMAIN queue_' : queue_'[i].tag = "ORDER"
                                                   => Submitted(queue_'[i].order)
    BY <1>5, <2>1 DEF o
  <2>3. Alike(cur'.order, o) => Submitted(cur'.order)
    BY <1>2, <2>2 DEF Alike
  <2> QED BY <2>1, <2>2, <2>3 DEF NoCall
<1>7. CASE RunCancel \/ RunSnapshot
  <2>1. (Pop("CANCEL") \/ Pop("SNAPSHOT")) /\ call'.fn # "on_order_rested" /\ pc' # "match"
    BY <1>7, <1>5 DEF RunCancel, RunSnapshot, OnCancel, SnapshotCb, NoBook, Pop, NoCall
  <2>2. \A i \in DOMAIN queue_' : queue_'[i].tag = "ORDER" => Submitted(queue_'[i].order)
    BY <1>5, <2>1
  <2> QED BY <2>1, <2>2
<1>8. CASE RunReplace
  <2>1. Pop("REPLACE") /\ call'.fn # "on_order_rested"
        /\ (pc' = "match" => cur'.tag = "REPLACE")
    <3>1. /\ Pop("REPLACE") /\ call = NoCall
          /\ \/ call' = NoCall /\ pc' # "match"
             \/ call'.fn = "on_replace" /\ pc' # "match"
             \/ call' = NoCall /\ pc' = "match" /\ cur'.tag = "REPLACE"
      BY <1>8, RunReplaceFacts, Zenon
    <3> QED BY <3>1 DEF NoCall
  <2>2. \A i \in DOMAIN queue_' : queue_'[i].tag = "ORDER" => Submitted(queue_'[i].order)
    BY <1>5, <2>1
  <2> QED BY <2>1, <2>2
<1>9. CASE MatchFill
  <2>1. /\ pc = "match" /\ queue_' = queue_ /\ call'.fn = "on_fill"
        /\ cur'.tag = cur.tag /\ Alike(cur'.order, cur.order)
    BY <1>9, MatchFillFacts
  <2>2. cur'.order.exchange_id = cur.order.exchange_id /\ cur'.order.clord_id = cur.order.clord_id
    BY <2>1 DEF Alike
  <2>3. \A i \in DOMAIN queue_' : queue_'[i].tag = "ORDER" => Submitted(queue_'[i].order)
    BY <1>2, <2>1 DEF OrdersOK
  <2>4. cur'.tag = "ORDER" => Submitted(cur'.order)
    BY <1>2, <2>1, <2>2 DEF OrdersOK
  <2> QED BY <2>1, <2>3, <2>4
<1>10. CASE MatchEnd
  <2>1. /\ pc = "match" /\ pc' = "run" /\ queue_' = queue_
    BY <1>10 DEF MatchEnd
  <2>2. call'.fn = "on_order_rested" => /\ Submitted(call'.order)
                                        /\ call'.order.price \in Prices
    BY <1>2, <1>10, <2>1, RestedFacts DEF OrdersOK, Alike
  <2>3. \A i \in DOMAIN queue_' : queue_'[i].tag = "ORDER" => Submitted(queue_'[i].order)
    BY <1>2, <2>1 DEF OrdersOK
  <2> QED BY <2>1, <2>2, <2>3
<1>11. CASE Exit
  <2>1. UNCHANGED << queue_, cur, call >> /\ pc' = "stopped"
    BY <1>11 DEF Exit
  <2> QED BY <1>2, <2>1 DEF OrdersOK
<1> QED BY <1>6, <1>7, <1>8, <1>9, <1>10, <1>11

\* Handlers: an order is submitted under the ClOrdID it has just taken, with the next id.
LEMMA HandlerOrders ==
    ASSUME GInv, OrdersOK, GwFix
    PROVE  OrdersOK' /\ Grows /\ pqueue' = pqueue
<1>1. /\ submitted_seq \in Nat /\ order_seq_ \in Nat
      /\ used \subseteq used' /\ pqueue' = pqueue /\ UNCHANGED << pc, cur, call >>
  <2>1. used \subseteq used' /\ pqueue' = pqueue /\ UNCHANGED << pc, cur, call >>
    <3>1. CASE \/ \E c \in Clients : Logon(c) \/ Logout(c)
               \/ SendStatus \/ SubmitNew \/ PushRequest
               \/ \E c \in Clients : RecvMarketDataRequest(c)
               \/ \E m \in NewOrderMsgs, c \in Clients : RejectNew(m, c)
      BY <3>1 DEF Logon, Logout, SendStatus, RejectNew, SubmitNew, PushRequest,
                  RecvMarketDataRequest, Reject, RequestSnapshot, Request, vars, gwvars
    <3>2. CASE \E m \in NewOrderMsgs, c \in Clients, cl \in ClOrdIds : AcceptNew(m, c, cl)
      BY <3>2 DEF AcceptNew
    <3>3. CASE \E c \in Clients, orig \in ClOrdIds, s \in MsgSymbols : RecvCancel(c, orig, s)
      BY <3>3 DEF RecvCancel, vars
    <3>4. CASE \E c \in Clients, orig, cl \in ClOrdIds, s \in MsgSymbols, side \in Sides,
                 p \in Prices, q \in ReplaceQtys : RecvReplace(c, orig, cl, s, side, p, q)
      BY <3>4 DEF RecvReplace, vars
    <3> QED BY <3>1, <3>2, <3>3, <3>4 DEF GwFix, GwOrders
  <2> QED BY <2>1, SubmittedNat
<1> DEFINE Queue == \A i \in DOMAIN queue_' : queue_'[i].tag = "ORDER" =>
                        \/ i \in DOMAIN queue_ /\ queue_'[i] = queue_[i]
                        \/ fix.at = "submit" /\ queue_'[i].order = fix.order
                             /\ submitted_seq' = order_seq_
           Fix == fix'.at = "submit" => fix'.order.clord_id \in used'
<1>2. Grows /\ Queue /\ Fix => OrdersOK'
  <2> SUFFICES ASSUME Grows, Queue, Fix PROVE OrdersOK'
    OBVIOUS
  <2>1. \A o : Submitted(o) => o.exchange_id \in 1 .. submitted_seq' /\ o.clord_id \in used'
    BY SubmittedGrows
  <2>2. ASSUME fix.at = "submit", submitted_seq' = order_seq_
        PROVE  fix.order.exchange_id \in 1 .. submitted_seq' /\ fix.order.clord_id \in used'
    <3>1. fix.order.exchange_id = order_seq_ /\ order_seq_ \in 1 .. MaxOrders
      BY <2>2 DEF GInv, FixOK, SubmitOK
    <3> QED BY <1>1, <2>2, <3>1 DEF OrdersOK
  <2>3. \A i \in DOMAIN queue_' : queue_'[i].tag = "ORDER" =>
            /\ queue_'[i].order.exchange_id \in 1 .. submitted_seq'
            /\ queue_'[i].order.clord_id \in used'
    BY <2>1, <2>2 DEF OrdersOK
  <2> QED BY <1>1, <2>1, <2>3 DEF OrdersOK, Submitted
<1> SUFFICES Grows /\ Queue /\ Fix
  BY <1>1, <1>2
<1>3. ASSUME UNCHANGED queue_, UNCHANGED submitted_seq, fix'.at # "submit"
      PROVE  Grows /\ Queue /\ Fix
  BY <1>1, <1>3 DEF Grows
<1>4. CASE \/ \E c \in Clients : Logon(c) \/ Logout(c)
           \/ SendStatus
           \/ \E c \in Clients, orig \in ClOrdIds, s \in MsgSymbols : RecvCancel(c, orig, s)
           \/ \E c \in Clients, orig, cl \in ClOrdIds, s \in MsgSymbols, side \in Sides,
                 p \in Prices, q \in ReplaceQtys : RecvReplace(c, orig, cl, s, side, p, q)
  <2>1. UNCHANGED vars /\ fix.at # "submit" /\ fix'.at # "submit"
    <3>1. ASSUME NEW c \in Clients, Logon(c)
          PROVE  UNCHANGED vars /\ fix.at # "submit" /\ fix'.at # "submit"
      BY <3>1 DEF Logon, Idle
    <3>2. ASSUME (\E c \in Clients : Logout(c)) \/ SendStatus
          PROVE  UNCHANGED vars /\ fix.at # "submit" /\ fix'.at # "submit"
      BY <3>2 DEF Logout, SendStatus, Idle
    <3>3. ASSUME NEW c \in Clients, NEW orig \in ClOrdIds, NEW s \in MsgSymbols, RecvCancel(c, orig, s)
          PROVE  UNCHANGED vars /\ fix.at # "submit" /\ fix'.at # "submit"
      BY <3>3 DEF RecvCancel, Receives, Idle
    <3>4. ASSUME \E c \in Clients, orig, cl \in ClOrdIds, s \in MsgSymbols, side \in Sides,
                 p \in Prices, q \in ReplaceQtys : RecvReplace(c, orig, cl, s, side, p, q)
          PROVE  UNCHANGED vars /\ fix.at # "submit" /\ fix'.at # "submit"
      BY <3>4 DEF RecvReplace, Receives, Idle
    <3> QED BY <1>4, <3>1, <3>2, <3>3, <3>4
  <2> QED BY <1>3, <2>1 DEF vars, submitted_seq
<1>5. CASE \E m \in NewOrderMsgs, c \in Clients : RejectNew(m, c)
  <2>1. fix.at = "idle" /\ fix' = fix /\ queue_' = queue_ /\ order_seq_' = order_seq_ + 1
    BY <1>5 DEF RejectNew, Receives, Idle, gwvars, Reject
  <2> QED BY <1>1, <2>1 DEF Grows, submitted_seq
<1>6. CASE \E m \in NewOrderMsgs, c \in Clients, cl \in ClOrdIds : AcceptNew(m, c, cl)
  <2>1. PICK m \in NewOrderMsgs, c \in Clients, cl \in ClOrdIds : AcceptNew(m, c, cl)
    BY <1>6
  <2>2. /\ fix.at = "idle" /\ fix' = [at |-> "submit", order |-> NewOrder(m, c, cl)]
        /\ queue_' = queue_ /\ order_seq_' = order_seq_ + 1 /\ cl \in used'
    BY <2>1 DEF AcceptNew, Receives, Idle
  <2>3. fix'.at = "submit" /\ fix'.order.clord_id = cl
    BY <2>2 DEF NewOrder
  <2> QED BY <1>1, <2>2, <2>3 DEF Grows, submitted_seq
<1>7. CASE SubmitNew
  <2> DEFINE item == [tag |-> "ORDER", order |-> fix.order]
  <2>1. /\ fix.at = "submit" /\ fix' = Idle /\ order_seq_' = order_seq_
        /\ queue_' = Append(queue_, item)
    BY <1>7 DEF SubmitNew, Push
  <2>2. queue_ \in Seq(WorkItem) /\ item \in WorkItem /\ item.order = fix.order
    BY <2>1 DEF GInv, IInv, TypeOK, FixOK, SubmitOK, WorkItem
  <2> HIDE DEF item
  <2>3. \A i \in DOMAIN queue_' : \/ i \in DOMAIN queue_ /\ queue_'[i] = queue_[i]
                                  \/ queue_'[i] = item
    BY <2>1, <2>2, PushProperties
  <2> QED BY <1>1, <2>1, <2>2, <2>3 DEF Grows, submitted_seq, Idle
<1>8. CASE PushRequest \/ \E c \in Clients : RecvMarketDataRequest(c)
  <2> DEFINE item == IF fix.at = "request" THEN fix.item ELSE [tag |-> "SNAPSHOT"]
  <2>1. /\ fix.at # "submit" /\ fix' = Idle /\ order_seq_' = order_seq_
        /\ queue_' = Append(queue_, item)
    BY <1>8 DEF PushRequest, RecvMarketDataRequest, RequestSnapshot, Request, Push, Receives, Idle,
                gwvars
  <2>2. queue_ \in Seq(WorkItem) /\ item \in WorkItem /\ item.tag # "ORDER"
    <3>1. fix.at = "request" => RequestOK(fix.item)
      BY DEF GInv, FixOK
    <3>2. fix.at = "request" => fix.item \in WorkItem /\ fix.item.tag # "ORDER"
      BY <3>1, RequestIsWork
    <3> QED BY <3>2 DEF GInv, IInv, TypeOK, WorkItem
  <2> HIDE DEF item
  <2>3. \A i \in DOMAIN queue_' : \/ i \in DOMAIN queue_ /\ queue_'[i] = queue_[i]
                                  \/ queue_'[i] = item
    BY <2>1, <2>2, PushProperties
  <2> QED BY <1>1, <2>1, <2>2, <2>3 DEF Grows, submitted_seq, Idle
<1> QED BY <1>4, <1>5, <1>6, <1>7, <1>8 DEF GwFix, GwOrders

\* One more event at the end of a log.
LEMMA LogGrows ==
    ASSUME NEW log, LogOK(log), NEW e, ReportOK(e)
    PROVE  LogOK(Append(log, e))
<1>1. log \in Seq(Report) /\ e \in Report
  BY DEF LogOK, ReportOK
<1>2. /\ Append(log, e) \in Seq(Report)
      /\ \A i \in DOMAIN Append(log, e) : \/ i \in DOMAIN log /\ Append(log, e)[i] = log[i]
                                         \/ Append(log, e)[i] = e
  BY <1>1, PushProperties
<1> QED BY <1>2 DEF LogOK

\* An event is made from what the callback carries.
LEMMA EventIsReport ==
    ASSUME GInv, OrdersOK, NEW e, EventOf(e)
    PROVE  ReportOK(e)
<1> USE DEF GInv, CallOK, ReportOK, Report
<1>1. CASE call.fn = "on_fill"
  <2>1. call.maker \in Fill /\ call.taker \in Fill
    BY <1>1
  <2> QED BY <1>1, <2>1 DEF EventOf, InFill
<1>2. CASE call.fn = "on_cancel"
  <2>1. \A id \in DOMAIN active_orders_ : active_orders_[id] \in Order
    BY DEF MapsOK
  <2> QED BY <1>2, <2>1 DEF EventOf, InFill
<1>3. CASE call.fn = "on_replace"
  <2>1. call.req \in ReplaceRequest /\ call.leaves_qty \in Int /\ call.req.new_clord_id \in used
    BY <1>3 DEF ReplacesOK, ReplaceOK
  <2> QED BY <1>3, <2>1 DEF EventOf, InFill
<1>4. CASE call.fn = "on_order_rested"
  <2>1. call.order \in Order /\ call.leaves_qty \in Int /\ Submitted(call.order)
        /\ call.order.price \in Prices
    BY <1>4 DEF OrdersOK
  <2> QED BY <1>4, <2>1 DEF EventOf, InFill
<1> QED BY <1>1, <1>2, <1>3, <1>4 DEF EventOf, InFill

LEMMA CallbackOrders ==
    ASSUME GInv, OrdersOK, LogOK(pqueue), GwCallback
    PROVE  OrdersOK' /\ Grows /\ LogOK(pqueue)'
<1>1. /\ UNCHANGED << fix, used >> /\ (UNCHANGED vars \/ CallbackReturn)
      /\ pqueue' = pqueue \/ \E e : EventOf(e) /\ Enqueue(e)
  BY CallbackPushes
<1>2. UNCHANGED << order_seq_, queue_, pc, cur >> /\ call' \in {call, NoCall}
  BY <1>1 DEF vars, CallbackReturn
<1>3. UNCHANGED submitted_seq /\ submitted_seq \in Nat
  BY <1>1, <1>2, SubmittedNat DEF submitted_seq
<1>4. OrdersOK'
  BY <1>1, <1>2, <1>3 DEF OrdersOK, Submitted, NoCall
<1>5. LogOK(pqueue')
  <2>1. CASE pqueue' = pqueue
    BY <2>1
  <2>2. CASE \E e : EventOf(e) /\ Enqueue(e)
    <3>1. PICK e : EventOf(e) /\ Enqueue(e)
      BY <2>2
    <3>2. ReportOK(e)
      BY <3>1, EventIsReport
    <3> QED BY <3>1, <3>2, LogGrows DEF Enqueue
  <2> QED BY <1>1, <2>1, <2>2
<1>6. LogOK(pqueue)'
  BY <1>1, <1>3, <1>5 DEF LogOK, ReportOK, Submitted
<1> QED BY <1>1, <1>3, <1>4, <1>6 DEF Grows

---------------------------------------------------------------------------
(* Every step of every thread                                              *)

\* The rows of the table after an event, one by one.
LEMMA RowsAfter ==
    ASSUME NEW T, T \subseteq Row, NEW e \in Report, NEW x \in TableAfter(T, e)
    PROVE  \/ x \in T
           \/ e.type = "RESTED" /\ x = RowFor(e.order, e.leaves_qty)
           \/ /\ e.type = "FILL" /\ e.fill.leaves_qty > 0
              /\ \E r \in T : /\ r.exchange_id = e.fill.exchange_id
                              /\ x.exchange_id = r.exchange_id /\ x.client_id = r.client_id
                              /\ x.symbol = r.symbol /\ x.side = r.side
                              /\ x.clord_id = r.clord_id /\ x.price = r.price
                              /\ x.leaves_qty = e.fill.leaves_qty
           \/ /\ e.type = "REPLACE" /\ e.leaves_qty > 0
              /\ \E r \in T : /\ r.exchange_id = e.req.orig_order_id
                              /\ x.exchange_id = r.exchange_id /\ x.client_id = r.client_id
                              /\ x.symbol = r.symbol /\ x.side = r.side
                              /\ x.clord_id = e.req.new_clord_id /\ x.price = e.req.new_price
                              /\ x.leaves_qty = e.leaves_qty
<1>1. CASE e.type = "FILL" /\ e.fill.leaves_qty > 0 /\ x \notin T
  <2> DEFINE set == [leaves_qty |-> e.fill.leaves_qty]
  <2>1. x \in With(T, e.fill.exchange_id, set)
    BY <1>1 DEF TableAfter, Others
  <2>2. /\ DOMAIN set = {"leaves_qty"} /\ set["leaves_qty"] = e.fill.leaves_qty
        /\ e.fill.leaves_qty \in Int
    BY <1>1, ReportFields DEF Fill
  <2> HIDE DEF set
  <2>3. PICK r \in T : r.exchange_id = e.fill.exchange_id /\ x = Updated(r, set)
    BY <2>1 DEF With
  <2>4. r \in Row
    OBVIOUS
  <2>5. LET u == Updated(r, set)
        IN  /\ u.exchange_id = r.exchange_id /\ u.client_id = r.client_id
            /\ u.symbol = r.symbol /\ u.side = r.side
            /\ u.clord_id = IF "clord_id" \in DOMAIN set THEN set["clord_id"] ELSE r.clord_id
            /\ u.price = IF "price" \in DOMAIN set THEN set["price"] ELSE r.price
            /\ u.leaves_qty = IF "leaves_qty" \in DOMAIN set THEN set["leaves_qty"]
                                                            ELSE r.leaves_qty
    BY <2>2, <2>4, RowColumns
  <2> QED BY <1>1, <2>2, <2>3, <2>5
<1>2. CASE e.type = "REPLACE" /\ e.leaves_qty > 0 /\ x \notin T
  <2> DEFINE set == NewTerms(e)
  <2>1. x \in With(T, e.req.orig_order_id, set)
    BY <1>2 DEF TableAfter, Others
  <2>2. /\ DOMAIN set = {"clord_id", "price", "leaves_qty"}
        /\ set["leaves_qty"] = e.leaves_qty /\ set["price"] = e.req.new_price
        /\ set["clord_id"] = e.req.new_clord_id
        /\ set["clord_id"] \in ClOrdIds /\ set["price"] \in Prices /\ set["leaves_qty"] \in Int
    BY <1>2, ReportFields DEF NewTerms, ReplaceRequest
  <2> HIDE DEF set
  <2>3. PICK r \in T : r.exchange_id = e.req.orig_order_id /\ x = Updated(r, set)
    BY <2>1 DEF With
  <2>4. r \in Row
    OBVIOUS
  <2>5. LET u == Updated(r, set)
        IN  /\ u.exchange_id = r.exchange_id /\ u.client_id = r.client_id
            /\ u.symbol = r.symbol /\ u.side = r.side
            /\ u.clord_id = IF "clord_id" \in DOMAIN set THEN set["clord_id"] ELSE r.clord_id
            /\ u.price = IF "price" \in DOMAIN set THEN set["price"] ELSE r.price
            /\ u.leaves_qty = IF "leaves_qty" \in DOMAIN set THEN set["leaves_qty"]
                                                            ELSE r.leaves_qty
    BY <2>2, <2>4, RowColumns
  <2> QED BY <1>2, <2>2, <2>3, <2>5
<1>3. CASE e.type = "RESTED" /\ x \notin T
  BY <1>3 DEF TableAfter, Others
<1>4. CASE /\ ~(e.type = "RESTED") /\ ~(e.type = "FILL" /\ e.fill.leaves_qty > 0)
           /\ ~(e.type = "REPLACE" /\ e.leaves_qty > 0)
  BY <1>4 DEF TableAfter, Others
<1> QED BY <1>1, <1>2, <1>3, <1>4

\* The transaction of a batch leaves the table sound.
LEMMA BatchSound ==
    ASSUME NEW d0, Sound(d0), \A r \in Table(d0) : Submitted(r), NEW log, LogOK(log)
    PROVE  LET d == ApplyBatch(d0, log)
           IN  Sound(d) /\ \A r \in Table(d) : Submitted(r)
<1> DEFINE P == {d \in Database : Keyed(d.resting_orders) /\ \A r \in Table(d) : Submitted(r)}
<1>1. d0 \in P
  BY DEF Sound
<1>2. log \in Seq(Report) /\ \A k \in 1 .. Len(log) : ReportOK(log[k])
  BY LenProperties DEF LogOK
<1>3. ASSUME NEW d \in P, NEW e, ReportOK(e) PROVE ApplyEvent(d, e) \in P
  <2>1. Sound(d) /\ e \in Report /\ (e.type = "RESTED" => e.order.price \in Prices)
    BY <1>3 DEF Sound, ReportOK
  <2>2. Sound(ApplyEvent(d, e)) /\ Table(ApplyEvent(d, e)) = TableAfter(Table(d), e)
    BY <2>1, EventDone
  <2>3. Table(d) \subseteq Row /\ \A r \in Table(d) : Submitted(r)
    <3>1. d.resting_orders \in Seq(Row)
      BY <2>1 DEF Sound, Database
    <3> QED BY <3>1, LenProperties, ElementOfSeq DEF Table, ToSet
  <2>4. ASSUME NEW x \in TableAfter(Table(d), e) PROVE Submitted(x)
    <3>1. \/ x \in Table(d)
          \/ e.type = "RESTED" /\ x = RowFor(e.order, e.leaves_qty)
          \/ \E r \in Table(d) : x.exchange_id = r.exchange_id /\ x.clord_id = r.clord_id
          \/ /\ e.type = "REPLACE"
             /\ \E r \in Table(d) : /\ x.exchange_id = r.exchange_id
                                    /\ x.clord_id = e.req.new_clord_id
      BY <2>1, <2>3, RowsAfter
    <3> QED BY <1>3, <2>3, <3>1 DEF Submitted, ReportOK, RowFor
  <2> QED BY <2>2, <2>4 DEF Sound
<1>4. \A x \in P : \A k \in 1 .. Len(log) : ApplyEvent(x, log[k]) \in P
  BY <1>2, <1>3
<1>5. ApplyBatch(d0, log) \in P
  <2> HIDE DEF P
  <2> QED BY <1>1, <1>2, <1>4, BatchPreserves
<1> QED BY <1>5 DEF Sound

\* A step of the gateway or the engine, the persistence thread aside.
LEMMA GatewayKeeps ==
    ASSUME XInv, [GwNext]_allvars, UNCHANGED << db, batch, adm >>
    PROVE  XInv'
<1>1. GInv /\ GInv' /\ OrdersOK /\ LogOK(pqueue)
  BY GwNextStep DEF XInv
<1>2. submitted_seq \in Nat
  BY <1>1, SubmittedNat
<1> SUFFICES OrdersOK' /\ Grows /\ LogOK(pqueue)'
  BY <1>1, DatabaseKept DEF XInv
<1>3. ASSUME OrdersOK', UNCHANGED << submitted_seq, used, pqueue >>
      PROVE  OrdersOK' /\ Grows /\ LogOK(pqueue)'
  BY <1>1, <1>2, <1>3 DEF Grows, LogOK, ReportOK, Submitted
<1>4. CASE GwMain \/ GwAdmin \/ GwOver \/ UNCHANGED allvars
  <2>1. UNCHANGED << gwvars, queue_, cur, call, order_seq_ >> /\ (pc' = "match" => pc = "match")
    BY <1>4 DEF GwMain, GwAdmin, MainNext, AdminNext, RestoreOrder, Start, StopAcceptor, Stop,
                RegisterSymbol, GwOver, Over, allvars, vars
  <2>2. UNCHANGED << submitted_seq, used, pqueue, fix >>
    BY <2>1 DEF gwvars, submitted_seq
  <2> QED BY <1>1, <1>3, <2>1, <2>2 DEF OrdersOK, Submitted
<1>5. CASE GwFix
  <2>1. OrdersOK' /\ Grows /\ pqueue' = pqueue
    BY <1>1, <1>5, HandlerOrders
  <2> QED BY <1>1, <2>1, SubmittedGrows DEF LogOK
<1>6. CASE GwEngine
  <2>1. CASE /\ RunOrder \/ RunCancel \/ RunReplace \/ RunSnapshot \/ MatchFill \/ MatchEnd \/ Exit
             /\ UNCHANGED gwvars
    <3>1. OrdersOK' /\ UNCHANGED << submitted_seq, used >> /\ pqueue' = pqueue
      BY <1>1, <2>1, EngineSideOrders DEF gwvars
    <3> QED BY <1>3, <3>1
  <2>2. CASE GwCallback
    BY <1>1, <2>2, CallbackOrders
  <2> QED BY <1>6, <2>1, <2>2 DEF GwEngine, GwCallback
<1> QED BY <1>4, <1>5, <1>6 DEF GwNext

\* A step that moves events only.
LEMMA LogsMove ==
    ASSUME XInv, UNCHANGED << vars, maps, last_price_, fix, phase, logged, used, finals >>,
           Sound(db'), \A r \in Table(db') : Submitted(r),
           LogOK(batch'), LogOK(pqueue'), LogOK(adm')
    PROVE  XInv'
<1>1. GInv /\ OrdersOK
  BY DEF XInv
<1>2. GInv'
  <2>1. PhaseOK' /\ MapsOK'
    BY <1>1 DEF GInv, PhaseOK, MapsOK, vars, maps
  <2> QED BY <1>1, <2>1, CallbackStep
<1>3. UNCHANGED << submitted_seq, used >>
  BY DEF submitted_seq, vars
<1>4. OrdersOK'
  BY <1>1, <1>3 DEF OrdersOK, Submitted, vars
<1>5. DbOK'
  BY <1>3 DEF DbOK, Submitted
<1>6. LogOK(batch)' /\ LogOK(pqueue)' /\ LogOK(adm)'
  BY <1>3 DEF LogOK, ReportOK, Submitted
<1> QED BY <1>2, <1>4, <1>5, <1>6 DEF XInv

LEMMA NoEvents == LogOK(<< >>)
<1>1. << >> \in Seq(Report) /\ DOMAIN << >> = {}
  OBVIOUS
<1> QED BY <1>1 DEF LogOK

\* The admin thread's two steps, and the persistence thread's three.
LEMMA RegisterKeeps == ASSUME XInv, NEW s \in Symbols, Register(s) PROVE XInv'
<1>1. GwAdmin /\ UNCHANGED << db, batch >>
  BY DEF Register, GwAdmin, AdminNext
<1>2. GInv /\ GInv' /\ OrdersOK
  BY <1>1, MainSideStep DEF XInv
<1>3. UNCHANGED << gwvars, queue_, cur, call, order_seq_, pc >>
  BY DEF Register, RegisterSymbol
<1>4. UNCHANGED << submitted_seq, used, pqueue, fix >>
  BY <1>3 DEF gwvars, submitted_seq
<1>5. OrdersOK' /\ DbOK' /\ LogOK(batch)' /\ LogOK(pqueue)'
  BY <1>1, <1>3, <1>4 DEF XInv, OrdersOK, DbOK, LogOK, ReportOK, Submitted
<1>6. LogOK(adm')
  <2> DEFINE e == [type |-> "SYMBOL", symbol |-> s]
  <2>1. ReportOK(e)
    BY DEF ReportOK, Report
  <2>2. adm' = Append(<< >>, e) \/ adm' = << >>
    BY DEF Register
  <2> HIDE DEF e
  <2> QED BY <2>1, <2>2, NoEvents, LogGrows
<1>7. LogOK(adm)'
  BY <1>4, <1>6 DEF LogOK, ReportOK, Submitted
<1> QED BY <1>2, <1>5, <1>7 DEF XInv

LEMMA RecordKeeps == ASSUME XInv, RecordSymbol PROVE XInv'
<1>1. LogOK(pqueue) /\ LogOK(adm) /\ LogOK(batch) /\ DbOK /\ adm # << >>
  BY DEF XInv, RecordSymbol
<1>2. ReportOK(Head(adm))
  BY <1>1, PopProperties DEF LogOK
<1>3. LogOK(pqueue')
  BY <1>1, <1>2, LogGrows DEF RecordSymbol, Enqueue
<1> QED BY <1>1, <1>3, NoEvents, LogsMove DEF RecordSymbol, DbOK

LEMMA PersistKeeps == ASSUME XInv, XPersist PROVE XInv'
<1>1. LogOK(pqueue) /\ LogOK(adm) /\ LogOK(batch) /\ DbOK
  BY DEF XInv
<1>2. CASE TakeBatch
  BY <1>1, <1>2, NoEvents, LogsMove DEF TakeBatch, DbOK
<1>3. CASE Flush
  <2>1. Sound(db') /\ \A r \in Table(db') : Submitted(r)
    BY <1>1, <1>3, BatchSound DEF Flush, DbOK
  <2> QED BY <1>1, <1>3, <2>1, NoEvents, LogsMove DEF Flush, allvars, gwvars, maps
<1>4. CASE PersistExit
  BY <1>1, <1>4, LogsMove DEF PersistExit, DbOK, allvars, gwvars, maps
<1> QED BY <1>2, <1>3, <1>4 DEF XPersist

---------------------------------------------------------------------------
(* A restart                                                               *)

\* loadRestingOrders: every row as a limit order, each id once.
LEMMA LoadedRows ==
    ASSUME DbOK, NEW rs, rs = LoadRestingOrders(db)
    PROVE  /\ rs \in Seq(Order) /\ DOMAIN rs = DOMAIN db.resting_orders
           /\ \A i \in DOMAIN rs :
                  LET r == db.resting_orders[i]
                  IN  /\ r \in Table(db)
                      /\ rs[i].exchange_id = r.exchange_id /\ rs[i].clord_id = r.clord_id
                      /\ rs[i].client_id = r.client_id /\ rs[i].leaves_qty = r.leaves_qty
                      /\ rs[i].type = "limit" /\ rs[i].price \in Prices
           /\ \A i, j \in DOMAIN rs : i # j => rs[i].exchange_id # rs[j].exchange_id
<1> DEFINE t == db.resting_orders
           n == Len(t)
<1>1. t \in Seq(Row) /\ Keyed(t)
  BY DEF DbOK, Sound, Database
<1>2. n \in Nat /\ DOMAIN t = 1 .. n /\ \A i \in 1 .. n : t[i] \in Row
  BY <1>1, LenProperties, ElementOfSeq
<1>3. DOMAIN rs = 1 .. n
  BY <1>2 DEF LoadRestingOrders
<1>4. ASSUME NEW i \in 1 .. n
      PROVE  /\ rs[i] = [exchange_id |-> t[i].exchange_id, clord_id |-> t[i].clord_id,
                         client_id |-> t[i].client_id, symbol |-> t[i].symbol,
                         side |-> t[i].side, type |-> "limit", price |-> t[i].price,
                         qty |-> t[i].leaves_qty, leaves_qty |-> t[i].leaves_qty, tif |-> "gtc"]
             /\ t[i] \in Table(db)
  BY <1>2 DEF LoadRestingOrders, Table, ToSet
<1>5. ASSUME NEW i \in 1 .. n
      PROVE  /\ rs[i] \in Order
             /\ rs[i].exchange_id = t[i].exchange_id /\ rs[i].clord_id = t[i].clord_id
             /\ rs[i].client_id = t[i].client_id /\ rs[i].leaves_qty = t[i].leaves_qty
             /\ rs[i].type = "limit" /\ rs[i].price \in Prices
  <2>1. PICK r \in Row : r = t[i]
    BY <1>2
  <2>2. /\ r.exchange_id \in Nat /\ r.clord_id \in ClOrdIds /\ r.client_id \in Clients
        /\ r.symbol \in Symbols /\ r.side \in Sides /\ r.price \in Prices /\ r.leaves_qty \in Int
    BY DEF Row
  <2>3. PICK o : o = [exchange_id |-> r.exchange_id, clord_id |-> r.clord_id,
                      client_id |-> r.client_id, symbol |-> r.symbol, side |-> r.side,
                      type |-> "limit", price |-> r.price, qty |-> r.leaves_qty,
                      leaves_qty |-> r.leaves_qty, tif |-> "gtc"]
    OBVIOUS
  <2>4. rs[i] = o
    BY <1>4, <2>1, <2>3
  <2>5. r.price \in Int
    BY <2>2, PriceAssumption DEF Prices
  <2>6. o \in Order
    BY <2>2, <2>3, <2>5 DEF Order, Types, Tifs
  <2>7. /\ o.exchange_id = r.exchange_id /\ o.clord_id = r.clord_id
        /\ o.client_id = r.client_id /\ o.leaves_qty = r.leaves_qty
        /\ o.type = "limit" /\ o.price = r.price
    BY <2>3
  <2> QED BY <2>1, <2>2, <2>4, <2>6, <2>7
<1>6. rs \in [1 .. n -> Order]
  <2>1. rs = [i \in 1 .. n |-> rs[i]]
    BY <1>2 DEF LoadRestingOrders
  <2> QED BY <1>5, <2>1
<1>7. rs \in Seq(Order)
  BY <1>2, <1>6, SeqDef
<1>8. DOMAIN rs = DOMAIN t
  BY <1>2, <1>3
<1>9. ASSUME NEW i \in DOMAIN rs, NEW j \in DOMAIN rs, i # j
      PROVE  rs[i].exchange_id # rs[j].exchange_id
  BY <1>1, <1>3, <1>5, <1>8, <1>9 DEF Keyed
<1> QED BY <1>3, <1>4, <1>5, <1>7, <1>8, <1>9

\* loadMaxOrderSeq: no row has a higher id.
LEMMA NextOrderSeq ==
    ASSUME DbOK, submitted_seq \in Nat
    PROVE  /\ LoadMaxOrderSeq(db) \in Nat
           /\ \A r \in Table(db) : r.exchange_id \in 1 .. LoadMaxOrderSeq(db)
<1> DEFINE ids == RowIds(db)
<1>1. ids = {r.exchange_id : r \in Table(db)}
  BY DEF RowIds, Table, ToSet
<1>2. ids \subseteq 1 .. submitted_seq
  BY <1>1 DEF DbOK, Submitted
<1>3. CASE db.resting_orders = << >>
  <2>1. Table(db) = {}
    BY <1>3 DEF Table, ToSet
  <2> QED BY <1>3, <2>1 DEF LoadMaxOrderSeq
<1>4. CASE db.resting_orders # << >>
  <2>1. ids # {}
    <3>1. db.resting_orders \in Seq(Row)
      BY DEF DbOK, Sound, Database
    <3>2. 1 \in DOMAIN db.resting_orders
      BY <1>4, <3>1, EmptySeq, LenProperties
    <3> QED BY <3>2 DEF RowIds
  <2> HIDE DEF ids
  <2>2. \E n \in ids : \A m \in ids : m <= n
    <3> DEFINE T == {n \in Nat : \A m \in ids : m <= n}
    <3>1. submitted_seq \in T /\ T \subseteq Nat
      BY <1>2
    <3>2. PICK k \in T : \A j \in T : ~(j < k)
      BY <3>1, NatMinimum
    <3>3. k \in Nat /\ \A m \in ids : m <= k
      OBVIOUS
    <3>4. k \in ids
      <4> SUFFICES ASSUME k \notin ids PROVE FALSE
        OBVIOUS
      <4>1. PICK x \in ids : TRUE
        BY <2>1
      <4>2. k - 1 \in Nat /\ k - 1 < k
        BY <1>2, <3>3, <4>1
      <4>3. \A m \in ids : m <= k - 1
        BY <1>2, <3>3
      <4>4. k - 1 \in T
        BY <4>2, <4>3
      <4> QED BY <3>2, <4>2, <4>4
    <3> QED BY <3>3, <3>4
  <2>3. LoadMaxOrderSeq(db) = CHOOSE n \in ids : \A m \in ids : m <= n
    BY <1>4 DEF LoadMaxOrderSeq, ids
  <2>4. LoadMaxOrderSeq(db) \in ids /\ \A m \in ids : m <= LoadMaxOrderSeq(db)
    BY <2>2, <2>3
  <2> QED BY <1>1, <1>2, <2>4
<1> QED BY <1>3, <1>4

\* What the gateway and the engine rebuild from a sound table satisfies their invariant.
LEMMA CrashKeeps == ASSUME XInv, Crash PROVE XInv'
<1>1. GInv /\ DbOK /\ db \in Database /\ db.symbols \in SUBSET Symbols
  BY DEF XInv, DbOK, Sound, Database
<1>2. PICK rs : rs = LoadRestingOrders(db)
  OBVIOUS
<1>3. PICK n : n = LoadMaxOrderSeq(db)
  OBVIOUS
<1>4. /\ rows' = rs /\ order_seq_' = n
      /\ books_' = [s \in InitSymbols \cup db.symbols |-> EmptyBook]
      /\ queue_' = << >> /\ main' = "recovery" /\ pc' = "created" /\ cur' = NoCur
      /\ call' = NoCall /\ order_sessions_' = NoEntry
      /\ clord_to_exchange_' = RestoredClOrds(rs) /\ active_orders_' = RestoredOrders(rs)
      /\ last_price_' = NoEntry /\ fix' = Idle /\ phase' = "begin" /\ logged' = {}
      /\ pqueue' = << >> /\ batch' = << >> /\ adm' = << >> /\ UNCHANGED << requests, used, db >>
  BY <1>2, <1>3 DEF Crash
<1>5. /\ rs \in Seq(Order)
      /\ \A i \in DOMAIN rs : /\ \E r \in Table(db) : /\ rs[i].exchange_id = r.exchange_id
                                                     /\ rs[i].clord_id = r.clord_id
                              /\ rs[i].type = "limit" /\ rs[i].price \in Prices
      /\ \A i, j \in DOMAIN rs : i # j => rs[i].exchange_id # rs[j].exchange_id
  BY <1>1, <1>2, LoadedRows
<1>6. n \in Nat /\ \A r \in Table(db) : r.exchange_id \in 1 .. n
  BY <1>1, <1>3, SubmittedNat, NextOrderSeq
<1>7. \A i \in DOMAIN rs : rs[i].exchange_id \in 1 .. n /\ rs[i].clord_id \in used
  BY <1>1, <1>5, <1>6 DEF DbOK, Submitted
<1>8. /\ DOMAIN books_' = InitSymbols \cup db.symbols
      /\ \A s \in DOMAIN books_' : books_'[s] = EmptyBook
      /\ DOMAIN EmptyBook.order_index_ = {}
  BY <1>4 DEF EmptyBook, NoEntry
<1>9. DOMAIN queue_' = {} /\ queue_' \in Seq(WorkItem) /\ Len(queue_') = 0
  BY <1>4
<1>10. TypeOK'
  <2>1. \A s \in DOMAIN books_' : BookType(books_'[s])
    BY <1>8, EmptyBookOK DEF BookOK
  <2>2. requests \in 0 .. MaxRequests
    BY <1>1 DEF GInv, IInv, TypeOK
  <2> QED BY <1>1, <1>4, <1>5, <1>6, <1>8, <1>9, <2>1, <2>2, SymbolAssumption, BoundAssumption
      DEF TypeOK
<1>11. BooksOK' /\ QueueOK' /\ CurOK' /\ DrainOK' /\ RowsOK'
  <2>1. BooksOK'
    BY <1>8, EmptyBookOK DEF BooksOK
  <2>2. QueueOK' /\ CurOK' /\ DrainOK' /\ RowsOK'
    BY <1>4, <1>5, <1>9 DEF QueueOK, CurOK, DrainOK, StopsDrained, RowsOK
  <2> QED BY <2>1, <2>2
<1>12. Fresh'
  <2>1. ListedIds' = {} /\ QueuedIds' = {} /\ MatchingIds' = {}
    BY <1>4, <1>8, <1>9 DEF ListedIds, QueuedIds, MatchingIds
  <2>2. UnrestoredIds' \subseteq 0 .. order_seq_'
    BY <1>4, <1>6, <1>7 DEF UnrestoredIds
  <2>3. OnePlace'
    BY <1>8, <2>1 DEF OnePlace
  <2> QED BY <2>1, <2>2, <2>3 DEF Fresh, LiveIds
<1>13. CallOK' /\ PhaseOK' /\ ReplacesOK' /\ FixOK'
  BY <1>4, <1>9 DEF CallOK, PhaseOK, ReplacesOK, FixOK, NoCall, Idle
<1>14. MapsOK'
  <2>1. \A i \in DOMAIN rs : rs[i].exchange_id \in 1 .. n
    BY <1>7
  <2>2. /\ \A id \in DOMAIN RestoredOrders(rs) :
               /\ RestoredOrders(rs)[id] \in Order
               /\ RestoredOrders(rs)[id].exchange_id = id
        /\ DOMAIN RestoredClOrds(rs) = {rs[i].clord_id : i \in DOMAIN rs}
        /\ \A c \in DOMAIN RestoredClOrds(rs) : RestoredClOrds(rs)[c] \in 1 .. n
    BY <1>5, <2>1, RestoredMaps
  <2>3. DOMAIN RestoredClOrds(rs) \subseteq used /\ used \subseteq ClOrdIds
    BY <1>1, <1>7, <2>2 DEF GInv, MapsOK
  <2>4. DOMAIN NoEntry = {}
    BY DEF NoEntry
  <2> QED BY <1>4, <2>2, <2>3, <2>4 DEF MapsOK
<1>15. GInv'
  BY <1>10, <1>11, <1>12, <1>13, <1>14 DEF GInv, IInv
<1>16. OrdersOK'
  BY <1>4, <1>9 DEF OrdersOK, Idle, NoCall
<1>17. submitted_seq' = n
  BY <1>4 DEF submitted_seq, Idle
<1>18. DbOK'
  BY <1>1, <1>4, <1>6, <1>17 DEF DbOK, Submitted
<1>19. LogOK(batch)' /\ LogOK(pqueue)' /\ LogOK(adm)'
  <2>1. DOMAIN << >> = {} /\ << >> \in Seq(Report)
    OBVIOUS
  <2> QED BY <1>4, <2>1 DEF LogOK
<1> QED BY <1>15, <1>16, <1>18, <1>19 DEF XInv

---------------------------------------------------------------------------
(* Theorems                                                                *)

LEMMA XInitOK == ASSUME XInit PROVE XInv
<1>1. GInv
  BY GwInitOK DEF XInit
<1>2. /\ queue_ = << >> /\ fix = Idle /\ pc = "created" /\ call = NoCall /\ pqueue = << >>
      /\ batch = << >> /\ adm = << >> /\ db = EmptyDb
  BY DEF XInit, GwInit, Init
<1>3. DOMAIN << >> = {} /\ << >> \in Seq(Row) /\ << >> \in Seq(Past)
  OBVIOUS
<1>4. OrdersOK
  BY <1>2, <1>3 DEF OrdersOK, Idle, NoCall
<1>5. DbOK
  BY <1>2, <1>3 DEF DbOK, Sound, Database, Keyed, Table, ToSet, EmptyDb
<1> QED BY <1>1, <1>2, <1>4, <1>5, NoEvents DEF XInv

LEMMA XNextStep == ASSUME XInv, [XNext]_xvars PROVE XInv'
<1>1. CASE XMain \/ XFix \/ XEngine \/ XOver \/ UNCHANGED xvars
  <2>1. [GwNext]_allvars /\ UNCHANGED << db, batch, adm >>
    BY <1>1 DEF XMain, XFix, XEngine, XOver, xvars, pvars, GwNext
  <2> QED BY <2>1, GatewayKeeps
<1>2. CASE XAdmin
  BY <1>2, RegisterKeeps, RecordKeeps DEF XAdmin
<1>3. CASE XPersist
  BY <1>3, PersistKeeps
<1>4. CASE Crash
  BY <1>4, CrashKeeps
<1> QED BY <1>1, <1>2, <1>3, <1>4 DEF XNext

\* In every state of the exchange, whatever was committed when it died, the table of resting
\* orders holds each id once and only orders that were submitted, and so does every event on
\* its way to it; the gateway and the engine satisfy their invariant across restarts.
THEOREM ExchangeInvariant == XSpec => []XInv
<1> QED BY XInitOK, XNextStep, PTL DEF XSpec

\* After a restart too, a new order never gets the id of an order that is in a book, on its
\* way to one, or in the table (loadMaxOrderSeq, restoreOrders).
THEOREM ExchangeIdsFresh == XSpec => []NewIdsFresh
<1>1. XInv => NewIdsFresh
  <2> SUFFICES ASSUME XInv, fix.at = "submit"
               PROVE  fix.order.exchange_id \notin LiveIds \cup RowIds(db)
    BY DEF NewIdsFresh
  <2>1. SubmitOK(fix.order) /\ submitted_seq = order_seq_ - 1
    BY DEF XInv, GInv, FixOK, submitted_seq
  <2>2. ASSUME NEW id \in RowIds(db) PROVE id \in 1 .. order_seq_ - 1
    BY <2>1, <2>2 DEF RowIds, Table, ToSet, XInv, DbOK, Submitted
  <2> QED BY <2>1, <2>2 DEF SubmitOK
<1> QED BY <1>1, ExchangeInvariant, PTL

\* What the gateway's and the engine's theorems say of one life of the process holds across
\* restarts: types, exact book indexes, no empty level, every order in one place, and a book
\* for every queued order.
THEOREM ExchangeKeepsGateway ==
    XSpec => [](GwTypeOK /\ TypeOK /\ IndexExact /\ LevelsNonEmpty /\ OnePlace /\ QueuedOrderHasBook)
<1>1. XInv => GwTypeOK /\ TypeOK
  BY GInvTypes DEF XInv, GInv, IInv
<1>2. XInv => IndexExact /\ LevelsNonEmpty
  BY DEF XInv, GInv, IInv, BooksOK, BookOK, IndexExact, LevelsNonEmpty
<1>3. XInv => OnePlace /\ QueuedOrderHasBook
  BY DEF XInv, GInv, IInv, Fresh, QueueOK, QueuedOrderHasBook, valid_symbols_
<1> QED BY <1>1, <1>2, <1>3, ExchangeInvariant, PTL

---------------------------------------------------------------------------
(* The rows follow the books                                               *)

\* What is on its way to the table makes a sound one.
LEMMA ComingSound ==
    ASSUME XInv
    PROVE  Sound(Coming) /\ ComingRows \subseteq Row /\ Keyed(Coming.resting_orders)
<1>1. DbOK /\ LogOK(batch) /\ LogOK(pqueue)
  BY DEF XInv
<1>2. PICK d : d = ApplyBatch(db, batch)
  OBVIOUS
<1>3. Sound(d) /\ \A r \in Table(d) : Submitted(r)
  BY <1>1, <1>2, BatchSound DEF DbOK
<1>4. Sound(ApplyBatch(d, pqueue))
  BY <1>1, <1>3, BatchSound
<1>5. Sound(Coming)
  BY <1>2, <1>4 DEF Coming
<1>6. Coming.resting_orders \in Seq(Row)
  BY <1>5 DEF Sound, Database
<1> QED BY <1>5, <1>6, LenProperties, ElementOfSeq DEF Sound, ComingRows, Table, ToSet

\* A callback's event is the last to come ...
LEMMA EventComes ==
    ASSUME XInv, HasDb, NEW e, ReportOK(e), Enqueue(e), UNCHANGED << db, batch >>
    PROVE  ComingRows' = TableAfter(ComingRows, e)
<1>1. pqueue \in Seq(Report) /\ e \in Report /\ (e.type = "RESTED" => e.order.price \in Prices)
  BY DEF XInv, LogOK, ReportOK
<1>2. pqueue' = Append(pqueue, e)
  BY DEF Enqueue
<1>3. Coming' = ApplyBatch(ApplyBatch(db, batch), Append(pqueue, e))
  BY <1>2 DEF Coming
<1>4. Coming' = ApplyEvent(Coming, e)
  BY <1>1, <1>3, LongerBatch DEF Coming
<1>5. Table(ApplyEvent(Coming, e)) = TableAfter(Table(Coming), e)
  BY <1>1, ComingSound, EventDone
<1>6. ComingRows' = Table(Coming')
  BY DEF ComingRows
<1> QED BY <1>4, <1>5, <1>6 DEF ComingRows

\* ... and the persistence thread changes nothing of what is coming.
LEMMA NothingComes ==
    ASSUME UNCHANGED << db, batch, pqueue >> \/ TakeBatch \/ Flush \/ PersistExit
    PROVE  ComingRows' = ComingRows
<1>1. ComingRows' = Table(ApplyBatch(ApplyBatch(db', batch'), pqueue'))
  BY DEF ComingRows, Coming
<1>2. CASE UNCHANGED << db, batch, pqueue >> \/ PersistExit
  BY <1>1, <1>2 DEF ComingRows, Coming, PersistExit, allvars, gwvars
<1>3. CASE TakeBatch
  <2>1. db' = db /\ batch = << >> /\ batch' = pqueue /\ pqueue' = << >>
    BY <1>3 DEF TakeBatch
  <2>2. ApplyBatch(db, << >>) = db /\ ApplyBatch(ApplyBatch(db, pqueue), << >>) = ApplyBatch(db, pqueue)
    BY EmptyBatch
  <2> QED BY <1>1, <2>1, <2>2 DEF ComingRows, Coming
<1>4. CASE Flush
  <2>1. db' = ApplyBatch(db, batch) /\ batch' = << >> /\ pqueue' = pqueue
    BY <1>4 DEF Flush, allvars, gwvars
  <2>2. ApplyBatch(ApplyBatch(db, batch), << >>) = ApplyBatch(db, batch)
    BY EmptyBatch
  <2> QED BY <1>1, <2>1, <2>2 DEF ComingRows, Coming
<1> QED BY <1>2, <1>3, <1>4

\* What becomes of the row an event is about; the other rows stay.
LEMMA RowStays ==
    ASSUME NEW T, T \subseteq Row, NEW e \in Report, NEW r \in T
    PROVE  /\ e.type \in {"TAKER_FILL", "SYMBOL"} \/ r.exchange_id # Subject(e)
                  => r \in TableAfter(T, e)
           /\ e.type = "FILL" /\ e.fill.leaves_qty > 0 /\ r.exchange_id = e.fill.exchange_id
                  => \E x \in TableAfter(T, e) :
                         /\ x.exchange_id = r.exchange_id /\ x.client_id = r.client_id
                         /\ x.symbol = r.symbol /\ x.side = r.side /\ x.price = r.price
                         /\ x.leaves_qty = e.fill.leaves_qty
           /\ e.type = "REPLACE" /\ e.leaves_qty > 0 /\ r.exchange_id = e.req.orig_order_id
                  => \E x \in TableAfter(T, e) :
                         /\ x.exchange_id = r.exchange_id /\ x.client_id = r.client_id
                         /\ x.symbol = r.symbol /\ x.side = r.side
                         /\ x.price = e.req.new_price /\ x.leaves_qty = e.leaves_qty
<1>1. /\ r \in Row
      /\ e.type \in {"RESTED", "FILL", "TAKER_FILL", "CANCEL", "REPLACE", "SYMBOL"}
  BY ReportFields
<1>2. ASSUME e.type \in {"TAKER_FILL", "SYMBOL"} \/ r.exchange_id # Subject(e)
      PROVE  r \in TableAfter(T, e)
  BY <1>1, <1>2 DEF TableAfter, Others, Subject
<1>3. ASSUME e.type = "FILL", e.fill.leaves_qty > 0, r.exchange_id = e.fill.exchange_id
      PROVE  \E x \in TableAfter(T, e) :
                 /\ x.exchange_id = r.exchange_id /\ x.client_id = r.client_id
                 /\ x.symbol = r.symbol /\ x.side = r.side /\ x.price = r.price
                 /\ x.leaves_qty = e.fill.leaves_qty
  <2> DEFINE set == [leaves_qty |-> e.fill.leaves_qty]
  <2>1. /\ DOMAIN set = {"leaves_qty"} /\ set["leaves_qty"] = e.fill.leaves_qty
        /\ e.fill.leaves_qty \in Int
    BY <1>3, ReportFields DEF Fill
  <2>2. TableAfter(T, e) = Others(T, e.fill.exchange_id) \cup With(T, e.fill.exchange_id, set)
    BY <1>3 DEF TableAfter
  <2> HIDE DEF set
  <2>3. Updated(r, set) \in TableAfter(T, e)
    BY <1>3, <2>2 DEF With
  <2>4. LET u == Updated(r, set)
        IN  /\ u.exchange_id = r.exchange_id /\ u.client_id = r.client_id
            /\ u.symbol = r.symbol /\ u.side = r.side
            /\ u.price = IF "price" \in DOMAIN set THEN set["price"] ELSE r.price
            /\ u.leaves_qty = IF "leaves_qty" \in DOMAIN set THEN set["leaves_qty"]
                                                            ELSE r.leaves_qty
    BY <1>1, <2>1, RowColumns
  <2>5. PICK u \in TableAfter(T, e) : u = Updated(r, set)
    BY <2>3
  <2> QED BY <2>1, <2>4, <2>5
<1>4. ASSUME e.type = "REPLACE", e.leaves_qty > 0, r.exchange_id = e.req.orig_order_id
      PROVE  \E x \in TableAfter(T, e) :
                 /\ x.exchange_id = r.exchange_id /\ x.client_id = r.client_id
                 /\ x.symbol = r.symbol /\ x.side = r.side
                 /\ x.price = e.req.new_price /\ x.leaves_qty = e.leaves_qty
  <2> DEFINE set == NewTerms(e)
  <2>1. /\ DOMAIN set = {"clord_id", "price", "leaves_qty"}
        /\ set["leaves_qty"] = e.leaves_qty /\ set["price"] = e.req.new_price
        /\ set["clord_id"] \in ClOrdIds /\ set["price"] \in Prices /\ set["leaves_qty"] \in Int
    BY <1>4, ReportFields DEF NewTerms, ReplaceRequest
  <2>2. TableAfter(T, e) = Others(T, e.req.orig_order_id) \cup With(T, e.req.orig_order_id, set)
    BY <1>4 DEF TableAfter
  <2> HIDE DEF set
  <2>3. Updated(r, set) \in TableAfter(T, e)
    BY <1>4, <2>2 DEF With
  <2>4. LET u == Updated(r, set)
        IN  /\ u.exchange_id = r.exchange_id /\ u.client_id = r.client_id
            /\ u.symbol = r.symbol /\ u.side = r.side
            /\ u.price = IF "price" \in DOMAIN set THEN set["price"] ELSE r.price
            /\ u.leaves_qty = IF "leaves_qty" \in DOMAIN set THEN set["leaves_qty"]
                                                            ELSE r.leaves_qty
    BY <1>1, <2>1, RowColumns
  <2>5. PICK u \in TableAfter(T, e) : u = Updated(r, set)
    BY <2>3
  <2> QED BY <2>1, <2>4, <2>5
<1> QED BY <1>2, <1>3, <1>4

\* A callback's event, on its way to the table.
LEMMA EventFollows ==
    ASSUME XInv, HasDb, NEW e, ReportOK(e), e.type # "SYMBOL", Enqueue(e), UNCHANGED << db, batch >>,
           NEW T, T = ComingRows, NEW U, U = ComingRows'
    PROVE  Follows(T, U, e)
<1>1. T \subseteq Row /\ e \in Report /\ U = TableAfter(T, e)
  BY ComingSound, EventComes DEF ReportOK
<1>2. e.type \in {"RESTED", "FILL", "TAKER_FILL", "CANCEL", "REPLACE"}
  BY <1>1, ReportFields
<1>3. ASSUME NEW r \in T, e.type = "TAKER_FILL" \/ r.exchange_id # Subject(e)
      PROVE  r \in U
  BY <1>1, <1>3, RowStays
<1>4. ASSUME e.type = "FILL", e.fill.leaves_qty > 0, NEW r \in T, r.exchange_id = Subject(e)
      PROVE  \E x \in U : RowLike(x, r) /\ x.price = r.price /\ x.leaves_qty = e.fill.leaves_qty
  <2>1. r.exchange_id = e.fill.exchange_id
    BY <1>4 DEF Subject
  <2> QED BY <1>1, <1>4, <2>1, RowStays DEF RowLike
<1>5. ASSUME e.type = "REPLACE", e.leaves_qty > 0, NEW r \in T, r.exchange_id = Subject(e)
      PROVE  \E x \in U : RowLike(x, r) /\ x.price = e.req.new_price /\ x.leaves_qty = e.leaves_qty
  <2>1. r.exchange_id = e.req.orig_order_id
    BY <1>5 DEF Subject
  <2> QED BY <1>1, <1>5, <2>1, RowStays DEF RowLike
<1>6. ASSUME e.type = "RESTED"
      PROVE  \E x \in U : /\ RowLike(x, e.order) /\ x.price = e.order.price
                          /\ x.leaves_qty = e.leaves_qty
  <2>1. PICK x : x = RowFor(e.order, e.leaves_qty)
    OBVIOUS
  <2>2. x \in U
    BY <1>1, <1>6, <2>1 DEF TableAfter
  <2> QED BY <2>1, <2>2 DEF RowFor, RowLike
<1> QED BY <1>3, <1>4, <1>5, <1>6 DEF Follows

\* A step of the gateway or the engine.
LEMMA GatewayRows ==
    ASSUME HasDb, ReplaceQtys \subseteq Nat \ {0}, XInv, XInv', KInv, FInv, RowsKept,
           [GwNext]_allvars, UNCHANGED << db, batch >>
    PROVE  KInv' /\ FInv' /\ RowsKept'
<1>1. GInv /\ GInv' /\ OrdersOK
  BY DEF XInv
<1>2. PICK T, U : T = ComingRows /\ U = ComingRows'
  OBVIOUS
<1>3. ASSUME GwCallback
      PROVE  (T = U /\ Unreported) \/ \E e : EventOf(e) /\ Follows(T, U, e)
  <2>1. CASE pqueue' = pqueue /\ Unreported
    BY <1>2, <2>1, NothingComes
  <2>2. CASE \E e : EventOf(e) /\ Enqueue(e)
    <3>1. PICK e : EventOf(e) /\ Enqueue(e)
      BY <2>2
    <3>2. ReportOK(e) /\ e.type # "SYMBOL"
      BY <1>1, <3>1, EventIsReport DEF EventOf
    <3>3. Follows(T, U, e)
      BY <1>2, <3>1, <3>2, EventFollows
    <3> QED BY <3>1, <3>3
  <2> QED BY <1>1, <1>3, <2>1, <2>2, CallbackPushes
<1>4. ASSUME ~GwCallback PROVE T = U
  <2>1. pqueue' = pqueue
    <3>1. CASE GwFix
      BY <1>1, <3>1, HandlerOrders DEF XInv
    <3>2. CASE GwMain \/ GwAdmin \/ GwOver \/ UNCHANGED allvars
      BY <3>2 DEF GwMain, GwAdmin, GwOver, allvars, gwvars
    <3>3. CASE UNCHANGED gwvars
      BY <3>3 DEF gwvars
    <3> QED BY <1>4, <3>1, <3>2, <3>3 DEF GwNext, GwEngine, GwCallback
  <2> QED BY <1>2, <2>1, NothingComes
<1>5. RowsFollow(T)
  BY <1>2 DEF RowsKept
<1>6. KInv' /\ FInv' /\ RowsFollow(U)'
  BY <1>1, <1>3, <1>4, <1>5, TableFollows
<1> QED BY <1>2, <1>6 DEF RowsKept

\* A step that moves nothing but events leaves the table to come as it is.
LEMMA RowsStand ==
    ASSUME RowsKept, ComingRows' = ComingRows, UNCHANGED << books_, call, cur, phase, pc >>
    PROVE  RowsKept'
<1>1. PICK T : T = ComingRows
  OBVIOUS
<1>2. RowsFollow(T)
  BY <1>1 DEF RowsKept
<1>3. RowsFollow(T)'
  BY <1>2, OtherRows
<1>4. T = ComingRows'
  BY <1>1
<1> QED BY <1>3, <1>4 DEF RowsKept

\* The admin thread's steps only ever leave registrations to push.
LEMMA SymbolsStep ==
    ASSUME SymbolsOnly, [XNext]_xvars
    PROVE  SymbolsOnly'
<1>1. DOMAIN << >> = {} /\ \A x : DOMAIN << x >> = {1} /\ << x >>[1] = x
  OBVIOUS
<1>2. CASE \E s \in Symbols : Register(s)
  BY <1>1, <1>2 DEF Register, SymbolsOnly
<1>3. CASE RecordSymbol \/ Crash
  BY <1>1, <1>3 DEF RecordSymbol, Crash, SymbolsOnly
<1>4. CASE XMain \/ XFix \/ XEngine \/ XOver \/ XPersist \/ UNCHANGED xvars
  <2>1. adm' = adm
    BY <1>4 DEF XMain, XFix, XEngine, XOver, XPersist, TakeBatch, Flush, PersistExit, xvars, pvars
  <2> QED BY <2>1 DEF SymbolsOnly
<1> QED BY <1>2, <1>3, <1>4 DEF XNext, XAdmin

\* Every step until the first restart, those of the admin and the persistence thread included.
LEMMA LifeStep ==
    ASSUME HasDb, ReplaceQtys \subseteq Nat \ {0}, XInv, XInv', FirstLife, [XNext]_xvars
    PROVE  FirstLife'
<1>1. SymbolsOnly'
  BY SymbolsStep DEF FirstLife
<1>2. CASE Crash
  BY <1>1, <1>2 DEF Crash, FirstLife
<1>3. CASE ~Crash
  <2>1. crashes' = crashes
    BY <1>3 DEF XNext, XMain, XAdmin, Register, RecordSymbol, XFix, XEngine, XPersist, TakeBatch, Flush,
                PersistExit, XOver, xvars, pvars
  <2> SUFFICES ASSUME crashes = 0 PROVE KInv' /\ FInv' /\ RowsKept'
    BY <1>1, <2>1 DEF FirstLife
  <2>2. KInv /\ FInv /\ RowsKept /\ GInv /\ IInv /\ rows = << >>
    BY DEF FirstLife, XInv, GInv, KInv
  <2>3. CASE [GwNext]_allvars /\ UNCHANGED << db, batch >>
    BY <2>2, <2>3, GatewayRows
  <2>4. CASE UNCHANGED << vars, maps, finals, phase, fix, used >> /\ ComingRows' = ComingRows
    <3>1. KInv'
      BY <2>2, <2>4, ReportFrame
    <3>2. UNCHANGED << books_, queue_, rows, cur, pc, call, phase >>
      BY <2>4 DEF vars
    <3>3. FInv'
      BY <2>2, <3>2, FokFrame DEF FInv, ComingOK
    <3>4. RowsKept'
      BY <2>2, <2>4, <3>2, RowsStand
    <3> QED BY <3>1, <3>3, <3>4
  <2>5. CASE XMain \/ XFix \/ XEngine \/ XOver \/ UNCHANGED xvars
    <3>1. [GwNext]_allvars /\ UNCHANGED << db, batch >>
      BY <2>5 DEF XMain, XFix, XEngine, XOver, xvars, pvars, GwNext
    <3> QED BY <2>3, <3>1
  <2>6. ASSUME NEW s \in Symbols, Register(s) PROVE KInv' /\ FInv' /\ RowsKept'
    <3>1. GwAdmin /\ UNCHANGED << db, batch >>
      BY <2>6 DEF Register, GwAdmin, AdminNext
    <3> QED BY <2>3, <3>1 DEF GwNext
  <2>7. CASE RecordSymbol
    <3>1. ReportOK(Head(adm)) /\ Head(adm).type = "SYMBOL"
      <4>1. LogOK(adm) /\ adm # << >>
        BY <2>7 DEF XInv, RecordSymbol
      <4>2. 1 \in DOMAIN adm /\ Head(adm) = adm[1]
        BY <4>1, PopProperties DEF LogOK
      <4> QED BY <4>1, <4>2 DEF LogOK, FirstLife, SymbolsOnly
    <3>2. ComingRows' = TableAfter(ComingRows, Head(adm))
      BY <2>7, <3>1, EventComes DEF RecordSymbol
    <3>3. ComingRows' = ComingRows
      BY <3>1, <3>2 DEF TableAfter
    <3> QED BY <2>4, <2>7, <3>3 DEF RecordSymbol
  <2>8. CASE XPersist
    <3>1. ComingRows' = ComingRows
      BY <2>8, NothingComes DEF XPersist
    <3>2. UNCHANGED << vars, maps, finals, phase, fix, used >>
      BY <2>8 DEF XPersist, TakeBatch, Flush, PersistExit, allvars, gwvars, maps
    <3> QED BY <2>4, <3>1, <3>2
  <2> QED BY <1>3, <2>5, <2>6, <2>7, <2>8 DEF XNext, XAdmin
<1> QED BY <1>2, <1>3

LEMMA LifeInit ==
    ASSUME RestingRows = {<< >>}, XInit
    PROVE  FirstLife
<1>1. GwInit /\ crashes = 0 /\ adm = << >> /\ DOMAIN << >> = {}
  BY DEF XInit
<1>2. PICK T : T = ComingRows
  OBVIOUS
<1>3. KInv /\ FInv /\ RowsFollow(T)
  BY <1>1, NothingFollows
<1> QED BY <1>1, <1>2, <1>3 DEF FirstLife, RowsKept, SymbolsOnly

\* Nothing is on its way: the row of every resting order is in the table.
LEMMA SettledRows ==
    ASSUME XInv, RowsKept
    PROVE  RestingIsDurable
<1> SUFFICES ASSUME Settled, NEW id \in ListedIds
             PROVE  id \in RowIds(db) /\ SameAsBook(RowOf(db, id))
  BY DEF RestingIsDurable
<1>1. call = NoCall /\ pqueue = << >> /\ batch = << >> /\ IInv
  BY DEF Settled, XInv, GInv
<1>2. Coming = db
  BY <1>1, EmptyBatch DEF Coming
<1>3. PICK s \in DOMAIN books_ : id \in DOMAIN books_[s].order_index_
  BY DEF ListedIds
<1>4. BookOrder(id) = books_[s].order_index_[id]
  <2>1. \A t \in DOMAIN books_ : id \in DOMAIN books_[t].order_index_ => t = s
    BY <1>1, <1>3, EntryUnique
  <2>2. (CHOOSE t \in DOMAIN books_ : id \in DOMAIN books_[t].order_index_) = s
    BY <1>3, <2>1
  <2> QED BY <2>2 DEF BookOrder
<1>5. PICK o : o = books_[s].order_index_[id]
  OBVIOUS
<1>6. FullRow(ComingRows, o) /\ o.exchange_id = id
  BY <1>1, <1>3, <1>5, IdleRows, EntryFields DEF RowsKept, RowsFollow
<1>7. PICK r \in Table(db) : RowLike(r, o) /\ r.price = o.price /\ r.leaves_qty = o.leaves_qty
  BY <1>2, <1>6 DEF FullRow, ComingRows
<1>8. PICK i \in DOMAIN db.resting_orders : r = db.resting_orders[i]
  BY <1>7 DEF Table, ToSet
<1>9. r.exchange_id = id /\ Keyed(db.resting_orders)
  BY <1>6, <1>7 DEF RowLike, XInv, DbOK, Sound
<1>10. id \in RowIds(db)
  BY <1>8, <1>9 DEF RowIds
<1>11. RowOf(db, id) = r
  <2>1. \A j \in DOMAIN db.resting_orders : db.resting_orders[j].exchange_id = id => j = i
    BY <1>8, <1>9 DEF Keyed
  <2>2. (CHOOSE j \in DOMAIN db.resting_orders : db.resting_orders[j].exchange_id = id) = i
    BY <1>8, <1>9, <2>1
  <2> QED BY <1>8, <2>2 DEF RowOf
<1>12. SameAsBook(r)
  BY <1>4, <1>5, <1>7, <1>9 DEF SameAsBook, RowLike
<1> QED BY <1>10, <1>11, <1>12

\* Until the first restart no resting order is lost, with a database and for clients that ask
\* for positive quantities in their replaces: once the persistence thread has caught up, every
\* order in a book has its row, with the price and quantity of the book, whatever fills,
\* cancels and replaces crossed each other on the way to the table.
THEOREM ExchangeKeepsRows ==
    ASSUME HasDb, RestingRows = {<< >>}, ReplaceQtys \subseteq Nat \ {0}
    PROVE  XSpec => [](crashes = 0 => RestingIsDurable)
<1>1. XInit => FirstLife
  BY LifeInit
<1>2. XInv /\ XInv' /\ FirstLife /\ [XNext]_xvars => FirstLife'
  BY LifeStep
<1>3. XInv /\ FirstLife => (crashes = 0 => RestingIsDurable)
  BY SettledRows DEF FirstLife
<1> QED BY <1>1, <1>2, <1>3, ExchangeInvariant, PTL DEF XSpec

---------------------------------------------------------------------------
(* Ends of orders on record                                                *)

\* Who an order belongs to, wherever it is or is named; ids not handed out are nobody's.
Owners == UNION {[D -> Clients] : D \in SUBSET (1 .. order_seq_)}
OwnedBy(own, o) == o.exchange_id \in DOMAIN own /\ own[o.exchange_id] = o.client_id

\* An event names owners truly, and no negative quantity.
EventOwned(own, e) ==
    /\ e.type \in {"RESTED", "CANCEL"} => OwnedBy(own, e.order)
    /\ e.type \in {"FILL", "TAKER_FILL"} => OwnedBy(own, e.fill)
    /\ e.type = "FILL" => e.fill.leaves_qty >= 0
    /\ e.type = "REPLACE" => e.leaves_qty >= 0

BooksOwned(own) ==
    \A s \in DOMAIN books_ : \A id \in DOMAIN books_[s].order_index_ :
        OwnedBy(own, books_[s].order_index_[id])
\* A replace does not ask for nothing.
ItemOwned(own, item) ==
    /\ item.tag = "ORDER" => OwnedBy(own, item.order)
    /\ item.tag = "REPLACE" => item.req.new_qty # 0
QueueOwned(own) == \A i \in DOMAIN queue_ : ItemOwned(own, queue_[i])
EngineOwned(own) ==
    /\ BooksOwned(own) /\ QueueOwned(own)
    /\ pc = "match" => OwnedBy(own, cur.order)
    /\ \A i \in DOMAIN rows : OwnedBy(own, rows[i])
CallOwned(own) ==
    /\ call.fn = "on_fill" => /\ OwnedBy(own, call.maker) /\ OwnedBy(own, call.taker)
                              /\ call.maker.leaves_qty >= 0
    /\ call.fn = "on_order_rested" => OwnedBy(own, call.order)
GatewayOwned(own) ==
    /\ fix.at = "submit" => OwnedBy(own, fix.order)
    /\ fix.at = "request" => ItemOwned(own, fix.item)
    /\ \A id \in DOMAIN active_orders_ : OwnedBy(own, active_orders_[id])

\* A fill that ends the order, among the first n events of the log.
Ends(e, id) ==
    e.type \in {"FILL", "TAKER_FILL"} /\ e.fill.exchange_id = id /\ e.fill.leaves_qty = 0
EndIn(log, n, id) == \E j \in DOMAIN log : j <= n /\ Ends(log[j], id)
OnRecord(own, d, id) == id \in DOMAIN own /\ id \in LoadHistoricalFills(d, own[id])
InHistory(own, id) == OnRecord(own, db, id)
EndLogged(own, id) ==
    InHistory(own, id) \/ EndIn(batch, Len(batch), id) \/ EndIn(pqueue, Len(pqueue), id)

\* The aggressor of a replace that has nothing left has its last fill on record, once the
\* callback of the fill is done; so it has when onReplace is called.
ReplacedOK(own) ==
    /\ pc = "match" /\ cur.tag = "REPLACE" => cur.req.orig_order_id = cur.order.exchange_id
    /\ call.fn = "on_fill" => /\ pc = "match"
                              /\ call.taker.exchange_id = cur.order.exchange_id
                              /\ call.taker.leaves_qty = cur.order.leaves_qty
    /\ HasDb /\ pc = "match" /\ cur.tag = "REPLACE" /\ cur.order.leaves_qty = 0
         /\ call.fn # "on_fill" => EndLogged(own, cur.order.exchange_id)
    /\ HasDb /\ call.fn = "on_replace" /\ call.leaves_qty = 0
           => EndLogged(own, call.req.orig_order_id)

\* A replace that takes the row away comes after the fill that ended its order.
Vanishes(e) == e.type = "REPLACE" /\ e.leaves_qty = 0
BatchVanishOK(own) ==
    \A k \in DOMAIN batch : Vanishes(batch[k]) =>
        \/ InHistory(own, batch[k].req.orig_order_id)
        \/ EndIn(batch, k, batch[k].req.orig_order_id)
QueueVanishOK(own) ==
    \A k \in DOMAIN pqueue : Vanishes(pqueue[k]) =>
        \/ InHistory(own, pqueue[k].req.orig_order_id)
        \/ EndIn(batch, Len(batch), pqueue[k].req.orig_order_id)
        \/ EndIn(pqueue, k, pqueue[k].req.orig_order_id)

LogOwned(own, log) == \A i \in DOMAIN log : EventOwned(own, log[i])
DbOwned(own) ==
    /\ \A r \in Table(db) : OwnedBy(own, r)
    /\ LogOwned(own, batch) /\ LogOwned(own, pqueue)

MemoryOwned(own) == EngineOwned(own) /\ CallOwned(own) /\ GatewayOwned(own)
EndsOK(own) ==
    MemoryOwned(own) /\ DbOwned(own) /\ ReplacedOK(own) /\ BatchVanishOK(own) /\ QueueVanishOK(own)

EInv == SymbolsOnly /\ \E own \in Owners : EndsOK(own)

\* Owners of more ids.
LEMMA OwnersGrow ==
    ASSUME NEW own, NEW more, DOMAIN own \subseteq DOMAIN more,
           \A id \in DOMAIN own : more[id] = own[id], EndsOK(own)
    PROVE  EndsOK(more)
<1>1. \A o : OwnedBy(own, o) => OwnedBy(more, o)
  BY DEF OwnedBy
<1>2. \A id : InHistory(own, id) => InHistory(more, id)
  BY DEF InHistory, OnRecord
<1>3. MemoryOwned(more)
  BY <1>1 DEF EndsOK, MemoryOwned, EngineOwned, BooksOwned, QueueOwned, ItemOwned, CallOwned,
             GatewayOwned
<1>4. \A e : EventOwned(own, e) => EventOwned(more, e)
  BY <1>1 DEF EventOwned
<1>5. DbOwned(more)
  BY <1>1, <1>4 DEF EndsOK, DbOwned, LogOwned
<1>6. \A id : EndLogged(own, id) => EndLogged(more, id)
  BY <1>2 DEF EndLogged
<1>7. ReplacedOK(more)
  BY <1>6 DEF EndsOK, ReplacedOK
<1>8. BatchVanishOK(more) /\ QueueVanishOK(more)
  BY <1>2 DEF EndsOK, BatchVanishOK, QueueVanishOK
<1> QED BY <1>3, <1>5, <1>7, <1>8 DEF EndsOK

\* One more event at the end of a log.
Longer(log, e, more) ==
    /\ DOMAIN more = DOMAIN log \cup {Len(more)} /\ more[Len(more)] = e
    /\ \A k \in DOMAIN log : more[k] = log[k]
    /\ \A n, id : EndIn(log, n, id) => EndIn(more, n, id)
    /\ \A id : EndIn(log, Len(log), id) \/ Ends(e, id) <=> EndIn(more, Len(more), id)

LEMMA EndsAppended ==
    ASSUME NEW S, NEW log \in Seq(S), NEW e \in S, NEW more, more = Append(log, e)
    PROVE  Longer(log, e, more)
<1>1. PICK n \in Nat : n = Len(log) /\ DOMAIN log = 1 .. n
  BY LenProperties
<1>2. /\ Len(more) = n + 1 /\ DOMAIN more = 1 .. n + 1 /\ more[n + 1] = e
      /\ \A k \in 1 .. n : more[k] = log[k]
  BY <1>1, AppendProperties
<1>3. \A k \in DOMAIN log : more[k] = log[k] /\ k \in DOMAIN more
  BY <1>1, <1>2
<1>4. \A m, id : EndIn(log, m, id) => EndIn(more, m, id)
  BY <1>3 DEF EndIn
<1>5. \A id : EndIn(log, n, id) \/ Ends(e, id) <=> EndIn(more, n + 1, id)
  <2> TAKE id
  <2>1. EndIn(log, n, id) <=> \E j \in 1 .. n : Ends(log[j], id)
    BY <1>1 DEF EndIn
  <2>2. EndIn(more, n + 1, id) <=> \E j \in 1 .. n + 1 : Ends(more[j], id)
    BY <1>2 DEF EndIn
  <2>3. (\E j \in 1 .. n + 1 : Ends(more[j], id))
            <=> Ends(more[n + 1], id) \/ \E j \in 1 .. n : Ends(more[j], id)
    <3>1. 1 .. n + 1 = (1 .. n) \cup {n + 1}
      OBVIOUS
    <3> QED BY <3>1, Zenon
  <2>4. (\E j \in 1 .. n : Ends(more[j], id)) <=> \E j \in 1 .. n : Ends(log[j], id)
    BY <1>2
  <2> QED BY <1>2, <2>1, <2>2, <2>3, <2>4
<1>6. DOMAIN more = DOMAIN log \cup {Len(more)}
  BY <1>1, <1>2
<1> QED BY <1>1, <1>2, <1>3, <1>4, <1>5, <1>6 DEF Longer

\* A step that moves no event.
LEMMA EndsKept ==
    ASSUME UNCHANGED << db, batch, pqueue >>, NEW own
    PROVE  /\ \A id : EndLogged(own, id)' <=> EndLogged(own, id)
           /\ DbOwned(own)' <=> DbOwned(own)
           /\ BatchVanishOK(own)' <=> BatchVanishOK(own)
           /\ QueueVanishOK(own)' <=> QueueVanishOK(own)
<1>1. \A id : InHistory(own, id)' <=> InHistory(own, id)
  BY DEF InHistory
<1> QED BY <1>1 DEF EndLogged, DbOwned, BatchVanishOK, QueueVanishOK

\* A handler takes the message of a client: the order it makes belongs to the client.
LEMMA HandlerOwned ==
    ASSUME GInv, OrdersOK, 0 \notin ReplaceQtys, NEW own, MemoryOwned(own), GwFix,
           \A m, c, cl : AcceptNew(m, c, cl) => /\ order_seq_ + 1 \in DOMAIN own
                                                /\ own[order_seq_ + 1] = c
    PROVE  MemoryOwned(own)'
<1>1. UNCHANGED << books_, call, cur, phase, pc, rows >>
  BY FixLeavesEngine
<1>2. BooksOwned(own)' /\ CallOwned(own)' /\ (pc' = "match" => OwnedBy(own, cur'.order))
      /\ \A i \in DOMAIN rows' : OwnedBy(own, rows'[i])
  BY <1>1 DEF MemoryOwned, EngineOwned, BooksOwned, CallOwned
<1>3. QueueOwned(own) /\ GatewayOwned(own)
  BY DEF MemoryOwned, EngineOwned
<1> SUFFICES QueueOwned(own)' /\ GatewayOwned(own)'
  BY <1>2 DEF MemoryOwned, EngineOwned
<1>4. CASE \/ \E c \in Clients : Logon(c) \/ Logout(c)
           \/ SendStatus
           \/ \E m \in NewOrderMsgs, c \in Clients : RejectNew(m, c)
           \/ \E c \in Clients, orig \in ClOrdIds, s \in MsgSymbols : RecvCancel(c, orig, s)
  <2>1. ASSUME \/ \E c \in Clients : Logon(c) \/ Logout(c)
               \/ SendStatus
               \/ \E m \in NewOrderMsgs, c \in Clients : RejectNew(m, c)
        PROVE  /\ UNCHANGED << queue_, active_orders_ >>
               /\ fix' = fix \/ fix'.at \in {"idle", "status"}
    <3>1. ASSUME NEW c \in Clients, Logon(c)
          PROVE  UNCHANGED << queue_, active_orders_ >> /\ fix'.at = "status"
      BY <3>1 DEF Logon, vars
    <3>2. ASSUME (\E c \in Clients : Logout(c)) \/ SendStatus
          PROVE  UNCHANGED << queue_, active_orders_ >> /\ (fix' = fix \/ fix'.at = "idle")
      BY <3>2 DEF Logout, SendStatus, Idle, vars, maps
    <3>3. ASSUME \E m \in NewOrderMsgs, c \in Clients : RejectNew(m, c)
          PROVE  UNCHANGED << queue_, active_orders_ >> /\ fix' = fix
      BY <3>3 DEF RejectNew, Reject, gwvars, maps
    <3> QED BY <2>1, <3>1, <3>2, <3>3
  <2>2. ASSUME NEW c \in Clients, NEW orig \in ClOrdIds, NEW s \in MsgSymbols, RecvCancel(c, orig, s)
        PROVE  /\ UNCHANGED << queue_, active_orders_ >>
               /\ fix'.at = "request" /\ fix'.item.tag = "CANCEL"
    BY <2>2 DEF RecvCancel, vars, maps
  <2> QED BY <1>3, <1>4, <2>1, <2>2 DEF QueueOwned, GatewayOwned, ItemOwned
<1>5. CASE \E c \in Clients, orig, cl \in ClOrdIds, s \in MsgSymbols, side \in Sides,
                 p \in Prices, q \in ReplaceQtys : RecvReplace(c, orig, cl, s, side, p, q)
  <2>1. PICK c \in Clients, orig, cl \in ClOrdIds, s \in MsgSymbols, side \in Sides,
                 p \in Prices, q \in ReplaceQtys : RecvReplace(c, orig, cl, s, side, p, q)
    BY <1>5
  <2>2. /\ UNCHANGED << queue_, active_orders_ >>
        /\ fix'.at = "request" /\ fix'.item.tag = "REPLACE" /\ fix'.item.req.new_qty = q
    BY <2>1 DEF RecvReplace, vars, maps
  <2>3. q # 0
    OBVIOUS
  <2> QED BY <1>3, <2>2, <2>3 DEF QueueOwned, GatewayOwned, ItemOwned
<1>6. CASE \E m \in NewOrderMsgs, c \in Clients, cl \in ClOrdIds : AcceptNew(m, c, cl)
  <2>1. PICK m \in NewOrderMsgs, c \in Clients, cl \in ClOrdIds : AcceptNew(m, c, cl)
    BY <1>6
  <2>2. PICK o : o = NewOrder(m, c, cl)
    OBVIOUS
  <2>3. /\ fix' = [at |-> "submit", order |-> o] /\ queue_' = queue_
        /\ active_orders_' = Emplace(active_orders_, order_seq_ + 1, o)
    BY <2>1, <2>2 DEF AcceptNew, NewOrder
  <2>4. OwnedBy(own, o)
    BY <2>1, <2>2 DEF NewOrder, OwnedBy
  <2>5. \A id \in DOMAIN active_orders_' : OwnedBy(own, active_orders_'[id])
    BY <1>3, <2>3, <2>4 DEF GatewayOwned, Emplace, Put
  <2> QED BY <1>3, <2>3, <2>4, <2>5 DEF QueueOwned, GatewayOwned
<1>7. CASE SubmitNew \/ PushRequest \/ \E c \in Clients : RecvMarketDataRequest(c)
  <2> DEFINE item == IF fix.at = "submit" THEN [tag |-> "ORDER", order |-> fix.order]
                     ELSE IF fix.at = "request" THEN fix.item ELSE [tag |-> "SNAPSHOT"]
  <2>1. fix' = Idle /\ active_orders_' = active_orders_ /\ queue_' = Append(queue_, item)
    BY <1>7 DEF SubmitNew, PushRequest, RecvMarketDataRequest, RequestSnapshot, Request, Push,
                Receives, Idle, gwvars, maps
  <2>2. queue_ \in Seq(WorkItem) /\ item \in WorkItem
    <3>1. fix.at = "request" => RequestOK(fix.item)
      BY DEF GInv, FixOK
    <3>2. fix.at = "request" => fix.item \in WorkItem
      BY <3>1, RequestIsWork
    <3>3. fix.at = "submit" => fix.order \in Order
      BY DEF GInv, FixOK, SubmitOK
    <3> QED BY <3>2, <3>3 DEF GInv, IInv, TypeOK, WorkItem
  <2>3. ItemOwned(own, item)
    BY <1>3 DEF GatewayOwned, ItemOwned
  <2> HIDE DEF item
  <2>4. \A i \in DOMAIN queue_' : \/ i \in DOMAIN queue_ /\ queue_'[i] = queue_[i]
                                  \/ queue_'[i] = item
    BY <2>1, <2>2, PushProperties
  <2>5. QueueOwned(own)'
    BY <1>3, <2>3, <2>4 DEF QueueOwned
  <2>6. fix'.at = "idle"
    BY <2>1 DEF Idle
  <2> QED BY <1>3, <2>1, <2>5, <2>6 DEF GatewayOwned
<1> QED BY <1>4, <1>5, <1>6, <1>7 DEF GwFix, GwOrders

\* The orders of a book that was changed in one place.
LEMMA BooksOwnedUpdate ==
    ASSUME NEW own, BooksOwned(own), NEW s, NEW x, NEW n,
           \/ StillBooks
           \/ Indexed(s, Drop(books_[s].order_index_, x))
           \/ Indexed(s, Put(books_[s].order_index_, x, n)) /\ OwnedBy(own, n)
    PROVE  BooksOwned(own)'
<1>1. CASE StillBooks
  BY <1>1 DEF BooksOwned, StillBooks
<1>2. CASE ~StillBooks
  <2>1. \A id \in DOMAIN books_'[s].order_index_ : OwnedBy(own, books_'[s].order_index_[id])
    BY <1>2 DEF BooksOwned, Indexed, Drop, Put
  <2>2. s \in DOMAIN books_ /\ DOMAIN books_' = DOMAIN books_
        /\ \A t \in DOMAIN books_ : t # s => books_'[t] = books_[t]
    BY <1>2 DEF Indexed
  <2> QED BY <2>1, <2>2 DEF BooksOwned
<1> QED BY <1>1, <1>2

LEMMA PopOwned ==
    ASSUME IInv, NEW own, QueueOwned(own), NEW tag, Pop(tag)
    PROVE  QueueOwned(own)' /\ ItemOwned(own, Head(queue_)) /\ Head(queue_).tag = tag
  BY PopQueue DEF QueueOwned

\* The engine's own steps; what EndLogged(own, id) says is not theirs to change.
LEMMA EngineOwnedStep ==
    ASSUME GInv, NEW own, MemoryOwned(own), ReplacedOK(own), UNCHANGED gwvars,
           RunOrder \/ RunCancel \/ RunReplace \/ RunSnapshot \/ MatchFill \/ MatchEnd \/ Exit,
           \A id : EndLogged(own, id)' <=> EndLogged(own, id)
    PROVE  MemoryOwned(own)' /\ ReplacedOK(own)'
<1>1. GatewayOwned(own)'
  BY DEF MemoryOwned, GatewayOwned, gwvars
<1>2. /\ IInv /\ BooksOwned(own) /\ QueueOwned(own) /\ (pc = "match" => OwnedBy(own, cur.order))
      /\ \A i \in DOMAIN rows : OwnedBy(own, rows[i])
  BY DEF GInv, MemoryOwned, EngineOwned
<1>3. \A o, e : Alike(o, e) /\ OwnedBy(own, e) => OwnedBy(own, o)
  BY DEF Alike, OwnedBy
<1>4. \A f, o : FillOf(f, o) /\ OwnedBy(own, o) => OwnedBy(own, f)
  BY DEF FillOf, OwnedBy
<1> DEFINE Rest == /\ BooksOwned(own)' /\ QueueOwned(own)' /\ rows' = rows
                   /\ (pc' = "match" => OwnedBy(own, cur'.order))
                   /\ CallOwned(own)'
<1>5. Rest => MemoryOwned(own)'
  BY <1>1, <1>2 DEF MemoryOwned, EngineOwned
<1> SUFFICES Rest /\ ReplacedOK(own)'
  BY <1>5
<1>6. CASE RunOrder
  <2>1. PICK o : o = Head(queue_).order
    OBVIOUS
  <2>2. /\ Pop("ORDER") /\ UNCHANGED << books_, rows >> /\ pc = "run"
        /\ \/ call'.fn = "on_tif_cancel" /\ UNCHANGED << pc, cur >>
           \/ call' = NoCall /\ pc' = "match" /\ cur'.tag = "ORDER" /\ Alike(cur'.order, o)
    BY <1>6, <2>1, RunOrderFacts
  <2>3. QueueOwned(own)' /\ OwnedBy(own, o)
    BY <1>2, <2>1, <2>2, PopOwned DEF ItemOwned
  <2>4. CallOwned(own)' /\ (pc' = "match" => OwnedBy(own, cur'.order))
    BY <1>3, <2>2, <2>3 DEF CallOwned, NoCall
  <2>5. BooksOwned(own)'
    BY <1>2, <2>2 DEF BooksOwned
  <2>6. ReplacedOK(own)'
    BY <2>2 DEF ReplacedOK, NoCall
  <2> QED BY <2>2, <2>3, <2>4, <2>5, <2>6
<1>7. CASE RunCancel
  <2> DEFINE s == Head(queue_).req.symbol
             id == Head(queue_).req.orig_order_id
  <2>1. /\ Pop("CANCEL") /\ pc' # "match" /\ (call' = NoCall \/ call'.fn = "on_cancel")
        /\ rows' = rows
        /\ StillBooks \/ Indexed(s, Drop(books_[s].order_index_, id))
    BY <1>7, RunCancelFacts
  <2> HIDE DEF s, id
  <2>2. call'.fn \in {"none", "on_cancel"}
    BY <2>1 DEF NoCall
  <2>3. QueueOwned(own)'
    BY <1>2, <2>1, PopOwned
  <2>4. BooksOwned(own)'
    BY <1>2, <2>1, BooksOwnedUpdate
  <2> QED BY <2>1, <2>2, <2>3, <2>4 DEF CallOwned, ReplacedOK
<1>8. CASE RunReplace
  <2> DEFINE req == Head(queue_).req
             s == req.symbol
             id == req.orig_order_id
             e == books_[s].order_index_[id]
  <2>1. /\ Pop("REPLACE") /\ rows' = rows
        /\ \/ call' = NoCall /\ pc' # "match" /\ StillBooks
           \/ call'.fn = "on_replace" /\ call'.leaves_qty = -1 /\ pc' # "match" /\ StillBooks
           \/ /\ call'.fn = "on_replace" /\ call'.leaves_qty = req.new_qty /\ pc' # "match"
              /\ s \in DOMAIN books_ /\ id \in DOMAIN books_[s].order_index_
              /\ \E n : Alike(n, e) /\ Indexed(s, Put(books_[s].order_index_, id, n))
           \/ /\ call' = NoCall /\ cur'.req = req
              /\ s \in DOMAIN books_ /\ id \in DOMAIN books_[s].order_index_
              /\ Alike(cur'.order, e) /\ cur'.order.leaves_qty = req.new_qty
              /\ Indexed(s, Drop(books_[s].order_index_, id))
    BY <1>8, RunReplaceFacts, ZenonT(40)
  <2>2. QueueOwned(own)' /\ req.new_qty # 0
    BY <1>2, <2>1, PopOwned, Zenon DEF ItemOwned
  <2>3. id = req.orig_order_id
    OBVIOUS
  <2>4. s \in DOMAIN books_ /\ id \in DOMAIN books_[s].order_index_ =>
            OwnedBy(own, e) /\ e.exchange_id = id
    BY <1>2, EntryFields DEF BooksOwned
  <2> HIDE DEF req, s, id, e
  <2>5. BooksOwned(own)'
    <3>1. CASE \E n : Alike(n, e) /\ OwnedBy(own, e) /\ Indexed(s, Put(books_[s].order_index_, id, n))
      <4>1. PICK n : Alike(n, e) /\ OwnedBy(own, e) /\ Indexed(s, Put(books_[s].order_index_, id, n))
        BY <3>1
      <4> QED BY <1>2, <1>3, <4>1, BooksOwnedUpdate
    <3>2. CASE StillBooks \/ Indexed(s, Drop(books_[s].order_index_, id))
      BY <1>2, <3>2, BooksOwnedUpdate
    <3> QED BY <2>1, <2>4, <3>1, <3>2
  <2>6. CallOwned(own)' /\ (pc' = "match" => OwnedBy(own, cur'.order))
    BY <1>3, <2>1, <2>4 DEF CallOwned, NoCall
  <2>7. ReplacedOK(own)'
    <3>1. \/ call' = NoCall /\ pc' # "match"
          \/ call'.fn = "on_replace" /\ call'.leaves_qty # 0 /\ pc' # "match"
          \/ /\ call' = NoCall /\ cur'.req.orig_order_id = cur'.order.exchange_id
             /\ cur'.order.leaves_qty # 0
      BY <2>1, <2>2, <2>3, <2>4 DEF Alike
    <3> QED BY <3>1 DEF ReplacedOK, NoCall
  <2> QED BY <2>1, <2>2, <2>5, <2>6, <2>7, SMTT(30)
<1>9. CASE MatchFill
  <2>1. PICK o, s : o = cur.order /\ s = o.symbol
    OBVIOUS
  <2>2. /\ pc = "match" /\ UNCHANGED << queue_, pc, rows >> /\ s \in DOMAIN books_
        /\ cur'.tag = cur.tag /\ (cur.tag = "REPLACE" => cur'.req = cur.req)
        /\ Alike(cur'.order, o) /\ call'.fn = "on_fill" /\ FillOf(call'.taker, o)
        /\ call'.taker.leaves_qty = cur'.order.leaves_qty /\ call'.maker.leaves_qty >= 0
    BY <1>9, <2>1, MatchFillFacts
  <2>3. PICK id \in DOMAIN books_[s].order_index_ :
            LET r == books_[s].order_index_[id]
            IN  /\ FillOf(call'.maker, r)
                /\ \/ Indexed(s, Drop(books_[s].order_index_, id))
                   \/ \E n : Alike(n, r) /\ Indexed(s, Put(books_[s].order_index_, id, n))
    BY <1>9, <2>1, MatchFillFacts
  <2>4. OwnedBy(own, o) /\ OwnedBy(own, books_[s].order_index_[id])
    BY <1>2, <2>1, <2>2, <2>3 DEF BooksOwned
  <2>5. BooksOwned(own)'
    BY <1>2, <1>3, <2>3, <2>4, BooksOwnedUpdate
  <2>6. CallOwned(own)' /\ OwnedBy(own, cur'.order)
    BY <1>3, <1>4, <2>2, <2>3, <2>4 DEF CallOwned
  <2>7. ReplacedOK(own)'
    BY <2>1, <2>2 DEF ReplacedOK, Alike, FillOf
  <2> QED BY <1>2, <2>2, <2>5, <2>6, <2>7 DEF QueueOwned
<1>10. CASE MatchEnd
  <2>1. PICK o, s : o = cur.order /\ s = o.symbol
    OBVIOUS
  <2>2. /\ pc = "match" /\ call = NoCall /\ pc' = "run" /\ UNCHANGED << queue_, rows >>
        /\ StillBooks \/ Indexed(s, Put(books_[s].order_index_, o.exchange_id, o))
        /\ \/ /\ cur.tag = "REPLACE" /\ call'.fn = "on_replace" /\ call'.req = cur.req
              /\ call'.leaves_qty = o.leaves_qty
           \/ call'.fn \in {"none", "on_tif_cancel", "on_order_rested"}
    BY <1>10, <2>1, MatchEndFacts
  <2>3. OwnedBy(own, o)
    BY <1>2, <2>1, <2>2
  <2>4. BooksOwned(own)'
    BY <1>2, <2>2, <2>3, BooksOwnedUpdate
  <2>5. call'.fn = "on_order_rested" => Alike(call'.order, o)
    BY <1>10, <2>1, RestedFacts
  <2>6. CallOwned(own)'
    BY <1>3, <2>2, <2>3, <2>5 DEF CallOwned
  <2>7. ReplacedOK(own)'
    BY <2>1, <2>2 DEF ReplacedOK, NoCall
  <2> QED BY <1>2, <2>2, <2>4, <2>6, <2>7 DEF QueueOwned
<1>11. CASE RunSnapshot
  <2>1. /\ Pop("SNAPSHOT") /\ UNCHANGED << books_, pc, cur, rows >> /\ pc = "run"
        /\ call'.fn = "snapshot_cb"
    BY <1>11 DEF RunSnapshot, SnapshotCb, Pop
  <2>2. QueueOwned(own)'
    BY <1>2, <2>1, PopOwned
  <2> QED BY <1>2, <2>1, <2>2 DEF BooksOwned, CallOwned, ReplacedOK
<1>12. CASE Exit
  <2>1. UNCHANGED << books_, queue_, rows, cur, call >> /\ call = NoCall /\ pc' = "stopped"
    BY <1>12 DEF Exit
  <2> QED BY <1>2, <2>1 DEF BooksOwned, QueueOwned, CallOwned, ReplacedOK, NoCall
<1> QED BY <1>6, <1>7, <1>8, <1>9, <1>10, <1>11, <1>12

\* A callback drops copies and changes them, but not whose they are.
LEMMA CopiesKept ==
    ASSUME GInv, GwCallback
    PROVE  \A id \in DOMAIN active_orders_' :
               /\ id \in DOMAIN active_orders_
               /\ active_orders_'[id].exchange_id = active_orders_[id].exchange_id
               /\ active_orders_'[id].client_id = active_orders_[id].client_id
<1> DEFINE Fields == {"exchange_id", "clord_id", "client_id", "symbol", "side", "type", "price",
                      "qty", "leaves_qty", "tif"}
           Goal == \A id \in DOMAIN active_orders_' :
                       /\ id \in DOMAIN active_orders_
                       /\ active_orders_'[id].exchange_id = active_orders_[id].exchange_id
                       /\ active_orders_'[id].client_id = active_orders_[id].client_id
<1>1. \A id \in DOMAIN active_orders_ : active_orders_[id] \in Order
  BY DEF GInv, MapsOK
<1>2. ASSUME NEW id, active_orders_' = active_orders_ \/ active_orders_' = Drop(active_orders_, id)
      PROVE  Goal
  BY <1>2 DEF Drop
<1>3. ASSUME NEW x \in DOMAIN active_orders_, NEW o, active_orders_' = [active_orders_ EXCEPT ![x] = o],
             o.exchange_id = active_orders_[x].exchange_id, o.client_id = active_orders_[x].client_id
      PROVE  Goal
  BY <1>3
<1>4. ASSUME NEW fill, NEW ph, NEW next, SendFillReport(fill, ph, next)
      PROVE  Goal
  <2> DEFINE x == fill.exchange_id
             o == [active_orders_[x] EXCEPT !.leaves_qty = fill.leaves_qty]
  <2>1. \/ active_orders_' = active_orders_ \/ active_orders_' = Drop(active_orders_, x)
        \/ x \in DOMAIN active_orders_ /\ active_orders_' = [active_orders_ EXCEPT ![x] = o]
    BY <1>4 DEF SendFillReport
  <2>2. x \in DOMAIN active_orders_ =>
            o.exchange_id = active_orders_[x].exchange_id /\ o.client_id = active_orders_[x].client_id
    BY <1>1 DEF Order
  <2> HIDE DEF x, o
  <2> QED BY <1>2, <1>3, <2>1, <2>2
<1>5. CASE OnFillStep
  <2>1. ASSUME NEW fill, NEW ph, NEW next, NEW skip, SendFillRoute(fill, ph, next, skip)
        PROVE  active_orders_' = active_orders_
    BY <2>1 DEF SendFillRoute
  <2>2. FillTrade \/ FillReturn => active_orders_' = active_orders_
    BY DEF FillTrade, FillReturn, maps
  <2> QED BY <1>2, <1>4, <1>5, <2>1, <2>2 DEF OnFillStep
<1>6. CASE OnReplaceStep
  <2> DEFINE x == call.req.orig_order_id
             left == IF call.leaves_qty > 0 THEN call.leaves_qty ELSE 0
             o == [active_orders_[x] EXCEPT !.clord_id = call.req.new_clord_id,
                                            !.price = call.req.new_price,
                                            !.qty = call.req.new_qty,
                                            !.leaves_qty = left]
  <2>1. \/ active_orders_' = active_orders_ \/ active_orders_' = Drop(active_orders_, x)
        \/ x \in DOMAIN active_orders_ /\ active_orders_' = [active_orders_ EXCEPT ![x] = o]
    BY <1>6 DEF OnReplaceStep, maps
  <2>2. x \in DOMAIN active_orders_ =>
            o.exchange_id = active_orders_[x].exchange_id /\ o.client_id = active_orders_[x].client_id
    BY <1>1 DEF Order
  <2> HIDE DEF x, o
  <2> QED BY <1>2, <1>3, <2>1, <2>2
<1>7. CASE OnCancelStep \/ OnTifCancelStep \/ OnOrderRestedStep \/ SnapshotStep
  BY <1>2, <1>7 DEF OnCancelStep, OnTifCancelStep, OnOrderRestedStep, SnapshotStep, maps
<1> QED BY <1>5, <1>6, <1>7 DEF GwCallback

\* What the memory holds stays whose it was.
LEMMA CallbackMemory ==
    ASSUME GInv, NEW own, MemoryOwned(own), GwCallback
    PROVE  MemoryOwned(own)'
<1>1. UNCHANGED fix /\ (UNCHANGED vars \/ CallbackReturn)
  BY CallbackPushes
<1>2. UNCHANGED << books_, queue_, rows, pc, cur >> /\ (call' = call \/ call' = NoCall)
  BY <1>1 DEF vars, CallbackReturn
<1>3. EngineOwned(own)'
  BY <1>2 DEF MemoryOwned, EngineOwned, BooksOwned, QueueOwned
<1>4. CallOwned(own)'
  BY <1>2 DEF MemoryOwned, CallOwned, NoCall
<1>5. GatewayOwned(own)'
  BY <1>1, CopiesKept DEF MemoryOwned, GatewayOwned, OwnedBy
<1> QED BY <1>3, <1>4, <1>5 DEF MemoryOwned

\* The event of a callback names owners truly.
LEMMA EventIsOwned ==
    ASSUME GInv, NEW own, MemoryOwned(own), NEW e, EventOf(e)
    PROVE  EventOwned(own, e)
<1> USE DEF EventOwned, EventOf
<1>1. CASE call.fn = "on_fill"
  BY <1>1 DEF MemoryOwned, CallOwned, InFill
<1>2. CASE call.fn = "on_cancel"
  BY <1>2 DEF MemoryOwned, GatewayOwned, InFill
<1>3. CASE call.fn = "on_replace"
  <2>1. call.leaves_qty \in Int
    BY <1>3 DEF GInv, CallOK
  <2>2. (IF call.leaves_qty > 0 THEN call.leaves_qty ELSE 0) >= 0
    BY <2>1
  <2> QED BY <1>3, <2>2 DEF InFill
<1>4. CASE call.fn = "on_order_rested"
  BY <1>4 DEF MemoryOwned, CallOwned, InFill
<1> QED BY <1>1, <1>2, <1>3, <1>4 DEF InFill

\* When a callback pushes an event, the queue is what it was and then the event.
LEMMA EventPushed ==
    ASSUME LogOK(pqueue), HasDb, NEW own, NEW e, ReportOK(e), Enqueue(e), UNCHANGED << db, batch >>
    PROVE  /\ DOMAIN pqueue' = DOMAIN pqueue \cup {Len(pqueue')} /\ pqueue'[Len(pqueue')] = e
           /\ \A k \in DOMAIN pqueue : pqueue'[k] = pqueue[k]
           /\ \A n, id : EndIn(pqueue, n, id) => EndIn(pqueue', n, id)
           /\ \A id : EndLogged(own, id) \/ Ends(e, id) =>
                  \/ InHistory(own, id) \/ EndIn(batch, Len(batch), id)
                  \/ EndIn(pqueue', Len(pqueue'), id)
           /\ \A id : EndLogged(own, id) \/ Ends(e, id) => EndLogged(own, id)'
           /\ \A id : InHistory(own, id)' <=> InHistory(own, id)
<1>1. pqueue \in Seq(Report) /\ e \in Report /\ pqueue' = Append(pqueue, e)
  BY DEF LogOK, ReportOK, Enqueue
<1>2. /\ DOMAIN pqueue' = DOMAIN pqueue \cup {Len(pqueue')} /\ pqueue'[Len(pqueue')] = e
      /\ \A k \in DOMAIN pqueue : pqueue'[k] = pqueue[k]
      /\ \A n, id : EndIn(pqueue, n, id) => EndIn(pqueue', n, id)
      /\ \A id : EndIn(pqueue, Len(pqueue), id) \/ Ends(e, id) <=> EndIn(pqueue', Len(pqueue'), id)
  <2>1. Longer(pqueue, e, pqueue')
    BY <1>1, EndsAppended, Zenon
  <2> QED BY <2>1 DEF Longer
<1>3. \A id : InHistory(own, id)' <=> InHistory(own, id)
  BY DEF InHistory
<1>4. \A id : EndLogged(own, id) \/ Ends(e, id) =>
                  \/ InHistory(own, id) \/ EndIn(batch, Len(batch), id)
                  \/ EndIn(pqueue', Len(pqueue'), id)
  BY <1>2 DEF EndLogged
<1>5. \A id : EndLogged(own, id) \/ Ends(e, id) => EndLogged(own, id)'
  BY <1>3, <1>4 DEF EndLogged
<1> QED BY <1>2, <1>3, <1>4, <1>5

\* A replace that takes the row away is reported after the fill that ended its order.
LEMMA EventVanishes ==
    ASSUME GInv, HasDb, NEW own, ReplacedOK(own), NEW e, EventOf(e), Vanishes(e)
    PROVE  EndLogged(own, e.req.orig_order_id)
<1>1. /\ call.fn = "on_replace" /\ call.found /\ e.req = call.req
      /\ e.leaves_qty = IF call.leaves_qty > 0 THEN call.leaves_qty ELSE 0
  BY DEF EventOf, Vanishes
<1>2. call.leaves_qty \in Int /\ call.leaves_qty >= 0
  BY <1>1 DEF GInv, CallOK
<1>3. call.leaves_qty = 0
  BY <1>1, <1>2 DEF Vanishes
<1> QED BY <1>1, <1>3 DEF ReplacedOK

\* Every step of every callback.
LEMMA CallbackOwned ==
    ASSUME XInv, NEW own, EndsOK(own), GwCallback, UNCHANGED << db, batch >>
    PROVE  EndsOK(own)'
<1>1. /\ GInv /\ OrdersOK /\ LogOK(pqueue)
      /\ MemoryOwned(own) /\ DbOwned(own) /\ ReplacedOK(own)
      /\ BatchVanishOK(own) /\ QueueVanishOK(own)
  BY DEF XInv, EndsOK
<1>2. MemoryOwned(own)'
  BY <1>1, CallbackMemory
<1>3. /\ UNCHANGED vars \/ CallbackReturn
      /\ (pqueue' = pqueue /\ Unreported) \/ \E e : EventOf(e) /\ Enqueue(e)
  BY <1>1, CallbackPushes
<1>4. UNCHANGED << pc, cur >> /\ (call' = call \/ call' = NoCall)
  BY <1>3 DEF vars, CallbackReturn
<1>5. \A id : InHistory(own, id)' <=> InHistory(own, id)
  BY DEF InHistory
<1>6. BatchVanishOK(own)'
  BY <1>1, <1>5 DEF BatchVanishOK
<1>7. CASE pqueue' = pqueue /\ Unreported
  <2>1. /\ \A id : EndLogged(own, id)' <=> EndLogged(own, id)
        /\ DbOwned(own)' /\ QueueVanishOK(own)'
    BY <1>1, <1>7, EndsKept
  <2>2. call.fn = "on_fill" => call' = call
    BY <1>7 DEF Unreported, vars
  <2>3. ReplacedOK(own)'
    BY <1>1, <1>4, <2>1, <2>2 DEF ReplacedOK, NoCall
  <2> QED BY <1>2, <1>6, <2>1, <2>3 DEF EndsOK
<1>8. CASE ~HasDb /\ \E e : EventOf(e) /\ Enqueue(e)
  <2>1. pqueue' = pqueue
    BY <1>8 DEF Enqueue
  <2>2. DbOwned(own)' /\ QueueVanishOK(own)'
    BY <1>1, <2>1, EndsKept
  <2>3. ReplacedOK(own)'
    BY <1>1, <1>4, <1>8 DEF ReplacedOK, NoCall
  <2> QED BY <1>2, <1>6, <2>2, <2>3 DEF EndsOK
<1>9. CASE HasDb /\ \E e : EventOf(e) /\ Enqueue(e)
  <2>1. PICK e : EventOf(e) /\ Enqueue(e)
    BY <1>9
  <2>2. ReportOK(e) /\ EventOwned(own, e)
    BY <1>1, <2>1, EventIsReport, EventIsOwned
  <2>3. /\ DOMAIN pqueue' = DOMAIN pqueue \cup {Len(pqueue')} /\ pqueue'[Len(pqueue')] = e
        /\ \A k \in DOMAIN pqueue : pqueue'[k] = pqueue[k]
        /\ \A n, id : EndIn(pqueue, n, id) => EndIn(pqueue', n, id)
        /\ \A id : EndLogged(own, id) \/ Ends(e, id) =>
               \/ InHistory(own, id) \/ EndIn(batch, Len(batch), id)
               \/ EndIn(pqueue', Len(pqueue'), id)
        /\ \A id : EndLogged(own, id) \/ Ends(e, id) => EndLogged(own, id)'
    BY <1>1, <1>9, <2>1, <2>2, EventPushed
  <2>4. DbOwned(own)'
    BY <1>1, <2>2, <2>3, Zenon DEF DbOwned, LogOwned
  <2>5. Vanishes(e) => EndLogged(own, e.req.orig_order_id)
    BY <1>1, <1>9, <2>1, EventVanishes, SMTT(30)
  <2>6. QueueVanishOK(own)'
    <3> SUFFICES ASSUME NEW k \in DOMAIN pqueue', Vanishes(pqueue'[k])
                 PROVE  LET id == pqueue'[k].req.orig_order_id
                        IN  \/ InHistory(own, id) \/ EndIn(batch, Len(batch), id)
                            \/ EndIn(pqueue', k, id)
      BY <1>5, SMTT(30) DEF QueueVanishOK
    <3>1. CASE k \in DOMAIN pqueue
      BY <1>1, <2>3, <3>1, Zenon DEF QueueVanishOK
    <3>2. CASE k = Len(pqueue')
      BY <2>3, <2>5, <3>2
    <3> QED BY <2>3, <3>1, <3>2, Zenon
  <2>7. ReplacedOK(own)'
    <3>1. CASE call.fn = "on_fill" /\ phase = "taker_event"
      <4>1. e.type = "TAKER_FILL" /\ e.fill = call.taker /\ call' = NoCall
        BY <2>1, <3>1 DEF EventOf, InFill, CallbackReturn
      <4>2. cur.order.leaves_qty = 0 => Ends(e, cur.order.exchange_id)
        BY <1>1, <3>1, <4>1 DEF ReplacedOK, Ends
      <4> QED BY <1>1, <1>4, <2>3, <4>1, <4>2 DEF ReplacedOK, NoCall
    <3>2. CASE call.fn = "on_fill" /\ phase # "taker_event"
      <4>1. call' = call
        BY <2>1, <3>2 DEF EventOf, InFill, vars
      <4> QED BY <1>1, <1>4, <2>3, <3>2, <4>1 DEF ReplacedOK
    <3>3. CASE call.fn # "on_fill"
      BY <1>1, <1>4, <2>3, <3>3 DEF ReplacedOK, NoCall
    <3> QED BY <3>1, <3>2, <3>3
  <2> QED BY <1>2, <1>6, <2>4, <2>6, <2>7 DEF EndsOK
<1> QED BY <1>3, <1>7, <1>8, <1>9

\* main() and the admin thread: at most, a row moves to its book, or a symbol gets an empty one.
LEMMA AsideOwned ==
    ASSUME IInv, NEW own, MemoryOwned(own), ReplacedOK(own), UNCHANGED << db, batch >>,
           GwMain \/ GwAdmin \/ GwOver \/ UNCHANGED allvars
    PROVE  MemoryOwned(own)' /\ ReplacedOK(own)' /\ pqueue' = pqueue
<1>1. /\ BooksOwned(own) /\ (pc = "match" => OwnedBy(own, cur.order))
      /\ \A i \in DOMAIN rows : OwnedBy(own, rows[i])
  BY DEF MemoryOwned, EngineOwned
<1>2. UNCHANGED << queue_, cur, call, fix, active_orders_, pqueue >> /\ (pc' = "match" <=> pc = "match")
  <2>1. CASE GwMain
    BY <2>1 DEF GwMain, MainNext, RestoreOrder, Start, StopAcceptor, Stop, gwvars, IInv, RowsOK
  <2>2. CASE GwAdmin
    BY <2>2 DEF GwAdmin, AdminNext, RegisterSymbol, gwvars
  <2>3. CASE GwOver \/ UNCHANGED allvars
    BY <2>3 DEF GwOver, Over, allvars, vars, gwvars
  <2> QED BY <2>1, <2>2, <2>3
<1>3. BooksOwned(own)' /\ \A i \in DOMAIN rows' : OwnedBy(own, rows'[i])
  <2>1. CASE RestoreOrder
    <3>1. PICK o, s : o = Head(rows) /\ s = o.symbol
      OBVIOUS
    <3>2. rows \in Seq(Order) /\ rows # << >> /\ rows' = Tail(rows)
      BY <2>1 DEF RestoreOrder, IInv, TypeOK
    <3>3. /\ o = rows[1] /\ 1 \in DOMAIN rows
          /\ \A i \in DOMAIN rows' : i + 1 \in DOMAIN rows /\ rows'[i] = rows[i + 1]
      BY <3>1, <3>2, HeadTailProperties, LenProperties
    <3>4. OwnedBy(own, o)
      BY <1>1, <3>3
    <3>5. \/ books_' = books_
          \/ s \in DOMAIN books_ /\ books_' = [books_ EXCEPT ![s] = PushBack(books_[s], o)]
      BY <2>1, <3>1 DEF RestoreOrder, valid_symbols_
    <3>6. StillBooks \/ Indexed(s, PushBack(books_[s], o).order_index_)
      BY <3>5, BookIndexed DEF StillBooks
    <3>7. PushBack(books_[s], o).order_index_ = Put(books_[s].order_index_, o.exchange_id, o)
      BY DEF PushBack
    <3>8. BooksOwned(own)'
      BY <1>1, <3>4, <3>6, <3>7, BooksOwnedUpdate
    <3> QED BY <1>1, <3>3, <3>8
  <2>2. CASE GwAdmin
    <3>1. PICK s \in Symbols : RegisterSymbol(s)
      BY <2>2 DEF GwAdmin, AdminNext
    <3>2. rows' = rows /\ books_' = Put(books_, s, EmptyBook)
      BY <3>1 DEF RegisterSymbol
    <3>3. \A t \in DOMAIN books_' : \/ t \in DOMAIN books_ /\ books_'[t] = books_[t]
                                    \/ DOMAIN books_'[t].order_index_ = {}
      BY <3>2 DEF Put, EmptyBook, NoEntry
    <3> QED BY <1>1, <3>2, <3>3 DEF BooksOwned
  <2>3. CASE ~RestoreOrder /\ ~GwAdmin
    <3>1. UNCHANGED << books_, rows >>
      BY <2>3 DEF GwMain, MainNext, Start, StopAcceptor, Stop, GwOver, Over, allvars, vars
    <3> QED BY <1>1, <3>1 DEF BooksOwned
  <2> QED BY <2>1, <2>2, <2>3
<1>4. EngineOwned(own)'
  BY <1>1, <1>2, <1>3 DEF MemoryOwned, EngineOwned, QueueOwned
<1>5. CallOwned(own)' /\ GatewayOwned(own)'
  BY <1>2 DEF MemoryOwned, CallOwned, GatewayOwned
<1>6. \A id : EndLogged(own, id)' <=> EndLogged(own, id)
  BY <1>2, EndsKept
<1>7. ReplacedOK(own)'
  BY <1>2, <1>6 DEF ReplacedOK
<1> QED BY <1>2, <1>4, <1>5, <1>7 DEF MemoryOwned

\* A step of the gateway or the engine, when the ids it hands out are known to be their owners'.
LEMMA GatewayOwnedStep ==
    ASSUME XInv, 0 \notin ReplaceQtys, NEW own, EndsOK(own), UNCHANGED << db, batch >>,
           [GwNext]_allvars,
           \A m, c, cl : AcceptNew(m, c, cl) => /\ order_seq_ + 1 \in DOMAIN own
                                                /\ own[order_seq_ + 1] = c
    PROVE  EndsOK(own)'
<1>1. /\ GInv /\ IInv /\ OrdersOK
      /\ MemoryOwned(own) /\ DbOwned(own) /\ ReplacedOK(own)
      /\ BatchVanishOK(own) /\ QueueVanishOK(own)
  BY DEF XInv, GInv, EndsOK
<1>2. ASSUME pqueue' = pqueue, MemoryOwned(own)', ReplacedOK(own)' PROVE EndsOK(own)'
  BY <1>1, <1>2, EndsKept DEF EndsOK
<1>3. CASE GwCallback
  BY <1>3, CallbackOwned
<1>4. CASE UNCHANGED gwvars /\ (RunOrder \/ RunCancel \/ RunReplace \/ RunSnapshot \/ MatchFill
                                  \/ MatchEnd \/ Exit)
  <2>1. pqueue' = pqueue
    BY <1>4 DEF gwvars
  <2>2. \A id : EndLogged(own, id)' <=> EndLogged(own, id)
    BY <2>1, EndsKept
  <2> QED BY <1>1, <1>2, <1>4, <2>1, <2>2, EngineOwnedStep
<1>5. CASE GwFix
  <2>1. pqueue' = pqueue /\ UNCHANGED << call, cur, pc >>
    BY <1>1, <1>5, HandlerOrders, FixLeavesEngine
  <2>2. \A id : EndLogged(own, id)' <=> EndLogged(own, id)
    BY <2>1, EndsKept
  <2>3. ReplacedOK(own)'
    BY <1>1, <2>1, <2>2 DEF ReplacedOK
  <2>4. MemoryOwned(own)'
    BY <1>1, <1>5, HandlerOwned
  <2> QED BY <1>2, <2>1, <2>3, <2>4
<1>6. CASE GwMain \/ GwAdmin \/ GwOver \/ UNCHANGED allvars
  BY <1>1, <1>2, <1>6, AsideOwned
<1> QED BY <1>3, <1>4, <1>5, <1>6 DEF GwNext, GwEngine, GwCallback

\* A database the transaction of the batch goes through, after its first k events: its rows are
\* their owners', the ends so far are on record, and so is that of an order whose row has gone.
Midway(own, d, k) ==
    /\ Sound(d)
    /\ \A r \in Table(d) : OwnedBy(own, r)
    /\ \A id : InHistory(own, id) \/ EndIn(batch, k, id) => OnRecord(own, d, id)
    /\ \A r \in Table(db) : \/ \E x \in Table(d) : x.exchange_id = r.exchange_id
                            \/ OnRecord(own, d, r.exchange_id)

LEMMA MidwayStep ==
    ASSUME XInv, NEW own, LogOwned(own, batch), BatchVanishOK(own), NEW k \in 1 .. Len(batch), NEW d,
           Midway(own, d, k - 1)
    PROVE  Midway(own, ApplyEvent(d, batch[k]), k)
<1>1. PICK e, f : e = batch[k] /\ f = ApplyEvent(d, e)
  OBVIOUS
<1>2. k \in Nat /\ k - 1 \in Nat /\ k \in DOMAIN batch
  BY LenProperties DEF XInv, LogOK
<1>3. e \in Report /\ (e.type = "RESTED" => e.order.price \in Prices) /\ EventOwned(own, e)
  BY <1>1, <1>2 DEF XInv, LogOK, ReportOK, LogOwned
<1>4. Sound(d) /\ Table(d) \subseteq Row
  BY DEF Midway, Sound, Table, Database, ToSet
<1>5. /\ Sound(f) /\ Table(f) = TableAfter(Table(d), e)
      /\ \A c : LoadHistoricalFills(f, c) = LoadHistoricalFills(d, c) \cup EndsIn(e, c)
  BY <1>1, <1>3, <1>4, EventDone
<1>6. \A id : id \in DOMAIN own /\ id \in EndsIn(e, own[id]) => OnRecord(own, f, id)
  BY <1>5 DEF OnRecord
<1>7. \A id : OnRecord(own, d, id) => OnRecord(own, f, id)
  BY <1>5 DEF OnRecord
<1>8. \A r \in Table(f) : OwnedBy(own, r)
  <2> SUFFICES ASSUME NEW r \in Table(f) PROVE OwnedBy(own, r)
    OBVIOUS
  <2>1. \/ r \in Table(d)
        \/ e.type = "RESTED" /\ r = RowFor(e.order, e.leaves_qty)
        \/ \E x \in Table(d) : r.exchange_id = x.exchange_id /\ r.client_id = x.client_id
    BY <1>3, <1>4, <1>5, RowsAfter
  <2> QED BY <1>3, <2>1 DEF Midway, OwnedBy, EventOwned, RowFor
<1>9. \A id : Ends(e, id) \/ (e.type = "CANCEL" /\ e.order.exchange_id = id) => OnRecord(own, f, id)
  BY <1>3, <1>6 DEF Ends, EventOwned, OwnedBy, EndsIn
<1>10. \A id : InHistory(own, id) \/ EndIn(batch, k, id) => OnRecord(own, f, id)
  <2> SUFFICES ASSUME NEW id, EndIn(batch, k, id) PROVE OnRecord(own, f, id)
    BY <1>7 DEF Midway
  <2>1. PICK j \in DOMAIN batch : j <= k /\ Ends(batch[j], id)
    BY DEF EndIn
  <2>2. CASE j = k
    BY <1>1, <1>9, <2>1, <2>2
  <2>3. CASE j # k
    <3>1. j \in Nat
      BY LenProperties DEF XInv, LogOK
    <3>2. j <= k - 1
      BY <1>2, <2>1, <2>3, <3>1
    <3> QED BY <1>7, <2>1, <3>2 DEF EndIn, Midway
  <2> QED BY <2>2, <2>3
<1>11. \A r \in Table(db) : \/ \E x \in Table(f) : x.exchange_id = r.exchange_id
                            \/ OnRecord(own, f, r.exchange_id)
  <2> SUFFICES ASSUME NEW x \in Table(d)
               PROVE  \/ \E y \in Table(f) : y.exchange_id = x.exchange_id
                      \/ OnRecord(own, f, x.exchange_id)
    BY <1>7 DEF Midway
  <2>1. /\ e.type \in {"TAKER_FILL", "SYMBOL"} \/ x.exchange_id # Subject(e) => x \in Table(f)
        /\ e.type = "FILL" /\ e.fill.leaves_qty > 0 /\ x.exchange_id = e.fill.exchange_id
               => \E y \in Table(f) : y.exchange_id = x.exchange_id
        /\ e.type = "REPLACE" /\ e.leaves_qty > 0 /\ x.exchange_id = e.req.orig_order_id
               => \E y \in Table(f) : y.exchange_id = x.exchange_id
    BY <1>3, <1>4, <1>5, RowStays
  <2>2. CASE e.type = "FILL"
    <3>1. e.fill.leaves_qty \in Int
      BY <1>3, <2>2, ReportFields DEF Fill
    <3>2. e.fill.leaves_qty > 0 \/ Ends(e, e.fill.exchange_id)
      BY <1>3, <2>2, <3>1 DEF EventOwned, Ends
    <3> QED BY <1>9, <2>1, <2>2, <3>2 DEF Subject
  <2>3. CASE e.type = "REPLACE"
    <3>1. e.leaves_qty \in Int
      BY <1>3, <2>3, ReportFields
    <3>2. e.leaves_qty > 0 \/ Vanishes(e)
      BY <1>3, <2>3, <3>1 DEF EventOwned, Vanishes
    <3>3. Vanishes(e) => OnRecord(own, f, e.req.orig_order_id)
      BY <1>1, <1>2, <1>10 DEF BatchVanishOK
    <3> QED BY <2>1, <2>3, <3>2, <3>3 DEF Subject
  <2>4. CASE e.type = "CANCEL"
    BY <1>9, <2>1, <2>4 DEF Subject
  <2>5. CASE e.type = "RESTED"
    <3>1. RowFor(e.order, e.leaves_qty) \in Table(f)
      BY <1>5, <2>5 DEF TableAfter
    <3>2. RowFor(e.order, e.leaves_qty).exchange_id = e.order.exchange_id
      BY DEF RowFor
    <3> QED BY <2>1, <2>5, <3>1, <3>2 DEF Subject
  <2> QED BY <1>3, <2>1, <2>2, <2>3, <2>4, <2>5, ReportFields
<1> QED BY <1>1, <1>5, <1>8, <1>10, <1>11 DEF Midway

\* The whole batch.
LEMMA BatchCommitted ==
    ASSUME XInv, NEW own, DbOwned(own), BatchVanishOK(own)
    PROVE  Midway(own, ApplyBatch(db, batch), Len(batch))
<1>1. PICK n \in Nat : n = Len(batch)
  BY LenProperties DEF XInv, LogOK
<1>2. PICK h : Through(h, db, batch)
  BY BatchHistory DEF XInv, LogOK
<1>3. /\ h[0] = db /\ ApplyBatch(db, batch) = h[n]
      /\ \A k \in 1 .. n : h[k] = ApplyEvent(h[k - 1], batch[k])
  BY <1>1, <1>2 DEF Through
<1> DEFINE T == {k \in 0 .. n : ~Midway(own, h[k], k)}
<1> SUFFICES ASSUME T # {} PROVE FALSE
  BY <1>1, <1>3
<1>4. PICK k \in T : \A j \in T : ~(j < k)
  <2>1. T \subseteq Nat
    OBVIOUS
  <2> QED BY <2>1, NatMinimum
<1>5. k \in 0 .. n /\ ~Midway(own, h[k], k)
  OBVIOUS
<1>6. Midway(own, db, 0)
  <2>1. \A id : ~EndIn(batch, 0, id)
    BY <1>1, LenProperties DEF EndIn, XInv, LogOK
  <2> QED BY <2>1 DEF Midway, XInv, DbOK, DbOwned, InHistory
<1>7. k # 0
  BY <1>3, <1>5, <1>6
<1>8. k \in 1 .. n /\ k - 1 \in 0 .. n /\ k - 1 < k
  BY <1>5, <1>7
<1>9. Midway(own, h[k - 1], k - 1)
  BY <1>4, <1>8
<1>10. Midway(own, ApplyEvent(h[k - 1], batch[k]), k)
  BY <1>1, <1>8, <1>9, MidwayStep DEF DbOwned
<1> QED BY <1>3, <1>5, <1>8, <1>10

\* The transaction: every end it brings is on record, and that of every order whose row it takes.
LEMMA FlushOwned ==
    ASSUME XInv, NEW own, EndsOK(own), Flush
    PROVE  /\ EndsOK(own)'
           /\ \A r \in Table(db) : \/ \E x \in Table(db') : x.exchange_id = r.exchange_id
                                   \/ InHistory(own, r.exchange_id)'
<1>1. /\ MemoryOwned(own) /\ DbOwned(own) /\ ReplacedOK(own)
      /\ BatchVanishOK(own) /\ QueueVanishOK(own)
  BY DEF EndsOK
<1>2. PICK d : d = ApplyBatch(db, batch)
  OBVIOUS
<1>3. db' = d /\ batch' = << >> /\ UNCHANGED << allvars, adm >>
  BY <1>2 DEF Flush
<1>4. Midway(own, d, Len(batch))
  BY <1>1, <1>2, BatchCommitted
<1>5. \A id : InHistory(own, id)' <=> OnRecord(own, d, id)
  BY <1>3 DEF InHistory, OnRecord
<1>6. \A id : InHistory(own, id) \/ EndIn(batch, Len(batch), id) => InHistory(own, id)'
  BY <1>4, <1>5 DEF Midway
<1>7. UNCHANGED << books_, queue_, rows, pc, cur, call, fix, active_orders_, pqueue >>
  BY <1>3 DEF allvars, vars, gwvars
<1>8. MemoryOwned(own)'
  BY <1>1, <1>7 DEF MemoryOwned, EngineOwned, BooksOwned, QueueOwned, CallOwned, GatewayOwned
<1>9. DbOwned(own)'
  <2>1. \A r \in Table(d) : OwnedBy(own, r)
    BY <1>4 DEF Midway
  <2>2. DOMAIN << >> = {}
    OBVIOUS
  <2> QED BY <1>1, <1>3, <1>7, <2>1, <2>2 DEF DbOwned, LogOwned
<1>10. \A id : EndLogged(own, id) => EndLogged(own, id)'
  BY <1>6, <1>7 DEF EndLogged
<1>11. ReplacedOK(own)'
  BY <1>1, <1>7, <1>10 DEF ReplacedOK
<1>12. BatchVanishOK(own)' /\ QueueVanishOK(own)'
  BY <1>1, <1>3, <1>6, <1>7 DEF BatchVanishOK, QueueVanishOK
<1>13. \A r \in Table(db) : \/ \E x \in Table(db') : x.exchange_id = r.exchange_id
                            \/ InHistory(own, r.exchange_id)'
  BY <1>3, <1>4, <1>5 DEF Midway
<1> QED BY <1>8, <1>9, <1>11, <1>12, <1>13 DEF EndsOK

\* The thread takes what is queued.
LEMMA TakeOwned ==
    ASSUME NEW own, EndsOK(own), TakeBatch
    PROVE  EndsOK(own)'
<1>1. /\ MemoryOwned(own) /\ DbOwned(own) /\ ReplacedOK(own) /\ QueueVanishOK(own)
  BY DEF EndsOK
<1>2. /\ batch = << >> /\ batch' = pqueue /\ pqueue' = << >> /\ db' = db
      /\ UNCHANGED << books_, queue_, rows, pc, cur, call, fix, active_orders_ >>
  BY DEF TakeBatch, vars, maps
<1>3. DOMAIN << >> = {} /\ \A n, id : ~EndIn(<< >>, n, id)
  BY DEF EndIn
<1>4. \A id : InHistory(own, id)' <=> InHistory(own, id)
  BY <1>2 DEF InHistory, OnRecord
<1>5. MemoryOwned(own)'
  BY <1>1, <1>2 DEF MemoryOwned, EngineOwned, BooksOwned, QueueOwned, CallOwned, GatewayOwned
<1>6. DbOwned(own)'
  BY <1>1, <1>2, <1>3 DEF DbOwned, LogOwned
<1>7. \A id : EndLogged(own, id) => EndLogged(own, id)'
  BY <1>2, <1>3, <1>4 DEF EndLogged
<1>8. ReplacedOK(own)'
  BY <1>1, <1>2, <1>7 DEF ReplacedOK
<1>9. BatchVanishOK(own)'
  BY <1>1, <1>2, <1>3, <1>4 DEF BatchVanishOK, QueueVanishOK
<1>10. QueueVanishOK(own)'
  BY <1>2, <1>3 DEF QueueVanishOK
<1> QED BY <1>5, <1>6, <1>8, <1>9, <1>10 DEF EndsOK

\* A registration is recorded, which is no order's event.
LEMMA RecordOwned ==
    ASSUME XInv, SymbolsOnly, NEW own, EndsOK(own), RecordSymbol
    PROVE  EndsOK(own)'
<1>1. /\ MemoryOwned(own) /\ DbOwned(own) /\ ReplacedOK(own)
      /\ BatchVanishOK(own) /\ QueueVanishOK(own)
  BY DEF EndsOK
<1>2. PICK e : e = Head(adm)
  OBVIOUS
<1>3. /\ Enqueue(e) /\ UNCHANGED << db, batch >>
      /\ UNCHANGED << books_, queue_, rows, pc, cur, call, fix, active_orders_ >>
  BY <1>2 DEF RecordSymbol, vars, maps
<1>4. ReportOK(e) /\ e.type = "SYMBOL"
  <2>1. adm \in Seq(Report) /\ adm # << >>
    BY DEF RecordSymbol, XInv, LogOK
  <2>2. e = adm[1] /\ 1 \in DOMAIN adm
    BY <1>2, <2>1, HeadTailProperties, LenProperties
  <2> QED BY <2>2 DEF SymbolsOnly, XInv, LogOK
<1>5. MemoryOwned(own)'
  BY <1>1, <1>3 DEF MemoryOwned, EngineOwned, BooksOwned, QueueOwned, CallOwned, GatewayOwned
<1>6. CASE ~HasDb
  <2>1. pqueue' = pqueue
    BY <1>3, <1>6 DEF Enqueue
  <2>2. DbOwned(own)' /\ BatchVanishOK(own)' /\ QueueVanishOK(own)'
    BY <1>1, <1>3, <2>1, EndsKept
  <2>3. ReplacedOK(own)'
    BY <1>1, <1>3, <1>6 DEF ReplacedOK
  <2> QED BY <1>5, <2>2, <2>3 DEF EndsOK
<1>7. CASE HasDb
  <2>1. /\ DOMAIN pqueue' = DOMAIN pqueue \cup {Len(pqueue')} /\ pqueue'[Len(pqueue')] = e
        /\ \A k \in DOMAIN pqueue : pqueue'[k] = pqueue[k]
        /\ \A n, id : EndIn(pqueue, n, id) => EndIn(pqueue', n, id)
        /\ \A id : EndLogged(own, id) \/ Ends(e, id) => EndLogged(own, id)'
        /\ \A id : InHistory(own, id)' <=> InHistory(own, id)
    BY <1>3, <1>4, <1>7, EventPushed DEF XInv
  <2>2. EventOwned(own, e) /\ ~Vanishes(e)
    BY <1>4 DEF EventOwned, Vanishes
  <2>3. DbOwned(own)'
    BY <1>1, <1>3, <2>1, <2>2, Zenon DEF DbOwned, LogOwned
  <2>4. ReplacedOK(own)'
    BY <1>1, <1>3, <2>1, SMTT(30) DEF ReplacedOK
  <2>5. BatchVanishOK(own)' /\ QueueVanishOK(own)'
    BY <1>1, <1>3, <2>1, <2>2, Zenon DEF BatchVanishOK, QueueVanishOK
  <2> QED BY <1>5, <2>3, <2>4, <2>5 DEF EndsOK
<1> QED BY <1>6, <1>7

\* Ids are never taken back while the process runs.
LEMMA SeqGrows ==
    ASSUME GInv, [GwNext]_allvars
    PROVE  order_seq_ \in Nat /\ order_seq_' \in Nat /\ order_seq_ <= order_seq_'
<1>1. order_seq_ \in Nat
  BY DEF GInv, IInv, TypeOK
<1> SUFFICES order_seq_' \in {order_seq_, order_seq_ + 1}
  BY <1>1
<1>2. CASE GwFix
  <2>1. ASSUME NEW m, NEW c, NEW cl, AcceptNew(m, c, cl) PROVE order_seq_' = order_seq_ + 1
    BY <2>1 DEF AcceptNew
  <2>2. ASSUME NEW m, NEW c, RejectNew(m, c) PROVE order_seq_' = order_seq_ + 1
    BY <2>2 DEF RejectNew, Reject
  <2>3. ASSUME NEW c, NEW orig, NEW s, RecvCancel(c, orig, s) PROVE order_seq_' = order_seq_
    BY <2>3 DEF RecvCancel, vars
  <2>4. ASSUME NEW c, NEW orig, NEW cl, NEW s, NEW side, NEW p, NEW q,
               RecvReplace(c, orig, cl, s, side, p, q)
        PROVE  order_seq_' = order_seq_
    BY <2>4 DEF RecvReplace, vars
  <2>5. ASSUME \/ \E c \in Clients : Logon(c) \/ Logout(c) \/ RecvMarketDataRequest(c)
               \/ SendStatus \/ SubmitNew \/ PushRequest
        PROVE  order_seq_' = order_seq_
    BY <2>5 DEF Logon, Logout, SendStatus, SubmitNew, PushRequest, RecvMarketDataRequest,
                RequestSnapshot, Request, vars
  <2> QED BY <1>2, <2>1, <2>2, <2>3, <2>4, <2>5 DEF GwFix, GwOrders
<1>3. CASE GwCallback
  BY <1>3, CallbackPushes DEF vars, CallbackReturn
<1>4. CASE RunOrder \/ RunCancel \/ RunReplace \/ RunSnapshot \/ MatchFill \/ MatchEnd \/ Exit
  BY <1>4 DEF RunOrder, RunCancel, RunReplace, RunSnapshot, MatchFill, MatchEnd, Exit
<1>5. CASE GwMain \/ GwAdmin \/ GwOver \/ UNCHANGED allvars
  BY <1>5 DEF GwMain, GwAdmin, MainNext, AdminNext, RestoreOrder, Start, StopAcceptor, Stop,
              RegisterSymbol, GwOver, Over, allvars, vars
<1> QED BY <1>2, <1>3, <1>4, <1>5 DEF GwNext, GwEngine, GwCallback

\* A new order's id is its client's from the step that draws it.
LEMMA GatewayOwners ==
    ASSUME XInv, XInv', 0 \notin ReplaceQtys, NEW own \in Owners, EndsOK(own),
           UNCHANGED << db, batch >>, [GwNext]_allvars
    PROVE  \E more \in Owners' : EndsOK(more)'
<1>1. GInv /\ order_seq_ \in Nat /\ order_seq_' \in Nat /\ order_seq_ <= order_seq_'
  BY SeqGrows DEF XInv
<1>2. PICK D \in SUBSET (1 .. order_seq_) : own \in [D -> Clients]
  BY DEF Owners
<1>3. CASE ~\E m, c, cl : AcceptNew(m, c, cl)
  <2>1. D \in SUBSET (1 .. order_seq_')
    BY <1>1
  <2>2. own \in Owners'
    BY <1>2, <2>1 DEF Owners
  <2>3. EndsOK(own)'
    BY <1>3, GatewayOwnedStep
  <2> QED BY <2>2, <2>3
<1>4. CASE \E m, c, cl : AcceptNew(m, c, cl)
  <2>1. PICK c : c = fix'.order.client_id
    OBVIOUS
  <2>2. /\ order_seq_' = order_seq_ + 1 /\ fix'.at = "submit"
        /\ \A m, d, cl : AcceptNew(m, d, cl) => d = c
    <3>1. ASSUME NEW m, NEW d, NEW cl, AcceptNew(m, d, cl)
          PROVE  order_seq_' = order_seq_ + 1 /\ fix'.at = "submit" /\ d = c
      BY <2>1, <3>1 DEF AcceptNew, NewOrder
    <3> QED BY <1>4, <3>1
  <2>3. c \in Clients
    <3>1. fix'.order \in Order
      BY <2>2 DEF XInv, GInv, FixOK, SubmitOK
    <3> QED BY <2>1, <3>1 DEF Order
  <2>4. PICK x, more : x = order_seq_ + 1 /\ more = Put(own, x, c)
    OBVIOUS
  <2>5. x \notin D /\ D \cup {x} \in SUBSET (1 .. order_seq_')
    BY <1>1, <2>2, <2>4
  <2>6. more \in [D \cup {x} -> Clients] /\ more[x] = c /\ x \in DOMAIN more
        /\ DOMAIN own \subseteq DOMAIN more /\ \A id \in DOMAIN own : more[id] = own[id]
    BY <1>2, <2>3, <2>4, <2>5 DEF Put
  <2>7. EndsOK(more)
    BY <2>6, OwnersGrow
  <2>8. EndsOK(more)'
    <3>1. \A m, d, cl : AcceptNew(m, d, cl) => /\ order_seq_ + 1 \in DOMAIN more
                                               /\ more[order_seq_ + 1] = d
      BY <2>2, <2>4, <2>6
    <3> QED BY <2>7, <3>1, GatewayOwnedStep
  <2>9. more \in Owners'
    BY <2>5, <2>6 DEF Owners
  <2> QED BY <2>8, <2>9
<1> QED BY <1>3, <1>4

\* The owners of the orders the table holds.
LEMMA RowOwners ==
    ASSUME NEW rs \in Seq(Order), NEW n, \A i \in DOMAIN rs : rs[i].exchange_id \in 1 .. n,
           \A i, j \in DOMAIN rs : i # j => rs[i].exchange_id # rs[j].exchange_id
    PROVE  \E own \in UNION {[D -> Clients] : D \in SUBSET (1 .. n)} :
               /\ \A i \in DOMAIN rs : OwnedBy(own, rs[i])
               /\ \A id \in DOMAIN RestoredOrders(rs) : OwnedBy(own, RestoredOrders(rs)[id])
<1>1. PICK f : f = RestoredOrders(rs)
  OBVIOUS
<1>2. \A id \in DOMAIN f : f[id] \in Order /\ f[id].exchange_id = id
  BY <1>1, RestoredMaps
<1>3. DOMAIN f = {rs[i].exchange_id : i \in DOMAIN rs}
  BY <1>1 DEF RestoredOrders
<1>4. \A i \in DOMAIN rs : f[rs[i].exchange_id] = rs[i]
  <2> SUFFICES ASSUME NEW i \in DOMAIN rs PROVE f[rs[i].exchange_id] = rs[i]
    OBVIOUS
  <2>1. PICK j : j = CHOOSE k \in DOMAIN rs : rs[k].exchange_id = rs[i].exchange_id
    OBVIOUS
  <2>2. j \in DOMAIN rs /\ rs[j].exchange_id = rs[i].exchange_id
    BY <2>1
  <2>3. f[rs[i].exchange_id] = rs[j]
    BY <1>1, <2>1 DEF RestoredOrders
  <2> QED BY <2>2, <2>3
<1>5. PICK own : own = [id \in DOMAIN f |-> f[id].client_id]
  OBVIOUS
<1>6. own \in [DOMAIN f -> Clients]
  BY <1>2, <1>5 DEF Order
<1>7. DOMAIN f \in SUBSET (1 .. n)
  BY <1>3
<1>8. \A id \in DOMAIN f : OwnedBy(own, f[id])
  BY <1>2, <1>5 DEF OwnedBy
<1>9. \A i \in DOMAIN rs : OwnedBy(own, rs[i])
  BY <1>3, <1>4, <1>8
<1> QED BY <1>1, <1>6, <1>7, <1>8, <1>9

\* Nothing is in memory but the rows read from the table, and what the gateway makes of them.
Restarted(own) ==
    /\ \A s \in DOMAIN books_ : DOMAIN books_[s].order_index_ = {}
    /\ queue_ = << >> /\ pc = "created" /\ call.fn = "none" /\ fix.at = "idle"
    /\ batch = << >> /\ pqueue = << >>
    /\ \A i \in DOMAIN rows : OwnedBy(own, rows[i])
    /\ \A id \in DOMAIN active_orders_ : OwnedBy(own, active_orders_[id])
    /\ \A r \in Table(db) : OwnedBy(own, r)

LEMMA RestartOwned ==
    ASSUME NEW own
    PROVE  (Restarted(own) => EndsOK(own)) /\ (Restarted(own)' => EndsOK(own)')
<1>1. DOMAIN << >> = {}
  OBVIOUS
<1>2. ASSUME Restarted(own) PROVE EndsOK(own)
  <2>1. MemoryOwned(own)
    BY <1>1, <1>2 DEF Restarted, MemoryOwned, EngineOwned, BooksOwned, QueueOwned, CallOwned,
                      GatewayOwned
  <2>2. DbOwned(own) /\ BatchVanishOK(own) /\ QueueVanishOK(own)
    BY <1>1, <1>2 DEF Restarted, DbOwned, LogOwned, BatchVanishOK, QueueVanishOK
  <2>3. ReplacedOK(own)
    BY <1>2 DEF Restarted, ReplacedOK
  <2> QED BY <2>1, <2>2, <2>3 DEF EndsOK
<1>3. ASSUME Restarted(own)' PROVE EndsOK(own)'
  <2>1. MemoryOwned(own)'
    BY <1>1, <1>3 DEF Restarted, MemoryOwned, EngineOwned, BooksOwned, QueueOwned, CallOwned,
                      GatewayOwned
  <2>2. DbOwned(own)' /\ BatchVanishOK(own)' /\ QueueVanishOK(own)'
    BY <1>1, <1>3 DEF Restarted, DbOwned, LogOwned, BatchVanishOK, QueueVanishOK
  <2>3. ReplacedOK(own)'
    BY <1>3 DEF Restarted, ReplacedOK
  <2> QED BY <2>1, <2>2, <2>3 DEF EndsOK
<1> QED BY <1>2, <1>3

\* A restart: the rows say whose the orders are.
LEMMA CrashOwned ==
    ASSUME XInv, Crash
    PROVE  \E own \in Owners' : EndsOK(own)'
<1>1. GInv /\ DbOK
  BY DEF XInv
<1>2. PICK rs : rs = LoadRestingOrders(db)
  OBVIOUS
<1>3. PICK n : n = LoadMaxOrderSeq(db)
  OBVIOUS
<1>4. /\ rows' = rs /\ order_seq_' = n
      /\ books_' = [s \in InitSymbols \cup db.symbols |-> EmptyBook]
      /\ queue_' = << >> /\ pc' = "created" /\ call' = NoCall /\ fix' = Idle
      /\ active_orders_' = RestoredOrders(rs) /\ pqueue' = << >> /\ batch' = << >> /\ db' = db
  BY <1>2, <1>3 DEF Crash
<1>5. /\ rs \in Seq(Order) /\ DOMAIN rs = DOMAIN db.resting_orders
      /\ \A i \in DOMAIN rs : /\ db.resting_orders[i] \in Table(db)
                              /\ rs[i].exchange_id = db.resting_orders[i].exchange_id
                              /\ rs[i].client_id = db.resting_orders[i].client_id
      /\ \A i, j \in DOMAIN rs : i # j => rs[i].exchange_id # rs[j].exchange_id
  BY <1>1, <1>2, LoadedRows
<1>6. n \in Nat /\ \A r \in Table(db) : r.exchange_id \in 1 .. n
  BY <1>1, <1>3, SubmittedNat, NextOrderSeq
<1>7. \A i \in DOMAIN rs : rs[i].exchange_id \in 1 .. n
  BY <1>5, <1>6
<1>8. PICK own \in UNION {[D -> Clients] : D \in SUBSET (1 .. n)} :
          /\ \A i \in DOMAIN rs : OwnedBy(own, rs[i])
          /\ \A id \in DOMAIN RestoredOrders(rs) : OwnedBy(own, RestoredOrders(rs)[id])
  BY <1>5, <1>7, RowOwners
<1>9. own \in Owners'
  BY <1>4, <1>8 DEF Owners
<1>10. \A r \in Table(db) : OwnedBy(own, r)
  <2> SUFFICES ASSUME NEW i \in DOMAIN db.resting_orders
               PROVE  OwnedBy(own, db.resting_orders[i])
    BY DEF Table, ToSet
  <2> QED BY <1>5, <1>8 DEF OwnedBy
<1>11. \A s \in DOMAIN books_' : DOMAIN books_'[s].order_index_ = {}
  BY <1>4 DEF EmptyBook, NoEntry
<1>12. Restarted(own)'
  BY <1>4, <1>8, <1>10, <1>11 DEF Restarted, NoCall, Idle
<1> QED BY <1>9, <1>12, RestartOwned

\* So do those the process starts with.
LEMMA EndsInit ==
    ASSUME XInit
    PROVE  EInv
<1>1. XInv /\ GwInit /\ Init /\ db = EmptyDb /\ adm = << >> /\ batch = << >>
  BY XInitOK DEF XInit, GwInit
<1>2. /\ rows \in RestingRows /\ active_orders_ = RestoredOrders(rows) /\ pqueue = << >>
      /\ books_ = [s \in InitSymbols |-> EmptyBook]
      /\ queue_ = << >> /\ pc = "created" /\ call = NoCall /\ fix = Idle
  BY <1>1 DEF GwInit, Init
<1>3. order_seq_ \in Nat /\ LiveIds \subseteq 0 .. order_seq_ /\ RowsOK
  BY <1>1 DEF XInv, GInv, IInv, TypeOK, Fresh
<1>4. /\ rows \in Seq(Order)
      /\ \A i, j \in DOMAIN rows : i # j => rows[i].exchange_id # rows[j].exchange_id
  BY <1>2, <1>3, RowsAssumption DEF RowsOK
<1>5. \A i \in DOMAIN rows : rows[i].exchange_id \in 1 .. order_seq_
  <2> SUFFICES ASSUME NEW i \in DOMAIN rows PROVE rows[i].exchange_id \in 1 .. order_seq_
    OBVIOUS
  <2>1. rows[i].exchange_id > 0
    BY <1>2, RowsAssumption
  <2>2. rows[i].exchange_id \in 0 .. order_seq_
    BY <1>3 DEF LiveIds, UnrestoredIds
  <2> QED BY <1>3, <2>1, <2>2
<1>6. PICK own \in UNION {[D -> Clients] : D \in SUBSET (1 .. order_seq_)} :
          /\ \A i \in DOMAIN rows : OwnedBy(own, rows[i])
          /\ \A id \in DOMAIN RestoredOrders(rows) : OwnedBy(own, RestoredOrders(rows)[id])
  BY <1>4, <1>5, RowOwners
<1>7. own \in Owners
  BY <1>6 DEF Owners
<1>8. DOMAIN << >> = {}
  OBVIOUS
<1>9. Table(db) = {}
  BY <1>1, <1>8 DEF EmptyDb, Table, ToSet
<1>10. \A s \in DOMAIN books_ : DOMAIN books_[s].order_index_ = {}
  BY <1>2 DEF EmptyBook, NoEntry
<1>11. Restarted(own)
  BY <1>1, <1>2, <1>6, <1>9, <1>10 DEF Restarted, NoCall, Idle
<1>12. SymbolsOnly
  BY <1>1, <1>8 DEF SymbolsOnly
<1> QED BY <1>7, <1>11, <1>12, RestartOwned DEF EInv

LEMMA EndsStep ==
    ASSUME XInv, XInv', 0 \notin ReplaceQtys, EInv, [XNext]_xvars
    PROVE  EInv'
<1>1. PICK own \in Owners : EndsOK(own)
  BY DEF EInv
<1>2. SymbolsOnly /\ SymbolsOnly'
  BY SymbolsStep DEF EInv
<1> SUFFICES \E more \in Owners' : EndsOK(more)'
  BY <1>2 DEF EInv
<1>3. ASSUME order_seq_' = order_seq_, EndsOK(own)' PROVE \E more \in Owners' : EndsOK(more)'
  BY <1>1, <1>3 DEF Owners
<1>4. CASE XMain \/ XFix \/ XEngine \/ XOver \/ UNCHANGED xvars
  <2>1. [GwNext]_allvars /\ UNCHANGED << db, batch >>
    BY <1>4 DEF XMain, XFix, XEngine, XOver, xvars, pvars, GwNext
  <2> QED BY <1>1, <2>1, GatewayOwners
<1>5. ASSUME NEW s \in Symbols, Register(s) PROVE \E more \in Owners' : EndsOK(more)'
  <2>1. GwAdmin /\ UNCHANGED << db, batch >>
    BY <1>5 DEF Register, GwAdmin, AdminNext
  <2>2. [GwNext]_allvars
    BY <2>1 DEF GwNext
  <2> QED BY <1>1, <2>1, <2>2, GatewayOwners
<1>6. CASE RecordSymbol
  <2>1. order_seq_' = order_seq_
    BY <1>6 DEF RecordSymbol, vars
  <2> QED BY <1>1, <1>2, <1>3, <1>6, <2>1, RecordOwned
<1>7. CASE TakeBatch
  <2>1. order_seq_' = order_seq_
    BY <1>7 DEF TakeBatch, vars
  <2> QED BY <1>1, <1>3, <1>7, <2>1, TakeOwned
<1>8. CASE Flush
  <2>1. order_seq_' = order_seq_
    BY <1>8 DEF Flush, allvars, vars
  <2> QED BY <1>1, <1>3, <1>8, <2>1, FlushOwned
<1>9. CASE PersistExit
  <2>1. [GwNext]_allvars /\ UNCHANGED << db, batch >>
    BY <1>9 DEF PersistExit
  <2> QED BY <1>1, <2>1, GatewayOwners
<1>10. CASE Crash
  BY <1>10, CrashOwned
<1> QED BY <1>4, <1>5, <1>6, <1>7, <1>8, <1>9, <1>10 DEF XNext, XAdmin, XPersist

\* The row of an order is given up: its end is on record, under its owner.
LEMMA EndsRecorded ==
    ASSUME XInv, EInv, [XNext]_xvars,
           NEW id \in RowIds(db) \ RowIds(db')
    PROVE  id \in LoadHistoricalFills(db', RowOf(db, id).client_id)
<1>1. PICK own \in Owners : EndsOK(own)
  BY DEF EInv
<1>2. Flush
  <2>1. db' # db
    OBVIOUS
  <2> QED BY <2>1 DEF XNext, XMain, XAdmin, Register, RecordSymbol, XFix, XEngine, XPersist, TakeBatch,
                      PersistExit, XOver, Crash, xvars, pvars
<1>3. PICK r : r = RowOf(db, id)
  OBVIOUS
<1>4. r \in Table(db) /\ r.exchange_id = id
  <2>1. \E i \in DOMAIN db.resting_orders : db.resting_orders[i].exchange_id = id
    BY DEF RowIds
  <2>2. PICK j : j = CHOOSE i \in DOMAIN db.resting_orders : db.resting_orders[i].exchange_id = id
    OBVIOUS
  <2>3. j \in DOMAIN db.resting_orders /\ db.resting_orders[j].exchange_id = id
    BY <2>1, <2>2
  <2>4. r = db.resting_orders[j]
    BY <1>3, <2>2 DEF RowOf
  <2> QED BY <2>3, <2>4 DEF Table, ToSet
<1>5. OwnedBy(own, r)
  BY <1>1, <1>4 DEF EndsOK, DbOwned
<1>6. ~ \E x \in Table(db') : x.exchange_id = id
  BY DEF Table, ToSet, RowIds
<1>7. InHistory(own, id)'
  BY <1>1, <1>2, <1>4, <1>6, FlushOwned
<1>8. id \in LoadHistoricalFills(db', own[id])
  BY <1>7 DEF InHistory, OnRecord
<1> QED BY <1>3, <1>4, <1>5, <1>8 DEF OwnedBy

\* A row is given up only in the transaction that records the end of its order under its
\* owner, whatever the batches, and whatever was lost when the process died: after any
\* restart the logon shows an order as open or replays its end.  Replaces that ask for
\* nothing are left out: one that keeps its place deletes the row and leaves no end.
THEOREM ExchangeEndsOnRecord ==
    ASSUME 0 \notin ReplaceQtys
    PROVE  XSpec => RowsEndInHistory
<1>1. XInit => EInv
  BY EndsInit
<1>2. XInv /\ XInv' /\ EInv /\ [XNext]_xvars => EInv'
  BY EndsStep
<1>3. XInv /\ EInv /\ [XNext]_xvars
          => [\A id \in RowIds(db) \ RowIds(db') :
                 id \in LoadHistoricalFills(db', RowOf(db, id).client_id)]_xvars
  BY EndsRecorded
<1> QED BY <1>1, <1>2, <1>3, ExchangeInvariant, PTL DEF XSpec, RowsEndInHistory
=============================================================================
