--------------------------- MODULE UiServerProofs ---------------------------
(***************************************************************************)
(* The web UI's server and page, for any number of orders, connections and *)
(* packets: the page's book follows the server's, and its blotter the      *)
(* exchange's orders.                                                      *)
(*                                                                         *)
(* The snapshot holds packets whose broadcast comes after it.  That does   *)
(* no harm, because a sequence of packets, applied to what it led to,      *)
(* leads there again.  A report can reach the page twice as well, by the   *)
(* replay of the log and by its broadcast; what counts there is that both  *)
(* queues end with the same verdict on an order.                           *)
(***************************************************************************)
EXTENDS UiServer, SequenceTheorems, FiniteSetTheorems, WellFoundedInduction, TLAPS

Books == UNION {[D -> Nat] : D \in SUBSET Orders}
Reports == [msg : {"8"}, type : {"I", "0", "1", "2", "4", "8"}, order : Orders]
Packets == [evt : {"NewOrder", "Cancel", "FillResting"}, order : Orders, qty : Nat]
Tasks == Reports \cup [msg : {"md"}, pkt : Packets]

---------------------------------------------------------------------------
(* Books                                                                   *)

\* The two books have the same of order o.
Alike(a, b, o) ==
    /\ o \in DOMAIN a <=> o \in DOMAIN b
    /\ o \in DOMAIN a => a[o] = b[o]

\* What _safe_send does to the page's book.
AfterTask(book, t) == IF t.msg = "8" THEN book ELSE ApplyMd(book, t.pkt)

LEMMA BookFields ==
    ASSUME NEW b \in Books
    PROVE  DOMAIN b \subseteq Orders /\ b = [o \in DOMAIN b |-> b[o]]
           /\ \A o \in DOMAIN b : b[o] \in Nat
  BY DEF Books

LEMMA IsBook ==
    ASSUME NEW D, D \subseteq Orders, NEW b, b = [o \in D |-> b[o]], \A o \in D : b[o] \in Nat
    PROVE  b \in Books
<1>1. b \in [D -> Nat]
  OBVIOUS
<1> QED BY <1>1 DEF Books

LEMMA SameBook ==
    ASSUME NEW a \in Books, NEW b \in Books, \A o \in Orders : Alike(a, b, o)
    PROVE  a = b
<1>1. DOMAIN a = DOMAIN b /\ \A o \in DOMAIN a : a[o] = b[o]
  BY BookFields DEF Alike
<1>2. a = [o \in DOMAIN a |-> a[o]] /\ b = [o \in DOMAIN b |-> b[o]]
  BY BookFields
<1> QED BY <1>1, <1>2

\* A packet changes one order: it sets or removes it whatever it was, or it changes the
\* quantity of an order that is in the book.
LEMMA PacketEffect ==
    ASSUME NEW b \in Books, NEW p \in Packets
    PROVE  /\ ApplyMd(b, p) \in Books
           /\ \A o : o # p.order => Alike(ApplyMd(b, p), b, o)
           /\ p.evt = "NewOrder" =>
                  p.order \in DOMAIN ApplyMd(b, p) /\ ApplyMd(b, p)[p.order] = p.qty
           /\ p.evt # "NewOrder" /\ p.qty = 0 => p.order \notin DOMAIN ApplyMd(b, p)
           /\ p.evt # "NewOrder" /\ p.qty # 0 =>
                  /\ p.order \in DOMAIN ApplyMd(b, p) <=> p.order \in DOMAIN b
                  /\ p.order \in DOMAIN b => ApplyMd(b, p)[p.order] = p.qty
<1>1. p.order \in Orders /\ p.qty \in Nat
  BY DEF Packets
<1>2. DOMAIN b \subseteq Orders /\ \A o \in DOMAIN b : b[o] \in Nat
  BY BookFields
<1>3. CASE p.evt = "NewOrder"
  <2> DEFINE c == [o \in DOMAIN b \cup {p.order} |-> IF o = p.order THEN p.qty ELSE b[o]]
  <2>1. ApplyMd(b, p) = c
    BY <1>3 DEF ApplyMd
  <2>2. c \in Books
    BY <1>1, <1>2, IsBook
  <2> QED BY <1>3, <2>1, <2>2 DEF Alike
<1>4. CASE p.evt # "NewOrder" /\ p.order \notin DOMAIN b
  <2>1. ApplyMd(b, p) = b
    BY <1>4 DEF ApplyMd
  <2> QED BY <1>4, <2>1 DEF Alike
<1>5. CASE p.evt # "NewOrder" /\ p.order \in DOMAIN b /\ p.qty = 0
  <2> DEFINE c == [o \in DOMAIN b \ {p.order} |-> b[o]]
  <2>1. ApplyMd(b, p) = c
    BY <1>5 DEF ApplyMd, Restrict
  <2>2. c \in Books
    BY <1>1, <1>2, IsBook
  <2> QED BY <1>5, <2>1, <2>2 DEF Alike
<1>6. CASE p.evt # "NewOrder" /\ p.order \in DOMAIN b /\ p.qty # 0
  <2> DEFINE c == [b EXCEPT ![p.order] = p.qty]
  <2>1. ApplyMd(b, p) = c
    BY <1>6 DEF ApplyMd
  <2>2. DOMAIN c = DOMAIN b /\ \A o \in DOMAIN b : c[o] = IF o = p.order THEN p.qty ELSE b[o]
    BY <1>6, BookFields
  <2>3. c \in Books
    BY <1>1, <1>2, <2>2, IsBook
  <2> QED BY <1>6, <2>1, <2>2, <2>3 DEF Alike
<1> QED BY <1>3, <1>4, <1>5, <1>6

---------------------------------------------------------------------------
(* Sequences of broadcasts                                                 *)

\* The books on the way through the first n tasks of ts.
Chain(h, b, ts, n) ==
    /\ h \in [0 .. n -> Books]
    /\ h[0] = b
    /\ \A i \in 1 .. n : h[i] = AfterTask(h[i - 1], ts[i])

Leads(b, ts, c) == \E h : Chain(h, b, ts, Len(ts)) /\ h[Len(ts)] = c

\* A non-empty set of naturals has a least element.
LEMMA LeastNatural ==
    ASSUME NEW T, T \subseteq Nat, T # {}
    PROVE  \E x \in T : \A y \in T : ~(y < x)
<1> DEFINE R == OpToRel(<, Nat)
<1>1. IsWellFoundedOn(R, Nat)
  BY NatLessThanWellFounded
<1>2. \A y, x \in Nat : y < x => << y, x >> \in R
  BY DEF OpToRel
<1> HIDE DEF R
<1>3. \E x \in T : \A y \in T : ~(<< y, x >> \in R)
  BY <1>1, WFMin
<1> QED BY <1>2, <1>3

LEMMA AfterTaskIsBook ==
    ASSUME NEW b \in Books, NEW t \in Tasks
    PROVE  AfterTask(b, t) \in Books
<1>1. t.msg = "8" \/ t.pkt \in Packets
  BY DEF Tasks, Reports
<1> QED BY <1>1, PacketEffect DEF AfterTask

\* Every book can be taken through any tasks.
LEMMA ChainExists ==
    ASSUME NEW b \in Books, NEW ts \in Seq(Tasks)
    PROVE  \E h : Chain(h, b, ts, Len(ts))
<1>1. Len(ts) \in Nat /\ \A i \in 1 .. Len(ts) : ts[i] \in Tasks
  BY LenProperties, ElementOfSeq
<1> DEFINE Stuck == {n \in 0 .. Len(ts) : ~\E h : Chain(h, b, ts, n)}
<1>2. SUFFICES ASSUME Stuck # {} PROVE FALSE
  BY <1>1
<1>3. PICK n \in Stuck : \A m \in Stuck : ~(m < n)
  <2>1. Stuck \subseteq Nat
    BY <1>1
  <2> HIDE DEF Stuck
  <2> QED BY <1>2, <2>1, LeastNatural
<1>4. n \in 0 .. Len(ts) /\ ~\E h : Chain(h, b, ts, n)
  OBVIOUS
<1>5. n # 0
  <2> DEFINE h == [i \in 0 .. 0 |-> b]
  <2>1. Chain(h, b, ts, 0)
    BY DEF Chain
  <2> QED BY <1>4, <2>1
<1>6. n - 1 \in 0 .. Len(ts) /\ n - 1 < n /\ n \in 1 .. Len(ts)
  BY <1>1, <1>4, <1>5
<1>7. PICK h : Chain(h, b, ts, n - 1)
  BY <1>3, <1>6
<1> HIDE DEF Stuck
<1> DEFINE g == [i \in 0 .. n |-> IF i = n THEN AfterTask(h[n - 1], ts[n]) ELSE h[i]]
<1>8. h \in [0 .. n - 1 -> Books] /\ h[0] = b
      /\ \A i \in 1 .. n - 1 : h[i] = AfterTask(h[i - 1], ts[i])
  BY <1>7 DEF Chain
<1>9. AfterTask(h[n - 1], ts[n]) \in Books
  BY <1>1, <1>6, <1>8, AfterTaskIsBook
<1>10. Chain(g, b, ts, n)
  <2>1. g \in [0 .. n -> Books] /\ g[0] = b
    BY <1>1, <1>6, <1>8, <1>9
  <2>2. ASSUME NEW i \in 1 .. n PROVE g[i] = AfterTask(g[i - 1], ts[i])
    <3>1. i - 1 \in 0 .. n /\ i - 1 # n /\ i \in 0 .. n /\ g[i - 1] = h[i - 1]
      BY <1>6
    <3>2. CASE i = n
      BY <3>1, <3>2
    <3>3. CASE i # n
      BY <1>6, <1>8, <3>1, <3>3
    <3> QED BY <3>2, <3>3
  <2> HIDE DEF g
  <2> QED BY <2>1, <2>2 DEF Chain
<1> QED BY <1>4, <1>10

\* Tasks applied to what they led to lead there again.
LEMMA RepeatLeadsThere ==
    ASSUME NEW b \in Books, NEW s \in Books, NEW ts \in Seq(Tasks), Leads(b, ts, s)
    PROVE  Leads(s, ts, s)
<1>1. PICK n : n = Len(ts) /\ n \in Nat /\ \A i \in 1 .. n : ts[i] \in Tasks
  BY LenProperties, ElementOfSeq
<1>2. PICK h : Chain(h, b, ts, n) /\ h[n] = s
  BY <1>1 DEF Leads
<1>3. PICK g : Chain(g, s, ts, n)
  BY <1>1, ChainExists
<1>4. /\ h \in [0 .. n -> Books] /\ g \in [0 .. n -> Books] /\ g[0] = s
      /\ \A i \in 1 .. n : h[i] = AfterTask(h[i - 1], ts[i])
      /\ \A i \in 1 .. n : g[i] = AfterTask(g[i - 1], ts[i])
  BY <1>2, <1>3 DEF Chain
<1> DEFINE In(x, o) == o \in DOMAIN x
           \* Order o after i tasks of both runs: the same; or in one of them only, and the
           \* second has it if the end has; or the second still has what the end has.
           Near(i, o) == \/ Alike(h[i], g[i], o)
                         \/ ~(In(h[i], o) <=> In(g[i], o)) /\ (In(g[i], o) <=> In(s, o))
                         \/ Alike(g[i], s, o)
<1>5. ASSUME NEW o \in Orders, NEW i \in 1 .. n, Near(i - 1, o) PROVE Near(i, o)
  <2>1. PICK x, y, t : x = h[i - 1] /\ y = g[i - 1] /\ t = ts[i]
    OBVIOUS
  <2>2. x \in Books /\ y \in Books /\ t \in Tasks /\ h[i] = AfterTask(x, t) /\ g[i] = AfterTask(y, t)
    BY <1>1, <1>4, <2>1
  <2>3. \/ Alike(x, y, o)
        \/ ~(In(x, o) <=> In(y, o)) /\ (In(y, o) <=> In(s, o))
        \/ Alike(y, s, o)
    BY <1>5, <2>1
  <2>4. CASE t.msg = "8"
    BY <2>2, <2>3, <2>4 DEF AfterTask
  <2>5. CASE t.msg # "8"
    <3>1. PICK p : p = t.pkt /\ p \in Packets
      BY <2>2, <2>5 DEF Tasks, Reports
    <3>2. PICK x2, y2 : x2 = ApplyMd(x, p) /\ y2 = ApplyMd(y, p)
      OBVIOUS
    <3>3. h[i] = x2 /\ g[i] = y2
      BY <2>2, <2>5, <3>1, <3>2 DEF AfterTask
    <3>4. CASE o # p.order
      <4>1. Alike(x2, x, o) /\ Alike(y2, y, o)
        BY <2>2, <3>1, <3>2, <3>4, PacketEffect
      <4> QED BY <2>3, <3>3, <4>1 DEF Alike
    <3>5. CASE o = p.order /\ (p.evt = "NewOrder" \/ p.qty = 0)
      <4>1. Alike(x2, y2, o)
        BY <2>2, <3>1, <3>2, <3>5, PacketEffect DEF Alike
      <4> QED BY <3>3, <4>1
    <3>6. CASE o = p.order /\ p.evt # "NewOrder" /\ p.qty # 0
      <4>1. /\ (In(x2, o) <=> In(x, o)) /\ (In(x, o) => x2[o] = p.qty)
            /\ (In(y2, o) <=> In(y, o)) /\ (In(y, o) => y2[o] = p.qty)
        BY <2>2, <3>1, <3>2, <3>6, PacketEffect
      <4>2. \/ Alike(x2, y2, o)
            \/ ~(In(x2, o) <=> In(y2, o)) /\ (In(y2, o) <=> In(s, o))
        BY <2>3, <4>1 DEF Alike
      <4> QED BY <3>3, <4>2
    <3> QED BY <3>4, <3>5, <3>6
  <2> QED BY <2>4, <2>5
<1>6. ASSUME NEW o \in Orders PROVE Alike(g[n], s, o)
  <2>1. Near(0, o)
    BY <1>4 DEF Alike
  <2>2. \A i \in 1 .. n : Near(i - 1, o) => Near(i, o)
    BY <1>5
  <2> HIDE DEF Near
  <2> DEFINE Far == {i \in 0 .. n : ~Near(i, o)}
  <2>3. Far = {}
    <3> SUFFICES ASSUME Far # {} PROVE FALSE
      OBVIOUS
    <3>1. Far \subseteq Nat
      BY <1>1
    <3>2. PICK k \in Far : \A m \in Far : ~(m < k)
      <4> HIDE DEF Far
      <4> QED BY <3>1, LeastNatural
    <3>3. k \in 1 .. n /\ k - 1 \in 0 .. n /\ k - 1 < k
      BY <1>1, <2>1
    <3> QED BY <2>2, <3>2, <3>3
  <2>4. Near(n, o)
    BY <1>1, <2>3
  <2> QED BY <1>2, <2>4 DEF Near, Alike
<1>7. g[n] = s
  <2>1. g[n] \in Books
    BY <1>1, <1>4
  <2> QED BY <1>6, <2>1, SameBook
<1> QED BY <1>1, <1>3, <1>7 DEF Leads

\* No tasks lead nowhere else ...
LEMMA LeadsNowhere ==
    ASSUME NEW b \in Books, NEW c
    PROVE  Leads(b, << >>, c) <=> b = c
<1>1. Len(<< >>) = 0
  OBVIOUS
<1>2. ASSUME Leads(b, << >>, c) PROVE b = c
  BY <1>1, <1>2 DEF Leads, Chain
<1>3. ASSUME b = c PROVE Leads(b, << >>, c)
  <2> DEFINE h == [i \in 0 .. 0 |-> b]
  <2>1. Chain(h, b, << >>, 0) /\ h[0] = c
    BY <1>3 DEF Chain
  <2> QED BY <1>1, <2>1 DEF Leads
<1> QED BY <1>2, <1>3

\* ... one more leads one further, on the server's side ...
LEMMA LeadsFurther ==
    ASSUME NEW b \in Books, NEW c \in Books, NEW ts \in Seq(Tasks), NEW t \in Tasks,
           Leads(b, ts, c)
    PROVE  Leads(b, Append(ts, t), AfterTask(c, t))
<1>1. PICK n, us : n = Len(ts) /\ us = Append(ts, t)
  OBVIOUS
<1>2. n \in Nat /\ us \in Seq(Tasks) /\ Len(us) = n + 1
      /\ us[n + 1] = t /\ \A i \in 1 .. n : us[i] = ts[i]
  BY <1>1, LenProperties, AppendProperties
<1>3. PICK h : /\ h \in [0 .. n -> Books] /\ h[0] = b /\ h[n] = c
               /\ \A i \in 1 .. n : h[i] = AfterTask(h[i - 1], ts[i])
  BY <1>1 DEF Leads, Chain
<1> DEFINE g == [i \in 0 .. n + 1 |-> IF i = n + 1 THEN AfterTask(c, t) ELSE h[i]]
<1>4. g \in [0 .. n + 1 -> Books] /\ g[0] = b /\ g[n + 1] = AfterTask(c, t)
  BY <1>2, <1>3, AfterTaskIsBook
<1>5. ASSUME NEW i \in 1 .. n + 1 PROVE g[i] = AfterTask(g[i - 1], us[i])
  <2>1. i - 1 \in 0 .. n + 1 /\ i - 1 # n + 1 /\ i \in 0 .. n + 1 /\ g[i - 1] = h[i - 1]
    BY <1>2
  <2>2. CASE i = n + 1
    <3>1. i - 1 = n
      BY <1>2, <2>2
    <3> QED BY <1>2, <1>3, <2>1, <2>2, <3>1
  <2>3. CASE i # n + 1
    BY <1>2, <1>3, <2>1, <2>3
  <2> QED BY <2>2, <2>3
<1> HIDE DEF g
<1>6. Chain(g, b, us, n + 1)
  BY <1>4, <1>5 DEF Chain
<1> QED BY <1>1, <1>2, <1>4, <1>6 DEF Leads

\* ... and one less, once the page has handled the first.
LEMMA LeadsOn ==
    ASSUME NEW b \in Books, NEW c, NEW ts \in Seq(Tasks), ts # << >>, Leads(b, ts, c)
    PROVE  /\ Head(ts) \in Tasks /\ Tail(ts) \in Seq(Tasks)
           /\ AfterTask(b, Head(ts)) \in Books
           /\ Leads(AfterTask(b, Head(ts)), Tail(ts), c)
<1>1. PICK n, us, t, d : n = Len(ts) /\ us = Tail(ts) /\ t = Head(ts) /\ d = AfterTask(b, t)
  OBVIOUS
<1>2. n \in Nat /\ n > 0 /\ us \in Seq(Tasks) /\ Len(us) = n - 1 /\ t \in Tasks
      /\ t = ts[1] /\ \A i \in 1 .. n - 1 : us[i] = ts[i + 1]
  BY <1>1, LenProperties, HeadTailProperties
<1>3. PICK h : /\ h \in [0 .. n -> Books] /\ h[0] = b /\ h[n] = c
               /\ \A i \in 1 .. n : h[i] = AfterTask(h[i - 1], ts[i])
  BY <1>1 DEF Leads, Chain
<1>4. d \in Books /\ h[1] = d
  BY <1>1, <1>2, <1>3, AfterTaskIsBook
<1> DEFINE g == [i \in 0 .. n - 1 |-> h[i + 1]]
<1>5. g \in [0 .. n - 1 -> Books] /\ g[0] = d /\ g[n - 1] = c
  BY <1>2, <1>3, <1>4
<1>6. ASSUME NEW i \in 1 .. n - 1 PROVE g[i] = AfterTask(g[i - 1], us[i])
  BY <1>2, <1>3
<1> HIDE DEF g
<1>7. Chain(g, d, us, n - 1)
  BY <1>5, <1>6 DEF Chain
<1> QED BY <1>1, <1>2, <1>4, <1>5, <1>7 DEF Leads

---------------------------------------------------------------------------
(* The invariant                                                           *)

FromExch == {[msg |-> "A"], [msg |-> "1"]} \cup Reports \cup [msg : {"W"}, book : Books]
ToExch == [msg : {"A", "V", "0", "5"}] \cup [msg : {"D", "F"}, order : Orders]

UiTypeOK ==
    /\ leaves \in [Orders -> 0 .. NotYet]
    /\ statuses \subseteq Orders
    /\ toExch \in Seq(ToExch)
    /\ wire \in Seq(FromExch)
    /\ udp \in Seq(Packets)
    /\ order_state \in Books
    /\ exec_log \in Seq(Reports)
    /\ ws \in {"closed", "replay", "open"}
    /\ tasks \in Seq(Tasks)
    /\ bookOrders \in Books

\* The broadcasts under way take the page's book to the server's; before the snapshot, they
\* take some book there.
Follows ==
    /\ ws = "closed" => tasks = << >>
    /\ ws = "replay" /\ ~late => \E b \in Books : Leads(b, tasks, order_state)
    /\ ws = "open" /\ ~late => Leads(bookOrders, tasks, order_state)

UInv == UiTypeOK /\ Follows

\* What is read off a message.
LEMMA MessageFields ==
    /\ \A m \in FromExch : /\ m.msg = "8" => m \in Reports
                           /\ m.msg = "W" => m.book \in Books
    /\ \A m \in ToExch : m.msg \in {"D", "F"} => m.order \in Orders
    /\ \A r \in Reports : r.msg = "8" /\ r.order \in Orders /\ r \in FromExch /\ r \in Tasks
    /\ \A p \in Packets : [msg |-> "md", pkt |-> p] \in Tasks
  BY DEF FromExch, ToExch, Reports, Tasks

LEMMA EmptyIsBook == Empty \in Books
<1>1. Empty \in [1 .. 0 -> Nat]
  BY EmptySeq, LenProperties DEF Empty
<1>2. 1 .. 0 = {}
  OBVIOUS
<1> QED BY <1>1, <1>2 DEF Books

---------------------------------------------------------------------------
(* The exchange                                                            *)

\* Reports go to the end of the wire, packets to the end of the feed.
LEMMA TellOK ==
    ASSUME UiTypeOK, NEW rs \in Seq(FromExch), Tell(rs)
    PROVE  wire' \in Seq(FromExch)
  BY ConcatProperties DEF Tell, UiTypeOK

LEMMA PublishOK ==
    ASSUME UiTypeOK, NEW ps \in Seq(Packets), Publish(ps)
    PROVE  udp' \in Seq(Packets)
  BY ConcatProperties DEF Publish, UiTypeOK

LEMMA OneReport ==
    ASSUME NEW type \in {"I", "0", "1", "2", "4", "8"}, NEW o \in Orders
    PROVE  Rpt(type, o) \in Reports /\ << Rpt(type, o) >> \in Seq(FromExch)
<1>1. Rpt(type, o) \in Reports
  BY DEF Rpt, Reports
<1>2. Rpt(type, o) \in FromExch
  BY <1>1 DEF FromExch
<1> QED BY <1>1, <1>2

LEMMA OnePacket ==
    ASSUME NEW evt \in {"NewOrder", "Cancel", "FillResting"}, NEW o \in Orders, NEW q \in Nat
    PROVE  << Packet(evt, o, q) >> \in Seq(Packets)
<1>1. Packet(evt, o, q) \in Packets
  BY DEF Packet, Packets
<1> QED BY <1>1

\* What the exchange changes, and what it leaves to the server and the page.
ExchOK ==
    /\ leaves' \in [Orders -> 0 .. NotYet]
    /\ statuses' \subseteq Orders
    /\ toExch' \in Seq(ToExch)
    /\ wire' \in Seq(FromExch)
    /\ udp' \in Seq(Packets)

LEMMA ExchTypes ==
    ASSUME UiTypeOK, Exchange
    PROVE  ExchOK /\ UNCHANGED << servervars, pagevars, history >>
<1> USE DEF UiTypeOK
<1>1. Qty \in Nat /\ NotYet \in Nat /\ Qty \in 0 .. NotYet /\ 0 \in 0 .. NotYet
  BY UiAssumption DEF NotYet
<1>2. toExch # << >> => Head(toExch) \in ToExch /\ Tail(toExch) \in Seq(ToExch)
  BY HeadTailProperties
<1>3. CASE ExchLogon
  <2>1. << [msg |-> "A"] >> \in Seq(FromExch)
    BY DEF FromExch
  <2> QED BY <1>2, <1>3, <2>1 DEF ExchLogon, ExchOK, Open
<1>4. ASSUME NEW o \in Orders, ExchStatus(o)
      PROVE  ExchOK /\ UNCHANGED << servervars, pagevars, history >>
  BY <1>4, OneReport, TellOK DEF ExchStatus, ExchOK
<1>5. CASE ExchHistory
  <2>1. PICK known \in SUBSET Orders : \E ends \in SetToSeqs(known) :
                 Tell([i \in DOMAIN ends |-> Rpt("2", ends[i])])
    BY <1>5 DEF ExchHistory
  <2>2. IsFiniteSet(known)
    BY UiAssumption, FS_Subset
  <2>3. PICK n : n = Cardinality(known) /\ n \in Nat
    BY <2>2, FS_CardinalityType
  <2>4. PICK ends \in [1 .. n -> known] : Tell([i \in DOMAIN ends |-> Rpt("2", ends[i])])
    BY <2>1, <2>3 DEF SetToSeqs
  <2>5. PICK rs : rs = [i \in 1 .. n |-> Rpt("2", ends[i])] /\ Tell(rs)
    BY <2>4
  <2>6. \A i \in 1 .. n : Rpt("2", ends[i]) \in FromExch
    BY <2>4, OneReport DEF FromExch
  <2>7. rs \in Seq(FromExch)
    <3>1. rs \in [1 .. n -> FromExch]
      BY <2>5, <2>6
    <3>2. rs \in UNION {[1 .. k -> FromExch] : k \in Nat}
      BY <2>3, <3>1
    <3> QED BY <3>2, SeqDef
  <2> QED BY <1>5, <2>5, <2>7, TellOK DEF ExchHistory, ExchOK
<1>6. CASE ExchSnapshot
  <2>1. Restrict(leaves, Open) \in Books
    <3>1. Open \subseteq Orders /\ \A o \in Open : leaves[o] \in Nat
      BY <1>1 DEF Open
    <3> QED BY <3>1, IsBook DEF Restrict
  <2>2. << [msg |-> "W", book |-> Restrict(leaves, Open)] >> \in Seq(FromExch)
    BY <2>1 DEF FromExch
  <2> QED BY <1>2, <1>6, <2>2, TellOK DEF ExchSnapshot, Handles, ExchOK, exchvars
<1>7. CASE ExchNew
  <2>1. PICK o : o = Head(toExch).order /\ o \in Orders
    BY <1>2, <1>7, MessageFields DEF ExchNew, Handles
  <2>2. /\ leaves' \in {[leaves EXCEPT ![o] = Qty], [leaves EXCEPT ![o] = 0]}
        /\ toExch' \in Seq(ToExch) /\ statuses' = statuses
        /\ UNCHANGED << servervars, pagevars, history >>
        /\ Tell(<< Rpt("0", o) >>) \/ Tell(<< Rpt("8", o) >>)
        /\ Publish(<< Packet("NewOrder", o, Qty) >>) \/ udp' = udp
    BY <1>2, <1>7, <2>1 DEF ExchNew, Handles
  <2> QED BY <1>1, <2>1, <2>2, OneReport, OnePacket, TellOK, PublishOK DEF ExchOK
<1>8. CASE ExchCancel
  <2>1. PICK o : o = Head(toExch).order /\ o \in Orders
    BY <1>2, <1>8, MessageFields DEF ExchCancel, Handles
  <2>2. /\ leaves' \in {[leaves EXCEPT ![o] = 0], leaves}
        /\ toExch' \in Seq(ToExch) /\ statuses' = statuses
        /\ UNCHANGED << servervars, pagevars, history >>
        /\ Tell(<< Rpt("4", o) >>) \/ wire' = wire
        /\ Publish(<< Packet("Cancel", o, 0) >>) \/ udp' = udp
    BY <1>2, <1>8, <2>1 DEF ExchCancel, Handles
  <2> QED BY <1>1, <2>1, <2>2, OneReport, OnePacket, TellOK, PublishOK DEF ExchOK
<1>9. CASE ExchHeartbeat
  BY <1>2, <1>9 DEF ExchHeartbeat, Handles, ExchOK, exchvars
<1>10. ASSUME NEW o \in Orders, ExchFill(o)
       PROVE  ExchOK /\ UNCHANGED << servervars, pagevars, history >>
  <2>1. leaves[o] \in 1 .. Qty
    BY <1>10 DEF ExchFill, Open
  <2>2. leaves[o] - 1 \in 0 .. NotYet /\ leaves[o] - 1 \in Nat
    BY <1>1, <2>1 DEF NotYet
  <2>3. /\ leaves' = [leaves EXCEPT ![o] = leaves[o] - 1]
        /\ Tell(<< Rpt("2", o) >>) \/ Tell(<< Rpt("1", o) >>)
        /\ Publish(<< Packet("FillResting", o, leaves[o] - 1) >>)
        /\ UNCHANGED << statuses, toExch, servervars, pagevars, history >>
    BY <1>10 DEF ExchFill
  <2> QED BY <2>2, <2>3, OneReport, OnePacket, TellOK, PublishOK DEF ExchOK
<1>11. CASE ExchTestRequest
  <2>1. << [msg |-> "1"] >> \in Seq(FromExch)
    BY DEF FromExch
  <2> QED BY <1>11, <2>1 DEF ExchTestRequest, ExchOK, exchvars
<1>12. CASE ExchCloses
  BY <1>12 DEF ExchCloses, ExchOK
<1> QED BY <1>3, <1>4, <1>5, <1>6, <1>7, <1>8, <1>9, <1>10, <1>11, <1>12 DEF Exchange

LEMMA ExchStep ==
    ASSUME UInv, Exchange
    PROVE  UInv'
<1>1. ExchOK /\ UNCHANGED << order_state, exec_log, ws, tasks, bookOrders, late >>
  BY ExchTypes DEF UInv, servervars, pagevars, history
<1> QED BY <1>1 DEF UInv, UiTypeOK, ExchOK, Follows

---------------------------------------------------------------------------
(* The server                                                              *)

LEMMA RecvOK ==
    ASSUME UiTypeOK, NEW type, Recv(type)
    PROVE  Head(wire) \in FromExch /\ Head(wire).msg = type /\ wire' \in Seq(FromExch)
  BY HeadTailProperties DEF Recv, UiTypeOK

LEMMA SendOK ==
    ASSUME UiTypeOK, NEW m \in ToExch, Send(m)
    PROVE  toExch' \in Seq(ToExch)
  BY AppendProperties DEF Send, UiTypeOK

\* _process_md_snapshot puts the orders of the snapshot into the server's book.
LEMMA MdSnapshotOK ==
    ASSUME UiTypeOK, NEW m, m.book \in Books, ProcessMdSnapshot(m)
    PROVE  order_state' \in Books
<1> DEFINE D == DOMAIN order_state \cup DOMAIN m.book
           c == [o \in D |-> IF o \in DOMAIN m.book THEN m.book[o] ELSE order_state[o]]
<1>1. order_state \in Books
  BY DEF UiTypeOK
<1>2. D \subseteq Orders /\ \A o \in D : c[o] \in Nat
  BY <1>1, BookFields
<1>3. c \in Books
  BY <1>2, IsBook
<1> QED BY <1>3 DEF ProcessMdSnapshot

\* A step of the server that keeps its book and tells the pages nothing.
LEMMA QuietServer ==
    ASSUME UInv, UNCHANGED << exchvars, order_state, ws, tasks, bookOrders >>,
           toExch' \in Seq(ToExch), wire' \in Seq(FromExch), udp' \in Seq(Packets),
           exec_log' \in Seq(Reports), late' = late
    PROVE  UInv'
  BY DEF UInv, UiTypeOK, Follows, exchvars

\* No page is connected while lifespan is not serving.
LEMMA StartupStep ==
    ASSUME UInv, ws = "closed" \/ phase = "serving",
           \/ Startup \/ LogonAnswer \/ DrainRecv \/ DrainEnds \/ WaitRecv \/ WaitTimeout
           \/ StartupRaises \/ Shutdown
    PROVE  UInv'
<1> USE DEF UInv
<1>1. /\ [msg |-> "A"] \in ToExch /\ [msg |-> "V"] \in ToExch /\ [msg |-> "0"] \in ToExch
      /\ [msg |-> "5"] \in ToExch
  BY DEF ToExch
<1>2. /\ toExch \in Seq(ToExch) /\ wire \in Seq(FromExch) /\ udp \in Seq(Packets)
      /\ exec_log \in Seq(Reports)
  BY DEF UiTypeOK
<1>3. CASE Startup
  BY <1>1, <1>2, <1>3, SendOK, QuietServer DEF Startup, pagevars, history
<1>4. CASE LogonAnswer
  BY <1>2, <1>4, RecvOK, QuietServer DEF LogonAnswer, pagevars, history
<1>5. CASE DrainRecv
  <2>1. Head(wire) \in Reports /\ wire' \in Seq(FromExch)
    BY <1>5, RecvOK, MessageFields DEF DrainRecv
  <2>2. exec_log' \in Seq(Reports)
    <3>1. Append(exec_log, Head(wire)) \in Seq(Reports)
      BY <1>2, <2>1, AppendProperties
    <3> QED BY <1>2, <1>5, <3>1 DEF DrainRecv
  <2> QED BY <1>2, <1>5, <2>1, <2>2, QuietServer DEF DrainRecv, pagevars
<1>6. CASE DrainEnds
  BY <1>1, <1>2, <1>6, SendOK, QuietServer DEF DrainEnds, pagevars, history
<1>7. CASE WaitRecv
  <2>1. /\ UNCHANGED << exchvars, udp, exec_log, ws, tasks, bookOrders, late >>
        /\ phase = "wait"
    BY <1>7 DEF WaitRecv, pagevars
  <2>2. CASE Recv("W") /\ ProcessMdSnapshot(Head(wire)) /\ UNCHANGED toExch
    <3>1. wire' \in Seq(FromExch) /\ order_state' \in Books
      BY <2>2, RecvOK, MessageFields, MdSnapshotOK
    <3>2. ws = "closed"
      BY <2>1
    <3> QED BY <2>1, <2>2, <3>1, <3>2 DEF UiTypeOK, Follows, exchvars
  <2>3. CASE UNCHANGED order_state /\ (Recv("1") \/ Recv("8"))
             /\ (Send([msg |-> "0"]) \/ UNCHANGED toExch)
    BY <1>1, <1>2, <2>1, <2>3, RecvOK, SendOK, QuietServer
  <2> QED BY <1>7, <2>2, <2>3 DEF WaitRecv
<1>8. CASE WaitTimeout
  BY <1>2, <1>8, QuietServer DEF WaitTimeout, pagevars, history
<1>9. CASE StartupRaises
  BY <1>2, <1>9, QuietServer DEF StartupRaises, RecvRaises, pagevars, history
<1>10. CASE Shutdown
  BY <1>1, <1>2, <1>10, SendOK, QuietServer DEF Shutdown, pagevars, history
<1> QED BY <1>3, <1>4, <1>5, <1>6, <1>7, <1>8, <1>9, <1>10

\* What a broadcast adds to the tasks is what it does to the server's book.
LEMMA BroadcastOK ==
    ASSUME UInv, NEW t \in Tasks, Broadcast(t), order_state' = AfterTask(order_state, t),
           UNCHANGED << exchvars, ws, bookOrders, late >>,
           toExch' \in Seq(ToExch), wire' \in Seq(FromExch), udp' \in Seq(Packets),
           exec_log' \in Seq(Reports)
    PROVE  UInv'
<1>1. order_state \in Books /\ bookOrders \in Books /\ tasks \in Seq(Tasks)
  BY DEF UInv, UiTypeOK
<1>2. order_state' \in Books
  BY <1>1, AfterTaskIsBook
<1>3. CASE ws = "closed"
  <2>1. tasks' = tasks
    BY <1>3 DEF Broadcast
  <2> QED BY <1>1, <1>2, <1>3, <2>1 DEF UInv, UiTypeOK, Follows, exchvars
<1>4. CASE ws # "closed"
  <2>1. tasks' = Append(tasks, t) /\ tasks' \in Seq(Tasks)
    BY <1>1, <1>4, AppendProperties DEF Broadcast
  <2>2. \A b \in Books : Leads(b, tasks, order_state) => Leads(b, tasks', order_state')
    BY <1>1, <2>1, LeadsFurther
  <2>3. Follows'
    BY <1>1, <1>4, <2>2 DEF UInv, Follows
  <2> QED BY <1>1, <1>2, <2>1, <2>3 DEF UInv, UiTypeOK, exchvars
<1> QED BY <1>3, <1>4

LEMMA ServingStep ==
    ASSUME UInv, ReaderRecv \/ ReaderRaises \/ DatagramReceived
    PROVE  UInv'
<1> USE DEF UInv
<1>1. [msg |-> "0"] \in ToExch
  BY DEF ToExch
<1>2. /\ toExch \in Seq(ToExch) /\ wire \in Seq(FromExch) /\ udp \in Seq(Packets)
      /\ exec_log \in Seq(Reports) /\ order_state \in Books
  BY DEF UiTypeOK
<1>3. CASE ReaderRecv
  <2>1. UNCHANGED << exchvars, udp, ws, bookOrders >>
    BY <1>3 DEF ReaderRecv
  <2>2. CASE Recv("1") /\ Send([msg |-> "0"]) /\ UNCHANGED << exec_log, tasks, order_state, late >>
    BY <1>1, <1>2, <2>1, <2>2, RecvOK, SendOK, QuietServer
  <2>3. CASE Recv("8") /\ exec_log' = Append(exec_log, Head(wire)) /\ Broadcast(Head(wire))
             /\ UNCHANGED << toExch, order_state, late >>
    <3>1. Head(wire) \in Reports /\ wire' \in Seq(FromExch)
      BY <2>3, RecvOK, MessageFields
    <3>2. Head(wire) \in Tasks /\ AfterTask(order_state, Head(wire)) = order_state
      BY <3>1, MessageFields DEF AfterTask
    <3>3. exec_log' \in Seq(Reports)
      BY <1>2, <2>3, <3>1, AppendProperties
    <3> QED BY <1>2, <2>1, <2>3, <3>1, <3>2, <3>3, BroadcastOK
  <2>4. CASE Recv("W") /\ ProcessMdSnapshot(Head(wire)) /\ late' = (late \/ ws # "closed")
             /\ UNCHANGED << toExch, exec_log, tasks >>
    <3>1. wire' \in Seq(FromExch) /\ order_state' \in Books
      BY <2>4, RecvOK, MessageFields, MdSnapshotOK
    <3>2. Follows'
      BY <2>1, <2>4 DEF Follows
    <3> QED BY <1>2, <2>1, <2>4, <3>1, <3>2 DEF UiTypeOK, exchvars
  <2> QED BY <1>3, <2>2, <2>3, <2>4 DEF ReaderRecv
<1>4. CASE ReaderRaises
  BY <1>2, <1>4, QuietServer DEF ReaderRaises, RecvRaises, pagevars, history
<1>5. CASE DatagramReceived
  <2>1. PICK p : p = Head(udp) /\ p \in Packets /\ udp' \in Seq(Packets)
    BY <1>2, <1>5, HeadTailProperties DEF DatagramReceived
  <2>2. PICK t : t = [msg |-> "md", pkt |-> p] /\ t \in Tasks
    BY <2>1, MessageFields
  <2>3. order_state' = AfterTask(order_state, t) /\ Broadcast(t)
    BY <1>5, <2>1, <2>2 DEF DatagramReceived, AfterTask
  <2> QED BY <1>2, <1>5, <2>1, <2>2, <2>3, BroadcastOK DEF DatagramReceived, history
<1> QED BY <1>3, <1>4, <1>5

---------------------------------------------------------------------------
(* The page                                                                *)

LEMMA RequestOK ==
    ASSUME UInv, NEW m \in ToExch, Request(m)
    PROVE  UInv'
<1>1. /\ toExch' \in Seq(ToExch)
      /\ UNCHANGED << exchvars, wire, udp, order_state, exec_log, bookOrders, late >>
      /\ (ws' = "closed" /\ tasks' = << >>) \/ UNCHANGED << ws, tasks >>
  BY SendOK DEF Request, UInv, Gone, servervars, history
<1>2. << >> \in Seq(Tasks)
  BY EmptySeq
<1> QED BY <1>1, <1>2 DEF UInv, UiTypeOK, Follows, exchvars

LEMMA PageStep ==
    ASSUME UInv, Page
    PROVE  UInv'
<1>1. /\ toExch \in Seq(ToExch) /\ wire \in Seq(FromExch) /\ udp \in Seq(Packets)
      /\ exec_log \in Seq(Reports) /\ order_state \in Books /\ bookOrders \in Books
      /\ tasks \in Seq(Tasks)
  BY DEF UInv, UiTypeOK
<1>2. CASE Connect
  <2>1. /\ ws = "closed" /\ ws' = "replay" /\ tasks = << >>
        /\ UNCHANGED << exchvars, toExch, wire, udp, order_state, exec_log, tasks >>
        /\ bookOrders' = Empty \/ UNCHANGED bookOrders
    BY <1>2 DEF Connect, UInv, Follows, servervars
  <2>2. bookOrders' \in Books
    BY <1>1, <2>1, EmptyIsBook
  <2>3. Leads(order_state, tasks, order_state)
    BY <1>1, <2>1, LeadsNowhere
  <2>4. Follows'
    BY <1>1, <2>1, <2>3 DEF Follows
  <2> QED BY <1>1, <2>1, <2>2, <2>4 DEF UInv, UiTypeOK, exchvars
<1>3. CASE Replay
  BY <1>1, <1>3, QuietServer DEF Replay, servervars, history
<1>4. CASE SendSnapshot
  <2>1. /\ ws = "replay" /\ ws' = "open" /\ bookOrders' = order_state
        /\ UNCHANGED << exchvars, toExch, wire, udp, order_state, exec_log, tasks, late >>
    BY <1>4 DEF SendSnapshot, OnSnapshot, servervars, history
  <2>2. ~late => Leads(order_state, tasks, order_state)
    BY <1>1, <2>1, RepeatLeadsThere DEF UInv, Follows
  <2>3. Follows'
    BY <2>1, <2>2 DEF Follows
  <2> QED BY <1>1, <2>1, <2>3 DEF UInv, UiTypeOK, exchvars
<1>5. CASE SafeSend
  <2>1. PICK t : t = Head(tasks) /\ tasks # << >> /\ tasks' = Tail(tasks)
        /\ bookOrders' = AfterTask(bookOrders, t)
        /\ UNCHANGED << exchvars, toExch, wire, udp, order_state, exec_log, ws, late >>
    BY <1>5 DEF SafeSend, AfterTask, servervars, history
  <2>2. t \in Tasks /\ tasks' \in Seq(Tasks)
    BY <1>1, <2>1, HeadTailProperties
  <2>3. bookOrders' \in Books
    BY <1>1, <2>1, <2>2, AfterTaskIsBook
  <2>4. \A b \in Books : Leads(b, tasks, order_state) =>
            AfterTask(b, t) \in Books /\ Leads(AfterTask(b, t), tasks', order_state)
    BY <1>1, <2>1, LeadsOn
  <2>5. Follows'
    BY <1>1, <2>1, <2>4 DEF UInv, Follows
  <2> QED BY <1>1, <2>1, <2>2, <2>3, <2>5 DEF UInv, UiTypeOK, exchvars
<1>6. CASE Disconnect
  <2>1. << >> \in Seq(Tasks)
    BY EmptySeq
  <2> QED BY <1>1, <1>6, <2>1 DEF Disconnect, Gone, UInv, UiTypeOK, Follows, exchvars, servervars
<1>7. ASSUME NEW o \in Orders, NewOrder(o) \/ CancelOrder(o) PROVE UInv'
  <2>1. [msg |-> "D", order |-> o] \in ToExch /\ [msg |-> "F", order |-> o] \in ToExch
    BY DEF ToExch
  <2> QED BY <1>7, <2>1, RequestOK DEF NewOrder, CancelOrder
<1> QED BY <1>2, <1>3, <1>4, <1>5, <1>6, <1>7 DEF Page

---------------------------------------------------------------------------

\* A page is connected only while the server serves.
Served == ws = "closed" \/ phase = "serving"

LEMMA ServedStep ==
    ASSUME Served, [Next]_vars
    PROVE  Served'
<1>1. CASE Exchange
  <2>1. ws' = ws /\ phase' = phase
    BY <1>1 DEF Exchange, ExchLogon, ExchHistory, ExchSnapshot, ExchNew, ExchCancel,
       ExchHeartbeat, ExchStatus, ExchFill, ExchTestRequest, ExchCloses, servervars, pagevars
  <2> QED BY <2>1 DEF Served
<1>2. CASE Server
  BY <1>2 DEF Served, Server, Startup, LogonAnswer, DrainRecv, DrainEnds, WaitRecv, WaitTimeout,
     StartupRaises, Shutdown, ReaderRecv, ReaderRaises, DatagramReceived, Serve, pagevars
<1>3. CASE Page
  BY <1>3 DEF Served, Page, Connect, Replay, SendSnapshot, SafeSend, Disconnect, NewOrder,
     CancelOrder, Request, Gone, servervars
<1>4. CASE Over \/ UNCHANGED vars
  BY <1>4 DEF Served, Over, vars, servervars, pagevars
<1> QED BY <1>1, <1>2, <1>3, <1>4 DEF Next

LEMMA UiInit ==
    ASSUME Init
    PROVE  UInv /\ Served
<1>1. /\ << >> \in Seq(ToExch) /\ << >> \in Seq(FromExch) /\ << >> \in Seq(Packets)
      /\ << >> \in Seq(Reports) /\ << >> \in Seq(Tasks)
  BY EmptySeq
<1>2. leaves \in [Orders -> 0 .. NotYet]
  BY UiAssumption DEF Init, NotYet
<1> QED BY <1>1, <1>2, EmptyIsBook DEF Init, UInv, UiTypeOK, Follows, Served

LEMMA UiStep ==
    ASSUME UInv, Served, [Next]_vars
    PROVE  UInv'
<1>1. CASE Server
  BY <1>1, StartupStep, ServingStep DEF Server, Served
<1>2. CASE Over \/ UNCHANGED vars
  BY <1>2 DEF Over, vars, exchvars, servervars, pagevars, history, UInv, UiTypeOK, Follows
<1> QED BY <1>1, <1>2, ExchStep, PageStep DEF Next

\* The types of the server, the page and the session between them, that the page's book is
\* behind the server's by exactly the broadcasts that are due, and that a page is
\* connected only while the server serves, hold at every step.
THEOREM UiInvariant == Spec => [](UInv /\ Served)
<1>1. Init => UInv /\ Served
  BY UiInit
<1>2. UInv /\ Served /\ [Next]_vars => UInv' /\ Served'
  BY UiStep, ServedStep
<1> QED BY <1>1, <1>2, PTL DEF Spec

\* A page that has had its snapshot and every broadcast shows the server's book, for any
\* number of orders, packets, reconnections and whatever order the snapshot and the
\* broadcasts come in: websocket_endpoint adds the page to ws_clients before it sends the
\* snapshot, and packets that are in it come again harmlessly.
THEOREM UiPageFollowsServer == Spec => []PageFollowsServer
<1>1. UInv => PageFollowsServer
  BY LeadsNowhere DEF UInv, UiTypeOK, Follows, PageFollowsServer
<1> QED BY <1>1, UiInvariant, PTL

---------------------------------------------------------------------------
(* The blotter                                                             *)
(*                                                                         *)
(* What the page shows of an order depends on few things about the reports *)
(* that have come and those that are still to come: whether there is one   *)
(* that makes the order known, and whether there is an end that nothing    *)
(* takes back.  Both can be read off a sequence of messages.               *)

Types == {"I", "0", "1", "2", "4", "8"}
Adds == {"I", "0"}             \* make an unknown order a row
Actives == {"I", "0", "1"}     \* can make a row active
Stops == {"2", "4", "8"}       \* can make a row inactive
Ends == {"2", "4"}             \* make an order an inactive row, whatever it was
Revives == {"0", "1", "8"}     \* can change a row that an end has made
NotRejects == {"I", "0", "1", "2", "4"}

Is(m, o, types) == m.msg = "8" /\ m.order = o /\ m.type \in types

Some(s, o, types) == \E i \in 1 .. Len(s) : Is(s[i], o, types)

\* An end that no later report takes back.
Ended(s, o) ==
    \E e \in 1 .. Len(s) :
        /\ Is(s[e], o, Ends)
        /\ \A i \in 1 .. Len(s) : i > e => ~Is(s[i], o, Revives)

LEMMA NothingIn ==
    ASSUME NEW o, NEW types
    PROVE  ~Some(<< >>, o, types) /\ ~Ended(<< >>, o)
  BY DEF Some, Ended

LEMMA SingleIn ==
    ASSUME NEW S, NEW m \in S, NEW o
    PROVE  /\ \A types : Some(<< m >>, o, types) <=> Is(m, o, types)
           /\ Ended(<< m >>, o) <=> Is(m, o, Ends)
<1>1. Len(<< m >>) = 1 /\ << m >>[1] = m
  OBVIOUS
<1>2. \A i \in 1 .. 1 : i = 1
  OBVIOUS
<1> QED BY <1>1, <1>2 DEF Some, Ended

LEMMA EndedIsSome ==
    ASSUME NEW s, NEW o, Ended(s, o)
    PROVE  Some(s, o, Ends)
  BY DEF Ended, Some

LEMMA SomeOf ==
    ASSUME NEW s, NEW o, NEW narrow, NEW wide, narrow \subseteq wide, Some(s, o, narrow)
    PROVE  Some(s, o, wide)
  BY DEF Some, Is

LEMMA ConcatIn ==
    ASSUME NEW S, NEW s \in Seq(S), NEW t \in Seq(S), NEW o
    PROVE  /\ \A types : Some(s \o t, o, types) <=> Some(s, o, types) \/ Some(t, o, types)
           /\ Ended(s \o t, o) <=> Ended(t, o) \/ (Ended(s, o) /\ ~Some(t, o, Revives))
<1>1. PICK m, n, u : m = Len(s) /\ n = Len(t) /\ u = s \o t
  OBVIOUS
<1>2. /\ m \in Nat /\ n \in Nat /\ Len(u) = m + n
      /\ \A i \in 1 .. m : u[i] = s[i]
      /\ \A i \in 1 .. n : u[m + i] = t[i]
  <2>1. m \in Nat /\ n \in Nat /\ Len(u) = m + n
        /\ \A i \in 1 .. m + n : u[i] = IF i <= m THEN s[i] ELSE t[i - m]
    BY <1>1, LenProperties, ConcatProperties
  <2>2. \A i \in 1 .. n : m + i \in 1 .. m + n /\ ~(m + i <= m) /\ (m + i) - m = i
    BY <2>1
  <2> QED BY <2>1, <2>2
<1>3. \A i \in 1 .. m + n : i \in 1 .. m \/ (i - m \in 1 .. n /\ i = m + (i - m))
  BY <1>2
<1>4. ASSUME NEW types PROVE Some(u, o, types) <=> Some(s, o, types) \/ Some(t, o, types)
  <2>1. ASSUME Some(u, o, types) PROVE Some(s, o, types) \/ Some(t, o, types)
    <3>1. PICK i \in 1 .. m + n : Is(u[i], o, types)
      BY <1>2, <2>1 DEF Some
    <3>2. CASE i \in 1 .. m
      BY <1>1, <1>2, <3>1, <3>2 DEF Some
    <3>3. CASE i - m \in 1 .. n /\ i = m + (i - m)
      <4>1. u[i] = t[i - m]
        BY <1>2, <3>3
      <4> QED BY <1>1, <3>1, <3>3, <4>1 DEF Some
    <3> QED BY <1>3, <3>2, <3>3
  <2>2. ASSUME Some(s, o, types) PROVE Some(u, o, types)
    <3>1. PICK i \in 1 .. m : Is(s[i], o, types)
      BY <1>1, <2>2 DEF Some
    <3>2. i \in 1 .. m + n /\ u[i] = s[i]
      BY <1>2
    <3> QED BY <1>2, <3>1, <3>2 DEF Some
  <2>3. ASSUME Some(t, o, types) PROVE Some(u, o, types)
    <3>1. PICK i \in 1 .. n : Is(t[i], o, types)
      BY <1>1, <2>3 DEF Some
    <3>2. m + i \in 1 .. m + n /\ u[m + i] = t[i]
      BY <1>2
    <3> QED BY <1>2, <3>1, <3>2 DEF Some
  <2> QED BY <2>1, <2>2, <2>3
<1>5. ASSUME Ended(u, o) PROVE Ended(t, o) \/ (Ended(s, o) /\ ~Some(t, o, Revives))
  <2>1. PICK e \in 1 .. m + n : Is(u[e], o, Ends)
                 /\ \A i \in 1 .. m + n : i > e => ~Is(u[i], o, Revives)
    BY <1>2, <1>5 DEF Ended
  <2>2. CASE e \in 1 .. m
    <3>1. \A i \in 1 .. m : i \in 1 .. m + n /\ u[i] = s[i]
      BY <1>2
    <3>2. Ended(s, o)
      BY <1>1, <2>1, <2>2, <3>1 DEF Ended
    <3>3. \A i \in 1 .. n : m + i \in 1 .. m + n /\ m + i > e /\ u[m + i] = t[i]
      BY <1>2, <2>2
    <3>4. ~Some(t, o, Revives)
      BY <1>1, <2>1, <3>3 DEF Some
    <3> QED BY <3>2, <3>4
  <2>3. CASE e - m \in 1 .. n /\ e = m + (e - m)
    <3>1. u[e] = t[e - m]
      BY <1>2, <2>3
    <3>2. \A i \in 1 .. n : i > e - m => m + i \in 1 .. m + n /\ m + i > e /\ u[m + i] = t[i]
      BY <1>2, <2>3
    <3>3. Ended(t, o)
      BY <1>1, <2>1, <2>3, <3>1, <3>2 DEF Ended
    <3> QED BY <3>3
  <2> QED BY <1>3, <2>2, <2>3
<1>6. ASSUME Ended(t, o) PROVE Ended(u, o)
  <2>1. PICK e \in 1 .. n : Is(t[e], o, Ends)
                 /\ \A i \in 1 .. n : i > e => ~Is(t[i], o, Revives)
    BY <1>1, <1>6 DEF Ended
  <2>2. m + e \in 1 .. m + n /\ Is(u[m + e], o, Ends)
    BY <1>2, <2>1
  <2>3. ASSUME NEW i \in 1 .. m + n, i > m + e PROVE ~Is(u[i], o, Revives)
    <3>1. i - m \in 1 .. n /\ i - m > e /\ i = m + (i - m)
      BY <1>2, <2>3
    <3>2. u[i] = t[i - m]
      BY <1>2, <3>1
    <3> QED BY <2>1, <3>1, <3>2
  <2> QED BY <1>2, <2>2, <2>3 DEF Ended
<1>7. ASSUME Ended(s, o), ~Some(t, o, Revives) PROVE Ended(u, o)
  <2>1. PICK e \in 1 .. m : Is(s[e], o, Ends)
                 /\ \A i \in 1 .. m : i > e => ~Is(s[i], o, Revives)
    BY <1>1, <1>7 DEF Ended
  <2>2. e \in 1 .. m + n /\ Is(u[e], o, Ends)
    BY <1>2, <2>1
  <2>3. ASSUME NEW i \in 1 .. m + n, i > e PROVE ~Is(u[i], o, Revives)
    <3>1. CASE i \in 1 .. m
      BY <1>2, <2>1, <2>3, <3>1
    <3>2. CASE i - m \in 1 .. n /\ i = m + (i - m)
      <4>1. u[i] = t[i - m]
        BY <1>2, <3>2
      <4> QED BY <1>1, <1>7, <3>2, <4>1 DEF Some
    <3> QED BY <1>3, <3>1, <3>2
  <2> QED BY <1>2, <2>2, <2>3 DEF Ended
<1> QED BY <1>1, <1>4, <1>5, <1>6, <1>7

LEMMA AppendIn ==
    ASSUME NEW S, NEW s \in Seq(S), NEW m \in S, NEW o
    PROVE  /\ \A types : Some(Append(s, m), o, types) <=> Some(s, o, types) \/ Is(m, o, types)
           /\ Ended(Append(s, m), o) <=> Is(m, o, Ends) \/ (Ended(s, o) /\ ~Is(m, o, Revives))
<1>1. PICK r : r = << m >> /\ r \in Seq(S)
  <2>1. << m >> \in Seq(S)
    OBVIOUS
  <2> QED BY <2>1, Zenon
<1>2. Append(s, m) = s \o r
  BY <1>1, AppendIsConcat
<1>3. /\ \A types : Some(s \o r, o, types) <=> Some(s, o, types) \/ Some(r, o, types)
      /\ Ended(s \o r, o) <=> Ended(r, o) \/ (Ended(s, o) /\ ~Some(r, o, Revives))
  BY <1>1, ConcatIn, Zenon
<1>4. /\ \A types : Some(r, o, types) <=> Is(m, o, types)
      /\ Ended(r, o) <=> Is(m, o, Ends)
  BY <1>1, SingleIn, Zenon
<1> QED BY <1>2, <1>3, <1>4, Zenon

LEMMA HeadIn ==
    ASSUME NEW S, NEW s \in Seq(S), s # << >>, NEW o
    PROVE  /\ \A types : Some(s, o, types) <=> Is(Head(s), o, types) \/ Some(Tail(s), o, types)
           /\ Ended(s, o) <=> \/ Ended(Tail(s), o)
                              \/ Is(Head(s), o, Ends) /\ ~Some(Tail(s), o, Revives)
<1>1. PICK m, h, t : m = Head(s) /\ h = << m >> /\ t = Tail(s)
  OBVIOUS
<1>2. m \in S /\ t \in Seq(S) /\ h \in Seq(S)
  BY <1>1, HeadTailProperties
<1>3. s = h \o t
  <2>1. PICK u : u = h \o t
    OBVIOUS
  <2>2. /\ u \in Seq(S) /\ Len(u) = 1 + Len(t)
        /\ \A i \in 1 .. 1 + Len(t) : u[i] = IF i <= 1 THEN h[i] ELSE t[i - 1]
    BY <1>1, <1>2, <2>1, ConcatProperties
  <2>3. Len(t) = Len(s) - 1 /\ Len(s) \in Nat /\ Len(s) > 0 /\ h[1] = s[1]
        /\ \A i \in 1 .. Len(t) : t[i] = s[i + 1]
    BY <1>1, HeadTailProperties, LenProperties
  <2>4. \A i \in 1 .. Len(s) : u[i] = s[i]
    BY <2>2, <2>3
  <2>5. Len(u) = Len(s)
    BY <2>2, <2>3
  <2>6. u = s
    BY <2>2, <2>4, <2>5, SeqEqual
  <2> QED BY <2>1, <2>6
<1>4. /\ \A types : Some(h \o t, o, types) <=> Some(h, o, types) \/ Some(t, o, types)
      /\ Ended(h \o t, o) <=> Ended(t, o) \/ (Ended(h, o) /\ ~Some(t, o, Revives))
  BY <1>2, ConcatIn, Zenon
<1>5. /\ \A types : Some(h, o, types) <=> Is(m, o, types)
      /\ Ended(h, o) <=> Is(m, o, Ends)
  BY <1>1, <1>2, SingleIn, Zenon
<1> QED BY <1>1, <1>3, <1>4, <1>5, Zenon

---------------------------------------------------------------------------
(* The rows                                                                *)

On(rows, o) == o \in DOMAIN rows /\ rows[o]
Off(rows, o) == o \in DOMAIN rows /\ ~rows[o]

\* A type is one of two groups, or it is not.
LEMMA ReportTypes ==
    ASSUME NEW r \in Reports, NEW o
    PROVE  /\ Is(r, o, Types) <=> r.order = o
           /\ Is(r, o, Ends) => Is(r, o, Stops) /\ ~Is(r, o, Revives) /\ ~Is(r, o, Adds)
           /\ Is(r, o, Stops) <=> Is(r, o, Types) /\ ~Is(r, o, Actives)
  BY DEF Is, Types, Ends, Stops, Revives, Adds, Actives, Reports

\* What onExec does to a row: an end makes an inactive row, whatever was there; a row that is
\* known stays known; and a status leaves a known row alone.
LEMMA RowEffect ==
    ASSUME NEW rows, NEW r \in Reports, NEW o, NEW new, new = OnExec(rows, r)
    PROVE  /\ o \in DOMAIN rows => o \in DOMAIN new
           /\ Is(r, o, Adds) => o \in DOMAIN new
           /\ Is(r, o, Ends) => Off(new, o)
           /\ Off(rows, o) /\ ~Is(r, o, Revives) => Off(new, o)
           /\ On(new, o) => On(rows, o) \/ Is(r, o, Actives)
           /\ Off(new, o) => Off(rows, o) \/ Is(r, o, Stops)
<1> DEFINE active == r.type \notin {"2", "4", "8"}
<1>1. r.msg = "8" /\ r.type \in {"I", "0", "1", "2", "4", "8"}
  BY DEF Reports
<1>2. \A a : /\ DOMAIN Row(rows, r.order, a) = DOMAIN rows \cup {r.order}
             /\ Row(rows, r.order, a)[r.order] = a
             /\ \A x \in DOMAIN rows : x # r.order => Row(rows, r.order, a)[x] = rows[x]
  BY DEF Row
<1>3. \/ new = rows /\ (r.type = "I" => r.order \in DOMAIN rows)
         /\ r.type # "0" /\ (r.type \notin {"I"} => r.type \notin {"2", "4"} /\ r.order \notin DOMAIN rows)
      \/ new = Row(rows, r.order, TRUE) /\ r.type = "I" /\ r.order \notin DOMAIN rows
      \/ new = Row(rows, r.order, TRUE) /\ r.type \in {"0", "1"}
      \/ new = Row(rows, r.order, FALSE) /\ r.type \in {"2", "4", "8"}
  <2>1. r.type \in {"0", "1"} => (r.type \notin {"2", "4", "8"}) = TRUE
    OBVIOUS
  <2>2. r.type \in {"2", "4", "8"} => (r.type \notin {"2", "4", "8"}) = FALSE
    OBVIOUS
  <2> QED BY <1>1, <2>1, <2>2 DEF OnExec
<1>4. CASE new = rows /\ (r.type = "I" => r.order \in DOMAIN rows) /\ r.type # "0"
         /\ (r.type \notin {"I"} => r.type \notin {"2", "4"} /\ r.order \notin DOMAIN rows)
  BY <1>1, <1>4 DEF On, Off, Is, Adds, Ends, Revives, Actives, Stops
<1>5. CASE new = Row(rows, r.order, TRUE)
           /\ ((r.type = "I" /\ r.order \notin DOMAIN rows) \/ r.type \in {"0", "1"})
  <2>1. /\ DOMAIN new = DOMAIN rows \cup {r.order}
        /\ new[r.order] = TRUE
        /\ \A x \in DOMAIN rows : x # r.order => new[x] = rows[x]
    BY <1>2, <1>5
  <2>2. CASE r.order = o
    BY <1>1, <1>5, <2>1, <2>2 DEF On, Off, Is, Adds, Ends, Revives, Actives, Stops
  <2>3. CASE r.order # o
    BY <1>1, <1>5, <2>1, <2>3 DEF On, Off, Is, Adds, Ends, Revives, Actives, Stops
  <2> QED BY <2>2, <2>3
<1>6. CASE new = Row(rows, r.order, FALSE) /\ r.type \in {"2", "4", "8"}
  <2>1. /\ DOMAIN new = DOMAIN rows \cup {r.order}
        /\ new[r.order] = FALSE
        /\ \A x \in DOMAIN rows : x # r.order => new[x] = rows[x]
    BY <1>2, <1>6
  <2>2. CASE r.order = o
    BY <1>1, <1>6, <2>1, <2>2 DEF On, Off, Is, Adds, Ends, Revives, Actives, Stops
  <2>3. CASE r.order # o
    BY <1>1, <1>6, <2>1, <2>3 DEF On, Off, Is, Adds, Ends, Revives, Actives, Stops
  <2> QED BY <2>2, <2>3
<1> QED BY <1>3, <1>4, <1>5, <1>6

\* The rows of a page that has two queues before it, behind a log: an order that the log adds
\* is known or will be; an order that the log ends is inactive at the end, whichever queue is
\* served next.
Behind(rows, log, rest, ts, o) ==
    /\ Some(log, o, Adds) => o \in DOMAIN rows \/ Some(rest, o, Adds) \/ Some(ts, o, Adds)
    /\ Ended(log, o) =>
           /\ Ended(rest, o) \/ ~Some(rest, o, Revives)
           /\ Ended(ts, o) \/ ~Some(ts, o, Revives)
           /\ Ended(rest, o) \/ Ended(ts, o) \/ Off(rows, o)

\* The rows show nothing that is not in the log.
OfLog(rows, log, o) ==
    /\ On(rows, o) => Some(log, o, Actives)
    /\ Off(rows, o) => Some(log, o, Stops)

LEMMA BehindServed ==
    ASSUME NEW rows, NEW log, NEW rest, NEW ts \in Seq(Tasks), NEW o, ts # << >>,
           Head(ts) \in Reports, Behind(rows, log, rest, ts, o)
    PROVE  Behind(OnExec(rows, Head(ts)), log, rest, Tail(ts), o)
<1>1. PICK r, us, new : r = Head(ts) /\ us = Tail(ts) /\ new = OnExec(rows, r)
  OBVIOUS
<1>2. /\ \A types : Some(ts, o, types) <=> Is(r, o, types) \/ Some(us, o, types)
      /\ Ended(ts, o) <=> Ended(us, o) \/ (Is(r, o, Ends) /\ ~Some(us, o, Revives))
  BY <1>1, HeadIn, Zenon
<1>3. /\ Some(ts, o, Adds) <=> Is(r, o, Adds) \/ Some(us, o, Adds)
      /\ Some(ts, o, Revives) <=> Is(r, o, Revives) \/ Some(us, o, Revives)
  BY <1>2
<1>4. /\ o \in DOMAIN rows => o \in DOMAIN new
      /\ Is(r, o, Adds) => o \in DOMAIN new
      /\ Is(r, o, Ends) => Off(new, o)
      /\ Off(rows, o) /\ ~Is(r, o, Revives) => Off(new, o)
  BY <1>1, RowEffect
<1>5. Behind(new, log, rest, us, o)
  BY <1>2, <1>3, <1>4 DEF Behind
<1> QED BY <1>1, <1>5

LEMMA BehindSymmetric ==
    ASSUME NEW rows, NEW log, NEW rest, NEW ts, NEW o, Behind(rows, log, rest, ts, o)
    PROVE  Behind(rows, log, ts, rest, o)
  BY DEF Behind

\* A task that is a packet does not concern the rows.
LEMMA BehindPacket ==
    ASSUME NEW rows, NEW log, NEW rest, NEW ts \in Seq(Tasks), NEW o, ts # << >>,
           Head(ts).msg # "8", Behind(rows, log, rest, ts, o)
    PROVE  Behind(rows, log, rest, Tail(ts), o)
<1>1. PICK r, us : r = Head(ts) /\ us = Tail(ts)
  OBVIOUS
<1>2. /\ \A types : Some(ts, o, types) <=> Is(r, o, types) \/ Some(us, o, types)
      /\ Ended(ts, o) <=> Ended(us, o) \/ (Is(r, o, Ends) /\ ~Some(us, o, Revives))
  BY <1>1, HeadIn, Zenon
<1>3. \A types : ~Is(r, o, types)
  BY <1>1 DEF Is
<1> QED BY <1>1, <1>2, <1>3 DEF Behind

\* A report goes into the log and into the tasks, and into what is left of the replay, if that
\* is not over.
LEMMA BehindReport ==
    ASSUME NEW rows, NEW log \in Seq(Reports), NEW rest \in Seq(Reports), NEW ts \in Seq(Tasks),
           NEW o, NEW r \in Reports, NEW rest2 \in {rest, Append(rest, r)},
           Behind(rows, log, rest, ts, o), rest2 = rest => rest = << >>
    PROVE  Behind(rows, Append(log, r), rest2, Append(ts, r), o)
<1>1. PICK log2, ts2 : log2 = Append(log, r) /\ ts2 = Append(ts, r)
  OBVIOUS
<1>2. r \in Tasks
  BY MessageFields
<1>3. /\ \A types : Some(log2, o, types) <=> Some(log, o, types) \/ Is(r, o, types)
      /\ Ended(log2, o) <=> Is(r, o, Ends) \/ (Ended(log, o) /\ ~Is(r, o, Revives))
  BY <1>1, AppendIn, Zenon
<1>4. /\ \A types : Some(ts2, o, types) <=> Some(ts, o, types) \/ Is(r, o, types)
      /\ Ended(ts2, o) <=> Is(r, o, Ends) \/ (Ended(ts, o) /\ ~Is(r, o, Revives))
  BY <1>1, <1>2, AppendIn, Zenon
<1>5. CASE rest2 = rest
  <2>1. ~Some(rest2, o, Adds) /\ ~Some(rest2, o, Revives) /\ ~Ended(rest2, o)
    BY <1>5, NothingIn
  <2> QED BY <1>1, <1>3, <1>4, <1>5, <2>1 DEF Behind
<1>6. CASE rest2 = Append(rest, r)
  <2>1. /\ \A types : Some(rest2, o, types) <=> Some(rest, o, types) \/ Is(r, o, types)
        /\ Ended(rest2, o) <=> Is(r, o, Ends) \/ (Ended(rest, o) /\ ~Is(r, o, Revives))
    BY <1>6, AppendIn, Zenon
  <2> QED BY <1>1, <1>3, <1>4, <2>1 DEF Behind
<1> QED BY <1>5, <1>6

\* The broadcast of a packet.
LEMMA BehindBroadcast ==
    ASSUME NEW rows, NEW log, NEW rest, NEW ts \in Seq(Tasks), NEW o, NEW t \in Tasks,
           t.msg # "8", Behind(rows, log, rest, ts, o)
    PROVE  Behind(rows, log, rest, Append(ts, t), o)
<1>1. PICK ts2 : ts2 = Append(ts, t)
  OBVIOUS
<1>2. /\ \A types : Some(ts2, o, types) <=> Some(ts, o, types) \/ Is(t, o, types)
      /\ Ended(ts2, o) <=> Is(t, o, Ends) \/ (Ended(ts, o) /\ ~Is(t, o, Revives))
  BY <1>1, AppendIn, Zenon
<1>3. \A types : ~Is(t, o, types)
  BY DEF Is
<1> QED BY <1>1, <1>2, <1>3 DEF Behind

\* A page that connects has the whole log before it.
LEMMA BehindAtFirst ==
    ASSUME NEW rows, NEW log, NEW o
    PROVE  Behind(rows, log, log, << >>, o)
  BY NothingIn DEF Behind

\* The rows after a report of the log.
LEMMA OfLogServed ==
    ASSUME NEW rows, NEW log, NEW o, NEW r \in Reports, NEW i \in 1 .. Len(log), log[i] = r,
           OfLog(rows, log, o)
    PROVE  OfLog(OnExec(rows, r), log, o)
<1>1. PICK new : new = OnExec(rows, r)
  OBVIOUS
<1>2. /\ On(new, o) => On(rows, o) \/ Is(r, o, Actives)
      /\ Off(new, o) => Off(rows, o) \/ Is(r, o, Stops)
  BY <1>1, RowEffect
<1>3. \A types : Is(r, o, types) => Some(log, o, types)
  BY DEF Some
<1> QED BY <1>1, <1>2, <1>3 DEF OfLog

LEMMA OfLogReport ==
    ASSUME NEW rows, NEW log \in Seq(Reports), NEW o, NEW r \in Reports, OfLog(rows, log, o)
    PROVE  OfLog(rows, Append(log, r), o)
<1>1. \A types : Some(log, o, types) => Some(Append(log, r), o, types)
  BY AppendIn, Zenon
<1> QED BY <1>1, Zenon DEF OfLog

---------------------------------------------------------------------------
(* The page behind the log                                                 *)

\* What websocket_endpoint still has to send of the log.
Rest == IF ws = "replay" THEN SubSeq(exec_log, at, Len(exec_log)) ELSE << >>

TasksOfLog ==
    \A i \in 1 .. Len(tasks) :
        tasks[i].msg = "8" => \E j \in 1 .. Len(exec_log) : exec_log[j] = tasks[i]

RowsFollow ==
    /\ ws = "replay" => at \in 1 .. Len(exec_log) + 1
    /\ TasksOfLog
    /\ \A o \in Orders : OfLog(orders, exec_log, o)
    /\ ws # "closed" => \A o \in Orders : Behind(orders, exec_log, Rest, tasks, o)

\* The rest of the replay, report by report.
LEMMA RestNext ==
    ASSUME NEW log \in Seq(Reports), NEW n \in Nat, n = Len(log), NEW k \in 1 .. n + 1
    PROVE  /\ SubSeq(log, k, n) \in Seq(Reports)
           /\ k = n + 1 => SubSeq(log, k, n) = << >>
           /\ k = 1 => SubSeq(log, k, n) = log
           /\ k <= n => /\ SubSeq(log, k, n) # << >>
                        /\ Head(SubSeq(log, k, n)) = log[k]
                        /\ Tail(SubSeq(log, k, n)) = SubSeq(log, k + 1, n)
           /\ \A r \in Reports :
                  SubSeq(Append(log, r), k, n + 1) = Append(SubSeq(log, k, n), r)
<1> DEFINE s == SubSeq(log, k, n)
<1>1. \A i \in 1 .. n : log[i] \in Reports
  BY LenProperties
<1>2. k \in Int /\ n \in Int /\ \A i \in k .. n : log[i] \in Reports
  BY <1>1
<1>3. /\ s \in Seq(Reports)
      /\ Len(s) = IF k <= n THEN n - k + 1 ELSE 0
      /\ \A i \in 1 .. n - k + 1 : s[i] = log[k + i - 1]
  BY <1>2, SubSeqProperties
<1>4. Len(s) = n - k + 1
  BY <1>3
<1> HIDE DEF s
<1>5. k = n + 1 => s = << >>
  BY <1>3, <1>4
<1>6. k = 1 => s = log
  <2>1. SUFFICES ASSUME k = 1 PROVE s = log
    OBVIOUS
  <2>2. Len(s) = Len(log) /\ \A i \in 1 .. Len(s) : s[i] = log[i]
    BY <1>3, <1>4, <2>1
  <2> QED BY <1>3, <2>2, SeqEqual
<1>7. ASSUME k <= n PROVE s # << >> /\ Head(s) = log[k] /\ Tail(s) = SubSeq(log, k + 1, n)
  <2>1. s # << >> /\ Head(s) = log[k]
    BY <1>3, <1>4, <1>7
  <2>2. PICK t, u : t = Tail(s) /\ u = SubSeq(log, k + 1, n)
    OBVIOUS
  <2>3. t \in Seq(Reports) /\ Len(t) = n - k /\ \A i \in 1 .. n - k : t[i] = s[i + 1]
    BY <1>3, <1>4, <2>1, <2>2, HeadTailProperties
  <2>4. k + 1 \in Int /\ \A i \in (k + 1) .. n : log[i] \in Reports
    BY <1>1
  <2>5. /\ u \in Seq(Reports)
        /\ Len(u) = IF k + 1 <= n THEN n - (k + 1) + 1 ELSE 0
        /\ \A i \in 1 .. n - (k + 1) + 1 : u[i] = log[(k + 1) + i - 1]
    BY <1>2, <2>2, <2>4, SubSeqProperties
  <2>6. Len(u) = n - k /\ \A i \in 1 .. n - k : u[i] = s[i + 1]
    BY <1>3, <1>7, <2>5
  <2>7. Len(t) = Len(u) /\ \A i \in 1 .. Len(t) : t[i] = u[i]
    BY <2>3, <2>6
  <2>8. t = u
    BY <2>3, <2>5, <2>7, SeqEqual
  <2> QED BY <2>1, <2>2, <2>8
<1>8. ASSUME NEW r \in Reports PROVE SubSeq(Append(log, r), k, n + 1) = Append(s, r)
  <2>1. PICK l, p, t, u : l = Append(log, r) /\ p = n + 1 /\ t = SubSeq(l, k, p) /\ u = Append(s, r)
    OBVIOUS
  <2>2. PICK d : d \in Nat /\ d = n - k + 1
    OBVIOUS
  <2>3. Len(s) = d /\ \A i \in 1 .. d : s[i] = log[k + i - 1]
    BY <1>3, <1>4, <2>2
  <2>4. (\A i \in 1 .. n : l[i] = log[i]) /\ l[n + 1] = r
    BY <2>1, AppendProperties
  <2>5. \A i \in k .. p : l[i] \in Reports
    BY <1>1, <2>1, <2>4
  <2>6. p \in Int /\ p - k + 1 = d + 1 /\ k <= p
    BY <2>1, <2>2
  <2>7. /\ t \in Seq(Reports) /\ Len(t) = IF k <= p THEN p - k + 1 ELSE 0
        /\ \A i \in 1 .. p - k + 1 : t[i] = l[k + i - 1]
    <3>1. k \in Int /\ p \in Int
      BY <1>2, <2>6
    <3>2. /\ SubSeq(l, k, p) \in Seq(Reports)
          /\ Len(SubSeq(l, k, p)) = IF k <= p THEN p - k + 1 ELSE 0
          /\ \A i \in 1 .. p - k + 1 : SubSeq(l, k, p)[i] = l[k + i - 1]
      BY <2>5, <3>1, SubSeqProperties
    <3> QED BY <2>1, <3>2
  <2>8. Len(t) = d + 1 /\ \A i \in 1 .. d + 1 : t[i] = l[k + i - 1]
    BY <2>6, <2>7
  <2>9. /\ u \in Seq(Reports) /\ Len(u) = d + 1 /\ u[d + 1] = r
        /\ \A i \in 1 .. d : u[i] = s[i]
    BY <1>3, <2>1, <2>3, AppendProperties
  <2>10. ASSUME NEW i \in 1 .. d + 1 PROVE t[i] = u[i]
    <3>1. CASE i = d + 1
      <4>1. k + i - 1 = n + 1
        BY <2>2, <3>1
      <4> QED BY <2>4, <2>8, <2>9, <3>1, <4>1
    <3>2. CASE i \in 1 .. d
      <4>1. k + i - 1 \in 1 .. n
        BY <2>2, <3>2
      <4> QED BY <2>3, <2>4, <2>8, <2>9, <3>2, <4>1
    <3> QED BY <2>2, <3>1, <3>2
  <2>11. Len(t) = Len(u) /\ \A i \in 1 .. Len(t) : t[i] = u[i]
    BY <2>8, <2>9, <2>10
  <2>12. t = u
    BY <2>7, <2>9, <2>11, SeqEqual
  <2> QED BY <2>1, <2>12
<1> QED BY <1>3, <1>5, <1>6, <1>7, <1>8 DEF s

\* A step that neither the log nor the page takes part in.
LEMMA RowsQuiet ==
    ASSUME RowsFollow, UNCHANGED << orders, ws, at, exec_log, tasks >>
    PROVE  RowsFollow'
  BY DEF RowsFollow, TasksOfLog, Rest

\* A report that lifespan or the reader has taken goes into the log, and to a connected page.
LEMMA RowsReport ==
    ASSUME UInv, RowsFollow, NEW r \in Reports, exec_log' = Append(exec_log, r), Broadcast(r),
           UNCHANGED << orders, ws, at >>
    PROVE  RowsFollow'
<1>1. exec_log \in Seq(Reports) /\ tasks \in Seq(Tasks) /\ r \in Tasks
      /\ (ws = "closed" => tasks = << >>)
  BY MessageFields DEF UInv, UiTypeOK, Follows
<1>2. PICK n : n = Len(exec_log) /\ n \in Nat
  BY <1>1, LenProperties
<1>3. Len(exec_log') = n + 1 /\ exec_log'[n + 1] = r /\ \A i \in 1 .. n : exec_log'[i] = exec_log[i]
  BY <1>1, <1>2, AppendProperties
<1>4. \A o \in Orders : OfLog(orders', exec_log', o)
  BY <1>1, OfLogReport DEF RowsFollow
<1>5. CASE ws = "closed"
  <2>1. tasks' = << >>
    BY <1>1, <1>5 DEF Broadcast
  <2> QED BY <1>4, <1>5, <2>1 DEF RowsFollow, TasksOfLog
<1>6. CASE ws # "closed"
  <2>1. tasks' = Append(tasks, r)
    BY <1>6 DEF Broadcast
  <2>2. TasksOfLog'
    <3>1. PICK m : m = Len(tasks) /\ m \in Nat
      BY <1>1, LenProperties
    <3>2. Len(tasks') = m + 1 /\ tasks'[m + 1] = r /\ \A i \in 1 .. m : tasks'[i] = tasks[i]
      BY <1>1, <2>1, <3>1, AppendProperties
    <3>3. ASSUME NEW i \in 1 .. m + 1, tasks'[i].msg = "8"
          PROVE  \E j \in 1 .. n + 1 : exec_log'[j] = tasks'[i]
      <4>1. CASE i = m + 1
        BY <1>2, <1>3, <3>2, <4>1
      <4>2. CASE i \in 1 .. m
        <5>1. PICK j \in 1 .. n : exec_log[j] = tasks[i]
          BY <1>2, <3>1, <3>2, <3>3, <4>2 DEF RowsFollow, TasksOfLog
        <5> QED BY <1>2, <1>3, <3>2, <4>2, <5>1
      <4>3. i = m + 1 \/ i \in 1 .. m
        BY <3>1
      <4> QED BY <4>1, <4>2, <4>3
    <3> QED BY <1>3, <3>2, <3>3 DEF TasksOfLog
  <2>3. /\ Rest \in Seq(Reports) /\ Rest' \in {Rest, Append(Rest, r)}
        /\ Rest' = Rest => Rest = << >>
        /\ ws' = "replay" => at' \in 1 .. Len(exec_log') + 1
    <3>1. CASE ws = "replay"
      <4>1. at \in 1 .. n + 1
        BY <1>2, <3>1 DEF RowsFollow
      <4>2. Rest = SubSeq(exec_log, at, n) /\ Rest' = SubSeq(Append(exec_log, r), at, n + 1)
        BY <1>2, <1>3, <3>1 DEF Rest
      <4>3. Rest \in Seq(Reports) /\ Rest' = Append(Rest, r)
        BY <1>1, <1>2, <4>1, <4>2, RestNext
      <4>4. Rest' # Rest
        <5>1. Len(Append(Rest, r)) = Len(Rest) + 1 /\ Len(Rest) \in Nat
          BY <4>3, AppendProperties, LenProperties
        <5> QED BY <4>3, <5>1
      <4> QED BY <1>2, <1>3, <4>1, <4>3, <4>4
    <3>2. CASE ws # "replay"
      <4>1. << >> \in Seq(Reports) /\ Rest = << >> /\ Rest' = << >>
        BY <3>2, EmptySeq DEF Rest
      <4> QED BY <3>2, <4>1
    <3> QED BY <3>1, <3>2
  <2>4. \A o \in Orders : Behind(orders', exec_log', Rest', tasks', o)
    BY <1>1, <1>6, <2>1, <2>3, BehindReport DEF RowsFollow
  <2> QED BY <1>4, <2>2, <2>3, <2>4 DEF RowsFollow
<1> QED BY <1>5, <1>6

\* A packet is broadcast.
LEMMA RowsPacket ==
    ASSUME UInv, RowsFollow, NEW t \in Tasks, t.msg # "8", Broadcast(t),
           UNCHANGED << orders, ws, at, exec_log >>
    PROVE  RowsFollow'
<1>1. tasks \in Seq(Tasks) /\ Rest' = Rest
  BY DEF UInv, UiTypeOK, Rest
<1>2. CASE ws = "closed"
  <2>1. tasks' = tasks
    BY <1>2 DEF Broadcast
  <2> QED BY <2>1, RowsQuiet
<1>3. CASE ws # "closed"
  <2>1. tasks' = Append(tasks, t)
    BY <1>3 DEF Broadcast
  <2>2. TasksOfLog'
    <3>1. PICK m : m = Len(tasks) /\ m \in Nat
      BY <1>1, LenProperties
    <3>2. Len(tasks') = m + 1 /\ tasks'[m + 1] = t /\ \A i \in 1 .. m : tasks'[i] = tasks[i]
      BY <1>1, <2>1, <3>1, AppendProperties
    <3>3. \A i \in 1 .. m + 1 : i = m + 1 \/ i \in 1 .. m
      BY <3>1
    <3> QED BY <3>1, <3>2, <3>3 DEF RowsFollow, TasksOfLog
  <2>3. \A o \in Orders : Behind(orders', exec_log', Rest', tasks', o)
    BY <1>1, <1>3, <2>1, BehindBroadcast DEF RowsFollow
  <2> QED BY <2>2, <2>3 DEF RowsFollow
<1> QED BY <1>2, <1>3

\* The connection ends.
LEMMA RowsGone ==
    ASSUME RowsFollow, Gone, UNCHANGED << orders, exec_log >>
    PROVE  RowsFollow'
  BY DEF RowsFollow, TasksOfLog, Gone

LEMMA RowsConnect ==
    ASSUME UInv, RowsFollow, Connect
    PROVE  RowsFollow'
<1>1. /\ ws = "closed" /\ ws' = "replay" /\ at' = 1
      /\ UNCHANGED << exec_log, tasks >>
      /\ orders' = Empty \/ UNCHANGED orders
  BY DEF Connect, servervars
<1>2. exec_log \in Seq(Reports) /\ Len(exec_log) \in Nat /\ tasks = << >>
  BY <1>1, LenProperties DEF UInv, UiTypeOK, Follows
<1>3. 1 \in 1 .. Len(exec_log) + 1 /\ Rest' = SubSeq(exec_log, 1, Len(exec_log))
  BY <1>1, <1>2 DEF Rest
<1>4. Rest' = exec_log
  BY <1>2, <1>3, RestNext
<1>5. TasksOfLog'
  BY <1>1, <1>2 DEF TasksOfLog
<1>6. \A o \in Orders : Behind(orders', exec_log', Rest', tasks', o)
  BY <1>1, <1>2, <1>4, BehindAtFirst
<1>7. \A o \in Orders : OfLog(orders', exec_log', o)
  <2>1. CASE UNCHANGED orders
    BY <1>1, <2>1 DEF RowsFollow
  <2>2. CASE orders' = Empty
    <3>1. DOMAIN Empty = {}
      BY DEF Empty
    <3> QED BY <2>2, <3>1 DEF OfLog, On, Off
  <2> QED BY <1>1, <2>1, <2>2
<1> QED BY <1>1, <1>3, <1>5, <1>6, <1>7 DEF RowsFollow

LEMMA RowsReplay ==
    ASSUME UInv, RowsFollow, Replay
    PROVE  RowsFollow'
<1>1. PICK n, r : n = Len(exec_log) /\ r = exec_log[at]
  OBVIOUS
<1>2. /\ ws = "replay" /\ at <= n /\ orders' = OnExec(orders, r) /\ at' = at + 1
      /\ UNCHANGED << ws, exec_log, tasks >>
  BY <1>1 DEF Replay, servervars
<1>3. /\ exec_log \in Seq(Reports) /\ n \in Nat /\ tasks \in Seq(Tasks) /\ at \in 1 .. n + 1
      /\ at \in 1 .. n
  BY <1>1, <1>2, LenProperties DEF UInv, UiTypeOK, RowsFollow
<1>4. r \in Reports
  BY <1>1, <1>3, LenProperties
<1>5. PICK s : s = Rest /\ s \in Seq(Reports) /\ s # << >> /\ Head(s) = r /\ Tail(s) = Rest'
  <2>1. Rest = SubSeq(exec_log, at, n) /\ Rest' = SubSeq(exec_log, at + 1, n)
    BY <1>1, <1>2 DEF Rest
  <2>2. /\ SubSeq(exec_log, at, n) \in Seq(Reports) /\ SubSeq(exec_log, at, n) # << >>
        /\ Head(SubSeq(exec_log, at, n)) = exec_log[at]
        /\ Tail(SubSeq(exec_log, at, n)) = SubSeq(exec_log, at + 1, n)
    BY <1>1, <1>2, <1>3, RestNext
  <2> QED BY <1>1, <2>1, <2>2
<1>6. s \in Seq(Tasks)
  <2>1. Reports \subseteq Tasks
    BY DEF Tasks
  <2> QED BY <1>5, <2>1, SeqMonotonic
<1>7. ASSUME NEW o \in Orders PROVE Behind(orders', exec_log', Rest', tasks', o)
  <2>1. Behind(orders, exec_log, tasks, s, o)
    BY <1>2, <1>5, BehindSymmetric DEF RowsFollow
  <2>2. Behind(OnExec(orders, Head(s)), exec_log, tasks, Tail(s), o)
    BY <1>4, <1>5, <1>6, <2>1, BehindServed
  <2>3. Behind(orders', exec_log, tasks, Rest', o)
    BY <1>2, <1>5, <2>2
  <2> QED BY <1>2, <2>3, BehindSymmetric
<1>8. \A o \in Orders : OfLog(orders', exec_log', o)
  BY <1>1, <1>2, <1>3, <1>4, OfLogServed DEF RowsFollow
<1>9. at' \in 1 .. Len(exec_log') + 1
  BY <1>1, <1>2, <1>3
<1>10. TasksOfLog'
  BY <1>2 DEF RowsFollow, TasksOfLog
<1> QED BY <1>2, <1>7, <1>8, <1>9, <1>10 DEF RowsFollow

LEMMA RowsSnapshot ==
    ASSUME UInv, RowsFollow, SendSnapshot
    PROVE  RowsFollow'
<1>1. /\ ws = "replay" /\ at > Len(exec_log) /\ ws' = "open"
      /\ UNCHANGED << orders, exec_log, tasks >>
  BY DEF SendSnapshot, servervars
<1>2. exec_log \in Seq(Reports) /\ Len(exec_log) \in Nat /\ at \in 1 .. Len(exec_log) + 1
  BY <1>1, LenProperties DEF UInv, UiTypeOK, RowsFollow
<1>3. at = Len(exec_log) + 1
  BY <1>1, <1>2
<1>4. Rest = << >>
  <2>1. SubSeq(exec_log, at, Len(exec_log)) = << >>
    BY <1>2, <1>3, RestNext
  <2> QED BY <1>1, <2>1 DEF Rest
<1>5. Rest' = Rest
  BY <1>1, <1>4 DEF Rest
<1> QED BY <1>1, <1>5 DEF RowsFollow, TasksOfLog

LEMMA RowsSafeSend ==
    ASSUME UInv, RowsFollow, SafeSend
    PROVE  RowsFollow'
<1>1. PICK t : t = Head(tasks)
  OBVIOUS
<1>2. /\ tasks # << >> /\ tasks' = Tail(tasks)
      /\ orders' = IF t.msg = "8" THEN OnExec(orders, t) ELSE orders
      /\ UNCHANGED << ws, at, exec_log >>
  BY <1>1 DEF SafeSend, servervars
<1>3. tasks \in Seq(Tasks) /\ t \in Tasks /\ (ws = "closed" => tasks = << >>)
  BY <1>1, <1>2, HeadTailProperties DEF UInv, UiTypeOK, Follows
<1>4. Rest' = Rest /\ ws # "closed"
  BY <1>2, <1>3 DEF Rest
<1>5. PICK m : m = Len(tasks) /\ m \in Nat /\ m > 0 /\ t = tasks[1]
      /\ Len(tasks') = m - 1 /\ \A i \in 1 .. m - 1 : tasks'[i] = tasks[i + 1]
  BY <1>1, <1>2, <1>3, HeadTailProperties, LenProperties
<1>6. TasksOfLog'
  <2>1. \A i \in 1 .. m - 1 : i + 1 \in 1 .. m
    BY <1>5
  <2> QED BY <1>2, <1>5, <2>1 DEF RowsFollow, TasksOfLog
<1>7. CASE t.msg = "8"
  <2>1. t \in Reports
    BY <1>3, <1>7 DEF Tasks
  <2>2. \A o \in Orders : Behind(orders', exec_log', Rest', tasks', o)
    BY <1>1, <1>2, <1>3, <1>4, <1>7, <2>1, BehindServed DEF RowsFollow
  <2>3. PICK j \in 1 .. Len(exec_log) : exec_log[j] = t
    BY <1>5, <1>7 DEF RowsFollow, TasksOfLog
  <2>4. \A o \in Orders : OfLog(orders', exec_log', o)
    BY <1>2, <1>7, <2>1, <2>3, OfLogServed DEF RowsFollow
  <2> QED BY <1>2, <1>6, <2>2, <2>4 DEF RowsFollow
<1>8. CASE t.msg # "8"
  <2>1. \A o \in Orders : Behind(orders', exec_log', Rest', tasks', o)
    BY <1>1, <1>2, <1>3, <1>4, <1>8, BehindPacket DEF RowsFollow
  <2> QED BY <1>2, <1>6, <1>8, <2>1 DEF RowsFollow
<1> QED BY <1>7, <1>8

LEMMA RowsStep ==
    ASSUME UInv, Served, RowsFollow, [Next]_vars
    PROVE  RowsFollow'
<1>1. CASE Exchange
  <2>1. UNCHANGED << servervars, pagevars >>
    BY <1>1, ExchTypes DEF UInv
  <2> QED BY <2>1, RowsQuiet DEF servervars, pagevars
<1>2. CASE Startup \/ LogonAnswer \/ DrainEnds \/ WaitRecv \/ WaitTimeout \/ StartupRaises
           \/ Shutdown \/ ReaderRaises
  <2>1. UNCHANGED << pagevars, exec_log >>
    BY <1>2 DEF Startup, LogonAnswer, DrainEnds, WaitRecv, WaitTimeout, StartupRaises, Shutdown,
       ReaderRaises
  <2> QED BY <2>1, RowsQuiet DEF pagevars
<1>3. CASE DrainRecv
  <2>1. Head(wire) \in Reports /\ ws = "closed" /\ UNCHANGED pagevars
    BY <1>3, RecvOK, MessageFields DEF DrainRecv, UInv, Served
  <2>2. CASE exec_log' = Append(exec_log, Head(wire))
    BY <2>1, <2>2, RowsReport DEF Broadcast, pagevars
  <2>3. CASE UNCHANGED exec_log
    BY <2>1, <2>3, RowsQuiet DEF pagevars
  <2> QED BY <1>3, <2>2, <2>3 DEF DrainRecv
<1>4. CASE ReaderRecv
  <2>1. UNCHANGED << ws, at, orders >>
    BY <1>4 DEF ReaderRecv
  <2>2. CASE UNCHANGED << exec_log, tasks >>
    BY <2>1, <2>2, RowsQuiet
  <2>3. CASE Recv("8") /\ exec_log' = Append(exec_log, Head(wire)) /\ Broadcast(Head(wire))
    <3>1. Head(wire) \in Reports
      BY <2>3, RecvOK, MessageFields DEF UInv
    <3> QED BY <2>1, <2>3, <3>1, RowsReport
  <2> QED BY <1>4, <2>2, <2>3 DEF ReaderRecv
<1>5. CASE DatagramReceived
  <2>1. PICK t : t = [msg |-> "md", pkt |-> Head(udp)] /\ t \in Tasks
    BY <1>5, HeadTailProperties, MessageFields DEF DatagramReceived, UInv, UiTypeOK
  <2>2. t.msg # "8"
    BY <2>1
  <2>3. Broadcast(t) /\ UNCHANGED << ws, at, orders, exec_log >>
    BY <1>5, <2>1 DEF DatagramReceived
  <2> QED BY <2>1, <2>2, <2>3, RowsPacket
<1>6. CASE Disconnect
  BY <1>6, RowsGone DEF Disconnect, servervars
<1>7. ASSUME NEW o \in Orders, NewOrder(o) \/ CancelOrder(o) PROVE RowsFollow'
  <2>1. /\ UNCHANGED << orders, exec_log >>
        /\ Gone \/ UNCHANGED << ws, at, tasks >>
    BY <1>7 DEF NewOrder, CancelOrder, Request, servervars
  <2> QED BY <2>1, RowsGone, RowsQuiet
<1>8. CASE Over \/ UNCHANGED vars
  BY <1>8, RowsQuiet DEF Over, vars, servervars, pagevars
<1>9. CASE Page
  BY <1>6, <1>7, <1>9, RowsConnect, RowsReplay, RowsSnapshot, RowsSafeSend DEF Page
<1> QED BY <1>1, <1>2, <1>3, <1>4, <1>5, <1>8, <1>9 DEF Next, Server

---------------------------------------------------------------------------
(* The session                                                             *)

\* An order is under way at most once, and the exchange does not have it yet.
SentOnce(q, open) ==
    \A i \in 1 .. Len(q) : q[i].msg = "D" =>
        /\ open[q[i].order] = NotYet
        /\ \A j \in 1 .. Len(q) : q[j] = q[i] => i = j

NoLogon(q) == \A i \in 1 .. Len(q) : q[i].msg # "A"

\* There is one logon, it comes first, and nothing is under way before it; the open orders
\* are copied by it and told before it ends.
Logon ==
    /\ link = "down" =>
           /\ phase \in {"off", "logon", "failed"}
           /\ wire = << >> /\ exec_log = << >> /\ statuses = {} /\ ~onLogon
           /\ toExch = IF phase = "logon" THEN << [msg |-> "A"] >> ELSE << >>
    /\ link # "down" => phase # "off" /\ NoLogon(toExch)
    /\ statuses # {} => onLogon
    /\ SentOnce(toExch, leaves)

LEMMA EmptyQueue ==
    ASSUME NEW open
    PROVE  NoLogon(<< >>) /\ SentOnce(<< >>, open)
  BY DEF NoLogon, SentOnce

\* The exchange takes the first message.  When it is an order, the same order does not follow.
LEMMA QueueTail ==
    ASSUME NEW q \in Seq(ToExch), q # << >>, NEW open, SentOnce(q, open)
    PROVE  /\ SentOnce(Tail(q), open)
           /\ NoLogon(q) => NoLogon(Tail(q)) /\ Head(q).msg # "A"
           /\ Head(q).msg = "D" =>
                  /\ open[Head(q).order] = NotYet
                  /\ \A i \in 1 .. Len(Tail(q)) :
                         Tail(q)[i].msg = "D" => Tail(q)[i].order # Head(q).order
<1>1. PICK n, h, t : n = Len(q) /\ h = Head(q) /\ t = Tail(q)
  OBVIOUS
<1>2. /\ n \in Nat /\ n > 0 /\ h = q[1] /\ t \in Seq(ToExch) /\ Len(t) = n - 1
      /\ \A i \in 1 .. n - 1 : t[i] = q[i + 1] /\ i + 1 \in 1 .. n
      /\ \A i \in 1 .. n : q[i] \in ToExch
  BY <1>1, LenProperties, HeadTailProperties
<1>3. SentOnce(t, open)
  <2>1. ASSUME NEW i \in 1 .. n - 1, t[i].msg = "D"
        PROVE  open[t[i].order] = NotYet /\ \A j \in 1 .. n - 1 : t[j] = t[i] => i = j
    <3>1. PICK k : k = i + 1 /\ k \in 1 .. n /\ q[k] = t[i]
      BY <1>2
    <3>2. open[q[k].order] = NotYet /\ \A j \in 1 .. n : q[j] = q[k] => k = j
      BY <1>1, <2>1, <3>1 DEF SentOnce
    <3>3. ASSUME NEW j \in 1 .. n - 1, t[j] = t[i] PROVE i = j
      <4>1. j + 1 \in 1 .. n /\ q[j + 1] = q[k]
        BY <1>2, <3>1, <3>3
      <4>2. k = j + 1
        BY <3>2, <4>1
      <4> QED BY <3>1, <4>2
    <3> QED BY <3>1, <3>2, <3>3
  <2> QED BY <1>2, <2>1 DEF SentOnce
<1>4. NoLogon(q) => NoLogon(t) /\ h.msg # "A"
  BY <1>1, <1>2 DEF NoLogon
<1>5. ASSUME h.msg = "D"
      PROVE  open[h.order] = NotYet /\ \A i \in 1 .. Len(t) : t[i].msg = "D" => t[i].order # h.order
  <2>1. open[h.order] = NotYet /\ \A j \in 1 .. n : q[j] = h => j = 1
    BY <1>1, <1>2, <1>5 DEF SentOnce
  <2>2. ASSUME NEW i \in 1 .. n - 1, t[i].msg = "D", t[i].order = h.order PROVE FALSE
    <3>1. t[i] \in [msg : {"D", "F"}, order : Orders] /\ h \in [msg : {"D", "F"}, order : Orders]
      BY <1>2, <1>5, <2>2 DEF ToExch
    <3>2. q[i + 1] = h /\ i + 1 \in 1 .. n
      BY <1>2, <1>5, <2>2, <3>1
    <3> QED BY <2>1, <3>2
  <2> QED BY <1>2, <2>1, <2>2
<1> QED BY <1>1, <1>3, <1>4, <1>5

LEMMA QueueAppend ==
    ASSUME NEW q \in Seq(ToExch), NEW m \in ToExch, NEW open, SentOnce(q, open),
           m.msg = "D" => open[m.order] = NotYet /\ \A i \in 1 .. Len(q) : q[i] # m
    PROVE  /\ SentOnce(Append(q, m), open)
           /\ m.msg # "A" /\ NoLogon(q) => NoLogon(Append(q, m))
<1>1. PICK n, p : n = Len(q) /\ p = Append(q, m)
  OBVIOUS
<1>2. /\ n \in Nat /\ Len(p) = n + 1 /\ p[n + 1] = m
      /\ \A i \in 1 .. n : p[i] = q[i]
      /\ \A i \in 1 .. n + 1 : i \in 1 .. n \/ i = n + 1
  BY <1>1, LenProperties, AppendProperties
<1>3. SentOnce(p, open)
  <2>1. ASSUME NEW i \in 1 .. n + 1, p[i].msg = "D"
        PROVE  open[p[i].order] = NotYet /\ \A j \in 1 .. n + 1 : p[j] = p[i] => i = j
    <3>1. CASE i = n + 1
      BY <1>1, <1>2, <2>1, <3>1
    <3>2. CASE i \in 1 .. n
      <4>1. open[q[i].order] = NotYet /\ \A j \in 1 .. n : q[j] = q[i] => i = j
        BY <1>1, <1>2, <2>1, <3>2 DEF SentOnce
      <4>2. p[n + 1] # p[i]
        BY <1>1, <1>2, <2>1, <3>2
      <4> QED BY <1>2, <3>2, <4>1, <4>2
    <3> QED BY <1>2, <3>1, <3>2
  <2> QED BY <1>2, <2>1 DEF SentOnce
<1>4. m.msg # "A" /\ NoLogon(q) => NoLogon(p)
  BY <1>1, <1>2 DEF NoLogon
<1> QED BY <1>1, <1>3, <1>4

\* The exchange changes an order that it has, or one that is not under way any more.
LEMMA QueueLeaves ==
    ASSUME NEW q, NEW open, NEW open2, SentOnce(q, open),
           \A i \in 1 .. Len(q) : q[i].msg = "D" => open2[q[i].order] = open[q[i].order]
    PROVE  SentOnce(q, open2)
  BY DEF SentOnce

\* A step of the exchange after the logon.
LEMMA ExchAfterLogon ==
    ASSUME UInv, Logon, link # "down", Exchange
    PROVE  Logon'
<1>1. toExch \in Seq(ToExch) /\ phase # "off" /\ NoLogon(toExch) /\ SentOnce(toExch, leaves)
      /\ (statuses # {} => onLogon)
  BY DEF UInv, UiTypeOK, Logon
<1>2. phase' = phase
  BY ExchTypes DEF UInv, servervars
<1>3. leaves \in [Orders -> 0 .. NotYet] /\ NotYet \in Nat /\ NotYet = Qty + 1 /\ Qty \in Nat
  BY UiAssumption DEF UInv, UiTypeOK, NotYet
<1>4. ASSUME NEW type, Handles(type)
      PROVE  /\ toExch # << >> /\ Head(toExch).msg = type /\ toExch' = Tail(toExch)
             /\ NoLogon(toExch') /\ SentOnce(toExch', leaves)
             /\ toExch' \in Seq(ToExch) /\ Head(toExch) \in ToExch
  BY <1>1, <1>4, QueueTail, HeadTailProperties DEF Handles
<1>5. ASSUME NEW o \in Orders, leaves[o] # NotYet, NEW n, leaves' = [leaves EXCEPT ![o] = n],
             NEW q \in Seq(ToExch), SentOnce(q, leaves)
      PROVE  SentOnce(q, leaves')
  <2>1. ASSUME NEW i \in 1 .. Len(q), q[i].msg = "D" PROVE leaves'[q[i].order] = leaves[q[i].order]
    <3>1. q[i] \in ToExch
      BY LenProperties
    <3>2. q[i].order \in Orders /\ leaves[q[i].order] = NotYet
      BY <1>5, <2>1, <3>1, MessageFields DEF SentOnce
    <3> QED BY <1>3, <1>5, <3>2
  <2> HIDE <1>5
  <2> QED BY <1>5, <2>1, QueueLeaves
<1>6. CASE ExchLogon
  BY <1>1, <1>6, QueueTail DEF ExchLogon
<1>7. ASSUME NEW o \in Orders, ExchStatus(o) PROVE Logon'
  BY <1>1, <1>2, <1>7 DEF ExchStatus, Logon
<1>8. CASE ExchHistory
  BY <1>1, <1>2, <1>8 DEF ExchHistory, Logon
<1>9. CASE ExchSnapshot
  BY <1>1, <1>2, <1>4, <1>9 DEF ExchSnapshot, exchvars, Logon
<1>10. CASE ExchNew
  <2>1. PICK o, q : o = Head(toExch).order /\ q = Tail(toExch)
    OBVIOUS
  <2>2. Handles("D") /\ UNCHANGED << link, statuses, onLogon >>
        /\ \E n : leaves' = [leaves EXCEPT ![o] = n]
    BY <1>10, <2>1 DEF ExchNew
  <2>3. PICK n : leaves' = [leaves EXCEPT ![o] = n]
    BY <2>2
  <2>4. q \in Seq(ToExch) /\ SentOnce(q, leaves) /\ toExch' = q
        /\ \A i \in 1 .. Len(q) : q[i].msg = "D" => q[i].order # o
    BY <1>1, <1>4, <2>1, <2>2, QueueTail
  <2>5. ASSUME NEW i \in 1 .. Len(q), q[i].msg = "D" PROVE leaves'[q[i].order] = leaves[q[i].order]
    <3>1. PICK x : x = q[i].order
      OBVIOUS
    <3>2. x \in Orders /\ x # o
      <4>1. q[i] \in ToExch
        BY <2>4, LenProperties
      <4> QED BY <2>4, <2>5, <3>1, <4>1, MessageFields
    <3>3. leaves'[x] = leaves[x]
      BY <1>3, <2>3, <3>2
    <3> QED BY <3>1, <3>3
  <2>6. SentOnce(q, leaves')
    BY <2>4, <2>5, QueueLeaves
  <2> QED BY <1>1, <1>2, <1>4, <2>2, <2>4, <2>6 DEF Logon
<1>11. CASE ExchCancel
  <2>1. PICK o : o = Head(toExch).order
    OBVIOUS
  <2>2. /\ Handles("F") /\ UNCHANGED << link, statuses, onLogon >>
        /\ (o \in Open /\ leaves' = [leaves EXCEPT ![o] = 0]) \/ UNCHANGED leaves
    BY <1>11, <2>1 DEF ExchCancel
  <2>3. SentOnce(toExch', leaves')
    <3>1. CASE UNCHANGED leaves
      BY <1>4, <2>2, <3>1
    <3>2. CASE o \in Open /\ leaves' = [leaves EXCEPT ![o] = 0]
      <4>1. o \in Orders /\ leaves[o] # NotYet
        BY <1>3, <3>2 DEF Open
      <4> QED BY <1>4, <1>5, <2>2, <3>2, <4>1
    <3> QED BY <2>2, <3>1, <3>2
  <2> QED BY <1>1, <1>2, <1>4, <2>2, <2>3 DEF Logon
<1>12. CASE ExchHeartbeat
  BY <1>1, <1>2, <1>4, <1>12 DEF ExchHeartbeat, exchvars, Logon
<1>13. ASSUME NEW o \in Orders, ExchFill(o) PROVE Logon'
  <2>1. /\ leaves[o] # NotYet /\ leaves' = [leaves EXCEPT ![o] = leaves[o] - 1]
        /\ UNCHANGED << link, statuses, onLogon, toExch >>
    BY <1>3, <1>13 DEF ExchFill, Open
  <2>2. SentOnce(toExch, leaves')
    BY <1>1, <1>5, <2>1
  <2> QED BY <1>1, <1>2, <2>1, <2>2 DEF Logon
<1>14. CASE ExchTestRequest
  BY <1>1, <1>2, <1>14 DEF ExchTestRequest, exchvars, Logon
<1>15. CASE ExchCloses
  BY <1>1, <1>2, <1>15, EmptyQueue DEF ExchCloses, Logon
<1> QED BY <1>6, <1>7, <1>8, <1>9, <1>10, <1>11, <1>12, <1>13, <1>14, <1>15 DEF Exchange

\* Before it, the exchange can only answer it, and trade.
LEMMA ExchBeforeLogon ==
    ASSUME UInv, Logon, link = "down", Exchange
    PROVE  Logon'
<1>1. /\ phase \in {"off", "logon", "failed"} /\ wire = << >> /\ exec_log = << >>
      /\ statuses = {} /\ ~onLogon
      /\ toExch = IF phase = "logon" THEN << [msg |-> "A"] >> ELSE << >>
  BY DEF Logon
<1>2. phase' = phase /\ exec_log' = exec_log
  BY ExchTypes DEF UInv, servervars
<1>3. CASE ExchLogon
  <2>1. toExch' = << >> /\ phase # "off"
    BY <1>1, <1>3 DEF ExchLogon
  <2> QED BY <1>2, <1>3, <2>1, EmptyQueue DEF ExchLogon, Logon
<1>4. ASSUME NEW o \in Orders, ExchFill(o) PROVE Logon'
  <2>1. UNCHANGED << link, statuses, onLogon, toExch, wire >>
    BY <1>4 DEF ExchFill, Tell
  <2>2. SentOnce(toExch', leaves')
    <3>1. CASE phase = "logon"
      <4>1. Len(toExch) = 1 /\ toExch[1].msg = "A"
        BY <1>1, <3>1
      <4>2. \A i \in 1 .. 1 : i = 1
        OBVIOUS
      <4> QED BY <2>1, <4>1, <4>2 DEF SentOnce
    <3>2. CASE phase # "logon"
      BY <1>1, <2>1, <3>2, EmptyQueue
    <3> QED BY <3>1, <3>2
  <2> QED BY <1>1, <1>2, <2>1, <2>2 DEF Logon
<1>5. ~(\/ ExchHistory \/ ExchSnapshot \/ ExchNew \/ ExchCancel \/ ExchHeartbeat
        \/ ExchTestRequest \/ ExchCloses \/ \E o \in Orders : ExchStatus(o))
  BY <1>1 DEF ExchHistory, ExchSnapshot, ExchNew, ExchCancel, ExchHeartbeat, Handles,
     ExchTestRequest, ExchCloses, ExchStatus
<1> QED BY <1>3, <1>4, <1>5 DEF Exchange

\* What the server and its page send.
LEMMA LogonSend ==
    ASSUME UInv, Logon, UNCHANGED exchvars, link # "down", phase' # "off",
           NEW m \in ToExch, m.msg # "A", Send(m) \/ UNCHANGED toExch,
           m.msg = "D" => leaves[m.order] = NotYet /\ \A i \in 1 .. Len(toExch) : toExch[i] # m
    PROVE  Logon'
<1>1. toExch \in Seq(ToExch) /\ NoLogon(toExch) /\ SentOnce(toExch, leaves)
  BY DEF UInv, UiTypeOK, Logon
<1>2. NoLogon(toExch') /\ SentOnce(toExch', leaves)
  <2>1. toExch' = Append(toExch, m) \/ toExch' = toExch
    BY DEF Send
  <2> QED BY <1>1, <2>1, QueueAppend
<1> QED BY <1>2 DEF Logon, exchvars

LEMMA LogonStep ==
    ASSUME UInv, Served, Logon, [Next]_vars
    PROVE  Logon'
<1>1. PICK m : m = [msg |-> "0"] /\ m \in ToExch /\ m.msg # "A" /\ m.msg # "D"
  <2>1. [msg |-> "0"] \in ToExch
    BY DEF ToExch
  <2> QED BY <2>1
<1>2. [msg |-> "V"] \in ToExch /\ [msg |-> "5"] \in ToExch
  BY DEF ToExch
<1>3. CASE Exchange
  BY <1>3, ExchAfterLogon, ExchBeforeLogon
<1>4. CASE Startup
  <2>1. phase = "off" /\ link = "down" /\ toExch = << >> /\ UNCHANGED << exchvars, wire, exec_log >>
    BY <1>4 DEF Startup, Logon
  <2>2. phase' \in {"logon", "failed"}
        /\ toExch' = IF phase' = "logon" THEN << [msg |-> "A"] >> ELSE << >>
    <3>1. Append(<< >>, [msg |-> "A"]) = << [msg |-> "A"] >>
      OBVIOUS
    <3> QED BY <1>4, <2>1, <3>1 DEF Startup, Send
  <2>3. SentOnce(toExch', leaves')
    <3>1. CASE phase' = "logon"
      <4>1. Len(toExch') = 1 /\ toExch'[1].msg = "A"
        BY <2>2, <3>1
      <4>2. \A i \in 1 .. 1 : i = 1
        OBVIOUS
      <4> QED BY <4>1, <4>2 DEF SentOnce
    <3>2. CASE phase' # "logon"
      BY <2>2, <3>2, EmptyQueue
    <3> QED BY <3>1, <3>2
  <2> QED BY <2>1, <2>2, <2>3 DEF Logon, exchvars
<1>5. CASE StartupRaises
  <2>1. link # "down"
    BY <1>5 DEF StartupRaises, RecvRaises, Logon
  <2> QED BY <1>1, <1>5, <2>1, LogonSend DEF StartupRaises
<1>6. CASE LogonAnswer \/ DrainRecv \/ WaitTimeout \/ ReaderRaises \/ DatagramReceived \/ Connect
           \/ Replay \/ SendSnapshot \/ SafeSend \/ Disconnect
  <2>1. UNCHANGED << exchvars, toExch >>
    BY <1>6 DEF LogonAnswer, DrainRecv, WaitTimeout, ReaderRaises, DatagramReceived, Connect,
       Replay, SendSnapshot, SafeSend, Disconnect
  <2>2. link # "down" /\ phase' # "off"
    BY <1>6 DEF LogonAnswer, DrainRecv, WaitTimeout, ReaderRaises, DatagramReceived, Connect,
       Replay, SendSnapshot, SafeSend, Disconnect, Recv, Serve, Logon, Served, UInv, Follows,
       servervars
  <2> QED BY <1>1, <2>1, <2>2, LogonSend
<1>7. CASE DrainEnds \/ Shutdown
  <2>1. /\ link # "down" /\ phase' # "off" /\ UNCHANGED exchvars
        /\ Send([msg |-> "V"]) \/ Send([msg |-> "5"])
    BY <1>7 DEF DrainEnds, Shutdown, Logon
  <2> QED BY <1>2, <2>1, LogonSend
<1>8. CASE WaitRecv \/ ReaderRecv
  <2>1. link # "down" /\ phase' # "off" /\ UNCHANGED exchvars /\ (Send(m) \/ UNCHANGED toExch)
    BY <1>1, <1>8 DEF WaitRecv, ReaderRecv, Serve, Logon
  <2> QED BY <1>1, <2>1, LogonSend
<1>9. ASSUME NEW o \in Orders, NewOrder(o) \/ CancelOrder(o) PROVE Logon'
  <2>1. link # "down" /\ phase' # "off" /\ UNCHANGED exchvars
    BY <1>9 DEF NewOrder, CancelOrder, Request, Logon, Served, servervars
  <2>2. CASE NewOrder(o)
    <3>1. PICK d : d = [msg |-> "D", order |-> o] /\ d \in ToExch
      <4>1. [msg |-> "D", order |-> o] \in ToExch
        BY DEF ToExch
      <4> QED BY <4>1
    <3>2. toExch \in Seq(ToExch)
      BY DEF UInv, UiTypeOK
    <3>3. DOMAIN toExch = 1 .. Len(toExch)
      BY <3>2, LenProperties
    <3>4. leaves[o] = NotYet /\ Send(d) /\ \A i \in 1 .. Len(toExch) : toExch[i] # d
      BY <2>2, <3>1, <3>3 DEF NewOrder, Request
    <3> QED BY <2>1, <3>1, <3>4, LogonSend
  <2>3. CASE CancelOrder(o)
    <3>1. PICK d : d = [msg |-> "F", order |-> o] /\ d \in ToExch
      <4>1. [msg |-> "F", order |-> o] \in ToExch
        BY DEF ToExch
      <4> QED BY <4>1
    <3>2. Send(d) /\ d.msg # "D" /\ d.msg # "A"
      BY <2>3, <3>1 DEF CancelOrder, Request
    <3> QED BY <2>1, <3>1, <3>2, LogonSend
  <2> QED BY <1>9, <2>2, <2>3
<1>10. CASE Over \/ UNCHANGED vars
  BY <1>10 DEF Over, vars, exchvars, servervars, Logon
<1> QED BY <1>3, <1>4, <1>5, <1>6, <1>7, <1>8, <1>9, <1>10 DEF Next, Server, Page

---------------------------------------------------------------------------
(* What the exchange has told                                              *)

\* Order o, with open quantity n, due a status or not, after the reports of the log and those
\* on the wire: nothing has been told of an order that has not been entered; an open order
\* has been added, or will be by its status, and not been ended; an order that has ended has
\* been ended, and not revived, or has never been there for all the session knows.
Told(n, due, log, wr, o) ==
    /\ n = NotYet => o \notin due /\ ~Some(wr, o, Types) /\ ~Some(log, o, Types)
    /\ n \in 1 .. Qty =>
           /\ ~Some(wr, o, Stops) /\ ~Some(log, o, Stops)
           /\ o \in due \/ Some(wr, o, Adds) \/ Some(log, o, Adds)
    /\ n = 0 => \/ Ended(wr, o)
                \/ Ended(log, o) /\ ~Some(wr, o, Revives)
                \/ o \notin due /\ ~Some(wr, o, NotRejects) /\ ~Some(log, o, NotRejects)

AllTold == link = "up" => \A o \in Orders \ missed : Told(leaves[o], statuses, exec_log, wire, o)

LEMMA TypeSets ==
    /\ Adds \subseteq Types /\ Actives \subseteq Types /\ Stops \subseteq Types
    /\ Ends \subseteq Types /\ Revives \subseteq Types /\ NotRejects \subseteq Types
    /\ Actives \subseteq NotRejects /\ Ends \subseteq NotRejects
  BY DEF Types, Adds, Actives, Stops, Ends, Revives, NotRejects

LEMMA IsWider ==
    ASSUME NEW m, NEW o, NEW narrow, NEW wide, narrow \subseteq wide, Is(m, o, narrow)
    PROVE  Is(m, o, wide)
  BY DEF Is

\* Messages that do not concern the order.
LEMMA ToldOthers ==
    ASSUME NEW n, NEW due, NEW due2, NEW log, NEW wr \in Seq(FromExch), NEW ms \in Seq(FromExch),
           NEW o, Told(n, due, log, wr, o), o \in due2 <=> o \in due, ~Some(ms, o, Types)
    PROVE  Told(n, due2, log, wr \o ms, o)
<1>1. /\ ~Some(ms, o, Stops) /\ ~Some(ms, o, Adds) /\ ~Some(ms, o, Revives)
      /\ ~Some(ms, o, NotRejects) /\ ~Some(ms, o, Ends)
  BY SomeOf, TypeSets
<1>2. ~Ended(ms, o)
  BY <1>1, EndedIsSome
<1>3. PICK wr2 : wr2 = wr \o ms
  OBVIOUS
<1>4. /\ \A types : Some(wr2, o, types) <=> Some(wr, o, types) \/ Some(ms, o, types)
      /\ Ended(wr2, o) <=> Ended(ms, o) \/ (Ended(wr, o) /\ ~Some(ms, o, Revives))
  BY <1>3, ConcatIn, Zenon
<1>5. Told(n, due2, log, wr2, o)
  BY <1>1, <1>2, <1>4 DEF Told
<1> QED BY <1>3, <1>5

\* One more report of the order.
LEMMA OneMore ==
    ASSUME NEW wr \in Seq(FromExch), NEW o \in Orders,
           NEW type \in Types, NEW wr2, wr2 = wr \o << Rpt(type, o) >>
    PROVE  /\ \A types : Some(wr2, o, types) <=> Some(wr, o, types) \/ type \in types
           /\ Ended(wr2, o) <=> type \in Ends \/ (Ended(wr, o) /\ type \notin Revives)
<1>1. PICK r : r = Rpt(type, o) /\ r \in FromExch /\ << r >> \in Seq(FromExch)
  <2>1. Rpt(type, o) \in Reports
    BY OneReport DEF Types
  <2> QED BY <2>1, MessageFields
<1>2. \A types : Is(r, o, types) <=> type \in types
  BY <1>1 DEF Is, Rpt
<1>3. wr2 = Append(wr, r)
  BY <1>1, AppendIsConcat
<1>4. /\ \A types : Some(wr2, o, types) <=> Some(wr, o, types) \/ Is(r, o, types)
      /\ Ended(wr2, o) <=> Is(r, o, Ends) \/ (Ended(wr, o) /\ ~Is(r, o, Revives))
  BY <1>1, <1>3, AppendIn, Zenon
<1> QED BY <1>2, <1>4

\* A message is nothing to other orders, or to any.
LEMMA NothingTo ==
    ASSUME NEW S, NEW m \in S, NEW o, m.msg # "8" \/ m.order # o
    PROVE  ~Some(<< m >>, o, Types)
<1>1. ~Is(m, o, Types)
  BY DEF Is
<1> QED BY <1>1, SingleIn

\* A step that tells of one order.
LEMMA ToldOne ==
    ASSUME UInv, AllTold, link' = link, NEW o \in Orders, NEW type \in Types,
           Tell(<< Rpt(type, o) >>), statuses' \in {statuses, statuses \ {o}},
           NEW n, leaves' = [leaves EXCEPT ![o] = n],
           UNCHANGED << exec_log, missed >>,
           link = "up" /\ Told(leaves[o], statuses, exec_log, wire, o) =>
               Told(n, statuses', exec_log, wire', o)
    PROVE  AllTold'
<1> SUFFICES ASSUME link = "up", NEW x \in Orders \ missed
             PROVE  Told(leaves'[x], statuses', exec_log, wire', x)
  BY DEF AllTold
<1>1. leaves \in [Orders -> 0 .. NotYet] /\ wire \in Seq(FromExch)
  BY DEF UInv, UiTypeOK
<1>2. Told(leaves[x], statuses, exec_log, wire, x)
  BY DEF AllTold
<1>3. CASE x = o
  BY <1>1, <1>2, <1>3
<1>4. CASE x # o
  <2>1. PICK r : r = Rpt(type, o) /\ r \in FromExch /\ << r >> \in Seq(FromExch) /\ r.order = o
    <3>1. Rpt(type, o) \in Reports
      BY OneReport DEF Types
    <3> QED BY <3>1, MessageFields DEF Rpt
  <2>2. ~Some(<< r >>, x, Types)
    BY <1>4, <2>1, NothingTo
  <2>3. wire' = wire \o << r >> /\ leaves'[x] = leaves[x] /\ (x \in statuses' <=> x \in statuses)
    BY <1>1, <1>4, <2>1 DEF Tell
  <2>4. Told(leaves[x], statuses', exec_log, wire \o << r >>, x)
    BY <1>1, <1>2, <2>1, <2>2, <2>3, ToldOthers
  <2> QED BY <2>3, <2>4
<1> QED BY <1>3, <1>4

\* A step that tells of none.
LEMMA ToldNone ==
    ASSUME UInv, AllTold, link' = "up" => link = "up", UNCHANGED << leaves, statuses, exec_log, missed >>,
           NEW m \in FromExch, m.msg # "8", wire' \in {wire, wire \o << m >>}
    PROVE  AllTold'
<1> SUFFICES ASSUME link = "up", NEW x \in Orders \ missed
             PROVE  Told(leaves[x], statuses, exec_log, wire', x)
  BY DEF AllTold
<1>1. Told(leaves[x], statuses, exec_log, wire, x) /\ wire \in Seq(FromExch)
  BY DEF AllTold, UInv, UiTypeOK
<1>2. ~Some(<< m >>, x, Types) /\ << m >> \in Seq(FromExch)
  BY NothingTo
<1>3. Told(leaves[x], statuses, exec_log, wire \o << m >>, x)
  BY <1>1, <1>2, ToldOthers
<1> QED BY <1>1, <1>3

\* The ends of the database are those of orders that have ended.
LEMMA ToldHistory ==
    ASSUME UInv, AllTold, UNCHANGED << leaves, link, statuses, exec_log, missed >>,
           NEW n \in Nat, NEW ends \in [1 .. n -> {o \in Orders : leaves[o] = 0}],
           Tell([i \in 1 .. n |-> Rpt("2", ends[i])])
    PROVE  AllTold'
<1> SUFFICES ASSUME link = "up", NEW o \in Orders \ missed
             PROVE  Told(leaves[o], statuses, exec_log, wire', o)
  BY DEF AllTold
<1>1. PICK rs : rs = [i \in 1 .. n |-> Rpt("2", ends[i])]
  OBVIOUS
<1>2. /\ leaves \in [Orders -> 0 .. NotYet] /\ wire \in Seq(FromExch)
      /\ Told(leaves[o], statuses, exec_log, wire, o) /\ wire' = wire \o rs
  BY <1>1 DEF UInv, UiTypeOK, AllTold, Tell
<1>3. \A i \in 1 .. n : rs[i] = Rpt("2", ends[i]) /\ ends[i] \in Orders /\ leaves[ends[i]] = 0
  BY <1>1
<1>4. rs \in Seq(FromExch) /\ Len(rs) = n
  <2>1. \A i \in 1 .. n : Rpt("2", ends[i]) \in FromExch
    <3> SUFFICES ASSUME NEW i \in 1 .. n PROVE Rpt("2", ends[i]) \in FromExch
      OBVIOUS
    <3>1. Rpt("2", ends[i]) \in Reports
      BY <1>3, OneReport
    <3> QED BY <3>1, MessageFields
  <2>2. rs \in [1 .. n -> FromExch]
    BY <1>1, <2>1
  <2>3. rs \in UNION {[1 .. k -> FromExch] : k \in Nat}
    BY <2>2
  <2>4. rs \in Seq(FromExch)
    BY <2>3, SeqDef
  <2>5. DOMAIN rs = 1 .. n
    BY <1>1
  <2> QED BY <2>4, <2>5, LenProperties
<1>5. CASE \E i \in 1 .. n : ends[i] = o
  <2>1. PICK i \in 1 .. n : ends[i] = o
    BY <1>5
  <2>2. leaves[o] = 0 /\ Is(rs[i], o, Ends)
    BY <1>3, <2>1 DEF Is, Ends, Rpt
  <2>3. \A j \in 1 .. n : ~Is(rs[j], o, Revives)
    BY <1>3 DEF Is, Revives, Rpt
  <2>4. Ended(rs, o)
    BY <1>4, <2>2, <2>3 DEF Ended
  <2>5. Ended(wire \o rs, o)
    BY <1>2, <1>4, <2>4, ConcatIn
  <2>6. 0 # NotYet /\ 0 \notin 1 .. Qty
    BY UiAssumption DEF NotYet
  <2> QED BY <1>2, <2>2, <2>5, <2>6 DEF Told
<1>6. CASE \A i \in 1 .. n : ends[i] # o
  <2>1. \A i \in 1 .. n : ~Is(rs[i], o, Types)
    BY <1>3, <1>6 DEF Is, Rpt
  <2>2. ~Some(rs, o, Types)
    BY <1>4, <2>1 DEF Some
  <2>3. Told(leaves[o], statuses, exec_log, wire \o rs, o)
    BY <1>2, <1>4, <2>2, ToldOthers
  <2> QED BY <1>2, <2>3
<1> QED BY <1>5, <1>6

LEMMA ExchTold ==
    ASSUME UInv, Logon, AllTold, Exchange
    PROVE  AllTold'
<1>1. /\ leaves \in [Orders -> 0 .. NotYet] /\ wire \in Seq(FromExch) /\ toExch \in Seq(ToExch)
      /\ statuses \subseteq Orders
      /\ Qty \in Nat /\ Qty > 0 /\ NotYet = Qty + 1
  BY UiAssumption DEF UInv, UiTypeOK, NotYet
<1>2. UNCHANGED << exec_log, missed >>
  BY ExchTypes DEF UInv, servervars, history
<1>4. ASSUME NEW o \in Orders, NEW type \in Types, Tell(<< Rpt(type, o) >>), link = "up"
      PROVE  /\ \A types : Some(wire', o, types) <=> Some(wire, o, types) \/ type \in types
             /\ Ended(wire', o) <=> type \in Ends \/ (Ended(wire, o) /\ type \notin Revives)
  BY <1>1, <1>4, OneMore DEF Tell
<1>5. CASE ExchLogon
  <2>1. link = "down"
    BY <1>1, <1>5, QueueTail DEF ExchLogon, Logon
  <2>2. exec_log' = << >> /\ leaves' = leaves /\ statuses' = Open /\ wire' = << [msg |-> "A"] >>
    BY <1>2, <1>5, <2>1 DEF ExchLogon, Logon
  <2>3. ASSUME NEW o \in Orders PROVE Told(leaves'[o], statuses', exec_log', wire', o)
    <3>1. PICK m : m = [msg |-> "A"]
      OBVIOUS
    <3>2. \A types : ~Is(m, o, types)
      BY <3>1 DEF Is
    <3>3. \A types : ~Some(<< m >>, o, types)
      BY <3>2, SingleIn
    <3>4. \A types : ~Some(wire', o, types) /\ ~Some(exec_log', o, types)
      BY <2>2, <3>1, <3>3, NothingIn
    <3>5. o \in statuses' <=> leaves'[o] \in 1 .. Qty
      BY <2>2 DEF Open
    <3> QED BY <1>1, <3>4, <3>5 DEF Told
  <2> QED BY <2>3 DEF AllTold
<1>6. ASSUME NEW o \in Orders, ExchStatus(o) PROVE AllTold'
  <2>1. /\ o \in statuses /\ statuses' = statuses \ {o} /\ Tell(<< Rpt("I", o) >>)
        /\ UNCHANGED << leaves, link >>
    BY <1>6 DEF ExchStatus
  <2>2. leaves' = [leaves EXCEPT ![o] = leaves[o]] /\ "I" \in Types
    BY <1>1, <2>1 DEF Types
  <2>3. ASSUME link = "up", Told(leaves[o], statuses, exec_log, wire, o)
        PROVE  Told(leaves[o], statuses', exec_log, wire', o)
    BY <1>4, <2>1, <2>2, <2>3 DEF Told, Adds, Stops, Revives, Ends, Types, NotRejects
  <2> QED BY <1>2, <2>1, <2>2, <2>3, ToldOne
<1>7. CASE ExchHistory
  <2>1. PICK known \in SUBSET {o \in Orders : leaves[o] = 0} : \E ends \in SetToSeqs(known) :
                 Tell([i \in DOMAIN ends |-> Rpt("2", ends[i])])
    BY <1>7 DEF ExchHistory
  <2>2. IsFiniteSet(known)
    BY UiAssumption, FS_Subset
  <2>3. PICK n : n = Cardinality(known) /\ n \in Nat
    BY <2>2, FS_CardinalityType
  <2>4. PICK ends \in [1 .. n -> known] : Tell([i \in DOMAIN ends |-> Rpt("2", ends[i])])
    BY <2>1, <2>3 DEF SetToSeqs
  <2>5. ends \in [1 .. n -> {o \in Orders : leaves[o] = 0}]
        /\ Tell([i \in 1 .. n |-> Rpt("2", ends[i])])
    BY <2>4
  <2> QED BY <1>2, <1>7, <2>3, <2>5, ToldHistory DEF ExchHistory
<1>8. CASE ExchSnapshot \/ ExchHeartbeat
  <2>1. PICK m : m = [msg |-> "W", book |-> Restrict(leaves, Open)]
    OBVIOUS
  <2>2. m \in FromExch /\ m.msg # "8"
    <3>1. Open \subseteq Orders /\ \A o \in Open : leaves[o] \in Nat
      BY <1>1 DEF Open
    <3>2. Restrict(leaves, Open) \in Books
      BY <3>1, IsBook DEF Restrict
    <3> QED BY <2>1, <3>2 DEF FromExch
  <2>3. wire' \in {wire, wire \o << m >>}
    BY <1>8, <2>1 DEF ExchSnapshot, ExchHeartbeat, Tell, Handles
  <2>4. UNCHANGED << leaves, statuses, link >>
    BY <1>8 DEF ExchSnapshot, ExchHeartbeat, exchvars
  <2> QED BY <1>2, <2>2, <2>3, <2>4, ToldNone
<1>9. CASE ExchNew
  <2>1. PICK o : o = Head(toExch).order
    OBVIOUS
  <2>2. Head(toExch).msg = "D" /\ o \in Orders /\ leaves[o] = NotYet /\ link = "up"
    BY <1>1, <1>9, <2>1, QueueTail, HeadTailProperties, MessageFields DEF ExchNew, Handles, Logon
  <2>3. UNCHANGED << link, statuses >> /\ "0" \in Types /\ "8" \in Types
    BY <1>9 DEF ExchNew, Types
  <2>4. CASE leaves' = [leaves EXCEPT ![o] = Qty] /\ Tell(<< Rpt("0", o) >>)
    <3>1. ASSUME Told(leaves[o], statuses, exec_log, wire, o)
          PROVE  Told(Qty, statuses', exec_log, wire', o)
      <4>1. ~Some(wire, o, Stops) /\ ~Some(exec_log, o, Stops)
        BY <2>2, <3>1, SomeOf, TypeSets DEF Told
      <4>2. Some(wire', o, Adds) /\ ~Some(wire', o, Stops)
        BY <1>4, <2>2, <2>3, <2>4, <4>1 DEF Adds, Stops
      <4> QED BY <1>1, <4>1, <4>2 DEF Told
    <3> QED BY <1>2, <2>2, <2>3, <2>4, <3>1, ToldOne
  <2>5. CASE leaves' = [leaves EXCEPT ![o] = 0] /\ Tell(<< Rpt("8", o) >>)
    <3>1. ASSUME Told(leaves[o], statuses, exec_log, wire, o)
          PROVE  Told(0, statuses', exec_log, wire', o)
      <4>1. ~Some(wire, o, NotRejects) /\ ~Some(exec_log, o, NotRejects) /\ o \notin statuses
        BY <2>2, <3>1, SomeOf, TypeSets DEF Told
      <4>2. ~Some(wire', o, NotRejects)
        BY <1>4, <2>2, <2>3, <2>5, <4>1 DEF NotRejects
      <4> QED BY <1>1, <2>3, <4>1, <4>2 DEF Told
    <3> QED BY <1>2, <2>2, <2>3, <2>5, <3>1, ToldOne
  <2> QED BY <1>9, <2>1, <2>4, <2>5 DEF ExchNew
<1>10. ASSUME NEW o \in Orders, NEW type \in {"2", "4"}, leaves' = [leaves EXCEPT ![o] = 0],
              Tell(<< Rpt(type, o) >>), UNCHANGED << link, statuses >>
       PROVE  AllTold'
  <2>1. type \in Types
    BY DEF Types
  <2>2. ASSUME link = "up" PROVE Told(0, statuses', exec_log, wire', o)
    <3>1. Ended(wire', o)
      BY <1>4, <1>10, <2>1, <2>2 DEF Ends
    <3> QED BY <1>1, <3>1 DEF Told
  <2> QED BY <1>2, <1>10, <2>1, <2>2, ToldOne
<1>11. CASE ExchCancel
  <2>1. PICK o : o = Head(toExch).order
    OBVIOUS
  <2>2. o \in Orders /\ UNCHANGED << link, statuses >>
    BY <1>1, <1>11, <2>1, HeadTailProperties, MessageFields DEF ExchCancel, Handles
  <2>3. CASE leaves' = [leaves EXCEPT ![o] = 0] /\ Tell(<< Rpt("4", o) >>)
    BY <1>10, <2>2, <2>3
  <2>4. CASE UNCHANGED << leaves, wire >>
    <3>1. [msg |-> "1"] \in FromExch
      BY DEF FromExch
    <3> QED BY <1>2, <2>2, <2>4, <3>1, ToldNone
  <2> QED BY <1>11, <2>1, <2>3, <2>4 DEF ExchCancel
<1>12. ASSUME NEW o \in Orders, ExchFill(o) PROVE AllTold'
  <2>1. /\ leaves[o] \in 1 .. Qty /\ leaves' = [leaves EXCEPT ![o] = leaves[o] - 1]
        /\ UNCHANGED << link, statuses >>
        /\ Tell(<< Rpt(IF leaves[o] = 1 THEN "2" ELSE "1", o) >>)
    BY <1>12 DEF ExchFill, Open
  <2>2. CASE leaves[o] = 1
    <3>1. leaves' = [leaves EXCEPT ![o] = 0] /\ Tell(<< Rpt("2", o) >>)
      BY <2>1, <2>2
    <3> QED BY <1>10, <2>1, <3>1
  <2>3. CASE leaves[o] # 1
    <3>1. Tell(<< Rpt("1", o) >>) /\ leaves[o] - 1 \in 1 .. Qty /\ "1" \in Types
      BY <1>1, <2>1, <2>3 DEF Types
    <3>2. ASSUME link = "up", Told(leaves[o], statuses, exec_log, wire, o)
          PROVE  Told(leaves[o] - 1, statuses', exec_log, wire', o)
      <4>1. /\ ~Some(wire, o, Stops) /\ ~Some(exec_log, o, Stops)
            /\ o \in statuses \/ Some(wire, o, Adds) \/ Some(exec_log, o, Adds)
        BY <2>1, <3>2 DEF Told
      <4>2. ~Some(wire', o, Stops) /\ (Some(wire, o, Adds) => Some(wire', o, Adds))
        BY <1>4, <3>1, <3>2, <4>1 DEF Stops
      <4> QED BY <1>1, <2>1, <3>1, <4>1, <4>2 DEF Told
    <3> QED BY <1>2, <2>1, <3>1, <3>2, ToldOne
  <2> QED BY <2>2, <2>3
<1>13. CASE ExchTestRequest
  <2>1. PICK m : m = [msg |-> "1"] /\ m \in FromExch
    <3>1. [msg |-> "1"] \in FromExch
      BY DEF FromExch
    <3> QED BY <3>1
  <2>2. wire = << >> /\ wire' = << m >> /\ UNCHANGED << leaves, link, statuses >>
    BY <1>13, <2>1 DEF ExchTestRequest, exchvars
  <2>3. << m >> \in Seq(FromExch)
    BY <2>1
  <2>4. wire' = wire \o << m >>
    BY <2>2, <2>3, ConcatEmptySeq
  <2> QED BY <1>2, <2>1, <2>2, <2>4, ToldNone
<1>14. CASE ExchCloses
  BY <1>14 DEF ExchCloses, AllTold
<1> QED BY <1>5, <1>6, <1>7, <1>8, <1>9, <1>11, <1>12, <1>13, <1>14 DEF Exchange

\* A report that is taken from the wire goes into the log, or its order is missed.
LEMMA ToldReceived ==
    ASSUME UInv, AllTold, UNCHANGED exchvars, wire # << >>, wire' = Tail(wire),
           \/ /\ Head(wire).msg = "8" /\ exec_log' = Append(exec_log, Head(wire))
              /\ UNCHANGED missed
           \/ UNCHANGED exec_log /\ Dropped(Head(wire))
    PROVE  AllTold'
<1> SUFFICES ASSUME link = "up", NEW o \in Orders, o \notin missed'
             PROVE  Told(leaves[o], statuses, exec_log', wire', o)
  BY DEF AllTold, exchvars
<1>1. PICK h, us : h = Head(wire) /\ us = Tail(wire)
  OBVIOUS
<1>2. h \in FromExch /\ wire \in Seq(FromExch) /\ exec_log \in Seq(Reports)
  BY <1>1, HeadTailProperties DEF UInv, UiTypeOK
<1>3. o \notin missed
  BY DEF Dropped
<1>4. Told(leaves[o], statuses, exec_log, wire, o)
  BY <1>3 DEF AllTold
<1>5. /\ \A types : Some(wire, o, types) <=> Is(h, o, types) \/ Some(us, o, types)
      /\ Ended(wire, o) <=> Ended(us, o) \/ (Is(h, o, Ends) /\ ~Some(us, o, Revives))
  BY <1>1, <1>2, HeadIn, Zenon
<1>6. CASE h.msg = "8" /\ exec_log' = Append(exec_log, h)
  <2>1. h \in Reports
    BY <1>2, <1>6, MessageFields
  <2>2. /\ \A types : Some(exec_log', o, types) <=> Some(exec_log, o, types) \/ Is(h, o, types)
        /\ Ended(exec_log', o) <=> Is(h, o, Ends) \/ (Ended(exec_log, o) /\ ~Is(h, o, Revives))
    BY <1>2, <1>6, <2>1, AppendIn, Zenon
  <2> QED BY <1>1, <1>4, <1>5, <2>2 DEF Told
<1>7. CASE UNCHANGED exec_log /\ Dropped(h)
  <2>1. ~Is(h, o, Types)
    BY <1>2, <1>7 DEF Dropped, Is
  <2>2. \A types : types \subseteq Types => ~Is(h, o, types)
    BY <2>1, IsWider
  <2>3. /\ ~Is(h, o, Stops) /\ ~Is(h, o, Adds) /\ ~Is(h, o, Ends) /\ ~Is(h, o, Revives)
        /\ ~Is(h, o, NotRejects)
    BY <2>2, TypeSets
  <2> QED BY <1>1, <1>4, <1>5, <1>7, <2>1, <2>3 DEF Told
<1> QED BY <1>1, <1>6, <1>7

LEMMA ToldStep ==
    ASSUME UInv, Logon, AllTold, [Next]_vars
    PROVE  AllTold'
<1>1. CASE Exchange
  BY <1>1, ExchTold
<1>2. CASE UNCHANGED << exchvars, wire, exec_log, missed >>
  BY <1>2 DEF AllTold, exchvars
<1>3. CASE Startup \/ DrainEnds \/ WaitTimeout \/ StartupRaises \/ Shutdown \/ ReaderRaises
           \/ DatagramReceived
  <2>1. UNCHANGED << exchvars, wire, exec_log, missed >>
    BY <1>3 DEF Startup, DrainEnds, WaitTimeout, StartupRaises, Shutdown, ReaderRaises,
       DatagramReceived, RecvRaises, history
  <2> QED BY <1>2, <2>1
<1>4. CASE Page
  <2>1. UNCHANGED << exchvars, wire, exec_log, missed >>
    BY <1>4 DEF Page, Connect, Replay, SendSnapshot, SafeSend, Disconnect, NewOrder, CancelOrder,
       Request, servervars, history
  <2> QED BY <1>2, <2>1
<1>5. CASE LogonAnswer
  BY <1>5, ToldReceived DEF LogonAnswer, Recv, Dropped, history
<1>6. CASE DrainRecv
  BY <1>6, ToldReceived DEF DrainRecv, Recv
<1>7. CASE WaitRecv
  BY <1>7, ToldReceived DEF WaitRecv, Recv, Dropped
<1>8. CASE ReaderRecv
  BY <1>8, ToldReceived DEF ReaderRecv, Recv, Dropped
<1>9. CASE Over \/ UNCHANGED vars
  BY <1>2, <1>9 DEF Over, vars, servervars, history
<1> QED BY <1>1, <1>3, <1>4, <1>5, <1>6, <1>7, <1>8, <1>9 DEF Next, Server

---------------------------------------------------------------------------

BInv == RowsFollow /\ Logon /\ AllTold

LEMMA BInit ==
    ASSUME Init
    PROVE  BInv
<1>1. /\ exec_log = << >> /\ tasks = << >> /\ toExch = << >> /\ ws = "closed" /\ orders = Empty
      /\ link = "down" /\ phase = "off" /\ wire = << >> /\ statuses = {} /\ ~onLogon
  BY DEF Init
<1>2. RowsFollow
  <2>1. DOMAIN Empty = {}
    BY DEF Empty
  <2> QED BY <1>1, <2>1 DEF RowsFollow, TasksOfLog, OfLog, On, Off
<1>3. Logon
  BY <1>1, EmptyQueue DEF Logon
<1> QED BY <1>1, <1>2, <1>3 DEF BInv, AllTold

\* When everything has arrived, the row of an order is what the exchange has told of it.
LEMMA BlotterSettled ==
    ASSUME UInv, BInv
    PROVE  BlotterTrue
<1> SUFFICES ASSUME Settled, NEW o \in Orders \ missed
             PROVE  (o \in DOMAIN orders /\ orders[o]) <=> o \in Open
  BY DEF BlotterTrue
<1>1. /\ link = "up" /\ wire = << >> /\ ws = "open" /\ tasks = << >> /\ statuses = {}
      /\ Rest = << >>
  BY DEF Settled, BInv, Logon, Rest
<1>2. Told(leaves[o], {}, exec_log, << >>, o)
  BY <1>1 DEF BInv, AllTold
<1>3. Behind(orders, exec_log, << >>, << >>, o) /\ OfLog(orders, exec_log, o)
  BY <1>1 DEF BInv, RowsFollow
<1>4. (\A types : ~Some(<< >>, o, types)) /\ ~Ended(<< >>, o)
  BY NothingIn
<1>5. /\ Some(exec_log, o, Adds) => o \in DOMAIN orders
      /\ Ended(exec_log, o) => Off(orders, o)
  BY <1>3, <1>4 DEF Behind
<1>6. leaves[o] \in 0 .. NotYet /\ Qty \in Nat /\ NotYet = Qty + 1
  BY UiAssumption DEF UInv, UiTypeOK, NotYet
<1>7. CASE leaves[o] \in 1 .. Qty
  <2>1. ~Some(exec_log, o, Stops) /\ Some(exec_log, o, Adds)
    BY <1>2, <1>4, <1>7 DEF Told
  <2>2. o \in DOMAIN orders /\ ~Off(orders, o)
    BY <1>3, <1>5, <2>1 DEF OfLog
  <2> QED BY <1>7, <2>2 DEF Off, Open
<1>8. CASE leaves[o] = 0
  <2>1. Ended(exec_log, o) \/ ~Some(exec_log, o, NotRejects)
    BY <1>2, <1>4, <1>8 DEF Told
  <2>2. ~Some(exec_log, o, NotRejects) => ~Some(exec_log, o, Actives)
    BY SomeOf, TypeSets
  <2>3. ~On(orders, o)
    BY <1>3, <1>5, <2>1, <2>2 DEF OfLog, On, Off
  <2> QED BY <1>8, <2>3 DEF On, Open
<1>9. CASE leaves[o] = NotYet
  <2>1. ~Some(exec_log, o, Types)
    BY <1>2, <1>9 DEF Told
  <2>2. ~Some(exec_log, o, Actives)
    BY <2>1, SomeOf, TypeSets
  <2>3. ~On(orders, o) /\ o \notin Open
    BY <1>3, <1>6, <1>9, <2>2 DEF OfLog, Open
  <2> QED BY <2>3 DEF On
<1> QED BY <1>6, <1>7, <1>8, <1>9

\* Once everything has arrived, the blotter offers exactly the open orders for cancellation,
\* except orders with a report that logon() or lifespan has received and not kept: for any
\* number of orders, fills, faults and reconnections, and however the statuses and the ends
\* of the exchange's onLogon, the live reports, their replay by websocket_endpoint and their
\* broadcast overtake each other.
THEOREM UiBlotterTrue == Spec => []BlotterTrue
<1>1. Init => BInv
  BY BInit
<1>2. UInv /\ Served /\ BInv /\ [Next]_vars => BInv'
  BY RowsStep, LogonStep, ToldStep DEF BInv
<1>3. UInv /\ BInv => BlotterTrue
  BY BlotterSettled
<1> QED BY <1>1, <1>2, <1>3, UiInvariant, PTL DEF Spec
============================================================================
