--------------------------- MODULE GatewayProofs ---------------------------
(***************************************************************************)
(* The FIX gateway around the matching engine, for any number of clients,  *)
(* messages and orders.                                                    *)
(*                                                                         *)
(* The gateway extends the engine, and its steps are the engine's or leave *)
(* the engine alone, so IInv carries over once it is known what a handler  *)
(* submits: an order has an id that was never handed out before, which     *)
(* holds across the handler's two steps because handlers do not overlap    *)
(* (SubmitOK), and a request names an id that was handed out (ReplaceOK).  *)
(* GInv adds what a callback carries and the types of the three maps, KInv *)
(* (second half) what the maps know of every order.                        *)
(***************************************************************************)
EXTENDS Gateway, MatchingEngineProofs

---------------------------------------------------------------------------
(* What the threads hand each other                                        *)

\* A callback carries the fills, the order or the request the engine made it with.
CallOK ==
    /\ call.fn \in {"none", "on_fill", "on_cancel", "on_tif_cancel", "on_order_rested",
                    "on_replace", "snapshot_cb"}
    /\ call.fn = "none" => call = NoCall
    /\ call.fn = "on_fill" => call.maker \in Fill /\ call.taker \in Fill
    /\ call.fn = "on_cancel" => call.req \in CancelRequest /\ call.found \in BOOLEAN
    /\ call.fn = "on_tif_cancel" => call.order \in Order
    /\ call.fn = "on_order_rested" => call.order \in Order /\ call.leaves_qty \in Int
    /\ call.fn = "on_replace" => /\ call.req \in ReplaceRequest
                                 /\ call.leaves_qty \in Int
                                 /\ call.found = (call.leaves_qty >= 0)

\* Only onFill takes more than one step.
PhaseOK ==
    /\ phase \in {"begin", "maker_orders", "taker", "taker_orders", "trade", "taker_event"}
    /\ call.fn # "on_fill" => phase = "begin"

\* A replace request, from the handler to the callback, names an id that was handed out,
\* and its new ClOrdID is taken.
ReplaceOK(req) == req.new_clord_id \in used /\ req.orig_order_id \in 1 .. order_seq_

ReplacesOK ==
    /\ \A i \in DOMAIN queue_ : queue_[i].tag = "REPLACE" => ReplaceOK(queue_[i].req)
    /\ pc = "match" /\ cur.tag = "REPLACE" => ReplaceOK(cur.req)
    /\ call.fn = "on_replace" => ReplaceOK(call.req)

\* An order between its acknowledgement and engine_.submit has the id drawn last, which
\* the engine has not seen, and passed the gateway's checks.
SubmitOK(o) ==
    /\ o \in Order
    /\ o.exchange_id = order_seq_
    /\ order_seq_ \in 1 .. MaxOrders
    /\ order_seq_ \notin LiveIds
    /\ o.symbol \in DOMAIN books_
    /\ o.qty \in Qtys /\ o.leaves_qty = o.qty
    /\ IF o.type = "limit" THEN o.price \in Prices /\ o.price > 0 ELSE o.price = 0

\* A request between the lookup of its ClOrdID and engine_.cancel or engine_.replace.
RequestOK(item) ==
    \/ item \in [tag : {"CANCEL"}, req : [client_id : Clients, symbol : MsgSymbols,
                                         orig_order_id : 1 .. order_seq_]]
    \/ /\ item \in [tag : {"REPLACE"},
                    req : [new_clord_id : ClOrdIds, old_clord_id : ClOrdIds,
                           client_id : Clients, orig_order_id : 1 .. order_seq_,
                           symbol : MsgSymbols, new_price : Prices, new_qty : ReplaceQtys]]
       /\ ReplaceOK(item.req)

FixOK ==
    /\ fix.at \in {"idle", "status", "submit", "request"}
    /\ fix.at = "idle" => fix = Idle
    /\ fix.at # "idle" => main = "serving"
    /\ fix.at = "submit" => SubmitOK(fix.order)
    /\ fix.at = "request" => RequestOK(fix.item)

MapsOK ==
    /\ DOMAIN order_sessions_ \subseteq Nat
    /\ \A id \in DOMAIN order_sessions_ : order_sessions_[id] \in Clients
    /\ DOMAIN clord_to_exchange_ \subseteq used /\ used \subseteq ClOrdIds
    /\ \A c \in DOMAIN clord_to_exchange_ : clord_to_exchange_[c] \in 1 .. order_seq_
    /\ \A id \in DOMAIN active_orders_ :
           active_orders_[id] \in Order /\ active_orders_[id].exchange_id = id
    /\ DOMAIN last_price_ \subseteq Symbols
    /\ logged \subseteq Clients

GInv == IInv /\ CallOK /\ PhaseOK /\ ReplacesOK /\ FixOK /\ MapsOK

---------------------------------------------------------------------------
(* Steps of the engine thread between callbacks                            *)

LEMMA WorkItemFields ==
    ASSUME NEW w \in WorkItem
    PROVE  /\ w.tag = "ORDER" => w.order \in Order
           /\ w.tag = "CANCEL" => w.req \in CancelRequest
           /\ w.tag = "REPLACE" => w.req \in ReplaceRequest
  BY DEF WorkItem

LEMMA RequestFields ==
    /\ \A r \in CancelRequest : r.symbol \in Symbols /\ r.orig_order_id \in Nat
    /\ \A r \in ReplaceRequest : /\ r.symbol \in Symbols /\ r.orig_order_id \in Nat
                                 /\ r.new_price \in Int /\ r.new_qty \in Int
                                 /\ r.new_clord_id \in ClOrdIds /\ r.old_clord_id \in ClOrdIds
  BY PriceAssumption DEF CancelRequest, ReplaceRequest, Prices

\* A pop takes the first item and leaves the others.
LEMMA PopQueue ==
    ASSUME IInv, NEW tag, Pop(tag)
    PROVE  /\ 1 \in DOMAIN queue_ /\ Head(queue_) = queue_[1]
           /\ Head(queue_) \in WorkItem /\ Head(queue_).tag = tag
           /\ pc = "run" /\ call = NoCall
           /\ \A i \in DOMAIN queue_' : i + 1 \in DOMAIN queue_ /\ queue_'[i] = queue_[i + 1]
<1>1. /\ queue_ \in Seq(WorkItem) /\ queue_ # << >> /\ queue_' = Tail(queue_)
      /\ pc = "run" /\ call = NoCall /\ Head(queue_).tag = tag
  BY DEF IInv, TypeOK, Pop
<1> QED BY <1>1, PopProperties

\* The record of a fill.
LEMMA MakeFillType ==
    ASSUME NEW o \in Order, NEW p \in Prices, NEW q \in Int, NEW l \in Int
    PROVE  MakeFill(o, p, q, l) \in Fill
  BY DEF MakeFill, Fill, Order

\* What the engine thread's own steps hand to a callback.
Handed ==
    /\ UNCHANGED order_seq_
    /\ DOMAIN books_' = DOMAIN books_
    /\ CallOK'
    /\ ReplacesOK'

LEMMA RunOrderHands ==
    ASSUME IInv, CallOK, ReplacesOK, RunOrder, UNCHANGED used
    PROVE  Handed
<1> DEFINE o == Head(queue_).order
           k == [o EXCEPT !.leaves_qty = o.qty]
<1>1. /\ Pop("ORDER") /\ UNCHANGED << order_seq_, books_ >>
      /\ \/ call' = call /\ pc' = "undefined"
         \/ call' = OnTifCancel(k) /\ pc' = pc
         \/ call' = call /\ cur' = [tag |-> "ORDER", order |-> k]
  BY DEF RunOrder, NoBook, Add
<1>2. /\ Head(queue_) \in WorkItem /\ Head(queue_).tag = "ORDER" /\ pc = "run" /\ call = NoCall
      /\ \A i \in DOMAIN queue_' : i + 1 \in DOMAIN queue_ /\ queue_'[i] = queue_[i + 1]
  BY <1>1, PopQueue
<1>3. k \in Order
  BY <1>2, WorkItemFields DEF Order
<1> HIDE DEF k
<1>4. CallOK'
  BY <1>1, <1>2, <1>3 DEF CallOK, OnTifCancel, NoCall
<1>5. ReplacesOK'
  BY <1>1, <1>2 DEF ReplacesOK, ReplaceOK, OnTifCancel, NoCall
<1> QED BY <1>1, <1>4, <1>5 DEF Handed

LEMMA RunCancelHands ==
    ASSUME IInv, CallOK, ReplacesOK, RunCancel, UNCHANGED used
    PROVE  Handed
<1> DEFINE req == Head(queue_).req
           f == Found(books_[req.symbol], req.orig_order_id)
<1>1. /\ Pop("CANCEL") /\ UNCHANGED order_seq_
      /\ DOMAIN books_' = DOMAIN books_
      /\ \/ call' = call /\ pc' = "undefined"
         \/ call' = OnCancel(req, f) /\ pc' = pc
  BY DEF RunCancel, NoBook
<1>2. /\ Head(queue_) \in WorkItem /\ Head(queue_).tag = "CANCEL" /\ pc = "run" /\ call = NoCall
      /\ \A i \in DOMAIN queue_' : i + 1 \in DOMAIN queue_ /\ queue_'[i] = queue_[i + 1]
  BY <1>1, PopQueue
<1>3. req \in CancelRequest /\ f \in BOOLEAN
  BY <1>2, WorkItemFields DEF Found
<1> HIDE DEF f
<1>4. CallOK'
  BY <1>1, <1>2, <1>3 DEF CallOK, OnCancel, NoCall
<1>5. ReplacesOK'
  BY <1>1, <1>2 DEF ReplacesOK, ReplaceOK, OnCancel, NoCall
<1> QED BY <1>1, <1>4, <1>5 DEF Handed

LEMMA RunReplaceHands ==
    ASSUME IInv, CallOK, ReplacesOK, RunReplace, UNCHANGED used
    PROVE  Handed
<1> DEFINE req == Head(queue_).req
<1>1. /\ Pop("REPLACE") /\ UNCHANGED order_seq_
      /\ DOMAIN books_' = DOMAIN books_
      /\ \/ call' = call /\ pc' = "undefined"
         \/ call' = OnReplace(req, -1) /\ pc' = pc
         \/ call' = OnReplace(req, req.new_qty) /\ pc' = pc
         \/ call' = call /\ cur'.req = req
  <2>1. Pop("REPLACE") /\ UNCHANGED order_seq_ /\ DOMAIN books_' = DOMAIN books_
    BY DEF RunReplace, NoBook
  <2>2. \A r, x, l : [[tag |-> "REPLACE", req |-> r, order |-> x] EXCEPT !.order.leaves_qty = l].req = r
    OBVIOUS
  <2>3. \/ call' = call /\ pc' = "undefined"
        \/ call' = OnReplace(req, -1) /\ pc' = pc
        \/ call' = OnReplace(req, req.new_qty) /\ pc' = pc
        \/ /\ call' = call
           /\ Add([tag |-> "REPLACE", req |-> req,
                   order |-> [books_[req.symbol].order_index_[req.orig_order_id]
                                EXCEPT !.price = req.new_price, !.qty = req.new_qty]])
    BY DEF RunReplace, NoBook
  <2> QED BY <2>1, <2>2, <2>3, Zenon DEF Add
<1>2. /\ Head(queue_) \in WorkItem /\ Head(queue_).tag = "REPLACE" /\ pc = "run" /\ call = NoCall
      /\ 1 \in DOMAIN queue_ /\ Head(queue_) = queue_[1]
      /\ \A i \in DOMAIN queue_' : i + 1 \in DOMAIN queue_ /\ queue_'[i] = queue_[i + 1]
  BY <1>1, PopQueue
<1>3. req \in ReplaceRequest /\ req.new_qty \in Int /\ ReplaceOK(req)
  BY <1>2, WorkItemFields, RequestFields DEF ReplacesOK
<1> HIDE DEF req
<1>4. CallOK'
  BY <1>1, <1>2, <1>3 DEF CallOK, OnReplace, NoCall
<1>5. ReplacesOK'
  BY <1>1, <1>2, <1>3 DEF ReplacesOK, ReplaceOK, OnReplace, NoCall
<1> QED BY <1>1, <1>4, <1>5, SMTT(30) DEF Handed

LEMMA MatchFillHands ==
    ASSUME IInv, CallOK, ReplacesOK, MatchFill, UNCHANGED used
    PROVE  Handed
<1> DEFINE o == cur.order
           book == books_[o.symbol]
           r == Resting(book, o)
           qty == FillQty(book, o)
           m == MakeFill(r, r.price, qty, r.leaves_qty - qty)
           t == MakeFill(o, r.price, qty, o.leaves_qty - qty)
<1>1. /\ pc = "match" /\ UNCHANGED << queue_, order_seq_, pc >>
      /\ DOMAIN books_' = DOMAIN books_ /\ CanMatch(book, o)
      /\ cur' = [cur EXCEPT !.order.leaves_qty = @ - qty]
      /\ call' = OnFill(m, t)
  BY DEF MatchFill
<1>2. cur \in Aggressor /\ o \in Order /\ BookOK(book)
  BY <1>1 DEF IInv, TypeOK, Aggressor, BooksOK
<1>3. r \in Order /\ r.price \in Prices /\ qty \in Int
  <2> HIDE DEF o, book
  <2> QED BY <1>1, <1>2, RestingProperties, AfterFillOK
<1>4. m \in Fill /\ t \in Fill
  <2>1. r.leaves_qty - qty \in Int /\ o.leaves_qty - qty \in Int
    <3>1. r.leaves_qty \in Int /\ o.leaves_qty \in Int
      BY <1>2, <1>3 DEF Order
    <3> HIDE DEF o, r, qty
    <3> QED BY <1>3, <3>1
  <2> HIDE DEF o, r, qty
  <2> QED BY <1>2, <1>3, <2>1, MakeFillType
<1>5. cur'.tag = cur.tag /\ (cur.tag = "REPLACE" => cur'.req = cur.req)
  BY <1>1, <1>2 DEF Aggressor
<1> HIDE DEF m, t
<1>6. CallOK'
  BY <1>1, <1>4 DEF CallOK, OnFill
<1>7. ReplacesOK'
  BY <1>1, <1>5 DEF ReplacesOK, ReplaceOK, OnFill
<1> QED BY <1>1, <1>6, <1>7 DEF Handed

LEMMA MatchEndHands ==
    ASSUME IInv, CallOK, ReplacesOK, MatchEnd, UNCHANGED used
    PROVE  Handed
<1> DEFINE o == cur.order
<1>1. /\ pc = "match" /\ pc' = "run" /\ UNCHANGED << queue_, order_seq_ >>
      /\ DOMAIN books_' = DOMAIN books_ /\ call' = AfterAdd(cur)
  BY DEF MatchEnd
<1>2. cur \in Aggressor
  BY <1>1 DEF IInv, TypeOK
<1>3. o \in Order /\ o.leaves_qty \in Int /\ [o EXCEPT !.leaves_qty = o.qty] \in Order
  BY <1>2 DEF Aggressor, Order
<1>4. cur.tag = "REPLACE" => cur.req \in ReplaceRequest
  BY <1>2 DEF Aggressor
<1>5. \/ cur.tag = "REPLACE" /\ call' = OnReplace(cur.req, o.leaves_qty)
      \/ call' = OnTifCancel(o)
      \/ call' = OnOrderRested([o EXCEPT !.leaves_qty = o.qty], o.leaves_qty)
      \/ call' = NoCall
  BY <1>1 DEF AfterAdd
<1> HIDE DEF o
<1>6. CallOK'
  BY <1>3, <1>4, <1>5 DEF CallOK, OnReplace, OnTifCancel, OnOrderRested, NoCall
<1>7. ReplacesOK'
  BY <1>1, <1>5 DEF ReplacesOK, ReplaceOK, OnReplace, OnTifCancel, OnOrderRested, NoCall
<1> QED BY <1>1, <1>6, <1>7 DEF Handed

LEMMA RunSnapshotHands ==
    ASSUME IInv, CallOK, ReplacesOK, RunSnapshot, UNCHANGED used
    PROVE  Handed
<1>1. /\ Pop("SNAPSHOT") /\ UNCHANGED << order_seq_, books_, pc, cur >>
      /\ call'.fn = "snapshot_cb"
  BY DEF RunSnapshot, SnapshotCb
<1>2. \A i \in DOMAIN queue_' : i + 1 \in DOMAIN queue_ /\ queue_'[i] = queue_[i + 1]
  BY <1>1, PopQueue
<1> QED BY <1>1, <1>2 DEF Handed, CallOK, ReplacesOK, ReplaceOK

\* A step that leaves the gateway alone: the engine's, the admin thread's or main's.
LEMMA GatewayAsideStep ==
    ASSUME GInv, IInv', Keeps, UNCHANGED << order_seq_, gwvars >>,
           DOMAIN books_ \subseteq DOMAIN books_',
           main = "serving" => main' = "serving" \/ fix = Idle,
           CallOK', ReplacesOK', PhaseOK'
    PROVE  GInv'
<1> USE DEF GInv
<1>2. order_seq_ \in Nat
  BY DEF IInv, TypeOK
<1>3. FixOK'
  <2>1. fix' = fix /\ used' = used /\ order_seq_' = order_seq_
    BY DEF gwvars
  <2>2. ASSUME fix.at = "submit" PROVE SubmitOK(fix.order)'
    <3>1. order_seq_ \in 0 .. order_seq_
      BY <1>2
    <3>2. order_seq_ \notin LiveIds'
      BY <2>2, <3>1 DEF FixOK, SubmitOK, Keeps
    <3> QED BY <2>1, <2>2, <3>2 DEF FixOK, SubmitOK
  <2>3. ASSUME fix.at = "request" PROVE RequestOK(fix.item)'
    BY <2>1, <2>3 DEF FixOK, RequestOK, ReplaceOK
  <2>4. fix.at # "idle" => main' = "serving"
    BY DEF FixOK, Idle
  <2> QED BY <2>1, <2>2, <2>3, <2>4 DEF FixOK
<1>4. MapsOK'
  BY DEF MapsOK, gwvars
<1> QED BY <1>3, <1>4

LEMMA EngineSideStep ==
    ASSUME GInv, UNCHANGED gwvars,
           RunOrder \/ RunCancel \/ RunReplace \/ RunSnapshot \/ MatchFill \/ MatchEnd \/ Exit
    PROVE  GInv'
<1>1. IInv /\ CallOK /\ ReplacesOK /\ used' = used /\ phase = "begin"
  <2>1. call = NoCall
    BY DEF RunOrder, RunCancel, RunReplace, RunSnapshot, Pop, MatchFill, MatchEnd, Exit
  <2> QED BY <2>1, SMTT(30) DEF GInv, PhaseOK, NoCall, gwvars
<1>2. IInv' /\ Keeps
  BY <1>1, RunOrderStep, RunCancelStep, RunReplaceStep, RunSnapshotStep, MatchFillStep,
     MatchEndStep, PhaseStep
<1>3. Handed
  <2>1. CASE Exit
    BY <1>1, <2>1, SMTT(30) DEF Exit, Handed, CallOK, ReplacesOK, ReplaceOK
  <2> QED BY <1>1, <2>1, RunOrderHands, RunCancelHands, RunReplaceHands, RunSnapshotHands,
             MatchFillHands, MatchEndHands
<1>4. main' = main
  BY DEF RunOrder, RunCancel, RunReplace, RunSnapshot, MatchFill, MatchEnd, Exit
<1>5. PhaseOK'
  BY <1>1 DEF GInv, PhaseOK, gwvars
<1> QED BY <1>1, <1>2, <1>3, <1>4, <1>5, GatewayAsideStep DEF Handed

LEMMA MainSideStep ==
    ASSUME GInv, GwMain \/ GwAdmin
    PROVE  GInv'
<1>1. IInv' /\ Keeps
  <2>1. IInv /\ [Next]_vars
    BY DEF GInv, GwMain, GwAdmin, Next
  <2> QED BY <2>1, NextStep
<1>2. /\ UNCHANGED << gwvars, order_seq_, queue_, cur, call >>
      /\ pc' = "match" => pc = "match"
      /\ main = "serving" => main' = "serving" \/ fix = Idle
  BY DEF GwMain, GwAdmin, MainNext, AdminNext, RestoreOrder, Start, StopAcceptor, Stop,
         RegisterSymbol
<1>3. DOMAIN books_ \subseteq DOMAIN books_'
  BY DEF GwMain, GwAdmin, MainNext, AdminNext, RestoreOrder, Start, StopAcceptor, Stop,
         RegisterSymbol, Put
<1>4. CallOK' /\ ReplacesOK' /\ PhaseOK'
  BY <1>2 DEF GInv, CallOK, ReplacesOK, ReplaceOK, PhaseOK, gwvars
<1> QED BY <1>1, <1>2, <1>3, <1>4, GatewayAsideStep

---------------------------------------------------------------------------
(* Steps of the QuickFIX thread                                            *)

\* A handler's step that pushes nothing and draws no id.
LEMMA HandlerStep ==
    ASSUME GInv, UNCHANGED << vars, maps, last_price_, phase >>, main = "serving",
           FixOK', logged' \subseteq Clients, used \subseteq used', used' \subseteq ClOrdIds
    PROVE  GInv'
<1> USE DEF GInv, maps, vars
<1>1. IInv'
  BY PhaseStep
<1>2. CallOK' /\ PhaseOK'
  BY DEF CallOK, PhaseOK
<1>3. ReplacesOK'
  BY DEF ReplacesOK, ReplaceOK
<1>4. MapsOK'
  BY DEF MapsOK
<1> QED BY <1>1, <1>2, <1>3, <1>4

LEMMA LogonStep ==
    ASSUME GInv, NEW c \in Clients, Logon(c) \/ Logout(c)
    PROVE  GInv'
<1>1. CASE Logout(c)
  <2>1. FixOK'
    BY <1>1 DEF Logout, FixOK, Idle
  <2> QED BY <1>1, <2>1, HandlerStep DEF Logout, GInv, MapsOK
<1>2. CASE Logon(c)
  <2> DEFINE mine == {id \in DOMAIN active_orders_ : active_orders_[id].client_id = c}
  <2> USE DEF GInv, vars
  <2>1. /\ UNCHANGED << vars, clord_to_exchange_, active_orders_, last_price_, phase, used >>
        /\ main = "serving" /\ logged' = logged \cup {c}
        /\ order_sessions_' = [id \in DOMAIN order_sessions_ \cup mine |->
                 IF id \in DOMAIN order_sessions_ THEN order_sessions_[id] ELSE c]
        /\ fix' = [at |-> "status", client |-> c, orders |-> mine]
    BY <1>2 DEF Logon
  <2>2. mine \subseteq Nat
    BY DEF MapsOK, Order
  <2> HIDE DEF mine
  <2>3. IInv'
    BY <2>1, PhaseStep
  <2>4. CallOK' /\ PhaseOK' /\ ReplacesOK' /\ FixOK'
    BY <2>1 DEF CallOK, PhaseOK, ReplacesOK, ReplaceOK, FixOK
  <2>5. MapsOK'
    BY <2>1, <2>2 DEF MapsOK
  <2> QED BY <2>3, <2>4, <2>5
<1> QED BY <1>1, <1>2

\* NewOrderSingle up to the acknowledgement.
LEMMA AcceptStep ==
    ASSUME GInv, NEW m \in NewOrderMsgs, NEW c \in Clients, NEW clord \in ClOrdIds,
           AcceptNew(m, c, clord)
    PROVE  GInv'
<1> DEFINE o == NewOrder(m, c, clord)
<1> USE DEF GInv
<1>1. /\ main = "serving" /\ fix = Idle /\ clord \notin used
      /\ order_seq_ < MaxOrders /\ order_seq_' = order_seq_ + 1
      /\ Accepts(m) /\ fix' = [at |-> "submit", order |-> o]
      /\ order_sessions_' = Emplace(order_sessions_, o.exchange_id, c)
      /\ clord_to_exchange_' = Emplace(clord_to_exchange_, clord, o.exchange_id)
      /\ active_orders_' = Emplace(active_orders_, o.exchange_id, o)
      /\ used' = used \cup {clord}
      /\ UNCHANGED << books_, queue_, requests, rows, main, pc, cur, call, last_price_, phase,
                      logged >>
  BY DEF AcceptNew, Receives
<1>2. order_seq_ \in Nat /\ LiveIds \subseteq 0 .. order_seq_
  BY DEF IInv, TypeOK, Fresh
<1>3. /\ order_seq_' \in Nat /\ order_seq_' \in 1 .. MaxOrders
      /\ 0 .. order_seq_ \subseteq 0 .. order_seq_'
      /\ 1 .. order_seq_ \subseteq 1 .. order_seq_'
      /\ order_seq_' \notin 0 .. order_seq_ /\ order_seq_' \in 1 .. order_seq_'
  BY <1>1, <1>2, BoundAssumption
<1>4. /\ o \in Order /\ o.exchange_id = order_seq_' /\ o.symbol \in DOMAIN books_
      /\ o.qty \in Qtys /\ o.leaves_qty = o.qty
      /\ IF o.type = "limit" THEN o.price \in Prices /\ o.price > 0 ELSE o.price = 0
  <2>1. PICK q : q = CastInt(m.raw_qty)
    OBVIOUS
  <2>2. q \in Qtys
    BY <1>1, <2>1, MsgAssumption, Zenon DEF Accepts
  <2>3. /\ m \in [symbol : Symbols, side : Sides, type : Types, price : Int, raw_qty : Int,
                   tif : Tifs]
        /\ IF m.type = "limit" THEN m.price \in Prices /\ m.price > 0 ELSE m.price = 0
    BY <1>1, MsgAssumption DEF Accepts, Types
  <2>4. m.symbol \in DOMAIN books_ /\ q \in Int
    BY <1>1, <2>2, QtyAssumption DEF Accepts, valid_symbols_
  <2>5. o = [exchange_id |-> order_seq_ + 1, clord_id |-> clord, client_id |-> c,
             symbol |-> m.symbol, side |-> m.side, type |-> m.type, price |-> m.price,
             qty |-> q, leaves_qty |-> q, tif |-> m.tif]
    BY <2>1 DEF NewOrder
  <2> HIDE DEF o
  <2>6. /\ order_seq_ + 1 = order_seq_' /\ order_seq_' \in Nat
        /\ m.symbol \in Symbols /\ m.side \in Sides /\ m.type \in Types /\ m.price \in Int
        /\ m.tif \in Tifs
    BY <1>1, <1>3, <2>3
  <2>7. o \in Order
    BY <2>4, <2>5, <2>6 DEF Order
  <2>8. /\ o.exchange_id = order_seq_' /\ o.symbol = m.symbol /\ o.type = m.type
        /\ o.price = m.price /\ o.qty = q /\ o.leaves_qty = q
    BY <2>5, <2>6
  <2> QED BY <2>2, <2>3, <2>4, <2>7, <2>8
<1> HIDE DEF o
<1>5. LiveIds' = LiveIds /\ OnePlace'
  <2>1. /\ ListedIds' = ListedIds /\ QueuedIds' = QueuedIds /\ MatchingIds' = MatchingIds
        /\ UnrestoredIds' = UnrestoredIds /\ UNCHANGED books_
    BY <1>1 DEF ListedIds, QueuedIds, MatchingIds, UnrestoredIds
  <2>2. OnePlace
    BY DEF IInv, Fresh
  <2> QED BY <2>1, <2>2 DEF LiveIds, OnePlace
<1>6. IInv'
  <2>1. Fresh'
    BY <1>2, <1>3, <1>5 DEF Fresh
  <2>2. TypeOK'
    BY <1>1, <1>3 DEF IInv, TypeOK
  <2>3. BooksOK' /\ QueueOK' /\ CurOK' /\ RowsOK' /\ DrainOK'
    BY <1>1 DEF IInv, BooksOK, QueueOK, CurOK, RowsOK, DrainOK, StopsDrained, PriceOK
  <2> QED BY <2>1, <2>2, <2>3 DEF IInv
<1>7. CallOK' /\ PhaseOK'
  BY <1>1 DEF CallOK, PhaseOK
<1>8. ReplacesOK'
  BY <1>1, <1>3 DEF ReplacesOK, ReplaceOK
<1>9. FixOK'
  BY <1>1, <1>2, <1>3, <1>4, <1>5 DEF FixOK, SubmitOK
<1>10. MapsOK'
  BY <1>1, <1>3, <1>4 DEF MapsOK, Emplace, Put
<1> QED BY <1>6, <1>7, <1>8, <1>9, <1>10

\* A message that is rejected has drawn an id.
LEMMA RejectStep ==
    ASSUME GInv, Reject, fix = Idle, UNCHANGED gwvars
    PROVE  GInv'
<1> USE DEF GInv
<1>1. /\ order_seq_' = order_seq_ + 1 /\ order_seq_ \in Nat
      /\ UNCHANGED << books_, queue_, requests, rows, main, pc, cur, call, gwvars >>
  BY DEF Reject, IInv, TypeOK
<1>2. 1 .. order_seq_ \subseteq 1 .. order_seq_'
  BY <1>1
<1>3. IInv'
  BY GatewayStep DEF GatewayNext
<1>4. CallOK' /\ PhaseOK' /\ ReplacesOK' /\ FixOK'
  BY <1>1, <1>2 DEF CallOK, PhaseOK, ReplacesOK, ReplaceOK, FixOK, Idle, gwvars
<1>5. MapsOK'
  BY <1>1, <1>2 DEF MapsOK, gwvars
<1> QED BY <1>3, <1>4, <1>5

\* engine_.submit: the order carries the id drawn last, which the engine has not seen.
LEMMA SubmitStep ==
    ASSUME GInv, SubmitNew
    PROVE  GInv'
<1> DEFINE item == [tag |-> "ORDER", order |-> fix.order]
<1> USE DEF GInv
<1>1. /\ Push(item) /\ fix' = Idle
      /\ UNCHANGED << books_, order_seq_, requests, rows, main, pc, cur, call, phase,
                      order_sessions_, clord_to_exchange_, active_orders_, last_price_,
                      logged, used >>
  BY DEF SubmitNew, maps
<1>2. SubmitOK(fix.order)
  BY DEF SubmitNew, FixOK
<1>3. /\ item \in WorkItem /\ item.tag = "ORDER" /\ item.order = fix.order
  BY <1>2 DEF SubmitOK, WorkItem
<1>4. queue_ \in Seq(WorkItem) /\ order_seq_ \in Nat /\ requests \in 0 .. MaxRequests
  BY DEF IInv, TypeOK
<1>5. /\ fix.order.symbol \in DOMAIN books_ /\ PriceOK(fix.order)
      /\ fix.order.exchange_id \in 0 .. order_seq_ /\ fix.order.exchange_id \notin LiveIds
  BY <1>2, <1>4 DEF SubmitOK, PriceOK
<1> HIDE DEF item
<1>6. IInv'
  BY <1>1, <1>3, <1>4, <1>5, PushItem
<1>7. \A i \in DOMAIN queue_' : \/ i \in DOMAIN queue_ /\ queue_'[i] = queue_[i]
                                \/ queue_'[i] = item
  BY <1>1, <1>3, <1>4, PushProperties DEF Push
<1>8. ReplacesOK'
  BY <1>1, <1>3, <1>7 DEF ReplacesOK, ReplaceOK
<1>9. CallOK' /\ PhaseOK' /\ FixOK'
  BY <1>1 DEF CallOK, PhaseOK, FixOK, Idle
<1>10. MapsOK'
  BY <1>1 DEF MapsOK
<1> QED BY <1>6, <1>8, <1>9, <1>10

\* The handlers of the two requests, up to the lookup of the ClOrdID.
LEMMA ReceiveStep ==
    ASSUME GInv, NEW c \in Clients, NEW orig \in ClOrdIds, NEW s \in MsgSymbols,
           \/ RecvCancel(c, orig, s)
           \/ \E clord \in ClOrdIds, side \in Sides, p \in Prices, q \in ReplaceQtys :
                  RecvReplace(c, orig, clord, s, side, p, q)
    PROVE  GInv'
<1> DEFINE id == clord_to_exchange_[orig]
<1>1. main = "serving" /\ orig \in DOMAIN clord_to_exchange_
      /\ UNCHANGED << vars, maps, last_price_, phase, logged >>
  BY DEF RecvCancel, RecvReplace, Receives
<1>2. id \in 1 .. order_seq_
  BY <1>1 DEF GInv, MapsOK
<1> HIDE DEF id
<1>3. CASE RecvCancel(c, orig, s)
  <2>1. /\ fix' = [at |-> "request",
                   item |-> [tag |-> "CANCEL",
                             req |-> [client_id |-> c, symbol |-> s, orig_order_id |-> id]]]
        /\ used' = used
    BY <1>3 DEF RecvCancel, id
  <2>2. FixOK'
    BY <1>1, <1>2, <2>1 DEF FixOK, RequestOK, vars
  <2> QED BY <1>1, <2>1, <2>2, HandlerStep DEF GInv, MapsOK
<1>4. ASSUME NEW clord \in ClOrdIds, NEW side \in Sides, NEW p \in Prices, NEW q \in ReplaceQtys,
             RecvReplace(c, orig, clord, s, side, p, q)
      PROVE  GInv'
  <2> DEFINE req == [new_clord_id |-> clord, old_clord_id |-> orig, client_id |-> c,
                     orig_order_id |-> id, symbol |-> s, new_price |-> p, new_qty |-> q]
             item == [tag |-> "REPLACE", req |-> req]
  <2>1. fix' = [at |-> "request", item |-> item] /\ used' = used \cup {clord}
    BY <1>4 DEF RecvReplace, id
  <2>2. /\ item \in [tag : {"REPLACE"},
                    req : [new_clord_id : ClOrdIds, old_clord_id : ClOrdIds,
                           client_id : Clients, orig_order_id : 1 .. order_seq_,
                           symbol : MsgSymbols, new_price : Prices, new_qty : ReplaceQtys]]
        /\ item.req.new_clord_id \in used' /\ item.req.orig_order_id \in 1 .. order_seq_
    BY <1>2, <2>1
  <2> HIDE DEF item
  <2>3. FixOK'
    BY <1>1, <2>1, <2>2 DEF FixOK, RequestOK, ReplaceOK, vars
  <2> QED BY <1>1, <2>1, <2>3, HandlerStep DEF GInv, MapsOK
<1> QED BY <1>3, <1>4

\* engine_.cancel, engine_.replace and engine_.requestSnapshot.
LEMMA RequestStep ==
    ASSUME GInv, NEW item \in WorkItem, item.tag # "ORDER", Request(item),
           item.tag = "REPLACE" => ReplaceOK(item.req),
           fix' = Idle, UNCHANGED << maps, last_price_, phase, logged, used >>
    PROVE  GInv'
<1> USE DEF GInv, maps
<1>1. /\ Push(item) /\ UNCHANGED << books_, order_seq_, rows, main, pc, cur, call >>
      /\ requests < MaxRequests /\ requests' = requests + 1
  BY DEF Request
<1>2. queue_ \in Seq(WorkItem) /\ order_seq_ \in Nat /\ requests \in 0 .. MaxRequests
  BY DEF IInv, TypeOK
<1>3. requests' \in 0 .. MaxRequests
  BY <1>1, <1>2, BoundAssumption
<1>4. IInv'
  BY <1>1, <1>2, <1>3, PushStep
<1>5. \A i \in DOMAIN queue_' : \/ i \in DOMAIN queue_ /\ queue_'[i] = queue_[i]
                                \/ queue_'[i] = item
  BY <1>1, <1>2, PushProperties DEF Push
<1>6. ReplacesOK'
  BY <1>1, <1>5 DEF ReplacesOK, ReplaceOK
<1>7. CallOK' /\ PhaseOK' /\ FixOK' /\ MapsOK'
  BY <1>1 DEF CallOK, PhaseOK, FixOK, Idle, MapsOK
<1> QED BY <1>4, <1>6, <1>7

LEMMA RequestIsWork ==
    ASSUME GInv, NEW item, RequestOK(item)
    PROVE  item \in WorkItem /\ item.tag \in {"CANCEL", "REPLACE"}
<1>1. /\ MsgSymbols \subseteq Symbols /\ ReplaceQtys \subseteq Int
      /\ 1 .. order_seq_ \subseteq Nat
  BY SymbolAssumption, QtyAssumption
<1>2. CASE item \in [tag : {"CANCEL"}, req : [client_id : Clients, symbol : MsgSymbols,
                                              orig_order_id : 1 .. order_seq_]]
  <2>1. item \in [tag : {"CANCEL"}, req : CancelRequest]
    BY <1>1, <1>2 DEF CancelRequest
  <2> QED BY <2>1 DEF WorkItem
<1>3. CASE item \in [tag : {"REPLACE"},
                     req : [new_clord_id : ClOrdIds, old_clord_id : ClOrdIds,
                            client_id : Clients, orig_order_id : 1 .. order_seq_,
                            symbol : MsgSymbols, new_price : Prices, new_qty : ReplaceQtys]]
  <2>1. item \in [tag : {"REPLACE"}, req : ReplaceRequest]
    BY <1>1, <1>3 DEF ReplaceRequest
  <2> QED BY <2>1 DEF WorkItem
<1> QED BY <1>2, <1>3 DEF RequestOK

LEMMA FixStep ==
    ASSUME GInv, GwFix
    PROVE  GInv'
<1>1. CASE \E c \in Clients : Logon(c) \/ Logout(c)
  BY <1>1, LogonStep
<1>2. CASE SendStatus
  <2>1. main = "serving" /\ FixOK'
    BY <1>2 DEF SendStatus, GInv, FixOK, Idle
  <2> QED BY <1>2, <2>1, HandlerStep DEF SendStatus, GInv, MapsOK
<1>3. CASE \E m \in NewOrderMsgs, c \in Clients : RejectNew(m, c)
  BY <1>3, RejectStep DEF RejectNew, Receives
<1>4. CASE \E m \in NewOrderMsgs, c \in Clients, cl \in ClOrdIds : AcceptNew(m, c, cl)
  BY <1>4, AcceptStep
<1>5. CASE SubmitNew
  BY <1>5, SubmitStep
<1>6. CASE \E c \in Clients, orig \in ClOrdIds, s \in MsgSymbols : RecvCancel(c, orig, s)
  <2>1. PICK c \in Clients, orig \in ClOrdIds, s \in MsgSymbols : RecvCancel(c, orig, s)
    BY <1>6
  <2> QED BY <2>1, ReceiveStep
<1>7. CASE \E c \in Clients, orig, cl \in ClOrdIds, s \in MsgSymbols, side \in Sides,
             p \in Prices, q \in ReplaceQtys : RecvReplace(c, orig, cl, s, side, p, q)
  <2>1. PICK c \in Clients, orig \in ClOrdIds, cl \in ClOrdIds, s \in MsgSymbols,
             side \in Sides, p \in Prices, q \in ReplaceQtys :
                 RecvReplace(c, orig, cl, s, side, p, q)
    BY <1>7
  <2> QED BY <2>1, ReceiveStep
<1>8. CASE PushRequest
  <2>1. fix.item \in WorkItem /\ fix.item.tag # "ORDER"
        /\ (fix.item.tag = "REPLACE" => ReplaceOK(fix.item.req))
    <3>1. RequestOK(fix.item)
      BY <1>8 DEF PushRequest, GInv, FixOK
    <3>2. fix.item.tag = "REPLACE" => ReplaceOK(fix.item.req)
      BY <3>1 DEF RequestOK
    <3> QED BY <3>1, <3>2, RequestIsWork
  <2> QED BY <1>8, <2>1, RequestStep DEF PushRequest
<1>9. CASE \E c \in Clients : RecvMarketDataRequest(c)
  <2>1. [tag |-> "SNAPSHOT"] \in WorkItem
    BY DEF WorkItem
  <2> QED BY <1>9, <2>1, RequestStep DEF RecvMarketDataRequest, RequestSnapshot, Receives,
                                         gwvars, maps
<1> QED BY <1>1, <1>2, <1>3, <1>4, <1>5, <1>6, <1>7, <1>8, <1>9 DEF GwFix, GwOrders

---------------------------------------------------------------------------
(* Callbacks                                                               *)

\* A callback's step: the engine's state is unchanged, or the callback has returned.
LEMMA CallbackStep ==
    ASSUME GInv, UNCHANGED << fix, used, logged >>,
           \/ UNCHANGED vars
           \/ CallbackReturn,
           PhaseOK', MapsOK'
    PROVE  GInv'
<1> USE DEF GInv
<1>1. IInv' /\ Keeps
  BY PhaseStep
<1>2. UNCHANGED << books_, queue_, order_seq_, main, pc, cur >> /\ call' \in {call, NoCall}
  BY DEF vars, CallbackReturn
<1>3. CallOK' /\ ReplacesOK'
  BY <1>2 DEF CallOK, ReplacesOK, ReplaceOK, NoCall
<1>4. order_seq_ \in 0 .. order_seq_
  BY DEF IInv, TypeOK
<1>5. FixOK'
  BY <1>1, <1>2, <1>4 DEF FixOK, SubmitOK, RequestOK, ReplaceOK, Keeps
<1> QED BY <1>1, <1>3, <1>5

LEMMA ReturnPhase ==
    ASSUME Return
    PROVE  CallbackReturn /\ PhaseOK' /\ order_seq_' = order_seq_
  BY DEF Return, PhaseOK, CallbackReturn, NoCall

\* A map that loses entries keeps what is known of the others.
LEMMA DropFields ==
    ASSUME NEW f, NEW k
    PROVE  /\ DOMAIN Drop(f, k) \subseteq DOMAIN f
           /\ \A x \in DOMAIN Drop(f, k) : Drop(f, k)[x] = f[x]
           /\ \A x \in DOMAIN f : x # k => x \in DOMAIN Drop(f, k)
           /\ k \notin DOMAIN Drop(f, k)
  BY DEF Drop

LEMMA FillFields ==
    \A f \in Fill : /\ f.exchange_id \in Nat /\ f.leaves_qty \in Int /\ f.symbol \in Symbols
  BY DEF Fill

LEMMA RouteStep ==
    ASSUME GInv, NEW fill, NEW ph, NEW next, NEW skip, SendFillRoute(fill, ph, next, skip),
           {next, skip} \subseteq {"maker_orders", "taker", "taker_orders", "trade"}
    PROVE  GInv'
<1>1. /\ call.fn = "on_fill" /\ phase' \in {next, skip}
      /\ order_sessions_' \in {order_sessions_, Drop(order_sessions_, fill.exchange_id)}
      /\ clord_to_exchange_' \in {clord_to_exchange_, Drop(clord_to_exchange_, fill.clord_id)}
      /\ UNCHANGED << vars, active_orders_, last_price_, fix, logged, used >>
  BY DEF SendFillRoute, InCallback
<1>2. MapsOK'
  BY <1>1, DropFields DEF GInv, MapsOK, vars
<1>3. PhaseOK'
  BY <1>1 DEF PhaseOK, vars
<1> QED BY <1>1, <1>2, <1>3, CallbackStep

LEMMA ReportStep ==
    ASSUME GInv, NEW fill \in Fill, NEW ph, NEW next, SendFillReport(fill, ph, next),
           next \in {"taker", "trade"}
    PROVE  GInv'
<1> DEFINE id == fill.exchange_id
<1>1. /\ call.fn = "on_fill" /\ phase' = next
      /\ active_orders_' \in {active_orders_, Drop(active_orders_, id),
                              [active_orders_ EXCEPT ![id].leaves_qty = fill.leaves_qty]}
      /\ UNCHANGED << vars, order_sessions_, clord_to_exchange_, last_price_, fix, logged, used >>
  BY DEF SendFillReport, InCallback
<1>2. fill.leaves_qty \in Int
  BY FillFields
<1>3. \A x \in DOMAIN active_orders_' :
          active_orders_'[x] \in Order /\ active_orders_'[x].exchange_id = x
  <2>1. CASE active_orders_' = [active_orders_ EXCEPT ![id].leaves_qty = fill.leaves_qty]
    <3>1. ASSUME NEW x \in DOMAIN active_orders_
          PROVE  active_orders_[x] \in Order /\ active_orders_[x].exchange_id = x
      BY DEF GInv, MapsOK
    <3>2. \A o \in Order : /\ [o EXCEPT !.leaves_qty = fill.leaves_qty] \in Order
                           /\ [o EXCEPT !.leaves_qty = fill.leaves_qty].exchange_id = o.exchange_id
      BY <1>2 DEF Order
    <3> QED BY <2>1, <3>1, <3>2
  <2> QED BY <1>1, <2>1, DropFields DEF GInv, MapsOK
<1>4. MapsOK'
  BY <1>1, <1>3 DEF GInv, MapsOK, vars
<1>5. PhaseOK'
  BY <1>1 DEF PhaseOK, vars
<1> QED BY <1>1, <1>4, <1>5, CallbackStep

LEMMA OnFillStepOK ==
    ASSUME GInv, OnFillStep
    PROVE  GInv'
<1>1. call.fn = "on_fill" /\ call.maker \in Fill /\ call.taker \in Fill
  BY DEF OnFillStep, SendFillRoute, SendFillReport, FillTrade, FillReturn, InCallback, GInv, CallOK
<1>2. CASE SendFillRoute(call.maker, "begin", "maker_orders", "taker")
  BY <1>2, RouteStep
<1>3. CASE SendFillReport(call.maker, "maker_orders", "taker")
  BY <1>1, <1>3, ReportStep
<1>4. CASE SendFillRoute(call.taker, "taker", "taker_orders", "trade")
  BY <1>4, RouteStep
<1>5. CASE SendFillReport(call.taker, "taker_orders", "trade")
  BY <1>1, <1>5, ReportStep
<1>6. CASE FillTrade
  <2>1. /\ phase' = "taker_event"
        /\ last_price_' = Put(last_price_, call.maker.symbol, call.maker.price)
        /\ UNCHANGED << vars, maps, fix, logged, used >>
    BY <1>6 DEF FillTrade
  <2>2. MapsOK' /\ PhaseOK'
    BY <1>1, <2>1, FillFields DEF GInv, MapsOK, PhaseOK, Put, maps, vars
  <2> QED BY <2>1, <2>2, CallbackStep
<1>7. CASE FillReturn
  <2>1. MapsOK' /\ PhaseOK'
    BY <1>7, ReturnPhase DEF FillReturn, GInv, MapsOK, maps
  <2> QED BY <1>7, <2>1, ReturnPhase, CallbackStep DEF FillReturn
<1> QED BY <1>2, <1>3, <1>4, <1>5, <1>6, <1>7 DEF OnFillStep

LEMMA OnReplaceStepOK ==
    ASSUME GInv, OnReplaceStep
    PROVE  GInv'
<1> DEFINE req == call.req
           id == req.orig_order_id
           left == IF call.leaves_qty > 0 THEN call.leaves_qty ELSE 0
           upd == [active_orders_ EXCEPT ![id].clord_id = req.new_clord_id,
                                         ![id].price = req.new_price,
                                         ![id].qty = req.new_qty,
                                         ![id].leaves_qty = left]
<1>1. /\ call.fn = "on_replace" /\ Return /\ UNCHANGED << last_price_, fix, logged, used >>
      /\ clord_to_exchange_' \in
             {clord_to_exchange_,
              Emplace(Drop(clord_to_exchange_, req.old_clord_id), req.new_clord_id, id)}
      /\ order_sessions_' \in {order_sessions_, Drop(order_sessions_, id)}
      /\ active_orders_' \in {active_orders_, Drop(active_orders_, id), upd}
  BY DEF OnReplaceStep, InCallback, maps
<1>2. /\ req \in ReplaceRequest /\ req.new_clord_id \in used /\ id \in 1 .. order_seq_
      /\ call.leaves_qty \in Int
  BY <1>1 DEF GInv, CallOK, ReplacesOK, ReplaceOK
<1>3. req.new_clord_id \in ClOrdIds /\ req.new_price \in Int /\ req.new_qty \in Int
      /\ left \in Int
  BY <1>2, RequestFields
<1> HIDE DEF left
<1>4. \A x \in DOMAIN active_orders_' :
          active_orders_'[x] \in Order /\ active_orders_'[x].exchange_id = x
  <2>1. CASE active_orders_' = upd
    <3>1. ASSUME NEW x \in DOMAIN active_orders_
          PROVE  active_orders_[x] \in Order /\ active_orders_[x].exchange_id = x
      BY DEF GInv, MapsOK
    <3> DEFINE new(o) == [o EXCEPT !.clord_id = req.new_clord_id, !.price = req.new_price,
                                   !.qty = req.new_qty, !.leaves_qty = left]
    <3>2. \A o \in Order : new(o) \in Order /\ new(o).exchange_id = o.exchange_id
      BY <1>3 DEF Order
    <3>3. DOMAIN upd = DOMAIN active_orders_
          /\ \A x \in DOMAIN upd : upd[x] = IF x = id THEN new(active_orders_[x])
                                            ELSE active_orders_[x]
      OBVIOUS
    <3> HIDE DEF upd, new
    <3> QED BY <2>1, <3>1, <3>2, <3>3
  <2> QED BY <1>1, <2>1, DropFields DEF GInv, MapsOK
<1>5. /\ DOMAIN clord_to_exchange_' \subseteq used
      /\ \A c \in DOMAIN clord_to_exchange_' : clord_to_exchange_'[c] \in 1 .. order_seq_
  <2> DEFINE d == Drop(clord_to_exchange_, req.old_clord_id)
  <2>1. /\ DOMAIN d \subseteq used
        /\ \A c \in DOMAIN d : d[c] \in 1 .. order_seq_
    BY DropFields DEF GInv, MapsOK
  <2> HIDE DEF d
  <2>2. clord_to_exchange_' \in {clord_to_exchange_, Emplace(d, req.new_clord_id, id)}
    BY <1>1 DEF d
  <2> QED BY <1>2, <2>1, <2>2 DEF Emplace, Put, GInv, MapsOK
<1>6. CallbackReturn /\ PhaseOK' /\ order_seq_' = order_seq_
  BY <1>1, ReturnPhase
<1>7. MapsOK'
  BY <1>1, <1>4, <1>5, <1>6, DropFields DEF GInv, MapsOK
<1> QED BY <1>1, <1>6, <1>7, CallbackStep

LEMMA OtherCallbacksOK ==
    ASSUME GInv, OnCancelStep \/ OnTifCancelStep \/ OnOrderRestedStep \/ SnapshotStep
    PROVE  GInv'
<1>1. /\ Return /\ UNCHANGED << last_price_, fix, logged, used >>
      /\ \E id : /\ order_sessions_' \in {order_sessions_, Drop(order_sessions_, id)}
                 /\ active_orders_' \in {active_orders_, Drop(active_orders_, id)}
      /\ \E c : clord_to_exchange_' \in {clord_to_exchange_, Drop(clord_to_exchange_, c)}
  BY DEF OnCancelStep, OnTifCancelStep, OnOrderRestedStep, SnapshotStep, maps
<1>2. CallbackReturn /\ PhaseOK' /\ order_seq_' = order_seq_
  BY <1>1, ReturnPhase
<1>3. MapsOK'
  BY <1>1, <1>2, DropFields DEF GInv, MapsOK
<1> QED BY <1>1, <1>2, <1>3, CallbackStep

---------------------------------------------------------------------------
(* Start                                                                   *)

\* restoreOrders: the ids and ClOrdIDs of the rows, each with its (first) row.
LEMMA RestoredMaps ==
    ASSUME NEW rs \in Seq(Order), NEW n, \A i \in DOMAIN rs : rs[i].exchange_id \in 1 .. n
    PROVE  /\ \A id \in DOMAIN RestoredOrders(rs) :
                  /\ RestoredOrders(rs)[id] \in Order
                  /\ RestoredOrders(rs)[id].exchange_id = id
           /\ DOMAIN RestoredClOrds(rs) = {rs[i].clord_id : i \in DOMAIN rs}
           /\ DOMAIN RestoredClOrds(rs) \subseteq ClOrdIds
           /\ \A c \in DOMAIN RestoredClOrds(rs) : RestoredClOrds(rs)[c] \in 1 .. n
<1>2. Len(rs) \in Nat /\ DOMAIN rs = 1 .. Len(rs)
  BY LenProperties
<1>3. \A i \in DOMAIN rs : rs[i] \in Order /\ rs[i].exchange_id \in Nat
                           /\ rs[i].clord_id \in ClOrdIds
  <2>1. \A i \in DOMAIN rs : rs[i] \in Order
    BY <1>2, ElementOfSeq
  <2> QED BY <2>1 DEF Order
<1>4. ASSUME NEW id \in DOMAIN RestoredOrders(rs)
      PROVE  /\ RestoredOrders(rs)[id] \in Order
             /\ RestoredOrders(rs)[id].exchange_id = id
  <2>1. \E i \in DOMAIN rs : rs[i].exchange_id = id
    BY <1>4 DEF RestoredOrders
  <2> DEFINE k == CHOOSE i \in DOMAIN rs : rs[i].exchange_id = id
  <2>2. k \in DOMAIN rs /\ rs[k].exchange_id = id
    BY <2>1
  <2>3. RestoredOrders(rs)[id] = rs[k]
    BY <1>4 DEF RestoredOrders
  <2> QED BY <1>3, <2>2, <2>3
<1>5. ASSUME NEW c \in DOMAIN RestoredClOrds(rs)
      PROVE  RestoredClOrds(rs)[c] \in 1 .. n
  <2> DEFINE T == {i \in DOMAIN rs : rs[i].clord_id = c}
             k == FirstRow(rs, c)
  <2>1. T # {} /\ T \subseteq Nat
    BY <1>2, <1>5 DEF RestoredClOrds
  <2>2. \E i \in T : \A j \in T : i <= j
    <3>1. PICK i \in T : \A j \in T : ~(j < i)
      BY <2>1, NatMinimum
    <3>2. \A j \in T : i <= j
      BY <2>1, <3>1
    <3> QED BY <3>2
  <2>3. k \in DOMAIN rs
    <3>1. \E i \in DOMAIN rs :
              rs[i].clord_id = c /\ \A j \in DOMAIN rs : rs[j].clord_id = c => i <= j
      BY <2>2
    <3> QED BY <3>1 DEF FirstRow
  <2>4. RestoredClOrds(rs)[c] = rs[k].exchange_id
    BY <1>5 DEF RestoredClOrds
  <2> HIDE DEF k
  <2> QED BY <2>3, <2>4
<1>6. DOMAIN RestoredClOrds(rs) = {rs[i].clord_id : i \in DOMAIN rs}
  BY DEF RestoredClOrds
<1>7. DOMAIN RestoredClOrds(rs) \subseteq ClOrdIds
  BY <1>3, <1>6
<1> QED BY <1>4, <1>5, <1>6, <1>7

LEMMA GwInitOK == GwInit => GInv
<1> SUFFICES ASSUME GwInit PROVE GInv
  OBVIOUS
<1>1. Init /\ rows \in RestingRows
  BY DEF GwInit, Init
<1>2. IInv
  BY <1>1, InitIInv
<1>3. queue_ = << >> /\ pc = "created" /\ call = NoCall /\ fix = Idle /\ phase = "begin"
  BY DEF GwInit, Init
<1>4. DOMAIN queue_ = {}
  BY <1>3
<1>5. CallOK /\ PhaseOK /\ ReplacesOK /\ FixOK
  BY <1>3, <1>4 DEF CallOK, PhaseOK, ReplacesOK, FixOK, NoCall, Idle
<1>6. MapsOK
  <2>1. /\ order_sessions_ = NoEntry /\ last_price_ = NoEntry /\ logged = {}
        /\ clord_to_exchange_ = RestoredClOrds(rows) /\ active_orders_ = RestoredOrders(rows)
        /\ used = DOMAIN clord_to_exchange_
        /\ order_seq_ = IF rows = << >> THEN 0 ELSE rows[Len(rows)].exchange_id
    BY DEF GwInit, Init
  <2>2. rows \in Seq(Order) /\ \A i \in DOMAIN rows : rows[i].exchange_id \in 1 .. order_seq_
    <3>1. rows \in Seq(Order) /\ \A i \in DOMAIN rows : rows[i].exchange_id > 0
      BY <1>1, RowsAssumption
    <3>2. \A i \in DOMAIN rows : rows[i].exchange_id \in 0 .. order_seq_
      BY <1>2 DEF IInv, Fresh, LiveIds, UnrestoredIds
    <3> QED BY <1>2, <3>1, <3>2 DEF IInv, TypeOK
  <2>3. \A c \in DOMAIN clord_to_exchange_ : clord_to_exchange_[c] \in 1 .. order_seq_
    BY <2>1, <2>2, RestoredMaps
  <2>4. used \subseteq ClOrdIds
        /\ \A id \in DOMAIN active_orders_ :
               active_orders_[id] \in Order /\ active_orders_[id].exchange_id = id
    BY <2>1, <2>2, RestoredMaps
  <2>5. DOMAIN order_sessions_ = {} /\ DOMAIN last_price_ = {}
    BY <2>1 DEF NoEntry
  <2> QED BY <2>1, <2>3, <2>4, <2>5 DEF MapsOK
<1> QED BY <1>2, <1>5, <1>6 DEF GInv

---------------------------------------------------------------------------
(* Theorems                                                                *)

\* Every step of every thread preserves the invariant.
LEMMA GwNextStep ==
    ASSUME GInv, [GwNext]_allvars
    PROVE  GInv'
<1>1. CASE GwMain \/ GwAdmin
  BY <1>1, MainSideStep
<1>2. CASE GwFix
  BY <1>2, FixStep
<1>3. CASE GwEngine
  <2>1. CASE OnFillStep \/ OnReplaceStep
    BY <2>1, OnFillStepOK, OnReplaceStepOK
  <2>2. CASE OnCancelStep \/ OnTifCancelStep \/ OnOrderRestedStep \/ SnapshotStep
    BY <2>2, OtherCallbacksOK
  <2>3. CASE /\ RunOrder \/ RunCancel \/ RunReplace \/ RunSnapshot \/ MatchFill \/ MatchEnd \/ Exit
             /\ UNCHANGED gwvars
    BY <2>3, EngineSideStep
  <2> QED BY <1>3, <2>1, <2>2, <2>3 DEF GwEngine
<1>4. CASE GwOver \/ UNCHANGED allvars
  <2>1. UNCHANGED << vars, gwvars >>
    BY <1>4 DEF GwOver, Over, allvars
  <2>2. PhaseOK' /\ MapsOK'
    BY <2>1 DEF GInv, PhaseOK, MapsOK, vars, gwvars
  <2> QED BY <2>1, <2>2, CallbackStep DEF gwvars
<1> QED BY <1>1, <1>2, <1>3, <1>4 DEF GwNext

\* The engine's invariant, and what handlers and callbacks hand each other, hold at every step
\* of FixGateway's handlers and callbacks around the engine.
THEOREM GatewayInvariant == GwSpec => []GInv
<1>1. GwInit => GInv
  BY GwInitOK
<1>2. GInv /\ [GwNext]_allvars => GInv'
  BY GwNextStep
<1> QED BY <1>1, <1>2, PTL DEF GwSpec

\* The types of the gateway's state are part of its invariant.
LEMMA GInvTypes == GInv => GwTypeOK
<1> SUFFICES ASSUME GInv PROVE GwTypeOK
  OBVIOUS
<1>1. fix.at = "submit" => fix.order \in Order
  BY DEF GInv, FixOK, SubmitOK
<1>2. fix.at = "request" => fix.item \in WorkItem
  BY RequestIsWork DEF GInv, FixOK
<1>3. 1 .. order_seq_ \subseteq Nat
  OBVIOUS
<1>4. call = NoCall => phase = "begin"
  BY DEF GInv, PhaseOK, NoCall
<1> QED BY <1>1, <1>2, <1>3, <1>4 DEF GInv, MapsOK, FixOK, PhaseOK, GwTypeOK

\* The gateway's maps, its counter order_seq_, the handler in progress and the callback in
\* progress keep their types, whatever requests arrive.
THEOREM GatewayTypeOK == GwSpec => []GwTypeOK
<1> QED BY GInvTypes, GatewayInvariant, PTL

\* run() also leaves its loop with an empty queue, no aggressor and no callback when the
\* requests come from the gateway's handlers.
THEOREM GatewayStopsDrained == GwSpec => []StopsDrained
<1>1. GInv => StopsDrained
  BY DEF GInv, IInv, DrainOK
<1> QED BY <1>1, GatewayInvariant, PTL

---------------------------------------------------------------------------
(* The gateway drives the engine                                           *)

\* The operators of the engine mean the same in both modules.
LEMMA SameBooks ==
    /\ Engine!EmptyBook = EmptyBook
    /\ \A book, o : /\ Engine!PushBack(book, o) = PushBack(book, o)
                    /\ Engine!AvailableToFill(book, o) = AvailableToFill(book, o)
                    /\ Engine!CanMatch(book, o) = CanMatch(book, o)
                    /\ Engine!Resting(book, o) = Resting(book, o)
                    /\ Engine!FillQty(book, o) = FillQty(book, o)
                    /\ Engine!AfterFill(book, o) = AfterFill(book, o)
    /\ \A book, id : /\ Engine!Cancelled(book, id) = Cancelled(book, id)
                     /\ Engine!Found(book, id) = Found(book, id)
                     /\ Engine!Unlink(book, id) = Unlink(book, id)
    /\ \A book, side : Engine!GetLevels(book, side) = GetLevels(book, side)
    /\ \A book : Engine!GetOrders(book) = GetOrders(book)
    /\ \A book, id, p, q : Engine!InPlace(book, id, p, q) = InPlace(book, id, p, q)
    /\ \A book, id, q : Engine!Reduced(book, id, q) = Reduced(book, id, q)
    /\ \A o, p, q, l : Engine!MakeFill(o, p, q, l) = MakeFill(o, p, q, l)
    /\ \A o : Engine!Rests(o) = Rests(o)
    /\ \A f, k, v : Engine!Put(f, k, v) = Put(f, k, v)
<1> USE DEF Put, Engine!Put, Drop, Engine!Drop, NoEntry, Engine!NoEntry, Sides, Engine!Sides,
        Opposite, Engine!Opposite, IdsAt, Engine!IdsAt
<1>1. Engine!EmptyBook = EmptyBook
  BY DEF EmptyBook, Engine!EmptyBook
<1>2. \A book, o : Engine!PushBack(book, o) = PushBack(book, o)
  BY DEF PushBack, Engine!PushBack
<1>3. \A book, id : Engine!Unlink(book, id) = Unlink(book, id)
  BY DEF Unlink, Engine!Unlink, EraseNode, Engine!EraseNode, Position, Engine!Position
<1>4. /\ \A book, o : Engine!CanMatch(book, o) = CanMatch(book, o)
      /\ \A book, o : Engine!Resting(book, o) = Resting(book, o)
  BY DEF CanMatch, Engine!CanMatch, Resting, Engine!Resting, Crosses, Engine!Crosses,
         BestPrice, Engine!BestPrice, Better, Engine!Better
<1>5. \A book, o : Engine!FillQty(book, o) = FillQty(book, o)
  BY <1>4 DEF FillQty, Engine!FillQty, Lesser, Engine!Lesser
<1>6. \A book, o : Engine!AfterFill(book, o) = AfterFill(book, o)
  BY <1>3, <1>4, <1>5 DEF AfterFill, Engine!AfterFill
<1>7. \A book, o : Engine!AvailableToFill(book, o) = AvailableToFill(book, o)
  BY DEF AvailableToFill, Engine!AvailableToFill, Reachable, Engine!Reachable,
         Crosses, Engine!Crosses, WrapInt, Engine!WrapInt, SumLeaves, Engine!SumLeaves,
         MapThenSumSet, Engine!MapThenSumSet, MapThenFoldSet, Engine!MapThenFoldSet
<1>8. \A book, side : Engine!GetLevels(book, side) = GetLevels(book, side)
  BY DEF GetLevels, Engine!GetLevels, WrapInt, Engine!WrapInt, SumLeaves, Engine!SumLeaves,
         MapThenSumSet, Engine!MapThenSumSet, MapThenFoldSet, Engine!MapThenFoldSet
<1>9. \A book : Engine!GetOrders(book) = GetOrders(book)
  BY DEF GetOrders, Engine!GetOrders
<1>10. \A book, id : /\ Engine!Found(book, id) = Found(book, id)
                     /\ Engine!Cancelled(book, id) = Cancelled(book, id)
  BY <1>3 DEF Found, Engine!Found, Cancelled, Engine!Cancelled
<1>11. /\ \A book, id, p, q : Engine!InPlace(book, id, p, q) = InPlace(book, id, p, q)
       /\ \A book, id, q : Engine!Reduced(book, id, q) = Reduced(book, id, q)
  BY DEF InPlace, Engine!InPlace, Reduced, Engine!Reduced
<1>12. /\ \A o, p, q, l : Engine!MakeFill(o, p, q, l) = MakeFill(o, p, q, l)
       /\ \A o : Engine!Rests(o) = Rests(o)
  BY DEF MakeFill, Engine!MakeFill, Rests, Engine!Rests
<1>13. \A f, k, v : Engine!Put(f, k, v) = Put(f, k, v)
  OBVIOUS
<1> QED BY <1>1, <1>2, <1>3, <1>4, <1>5, <1>6, <1>7, <1>8, <1>9, <1>10, <1>11, <1>12, <1>13

LEMMA SameEngineSteps ==
    ASSUME UNCHANGED submitted_seq
    PROVE  /\ RunOrder => Engine!RunOrder
           /\ RunCancel => Engine!RunCancel
           /\ RunReplace => Engine!RunReplace
           /\ RunSnapshot => Engine!RunSnapshot
           /\ MatchFill => Engine!MatchFill
           /\ MatchEnd => Engine!MatchEnd
           /\ Exit => Engine!Exit
           /\ CallbackReturn => Engine!CallbackReturn
<1> USE DEF Pop, Engine!Pop, NoBook, Engine!NoBook, Add, Engine!Add,
        valid_symbols_, Engine!valid_symbols_, stop_, Engine!stop_,
        NoCall, Engine!NoCall, NoCur, Engine!NoCur
<1>1. RunOrder => Engine!RunOrder
  BY SameBooks DEF RunOrder, Engine!RunOrder, OnTifCancel, Engine!OnTifCancel
<1>2. RunCancel => Engine!RunCancel
  BY SameBooks, SMTT(30) DEF RunCancel, Engine!RunCancel, OnCancel, Engine!OnCancel
<1>3. RunReplace => Engine!RunReplace
  BY SameBooks, Zenon DEF RunReplace, Engine!RunReplace, OnReplace, Engine!OnReplace
<1>4. RunSnapshot => Engine!RunSnapshot
  BY SameBooks DEF RunSnapshot, Engine!RunSnapshot, SnapshotCb, Engine!SnapshotCb
<1>5. MatchFill => Engine!MatchFill
  BY SameBooks DEF MatchFill, Engine!MatchFill, OnFill, Engine!OnFill
<1>6. MatchEnd => Engine!MatchEnd
  BY SameBooks DEF MatchEnd, Engine!MatchEnd, AfterAdd, Engine!AfterAdd,
         OnReplace, Engine!OnReplace, OnTifCancel, Engine!OnTifCancel,
         OnOrderRested, Engine!OnOrderRested
<1>7. Exit => Engine!Exit
  BY DEF Exit, Engine!Exit
<1>8. CallbackReturn => Engine!CallbackReturn
  BY DEF CallbackReturn, Engine!CallbackReturn
<1> QED BY <1>1, <1>2, <1>3, <1>4, <1>5, <1>6, <1>7, <1>8

\* Steps of the other threads that the engine sees as its own.
LEMMA SameOutsideSteps ==
    ASSUME UNCHANGED submitted_seq
    PROVE  /\ MainNext => Engine!MainNext
           /\ AdminNext => Engine!AdminNext
           /\ \A item : Request(item) => Engine!Request(item)
<1> USE DEF valid_symbols_, Engine!valid_symbols_
<1>1. RestoreOrder => Engine!RestoreOrder
  BY SameBooks DEF RestoreOrder, Engine!RestoreOrder
<1>2. MainNext => Engine!MainNext
  BY <1>1 DEF MainNext, Engine!MainNext, Start, Engine!Start, StopAcceptor, Engine!StopAcceptor,
              Stop, Engine!Stop
<1>3. AdminNext => Engine!AdminNext
  BY SameBooks DEF AdminNext, Engine!AdminNext, RegisterSymbol, Engine!RegisterSymbol
<1>4. \A item : Request(item) => Engine!Request(item)
  BY DEF Request, Engine!Request, Push, Engine!Push
<1> QED BY <1>2, <1>3, <1>4

\* engine_.submit is the engine's Submit of the order without its id.
LEMMA SubmitRefines ==
    ASSUME GInv, SubmitNew
    PROVE  Engine!GatewayNext
<1> DEFINE o == [fix.order EXCEPT !.exchange_id = 0]
<1>1. fix.at = "submit" /\ SubmitOK(fix.order) /\ fix' = Idle
      /\ Push([tag |-> "ORDER", order |-> fix.order])
      /\ UNCHANGED << books_, order_seq_, requests, rows, main, pc, cur, call >>
  BY DEF SubmitNew, GInv, FixOK
<1>2. submitted_seq = order_seq_ - 1 /\ submitted_seq' = order_seq_ /\ order_seq_ \in Nat
      /\ order_seq_ <= MaxOrders
  BY <1>1 DEF submitted_seq, Idle, SubmitOK
<1>3. o \in Engine!NewOrders
  BY <1>1 DEF SubmitOK, Order, Engine!NewOrders, Sides, Engine!Sides, Types, Engine!Types,
              Tifs, Engine!Tifs, Prices, Engine!Prices
<1>4. [o EXCEPT !.exchange_id = submitted_seq + 1] = fix.order
  <2>1. submitted_seq + 1 = fix.order.exchange_id
    BY <1>1, <1>2 DEF SubmitOK
  <2>2. \A x \in Order : [[x EXCEPT !.exchange_id = 0] EXCEPT !.exchange_id = x.exchange_id] = x
    BY DEF Order
  <2> QED BY <1>1, <2>1, <2>2 DEF SubmitOK
<1>5. o.symbol \in DOMAIN books_
  BY <1>1 DEF SubmitOK, Order
<1> HIDE DEF o
<1>6. submitted_seq < MaxOrders /\ submitted_seq' = submitted_seq + 1
  BY <1>2, BoundAssumption
<1>7. Engine!Submit(o)
  BY <1>1, <1>4, <1>5, <1>6 DEF Engine!Submit, Engine!Push, Push, Engine!valid_symbols_
<1> QED BY <1>3, <1>7 DEF Engine!GatewayNext

\* engine_.cancel and engine_.replace name an id that was submitted.
LEMMA RequestRefines ==
    ASSUME GInv, PushRequest
    PROVE  Engine!GatewayNext
<1>1. fix.at = "request" /\ RequestOK(fix.item) /\ fix' = Idle /\ Request(fix.item)
  BY DEF PushRequest, GInv, FixOK
<1>2. order_seq_' = order_seq_
  BY <1>1 DEF Request
<1>3. submitted_seq = order_seq_ /\ submitted_seq' = submitted_seq
  BY <1>1, <1>2 DEF submitted_seq, Idle
<1>4. Engine!Request(fix.item)
  BY <1>1, <1>3, SameOutsideSteps
<1> DEFINE r == fix.item.req
<1>5. CASE fix.item \in [tag : {"CANCEL"}, req : [client_id : Clients, symbol : MsgSymbols,
                                                  orig_order_id : 1 .. order_seq_]]
  <2>1. r.orig_order_id \in 1 .. submitted_seq /\ r.symbol \in MsgSymbols /\ r.client_id \in Clients
    BY <1>3, <1>5
  <2>2. fix.item = [tag |-> "CANCEL", req |-> [client_id |-> r.client_id, symbol |-> r.symbol,
                                               orig_order_id |-> r.orig_order_id]]
    BY <1>5
  <2> HIDE DEF r
  <2>3. Engine!Cancel([client_id |-> r.client_id, symbol |-> r.symbol,
                       orig_order_id |-> r.orig_order_id])
    BY <1>4, <2>2 DEF Engine!Cancel
  <2> QED BY <2>1, <2>3 DEF Engine!GatewayNext
<1>6. CASE fix.item \in [tag : {"REPLACE"},
                         req : [new_clord_id : ClOrdIds, old_clord_id : ClOrdIds,
                                client_id : Clients, orig_order_id : 1 .. order_seq_,
                                symbol : MsgSymbols, new_price : Prices, new_qty : ReplaceQtys]]
  <2>1. /\ r.orig_order_id \in 1 .. submitted_seq /\ r.symbol \in MsgSymbols
        /\ r.client_id \in Clients /\ r.new_clord_id \in ClOrdIds /\ r.old_clord_id \in ClOrdIds
        /\ r.new_price \in Engine!Prices /\ r.new_qty \in ReplaceQtys
    BY <1>3, <1>6 DEF Prices, Engine!Prices
  <2>2. fix.item = [tag |-> "REPLACE",
                    req |-> [new_clord_id |-> r.new_clord_id, old_clord_id |-> r.old_clord_id,
                             client_id |-> r.client_id, orig_order_id |-> r.orig_order_id,
                             symbol |-> r.symbol, new_price |-> r.new_price,
                             new_qty |-> r.new_qty]]
    BY <1>6
  <2> HIDE DEF r
  <2>3. Engine!Replace([new_clord_id |-> r.new_clord_id, old_clord_id |-> r.old_clord_id,
                        client_id |-> r.client_id, orig_order_id |-> r.orig_order_id,
                        symbol |-> r.symbol, new_price |-> r.new_price, new_qty |-> r.new_qty])
    BY <1>4, <2>2 DEF Engine!Replace
  <2> QED BY <2>1, <2>3 DEF Engine!GatewayNext
<1> QED BY <1>1, <1>5, <1>6 DEF RequestOK

\* Every handler is a step of GatewayNext or invisible to the engine.
LEMMA FixRefines ==
    ASSUME GInv, GwFix
    PROVE  Engine!GatewayNext \/ UNCHANGED Engine!vars
<1>1. CASE \/ \E c \in Clients : Logon(c) \/ Logout(c)
           \/ SendStatus
           \/ \E c \in Clients, orig \in ClOrdIds, s \in MsgSymbols : RecvCancel(c, orig, s)
           \/ \E c \in Clients, orig, cl \in ClOrdIds, s \in MsgSymbols, side \in Sides,
                 p \in Prices, q \in ReplaceQtys : RecvReplace(c, orig, cl, s, side, p, q)
  <2>1. UNCHANGED vars /\ fix.at # "submit" /\ fix'.at # "submit"
    <3>1. CASE \/ \E c \in Clients : Logon(c) \/ Logout(c)
               \/ SendStatus
      <4>1. ASSUME NEW c \in Clients, Logon(c)
            PROVE  UNCHANGED vars /\ fix = Idle /\ fix'.at = "status"
        BY <4>1 DEF Logon
      <4>2. ASSUME (\E c \in Clients : Logout(c)) \/ SendStatus
            PROVE  UNCHANGED vars /\ fix.at # "submit" /\ fix' = Idle
        BY <4>2 DEF Logout, SendStatus, Idle
      <4> QED BY <3>1, <4>1, <4>2 DEF Idle
    <3>2. CASE \E c \in Clients, orig \in ClOrdIds, s \in MsgSymbols : RecvCancel(c, orig, s)
      BY <3>2 DEF RecvCancel, Receives, Idle
    <3>3. CASE \E c \in Clients, orig, cl \in ClOrdIds, s \in MsgSymbols, side \in Sides,
                 p \in Prices, q \in ReplaceQtys : RecvReplace(c, orig, cl, s, side, p, q)
      BY <3>3 DEF RecvReplace, Receives, Idle
    <3> QED BY <1>1, <3>1, <3>2, <3>3
  <2> QED BY <2>1 DEF Engine!vars, vars, submitted_seq
<1>2. CASE \E m \in NewOrderMsgs, c \in Clients : RejectNew(m, c)
  <2>1. Reject /\ fix.at = "idle" /\ fix' = fix
    BY <1>2 DEF RejectNew, Receives, Idle, gwvars
  <2>2. Engine!Reject
    BY <2>1 DEF Reject, Engine!Reject, submitted_seq
  <2> QED BY <2>2 DEF Engine!GatewayNext
<1>3. CASE \E m \in NewOrderMsgs, c \in Clients, cl \in ClOrdIds : AcceptNew(m, c, cl)
  <2>1. /\ fix.at = "idle" /\ fix'.at = "submit" /\ order_seq_' = order_seq_ + 1
        /\ UNCHANGED << books_, queue_, requests, rows, main, pc, cur, call >>
    BY <1>3 DEF AcceptNew, Receives, Idle
  <2>2. order_seq_ \in Nat
    BY DEF GInv, IInv, TypeOK
  <2> QED BY <2>1, <2>2 DEF Engine!vars, submitted_seq
<1>4. CASE SubmitNew
  BY <1>4, SubmitRefines
<1>5. CASE PushRequest
  BY <1>5, RequestRefines
<1>6. CASE \E c \in Clients : RecvMarketDataRequest(c)
  <2>1. RequestSnapshot /\ UNCHANGED << fix, order_seq_ >>
    BY <1>6 DEF RecvMarketDataRequest, RequestSnapshot, Request, gwvars
  <2>2. Engine!RequestSnapshot
    BY <2>1, SameOutsideSteps DEF RequestSnapshot, Engine!RequestSnapshot, submitted_seq
  <2> QED BY <2>2 DEF Engine!GatewayNext
<1> QED BY <1>1, <1>2, <1>3, <1>4, <1>5, <1>6 DEF GwFix, GwOrders

LEMMA GwRefines ==
    ASSUME GInv, [GwNext]_allvars
    PROVE  [Engine!Next]_(Engine!vars)
<1>1. CASE GwMain \/ GwAdmin
  <2>1. UNCHANGED << fix, order_seq_ >>
    BY <1>1 DEF GwMain, GwAdmin, gwvars, MainNext, RestoreOrder, Start, StopAcceptor, Stop,
                AdminNext, RegisterSymbol
  <2> QED BY <1>1, <2>1, SameOutsideSteps DEF GwMain, GwAdmin, submitted_seq, Engine!Next
<1>2. CASE GwFix
  BY <1>2, FixRefines DEF Engine!Next
<1>3. CASE GwEngine
  <2>1. CASE /\ RunOrder \/ RunCancel \/ RunReplace \/ RunSnapshot \/ MatchFill \/ MatchEnd \/ Exit
             /\ UNCHANGED gwvars
    <3>1. UNCHANGED submitted_seq
      BY <2>1 DEF RunOrder, RunCancel, RunReplace, RunSnapshot, MatchFill, MatchEnd, Exit,
                  gwvars, submitted_seq
    <3> QED BY <2>1, <3>1, SameEngineSteps, SMTT(30) DEF Engine!Next, Engine!EngineNext
  <2>2. CASE \/ OnFillStep \/ OnCancelStep \/ OnReplaceStep \/ OnTifCancelStep
             \/ OnOrderRestedStep \/ SnapshotStep
    <3>1. (CallbackReturn \/ UNCHANGED vars) /\ UNCHANGED fix
      BY <2>2 DEF OnFillStep, SendFillRoute, SendFillReport, FillTrade, FillReturn, OnCancelStep,
                  OnReplaceStep, OnTifCancelStep, OnOrderRestedStep, SnapshotStep, Return
    <3>2. UNCHANGED submitted_seq
      BY <3>1 DEF CallbackReturn, vars, submitted_seq
    <3> QED BY <3>1, <3>2, SameEngineSteps DEF Engine!Next, Engine!EngineNext, Engine!vars, vars
  <2> QED BY <1>3, <2>1, <2>2 DEF GwEngine
<1>4. CASE GwOver \/ UNCHANGED allvars
  BY <1>4 DEF GwOver, Over, allvars, vars, gwvars, Engine!vars, submitted_seq
<1> QED BY <1>1, <1>2, <1>3, <1>4 DEF GwNext

\* The gateway implements the environment the engine was verified against: every handler is a
\* submit, cancel, replace or snapshot request the engine allows, or changes nothing of it, so
\* what MatchingEngineProofs proves of the engine holds of the engine behind the gateway.
THEOREM GatewayDrivesEngine == GwSpec => DrivesEngine
<1>1. GwInit => Engine!Init
  BY SameBooks DEF GwInit, Init, Engine!Init, submitted_seq, Idle, NoCur, Engine!NoCur,
                   NoCall, Engine!NoCall
<1>2. GInv /\ [GwNext]_allvars => [Engine!Next]_(Engine!vars)
  BY GwRefines
<1> QED BY <1>1, <1>2, GatewayInvariant, PTL DEF GwSpec, DrivesEngine, Engine!Spec

---------------------------------------------------------------------------
(***************************************************************************)
(* What the gateway's maps know of the orders the engine holds, step by    *)
(* step through every callback: no fill goes unreported, no order's end is *)
(* told twice or forgotten, and a quiet gateway agrees with the books.     *)
(*                                                                         *)
(* This holds for a process that starts on an empty database (a restored   *)
(* order has no session until its owner logs on) and whose clients ask for *)
(* positive quantities in their replaces (the gateway checks none).        *)
(***************************************************************************)

\* An order whose end has not been told: the maps hold it, and its current ClOrdID finds it.
Known(id, client) ==
    /\ id \in DOMAIN active_orders_
    /\ id \in DOMAIN order_sessions_
    /\ id \in DOMAIN finals
    /\ active_orders_[id].client_id = client
    /\ order_sessions_[id] = client
    /\ finals[id] = 0
    /\ active_orders_[id].clord_id \in DOMAIN clord_to_exchange_
    /\ clord_to_exchange_[active_orders_[id].clord_id] = id

\* Its session entry is gone, the final report is not sent yet.
Ending(id) == id \in DOMAIN active_orders_ /\ id \in DOMAIN finals /\ finals[id] = 0

\* Its end was told.
Gone(id) == id \notin DOMAIN active_orders_ /\ id \in DOMAIN finals /\ finals[id] = 1

\* Its end, if add() drops it, will not be told.
Silent(id) == id \in DOMAIN active_orders_ /\ DropsSilently(active_orders_[id])

\* The copy agrees on what never changes, on the price, and on the open quantity.
SameOrder(o) ==
    LET a == active_orders_[o.exchange_id]
    IN  a.symbol = o.symbol /\ a.side = o.side /\ a.type = o.type
SamePrice(o) == active_orders_[o.exchange_id].price = o.price
SameLeaves(o) == active_orders_[o.exchange_id].leaves_qty = o.leaves_qty

Waiting(o) ==
    /\ Known(o.exchange_id, o.client_id)
    /\ SameOrder(o) /\ SamePrice(o) /\ SameLeaves(o)
    /\ o.leaves_qty = o.qty /\ o.qty >= 0
    /\ o.qty = 0 => Silent(o.exchange_id)

\* Where onFill is: the maker's report, the taker's report still to come.
InFill(phases) == call.fn = "on_fill" /\ phase \in phases
MakerLeft == InFill({"begin", "maker_orders"})
TakerLeft == InFill({"begin", "maker_orders", "taker", "taker_orders"})
Replacing(id) == call.fn = "on_replace" /\ call.found /\ call.req.orig_order_id = id

WaitingOK ==
    /\ fix.at = "submit" => Waiting(fix.order)
    /\ \A i \in DOMAIN queue_ : queue_[i].tag = "ORDER" => Waiting(queue_[i].order)
    /\ \A i \in DOMAIN queue_ : queue_[i].tag = "REPLACE" => queue_[i].req.new_qty > 0

\* A resting order, between the book and the callback that still has to report its change.
RestingOK(o) ==
    /\ o.leaves_qty > 0 /\ o.tif # "ioc"
    /\ Known(o.exchange_id, o.client_id)
    /\ SameOrder(o)
    /\ ~Replacing(o.exchange_id) => SamePrice(o)
    /\ ~Replacing(o.exchange_id) /\ ~(MakerLeft /\ call.maker.exchange_id = o.exchange_id)
           => SameLeaves(o)

ListedOK ==
    \A s \in DOMAIN books_ : \A id \in DOMAIN books_[s].order_index_ :
        RestingOK(books_[s].order_index_[id])

\* The aggressor, from the first fill to the last.
CurrentOK ==
    pc = "match" =>
        LET o  == cur.order
            id == o.exchange_id
        IN  /\ o.leaves_qty >= 0
            /\ o.leaves_qty > 0 \/ InFill({"begin", "maker_orders", "taker"})
                   => Known(id, o.client_id)
            /\ o.leaves_qty = 0 /\ InFill({"taker_orders"}) => Ending(id)
            /\ o.leaves_qty = 0 /\ ~TakerLeft => Gone(id) \/ (cur.tag = "ORDER" /\ Silent(id))
            /\ id \in DOMAIN active_orders_ => SameOrder(o)
            /\ cur.tag = "ORDER" /\ id \in DOMAIN active_orders_ => SamePrice(o)
            /\ cur.tag = "ORDER" /\ o.leaves_qty > 0 /\ ~TakerLeft => SameLeaves(o)
            /\ cur.tag = "REPLACE" => /\ o.type = "limit" /\ o.tif # "ioc"
                                      /\ cur.req.orig_order_id = id
                                      /\ cur.req.new_price = o.price

\* The two parties of the fill being reported.
FillOK ==
    call.fn = "on_fill" =>
        LET m == call.maker
            t == call.taker
        IN  /\ pc = "match"
            /\ t.exchange_id = cur.order.exchange_id
            /\ t.client_id = cur.order.client_id
            /\ t.leaves_qty = cur.order.leaves_qty
            /\ m.exchange_id # t.exchange_id
            /\ m.leaves_qty >= 0
            /\ m.leaves_qty > 0 =>
                   \E s \in DOMAIN books_ :
                       /\ m.exchange_id \in DOMAIN books_[s].order_index_
                       /\ books_[s].order_index_[m.exchange_id].leaves_qty = m.leaves_qty
                       /\ books_[s].order_index_[m.exchange_id].client_id = m.client_id
            /\ m.leaves_qty = 0 =>
                   /\ m.exchange_id \notin LiveIds
                   /\ phase = "begin" => Known(m.exchange_id, m.client_id)
                   /\ phase = "maker_orders" => Ending(m.exchange_id)
                   /\ ~MakerLeft => Gone(m.exchange_id)

\* The order or request of the other callbacks.
CallbackOK ==
    /\ call.fn = "on_cancel" /\ call.found =>
           /\ call.req.orig_order_id \notin LiveIds
           /\ Known(call.req.orig_order_id, active_orders_[call.req.orig_order_id].client_id)
    /\ call.fn = "on_tif_cancel" =>
           /\ call.order.exchange_id \notin LiveIds
           /\ Known(call.order.exchange_id, call.order.client_id)
    /\ call.fn = "on_replace" /\ call.leaves_qty > 0 =>
           \E s \in DOMAIN books_ :
               LET id == call.req.orig_order_id
               IN  /\ id \in DOMAIN books_[s].order_index_
                   /\ books_[s].order_index_[id].leaves_qty = call.leaves_qty
                   /\ books_[s].order_index_[id].price = call.req.new_price
    /\ call.fn = "on_replace" /\ call.leaves_qty = 0 =>
           call.req.orig_order_id \notin DOMAIN active_orders_

\* An order without a final report is held by the engine or its report is under way.
Untold(id) ==
    \/ id \in ListedIds \cup QueuedIds \cup MatchingIds
    \/ fix.at = "submit" /\ id = fix.order.exchange_id
    \/ Silent(id)
    \/ call.fn = "on_cancel" /\ call.found /\ id = call.req.orig_order_id
    \/ call.fn = "on_tif_cancel" /\ id = call.order.exchange_id
    \/ MakerLeft /\ id = call.maker.exchange_id

FinalsOK ==
    \A id \in DOMAIN finals : /\ finals[id] \in {0, 1}
                              /\ finals[id] = 0 => Untold(id)

\* The ids of the callback being executed, and the one of an order about to be submitted.
CallIds ==
    IF call.fn = "on_fill" THEN {call.maker.exchange_id, call.taker.exchange_id}
    ELSE IF call.fn = "on_tif_cancel" THEN {call.order.exchange_id}
    ELSE IF call.fn \in {"on_cancel", "on_replace"} /\ call.found THEN {call.req.orig_order_id}
    ELSE {}
SubmitIds == IF fix.at = "submit" THEN {fix.order.exchange_id} ELSE {}

\* The maps and the callbacks are about ids that were handed out, and a callback never is
\* about an order the engine has not popped yet.
IdsOK ==
    /\ DOMAIN active_orders_ \subseteq 1 .. order_seq_
    /\ DOMAIN order_sessions_ \subseteq 1 .. order_seq_
    /\ DOMAIN finals \subseteq 1 .. order_seq_
    /\ CallIds \subseteq 0 .. order_seq_
    /\ CallIds \cap (QueuedIds \cup SubmitIds) = {}

\* A ClOrdID belongs to one order for good: whoever names it names that order.
Owns(w, c, id) == c \in DOMAIN w /\ w[c] = id
OwnsOrder(w, o) == Owns(w, o.clord_id, o.exchange_id)
OwnsReplace(w, req) ==
    /\ Owns(w, req.old_clord_id, req.orig_order_id)
    /\ Owns(w, req.new_clord_id, req.orig_order_id)
OwnsItem(w, item) ==
    /\ item.tag = "ORDER" => OwnsOrder(w, item.order)
    /\ item.tag = "REPLACE" => OwnsReplace(w, item.req)

MapOwners(w) ==
    /\ \A c \in DOMAIN clord_to_exchange_ : Owns(w, c, clord_to_exchange_[c])
    /\ \A id \in DOMAIN active_orders_ : OwnsOrder(w, active_orders_[id])
BookOwners(w) ==
    \A s \in DOMAIN books_ : \A id \in DOMAIN books_[s].order_index_ :
        OwnsOrder(w, books_[s].order_index_[id])
QueueOwners(w) == \A i \in DOMAIN queue_ : OwnsItem(w, queue_[i])
FixOwners(w) ==
    /\ fix.at = "submit" => OwnsOrder(w, fix.order)
    /\ fix.at = "request" => OwnsItem(w, fix.item)
EngineOwners(w) ==
    pc = "match" => /\ OwnsOrder(w, cur.order)
                    /\ cur.tag = "REPLACE" => OwnsReplace(w, cur.req)
CallOwners(w) ==
    /\ call.fn = "on_fill" => OwnsOrder(w, call.maker) /\ OwnsOrder(w, call.taker)
    /\ call.fn = "on_tif_cancel" => OwnsOrder(w, call.order)
    /\ call.fn = "on_replace" => OwnsReplace(w, call.req)

OwnersOK(w) ==
    /\ MapOwners(w) /\ BookOwners(w) /\ QueueOwners(w) /\ FixOwners(w) /\ EngineOwners(w)
    /\ CallOwners(w)

ClaimsOK == \E w \in [used -> Nat] : OwnersOK(w)

PartiesOK == WaitingOK /\ ListedOK /\ CurrentOK /\ FillOK /\ CallbackOK

KInv == rows = << >> /\ IdsOK /\ ClaimsOK /\ PartiesOK /\ FinalsOK

---------------------------------------------------------------------------
(* Entries of the books                                                    *)

\* A resting order is a limit order filed under its id, in the book of its symbol.
LEMMA EntryFields ==
    ASSUME IInv, NEW s \in DOMAIN books_, NEW id \in DOMAIN books_[s].order_index_
    PROVE  /\ books_[s].order_index_[id] \in Order
           /\ books_[s].order_index_[id].exchange_id = id
           /\ books_[s].order_index_[id].symbol = s
           /\ books_[s].order_index_[id].type = "limit"
           /\ id \in ListedIds
<1>1. BookOK(books_[s]) /\ books_[s].order_index_[id].symbol = s
  BY DEF IInv, BooksOK
<1>2. books_[s].order_index_[id] \in Order
  BY <1>1 DEF BookOK, BookType
<1>3. books_[s].order_index_[id].exchange_id = id /\ books_[s].order_index_[id].type = "limit"
  BY <1>1 DEF BookOK, IndexedIsListed
<1>4. id \in ListedIds
  BY DEF ListedIds
<1> QED BY <1>1, <1>2, <1>3, <1>4

\* ... and no other book holds it.
LEMMA EntryUnique ==
    ASSUME IInv, NEW s \in DOMAIN books_, NEW t \in DOMAIN books_,
           NEW id \in DOMAIN books_[s].order_index_, id \in DOMAIN books_[t].order_index_
    PROVE  s = t
  BY DEF IInv, Fresh, OnePlace

\* What a fill leaves of the maker: nothing, or the same order with a smaller open quantity.
LEMMA FillEntry ==
    ASSUME NEW book, BookOK(book), NEW o \in Order, CanMatch(book, o)
    PROVE  LET r    == Resting(book, o)
               left == r.leaves_qty - FillQty(book, o)
           IN  AfterFill(book, o).order_index_ =
                   IF left = 0 THEN Drop(book.order_index_, r.exchange_id)
                   ELSE Put(book.order_index_, r.exchange_id, [r EXCEPT !.leaves_qty = left])
<1> DEFINE r == Resting(book, o)
           left == r.leaves_qty - FillQty(book, o)
<1>1. r \in Order /\ r.exchange_id \in DOMAIN book.order_index_
      /\ book.order_index_[r.exchange_id] = r /\ r.type = "limit"
  BY RestingProperties
<1>2. FillQty(book, o) \in Int /\ r.leaves_qty \in Int
  BY <1>1, AfterFillOK DEF Order
<1> HIDE DEF r
<1>3. left \in Int
  BY <1>2
<1> HIDE DEF left
<1>4. AfterFill(book, o) = IF left = 0 THEN Unlink(book, r.exchange_id)
                           ELSE [book EXCEPT !.order_index_ =
                                    Put(@, r.exchange_id, [r EXCEPT !.leaves_qty = left])]
  BY DEF AfterFill, r, left
<1>5. CASE left = 0
  BY <1>1, <1>4, <1>5, UnlinkOK DEF r, left
<1>6. CASE left # 0
  <2> DEFINE n == [r EXCEPT !.leaves_qty = left]
  <2>1. n \in Order /\ n.exchange_id = r.exchange_id /\ n.side = r.side /\ n.price = r.price
        /\ n.type = "limit"
    BY <1>1, <1>3 DEF Order
  <2> HIDE DEF n
  <2>2. AfterFill(book, o).order_index_ = Put(book.order_index_, r.exchange_id, n)
    BY <1>1, <1>4, <1>6, <2>1, UpdateNodeOK DEF n
  <2> QED BY <1>6, <2>2 DEF n, r, left
<1> QED BY <1>5, <1>6

\* What a reduction in place leaves of the order.
LEMMA ReducedEntry ==
    ASSUME NEW book, BookOK(book), NEW id \in DOMAIN book.order_index_, NEW qty \in Int
    PROVE  Reduced(book, id, qty).order_index_ =
               Put(book.order_index_, id,
                   [book.order_index_[id] EXCEPT !.qty = qty, !.leaves_qty = qty])
  BY DEF Reduced, BookOK, BookType

---------------------------------------------------------------------------
(* What each step of the engine thread does, read off the orders it moves  *)

\* The order e, but for its price and quantities.
Alike(o, e) ==
    /\ o \in Order
    /\ o.exchange_id = e.exchange_id /\ o.clord_id = e.clord_id /\ o.client_id = e.client_id
    /\ o.symbol = e.symbol /\ o.side = e.side /\ o.type = e.type /\ o.tif = e.tif

\* The step changes the index of the book of s to ix, and no other book.
Indexed(s, ix) ==
    /\ s \in DOMAIN books_
    /\ DOMAIN books_' = DOMAIN books_
    /\ books_'[s].order_index_ = ix
    /\ \A t \in DOMAIN books_ : t # s => books_'[t] = books_[t]

\* A fill record of the order.
FillOf(f, o) ==
    /\ f.exchange_id = o.exchange_id /\ f.clord_id = o.clord_id /\ f.client_id = o.client_id

\* The books as they were.
StillBooks ==
    /\ DOMAIN books_' = DOMAIN books_
    /\ \A t \in DOMAIN books_ : books_'[t] = books_[t]

LEMMA BookIndexed ==
    ASSUME NEW s \in DOMAIN books_, NEW b, books_' = [books_ EXCEPT ![s] = b]
    PROVE  Indexed(s, b.order_index_)
  BY DEF Indexed

\* run()'s ORDER branch: the order is killed, or it starts to match with all of its quantity.
LEMMA RunOrderFacts ==
    ASSUME GInv, RunOrder
    PROVE  LET o == Head(queue_).order
           IN  /\ Pop("ORDER") /\ o \in Order /\ UNCHANGED << books_, rows, order_seq_ >>
               /\ call = NoCall /\ pc = "run"
               /\ \/ /\ call'.fn = "on_tif_cancel" /\ Alike(call'.order, o)
                     /\ UNCHANGED << pc, cur >>
                  \/ /\ call' = NoCall /\ pc' = "match" /\ cur'.tag = "ORDER"
                     /\ Alike(cur'.order, o) /\ cur'.order.price = o.price
                     /\ cur'.order.leaves_qty = o.qty /\ cur'.order.qty = o.qty
<1> DEFINE o == Head(queue_).order
           k == [o EXCEPT !.leaves_qty = o.qty]
<1>1. /\ Pop("ORDER") /\ UNCHANGED << books_, rows, order_seq_ >>
      /\ \/ o.symbol \notin DOMAIN books_
         \/ call' = OnTifCancel(k) /\ UNCHANGED << pc, cur >>
         \/ call' = call /\ pc' = "match" /\ cur' = [tag |-> "ORDER", order |-> k]
  BY DEF RunOrder, NoBook, Add, valid_symbols_
<1>2. /\ Head(queue_) \in WorkItem /\ Head(queue_).tag = "ORDER" /\ pc = "run" /\ call = NoCall
      /\ o.symbol \in DOMAIN books_
  BY <1>1, PopQueue DEF GInv, IInv, QueueOK
<1>3. o \in Order /\ o.qty \in Int
  BY <1>2, WorkItemFields DEF Order
<1> HIDE DEF o
<1>4. Alike(k, o) /\ k.leaves_qty = o.qty /\ k.price = o.price /\ k.qty = o.qty
  BY <1>3 DEF Alike, Order
<1> HIDE DEF k
<1>5. \/ call'.fn = "on_tif_cancel" /\ call'.order = k /\ UNCHANGED << pc, cur >>
      \/ call' = call /\ pc' = "match" /\ cur'.tag = "ORDER" /\ cur'.order = k
  BY <1>1, <1>2 DEF OnTifCancel
<1> QED BY <1>1, <1>2, <1>3, <1>4, <1>5 DEF o

\* run()'s CANCEL branch: the order leaves its book, or there is nothing to do.
LEMMA RunCancelFacts ==
    ASSUME GInv, RunCancel
    PROVE  LET req == Head(queue_).req
               s   == req.symbol
               id  == req.orig_order_id
           IN  /\ Pop("CANCEL") /\ UNCHANGED << rows, order_seq_, cur >>
               /\ call = NoCall /\ pc = "run" /\ pc' # "match"
               /\ \/ call' = NoCall /\ StillBooks
                  \/ /\ call'.fn = "on_cancel" /\ call'.found = FALSE /\ StillBooks
                  \/ /\ call'.fn = "on_cancel" /\ call'.found = TRUE /\ call'.req = req
                     /\ s \in DOMAIN books_ /\ id \in DOMAIN books_[s].order_index_
                     /\ Indexed(s, Drop(books_[s].order_index_, id))
<1> DEFINE req == Head(queue_).req
           s == req.symbol
           id == req.orig_order_id
           b == Cancelled(books_[s], id)
           f == Found(books_[s], id)
<1>1. /\ Pop("CANCEL") /\ UNCHANGED << rows, order_seq_ >>
      /\ \/ call' = call /\ pc' = "undefined" /\ UNCHANGED << books_, cur >>
         \/ /\ s \in DOMAIN books_ /\ books_' = [books_ EXCEPT ![s] = b]
            /\ call' = OnCancel(req, f) /\ UNCHANGED << pc, cur >>
  BY DEF RunCancel, NoBook, valid_symbols_
<1>2. pc = "run" /\ call = NoCall
  BY <1>1 DEF Pop
<1>3. ASSUME s \in DOMAIN books_, id \in DOMAIN books_[s].order_index_
      PROVE  b.order_index_ = Drop(books_[s].order_index_, id)
  BY <1>3, UnlinkOK DEF Cancelled, Found, GInv, IInv, BooksOK
<1>4. ASSUME s \in DOMAIN books_, id \notin DOMAIN books_[s].order_index_,
             books_' = [books_ EXCEPT ![s] = b]
      PROVE  StillBooks
  BY <1>4 DEF Cancelled, Found, StillBooks
<1> HIDE DEF req, s, id, b, f
<1>5. CASE call' = call
  BY <1>1, <1>2, <1>5 DEF OnCancel, NoCall, StillBooks, req, s, id
<1>6. CASE call' # call
  <2>1. /\ s \in DOMAIN books_ /\ books_' = [books_ EXCEPT ![s] = b]
        /\ call'.fn = "on_cancel" /\ call'.req = req /\ call'.found = f
        /\ UNCHANGED << pc, cur >>
    BY <1>1, <1>6 DEF OnCancel
  <2>2. CASE id \in DOMAIN books_[s].order_index_
    <3>1. f = TRUE
      BY <2>2 DEF Found, f
    <3> QED BY <1>1, <1>2, <1>3, <2>1, <2>2, <3>1, BookIndexed DEF req, s, id
  <2>3. CASE id \notin DOMAIN books_[s].order_index_
    <3>1. f = FALSE
      BY <2>3, SMTT(30) DEF Found, f
    <3> QED BY <1>1, <1>2, <1>4, <2>1, <2>3, <3>1 DEF req, s, id
  <2> QED BY <2>2, <2>3
<1> QED BY <1>5, <1>6

\* run()'s REPLACE branch: nothing to do, a reduction in place, or the order is taken out
\* and starts to match with its new price and quantity.
LEMMA RunReplaceFacts ==
    ASSUME GInv, RunReplace
    PROVE  LET req == Head(queue_).req
               s   == req.symbol
               id  == req.orig_order_id
               e   == books_[s].order_index_[id]
           IN  /\ Pop("REPLACE") /\ req \in ReplaceRequest /\ UNCHANGED << rows, order_seq_ >>
               /\ call = NoCall /\ pc = "run"
               /\ \/ call' = NoCall /\ pc' # "match" /\ cur' = cur /\ StillBooks
                  \/ /\ call'.fn = "on_replace" /\ call'.req = req /\ call'.leaves_qty = -1
                     /\ pc' # "match" /\ cur' = cur /\ StillBooks
                  \/ /\ call'.fn = "on_replace" /\ call'.req = req
                     /\ call'.leaves_qty = req.new_qty
                     /\ pc' # "match" /\ cur' = cur
                     /\ s \in DOMAIN books_ /\ id \in DOMAIN books_[s].order_index_
                     /\ \E n : /\ Alike(n, e) /\ n.price = req.new_price
                               /\ n.leaves_qty = req.new_qty
                               /\ Indexed(s, Put(books_[s].order_index_, id, n))
                  \/ /\ call' = NoCall /\ pc' = "match" /\ cur'.tag = "REPLACE" /\ cur'.req = req
                     /\ s \in DOMAIN books_ /\ id \in DOMAIN books_[s].order_index_
                     /\ Alike(cur'.order, e) /\ cur'.order.price = req.new_price
                     /\ cur'.order.qty = req.new_qty /\ cur'.order.leaves_qty = req.new_qty
                     /\ Indexed(s, Drop(books_[s].order_index_, id))
<1> DEFINE req == Head(queue_).req
           s == req.symbol
           id == req.orig_order_id
           e == books_[s].order_index_[id]
           n == [e EXCEPT !.qty = req.new_qty, !.leaves_qty = req.new_qty]
           a == [e EXCEPT !.price = req.new_price, !.qty = req.new_qty]
           agg == [tag |-> "REPLACE", req |-> req, order |-> a]
<1>1. /\ Pop("REPLACE") /\ UNCHANGED << rows, order_seq_ >>
      /\ \/ call' = call /\ pc' = "undefined" /\ books_' = books_ /\ cur' = cur
         \/ call' = OnReplace(req, -1) /\ pc' = pc /\ books_' = books_ /\ cur' = cur
         \/ /\ call' = OnReplace(req, req.new_qty) /\ pc' = pc /\ cur' = cur
            /\ s \in DOMAIN books_ /\ id \in DOMAIN books_[s].order_index_
            /\ req.new_price = e.price
            /\ books_' = [books_ EXCEPT ![s] = Reduced(books_[s], id, req.new_qty)]
         \/ /\ call' = call /\ Add(agg) /\ s \in DOMAIN books_
            /\ id \in DOMAIN books_[s].order_index_
            /\ books_' = [books_ EXCEPT ![s] = Unlink(books_[s], id)]
  BY Zenon DEF RunReplace, NoBook, valid_symbols_, Found, InPlace
<1>2. Head(queue_) \in WorkItem /\ Head(queue_).tag = "REPLACE" /\ pc = "run" /\ call = NoCall
  BY <1>1, PopQueue DEF GInv
<1>3. req \in ReplaceRequest /\ req.new_qty \in Int /\ req.new_price \in Int
  BY <1>2, WorkItemFields, RequestFields
<1>4. ASSUME s \in DOMAIN books_, id \in DOMAIN books_[s].order_index_
      PROVE  /\ e \in Order
             /\ Reduced(books_[s], id, req.new_qty).order_index_ = Put(books_[s].order_index_, id, n)
             /\ Unlink(books_[s], id).order_index_ = Drop(books_[s].order_index_, id)
  <2>1. e \in Order /\ BookOK(books_[s])
    BY <1>4, EntryFields DEF GInv, IInv, BooksOK
  <2> HIDE DEF s, id, req
  <2>2. Reduced(books_[s], id, req.new_qty).order_index_ = Put(books_[s].order_index_, id, n)
    BY <2>1 DEF Reduced, BookOK, BookType
  <2> QED BY <1>4, <2>1, <2>2, UnlinkOK
<1> HIDE DEF req, s, id, e
<1>5. e \in Order => /\ Alike(n, e) /\ n.price = e.price /\ n.leaves_qty = req.new_qty
                     /\ Alike(a, e) /\ a.price = req.new_price /\ a.qty = req.new_qty
  BY <1>3 DEF Alike, Order
<1> HIDE DEF n, a
<1>6. /\ [agg EXCEPT !.order.leaves_qty = agg.order.qty].tag = "REPLACE"
      /\ [agg EXCEPT !.order.leaves_qty = agg.order.qty].req = req
      /\ [agg EXCEPT !.order.leaves_qty = agg.order.qty].order = [a EXCEPT !.leaves_qty = a.qty]
  OBVIOUS
<1> DEFINE goal == \/ call' = NoCall /\ pc' # "match" /\ cur' = cur /\ StillBooks
                   \/ /\ call'.fn = "on_replace" /\ call'.req = req /\ call'.leaves_qty = -1
                      /\ pc' # "match" /\ cur' = cur /\ StillBooks
                   \/ /\ call'.fn = "on_replace" /\ call'.req = req
                      /\ call'.leaves_qty = req.new_qty
                      /\ pc' # "match" /\ cur' = cur
                      /\ s \in DOMAIN books_ /\ id \in DOMAIN books_[s].order_index_
                      /\ \E x : /\ Alike(x, e) /\ x.price = req.new_price
                                /\ x.leaves_qty = req.new_qty
                                /\ Indexed(s, Put(books_[s].order_index_, id, x))
                   \/ /\ call' = NoCall /\ pc' = "match" /\ cur'.tag = "REPLACE"
                      /\ cur'.req = req
                      /\ s \in DOMAIN books_ /\ id \in DOMAIN books_[s].order_index_
                      /\ Alike(cur'.order, e) /\ cur'.order.price = req.new_price
                      /\ cur'.order.qty = req.new_qty /\ cur'.order.leaves_qty = req.new_qty
                      /\ Indexed(s, Drop(books_[s].order_index_, id))
<1>7. ASSUME call' = call, pc' = "undefined", books_' = books_, cur' = cur
      PROVE  goal
  <2>1. StillBooks
    BY <1>7 DEF StillBooks
  <2> QED BY <1>2, <1>7, <2>1
<1>8. ASSUME call' = OnReplace(req, -1), pc' = pc, books_' = books_, cur' = cur
      PROVE  goal
  <2>1. StillBooks
    BY <1>8 DEF StillBooks
  <2>2. call'.fn = "on_replace" /\ call'.req = req /\ call'.leaves_qty = -1
    BY <1>8 DEF OnReplace
  <2> QED BY <1>2, <1>8, <2>1, <2>2
<1>9. ASSUME call' = OnReplace(req, req.new_qty), pc' = pc, cur' = cur,
             s \in DOMAIN books_, id \in DOMAIN books_[s].order_index_, req.new_price = e.price,
             books_' = [books_ EXCEPT ![s] = Reduced(books_[s], id, req.new_qty)]
      PROVE  goal
  <2>1. Indexed(s, Put(books_[s].order_index_, id, n))
    BY <1>4, <1>9, BookIndexed
  <2>2. call'.fn = "on_replace" /\ call'.req = req /\ call'.leaves_qty = req.new_qty
    BY <1>9 DEF OnReplace
  <2>3. Alike(n, e) /\ n.price = req.new_price /\ n.leaves_qty = req.new_qty
    BY <1>4, <1>5, <1>9
  <2> QED BY <1>2, <1>9, <2>1, <2>2, <2>3
<1>10. ASSUME call' = call, Add(agg), s \in DOMAIN books_,
              id \in DOMAIN books_[s].order_index_,
              books_' = [books_ EXCEPT ![s] = Unlink(books_[s], id)]
       PROVE  goal
  <2>1. Indexed(s, Drop(books_[s].order_index_, id))
    BY <1>4, <1>10, BookIndexed
  <2>2. /\ pc' = "match" /\ cur'.tag = "REPLACE" /\ cur'.req = req
        /\ cur'.order = [a EXCEPT !.leaves_qty = a.qty]
    BY <1>6, <1>10 DEF Add
  <2>3. Alike(a, e) /\ a.price = req.new_price /\ a.qty = req.new_qty /\ req.new_qty \in Int
    BY <1>3, <1>4, <1>5, <1>10
  <2>4. /\ Alike(cur'.order, e) /\ cur'.order.price = req.new_price
        /\ cur'.order.qty = req.new_qty /\ cur'.order.leaves_qty = req.new_qty
    BY <2>2, <2>3 DEF Alike, Order
  <2> QED BY <1>2, <1>10, <2>1, <2>2, <2>4
<1>11. goal
  <2> HIDE DEF goal
  <2> QED BY <1>1, <1>7, <1>8, <1>9, <1>10, SMTT(30)
<1> QED BY <1>1, <1>2, <1>3, <1>11, ZenonT(40) DEF req, s, id, e

\* One iteration of match_against: the maker shrinks or leaves, the aggressor shrinks by
\* the same positive quantity when both were open.
LEMMA MatchFillFacts ==
    ASSUME GInv, MatchFill
    PROVE  LET o == cur.order
               s == o.symbol
           IN  /\ pc = "match" /\ call = NoCall /\ UNCHANGED << queue_, pc, rows, order_seq_ >>
               /\ s \in DOMAIN books_ /\ o \in Order
               /\ cur'.tag = cur.tag /\ (cur.tag = "REPLACE" => cur'.req = cur.req)
               /\ Alike(cur'.order, o) /\ cur'.order.price = o.price
               /\ call'.fn = "on_fill"
               /\ FillOf(call'.taker, o) /\ call'.taker.leaves_qty = cur'.order.leaves_qty
               /\ \E id \in DOMAIN books_[s].order_index_ :
                      LET r == books_[s].order_index_[id]
                      IN  /\ FillOf(call'.maker, r)
                          /\ \/ call'.maker.leaves_qty = 0 /\ Indexed(s, Drop(books_[s].order_index_, id))
                             \/ /\ call'.maker.leaves_qty # 0
                                /\ \E n : /\ Alike(n, r) /\ n.price = r.price
                                          /\ n.leaves_qty = call'.maker.leaves_qty
                                          /\ Indexed(s, Put(books_[s].order_index_, id, n))
                          /\ r.leaves_qty > 0 =>
                                 call'.maker.leaves_qty >= 0 /\ cur'.order.leaves_qty >= 0
               /\ o.leaves_qty > 0 /\ call'.maker.leaves_qty >= 0
<1> DEFINE o == cur.order
           s == o.symbol
           r == Resting(books_[s], o)
           qty == FillQty(books_[s], o)
           left == r.leaves_qty - qty
           rest == o.leaves_qty - qty
           n == [r EXCEPT !.leaves_qty = left]
           m == MakeFill(r, r.price, qty, left)
           t == MakeFill(o, r.price, qty, rest)
           ix == books_[s].order_index_
<1>1. /\ pc = "match" /\ call = NoCall /\ CanMatch(books_[s], o)
      /\ UNCHANGED << queue_, pc, rows, order_seq_ >>
      /\ books_' = [books_ EXCEPT ![s] = AfterFill(books_[s], o)]
      /\ cur' = [cur EXCEPT !.order.leaves_qty = @ - qty]
      /\ call' = OnFill(m, t)
  BY DEF MatchFill
<1>2. cur \in Aggressor /\ o \in Order /\ s \in DOMAIN books_ /\ BookOK(books_[s])
  BY <1>1 DEF GInv, IInv, TypeOK, BooksOK, Aggressor
<1>3. /\ cur'.tag = cur.tag /\ (cur.tag = "REPLACE" => cur'.req = cur.req)
      /\ cur'.order = [o EXCEPT !.leaves_qty = rest]
  BY <1>1, <1>2 DEF Aggressor
<1>4. /\ r \in Order /\ r.exchange_id \in DOMAIN ix /\ r = ix[r.exchange_id]
      /\ o.leaves_qty > 0 /\ o.leaves_qty \in Int /\ r.leaves_qty \in Int
      /\ qty = Lesser(o.leaves_qty, r.leaves_qty)
  <2>1. r \in Order /\ r.exchange_id \in DOMAIN ix /\ r = ix[r.exchange_id]
    <3> HIDE DEF o, s
    <3> QED BY <1>1, <1>2, RestingProperties
  <2>2. qty = Lesser(o.leaves_qty, r.leaves_qty)
    BY DEF FillQty
  <2>3. o.leaves_qty > 0
    BY <1>1 DEF CanMatch
  <2> HIDE DEF r
  <2> QED BY <1>2, <2>1, <2>2, <2>3 DEF Order
<1>5. AfterFill(books_[s], o).order_index_ =
          IF left = 0 THEN Drop(ix, r.exchange_id) ELSE Put(ix, r.exchange_id, n)
  BY <1>1, <1>2, FillEntry
<1>6. FillOf(m, r) /\ m.leaves_qty = left /\ FillOf(t, o) /\ t.leaves_qty = rest
  BY DEF FillOf, MakeFill
<1> HIDE DEF m, t, r, o, s, qty, ix
<1>7. Indexed(s, IF left = 0 THEN Drop(ix, r.exchange_id) ELSE Put(ix, r.exchange_id, n))
  BY <1>1, <1>2, <1>5, BookIndexed
<1>8. /\ left \in Int /\ rest \in Int /\ left >= 0 /\ (r.leaves_qty > 0 => rest >= 0)
  BY <1>4 DEF Lesser
<1> HIDE DEF left, rest
<1>9. /\ Alike(cur'.order, o) /\ cur'.order.price = o.price /\ cur'.order.leaves_qty = rest
      /\ Alike(n, r) /\ n.price = r.price /\ n.leaves_qty = left
  BY <1>2, <1>3, <1>4, <1>8 DEF Alike, Order
<1> HIDE DEF n
<1>10. call'.fn = "on_fill" /\ call'.maker = m /\ call'.taker = t
  BY <1>1 DEF OnFill
<1>11. \E id \in DOMAIN ix :
            /\ FillOf(call'.maker, ix[id])
            /\ \/ call'.maker.leaves_qty = 0 /\ Indexed(s, Drop(ix, id))
               \/ /\ call'.maker.leaves_qty # 0
                  /\ \E x : /\ Alike(x, ix[id]) /\ x.price = ix[id].price
                            /\ x.leaves_qty = call'.maker.leaves_qty
                            /\ Indexed(s, Put(ix, id, x))
            /\ ix[id].leaves_qty > 0 =>
                   call'.maker.leaves_qty >= 0 /\ cur'.order.leaves_qty >= 0
  <2>1. CASE left = 0
    BY <1>4, <1>6, <1>7, <1>8, <1>9, <1>10, <2>1
  <2>2. CASE left # 0
    BY <1>4, <1>6, <1>7, <1>8, <1>9, <1>10, <2>2
  <2> QED BY <2>1, <2>2
<1>12. call'.maker.leaves_qty >= 0
  BY <1>6, <1>8, <1>10
<1> QED BY <1>1, <1>2, <1>3, <1>4, <1>6, <1>9, <1>10, <1>11, <1>12 DEF o, s, ix

\* The end of add(): the remainder rests or not, and the callback that follows.
LEMMA MatchEndFacts ==
    ASSUME GInv, MatchEnd
    PROVE  LET o == cur.order
               s == o.symbol
           IN  /\ pc = "match" /\ call = NoCall /\ pc' = "run"
               /\ UNCHANGED << queue_, rows, order_seq_ >>
               /\ s \in DOMAIN books_ /\ o \in Order
               /\ IF o.leaves_qty > 0 /\ o.type = "limit" /\ o.tif # "ioc"
                  THEN Indexed(s, Put(books_[s].order_index_, o.exchange_id, o))
                  ELSE StillBooks
               /\ \/ /\ cur.tag = "REPLACE" /\ call'.fn = "on_replace" /\ call'.req = cur.req
                     /\ call'.leaves_qty = o.leaves_qty
                  \/ /\ cur.tag = "ORDER" /\ o.tif = "ioc" /\ o.leaves_qty > 0
                     /\ call'.fn = "on_tif_cancel" /\ call'.order = o
                  \/ /\ cur.tag = "ORDER" /\ ~(o.tif = "ioc" /\ o.leaves_qty > 0)
                     /\ call'.fn \in {"none", "on_order_rested"}
<1> DEFINE o == cur.order
           s == o.symbol
<1>1. /\ pc = "match" /\ call = NoCall /\ pc' = "run" /\ UNCHANGED << queue_, rows, order_seq_ >>
      /\ call' = AfterAdd(cur)
      /\ books_' = IF Rests(o) THEN [books_ EXCEPT ![s] = PushBack(books_[s], o)] ELSE books_
  BY DEF MatchEnd
<1>2. cur \in Aggressor /\ o \in Order /\ s \in DOMAIN books_ /\ BookOK(books_[s])
      /\ cur.tag \in {"ORDER", "REPLACE"}
  BY <1>1 DEF GInv, IInv, TypeOK, BooksOK, Aggressor
<1>3. PushBack(books_[s], o).order_index_ = Put(books_[s].order_index_, o.exchange_id, o)
  BY DEF PushBack
<1>4. \/ cur.tag = "REPLACE" /\ call' = OnReplace(cur.req, o.leaves_qty)
      \/ cur.tag = "ORDER" /\ o.tif = "ioc" /\ o.leaves_qty > 0 /\ call' = OnTifCancel(o)
      \/ /\ cur.tag = "ORDER" /\ ~(o.tif = "ioc" /\ o.leaves_qty > 0)
         /\ call' = NoCall \/ call' = OnOrderRested([o EXCEPT !.leaves_qty = o.qty], o.leaves_qty)
  BY <1>1, <1>2 DEF AfterAdd
<1> HIDE DEF o, s
<1>5. IF Rests(o) THEN Indexed(s, Put(books_[s].order_index_, o.exchange_id, o)) ELSE StillBooks
  <2>1. CASE Rests(o)
    <3>1. books_' = [books_ EXCEPT ![s] = PushBack(books_[s], o)]
      BY <1>1, <2>1
    <3>2. Indexed(s, PushBack(books_[s], o).order_index_)
      BY <1>2, <3>1, BookIndexed
    <3> QED BY <1>3, <2>1, <3>2
  <2>2. CASE ~Rests(o)
    BY <1>1, <2>2 DEF StillBooks
  <2> QED BY <2>1, <2>2
<1>6. \/ /\ cur.tag = "REPLACE" /\ call'.fn = "on_replace" /\ call'.req = cur.req
         /\ call'.leaves_qty = o.leaves_qty
      \/ /\ cur.tag = "ORDER" /\ o.tif = "ioc" /\ o.leaves_qty > 0
         /\ call'.fn = "on_tif_cancel" /\ call'.order = o
      \/ /\ cur.tag = "ORDER" /\ ~(o.tif = "ioc" /\ o.leaves_qty > 0)
         /\ call'.fn \in {"none", "on_order_rested"}
  BY <1>4 DEF OnReplace, OnTifCancel, OnOrderRested, NoCall
<1> QED BY <1>1, <1>2, <1>5, <1>6 DEF o, s, Rests

---------------------------------------------------------------------------
(* Ownership of ClOrdIDs                                                   *)

\* An owner map may grow.
LEMMA OwnersWiden ==
    ASSUME NEW w, NEW v, OwnersOK(w), \A c, id : Owns(w, c, id) => Owns(v, c, id)
    PROVE  OwnersOK(v)
<1>1. /\ \A o : OwnsOrder(w, o) => OwnsOrder(v, o)
      /\ \A r : OwnsReplace(w, r) => OwnsReplace(v, r)
  BY DEF OwnsOrder, OwnsReplace
<1>2. \A i : OwnsItem(w, i) => OwnsItem(v, i)
  BY <1>1 DEF OwnsItem
<1> QED BY <1>1, <1>2 DEF OwnersOK, MapOwners, BookOwners, QueueOwners, FixOwners, EngineOwners,
                          CallOwners

\* A pop leaves the other items, and the first belongs to its owner.
LEMMA PopOwners ==
    ASSUME IInv, NEW w, QueueOwners(w), NEW tag, Pop(tag)
    PROVE  QueueOwners(w)' /\ OwnsItem(w, Head(queue_)) /\ Head(queue_).tag = tag
  BY PopQueue DEF QueueOwners

\* The orders of a book that was changed in one place.
LEMMA BookOwnersUpdate ==
    ASSUME NEW w, BookOwners(w), NEW s, NEW x, NEW n,
           \/ StillBooks
           \/ Indexed(s, Drop(books_[s].order_index_, x))
           \/ Indexed(s, Put(books_[s].order_index_, x, n)) /\ OwnsOrder(w, n)
    PROVE  BookOwners(w)'
<1>1. CASE StillBooks
  BY <1>1 DEF BookOwners, StillBooks
<1>2. CASE ~StillBooks
  <2>1. \A id \in DOMAIN books_'[s].order_index_ : OwnsOrder(w, books_'[s].order_index_[id])
    BY <1>2 DEF BookOwners, Indexed, Drop, Put
  <2>2. s \in DOMAIN books_ /\ DOMAIN books_' = DOMAIN books_
        /\ \A t \in DOMAIN books_ : t # s => books_'[t] = books_[t]
    BY <1>2 DEF Indexed
  <2> QED BY <2>1, <2>2 DEF BookOwners
<1> QED BY <1>1, <1>2

\* Every step of the engine thread between callbacks moves orders with their ClOrdIDs.
LEMMA EngineSideOwners ==
    ASSUME GInv, NEW w, OwnersOK(w), UNCHANGED gwvars,
           RunOrder \/ RunCancel \/ RunReplace \/ RunSnapshot \/ MatchFill \/ MatchEnd \/ Exit
    PROVE  OwnersOK(w)'
<1>1. MapOwners(w)' /\ FixOwners(w)'
  BY DEF OwnersOK, MapOwners, FixOwners, gwvars
<1>2. IInv /\ BookOwners(w) /\ QueueOwners(w) /\ EngineOwners(w)
  BY DEF GInv, OwnersOK
<1>3. \A o, e : Alike(o, e) /\ OwnsOrder(w, e) => OwnsOrder(w, o)
  BY DEF Alike, OwnsOrder
<1>4. \A f, o : FillOf(f, o) /\ OwnsOrder(w, o) => OwnsOrder(w, f)
  BY DEF FillOf, OwnsOrder
<1>5. CASE RunOrder
  <2> DEFINE o == Head(queue_).order
  <2>1. /\ Pop("ORDER") /\ UNCHANGED books_ /\ pc = "run"
        /\ \/ call'.fn = "on_tif_cancel" /\ Alike(call'.order, o) /\ UNCHANGED << pc, cur >>
           \/ call' = NoCall /\ pc' = "match" /\ cur'.tag = "ORDER" /\ Alike(cur'.order, o)
    BY <1>5, RunOrderFacts
  <2>2. QueueOwners(w)' /\ OwnsOrder(w, o)
    BY <1>2, <2>1, PopOwners DEF OwnsItem
  <2> HIDE DEF o
  <2>3. EngineOwners(w)' /\ CallOwners(w)'
    BY <1>3, <2>1, <2>2 DEF EngineOwners, CallOwners, NoCall
  <2>4. BookOwners(w)'
    BY <1>2, <2>1 DEF BookOwners
  <2> QED BY <1>1, <2>2, <2>3, <2>4 DEF OwnersOK
<1>6. CASE RunCancel
  <2> DEFINE s == Head(queue_).req.symbol
             id == Head(queue_).req.orig_order_id
  <2>1. /\ Pop("CANCEL") /\ pc' # "match" /\ (call' = NoCall \/ call'.fn = "on_cancel")
        /\ StillBooks \/ Indexed(s, Drop(books_[s].order_index_, id))
    BY <1>6, RunCancelFacts
  <2>2. QueueOwners(w)'
    BY <1>2, <2>1, PopOwners
  <2>3. BookOwners(w)'
    <3> HIDE DEF s, id
    <3> QED BY <1>2, <2>1, BookOwnersUpdate
  <2>4. EngineOwners(w)' /\ CallOwners(w)'
    BY <2>1 DEF EngineOwners, CallOwners, NoCall
  <2> QED BY <1>1, <2>2, <2>3, <2>4 DEF OwnersOK
<1>7. CASE RunReplace
  <2> DEFINE req == Head(queue_).req
             s == req.symbol
             id == req.orig_order_id
             e == books_[s].order_index_[id]
  <2>1. /\ Pop("REPLACE")
        /\ \/ /\ StillBooks /\ pc' # "match"
              /\ call' = NoCall \/ (call'.fn = "on_replace" /\ call'.req = req)
           \/ /\ call'.fn = "on_replace" /\ call'.req = req /\ pc' # "match"
              /\ s \in DOMAIN books_ /\ id \in DOMAIN books_[s].order_index_
              /\ \E n : Alike(n, e) /\ Indexed(s, Put(books_[s].order_index_, id, n))
           \/ /\ call' = NoCall /\ cur'.tag = "REPLACE" /\ cur'.req = req
              /\ s \in DOMAIN books_ /\ id \in DOMAIN books_[s].order_index_
              /\ Alike(cur'.order, e) /\ Indexed(s, Drop(books_[s].order_index_, id))
    BY <1>7, RunReplaceFacts, ZenonT(40)
  <2>2. /\ QueueOwners(w)' /\ OwnsReplace(w, req)
        /\ s \in DOMAIN books_ /\ id \in DOMAIN books_[s].order_index_ => OwnsOrder(w, e)
    BY <1>2, <2>1, PopOwners, Zenon DEF OwnsItem, BookOwners
  <2> HIDE DEF req, s, id, e
  <2>3. BookOwners(w)'
    <3>1. CASE \E n : Alike(n, e) /\ OwnsOrder(w, e) /\ Indexed(s, Put(books_[s].order_index_, id, n))
      <4>1. PICK n : Alike(n, e) /\ OwnsOrder(w, e) /\ Indexed(s, Put(books_[s].order_index_, id, n))
        BY <3>1
      <4> QED BY <1>2, <1>3, <4>1, BookOwnersUpdate
    <3>2. CASE StillBooks \/ Indexed(s, Drop(books_[s].order_index_, id))
      BY <1>2, <3>2, BookOwnersUpdate
    <3> QED BY <2>1, <2>2, <3>1, <3>2
  <2>4. EngineOwners(w)' /\ CallOwners(w)'
    BY <1>3, <2>1, <2>2 DEF EngineOwners, CallOwners, NoCall
  <2> QED BY <1>1, <2>2, <2>3, <2>4, SMTT(30) DEF OwnersOK
<1>8. CASE MatchFill
  <2> DEFINE o == cur.order
             s == o.symbol
  <2>1. /\ pc = "match" /\ UNCHANGED << queue_, pc >> /\ s \in DOMAIN books_
        /\ cur'.tag = cur.tag /\ (cur.tag = "REPLACE" => cur'.req = cur.req)
        /\ Alike(cur'.order, o) /\ call'.fn = "on_fill" /\ FillOf(call'.taker, o)
    BY <1>8, MatchFillFacts
  <2>2. PICK id \in DOMAIN books_[s].order_index_ :
            LET r == books_[s].order_index_[id]
            IN  /\ FillOf(call'.maker, r)
                /\ \/ Indexed(s, Drop(books_[s].order_index_, id))
                   \/ \E n : Alike(n, r) /\ Indexed(s, Put(books_[s].order_index_, id, n))
    BY <1>8, MatchFillFacts
  <2>3. OwnsOrder(w, o) /\ OwnsOrder(w, books_[s].order_index_[id])
    BY <1>2, <2>1, <2>2 DEF EngineOwners, BookOwners
  <2> HIDE DEF o, s
  <2>4. BookOwners(w)'
    BY <1>2, <1>3, <2>2, <2>3, BookOwnersUpdate
  <2>5. EngineOwners(w)' /\ CallOwners(w)'
    BY <1>2, <1>3, <1>4, <2>1, <2>2, <2>3 DEF EngineOwners, CallOwners
  <2>6. QueueOwners(w)'
    BY <1>2, <2>1 DEF QueueOwners
  <2> QED BY <1>1, <2>4, <2>5, <2>6 DEF OwnersOK
<1>9. CASE MatchEnd
  <2> DEFINE o == cur.order
             s == o.symbol
  <2>1. /\ pc = "match" /\ pc' = "run" /\ UNCHANGED queue_
        /\ StillBooks \/ Indexed(s, Put(books_[s].order_index_, o.exchange_id, o))
        /\ \/ cur.tag = "REPLACE" /\ call'.fn = "on_replace" /\ call'.req = cur.req
           \/ call'.fn = "on_tif_cancel" /\ call'.order = o
           \/ call'.fn \in {"none", "on_order_rested"}
    BY <1>9, MatchEndFacts
  <2>2. OwnsOrder(w, o) /\ (cur.tag = "REPLACE" => OwnsReplace(w, cur.req))
    BY <1>2, <2>1 DEF EngineOwners
  <2> HIDE DEF o, s
  <2>3. BookOwners(w)'
    BY <1>2, <2>1, <2>2, BookOwnersUpdate
  <2>4. EngineOwners(w)' /\ CallOwners(w)'
    BY <2>1, <2>2 DEF EngineOwners, CallOwners
  <2>5. QueueOwners(w)'
    BY <1>2, <2>1 DEF QueueOwners
  <2> QED BY <1>1, <2>3, <2>4, <2>5 DEF OwnersOK
<1>10. CASE RunSnapshot
  <2>1. /\ Pop("SNAPSHOT") /\ UNCHANGED << books_, pc, cur >> /\ call'.fn = "snapshot_cb"
    BY <1>10 DEF RunSnapshot, SnapshotCb
  <2>2. QueueOwners(w)'
    BY <1>2, <2>1, PopOwners
  <2> QED BY <1>1, <2>1, <2>2 DEF OwnersOK, BookOwners, EngineOwners, CallOwners
<1>11. CASE Exit
  BY <1>1, <1>11 DEF Exit, OwnersOK, BookOwners, QueueOwners, EngineOwners, CallOwners
<1> QED BY <1>5, <1>6, <1>7, <1>8, <1>9, <1>10, <1>11

\* A callback's step: the maps lose entries, or an order takes over the ClOrdID of its replace.
LEMMA CallbackOwners ==
    ASSUME GInv, NEW w, OwnersOK(w),
           OnFillStep \/ OnCancelStep \/ OnReplaceStep \/ OnTifCancelStep \/ OnOrderRestedStep
               \/ SnapshotStep
    PROVE  OwnersOK(w)'
<1>1. UNCHANGED << books_, queue_, pc, cur, fix >> /\ call' \in {call, NoCall}
  BY DEF OnFillStep, SendFillRoute, SendFillReport, FillTrade, FillReturn, OnCancelStep,
         OnReplaceStep, OnTifCancelStep, OnOrderRestedStep, SnapshotStep, Return,
         CallbackReturn, vars
<1>2. BookOwners(w)' /\ QueueOwners(w)' /\ FixOwners(w)' /\ EngineOwners(w)' /\ CallOwners(w)'
  BY <1>1 DEF OwnersOK, BookOwners, QueueOwners, FixOwners, EngineOwners, CallOwners, NoCall
<1>3. MapOwners(w)
  BY DEF OwnersOK
<1>4. CASE OnReplaceStep
  <2> DEFINE req == call.req
             id == req.orig_order_id
             left == IF call.leaves_qty > 0 THEN call.leaves_qty ELSE 0
             d == Drop(clord_to_exchange_, req.old_clord_id)
  <2>1. /\ call.fn = "on_replace"
        /\ \/ UNCHANGED maps
           \/ /\ clord_to_exchange_' = Emplace(d, req.new_clord_id, id)
              /\ id \in DOMAIN active_orders_
              /\ \/ active_orders_' = Drop(active_orders_, id)
                 \/ active_orders_' = [active_orders_ EXCEPT ![id].clord_id = req.new_clord_id,
                                                             ![id].price = req.new_price,
                                                             ![id].qty = req.new_qty,
                                                             ![id].leaves_qty = left]
    BY <1>4 DEF OnReplaceStep, InCallback
  <2>2. OwnsReplace(w, req)
    BY <2>1 DEF OwnersOK, CallOwners
  <2>3. CASE UNCHANGED maps
    BY <1>2, <1>3, <2>3 DEF OwnersOK, MapOwners, maps
  <2>4. CASE ~UNCHANGED maps
    <3>1. \A x \in DOMAIN active_orders_ :
              active_orders_[x] \in Order /\ active_orders_[x].exchange_id = x
      BY DEF GInv, MapsOK
    <3> HIDE DEF left, d
    <3>2. \A x \in DOMAIN active_orders_' :
              /\ x \in DOMAIN active_orders_
              /\ active_orders_'[x].exchange_id = x
              /\ \/ active_orders_'[x].clord_id = active_orders_[x].clord_id
                 \/ x = id /\ active_orders_'[x].clord_id = req.new_clord_id
      <4>1. CASE active_orders_' = Drop(active_orders_, id)
        BY <3>1, <4>1, DropFields
      <4>2. CASE active_orders_' = [active_orders_ EXCEPT ![id].clord_id = req.new_clord_id,
                                                          ![id].price = req.new_price,
                                                          ![id].qty = req.new_qty,
                                                          ![id].leaves_qty = left]
        BY <3>1, <4>2 DEF Order
      <4> QED BY <2>1, <2>4, <4>1, <4>2
    <3>3. \A x \in DOMAIN active_orders_' : OwnsOrder(w, active_orders_'[x])
      BY <1>3, <2>2, <3>1, <3>2 DEF MapOwners, OwnsOrder, OwnsReplace
    <3>4. \A c \in DOMAIN d : Owns(w, c, d[c])
      BY <1>3, DropFields DEF MapOwners, d
    <3>5. \A c \in DOMAIN clord_to_exchange_' : Owns(w, c, clord_to_exchange_'[c])
      BY <2>1, <2>2, <2>4, <3>4 DEF Emplace, Put, OwnsReplace
    <3> QED BY <1>2, <3>3, <3>5 DEF OwnersOK, MapOwners
  <2> QED BY <2>3, <2>4
<1>5. CASE OnFillStep
  <2>1. /\ \E c : clord_to_exchange_' \in {clord_to_exchange_, Drop(clord_to_exchange_, c)}
        /\ \E id, l : active_orders_' \in {active_orders_, Drop(active_orders_, id),
                                           [active_orders_ EXCEPT ![id].leaves_qty = l]}
    BY <1>5 DEF OnFillStep, SendFillRoute, SendFillReport, FillTrade, FillReturn, maps
  <2>2. PICK id, l : active_orders_' \in {active_orders_, Drop(active_orders_, id),
                                          [active_orders_ EXCEPT ![id].leaves_qty = l]}
    BY <2>1
  <2>3. \A x \in DOMAIN active_orders_ : active_orders_[x] \in Order
    BY DEF GInv, MapsOK
  <2>4. \A x \in DOMAIN active_orders_' :
            /\ x \in DOMAIN active_orders_
            /\ active_orders_'[x].clord_id = active_orders_[x].clord_id
            /\ active_orders_'[x].exchange_id = active_orders_[x].exchange_id
    <3>1. CASE active_orders_' = [active_orders_ EXCEPT ![id].leaves_qty = l]
      BY <2>3, <3>1 DEF Order
    <3> QED BY <2>2, <3>1, DropFields
  <2>5. \A c \in DOMAIN clord_to_exchange_' : Owns(w, c, clord_to_exchange_'[c])
    BY <1>3, <2>1, DropFields DEF MapOwners
  <2> QED BY <1>2, <1>3, <2>4, <2>5 DEF OwnersOK, MapOwners, OwnsOrder
<1>6. CASE OnCancelStep \/ OnTifCancelStep \/ OnOrderRestedStep \/ SnapshotStep
  <2>1. /\ \E id : active_orders_' \in {active_orders_, Drop(active_orders_, id)}
        /\ \E c : clord_to_exchange_' \in {clord_to_exchange_, Drop(clord_to_exchange_, c)}
    BY <1>6 DEF OnCancelStep, OnTifCancelStep, OnOrderRestedStep, SnapshotStep, maps
  <2>2. MapOwners(w)'
    BY <1>3, <2>1, DropFields DEF MapOwners
  <2> QED BY <1>2, <2>2 DEF OwnersOK
<1> QED BY <1>4, <1>5, <1>6

\* A new ClOrdID gets its owner.
LEMMA ClaimNew ==
    ASSUME NEW w \in [used -> Nat], OwnersOK(w), NEW c, c \notin used, NEW id \in Nat,
           used' = used \cup {c}
    PROVE  \E v \in [used' -> Nat] : OwnersOK(v) /\ Owns(v, c, id)
                                     /\ \A x, y : Owns(w, x, y) => Owns(v, x, y)
<1> DEFINE v == [x \in used' |-> IF x = c THEN id ELSE w[x]]
<1>1. v \in [used' -> Nat] /\ Owns(v, c, id) /\ \A x, y : Owns(w, x, y) => Owns(v, x, y)
  BY DEF Owns
<1> HIDE DEF v
<1>2. OwnersOK(v)
  BY <1>1, OwnersWiden
<1> QED BY <1>1, <1>2

\* The item a handler pushes is its own.
LEMMA PushOwners ==
    ASSUME IInv, NEW w, QueueOwners(w), NEW item \in WorkItem, OwnsItem(w, item), Push(item)
    PROVE  QueueOwners(w)'
<1>1. \A i \in DOMAIN queue_' : \/ i \in DOMAIN queue_ /\ queue_'[i] = queue_[i]
                                \/ queue_'[i] = item
  BY PushProperties DEF IInv, TypeOK, Push
<1> QED BY <1>1 DEF QueueOwners

\* A ClOrdID names one order for good, through every step of every thread.
LEMMA ClaimsStep ==
    ASSUME GInv, rows = << >>, ClaimsOK, [GwNext]_allvars
    PROVE  ClaimsOK'
<1> PICK w \in [used -> Nat] : OwnersOK(w)
  BY DEF ClaimsOK
<1>0. SUFFICES ASSUME used' # used \/ ~OwnersOK(w)'
               PROVE  ClaimsOK'
  <2>1. used' = used /\ OwnersOK(w)' => ClaimsOK'
    BY DEF ClaimsOK
  <2> QED BY <2>1
<1>1. CASE UNCHANGED allvars \/ GwOver
  BY <1>0, <1>1 DEF allvars, vars, gwvars, GwOver, Over, OwnersOK, MapOwners, BookOwners,
     QueueOwners, FixOwners, EngineOwners, CallOwners
<1>2. CASE GwMain \/ GwAdmin
  <2>1. /\ UNCHANGED << gwvars, queue_, cur, call >> /\ (pc' = "match" => pc = "match")
        /\ books_' = books_ \/ \E s \in Symbols : books_' = Put(books_, s, EmptyBook)
    BY <1>2 DEF GwMain, GwAdmin, MainNext, AdminNext, RestoreOrder, Start, StopAcceptor, Stop,
                RegisterSymbol
  <2>2. DOMAIN EmptyBook.order_index_ = {}
    BY DEF EmptyBook, NoEntry
  <2>3. BookOwners(w)'
    BY <2>1, <2>2 DEF OwnersOK, BookOwners, Put
  <2>4. used' = used /\ MapOwners(w)' /\ QueueOwners(w)' /\ FixOwners(w)' /\ EngineOwners(w)'
        /\ CallOwners(w)'
    BY <2>1 DEF gwvars, OwnersOK, MapOwners, QueueOwners, FixOwners, EngineOwners, CallOwners
  <2> QED BY <1>0, <2>3, <2>4 DEF OwnersOK
<1>3. CASE GwEngine
  <2>1. used' = used
    BY <1>3 DEF GwEngine, gwvars, OnFillStep, SendFillRoute, SendFillReport, FillTrade,
       FillReturn, OnCancelStep, OnReplaceStep, OnTifCancelStep, OnOrderRestedStep, SnapshotStep
  <2> QED BY <1>0, <1>3, <2>1, EngineSideOwners, CallbackOwners DEF GwEngine
<1>4. CASE GwFix
  <2> USE DEF OwnersOK
  <2>1. ASSUME UNCHANGED << vars, clord_to_exchange_, active_orders_ >>, NEW v, OwnersOK(v),
               FixOwners(v)'
        PROVE  OwnersOK(v)'
    BY <2>1 DEF vars, MapOwners, BookOwners, QueueOwners, EngineOwners, CallOwners
  <2>2. CASE SendStatus \/ \E c \in Clients : Logon(c) \/ Logout(c)
    <3>1. UNCHANGED << vars, clord_to_exchange_, active_orders_, used >>
          /\ fix'.at \in {"idle", "status"}
      <4>1. ASSUME NEW c \in Clients, Logon(c) \/ Logout(c)
            PROVE  /\ UNCHANGED << vars, clord_to_exchange_, active_orders_, used >>
                   /\ fix'.at \in {"idle", "status"}
        BY <4>1 DEF Logon, Logout, maps, Idle
      <4>2. ASSUME SendStatus
            PROVE  /\ UNCHANGED << vars, clord_to_exchange_, active_orders_, used >>
                   /\ fix'.at \in {"idle", "status"}
        BY <4>2 DEF SendStatus, maps, Idle
      <4> QED BY <2>2, <4>1, <4>2
    <3>2. FixOwners(w)'
      BY <3>1 DEF FixOwners
    <3> QED BY <1>0, <2>1, <3>1, <3>2
  <2>3. CASE \E m \in NewOrderMsgs, c \in Clients : RejectNew(m, c)
    BY <1>0, <2>3 DEF RejectNew, Reject, gwvars, MapOwners, BookOwners, QueueOwners, FixOwners,
                      EngineOwners, CallOwners
  <2>4. ASSUME NEW m \in NewOrderMsgs, NEW c \in Clients, NEW cl \in ClOrdIds, AcceptNew(m, c, cl)
        PROVE  ClaimsOK'
    <3> DEFINE o == NewOrder(m, c, cl)
    <3>1. /\ cl \notin used /\ used' = used \cup {cl} /\ fix' = [at |-> "submit", order |-> o]
          /\ clord_to_exchange_' = Emplace(clord_to_exchange_, cl, o.exchange_id)
          /\ active_orders_' = Emplace(active_orders_, o.exchange_id, o)
          /\ UNCHANGED << books_, queue_, pc, cur, call >>
      BY <2>4 DEF AcceptNew
    <3>2. order_seq_ \in Nat
      BY DEF GInv, IInv, TypeOK
    <3>3. o.exchange_id \in Nat /\ o.clord_id = cl
      BY <3>2 DEF NewOrder
    <3> HIDE DEF o
    <3>4. PICK v \in [used' -> Nat] : OwnersOK(v) /\ Owns(v, cl, o.exchange_id)
      BY <3>1, <3>3, ClaimNew
    <3>5. OwnsOrder(v, o)
      BY <3>3, <3>4 DEF OwnsOrder
    <3>6. MapOwners(v)'
      BY <3>1, <3>4, <3>5 DEF MapOwners, Emplace, Put
    <3>7. FixOwners(v)'
      BY <3>1, <3>5 DEF FixOwners
    <3>8. OwnersOK(v)'
      BY <3>1, <3>4, <3>6, <3>7 DEF BookOwners, QueueOwners, EngineOwners, CallOwners
    <3> QED BY <3>8 DEF ClaimsOK
  <2>5. CASE SubmitNew
    <3> DEFINE item == [tag |-> "ORDER", order |-> fix.order]
    <3>1. /\ Push(item) /\ fix' = Idle /\ fix.at = "submit"
          /\ UNCHANGED << books_, pc, cur, call, clord_to_exchange_, active_orders_, used >>
      BY <2>5 DEF SubmitNew, maps
    <3>2. item \in WorkItem
      BY <3>1 DEF GInv, FixOK, SubmitOK, WorkItem
    <3>3. OwnsItem(w, item)
      BY <3>1 DEF FixOwners, OwnsItem
    <3> HIDE DEF item
    <3>4. QueueOwners(w)'
      BY <3>1, <3>2, <3>3, PushOwners DEF GInv
    <3> QED BY <1>0, <3>1, <3>4 DEF MapOwners, BookOwners, FixOwners, EngineOwners, CallOwners,
                                    Idle
  <2>6. ASSUME NEW c \in Clients, NEW orig \in ClOrdIds, NEW s \in MsgSymbols,
               RecvCancel(c, orig, s)
        PROVE  ClaimsOK'
    <3>1. UNCHANGED << vars, clord_to_exchange_, active_orders_, used >>
          /\ fix'.at = "request" /\ fix'.item.tag = "CANCEL"
      BY <2>6 DEF RecvCancel, maps
    <3>2. FixOwners(w)'
      BY <3>1 DEF FixOwners, OwnsItem
    <3> QED BY <1>0, <2>1, <3>1, <3>2
  <2>7. ASSUME NEW c \in Clients, NEW orig \in ClOrdIds, NEW cl \in ClOrdIds,
               NEW s \in MsgSymbols, NEW side \in Sides, NEW p \in Prices, NEW q \in ReplaceQtys,
               RecvReplace(c, orig, cl, s, side, p, q)
        PROVE  ClaimsOK'
    <3>1. /\ UNCHANGED << vars, clord_to_exchange_, active_orders_ >>
          /\ cl \notin used /\ used' = used \cup {cl} /\ orig \in DOMAIN clord_to_exchange_
          /\ fix'.at = "request" /\ fix'.item.tag = "REPLACE"
          /\ fix'.item.req.new_clord_id = cl /\ fix'.item.req.old_clord_id = orig
          /\ fix'.item.req.orig_order_id = clord_to_exchange_[orig]
      BY <2>7 DEF RecvReplace, maps
    <3>2. clord_to_exchange_[orig] \in Nat
      BY <3>1 DEF GInv, MapsOK
    <3>3. PICK v \in [used' -> Nat] : OwnersOK(v) /\ Owns(v, cl, clord_to_exchange_[orig])
      BY <3>1, <3>2, ClaimNew, ZenonT(40)
    <3>4. FixOwners(v)'
      BY <3>1, <3>3 DEF MapOwners, FixOwners, OwnsItem, OwnsReplace
    <3> QED BY <2>1, <3>1, <3>3, <3>4 DEF ClaimsOK
  <2>8. ASSUME NEW item \in WorkItem, OwnsItem(w, item), Request(item), fix' = fix \/ fix' = Idle,
               UNCHANGED << clord_to_exchange_, active_orders_, used >>
        PROVE  ClaimsOK'
    <3>1. Push(item) /\ UNCHANGED << books_, pc, cur, call >>
      BY <2>8 DEF Request
    <3>2. QueueOwners(w)'
      BY <2>8, <3>1, PushOwners DEF GInv
    <3> QED BY <1>0, <2>8, <3>1, <3>2 DEF MapOwners, BookOwners, FixOwners, EngineOwners,
                                          CallOwners, Idle
  <2>9. CASE PushRequest
    <3>1. RequestOK(fix.item) /\ Request(fix.item) /\ fix' = Idle /\ OwnsItem(w, fix.item)
          /\ UNCHANGED << clord_to_exchange_, active_orders_, used >>
      BY <2>9 DEF PushRequest, GInv, FixOK, FixOwners, maps
    <3> QED BY <2>8, <3>1, RequestIsWork
  <2>10. CASE \E c \in Clients : RecvMarketDataRequest(c)
    <3>1. [tag |-> "SNAPSHOT"] \in WorkItem /\ OwnsItem(w, [tag |-> "SNAPSHOT"])
      BY DEF WorkItem, OwnsItem
    <3> QED BY <2>8, <2>10, <3>1 DEF RecvMarketDataRequest, RequestSnapshot, gwvars
  <2> HIDE DEF OwnersOK
  <2> QED BY <1>4, <2>2, <2>3, <2>4, <2>5, <2>6, <2>7, <2>9, <2>10 DEF GwFix, GwOrders
<1> QED BY <1>1, <1>2, <1>3, <1>4 DEF GwNext

---------------------------------------------------------------------------
(* Steps of the engine thread between callbacks                            *)

\* The maps as they were: so is everything the gateway knows.
LEMMA MapsKept ==
    ASSUME UNCHANGED << maps, finals >>
    PROVE  /\ \A id, c : Known(id, c)' <=> Known(id, c)
           /\ \A id : /\ Ending(id)' <=> Ending(id)
                      /\ Gone(id)' <=> Gone(id)
                      /\ Silent(id)' <=> Silent(id)
           /\ \A o : /\ SameOrder(o)' <=> SameOrder(o)
                     /\ SamePrice(o)' <=> SamePrice(o)
                     /\ SameLeaves(o)' <=> SameLeaves(o)
                     /\ Waiting(o)' <=> Waiting(o)
  BY DEF maps, Known, Ending, Gone, Silent, SameOrder, SamePrice, SameLeaves, Waiting

\* An order that rests while no callback is under way.
Agrees(e) ==
    /\ e.leaves_qty > 0 /\ e.tif # "ioc"
    /\ Known(e.exchange_id, e.client_id)
    /\ SameOrder(e) /\ SamePrice(e) /\ SameLeaves(e)

LEMMA RestingAgrees ==
    ASSUME ListedOK, call = NoCall
    PROVE  \A s \in DOMAIN books_ : \A id \in DOMAIN books_[s].order_index_ :
               Agrees(books_[s].order_index_[id])
<1>1. \A id : ~Replacing(id) /\ ~MakerLeft
  BY DEF Replacing, MakerLeft, InFill, NoCall
<1> QED BY <1>1 DEF ListedOK, RestingOK, Agrees

LEMMA PopParties ==
    ASSUME GInv, WaitingOK, NEW tag, Pop(tag), UNCHANGED << maps, finals, fix >>
    PROVE  /\ WaitingOK'
           /\ tag = "ORDER" => Waiting(Head(queue_).order)
           /\ tag = "REPLACE" => Head(queue_).req.new_qty > 0
<1>1. /\ 1 \in DOMAIN queue_ /\ Head(queue_) = queue_[1] /\ Head(queue_).tag = tag
      /\ \A i \in DOMAIN queue_' : i + 1 \in DOMAIN queue_ /\ queue_'[i] = queue_[i + 1]
  BY PopQueue DEF GInv
<1>2. \A o : Waiting(o)' <=> Waiting(o)
  BY MapsKept
<1>3. WaitingOK'
  BY <1>1, <1>2 DEF WaitingOK
<1> QED BY <1>1, <1>3 DEF WaitingOK

\* The books after a step that changed one entry.
LEMMA ListedUpdate ==
    ASSUME ListedOK, call = NoCall, UNCHANGED << maps, finals >>, NEW s, NEW x, NEW n,
           \/ StillBooks
           \/ Indexed(s, Drop(books_[s].order_index_, x))
           \/ Indexed(s, Put(books_[s].order_index_, x, n)) /\ RestingOK(n)'
    PROVE  ListedOK'
<1>1. \A e : Agrees(e) => RestingOK(e)'
  <2>1. \A e : Agrees(e) => /\ e.leaves_qty > 0 /\ e.tif # "ioc"
                            /\ Known(e.exchange_id, e.client_id)'
                            /\ SameOrder(e)' /\ SamePrice(e)' /\ SameLeaves(e)'
    BY MapsKept DEF Agrees
  <2> QED BY <2>1 DEF RestingOK
<1>2. \A e : (\E t \in DOMAIN books_ : \E id \in DOMAIN books_[t].order_index_ :
                  e = books_[t].order_index_[id]) => RestingOK(e)'
  BY <1>1, RestingAgrees
<1>3. CASE StillBooks
  BY <1>2, <1>3 DEF ListedOK, StillBooks
<1>4. CASE ~StillBooks
  <2>1. s \in DOMAIN books_ /\ DOMAIN books_' = DOMAIN books_
        /\ \A t \in DOMAIN books_ : t # s => books_'[t] = books_[t]
    BY <1>4 DEF Indexed
  <2>2. \A id \in DOMAIN books_'[s].order_index_ :
            \/ /\ id \in DOMAIN books_[s].order_index_
               /\ books_'[s].order_index_[id] = books_[s].order_index_[id]
            \/ books_'[s].order_index_[id] = n /\ RestingOK(n)'
    BY <1>4 DEF Indexed, Drop, Put
  <2>3. \A t \in DOMAIN books_' : \A id \in DOMAIN books_'[t].order_index_ :
            \A e : e = books_'[t].order_index_[id] => RestingOK(e)'
    BY <1>2, <2>1, <2>2
  <2> QED BY <2>3 DEF ListedOK
<1> QED BY <1>3, <1>4

\* An order that was taken out of its book is in none.
LEMMA DroppedGone ==
    ASSUME IInv, NEW s \in DOMAIN books_, NEW id \in DOMAIN books_[s].order_index_,
           Indexed(s, Drop(books_[s].order_index_, id))
    PROVE  id \notin ListedIds'
<1>1. ASSUME NEW t \in DOMAIN books_' PROVE id \notin DOMAIN books_'[t].order_index_
  BY EntryUnique DEF Indexed, Drop
<1> QED BY <1>1 DEF ListedIds

LEMMA RunOrderParties ==
    ASSUME GInv, GInv', rows = << >>, PartiesOK, RunOrder, UNCHANGED gwvars
    PROVE  PartiesOK'
<1>1. PICK o :
      /\ o = Head(queue_).order
      /\ Pop("ORDER") /\ o \in Order /\ UNCHANGED << books_, rows, order_seq_ >>
      /\ call = NoCall /\ pc = "run"
      /\ \/ /\ call'.fn = "on_tif_cancel" /\ Alike(call'.order, o)
            /\ UNCHANGED << pc, cur >>
         \/ /\ call' = NoCall /\ pc' = "match" /\ cur'.tag = "ORDER"
            /\ Alike(cur'.order, o) /\ cur'.order.price = o.price
            /\ cur'.order.leaves_qty = o.qty /\ cur'.order.qty = o.qty
  BY RunOrderFacts
<1>2. UNCHANGED << maps, finals, fix, phase >>
  BY DEF gwvars, maps
<1>3. WaitingOK' /\ Waiting(o)
  BY <1>1, <1>2, PopParties DEF PartiesOK
<1>4. o.exchange_id \in QueuedIds /\ o.exchange_id \notin QueuedIds'
  BY <1>1, PopStep DEF GInv
<1>5. ListedOK'
  <2>1. StillBooks
    BY <1>1 DEF StillBooks
  <2> QED BY <1>1, <1>2, <2>1, ListedUpdate DEF PartiesOK
<1>6. CurrentOK'
  <2>1. CASE pc' = "match"
    <3>1. call' = NoCall /\ cur'.tag = "ORDER" /\ Alike(cur'.order, o) /\ cur'.order.price = o.price
          /\ cur'.order.leaves_qty = o.qty
      BY <1>1, <2>1
    <3>2. /\ Known(o.exchange_id, o.client_id)' /\ o.qty >= 0 /\ o.qty \in Int
          /\ o.qty = 0 => Silent(o.exchange_id)'
      BY <1>1, <1>2, <1>3, MapsKept DEF Waiting, Order
    <3>3. SameOrder(cur.order)' /\ SamePrice(cur.order)' /\ SameLeaves(cur.order)'
      <4>1. SameOrder(o)' /\ SamePrice(o)' /\ SameLeaves(o)' /\ o.leaves_qty = o.qty
        BY <1>2, <1>3, MapsKept DEF Waiting
      <4> QED BY <3>1, <4>1 DEF SameOrder, SamePrice, SameLeaves, Alike
    <3>4. /\ cur'.order.leaves_qty >= 0 /\ cur'.order.exchange_id = o.exchange_id
          /\ cur'.order.client_id = o.client_id
          /\ cur'.order.leaves_qty = 0 => Silent(o.exchange_id)'
      BY <3>1, <3>2 DEF Alike
    <3>5. ~InFill({"taker_orders"})'
      BY <3>1 DEF InFill, NoCall
    <3> QED BY <3>1, <3>2, <3>3, <3>4, <3>5 DEF CurrentOK
  <2> QED BY <2>1 DEF CurrentOK
<1>7. FillOK'
  BY <1>1 DEF FillOK, NoCall
<1>8. CallbackOK'
  <2>1. CASE call'.fn = "on_tif_cancel"
    <3>1. Alike(call'.order, o) /\ pc' = "run"
      BY <1>1, <2>1 DEF NoCall
    <3>2. o.exchange_id \notin ListedIds /\ ListedIds' = ListedIds
      BY <1>1, <1>4 DEF GInv, IInv, Fresh, OnePlace, ListedIds
    <3>3. UnrestoredIds' = {} /\ MatchingIds' = {}
      BY <1>1, <3>1 DEF UnrestoredIds, MatchingIds
    <3>4. o.exchange_id \notin LiveIds'
      BY <1>4, <3>2, <3>3 DEF LiveIds
    <3>5. Known(o.exchange_id, o.client_id)'
      BY <1>2, <1>3, MapsKept DEF Waiting
    <3> QED BY <2>1, <3>1, <3>4, <3>5 DEF CallbackOK, Alike
  <2>2. CASE call' = NoCall
    BY <2>2 DEF CallbackOK, NoCall
  <2> QED BY <1>1, <2>1, <2>2
<1> QED BY <1>3, <1>5, <1>6, <1>7, <1>8 DEF PartiesOK

\* A step that leaves books and callbacks alone, and no aggressor.
LEMMA QuietParties ==
    ASSUME PartiesOK, WaitingOK', call = NoCall, StillBooks, UNCHANGED << maps, finals >>,
           pc' # "match", call'.fn \in {"none", "snapshot_cb", "on_order_rested"}
    PROVE  PartiesOK'
<1>1. ListedOK'
  BY ListedUpdate DEF PartiesOK
<1>2. CurrentOK' /\ FillOK' /\ CallbackOK'
  BY DEF CurrentOK, FillOK, CallbackOK
<1> QED BY <1>1, <1>2 DEF PartiesOK

LEMMA RunCancelParties ==
    ASSUME GInv, GInv', rows = << >>, PartiesOK, RunCancel, UNCHANGED gwvars
    PROVE  PartiesOK'
<1>1. PICK req :
      LET s == req.symbol
          id == req.orig_order_id
      IN  /\ Pop("CANCEL") /\ UNCHANGED << rows, order_seq_, cur >>
          /\ call = NoCall /\ pc = "run" /\ pc' # "match"
          /\ \/ call' = NoCall /\ StillBooks
             \/ /\ call'.fn = "on_cancel" /\ call'.found = FALSE /\ StillBooks
             \/ /\ call'.fn = "on_cancel" /\ call'.found = TRUE /\ call'.req = req
                /\ s \in DOMAIN books_ /\ id \in DOMAIN books_[s].order_index_
                /\ Indexed(s, Drop(books_[s].order_index_, id))
  BY RunCancelFacts
<1>2. UNCHANGED << maps, finals, fix, phase >>
  BY DEF gwvars, maps
<1>3. WaitingOK' /\ ListedOK
  BY <1>1, <1>2, PopParties DEF PartiesOK
<1>4. CurrentOK' /\ FillOK'
  BY <1>1 DEF CurrentOK, FillOK, NoCall
<1>5. CASE StillBooks
  <2>1. ListedOK'
    BY <1>1, <1>2, <1>3, <1>5, ListedUpdate
  <2>2. CASE call' = NoCall \/ call'.found = FALSE
    <3>1. CallbackOK'
      BY <1>1, <2>2 DEF CallbackOK, NoCall
    <3> QED BY <1>3, <1>4, <2>1, <3>1 DEF PartiesOK
  <2>3. CASE call'.fn = "on_cancel" /\ call'.found = TRUE
    <3>1. req.symbol \in DOMAIN books_ /\ req.orig_order_id \in DOMAIN books_[req.symbol].order_index_
          /\ Indexed(req.symbol, Drop(books_[req.symbol].order_index_, req.orig_order_id))
      BY <1>1, <2>3 DEF NoCall
    <3> QED BY <1>5, <3>1 DEF Indexed, Drop, StillBooks
  <2> QED BY <1>1, <2>2, <2>3
<1>6. CASE ~StillBooks
  <2> DEFINE s == req.symbol
             id == req.orig_order_id
  <2>1. /\ call'.fn = "on_cancel" /\ call'.found = TRUE /\ call'.req = req
        /\ s \in DOMAIN books_ /\ id \in DOMAIN books_[s].order_index_
        /\ Indexed(s, Drop(books_[s].order_index_, id))
    BY <1>1, <1>6
  <2>2. ListedOK'
    <3> HIDE DEF s, id
    <3> QED BY <1>1, <1>2, <1>3, <2>1, ListedUpdate
  <2>3. PICK e : e = books_[s].order_index_[id] /\ e.exchange_id = id /\ id \in ListedIds
    BY <2>1, EntryFields DEF GInv
  <2>4. Known(id, e.client_id)
    BY <1>1, <1>3, <2>1, <2>3, RestingAgrees DEF Agrees
  <2>5. Known(id, e.client_id)'
    BY <1>2, <2>4, MapsKept
  <2>6. id \notin LiveIds'
    <3>1. id \notin ListedIds'
      BY <2>1, DroppedGone DEF GInv
    <3>2. id \notin QueuedIds'
      <4>1. QueuedIds' \subseteq QueuedIds
        BY <1>1, <2>1, PopStep DEF GInv, Indexed
      <4> QED BY <2>3, <4>1 DEF GInv, IInv, Fresh, OnePlace
    <3>3. UnrestoredIds' = {} /\ MatchingIds' = {}
      BY <1>1 DEF UnrestoredIds, MatchingIds
    <3> QED BY <3>1, <3>2, <3>3 DEF LiveIds
  <2>7. CallbackOK'
    <3>1. active_orders_'[id].client_id = e.client_id
      BY <2>5 DEF Known
    <3> HIDE DEF id
    <3>2. call'.req.orig_order_id = id
      BY <2>1, SMTT(30) DEF id
    <3> QED BY <2>1, <2>5, <2>6, <3>1, <3>2 DEF CallbackOK
  <2> QED BY <1>3, <1>4, <2>2, <2>7 DEF PartiesOK
<1> QED BY <1>5, <1>6

LEMMA RunReplaceParties ==
    ASSUME GInv, GInv', rows = << >>, PartiesOK, RunReplace, UNCHANGED gwvars
    PROVE  PartiesOK'
<1>1. PICK req, e :
      LET s == req.symbol
          id == req.orig_order_id
      IN  /\ Pop("REPLACE") /\ req \in ReplaceRequest /\ UNCHANGED << rows, order_seq_ >>
          /\ req = Head(queue_).req /\ e = books_[s].order_index_[id]
          /\ call = NoCall /\ pc = "run"
          /\ \/ call' = NoCall /\ pc' # "match" /\ cur' = cur /\ StillBooks
             \/ /\ call'.fn = "on_replace" /\ call'.req = req /\ call'.leaves_qty = -1
                /\ pc' # "match" /\ cur' = cur /\ StillBooks
             \/ /\ call'.fn = "on_replace" /\ call'.req = req
                /\ call'.leaves_qty = req.new_qty
                /\ pc' # "match" /\ cur' = cur
                /\ s \in DOMAIN books_ /\ id \in DOMAIN books_[s].order_index_
                /\ \E n : /\ Alike(n, e) /\ n.price = req.new_price
                          /\ n.leaves_qty = req.new_qty
                          /\ Indexed(s, Put(books_[s].order_index_, id, n))
             \/ /\ call' = NoCall /\ pc' = "match" /\ cur'.tag = "REPLACE" /\ cur'.req = req
                /\ s \in DOMAIN books_ /\ id \in DOMAIN books_[s].order_index_
                /\ Alike(cur'.order, e) /\ cur'.order.price = req.new_price
                /\ cur'.order.qty = req.new_qty /\ cur'.order.leaves_qty = req.new_qty
                /\ Indexed(s, Drop(books_[s].order_index_, id))
  BY RunReplaceFacts, ZenonT(40)
<1>2. UNCHANGED << maps, finals, fix, phase >>
  BY DEF gwvars, maps
<1>3. WaitingOK' /\ ListedOK /\ req.new_qty > 0 /\ req.new_qty \in Int
  BY <1>1, <1>2, PopParties, RequestFields, Zenon DEF PartiesOK
<1>4. FillOK'
  <2>1. call'.fn # "on_fill"
    BY DEF RunReplace, Pop, NoBook, OnReplace, NoCall
  <2> QED BY <2>1 DEF FillOK
<1> DEFINE s == req.symbol
           id == req.orig_order_id
<1>5. ASSUME s \in DOMAIN books_, id \in DOMAIN books_[s].order_index_
      PROVE  /\ e \in Order /\ e.exchange_id = id /\ e.type = "limit" /\ e.tif # "ioc"
             /\ Known(id, e.client_id)' /\ SameOrder(e)'
  <2>1. e \in Order /\ e.exchange_id = id /\ e.type = "limit"
    BY <1>1, <1>5, EntryFields, ZenonT(40) DEF GInv
  <2>2. Agrees(e)
    BY <1>1, <1>3, <1>5, RestingAgrees
  <2>3. e.tif # "ioc" /\ Known(id, e.client_id) /\ SameOrder(e)
    BY <2>1, <2>2 DEF Agrees
  <2> QED BY <1>2, <2>1, <2>3, MapsKept, SMTT(30)
<1>6. CASE StillBooks /\ pc' # "match" /\ call' = NoCall
  BY <1>1, <1>2, <1>3, <1>6, QuietParties DEF NoCall
<1>7. CASE /\ StillBooks /\ call'.fn = "on_replace" /\ call'.req = req /\ call'.leaves_qty = -1
           /\ pc' # "match"
  <2>1. ListedOK'
    <3> HIDE DEF s, id
    <3> QED BY <1>1, <1>2, <1>3, <1>7, ListedUpdate, Zenon
  <2>2. CurrentOK' /\ CallbackOK'
    BY <1>7 DEF CurrentOK, CallbackOK
  <2> QED BY <1>3, <1>4, <2>1, <2>2, SMTT(30) DEF PartiesOK
<1>8. CASE /\ call'.fn = "on_replace" /\ call'.req = req /\ call'.leaves_qty = req.new_qty
           /\ pc' # "match"
           /\ s \in DOMAIN books_ /\ id \in DOMAIN books_[s].order_index_
           /\ \E n : /\ Alike(n, e) /\ n.price = req.new_price /\ n.leaves_qty = req.new_qty
                     /\ Indexed(s, Put(books_[s].order_index_, id, n))
  <2>1. PICK n : /\ Alike(n, e) /\ n.price = req.new_price /\ n.leaves_qty = req.new_qty
                 /\ Indexed(s, Put(books_[s].order_index_, id, n))
    BY <1>8
  <2>2. n.exchange_id = id /\ n.client_id = e.client_id /\ n.tif # "ioc" /\ n.leaves_qty > 0
    BY <1>3, <1>5, <1>8, <2>1 DEF Alike
  <2>3. SameOrder(n)' /\ Known(id, e.client_id)'
    BY <1>5, <1>8, <2>1 DEF SameOrder, Alike
  <2>4. Replacing(id)'
    <3>1. call'.found = (call'.leaves_qty >= 0)
      BY <1>8 DEF GInv, CallOK
    <3>2. call'.leaves_qty >= 0
      BY <1>3, <1>8
    <3>3. call'.found
      BY <3>1, <3>2
    <3> QED BY <1>8, <3>3 DEF Replacing
  <2>5. RestingOK(n)'
    BY <2>2, <2>3, <2>4 DEF RestingOK
  <2>6. ListedOK'
    <3> HIDE DEF s, id
    <3> QED BY <1>1, <1>2, <1>3, <2>1, <2>5, ListedUpdate, Zenon
  <2>7. /\ s \in DOMAIN books_' /\ id \in DOMAIN books_'[s].order_index_
        /\ books_'[s].order_index_[id] = n
    BY <2>1 DEF Indexed, Put
  <2>8. CallbackOK'
    <3> HIDE DEF s, id
    <3>1. call'.req.orig_order_id = id
      BY <1>8 DEF id
    <3> QED BY <1>3, <1>8, <2>1, <2>7, <3>1 DEF CallbackOK
  <2>9. CurrentOK'
    BY <1>8 DEF CurrentOK
  <2> QED BY <1>3, <1>4, <2>6, <2>8, <2>9 DEF PartiesOK
<1>9. CASE /\ call' = NoCall /\ pc' = "match" /\ cur'.tag = "REPLACE" /\ cur'.req = req
           /\ s \in DOMAIN books_ /\ id \in DOMAIN books_[s].order_index_
           /\ Alike(cur'.order, e) /\ cur'.order.price = req.new_price
           /\ cur'.order.qty = req.new_qty /\ cur'.order.leaves_qty = req.new_qty
           /\ Indexed(s, Drop(books_[s].order_index_, id))
  <2>1. ListedOK'
    <3> HIDE DEF s, id
    <3> QED BY <1>1, <1>2, <1>3, <1>9, ListedUpdate
  <2>2. CallbackOK'
    BY <1>9 DEF CallbackOK, NoCall
  <2>3. SameOrder(cur.order)' /\ Known(id, e.client_id)'
    BY <1>5, <1>9 DEF SameOrder, Alike
  <2>4. /\ cur'.order.exchange_id = id /\ cur'.order.client_id = e.client_id
        /\ cur'.order.type = "limit" /\ cur'.order.tif # "ioc"
    BY <1>5, <1>9 DEF Alike
  <2>5. CurrentOK'
    <3> HIDE DEF id
    <3>1. cur'.req.orig_order_id = id
      BY <1>9 DEF id
    <3> QED BY <1>3, <1>9, <2>3, <2>4, <3>1 DEF CurrentOK
  <2> QED BY <1>3, <1>4, <2>1, <2>2, <2>5 DEF PartiesOK
<1> QED BY <1>1, <1>6, <1>7, <1>8, <1>9, ZenonT(40)

LEMMA MatchFillParties ==
    ASSUME GInv, GInv', rows = << >>, PartiesOK, MatchFill, UNCHANGED gwvars
    PROVE  PartiesOK'
<1>1. PICK o, s, id, r :
      /\ o = cur.order /\ s = o.symbol
      /\ pc = "match" /\ call = NoCall /\ UNCHANGED << queue_, pc, rows, order_seq_ >>
      /\ s \in DOMAIN books_ /\ o \in Order
      /\ cur'.tag = cur.tag /\ (cur.tag = "REPLACE" => cur'.req = cur.req)
      /\ Alike(cur'.order, o) /\ cur'.order.price = o.price
      /\ call'.fn = "on_fill"
      /\ FillOf(call'.taker, o) /\ call'.taker.leaves_qty = cur'.order.leaves_qty
      /\ id \in DOMAIN books_[s].order_index_ /\ r = books_[s].order_index_[id]
      /\ FillOf(call'.maker, r)
      /\ \/ call'.maker.leaves_qty = 0 /\ Indexed(s, Drop(books_[s].order_index_, id))
         \/ /\ call'.maker.leaves_qty # 0
            /\ \E n : /\ Alike(n, r) /\ n.price = r.price
                      /\ n.leaves_qty = call'.maker.leaves_qty
                      /\ Indexed(s, Put(books_[s].order_index_, id, n))
      /\ r.leaves_qty > 0 => call'.maker.leaves_qty >= 0 /\ cur'.order.leaves_qty >= 0
      /\ o.leaves_qty > 0
  BY MatchFillFacts, SMTT(30)
<1>2. UNCHANGED << maps, finals, fix, phase >>
  BY DEF gwvars, maps
<1>3. /\ phase' = "begin" /\ call'.maker.leaves_qty \in Int /\ cur'.order.leaves_qty \in Int
  BY <1>1, <1>2, FillFields DEF GInv, PhaseOK, CallOK, NoCall, Alike, Order
<1>4. MakerLeft' /\ TakerLeft' /\ ~InFill({"taker_orders"})' /\ \A x : ~Replacing(x)'
  BY <1>1, <1>3, SMTT(30) DEF MakerLeft, TakerLeft, InFill, Replacing
<1>5. /\ r \in Order /\ r.exchange_id = id /\ id \in ListedIds /\ Agrees(r)
      /\ call'.maker.exchange_id = id /\ call'.maker.client_id = r.client_id
      /\ r.leaves_qty > 0
  <2>1. r \in Order /\ r.exchange_id = id /\ id \in ListedIds
    BY <1>1, EntryFields DEF GInv
  <2>2. Agrees(r)
    BY <1>1, RestingAgrees DEF PartiesOK
  <2> QED BY <1>1, <2>1, <2>2 DEF FillOf, Agrees
<1>6. Known(id, r.client_id)' /\ SameOrder(r)' /\ SamePrice(r)' /\ r.tif # "ioc"
  BY <1>2, <1>5, MapsKept DEF Agrees
<1>7. call'.maker.leaves_qty >= 0 /\ cur'.order.leaves_qty >= 0
  BY <1>1, <1>5
<1>8. WaitingOK'
  BY <1>1, <1>2, MapsKept DEF PartiesOK, WaitingOK
<1>9. ListedOK'
  <2>1. CASE Indexed(s, Drop(books_[s].order_index_, id))
    BY <1>1, <1>2, <2>1, ListedUpdate DEF PartiesOK
  <2>2. ASSUME NEW n, call'.maker.leaves_qty # 0, Alike(n, r), n.price = r.price,
               n.leaves_qty = call'.maker.leaves_qty,
               Indexed(s, Put(books_[s].order_index_, id, n))
        PROVE  ListedOK'
    <3>1. n.exchange_id = id /\ n.client_id = r.client_id /\ n.tif # "ioc" /\ n.leaves_qty > 0
      BY <1>3, <1>5, <1>6, <1>7, <2>2 DEF Alike
    <3>2. SameOrder(n)' /\ SamePrice(n)'
      BY <1>6, <2>2 DEF SameOrder, SamePrice, Alike
    <3>3. RestingOK(n)'
      BY <1>4, <1>5, <1>6, <3>1, <3>2 DEF RestingOK
    <3> QED BY <1>1, <1>2, <2>2, <3>3, ListedUpdate DEF PartiesOK
  <2> QED BY <1>1, <2>1, <2>2
<1>10. /\ Known(o.exchange_id, o.client_id)' /\ SameOrder(o)'
       /\ cur.tag = "ORDER" => SamePrice(o)'
       /\ cur.tag = "REPLACE" => /\ o.type = "limit" /\ o.tif # "ioc"
                                 /\ cur.req.orig_order_id = o.exchange_id
                                 /\ cur.req.new_price = o.price
  <2>1. /\ Known(o.exchange_id, o.client_id)
        /\ cur.tag = "REPLACE" => /\ o.type = "limit" /\ o.tif # "ioc"
                                  /\ cur.req.orig_order_id = o.exchange_id
                                  /\ cur.req.new_price = o.price
    BY <1>1 DEF PartiesOK, CurrentOK
  <2>2. SameOrder(o) /\ (cur.tag = "ORDER" => SamePrice(o))
    BY <1>1, <2>1 DEF PartiesOK, CurrentOK, Known
  <2> QED BY <1>2, <2>1, <2>2, MapsKept
<1>11. CurrentOK'
  <2>1. SameOrder(cur.order)' /\ (cur.tag = "ORDER" => SamePrice(cur.order)')
    BY <1>1, <1>10, SMTT(30) DEF SameOrder, SamePrice, Alike
  <2>2. /\ cur'.order.exchange_id = o.exchange_id /\ cur'.order.client_id = o.client_id
        /\ cur'.order.type = o.type /\ cur'.order.tif = o.tif
    BY <1>1 DEF Alike
  <2> QED BY <1>1, <1>4, <1>7, <1>10, <2>1, <2>2, SMTT(30) DEF CurrentOK
<1>12. o.exchange_id \in MatchingIds /\ id # o.exchange_id
  BY <1>1, <1>5, SMTT(30) DEF MatchingIds, GInv, IInv, Fresh, OnePlace
<1>13. FillOK'
  <2>1. /\ call'.taker.exchange_id = cur'.order.exchange_id
        /\ call'.taker.client_id = cur'.order.client_id
        /\ call'.maker.exchange_id # call'.taker.exchange_id
    BY <1>1, <1>5, <1>12 DEF FillOf, Alike
  <2>2. ASSUME call'.maker.leaves_qty > 0
        PROVE  \E t \in DOMAIN books_' :
                   /\ id \in DOMAIN books_'[t].order_index_
                   /\ books_'[t].order_index_[id].leaves_qty = call'.maker.leaves_qty
                   /\ books_'[t].order_index_[id].client_id = r.client_id
    <3>1. PICK n : /\ Alike(n, r) /\ n.leaves_qty = call'.maker.leaves_qty
                   /\ Indexed(s, Put(books_[s].order_index_, id, n))
      BY <1>1, <2>2
    <3>2. s \in DOMAIN books_' /\ id \in DOMAIN books_'[s].order_index_
          /\ books_'[s].order_index_[id] = n
      BY <3>1 DEF Indexed, Put
    <3> QED BY <3>1, <3>2 DEF Alike
  <2>3. ASSUME call'.maker.leaves_qty = 0
        PROVE  id \notin LiveIds'
    <3>1. id \notin ListedIds'
      BY <1>1, <2>3, DroppedGone DEF GInv
    <3>2. id \notin QueuedIds' /\ UnrestoredIds' = {}
      BY <1>1, <1>5, SMTT(30) DEF QueuedIds, UnrestoredIds, GInv, IInv, Fresh, OnePlace
    <3>3. id \notin MatchingIds'
      BY <1>1, <1>12 DEF MatchingIds, Alike
    <3> QED BY <3>1, <3>2, <3>3 DEF LiveIds
  <2> QED BY <1>1, <1>3, <1>4, <1>5, <1>6, <1>7, <2>1, <2>2, <2>3, Zenon DEF FillOK
<1>14. CallbackOK'
  BY <1>1 DEF CallbackOK
<1> QED BY <1>8, <1>9, <1>11, <1>13, <1>14 DEF PartiesOK

LEMMA MatchEndParties ==
    ASSUME GInv, GInv', rows = << >>, PartiesOK, MatchEnd, UNCHANGED gwvars
    PROVE  PartiesOK'
<1>1. PICK o, s :
      /\ o = cur.order /\ s = o.symbol
      /\ pc = "match" /\ call = NoCall /\ pc' = "run"
      /\ UNCHANGED << queue_, rows, order_seq_ >>
      /\ s \in DOMAIN books_ /\ o \in Order
      /\ IF o.leaves_qty > 0 /\ o.type = "limit" /\ o.tif # "ioc"
         THEN Indexed(s, Put(books_[s].order_index_, o.exchange_id, o))
         ELSE StillBooks
      /\ \/ /\ cur.tag = "REPLACE" /\ call'.fn = "on_replace" /\ call'.req = cur.req
            /\ call'.leaves_qty = o.leaves_qty
         \/ /\ cur.tag = "ORDER" /\ o.tif = "ioc" /\ o.leaves_qty > 0
            /\ call'.fn = "on_tif_cancel" /\ call'.order = o
         \/ /\ cur.tag = "ORDER" /\ ~(o.tif = "ioc" /\ o.leaves_qty > 0)
            /\ call'.fn \in {"none", "on_order_rested"}
  BY MatchEndFacts
<1> DEFINE id == o.exchange_id
<1>2. UNCHANGED << maps, finals, fix, phase >>
  BY DEF gwvars, maps
<1>3. WaitingOK'
  BY <1>1, <1>2, MapsKept DEF PartiesOK, WaitingOK
<1>4. CurrentOK' /\ FillOK'
  BY <1>1 DEF CurrentOK, FillOK
<1>5. /\ ~InFill({"begin", "maker_orders", "taker"}) /\ ~TakerLeft
  BY <1>1 DEF InFill, TakerLeft, NoCall
<1>6. /\ o.leaves_qty >= 0 /\ o.leaves_qty \in Int
      /\ o.leaves_qty > 0 => Known(id, o.client_id)
      /\ o.leaves_qty = 0 => Gone(id) \/ cur.tag = "ORDER"
      /\ cur.tag = "REPLACE" => /\ o.type = "limit" /\ o.tif # "ioc"
                                /\ cur.req.orig_order_id = id /\ cur.req.new_price = o.price
  BY <1>1, <1>5 DEF PartiesOK, CurrentOK, Order
<1>7. o.leaves_qty > 0 => /\ SameOrder(o)
                          /\ cur.tag = "ORDER" => SamePrice(o) /\ SameLeaves(o)
  BY <1>1, <1>5, <1>6 DEF PartiesOK, CurrentOK, Known
<1>8. /\ o.leaves_qty > 0 => /\ Known(id, o.client_id)' /\ SameOrder(o)'
                             /\ cur.tag = "ORDER" => SamePrice(o)' /\ SameLeaves(o)'
      /\ o.leaves_qty = 0 => Gone(id)' \/ cur.tag = "ORDER"
  BY <1>2, <1>6, <1>7, MapsKept
<1>9. ASSUME o.leaves_qty > 0, o.type = "limit", o.tif # "ioc"
      PROVE  /\ s \in DOMAIN books_' /\ id \in DOMAIN books_'[s].order_index_
             /\ books_'[s].order_index_[id] = o
  BY <1>1, <1>9 DEF Indexed, Put
<1>10. ASSUME call'.fn = "on_replace" PROVE Replacing(id)'
  <2>1. call'.found = (call'.leaves_qty >= 0)
    BY <1>10 DEF GInv, CallOK
  <2>2. cur.tag = "REPLACE" /\ call'.leaves_qty >= 0 /\ call'.req.orig_order_id = id
    BY <1>1, <1>6, <1>10
  <2>3. call'.found
    BY <2>1, <2>2
  <2> QED BY <1>10, <2>2, <2>3 DEF Replacing
<1>11. ListedOK'
  <2>1. CASE o.leaves_qty > 0 /\ o.type = "limit" /\ o.tif # "ioc"
    <3>1. call'.fn = "on_replace" \/ cur.tag = "ORDER"
      BY <1>1
    <3>2. RestingOK(o)'
      BY <1>8, <1>10, <2>1, <3>1 DEF RestingOK
    <3> QED BY <1>1, <1>2, <2>1, <3>2, ListedUpdate DEF PartiesOK
  <2>2. CASE ~(o.leaves_qty > 0 /\ o.type = "limit" /\ o.tif # "ioc")
    BY <1>1, <1>2, <2>2, ListedUpdate DEF PartiesOK
  <2> QED BY <2>1, <2>2
<1>12. CallbackOK'
  <2>1. CASE call'.fn = "on_replace"
    <3>1. cur.tag = "REPLACE" /\ call'.req = cur.req /\ call'.leaves_qty = o.leaves_qty
      BY <1>1, <2>1
    <3>2. /\ call'.req.orig_order_id = id /\ call'.req.new_price = o.price
          /\ o.type = "limit" /\ o.tif # "ioc"
      BY <1>6, <3>1
    <3>3. o.leaves_qty = 0 => id \notin DOMAIN active_orders_'
      BY <1>8, <3>1 DEF Gone
    <3> HIDE DEF id
    <3> QED BY <1>6, <1>9, <2>1, <3>1, <3>2, <3>3 DEF CallbackOK
  <2>2. CASE call'.fn = "on_tif_cancel"
    <3>1. call'.order = o /\ o.tif = "ioc" /\ o.leaves_qty > 0 /\ StillBooks
      BY <1>1, <2>2
    <3>2. ListedIds' = ListedIds /\ QueuedIds' = QueuedIds /\ UnrestoredIds' = {}
          /\ MatchingIds' = {} /\ id \in MatchingIds
      BY <1>1, <3>1 DEF StillBooks, ListedIds, QueuedIds, UnrestoredIds, MatchingIds
    <3>3. id \notin LiveIds'
      BY <3>2 DEF LiveIds, GInv, IInv, Fresh, OnePlace
    <3> QED BY <1>8, <2>2, <3>1, <3>3 DEF CallbackOK
  <2>3. CASE call'.fn \in {"none", "on_order_rested"}
    BY <2>3 DEF CallbackOK
  <2> QED BY <1>1, <2>1, <2>2, <2>3
<1> QED BY <1>3, <1>4, <1>11, <1>12 DEF PartiesOK

LEMMA EngineSideParties ==
    ASSUME GInv, GInv', rows = << >>, PartiesOK, UNCHANGED gwvars,
           RunOrder \/ RunCancel \/ RunReplace \/ RunSnapshot \/ MatchFill \/ MatchEnd \/ Exit
    PROVE  PartiesOK'
<1>1. UNCHANGED << maps, finals, fix, phase >>
  BY DEF gwvars, maps
<1>2. CASE RunSnapshot
  <2>1. /\ Pop("SNAPSHOT") /\ UNCHANGED << books_, pc >> /\ call'.fn = "snapshot_cb"
    BY <1>2 DEF RunSnapshot, SnapshotCb
  <2>2. WaitingOK' /\ pc = "run" /\ call = NoCall
    BY <1>1, <2>1, PopParties DEF PartiesOK, Pop
  <2> QED BY <1>1, <2>1, <2>2, QuietParties DEF StillBooks
<1>3. CASE Exit
  <2>1. UNCHANGED << books_, queue_, call >> /\ pc' = "stopped" /\ call = NoCall
    BY <1>3 DEF Exit
  <2>2. WaitingOK'
    BY <1>1, <2>1, MapsKept DEF PartiesOK, WaitingOK
  <2> QED BY <1>1, <2>1, <2>2, QuietParties DEF StillBooks, NoCall
<1> QED BY <1>2, <1>3, RunOrderParties, RunCancelParties, RunReplaceParties, MatchFillParties,
           MatchEndParties

\* The ids a pop and a change of one entry leave behind.
LEMMA PopKeeps ==
    ASSUME IInv, NEW tag, Pop(tag)
    PROVE  /\ tag # "ORDER" => QueuedIds \subseteq QueuedIds'
           /\ tag = "ORDER" => QueuedIds \subseteq QueuedIds' \cup {Head(queue_).order.exchange_id}
<1>1. /\ queue_ \in Seq(WorkItem) /\ queue_ # << >> /\ queue_' = Tail(queue_)
      /\ Head(queue_).tag = tag
  BY DEF IInv, TypeOK, Pop
<1>2. Head(queue_) = queue_[1] /\ \A i \in DOMAIN queue_ : i # 1 =>
          \E j \in DOMAIN queue_' : queue_'[j] = queue_[i]
  <2>1. Head(queue_) = queue_[1] /\ DOMAIN queue_ = 1 .. Len(queue_) /\ Len(queue_) \in Nat
    BY <1>1, LenProperties
  <2>2. /\ DOMAIN queue_' = 1 .. Len(queue_) - 1
        /\ \A j \in 1 .. Len(queue_) - 1 : queue_'[j] = queue_[j + 1]
    <3>1. /\ Tail(queue_) \in Seq(WorkItem) /\ Len(Tail(queue_)) = Len(queue_) - 1
          /\ \A j \in 1 .. Len(Tail(queue_)) : Tail(queue_)[j] = queue_[j + 1]
      BY <1>1, HeadTailProperties
    <3>2. DOMAIN Tail(queue_) = 1 .. Len(Tail(queue_))
      BY <3>1, LenProperties
    <3> QED BY <1>1, <3>1, <3>2
  <2>3. ASSUME NEW i \in DOMAIN queue_, i # 1
        PROVE  \E j \in DOMAIN queue_' : queue_'[j] = queue_[i]
    <3>1. i - 1 \in 1 .. Len(queue_) - 1 /\ (i - 1) + 1 = i
      BY <2>1, <2>3
    <3> QED BY <2>2, <3>1
  <2> QED BY <2>1, <2>3
<1>3. ASSUME NEW i \in DOMAIN queue_, queue_[i].tag = "ORDER", i # 1
      PROVE  queue_[i].order.exchange_id \in QueuedIds'
  BY <1>2, <1>3 DEF QueuedIds
<1>4. ASSUME NEW x \in QueuedIds
      PROVE  x \in QueuedIds' \/ (tag = "ORDER" /\ x = Head(queue_).order.exchange_id)
  <2>1. PICK i \in DOMAIN queue_ : queue_[i].tag = "ORDER" /\ x = queue_[i].order.exchange_id
    BY DEF QueuedIds
  <2>2. CASE i = 1
    BY <1>1, <1>2, <2>1, <2>2
  <2>3. CASE i # 1
    BY <1>3, <2>1, <2>3
  <2> QED BY <2>2, <2>3
<1> QED BY <1>4

LEMMA ListedMoves ==
    ASSUME NEW s, NEW x, NEW n
    PROVE  /\ StillBooks => ListedIds' = ListedIds
           /\ Indexed(s, Drop(books_[s].order_index_, x)) => ListedIds \subseteq ListedIds' \cup {x}
           /\ Indexed(s, Put(books_[s].order_index_, x, n)) =>
                  ListedIds \subseteq ListedIds' /\ x \in ListedIds'
<1>1. StillBooks => ListedIds' = ListedIds
  BY DEF StillBooks, ListedIds
<1>2. ASSUME Indexed(s, Drop(books_[s].order_index_, x))
      PROVE  ListedIds \subseteq ListedIds' \cup {x}
  <2>1. ASSUME NEW t \in DOMAIN books_, NEW id \in DOMAIN books_[t].order_index_, id # x
        PROVE  t \in DOMAIN books_' /\ id \in DOMAIN books_'[t].order_index_
    BY <1>2, <2>1 DEF Indexed, Drop
  <2> QED BY <2>1 DEF ListedIds
<1>3. ASSUME Indexed(s, Put(books_[s].order_index_, x, n))
      PROVE  ListedIds \subseteq ListedIds' /\ x \in ListedIds'
  <2>1. ASSUME NEW t \in DOMAIN books_, NEW id \in DOMAIN books_[t].order_index_
        PROVE  t \in DOMAIN books_' /\ id \in DOMAIN books_'[t].order_index_
    BY <1>3, <2>1 DEF Indexed, Put
  <2>2. s \in DOMAIN books_' /\ x \in DOMAIN books_'[s].order_index_
    BY <1>3 DEF Indexed, Put
  <2> QED BY <2>1, <2>2 DEF ListedIds
<1> QED BY <1>1, <1>2, <1>3

\* What an engine step has to show for the ids and the final reports.
LEMMA EngineSideCore ==
    ASSUME GInv, IdsOK, FinalsOK, call = NoCall, UNCHANGED << gwvars, order_seq_ >>,
           CallIds' \subseteq LiveIds, CallIds' \cap QueuedIds' = {},
           QueuedIds' \subseteq QueuedIds,
           \A id \in ListedIds \cup QueuedIds \cup MatchingIds : Gone(id) \/ Untold(id)'
    PROVE  IdsOK' /\ FinalsOK'
<1>1. UNCHANGED << order_sessions_, active_orders_, finals, fix >>
  BY DEF gwvars
<1>2. SubmitIds' = SubmitIds /\ SubmitIds \cap LiveIds = {} /\ LiveIds \subseteq 0 .. order_seq_
  BY <1>1 DEF SubmitIds, GInv, FixOK, SubmitOK, IInv, Fresh
<1>3. IdsOK'
  BY <1>1, <1>2 DEF IdsOK
<1>4. ASSUME NEW id \in DOMAIN finals, finals[id] = 0 PROVE Untold(id)'
  <2>1. Untold(id) /\ ~Gone(id)
    BY <1>4 DEF FinalsOK, Gone
  <2>2. CASE id \in ListedIds \cup QueuedIds \cup MatchingIds
    BY <2>1, <2>2
  <2>3. CASE \/ fix.at = "submit" /\ id = fix.order.exchange_id
             \/ Silent(id)
    BY <1>1, <2>3 DEF Untold, Silent
  <2> QED BY <2>1, <2>2, <2>3 DEF Untold, NoCall, MakerLeft, InFill
<1>5. FinalsOK'
  BY <1>1, <1>4 DEF FinalsOK
<1> QED BY <1>3, <1>5

LEMMA EngineSideReports ==
    ASSUME GInv, GInv', rows = << >>, PartiesOK, IdsOK, FinalsOK, UNCHANGED gwvars,
           RunOrder \/ RunCancel \/ RunReplace \/ RunSnapshot \/ MatchFill \/ MatchEnd \/ Exit
    PROVE  IdsOK' /\ FinalsOK'
<1>1. UNCHANGED << maps, finals, fix, phase >>
  BY DEF gwvars, maps
<1>2. ListedIds \cup QueuedIds \cup MatchingIds \subseteq LiveIds
  BY DEF LiveIds
<1>3. IInv /\ OnePlace
  BY DEF GInv, IInv, Fresh
<1>4. \A id : id \in ListedIds' \cup QueuedIds' \cup MatchingIds' => Untold(id)'
  BY DEF Untold
<1>5. CASE RunOrder
  <2>1. PICK o :
        /\ o = Head(queue_).order
        /\ Pop("ORDER") /\ UNCHANGED << books_, order_seq_ >> /\ call = NoCall /\ pc = "run"
        /\ \/ call'.fn = "on_tif_cancel" /\ Alike(call'.order, o)
           \/ call' = NoCall /\ pc' = "match" /\ Alike(cur'.order, o)
    BY <1>5, RunOrderFacts
  <2>2. /\ o.exchange_id \in QueuedIds /\ o.exchange_id \notin QueuedIds'
        /\ QueuedIds' \subseteq QueuedIds /\ QueuedIds \subseteq QueuedIds' \cup {o.exchange_id}
    BY <1>3, <2>1, PopStep, PopKeeps
  <2>3. ListedIds' = ListedIds /\ MatchingIds = {}
    BY <2>1 DEF ListedIds, MatchingIds
  <2>4. CallIds' \subseteq {o.exchange_id}
    BY <2>1 DEF CallIds, NoCall, Alike
  <2>5. Untold(o.exchange_id)'
    BY <2>1 DEF Untold, Alike, MatchingIds
  <2>6. \A id \in ListedIds \cup QueuedIds \cup MatchingIds : Untold(id)'
    BY <1>4, <2>2, <2>3, <2>5
  <2> QED BY <1>2, <2>1, <2>2, <2>4, <2>6, EngineSideCore
<1>6. CASE RunCancel
  <2>1. PICK req, s, id :
        /\ s = req.symbol /\ id = req.orig_order_id
        /\ Pop("CANCEL") /\ order_seq_' = order_seq_ /\ call = NoCall /\ pc = "run"
        /\ \/ call' = NoCall /\ StillBooks
           \/ call'.fn = "on_cancel" /\ call'.found = FALSE /\ StillBooks
           \/ /\ call'.fn = "on_cancel" /\ call'.found = TRUE /\ call'.req = req
              /\ s \in DOMAIN books_ /\ id \in DOMAIN books_[s].order_index_
              /\ Indexed(s, Drop(books_[s].order_index_, id))
    BY <1>6, RunCancelFacts
  <2>2. QueuedIds' = QueuedIds /\ MatchingIds = {}
    <3>1. DOMAIN books_' = DOMAIN books_
      BY <2>1 DEF StillBooks, Indexed
    <3>2. QueuedIds' \subseteq QueuedIds
      BY <1>3, <2>1, <3>1, PopStep
    <3>3. QueuedIds \subseteq QueuedIds'
      BY <1>3, <2>1, PopKeeps
    <3> QED BY <2>1, <3>2, <3>3 DEF MatchingIds
  <2>3. CASE StillBooks /\ CallIds' = {}
    BY <1>4, <2>1, <2>2, <2>3, ListedMoves, EngineSideCore
  <2>4. CASE /\ call'.fn = "on_cancel" /\ call'.found = TRUE /\ call'.req = req
             /\ s \in DOMAIN books_ /\ id \in DOMAIN books_[s].order_index_
             /\ Indexed(s, Drop(books_[s].order_index_, id))
    <3>1. id \in ListedIds /\ CallIds' = {id} /\ Untold(id)'
      BY <2>1, <2>4 DEF ListedIds, CallIds, Untold
    <3>2. ListedIds \subseteq ListedIds' \cup {id}
      BY <2>4, ListedMoves
    <3>3. \A x \in ListedIds \cup QueuedIds \cup MatchingIds : Untold(x)'
      BY <1>4, <2>2, <3>1, <3>2
    <3>4. CallIds' \cap QueuedIds' = {} /\ CallIds' \subseteq LiveIds
      BY <1>2, <1>3, <2>2, <3>1 DEF OnePlace
    <3> QED BY <2>1, <2>2, <3>3, <3>4, EngineSideCore
  <2>5. call' = NoCall \/ (call'.fn = "on_cancel" /\ call'.found = FALSE) => CallIds' = {}
    BY DEF CallIds, NoCall
  <2> QED BY <2>1, <2>3, <2>4, <2>5
<1>7. CASE RunReplace
  <2>1. PICK req, s, id :
        /\ s = req.symbol /\ id = req.orig_order_id
        /\ Pop("REPLACE") /\ order_seq_' = order_seq_ /\ call = NoCall /\ pc = "run"
        /\ \/ call' = NoCall /\ StillBooks
           \/ call'.fn = "on_replace" /\ call'.leaves_qty = -1 /\ StillBooks
           \/ /\ call'.fn = "on_replace" /\ call'.req = req
              /\ s \in DOMAIN books_ /\ id \in DOMAIN books_[s].order_index_
              /\ \E n : Indexed(s, Put(books_[s].order_index_, id, n))
           \/ /\ call' = NoCall /\ pc' = "match" /\ cur'.order.exchange_id = id
              /\ s \in DOMAIN books_ /\ id \in DOMAIN books_[s].order_index_
              /\ Indexed(s, Drop(books_[s].order_index_, id))
    <3>1. \A t, x : t \in DOMAIN books_ /\ x \in DOMAIN books_[t].order_index_ =>
              books_[t].order_index_[x].exchange_id = x
      BY <1>3, EntryFields
    <3> QED BY <1>7, <3>1, RunReplaceFacts, Zenon DEF Alike
  <2>2. QueuedIds' = QueuedIds /\ MatchingIds = {}
    <3>1. DOMAIN books_' = DOMAIN books_
      BY <2>1 DEF StillBooks, Indexed
    <3>2. QueuedIds' \subseteq QueuedIds
      BY <1>3, <2>1, <3>1, PopStep
    <3>3. QueuedIds \subseteq QueuedIds'
      BY <1>3, <2>1, PopKeeps
    <3> QED BY <2>1, <3>2, <3>3 DEF MatchingIds
  <2>3. call'.fn = "on_replace" /\ call'.leaves_qty = -1 => CallIds' = {}
    <3>1. ASSUME call'.fn = "on_replace", call'.leaves_qty = -1 PROVE ~call'.found
      <4>1. call'.found = (call'.leaves_qty >= 0)
        BY <3>1 DEF GInv, CallOK
      <4>2. ~(call'.leaves_qty >= 0)
        BY <3>1
      <4> QED BY <4>1, <4>2
    <3> QED BY <3>1 DEF CallIds
  <2>4. CASE StillBooks /\ CallIds' = {}
    BY <1>4, <2>1, <2>2, <2>4, ListedMoves, EngineSideCore
  <2>5. CASE /\ call'.fn = "on_replace" /\ call'.req = req
             /\ s \in DOMAIN books_ /\ id \in DOMAIN books_[s].order_index_
             /\ \E n : Indexed(s, Put(books_[s].order_index_, id, n))
    <3>1. id \in ListedIds /\ CallIds' \subseteq {id}
      BY <2>1, <2>5 DEF ListedIds, CallIds
    <3>2. ListedIds \subseteq ListedIds'
      BY <2>5, ListedMoves
    <3>3. \A x \in ListedIds \cup QueuedIds \cup MatchingIds : Untold(x)'
      BY <1>4, <2>2, <3>2
    <3>4. CallIds' \cap QueuedIds' = {} /\ CallIds' \subseteq LiveIds
      BY <1>2, <1>3, <2>2, <3>1 DEF OnePlace
    <3> QED BY <2>1, <2>2, <3>3, <3>4, EngineSideCore
  <2>6. CASE /\ call' = NoCall /\ pc' = "match" /\ cur'.order.exchange_id = id
             /\ Indexed(s, Drop(books_[s].order_index_, id))
    <3>1. CallIds' = {} /\ id \in MatchingIds'
      BY <2>6 DEF CallIds, NoCall, MatchingIds
    <3>2. ListedIds \subseteq ListedIds' \cup {id}
      BY <2>6, ListedMoves
    <3>3. \A x \in ListedIds \cup QueuedIds \cup MatchingIds : Untold(x)'
      BY <1>4, <2>2, <3>1, <3>2
    <3> QED BY <2>1, <2>2, <3>1, <3>3, EngineSideCore
  <2>7. call' = NoCall => CallIds' = {}
    BY DEF CallIds, NoCall
  <2> QED BY <2>1, <2>3, <2>4, <2>5, <2>6, <2>7, SMTT(30)
<1>8. CASE MatchFill
  <2>1. PICK o, s, id :
      /\ o = cur.order /\ s = o.symbol
      /\ pc = "match" /\ call = NoCall /\ UNCHANGED << queue_, pc, order_seq_ >>
      /\ s \in DOMAIN books_ /\ Alike(cur'.order, o)
      /\ call'.fn = "on_fill" /\ FillOf(call'.taker, o)
      /\ id \in DOMAIN books_[s].order_index_
      /\ FillOf(call'.maker, books_[s].order_index_[id])
      /\ \/ Indexed(s, Drop(books_[s].order_index_, id))
         \/ \E n : Indexed(s, Put(books_[s].order_index_, id, n))
    BY <1>8, MatchFillFacts
  <2>2. id \in ListedIds /\ call'.maker.exchange_id = id
    BY <1>3, <2>1, EntryFields DEF FillOf
  <2>3. QueuedIds' = QueuedIds /\ MatchingIds' = MatchingIds /\ MatchingIds = {o.exchange_id}
    BY <2>1 DEF QueuedIds, MatchingIds, Alike
  <2>4. CallIds' = {id, o.exchange_id}
    BY <2>1, <2>2 DEF CallIds, FillOf
  <2>5. CallIds' \cap QueuedIds' = {} /\ CallIds' \subseteq LiveIds
    BY <1>2, <1>3, <2>2, <2>3, <2>4 DEF OnePlace
  <2>6. phase' = "begin"
    BY <1>1, <2>1 DEF GInv, PhaseOK, NoCall
  <2>7. Untold(id)'
    BY <2>1, <2>2, <2>6 DEF Untold, MakerLeft, InFill
  <2>8. ListedIds \subseteq ListedIds' \cup {id}
    BY <2>1, ListedMoves
  <2>9. \A x \in ListedIds \cup QueuedIds \cup MatchingIds : Untold(x)'
    BY <1>4, <2>3, <2>7, <2>8
  <2> QED BY <2>1, <2>3, <2>5, <2>9, EngineSideCore
<1>9. CASE MatchEnd
  <2>1. PICK o, s, id :
      /\ o = cur.order /\ s = o.symbol /\ id = o.exchange_id
      /\ pc = "match" /\ call = NoCall /\ pc' = "run" /\ UNCHANGED << queue_, order_seq_ >>
      /\ s \in DOMAIN books_ /\ o \in Order
      /\ IF o.leaves_qty > 0 /\ o.type = "limit" /\ o.tif # "ioc"
         THEN Indexed(s, Put(books_[s].order_index_, o.exchange_id, o))
         ELSE StillBooks
      /\ \/ cur.tag = "REPLACE" /\ call'.fn = "on_replace" /\ call'.req = cur.req
         \/ /\ cur.tag = "ORDER" /\ o.tif = "ioc" /\ o.leaves_qty > 0
            /\ call'.fn = "on_tif_cancel" /\ call'.order = o
         \/ /\ cur.tag = "ORDER" /\ ~(o.tif = "ioc" /\ o.leaves_qty > 0)
            /\ call'.fn \in {"none", "on_order_rested"}
    BY <1>9, MatchEndFacts
  <2>2. /\ ~InFill({"begin", "maker_orders", "taker"}) /\ ~TakerLeft
    BY <2>1 DEF InFill, TakerLeft, NoCall
  <2>3. /\ o.leaves_qty >= 0 /\ o.leaves_qty \in Int
        /\ o.leaves_qty > 0 => id \in DOMAIN active_orders_ /\ SameOrder(o)
        /\ o.leaves_qty = 0 => Gone(id) \/ Silent(id)
        /\ cur.tag = "REPLACE" => /\ o.type = "limit" /\ o.tif # "ioc"
                                  /\ cur.req.orig_order_id = id
    BY <2>1, <2>2 DEF PartiesOK, CurrentOK, Order, Known
  <2>4. QueuedIds' = QueuedIds /\ MatchingIds = {id} /\ CallIds' \subseteq {id}
    BY <2>1, <2>3 DEF QueuedIds, MatchingIds, CallIds
  <2>5. ListedIds \subseteq ListedIds'
    BY <2>1, ListedMoves
  <2>6. Gone(id) \/ Untold(id)'
    <3>1. CASE o.leaves_qty > 0 /\ o.type = "limit" /\ o.tif # "ioc"
      BY <1>4, <2>1, <3>1, ListedMoves
    <3>2. CASE o.leaves_qty > 0 /\ o.type # "limit" /\ o.tif # "ioc"
      <4>1. Silent(id)'
        BY <1>1, <2>1, <2>3, <3>2 DEF Silent, DropsSilently, SameOrder, maps, Order, Types
      <4> QED BY <4>1 DEF Untold
    <3>3. CASE o.leaves_qty > 0 /\ o.tif = "ioc"
      BY <2>1, <2>3, <3>3 DEF Untold
    <3>4. CASE Silent(id)
      BY <1>1, <3>4, MapsKept DEF Untold
    <3> QED BY <2>3, <3>1, <3>2, <3>3, <3>4
  <2>7. \A x \in ListedIds \cup QueuedIds \cup MatchingIds : Gone(x) \/ Untold(x)'
    BY <1>4, <2>4, <2>5, <2>6
  <2>8. CallIds' \cap QueuedIds' = {} /\ CallIds' \subseteq LiveIds
    BY <1>2, <1>3, <2>4 DEF OnePlace
  <2> QED BY <2>1, <2>4, <2>7, <2>8, EngineSideCore
<1>10. CASE RunSnapshot
  <2>1. /\ Pop("SNAPSHOT") /\ UNCHANGED << books_, pc, order_seq_ >> /\ call'.fn = "snapshot_cb"
        /\ call = NoCall /\ pc = "run"
    BY <1>10 DEF RunSnapshot, SnapshotCb, Pop
  <2>2. QueuedIds' = QueuedIds /\ ListedIds' = ListedIds /\ MatchingIds = {} /\ CallIds' = {}
    <3>1. QueuedIds' \subseteq QueuedIds
      BY <1>3, <2>1, PopStep
    <3>2. QueuedIds \subseteq QueuedIds'
      BY <1>3, <2>1, PopKeeps
    <3> QED BY <2>1, <3>1, <3>2 DEF ListedIds, MatchingIds, CallIds
  <2> QED BY <1>4, <2>1, <2>2, EngineSideCore
<1>11. CASE Exit
  <2>1. UNCHANGED << books_, queue_, order_seq_ >> /\ call = NoCall /\ call' = NoCall /\ pc = "run"
    BY <1>11 DEF Exit
  <2>2. QueuedIds' = QueuedIds /\ ListedIds' = ListedIds /\ MatchingIds = {} /\ CallIds' = {}
    BY <2>1 DEF ListedIds, QueuedIds, MatchingIds, CallIds, NoCall
  <2> QED BY <1>4, <2>1, <2>2, EngineSideCore
<1> QED BY <1>5, <1>6, <1>7, <1>8, <1>9, <1>10, <1>11

---------------------------------------------------------------------------
(* Steps of the callbacks: each is about one order                         *)

\* The maps and the final reports of every order but x are as they were.
OnlyAbout(x) ==
    \A y : y # x =>
        /\ y \in DOMAIN active_orders_' <=> y \in DOMAIN active_orders_
        /\ y \in DOMAIN order_sessions_' <=> y \in DOMAIN order_sessions_
        /\ y \in DOMAIN finals' <=> y \in DOMAIN finals
        /\ y \in DOMAIN active_orders_ => active_orders_'[y] = active_orders_[y]
        /\ y \in DOMAIN order_sessions_ => order_sessions_'[y] = order_sessions_[y]
        /\ y \in DOMAIN finals => finals'[y] = finals[y]
        /\ \A c \in DOMAIN clord_to_exchange_ :
               clord_to_exchange_[c] = y =>
                   c \in DOMAIN clord_to_exchange_' /\ clord_to_exchange_'[c] = y

LEMMA OthersKept ==
    ASSUME NEW x, OnlyAbout(x)
    PROVE  /\ \A y, c : y # x /\ Known(y, c) => Known(y, c)'
           /\ \A y : y # x => /\ Ending(y) => Ending(y)'
                              /\ Gone(y) => Gone(y)'
                              /\ Silent(y) => Silent(y)'
           /\ \A o : o.exchange_id # x /\ o.exchange_id \in DOMAIN active_orders_ =>
                         /\ SameOrder(o) => SameOrder(o)'
                         /\ SamePrice(o) => SamePrice(o)'
                         /\ SameLeaves(o) => SameLeaves(o)'
<1>1. ASSUME NEW y, NEW c, y # x, Known(y, c) PROVE Known(y, c)'
  BY <1>1 DEF Known, OnlyAbout
<1>2. ASSUME NEW y, y # x
      PROVE  (Ending(y) => Ending(y)') /\ (Gone(y) => Gone(y)') /\ (Silent(y) => Silent(y)')
  BY <1>2 DEF Ending, Gone, Silent, OnlyAbout
<1>3. ASSUME NEW o, o.exchange_id # x, o.exchange_id \in DOMAIN active_orders_
      PROVE  /\ SameOrder(o) => SameOrder(o)'
             /\ SamePrice(o) => SamePrice(o)'
             /\ SameLeaves(o) => SameLeaves(o)'
  BY <1>3 DEF SameOrder, SamePrice, SameLeaves, OnlyAbout
<1> QED BY <1>1, <1>2, <1>3

\* A step of a callback about the order x leaves the other orders as they were.
LEMMA CallbackFrame ==
    ASSUME GInv, IdsOK, PartiesOK, FinalsOK, NEW x, x \notin QueuedIds \cup SubmitIds,
           OnlyAbout(x),
           UNCHANGED << books_, queue_, order_seq_, rows, pc, cur, fix >>,
           call' = NoCall \/ (call' = call /\ call.fn = "on_fill"),
           DOMAIN active_orders_' \subseteq DOMAIN active_orders_,
           DOMAIN order_sessions_' \subseteq DOMAIN order_sessions_,
           DOMAIN finals' \subseteq DOMAIN finals,
           \A y : Replacing(y) => y = x,
           MakerLeft => call.maker.exchange_id = x,
           call.fn = "on_cancel" /\ call.found => call.req.orig_order_id = x,
           call.fn = "on_tif_cancel" => call.order.exchange_id = x,
           \A s \in DOMAIN books_ : x \in DOMAIN books_[s].order_index_ =>
               \A e : e = books_[s].order_index_[x] => RestingOK(e)',
           pc = "match" =>
               IF cur.order.exchange_id = x THEN CurrentOK'
               ELSE /\ InFill({"begin", "maker_orders", "taker"})' <=>
                           InFill({"begin", "maker_orders", "taker"})
                    /\ InFill({"taker_orders"})' <=> InFill({"taker_orders"})
                    /\ TakerLeft' <=> TakerLeft,
           FillOK',
           x \in DOMAIN finals' => finals'[x] \in {0, 1} /\ (finals'[x] = 0 => Untold(x)')
    PROVE  IdsOK' /\ PartiesOK' /\ FinalsOK'
<1>1. IdsOK'
  <2>1. QueuedIds' = QueuedIds /\ SubmitIds' = SubmitIds /\ CallIds' \subseteq CallIds
    BY DEF QueuedIds, SubmitIds, CallIds, NoCall
  <2> QED BY <2>1 DEF IdsOK
<1>2. ASSUME NEW o, Waiting(o), o.exchange_id # x PROVE Waiting(o)'
  <2>1. /\ Known(o.exchange_id, o.client_id) /\ o.exchange_id \in DOMAIN active_orders_
        /\ SameOrder(o) /\ SamePrice(o) /\ SameLeaves(o) /\ o.leaves_qty = o.qty /\ o.qty >= 0
        /\ o.qty = 0 => Silent(o.exchange_id)
    BY <1>2 DEF Waiting, Known
  <2>2. /\ Known(o.exchange_id, o.client_id)' /\ SameOrder(o)' /\ SamePrice(o)' /\ SameLeaves(o)'
        /\ o.qty = 0 => Silent(o.exchange_id)'
    BY <1>2, <2>1, OthersKept
  <2> QED BY <2>1, <2>2 DEF Waiting
<1>3. WaitingOK'
  <2>1. fix.at = "submit" => fix.order.exchange_id # x
    BY DEF SubmitIds
  <2>2. \A i \in DOMAIN queue_ : queue_[i].tag = "ORDER" => queue_[i].order.exchange_id # x
    BY DEF QueuedIds
  <2>3. ASSUME fix.at = "submit" PROVE Waiting(fix.order)'
    <3>1. \A o : o = fix.order => Waiting(o)'
      BY <1>2, <2>1, <2>3 DEF PartiesOK, WaitingOK
    <3> QED BY <3>1 DEF Waiting
  <2>4. ASSUME NEW i \in DOMAIN queue_, queue_[i].tag = "ORDER" PROVE Waiting(queue_[i].order)'
    <3>1. \A o : o = queue_[i].order => Waiting(o)'
      BY <1>2, <2>2, <2>4 DEF PartiesOK, WaitingOK
    <3> QED BY <3>1 DEF Waiting
  <2> QED BY <2>3, <2>4 DEF PartiesOK, WaitingOK
<1>4. ASSUME NEW e, RestingOK(e), e.exchange_id # x PROVE RestingOK(e)'
  <2>1. /\ e.leaves_qty > 0 /\ e.tif # "ioc" /\ e.exchange_id \in DOMAIN active_orders_
        /\ Known(e.exchange_id, e.client_id) /\ SameOrder(e) /\ SamePrice(e) /\ SameLeaves(e)
    BY <1>4 DEF RestingOK, Known
  <2>2. /\ Known(e.exchange_id, e.client_id)' /\ SameOrder(e)' /\ SamePrice(e)' /\ SameLeaves(e)'
    BY <1>4, <2>1, OthersKept
  <2> QED BY <2>1, <2>2 DEF RestingOK
<1>5. ListedOK'
  <2>1. ASSUME NEW s \in DOMAIN books_, NEW id \in DOMAIN books_[s].order_index_
        PROVE  \A e : e = books_[s].order_index_[id] => RestingOK(e)'
    <3>1. books_[s].order_index_[id].exchange_id = id
      BY EntryFields DEF GInv
    <3>2. RestingOK(books_[s].order_index_[id])
      BY DEF PartiesOK, ListedOK
    <3> QED BY <1>4, <3>1, <3>2
  <2>2. \A s \in DOMAIN books_' : \A id \in DOMAIN books_'[s].order_index_ :
            \A e : e = books_'[s].order_index_[id] => RestingOK(e)'
    BY <2>1
  <2> QED BY <2>2 DEF ListedOK
<1>6. CurrentOK'
  <2>1. ASSUME pc = "match", cur.order.exchange_id # x PROVE CurrentOK'
    <3>1. PICK o, id : o = cur.order /\ id = o.exchange_id /\ id # x /\ o = cur'.order
      BY <2>1
    <3>2. /\ InFill({"begin", "maker_orders", "taker"})' <=>
                 InFill({"begin", "maker_orders", "taker"})
          /\ InFill({"taker_orders"})' <=> InFill({"taker_orders"})
          /\ TakerLeft' <=> TakerLeft
      BY <2>1
    <3>3. /\ o.leaves_qty >= 0
          /\ o.leaves_qty > 0 \/ InFill({"begin", "maker_orders", "taker"})
                 => Known(id, o.client_id)
          /\ o.leaves_qty = 0 /\ InFill({"taker_orders"}) => Ending(id)
          /\ o.leaves_qty = 0 /\ ~TakerLeft => Gone(id) \/ (cur.tag = "ORDER" /\ Silent(id))
          /\ id \in DOMAIN active_orders_ => SameOrder(o)
          /\ cur.tag = "ORDER" /\ id \in DOMAIN active_orders_ => SamePrice(o)
          /\ cur.tag = "ORDER" /\ o.leaves_qty > 0 /\ ~TakerLeft => SameLeaves(o)
          /\ cur.tag = "REPLACE" => /\ o.type = "limit" /\ o.tif # "ioc"
                                    /\ cur.req.orig_order_id = id
                                    /\ cur.req.new_price = o.price
      BY <2>1, <3>1 DEF PartiesOK, CurrentOK
    <3>4. id \in DOMAIN active_orders_' => id \in DOMAIN active_orders_
      OBVIOUS
    <3>5. /\ o.leaves_qty > 0 \/ InFill({"begin", "maker_orders", "taker"})'
                 => Known(id, o.client_id)'
          /\ o.leaves_qty = 0 /\ InFill({"taker_orders"})' => Ending(id)'
          /\ o.leaves_qty = 0 /\ ~TakerLeft' => Gone(id)' \/ (cur.tag = "ORDER" /\ Silent(id)')
      BY <3>1, <3>2, <3>3, OthersKept
    <3>6. /\ id \in DOMAIN active_orders_' => SameOrder(o)'
          /\ cur.tag = "ORDER" /\ id \in DOMAIN active_orders_' => SamePrice(o)'
      BY <3>1, <3>3, <3>4, OthersKept
    <3>7. cur.tag = "ORDER" /\ o.leaves_qty > 0 /\ ~TakerLeft' => SameLeaves(o)'
      <4>1. o.leaves_qty > 0 => id \in DOMAIN active_orders_
        BY <3>3 DEF Known
      <4> QED BY <3>1, <3>2, <3>3, <4>1, OthersKept
    <3>8. /\ id \in DOMAIN active_orders_' => SameOrder(cur.order)'
          /\ cur.tag = "ORDER" /\ id \in DOMAIN active_orders_' => SamePrice(cur.order)'
          /\ cur.tag = "ORDER" /\ o.leaves_qty > 0 /\ ~TakerLeft' => SameLeaves(cur.order)'
      BY <3>1, <3>6, <3>7 DEF SameOrder, SamePrice, SameLeaves
    <3> QED BY <3>1, <3>3, <3>5, <3>8 DEF CurrentOK
  <2>2. ASSUME pc # "match" PROVE CurrentOK'
    BY <2>2 DEF CurrentOK
  <2> QED BY <2>1, <2>2
<1>7. CallbackOK'
  BY DEF CallbackOK, NoCall
<1>8. FinalsOK'
  <2>1. ASSUME NEW id \in DOMAIN finals', id # x
        PROVE  finals'[id] \in {0, 1} /\ (finals'[id] = 0 => Untold(id)')
    <3>1. id \in DOMAIN finals /\ finals'[id] = finals[id]
          /\ (id \in DOMAIN active_orders_ =>
                  id \in DOMAIN active_orders_' /\ active_orders_'[id] = active_orders_[id])
      BY <2>1 DEF OnlyAbout
    <3>2. ListedIds' = ListedIds /\ QueuedIds' = QueuedIds /\ MatchingIds' = MatchingIds
      BY DEF ListedIds, QueuedIds, MatchingIds
    <3>3. Untold(id) => Untold(id)'
      BY <2>1, <3>1, <3>2 DEF Untold, Silent
    <3> QED BY <3>1, <3>3 DEF FinalsOK
  <2> QED BY <2>1 DEF FinalsOK
<1> QED BY <1>1, <1>3, <1>5, <1>6, <1>7, <1>8 DEF PartiesOK

\* Nothing is about the order -1: a callback's step that leaves the maps alone.
LEMMA QuietCallback ==
    ASSUME GInv, IdsOK, PartiesOK, FinalsOK, UNCHANGED << maps, finals >>,
           UNCHANGED << books_, queue_, order_seq_, rows, pc, cur, fix >>,
           call' = NoCall \/ (call' = call /\ call.fn = "on_fill"),
           \A y : ~Replacing(y),
           ~TakerLeft, ~TakerLeft', call.fn # "on_tif_cancel",
           ~(call.fn = "on_cancel" /\ call.found),
           FillOK'
    PROVE  IdsOK' /\ PartiesOK' /\ FinalsOK'
<1>1. /\ -1 \notin QueuedIds \cup SubmitIds \cup DOMAIN finals \cup ListedIds \cup MatchingIds
  <2>1. order_seq_ \in Nat /\ LiveIds \subseteq 0 .. order_seq_
    BY DEF GInv, IInv, TypeOK, Fresh
  <2>2. SubmitIds \subseteq 0 .. order_seq_ /\ DOMAIN finals \subseteq 0 .. order_seq_
    BY <2>1 DEF SubmitIds, GInv, FixOK, SubmitOK, IdsOK
  <2>3. -1 \notin 0 .. order_seq_
    BY <2>1
  <2> QED BY <2>1, <2>2, <2>3 DEF LiveIds
<1>2. OnlyAbout(-1)
  BY DEF OnlyAbout, maps
<1>3. \A s \in DOMAIN books_ : -1 \notin DOMAIN books_[s].order_index_
  BY <1>1 DEF ListedIds
<1>4. pc = "match" => cur.order.exchange_id # -1
  BY <1>1 DEF MatchingIds
<1>5. /\ ~InFill({"begin", "maker_orders", "taker"}) /\ ~InFill({"begin", "maker_orders", "taker"})'
      /\ ~InFill({"taker_orders"}) /\ ~InFill({"taker_orders"})' /\ ~MakerLeft
  BY DEF InFill, TakerLeft, MakerLeft
<1> QED BY <1>1, <1>2, <1>3, <1>4, <1>5, CallbackFrame DEF maps

\* The two parties of a fill under way.
LEMMA FillSubjects ==
    ASSUME GInv, IdsOK, PartiesOK, call.fn = "on_fill"
    PROVE  /\ call.maker.exchange_id \notin QueuedIds \cup SubmitIds
           /\ call.taker.exchange_id \notin QueuedIds \cup SubmitIds
           /\ call.maker.leaves_qty \in Int /\ call.taker.leaves_qty \in Int
           /\ call.maker.leaves_qty >= 0 /\ call.taker.leaves_qty >= 0
           /\ pc = "match" /\ call.taker.exchange_id = cur.order.exchange_id
           /\ call.taker.leaves_qty = cur.order.leaves_qty
           /\ call.taker.client_id = cur.order.client_id
           /\ call.maker.exchange_id # cur.order.exchange_id
           /\ cur.order.exchange_id \in MatchingIds /\ cur.order.exchange_id \notin ListedIds
           /\ \A y : ~Replacing(y)
<1>1. {call.maker.exchange_id, call.taker.exchange_id} \subseteq CallIds
  BY DEF CallIds
<1>2. /\ pc = "match" /\ call.taker.exchange_id = cur.order.exchange_id
      /\ call.taker.leaves_qty = cur.order.leaves_qty
      /\ call.taker.client_id = cur.order.client_id
      /\ call.maker.exchange_id # cur.order.exchange_id /\ call.maker.leaves_qty >= 0
  BY DEF PartiesOK, FillOK
<1>3. cur.order.leaves_qty >= 0
  BY <1>2 DEF PartiesOK, CurrentOK
<1>4. cur.order.exchange_id \in MatchingIds /\ cur.order.exchange_id \notin ListedIds
  BY <1>2 DEF MatchingIds, GInv, IInv, Fresh, OnePlace
<1>5. call.maker.leaves_qty \in Int /\ call.taker.leaves_qty \in Int
  BY FillFields DEF GInv, CallOK
<1> QED BY <1>1, <1>2, <1>3, <1>4, <1>5 DEF IdsOK, Replacing

\* ... when only the maps have changed.
LEMMA FillFrame ==
    ASSUME FillOK, call.fn = "on_fill", UNCHANGED << books_, queue_, rows, pc, cur, call >>,
           call.maker.leaves_qty = 0 =>
               /\ phase' = "begin" => Known(call.maker.exchange_id, call.maker.client_id)'
               /\ phase' = "maker_orders" => Ending(call.maker.exchange_id)'
               /\ ~MakerLeft' => Gone(call.maker.exchange_id)'
    PROVE  FillOK'
<1>1. LiveIds' = LiveIds
  BY DEF LiveIds, ListedIds, QueuedIds, MatchingIds, UnrestoredIds
<1> QED BY <1>1 DEF FillOK

\* Only the order that owns a ClOrdID is found under it.
LEMMA OwnerFound ==
    ASSUME NEW w, MapOwners(w), NEW c, NEW x, Owns(w, c, x)
    PROVE  \A d \in DOMAIN clord_to_exchange_ :
               /\ clord_to_exchange_[d] # x => d # c
               /\ d = c => clord_to_exchange_[d] = x
  BY DEF MapOwners, Owns

\* The routing section of send_fill: an order filled to the end loses its session.
LEMMA RouteAbout ==
    ASSUME NEW w, MapOwners(w), NEW fill, OwnsOrder(w, fill), NEW ph, NEW next, NEW skip,
           SendFillRoute(fill, ph, next, skip), fill.exchange_id \in DOMAIN order_sessions_
    PROVE  /\ OnlyAbout(fill.exchange_id) /\ phase' = next
           /\ DOMAIN order_sessions_' \subseteq DOMAIN order_sessions_
           /\ UNCHANGED << vars, active_orders_, finals, fix >>
           /\ fill.leaves_qty # 0 => UNCHANGED << maps, finals >>
<1>1. /\ phase' = next /\ UNCHANGED << vars, active_orders_, finals, fix >>
      /\ IF fill.leaves_qty = 0
         THEN /\ order_sessions_' = Drop(order_sessions_, fill.exchange_id)
              /\ clord_to_exchange_' = Drop(clord_to_exchange_, fill.clord_id)
         ELSE UNCHANGED << order_sessions_, clord_to_exchange_ >>
  BY DEF SendFillRoute
<1>2. \A d \in DOMAIN clord_to_exchange_ :
          clord_to_exchange_[d] # fill.exchange_id => d # fill.clord_id
  BY OwnerFound DEF OwnsOrder
<1>3. OnlyAbout(fill.exchange_id)
  <2>1. CASE fill.leaves_qty = 0
    BY <1>1, <1>2, <2>1, DropFields DEF OnlyAbout
  <2>2. CASE fill.leaves_qty # 0
    BY <1>1, <2>2 DEF OnlyAbout
  <2> QED BY <2>1, <2>2
<1> QED BY <1>1, <1>3, DropFields DEF maps

\* The orders section of send_fill: the copy is erased, or its open quantity reduced.
LEMMA ReportAbout ==
    ASSUME NEW fill, NEW ph, NEW next, SendFillReport(fill, ph, next),
           \A id \in DOMAIN active_orders_ : active_orders_[id] \in Order,
           fill.exchange_id \in DOMAIN active_orders_, fill.exchange_id \in DOMAIN finals,
           finals[fill.exchange_id] = 0, fill.leaves_qty \in Int
    PROVE  LET x == fill.exchange_id
           IN  /\ OnlyAbout(x) /\ phase' = next
               /\ DOMAIN active_orders_' \subseteq DOMAIN active_orders_
               /\ DOMAIN finals' = DOMAIN finals
               /\ UNCHANGED << vars, order_sessions_, clord_to_exchange_, fix >>
               /\ fill.leaves_qty = 0 => x \notin DOMAIN active_orders_' /\ finals'[x] = 1
               /\ fill.leaves_qty # 0 =>
                      /\ UNCHANGED finals /\ x \in DOMAIN active_orders_'
                      /\ Alike(active_orders_'[x], active_orders_[x])
                      /\ active_orders_'[x].price = active_orders_[x].price
                      /\ active_orders_'[x].leaves_qty = fill.leaves_qty
<1> DEFINE x == fill.exchange_id
<1>1. /\ phase' = next /\ UNCHANGED << vars, order_sessions_, clord_to_exchange_, fix >>
      /\ IF fill.leaves_qty = 0
         THEN active_orders_' = Drop(active_orders_, x) /\ finals' = [finals EXCEPT ![x] = @ + 1]
         ELSE /\ active_orders_' = [active_orders_ EXCEPT ![x].leaves_qty = fill.leaves_qty]
              /\ UNCHANGED finals
  BY DEF SendFillReport, Told
<1> HIDE DEF x
<1>2. CASE fill.leaves_qty = 0
  <2>1. active_orders_' = Drop(active_orders_, x) /\ finals' = [finals EXCEPT ![x] = 1]
    BY <1>1, <1>2 DEF x
  <2>2. OnlyAbout(x)
    BY <1>1, <2>1, DropFields DEF OnlyAbout
  <2> QED BY <1>1, <1>2, <2>1, <2>2, DropFields DEF x
<1>3. CASE fill.leaves_qty # 0
  <2>1. /\ active_orders_' = [active_orders_ EXCEPT ![x].leaves_qty = fill.leaves_qty]
        /\ finals' = finals
    BY <1>1, <1>3
  <2>2. OnlyAbout(x)
    BY <1>1, <2>1 DEF OnlyAbout
  <2>3. /\ x \in DOMAIN active_orders_' /\ DOMAIN active_orders_' = DOMAIN active_orders_
        /\ active_orders_'[x] = [active_orders_[x] EXCEPT !.leaves_qty = fill.leaves_qty]
    BY <2>1 DEF x
  <2>4. /\ Alike(active_orders_'[x], active_orders_[x])
        /\ active_orders_'[x].price = active_orders_[x].price
        /\ active_orders_'[x].leaves_qty = fill.leaves_qty
    BY <2>3, SMTT(30) DEF Alike, Order, x
  <2> QED BY <1>1, <1>3, <2>1, <2>2, <2>3, <2>4 DEF x
<1> QED BY <1>2, <1>3

\* The maker that is still open rests, and the gateway knows it.
LEMMA MakerEntry ==
    ASSUME GInv, PartiesOK, call.fn = "on_fill", call.maker.leaves_qty > 0
    PROVE  \E s \in DOMAIN books_ :
               LET x == call.maker.exchange_id
                   e == books_[s].order_index_[x]
               IN  /\ x \in DOMAIN books_[s].order_index_ /\ x \in ListedIds
                   /\ e.exchange_id = x /\ e.leaves_qty = call.maker.leaves_qty
                   /\ Known(x, call.maker.client_id) /\ RestingOK(e) /\ SameOrder(e) /\ SamePrice(e)
<1> DEFINE x == call.maker.exchange_id
<1>1. PICK s \in DOMAIN books_ :
          /\ x \in DOMAIN books_[s].order_index_
          /\ books_[s].order_index_[x].leaves_qty = call.maker.leaves_qty
          /\ books_[s].order_index_[x].client_id = call.maker.client_id
  BY DEF PartiesOK, FillOK
<1>2. books_[s].order_index_[x].exchange_id = x /\ x \in ListedIds
  BY <1>1, EntryFields DEF GInv
<1>3. RestingOK(books_[s].order_index_[x]) /\ ~Replacing(x)
  BY <1>1 DEF PartiesOK, ListedOK, Replacing
<1> QED BY <1>1, <1>2, <1>3 DEF RestingOK

LEMMA MakerRoute ==
    ASSUME GInv, IdsOK, ClaimsOK, PartiesOK, FinalsOK,
           SendFillRoute(call.maker, "begin", "maker_orders", "taker")
    PROVE  IdsOK' /\ PartiesOK' /\ FinalsOK'
<1>1. call.fn = "on_fill" /\ phase = "begin" /\ MakerLeft
  BY DEF SendFillRoute, InCallback, MakerLeft, InFill
<1>2. PICK w : MapOwners(w) /\ OwnsOrder(w, call.maker)
  BY <1>1 DEF ClaimsOK, OwnersOK, CallOwners
<1>3. PICK m, x : m = call.maker /\ x = m.exchange_id
  OBVIOUS
<1>4. Known(x, m.client_id)
  <2>1. CASE m.leaves_qty = 0
    BY <1>1, <1>3, <2>1 DEF PartiesOK, FillOK
  <2>2. CASE m.leaves_qty # 0
    <3>1. call.maker.leaves_qty > 0
      BY <1>1, <1>3, <2>2, FillSubjects
    <3> QED BY <1>1, <1>3, <3>1, MakerEntry
  <2> QED BY <2>1, <2>2
<1>5. /\ OnlyAbout(x) /\ phase' = "maker_orders"
      /\ DOMAIN order_sessions_' \subseteq DOMAIN order_sessions_
      /\ UNCHANGED << vars, active_orders_, finals, fix >>
      /\ m.leaves_qty # 0 => UNCHANGED << maps, finals >>
  BY <1>2, <1>3, <1>4, RouteAbout DEF Known
<1>6. /\ UNCHANGED << books_, queue_, order_seq_, rows, pc, cur, call >> /\ MakerLeft'
      /\ InFill({"begin", "maker_orders", "taker"})' /\ InFill({"begin", "maker_orders", "taker"})
      /\ ~InFill({"taker_orders"}) /\ ~InFill({"taker_orders"})' /\ TakerLeft /\ TakerLeft'
  BY <1>1, <1>5 DEF vars, MakerLeft, InFill, TakerLeft
<1>7. Ending(x)' /\ finals'[x] = 0
  BY <1>4, <1>5 DEF Known, Ending
<1>8. FillOK'
  <2>1. phase' # "begin" /\ MakerLeft'
    BY <1>5, <1>6
  <2> QED BY <1>1, <1>3, <1>6, <1>7, <2>1, FillFrame DEF PartiesOK
<1>9. Untold(x)'
  BY <1>3, <1>6 DEF Untold
<1>10. ASSUME NEW s \in DOMAIN books_, x \in DOMAIN books_[s].order_index_,
              NEW e, e = books_[s].order_index_[x]
       PROVE  RestingOK(e)'
  <2>1. m.leaves_qty # 0
    <3>1. x \in LiveIds
      BY <1>10 DEF LiveIds, ListedIds
    <3> QED BY <1>1, <1>3, <3>1 DEF PartiesOK, FillOK
  <2>2. UNCHANGED << maps, finals, call >> /\ MakerLeft' /\ RestingOK(e)
    BY <1>5, <1>6, <1>10, <2>1 DEF PartiesOK, ListedOK
  <2>3. /\ e.leaves_qty > 0 /\ e.tif # "ioc" /\ e.exchange_id = x
        /\ Known(e.exchange_id, e.client_id) /\ SameOrder(e) /\ SamePrice(e)
    BY <1>1, <1>10, <2>2, EntryFields DEF RestingOK, Replacing, GInv
  <2>4. Known(e.exchange_id, e.client_id)' /\ SameOrder(e)' /\ SamePrice(e)'
    BY <2>2, <2>3, MapsKept
  <2> QED BY <1>3, <2>2, <2>3, <2>4 DEF RestingOK
<1>11. /\ x \notin QueuedIds \cup SubmitIds /\ cur.order.exchange_id # x /\ \A y : ~Replacing(y)
  BY <1>1, <1>3, FillSubjects
<1>12. /\ call.fn # "on_cancel" /\ call.fn # "on_tif_cancel"
  BY <1>1
<1> QED BY <1>1, <1>3, <1>5, <1>6, <1>7, <1>8, <1>9, <1>10, <1>11, <1>12, CallbackFrame

LEMMA MakerReport ==
    ASSUME GInv, IdsOK, PartiesOK, FinalsOK,
           SendFillReport(call.maker, "maker_orders", "taker")
    PROVE  IdsOK' /\ PartiesOK' /\ FinalsOK'
<1>1. call.fn = "on_fill" /\ phase = "maker_orders" /\ MakerLeft
  BY DEF SendFillReport, InCallback, MakerLeft, InFill
<1>2. PICK m, x : m = call.maker /\ x = m.exchange_id
  OBVIOUS
<1>3. m.leaves_qty \in Int /\ m.leaves_qty >= 0 /\ cur.order.exchange_id # x
      /\ x \notin QueuedIds \cup SubmitIds /\ \A y : ~Replacing(y)
  BY <1>1, <1>2, FillSubjects
<1>4. /\ m.leaves_qty = 0 => Ending(x)
      /\ m.leaves_qty # 0 => Known(x, m.client_id) /\ x \in ListedIds
  <2>1. CASE m.leaves_qty = 0
    BY <1>1, <1>2, <2>1 DEF PartiesOK, FillOK
  <2>2. CASE m.leaves_qty # 0
    <3>1. call.maker.leaves_qty > 0
      BY <1>2, <1>3, <2>2
    <3> QED BY <1>1, <1>2, <2>2, <3>1, MakerEntry
  <2> QED BY <2>1, <2>2
<1>5. /\ OnlyAbout(x) /\ phase' = "taker"
      /\ DOMAIN active_orders_' \subseteq DOMAIN active_orders_
      /\ DOMAIN finals' = DOMAIN finals
      /\ UNCHANGED << vars, order_sessions_, clord_to_exchange_, fix >>
      /\ m.leaves_qty = 0 => x \notin DOMAIN active_orders_' /\ finals'[x] = 1
      /\ m.leaves_qty # 0 =>
             /\ UNCHANGED finals /\ x \in DOMAIN active_orders_'
             /\ Alike(active_orders_'[x], active_orders_[x])
             /\ active_orders_'[x].price = active_orders_[x].price
             /\ active_orders_'[x].leaves_qty = m.leaves_qty
  <2>1. x \in DOMAIN active_orders_ /\ x \in DOMAIN finals /\ finals[x] = 0
    BY <1>4 DEF Ending, Known
  <2>2. \A id \in DOMAIN active_orders_ : active_orders_[id] \in Order
    BY DEF GInv, MapsOK
  <2> QED BY <1>2, <1>3, <2>1, <2>2, ReportAbout
<1>6. /\ UNCHANGED << books_, queue_, order_seq_, rows, pc, cur, call >> /\ ~MakerLeft'
      /\ InFill({"begin", "maker_orders", "taker"})' /\ InFill({"begin", "maker_orders", "taker"})
      /\ ~InFill({"taker_orders"}) /\ ~InFill({"taker_orders"})' /\ TakerLeft /\ TakerLeft'
  BY <1>1, <1>5 DEF vars, MakerLeft, InFill, TakerLeft
<1>7. FillOK'
  <2>1. m.leaves_qty = 0 => Gone(x)'
    BY <1>4, <1>5 DEF Ending, Gone
  <2> QED BY <1>1, <1>2, <1>5, <1>6, <2>1, FillFrame DEF PartiesOK
<1>8. finals'[x] \in {0, 1} /\ (finals'[x] = 0 => Untold(x)')
  <2>1. CASE m.leaves_qty = 0
    BY <1>5, <2>1
  <2>2. CASE m.leaves_qty # 0
    <3>1. x \in ListedIds' /\ finals'[x] = 0
      BY <1>4, <1>5, <1>6, <2>2 DEF Known, ListedIds
    <3> QED BY <3>1 DEF Untold
  <2> QED BY <2>1, <2>2
<1>9. ASSUME NEW s \in DOMAIN books_, x \in DOMAIN books_[s].order_index_,
             NEW e, e = books_[s].order_index_[x]
      PROVE  RestingOK(e)'
  <2>1. m.leaves_qty # 0
    <3>1. x \in LiveIds
      BY <1>9 DEF LiveIds, ListedIds
    <3> QED BY <1>1, <1>2, <3>1 DEF PartiesOK, FillOK
  <2>2. e.leaves_qty = m.leaves_qty /\ SameOrder(e) /\ SamePrice(e)
    <3>1. call.maker.leaves_qty > 0
      BY <1>2, <1>3, <2>1
    <3>2. PICK t \in DOMAIN books_ :
              /\ x \in DOMAIN books_[t].order_index_
              /\ books_[t].order_index_[x].leaves_qty = m.leaves_qty
              /\ SameOrder(books_[t].order_index_[x]) /\ SamePrice(books_[t].order_index_[x])
      BY <1>1, <1>2, <3>1, MakerEntry
    <3>3. s = t
      BY <1>9, <3>2, EntryUnique DEF GInv
    <3> QED BY <1>9, <3>2, <3>3
  <2>3. /\ e.leaves_qty > 0 /\ e.tif # "ioc" /\ e.exchange_id = x
        /\ Known(x, e.client_id)
    BY <1>9, EntryFields DEF PartiesOK, ListedOK, RestingOK, GInv
  <2>4. SameOrder(e)' /\ SamePrice(e)' /\ SameLeaves(e)'
    BY <1>5, <2>1, <2>2, <2>3 DEF SameOrder, SamePrice, SameLeaves, Alike
  <2>5. Known(x, e.client_id)'
    BY <1>5, <2>1, <2>3 DEF Known, Alike
  <2> QED BY <2>3, <2>4, <2>5 DEF RestingOK
<1>10. /\ call.fn # "on_cancel" /\ call.fn # "on_tif_cancel"
  BY <1>1
<1> QED BY <1>1, <1>2, <1>3, <1>5, <1>6, <1>7, <1>8, <1>9, <1>10, CallbackFrame

LEMMA TakerRoute ==
    ASSUME GInv, IdsOK, ClaimsOK, PartiesOK, FinalsOK,
           SendFillRoute(call.taker, "taker", "taker_orders", "trade")
    PROVE  IdsOK' /\ PartiesOK' /\ FinalsOK'
<1>1. call.fn = "on_fill" /\ phase = "taker" /\ ~MakerLeft /\ TakerLeft
      /\ InFill({"begin", "maker_orders", "taker"})
  BY DEF SendFillRoute, InCallback, MakerLeft, TakerLeft, InFill
<1>2. PICK w : MapOwners(w) /\ OwnsOrder(w, call.taker)
  BY <1>1 DEF ClaimsOK, OwnersOK, CallOwners
<1>3. PICK o, x : /\ o = cur.order /\ x = o.exchange_id /\ x = call.taker.exchange_id
                  /\ o.leaves_qty = call.taker.leaves_qty /\ o.leaves_qty >= 0
                  /\ o.leaves_qty \in Int
                  /\ x \notin QueuedIds \cup SubmitIds /\ x \notin ListedIds /\ x \in MatchingIds
                  /\ call.maker.exchange_id # x /\ pc = "match" /\ \A y : ~Replacing(y)
  BY <1>1, FillSubjects
<1>4. /\ Known(x, o.client_id) /\ SameOrder(o) /\ (cur.tag = "ORDER" => SamePrice(o))
      /\ cur.tag = "REPLACE" => /\ o.type = "limit" /\ o.tif # "ioc"
                                /\ cur.req.orig_order_id = x
                                /\ cur.req.new_price = o.price
  <2>1. Known(x, o.client_id)
    BY <1>1, <1>3 DEF PartiesOK, CurrentOK
  <2> QED BY <1>3, <2>1 DEF PartiesOK, CurrentOK, Known
<1>5. /\ OnlyAbout(x) /\ phase' = "taker_orders"
      /\ DOMAIN order_sessions_' \subseteq DOMAIN order_sessions_
      /\ UNCHANGED << vars, active_orders_, finals, fix >>
      /\ o.leaves_qty # 0 => UNCHANGED << maps, finals >>
  BY <1>2, <1>3, <1>4, RouteAbout DEF Known
<1>6. /\ UNCHANGED << books_, queue_, order_seq_, rows, pc, cur, call >> /\ ~MakerLeft'
      /\ ~InFill({"begin", "maker_orders", "taker"})' /\ TakerLeft'
  BY <1>1, <1>5 DEF vars, MakerLeft, InFill, TakerLeft
<1>7. CurrentOK'
  <2>1. Ending(x)' /\ (o.leaves_qty > 0 => Known(x, o.client_id)')
    BY <1>4, <1>5, MapsKept DEF Known, Ending
  <2>2. SameOrder(cur.order)' /\ (cur.tag = "ORDER" => SamePrice(cur.order)')
    BY <1>3, <1>4, <1>5, <1>6 DEF SameOrder, SamePrice
  <2> QED BY <1>3, <1>4, <1>6, <2>1, <2>2 DEF CurrentOK
<1>8. FillOK'
  <2>1. call.maker.leaves_qty = 0 => Gone(call.maker.exchange_id)
    BY <1>1 DEF PartiesOK, FillOK
  <2>2. \A y : y # x /\ Gone(y) => Gone(y)'
    BY <1>5, OthersKept
  <2>3. call.maker.leaves_qty = 0 => Gone(call.maker.exchange_id)'
    <3>1. \A y : y = call.maker.exchange_id /\ call.maker.leaves_qty = 0 => Gone(y)'
      BY <1>3, <2>1, <2>2
    <3> QED BY <1>6, <3>1 DEF Gone
  <2> QED BY <1>1, <1>5, <1>6, <2>3, FillFrame DEF PartiesOK
<1>9. finals'[x] = 0 /\ Untold(x)'
  <2>1. x \in MatchingIds'
    BY <1>3, <1>6 DEF MatchingIds
  <2> QED BY <1>4, <1>5, <2>1 DEF Known, Untold
<1>10. \A s \in DOMAIN books_ : x \notin DOMAIN books_[s].order_index_
  BY <1>3 DEF ListedIds
<1>11. /\ call.fn # "on_cancel" /\ call.fn # "on_tif_cancel"
  BY <1>1
<1> QED BY <1>1, <1>3, <1>5, <1>6, <1>7, <1>8, <1>9, <1>10, <1>11, CallbackFrame

LEMMA TakerReport ==
    ASSUME GInv, IdsOK, PartiesOK, FinalsOK,
           SendFillReport(call.taker, "taker_orders", "trade")
    PROVE  IdsOK' /\ PartiesOK' /\ FinalsOK'
<1>1. call.fn = "on_fill" /\ phase = "taker_orders" /\ ~MakerLeft /\ TakerLeft
      /\ InFill({"taker_orders"})
  BY DEF SendFillReport, InCallback, MakerLeft, TakerLeft, InFill
<1>2. PICK o, x : /\ o = cur.order /\ x = o.exchange_id /\ x = call.taker.exchange_id
                  /\ o.leaves_qty = call.taker.leaves_qty /\ o.leaves_qty >= 0
                  /\ o.leaves_qty \in Int
                  /\ x \notin QueuedIds \cup SubmitIds /\ x \notin ListedIds /\ x \in MatchingIds
                  /\ call.maker.exchange_id # x /\ pc = "match" /\ \A y : ~Replacing(y)
  BY <1>1, FillSubjects
<1>3. /\ o.leaves_qty = 0 => Ending(x)
      /\ o.leaves_qty > 0 => Known(x, o.client_id)
      /\ cur.tag = "REPLACE" => /\ o.type = "limit" /\ o.tif # "ioc"
                                /\ cur.req.orig_order_id = x
                                /\ cur.req.new_price = o.price
  BY <1>1, <1>2 DEF PartiesOK, CurrentOK
<1>4. x \in DOMAIN active_orders_ /\ x \in DOMAIN finals /\ finals[x] = 0
  BY <1>2, <1>3 DEF Ending, Known
<1>5. SameOrder(o) /\ (cur.tag = "ORDER" => SamePrice(o))
  BY <1>2, <1>4 DEF PartiesOK, CurrentOK
<1>6. /\ OnlyAbout(x) /\ phase' = "trade"
      /\ DOMAIN active_orders_' \subseteq DOMAIN active_orders_
      /\ DOMAIN finals' = DOMAIN finals
      /\ UNCHANGED << vars, order_sessions_, clord_to_exchange_, fix >>
      /\ o.leaves_qty = 0 => x \notin DOMAIN active_orders_' /\ finals'[x] = 1
      /\ o.leaves_qty # 0 =>
             /\ UNCHANGED finals /\ x \in DOMAIN active_orders_'
             /\ Alike(active_orders_'[x], active_orders_[x])
             /\ active_orders_'[x].price = active_orders_[x].price
             /\ active_orders_'[x].leaves_qty = o.leaves_qty
  <2>1. \A id \in DOMAIN active_orders_ : active_orders_[id] \in Order
    BY DEF GInv, MapsOK
  <2> QED BY <1>2, <1>4, <2>1, ReportAbout
<1>7. /\ UNCHANGED << books_, queue_, order_seq_, rows, pc, cur, call >> /\ ~MakerLeft'
      /\ ~InFill({"begin", "maker_orders", "taker"})' /\ ~TakerLeft' /\ ~InFill({"taker_orders"})'
  BY <1>1, <1>6 DEF vars, MakerLeft, InFill, TakerLeft
<1>8. CurrentOK'
  <2>0. /\ cur'.order.leaves_qty = o.leaves_qty /\ cur'.order.exchange_id = x
        /\ cur'.order.client_id = o.client_id /\ cur'.tag = cur.tag
        /\ cur'.tag = "REPLACE" => /\ cur'.order.type = "limit" /\ cur'.order.tif # "ioc"
                                   /\ cur'.req.orig_order_id = x
                                   /\ cur'.req.new_price = cur'.order.price
    BY <1>2, <1>3, <1>7
  <2>1. CASE o.leaves_qty = 0
    <3>1. Gone(x)' /\ x \notin DOMAIN active_orders_'
      BY <1>4, <1>6, <2>1 DEF Gone
    <3> QED BY <1>7, <2>0, <2>1, <3>1 DEF CurrentOK
  <2>2. CASE o.leaves_qty # 0
    <3>1. o.leaves_qty > 0 /\ Known(x, o.client_id)
      BY <1>2, <1>3, <2>2
    <3>2. Known(x, o.client_id)'
      BY <1>6, <2>2, <3>1 DEF Known, Alike
    <3>3. SameOrder(cur.order)' /\ (cur.tag = "ORDER" => SamePrice(cur.order)')
          /\ SameLeaves(cur.order)'
      BY <1>2, <1>5, <1>6, <1>7, <2>2 DEF SameOrder, SamePrice, SameLeaves, Alike
    <3> QED BY <1>2, <1>7, <2>0, <3>1, <3>2, <3>3 DEF CurrentOK
  <2> QED BY <2>1, <2>2
<1>9. FillOK'
  <2>1. call.maker.leaves_qty = 0 => Gone(call.maker.exchange_id)
    BY <1>1 DEF PartiesOK, FillOK
  <2>2. \A y : y # x /\ Gone(y) => Gone(y)'
    BY <1>6, OthersKept
  <2>3. call.maker.leaves_qty = 0 => Gone(call.maker.exchange_id)'
    <3>1. \A y : y = call.maker.exchange_id /\ call.maker.leaves_qty = 0 => Gone(y)'
      BY <1>2, <2>1, <2>2
    <3> QED BY <1>7, <3>1 DEF Gone
  <2> QED BY <1>1, <1>6, <1>7, <2>3, FillFrame DEF PartiesOK
<1>10. finals'[x] \in {0, 1} /\ (finals'[x] = 0 => Untold(x)')
  <2>1. x \in MatchingIds'
    BY <1>2, <1>7 DEF MatchingIds
  <2> QED BY <1>4, <1>6, <2>1 DEF Untold
<1>11. \A s \in DOMAIN books_ : x \notin DOMAIN books_[s].order_index_
  BY <1>2 DEF ListedIds
<1>12. /\ call.fn # "on_cancel" /\ call.fn # "on_tif_cancel"
  BY <1>1
<1> QED BY <1>1, <1>2, <1>6, <1>7, <1>8, <1>9, <1>10, <1>11, <1>12, CallbackFrame

\* The end of onFill: both parties have been told.
LEMMA FillTail ==
    ASSUME GInv, IdsOK, PartiesOK, FinalsOK, FillTrade \/ FillReturn
    PROVE  IdsOK' /\ PartiesOK' /\ FinalsOK'
<1>1. /\ call.fn = "on_fill" /\ phase \in {"trade", "taker_event"}
      /\ UNCHANGED << maps, finals, fix, books_, queue_, order_seq_, rows, pc, cur >>
      /\ call' = NoCall \/ (call' = call /\ phase' = "taker_event")
  BY DEF FillTrade, FillReturn, InCallback, Return, CallbackReturn, vars
<1>2. ~TakerLeft /\ ~TakerLeft' /\ ~MakerLeft /\ ~MakerLeft' /\ \A y : ~Replacing(y)
  BY <1>1 DEF TakerLeft, MakerLeft, InFill, Replacing, NoCall
<1>3. FillOK'
  <2>1. CASE call' = NoCall
    BY <2>1 DEF FillOK, NoCall
  <2>2. CASE call' = call /\ phase' = "taker_event"
    <3>1. call.maker.leaves_qty = 0 => Gone(call.maker.exchange_id)
      BY <1>1, <1>2 DEF PartiesOK, FillOK
    <3>2. call.maker.leaves_qty = 0 => Gone(call.maker.exchange_id)'
      BY <1>1, <2>2, <3>1 DEF Gone, maps
    <3> QED BY <1>1, <1>2, <2>2, <3>2, FillFrame DEF PartiesOK
  <2> QED BY <1>1, <2>1, <2>2
<1>4. call.fn # "on_cancel" /\ call.fn # "on_tif_cancel"
  BY <1>1
<1> QED BY <1>1, <1>2, <1>3, <1>4, QuietCallback

\* An order that left the books by a cancel or a kill: its entries go and its end is told.
LEMMA EndTold ==
    ASSUME GInv, IdsOK, PartiesOK, FinalsOK, NEW w, MapOwners(w), NEW x, NEW c, Owns(w, c, x),
           x \notin LiveIds, x \notin SubmitIds, x \in DOMAIN finals, finals[x] = 0,
           ~Replacing(x), call.fn \in {"on_cancel", "on_tif_cancel"},
           call.fn = "on_cancel" => call.req.orig_order_id = x,
           call.fn = "on_tif_cancel" => call.order.exchange_id = x,
           UNCHANGED << books_, queue_, order_seq_, rows, pc, cur, fix >>, call' = NoCall,
           order_sessions_' = Drop(order_sessions_, x),
           active_orders_' = Drop(active_orders_, x),
           clord_to_exchange_' = Drop(clord_to_exchange_, c),
           finals' = Told(x)
    PROVE  IdsOK' /\ PartiesOK' /\ FinalsOK'
<1>1. finals' = [finals EXCEPT ![x] = 1]
  BY DEF Told
<1>2. \A d \in DOMAIN clord_to_exchange_ : clord_to_exchange_[d] # x => d # c
  BY OwnerFound
<1>3. OnlyAbout(x)
  BY <1>1, <1>2, DropFields DEF OnlyAbout
<1>4. /\ DOMAIN finals' = DOMAIN finals /\ finals'[x] = 1
      /\ DOMAIN active_orders_' \subseteq DOMAIN active_orders_
      /\ DOMAIN order_sessions_' \subseteq DOMAIN order_sessions_
  BY <1>1, DropFields
<1>5. /\ x \notin QueuedIds /\ \A s \in DOMAIN books_ : x \notin DOMAIN books_[s].order_index_
      /\ pc = "match" => cur.order.exchange_id # x
  BY DEF LiveIds, ListedIds, MatchingIds
<1>6. /\ ~MakerLeft /\ ~TakerLeft /\ ~TakerLeft' /\ \A y : ~Replacing(y)
      /\ ~InFill({"begin", "maker_orders", "taker"}) /\ ~InFill({"begin", "maker_orders", "taker"})'
      /\ ~InFill({"taker_orders"}) /\ ~InFill({"taker_orders"})'
  BY DEF MakerLeft, TakerLeft, InFill, Replacing, NoCall
<1>7. FillOK'
  BY DEF FillOK, NoCall
<1> QED BY <1>3, <1>4, <1>5, <1>6, <1>7, CallbackFrame

LEMMA OnCancelReports ==
    ASSUME GInv, IdsOK, ClaimsOK, PartiesOK, FinalsOK, OnCancelStep
    PROVE  IdsOK' /\ PartiesOK' /\ FinalsOK'
<1>1. PICK x : x = call.req.orig_order_id
  OBVIOUS
<1>2. /\ call.fn = "on_cancel" /\ call' = NoCall
      /\ UNCHANGED << books_, queue_, order_seq_, rows, pc, cur, fix >>
      /\ IF call.found /\ x \in DOMAIN order_sessions_ /\ x \in DOMAIN active_orders_
         THEN /\ order_sessions_' = Drop(order_sessions_, x)
              /\ active_orders_' = Drop(active_orders_, x)
              /\ clord_to_exchange_' = Drop(clord_to_exchange_, active_orders_[x].clord_id)
              /\ finals' = Told(x)
         ELSE UNCHANGED << maps, finals >>
  BY <1>1 DEF OnCancelStep, InCallback, Return, CallbackReturn
<1>3. CASE call.found
  <2>1. x \notin LiveIds /\ x \in DOMAIN order_sessions_ /\ x \in DOMAIN active_orders_
        /\ x \in DOMAIN finals /\ finals[x] = 0
    BY <1>1, <1>2, <1>3 DEF PartiesOK, CallbackOK, Known
  <2>2. PICK w : MapOwners(w)
    BY DEF ClaimsOK, OwnersOK
  <2>3. active_orders_[x].exchange_id = x
    BY <2>1 DEF GInv, MapsOK
  <2>4. Owns(w, active_orders_[x].clord_id, x)
    BY <2>1, <2>2, <2>3 DEF MapOwners, OwnsOrder
  <2>5. x \notin SubmitIds
    BY <1>1, <1>2, <1>3 DEF IdsOK, CallIds
  <2>6. ~Replacing(x)
    BY <1>2 DEF Replacing
  <2> QED BY <1>1, <1>2, <1>3, <2>1, <2>2, <2>4, <2>5, <2>6, EndTold
<1>4. CASE ~call.found
  <2>1. UNCHANGED << maps, finals >> /\ call.fn # "on_tif_cancel"
        /\ ~(call.fn = "on_cancel" /\ call.found)
    BY <1>2, <1>4
  <2>2. ~TakerLeft /\ ~TakerLeft' /\ FillOK' /\ \A y : ~Replacing(y)
    BY <1>2 DEF TakerLeft, InFill, FillOK, Replacing, NoCall
  <2> QED BY <1>2, <2>1, <2>2, QuietCallback
<1> QED BY <1>3, <1>4

LEMMA OnTifCancelReports ==
    ASSUME GInv, IdsOK, ClaimsOK, PartiesOK, FinalsOK, OnTifCancelStep
    PROVE  IdsOK' /\ PartiesOK' /\ FinalsOK'
<1>1. PICK o, x : o = call.order /\ x = o.exchange_id
  OBVIOUS
<1>2. /\ call.fn = "on_tif_cancel" /\ call' = NoCall
      /\ UNCHANGED << books_, queue_, order_seq_, rows, pc, cur, fix >>
      /\ IF x \in DOMAIN order_sessions_
         THEN /\ order_sessions_' = Drop(order_sessions_, x)
              /\ active_orders_' = Drop(active_orders_, x)
              /\ clord_to_exchange_' = Drop(clord_to_exchange_, o.clord_id)
              /\ finals' = Told(x)
         ELSE UNCHANGED << maps, finals >>
  BY <1>1 DEF OnTifCancelStep, InCallback, Return, CallbackReturn
<1>3. x \notin LiveIds /\ x \in DOMAIN order_sessions_ /\ x \in DOMAIN finals /\ finals[x] = 0
  BY <1>1, <1>2 DEF PartiesOK, CallbackOK, Known
<1>4. PICK w : MapOwners(w) /\ Owns(w, o.clord_id, x)
  BY <1>1, <1>2 DEF ClaimsOK, OwnersOK, CallOwners, OwnsOrder
<1>5. x \notin SubmitIds
  BY <1>1, <1>2 DEF IdsOK, CallIds
<1>6. ~Replacing(x)
  BY <1>2 DEF Replacing
<1> QED BY <1>1, <1>2, <1>3, <1>4, <1>5, <1>6, EndTold

\* onReplace: the copy takes the new ClOrdID, price and quantities of the order in the book;
\* an order that was filled to the end while it was being replaced is gone already.
LEMMA OnReplaceReports ==
    ASSUME GInv, IdsOK, ClaimsOK, PartiesOK, FinalsOK, OnReplaceStep
    PROVE  IdsOK' /\ PartiesOK' /\ FinalsOK'
<1>1. PICK req, x, left : /\ req = call.req /\ x = req.orig_order_id
                          /\ left = IF call.leaves_qty > 0 THEN call.leaves_qty ELSE 0
  OBVIOUS
<1>2. /\ call.fn = "on_replace" /\ call' = NoCall
      /\ UNCHANGED << books_, queue_, order_seq_, rows, pc, cur, fix, finals >>
      /\ IF call.found /\ x \in DOMAIN order_sessions_ /\ x \in DOMAIN active_orders_
         THEN /\ clord_to_exchange_' =
                     Emplace(Drop(clord_to_exchange_, req.old_clord_id), req.new_clord_id, x)
              /\ IF left = 0
                 THEN /\ order_sessions_' = Drop(order_sessions_, x)
                      /\ active_orders_' = Drop(active_orders_, x)
                 ELSE /\ active_orders_' = [active_orders_ EXCEPT ![x].clord_id = req.new_clord_id,
                                                                  ![x].price = req.new_price,
                                                                  ![x].qty = req.new_qty,
                                                                  ![x].leaves_qty = left]
                      /\ UNCHANGED order_sessions_
         ELSE UNCHANGED maps
  BY <1>1 DEF OnReplaceStep, InCallback, Return, CallbackReturn
<1>3. /\ req \in ReplaceRequest /\ call.leaves_qty \in Int /\ call.found = (call.leaves_qty >= 0)
  BY <1>1, <1>2 DEF GInv, CallOK
<1>4. /\ ~MakerLeft /\ ~TakerLeft /\ ~TakerLeft' /\ \A y : Replacing(y) => y = x
      /\ ~InFill({"begin", "maker_orders", "taker"}) /\ ~InFill({"begin", "maker_orders", "taker"})'
      /\ ~InFill({"taker_orders"}) /\ ~InFill({"taker_orders"})' /\ FillOK'
  BY <1>1, <1>2 DEF MakerLeft, TakerLeft, InFill, Replacing, NoCall, FillOK
<1>5. CASE ~call.found
  <2>1. UNCHANGED maps /\ \A y : ~Replacing(y)
    BY <1>2, <1>5 DEF Replacing
  <2>2. call.fn # "on_tif_cancel" /\ call.fn # "on_cancel"
    BY <1>2
  <2> QED BY <1>2, <1>4, <2>1, <2>2, QuietCallback
<1>6. CASE call.found
  <2>1. call.leaves_qty >= 0 /\ x \notin QueuedIds \cup SubmitIds
    <3>1. x \in CallIds
      BY <1>1, <1>2, <1>6 DEF CallIds
    <3> QED BY <1>3, <1>6, <3>1 DEF IdsOK
  <2>2. call.fn # "on_tif_cancel" /\ call.fn # "on_cancel"
    BY <1>2
  <2>3. CASE call.leaves_qty = 0
    <3>1. x \notin DOMAIN active_orders_ /\ UNCHANGED maps
      BY <1>1, <1>2, <2>3 DEF PartiesOK, CallbackOK
    <3>2. OnlyAbout(x)
      BY <1>2, <3>1 DEF OnlyAbout, maps
    <3>3. ASSUME NEW s \in DOMAIN books_, x \in DOMAIN books_[s].order_index_ PROVE FALSE
      BY <3>1, <3>3, EntryFields DEF PartiesOK, ListedOK, RestingOK, Known, GInv
    <3>4. CurrentOK'
      <4>1. CurrentOK /\ UNCHANGED << maps, finals, pc, cur >>
        BY <1>2, <3>1 DEF PartiesOK
      <4>2. PICK o, id, cl : o = cur.order /\ id = o.exchange_id /\ cl = o.client_id /\ o = cur'.order
        BY <4>1
      <4>3. /\ Known(id, cl)' <=> Known(id, cl)
            /\ Ending(id)' <=> Ending(id)
            /\ Gone(id)' <=> Gone(id)
            /\ Silent(id)' <=> Silent(id)
            /\ SameOrder(o)' <=> SameOrder(o)
            /\ SamePrice(o)' <=> SamePrice(o)
            /\ SameLeaves(o)' <=> SameLeaves(o)
        BY <4>1, MapsKept
      <4>4. /\ SameOrder(cur.order)' <=> SameOrder(o)
            /\ SamePrice(cur.order)' <=> SamePrice(o)
            /\ SameLeaves(cur.order)' <=> SameLeaves(o)
        BY <4>2, <4>3 DEF SameOrder, SamePrice, SameLeaves
      <4> QED BY <1>4, <4>1, <4>2, <4>3, <4>4 DEF CurrentOK, maps
    <3>5. x \in DOMAIN finals' => finals'[x] \in {0, 1} /\ (finals'[x] = 0 => Untold(x)')
      <4>1. ListedIds' = ListedIds /\ QueuedIds' = QueuedIds /\ MatchingIds' = MatchingIds
        BY <1>2 DEF ListedIds, QueuedIds, MatchingIds
      <4>2. Untold(x) => Untold(x)'
        BY <1>2, <1>4, <3>1, <4>1, MapsKept DEF Untold
      <4> QED BY <1>2, <4>2 DEF FinalsOK
    <3> QED BY <1>2, <1>4, <2>1, <2>2, <3>1, <3>2, <3>3, <3>4, <3>5, CallbackFrame DEF maps
  <2>4. CASE call.leaves_qty > 0
    <3>1. PICK s, e :
              /\ s \in DOMAIN books_
              /\ x \in DOMAIN books_[s].order_index_ /\ e = books_[s].order_index_[x]
              /\ e.leaves_qty = call.leaves_qty /\ e.price = req.new_price
      BY <1>1, <1>2, <2>4 DEF PartiesOK, CallbackOK
    <3>2. /\ e.exchange_id = x /\ x \in ListedIds /\ e.leaves_qty > 0 /\ e.tif # "ioc"
          /\ Known(x, e.client_id) /\ SameOrder(e)
      BY <3>1, EntryFields DEF PartiesOK, ListedOK, RestingOK, GInv
    <3>3. /\ clord_to_exchange_' =
                 Emplace(Drop(clord_to_exchange_, req.old_clord_id), req.new_clord_id, x)
          /\ active_orders_' = [active_orders_ EXCEPT ![x].clord_id = req.new_clord_id,
                                                      ![x].price = req.new_price,
                                                      ![x].qty = req.new_qty,
                                                      ![x].leaves_qty = left]
          /\ UNCHANGED order_sessions_ /\ left = e.leaves_qty
      BY <1>1, <1>2, <1>6, <2>4, <3>1, <3>2 DEF Known
    <3>4. /\ x \in DOMAIN active_orders_ /\ DOMAIN active_orders_' = DOMAIN active_orders_
          /\ \A y \in DOMAIN active_orders_ : y # x => active_orders_'[y] = active_orders_[y]
          /\ active_orders_'[x].clord_id = req.new_clord_id
          /\ active_orders_'[x].price = req.new_price
          /\ active_orders_'[x].leaves_qty = left
          /\ active_orders_'[x].client_id = active_orders_[x].client_id
          /\ active_orders_'[x].symbol = active_orders_[x].symbol
          /\ active_orders_'[x].side = active_orders_[x].side
          /\ active_orders_'[x].type = active_orders_[x].type
      <4>1. x \in DOMAIN active_orders_ /\ active_orders_[x] \in Order
        BY <3>2 DEF Known, GInv, MapsOK
      <4> QED BY <3>3, <4>1 DEF Order
    <3>5. PICK w : /\ MapOwners(w) /\ Owns(w, req.old_clord_id, x) /\ Owns(w, req.new_clord_id, x)
      BY <1>1, <1>2 DEF ClaimsOK, OwnersOK, CallOwners, OwnsReplace
    <3>6. \A d \in DOMAIN clord_to_exchange_ :
              /\ clord_to_exchange_[d] # x => d # req.old_clord_id
              /\ d = req.new_clord_id => clord_to_exchange_[d] = x
      BY <3>5, OwnerFound
    <3>7. /\ req.new_clord_id \in DOMAIN clord_to_exchange_'
          /\ clord_to_exchange_'[req.new_clord_id] = x
          /\ \A d \in DOMAIN clord_to_exchange_ : clord_to_exchange_[d] # x =>
                 d \in DOMAIN clord_to_exchange_' /\ clord_to_exchange_'[d] = clord_to_exchange_[d]
      <4> DEFINE f == Drop(clord_to_exchange_, req.old_clord_id)
      <4>1. /\ \A d \in DOMAIN f : d \in DOMAIN clord_to_exchange_ /\ f[d] = clord_to_exchange_[d]
            /\ \A d \in DOMAIN clord_to_exchange_ : d # req.old_clord_id => d \in DOMAIN f
        BY DropFields
      <4> HIDE DEF f
      <4>2. clord_to_exchange_' = Emplace(f, req.new_clord_id, x)
        BY <3>3 DEF f
      <4>3. CASE req.new_clord_id \in DOMAIN f
        BY <3>6, <4>1, <4>2, <4>3 DEF Emplace
      <4>4. CASE req.new_clord_id \notin DOMAIN f
        BY <3>6, <4>1, <4>2, <4>4 DEF Emplace, Put
      <4> QED BY <4>3, <4>4
    <3>8. OnlyAbout(x)
      BY <1>2, <3>3, <3>4, <3>7 DEF OnlyAbout
    <3>9. Known(x, e.client_id)'
      BY <1>2, <3>2, <3>3, <3>4, <3>7 DEF Known
    <3>10. RestingOK(e)'
      <4>1. SameOrder(e)' /\ SamePrice(e)' /\ SameLeaves(e)'
        BY <3>1, <3>2, <3>3, <3>4 DEF SameOrder, SamePrice, SameLeaves
      <4> QED BY <3>2, <3>9, <4>1 DEF RestingOK
    <3>11. \A t \in DOMAIN books_ : x \in DOMAIN books_[t].order_index_ =>
               \A d : d = books_[t].order_index_[x] => RestingOK(d)'
      <4>1. \A t \in DOMAIN books_ : x \in DOMAIN books_[t].order_index_ => t = s
        BY <3>1, EntryUnique DEF GInv
      <4> QED BY <3>1, <3>10, <4>1
    <3>12. pc = "match" => cur.order.exchange_id # x
      BY <3>2 DEF GInv, IInv, Fresh, OnePlace, MatchingIds
    <3>13. finals'[x] = 0 /\ Untold(x)'
      <4>1. x \in ListedIds'
        BY <1>2, <3>2 DEF ListedIds
      <4> QED BY <1>2, <3>2, <4>1 DEF Known, Untold
    <3> QED BY <1>2, <1>4, <2>1, <2>2, <3>3, <3>4, <3>8, <3>11, <3>12, <3>13, CallbackFrame
  <2> QED BY <1>3, <2>1, <2>3, <2>4
<1> QED BY <1>5, <1>6

LEMMA CallbackReports ==
    ASSUME GInv, IdsOK, ClaimsOK, PartiesOK, FinalsOK,
           OnFillStep \/ OnCancelStep \/ OnReplaceStep \/ OnTifCancelStep \/ OnOrderRestedStep
               \/ SnapshotStep
    PROVE  IdsOK' /\ PartiesOK' /\ FinalsOK'
<1>1. CASE OnFillStep
  BY <1>1, MakerRoute, MakerReport, TakerRoute, TakerReport, FillTail DEF OnFillStep
<1>2. CASE OnOrderRestedStep \/ SnapshotStep
  <2>1. /\ call.fn \in {"on_order_rested", "snapshot_cb"} /\ call' = NoCall
        /\ UNCHANGED << maps, finals, books_, queue_, order_seq_, rows, pc, cur, fix >>
    BY <1>2 DEF OnOrderRestedStep, SnapshotStep, InCallback, Return, CallbackReturn
  <2>2. /\ ~TakerLeft /\ ~TakerLeft' /\ FillOK' /\ \A y : ~Replacing(y)
        /\ call.fn # "on_tif_cancel" /\ call.fn # "on_cancel"
    BY <2>1 DEF TakerLeft, InFill, FillOK, Replacing, NoCall
  <2> QED BY <2>1, <2>2, QuietCallback
<1> QED BY <1>1, <1>2, OnCancelReports, OnReplaceReports, OnTifCancelReports

---------------------------------------------------------------------------
(* Steps of the other threads                                              *)

\* A step that keeps what is known of every order, while the engine thread stands still.
LEMMA HandlerFrame ==
    ASSUME GInv, IdsOK, PartiesOK,
           \A y, c : Known(y, c) => Known(y, c)',
           \A y : /\ Ending(y) => Ending(y)'
                  /\ Gone(y) => Gone(y)'
                  /\ Silent(y) => Silent(y)',
           \A o : o.exchange_id \in DOMAIN active_orders_ =>
                      /\ SameOrder(o) => SameOrder(o)'
                      /\ SamePrice(o) => SamePrice(o)'
                      /\ SameLeaves(o) => SameLeaves(o)',
           DOMAIN active_orders_' \cap (0 .. order_seq_) \subseteq DOMAIN active_orders_,
           UNCHANGED << cur, call, phase >>, pc' = "match" <=> pc = "match",
           \A s \in DOMAIN books_ : s \in DOMAIN books_' /\ books_'[s] = books_[s],
           \A s \in DOMAIN books_' : s \notin DOMAIN books_ => DOMAIN books_'[s].order_index_ = {},
           CallIds \cap LiveIds' \subseteq LiveIds,
           WaitingOK'
    PROVE  PartiesOK'
<1>1. ASSUME NEW e, RestingOK(e) PROVE RestingOK(e)'
  <2>1. /\ e.leaves_qty > 0 /\ e.tif # "ioc" /\ Known(e.exchange_id, e.client_id) /\ SameOrder(e)
        /\ e.exchange_id \in DOMAIN active_orders_
    BY <1>1 DEF RestingOK, Known
  <2>2. /\ Known(e.exchange_id, e.client_id)' /\ SameOrder(e)'
        /\ SamePrice(e) => SamePrice(e)'
        /\ SameLeaves(e) => SameLeaves(e)'
    BY <2>1
  <2>3. /\ Replacing(e.exchange_id)' <=> Replacing(e.exchange_id)
        /\ MakerLeft' <=> MakerLeft
    BY DEF Replacing, MakerLeft, InFill
  <2> QED BY <1>1, <2>1, <2>2, <2>3 DEF RestingOK
<1>2. ListedOK'
  <2>1. \A s \in DOMAIN books_' : \A id \in DOMAIN books_'[s].order_index_ :
            \A e : e = books_'[s].order_index_[id] => RestingOK(e)'
    BY <1>1 DEF PartiesOK, ListedOK
  <2> QED BY <2>1 DEF ListedOK
<1>3. ASSUME pc = "match" PROVE CurrentOK'
  <2>1. PICK o, id : o = cur.order /\ id = o.exchange_id /\ o = cur'.order
    OBVIOUS
  <2>2. /\ InFill({"begin", "maker_orders", "taker"})' <=>
               InFill({"begin", "maker_orders", "taker"})
        /\ InFill({"taker_orders"})' <=> InFill({"taker_orders"})
        /\ TakerLeft' <=> TakerLeft
    BY DEF InFill, TakerLeft
  <2>3. /\ o.leaves_qty >= 0
        /\ o.leaves_qty > 0 \/ InFill({"begin", "maker_orders", "taker"})
               => Known(id, o.client_id)
        /\ o.leaves_qty = 0 /\ InFill({"taker_orders"}) => Ending(id)
        /\ o.leaves_qty = 0 /\ ~TakerLeft => Gone(id) \/ (cur.tag = "ORDER" /\ Silent(id))
        /\ id \in DOMAIN active_orders_ => SameOrder(o)
        /\ cur.tag = "ORDER" /\ id \in DOMAIN active_orders_ => SamePrice(o)
        /\ cur.tag = "ORDER" /\ o.leaves_qty > 0 /\ ~TakerLeft => SameLeaves(o)
        /\ cur.tag = "REPLACE" => /\ o.type = "limit" /\ o.tif # "ioc"
                                  /\ cur.req.orig_order_id = id
                                  /\ cur.req.new_price = o.price
    BY <1>3, <2>1 DEF PartiesOK, CurrentOK
  <2>4. id \in DOMAIN active_orders_' => id \in DOMAIN active_orders_
    <3>1. id \in LiveIds
      BY <1>3, <2>1 DEF LiveIds, MatchingIds
    <3> QED BY <3>1 DEF GInv, IInv, Fresh
  <2>5. /\ o.leaves_qty > 0 \/ InFill({"begin", "maker_orders", "taker"})'
               => Known(id, o.client_id)'
        /\ o.leaves_qty = 0 /\ InFill({"taker_orders"})' => Ending(id)'
        /\ o.leaves_qty = 0 /\ ~TakerLeft' => Gone(id)' \/ (cur.tag = "ORDER" /\ Silent(id)')
    BY <2>2, <2>3
  <2>6. o.leaves_qty > 0 => id \in DOMAIN active_orders_
    BY <2>3 DEF Known
  <2>7. /\ id \in DOMAIN active_orders_' => SameOrder(o)'
        /\ cur.tag = "ORDER" /\ id \in DOMAIN active_orders_' => SamePrice(o)'
        /\ cur.tag = "ORDER" /\ o.leaves_qty > 0 /\ ~TakerLeft' => SameLeaves(o)'
    BY <2>1, <2>2, <2>3, <2>4, <2>6
  <2>8. /\ id \in DOMAIN active_orders_' => SameOrder(cur.order)'
        /\ cur.tag = "ORDER" /\ id \in DOMAIN active_orders_' => SamePrice(cur.order)'
        /\ cur.tag = "ORDER" /\ o.leaves_qty > 0 /\ ~TakerLeft' => SameLeaves(cur.order)'
    BY <2>1, <2>7 DEF SameOrder, SamePrice, SameLeaves
  <2> QED BY <2>1, <2>3, <2>5, <2>8 DEF CurrentOK
<1>4. CurrentOK'
  <2>1. CASE pc # "match"
    BY <2>1 DEF CurrentOK
  <2> QED BY <1>3, <2>1
<1>5. FillOK'
  <2>1. CASE call.fn = "on_fill"
    <3>1. PICK m, x, c : m = call.maker /\ x = m.exchange_id /\ c = m.client_id /\ m = call'.maker
      OBVIOUS
    <3>2. x \notin LiveIds => x \notin LiveIds'
      BY <2>1, <3>1 DEF CallIds
    <3>3. MakerLeft' <=> MakerLeft
      BY DEF MakerLeft, InFill
    <3>4. /\ Known(x, c) => Known(x, c)'
          /\ Ending(x) => Ending(x)'
          /\ Gone(x) => Gone(x)'
      OBVIOUS
    <3>5. FillOK
      BY DEF PartiesOK
    <3> QED BY <2>1, <3>1, <3>2, <3>3, <3>4, <3>5 DEF FillOK
  <2> QED BY <2>1 DEF FillOK
<1>6. CallbackOK'
  <2>1. CASE call.fn = "on_cancel" /\ call.found
    <3>1. PICK x, c : x = call.req.orig_order_id /\ c = active_orders_[x].client_id
      OBVIOUS
    <3>2. x \notin LiveIds /\ Known(x, c)
      BY <2>1, <3>1 DEF PartiesOK, CallbackOK
    <3>3. x \notin LiveIds' /\ Known(x, c)'
      BY <2>1, <3>1, <3>2 DEF CallIds
    <3>4. active_orders_'[x].client_id = c
      BY <3>3 DEF Known
    <3> QED BY <2>1, <3>1, <3>3, <3>4 DEF CallbackOK
  <2>2. CASE call.fn = "on_tif_cancel"
    <3>1. PICK x, c : x = call.order.exchange_id /\ c = call.order.client_id
      OBVIOUS
    <3>2. x \notin LiveIds /\ Known(x, c)
      BY <2>2, <3>1 DEF PartiesOK, CallbackOK
    <3>3. x \notin LiveIds' /\ Known(x, c)'
      BY <2>2, <3>1, <3>2 DEF CallIds
    <3> QED BY <2>2, <3>1, <3>3 DEF CallbackOK
  <2>3. CASE call.fn = "on_replace" /\ call.leaves_qty > 0
    BY <2>3 DEF PartiesOK, CallbackOK
  <2>4. CASE call.fn = "on_replace" /\ call.leaves_qty = 0
    <3>1. PICK x : x = call.req.orig_order_id
      OBVIOUS
    <3>2. x \in 0 .. order_seq_ /\ x \notin DOMAIN active_orders_
      BY <2>4, <3>1 DEF PartiesOK, CallbackOK, GInv, ReplacesOK, ReplaceOK
    <3> QED BY <2>4, <3>1, <3>2 DEF CallbackOK
  <2>5. CASE ~(call.fn = "on_cancel" /\ call.found) /\ call.fn # "on_tif_cancel"
             /\ ~(call.fn = "on_replace" /\ (call.leaves_qty > 0 \/ call.leaves_qty = 0))
    BY <2>5 DEF CallbackOK
  <2> QED BY <2>1, <2>2, <2>3, <2>4, <2>5
<1> QED BY <1>2, <1>4, <1>5, <1>6 DEF PartiesOK

\* ... and the maps too.
LEMMA QuietHandler ==
    ASSUME GInv, IdsOK, PartiesOK, UNCHANGED << maps, finals, cur, call, phase >>,
           pc' = "match" <=> pc = "match",
           \A s \in DOMAIN books_ : s \in DOMAIN books_' /\ books_'[s] = books_[s],
           \A s \in DOMAIN books_' : s \notin DOMAIN books_ => DOMAIN books_'[s].order_index_ = {},
           CallIds \cap LiveIds' \subseteq LiveIds,
           WaitingOK'
    PROVE  PartiesOK'
<1>1. active_orders_' = active_orders_
  BY DEF maps
<1> QED BY <1>1, MapsKept, HandlerFrame

\* The final reports still due, when orders only arrive.
LEMMA FinalsFrame ==
    ASSUME FinalsOK, UNCHANGED << call, phase >>,
           \A id \in DOMAIN finals : id \in DOMAIN finals' /\ finals'[id] = finals[id],
           \A id \in DOMAIN finals' :
               id \in DOMAIN finals \/ (finals'[id] = 0 /\ id \in SubmitIds'),
           \A id \in DOMAIN active_orders_ :
               id \in DOMAIN active_orders_' /\ active_orders_'[id] = active_orders_[id],
           ListedIds \cup QueuedIds \cup MatchingIds \cup SubmitIds
               \subseteq (ListedIds \cup QueuedIds \cup MatchingIds \cup SubmitIds)'
    PROVE  FinalsOK'
<1>1. \A id : id \in SubmitIds' => Untold(id)'
  BY DEF SubmitIds, Untold
<1>2. ASSUME NEW id, Untold(id) PROVE Untold(id)'
  <2>1. CASE id \in ListedIds \cup QueuedIds \cup MatchingIds \cup SubmitIds
    <3>1. id \in ListedIds' \cup QueuedIds' \cup MatchingIds' \/ id \in SubmitIds'
      BY <2>1
    <3> QED BY <1>1, <3>1 DEF Untold
  <2>2. CASE id \notin ListedIds \cup QueuedIds \cup MatchingIds \cup SubmitIds
    BY <1>2, <2>2 DEF Untold, Silent, SubmitIds, MakerLeft, InFill
  <2> QED BY <2>1, <2>2
<1> QED BY <1>1, <1>2 DEF FinalsOK

\* A push adds one item at the end.
LEMMA PushKeeps ==
    ASSUME IInv, NEW item \in WorkItem, Push(item)
    PROVE  /\ \A i \in DOMAIN queue_' : \/ i \in DOMAIN queue_ /\ queue_'[i] = queue_[i]
                                        \/ queue_'[i] = item
           /\ item.tag # "ORDER" => QueuedIds' = QueuedIds
           /\ item.tag = "ORDER" => QueuedIds' = QueuedIds \cup {item.order.exchange_id}
<1>1. queue_ \in Seq(WorkItem) /\ queue_' = Append(queue_, item)
  BY DEF IInv, TypeOK, Push
<1>2. /\ DOMAIN queue_ = 1 .. Len(queue_) /\ DOMAIN queue_' = 1 .. Len(queue_) + 1
      /\ Len(queue_) \in Nat
      /\ \A i \in 1 .. Len(queue_) : queue_'[i] = queue_[i]
      /\ queue_'[Len(queue_) + 1] = item
  <2>1. /\ Append(queue_, item) \in Seq(WorkItem)
        /\ Len(Append(queue_, item)) = Len(queue_) + 1
        /\ \A i \in 1 .. Len(queue_) : Append(queue_, item)[i] = queue_[i]
        /\ Append(queue_, item)[Len(queue_) + 1] = item
    BY <1>1, AppendProperties
  <2> QED BY <1>1, <2>1, LenProperties
<1>3. /\ \A i \in DOMAIN queue_' : (i \in DOMAIN queue_ /\ queue_'[i] = queue_[i]) \/ queue_'[i] = item
      /\ \A i \in DOMAIN queue_ : i \in DOMAIN queue_' /\ queue_'[i] = queue_[i]
      /\ \E i \in DOMAIN queue_' : queue_'[i] = item
  BY <1>2
<1>4. QueuedIds \subseteq QueuedIds'
  BY <1>3 DEF QueuedIds
<1>5. \A x \in QueuedIds' : x \in QueuedIds \/ (item.tag = "ORDER" /\ x = item.order.exchange_id)
  BY <1>3 DEF QueuedIds
<1>6. item.tag = "ORDER" => item.order.exchange_id \in QueuedIds'
  BY <1>3 DEF QueuedIds
<1> QED BY <1>3, <1>4, <1>5, <1>6

\* A handler that takes no id, pushes nothing and tells nothing.
LEMMA PlainHandler ==
    ASSUME GInv, IdsOK, PartiesOK, FinalsOK, UNCHANGED << vars, maps, finals, phase >>,
           fix.at # "submit", fix'.at # "submit"
    PROVE  IdsOK' /\ PartiesOK' /\ FinalsOK'
<1>1. UNCHANGED << books_, queue_, order_seq_, rows, pc, cur, call >>
  BY DEF vars
<1>2. /\ SubmitIds' = {} /\ SubmitIds = {} /\ CallIds' = CallIds /\ QueuedIds' = QueuedIds
      /\ ListedIds' = ListedIds /\ MatchingIds' = MatchingIds /\ LiveIds' = LiveIds
  BY <1>1 DEF SubmitIds, CallIds, QueuedIds, ListedIds, MatchingIds, LiveIds, UnrestoredIds
<1>3. IdsOK'
  BY <1>1, <1>2 DEF IdsOK, maps
<1>4. WaitingOK'
  BY <1>1, MapsKept DEF PartiesOK, WaitingOK
<1>5. PartiesOK'
  BY <1>1, <1>2, <1>4, QuietHandler
<1>6. FinalsOK'
  BY <1>1, <1>2, FinalsFrame DEF maps
<1> QED BY <1>3, <1>5, <1>6

\* onLogon binds orders that have no session: those the gateway knows have one.
LEMMA LogonReports ==
    ASSUME GInv, IdsOK, PartiesOK, FinalsOK, NEW c \in Clients, Logon(c)
    PROVE  IdsOK' /\ PartiesOK' /\ FinalsOK'
<1>1. PICK mine :
      /\ mine = {id \in DOMAIN active_orders_ : active_orders_[id].client_id = c}
      /\ order_sessions_' = [id \in DOMAIN order_sessions_ \cup mine |->
                                IF id \in DOMAIN order_sessions_ THEN order_sessions_[id] ELSE c]
      /\ fix = Idle /\ fix'.at = "status"
      /\ UNCHANGED << clord_to_exchange_, active_orders_, phase, finals >>
      /\ UNCHANGED << books_, queue_, order_seq_, rows, pc, cur, call >>
  BY DEF Logon, vars
<1>2. /\ SubmitIds' = {} /\ SubmitIds = {} /\ CallIds' = CallIds /\ QueuedIds' = QueuedIds
      /\ ListedIds' = ListedIds /\ MatchingIds' = MatchingIds /\ LiveIds' = LiveIds
  BY <1>1 DEF SubmitIds, CallIds, QueuedIds, ListedIds, MatchingIds, LiveIds, UnrestoredIds, Idle
<1>3. IdsOK'
  BY <1>1, <1>2 DEF IdsOK
<1>4. \A y, cl : Known(y, cl) => Known(y, cl)'
  BY <1>1 DEF Known
<1>5. /\ \A y : /\ Ending(y) => Ending(y)'
                /\ Gone(y) => Gone(y)'
                /\ Silent(y) => Silent(y)'
      /\ \A o : /\ SameOrder(o) => SameOrder(o)'
                /\ SamePrice(o) => SamePrice(o)'
                /\ SameLeaves(o) => SameLeaves(o)'
  BY <1>1 DEF Ending, Gone, Silent, SameOrder, SamePrice, SameLeaves
<1>6. \A o : Waiting(o) => Waiting(o)'
  BY <1>4, <1>5 DEF Waiting
<1>7. WaitingOK'
  <2>1. \A i \in DOMAIN queue_ : queue_[i].tag = "ORDER" =>
            \A o : o = queue_[i].order => Waiting(o)'
    BY <1>6 DEF PartiesOK, WaitingOK
  <2> QED BY <1>1, <2>1 DEF PartiesOK, WaitingOK
<1>8. PartiesOK'
  BY <1>1, <1>2, <1>4, <1>5, <1>7, HandlerFrame
<1>9. FinalsOK'
  BY <1>1, <1>2, FinalsFrame
<1> QED BY <1>3, <1>8, <1>9

\* A rejected message has drawn an id that nothing carries.
LEMMA RejectReports ==
    ASSUME GInv, IdsOK, PartiesOK, FinalsOK, NEW m, NEW c, RejectNew(m, c)
    PROVE  IdsOK' /\ PartiesOK' /\ FinalsOK'
<1>1. /\ order_seq_' = order_seq_ + 1 /\ UNCHANGED << maps, finals, phase, fix >>
      /\ UNCHANGED << books_, queue_, rows, pc, cur, call >> /\ order_seq_ \in Nat
  BY DEF RejectNew, Reject, gwvars, maps, GInv, IInv, TypeOK
<1>2. /\ SubmitIds' = SubmitIds /\ CallIds' = CallIds /\ QueuedIds' = QueuedIds
      /\ ListedIds' = ListedIds /\ MatchingIds' = MatchingIds /\ LiveIds' = LiveIds
  BY <1>1 DEF SubmitIds, CallIds, QueuedIds, ListedIds, MatchingIds, LiveIds, UnrestoredIds
<1>3. 1 .. order_seq_ \subseteq 1 .. order_seq_' /\ 0 .. order_seq_ \subseteq 0 .. order_seq_'
  BY <1>1
<1>4. IdsOK'
  BY <1>1, <1>2, <1>3 DEF IdsOK, maps
<1>5. WaitingOK'
  BY <1>1, MapsKept DEF PartiesOK, WaitingOK
<1>6. PartiesOK'
  BY <1>1, <1>2, <1>5, QuietHandler
<1>7. FinalsOK'
  BY <1>1, <1>2, FinalsFrame DEF maps
<1> QED BY <1>4, <1>6, <1>7

\* An acknowledged order takes an id and a ClOrdID that nothing else has.
LEMMA AcceptReports ==
    ASSUME GInv, IdsOK, PartiesOK, FinalsOK, NEW m \in NewOrderMsgs, NEW c \in Clients,
           NEW clord \in ClOrdIds, AcceptNew(m, c, clord), GInv'
    PROVE  IdsOK' /\ PartiesOK' /\ FinalsOK'
<1>1. PICK o, x :
      /\ o = NewOrder(m, c, clord) /\ x = o.exchange_id
      /\ fix = Idle /\ clord \notin used /\ order_seq_' = order_seq_ + 1
      /\ order_sessions_' = Emplace(order_sessions_, x, c)
      /\ clord_to_exchange_' = Emplace(clord_to_exchange_, clord, x)
      /\ active_orders_' = Emplace(active_orders_, x, o)
      /\ fix' = [at |-> "submit", order |-> o]
      /\ finals' = Put(finals, x, 0)
      /\ UNCHANGED << books_, queue_, rows, pc, cur, call, phase >>
  BY DEF AcceptNew, Receives
<1>2. /\ order_seq_ \in Nat /\ order_seq_' \in Nat /\ x = order_seq_' /\ o.exchange_id = x
      /\ o.client_id = c /\ o.clord_id = clord /\ o.leaves_qty = o.qty
  BY <1>1 DEF NewOrder, GInv, IInv, TypeOK
<1>3. /\ 1 .. order_seq_ \subseteq 1 .. order_seq_' /\ 0 .. order_seq_ \subseteq 0 .. order_seq_'
      /\ x \in 1 .. order_seq_' /\ x \notin 0 .. order_seq_ /\ x \notin 1 .. order_seq_
  BY <1>1, <1>2
<1>4. /\ x \notin DOMAIN active_orders_ /\ x \notin DOMAIN order_sessions_
      /\ x \notin DOMAIN finals /\ clord \notin DOMAIN clord_to_exchange_
      /\ x \notin CallIds /\ x \notin LiveIds
  BY <1>1, <1>3 DEF IdsOK, GInv, MapsOK, IInv, Fresh
<1>5. /\ order_sessions_' = Put(order_sessions_, x, c)
      /\ clord_to_exchange_' = Put(clord_to_exchange_, clord, x)
      /\ active_orders_' = Put(active_orders_, x, o)
  BY <1>1, <1>4 DEF Emplace
<1>6. /\ SubmitIds' = {x} /\ SubmitIds = {} /\ CallIds' = CallIds /\ QueuedIds' = QueuedIds
      /\ ListedIds' = ListedIds /\ MatchingIds' = MatchingIds /\ LiveIds' = LiveIds
  BY <1>1 DEF SubmitIds, CallIds, QueuedIds, ListedIds, MatchingIds, LiveIds, UnrestoredIds, Idle
<1>7. IdsOK'
  BY <1>1, <1>3, <1>4, <1>5, <1>6 DEF IdsOK, Put
<1>8. \A y, cl : Known(y, cl) => Known(y, cl)'
  BY <1>1, <1>4, <1>5 DEF Known, Put
<1>9. /\ \A y : /\ Ending(y) => Ending(y)'
                /\ Gone(y) => Gone(y)'
                /\ Silent(y) => Silent(y)'
      /\ \A e : e.exchange_id \in DOMAIN active_orders_ =>
                    /\ SameOrder(e) => SameOrder(e)'
                    /\ SamePrice(e) => SamePrice(e)'
                    /\ SameLeaves(e) => SameLeaves(e)'
  BY <1>1, <1>4, <1>5 DEF Ending, Gone, Silent, SameOrder, SamePrice, SameLeaves, Put
<1>10. ASSUME NEW e, Waiting(e) PROVE Waiting(e)'
  <2>1. e.exchange_id \in DOMAIN active_orders_
    BY <1>10 DEF Waiting, Known
  <2> QED BY <1>8, <1>9, <1>10, <2>1 DEF Waiting
<1>11. Waiting(o)'
  <2>1. o.qty >= 0
    <3>1. SubmitOK(fix.order)'
      BY <1>1 DEF GInv, FixOK
    <3>2. fix'.order = o
      BY <1>1
    <3>3. o.qty \in Qtys
      BY <3>1, <3>2 DEF SubmitOK
    <3>4. o.qty \in Nat
      BY <3>3, QtyAssumption
    <3> QED BY <3>4
  <2>2. Known(x, c)'
    BY <1>1, <1>2, <1>5 DEF Known, Put
  <2>3. SameOrder(o)' /\ SamePrice(o)' /\ SameLeaves(o)'
    BY <1>2, <1>5 DEF SameOrder, SamePrice, SameLeaves, Put
  <2>4. o.qty = 0 => Silent(x)'
    BY <1>2, <1>5 DEF Silent, DropsSilently, Put
  <2> QED BY <1>2, <2>1, <2>2, <2>3, <2>4 DEF Waiting
<1>12. WaitingOK'
  <2>1. \A i \in DOMAIN queue_ : queue_[i].tag = "ORDER" =>
            \A e : e = queue_[i].order => Waiting(e)'
    BY <1>10 DEF PartiesOK, WaitingOK
  <2>2. Waiting(fix.order)'
    BY <1>1, <1>11 DEF Waiting
  <2> QED BY <1>1, <2>1, <2>2 DEF PartiesOK, WaitingOK
<1>13. DOMAIN active_orders_' \cap (0 .. order_seq_) \subseteq DOMAIN active_orders_
  BY <1>3, <1>5 DEF Put
<1>14. PartiesOK'
  BY <1>1, <1>6, <1>8, <1>9, <1>12, <1>13, HandlerFrame
<1>15. FinalsOK'
  <2>1. /\ \A id \in DOMAIN finals : id \in DOMAIN finals' /\ finals'[id] = finals[id]
        /\ \A id \in DOMAIN finals' : id \in DOMAIN finals \/ (finals'[id] = 0 /\ id \in SubmitIds')
    BY <1>1, <1>4, <1>6 DEF Put
  <2>2. \A id \in DOMAIN active_orders_ :
            id \in DOMAIN active_orders_' /\ active_orders_'[id] = active_orders_[id]
    BY <1>4, <1>5 DEF Put
  <2> QED BY <1>1, <1>6, <2>1, <2>2, FinalsFrame
<1> QED BY <1>7, <1>14, <1>15

\* engine_.submit: the order the handler held waits in the queue.
LEMMA SubmitReports ==
    ASSUME GInv, IdsOK, PartiesOK, FinalsOK, SubmitNew
    PROVE  IdsOK' /\ PartiesOK' /\ FinalsOK'
<1>1. PICK o, item :
      /\ o = fix.order /\ item = [tag |-> "ORDER", order |-> o] /\ Push(item)
      /\ fix.at = "submit" /\ fix' = Idle
      /\ UNCHANGED << books_, order_seq_, rows, pc, cur, call, maps, phase, finals >>
  BY DEF SubmitNew
<1>2. item \in WorkItem /\ item.tag = "ORDER" /\ item.order = o
  BY <1>1 DEF GInv, FixOK, SubmitOK, WorkItem
<1>3. /\ \A i \in DOMAIN queue_' : \/ i \in DOMAIN queue_ /\ queue_'[i] = queue_[i]
                                   \/ queue_'[i] = item
      /\ QueuedIds' = QueuedIds \cup {o.exchange_id}
  BY <1>1, <1>2, PushKeeps DEF GInv
<1>4. /\ SubmitIds' = {} /\ SubmitIds = {o.exchange_id} /\ CallIds' = CallIds
      /\ ListedIds' = ListedIds /\ MatchingIds' = MatchingIds
      /\ LiveIds' = LiveIds \cup {o.exchange_id}
  BY <1>1, <1>3 DEF SubmitIds, CallIds, ListedIds, MatchingIds, LiveIds, UnrestoredIds, Idle
<1>5. IdsOK'
  BY <1>1, <1>3, <1>4 DEF IdsOK, maps
<1>6. CallIds \cap LiveIds' \subseteq LiveIds
  BY <1>4 DEF IdsOK
<1>7. WaitingOK'
  <2>1. Waiting(o)'
    BY <1>1, MapsKept DEF PartiesOK, WaitingOK
  <2>2. \A i \in DOMAIN queue_ : queue_[i].tag = "ORDER" =>
            \A e : e = queue_[i].order => Waiting(e)'
    BY <1>1, MapsKept DEF PartiesOK, WaitingOK
  <2>3. \A i \in DOMAIN queue_' : queue_'[i].tag = "ORDER" =>
            \A e : e = queue_'[i].order => Waiting(e)'
    BY <1>2, <1>3, <2>1, <2>2
  <2>4. \A i \in DOMAIN queue_' : queue_'[i].tag = "REPLACE" => queue_'[i].req.new_qty > 0
    BY <1>2, <1>3 DEF PartiesOK, WaitingOK
  <2> QED BY <1>1, <2>3, <2>4 DEF WaitingOK, Idle
<1>8. PartiesOK'
  BY <1>1, <1>6, <1>7, QuietHandler
<1>9. FinalsOK'
  BY <1>1, <1>3, <1>4, FinalsFrame DEF maps
<1> QED BY <1>5, <1>8, <1>9

\* engine_.cancel, engine_.replace and engine_.requestSnapshot bring no order.
LEMMA RequestReports ==
    ASSUME GInv, IdsOK, PartiesOK, FinalsOK, NEW item \in WorkItem, item.tag # "ORDER",
           item.tag = "REPLACE" => item.req.new_qty > 0,
           Request(item), fix.at # "submit", fix'.at # "submit", UNCHANGED << maps, phase, finals >>
    PROVE  IdsOK' /\ PartiesOK' /\ FinalsOK'
<1>1. Push(item) /\ UNCHANGED << books_, order_seq_, rows, pc, cur, call >>
  BY DEF Request
<1>2. /\ \A i \in DOMAIN queue_' : \/ i \in DOMAIN queue_ /\ queue_'[i] = queue_[i]
                                   \/ queue_'[i] = item
      /\ QueuedIds' = QueuedIds
  BY <1>1, PushKeeps DEF GInv
<1>3. /\ SubmitIds' = {} /\ SubmitIds = {} /\ CallIds' = CallIds
      /\ ListedIds' = ListedIds /\ MatchingIds' = MatchingIds /\ LiveIds' = LiveIds
  BY <1>1, <1>2 DEF SubmitIds, CallIds, ListedIds, MatchingIds, LiveIds, UnrestoredIds
<1>4. IdsOK'
  BY <1>1, <1>2, <1>3 DEF IdsOK, maps
<1>5. WaitingOK'
  <2>1. \A i \in DOMAIN queue_ : queue_[i].tag = "ORDER" =>
            \A e : e = queue_[i].order => Waiting(e)'
    BY MapsKept DEF PartiesOK, WaitingOK
  <2>2. \A i \in DOMAIN queue_' : queue_'[i].tag = "ORDER" =>
            \A e : e = queue_'[i].order => Waiting(e)'
    BY <1>2, <2>1
  <2>3. \A i \in DOMAIN queue_' : queue_'[i].tag = "REPLACE" => queue_'[i].req.new_qty > 0
    BY <1>2 DEF PartiesOK, WaitingOK
  <2> QED BY <2>2, <2>3 DEF WaitingOK
<1>6. PartiesOK'
  BY <1>1, <1>3, <1>5, QuietHandler
<1>7. FinalsOK'
  BY <1>1, <1>2, <1>3, FinalsFrame DEF maps
<1> QED BY <1>4, <1>6, <1>7

\* The QuickFIX thread.
LEMMA FixReports ==
    ASSUME ReplaceQtys \subseteq Nat \ {0}, GInv, GInv', IdsOK, PartiesOK, FinalsOK, GwFix
    PROVE  IdsOK' /\ PartiesOK' /\ FinalsOK'
<1>1. CASE \E c \in Clients : Logout(c)
  BY <1>1, PlainHandler DEF Logout, Idle
<1>2. CASE SendStatus
  BY <1>2, PlainHandler DEF SendStatus, Idle
<1>3. CASE \E c \in Clients, orig \in ClOrdIds, s \in MsgSymbols : RecvCancel(c, orig, s)
  BY <1>3, PlainHandler DEF RecvCancel, Receives, Idle
<1>4. CASE \E c \in Clients, orig, cl \in ClOrdIds, s \in MsgSymbols, side \in Sides,
              p \in Prices, q \in ReplaceQtys : RecvReplace(c, orig, cl, s, side, p, q)
  BY <1>4, PlainHandler DEF RecvReplace, Receives, Idle
<1>5. CASE PushRequest
  <2>1. /\ RequestOK(fix.item) /\ Request(fix.item) /\ fix.at # "submit" /\ fix'.at # "submit"
        /\ UNCHANGED << maps, phase, finals >>
    BY <1>5 DEF PushRequest, GInv, FixOK, Idle
  <2>2. fix.item \in WorkItem /\ fix.item.tag # "ORDER"
    BY <2>1, RequestIsWork
  <2>3. fix.item.tag = "REPLACE" => fix.item.req.new_qty \in ReplaceQtys
    BY <2>1 DEF RequestOK
  <2>4. fix.item.tag = "REPLACE" => fix.item.req.new_qty > 0
    <3>1. \A q \in ReplaceQtys : q > 0
      OBVIOUS
    <3> QED BY <2>3, <3>1
  <2> QED BY <2>1, <2>2, <2>4, RequestReports
<1>6. CASE \E c \in Clients : RecvMarketDataRequest(c)
  <2>1. [tag |-> "SNAPSHOT"] \in WorkItem
    BY DEF WorkItem
  <2>2. Request([tag |-> "SNAPSHOT"]) /\ fix = Idle /\ UNCHANGED gwvars
    BY <1>6 DEF RecvMarketDataRequest, RequestSnapshot, Receives
  <2>3. fix.at # "submit" /\ fix'.at # "submit" /\ UNCHANGED << maps, phase, finals >>
    BY <2>2 DEF gwvars, maps, Idle
  <2> QED BY <2>1, <2>2, <2>3, RequestReports
<1> QED BY <1>1, <1>2, <1>3, <1>4, <1>5, <1>6, LogonReports, RejectReports, AcceptReports,
           SubmitReports DEF GwFix, GwOrders

LEMMA FixKeepsRows ==
    ASSUME GwFix
    PROVE  rows' = rows
<1>1. \A c : (Logon(c) \/ Logout(c) \/ RecvMarketDataRequest(c)) => rows' = rows
  BY DEF Logon, Logout, RecvMarketDataRequest, RequestSnapshot, Request, vars
<1>2. SendStatus \/ SubmitNew \/ PushRequest => rows' = rows
  BY DEF SendStatus, SubmitNew, PushRequest, Request, vars
<1>3. \A m, c, cl : RejectNew(m, c) \/ AcceptNew(m, c, cl) => rows' = rows
  BY DEF RejectNew, Reject, AcceptNew
<1>4. \A c, orig, s : RecvCancel(c, orig, s) => rows' = rows
  BY DEF RecvCancel, vars
<1>5. \A c, orig, cl, s, side, p, q : RecvReplace(c, orig, cl, s, side, p, q) => rows' = rows
  BY DEF RecvReplace, vars
<1> QED BY <1>1, <1>2, <1>3, <1>4, <1>5 DEF GwFix, GwOrders

\* main() and the admin thread: a registered symbol brings an empty book.
LEMMA MainReports ==
    ASSUME GInv, rows = << >>, IdsOK, PartiesOK, FinalsOK, GwMain \/ GwAdmin
    PROVE  rows' = << >> /\ IdsOK' /\ PartiesOK' /\ FinalsOK'
<1>1. /\ UNCHANGED << gwvars, queue_, order_seq_, rows, cur, call >>
      /\ pc' = pc \/ (pc' = "run" /\ pc # "match")
      /\ books_' = books_ \/ \E s \in Symbols \ DOMAIN books_ : books_' = Put(books_, s, EmptyBook)
  <2>1. pc = "match" => main # "recovery"
    BY DEF GInv, IInv, RowsOK
  <2> QED BY <2>1 DEF GwMain, GwAdmin, MainNext, AdminNext, RestoreOrder, Start, StopAcceptor,
                      Stop, RegisterSymbol, valid_symbols_
<1>2. UNCHANGED << maps, finals, phase, fix >> /\ (pc' = "match" <=> pc = "match")
  BY <1>1 DEF gwvars, maps
<1>3. DOMAIN EmptyBook.order_index_ = {}
  BY DEF EmptyBook, NoEntry
<1>4. /\ \A s \in DOMAIN books_ : s \in DOMAIN books_' /\ books_'[s] = books_[s]
      /\ \A s \in DOMAIN books_' : s \notin DOMAIN books_ => DOMAIN books_'[s].order_index_ = {}
  BY <1>1, <1>3 DEF Put
<1>5. ListedIds' = ListedIds
  BY <1>4 DEF ListedIds
<1>6. /\ SubmitIds' = SubmitIds /\ CallIds' = CallIds /\ QueuedIds' = QueuedIds
      /\ MatchingIds' = MatchingIds /\ LiveIds' = LiveIds
  BY <1>1, <1>2, <1>5 DEF SubmitIds, CallIds, QueuedIds, MatchingIds, LiveIds, UnrestoredIds
<1>7. IdsOK'
  BY <1>1, <1>2, <1>6 DEF IdsOK, maps
<1>8. WaitingOK'
  BY <1>1, <1>2, MapsKept DEF PartiesOK, WaitingOK
<1>9. PartiesOK'
  BY <1>1, <1>2, <1>4, <1>6, <1>8, QuietHandler
<1>10. FinalsOK'
  BY <1>1, <1>2, <1>5, <1>6, FinalsFrame DEF maps
<1> QED BY <1>1, <1>7, <1>9, <1>10

---------------------------------------------------------------------------
(* The invariant                                                           *)

LEMMA ReportInit ==
    ASSUME RestingRows = {<< >>}, GwInit
    PROVE  KInv
<1>1. /\ rows = << >> /\ order_seq_ = 0 /\ queue_ = << >> /\ pc = "created" /\ call = NoCall
      /\ fix = Idle /\ order_sessions_ = NoEntry /\ clord_to_exchange_ = RestoredClOrds(rows)
      /\ active_orders_ = RestoredOrders(rows)
      /\ used = DOMAIN clord_to_exchange_ /\ finals = [id \in DOMAIN active_orders_ |-> 0]
      /\ \A s \in DOMAIN books_ : books_[s] = EmptyBook
  BY DEF GwInit, Init
<1>2. DOMAIN active_orders_ = {} /\ DOMAIN clord_to_exchange_ = {} /\ DOMAIN order_sessions_ = {}
      /\ used = {} /\ DOMAIN finals = {}
  BY <1>1 DEF RestoredClOrds, RestoredOrders, NoEntry
<1>3. /\ DOMAIN EmptyBook.order_index_ = {} /\ DOMAIN queue_ = {}
  BY <1>1 DEF EmptyBook, NoEntry
<1>4. IdsOK
  BY <1>1, <1>2 DEF IdsOK, CallIds, NoCall
<1>5. ClaimsOK
  <2> DEFINE w == [x \in {} |-> 0]
  <2>1. w \in [used -> Nat]
    BY <1>2
  <2>2. OwnersOK(w)
    BY <1>1, <1>2, <1>3 DEF OwnersOK, MapOwners, BookOwners, QueueOwners, FixOwners,
                            EngineOwners, CallOwners, NoCall, Idle
  <2> QED BY <2>1, <2>2 DEF ClaimsOK
<1>6. PartiesOK
  BY <1>1, <1>2, <1>3 DEF PartiesOK, WaitingOK, ListedOK, CurrentOK, FillOK, CallbackOK, NoCall,
                          Idle
<1>7. FinalsOK
  BY <1>2 DEF FinalsOK
<1> QED BY <1>1, <1>4, <1>5, <1>6, <1>7 DEF KInv

\* A step that changes nothing this is about, such as one that only moves events.
LEMMA ReportFrame ==
    ASSUME GInv, KInv, UNCHANGED << vars, maps, finals, phase, fix, used >>
    PROVE  KInv'
<1>1. rows = << >> /\ IdsOK /\ ClaimsOK /\ PartiesOK /\ FinalsOK
  BY DEF KInv
<1>2. /\ UNCHANGED << maps, finals, phase, fix, used >>
      /\ UNCHANGED << books_, queue_, order_seq_, rows, pc, cur, call >>
  BY DEF vars
<1>3. /\ SubmitIds' = SubmitIds /\ CallIds' = CallIds /\ QueuedIds' = QueuedIds
      /\ ListedIds' = ListedIds /\ MatchingIds' = MatchingIds /\ LiveIds' = LiveIds
  BY <1>2 DEF SubmitIds, CallIds, QueuedIds, ListedIds, MatchingIds, LiveIds, UnrestoredIds
<1>4. IdsOK'
  BY <1>1, <1>2, <1>3 DEF IdsOK, maps
<1>5. WaitingOK'
  BY <1>1, <1>2, MapsKept DEF PartiesOK, WaitingOK
<1>6. PartiesOK'
  BY <1>1, <1>2, <1>3, <1>5, QuietHandler
<1>7. FinalsOK'
  BY <1>1, <1>2, <1>3, FinalsFrame DEF maps
<1>8. ClaimsOK'
  <2>1. PICK w \in [used -> Nat] : OwnersOK(w)
    BY <1>1 DEF ClaimsOK
  <2>2. MapOwners(w)' /\ BookOwners(w)' /\ QueueOwners(w)'
    BY <1>2, <2>1 DEF OwnersOK, MapOwners, BookOwners, QueueOwners, maps
  <2>3. FixOwners(w)' /\ EngineOwners(w)' /\ CallOwners(w)'
    BY <1>2, <2>1 DEF OwnersOK, FixOwners, EngineOwners, CallOwners
  <2>4. w \in [used' -> Nat] /\ OwnersOK(w)'
    BY <1>2, <2>1, <2>2, <2>3 DEF OwnersOK
  <2> QED BY <2>4 DEF ClaimsOK
<1> QED BY <1>1, <1>2, <1>4, <1>6, <1>7, <1>8 DEF KInv

LEMMA ReportStepOK ==
    ASSUME ReplaceQtys \subseteq Nat \ {0}, GInv, KInv, [GwNext]_allvars
    PROVE  KInv'
<1>1. GInv'
  BY GwNextStep
<1>2. rows = << >> /\ IdsOK /\ ClaimsOK /\ PartiesOK /\ FinalsOK
  BY DEF KInv
<1>3. ClaimsOK'
  BY <1>2, ClaimsStep
<1>4. CASE GwMain \/ GwAdmin
  BY <1>2, <1>3, <1>4, MainReports DEF KInv
<1>5. CASE GwFix
  <2>1. rows' = rows
    BY <1>5, FixKeepsRows
  <2> QED BY <1>1, <1>2, <1>3, <1>5, <2>1, FixReports DEF KInv
<1>6. CASE GwEngine
  <2>1. CASE /\ RunOrder \/ RunCancel \/ RunReplace \/ RunSnapshot \/ MatchFill \/ MatchEnd \/ Exit
             /\ UNCHANGED gwvars
    <3>1. rows' = rows
      BY <2>1 DEF RunOrder, RunCancel, RunReplace, RunSnapshot, MatchFill, MatchEnd, Exit
    <3> QED BY <1>1, <1>2, <1>3, <2>1, <3>1, EngineSideParties, EngineSideReports, SMTT(30) DEF KInv
  <2>2. CASE OnFillStep \/ OnCancelStep \/ OnReplaceStep \/ OnTifCancelStep \/ OnOrderRestedStep
                 \/ SnapshotStep
    <3>1. rows' = rows
      BY <2>2 DEF OnFillStep, SendFillRoute, SendFillReport, FillTrade, FillReturn,
         OnCancelStep, OnReplaceStep, OnTifCancelStep, OnOrderRestedStep, SnapshotStep,
         Return, CallbackReturn, vars
    <3> QED BY <1>2, <1>3, <2>2, <3>1, CallbackReports DEF KInv
  <2> QED BY <1>6, <2>1, <2>2 DEF GwEngine
<1>7. CASE GwOver \/ UNCHANGED allvars
  <2>1. UNCHANGED << vars, maps, finals, phase, fix, used >>
    BY <1>7 DEF GwOver, Over, allvars, gwvars, maps
  <2> QED BY <2>1, ReportFrame
<1> QED BY <1>4, <1>5, <1>6, <1>7 DEF GwNext

\* What the gateway knows of every order the engine holds, of the parties of a fill that is
\* being reported and of the order a callback ends holds at every step of every thread.
THEOREM ReportInvariant ==
    ASSUME RestingRows = {<< >>}, ReplaceQtys \subseteq Nat \ {0}
    PROVE  GwSpec => []KInv
<1>1. GwInit => KInv
  BY ReportInit
<1>2. GInv /\ KInv /\ [GwNext]_allvars => KInv'
  BY ReportStepOK
<1> QED BY <1>1, <1>2, GatewayInvariant, PTL DEF GwSpec

\* send_fill finds the session of both parties of every fill, for any number of clients,
\* orders and requests: its early return never drops a report of an order that was
\* accepted in this run of the process.
THEOREM EveryFillIsReported ==
    ASSUME RestingRows = {<< >>}, ReplaceQtys \subseteq Nat \ {0}
    PROVE  GwSpec => []FillsReachParties
<1>1. GInv /\ KInv => FillsReachParties
  <2> SUFFICES ASSUME GInv, KInv PROVE FillsReachParties
    OBVIOUS
  <2>1. ASSUME InCallback("on_fill", "begin")
        PROVE  Known(call.maker.exchange_id, call.maker.client_id)
    <3>1. call.fn = "on_fill" /\ phase = "begin" /\ call.maker.leaves_qty >= 0
          /\ call.maker \in Fill /\ IInv /\ ListedOK /\ FillOK
      BY <2>1 DEF InCallback, KInv, PartiesOK, FillOK, GInv, CallOK
    <3>2. CASE call.maker.leaves_qty = 0
      BY <3>1, <3>2 DEF FillOK
    <3>3. CASE call.maker.leaves_qty > 0
      <4>1. PICK s \in DOMAIN books_ :
                /\ call.maker.exchange_id \in DOMAIN books_[s].order_index_
                /\ books_[s].order_index_[call.maker.exchange_id].client_id = call.maker.client_id
        BY <3>1, <3>3 DEF FillOK
      <4>2. books_[s].order_index_[call.maker.exchange_id].exchange_id = call.maker.exchange_id
        BY <3>1, <4>1, EntryFields
      <4>3. RestingOK(books_[s].order_index_[call.maker.exchange_id])
        BY <3>1, <4>1 DEF ListedOK
      <4> QED BY <4>1, <4>2, <4>3 DEF RestingOK
    <3>4. call.maker.leaves_qty \in Int
      BY <3>1, FillFields
    <3> QED BY <3>1, <3>2, <3>3, <3>4
  <2>2. ASSUME InCallback("on_fill", "taker")
        PROVE  Known(call.taker.exchange_id, call.taker.client_id)
    <3>1. call.fn = "on_fill" /\ phase = "taker" /\ FillOK /\ CurrentOK
      BY <2>2 DEF InCallback, KInv, PartiesOK
    <3> QED BY <3>1 DEF FillOK, CurrentOK, InFill
  <2> QED BY <2>1, <2>2 DEF FillsReachParties, Known
<1> QED BY <1>1, GatewayInvariant, ReportInvariant, PTL

\* No order's end is told twice, and when nothing is under way every accepted order has had
\* its final report, is resting, or is one that add() drops without a callback: the
\* remainder of a market order, or an order whose quantity was cast to 0.
THEOREM EveryEndIsToldOnce ==
    ASSUME RestingRows = {<< >>}, ReplaceQtys \subseteq Nat \ {0}
    PROVE  GwSpec => []EndToldOnce
<1>1. KInv => EndToldOnce
  <2> SUFFICES ASSUME KInv PROVE EndToldOnce
    OBVIOUS
  <2>1. \A id \in DOMAIN finals : finals[id] \in {0, 1} /\ (finals[id] = 0 => Untold(id))
    BY DEF KInv, FinalsOK
  <2>2. ASSUME Quiescent, NEW id, Untold(id)
        PROVE  id \in ListedIds \/ Silent(id)
    <3>1. fix = Idle /\ queue_ = << >> /\ pc = "run" /\ call = NoCall
      BY <2>2 DEF Quiescent
    <3>2. QueuedIds = {} /\ MatchingIds = {}
      BY <3>1 DEF QueuedIds, MatchingIds
    <3> QED BY <2>2, <3>1, <3>2 DEF Untold, Idle, NoCall, MakerLeft, InFill
  <2> QED BY <2>1, <2>2 DEF EndToldOnce, Silent
<1> QED BY <1>1, ReportInvariant, PTL

\* Whenever nothing is under way, the gateway's copy of every resting order agrees with the
\* book and the order's current ClOrdID finds it, whatever fills, cancels and replaces
\* crossed each other on the way.
THEOREM GatewayAgreesWithBook ==
    ASSUME RestingRows = {<< >>}, ReplaceQtys \subseteq Nat \ {0}
    PROVE  GwSpec => []AgreesWithBook
<1>1. GInv /\ KInv => AgreesWithBook
  <2> SUFFICES ASSUME GInv, KInv, Quiescent, NEW id \in ListedIds
               PROVE  /\ id \in DOMAIN active_orders_
                      /\ \A f \in {"symbol", "side", "price", "leaves_qty", "client_id"} :
                             active_orders_[id][f] = BookOrder(id)[f]
                      /\ active_orders_[id].clord_id \in DOMAIN clord_to_exchange_
                      /\ clord_to_exchange_[active_orders_[id].clord_id] = id
    BY DEF AgreesWithBook
  <2>1. IInv /\ ListedOK /\ call = NoCall
    BY DEF GInv, KInv, PartiesOK, Quiescent
  <2>2. PICK s \in DOMAIN books_ : id \in DOMAIN books_[s].order_index_
    BY DEF ListedIds
  <2>3. BookOrder(id) = books_[s].order_index_[id]
    <3>1. \A t \in DOMAIN books_ : id \in DOMAIN books_[t].order_index_ => t = s
      BY <2>1, <2>2, EntryUnique
    <3>2. (CHOOSE t \in DOMAIN books_ : id \in DOMAIN books_[t].order_index_) = s
      BY <2>2, <3>1
    <3> QED BY <3>2 DEF BookOrder
  <2>4. PICK e : e = books_[s].order_index_[id]
    OBVIOUS
  <2>5. Agrees(e) /\ e.exchange_id = id
    BY <2>1, <2>2, <2>4, RestingAgrees, EntryFields
  <2>6. /\ Known(id, e.client_id)
        /\ active_orders_[id].symbol = e.symbol /\ active_orders_[id].side = e.side
        /\ active_orders_[id].price = e.price /\ active_orders_[id].leaves_qty = e.leaves_qty
    BY <2>5 DEF Agrees, SameOrder, SamePrice, SameLeaves
  <2> QED BY <2>3, <2>4, <2>6 DEF Known
<1> QED BY <1>1, GatewayInvariant, ReportInvariant, PTL

---------------------------------------------------------------------------
(***************************************************************************)
(* A table kept from the callbacks.  The database and the subscribers of   *)
(* the feed learn of the orders only by what the callbacks pass on.  T is  *)
(* a set of such rows of orders, U the one after the step: when every      *)
(* report is put into the table, it follows the books step by step, up to  *)
(* what the callback in progress still owes.                               *)
(***************************************************************************)

RowLike(r, o) ==
    /\ r.exchange_id = o.exchange_id /\ r.client_id = o.client_id
    /\ r.symbol = o.symbol /\ r.side = o.side

\* The callback that still has to report the order as rested, or the maker's fill.
RowOwed(id) == call.fn = "on_order_rested" /\ call.order.exchange_id = id
FillOwed(id) ==
    InFill({"begin", "maker_orders", "taker", "taker_orders", "trade"})
        /\ call.maker.exchange_id = id

\* The row of a resting order, up to what the callback in progress has to report.
ListedRow(T, o) ==
    IF RowOwed(o.exchange_id) THEN /\ RowLike(call.order, o) /\ call.order.price = o.price
                                   /\ call.leaves_qty = o.leaves_qty
    ELSE \E r \in T :
             /\ RowLike(r, o)
             /\ ~Replacing(o.exchange_id) => r.price = o.price
             /\ ~Replacing(o.exchange_id) /\ ~FillOwed(o.exchange_id)
                    => r.leaves_qty = o.leaves_qty

BooksRowed(T) ==
    \A s \in DOMAIN books_ : \A id \in DOMAIN books_[s].order_index_ :
        ListedRow(T, books_[s].order_index_[id])

\* replace() keeps the row of the order it takes out and matches again.
AmendedRow(T) == pc = "match" /\ cur.tag = "REPLACE" => \E r \in T : RowLike(r, cur.order)

\* add() calls back for fills only.
InAdd == pc = "match" => call.fn \in {"none", "on_fill"}

RowsFollow(T) == BooksRowed(T) /\ AmendedRow(T) /\ InAdd

\* The row of an order whose last change was reported.
FullRow(T, o) ==
    \E r \in T : RowLike(r, o) /\ r.price = o.price /\ r.leaves_qty = o.leaves_qty

LEMMA IdleRows ==
    ASSUME NEW T, BooksRowed(T), call = NoCall
    PROVE  \A s \in DOMAIN books_ : \A id \in DOMAIN books_[s].order_index_ :
               FullRow(T, books_[s].order_index_[id])
<1>1. \A id : ~Replacing(id) /\ ~FillOwed(id) /\ ~RowOwed(id)
  BY DEF Replacing, FillOwed, RowOwed, InFill, NoCall
<1> QED BY <1>1 DEF BooksRowed, ListedRow, FullRow

\* The books after a step of the engine that changed one entry.
LEMMA RowsUpdate ==
    ASSUME NEW T, IInv, BooksRowed(T), call = NoCall, NEW s, NEW x, NEW n,
           \/ StillBooks
           \/ Indexed(s, Drop(books_[s].order_index_, x))
           \/ Indexed(s, Put(books_[s].order_index_, x, n)) /\ ListedRow(T, n)',
           call'.fn = "on_order_rested" => call'.order.exchange_id \notin ListedIds
    PROVE  BooksRowed(T)'
<1>1. \A t \in DOMAIN books_ : \A id \in DOMAIN books_[t].order_index_ :
          \A e : e = books_[t].order_index_[id] => ListedRow(T, e)'
  <2> SUFFICES ASSUME NEW t \in DOMAIN books_, NEW id \in DOMAIN books_[t].order_index_,
                      NEW e, e = books_[t].order_index_[id]
               PROVE  ListedRow(T, e)'
    OBVIOUS
  <2>1. FullRow(T, e)
    BY IdleRows
  <2>2. e.exchange_id = id /\ id \in ListedIds
    BY EntryFields
  <2>3. ~RowOwed(e.exchange_id)'
    BY <2>2 DEF RowOwed
  <2> QED BY <2>1, <2>3 DEF FullRow, ListedRow
<1>2. CASE StillBooks
  BY <1>1, <1>2 DEF BooksRowed, StillBooks
<1>3. CASE ~StillBooks
  <2>1. s \in DOMAIN books_ /\ DOMAIN books_' = DOMAIN books_
        /\ \A t \in DOMAIN books_ : t # s => books_'[t] = books_[t]
    BY <1>3 DEF Indexed
  <2>2. \A id \in DOMAIN books_'[s].order_index_ :
            \/ /\ id \in DOMAIN books_[s].order_index_
               /\ books_'[s].order_index_[id] = books_[s].order_index_[id]
            \/ books_'[s].order_index_[id] = n /\ ListedRow(T, n)'
    BY <1>3 DEF Indexed, Drop, Put
  <2>3. \A t \in DOMAIN books_' : \A id \in DOMAIN books_'[t].order_index_ :
            \A e : e = books_'[t].order_index_[id] => ListedRow(T, e)'
    BY <1>1, <2>1, <2>2
  <2> QED BY <2>3 DEF BooksRowed
<1> QED BY <1>2, <1>3

\* A new order has no row yet.
LEMMA RunOrderRows ==
    ASSUME NEW T, GInv, RowsFollow(T), RunOrder
    PROVE  RowsFollow(T)'
<1>1. /\ UNCHANGED books_ /\ call = NoCall /\ pc = "run"
      /\ \/ call'.fn = "on_tif_cancel" /\ pc' = pc
         \/ call' = NoCall /\ cur'.tag = "ORDER"
  BY RunOrderFacts
<1>2. BooksRowed(T)'
  BY <1>1, RowsUpdate DEF StillBooks, NoCall, RowsFollow, GInv
<1>3. AmendedRow(T)' /\ InAdd'
  BY <1>1 DEF AmendedRow, InAdd, NoCall
<1> QED BY <1>2, <1>3 DEF RowsFollow

LEMMA RunCancelRows ==
    ASSUME NEW T, GInv, RowsFollow(T), RunCancel
    PROVE  RowsFollow(T)'
<1> DEFINE req == Head(queue_).req
<1>1. /\ call = NoCall /\ pc' # "match" /\ (call' = NoCall \/ call'.fn = "on_cancel")
      /\ StillBooks
           \/ Indexed(req.symbol, Drop(books_[req.symbol].order_index_, req.orig_order_id))
  BY RunCancelFacts, Zenon
<1>2. PICK s, x : s = req.symbol /\ x = req.orig_order_id
  OBVIOUS
<1>3. /\ StillBooks \/ Indexed(s, Drop(books_[s].order_index_, x))
      /\ call'.fn \in {"none", "on_cancel"}
  BY <1>1, <1>2 DEF NoCall
<1>4. BooksRowed(T)'
  BY <1>1, <1>3, RowsUpdate DEF RowsFollow, GInv
<1> QED BY <1>1, <1>3, <1>4 DEF RowsFollow, AmendedRow, InAdd

\* replace(): the row waits for onReplace, in place or through add().
LEMMA RunReplaceRows ==
    ASSUME NEW T, GInv, GInv', WaitingOK, UNCHANGED gwvars, RowsFollow(T), RunReplace
    PROVE  RowsFollow(T)'
<1>1. PICK req, s, id, e : /\ req = Head(queue_).req /\ s = req.symbol
                           /\ id = req.orig_order_id /\ e = books_[s].order_index_[id]
  BY SMTT(30)
<1>2. /\ Pop("REPLACE") /\ call = NoCall /\ pc = "run" /\ IInv
      /\ \/ call' = NoCall /\ pc' # "match" /\ StillBooks
         \/ call'.fn = "on_replace" /\ pc' # "match" /\ StillBooks
         \/ /\ call'.fn = "on_replace" /\ call'.req = req /\ call'.leaves_qty = req.new_qty
            /\ pc' # "match"
            /\ s \in DOMAIN books_ /\ id \in DOMAIN books_[s].order_index_
            /\ \E n : Alike(n, e) /\ Indexed(s, Put(books_[s].order_index_, id, n))
         \/ /\ call' = NoCall /\ cur'.tag = "REPLACE"
            /\ s \in DOMAIN books_ /\ id \in DOMAIN books_[s].order_index_
            /\ Alike(cur'.order, e) /\ Indexed(s, Drop(books_[s].order_index_, id))
  <2> HIDE DEF GInv
  <2> QED BY <1>1, RunReplaceFacts, ZenonT(40) DEF GInv
<1>3. req.new_qty > 0
  BY <1>1, <1>2, PopParties, Zenon DEF gwvars, maps
<1>4. CASE pc' # "match" /\ StillBooks /\ call'.fn \in {"none", "on_replace"}
  <2>1. BooksRowed(T)'
    BY <1>2, <1>4, RowsUpdate DEF RowsFollow
  <2> QED BY <1>4, <2>1 DEF RowsFollow, AmendedRow, InAdd
<1>5. CASE /\ call'.fn = "on_replace" /\ call'.req = req /\ call'.leaves_qty = req.new_qty
           /\ pc' # "match"
           /\ s \in DOMAIN books_ /\ id \in DOMAIN books_[s].order_index_
           /\ \E n : Alike(n, e) /\ Indexed(s, Put(books_[s].order_index_, id, n))
  <2>1. PICK n : Alike(n, e) /\ Indexed(s, Put(books_[s].order_index_, id, n))
    BY <1>5, SMTT(30)
  <2>2. e.exchange_id = id
    BY <1>1, <1>2, <1>5, EntryFields, Zenon
  <2>3. call'.found = (call'.leaves_qty >= 0) /\ call'.leaves_qty \in Int
    BY <1>5 DEF GInv, CallOK
  <2>4. Replacing(n.exchange_id)'
    <3>1. (call'.leaves_qty >= 0) = TRUE
      BY <1>3, <1>5, <2>3
    <3>2. call'.found
      BY <2>3, <3>1, Zenon
    <3>3. n.exchange_id = id /\ call'.req.orig_order_id = id
      BY <1>1, <1>5, <2>1, <2>2, ZenonT(40) DEF Alike
    <3> QED BY <1>5, <3>2, <3>3 DEF Replacing
  <2>5. FullRow(T, e)
    BY <1>1, <1>2, <1>5, IdleRows, Zenon DEF RowsFollow
  <2>6. ListedRow(T, n)'
    BY <1>5, <2>1, <2>4, <2>5 DEF FullRow, ListedRow, RowOwed, RowLike, Alike
  <2>7. BooksRowed(T)'
    BY <1>2, <1>5, <2>1, <2>6, RowsUpdate DEF RowsFollow
  <2> QED BY <1>5, <2>7 DEF RowsFollow, AmendedRow, InAdd
<1>6. CASE /\ call' = NoCall /\ cur'.tag = "REPLACE"
           /\ s \in DOMAIN books_ /\ id \in DOMAIN books_[s].order_index_
           /\ Alike(cur'.order, e) /\ Indexed(s, Drop(books_[s].order_index_, id))
  <2>1. FullRow(T, e)
    BY <1>1, <1>2, <1>6, IdleRows, Zenon DEF RowsFollow
  <2>2. AmendedRow(T)' /\ InAdd'
    BY <1>6, <2>1 DEF FullRow, AmendedRow, RowLike, Alike, InAdd, NoCall
  <2>3. BooksRowed(T)'
    BY <1>2, <1>6, RowsUpdate DEF RowsFollow, NoCall
  <2> QED BY <2>2, <2>3 DEF RowsFollow
<1> QED BY <1>2, <1>4, <1>5, <1>6 DEF NoCall

\* One iteration of match_against: the maker's row waits for its fill.
LEMMA MatchFillRows ==
    ASSUME NEW T, GInv, UNCHANGED gwvars, RowsFollow(T), MatchFill
    PROVE  RowsFollow(T)'
<1>1. PICK o, s : o = cur.order /\ s = o.symbol
  OBVIOUS
<1>2. /\ pc = "match" /\ call = NoCall /\ pc' = pc /\ s \in DOMAIN books_ /\ IInv
      /\ cur'.tag = cur.tag /\ Alike(cur'.order, o) /\ call'.fn = "on_fill"
      /\ \E id \in DOMAIN books_[s].order_index_ :
             LET r == books_[s].order_index_[id]
             IN  /\ FillOf(call'.maker, r)
                 /\ \/ Indexed(s, Drop(books_[s].order_index_, id))
                    \/ \E n : /\ Alike(n, r) /\ n.price = r.price
                              /\ Indexed(s, Put(books_[s].order_index_, id, n))
  <2> HIDE DEF GInv
  <2> QED BY <1>1, MatchFillFacts DEF GInv
<1>3. PICK id, r :
          /\ id \in DOMAIN books_[s].order_index_
          /\ r = books_[s].order_index_[id] /\ FillOf(call'.maker, r)
          /\ \/ Indexed(s, Drop(books_[s].order_index_, id))
             \/ \E n : /\ Alike(n, r) /\ n.price = r.price
                       /\ Indexed(s, Put(books_[s].order_index_, id, n))
  BY <1>2
<1>4. phase' = "begin"
  BY <1>2 DEF GInv, PhaseOK, NoCall, gwvars
<1>5. BooksRowed(T)'
  <2>1. CASE Indexed(s, Drop(books_[s].order_index_, id))
    BY <1>2, <2>1, RowsUpdate DEF RowsFollow
  <2>2. CASE ~Indexed(s, Drop(books_[s].order_index_, id))
    <3>1. PICK n : /\ Alike(n, r) /\ n.price = r.price
                   /\ Indexed(s, Put(books_[s].order_index_, id, n))
      BY <1>3, <2>2
    <3>2. FillOwed(n.exchange_id)'
      BY <1>2, <1>3, <1>4, <3>1 DEF FillOwed, InFill, FillOf, Alike
    <3>3. FullRow(T, r)
      BY <1>2, <1>3, IdleRows DEF RowsFollow
    <3>4. ListedRow(T, n)'
      BY <1>2, <3>1, <3>2, <3>3, SMTT(30) DEF FullRow, ListedRow, RowOwed, RowLike, Alike
    <3> QED BY <1>2, <3>1, <3>4, RowsUpdate DEF RowsFollow
  <2> QED BY <2>1, <2>2
<1>6. AmendedRow(T)'
  BY <1>1, <1>2 DEF RowsFollow, AmendedRow, RowLike, Alike
<1> QED BY <1>2, <1>5, <1>6 DEF RowsFollow, InAdd

\* The tail of on_order_rested: add() has put the remainder of a new order on its level.
LEMMA RestedFacts ==
    ASSUME GInv, MatchEnd
    PROVE  LET o == cur.order
           IN  /\ call'.fn = "on_order_rested" =>
                      /\ cur.tag = "ORDER" /\ o.tif = "gtc" /\ o.type = "limit" /\ o.leaves_qty > 0
                      /\ call'.leaves_qty = o.leaves_qty
                      /\ Alike(call'.order, o) /\ call'.order.price = o.price
                      /\ call'.order \in Order /\ call'.order.price \in Prices
               /\ cur.tag = "ORDER" /\ o.tif = "gtc" /\ o.type = "limit" /\ o.leaves_qty > 0
                      => call'.fn = "on_order_rested"
<1> DEFINE o == cur.order
           k == [o EXCEPT !.leaves_qty = o.qty]
<1>1. /\ pc = "match" /\ call' = AfterAdd(cur)
  BY DEF MatchEnd
<1>2. cur \in Aggressor /\ o \in Order /\ PriceOK(o) /\ cur.tag \in {"ORDER", "REPLACE"}
  BY <1>1 DEF GInv, IInv, TypeOK, CurOK, Aggressor
<1>3. o.tif \in Tifs /\ o.qty \in Int
  BY <1>2 DEF Order
<1>4. k \in Order /\ Alike(k, o) /\ k.price = o.price
  BY <1>2, <1>3 DEF Order, Alike
<1>5. \/ cur.tag = "REPLACE" /\ call' = OnReplace(cur.req, o.leaves_qty)
      \/ cur.tag = "ORDER" /\ o.tif = "ioc" /\ o.leaves_qty > 0 /\ call' = OnTifCancel(o)
      \/ /\ cur.tag = "ORDER" /\ o.tif = "gtc" /\ o.leaves_qty > 0 /\ o.type = "limit"
         /\ call' = OnOrderRested(k, o.leaves_qty)
      \/ /\ cur.tag = "ORDER" /\ call' = NoCall
         /\ ~(o.tif = "gtc" /\ o.leaves_qty > 0 /\ o.type = "limit")
  BY <1>1, <1>2 DEF AfterAdd
<1> HIDE DEF o, k
<1>6. \/ call'.fn # "on_order_rested" /\ ~(cur.tag = "ORDER" /\ o.tif = "gtc" /\ o.leaves_qty > 0
                                              /\ o.type = "limit")
      \/ /\ cur.tag = "ORDER" /\ o.tif = "gtc" /\ o.leaves_qty > 0 /\ o.type = "limit"
         /\ call'.fn = "on_order_rested" /\ call'.order = k /\ call'.leaves_qty = o.leaves_qty
  BY <1>5 DEF OnReplace, OnTifCancel, OnOrderRested, NoCall
<1> QED BY <1>2, <1>4, <1>6 DEF o, PriceOK

\* The end of add(): the remainder waits for on_order_rested or onReplace.
LEMMA MatchEndRows ==
    ASSUME NEW T, GInv, GInv', CurrentOK, EntriesOK', RowsFollow(T), MatchEnd
    PROVE  RowsFollow(T)'
<1>1. PICK o, s, id : o = cur.order /\ s = o.symbol /\ id = o.exchange_id
  OBVIOUS
<1>2. /\ pc = "match" /\ call = NoCall /\ pc' = "run" /\ s \in DOMAIN books_ /\ o \in Order /\ IInv
      /\ IF o.leaves_qty > 0 /\ o.type = "limit" /\ o.tif # "ioc"
         THEN Indexed(s, Put(books_[s].order_index_, id, o))
         ELSE StillBooks
      /\ \/ /\ cur.tag = "REPLACE" /\ call'.fn = "on_replace" /\ call'.req = cur.req
            /\ call'.leaves_qty = o.leaves_qty
         \/ cur.tag = "ORDER"
  <2> HIDE DEF GInv
  <2> QED BY <1>1, MatchEndFacts DEF GInv
<1>3. /\ call'.fn = "on_order_rested" =>
             /\ Alike(call'.order, o) /\ call'.order.price = o.price
             /\ call'.leaves_qty = o.leaves_qty
      /\ cur.tag = "ORDER" /\ o.tif = "gtc" /\ o.type = "limit" /\ o.leaves_qty > 0
             => call'.fn = "on_order_rested"
  BY <1>1, RestedFacts
<1>4. id \notin ListedIds
  BY <1>1, <1>2 DEF IInv, Fresh, OnePlace, MatchingIds
<1>5. call'.fn = "on_order_rested" => call'.order.exchange_id \notin ListedIds
  BY <1>1, <1>3, <1>4 DEF Alike
<1>6. AmendedRow(T)' /\ InAdd'
  BY <1>2 DEF AmendedRow, InAdd
<1>7. CASE StillBooks
  BY <1>2, <1>5, <1>6, <1>7, RowsUpdate DEF RowsFollow
<1>8. CASE ~StillBooks
  <2>1. /\ o.leaves_qty > 0 /\ o.type = "limit" /\ o.tif # "ioc"
        /\ Indexed(s, Put(books_[s].order_index_, id, o))
    BY <1>2, <1>8
  <2>2. CASE cur.tag = "REPLACE"
    <3>1. call'.fn = "on_replace" /\ call'.req = cur.req /\ call'.leaves_qty = o.leaves_qty
      BY <1>2, <2>2
    <3>2. cur.req.orig_order_id = id
      BY <1>1, <1>2, <2>2 DEF CurrentOK
    <3>3. call'.found = (call'.leaves_qty >= 0)
      BY <3>1 DEF GInv, CallOK
    <3>4. (call'.leaves_qty >= 0) = TRUE
      BY <1>2, <2>1, <3>1 DEF Order
    <3>5. call'.found
      BY <3>3, <3>4, Zenon
    <3>6. Replacing(o.exchange_id)'
      BY <1>1, <3>1, <3>2, <3>5 DEF Replacing
    <3>7. \E r \in T : RowLike(r, o)
      BY <1>1, <1>2, <2>2 DEF RowsFollow, AmendedRow
    <3>8. ListedRow(T, o)'
      BY <3>1, <3>6, <3>7 DEF ListedRow, RowOwed
    <3> QED BY <1>2, <1>5, <1>6, <2>1, <3>8, RowsUpdate DEF RowsFollow
  <2>3. CASE cur.tag = "ORDER"
    <3>1. books_'[s].order_index_[id] = o /\ s \in DOMAIN books_'
          /\ id \in DOMAIN books_'[s].order_index_
      BY <1>2, <2>1 DEF Indexed, Put
    <3>2. o.tif # "fok"
      BY <3>1 DEF EntriesOK, EntryOK
    <3>3. o.tif = "gtc"
      BY <1>2, <2>1, <3>2 DEF Order, Tifs
    <3>4. /\ call'.fn = "on_order_rested" /\ Alike(call'.order, o)
          /\ call'.order.price = o.price /\ call'.leaves_qty = o.leaves_qty
      BY <1>3, <2>1, <2>3, <3>3
    <3>5. ListedRow(T, o)'
      BY <3>4 DEF ListedRow, RowOwed, RowLike, Alike
    <3> QED BY <1>2, <1>5, <1>6, <2>1, <3>5, RowsUpdate DEF RowsFollow
  <2> QED BY <1>2, <2>2, <2>3
<1> QED BY <1>7, <1>8

\* The engine's own steps.
LEMMA EngineRows ==
    ASSUME NEW T, GInv, GInv', KInv, FInv, UNCHANGED gwvars, RowsFollow(T),
           RunOrder \/ RunCancel \/ RunReplace \/ RunSnapshot \/ MatchFill \/ MatchEnd \/ Exit
    PROVE  EntriesOK' /\ Covered' /\ RowsFollow(T)'
<1>1. IInv /\ WaitingOK /\ CurrentOK
  BY DEF GInv, KInv, PartiesOK
<1>2. CASE RunOrder
  BY <1>1, <1>2, FokRunOrder, RunOrderRows DEF FInv
<1>3. CASE RunCancel
  BY <1>1, <1>3, FokRunCancel, RunCancelRows DEF FInv
<1>4. CASE RunReplace
  BY <1>1, <1>4, FokRunReplace, RunReplaceRows DEF FInv
<1>5. CASE MatchFill
  BY <1>1, <1>5, FokMatchFill, MatchFillRows DEF FInv
<1>6. CASE MatchEnd
  <2>1. FInv'
    BY <1>1, <1>6, FokMatchEnd
  <2> QED BY <1>1, <1>6, <2>1, MatchEndRows DEF FInv
<1>7. CASE RunSnapshot \/ Exit
  <2>1. /\ UNCHANGED << books_, cur >> /\ pc = "run" /\ pc' # "match" /\ call = NoCall
        /\ call'.fn \in {"none", "snapshot_cb"}
    BY <1>7 DEF RunSnapshot, Exit, Pop, SnapshotCb, NoCall
  <2>2. BooksRowed(T)'
    BY <1>1, <2>1, RowsUpdate DEF StillBooks, RowsFollow
  <2> QED BY <2>1, <2>2, FokFrame DEF RowsFollow, AmendedRow, InAdd
<1> QED BY <1>2, <1>3, <1>4, <1>5, <1>6, <1>7
\* What a callback's step pushes, if it pushes anything.
EventOf(e) ==
    \/ /\ e = [type |-> "FILL", fill |-> call.maker]
       /\ InFill({"trade"}) /\ UNCHANGED << vars, maps >> /\ phase' = "taker_event"
    \/ /\ e = [type |-> "TAKER_FILL", fill |-> call.taker]
       /\ InFill({"taker_event"}) /\ CallbackReturn /\ UNCHANGED maps
    \/ LET id == call.req.orig_order_id
       IN  /\ e = [type |-> "CANCEL", order |-> active_orders_[id]]
           /\ call.fn = "on_cancel" /\ call.found /\ CallbackReturn
           /\ id \in DOMAIN active_orders_ /\ active_orders_' = Drop(active_orders_, id)
    \/ LET id == call.req.orig_order_id
       IN  /\ e = [type |-> "REPLACE", req |-> call.req,
                   leaves_qty |-> IF call.leaves_qty > 0 THEN call.leaves_qty ELSE 0]
           /\ call.fn = "on_replace" /\ call.found /\ CallbackReturn
    \/ /\ e = [type |-> "RESTED", order |-> call.order, leaves_qty |-> call.leaves_qty]
       /\ call.fn = "on_order_rested" /\ CallbackReturn /\ UNCHANGED maps

GwCallback ==
    OnFillStep \/ OnCancelStep \/ OnReplaceStep \/ OnTifCancelStep \/ OnOrderRestedStep \/ SnapshotStep

\* ... and one that pushes nothing.
Unreported ==
    \/ /\ call.fn = "on_fill" /\ phase \in {"begin", "maker_orders", "taker", "taker_orders"}
       /\ UNCHANGED vars /\ phase' \in {"maker_orders", "taker", "taker_orders", "trade"}
    \/ /\ call.fn = "on_cancel" /\ CallbackReturn
       /\ ~(/\ call.found /\ call.req.orig_order_id \in DOMAIN order_sessions_
            /\ call.req.orig_order_id \in DOMAIN active_orders_)
    \/ /\ call.fn = "on_replace" /\ CallbackReturn
       /\ ~(/\ call.found /\ call.req.orig_order_id \in DOMAIN order_sessions_
            /\ call.req.orig_order_id \in DOMAIN active_orders_)
    \/ call.fn \in {"on_tif_cancel", "snapshot_cb"} /\ CallbackReturn

LEMMA CallbackPushes ==
    ASSUME GInv, GwCallback
    PROVE  /\ UNCHANGED << fix, used >> /\ (UNCHANGED vars \/ CallbackReturn)
           /\ \/ pqueue' = pqueue /\ Unreported
              \/ \E e : EventOf(e) /\ Enqueue(e)
<1> USE DEF InCallback, Return
<1>1. CASE OnFillStep
  <2>1. CASE FillTrade
    BY <2>1 DEF FillTrade, EventOf, InFill
  <2>2. CASE FillReturn
    <3>1. EventOf([type |-> "TAKER_FILL", fill |-> call.taker])
      BY <2>2 DEF FillReturn, EventOf, InFill
    <3> QED BY <2>2, <3>1 DEF FillReturn
  <2>3. CASE ~FillTrade /\ ~FillReturn
    BY <1>1, <2>3 DEF OnFillStep, SendFillRoute, SendFillReport, Unreported
  <2> QED BY <2>1, <2>2, <2>3
<1>2. CASE OnCancelStep
  <2> DEFINE id == call.req.orig_order_id
             e == [type |-> "CANCEL", order |-> active_orders_[id]]
  <2>1. CASE call.found /\ id \in DOMAIN order_sessions_ /\ id \in DOMAIN active_orders_
    <3>1. EventOf(e) /\ Enqueue(e)
      BY <1>2, <2>1 DEF OnCancelStep, EventOf
    <3> HIDE DEF e
    <3> QED BY <1>2, <3>1 DEF OnCancelStep
  <2>2. CASE ~(call.found /\ id \in DOMAIN order_sessions_ /\ id \in DOMAIN active_orders_)
    BY <1>2, <2>2 DEF OnCancelStep, Unreported
  <2> QED BY <2>1, <2>2
<1>3. CASE OnReplaceStep
  <2> DEFINE id == call.req.orig_order_id
             e == [type |-> "REPLACE", req |-> call.req,
                   leaves_qty |-> IF call.leaves_qty > 0 THEN call.leaves_qty ELSE 0]
  <2>1. CASE call.found /\ id \in DOMAIN order_sessions_ /\ id \in DOMAIN active_orders_
    <3>1. EventOf(e) /\ Enqueue(e)
      BY <1>3, <2>1 DEF OnReplaceStep, EventOf
    <3> HIDE DEF e
    <3> QED BY <1>3, <3>1 DEF OnReplaceStep
  <2>2. CASE ~(call.found /\ id \in DOMAIN order_sessions_ /\ id \in DOMAIN active_orders_)
    BY <1>3, <2>2 DEF OnReplaceStep, Unreported
  <2> QED BY <2>1, <2>2
<1>4. CASE OnOrderRestedStep
  <2> DEFINE e == [type |-> "RESTED", order |-> call.order, leaves_qty |-> call.leaves_qty]
  <2>1. EventOf(e) /\ Enqueue(e)
    BY <1>4 DEF OnOrderRestedStep, EventOf
  <2> HIDE DEF e
  <2> QED BY <1>4, <2>1 DEF OnOrderRestedStep
<1>5. CASE OnTifCancelStep \/ SnapshotStep
  BY <1>5 DEF OnTifCancelStep, SnapshotStep, Unreported
<1> QED BY <1>1, <1>2, <1>3, <1>4, <1>5 DEF GwCallback

\* The row an event is about, and what becomes of it; the other rows stay.
Subject(e) ==
    IF e.type \in {"FILL", "TAKER_FILL"} THEN e.fill.exchange_id
    ELSE IF e.type = "REPLACE" THEN e.req.orig_order_id ELSE e.order.exchange_id

Follows(T, U, e) ==
    /\ \A r \in T : e.type = "TAKER_FILL" \/ r.exchange_id # Subject(e) => r \in U
    /\ e.type = "FILL" /\ e.fill.leaves_qty > 0 =>
           \A r \in T : r.exchange_id = Subject(e) =>
               \E x \in U : RowLike(x, r) /\ x.price = r.price /\ x.leaves_qty = e.fill.leaves_qty
    /\ e.type = "REPLACE" /\ e.leaves_qty > 0 =>
           \A r \in T : r.exchange_id = Subject(e) =>
               \E x \in U : RowLike(x, r) /\ x.price = e.req.new_price /\ x.leaves_qty = e.leaves_qty
    /\ e.type = "RESTED" =>
           \E x \in U : /\ RowLike(x, e.order) /\ x.price = e.order.price
                        /\ x.leaves_qty = e.leaves_qty

\* A row that is not the event's stays as it is.
LEMMA FullKept ==
    ASSUME NEW T, NEW U, NEW e, Follows(T, U, e),
           NEW o, FullRow(T, o), e.type = "TAKER_FILL" \/ o.exchange_id # Subject(e)
    PROVE  FullRow(U, o)
  BY DEF FullRow, Follows, RowLike

LEMMA FillRow ==
    ASSUME GInv, KInv, NEW T, NEW U, NEW e, e = [type |-> "FILL", fill |-> call.maker],
           Follows(T, U, e), call.fn = "on_fill", phase = "trade",
           NEW o, ListedRow(T, o),
           \E s \in DOMAIN books_ : o = books_[s].order_index_[o.exchange_id]
                                       /\ o.exchange_id \in DOMAIN books_[s].order_index_
    PROVE  FullRow(U, o)
<1>1. /\ ~RowOwed(o.exchange_id) /\ ~Replacing(o.exchange_id)
      /\ FillOwed(o.exchange_id) <=> call.maker.exchange_id = o.exchange_id
  BY DEF RowOwed, Replacing, FillOwed, InFill
<1>2. PICK r \in T : /\ RowLike(r, o) /\ r.price = o.price
                     /\ call.maker.exchange_id # o.exchange_id => r.leaves_qty = o.leaves_qty
  BY <1>1 DEF ListedRow
<1>3. e.type = "FILL" /\ e.fill = call.maker /\ Subject(e) = call.maker.exchange_id
  BY DEF Subject
<1>4. CASE call.maker.exchange_id # o.exchange_id
  <2>1. FullRow(T, o)
    BY <1>2, <1>4 DEF FullRow
  <2> QED BY <1>3, <1>4, <2>1, FullKept
<1>5. CASE call.maker.exchange_id = o.exchange_id
  <2>1. IInv /\ PartiesOK /\ ListedOK /\ FillOK
    BY DEF GInv, KInv, PartiesOK
  <2>2. call.maker.leaves_qty \in Int /\ call.maker.leaves_qty >= 0
    BY <2>1, FillFields DEF FillOK, GInv, CallOK
  <2>3. PICK s \in DOMAIN books_ : o = books_[s].order_index_[o.exchange_id]
                                       /\ o.exchange_id \in DOMAIN books_[s].order_index_
    OBVIOUS
  <2>4. o.exchange_id \in DOMAIN active_orders_
    BY <2>1, <2>3 DEF ListedOK, RestingOK, Known
  <2>5. call.maker.leaves_qty # 0
    BY <1>5, <2>1, <2>4 DEF FillOK, Gone, MakerLeft, InFill
  <2>6. PICK t \in DOMAIN books_ :
            /\ o.exchange_id \in DOMAIN books_[t].order_index_
            /\ books_[t].order_index_[o.exchange_id].leaves_qty = call.maker.leaves_qty
    BY <1>5, <2>1, <2>2, <2>5 DEF FillOK
  <2>7. t = s
    BY <2>1, <2>3, <2>6, EntryUnique
  <2>8. o.leaves_qty = call.maker.leaves_qty
    BY <2>3, <2>6, <2>7
  <2>9. r.exchange_id = Subject(e) /\ e.fill.leaves_qty > 0
    BY <1>2, <1>3, <1>5, <2>2, <2>5 DEF RowLike
  <2>10. PICK x \in U : RowLike(x, r) /\ x.price = r.price /\ x.leaves_qty = e.fill.leaves_qty
    BY <1>3, <2>9 DEF Follows
  <2> QED BY <1>2, <1>3, <2>8, <2>10 DEF FullRow, RowLike
<1> QED BY <1>4, <1>5

\* onReplace: the row takes the terms of the order in the book.
LEMMA ReplaceRow ==
    ASSUME GInv, KInv, NEW T, NEW U, NEW e,
           e = [type |-> "REPLACE", req |-> call.req,
                leaves_qty |-> IF call.leaves_qty > 0 THEN call.leaves_qty ELSE 0],
           Follows(T, U, e), call.fn = "on_replace", call.found,
           NEW o, ListedRow(T, o),
           \E s \in DOMAIN books_ : o = books_[s].order_index_[o.exchange_id]
                                       /\ o.exchange_id \in DOMAIN books_[s].order_index_
    PROVE  FullRow(U, o)
<1>1. /\ ~RowOwed(o.exchange_id) /\ ~FillOwed(o.exchange_id)
      /\ Replacing(o.exchange_id) <=> call.req.orig_order_id = o.exchange_id
  BY DEF RowOwed, Replacing, FillOwed, InFill
<1>2. PICK r \in T :
          /\ RowLike(r, o)
          /\ call.req.orig_order_id # o.exchange_id => r.price = o.price /\ r.leaves_qty = o.leaves_qty
  BY <1>1 DEF ListedRow
<1>3. e.type = "REPLACE" /\ e.req = call.req /\ Subject(e) = call.req.orig_order_id
  BY DEF Subject
<1>4. CASE call.req.orig_order_id # o.exchange_id
  <2>1. FullRow(T, o)
    BY <1>2, <1>4 DEF FullRow
  <2> QED BY <1>3, <1>4, <2>1, FullKept
<1>5. CASE call.req.orig_order_id = o.exchange_id
  <2>1. IInv /\ PartiesOK /\ ListedOK /\ CallbackOK
    BY DEF GInv, KInv, PartiesOK
  <2>2. call.leaves_qty \in Int /\ call.found = (call.leaves_qty >= 0)
    BY <2>1 DEF GInv, CallOK
  <2>3. PICK s \in DOMAIN books_ : o = books_[s].order_index_[o.exchange_id]
                                       /\ o.exchange_id \in DOMAIN books_[s].order_index_
    OBVIOUS
  <2>4. o.exchange_id \in DOMAIN active_orders_
    BY <2>1, <2>3 DEF ListedOK, RestingOK, Known
  <2>5. call.leaves_qty # 0
    BY <1>5, <2>1, <2>4 DEF CallbackOK
  <2>6. (call.leaves_qty >= 0) = TRUE
    BY <2>2, Zenon
  <2>7. call.leaves_qty > 0 /\ e.leaves_qty = call.leaves_qty
    BY <2>2, <2>5, <2>6
  <2>8. PICK t \in DOMAIN books_ :
            /\ o.exchange_id \in DOMAIN books_[t].order_index_
            /\ books_[t].order_index_[o.exchange_id].leaves_qty = call.leaves_qty
            /\ books_[t].order_index_[o.exchange_id].price = call.req.new_price
    BY <1>5, <2>1, <2>7 DEF CallbackOK
  <2>9. t = s
    BY <2>1, <2>3, <2>8, EntryUnique
  <2>10. o.leaves_qty = call.leaves_qty /\ o.price = call.req.new_price
    BY <2>3, <2>8, <2>9
  <2>11. r.exchange_id = Subject(e) /\ e.leaves_qty > 0
    BY <1>2, <1>3, <1>5, <2>7 DEF RowLike
  <2>12. PICK x \in U : RowLike(x, r) /\ x.price = e.req.new_price /\ x.leaves_qty = e.leaves_qty
    BY <1>3, <2>11 DEF Follows
  <2> QED BY <1>2, <1>3, <2>7, <2>10, <2>12 DEF FullRow, RowLike
<1> QED BY <1>4, <1>5

\* onOrderRested: the order gets its row.
LEMMA RestedRow ==
    ASSUME NEW T, NEW U, NEW e,
           e = [type |-> "RESTED", order |-> call.order, leaves_qty |-> call.leaves_qty],
           Follows(T, U, e), call.fn = "on_order_rested",
           NEW o, ListedRow(T, o)
    PROVE  FullRow(U, o)
<1>1. /\ ~FillOwed(o.exchange_id) /\ ~Replacing(o.exchange_id)
      /\ RowOwed(o.exchange_id) <=> call.order.exchange_id = o.exchange_id
  BY DEF RowOwed, Replacing, FillOwed, InFill
<1>2. /\ e.type = "RESTED" /\ e.order = call.order /\ e.leaves_qty = call.leaves_qty
      /\ Subject(e) = call.order.exchange_id
  BY DEF Subject
<1>3. CASE call.order.exchange_id # o.exchange_id
  <2>1. FullRow(T, o)
    BY <1>1, <1>3 DEF FullRow, ListedRow
  <2> QED BY <1>2, <1>3, <2>1, FullKept
<1>4. CASE call.order.exchange_id = o.exchange_id
  <2>1. RowLike(call.order, o) /\ call.order.price = o.price /\ call.leaves_qty = o.leaves_qty
    BY <1>1, <1>4 DEF ListedRow
  <2>2. PICK x \in U : /\ RowLike(x, e.order) /\ x.price = e.order.price
                       /\ x.leaves_qty = e.leaves_qty
    BY <1>2 DEF Follows
  <2> QED BY <1>2, <2>1, <2>2 DEF FullRow, RowLike
<1> QED BY <1>3, <1>4

\* After its event, the callback owes nothing.
LEMMA EventRow ==
    ASSUME GInv, KInv, NEW T, NEW U, NEW e, EventOf(e), Follows(T, U, e),
           NEW s \in DOMAIN books_, NEW id \in DOMAIN books_[s].order_index_,
           NEW o, o = books_[s].order_index_[id], ListedRow(T, o)
    PROVE  FullRow(U, o)
<1>1. IInv /\ PartiesOK /\ CallbackOK
  BY DEF GInv, KInv, PartiesOK
<1>2. o.exchange_id = id /\ id \in LiveIds
  BY <1>1, EntryFields DEF LiveIds
<1>3. CASE e = [type |-> "FILL", fill |-> call.maker] /\ InFill({"trade"})
  BY <1>2, <1>3, FillRow DEF InFill
<1>4. CASE e = [type |-> "TAKER_FILL", fill |-> call.taker] /\ InFill({"taker_event"})
  <2>1. ~RowOwed(id) /\ ~FillOwed(id) /\ ~Replacing(id)
    BY <1>4 DEF RowOwed, FillOwed, Replacing, InFill
  <2>2. FullRow(T, o)
    BY <1>2, <2>1 DEF ListedRow, FullRow
  <2> QED BY <1>4, <2>2, FullKept
<1>5. CASE /\ e = [type |-> "CANCEL", order |-> active_orders_[call.req.orig_order_id]]
           /\ call.fn = "on_cancel" /\ call.found
           /\ call.req.orig_order_id \in DOMAIN active_orders_
  <2>1. ~RowOwed(id) /\ ~FillOwed(id) /\ ~Replacing(id)
    BY <1>5 DEF RowOwed, FillOwed, Replacing, InFill
  <2>2. FullRow(T, o)
    BY <1>2, <2>1 DEF ListedRow, FullRow
  <2>3. Subject(e) = call.req.orig_order_id
    BY <1>1, <1>5 DEF Subject, GInv, MapsOK
  <2>4. Subject(e) # id
    BY <1>1, <1>2, <1>5, <2>3 DEF CallbackOK
  <2> QED BY <1>2, <2>2, <2>4, FullKept
<1>6. CASE /\ e = [type |-> "REPLACE", req |-> call.req,
                   leaves_qty |-> IF call.leaves_qty > 0 THEN call.leaves_qty ELSE 0]
           /\ call.fn = "on_replace" /\ call.found
  BY <1>2, <1>6, ReplaceRow
<1>7. CASE /\ e = [type |-> "RESTED", order |-> call.order, leaves_qty |-> call.leaves_qty]
           /\ call.fn = "on_order_rested"
  BY <1>7, RestedRow
<1> QED BY <1>3, <1>4, <1>5, <1>6, <1>7 DEF EventOf

\* A callback that reports nothing owed nothing, or still does.
LEMMA SilentRow ==
    ASSUME GInv, KInv, Unreported, NEW T,
           NEW s \in DOMAIN books_, NEW id \in DOMAIN books_[s].order_index_,
           NEW o, o = books_[s].order_index_[id], ListedRow(T, o)
    PROVE  ListedRow(T, o)'
<1>1. IInv /\ PartiesOK /\ ListedOK
  BY DEF GInv, KInv, PartiesOK
<1>2. o.exchange_id = id
  BY <1>1, EntryFields
<1>3. Known(id, o.client_id)
  BY <1>1, <1>2 DEF ListedOK, RestingOK
<1>4. CASE /\ call.fn = "on_fill" /\ phase \in {"begin", "maker_orders", "taker", "taker_orders"}
           /\ UNCHANGED vars /\ phase' \in {"maker_orders", "taker", "taker_orders", "trade"}
  <2>1. /\ call' = call /\ ~RowOwed(id) /\ ~Replacing(id)
        /\ FillOwed(id) <=> call.maker.exchange_id = id
        /\ FillOwed(id)' <=> call.maker.exchange_id = id
    BY <1>4 DEF vars, RowOwed, FillOwed, Replacing, InFill
  <2>2. ~RowOwed(id)' /\ ~Replacing(id)'
    BY <1>4, <2>1 DEF RowOwed, Replacing
  <2> QED BY <1>2, <2>1, <2>2 DEF ListedRow
<1>5. CASE call.fn \in {"on_cancel", "on_tif_cancel", "snapshot_cb", "on_replace"} /\ CallbackReturn
           /\ ~Replacing(id)
  <2>1. ~RowOwed(id) /\ ~FillOwed(id)
    BY <1>5 DEF RowOwed, FillOwed, InFill
  <2>2. FullRow(T, o)
    BY <1>2, <1>5, <2>1 DEF ListedRow, FullRow
  <2>3. ~RowOwed(id)'
    BY <1>5 DEF RowOwed, CallbackReturn, NoCall
  <2> QED BY <1>2, <2>2, <2>3 DEF FullRow, ListedRow
<1>6. CASE /\ call.fn = "on_replace" /\ CallbackReturn
           /\ ~(/\ call.found /\ call.req.orig_order_id \in DOMAIN order_sessions_
                /\ call.req.orig_order_id \in DOMAIN active_orders_)
  <2>1. ~Replacing(id)
    BY <1>3, <1>6 DEF Known, Replacing
  <2> QED BY <1>5, <1>6, <2>1
<1>7. CASE call.fn \in {"on_cancel", "on_tif_cancel", "snapshot_cb"} /\ CallbackReturn
  <2>1. ~Replacing(id)
    BY <1>7 DEF Replacing
  <2> QED BY <1>5, <1>7, <2>1
<1> QED BY <1>4, <1>6, <1>7 DEF Unreported

\* Every step of every callback, with the event it reports or without one.
LEMMA CallbackRows ==
    ASSUME NEW T, NEW U, GInv, KInv, FInv, RowsFollow(T), UNCHANGED vars \/ CallbackReturn,
           (T = U /\ Unreported) \/ \E e : EventOf(e) /\ Follows(T, U, e)
    PROVE  EntriesOK' /\ Covered' /\ RowsFollow(U)'
<1>1. IInv /\ FillOK
  BY DEF GInv, KInv, PartiesOK
<1>2. UNCHANGED << books_, cur, pc >> /\ (call' = call \/ call' = NoCall)
  BY DEF vars, CallbackReturn
<1>3. EntriesOK' /\ Covered'
  BY <1>2, FokFrame
<1>4. InAdd'
  BY <1>2 DEF RowsFollow, InAdd, NoCall
<1>5. CASE T = U /\ Unreported
  <2>1. AmendedRow(U)'
    BY <1>2, <1>5 DEF RowsFollow, AmendedRow
  <2>2. ASSUME NEW s \in DOMAIN books_, NEW id \in DOMAIN books_[s].order_index_,
               NEW o, o = books_[s].order_index_[id]
        PROVE  ListedRow(T, o)'
    BY <1>5, <2>2, SilentRow DEF RowsFollow, BooksRowed
  <2>3. BooksRowed(U)'
    BY <1>2, <1>5, <2>2 DEF BooksRowed
  <2> QED BY <1>3, <1>4, <2>1, <2>3 DEF RowsFollow
<1>6. CASE \E e : EventOf(e) /\ Follows(T, U, e)
  <2>1. PICK e : EventOf(e) /\ Follows(T, U, e)
    BY <1>6
  <2>2. call'.fn # "on_order_rested"
    BY <2>1 DEF EventOf, InFill, vars, CallbackReturn, NoCall
  <2>3. ASSUME NEW s \in DOMAIN books_, NEW id \in DOMAIN books_[s].order_index_,
               NEW o, o = books_[s].order_index_[id]
        PROVE  ListedRow(U, o)'
    <3>1. FullRow(U, o)
      BY <2>1, <2>3, EventRow DEF RowsFollow, BooksRowed
    <3> QED BY <2>2, <3>1 DEF FullRow, ListedRow, RowOwed
  <2>4. BooksRowed(U)'
    BY <1>2, <2>3 DEF BooksRowed
  <2>5. ASSUME pc = "match", cur.tag = "REPLACE"
        PROVE  \E r \in U : RowLike(r, cur.order)
    <3>1. PICK r \in T : RowLike(r, cur.order)
      BY <2>5 DEF RowsFollow, AmendedRow
    <3>2. e.type = "TAKER_FILL" \/ r.exchange_id # Subject(e)
      BY <1>1, <2>1, <2>5, <3>1 DEF RowsFollow, InAdd, EventOf, InFill, FillOK, RowLike, Subject
    <3> QED BY <2>1, <3>1, <3>2 DEF Follows
  <2>6. AmendedRow(U)'
    BY <1>2, <2>5 DEF AmendedRow
  <2> QED BY <1>3, <1>4, <2>4, <2>6 DEF RowsFollow
<1> QED BY <1>5, <1>6


\* A step of the other threads: at most, a symbol gets an empty book.
LEMMA OtherRows ==
    ASSUME NEW T, RowsFollow(T), UNCHANGED << call, cur, phase >>,
           pc' = "match" <=> pc = "match",
           \A s \in DOMAIN books_' : \/ s \in DOMAIN books_ /\ books_'[s] = books_[s]
                                     \/ DOMAIN books_'[s].order_index_ = {}
    PROVE  RowsFollow(T)'
<1>1. \A id : /\ RowOwed(id)' <=> RowOwed(id)
              /\ FillOwed(id)' <=> FillOwed(id)
              /\ Replacing(id)' <=> Replacing(id)
  BY DEF RowOwed, FillOwed, Replacing, InFill
<1>2. \A o : ListedRow(T, o) => ListedRow(T, o)'
  BY <1>1 DEF ListedRow
<1>3. \A s \in DOMAIN books_' : \A id \in DOMAIN books_'[s].order_index_ :
          \A o : o = books_'[s].order_index_[id] => ListedRow(T, o)'
  BY <1>2 DEF RowsFollow, BooksRowed
<1>4. BooksRowed(T)'
  BY <1>3 DEF BooksRowed
<1> QED BY <1>4 DEF RowsFollow, AmendedRow, InAdd

\* The handlers push to the queue; the engine thread's own state is not theirs.
LEMMA FixLeavesEngine ==
    ASSUME GwFix
    PROVE  UNCHANGED << books_, call, cur, phase, pc, rows >>
<1> DEFINE Aside == UNCHANGED << books_, call, cur, phase, pc, rows >>
<1>1. \A c : Logon(c) \/ Logout(c) => Aside
  BY DEF Logon, Logout, vars
<1>2. SendStatus => Aside
  BY DEF SendStatus, vars
<1>3. \A m, c : RejectNew(m, c) => Aside
  BY DEF RejectNew, Reject, gwvars
<1>4. \A m, c, cl : AcceptNew(m, c, cl) => Aside
  BY DEF AcceptNew
<1>5. SubmitNew => Aside
  BY DEF SubmitNew
<1>6. \A c, orig, s : RecvCancel(c, orig, s) => Aside
  BY DEF RecvCancel, vars
<1>7. \A c, orig, cl, s, side, p, q : RecvReplace(c, orig, cl, s, side, p, q) => Aside
  BY DEF RecvReplace, vars
<1>8. PushRequest => Aside
  BY DEF PushRequest, Request
<1>9. \A c : RecvMarketDataRequest(c) => Aside
  BY DEF RecvMarketDataRequest, RequestSnapshot, Request, gwvars
<1> HIDE DEF Aside
<1>10. Aside
  BY <1>1, <1>2, <1>3, <1>4, <1>5, <1>6, <1>7, <1>8, <1>9, Zenon DEF GwFix, GwOrders
<1> QED BY <1>10 DEF Aside

LEMMA AsideRows ==
    ASSUME NEW T, IInv, FInv, RowsFollow(T), rows = << >>,
           GwMain \/ GwAdmin \/ GwFix \/ GwOver \/ UNCHANGED allvars
    PROVE  EntriesOK' /\ Covered' /\ RowsFollow(T)'
<1>1. CASE GwAdmin
  <2>1. PICK s \in Symbols : RegisterSymbol(s) /\ UNCHANGED gwvars
    BY <1>1 DEF GwAdmin, AdminNext
  <2>2. /\ UNCHANGED << call, cur, phase, pc >> /\ books_' = Put(books_, s, EmptyBook)
        /\ s \notin DOMAIN books_
    BY <2>1 DEF RegisterSymbol, gwvars, valid_symbols_
  <2>3. \A t \in DOMAIN books_' : \/ t \in DOMAIN books_ /\ books_'[t] = books_[t]
                                  \/ DOMAIN books_'[t].order_index_ = {}
    BY <2>2 DEF Put, EmptyBook, NoEntry
  <2> QED BY <2>1, <2>2, <2>3, FokRegister, OtherRows DEF FInv
<1>2. CASE GwMain \/ GwFix \/ GwOver \/ UNCHANGED allvars
  <2>1. UNCHANGED << books_, call, cur, phase >> /\ (pc' = "match" <=> pc = "match")
    <3>1. CASE GwMain
      BY <3>1 DEF GwMain, MainNext, RestoreOrder, Start, StopAcceptor, Stop, gwvars, IInv, RowsOK
    <3>2. CASE GwFix
      BY <3>2, FixLeavesEngine
    <3>3. CASE GwOver \/ UNCHANGED allvars
      BY <3>3 DEF GwOver, Over, allvars, vars, gwvars
    <3> QED BY <1>2, <3>1, <3>2, <3>3
  <2> QED BY <2>1, FokFrame, OtherRows
<1> QED BY <1>1, <1>2


\* Every step of the exchange, when a callback's event is put into the table.
LEMMA TableFollows ==
    ASSUME NEW T, NEW U, ReplaceQtys \subseteq Nat \ {0}, GInv, GInv', KInv, FInv, RowsFollow(T),
           [GwNext]_allvars,
           IF GwCallback THEN (T = U /\ Unreported) \/ \E e : EventOf(e) /\ Follows(T, U, e)
                         ELSE T = U
    PROVE  KInv' /\ FInv' /\ RowsFollow(U)'
<1>1. IInv /\ rows = << >>
  BY DEF GInv, KInv
<1>2. KInv'
  BY <1>1, ReportStepOK
<1>3. ComingOK'
  <2>1. queue_' \in Seq(WorkItem) /\ rows' = << >> /\ DOMAIN << >> = {}
    BY <1>1, <1>2 DEF GInv, IInv, TypeOK, KInv
  <2>2. ASSUME NEW i \in DOMAIN queue_', queue_'[i].tag = "REPLACE"
        PROVE  queue_'[i].req.new_qty >= 0
    <3>1. queue_'[i].req.new_qty > 0
      BY <1>2, <2>2 DEF KInv, PartiesOK, WaitingOK
    <3>2. queue_'[i] \in WorkItem
      BY <2>1, LenProperties, ElementOfSeq
    <3>3. queue_'[i].req.new_qty \in Int
      BY <2>2, <3>2, WorkItemFields, RequestFields
    <3> QED BY <3>1, <3>3
  <2> QED BY <2>1, <2>2 DEF ComingOK
<1>4. CASE GwCallback
  <2>1. UNCHANGED vars \/ CallbackReturn
    BY <1>4, CallbackPushes
  <2>2. EntriesOK' /\ Covered' /\ RowsFollow(U)'
    BY <1>4, <2>1, CallbackRows
  <2> QED BY <1>2, <1>3, <2>2 DEF FInv
<1>5. CASE ~GwCallback
  <2>1. CASE GwMain \/ GwAdmin \/ GwFix \/ GwOver \/ UNCHANGED allvars
    BY <1>1, <1>2, <1>3, <1>5, <2>1, AsideRows DEF FInv
  <2>2. CASE /\ RunOrder \/ RunCancel \/ RunReplace \/ RunSnapshot \/ MatchFill \/ MatchEnd \/ Exit
             /\ UNCHANGED gwvars
    BY <1>1, <1>2, <1>3, <1>5, <2>2, EngineRows DEF FInv
  <2> QED BY <1>5, <2>1, <2>2 DEF GwNext, GwEngine, GwCallback
<1> QED BY <1>4, <1>5

\* The table before anything has happened.
LEMMA NothingFollows ==
    ASSUME NEW T, RestingRows = {<< >>}, GwInit
    PROVE  KInv /\ FInv /\ RowsFollow(T)
<1>1. Init
  BY DEF GwInit
<1>2. KInv
  BY ReportInit
<1>3. FInv
  <2>1. \A r \in RestingRows : \A i \in DOMAIN r : r[i].leaves_qty >= 0
    BY <1>1
  <2> QED BY <1>1, <2>1, FokInit
<1>4. RowsFollow(T)
  BY <1>1 DEF Init, RowsFollow, BooksRowed, AmendedRow, InAdd, EmptyBook, NoEntry
<1> QED BY <1>2, <1>3, <1>4
============================================================================
