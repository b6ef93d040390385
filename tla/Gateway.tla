------------------------------ MODULE Gateway ------------------------------
(***************************************************************************)
(* Class FixGateway of src/src/gateway/FixGateway.{h,cpp} around the       *)
(* matching engine: the FIX message handlers on the QuickFIX thread, and   *)
(* the callbacks the engine thread executes.                               *)
(*                                                                         *)
(* The two threads share three maps under two mutexes.  A section under a  *)
(* lock is one step; onFill takes the mutexes one after the other, so it   *)
(* is several.  The handler of a new order updates the maps in two         *)
(* sections too, but no other thread looks up its id before the order is   *)
(* submitted: they are one step here.                                      *)
(***************************************************************************)
EXTENDS MatchingEngine, RiskEngine

CONSTANTS
    NewOrderMsgs,    \* NewOrderSingle messages: their symbol, side, type, price, raw_qty, tif
    HasDb            \* DatabasePath is configured

ASSUME DbAssumption == HasDb \in BOOLEAN
\* OrderQty is a double, raw_qty counts its halves: static_cast<int> cuts off a half.
CastInt(raw_qty) == raw_qty \div 2
ASSUME MsgAssumption ==
    \A m \in NewOrderMsgs :
        /\ m \in [symbol : Symbols, side : Sides, type : Types, price : Int, raw_qty : Int,
                tif : Tifs]
        /\ m.raw_qty > 0 => CastInt(m.raw_qty) \in Qtys
        /\ m.type = "limit" /\ m.price > 0 => m.price \in Prices
        /\ m.type = "market" => m.price = 0

VARIABLES
    order_sessions_,     \* exchange id -> session of its owner
    clord_to_exchange_,  \* ClOrdID -> exchange id
    active_orders_,      \* exchange id -> the gateway's copy of the order
    last_price_,         \* RiskEngine: symbol -> last trade price
    fix,                 \* the message handler the QuickFIX thread is inside of
    phase,               \* where the engine thread is inside the callback `call'
    logged,              \* clients whose session is logged on
    used,                \* ClOrdIDs the clients have used
    finals,              \* accepted order -> final reports (filled, canceled) sent for it
    pqueue               \* PersistenceLayer::queue_

gwvars == << order_sessions_, clord_to_exchange_, active_orders_, last_price_, fix, phase,
             logged, used, finals, pqueue >>
maps == << order_sessions_, clord_to_exchange_, active_orders_ >>

Idle == [at |-> "idle"]

Emplace(f, k, v) == IF k \in DOMAIN f THEN f ELSE Put(f, k, v)
Told(id) == IF id \in DOMAIN finals THEN [finals EXCEPT ![id] = @ + 1] ELSE finals

\* persistence_->push, a no-op without a database.
Enqueue(evt) == pqueue' = IF HasDb THEN Append(pqueue, evt) ELSE pqueue

---------------------------------------------------------------------------
(* Start: restoreOrders fills the maps from the rows; no order has a       *)
(* session yet.                                                            *)

FirstRow(rs, clord) == CHOOSE i \in DOMAIN rs :
    rs[i].clord_id = clord /\ \A j \in DOMAIN rs : rs[j].clord_id = clord => i <= j

RestoredOrders(rs) ==
    [id \in {rs[i].exchange_id : i \in DOMAIN rs} |->
        rs[CHOOSE i \in DOMAIN rs : rs[i].exchange_id = id]]
RestoredClOrds(rs) ==
    [c \in {rs[i].clord_id : i \in DOMAIN rs} |-> rs[FirstRow(rs, c)].exchange_id]

GwInit ==
    /\ Init
    /\ order_sessions_ = NoEntry
    /\ clord_to_exchange_ = RestoredClOrds(rows)
    /\ active_orders_ = RestoredOrders(rows)
    /\ last_price_ = NoEntry
    /\ fix = Idle
    /\ phase = "begin"
    /\ logged = {}
    /\ used = DOMAIN clord_to_exchange_
    /\ finals = [id \in DOMAIN active_orders_ |-> 0]
    /\ pqueue = << >>

---------------------------------------------------------------------------
(* The QuickFIX thread                                                     *)

\* onLogon up to the unlock: collect the client's orders, bind those without a session.
Logon(c) ==
    /\ main = "serving"
    /\ fix = Idle
    /\ c \notin logged
    /\ logged' = logged \cup {c}
    /\ LET mine == {id \in DOMAIN active_orders_ : active_orders_[id].client_id = c}
       IN  /\ order_sessions_' = [id \in DOMAIN order_sessions_ \cup mine |->
                                     IF id \in DOMAIN order_sessions_ THEN order_sessions_[id] ELSE c]
           /\ fix' = [at |-> "status", client |-> c, orders |-> mine]
    /\ UNCHANGED << vars, clord_to_exchange_, active_orders_, last_price_, phase, used, finals, pqueue >>

\* The status reports and the replay of the history, from the copies taken above.
SendStatus ==
    /\ fix.at = "status"
    /\ fix' = Idle
    /\ UNCHANGED << vars, maps, last_price_, phase, logged, used, finals, pqueue >>

\* Mutation of Logout: the client's orders lose their session.
LogoutUnbinds(c) ==
    /\ main = "serving"
    /\ fix = Idle
    /\ c \in logged
    /\ logged' = logged \ {c}
    /\ order_sessions_' = [id \in {i \in DOMAIN order_sessions_ : order_sessions_[i] # c} |->
                              order_sessions_[id]]
    /\ UNCHANGED << vars, clord_to_exchange_, active_orders_, last_price_, fix, phase, used,
                    finals, pqueue >>

Logout(c) ==
    /\ main = "serving"
    /\ fix = Idle
    /\ c \in logged
    /\ logged' = logged \ {c}
    /\ UNCHANGED << vars, maps, last_price_, fix, phase, used, finals, pqueue >>

\* The checks of NewOrderSingle, in any order: each failure is a reject.  The sign is
\* checked before the cast, MaxOrderQty after it.
Accepts(m) ==
    /\ m.raw_qty > 0
    /\ m.raw_qty <= 2 * IntMax
    /\ m.type = "limit" => m.price > 0
    /\ m.symbol \in valid_symbols_
    /\ Check(last_price_, m.symbol, m.type, m.side, CastInt(m.raw_qty), m.price)

\* Mutation of NewOrder: order_seq_++ instead of ++order_seq_.
NewOrderPostIncrement(m, c, clord) ==
    [exchange_id |-> order_seq_, clord_id |-> clord, client_id |-> c, symbol |-> m.symbol,
     side |-> m.side, type |-> m.type, price |-> m.price,
     qty |-> CastInt(m.raw_qty), leaves_qty |-> CastInt(m.raw_qty), tif |-> m.tif]

NewOrder(m, c, clord) ==
    [exchange_id |-> order_seq_ + 1, clord_id |-> clord, client_id |-> c, symbol |-> m.symbol,
     side |-> m.side, type |-> m.type, price |-> m.price,
     qty |-> CastInt(m.raw_qty), leaves_qty |-> CastInt(m.raw_qty), tif |-> m.tif]

\* A client that can send: its session is up and the thread is free.
Receives(c) == main = "serving" /\ fix = Idle /\ c \in logged

RejectNew(m, c) ==
    /\ Receives(c)
    /\ ~Accepts(m)
    /\ Reject
    /\ UNCHANGED gwvars

\* NewOrderSingle up to the acknowledgement ...
AcceptNew(m, c, clord) ==
    /\ Receives(c)
    /\ clord \notin used
    /\ order_seq_ < MaxOrders
    /\ Accepts(m)
    /\ order_seq_' = order_seq_ + 1
    /\ LET o == NewOrder(m, c, clord)
       IN  /\ order_sessions_' = Emplace(order_sessions_, o.exchange_id, c)
           /\ clord_to_exchange_' = Emplace(clord_to_exchange_, clord, o.exchange_id)
           /\ active_orders_' = Emplace(active_orders_, o.exchange_id, o)
           /\ fix' = [at |-> "submit", order |-> o]
           /\ finals' = Put(finals, o.exchange_id, 0)
    /\ used' = used \cup {clord}
    /\ UNCHANGED << books_, queue_, requests, rows, main, pc, cur, call,
                    last_price_, phase, logged, pqueue >>

\* ... and engine_.submit.
SubmitNew ==
    /\ fix.at = "submit"
    /\ Push([tag |-> "ORDER", order |-> fix.order])
    /\ fix' = Idle
    /\ UNCHANGED << books_, order_seq_, requests, rows, main, pc, cur, call,
                    maps, last_price_, phase, logged, used, finals, pqueue >>

\* OrderCancelRequest: resolve the ClOrdID under the lock (an unknown one is dropped) ...
RecvCancel(c, orig, s) ==
    /\ Receives(c)
    /\ requests < MaxRequests
    /\ orig \in DOMAIN clord_to_exchange_
    /\ fix' = [at |-> "request",
               item |-> [tag |-> "CANCEL", req |-> [client_id |-> c, symbol |-> s,
                                                   orig_order_id |-> clord_to_exchange_[orig]]]]
    /\ UNCHANGED << vars, maps, last_price_, phase, logged, used, finals, pqueue >>

\* OrderCancelReplaceRequest: an unknown order, or another symbol or side, is rejected.
RecvReplace(c, orig, clord, s, side, price, qty) ==
    /\ Receives(c)
    /\ requests < MaxRequests
    /\ clord \notin used
    /\ orig \in DOMAIN clord_to_exchange_
    /\ LET id == clord_to_exchange_[orig]
       IN  /\ id \in DOMAIN active_orders_ =>
                  active_orders_[id].symbol = s /\ active_orders_[id].side = side
           /\ fix' = [at |-> "request",
                      item |-> [tag |-> "REPLACE",
                                req |-> [new_clord_id |-> clord, old_clord_id |-> orig,
                                         client_id |-> c, orig_order_id |-> id, symbol |-> s,
                                         new_price |-> price, new_qty |-> qty]]]
    /\ used' = used \cup {clord}
    /\ UNCHANGED << vars, maps, last_price_, phase, logged, finals, pqueue >>

\* ... and engine_.cancel or engine_.replace.
PushRequest ==
    /\ fix.at = "request"
    /\ Request(fix.item)
    /\ fix' = Idle
    /\ UNCHANGED << maps, last_price_, phase, logged, used, finals, pqueue >>

\* MarketDataRequest.
RecvMarketDataRequest(c) ==
    /\ Receives(c)
    /\ RequestSnapshot
    /\ UNCHANGED gwvars

---------------------------------------------------------------------------
(* Callbacks, on the engine thread                                         *)

InCallback(fn, ph) == call # NoCall /\ call.fn = fn /\ phase = ph

\* Mutation of Return: the next callback starts where this one ended.
ReturnKeepsPhase == CallbackReturn /\ UNCHANGED phase

Return ==
    /\ CallbackReturn
    /\ phase' = "begin"

\* onFill's send_fill, first the routing section ...
SendFillRoute(fill, ph, next, skip) ==
    /\ InCallback("on_fill", ph)
    /\ IF fill.exchange_id \in DOMAIN order_sessions_
       THEN /\ phase' = next
            /\ IF fill.leaves_qty = 0
               THEN /\ order_sessions_' = Drop(order_sessions_, fill.exchange_id)
                    /\ clord_to_exchange_' = Drop(clord_to_exchange_, fill.clord_id)
               ELSE UNCHANGED << order_sessions_, clord_to_exchange_ >>
       ELSE phase' = skip /\ UNCHANGED << order_sessions_, clord_to_exchange_ >>
    /\ UNCHANGED << vars, active_orders_, last_price_, fix, logged, used, finals, pqueue >>

\* Mutation of SendFillReport: a partial fill does not reduce the copy.
SendFillReportKeepsLeaves(fill, ph, next) ==
    /\ InCallback("on_fill", ph)
    /\ phase' = next
    /\ IF fill.leaves_qty = 0
       THEN /\ active_orders_' = Drop(active_orders_, fill.exchange_id)
            /\ finals' = Told(fill.exchange_id)
       ELSE UNCHANGED << active_orders_, finals >>
    /\ UNCHANGED << vars, order_sessions_, clord_to_exchange_, last_price_, fix, logged, used, pqueue >>

\* Mutation of SendFillReport: every fill is reported as the last one.
SendFillReportFinal(fill, ph, next) ==
    /\ InCallback("on_fill", ph)
    /\ phase' = next
    /\ active_orders_' = Drop(active_orders_, fill.exchange_id)
    /\ finals' = Told(fill.exchange_id)
    /\ UNCHANGED << vars, order_sessions_, clord_to_exchange_, last_price_, fix, logged, used, pqueue >>

\* ... then the orders section and the report.
SendFillReport(fill, ph, next) ==
    /\ InCallback("on_fill", ph)
    /\ phase' = next
    /\ IF fill.leaves_qty = 0
       THEN /\ active_orders_' = Drop(active_orders_, fill.exchange_id)
            /\ finals' = Told(fill.exchange_id)
       ELSE /\ active_orders_' = IF fill.exchange_id \in DOMAIN active_orders_
                                 THEN [active_orders_ EXCEPT ![fill.exchange_id].leaves_qty =
                                          fill.leaves_qty]
                                 ELSE active_orders_
            /\ UNCHANGED finals
    /\ UNCHANGED << vars, order_sessions_, clord_to_exchange_, last_price_, fix, logged, used, pqueue >>

\* onFill's tail: the risk engine's last price, then the two events.
FillTrade ==
    /\ InCallback("on_fill", "trade")
    /\ last_price_' = Put(last_price_, call.maker.symbol, call.maker.price)
    /\ Enqueue([type |-> "FILL", fill |-> call.maker])
    /\ phase' = "taker_event"
    /\ UNCHANGED << vars, maps, fix, logged, used, finals >>

FillReturn ==
    /\ InCallback("on_fill", "taker_event")
    /\ Enqueue([type |-> "TAKER_FILL", fill |-> call.taker])
    /\ Return
    /\ UNCHANGED << maps, last_price_, fix, logged, used, finals >>

OnFillStep ==
    \/ SendFillRoute(call.maker, "begin", "maker_orders", "taker")
    \/ SendFillReport(call.maker, "maker_orders", "taker")
    \/ SendFillRoute(call.taker, "taker", "taker_orders", "trade")
    \/ SendFillReport(call.taker, "taker_orders", "trade")
    \/ FillTrade
    \/ FillReturn

\* onCancel: silent when the gateway no longer knows the order or the book did not.
OnCancelStep ==
    /\ InCallback("on_cancel", "begin")
    /\ LET id == call.req.orig_order_id
       IN  IF call.found /\ id \in DOMAIN order_sessions_ /\ id \in DOMAIN active_orders_
           THEN /\ order_sessions_' = Drop(order_sessions_, id)
                /\ active_orders_' = Drop(active_orders_, id)
                /\ clord_to_exchange_' = Drop(clord_to_exchange_, active_orders_[id].clord_id)
                /\ finals' = Told(id)
                /\ Enqueue([type |-> "CANCEL", order |-> active_orders_[id]])
           ELSE UNCHANGED << maps, finals, pqueue >>
    /\ Return
    /\ UNCHANGED << last_price_, fix, logged, used >>

\* onReplace: an early return when the order is unknown here, a reject when it was not
\* in the book, otherwise the new ClOrdID, price and quantities.
OnReplaceStep ==
    /\ InCallback("on_replace", "begin")
    /\ LET req == call.req
           id  == req.orig_order_id
           left == IF call.leaves_qty > 0 THEN call.leaves_qty ELSE 0
       IN  IF call.found /\ id \in DOMAIN order_sessions_ /\ id \in DOMAIN active_orders_
           THEN /\ clord_to_exchange_' =
                       Emplace(Drop(clord_to_exchange_, req.old_clord_id), req.new_clord_id, id)
                /\ IF left = 0
                   THEN /\ order_sessions_' = Drop(order_sessions_, id)
                        /\ active_orders_' = Drop(active_orders_, id)
                   ELSE /\ active_orders_' =
                               [active_orders_ EXCEPT ![id].clord_id = req.new_clord_id,
                                                      ![id].price = req.new_price,
                                                      ![id].qty = req.new_qty,
                                                      ![id].leaves_qty = left]
                        /\ UNCHANGED order_sessions_
                /\ Enqueue([type |-> "REPLACE", req |-> req, leaves_qty |-> left])
           ELSE UNCHANGED << maps, pqueue >>
    /\ Return
    /\ UNCHANGED << last_price_, fix, logged, used, finals >>

\* Mutation of OnTifCancelStep: the kill is not reported.
OnTifCancelSilent ==
    /\ InCallback("on_tif_cancel", "begin")
    /\ Return
    /\ UNCHANGED << maps, last_price_, fix, logged, used, finals, pqueue >>

OnTifCancelStep ==
    /\ InCallback("on_tif_cancel", "begin")
    /\ LET o == call.order
       IN  IF o.exchange_id \in DOMAIN order_sessions_
           THEN /\ order_sessions_' = Drop(order_sessions_, o.exchange_id)
                /\ active_orders_' = Drop(active_orders_, o.exchange_id)
                /\ clord_to_exchange_' = Drop(clord_to_exchange_, o.clord_id)
                /\ finals' = Told(o.exchange_id)
           ELSE UNCHANGED << maps, finals >>
    /\ Return
    /\ UNCHANGED << last_price_, fix, logged, used, pqueue >>

OnOrderRestedStep ==
    /\ InCallback("on_order_rested", "begin")
    /\ Enqueue([type |-> "RESTED", order |-> call.order, leaves_qty |-> call.leaves_qty])
    /\ Return
    /\ UNCHANGED << maps, last_price_, fix, logged, used, finals >>

SnapshotStep ==
    /\ InCallback("snapshot_cb", "begin")
    /\ Return
    /\ UNCHANGED << maps, last_price_, fix, logged, used, finals, pqueue >>

---------------------------------------------------------------------------

\* acceptor.stop() lets the handler that is running finish.
GwMain ==
    /\ MainNext
    /\ main = "serving" => fix = Idle
    /\ UNCHANGED gwvars

GwAdmin == AdminNext /\ UNCHANGED gwvars

\* Every handler but that of MarketDataRequest.
GwOrders ==
    \/ \E c \in Clients : Logon(c) \/ Logout(c)
    \/ SendStatus
    \/ \E m \in NewOrderMsgs, c \in Clients : RejectNew(m, c)
    \/ \E m \in NewOrderMsgs, c \in Clients, cl \in ClOrdIds : AcceptNew(m, c, cl)
    \/ SubmitNew
    \/ \E c \in Clients, orig \in ClOrdIds, s \in MsgSymbols : RecvCancel(c, orig, s)
    \/ \E c \in Clients, orig, cl \in ClOrdIds, s \in MsgSymbols, side \in Sides,
          p \in Prices, q \in ReplaceQtys : RecvReplace(c, orig, cl, s, side, p, q)
    \/ PushRequest

GwFix == GwOrders \/ \E c \in Clients : RecvMarketDataRequest(c)

GwEngine ==
    \/ /\ RunOrder \/ RunCancel \/ RunReplace \/ RunSnapshot \/ MatchFill \/ MatchEnd \/ Exit
       /\ UNCHANGED gwvars
    \/ OnFillStep \/ OnCancelStep \/ OnReplaceStep \/ OnTifCancelStep
    \/ OnOrderRestedStep \/ SnapshotStep

GwOver == Over /\ UNCHANGED gwvars

GwNext == GwMain \/ GwAdmin \/ GwFix \/ GwEngine \/ GwOver

allvars == << vars, gwvars >>

GwSpec == GwInit /\ [][GwNext]_allvars

\* The engine thread runs, its callbacks return, and the QuickFIX thread finishes a
\* handler it has begun (it waits for room in the ring buffer, nothing else).
GwFairSpec ==
    /\ GwSpec
    /\ WF_allvars(GwEngine)
    /\ WF_allvars(SubmitNew \/ PushRequest \/ SendStatus)
    /\ WF_allvars((RestoreOrder \/ Start) /\ UNCHANGED gwvars)

---------------------------------------------------------------------------
(* Properties                                                              *)

\* The maps hold ids, ClOrdIDs and orders; a handler or callback in progress carries a
\* well-formed order or request.
GwTypeOK ==
    /\ DOMAIN order_sessions_ \subseteq Nat
    /\ \A id \in DOMAIN order_sessions_ : order_sessions_[id] \in Clients
    /\ DOMAIN clord_to_exchange_ \subseteq used /\ used \subseteq ClOrdIds
    /\ \A c \in DOMAIN clord_to_exchange_ : clord_to_exchange_[c] \in Nat
    /\ \A id \in DOMAIN active_orders_ :
           active_orders_[id] \in Order /\ active_orders_[id].exchange_id = id
    /\ DOMAIN last_price_ \subseteq Symbols
    /\ logged \subseteq Clients
    /\ fix.at \in {"idle", "status", "submit", "request"}
    /\ fix.at = "submit" => fix.order \in Order
    /\ fix.at = "request" => fix.item \in WorkItem
    /\ phase \in {"begin", "maker_orders", "taker", "taker_orders", "trade", "taker_event"}
    /\ call = NoCall => phase = "begin"

\* Nothing is under way: no handler, no queued work, no callback.
Quiescent == main # "recovery" /\ fix = Idle /\ queue_ = << >> /\ pc = "run" /\ call = NoCall

BookOrder(id) ==
    books_[CHOOSE s \in DOMAIN books_ : id \in DOMAIN books_[s].order_index_].order_index_[id]

\* The gateway's copy of every resting order agrees with the book on symbol, side, price,
\* quantity and owner, and the order's current ClOrdID finds it: its client can cancel it
\* and gets a true status at logon, whatever fills and replaces crossed its requests.
AgreesWithBook ==
    Quiescent =>
        \A id \in ListedIds :
            /\ id \in DOMAIN active_orders_
            /\ \A f \in {"symbol", "side", "price", "leaves_qty", "client_id"} :
                   active_orders_[id][f] = BookOrder(id)[f]
            /\ active_orders_[id].clord_id \in DOMAIN clord_to_exchange_
            /\ clord_to_exchange_[active_orders_[id].clord_id] = id

\* send_fill always finds the session of a party: no fill of an order accepted in this
\* run of the process goes unreported (onFill, send_fill's early return).
FillsReachParties ==
    /\ InCallback("on_fill", "begin") =>
           /\ call.maker.exchange_id \in DOMAIN order_sessions_
           /\ order_sessions_[call.maker.exchange_id] = call.maker.client_id
    /\ InCallback("on_fill", "taker") =>
           /\ call.taker.exchange_id \in DOMAIN order_sessions_
           /\ order_sessions_[call.taker.exchange_id] = call.taker.client_id

\* What add() drops without a callback: the remainder of a market order, and an order
\* whose quantity was cast to 0.
DropsSilently(o) == o.type = "market" \/ o.qty = 0

\* An order's end is reported once: never two final reports, and when nothing is under
\* way an accepted order without one is resting, or is one that add() dropped.
EndToldOnce ==
    /\ \A id \in DOMAIN finals : finals[id] <= 1
    /\ Quiescent =>
           \A id \in DOMAIN finals :
               finals[id] = 0 =>
                   \/ id \in ListedIds
                   \/ id \in DOMAIN active_orders_ /\ DropsSilently(active_orders_[id])

\* Every acknowledged limit order of at least one share comes to rest or gets its final
\* report.
LimitOrderSettles ==
    \A id \in 1 .. MaxOrders :
        (fix.at = "submit" /\ fix.order.exchange_id = id /\ ~DropsSilently(fix.order))
            ~> (id \in ListedIds \/ (id \in DOMAIN finals /\ finals[id] > 0))

\* The exchange ids submitted so far: the one of an order about to be submitted is not.
submitted_seq == IF fix.at = "submit" THEN order_seq_ - 1 ELSE order_seq_

Engine == INSTANCE MatchingEngine WITH order_seq_ <- submitted_seq

\* The handlers and callbacks drive the engine only in the ways MatchingEngine allows:
\* an order reaches submit with the next id and the symbol of a book, work is pushed by
\* one thread, and a callback returns before the engine goes on.
DrivesEngine == Engine!Spec

(* What the documentation says and the code does not do.                   *)

\* "one report per open/resting order": the gateway's active orders are the resting ones.
OpenIsResting == Quiescent => DOMAIN active_orders_ \subseteq ListedIds
============================================================================
