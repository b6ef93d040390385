-------------------------- MODULE MatchingEngine --------------------------
(***************************************************************************)
(* Class MatchingEngine of src/src/engine/MatchingEngine.{h,cpp}: the work *)
(* queue, the thread that drains it and matches orders (run), and the      *)
(* calls other threads make: the gateway's QuickFIX thread submits work,   *)
(* the admin thread registers symbols, the main thread restores orders     *)
(* before the start and stops the engine at the end (main.cpp).            *)
(*                                                                         *)
(* One fill is one step of the engine thread.  `call' is the callback the  *)
(* engine thread is executing: it goes on only when the callback returned. *)
(* Only the engine thread reads the books, so a fill that runs its         *)
(* callback just before it erases the filled node is the same as one that  *)
(* runs it just after.                                                     *)
(***************************************************************************)
EXTENDS OrderBook

CONSTANTS
    InitSymbols,    \* [EXCHANGE] Symbols of the configuration
    MsgSymbols,     \* symbols a cancel or replace message may name
    RestingRows,    \* what loadRestingOrders may return: a set of sequences
    Qtys,           \* quantities of new orders, cast to int: a fraction the gateway accepts is 0
    ReplaceQtys,    \* quantities of replace requests, cast to int (the gateway checks none)
    QueueSize,      \* kQueueSize: the ring buffer holds one item less
    MaxOrders,      \* bound: exchange ids handed out
    MaxRequests     \* bound: cancels, replaces and snapshots submitted

ASSUME SymbolAssumption == InitSymbols \subseteq Symbols /\ MsgSymbols \subseteq Symbols
\* The rows are limit orders in ascending id order (a row is inserted when its
\* order first rests, and keeps its place; ids start at 1).
ASSUME RowsAssumption ==
    \A r \in RestingRows :
        /\ r \in Seq(Order)
        /\ \A i \in DOMAIN r : /\ r[i].exchange_id > 0
                              /\ r[i].type = "limit"
                              /\ r[i].tif = "gtc"
                              /\ r[i].price \in Prices
        /\ \A i, j \in DOMAIN r : i < j => r[i].exchange_id < r[j].exchange_id
ASSUME QtyAssumption ==
    /\ Qtys \subseteq Nat
    /\ ReplaceQtys \subseteq Int
ASSUME BoundAssumption == /\ QueueSize \in Nat \ {0, 1}
                          /\ MaxOrders \in Nat
                          /\ MaxRequests \in Nat

VARIABLES
    books_,       \* registered symbol -> book; its domain is valid_symbols_
    queue_,       \* the ring buffer as the FIFO it implements (module RingBuffer)
    order_seq_,   \* FixGateway::order_seq_, the last exchange id handed out
    requests,     \* cancels, replaces and snapshots submitted so far
    rows,         \* recovered orders the main thread has still to restore
    main,         \* the main thread: recovery, serving, closing, stopping
    pc,           \* the engine thread: created, run, match, stopped, undefined
    cur,          \* the aggressor in add(), with the replace request that caused it
    call          \* the callback being executed, or NoCall

vars == << books_, queue_, order_seq_, requests, rows, main, pc, cur, call >>

NoCall == [fn |-> "none"]
NoCur  == [tag |-> "NONE"]

valid_symbols_ == DOMAIN books_
stop_ == main = "stopping"

\* The requests.  ReplaceRequest::side is left out: the gateway has compared it
\* with the order's, and the engine does not read it.
CancelRequest == [client_id : Clients, symbol : Symbols, orig_order_id : Nat]
ReplaceRequest == [new_clord_id : ClOrdIds, old_clord_id : ClOrdIds, client_id : Clients,
                   orig_order_id : Nat, symbol : Symbols,
                   new_price : Prices, new_qty : Int]
Fill == [exchange_id : Nat, clord_id : ClOrdIds, client_id : Clients, symbol : Symbols,
         side : Sides, price : Prices, qty : Int, leaves_qty : Int, order_qty : Int]

WorkItem == [tag : {"ORDER"}, order : Order]
              \cup [tag : {"CANCEL"}, req : CancelRequest]
              \cup [tag : {"REPLACE"}, req : ReplaceRequest]
              \cup [tag : {"SNAPSHOT"}]

Aggressor == [tag : {"ORDER"}, order : Order]
               \cup [tag : {"REPLACE"}, order : Order, req : ReplaceRequest]

\* The callbacks main.cpp wires to FixGateway, and the snapshot lambda.
OnFill(maker, taker)        == [fn |-> "on_fill", maker |-> maker, taker |-> taker]
OnCancel(req, found)        == [fn |-> "on_cancel", req |-> req, found |-> found]
OnTifCancel(o)              == [fn |-> "on_tif_cancel", order |-> o]
OnOrderRested(o, leaves)    == [fn |-> "on_order_rested", order |-> o, leaves_qty |-> leaves]
OnReplace(req, result)      == [fn |-> "on_replace", req |-> req, found |-> result >= 0,
                                leaves_qty |-> result]
SnapshotCb(snaps)           == [fn |-> "snapshot_cb", snaps |-> snaps]

---------------------------------------------------------------------------
(* The main thread                                                         *)

\* The rows of the database, and order_seq_ set to loadMaxOrderSeq.
Init ==
    /\ books_ = [s \in InitSymbols |-> EmptyBook]
    /\ queue_ = << >>
    /\ rows \in RestingRows
    /\ order_seq_ = IF rows = << >> THEN 0 ELSE rows[Len(rows)].exchange_id
    /\ requests = 0
    /\ main = "recovery"
    /\ pc = "created"
    /\ cur = NoCur
    /\ call = NoCall

\* restoreOrder: a row of an unknown symbol is skipped.
RestoreOrder ==
    /\ main = "recovery"
    /\ rows # << >>
    /\ LET o == Head(rows)
       IN  books_' = IF o.symbol \in valid_symbols_
                     THEN [books_ EXCEPT ![o.symbol] = PushBack(@, o)]
                     ELSE books_
    /\ rows' = Tail(rows)
    /\ UNCHANGED << queue_, order_seq_, requests, main, pc, cur, call >>

Start ==
    /\ main = "recovery"
    /\ rows = << >>
    /\ main' = "serving"
    /\ pc' = "run"
    /\ UNCHANGED << books_, queue_, order_seq_, requests, rows, cur, call >>

\* acceptor.stop(): from here on no message reaches the gateway.
StopAcceptor ==
    /\ main = "serving"
    /\ main' = "closing"
    /\ UNCHANGED << books_, queue_, order_seq_, requests, rows, pc, cur, call >>

Stop ==
    /\ main = "closing"
    /\ main' = "stopping"
    /\ UNCHANGED << books_, queue_, order_seq_, requests, rows, pc, cur, call >>

---------------------------------------------------------------------------
(* The admin thread                                                        *)

RegisterSymbol(s) ==
    /\ main \in {"serving", "closing"}
    /\ s \notin valid_symbols_
    /\ books_' = Put(books_, s, EmptyBook)
    /\ UNCHANGED << queue_, order_seq_, requests, rows, main, pc, cur, call >>

---------------------------------------------------------------------------
(* The QuickFIX thread.  A push on a full ring buffer spins: the action    *)
(* waits until there is room.                                              *)

\* Mutation of Push: the ring is never full.
PushUnbounded(item) ==
    /\ main = "serving"
    /\ queue_' = Append(queue_, item)

Push(item) ==
    /\ main = "serving"
    /\ Len(queue_) < QueueSize - 1
    /\ queue_' = Append(queue_, item)

\* Mutation of Submit: order_seq_++ instead of ++order_seq_.
SubmitPostIncrement(o) ==
    /\ order_seq_ < MaxOrders
    /\ o.symbol \in valid_symbols_
    /\ order_seq_' = order_seq_ + 1
    /\ Push([tag |-> "ORDER", order |-> [o EXCEPT !.exchange_id = order_seq_]])
    /\ UNCHANGED << books_, requests, rows, main, pc, cur, call >>

\* The gateway has checked the symbol (isValidSymbol) and the quantity, and
\* drawn the next exchange id.
Submit(o) ==
    /\ order_seq_ < MaxOrders
    /\ o.symbol \in valid_symbols_
    /\ order_seq_' = order_seq_ + 1
    /\ Push([tag |-> "ORDER", order |-> [o EXCEPT !.exchange_id = order_seq_ + 1]])
    /\ UNCHANGED << books_, requests, rows, main, pc, cur, call >>

\* A message the gateway rejects has drawn an exchange id all the same.
Reject ==
    /\ main = "serving"
    /\ order_seq_ < MaxOrders
    /\ order_seq_' = order_seq_ + 1
    /\ UNCHANGED << books_, queue_, requests, rows, main, pc, cur, call >>

Request(item) ==
    /\ requests < MaxRequests
    /\ requests' = requests + 1
    /\ Push(item)
    /\ UNCHANGED << books_, order_seq_, rows, main, pc, cur, call >>

Cancel(req) == Request([tag |-> "CANCEL", req |-> req])
Replace(req) == Request([tag |-> "REPLACE", req |-> req])
RequestSnapshot == Request([tag |-> "SNAPSHOT"])

---------------------------------------------------------------------------
(* The engine thread                                                       *)

\* Mutation of Pop: the item is read and stays in the ring.
PopPeeks(tag) ==
    /\ pc = "run"
    /\ call = NoCall
    /\ queue_ # << >>
    /\ Head(queue_).tag = tag
    /\ queue_' = queue_

\* The top of run's loop: it pops the next item, of this kind.
Pop(tag) ==
    /\ pc = "run"
    /\ call = NoCall
    /\ queue_ # << >>
    /\ Head(queue_).tag = tag
    /\ queue_' = Tail(queue_)

\* book_for dereferences end() when the symbol has no book.
NoBook(symbol) ==
    /\ symbol \notin valid_symbols_
    /\ pc' = "undefined"
    /\ UNCHANGED << books_, cur, call >>

\* add() from its first line: the aggressor's leaves are reset to its quantity.
Add(agg) ==
    /\ pc' = "match"
    /\ cur' = [agg EXCEPT !.order.leaves_qty = agg.order.qty]

RunOrder ==
    /\ Pop("ORDER")
    /\ LET o    == Head(queue_).order
           book == books_[o.symbol]
       IN  \/ NoBook(o.symbol)
           \/ /\ o.symbol \in valid_symbols_
              /\ o.tif = "fok"
              /\ AvailableToFill(book, o) < o.qty
              /\ call' = OnTifCancel([o EXCEPT !.leaves_qty = o.qty])
              /\ UNCHANGED << books_, pc, cur >>
           \/ /\ o.symbol \in valid_symbols_
              /\ o.tif = "fok" => AvailableToFill(book, o) >= o.qty
              /\ Add([tag |-> "ORDER", order |-> o])
              /\ UNCHANGED << books_, call >>
    /\ UNCHANGED << order_seq_, requests, rows, main >>

RunCancel ==
    /\ Pop("CANCEL")
    /\ LET req  == Head(queue_).req
           book == books_[req.symbol]
       IN  \/ NoBook(req.symbol)
           \/ /\ req.symbol \in valid_symbols_
              /\ books_' = [books_ EXCEPT ![req.symbol] = Cancelled(@, req.orig_order_id)]
              /\ call' = OnCancel(req, Found(book, req.orig_order_id))
              /\ UNCHANGED << pc, cur >>
    /\ UNCHANGED << order_seq_, requests, rows, main >>

RunReplace ==
    /\ Pop("REPLACE")
    /\ LET req  == Head(queue_).req
           id   == req.orig_order_id
           book == books_[req.symbol]
       IN  \/ NoBook(req.symbol)
           \/ /\ req.symbol \in valid_symbols_
              /\ ~Found(book, id)
              /\ call' = OnReplace(req, -1)
              /\ UNCHANGED << books_, pc, cur >>
           \/ /\ req.symbol \in valid_symbols_
              /\ Found(book, id)
              /\ InPlace(book, id, req.new_price, req.new_qty)
              /\ books_' = [books_ EXCEPT ![req.symbol] = Reduced(@, id, req.new_qty)]
              /\ call' = OnReplace(req, req.new_qty)
              /\ UNCHANGED << pc, cur >>
           \/ /\ req.symbol \in valid_symbols_
              /\ Found(book, id)
              /\ ~InPlace(book, id, req.new_price, req.new_qty)
              /\ books_' = [books_ EXCEPT ![req.symbol] = Unlink(@, id)]
              /\ Add([tag |-> "REPLACE", req |-> req,
                      order |-> [book.order_index_[id] EXCEPT !.price = req.new_price,
                                                              !.qty = req.new_qty]])
              /\ UNCHANGED call
    /\ UNCHANGED << order_seq_, requests, rows, main >>

RunSnapshot ==
    /\ Pop("SNAPSHOT")
    /\ call' = SnapshotCb([s \in valid_symbols_ |->
                              [bids   |-> GetLevels(books_[s], "buy"),
                               asks   |-> GetLevels(books_[s], "sell"),
                               orders |-> GetOrders(books_[s])]])
    /\ UNCHANGED << books_, order_seq_, requests, rows, main, pc, cur >>

\* One iteration of match_against.
MatchFill ==
    /\ pc = "match"
    /\ call = NoCall
    /\ LET o    == cur.order
           book == books_[o.symbol]
           r    == Resting(book, o)
           qty  == FillQty(book, o)
       IN  /\ CanMatch(book, o)
           /\ books_' = [books_ EXCEPT ![o.symbol] = AfterFill(@, o)]
           /\ cur' = [cur EXCEPT !.order.leaves_qty = @ - qty]
           /\ call' = OnFill(MakeFill(r, r.price, qty, r.leaves_qty - qty),
                             MakeFill(o, r.price, qty, o.leaves_qty - qty))
    /\ UNCHANGED << queue_, order_seq_, requests, rows, main, pc >>

\* What run calls back once add has returned; a FOK that was let in, a market
\* order's remainder and a filled order are not reported.
AfterAdd(agg) ==
    LET o == agg.order
    IN  CASE agg.tag = "REPLACE" -> OnReplace(agg.req, o.leaves_qty)
          [] agg.tag = "ORDER" /\ o.tif = "ioc" /\ o.leaves_qty > 0 -> OnTifCancel(o)
          [] agg.tag = "ORDER" /\ o.tif = "gtc" /\ o.leaves_qty > 0 /\ o.type = "limit" ->
                 OnOrderRested([o EXCEPT !.leaves_qty = o.qty], o.leaves_qty)
          [] OTHER -> NoCall

\* The loop ended: the rest of add, and of the branch of run that called it.
MatchEnd ==
    /\ pc = "match"
    /\ call = NoCall
    /\ ~CanMatch(books_[cur.order.symbol], cur.order)
    /\ books_' = IF Rests(cur.order)
                 THEN [books_ EXCEPT ![cur.order.symbol] = PushBack(@, cur.order)]
                 ELSE books_
    /\ call' = AfterAdd(cur)
    /\ cur' = NoCur
    /\ pc' = "run"
    /\ UNCHANGED << queue_, order_seq_, requests, rows, main >>

CallbackReturn ==
    /\ call # NoCall
    /\ call' = NoCall
    /\ UNCHANGED << books_, queue_, order_seq_, requests, rows, main, pc, cur >>

\* Mutation of Exit: the queue is not looked at.
ExitAtOnce ==
    /\ pc = "run"
    /\ call = NoCall
    /\ stop_
    /\ pc' = "stopped"
    /\ UNCHANGED << books_, queue_, order_seq_, requests, rows, main, cur, call >>

\* stop_ is set and the queue is empty.
Exit ==
    /\ pc = "run"
    /\ call = NoCall
    /\ stop_
    /\ queue_ = << >>
    /\ pc' = "stopped"
    /\ UNCHANGED << books_, queue_, order_seq_, requests, rows, main, cur, call >>

---------------------------------------------------------------------------

NewOrders ==
    {o \in [exchange_id : {0}, clord_id : ClOrdIds, client_id : Clients, symbol : Symbols,
            side : Sides, type : Types, price : Prices \cup {0}, qty : Qtys,
            leaves_qty : Qtys, tif : Tifs] :
        /\ o.leaves_qty = o.qty
        /\ IF o.type = "limit" THEN o.price \in Prices /\ o.price > 0 ELSE o.price = 0}

MainNext == RestoreOrder \/ Start \/ StopAcceptor \/ Stop
AdminNext == \E s \in Symbols : RegisterSymbol(s)
GatewayNext ==
    \/ \E o \in NewOrders : Submit(o)
    \/ Reject
    \/ \E id \in 1 .. order_seq_, s \in MsgSymbols, c \in Clients :
           Cancel([client_id |-> c, symbol |-> s, orig_order_id |-> id])
    \/ \E id \in 1 .. order_seq_, s \in MsgSymbols, c \in Clients,
          p \in Prices, q \in ReplaceQtys, old, new \in ClOrdIds :
           Replace([new_clord_id |-> new, old_clord_id |-> old, client_id |-> c,
                    orig_order_id |-> id, symbol |-> s,
                    new_price |-> p, new_qty |-> q])
    \/ RequestSnapshot
EngineNext ==
    \/ RunOrder \/ RunCancel \/ RunReplace \/ RunSnapshot
    \/ MatchFill \/ MatchEnd \/ Exit
    \/ CallbackReturn

\* The process is over.
Over == pc \in {"stopped", "undefined"} /\ UNCHANGED vars

Next == MainNext \/ AdminNext \/ GatewayNext \/ EngineNext \/ Over

Spec == Init /\ [][Next]_vars

\* The engine thread spins on its own core and its callbacks return; the main
\* thread finishes the recovery.  Clients and the operator owe nothing.
FairSpec == Spec /\ WF_vars(EngineNext) /\ WF_vars(RestoreOrder \/ Start)

---------------------------------------------------------------------------
(* Properties                                                              *)

\* Every variable holds a value of its kind: books of registered symbols only,
\* work items in a queue no longer than the ring buffer, an aggressor exactly
\* while run() is inside add().
TypeOK ==
    /\ DOMAIN books_ \subseteq Symbols
    /\ \A s \in DOMAIN books_ : BookType(books_[s])
    /\ queue_ \in Seq(WorkItem)
    /\ Len(queue_) < QueueSize
    /\ order_seq_ \in Nat
    /\ requests \in 0 .. MaxRequests
    /\ rows \in Seq(Order)
    /\ main \in {"recovery", "serving", "closing", "stopping"}
    /\ pc \in {"created", "run", "match", "stopped", "undefined"}
    /\ IF pc = "match" THEN cur \in Aggressor /\ cur.order.symbol \in DOMAIN books_
                       ELSE cur = NoCur

\* bids_, asks_ and order_index_ never disagree, whatever mix of fills, cancels and
\* replaces ran: no dangling iterator, no order the index cannot find, no order
\* listed twice (OrderBook::cancel, replace and match_against erase from both).
IndexExact ==
    \A s \in DOMAIN books_ : /\ ListedIsIndexed(books_[s])
                            /\ IndexedIsListed(books_[s])
                            /\ ListedOnce(books_[s])

\* match_against, cancel and replace never leave an empty list behind, on which the
\* next match_against would call front().
LevelsNonEmpty == \A s \in DOMAIN books_ : NoEmptyLevel(books_[s])

\* No bid at or above an ask.
Uncrossed == \A s \in DOMAIN books_ : NotCrossed(books_[s])

\* A bid and an ask at or below it, in one book.
CrossPairs(book) ==
    {p \in (DOMAIN book.order_index_) \X (DOMAIN book.order_index_) :
        /\ book.order_index_[p[1]].side = "buy"
        /\ book.order_index_[p[2]].side = "sell"
        /\ book.order_index_[p[1]].price >= book.order_index_[p[2]].price}
Crossings == UNION {CrossPairs(books_[s]) : s \in DOMAIN books_}

\* No two orders come to cross, not even between two fills of one aggressor: what could
\* trade has traded before an order rests (add matches first, replace calls add).  Only
\* restore does not match, so the only crossed orders are those whose rows crossed.
NoNewCrossing == [][main # "recovery" => Crossings' \subseteq Crossings]_vars

\* Fill or kill: an order that passed available_to_fill is always filled completely
\* by the match loop, so add never has a remainder of it to rest.
FokAllOrNothing ==
    /\ \A s \in DOMAIN books_ : \A id \in DOMAIN books_[s].order_index_ :
           books_[s].order_index_[id].tif # "fok"
    /\ pc = "match" /\ cur.order.tif = "fok"
           => SumLeaves(books_[cur.order.symbol], Reachable(books_[cur.order.symbol], cur.order))
                  >= cur.order.leaves_qty

\* ... and it is killed only when the resting quantity it could reach, over all levels up
\* to its limit, is short of its own (run: "cancel immediately if insufficient").
FokKilledOnlyIfShort ==
    call # NoCall /\ call.fn = "on_tif_cancel" /\ call.order.tif = "fok" =>
        LET book == books_[call.order.symbol]
        IN  SumLeaves(book, Reachable(book, call.order)) < call.order.qty

\* The ids the engine still has to deal with, by the place they are in.
ListedIds == UNION {DOMAIN books_[s].order_index_ : s \in DOMAIN books_}
QueuedIds == {queue_[i].order.exchange_id : i \in {j \in DOMAIN queue_ : queue_[j].tag = "ORDER"}}
MatchingIds == IF pc = "match" THEN {cur.order.exchange_id} ELSE {}
UnrestoredIds == {rows[i].exchange_id : i \in DOMAIN rows}
LiveIds == ListedIds \cup QueuedIds \cup MatchingIds \cup UnrestoredIds

\* An order is in one place at a time: still to be restored, waiting, being matched
\* or in one book; run() and replace() move it, they never copy it.
OnePlace ==
    /\ ListedIds \cap QueuedIds = {}
    /\ ListedIds \cap MatchingIds = {}
    /\ ListedIds \cap UnrestoredIds = {}
    /\ QueuedIds \cap MatchingIds = {}
    /\ QueuedIds \cap UnrestoredIds = {}
    /\ \A s, t \in DOMAIN books_ :
           s # t => DOMAIN books_[s].order_index_ \cap DOMAIN books_[t].order_index_ = {}

\* An order that was filled, cancelled or killed never comes back: no late cancel,
\* replace or fill that is still queued for it revives it.
NoResurrection == [][LiveIds' \cap (0 .. order_seq_) \subseteq LiveIds]_vars

\* A submitted order always finds its book: the symbol that isValidSymbol accepted
\* on the QuickFIX thread is still there when the engine pops the order.
QueuedOrderHasBook ==
    \A i \in DOMAIN queue_ : queue_[i].tag = "ORDER" => queue_[i].order.symbol \in valid_symbols_

\* The engine stops only after the last request was served (run's exit condition,
\* with the acceptor stopped before the engine).
StopsDrained == pc = "stopped" => queue_ = << >> /\ cur = NoCur /\ call = NoCall

\* Every submitted order is decided: it ends up in a book, or filled, killed or
\* dropped, however many orders and requests are queued in front of it.
OrdersDecided ==
    \A id \in 1 .. MaxOrders :
        id \in QueuedIds ~> (id \in ListedIds \/ id \notin LiveIds \/ pc = "undefined")

\* stop() returns: the join ends because the thread serves what is queued and exits.
StopReturns == stop_ ~> pc \in {"stopped", "undefined"}

(* What the documentation says and the code does not do.                   *)

\* "symbol is always pre-allocated": book_for never looks up a symbol without a book.
BookForFinds == pc # "undefined"
============================================================================
