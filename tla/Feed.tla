-------------------------------- MODULE Feed --------------------------------
(***************************************************************************)
(* The exchange, its market data feed and one UI server (src/ui/main.py).  *)
(*                                                                         *)
(* The publisher is called by the gateway's callbacks on the engine        *)
(* thread.  The server starts while the exchange is running: it asks for a *)
(* snapshot over its FIX session, waits for the answer, at most 5 seconds, *)
(* and only then joins the multicast group.  Packets sent before that are  *)
(* not for it.  Those sent later arrive in order and none is lost; both is *)
(* external to the repository, and nothing in it would notice a loss.      *)
(***************************************************************************)
EXTENDS Gateway, MarketData

VARIABLES
    ui,       \* the server: off, asked, answered, joined
    view,     \* its order_state and order_book
    inbox,    \* snapshots on their way to it: symbol -> snapshot
    wire,     \* packets on their way to it
    gap       \* history: it missed packets after its snapshot, or gave up waiting for it

feedvars == << ui, view, inbox, wire, gap >>
fvars == << allvars, feedvars >>

FeedInit ==
    /\ GwInit
    /\ ui = "off"
    /\ view = EmptyView(InitSymbols)
    /\ inbox = NoEntry
    /\ wire = << >>
    /\ gap = FALSE

---------------------------------------------------------------------------
(* What the step the engine thread takes inside a callback sends           *)

\* onCancel and onReplace go on only for an order the gateway knows.
Tracked(id) == id \in DOMAIN order_sessions_ /\ id \in DOMAIN active_orders_

Published ==
    CASE InCallback("on_fill", "trade") -> FillPackets(call.maker)
      [] InCallback("on_cancel", "begin") /\ call.found /\ Tracked(call.req.orig_order_id) ->
             CancelPackets(active_orders_[call.req.orig_order_id])
      [] InCallback("on_replace", "begin") /\ call.found /\ Tracked(call.req.orig_order_id) ->
             LET o == active_orders_[call.req.orig_order_id]
             IN  ReplacePackets(call.req, o.side, call.leaves_qty, o.price)
      [] InCallback("on_order_rested", "begin") -> NewOrderPackets(call.order, call.leaves_qty)
      [] OTHER -> << >>

FeedEngine ==
    /\ GwEngine
    /\ wire' = IF ui = "joined" THEN wire \o Published ELSE wire
    /\ gap' = (gap \/ (ui = "answered" /\ Published # << >>))
    /\ IF InCallback("snapshot_cb", "begin")
       THEN /\ inbox' = [s \in DOMAIN call.snaps \cap InitSymbols |-> call.snaps[s]]
            /\ ui' = IF ui = "asked" THEN "answered" ELSE ui
       ELSE UNCHANGED << inbox, ui >>
    /\ UNCHANGED view

---------------------------------------------------------------------------
(* The UI server                                                           *)

\* lifespan: the request for the symbols of the configuration file.
UiAsk(c) ==
    /\ ui = "off"
    /\ RecvMarketDataRequest(c)
    /\ ui' = "asked"
    /\ UNCHANGED << view, inbox, wire, gap >>

\* A snapshot arrives, in lifespan or, after a timeout, in _fix_reader.
UiSnapshot(s) ==
    /\ s \in DOMAIN inbox
    /\ view' = ProcessMdSnapshot(view, s, inbox[s])
    /\ inbox' = Drop(inbox, s)
    /\ UNCHANGED << allvars, ui, wire, gap >>

\* Every symbol was answered: bind the socket.
UiJoin ==
    /\ ui = "answered"
    /\ inbox = NoEntry
    /\ ui' = "joined"
    /\ UNCHANGED << allvars, view, inbox, wire, gap >>

\* wait_for times out: bind the socket all the same.
UiTimeout ==
    /\ ui = "asked" \/ (ui = "answered" /\ inbox # NoEntry)
    /\ ui' = "joined"
    /\ gap' = TRUE
    /\ UNCHANGED << allvars, view, inbox, wire >>

\* datagram_received.
UiReceive ==
    /\ wire # << >>
    /\ view' = ApplyMd(view, Head(wire))
    /\ wire' = Tail(wire)
    /\ UNCHANGED << allvars, ui, inbox, gap >>

---------------------------------------------------------------------------

FeedExchange == (GwMain \/ GwAdmin \/ GwOrders \/ GwOver) /\ UNCHANGED feedvars

FeedUi ==
    \/ \E c \in Clients : UiAsk(c)
    \/ \E s \in InitSymbols : UiSnapshot(s)
    \/ UiJoin \/ UiTimeout \/ UiReceive

FeedNext == FeedExchange \/ FeedEngine \/ FeedUi

FeedSpec == FeedInit /\ [][FeedNext]_fvars

---------------------------------------------------------------------------
(* Properties                                                              *)

\* A server that joined in time and has received everything shows every resting order, as
\* the book has it: rested, partly filled, replaced in place or at another price, whether
\* it came with the snapshot or by packets.
UiShowsResting ==
    Quiescent /\ ui = "joined" /\ ~gap /\ wire = << >> =>
        \A id \in ListedIds :
            /\ id \in DOMAIN view.order_state
            /\ LET v == view.order_state[id]
                   o == BookOrder(id)
               IN  /\ v.price = o.price /\ v.qty = o.leaves_qty
                   /\ v.symbol = o.symbol /\ v.side = o.side

\* The server's levels are the sums of its orders, between any two packets too: what the
\* packets add to and take from a level never drifts from the orders they are about.
UiLevelsAreSums ==
    ui = "joined" /\ ~gap =>
        \A s \in DOMAIN view.order_book : \A side \in Sides :
            view.order_book[s][side] =
                LET ids(p) == {id \in DOMAIN view.order_state :
                                  LET v == view.order_state[id]
                                  IN  v.symbol = s /\ v.side = side /\ v.price = p}
                IN  [p \in {q \in Prices : ids(q) # {}} |->
                        MapThenSumSet(LAMBDA id : view.order_state[id].qty, ids(p))]
============================================================================
