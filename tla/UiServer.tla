------------------------------ MODULE UiServer ------------------------------
(***************************************************************************)
(* The web UI: the server (src/ui/main.py) with its FIX session            *)
(* (src/ui/fix_client.py), and a browser with the page of                  *)
(* src/ui/static/index.html.                                               *)
(*                                                                         *)
(* The exchange is reduced to what the server meets: the orders of the     *)
(* server's session, the reports and snapshots on the session, and the     *)
(* packets of the feed.  Some orders are older than the server.  How the   *)
(* server's book follows the feed is the subject of Feed; here it is about *)
(* what reaches the page, so a book is a function from orders to           *)
(* quantities, and prices, levels and the chart are left out.              *)
(*                                                                         *)
(* The server is one asyncio loop: what happens between two awaits is a    *)
(* step.  Messages to a page go through one socket, in the order they are  *)
(* sent, and the page handles them in that order: sending and handling are *)
(* one step.  Broadcasts are tasks, which the loop starts in the order of  *)
(* their creation; the replay and the snapshot are sent by the handler of  *)
(* the page's connection, and the two interleave.                          *)
(***************************************************************************)
EXTENDS Naturals, SequencesExt, Functions

CONSTANTS
    Orders,        \* orders of the session; an order stands for its ClOrdID
    Qty,           \* quantity of an order
    Left,          \* what an earlier holder of the session may have left: values of leaves
    MaxFaults,     \* bound: torn reads and lost connections
    MaxConnects    \* bound: connections of the page

ASSUME UiAssumption ==
    IsFiniteSet(Orders) /\ Qty \in Nat \ {0} /\ Left \subseteq [Orders -> 0..(Qty + 1)]

NotYet == Qty + 1   \* "leaves" of an order that has not been entered

VARIABLES
    leaves,        \* the exchange: order -> open quantity, 0 when it has ended
    link,          \* the FIX connection: down, up, lost
    statuses,      \* onLogon's copy of the open orders, as far as their status is unsent
    onLogon,       \* onLogon is running
    toExch,        \* messages to the exchange
    wire,          \* messages from it
    udp,           \* packets of the feed for this server
    phase,         \* lifespan: off, logon, drain, wait, serving, failed, stopped
    reader,        \* _fix_reader: none, alive, dead
    order_state,   \* order -> quantity
    exec_log,      \* reports, those of order_statuses included
    ws,            \* the page's connection: closed, replay, open
    at,            \* the handler's place in exec_log
    tasks,         \* broadcasts created and not yet run
    orders,        \* the page's blotter: order -> active
    bookOrders,    \* the page's book: order -> quantity
    faults, connects,
    missed,        \* history: orders with a report that recv has returned and nothing has kept
    late           \* history: a snapshot came that lifespan had given up on, and the page was connected

exchvars == << leaves, link, statuses, onLogon >>
servervars == << phase, reader, order_state, exec_log >>
pagevars == << ws, at, tasks, orders, bookOrders, connects >>
history == << missed, late >>
vars == << exchvars, toExch, wire, udp, servervars, pagevars, faults, history >>

Empty == << >>

Rpt(type, o) == [msg |-> "8", type |-> type, order |-> o]

Open == {o \in Orders : leaves[o] \in 1..Qty}

Init ==
    /\ leaves \in Left
    /\ link = "down" /\ statuses = {} /\ onLogon = FALSE
    /\ toExch = << >> /\ wire = << >> /\ udp = << >>
    /\ phase = "off" /\ reader = "none" /\ order_state = Empty /\ exec_log = << >>
    /\ ws = "closed" /\ at = 1 /\ tasks = << >> /\ orders = Empty /\ bookOrders = Empty
    /\ faults = 0 /\ connects = 0 /\ missed = {} /\ late = FALSE

---------------------------------------------------------------------------
(* The exchange                                                            *)

\* A report is lost when the session is not logged on: the sequence numbers start again.
Tell(reports) == wire' = IF link = "up" THEN wire \o reports ELSE wire

\* The feed reaches a server that has joined the group.
Publish(packets) == udp' = IF phase = "serving" THEN udp \o packets ELSE udp

Packet(evt, o, qty) == [evt |-> evt, order |-> o, qty |-> qty]

\* The answer to the logon is sent, then onLogon runs and copies the open orders ...
ExchLogon ==
    /\ toExch # << >> /\ Head(toExch).msg = "A"
    /\ link' = "up" /\ onLogon' = TRUE /\ statuses' = Open
    /\ wire' = << [msg |-> "A"] >>
    /\ toExch' = Tail(toExch)
    /\ UNCHANGED << leaves, udp, servervars, pagevars, faults, history >>

\* ... whose status is sent later, whatever has happened to them ...
ExchStatus(o) ==
    /\ o \in statuses
    /\ Tell(<< Rpt("I", o) >>)
    /\ statuses' = statuses \ {o}
    /\ UNCHANGED << leaves, link, onLogon, toExch, udp, servervars, pagevars, faults, history >>

\* ... and at last those that ended, as far as the database has them.
ExchHistory ==
    /\ onLogon /\ statuses = {}
    /\ onLogon' = FALSE
    /\ \E known \in SUBSET {o \in Orders : leaves[o] = 0} :
           \E ends \in SetToSeqs(known) : Tell([i \in DOMAIN ends |-> Rpt("2", ends[i])])
    /\ UNCHANGED << leaves, link, statuses, toExch, udp, servervars, pagevars, faults, history >>

\* The next message of the server, when the thread is free.
Handles(type) ==
    /\ link = "up" /\ ~onLogon
    /\ toExch # << >> /\ Head(toExch).msg = type
    /\ toExch' = Tail(toExch)

\* The snapshot of the books; none is sent for a symbol that the exchange does not have.
ExchSnapshot ==
    /\ Handles("V")
    /\ \/ Tell(<< [msg |-> "W", book |-> Restrict(leaves, Open)] >>)
       \/ UNCHANGED wire
    /\ UNCHANGED << exchvars, udp, servervars, pagevars, faults, history >>

\* A new order is acknowledged and rests, or is rejected.
ExchNew ==
    /\ Handles("D")
    /\ LET o == Head(toExch).order
       IN  \/ /\ leaves' = [leaves EXCEPT ![o] = Qty]
              /\ Tell(<< Rpt("0", o) >>)
              /\ Publish(<< Packet("NewOrder", o, Qty) >>)
           \/ /\ leaves' = [leaves EXCEPT ![o] = 0]
              /\ Tell(<< Rpt("8", o) >>)
              /\ UNCHANGED udp
    /\ UNCHANGED << link, statuses, onLogon, servervars, pagevars, faults, history >>

\* A cancel of an order that has ended meanwhile is not answered.
ExchCancel ==
    /\ Handles("F")
    /\ LET o == Head(toExch).order
       IN  IF o \in Open
           THEN /\ leaves' = [leaves EXCEPT ![o] = 0]
                /\ Tell(<< Rpt("4", o) >>)
                /\ Publish(<< Packet("Cancel", o, 0) >>)
           ELSE UNCHANGED << leaves, wire, udp >>
    /\ UNCHANGED << link, statuses, onLogon, servervars, pagevars, faults, history >>

ExchHeartbeat ==
    /\ Handles("0")
    /\ UNCHANGED << exchvars, wire, udp, servervars, pagevars, faults, history >>

\* Another client trades with a resting order.
ExchFill(o) ==
    /\ o \in Open
    /\ leaves' = [leaves EXCEPT ![o] = @ - 1]
    /\ Tell(<< Rpt(IF leaves[o] = 1 THEN "2" ELSE "1", o) >>)
    /\ Publish(<< Packet("FillResting", o, leaves[o] - 1) >>)
    /\ UNCHANGED << link, statuses, onLogon, toExch, servervars, pagevars, faults, history >>

\* QuickFIX asks for a sign of life when nothing has come for a while.
ExchTestRequest ==
    /\ link = "up" /\ toExch = << >> /\ wire = << >> /\ ~onLogon
    /\ phase \in {"wait", "serving"}
    /\ wire' = << [msg |-> "1"] >>
    /\ UNCHANGED << exchvars, toExch, udp, servervars, pagevars, faults, history >>

\* The exchange closes the connection; what it has sent can still be read.
ExchCloses ==
    /\ link = "up" /\ faults < MaxFaults
    /\ link' = "lost" /\ statuses' = {} /\ onLogon' = FALSE
    /\ toExch' = << >>
    /\ faults' = faults + 1
    /\ UNCHANGED << leaves, wire, udp, servervars, pagevars, history >>

Exchange ==
    \/ ExchLogon \/ ExchHistory \/ ExchSnapshot \/ ExchNew \/ ExchCancel \/ ExchHeartbeat
    \/ \E o \in Orders : ExchStatus(o) \/ ExchFill(o)
    \/ ExchTestRequest \/ ExchCloses

---------------------------------------------------------------------------
(* The FIX session of the server                                           *)

Send(m) == toExch' = IF link = "lost" THEN toExch ELSE Append(toExch, m)

\* recv: a complete message.
Recv(msg) == wire # << >> /\ Head(wire).msg = msg /\ wire' = Tail(wire)

\* recv: the buffer ends between "10=" and the SOH after it, and index() raises ValueError,
\* or the connection was closed and everything is read.
RecvRaises ==
    /\ \/ wire # << >> /\ faults < MaxFaults /\ faults' = faults + 1
       \/ wire = << >> /\ link = "lost" /\ UNCHANGED faults
    /\ UNCHANGED wire

\* A message nobody looks at; a report among them is missed.
Dropped(m) == missed' = IF m.msg = "8" THEN missed \cup {m.order} ELSE missed

---------------------------------------------------------------------------
(* lifespan                                                                *)

\* claim_session, connect, and logon() up to the answer.
Startup ==
    /\ phase = "off"
    /\ \/ phase' = "failed" /\ UNCHANGED toExch       \* no session to be had
       \/ phase' = "logon" /\ Send([msg |-> "A"])
    /\ UNCHANGED << exchvars, wire, udp, reader, order_state, exec_log, pagevars, faults, history >>

LogonAnswer ==
    /\ phase = "logon"
    /\ Recv("A")
    /\ phase' = "drain"
    /\ UNCHANGED << exchvars, toExch, udp, reader, order_state, exec_log, pagevars, faults, history >>

\* logon() keeps the status of open orders and the ends of others ...
DrainRecv ==
    /\ phase = "drain"
    /\ Recv("8")
    /\ IF Head(wire).type \in {"I", "2", "4"}
       THEN exec_log' = Append(exec_log, Head(wire)) /\ UNCHANGED missed
       ELSE Dropped(Head(wire)) /\ UNCHANGED exec_log
    /\ UNCHANGED << exchvars, toExch, udp, phase, reader, order_state, pagevars, faults, late >>

\* ... until nothing has come for 0.3 s.  Then the books are asked for.
DrainEnds ==
    /\ phase = "drain" /\ wire = << >> /\ link = "up"
    /\ phase' = "wait"
    /\ Send([msg |-> "V"])
    /\ UNCHANGED << exchvars, wire, udp, reader, order_state, exec_log, pagevars, faults, history >>

\* _process_md_snapshot.
ProcessMdSnapshot(m) ==
    order_state' = [o \in DOMAIN order_state \cup DOMAIN m.book |->
                       IF o \in DOMAIN m.book THEN m.book[o] ELSE order_state[o]]

\* The reader is started and the multicast group joined.
Serve == phase' = "serving" /\ reader' = "alive"

WaitRecv ==
    /\ phase = "wait"
    /\ \/ Recv("W") /\ ProcessMdSnapshot(Head(wire)) /\ Serve /\ UNCHANGED << toExch, missed >>
       \/ Recv("1") /\ Send([msg |-> "0"]) /\ UNCHANGED << order_state, phase, reader, missed >>
       \/ Recv("8") /\ Dropped(Head(wire)) /\ UNCHANGED << toExch, order_state, phase, reader >>
    /\ UNCHANGED << exchvars, udp, exec_log, pagevars, faults, late >>

\* Nothing comes for 5 s.
WaitTimeout ==
    /\ phase = "wait" /\ wire = << >> /\ link = "up"
    /\ Serve
    /\ UNCHANGED << exchvars, toExch, wire, udp, order_state, exec_log, pagevars, faults, history >>

\* Nothing catches the exception, and the session is not released.
StartupRaises ==
    /\ phase \in {"logon", "drain", "wait"}
    /\ RecvRaises
    /\ phase' = "failed"
    /\ UNCHANGED << exchvars, toExch, udp, reader, order_state, exec_log, pagevars, history >>

\* After the yield: the pages are gone, the session is logged out and released.
Shutdown ==
    /\ phase = "serving" /\ ws = "closed"
    /\ phase' = "stopped" /\ reader' = "none"
    /\ Send([msg |-> "5"])
    /\ UNCHANGED << exchvars, wire, udp, order_state, exec_log, pagevars, faults, history >>

---------------------------------------------------------------------------
(* The callbacks of the serving loop                                       *)

\* A task for every page in ws_clients.
Broadcast(m) == tasks' = IF ws = "closed" THEN tasks ELSE Append(tasks, m)

ReaderRecv ==
    /\ phase = "serving" /\ reader = "alive"
    /\ \/ /\ Recv("1") /\ Send([msg |-> "0"])
          /\ UNCHANGED << exec_log, tasks, order_state, late >>
       \/ /\ Recv("8")
          /\ exec_log' = Append(exec_log, Head(wire))
          /\ Broadcast(Head(wire))
          /\ UNCHANGED << toExch, order_state, late >>
       \/ /\ Recv("W") /\ ProcessMdSnapshot(Head(wire))
          /\ late' = (late \/ ws # "closed")
          /\ UNCHANGED << toExch, exec_log, tasks >>
    /\ UNCHANGED << exchvars, udp, phase, reader, ws, at, orders, bookOrders, connects, faults, missed >>

\* The task ends, and nobody looks at it.
ReaderRaises ==
    /\ phase = "serving" /\ reader = "alive"
    /\ RecvRaises
    /\ reader' = "dead"
    /\ UNCHANGED << exchvars, toExch, udp, phase, order_state, exec_log, pagevars, history >>

\* _apply_md, and onMd of the page.
ApplyMd(book, pkt) ==
    IF pkt.evt = "NewOrder"
    THEN [o \in DOMAIN book \cup {pkt.order} |-> IF o = pkt.order THEN pkt.qty ELSE book[o]]
    ELSE IF pkt.order \notin DOMAIN book THEN book
    ELSE IF pkt.qty = 0 THEN Restrict(book, DOMAIN book \ {pkt.order})
    ELSE [book EXCEPT ![pkt.order] = pkt.qty]

DatagramReceived ==
    /\ phase = "serving" /\ udp # << >>
    /\ udp' = Tail(udp)
    /\ order_state' = ApplyMd(order_state, Head(udp))
    /\ Broadcast([msg |-> "md", pkt |-> Head(udp)])
    /\ UNCHANGED << exchvars, toExch, wire, phase, reader, exec_log, ws, at, orders, bookOrders,
                    connects, faults, history >>

---------------------------------------------------------------------------
(* The page                                                                *)

Row(rows, o, active) == [x \in DOMAIN rows \cup {o} |-> IF x = o THEN active ELSE rows[x]]

\* Mutation of OnExec: a status is taken as it comes.
OnExecStatusWins(rows, r) ==
    IF r.type \in {"I", "0"} THEN Row(rows, r.order, TRUE)
    ELSE IF r.order \in DOMAIN rows \/ r.type \in {"2", "4"}
         THEN Row(rows, r.order, r.type \notin {"2", "4", "8"})
    ELSE rows

\* onExec: a status adds an unknown order, an acknowledgement adds or overwrites, the other
\* reports change a known order; an end adds an unknown one.
OnExec(rows, r) ==
    IF r.type = "I" THEN IF r.order \in DOMAIN rows THEN rows ELSE Row(rows, r.order, TRUE)
    ELSE IF r.type = "0" THEN Row(rows, r.order, TRUE)
    ELSE IF r.order \in DOMAIN rows \/ r.type \in {"2", "4"}
         THEN Row(rows, r.order, r.type \notin {"2", "4", "8"})
    ELSE rows

\* The page is loaded, or only connects again 2 s after it has lost its connection.
Connect ==
    /\ phase = "serving" /\ ws = "closed" /\ connects < MaxConnects
    /\ connects' = connects + 1
    /\ ws' = "replay" /\ at' = 1
    /\ \/ orders' = Empty /\ bookOrders' = Empty
       \/ connects > 0 /\ UNCHANGED << orders, bookOrders >>
    /\ late' = FALSE
    /\ UNCHANGED << exchvars, toExch, wire, udp, servervars, tasks, faults, missed >>

\* websocket_endpoint: one report of the log, which grows meanwhile ...
Replay ==
    /\ ws = "replay" /\ at <= Len(exec_log)
    /\ orders' = OnExec(orders, exec_log[at])
    /\ at' = at + 1
    /\ UNCHANGED << exchvars, toExch, wire, udp, servervars, ws, tasks, bookOrders, connects,
                    faults, history >>

\* Mutation of OnSnapshot: the orders are added to those of the page.
OnSnapshotAdds(book, snap) ==
    [o \in DOMAIN book \cup DOMAIN snap |-> IF o \in DOMAIN snap THEN snap[o] ELSE book[o]]

\* onSnapshot: bookOrders = {} comes first.
OnSnapshot(book, snap) == snap

\* ... and when its end is reached, the snapshot.
SendSnapshot ==
    /\ ws = "replay" /\ at > Len(exec_log)
    /\ bookOrders' = OnSnapshot(bookOrders, order_state)
    /\ ws' = "open" /\ at' = 1
    /\ UNCHANGED << exchvars, toExch, wire, udp, servervars, tasks, orders, connects, faults, history >>

\* _safe_send.
SafeSend ==
    /\ tasks # << >>
    /\ tasks' = Tail(tasks)
    /\ IF Head(tasks).msg = "8"
       THEN orders' = OnExec(orders, Head(tasks)) /\ UNCHANGED bookOrders
       ELSE bookOrders' = ApplyMd(bookOrders, Head(tasks).pkt) /\ UNCHANGED orders
    /\ UNCHANGED << exchvars, toExch, wire, udp, servervars, ws, at, connects, faults, history >>

\* The connection ends, and with it the handler; sends that fail are ignored.
Gone == ws' = "closed" /\ at' = 1 /\ tasks' = << >>

Disconnect ==
    /\ ws # "closed"
    /\ Gone
    /\ UNCHANGED << exchvars, toExch, wire, udp, servervars, orders, bookOrders, connects, faults, history >>

\* A request of the page; a lost FIX connection raises ConnectionError and ends the handler.
Request(m) ==
    /\ ws = "open"
    /\ Send(m)
    /\ IF link = "lost" THEN Gone ELSE UNCHANGED << ws, at, tasks >>
    /\ UNCHANGED << exchvars, wire, udp, servervars, orders, bookOrders, connects, faults, history >>

\* ClOrdIDs are made of the session, the start of the server and seq_counter: always new.
NewOrder(o) ==
    /\ leaves[o] = NotYet /\ \A i \in DOMAIN toExch : toExch[i] # [msg |-> "D", order |-> o]
    /\ Request([msg |-> "D", order |-> o])

\* The page offers it for active rows.
CancelOrder(o) ==
    /\ o \in DOMAIN orders /\ orders[o]
    /\ \A i \in DOMAIN toExch : toExch[i] # [msg |-> "F", order |-> o]
    /\ Request([msg |-> "F", order |-> o])

Page ==
    \/ Connect \/ Replay \/ SendSnapshot \/ SafeSend \/ Disconnect
    \/ \E o \in Orders : NewOrder(o) \/ CancelOrder(o)

Over == phase \in {"failed", "stopped"} /\ UNCHANGED vars

Server ==
    \/ Startup \/ LogonAnswer \/ DrainRecv \/ DrainEnds \/ WaitRecv \/ WaitTimeout \/ StartupRaises
    \/ Shutdown \/ ReaderRecv \/ ReaderRaises \/ DatagramReceived

Next == (phase \notin {"failed", "stopped"} /\ Exchange) \/ Server \/ Page \/ Over

Spec == Init /\ [][Next]_vars

---------------------------------------------------------------------------
(* Properties                                                              *)

\* Everything that was sent on the session has arrived, and everything has reached the page.
Settled ==
    /\ link = "up" /\ ~onLogon /\ toExch = << >> /\ wire = << >>
    /\ phase = "serving" /\ reader = "alive"
    /\ ws = "open" /\ tasks = << >>

\* The blotter offers exactly the open orders for cancellation: orders entered on the page,
\* left behind by an earlier server, or ended while the page was away; in whatever way the
\* statuses and ends of a logon, the live reports, their replay and their broadcast overtake
\* each other.  Excepted are orders with a report the server has received and not kept.
BlotterTrue ==
    Settled =>
        \A o \in Orders \ missed :
            (o \in DOMAIN orders /\ orders[o]) <=> o \in Open

\* A page that has had its snapshot and all broadcasts has the server's book, although
\* packets may be in the snapshot and come again after it, or come before it: reconnecting
\* with an old book included.  Excepted is a page that was connected when a snapshot of the
\* exchange came that lifespan had given up on: the reader tells the pages nothing of it.
PageFollowsServer ==
    ws = "open" /\ tasks = << >> /\ ~late => bookOrders = order_state

\* "All execution reports received from the exchange are accumulated in memory"
\* (docs/UI.md:50): every report that recv has returned is in exec_log.
ExecLogComplete == missed = {}
=============================================================================
