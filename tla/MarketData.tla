------------------------------ MODULE MarketData ------------------------------
(***************************************************************************)
(* The market data path of one symbol, composed with its order book: the   *)
(* matching thread writes book updates to the symbol's queue, the          *)
(* MarketDataFeed thread hands each to the subscribers and forwards it to  *)
(* a second queue, and the BookSnapshotService thread applies it to a      *)
(* mirror of the book.  The two queues are FIFO and lose nothing, which is *)
(* what LFQueue shows of a queue that is not overrun.                      *)
(***************************************************************************)
EXTENDS SymbolOrderBook, SnapshotMirror

CONSTANT MaxUnderWay   \* bound: updates in the two queues together

VARIABLES
  update_queue,    \* the symbol's MarketUpdateQueue
  repriced         \* history: orders taken out of the book by a new price, until they rest again

feedVars == <<update_queue, snapshot_feed, mirror, repriced>>

Repriced ==
  LET removed == IF incoming = None /\ incoming' # None
                 THEN DOMAIN order_index \ DOMAIN order_index' ELSE {}
      rested == IF incoming # None THEN DOMAIN order_index' \ DOMAIN order_index ELSE {}
  IN  (repriced \cup removed) \ rested

\* A step of the matching thread; sendBookUpdate writes to the queue.
engineStep ==
  /\ Next
  /\ update_queue' = update_queue \o updates'
  /\ Len(update_queue') + Len(snapshot_feed) <= MaxUnderWay
  /\ repriced' = Repriced
  /\ UNCHANGED <<snapshot_feed, mirror>>

\* One pass of MarketDataFeed::run's inner loop.
forwardUpdate ==
  /\ update_queue # <<>>
  /\ forward(Head(update_queue))
  /\ update_queue' = Tail(update_queue)
  /\ UNCHANGED <<vars, repriced>>

mirrorUpdate == applyUpdate /\ UNCHANGED <<vars, update_queue, repriced>>

FeedInit == Init /\ MirrorInit /\ update_queue = <<>> /\ repriced = {}

FeedNext == engineStep \/ forwardUpdate \/ mirrorUpdate

FeedSpec == FeedInit /\ [][FeedNext]_<<vars, feedVars>>

-----------------------------------------------------------------------------
\* The mirror after everything under way has been applied.
CaughtUp == Replayed(mirror, snapshot_feed \o update_queue)

BookEntries ==
  [o \in DOMAIN order_index |->
     SnapshotEntry(order_index[o].side, order_index[o].price, order_index[o].qty)]

\* Whatever is still under way, the mirror plus the updates in the two queues shows
\* every resting order with its side, price and remaining quantity: sendBookUpdate is
\* called, with the right contents and in the right order, for every change that
\* matchIncoming, cancelOrder and modifyOrder make to an order that stays.
MirrorShowsResting ==
  \A o \in DOMAIN order_index : o \in DOMAIN CaughtUp /\ CaughtUp[o] = BookEntries[o]

\* Beyond those it shows exactly the orders a modifyOrder took out to match them at a
\* new price and that have not come to rest since; fills and cancels never leave an
\* entry behind.
OnlyRepricedLinger == DOMAIN CaughtUp = DOMAIN order_index \cup repriced

\* The service "mirrors the live order book": with no order in matching and nothing
\* under way the two are the same.
MirrorIsBook ==
  incoming = None /\ update_queue = <<>> /\ snapshot_feed = <<>> => mirror = BookEntries
===============================================================================
