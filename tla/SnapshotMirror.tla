---------------------------- MODULE SnapshotMirror ----------------------------
(***************************************************************************)
(* BookSnapshotService for one symbol: the queue that MarketDataFeed fills *)
(* and the mirror of the book that the service's thread keeps from it.     *)
(***************************************************************************)
EXTENDS Integers, Sequences

VARIABLES
  snapshot_feed,   \* snapshot_feed_
  mirror           \* mirror_[symbol]

SnapshotEntry(side, price, qty) == [side |-> side, price |-> price, qty |-> qty]

EmptyMirror == [o \in {} |-> SnapshotEntry("INVALID", 0, 0)]

With(book, update) ==
  [o \in DOMAIN book \cup {update.order_id} |->
     IF o = update.order_id THEN SnapshotEntry(update.side, update.price, update.qty) ELSE book[o]]

\* Mutant: emplace, which keeps an entry that is there.
AddedIfNew(book, update) == IF update.order_id \in DOMAIN book THEN book ELSE With(book, update)

Added(book, update) == With(book, update)

\* Mutant: the quantity is taken for the change of the quantity.
RequantifiedBy(book, update) ==
  [o \in DOMAIN book |->
     IF o = update.order_id THEN [book[o] EXCEPT !.qty = @ - update.qty] ELSE book[o]]

\* Only an entry that exists.
Requantified(book, update) ==
  [o \in DOMAIN book |->
     IF o = update.order_id THEN [book[o] EXCEPT !.qty = update.qty] ELSE book[o]]

\* Mutant: only a CANCEL that says nothing is left removes the entry.
ErasedIfFilled(book, update) ==
  IF update.qty = 0 THEN [o \in DOMAIN book \ {update.order_id} |-> book[o]] ELSE book

Erased(book, update) == [o \in DOMAIN book \ {update.order_id} |-> book[o]]

\* applyUpdate's switch.
Applied(book, update) ==
  CASE update.type = "ADD"    -> Added(book, update)
    [] update.type = "MODIFY" -> Requantified(book, update)
    [] update.type = "CANCEL" -> Erased(book, update)
    [] update.type = "TRADE"  -> book

\* applyUpdate for each of a sequence of updates.
Replayed(book, upds) ==
  LET after[k \in 0 .. Len(upds)] == IF k = 0 THEN book ELSE Applied(after[k - 1], upds[k])
  IN  after[Len(upds)]

MirrorInit == snapshot_feed = <<>> /\ mirror = EmptyMirror

\* What MarketDataFeed::run does with an update besides calling its subscribers.
forward(update) == snapshot_feed' = Append(snapshot_feed, update) /\ UNCHANGED mirror

\* One pass of BookSnapshotService::run's inner loop.
applyUpdate ==
  /\ snapshot_feed # <<>>
  /\ mirror' = Applied(mirror, Head(snapshot_feed))
  /\ snapshot_feed' = Tail(snapshot_feed)
===============================================================================
