------------------------------ MODULE LateJoiner ------------------------------
(***************************************************************************)
(* A consumer that connects late and catches up the way                    *)
(* book_snapshot_service.h describes: it records the updates it is handed, *)
(* loads a snapshot, replays what it recorded and from then on applies     *)
(* every update.  No update carries a sequence number, so it cannot tell   *)
(* which of the recorded ones the snapshot already contains; and           *)
(* snapshotFor walks mirror_ on the consumer's thread, without a lock,     *)
(* while the service's thread inserts, changes and erases entries.         *)
(*                                                                         *)
(* The feed may send any update at any time, more than a book ever sends.  *)
(***************************************************************************)
EXTENDS SnapshotMirror

CONSTANTS
  OrderId, Side, Price, Qty,
  MaxUnderWay,   \* bound: updates in snapshot_feed_
  MaxBacklog,    \* bound: updates recorded before the snapshot is loaded
  End            \* the iterator's end()

ASSUME JoinerAssumption == End \notin OrderId

VARIABLES
  joined,     \* "no", "waiting", "walking", "synced"; "undefined" once the race broke the walk
  missed,     \* while it waits: how many updates sent before it connected the mirror still lacks
  stale,      \* the orders of those updates when it asked for the snapshot
  backlog,    \* the updates recorded since it connected
  iterator,   \* the order whose entry snapshotFor copies next, or End
  ahead,      \* the orders the iterator will come to
  inserted,   \* the orders inserted during the walk, behind the iterator or ahead of it
  out,        \* the entries copied, by order
  view        \* the book as the consumer sees it

walkVars == <<iterator, ahead, inserted, out>>
joinerVars == <<joined, missed, stale, backlog, walkVars, view>>

Update ==
  [type : {"ADD", "MODIFY"}, order_id : OrderId, side : Side, price : Price, qty : Qty] \cup
  [type : {"CANCEL", "TRADE"}, order_id : OrderId, side : Side, price : Price, qty : {0}]

JoinerInit ==
  /\ MirrorInit
  /\ joined = "no" /\ missed = 0 /\ stale = {} /\ backlog = <<>>
  /\ iterator = End /\ ahead = {} /\ inserted = {} /\ out = EmptyMirror /\ view = EmptyMirror

\* The consumer's callback begins to record.  (The callback itself was registered before
\* the feed was started: subscribers_ is not protected against the feed's thread.)
connect ==
  /\ joined = "no"
  /\ joined' = "waiting" /\ missed' = Len(snapshot_feed)
  /\ UNCHANGED <<snapshot_feed, mirror, stale, backlog, walkVars, view>>

\* The feed hands the update to the consumer's callback and forwards it.
deliver(update) ==
  /\ Len(snapshot_feed) < MaxUnderWay
  /\ forward(update)
  /\ \/ /\ joined \in {"waiting", "walking"} /\ Len(backlog) < MaxBacklog
        /\ backlog' = Append(backlog, update) /\ UNCHANGED view
     \/ joined = "synced" /\ view' = Applied(view, update) /\ UNCHANGED backlog
     \/ joined \in {"no", "undefined"} /\ UNCHANGED <<backlog, view>>
  /\ UNCHANGED <<joined, missed, stale, walkVars>>

\* The iterator goes to some entry of `certain' or `possible', or to the end if it is
\* certain of none.
advanceTo(certain, possible) ==
  /\ iterator' \in certain \cup possible \cup (IF certain = {} THEN {End} ELSE {})
  /\ ahead' = certain \ {iterator'} /\ inserted' = possible \ {iterator'}

\* The consumer calls snapshotFor, which does not wait for the service to catch up.
callSnapshotFor ==
  /\ joined = "waiting"
  /\ joined' = "walking"
  /\ stale' = {snapshot_feed[k].order_id : k \in 1 .. missed} /\ missed' = 0
  /\ advanceTo(DOMAIN mirror, {})
  /\ UNCHANGED <<snapshot_feed, mirror, backlog, out, view>>

copyEntry ==
  /\ joined = "walking" /\ iterator # End
  /\ out' = [o \in DOMAIN out \cup {iterator} |-> IF o = iterator THEN mirror[o] ELSE out[o]]
  /\ advanceTo(ahead, inserted)
  /\ UNCHANGED <<snapshot_feed, mirror, joined, missed, stale, backlog, view>>

\* snapshotFor returns; the consumer loads the copy and replays what it recorded.
loadSnapshot ==
  /\ joined = "walking" /\ iterator = End
  /\ joined' = "synced"
  /\ view' = Replayed(out, backlog)
  /\ backlog' = <<>> /\ out' = EmptyMirror /\ inserted' = {}
  /\ UNCHANGED <<snapshot_feed, mirror, missed, stale, iterator, ahead>>

\* The service applies an update, perhaps under the iterator: the walk is undefined when
\* the entry it stands on is freed, and may be when an insertion rehashes the table.
mirrorUpdate ==
  /\ applyUpdate
  /\ missed' = IF missed > 0 THEN missed - 1 ELSE 0
  /\ LET new == DOMAIN mirror' \ DOMAIN mirror
         freed == iterator # End /\ iterator \notin DOMAIN mirror' IN
       \/ /\ joined = "walking" /\ (freed \/ new # {})
          /\ joined' = "undefined"
          /\ iterator' = End /\ ahead' = {} /\ inserted' = {} /\ out' = EmptyMirror
          /\ stale' = {} /\ backlog' = <<>>
       \/ /\ ~freed
          /\ ahead' = ahead \cap DOMAIN mirror'
          /\ inserted' = IF iterator # End THEN (inserted \cap DOMAIN mirror') \cup new ELSE {}
          /\ UNCHANGED <<joined, stale, iterator, out, backlog>>
  /\ UNCHANGED view

JoinerNext ==
  \/ connect \/ callSnapshotFor \/ copyEntry \/ loadSnapshot \/ mirrorUpdate
  \/ \E update \in Update : deliver(update)

JoinerSpec == JoinerInit /\ [][JoinerNext]_<<snapshot_feed, mirror, joinerVars>>

\* The two books show the same of order o.
SameAt(a, b, o) == (o \in DOMAIN a <=> o \in DOMAIN b) /\ (o \in DOMAIN a => a[o] = b[o])

\* A consumer that has loaded a snapshot and replayed what it recorded shows every order as
\* the mirror will once it has the updates under way, except the orders of updates that were
\* sent before the consumer connected and that the mirror still lacked when the consumer
\* asked.  So it is although the copy may mix several moments of the mirror, lack entries
\* inserted behind the iterator and hold entries erased since, and although the replay
\* repeats updates the copy already contains.
OnlyStaleDiffer ==
  joined = "synced" => \A o \in OrderId \ stale : SameAt(view, Replayed(mirror, snapshot_feed), o)
===============================================================================
