----------------------------- MODULE OrderGateway -----------------------------
(***************************************************************************)
(* OrderGatewayServer's inbox, the RequestSequencer and the router: how    *)
(* requests of several producer threads reach the symbols' request queues. *)
(* A submit() is two steps, because it reads the clock before it takes the *)
(* inbox lock.  What holds the lock is one step.  A flush sorts in one and *)
(* hands on one request in each of the next.                               *)
(***************************************************************************)
EXTENDS Naturals, Sequences, Functions

CONSTANTS
  Producer,      \* threads that call submit()
  Symbol,        \* the symbols the matching core knows
  Unknown,       \* a symbol it does not know
  MaxPending,    \* MAX_PENDING_GATEWAY_REQUESTS
  MaxSubmits,    \* bound: submissions of each producer
  MaxClock       \* bound: ticks of the clock

ASSUME GatewayAssumption ==
  /\ {MaxPending, MaxClock} \subseteq Nat \ {0} /\ MaxSubmits \in Nat
  /\ Unknown \notin Symbol

VARIABLES
  clock,         \* what getCurrentNanos returns
  call,          \* each producer's request between the clock and the lock, or Idle
  submits,       \* how many submissions each producer has started
  inbox,         \* inbox_
  gpc,           \* where the gateway thread is in run()
  batch,         \* drainInbox's local vector, what is left of it
  pending,       \* the first pending_size_ elements of pending_; in a flush, what is left to route
  request_queue, \* what was written to each symbol's request queue
  unroutable,    \* what was rejected into the unknown-symbol response queue
  routed,        \* history: every request handed to the router
  precedes       \* history: <<a, b>>: submit(a) had returned when submit(b) was called

producerVars == <<clock, call, submits, precedes>>
routeVars == <<request_queue, unroutable, routed>>
gatewayVars == <<gpc, batch, pending, routeVars>>
vars == <<producerVars, inbox, gatewayVars>>

Request ==
  [from : Producer, nr : 1 .. MaxSubmits, symbol : Symbol \cup {Unknown}, recv_time : 1 .. MaxClock]

Idle == [idle |-> TRUE]

Init ==
  /\ clock = 1
  /\ call = [p \in Producer |-> Idle]
  /\ submits = [p \in Producer |-> 0]
  /\ inbox = <<>>
  /\ gpc = "drainInbox" /\ batch = <<>> /\ pending = <<>>
  /\ request_queue = [s \in Symbol |-> <<>>] /\ unroutable = <<>>
  /\ routed = <<>> /\ precedes = {}

\* Everything whose submit() has returned, the furthest on first.
InFlight == routed \o (pending \o (batch \o inbox))

Tick ==
  /\ clock < MaxClock
  /\ clock' = clock + 1
  /\ UNCHANGED <<call, submits, inbox, precedes, gatewayVars>>

\* submit(), first line.
stampRequest(p, symbol) ==
  /\ call[p] = Idle /\ submits[p] < MaxSubmits
  /\ LET req == [from |-> p, nr |-> submits[p] + 1, symbol |-> symbol, recv_time |-> clock] IN
       /\ call' = [call EXCEPT ![p] = req]
       /\ precedes' = precedes \cup {<<a, req>> : a \in Range(InFlight)}
  /\ submits' = [submits EXCEPT ![p] = @ + 1]
  /\ UNCHANGED <<clock, inbox, gatewayVars>>

\* submit(), under the lock.
pushRequest(p) ==
  /\ call[p] # Idle
  /\ inbox' = Append(inbox, call[p])
  /\ call' = [call EXCEPT ![p] = Idle]
  /\ UNCHANGED <<clock, submits, precedes, gatewayVars>>

\* Mutant: the inbox is copied, not swapped.
InboxKept == inbox

InboxSwapped == <<>>

drainInbox ==
  /\ gpc = "drainInbox"
  /\ gpc' = IF inbox = <<>> THEN "flush" ELSE "enqueue"
  /\ batch' = inbox
  /\ inbox' = InboxSwapped
  /\ UNCHANGED <<producerVars, pending, routeVars>>

\* Mutant: one request too many fits.
HasRoomForOneMore == Len(pending) <= MaxPending

\* !isFull()
HasRoom == Len(pending) < MaxPending

\* One pass of drainInbox's loop over the batch.
enqueue ==
  /\ gpc = "enqueue" /\ batch # <<>> /\ HasRoom
  /\ pending' = Append(pending, Head(batch))
  /\ batch' = Tail(batch)
  /\ UNCHANGED <<producerVars, inbox, gpc, routeVars>>

batchDone ==
  /\ gpc = "enqueue" /\ batch = <<>>
  /\ gpc' = "flush"
  /\ UNCHANGED <<producerVars, inbox, batch, pending, routeVars>>

\* Mutant: the comparison is the wrong way round.
SortedDescending(reqs) ==
  {[i \in DOMAIN reqs |-> reqs[f[i]]] :
     f \in {g \in Bijection(DOMAIN reqs, DOMAIN reqs) :
              \A i, j \in DOMAIN reqs : i < j => reqs[g[i]].recv_time >= reqs[g[j]].recv_time}}

\* What std::sort may leave: it is not stable.
SortedOrders(reqs) ==
  {[i \in DOMAIN reqs |-> reqs[f[i]]] :
     f \in {g \in Bijection(DOMAIN reqs, DOMAIN reqs) :
              \A i, j \in DOMAIN reqs : i < j => reqs[g[i]].recv_time <= reqs[g[j]].recv_time}}

\* flush() begins.
sortPending ==
  /\ pending' \in SortedOrders(pending)
  /\ gpc' = "route"
  /\ UNCHANGED <<producerVars, inbox, batch, routeVars>>

\* Mutant: enqueue drops what finds the buffer full.
enqueueOrDrop ==
  /\ gpc = "enqueue" /\ batch # <<>> /\ ~HasRoom
  /\ batch' = Tail(batch)
  /\ UNCHANGED <<producerVars, inbox, gpc, pending, routeVars>>

\* enqueue() finds the buffer full and flushes it first.
enqueueFull == gpc = "enqueue" /\ batch # <<>> /\ ~HasRoom /\ sortPending

flush == gpc = "flush" /\ sortPending

\* MatchingCore::routeRequest.
routeRequest(req) ==
  \/ /\ req.symbol \in Symbol
     /\ request_queue' = [request_queue EXCEPT ![req.symbol] = Append(@, req)]
     /\ UNCHANGED unroutable
  \/ /\ req.symbol \notin Symbol
     /\ unroutable' = Append(unroutable, req)
     /\ UNCHANGED request_queue

\* One pass of flush()'s loop.
routeNext ==
  /\ gpc = "route" /\ pending # <<>>
  /\ routeRequest(Head(pending))
  /\ routed' = Append(routed, Head(pending))
  /\ pending' = Tail(pending)
  /\ UNCHANGED <<producerVars, inbox, gpc, batch>>

\* flush() returns to the enqueue() that called it, with a request of the batch to store, or to
\* run(), which drains the responses, touches nothing here and starts over.
flushDone ==
  /\ gpc = "route" /\ pending = <<>>
  /\ gpc' = IF batch = <<>> THEN "drainInbox" ELSE "enqueue"
  /\ UNCHANGED <<producerVars, inbox, batch, pending, routeVars>>

Gateway == drainInbox \/ enqueue \/ enqueueFull \/ batchDone \/ flush \/ routeNext \/ flushDone

Producers == \E p \in Producer : pushRequest(p) \/ \E s \in Symbol \cup {Unknown} : stampRequest(p, s)

Next == Tick \/ Producers \/ Gateway

Spec == Init /\ [][Next]_vars

\* run() loops with a short sleep, and a thread that waits for the inbox lock gets
\* it: the lock is only ever held for a push or a swap.
FairSpec == Spec /\ WF_vars(Gateway) /\ \A p \in Producer : WF_vars(pushRequest(p))

-----------------------------------------------------------------------------
\* Types; drainInbox() starts with an empty batch and an empty buffer, so that its swap
\* loses nothing.
TypeOK ==
  /\ clock \in 1 .. MaxClock
  /\ call \in [Producer -> Request \cup {Idle}] /\ submits \in [Producer -> 0 .. MaxSubmits]
  /\ gpc \in {"drainInbox", "enqueue", "flush", "route"}
  /\ {inbox, batch, pending, routed, unroutable} \subseteq Seq(Request)
  /\ request_queue \in [Symbol -> Seq(Request)]
  /\ Len(pending) <= MaxPending
  /\ gpc = "drainInbox" => pending = <<>>
  /\ gpc \in {"drainInbox", "flush"} => batch = <<>>

\* Where the n-th request of producer p is.
PlacesOf(p, n) == {i \in DOMAIN InFlight : InFlight[i].from = p /\ InFlight[i].nr = n}

\* What left the gateway for symbol s.
Queue(s) == IF s \in Symbol THEN request_queue[s] ELSE unroutable

QueuedAt(req) ==
  UNION {{<<s, i>> : i \in {k \in DOMAIN Queue(s) : Queue(s)[k] = req}} : s \in Symbol \cup {Unknown}}

\* Whatever producers, swaps and overflow flushes interleave, each request whose submit()
\* returned is in exactly one place, once; it is in a queue once it was routed, in the one
\* of its symbol and there once, and nothing else is in the queues.
ExactlyOnce ==
  /\ \A p \in Producer : \A n \in 1 .. submits[p] :
       IF call[p] # Idle /\ call[p].nr = n THEN PlacesOf(p, n) = {}
                                           ELSE \E i \in DOMAIN InFlight : PlacesOf(p, n) = {i}
  /\ \A req \in Range(routed) : \E i \in DOMAIN Queue(req.symbol) : QueuedAt(req) = {<<req.symbol, i>>}
  /\ \A s \in Symbol \cup {Unknown} : Range(Queue(s)) \subseteq Range(routed)

\* If submit(a) had returned before submit(b) was called, and the clock moved in
\* between, a is routed before b, and b never without a: the order one client thread,
\* or threads that wait for each other, can rely on, between symbols and within each
\* symbol's queue.
RealTimeOrder ==
  \A ab \in precedes : ab[1].recv_time < ab[2].recv_time =>
    /\ \A j \in DOMAIN routed : routed[j] = ab[2] => \E i \in 1 .. (j - 1) : routed[i] = ab[1]
    /\ ab[1].symbol = ab[2].symbol =>
         \A j \in DOMAIN Queue(ab[2].symbol) : Queue(ab[2].symbol)[j] = ab[2] =>
           \E i \in 1 .. (j - 1) : Queue(ab[2].symbol)[i] = ab[1]

\* The sequencer "publishes them in strict receive-time order": each symbol's queue, at
\* least, is in that order.
RoutedInReceiveTimeOrder ==
  \A s \in Symbol : \A i, j \in DOMAIN request_queue[s] :
    i < j => request_queue[s][i].recv_time <= request_queue[s][j].recv_time

\* Everything submitted is eventually routed: again and again nothing is on its way, so
\* that, submissions being bounded, none is lost by an overflow flush or a swap.
EventuallyRouted ==
  []<>(\A p \in Producer : \A n \in 1 .. submits[p] :
         \E i \in DOMAIN routed : routed[i].from = p /\ routed[i].nr = n)
===============================================================================
