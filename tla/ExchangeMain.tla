----------------------------- MODULE ExchangeMain -----------------------------
(***************************************************************************)
(* The process from exchange_main.cpp: main reads the orders, starts a     *)
(* matching thread per symbol, the gateway, the feed and the snapshot      *)
(* thread, submits the orders, guesses from a pause in the responses that  *)
(* all is done, stops the threads without joining them, and writes its     *)
(* report from vectors those threads have filled.                          *)
(*                                                                         *)
(* main's sleeps are timers, so this module has a clock: Tick is one unit  *)
(* of time.  The speed of the machine is one assumption: a thread of the   *)
(* engine that finds something to do has nothing left to do, at some       *)
(* moment, within MaxDelay units, however much it was; main may take       *)
(* longer.  Books, queues and the sequencer have modules of their own:     *)
(* here a request makes its matching thread publish some responses and     *)
(* updates, and what matters of a queue is how much is in it, or whether   *)
(* anything is.                                                            *)
(***************************************************************************)
EXTENDS Integers, Sequences, SequencesExt

CONSTANTS
  Symbol,
  Input,          \* the files main may be given: sequences of lines
  StartSleep,     \* createAndStartThread's 1 s, in units of time
  PollInterval,   \* main's 50 ms
  PollLimit,      \* main's 15 polls
  StopSleep,      \* main's 100 ms
  MaxDelay,       \* bound: how long a thread takes for what it finds to do
  None            \* no thread is being created

ASSUME TimeAssumption == {StartSleep, PollInterval, PollLimit, StopSleep, MaxDelay} \subseteq Nat \ {0}

VARIABLES
  pc,            \* where main is
  input,         \* the lines main has not read yet
  orders,        \* orders, by their symbol: those not submitted yet
  symbols,       \* symbols
  sleep,         \* how long main still sleeps
  creating,      \* the thread whose createAndStartThread has not returned
  idle_polls,
  thread,        \* each thread: "none", "created", "running" or "ended"
  running,       \* running_ of each object
  lag,           \* how long each thread has had something to do
  inbox,         \* inbox_
  requests,      \* how many are in each symbol's queue
  responses, updates,   \* whether anything is in each symbol's queue
  snapshot_feed, \* whether anything is in snapshot_feed_
  handled,       \* how many requests each matching thread has handled
  publishing,    \* what a matching thread has still to publish for its request
  unseen,        \* by how much response_lines.size() exceeds last_seen, in drained queues
  storing,       \* the gateway is inside response_lines.push_back
  draining       \* which queue a thread that drains queues is at; 0 at the top of run()

mainVars == <<pc, input, orders, symbols, sleep, creating, idle_polls>>
dataVars == <<inbox, requests, responses, updates, snapshot_feed, handled, publishing, unseen, storing, draining>>
vars == <<mainVars, thread, running, lag, dataVars>>

Drainer == {"gateway", "feed", "snapshot"}

Thread == Symbol \cup Drainer

\* The object whose running_ a thread's loop tests.
Owner(t) == IF t \in Symbol THEN "matcher" ELSE t

Init ==
  /\ pc = "read" /\ input \in Input /\ orders = <<>> /\ symbols = <<>>
  /\ sleep = 0 /\ creating = None /\ idle_polls = 0
  /\ thread = [t \in Thread |-> "none"]
  /\ running = [o \in {"matcher", "gateway", "feed", "snapshot"} |-> FALSE]
  /\ lag = [t \in Thread |-> 0]
  /\ inbox = <<>> /\ publishing = [s \in Symbol |-> <<>>]
  /\ requests = [s \in Symbol |-> 0] /\ handled = [s \in Symbol |-> 0]
  /\ responses = [s \in Symbol |-> FALSE] /\ updates = [s \in Symbol |-> FALSE]
  /\ snapshot_feed = FALSE /\ unseen = 0 /\ storing = FALSE
  /\ draining = [t \in Drainer |-> 0]

(***************************************************************************)
(* main.                                                                   *)
(***************************************************************************)
MainOnly == UNCHANGED <<thread, running, dataVars>>

\* A line is empty, a comment, malformed (not seven fields, or no known type), has
\* something that is no number where std::stoull wants one, or is an order.
readLine ==
  /\ pc = "read" /\ input # <<>>
  /\ input' = Tail(input)
  /\ \/ /\ Head(input).kind = "order"
        /\ orders' = Append(orders, Head(input).symbol) /\ UNCHANGED pc
     \/ /\ Head(input).kind \in {"empty", "comment", "malformed"}
        /\ UNCHANGED <<pc, orders>>
     \/ /\ Head(input).kind = "not a number"
        /\ pc' = "aborted" /\ UNCHANGED orders
  /\ UNCHANGED <<symbols, sleep, creating, idle_polls>> /\ MainOnly

FirstSeen(syms) ==
  FoldLeft(LAMBDA seen, s : IF s \in ToSet(seen) THEN seen ELSE Append(seen, s), <<>>, syms)

\* The end of the file; then one book and three queues for each symbol.
constructEngine ==
  /\ pc = "read" /\ input = <<>>
  /\ pc' = IF orders = <<>> THEN "failed" ELSE "start"
  /\ symbols' = FirstSeen(orders)
  /\ UNCHANGED <<input, orders, sleep, creating, idle_polls>> /\ MainOnly

\* What is started before t; contexts_ is a hash map, so the symbols' threads start in any order.
StartedBefore(t) ==
  CASE t \in Symbol    -> {}
    [] t = "gateway"   -> ToSet(symbols)
    [] t = "feed"      -> ToSet(symbols) \cup {"gateway"}
    [] t = "snapshot"  -> ToSet(symbols) \cup {"gateway", "feed"}

\* Mutant: the creator does not wait.
createWithoutSleep(t) ==
  /\ creating' = t /\ sleep' = 0
  /\ thread' = [thread EXCEPT ![t] = "created"]

\* The new thread's closure refers to the parameters of this call.
createAndStartThread(t) ==
  /\ creating' = t /\ sleep' = StartSleep
  /\ thread' = [thread EXCEPT ![t] = "created"]

start(t) ==
  /\ pc = "start" /\ creating = None /\ thread[t] = "none"
  /\ t \in Symbol => t \in ToSet(symbols)
  /\ \A u \in StartedBefore(t) : thread[u] # "none"
  /\ running' = [running EXCEPT ![Owner(t)] = TRUE]
  /\ createAndStartThread(t)
  /\ UNCHANGED <<pc, input, orders, symbols, idle_polls, dataVars>>

startReturns ==
  /\ creating # None /\ sleep = 0
  /\ creating' = None
  /\ pc' = IF creating = "snapshot" THEN "submit" ELSE pc
  /\ UNCHANGED <<input, orders, symbols, sleep, idle_polls>> /\ MainOnly

submit ==
  /\ pc = "submit" /\ orders # <<>>
  /\ inbox' = Append(inbox, Head(orders)) /\ orders' = Tail(orders)
  /\ UNCHANGED <<pc, input, symbols, sleep, creating, idle_polls, thread, running>>
  /\ UNCHANGED <<requests, responses, updates, snapshot_feed, handled, publishing, unseen, storing, draining>>

allSubmitted ==
  /\ pc = "submit" /\ orders = <<>>
  /\ pc' = "poll" /\ sleep' = PollInterval
  /\ UNCHANGED <<input, orders, symbols, creating, idle_polls>> /\ MainOnly

\* What response_lines.size() may return, beyond last_seen: while the gateway's push_back
\* moves the vector's pointers, the old size, the new one, or a wrong one.
SizeRead == unseen .. (IF storing THEN unseen + 2 ELSE unseen)

\* Mutant: a single poll without news is enough.
EnoughPollsOne(polls) == polls = 1

EnoughPolls(polls) == polls = PollLimit

\* Mutant: last_seen stays what it was.
compareOnly ==
  \E size \in SizeRead :
    /\ idle_polls' = IF size = 0 THEN idle_polls + 1 ELSE 0
    /\ UNCHANGED unseen

\* The size is read once more for last_seen.
compareSize ==
  \E size \in SizeRead :
    \/ size = 0 /\ idle_polls' = idle_polls + 1 /\ UNCHANGED unseen
    \/ size # 0 /\ idle_polls' = 0 /\ \E last_seen \in SizeRead : unseen' = unseen - last_seen

pollResponses ==
  /\ pc = "poll" /\ sleep = 0
  /\ compareSize
  /\ IF EnoughPolls(idle_polls') THEN pc' = "stop feed" /\ UNCHANGED sleep
                                 ELSE pc' = pc /\ sleep' = PollInterval
  /\ UNCHANGED <<input, orders, symbols, creating, thread, running>>
  /\ UNCHANGED <<inbox, requests, responses, updates, snapshot_feed, handled, publishing, storing, draining>>

\* feed.stop(), which stops the snapshot service too, gateway.stop(), matcher.stop().
stop(at, objects, next) ==
  /\ pc = at
  /\ running' = [o \in DOMAIN running |-> running[o] /\ o \notin objects]
  /\ pc' = next
  /\ UNCHANGED <<input, orders, symbols, creating, idle_polls, thread, dataVars>>

\* Mutant: the report follows the last stop() at once.
settleAtOnce == stop("stop matcher", {"matcher"}, "settle") /\ UNCHANGED sleep

settle == stop("stop matcher", {"matcher"}, "settle") /\ sleep' = StopSleep

stopThreads ==
  \/ stop("stop feed", {"feed", "snapshot"}, "stop gateway") /\ UNCHANGED sleep
  \/ stop("stop gateway", {"gateway"}, "stop matcher") /\ UNCHANGED sleep
  \/ settle

\* main reads the two vectors, returns, and so destroys them and the three objects.
report ==
  /\ pc = "settle" /\ sleep = 0
  /\ pc' = "report"
  /\ UNCHANGED <<input, orders, symbols, sleep, creating, idle_polls>> /\ MainOnly

Main ==
  \/ readLine \/ constructEngine \/ (\E t \in Thread : start(t)) \/ startReturns
  \/ submit \/ allSubmitted \/ pollResponses \/ stopThreads \/ report

(***************************************************************************)
(* The threads.  Each tests running_ only at the top of its loop.          *)
(***************************************************************************)
ThreadOnly == UNCHANGED <<mainVars, running>>

\* The closure is called; from here on the thread uses its object only.
begin(t) ==
  /\ thread[t] = "created"
  /\ thread' = [thread EXCEPT ![t] = "running"]
  /\ ThreadOnly /\ UNCHANGED dataVars

AtTop(t) ==
  /\ thread[t] = "running"
  /\ IF t \in Symbol THEN publishing[t] = <<>> ELSE draining[t] = 0

\* What a pass of t's loop would find.
HasWork(t) ==
  CASE t \in Symbol   -> requests[t] > 0
    [] t = "gateway"  -> inbox # <<>> \/ \E s \in Symbol : responses[s]
    [] t = "feed"     -> \E s \in Symbol : updates[s]
    [] t = "snapshot" -> snapshot_feed

end(t) ==
  /\ AtTop(t) /\ ~running[Owner(t)]
  /\ thread' = [thread EXCEPT ![t] = "ended"]
  /\ ThreadOnly /\ UNCHANGED dataVars

\* What a request to s makes the book publish, in order: a rejection, or the acceptance or
\* modification; responses and updates for each resting order it trades with; then nothing,
\* the update of an order that comes to rest, changes or is cancelled, or the response that
\* a remainder is cancelled.  No more orders rest than were handled.
Outcome(s) ==
  {<<{"response"}>> \o [k \in 1 .. fills |-> {"response", "update"}] \o last :
     fills \in 0 .. handled[s], last \in {<<>>, <<{"update"}>>, <<{"response"}>>}}

takeRequest(s) ==
  /\ AtTop(s) /\ running["matcher"] /\ HasWork(s)
  /\ \E o \in Outcome(s) : publishing' = [publishing EXCEPT ![s] = o]
  /\ ThreadOnly
  /\ UNCHANGED <<thread, inbox, requests, responses, updates, snapshot_feed, handled, unseen, storing, draining>>

\* Mutant: the slot is given back with every event.
SlotsReleasedEach(s) == 1

\* updateReadIndex, after the last event.
SlotsReleased(s) == IF Len(publishing[s]) = 1 THEN 1 ELSE 0

publish(s) ==
  /\ publishing[s] # <<>>
  /\ publishing' = [publishing EXCEPT ![s] = Tail(@)]
  /\ responses' = [responses EXCEPT ![s] = @ \/ "response" \in Head(publishing[s])]
  /\ updates' = [updates EXCEPT ![s] = @ \/ "update" \in Head(publishing[s])]
  /\ requests' = [requests EXCEPT ![s] = @ - SlotsReleased(s)]
  /\ handled' = [handled EXCEPT ![s] = @ + SlotsReleased(s)]
  /\ ThreadOnly /\ UNCHANGED <<thread, inbox, snapshot_feed, unseen, storing, draining>>

Of(syms, s) == Len(SelectSeq(syms, LAMBDA x : x = s))

\* drainInbox and flush, then on to the responses of the first symbol.
drainInbox ==
  /\ AtTop("gateway") /\ running["gateway"] /\ HasWork("gateway")
  /\ requests' = [s \in Symbol |-> requests[s] + Of(inbox, s)]
  /\ inbox' = <<>>
  /\ draining' = [draining EXCEPT !["gateway"] = 1]
  /\ ThreadOnly /\ UNCHANGED <<thread, responses, updates, snapshot_feed, handled, publishing, unseen, storing>>

\* The feed and the snapshot service find something to drain.
startPass(t) ==
  /\ t # "gateway" /\ AtTop(t) /\ running[t] /\ HasWork(t)
  /\ draining' = [draining EXCEPT ![t] = 1]
  /\ ThreadOnly
  /\ UNCHANGED <<thread, inbox, requests, responses, updates, snapshot_feed, handled, publishing, unseen, storing>>

\* The next queue that holds something, from the one thread t is at; 0 is the top again.
NextQueue(t, holds) ==
  LET ahead == {q \in draining[t] .. Len(symbols) : holds[symbols[q]]}
  IN  IF ahead = {} THEN 0 ELSE CHOOSE q \in ahead : \A r \in ahead : q <= r

\* The callback's push_back for what is in one queue, in two steps: main reads the
\* vector's size.
storeResponses ==
  /\ draining["gateway"] > 0 /\ ~storing
  /\ LET q == NextQueue("gateway", responses) IN
       /\ draining' = [draining EXCEPT !["gateway"] = q]
       /\ responses' = [s \in Symbol |-> responses[s] /\ ~(q > 0 /\ s = symbols[q])]
       /\ storing' = (q > 0)
  /\ ThreadOnly
  /\ UNCHANGED <<thread, inbox, requests, updates, snapshot_feed, handled, publishing, unseen>>

responsesStored ==
  /\ storing
  /\ unseen' = unseen + 1
  /\ storing' = FALSE
  /\ ThreadOnly
  /\ UNCHANGED <<thread, inbox, requests, responses, updates, snapshot_feed, handled, publishing, draining>>

\* The updates in one queue go to the subscriber's vector and on to the snapshot service.
forwardUpdates ==
  /\ draining["feed"] > 0
  /\ LET q == NextQueue("feed", updates) IN
       /\ draining' = [draining EXCEPT !["feed"] = q]
       /\ updates' = [s \in Symbol |-> updates[s] /\ ~(q > 0 /\ s = symbols[q])]
       /\ snapshot_feed' = (snapshot_feed \/ q > 0)
  /\ ThreadOnly
  /\ UNCHANGED <<thread, inbox, requests, responses, handled, publishing, unseen, storing>>

\* The snapshot service applies them, and looks again.
applyUpdates ==
  /\ draining["snapshot"] > 0
  /\ draining' = [draining EXCEPT !["snapshot"] = IF snapshot_feed THEN 1 ELSE 0]
  /\ snapshot_feed' = FALSE
  /\ ThreadOnly
  /\ UNCHANGED <<thread, inbox, requests, responses, updates, handled, publishing, unseen, storing>>

Run ==
  \/ \E t \in Thread : begin(t) \/ end(t)
  \/ \E s \in Symbol : takeRequest(s) \/ publish(s)
  \/ drainInbox \/ storeResponses \/ responsesStored
  \/ \E t \in Drainer : startPass(t)
  \/ forwardUpdates \/ applyUpdates

(***************************************************************************)
(* Time.                                                                   *)
(***************************************************************************)
\* The threads whose next step does something: passes that find nothing are left out.
Pending ==
  {t \in Thread :
     \/ thread[t] = "created"
     \/ thread[t] = "running" /\ (~AtTop(t) \/ HasWork(t) \/ ~running[Owner(t)])}

\* No time passes; a thread that has nothing more to do has caught up.
AtOnce == lag' = [t \in Thread |-> IF t \in Pending' THEN lag[t] ELSE 0]

Tick ==
  /\ \A t \in Pending : lag[t] < MaxDelay
  /\ Pending # {} \/ sleep > 0
  /\ lag' = [t \in Thread |-> IF t \in Pending THEN lag[t] + 1 ELSE 0]
  /\ sleep' = IF sleep = 0 THEN 0 ELSE sleep - 1
  /\ UNCHANGED <<pc, input, orders, symbols, creating, idle_polls, thread, running, dataVars>>

Over == pc \in {"aborted", "failed", "report"}

Next ==
  \/ ~Over /\ (Main \/ Run) /\ AtOnce
  \/ ~Over /\ Tick
  \/ Over /\ UNCHANGED vars

Spec == Init /\ [][Next]_vars

\* main is never blocked, and what can run does.
FairSpec == Spec /\ WF_vars(~Over /\ Main /\ AtOnce) /\ WF_vars(~Over /\ Next)

-----------------------------------------------------------------------------
\* Types.
TypeOK ==
  /\ thread \in [Thread -> {"none", "created", "running", "ended"}]
  /\ lag \in [Thread -> 0 .. MaxDelay]
  /\ requests \in [Symbol -> Nat] /\ responses \in [Symbol -> BOOLEAN] /\ updates \in [Symbol -> BOOLEAN]
  /\ snapshot_feed \in BOOLEAN /\ draining \in [Drainer -> 0 .. Len(symbols)]

\* createAndStartThread's closure refers to its parameters and to the callable of the
\* start() that called it; a thread that has not called it yet finds them alive.
ClosureAlive == \A t \in Thread : thread[t] = "created" => creating = t

\* The report has the responses to all orders and all book updates: when main writes it, no
\* request, response or update is left in the inbox, a queue or a matching thread, although
\* main looks only at the number of responses, which it may not even read correctly, and
\* stops the feed before the threads that feed it.
ReportComplete ==
  pc = "report" =>
    /\ orders = <<>> /\ inbox = <<>> /\ ~storing
    /\ \A s \in Symbol :
         requests[s] = 0 /\ ~responses[s] /\ ~updates[s] /\ publishing[s] = <<>>

\* Nothing is joined, yet no thread runs when main reads what the callbacks stored and
\* destroys the queues, books and callbacks.
EndedBeforeReport == pc = "report" => \A t \in Thread : thread[t] \in {"none", "ended"}

\* main gets through: the idle detection ends and the report is written, unless the
\* file has no order or std::stoull throws.
Terminates == <>Over
===============================================================================
