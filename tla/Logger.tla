-------------------------------- MODULE Logger --------------------------------
(***************************************************************************)
(* Common::Logger: pushLine and flushQueue on the two sides of an LFQueue, *)
(* and the destructor, which runs on a third thread.                       *)
(***************************************************************************)
EXTENDS LFQueue

VARIABLES
  running,   \* running_
  flusher,   \* the logger thread: at the "top" of its loop, in its inner loop ("drain"), "ended"
  closing    \* the destructor: "no", "waiting" for an empty queue, "empty", "joining", "closed"

logVars == <<running, flusher, closing>>

LogInit == Init /\ running = TRUE /\ flusher = "top" /\ closing = "no"

\* Nobody logs to a logger that is being destroyed.
pushLine(p) == closing = "no" /\ Produce(p) /\ UNCHANGED logVars

testRunning ==
  /\ flusher = "top"
  /\ flusher' = IF running THEN "drain" ELSE "ended"
  /\ UNCHANGED <<vars, running, closing>>

writeLine == flusher = "drain" /\ Consume /\ UNCHANGED logVars

\* getNextToRead gives nullptr: flush, sleep, start over.
queueDrained ==
  /\ flusher = "drain" /\ rpc = "idle" /\ num_elements = 0
  /\ flusher' = "top"
  /\ UNCHANGED <<vars, running, closing>>

flushQueue == testRunning \/ writeLine \/ queueDrained

\* ~Logger, when no pushLine is under way.
destroy ==
  /\ closing = "no" /\ \A p \in Producer : pc[p] = "idle"
  /\ closing' = "waiting"
  /\ UNCHANGED <<vars, running, flusher>>

\* Mutant: the destructor does not wait.
NoWait == TRUE

QueueEmpty == num_elements = 0

seeEmptyQueue ==
  /\ closing = "waiting" /\ QueueEmpty
  /\ closing' = "empty"
  /\ UNCHANGED <<vars, running, flusher>>

\* Mutant: running_ is left set.
leaveRunning == UNCHANGED running

clearRunning == running' = FALSE

stopFlusher ==
  /\ closing = "empty"
  /\ clearRunning /\ closing' = "joining"
  /\ UNCHANGED <<vars, flusher>>

joinFlusher ==
  /\ closing = "joining" /\ flusher = "ended"
  /\ closing' = "closed"
  /\ UNCHANGED <<vars, running, flusher>>

Destructor == seeEmptyQueue \/ stopFlusher \/ joinFlusher

LogNext ==
  \/ \E p \in Producer : pushLine(p)
  \/ flushQueue \/ destroy \/ Destructor
  \/ closing = "closed" /\ UNCHANGED <<vars, logVars>>

\* Both threads are loops of running threads, and a producer does not stop in pushLine;
\* it need not call it, and the logger need not be destroyed.
LogSpec ==
  /\ LogInit /\ [][LogNext]_<<vars, logVars>>
  /\ WF_<<vars, logVars>>(flushQueue) /\ WF_<<vars, logVars>>(Destructor)
  /\ \A p \in Producer : WF_<<vars, logVars>>(pc[p] # "idle" /\ pushLine(p))

\* When the file is closed, every line that was pushed is in it, in order: the destructor
\* sees an empty queue only after the last line was written, and the logger thread,
\* which tests running_ before it looks at the queue, leaves none behind.
LogComplete == closing = "closed" /\ ~overrun => consumed = published

\* The destructor never hangs: neither in its wait for the queue nor in the join.
LoggerCloses == (closing = "waiting") ~> (closing = "closed")
===============================================================================
