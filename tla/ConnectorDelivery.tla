-------------------------- MODULE ConnectorDelivery --------------------------
(***************************************************************************)
(* Outbound messages: the delivery service that records a delivery and     *)
(* dispatches it, the connector manager with its circuit breaker, and the  *)
(* workers that send with retry.  One connector; its workers are numbered  *)
(* by the StartOne that made them, because one may still be draining when  *)
(* the next is at work.  A message is one delivery row: one assistant      *)
(* message to one endpoint.  The limiter's rate, the length of backoffs    *)
(* and the cool-down are times that pass: they end at any moment.          *)
(***************************************************************************)
EXTENDS Integers, Sequences, FiniteSets

CONSTANTS
    Msgs,
    Parts,          \* Parts[m]: chunks SplitMessage makes of m
    QueueSize,      \* defaultQueueSize
    MaxRetries,     \* maxRetries of sendWithRetry
    Threshold,      \* connectorCircuitFailureThreshold
    MaxWorkers,
    MaxMishaps      \* expired waits and failed statements

\* What Connector.Send returns; ErrRateLimit is retried as ErrTemporary is, after another pause.
Answers == {"ok", "temporary", "permanent"}
Workers == 1..MaxWorkers
Stoppers == {"one", "all"}

ASSUME Bounds == /\ {MaxWorkers, QueueSize, Threshold} \subseteq Nat \ {0}
                 /\ {MaxRetries, MaxMishaps} \subseteq Nat
ASSUME PartsPositive == Msgs # {} /\ Parts \in [Msgs -> Nat \ {0}]

VARIABLES
    rows,                                  \* navi_message_deliveries: the status of each
    dpc, target,                           \* dispatchers, one per message, and the worker each looked up
    current, born,                         \* m.workers[name] (0: none) and the workers made so far
    queue, closed, cancelled, wpc, job,    \* per worker: channel, runCtx, goroutine
    spc, stopping,                         \* StopOne and StopAll, and the worker each stops
    circuit, placeholders,
    panicked,                              \* the process died of a panic
    acked,                                 \* history: the chunks the platform acknowledged
    mishaps

dispatchVars == <<dpc, target>>
workerVars == <<queue, closed, cancelled, wpc, job>>
stopVars == <<spc, stopping>>
vars == <<rows, dispatchVars, current, born, workerVars, stopVars, circuit, placeholders,
          panicked, acked, mishaps>>

-----------------------------------------------------------------------------
NoJob == [msg |-> CHOOSE m \in Msgs : TRUE, part |-> 0, attempt |-> 0, res |-> "ok", drain |-> FALSE, late |-> FALSE]
Job == [msg : Msgs, part : Nat, attempt : 0..MaxRetries, res : Answers \cup {"edited", "skipped", "limited"},
        drain : BOOLEAN, late : BOOLEAN]
Circuit == [state : {"closed", "open", "half_open"}, failures : 0..Threshold, cooled : BOOLEAN]

GoD(m, s) == dpc' = [dpc EXCEPT ![m] = s]
GoW(w, s) == wpc' = [wpc EXCEPT ![w] = s]
GoS(k, s) == spc' = [spc EXCEPT ![k] = s]

\* A panic in any goroutine of the manager ends the process.
Panic == panicked' = TRUE

\* A statement fails, or a wait with a deadline expires.
Mishap == mishaps < MaxMishaps /\ mishaps' = mishaps + 1

\* The context of a worker's calls: runCtx, or the drain context with its deadline.
Live(w) == IF job[w].drain THEN ~job[w].late ELSE ~cancelled[w]

-----------------------------------------------------------------------------
(* DeliverAssistantMessage and Dispatch                                    *)

\* The end of Dispatch's checks: the worker is looked up under the read lock.
Lookup(m) ==
    /\ target' = [target EXCEPT ![m] = current]
    /\ GoD(m, IF current = 0 THEN "refused" ELSE "enqueue")

\* The delivery row, then isCircuitOpen, the part under the read lock.
Deliver(m) ==
    /\ dpc[m] = "idle"
    /\ rows' = [rows EXCEPT ![m] = "queued"]
    /\ \/ circuit.state # "open" /\ Lookup(m)
       \/ circuit.state = "open" /\ circuit.cooled /\ GoD(m, "probe") /\ UNCHANGED target
       \/ circuit.state = "open" /\ ~circuit.cooled /\ GoD(m, "refused") /\ UNCHANGED target
    /\ UNCHANGED <<current, born, workerVars, stopVars, circuit, placeholders,
                   panicked, acked, mishaps>>

\* The part under the write lock: the state is looked at again, the cool-down is not.
Probe(m) ==
    /\ dpc[m] = "probe"
    /\ circuit' = IF circuit.state = "open" THEN [circuit EXCEPT !.state = "half_open", !.cooled = FALSE] ELSE circuit
    /\ Lookup(m)
    /\ UNCHANGED <<rows, current, born, workerVars, stopVars, placeholders,
                   panicked, acked, mishaps>>

\* Enqueue: a send to a closed channel panics, a full one refuses.  When the caller's context has
\* ended, Enqueue may give up, and the update of the row fails under the same context.
Enqueue(m) ==
    /\ dpc[m] = "enqueue"
    /\ LET w == target[m]
       IN  \/ /\ closed[w]
              /\ Panic
              /\ UNCHANGED <<dispatchVars, queue, mishaps>>
           \/ /\ ~closed[w] /\ Len(queue[w]) < QueueSize
              /\ queue' = [queue EXCEPT ![w] = Append(@, m)]
              /\ GoD(m, "done")
              /\ target' = [target EXCEPT ![m] = 0]
              /\ UNCHANGED <<panicked, mishaps>>
           \/ /\ ~closed[w] /\ Len(queue[w]) >= QueueSize
              /\ GoD(m, "refused")
              /\ target' = [target EXCEPT ![m] = 0]
              /\ UNCHANGED <<queue, panicked, mishaps>>
           \/ /\ Mishap
              /\ GoD(m, "done")
              /\ target' = [target EXCEPT ![m] = 0]
              /\ UNCHANGED <<queue, panicked>>
    /\ UNCHANGED <<rows, current, born, closed, cancelled, wpc, job, stopVars, circuit,
                   placeholders, acked>>

\* The delivery is recorded as failed, unless that statement fails.
Refuse(m) ==
    /\ dpc[m] = "refused"
    /\ \/ rows' = [rows EXCEPT ![m] = "failed"] /\ UNCHANGED mishaps
       \/ Mishap /\ UNCHANGED rows
    /\ GoD(m, "done")
    /\ UNCHANGED <<target, current, born, workerVars, stopVars, circuit, placeholders,
                   panicked, acked>>

-----------------------------------------------------------------------------
(* The worker                                                              *)

Receive(w) ==
    /\ wpc[w] = "receive" /\ queue[w] # <<>>
    /\ queue' = [queue EXCEPT ![w] = Tail(@)]
    /\ job' = [job EXCEPT ![w] = [NoJob EXCEPT !.msg = Head(queue[w]), !.part = 1, !.drain = job[w].drain]]
    /\ GoW(w, "limit")
    /\ UNCHANGED <<rows, dispatchVars, current, born, closed, cancelled, stopVars, circuit, placeholders,
                   panicked, acked, mishaps>>

\* select chooses ctx.Done: from here on messages are processed under a drain context.
StartDrain(w) ==
    /\ wpc[w] = "receive" /\ cancelled[w] /\ ~job[w].drain
    /\ job' = [job EXCEPT ![w].drain = TRUE]
    /\ UNCHANGED <<rows, dispatchVars, current, born, queue, closed, cancelled, wpc, stopVars, circuit,
                   placeholders, panicked, acked, mishaps>>

\* The loop ends: the channel is closed and empty, or drained as far as it was filled.
ExitLoop(w) ==
    /\ wpc[w] = "receive" /\ queue[w] = <<>>
    /\ closed[w] \/ job[w].drain
    /\ GoW(w, "exited")
    /\ job' = [job EXCEPT ![w] = NoJob]
    /\ UNCHANGED <<rows, dispatchVars, current, born, queue, closed, cancelled, stopVars, circuit,
                   placeholders, panicked, acked, mishaps>>

DrainExpires(w) ==
    /\ job[w].drain /\ ~job[w].late /\ wpc[w] \notin {"none", "receive", "exited"}
    /\ Mishap
    /\ job' = [job EXCEPT ![w].late = TRUE]
    /\ UNCHANGED <<rows, dispatchVars, current, born, queue, closed, cancelled, wpc, stopVars, circuit,
                   placeholders, panicked, acked>>

\* Connector.Send of job j; it fails under a context that has ended.
Send(w, j, res) ==
    /\ Live(w) \/ res = "temporary"
    /\ acked' = IF res = "ok" THEN [acked EXCEPT ![j.msg] = @ \cup {j.part}] ELSE acked
    /\ job' = [job EXCEPT ![w] = [j EXCEPT !.res = res]]
    /\ GoW(w, "record")

\* limiter.Wait, which also gives up when the drain deadline is too near, then preSend: a
\* placeholder of the chat is edited instead of sending.  Without one, or when the edit fails,
\* the message_sending hook may cancel the delivery, and the first attempt is made.
PreSend(w) ==
    /\ wpc[w] = "limit"
    /\ \/ /\ ~Live(w) \/ job[w].drain
          /\ job' = [job EXCEPT ![w].res = "limited"]
          /\ GoW(w, "record")
          /\ UNCHANGED <<placeholders, acked>>
       \/ /\ Live(w) /\ placeholders
          /\ placeholders' = FALSE
          /\ job' = [job EXCEPT ![w].res = "edited"]
          /\ acked' = [acked EXCEPT ![job[w].msg] = @ \cup {job[w].part}]
          /\ GoW(w, "record")
       \/ /\ Live(w)
          /\ placeholders' = FALSE
          /\ \/ job' = [job EXCEPT ![w].res = "skipped"] /\ GoW(w, "record") /\ UNCHANGED acked
             \/ \E res \in Answers : Send(w, job[w], res)
    /\ UNCHANGED <<rows, dispatchVars, current, born, queue, closed, cancelled, stopVars, circuit,
                   panicked, mishaps>>

\* Mutant of Final: only a permanent error ends the attempts.
FinalPermanent(j) == j.res = "permanent" \/ j.attempt = MaxRetries

\* No further attempt after this result.
Final(j) == j.res # "temporary" \/ j.attempt = MaxRetries

\* Mutant of Verdict: a result that is not known to be final counts as sent.
VerdictHopeful(j) ==
    CASE j.res = "skipped" -> "skipped"
      [] j.res \in {"limited", "permanent"} -> "failed"
      [] OTHER -> "sent"

\* The status recordDeliveryAttempt is given.
Verdict(j) ==
    CASE j.res \in {"ok", "edited"} -> "sent"
      [] j.res = "skipped" -> "skipped"
      [] j.res = "limited" \/ (j.res \notin {"ok", "edited", "skipped"} /\ Final(j)) -> "failed"
      [] OTHER -> "queued"

\* The next chunk of the message, or the next message.
Proceed(w) ==
    IF job[w].part < Parts[job[w].msg]
    THEN /\ job' = [job EXCEPT ![w] = [job[w] EXCEPT !.part = @ + 1, !.attempt = 0]]
         /\ GoW(w, "limit")
    ELSE /\ job' = [job EXCEPT ![w] = [NoJob EXCEPT !.drain = job[w].drain]]
         /\ GoW(w, "receive")

\* Mutant of Judged: a circuit is opened again and again, past the threshold.
JudgedUnbounded(c, res) ==
    IF res = "ok" THEN [c EXCEPT !.state = "closed", !.cooled = FALSE]
    ELSE [state |-> IF c.failures + 1 >= Threshold THEN "open" ELSE c.state,
          failures |-> c.failures + 1, cooled |-> FALSE]

\* onSendResult.
Judged(c, res) ==
    IF res = "ok" THEN [c EXCEPT !.state = "closed", !.failures = 0, !.cooled = FALSE]
    ELSE LET failures == IF c.failures < Threshold THEN c.failures + 1 ELSE Threshold
         IN  IF (res = "permanent" \/ failures = Threshold) /\ c.state # "open"
             THEN [state |-> "open", failures |-> failures, cooled |-> FALSE]
             ELSE [c EXCEPT !.failures = failures]

\* recordDeliveryAttempt, whose error is logged; a last result also goes to the circuit.
Record(w) ==
    /\ wpc[w] = "record"
    /\ \/ /\ Live(w) /\ UNCHANGED mishaps
          /\ rows' = [rows EXCEPT ![job[w].msg] = Verdict(job[w])]
       \/ /\ (~Live(w) /\ UNCHANGED mishaps) \/ Mishap
          /\ UNCHANGED rows
    /\ \/ job[w].res \notin Answers /\ Proceed(w) /\ UNCHANGED circuit
       \/ /\ job[w].res \in Answers /\ Final(job[w])
          /\ circuit' = Judged(circuit, job[w].res)
          /\ Proceed(w)
       \/ /\ job[w].res \in Answers /\ ~Final(job[w])
          /\ GoW(w, "backoff")
          /\ UNCHANGED <<job, circuit>>
    /\ UNCHANGED <<dispatchVars, current, born, queue, closed, cancelled, stopVars, placeholders,
                   panicked, acked>>

\* Mutant of Backoff: the chunk is given up, and the next one begun, on any temporary error.
BackoffGivesUp(w) ==
    /\ wpc[w] = "backoff"
    /\ Proceed(w)
    /\ UNCHANGED <<rows, dispatchVars, current, born, queue, closed, cancelled, stopVars, circuit, placeholders,
                   panicked, acked, mishaps>>

\* The pause before the next attempt, which the end of the context interrupts.
Backoff(w) ==
    /\ wpc[w] = "backoff"
    /\ \/ \E res \in Answers : Send(w, [job[w] EXCEPT !.attempt = @ + 1], res)
       \/ ~Live(w) /\ Proceed(w) /\ UNCHANGED acked
    /\ UNCHANGED <<rows, dispatchVars, current, born, queue, closed, cancelled, stopVars, circuit, placeholders,
                   panicked, mishaps>>

-----------------------------------------------------------------------------
(* StartOne, StopOne, StopAll, inbound messages and the passing of time    *)

\* Not any more once StopAll is over, which the daemon calls on its way out.
StartOne ==
    /\ current = 0 /\ born < MaxWorkers /\ spc["all"] # "stopped"
    /\ born' = born + 1 /\ current' = born + 1
    /\ GoW(born + 1, "receive")
    /\ UNCHANGED <<rows, dispatchVars, queue, closed, cancelled, job, stopVars, circuit, placeholders,
                   panicked, acked, mishaps>>

\* StopOne takes the worker out of the map first, StopAll at the end.
StopBegin(k) ==
    /\ spc[k] = "idle" /\ current # 0
    /\ stopping' = [stopping EXCEPT ![k] = current]
    /\ current' = IF k = "one" THEN 0 ELSE current
    /\ GoS(k, "close")
    /\ UNCHANGED <<rows, dispatchVars, born, workerVars, circuit, placeholders,
                   panicked, acked, mishaps>>

\* Closing a closed channel panics.
StopClose(k) ==
    /\ spc[k] = "close"
    /\ \/ closed[stopping[k]] /\ Panic /\ UNCHANGED <<closed, spc>>
       \/ /\ ~closed[stopping[k]]
          /\ closed' = [closed EXCEPT ![stopping[k]] = TRUE]
          /\ GoS(k, "wait")
          /\ UNCHANGED panicked
    /\ UNCHANGED <<rows, dispatchVars, current, born, queue, cancelled, wpc, job, stopping, circuit, placeholders,
                   acked, mishaps>>

\* What follows the wait: the worker's context is cancelled, and StopAll empties the map.
StopCancel(k) ==
    /\ cancelled' = [cancelled EXCEPT ![stopping[k]] = TRUE]
    /\ current' = IF k = "all" THEN 0 ELSE current
    /\ stopping' = [stopping EXCEPT ![k] = 0]
    /\ GoS(k, IF k = "all" THEN "stopped" ELSE "idle")

\* Mutant of StopWait: nobody waits for the worker.
StopHastily(k) ==
    /\ spc[k] = "wait"
    /\ StopCancel(k)
    /\ UNCHANGED <<rows, dispatchVars, born, queue, closed, wpc, job, circuit, placeholders,
                   panicked, acked, mishaps>>

StopWait(k) ==
    /\ spc[k] = "wait"
    /\ (wpc[stopping[k]] = "exited" /\ UNCHANGED mishaps) \/ Mishap
    /\ StopCancel(k)
    /\ UNCHANGED <<rows, dispatchVars, born, queue, closed, wpc, job, circuit, placeholders,
                   panicked, acked>>

\* OnInbound sends a placeholder for the answer.
OnInbound ==
    /\ current # 0 /\ ~placeholders
    /\ placeholders' = TRUE
    /\ UNCHANGED <<rows, dispatchVars, current, born, workerVars, stopVars, circuit,
                   panicked, acked, mishaps>>

\* The janitor forgets a placeholder that is too old.
Janitor ==
    /\ placeholders
    /\ placeholders' = FALSE
    /\ UNCHANGED <<rows, dispatchVars, current, born, workerVars, stopVars, circuit,
                   panicked, acked, mishaps>>

\* connectorCircuitCooldown has passed since OpenedAt.
Cooldown ==
    /\ circuit.state = "open" /\ ~circuit.cooled
    /\ circuit' = [circuit EXCEPT !.cooled = TRUE]
    /\ UNCHANGED <<rows, dispatchVars, current, born, workerVars, stopVars, placeholders,
                   panicked, acked, mishaps>>

-----------------------------------------------------------------------------
Init ==
    /\ rows = [m \in Msgs |-> "none"]
    /\ dpc = [m \in Msgs |-> "idle"] /\ target = [m \in Msgs |-> 0]
    /\ current = 0 /\ born = 0
    /\ queue = [w \in Workers |-> <<>>]
    /\ closed = [w \in Workers |-> FALSE] /\ cancelled = [w \in Workers |-> FALSE]
    /\ wpc = [w \in Workers |-> "none"] /\ job = [w \in Workers |-> NoJob]
    /\ spc = [k \in Stoppers |-> "idle"] /\ stopping = [k \in Stoppers |-> 0]
    /\ circuit = [state |-> "closed", failures |-> 0, cooled |-> FALSE]
    /\ placeholders = FALSE /\ panicked = FALSE
    /\ acked = [m \in Msgs |-> {}]
    /\ mishaps = 0

Dispatcher(m) == Probe(m) \/ Enqueue(m) \/ Refuse(m)

Worker(w) ==
    \/ Receive(w) \/ StartDrain(w) \/ ExitLoop(w) \/ PreSend(w)
    \/ Record(w) \/ Backoff(w)

Stopper(k) == StopClose(k) \/ StopWait(k)

Next ==
    /\ ~panicked
    /\ \/ \E m \in Msgs : Deliver(m) \/ Dispatcher(m)
       \/ \E w \in Workers : Worker(w) \/ DrainExpires(w)
       \/ \E k \in Stoppers : StopBegin(k) \/ Stopper(k)
       \/ StartOne \/ OnInbound \/ Janitor \/ Cooldown

Spec == Init /\ [][Next]_vars

\* Goroutines run and Connector.Send returns: the clients have timeouts.
Fairness ==
    /\ \A m \in Msgs : WF_vars(~panicked /\ Dispatcher(m))
    /\ \A w \in Workers : WF_vars(~panicked /\ Worker(w))

FairSpec == Spec /\ Fairness

-----------------------------------------------------------------------------
(* Properties                                                              *)

\* Every variable has its type.
TypeOK ==
    /\ rows \in [Msgs -> {"none", "queued", "sent", "failed", "skipped"}]
    /\ dpc \in [Msgs -> {"idle", "probe", "enqueue", "refused", "done"}]
    /\ target \in [Msgs -> 0..MaxWorkers] /\ current \in 0..MaxWorkers /\ born \in 0..MaxWorkers
    /\ queue \in [Workers -> Seq(Msgs)]
    /\ closed \in [Workers -> BOOLEAN] /\ cancelled \in [Workers -> BOOLEAN]
    /\ wpc \in [Workers -> {"none", "receive", "limit", "record", "backoff", "exited"}]
    /\ job \in [Workers -> Job]
    /\ spc \in [Stoppers -> {"idle", "close", "wait", "stopped"}]
    /\ stopping \in [Stoppers -> 0..MaxWorkers]
    /\ circuit \in Circuit /\ placeholders \in BOOLEAN /\ panicked \in BOOLEAN
    /\ acked \in [Msgs -> SUBSET Nat] /\ \A m \in Msgs : acked[m] \subseteq 1..Parts[m]
    /\ mishaps \in 0..MaxMishaps

Held(m) == \E w \in Workers :
    \/ \E i \in 1..Len(queue[w]) : queue[w][i] = m
    \/ wpc[w] \notin {"none", "receive", "exited"} /\ job[w].msg = m

\* A delivery that is shown as sent was acknowledged by the platform, at least in part,
\* whatever retries, chunks, placeholders, stops and lost answers came before.
SentWasAcknowledged == \A m \in Msgs : rows[m] = "sent" => acked[m] # {}

\* A delivery whose dispatch is over and that is still queued is in a worker's channel or in
\* its hands, also across StopOne and StartOne; only an expired stop or drain, or a failed
\* statement, may strand it.
QueuedIsHeld ==
    \A m \in Msgs : rows[m] = "queued" /\ dpc[m] = "done" => Held(m) \/ mishaps > 0

\* A chunk the platform acknowledged is not sent again: no retry after a success, no edit of
\* a placeholder and a send, no message in the hands of two workers.
AcknowledgedIsNotResent ==
    \A w \in Workers : wpc[w] \in {"limit", "backoff"} => job[w].part \notin acked[job[w].msg]

\* Every recorded delivery ends as sent, failed or skipped, as long as nothing expires or
\* fails and no dispatch meets a closed channel.
DeliveriesSettle ==
    \A m \in Msgs : rows[m] = "queued" ~> (rows[m] # "queued" \/ mishaps > 0 \/ panicked)

\* "no more messages accepted" once the queues are closed (StopAll), and a graceful stop
\* (StopOne): neither makes a concurrent Dispatch panic.
NoPanic == ~panicked
=============================================================================
