----------------------- MODULE ConnectorDeliveryProofs -----------------------
(***************************************************************************)
(* Proofs about ConnectorDelivery, for every set of messages, split into   *)
(* any number of chunks, and every number of workers, retries and mishaps: *)
(* what is shown as sent was acknowledged, what was acknowledged is not    *)
(* sent again, and what is shown as queued is held by a worker.            *)
(***************************************************************************)
EXTENDS ConnectorDelivery, TLAPS

Rows == {"none", "queued", "sent", "failed", "skipped"}
DispatchPcs == {"idle", "probe", "enqueue", "refused", "done"}
WorkerPcs == {"none", "receive", "limit", "record", "backoff", "exited"}
StopPcs == {"idle", "close", "wait", "stopped"}
AtWork == {"limit", "record", "backoff"}
Delivered == {"ok", "edited"}

InHand(w, m) == wpc[w] \in AtWork /\ job[w].msg = m
InQueue(w, m) == \E i \in 1..Len(queue[w]) : queue[w][i] = m

-----------------------------------------------------------------------------
(* The invariant                                                           *)

\* Nobody knows a worker that was not made yet.
BornFirst ==
    /\ current <= born
    /\ \A w \in Workers : w > born => wpc[w] = "none"
    /\ \A m \in Msgs : target[m] <= born /\ (dpc[m] = "enqueue" => target[m] # 0)
    /\ \A k \in Stoppers : stopping[k] <= born /\ (spc[k] \in {"close", "wait"} => stopping[k] # 0)

\* A context ends behind the worker's loop, or because a wait expired.
ContextsEnd ==
    \A w \in Workers :
        /\ cancelled[w] => wpc[w] = "exited" \/ mishaps > 0
        /\ job[w].drain => cancelled[w]
        /\ job[w].late => mishaps > 0

\* A message is in one channel or in one worker's hands, once, and only behind its dispatch.
Once ==
    /\ \A w \in Workers : \A i, j \in 1..Len(queue[w]) : queue[w][i] = queue[w][j] => i = j
    /\ \A w, v \in Workers, m \in Msgs : InQueue(w, m) => ~InHand(v, m)
    /\ \A w, v \in Workers, m \in Msgs : InQueue(w, m) /\ InQueue(v, m) => w = v
    /\ \A w, v \in Workers, m \in Msgs : InHand(w, m) /\ InHand(v, m) => w = v
    /\ \A w \in Workers, m \in Msgs : InQueue(w, m) \/ InHand(w, m) => dpc[m] = "done"

\* The platform has the chunks before the one at hand, and that one once its result is to be
\* recorded.
Chunkwise ==
    /\ \A m \in Msgs : acked[m] # {} => dpc[m] = "done" /\ \A w \in Workers : ~InQueue(w, m)
    /\ \A w \in Workers : wpc[w] \in AtWork =>
         /\ job[w].part \in 1..Parts[job[w].msg]
         /\ \A p \in acked[job[w].msg] : p <= job[w].part
         /\ job[w].part \in acked[job[w].msg] <=> wpc[w] = "record" /\ job[w].res \in Delivered
         /\ wpc[w] = "backoff" => job[w].attempt < MaxRetries

DeliveryInv ==
    /\ TypeOK /\ BornFirst /\ ContextsEnd /\ Once /\ Chunkwise
    /\ SentWasAcknowledged /\ QueuedIsHeld

-----------------------------------------------------------------------------
(* Constants and records                                                   *)

LEMMA Consts ==
    /\ MaxWorkers \in Nat \ {0} /\ QueueSize \in Nat \ {0} /\ Threshold \in Nat \ {0}
    /\ MaxRetries \in Nat /\ MaxMishaps \in Nat
    /\ \A m \in Msgs : Parts[m] \in Nat /\ Parts[m] >= 1
  BY Bounds, PartsPositive

LEMMA NoJobTyped ==
    /\ NoJob \in Job /\ NoJob.drain = FALSE /\ NoJob.late = FALSE
    /\ NoJob.part = 0 /\ NoJob.attempt = 0 /\ NoJob.res = "ok"
<1>1. (CHOOSE m \in Msgs : TRUE) \in Msgs
  BY PartsPositive
<1>2. QED
  BY <1>1, Consts DEF NoJob, Job, Answers

Results == Answers \cup {"edited", "skipped", "limited"}

LEMMA JobRes ==
    ASSUME NEW j \in Job, NEW r \in Results, NEW k, k = [j EXCEPT !.res = r]
    PROVE  /\ k \in Job /\ k.res = r
           /\ k.msg = j.msg /\ k.part = j.part /\ k.attempt = j.attempt /\ k.drain = j.drain /\ k.late = j.late
  BY DEF Job, Results

LEMMA JobDrain ==
    ASSUME NEW j \in Job, NEW b \in BOOLEAN, NEW k, k = [j EXCEPT !.drain = b]
    PROVE  /\ k \in Job /\ k.drain = b
           /\ k.msg = j.msg /\ k.part = j.part /\ k.attempt = j.attempt /\ k.res = j.res /\ k.late = j.late
  BY DEF Job

LEMMA JobLate ==
    ASSUME NEW j \in Job, NEW k, k = [j EXCEPT !.late = TRUE]
    PROVE  /\ k \in Job /\ k.late = TRUE
           /\ k.msg = j.msg /\ k.part = j.part /\ k.attempt = j.attempt /\ k.res = j.res /\ k.drain = j.drain
  BY DEF Job

LEMMA JobAttempt ==
    ASSUME NEW j \in Job, j.attempt < MaxRetries, NEW k, k = [j EXCEPT !.attempt = j.attempt + 1]
    PROVE  /\ k \in Job
           /\ k.msg = j.msg /\ k.part = j.part /\ k.res = j.res /\ k.drain = j.drain /\ k.late = j.late
<1>1. j.attempt + 1 \in 0..MaxRetries
  BY Consts DEF Job
<1>2. QED
  BY <1>1 DEF Job

LEMMA JobPart ==
    ASSUME NEW j \in Job, NEW k, k = [j EXCEPT !.part = j.part + 1, !.attempt = 0]
    PROVE  /\ k \in Job /\ k.part = j.part + 1
           /\ k.msg = j.msg /\ k.res = j.res /\ k.drain = j.drain /\ k.late = j.late
<1>1. j.part + 1 \in Nat /\ 0 \in 0..MaxRetries
  BY Consts DEF Job
<1>2. QED
  BY <1>1 DEF Job

\* A worker's move changes its own entries only.
LEMMA OneWorker ==
    ASSUME TypeOK, NEW w \in Workers, NEW j \in Job, NEW p \in WorkerPcs,
           job' = [job EXCEPT ![w] = j], wpc' = [wpc EXCEPT ![w] = p]
    PROVE  /\ job' \in [Workers -> Job] /\ wpc' \in [Workers -> WorkerPcs]
           /\ job'[w] = j /\ wpc'[w] = p
           /\ \A v \in Workers \ {w} : job'[v] = job[v] /\ wpc'[v] = wpc[v]
  BY DEF TypeOK, WorkerPcs

LEMMA HeldPlaces ==
    ASSUME TypeOK, NEW m \in Msgs
    PROVE  Held(m) <=> \E w \in Workers : InQueue(w, m) \/ InHand(w, m)
  BY DEF Held, InQueue, InHand, AtWork, TypeOK

LEMMA HeldPlacesNext ==
    ASSUME TypeOK', NEW m \in Msgs
    PROVE  Held(m)' <=> \E w \in Workers : InQueue(w, m)' \/ InHand(w, m)'
  BY DEF Held, InQueue, InHand, AtWork, TypeOK

-----------------------------------------------------------------------------
(* Workers                                                                 *)

\* What a worker may do with the chunk at hand: the conditions on the step that keep the
\* invariant.
LEMMA WorkerMoves ==
    ASSUME DeliveryInv, NEW w \in Workers, NEW j \in Job, NEW p \in WorkerPcs,
           job' = [job EXCEPT ![w] = j], wpc' = [wpc EXCEPT ![w] = p],
           UNCHANGED <<dispatchVars, current, born, queue, closed, cancelled, stopVars, panicked>>,
           wpc[w] \notin {"none", "exited"}, p # "none",
           acked' = acked \/ (wpc[w] \in AtWork /\ acked' = [acked EXCEPT ![job[w].msg] = @ \cup {job[w].part}]),
           p \in AtWork =>
                          /\ wpc[w] \in AtWork /\ j.msg = job[w].msg
                          /\ j.part \in 1..Parts[j.msg]
                          /\ \A x \in acked'[j.msg] : x <= j.part
                          /\ j.part \in acked'[j.msg] <=> p = "record" /\ j.res \in Delivered
                          /\ p = "backoff" => j.attempt < MaxRetries,
           j.drain => cancelled[w], j.late => mishaps' > 0,
           mishaps' \in 0..MaxMishaps, mishaps <= mishaps',
           rows' = rows \/ (wpc[w] \in AtWork /\ \E r \in Rows : rows' = [rows EXCEPT ![job[w].msg] = r]),
           wpc[w] \in AtWork => (rows'[job[w].msg] = "sent" => acked'[job[w].msg] # {}),
           wpc[w] \in AtWork /\ p \notin AtWork => rows'[job[w].msg] # "queued" \/ mishaps' > 0,
           circuit' \in Circuit, placeholders' \in BOOLEAN
    PROVE  DeliveryInv'
<1>0. /\ job' \in [Workers -> Job] /\ wpc' \in [Workers -> WorkerPcs]
      /\ job'[w] = j /\ wpc'[w] = p
      /\ \A v \in Workers \ {w} : job'[v] = job[v] /\ wpc'[v] = wpc[v]
  BY OneWorker DEF DeliveryInv
<1>a. job[w] \in Job /\ job[w].msg \in Msgs /\ job[w].part \in Nat
  BY DEF DeliveryInv, TypeOK, Job
<1>b. rows \in [Msgs -> Rows] /\ acked \in [Msgs -> SUBSET Nat]
  BY DEF DeliveryInv, TypeOK, Rows
<1>c. /\ rows' \in [Msgs -> Rows]
      /\ \A m \in Msgs : m # job[w].msg => rows'[m] = rows[m]
      /\ wpc[w] \notin AtWork => rows' = rows
  BY <1>a, <1>b
<1>d. /\ acked' \in [Msgs -> SUBSET Nat]
      /\ \A m \in Msgs : m # job[w].msg => acked'[m] = acked[m]
      /\ \A m \in Msgs : acked[m] \subseteq acked'[m]
      /\ wpc[w] \notin AtWork => acked' = acked
  BY <1>a, <1>b
<1>1. /\ job[w] \in Job /\ job[w].msg \in Msgs /\ rows' \in [Msgs -> Rows]
      /\ \A m \in Msgs : m # job[w].msg => acked'[m] = acked[m] /\ rows'[m] = rows[m]
      /\ \A m \in Msgs : acked[m] \subseteq acked'[m]
      /\ wpc[w] \notin AtWork => acked' = acked /\ rows' = rows
  BY <1>a, <1>c, <1>d
<1>2. \A m \in Msgs : acked'[m] \subseteq 1..Parts[m]
  <2>1. wpc[w] \in AtWork => job[w].part \in 1..Parts[job[w].msg]
    BY DEF DeliveryInv, Chunkwise
  <2>2. \A m \in Msgs : acked[m] \subseteq 1..Parts[m]
    BY DEF DeliveryInv, TypeOK
  <2>3. CASE acked' = acked
    BY <2>2, <2>3
  <2>4. CASE wpc[w] \in AtWork /\ acked' = [acked EXCEPT ![job[w].msg] = @ \cup {job[w].part}]
    <3>1. acked'[job[w].msg] = acked[job[w].msg] \cup {job[w].part}
      BY <1>a, <1>b, <2>4
    <3>2. QED
      BY <1>d, <2>1, <2>2, <2>4, <3>1
  <2>5. QED
    BY <2>3, <2>4
<1>3. TypeOK'
  BY <1>0, <1>1, <1>2, <1>d DEF DeliveryInv, TypeOK, Rows, WorkerPcs, dispatchVars, stopVars
<1>4. BornFirst'
  <2>1. w <= born
    BY Consts DEF DeliveryInv, BornFirst, TypeOK, Workers
  <2>2. QED
    BY <1>0, <2>1, Consts DEF DeliveryInv, BornFirst, TypeOK, Workers, dispatchVars, stopVars
<1>5. ContextsEnd'
  <2>1. mishaps \in Nat /\ mishaps' \in Nat
    BY Consts DEF DeliveryInv, TypeOK
  <2>2. QED
    BY <1>0, <2>1 DEF DeliveryInv, ContextsEnd
<1>6. /\ \A v \in Workers, m \in Msgs : InQueue(v, m)' = InQueue(v, m)
      /\ \A v \in Workers, m \in Msgs : InHand(v, m)' => InHand(v, m)
      /\ \A v \in Workers \ {w}, m \in Msgs : InHand(v, m)' = InHand(v, m)
  BY <1>0 DEF InQueue, InHand
<1>7. Once'
  <2>1. dpc' = dpc /\ queue' = queue
    BY DEF dispatchVars
  <2>2. QED
    BY <1>6, <2>1 DEF DeliveryInv, Once
<1>8. Chunkwise'
  <2>1. \A m \in Msgs : acked'[m] # acked[m] => InHand(w, m) /\ m = job[w].msg
    BY <1>1 DEF InHand
  <2>2. \A m \in Msgs : acked'[m] # {} => dpc'[m] = "done" /\ \A v \in Workers : ~InQueue(v, m)'
    BY <1>6, <2>1 DEF DeliveryInv, Chunkwise, Once, dispatchVars
  <2>3. ASSUME NEW v \in Workers \ {w}, wpc[v] \in AtWork
        PROVE  acked'[job[v].msg] = acked[job[v].msg]
    BY <2>1, <2>3 DEF DeliveryInv, Once, InHand, TypeOK, Job
  <2>4. ASSUME NEW v \in Workers, wpc'[v] \in AtWork
        PROVE  /\ job'[v].part \in 1..Parts[job'[v].msg]
               /\ \A x \in acked'[job'[v].msg] : x <= job'[v].part
               /\ job'[v].part \in acked'[job'[v].msg] <=> wpc'[v] = "record" /\ job'[v].res \in Delivered
               /\ wpc'[v] = "backoff" => job'[v].attempt < MaxRetries
    <3>1. CASE v = w
      BY <1>0, <2>4, <3>1
    <3>2. CASE v # w
      <4>1. job'[v] = job[v] /\ wpc'[v] = wpc[v] /\ acked'[job[v].msg] = acked[job[v].msg]
        BY <1>0, <2>3, <2>4, <3>2
      <4>2. QED
        BY <2>4, <4>1 DEF DeliveryInv, Chunkwise
    <3>3. QED
      BY <3>1, <3>2
  <2>5. QED
    BY <2>2, <2>4 DEF Chunkwise
<1>9. SentWasAcknowledged'
  BY <1>1 DEF DeliveryInv, SentWasAcknowledged
<1>10. QueuedIsHeld'
  <2> SUFFICES ASSUME NEW m \in Msgs, rows'[m] = "queued", dpc'[m] = "done", ~(mishaps' > 0)
               PROVE  Held(m)'
    BY DEF QueuedIsHeld
  <2>1. ~(mishaps > 0)
    BY Consts DEF DeliveryInv, TypeOK
  <2>2. CASE wpc[w] \in AtWork /\ m = job[w].msg
    <3>1. InHand(w, m)'
      BY <1>0, <2>2 DEF InHand
    <3>2. QED
      BY <3>1, <1>3, HeldPlacesNext
  <2>3. CASE ~(wpc[w] \in AtWork /\ m = job[w].msg)
    <3>1. rows[m] = "queued" /\ dpc[m] = "done"
      BY <1>1, <2>3 DEF dispatchVars
    <3>2. PICK v \in Workers : InQueue(v, m) \/ InHand(v, m)
      BY <2>1, <3>1, HeldPlaces DEF DeliveryInv, QueuedIsHeld
    <3>3. InQueue(v, m)' \/ InHand(v, m)'
      BY <1>6, <2>3, <3>2 DEF InHand
    <3>4. QED
      BY <3>3, <1>3, HeldPlacesNext
  <2>4. QED
    BY <2>2, <2>3
<1>11. QED
  BY <1>3, <1>4, <1>5, <1>7, <1>8, <1>9, <1>10 DEF DeliveryInv

LEMMA MishapCounts ==
    ASSUME TypeOK, Mishap
    PROVE  mishaps' \in 0..MaxMishaps /\ mishaps <= mishaps' /\ mishaps' > 0
  BY Consts DEF TypeOK, Mishap

\* The context of a call ends early only because a wait expired.
LEMMA EndedEarly ==
    ASSUME TypeOK, ContextsEnd, NEW w \in Workers, wpc[w] \in AtWork, ~Live(w)
    PROVE  mishaps > 0
  BY DEF TypeOK, ContextsEnd, Live, AtWork

LEMMA JudgedTyped ==
    ASSUME NEW c \in Circuit, NEW res \in Answers
    PROVE  Judged(c, res) \in Circuit
<1>1. /\ c.failures \in 0..Threshold /\ c.state \in {"closed", "open", "half_open"} /\ c.cooled \in BOOLEAN
      /\ Threshold \in Nat
  BY Consts DEF Circuit
<1>2. 0 \in 0..Threshold /\ (IF c.failures < Threshold THEN c.failures + 1 ELSE Threshold) \in 0..Threshold
  BY <1>1
<1>3. CASE res = "ok"
  BY <1>1, <1>2, <1>3 DEF Judged, Circuit
<1>4. CASE res # "ok"
  <2> DEFINE n == IF c.failures < Threshold THEN c.failures + 1 ELSE Threshold
  <2>0. n \in 0..Threshold
    BY <1>2
  <2> HIDE DEF n
  <2>1. [state |-> "open", failures |-> n, cooled |-> FALSE] \in Circuit
    BY <2>0 DEF Circuit
  <2>2. [c EXCEPT !.failures = n] \in Circuit
    BY <2>0 DEF Circuit
  <2>3. QED
    BY <1>4, <2>1, <2>2 DEF Judged, n
<1>5. QED
  BY <1>3, <1>4

\* What a worker at work knows of its chunk.
LEMMA AtWorkFacts ==
    ASSUME DeliveryInv, NEW w \in Workers, wpc[w] \in AtWork
    PROVE  /\ job[w] \in Job /\ job[w].msg \in Msgs /\ job[w].part \in 1..Parts[job[w].msg]
           /\ job[w].part \in Nat /\ Parts[job[w].msg] \in Nat
           /\ acked \in [Msgs -> SUBSET Nat]
           /\ \A x \in acked[job[w].msg] : x <= job[w].part
           /\ job[w].part \in acked[job[w].msg] <=> wpc[w] = "record" /\ job[w].res \in Delivered
           /\ wpc[w] = "backoff" => job[w].attempt < MaxRetries
           /\ job[w].drain => cancelled[w]
           /\ job[w].late => mishaps > 0
           /\ mishaps \in 0..MaxMishaps /\ mishaps \in Nat /\ rows \in [Msgs -> Rows]
           /\ rows[job[w].msg] = "sent" => acked[job[w].msg] # {}
           /\ circuit \in Circuit /\ placeholders \in BOOLEAN
<1>1. TypeOK /\ Chunkwise /\ ContextsEnd /\ SentWasAcknowledged
  BY DEF DeliveryInv
<1>2. job[w] \in Job /\ job[w].msg \in Msgs /\ job[w].part \in Nat
  BY <1>1 DEF TypeOK, Job
<1>3. QED
  BY <1>1, <1>2, Consts DEF TypeOK, Chunkwise, ContextsEnd, SentWasAcknowledged, Rows

\* The answer of one attempt.
LEMMA SendKeeps ==
    ASSUME DeliveryInv, NEW w \in Workers, wpc[w] \in {"limit", "backoff"},
           NEW k \in Job, k.msg = job[w].msg, k.part = job[w].part, k.drain = job[w].drain, k.late = job[w].late,
           NEW res \in Answers, Send(w, k, res), placeholders' \in BOOLEAN,
           UNCHANGED <<rows, dispatchVars, current, born, queue, closed, cancelled, stopVars, circuit, panicked, mishaps>>
    PROVE  DeliveryInv'
<1> DEFINE j == [k EXCEPT !.res = res]
<1>1. /\ j \in Job /\ j.res = res /\ j.msg = job[w].msg /\ j.part = job[w].part
      /\ j.drain = job[w].drain /\ j.late = job[w].late
  <2>1. res \in Results
    BY DEF Results
  <2>2. QED
    BY <2>1, JobRes
<1>2. wpc[w] \in AtWork /\ wpc[w] # "record"
  BY DEF AtWork
<1>3. job' = [job EXCEPT ![w] = j] /\ wpc' = [wpc EXCEPT ![w] = "record"]
  BY DEF Send, GoW
<1> HIDE DEF j
<1>4. /\ acked' = IF res = "ok" THEN [acked EXCEPT ![job[w].msg] = @ \cup {job[w].part}] ELSE acked
  BY DEF Send
<1>5. /\ acked' = acked \/ acked' = [acked EXCEPT ![job[w].msg] = @ \cup {job[w].part}]
      /\ acked'[job[w].msg] = IF res = "ok" THEN acked[job[w].msg] \cup {job[w].part} ELSE acked[job[w].msg]
  BY <1>2, <1>4, AtWorkFacts
<1>6. /\ \A x \in acked'[job[w].msg] : x <= job[w].part
      /\ job[w].part \in acked'[job[w].msg] <=> res \in Delivered
      /\ rows[job[w].msg] = "sent" => acked'[job[w].msg] # {}
  <2>1. res \in Delivered <=> res = "ok"
    BY DEF Delivered, Answers
  <2>2. QED
    BY <1>2, <1>5, <2>1, AtWorkFacts
<1>7. "record" \in WorkerPcs /\ "record" \in AtWork
  BY DEF WorkerPcs, AtWork
<1>8. /\ rows' = rows /\ mishaps' = mishaps /\ circuit' = circuit
      /\ UNCHANGED <<dispatchVars, current, born, queue, closed, cancelled, stopVars, panicked>>
  OBVIOUS
<1>9. mishaps' \in 0..MaxMishaps /\ mishaps <= mishaps' /\ circuit' \in Circuit
  BY <1>2, <1>8, AtWorkFacts
<1>10. QED
  BY <1>1, <1>2, <1>3, <1>5, <1>6, <1>7, <1>8, <1>9, AtWorkFacts, WorkerMoves

\* The next chunk, or the next message.
LEMMA ProceedKeeps ==
    ASSUME DeliveryInv, NEW w \in Workers, wpc[w] \in AtWork, Proceed(w),
           UNCHANGED <<dispatchVars, current, born, queue, closed, cancelled, stopVars, placeholders, panicked, acked>>,
           mishaps' \in 0..MaxMishaps, mishaps <= mishaps', circuit' \in Circuit,
           rows' = rows \/ \E r \in Rows : rows' = [rows EXCEPT ![job[w].msg] = r],
           rows'[job[w].msg] = "sent" => acked[job[w].msg] # {},
           rows'[job[w].msg] # "queued" \/ mishaps' > 0
    PROVE  DeliveryInv'
<1>0. /\ UNCHANGED <<dispatchVars, current, born, queue, closed, cancelled, stopVars, panicked>>
      /\ placeholders' = placeholders /\ acked' = acked
  OBVIOUS
<1>1. wpc[w] \notin {"none", "exited"}
  BY DEF AtWork
<1>2. CASE job[w].part < Parts[job[w].msg]
  <2> DEFINE j == [job[w] EXCEPT !.part = job[w].part + 1, !.attempt = 0]
  <2>1. /\ j \in Job /\ j.part = job[w].part + 1 /\ j.msg = job[w].msg
        /\ j.drain = job[w].drain /\ j.late = job[w].late
    <3>1. job[w] \in Job
      BY AtWorkFacts
    <3>2. QED
      BY <3>1, JobPart
  <2>2. job' = [job EXCEPT ![w] = j] /\ wpc' = [wpc EXCEPT ![w] = "limit"]
    BY <1>2 DEF Proceed, GoW
  <2> HIDE DEF j
  <2>3. "limit" \in WorkerPcs /\ "limit" \in AtWork
    BY DEF WorkerPcs, AtWork
  <2>4. /\ j.part \in 1..Parts[j.msg]
        /\ \A x \in acked'[j.msg] : x <= j.part
        /\ j.part \notin acked'[j.msg]
    <3>1. \A x \in acked[job[w].msg] : x \in Nat /\ x <= job[w].part
      BY AtWorkFacts
    <3>2. QED
      BY <1>0, <1>2, <2>1, <3>1, AtWorkFacts
  <2>5. j.late => mishaps' > 0
    <3>1. job[w].late => mishaps > 0
      BY AtWorkFacts
    <3>2. mishaps \in Nat /\ mishaps' \in Nat
      BY AtWorkFacts, Consts
    <3>3. QED
      BY <2>1, <3>1, <3>2
  <2>6. QED
    BY <1>0, <1>1, <2>1, <2>2, <2>3, <2>4, <2>5, AtWorkFacts, WorkerMoves
<1>3. CASE ~(job[w].part < Parts[job[w].msg])
  <2> DEFINE j == [NoJob EXCEPT !.drain = job[w].drain]
  <2>1. j \in Job /\ j.drain = job[w].drain /\ j.late = FALSE
    <3>1. job[w].drain \in BOOLEAN
      BY AtWorkFacts DEF Job
    <3>2. QED
      BY <3>1, NoJobTyped, JobDrain
  <2>2. job' = [job EXCEPT ![w] = j] /\ wpc' = [wpc EXCEPT ![w] = "receive"]
    BY <1>3 DEF Proceed, GoW
  <2> HIDE DEF j
  <2>3. "receive" \in WorkerPcs /\ "receive" \notin AtWork
    BY DEF WorkerPcs, AtWork
  <2>4. QED
    BY <1>0, <1>1, <2>1, <2>2, <2>3, AtWorkFacts, WorkerMoves
<1>4. QED
  BY <1>2, <1>3

LEMMA PreSendKeeps ==
    ASSUME DeliveryInv, NEW w \in Workers, PreSend(w)
    PROVE  DeliveryInv'
<1>0. /\ rows' = rows /\ mishaps' = mishaps /\ circuit' = circuit
      /\ UNCHANGED <<dispatchVars, current, born, queue, closed, cancelled, stopVars, panicked>>
  BY DEF PreSend
<1>1. wpc[w] = "limit" /\ wpc[w] \in AtWork /\ "record" \in WorkerPcs /\ "record" \in AtWork
  BY DEF PreSend, AtWork, WorkerPcs
<1>2. /\ mishaps' \in 0..MaxMishaps /\ mishaps <= mishaps' /\ circuit' \in Circuit
      /\ job[w] \in Job
  BY <1>0, <1>1, AtWorkFacts
<1>3. ASSUME NEW r \in {"limited", "skipped"}, job' = [job EXCEPT ![w].res = r], GoW(w, "record"),
             acked' = acked, placeholders' \in BOOLEAN
      PROVE  DeliveryInv'
  <2> DEFINE j == [job[w] EXCEPT !.res = r]
  <2>1. /\ j \in Job /\ j.res = r /\ j.msg = job[w].msg /\ j.part = job[w].part
        /\ j.drain = job[w].drain /\ j.late = job[w].late
    <3>1. r \in Results
      BY DEF Results
    <3>2. QED
      BY <1>2, <3>1, JobRes
  <2>2. job' = [job EXCEPT ![w] = j] /\ wpc' = [wpc EXCEPT ![w] = "record"]
    BY <1>3 DEF GoW
  <2> HIDE DEF j
  <2>3. r \notin Delivered
    BY DEF Delivered
  <2>4. QED
    BY <1>0, <1>1, <1>2, <1>3, <2>1, <2>2, <2>3, AtWorkFacts, WorkerMoves
<1>4. CASE /\ placeholders' = FALSE
           /\ job' = [job EXCEPT ![w].res = "edited"]
           /\ acked' = [acked EXCEPT ![job[w].msg] = @ \cup {job[w].part}]
           /\ GoW(w, "record")
  <2> DEFINE j == [job[w] EXCEPT !.res = "edited"]
  <2>1. /\ j \in Job /\ j.res = "edited" /\ j.msg = job[w].msg /\ j.part = job[w].part
        /\ j.drain = job[w].drain /\ j.late = job[w].late
    <3>1. "edited" \in Results
      BY DEF Results
    <3>2. QED
      BY <1>2, <3>1, JobRes
  <2>2. job' = [job EXCEPT ![w] = j] /\ wpc' = [wpc EXCEPT ![w] = "record"]
    BY <1>4 DEF GoW
  <2> HIDE DEF j
  <2>3. j.res \in Delivered
    BY <2>1 DEF Delivered
  <2>4. acked'[job[w].msg] = acked[job[w].msg] \cup {job[w].part}
    BY <1>1, <1>4, AtWorkFacts
  <2>5. /\ \A x \in acked'[job[w].msg] : x <= job[w].part
        /\ job[w].part \in acked'[job[w].msg]
    BY <1>1, <2>4, AtWorkFacts
  <2>6. placeholders' \in BOOLEAN
    BY <1>4
  <2>7. QED
    BY <1>0, <1>1, <1>2, <1>4, <2>1, <2>2, <2>3, <2>5, <2>6, AtWorkFacts, WorkerMoves
<1>5. CASE placeholders' = FALSE /\ \E res \in Answers : Send(w, job[w], res)
  <2>1. PICK res \in Answers : Send(w, job[w], res)
    BY <1>5
  <2>2. wpc[w] \in {"limit", "backoff"} /\ placeholders' \in BOOLEAN
    BY <1>1, <1>5
  <2>3. QED
    BY <1>0, <1>2, <2>1, <2>2, SendKeeps
<1>6. placeholders \in BOOLEAN /\ FALSE \in BOOLEAN
  BY <1>1, AtWorkFacts
<1>7. QED
  BY <1>3, <1>4, <1>5, <1>6 DEF PreSend

\* The status that is recorded: "queued" before another attempt only.
LEMMA VerdictSays ==
    ASSUME NEW j \in Job
    PROVE  /\ Verdict(j) \in Rows
           /\ Verdict(j) = "sent" => j.res \in Delivered
           /\ j.res \notin Answers \/ Final(j) => Verdict(j) # "queued"
  BY DEF Verdict, Final, Answers, Job, Rows, Delivered

LEMMA RecordKeeps ==
    ASSUME DeliveryInv, NEW w \in Workers, Record(w)
    PROVE  DeliveryInv'
<1>1. wpc[w] = "record" /\ wpc[w] \in AtWork /\ "backoff" \in WorkerPcs /\ "backoff" \in AtWork
  BY DEF Record, AtWork, WorkerPcs
<1>2. UNCHANGED <<dispatchVars, current, born, queue, closed, cancelled, stopVars, placeholders, panicked, acked>>
  BY DEF Record
<1>3. /\ mishaps' \in 0..MaxMishaps /\ mishaps <= mishaps'
      /\ (rows' = [rows EXCEPT ![job[w].msg] = Verdict(job[w])]) \/ (rows' = rows /\ mishaps' > 0)
  <2>1. TypeOK /\ ContextsEnd
    BY DEF DeliveryInv
  <2>2. CASE mishaps' = mishaps /\ rows' = [rows EXCEPT ![job[w].msg] = Verdict(job[w])]
    BY <1>1, <2>2, AtWorkFacts
  <2>3. CASE ~Live(w) /\ mishaps' = mishaps /\ rows' = rows
    BY <1>1, <2>1, <2>3, AtWorkFacts, EndedEarly
  <2>4. CASE Mishap /\ rows' = rows
    BY <2>1, <2>4, MishapCounts
  <2>5. QED
    BY <2>2, <2>3, <2>4 DEF Record
<1>4. /\ job[w] \in Job /\ Verdict(job[w]) \in Rows
      /\ Verdict(job[w]) = "sent" => acked[job[w].msg] # {}
      /\ job[w].res \notin Answers \/ Final(job[w]) => Verdict(job[w]) # "queued"
  <2>1. job[w] \in Job /\ (job[w].part \in acked[job[w].msg] <=> job[w].res \in Delivered)
    BY <1>1, AtWorkFacts
  <2>2. QED
    BY <2>1, VerdictSays
<1>5. /\ rows' = rows \/ \E r \in Rows : rows' = [rows EXCEPT ![job[w].msg] = r]
      /\ rows'[job[w].msg] = "sent" => acked[job[w].msg] # {}
      /\ job[w].res \notin Answers \/ Final(job[w]) => rows'[job[w].msg] # "queued" \/ mishaps' > 0
  <2>1. /\ rows \in [Msgs -> Rows] /\ job[w].msg \in Msgs
        /\ rows[job[w].msg] = "sent" => acked[job[w].msg] # {}
    BY <1>1, AtWorkFacts
  <2>2. QED
    BY <1>3, <1>4, <2>1
<1>6. CASE job[w].res \notin Answers /\ Proceed(w) /\ circuit' = circuit
  <2>1. circuit' \in Circuit
    BY <1>1, <1>6, AtWorkFacts
  <2>2. QED
    BY <1>1, <1>2, <1>3, <1>5, <1>6, <2>1, ProceedKeeps
<1>7. CASE /\ job[w].res \in Answers /\ Final(job[w])
           /\ circuit' = Judged(circuit, job[w].res) /\ Proceed(w)
  <2>1. circuit' \in Circuit
    BY <1>1, <1>7, AtWorkFacts, JudgedTyped
  <2>2. QED
    BY <1>1, <1>2, <1>3, <1>5, <1>7, <2>1, ProceedKeeps
<1>8. CASE /\ job[w].res \in Answers /\ ~Final(job[w])
           /\ GoW(w, "backoff") /\ job' = job /\ circuit' = circuit
  <2>1. job' = [job EXCEPT ![w] = job[w]] /\ wpc' = [wpc EXCEPT ![w] = "backoff"]
    BY <1>8 DEF GoW, DeliveryInv, TypeOK
  <2>2. job[w].attempt < MaxRetries /\ job[w].res \notin Delivered
    <3>1. job[w].attempt \in 0..MaxRetries /\ MaxRetries \in Nat
      BY <1>4, Consts DEF Job
    <3>2. job[w].res = "temporary" /\ job[w].attempt # MaxRetries
      BY <1>8 DEF Final
    <3>3. QED
      BY <3>1, <3>2 DEF Delivered
  <2>3. circuit' \in Circuit /\ placeholders' \in BOOLEAN /\ acked' = acked
    BY <1>1, <1>2, <1>8, AtWorkFacts
  <2>4. UNCHANGED <<dispatchVars, current, born, queue, closed, cancelled, stopVars, panicked>>
    BY <1>2
  <2>5. job[w].late => mishaps' > 0
    <3>1. (job[w].late => mishaps > 0) /\ mishaps \in Nat
      BY <1>1, AtWorkFacts
    <3>2. mishaps' \in Nat
      BY <1>3, Consts
    <3>3. QED
      BY <1>3, <3>1, <3>2
  <2>6. QED
    BY <1>1, <1>3, <1>5, <2>1, <2>2, <2>3, <2>4, <2>5, AtWorkFacts, WorkerMoves
<1>9. QED
  BY <1>6, <1>7, <1>8 DEF Record

LEMMA BackoffKeeps ==
    ASSUME DeliveryInv, NEW w \in Workers, Backoff(w)
    PROVE  DeliveryInv'
<1>1. wpc[w] = "backoff" /\ wpc[w] \in AtWork /\ wpc[w] \in {"limit", "backoff"}
  BY DEF Backoff, AtWork
<1>2. UNCHANGED <<rows, dispatchVars, current, born, queue, closed, cancelled, stopVars, circuit, placeholders,
                  panicked, mishaps>>
  BY DEF Backoff
<1>3. CASE \E res \in Answers : Send(w, [job[w] EXCEPT !.attempt = @ + 1], res)
  <2>1. PICK res \in Answers : Send(w, [job[w] EXCEPT !.attempt = @ + 1], res)
    BY <1>3
  <2> DEFINE k == [job[w] EXCEPT !.attempt = job[w].attempt + 1]
  <2>2. job[w] \in Job /\ job[w].attempt < MaxRetries /\ placeholders' \in BOOLEAN
    BY <1>1, <1>2, AtWorkFacts
  <2>3. /\ k \in Job /\ k.msg = job[w].msg /\ k.part = job[w].part
        /\ k.drain = job[w].drain /\ k.late = job[w].late
    BY <2>2, JobAttempt
  <2>4. Send(w, k, res)
    BY <2>1
  <2> HIDE DEF k
  <2>5. QED
    BY <1>1, <1>2, <2>2, <2>3, <2>4, SendKeeps
<1>4. CASE ~Live(w) /\ Proceed(w) /\ acked' = acked
  <2>1. mishaps > 0
    BY <1>1, <1>4, EndedEarly DEF DeliveryInv
  <2>2. /\ mishaps' > 0 /\ mishaps' \in 0..MaxMishaps /\ mishaps <= mishaps' /\ circuit' \in Circuit
        /\ rows' = rows /\ (rows[job[w].msg] = "sent" => acked[job[w].msg] # {})
    BY <1>1, <1>2, <2>1, AtWorkFacts
  <2>3. QED
    BY <1>1, <1>2, <1>4, <2>2, ProceedKeeps
<1>5. QED
  BY <1>3, <1>4 DEF Backoff

LEMMA LoopKeeps ==
    ASSUME DeliveryInv, NEW w \in Workers, StartDrain(w) \/ ExitLoop(w) \/ DrainExpires(w)
    PROVE  DeliveryInv'
<1>1. /\ TypeOK /\ job[w] \in Job /\ job \in [Workers -> Job] /\ wpc \in [Workers -> WorkerPcs]
      /\ mishaps \in 0..MaxMishaps /\ mishaps \in Nat
      /\ circuit \in Circuit /\ placeholders \in BOOLEAN
  BY Consts DEF DeliveryInv, TypeOK, WorkerPcs
<1>2. (job[w].drain => cancelled[w]) /\ (job[w].late => mishaps > 0)
  BY DEF DeliveryInv, ContextsEnd
<1>3. /\ UNCHANGED <<dispatchVars, current, born, queue, closed, cancelled, stopVars, panicked>>
      /\ rows' = rows /\ acked' = acked /\ circuit' = circuit /\ placeholders' = placeholders
  BY DEF StartDrain, ExitLoop, DrainExpires
<1>4. circuit' \in Circuit /\ placeholders' \in BOOLEAN
  BY <1>1, <1>3
<1>5. CASE StartDrain(w)
  <2> DEFINE j == [job[w] EXCEPT !.drain = TRUE]
  <2>1. j \in Job /\ j.late = job[w].late
    BY <1>1 DEF Job
  <2>2. /\ job' = [job EXCEPT ![w] = j] /\ wpc' = [wpc EXCEPT ![w] = "receive"]
        /\ wpc[w] = "receive" /\ cancelled[w] /\ mishaps' = mishaps
    BY <1>1, <1>5 DEF StartDrain
  <2> HIDE DEF j
  <2>3. "receive" \in WorkerPcs /\ "receive" \notin AtWork
    BY DEF WorkerPcs, AtWork
  <2>4. mishaps' \in 0..MaxMishaps /\ mishaps <= mishaps'
    BY <1>1, <2>2
  <2>5. QED
    BY <1>2, <1>3, <1>4, <2>1, <2>2, <2>3, <2>4, WorkerMoves
<1>6. CASE ExitLoop(w)
  <2>1. /\ job' = [job EXCEPT ![w] = NoJob] /\ wpc' = [wpc EXCEPT ![w] = "exited"]
        /\ wpc[w] = "receive" /\ mishaps' = mishaps
    BY <1>6 DEF ExitLoop, GoW
  <2>2. "exited" \in WorkerPcs /\ "exited" \notin AtWork /\ "receive" \notin AtWork
    BY DEF WorkerPcs, AtWork
  <2>3. mishaps' \in 0..MaxMishaps /\ mishaps <= mishaps'
    BY <1>1, <2>1
  <2>4. QED
    BY <1>3, <1>4, <2>1, <2>2, <2>3, NoJobTyped, WorkerMoves
<1>7. CASE DrainExpires(w)
  <2> DEFINE j == [job[w] EXCEPT !.late = TRUE]
  <2>1. /\ j \in Job /\ j.drain = job[w].drain
        /\ j.msg = job[w].msg /\ j.part = job[w].part /\ j.attempt = job[w].attempt /\ j.res = job[w].res
    BY <1>1, JobLate
  <2>2. /\ job' = [job EXCEPT ![w] = j] /\ wpc' = [wpc EXCEPT ![w] = wpc[w]]
        /\ wpc[w] \in AtWork /\ Mishap
    BY <1>1, <1>7 DEF DrainExpires, WorkerPcs, AtWork
  <2> HIDE DEF j
  <2>3. mishaps' \in 0..MaxMishaps /\ mishaps <= mishaps' /\ mishaps' > 0
    BY <1>1, <2>2, MishapCounts
  <2>4. wpc[w] \in WorkerPcs /\ wpc[w] \notin {"none", "exited"} /\ wpc[w] # "none"
    BY <1>1, <2>2 DEF AtWork
  <2>5. QED
    BY <1>2, <1>3, <1>4, <2>1, <2>2, <2>3, <2>4, AtWorkFacts, WorkerMoves
<1>8. QED
  BY <1>5, <1>6, <1>7

LEMMA TailShifts ==
    ASSUME NEW q \in Seq(Msgs), q # <<>>
    PROVE  /\ Len(q) \in Nat /\ Len(q) >= 1 /\ Head(q) = q[1] /\ Head(q) \in Msgs
           /\ Tail(q) \in Seq(Msgs) /\ Len(Tail(q)) = Len(q) - 1
           /\ \A i \in 1..Len(Tail(q)) : Tail(q)[i] = q[i + 1] /\ i + 1 \in 1..Len(q)
  OBVIOUS

LEMMA ReceiveKeeps ==
    ASSUME DeliveryInv, NEW w \in Workers, Receive(w)
    PROVE  DeliveryInv'
<1>0. /\ TypeOK /\ queue \in [Workers -> Seq(Msgs)] /\ job[w] \in Job /\ job[w].drain \in BOOLEAN
      /\ queue[w] \in Seq(Msgs) /\ queue[w] # <<>> /\ wpc[w] = "receive"
  BY DEF DeliveryInv, TypeOK, Job, Receive
<1>a. PICK m0 \in Msgs : m0 = Head(queue[w])
  BY <1>0, TailShifts
<1>1. /\ Len(queue[w]) \in Nat /\ Len(queue[w]) >= 1 /\ m0 = queue[w][1] /\ m0 \in Msgs
      /\ Tail(queue[w]) \in Seq(Msgs) /\ Len(Tail(queue[w])) = Len(queue[w]) - 1
      /\ \A i \in 1..Len(Tail(queue[w])) : Tail(queue[w])[i] = queue[w][i + 1] /\ i + 1 \in 1..Len(queue[w])
  BY <1>0, <1>a, TailShifts
<1> DEFINE j == [NoJob EXCEPT !.msg = m0, !.part = 1, !.drain = job[w].drain]
<1>2. j \in Job /\ j.msg = m0 /\ j.part = 1 /\ j.drain = job[w].drain /\ j.late = FALSE
  BY <1>0, NoJobTyped, 1 \in Nat DEF Job
<1>3. job' = [job EXCEPT ![w] = j] /\ wpc' = [wpc EXCEPT ![w] = "limit"] /\ queue' = [queue EXCEPT ![w] = Tail(@)]
  BY <1>a DEF Receive, GoW
<1>4. UNCHANGED <<rows, dpc, target, current, born, closed, cancelled, spc, stopping, circuit, placeholders,
                  panicked, acked, mishaps>>
  BY DEF Receive, dispatchVars, stopVars
<1> HIDE DEF j
<1>5. /\ job' \in [Workers -> Job] /\ wpc' \in [Workers -> WorkerPcs]
      /\ job'[w] = j /\ wpc'[w] = "limit"
      /\ \A v \in Workers \ {w} : job'[v] = job[v] /\ wpc'[v] = wpc[v]
  <2>1. "limit" \in WorkerPcs
    BY DEF WorkerPcs
  <2>2. QED
    BY <1>0, <1>2, <1>3, <2>1, OneWorker
<1>6. /\ queue' \in [Workers -> Seq(Msgs)] /\ queue'[w] = Tail(queue[w])
      /\ \A v \in Workers \ {w} : queue'[v] = queue[v]
  BY <1>0, <1>1, <1>3
<1>7. TypeOK'
  BY <1>0, <1>4, <1>5, <1>6 DEF TypeOK, WorkerPcs
<1>8. BornFirst'
  <2>1. w <= born
    BY <1>0, Consts DEF DeliveryInv, BornFirst, TypeOK, Workers
  <2>2. QED
    BY <1>4, <1>5, <2>1, Consts DEF DeliveryInv, BornFirst, TypeOK, Workers
<1>9. ContextsEnd'
  BY <1>0, <1>2, <1>4, <1>5 DEF DeliveryInv, ContextsEnd
<1>10. /\ InQueue(w, m0)
       /\ \A i \in 1..Len(queue'[w]), k \in 1..Len(queue'[w]) : queue'[w][i] = queue'[w][k] => i = k
       /\ \A m \in Msgs : InQueue(w, m)' => InQueue(w, m) /\ m # m0
       /\ \A m \in Msgs : InQueue(w, m) => InQueue(w, m)' \/ m = m0
  <2>0. \A i, k \in 1..Len(queue[w]) : queue[w][i] = queue[w][k] => i = k
    BY DEF DeliveryInv, Once
  <2>1. InQueue(w, m0)
    BY <1>1 DEF InQueue
  <2>2. \A i \in 1..Len(queue'[w]), k \in 1..Len(queue'[w]) : queue'[w][i] = queue'[w][k] => i = k
    <3> SUFFICES ASSUME NEW i \in 1..Len(queue'[w]), NEW k \in 1..Len(queue'[w]), queue'[w][i] = queue'[w][k]
                 PROVE  i = k
      OBVIOUS
    <3>1. /\ queue[w][i + 1] = queue[w][k + 1]
          /\ i + 1 \in 1..Len(queue[w]) /\ k + 1 \in 1..Len(queue[w])
      BY <1>1, <1>6
    <3>2. QED
      BY <1>1, <1>6, <2>0, <3>1
  <2>3. ASSUME NEW m \in Msgs, InQueue(w, m)'
        PROVE  InQueue(w, m) /\ m # m0
    <3>1. PICK i \in 1..Len(queue'[w]) : queue'[w][i] = m
      BY <2>3 DEF InQueue
    <3>2. queue[w][i + 1] = m /\ i + 1 \in 1..Len(queue[w]) /\ i + 1 # 1 /\ 1 \in 1..Len(queue[w])
      BY <1>1, <1>6, <3>1
    <3>3. QED
      BY <1>1, <2>0, <3>2 DEF InQueue
  <2>4. ASSUME NEW m \in Msgs, InQueue(w, m), m # m0
        PROVE  InQueue(w, m)'
    <3>1. PICK i \in 1..Len(queue[w]) : queue[w][i] = m
      BY <2>4 DEF InQueue
    <3>2. i - 1 \in 1..Len(queue'[w]) /\ queue'[w][i - 1] = m
      BY <1>1, <1>6, <2>4, <3>1
    <3>3. QED
      BY <3>2 DEF InQueue
  <2>5. QED
    BY <2>1, <2>2, <2>3, <2>4
<1>11. /\ \A v \in Workers \ {w}, m \in Msgs : InQueue(v, m)' = InQueue(v, m) /\ InHand(v, m)' = InHand(v, m)
       /\ \A m \in Msgs : InHand(w, m)' => m = m0
       /\ InHand(w, m0)'
       /\ \A m \in Msgs : ~InHand(w, m)
  <2>1. \A v \in Workers \ {w} : queue'[v] = queue[v] /\ wpc'[v] = wpc[v] /\ job'[v] = job[v]
    BY <1>5, <1>6
  <2>2. \A v \in Workers \ {w}, m \in Msgs : InQueue(v, m)' = InQueue(v, m) /\ InHand(v, m)' = InHand(v, m)
    BY <2>1 DEF InQueue, InHand
  <2>3. \A m \in Msgs : ~InHand(w, m) /\ (InHand(w, m)' <=> m = m0)
    BY <1>0, <1>2, <1>5 DEF InHand, AtWork
  <2>4. QED
    BY <1>1, <2>2, <2>3
<1>12. Once'
  <2>0. Once
    BY DEF DeliveryInv
  <2>1. \A v \in Workers : \A i, k \in 1..Len(queue'[v]) : queue'[v][i] = queue'[v][k] => i = k
    <3>1. \A v \in Workers \ {w} : queue'[v] = queue[v]
      BY <1>6
    <3>2. QED
      BY <1>10, <2>0, <3>1 DEF Once
  <2>2. \A v, u \in Workers, m \in Msgs : InQueue(v, m)' => InQueue(v, m)
    BY <1>10, <1>11
  <2>3. ASSUME NEW v \in Workers, NEW u \in Workers, NEW m \in Msgs, InQueue(v, m)', InHand(u, m)'
        PROVE  FALSE
    <3>1. InQueue(v, m)
      BY <2>2, <2>3
    <3>2. CASE u = w
      BY <1>10, <1>11, <2>0, <2>3, <3>1, <3>2 DEF Once
    <3>3. CASE u # w
      BY <1>11, <2>0, <2>3, <3>1, <3>3 DEF Once
    <3>4. QED
      BY <3>2, <3>3
  <2>4. ASSUME NEW v \in Workers, NEW u \in Workers, NEW m \in Msgs, InHand(v, m)', InHand(u, m)'
        PROVE  v = u
    BY <1>1, <1>10, <1>11, <2>0, <2>4 DEF Once
  <2>5. ASSUME NEW v \in Workers, NEW m \in Msgs, InQueue(v, m)' \/ InHand(v, m)'
        PROVE  dpc'[m] = "done"
    BY <1>1, <1>4, <1>10, <1>11, <2>0, <2>2, <2>5 DEF Once
  <2>6. ASSUME NEW v \in Workers, NEW u \in Workers, NEW m \in Msgs, InQueue(v, m)', InQueue(u, m)'
        PROVE  v = u
    BY <2>0, <2>2, <2>6 DEF Once
  <2>7. QED
    BY <2>1, <2>3, <2>4, <2>5, <2>6 DEF Once
<1>13. Chunkwise'
  <2>1. acked[m0] = {}
    BY <1>1, <1>10 DEF DeliveryInv, Chunkwise
  <2>2. \A m \in Msgs : acked'[m] # {} => dpc'[m] = "done" /\ \A v \in Workers : ~InQueue(v, m)'
    BY <1>4, <1>10, <1>11 DEF DeliveryInv, Chunkwise
  <2>3. ASSUME NEW v \in Workers, wpc'[v] \in AtWork
        PROVE  /\ job'[v].part \in 1..Parts[job'[v].msg]
               /\ \A x \in acked'[job'[v].msg] : x <= job'[v].part
               /\ job'[v].part \in acked'[job'[v].msg] <=> wpc'[v] = "record" /\ job'[v].res \in Delivered
               /\ wpc'[v] = "backoff" => job'[v].attempt < MaxRetries
    <3>1. CASE v = w
      <4>1. Parts[m0] \in Nat /\ Parts[m0] >= 1
        BY <1>1, Consts
      <4>2. QED
        BY <1>2, <1>4, <1>5, <2>1, <3>1, <4>1
    <3>2. CASE v # w
      BY <1>4, <1>5, <2>3, <3>2 DEF DeliveryInv, Chunkwise
    <3>3. QED
      BY <3>1, <3>2
  <2>4. QED
    BY <2>2, <2>3 DEF Chunkwise
<1>14. SentWasAcknowledged'
  BY <1>4 DEF DeliveryInv, SentWasAcknowledged
<1>15. QueuedIsHeld'
  <2> SUFFICES ASSUME NEW m \in Msgs, rows'[m] = "queued", dpc'[m] = "done", ~(mishaps' > 0)
               PROVE  Held(m)'
    BY DEF QueuedIsHeld
  <2>1. PICK v \in Workers : InQueue(v, m) \/ InHand(v, m)
    BY <1>0, <1>4, HeldPlaces DEF DeliveryInv, QueuedIsHeld
  <2>2. \E u \in Workers : InQueue(u, m)' \/ InHand(u, m)'
    <3>1. CASE v = w
      BY <1>10, <1>11, <2>1, <3>1
    <3>2. CASE v # w
      BY <1>11, <2>1, <3>2
    <3>3. QED
      BY <3>1, <3>2
  <2>3. QED
    BY <1>7, <2>2, HeldPlacesNext
<1>16. QED
  BY <1>7, <1>8, <1>9, <1>12, <1>13, <1>14, <1>15 DEF DeliveryInv

-----------------------------------------------------------------------------
(* Dispatchers                                                             *)

\* A dispatch that is not over holds its message: it may go on, or end in the row.
LEMMA DispatchMoves ==
    ASSUME DeliveryInv, NEW m \in Msgs, dpc[m] # "done",
           NEW s \in DispatchPcs, dpc' = [dpc EXCEPT ![m] = s],
           NEW t \in 0..MaxWorkers, target' = [target EXCEPT ![m] = t], t <= born, s = "enqueue" => t # 0,
           rows' = rows \/ (\E r \in {"queued", "failed"} : rows' = [rows EXCEPT ![m] = r]),
           s = "done" => rows'[m] # "queued" \/ mishaps' > 0,
           UNCHANGED <<current, born, workerVars, stopVars, placeholders, panicked, acked>>,
           mishaps' \in 0..MaxMishaps, mishaps <= mishaps', circuit' \in Circuit
    PROVE  DeliveryInv'
<1>0. /\ TypeOK /\ mishaps \in Nat /\ mishaps' \in Nat
      /\ UNCHANGED <<queue, closed, cancelled, wpc, job, spc, stopping>>
  BY Consts DEF DeliveryInv, TypeOK, workerVars, stopVars
<1>1. /\ dpc' \in [Msgs -> DispatchPcs] /\ dpc'[m] = s /\ \A x \in Msgs \ {m} : dpc'[x] = dpc[x]
      /\ target' \in [Msgs -> 0..MaxWorkers] /\ target'[m] = t /\ \A x \in Msgs \ {m} : target'[x] = target[x]
  BY <1>0 DEF TypeOK, DispatchPcs
<1>2. /\ rows' \in [Msgs -> Rows] /\ \A x \in Msgs \ {m} : rows'[x] = rows[x]
      /\ rows'[m] = rows[m] \/ rows'[m] # "sent"
  BY <1>0 DEF TypeOK, Rows
<1>3. TypeOK'
  BY <1>0, <1>1, <1>2 DEF TypeOK, DispatchPcs, Rows
<1>4. BornFirst'
  BY <1>0, <1>1 DEF DeliveryInv, BornFirst
<1>5. ContextsEnd'
  BY <1>0 DEF DeliveryInv, ContextsEnd
<1>6. /\ \A v \in Workers, x \in Msgs : InQueue(v, x)' = InQueue(v, x) /\ InHand(v, x)' = InHand(v, x)
      /\ \A v \in Workers : ~InQueue(v, m) /\ ~InHand(v, m)
      /\ acked[m] = {}
  BY <1>0 DEF DeliveryInv, Once, Chunkwise, InQueue, InHand
<1>7. Once'
  BY <1>0, <1>1, <1>6 DEF DeliveryInv, Once
<1>8. Chunkwise'
  BY <1>0, <1>1, <1>6 DEF DeliveryInv, Chunkwise
<1>9. SentWasAcknowledged'
  BY <1>2 DEF DeliveryInv, SentWasAcknowledged
<1>10. QueuedIsHeld'
  <2> SUFFICES ASSUME NEW x \in Msgs, rows'[x] = "queued", dpc'[x] = "done", ~(mishaps' > 0)
               PROVE  Held(x)'
    BY DEF QueuedIsHeld
  <2>1. x # m /\ rows[x] = "queued" /\ dpc[x] = "done" /\ ~(mishaps > 0)
    BY <1>0, <1>1, <1>2
  <2>2. PICK v \in Workers : InQueue(v, x) \/ InHand(v, x)
    BY <1>0, <2>1, HeldPlaces DEF DeliveryInv, QueuedIsHeld
  <2>3. QED
    BY <1>3, <1>6, <2>2, HeldPlacesNext
<1>11. QED
  BY <1>3, <1>4, <1>5, <1>7, <1>8, <1>9, <1>10 DEF DeliveryInv

\* A dispatch looks up a worker that was made.
LEMMA LookupKnows ==
    ASSUME DeliveryInv, NEW m \in Msgs, Lookup(m)
    PROVE  \E s \in DispatchPcs, t \in 0..MaxWorkers :
             /\ dpc' = [dpc EXCEPT ![m] = s] /\ target' = [target EXCEPT ![m] = t]
             /\ t <= born /\ (s = "enqueue" => t # 0) /\ s # "done"
  BY DEF Lookup, GoD, DispatchPcs, DeliveryInv, TypeOK, BornFirst

LEMMA DeliverKeeps ==
    ASSUME DeliveryInv, NEW m \in Msgs, Deliver(m)
    PROVE  DeliveryInv'
<1>1. /\ dpc[m] # "done" /\ rows' = [rows EXCEPT ![m] = "queued"] /\ mishaps' = mishaps /\ circuit' = circuit
      /\ UNCHANGED <<current, born, workerVars, stopVars, placeholders, panicked, acked>>
  BY DEF Deliver
<1>2. /\ mishaps' \in 0..MaxMishaps /\ mishaps <= mishaps' /\ circuit' \in Circuit
      /\ target \in [Msgs -> 0..MaxWorkers] /\ target[m] <= born
  BY <1>1, Consts DEF DeliveryInv, TypeOK, BornFirst
<1>3. CASE Lookup(m)
  BY <1>1, <1>2, <1>3, LookupKnows, DispatchMoves
<1>4. ASSUME NEW s \in {"probe", "refused"}, GoD(m, s), target' = target
      PROVE  DeliveryInv'
  <2>1. s \in DispatchPcs /\ s # "enqueue" /\ s # "done"
    BY DEF DispatchPcs
  <2>2. dpc' = [dpc EXCEPT ![m] = s] /\ target' = [target EXCEPT ![m] = target[m]] /\ target[m] \in 0..MaxWorkers
    BY <1>2, <1>4 DEF GoD
  <2>3. QED
    BY <1>1, <1>2, <2>1, <2>2, DispatchMoves
<1>5. QED
  BY <1>3, <1>4 DEF Deliver

LEMMA ProbeKeeps ==
    ASSUME DeliveryInv, NEW m \in Msgs, Probe(m)
    PROVE  DeliveryInv'
<1>1. /\ dpc[m] # "done" /\ rows' = rows /\ mishaps' = mishaps /\ Lookup(m)
      /\ UNCHANGED <<current, born, workerVars, stopVars, placeholders, panicked, acked>>
  BY DEF Probe
<1>2. circuit' \in Circuit
  BY DEF Probe, DeliveryInv, TypeOK, Circuit
<1>3. mishaps' \in 0..MaxMishaps /\ mishaps <= mishaps'
  BY <1>1, Consts DEF DeliveryInv, TypeOK
<1>4. QED
  BY <1>1, <1>2, <1>3, LookupKnows, DispatchMoves

LEMMA RefuseKeeps ==
    ASSUME DeliveryInv, NEW m \in Msgs, Refuse(m)
    PROVE  DeliveryInv'
<1>1. /\ dpc[m] # "done" /\ circuit' = circuit /\ dpc' = [dpc EXCEPT ![m] = "done"]
      /\ UNCHANGED <<current, born, workerVars, stopVars, placeholders, panicked, acked>>
  BY DEF Refuse, GoD
<1>2. /\ mishaps \in 0..MaxMishaps /\ mishaps \in Nat /\ circuit' \in Circuit
      /\ target' = [target EXCEPT ![m] = target[m]] /\ target[m] \in 0..MaxWorkers /\ target[m] <= born
      /\ rows \in [Msgs -> Rows] /\ "done" \in DispatchPcs
  BY <1>1, Consts DEF DeliveryInv, TypeOK, BornFirst, Refuse, Rows, DispatchPcs
<1>3. /\ mishaps' \in 0..MaxMishaps /\ mishaps <= mishaps'
      /\ rows' = rows \/ (\E r \in {"queued", "failed"} : rows' = [rows EXCEPT ![m] = r])
      /\ rows'[m] # "queued" \/ mishaps' > 0
  <2>1. CASE rows' = [rows EXCEPT ![m] = "failed"] /\ mishaps' = mishaps
    BY <1>2, <2>1
  <2>2. CASE Mishap /\ rows' = rows
    BY <2>2, MishapCounts DEF DeliveryInv
  <2>3. QED
    BY <2>1, <2>2 DEF Refuse
<1>4. QED
  BY <1>1, <1>2, <1>3, DispatchMoves

\* What the manager does leaves messages where they are; a context it cancels is that of a
\* worker whose loop has ended, unless the wait for it expired.
LEMMA ManagerMoves ==
    ASSUME DeliveryInv, UNCHANGED <<rows, dispatchVars, born, queue, wpc, job, acked>>,
           current' \in 0..MaxWorkers, current' <= born,
           spc' \in [Stoppers -> StopPcs], stopping' \in [Stoppers -> 0..MaxWorkers],
           \A k \in Stoppers : stopping'[k] <= born /\ (spc'[k] \in {"close", "wait"} => stopping'[k] # 0),
           closed' \in [Workers -> BOOLEAN], cancelled' \in [Workers -> BOOLEAN],
           \A w \in Workers : /\ cancelled[w] => cancelled'[w]
                              /\ cancelled'[w] => cancelled[w] \/ wpc[w] = "exited" \/ mishaps' > 0,
           mishaps' \in 0..MaxMishaps, mishaps <= mishaps',
           circuit' \in Circuit, placeholders' \in BOOLEAN, panicked' \in BOOLEAN
    PROVE  DeliveryInv'
<1>0. /\ TypeOK /\ mishaps \in Nat /\ mishaps' \in Nat
      /\ UNCHANGED <<rows, dpc, target, born, queue, wpc, job, acked>>
  BY Consts DEF DeliveryInv, TypeOK, dispatchVars
<1>1. TypeOK'
  BY <1>0 DEF TypeOK, StopPcs
<1>2. BornFirst'
  BY <1>0 DEF DeliveryInv, BornFirst
<1>3. ContextsEnd'
  BY <1>0 DEF DeliveryInv, ContextsEnd
<1>4. \A v \in Workers, x \in Msgs : InQueue(v, x)' = InQueue(v, x) /\ InHand(v, x)' = InHand(v, x)
  BY <1>0 DEF InQueue, InHand
<1>5. Once'
  BY <1>0, <1>4 DEF DeliveryInv, Once
<1>6. Chunkwise'
  BY <1>0, <1>4 DEF DeliveryInv, Chunkwise
<1>7. SentWasAcknowledged'
  BY <1>0 DEF DeliveryInv, SentWasAcknowledged
<1>8. QueuedIsHeld'
  BY <1>0, <1>1, <1>4, HeldPlaces, HeldPlacesNext DEF DeliveryInv, QueuedIsHeld
<1>9. QED
  BY <1>1, <1>2, <1>3, <1>5, <1>6, <1>7, <1>8 DEF DeliveryInv

\* What the lemma above needs of a state.
LEMMA ManagerFacts ==
    ASSUME DeliveryInv
    PROVE  /\ current \in 0..MaxWorkers /\ current <= born
           /\ spc \in [Stoppers -> StopPcs] /\ stopping \in [Stoppers -> 0..MaxWorkers]
           /\ \A k \in Stoppers : stopping[k] <= born /\ (spc[k] \in {"close", "wait"} => stopping[k] # 0)
           /\ closed \in [Workers -> BOOLEAN] /\ cancelled \in [Workers -> BOOLEAN]
           /\ mishaps \in 0..MaxMishaps /\ mishaps <= mishaps /\ born \in 0..MaxWorkers /\ 0 <= born
           /\ circuit \in Circuit /\ placeholders \in BOOLEAN /\ panicked \in BOOLEAN
  BY Consts DEF DeliveryInv, TypeOK, BornFirst, StopPcs

LEMMA EnqueueKeeps ==
    ASSUME DeliveryInv, NEW m \in Msgs, Enqueue(m)
    PROVE  DeliveryInv'
<1>0. /\ dpc[m] = "enqueue" /\ TypeOK
      /\ UNCHANGED <<rows, current, born, closed, cancelled, wpc, job, stopVars, circuit, placeholders, acked>>
  BY DEF Enqueue, DeliveryInv
<1>1. PICK w \in Workers : w = target[m]
  BY <1>0, Consts DEF DeliveryInv, TypeOK, BornFirst, Workers
<1>2. /\ mishaps \in 0..MaxMishaps /\ mishaps <= mishaps /\ circuit' \in Circuit /\ rows' = rows
      /\ 0 \in 0..MaxWorkers /\ 0 <= born /\ "done" \in DispatchPcs /\ "refused" \in DispatchPcs
  BY <1>0, Consts DEF TypeOK, DispatchPcs
<1>3. CASE Panic /\ UNCHANGED <<dispatchVars, queue, mishaps>>
  BY <1>0, <1>3, ManagerFacts, ManagerMoves DEF Panic, stopVars
<1>4. CASE /\ GoD(m, "refused") /\ target' = [target EXCEPT ![m] = 0]
           /\ UNCHANGED <<queue, panicked, mishaps>>
  <2>1. /\ dpc' = [dpc EXCEPT ![m] = "refused"] /\ mishaps' = mishaps
        /\ UNCHANGED <<current, born, workerVars, stopVars, placeholders, panicked, acked>>
    BY <1>0, <1>4 DEF GoD, workerVars
  <2>2. QED
    BY <1>0, <1>2, <1>4, <2>1, DispatchMoves
<1>5. CASE /\ Mishap /\ GoD(m, "done") /\ target' = [target EXCEPT ![m] = 0]
           /\ UNCHANGED <<queue, panicked>>
  <2>1. /\ dpc' = [dpc EXCEPT ![m] = "done"]
        /\ UNCHANGED <<current, born, workerVars, stopVars, placeholders, panicked, acked>>
    BY <1>0, <1>5 DEF GoD, workerVars
  <2>2. mishaps' \in 0..MaxMishaps /\ mishaps <= mishaps' /\ mishaps' > 0
    BY <1>0, <1>5, MishapCounts
  <2>3. QED
    BY <1>0, <1>2, <1>5, <2>1, <2>2, DispatchMoves
<1>6. CASE /\ queue' = [queue EXCEPT ![w] = Append(@, m)]
           /\ GoD(m, "done") /\ target' = [target EXCEPT ![m] = 0]
           /\ UNCHANGED <<panicked, mishaps>>
  <2>0. UNCHANGED <<rows, current, born, closed, cancelled, wpc, job, spc, stopping, circuit, placeholders,
                    acked, panicked, mishaps>>
    BY <1>0, <1>6 DEF stopVars
  <2>1. /\ queue' \in [Workers -> Seq(Msgs)] /\ Len(queue[w]) \in Nat
        /\ Len(queue'[w]) = Len(queue[w]) + 1 /\ queue'[w][Len(queue[w]) + 1] = m
        /\ \A i \in 1..Len(queue[w]) : queue'[w][i] = queue[w][i]
        /\ \A v \in Workers \ {w} : queue'[v] = queue[v]
    <3>1. queue \in [Workers -> Seq(Msgs)] /\ queue[w] \in Seq(Msgs)
      BY <1>0 DEF TypeOK
    <3>2. queue'[w] = Append(queue[w], m) /\ \A v \in Workers \ {w} : queue'[v] = queue[v]
      BY <1>6, <3>1
    <3>3. QED
      BY <1>6, <3>1, <3>2
  <2>2. /\ dpc' \in [Msgs -> DispatchPcs] /\ dpc'[m] = "done" /\ \A x \in Msgs \ {m} : dpc'[x] = dpc[x]
        /\ target' \in [Msgs -> 0..MaxWorkers] /\ target'[m] = 0 /\ \A x \in Msgs \ {m} : target'[x] = target[x]
    BY <1>0, <1>2, <1>6 DEF TypeOK, DispatchPcs, GoD
  <2>3. TypeOK'
    BY <1>0, <2>0, <2>1, <2>2 DEF TypeOK, DispatchPcs
  <2>4. BornFirst'
    BY <1>2, <2>0, <2>2 DEF DeliveryInv, BornFirst
  <2>5. ContextsEnd'
    BY <2>0 DEF DeliveryInv, ContextsEnd
  <2>6. \A v \in Workers : ~InQueue(v, m) /\ ~InHand(v, m)
    BY <1>0 DEF DeliveryInv, Once
  <2>7. acked[m] = {}
    BY <1>0 DEF DeliveryInv, Chunkwise
  <2>8. /\ \A v \in Workers, x \in Msgs : InHand(v, x)' = InHand(v, x)
        /\ \A v \in Workers, x \in Msgs : InQueue(v, x) => InQueue(v, x)'
        /\ \A v \in Workers, x \in Msgs : InQueue(v, x)' => InQueue(v, x) \/ (v = w /\ x = m)
        /\ InQueue(w, m)'
    <3>1. \A v \in Workers, x \in Msgs : InHand(v, x)' = InHand(v, x)
      BY <2>0 DEF InHand
    <3>2. \A v \in Workers \ {w}, x \in Msgs : InQueue(v, x)' = InQueue(v, x)
      BY <2>1 DEF InQueue
    <3>3. InQueue(w, m)'
      BY <2>1 DEF InQueue
    <3>4. \A x \in Msgs : InQueue(w, x) => InQueue(w, x)'
      BY <2>1 DEF InQueue
    <3>5. \A x \in Msgs : InQueue(w, x)' => InQueue(w, x) \/ x = m
      BY <2>1 DEF InQueue
    <3>6. QED
      BY <3>1, <3>2, <3>3, <3>4, <3>5
  <2>9. Once'
    <3>0. Once
      BY DEF DeliveryInv
    <3>1. ASSUME NEW v \in Workers, NEW i \in 1..Len(queue'[v]), NEW k \in 1..Len(queue'[v]),
                 queue'[v][i] = queue'[v][k]
          PROVE  i = k
      <4>1. CASE v # w
        BY <2>1, <3>0, <3>1, <4>1 DEF Once
      <4>2. CASE v = w
        <5>1. \A n \in 1..Len(queue[w]) : queue[w][n] # m
          BY <2>6 DEF InQueue
        <5>2. i \in 1..Len(queue[w]) \/ i = Len(queue[w]) + 1
          BY <2>1, <4>2
        <5>3. k \in 1..Len(queue[w]) \/ k = Len(queue[w]) + 1
          BY <2>1, <4>2
        <5>4. QED
          BY <2>1, <3>0, <3>1, <4>2, <5>1, <5>2, <5>3 DEF Once
      <4>3. QED
        BY <4>1, <4>2
    <3>2. \A v, u \in Workers, x \in Msgs : InQueue(v, x)' => ~InHand(u, x)'
      BY <2>6, <2>8, <3>0 DEF Once
    <3>3. \A v, u \in Workers, x \in Msgs : InQueue(v, x)' /\ InQueue(u, x)' => v = u
      BY <2>6, <2>8, <3>0 DEF Once
    <3>4. \A v, u \in Workers, x \in Msgs : InHand(v, x)' /\ InHand(u, x)' => v = u
      BY <2>8, <3>0 DEF Once
    <3>5. \A v \in Workers, x \in Msgs : InQueue(v, x)' \/ InHand(v, x)' => dpc'[x] = "done"
      BY <2>2, <2>8, <3>0 DEF Once
    <3>6. QED
      BY <3>1, <3>2, <3>3, <3>4, <3>5 DEF Once
  <2>10. Chunkwise'
    <3>1. \A x \in Msgs : acked'[x] # {} => dpc'[x] = "done" /\ \A v \in Workers : ~InQueue(v, x)'
      BY <2>0, <2>2, <2>7, <2>8 DEF DeliveryInv, Chunkwise
    <3>2. QED
      BY <2>0, <3>1 DEF DeliveryInv, Chunkwise
  <2>11. SentWasAcknowledged'
    BY <2>0 DEF DeliveryInv, SentWasAcknowledged
  <2>12. QueuedIsHeld'
    <3> SUFFICES ASSUME NEW x \in Msgs, rows'[x] = "queued", dpc'[x] = "done", ~(mishaps' > 0)
                 PROVE  Held(x)'
      BY DEF QueuedIsHeld
    <3>1. CASE x = m
      BY <2>3, <2>8, <3>1, HeldPlacesNext
    <3>2. CASE x # m
      <4>1. PICK v \in Workers : InQueue(v, x) \/ InHand(v, x)
        BY <1>0, <2>0, <2>2, <3>2, HeldPlaces DEF DeliveryInv, QueuedIsHeld
      <4>2. QED
        BY <2>3, <2>8, <4>1, HeldPlacesNext
    <3>3. QED
      BY <3>1, <3>2
  <2>13. QED
    BY <2>3, <2>4, <2>5, <2>9, <2>10, <2>11, <2>12 DEF DeliveryInv
<1>7. QED
  BY <1>1, <1>3, <1>4, <1>5, <1>6 DEF Enqueue

-----------------------------------------------------------------------------
(* The manager                                                             *)

LEMMA StartOneKeeps ==
    ASSUME DeliveryInv, StartOne
    PROVE  DeliveryInv'
<1>0. /\ TypeOK /\ born \in 0..MaxWorkers /\ born < MaxWorkers /\ MaxWorkers \in Nat
      /\ born' = born + 1 /\ current' = born + 1 /\ wpc' = [wpc EXCEPT ![born + 1] = "receive"]
      /\ UNCHANGED <<rows, dpc, target, queue, closed, cancelled, job, spc, stopping, circuit, placeholders,
                     panicked, acked, mishaps>>
  BY Consts DEF StartOne, GoW, DeliveryInv, TypeOK, dispatchVars, stopVars
<1>1. PICK w \in Workers : w = born + 1
  BY <1>0 DEF Workers
<1>2. /\ wpc' \in [Workers -> WorkerPcs] /\ wpc[w] = "none" /\ wpc'[w] = "receive"
      /\ \A v \in Workers \ {w} : wpc'[v] = wpc[v]
  BY <1>0, <1>1 DEF DeliveryInv, BornFirst, TypeOK, WorkerPcs
<1>3. TypeOK'
  BY <1>0, <1>2 DEF TypeOK, WorkerPcs
<1>4. BornFirst'
  <2>1. \A v \in Workers : v > born' => wpc'[v] = "none"
    BY <1>0, <1>1, <1>2 DEF DeliveryInv, BornFirst, Workers
  <2>2. /\ \A m \in Msgs : target'[m] <= born' /\ (dpc'[m] = "enqueue" => target'[m] # 0)
        /\ \A k \in Stoppers : stopping'[k] <= born' /\ (spc'[k] \in {"close", "wait"} => stopping'[k] # 0)
    BY <1>0 DEF DeliveryInv, BornFirst, TypeOK
  <2>3. QED
    BY <1>0, <2>1, <2>2 DEF BornFirst
<1>5. ContextsEnd'
  BY <1>0, <1>2 DEF DeliveryInv, ContextsEnd
<1>6. \A v \in Workers, x \in Msgs : InQueue(v, x)' = InQueue(v, x) /\ InHand(v, x)' = InHand(v, x)
  BY <1>0, <1>2 DEF InQueue, InHand, AtWork
<1>7. Once'
  BY <1>0, <1>6 DEF DeliveryInv, Once
<1>8. Chunkwise'
  BY <1>0, <1>2, <1>6 DEF DeliveryInv, Chunkwise, AtWork
<1>9. SentWasAcknowledged'
  BY <1>0 DEF DeliveryInv, SentWasAcknowledged
<1>10. QueuedIsHeld'
  BY <1>0, <1>3, <1>6, HeldPlaces, HeldPlacesNext DEF DeliveryInv, QueuedIsHeld
<1>11. QED
  BY <1>3, <1>4, <1>5, <1>7, <1>8, <1>9, <1>10 DEF DeliveryInv

LEMMA StopKeeps ==
    ASSUME DeliveryInv, NEW k \in Stoppers, StopBegin(k) \/ StopClose(k) \/ StopWait(k)
    PROVE  DeliveryInv'
<1>0. /\ UNCHANGED <<rows, dispatchVars, born, queue, wpc, job, acked>>
      /\ circuit' = circuit /\ placeholders' = placeholders
  BY DEF StopBegin, StopClose, StopWait, workerVars
<1>1. circuit' \in Circuit /\ placeholders' \in BOOLEAN /\ 0 \in 0..MaxWorkers
  BY <1>0, ManagerFacts, Consts
<1>2. CASE StopBegin(k)
  <2>1. /\ current # 0 /\ stopping' = [stopping EXCEPT ![k] = current]
        /\ spc' = [spc EXCEPT ![k] = "close"] /\ current' \in {0, current}
        /\ closed' = closed /\ cancelled' = cancelled /\ mishaps' = mishaps /\ panicked' = panicked
    BY <1>2 DEF StopBegin, GoS, workerVars
  <2>2. /\ spc' \in [Stoppers -> StopPcs] /\ stopping' \in [Stoppers -> 0..MaxWorkers]
        /\ \A x \in Stoppers : stopping'[x] <= born /\ (spc'[x] \in {"close", "wait"} => stopping'[x] # 0)
    BY <2>1, ManagerFacts DEF StopPcs
  <2>3. QED
    BY <1>0, <1>1, <2>1, <2>2, ManagerFacts, ManagerMoves
<1>3. CASE StopClose(k)
  <2>1. /\ current' = current /\ stopping' = stopping /\ cancelled' = cancelled /\ mishaps' = mishaps
        /\ spc[k] = "close" /\ panicked' \in BOOLEAN
        /\ (closed' = closed /\ spc' = spc) \/ (closed' = [closed EXCEPT ![stopping[k]] = TRUE] /\ spc' = [spc EXCEPT ![k] = "wait"])
    BY <1>3, ManagerFacts DEF StopClose, GoS, Panic
  <2>2. closed' \in [Workers -> BOOLEAN] /\ spc' \in [Stoppers -> StopPcs]
    BY <2>1, ManagerFacts DEF StopPcs
  <2>3. \A x \in Stoppers : spc'[x] \in {"close", "wait"} => spc[x] \in {"close", "wait"}
    BY <2>1, ManagerFacts
  <2>4. QED
    BY <1>0, <1>1, <2>1, <2>2, <2>3, ManagerFacts, ManagerMoves
<1>4. CASE StopWait(k)
  <2>1. /\ spc[k] = "wait" /\ ((wpc[stopping[k]] = "exited" /\ mishaps' = mishaps) \/ Mishap)
        /\ cancelled' = [cancelled EXCEPT ![stopping[k]] = TRUE] /\ current' \in {0, current}
        /\ stopping' = [stopping EXCEPT ![k] = 0]
        /\ spc' = [spc EXCEPT ![k] = IF k = "all" THEN "stopped" ELSE "idle"]
        /\ closed' = closed /\ panicked' = panicked
    BY <1>4 DEF StopWait, StopCancel, GoS
  <2>2. PICK w \in Workers : w = stopping[k]
    BY <2>1, ManagerFacts, Consts DEF Workers
  <2>3. /\ mishaps' \in 0..MaxMishaps /\ mishaps <= mishaps'
        /\ wpc[w] = "exited" \/ mishaps' > 0
    BY <2>1, <2>2, ManagerFacts, MishapCounts DEF DeliveryInv
  <2>4. /\ cancelled' \in [Workers -> BOOLEAN] /\ cancelled'[w] = TRUE
        /\ \A v \in Workers \ {w} : cancelled'[v] = cancelled[v]
    BY <2>1, <2>2, ManagerFacts
  <2>5. /\ spc' \in [Stoppers -> StopPcs] /\ stopping' \in [Stoppers -> 0..MaxWorkers]
        /\ \A x \in Stoppers : stopping'[x] <= born /\ (spc'[x] \in {"close", "wait"} => stopping'[x] # 0)
    BY <1>1, <2>1, ManagerFacts DEF StopPcs
  <2>6. \A v \in Workers : /\ cancelled[v] => cancelled'[v]
                           /\ cancelled'[v] => cancelled[v] \/ wpc[v] = "exited" \/ mishaps' > 0
    BY <2>3, <2>4
  <2>7. current' \in 0..MaxWorkers /\ current' <= born /\ closed' \in [Workers -> BOOLEAN] /\ panicked' \in BOOLEAN
    BY <1>1, <2>1, ManagerFacts
  <2>8. QED
    BY <1>0, <1>1, <2>3, <2>4, <2>5, <2>6, <2>7, ManagerMoves
<1>5. QED
  BY <1>2, <1>3, <1>4

LEMMA TimeKeeps ==
    ASSUME DeliveryInv, OnInbound \/ Janitor \/ Cooldown
    PROVE  DeliveryInv'
<1>1. /\ UNCHANGED <<rows, dispatchVars, born, queue, wpc, job, acked>>
      /\ UNCHANGED <<current, spc, stopping, closed, cancelled, mishaps, panicked>>
      /\ placeholders' \in BOOLEAN
      /\ circuit' = circuit \/ circuit' = [circuit EXCEPT !.cooled = TRUE]
  BY ManagerFacts DEF OnInbound, Janitor, Cooldown, workerVars, stopVars
<1>2. circuit' \in Circuit
  BY <1>1, ManagerFacts DEF Circuit
<1>3. QED
  BY <1>1, <1>2, ManagerFacts, ManagerMoves

-----------------------------------------------------------------------------
(* Theorems                                                                *)

LEMMA DeliveryInit == Init => DeliveryInv
<1> SUFFICES ASSUME Init PROVE DeliveryInv
  OBVIOUS
<1>1. TypeOK
  <2>1. job \in [Workers -> Job]
    BY NoJobTyped DEF Init
  <2>2. circuit \in Circuit
    BY Consts DEF Init, Circuit
  <2>3. /\ acked \in [Msgs -> SUBSET Nat] /\ \A m \in Msgs : acked[m] \subseteq 1..Parts[m]
        /\ queue \in [Workers -> Seq(Msgs)]
    BY DEF Init
  <2>4. rows \in [Msgs -> Rows] /\ dpc \in [Msgs -> DispatchPcs] /\ wpc \in [Workers -> WorkerPcs]
    BY DEF Init, Rows, DispatchPcs, WorkerPcs
  <2>5. spc \in [Stoppers -> StopPcs]
    BY DEF Init, StopPcs
  <2>6. /\ target \in [Msgs -> 0..MaxWorkers] /\ stopping \in [Stoppers -> 0..MaxWorkers]
        /\ current \in 0..MaxWorkers /\ born \in 0..MaxWorkers /\ mishaps \in 0..MaxMishaps
    BY Consts DEF Init
  <2>7. /\ closed \in [Workers -> BOOLEAN] /\ cancelled \in [Workers -> BOOLEAN]
        /\ placeholders \in BOOLEAN /\ panicked \in BOOLEAN
    BY DEF Init
  <2>8. QED
    BY <2>1, <2>2, <2>3, <2>4, <2>5, <2>6, <2>7 DEF TypeOK, Rows, DispatchPcs, WorkerPcs, StopPcs
<1>2. BornFirst
  BY Consts DEF Init, BornFirst
<1>3. ContextsEnd
  BY NoJobTyped DEF Init, ContextsEnd
<1>4. \A w \in Workers, m \in Msgs : ~InQueue(w, m) /\ ~InHand(w, m)
  BY DEF Init, InQueue, InHand, AtWork
<1>5. Once
  BY <1>4 DEF Once, Init
<1>6. Chunkwise
  BY <1>4 DEF Chunkwise, Init, AtWork
<1>7. SentWasAcknowledged /\ QueuedIsHeld
  BY DEF Init, SentWasAcknowledged, QueuedIsHeld
<1>8. QED
  BY <1>1, <1>2, <1>3, <1>5, <1>6, <1>7 DEF DeliveryInv

LEMMA DeliveryNext == DeliveryInv /\ [Next]_vars => DeliveryInv'
<1> SUFFICES ASSUME DeliveryInv, [Next]_vars PROVE DeliveryInv'
  OBVIOUS
<1>1. ASSUME NEW m \in Msgs, Deliver(m) \/ Dispatcher(m)
      PROVE  DeliveryInv'
  BY <1>1, DeliverKeeps, ProbeKeeps, EnqueueKeeps, RefuseKeeps DEF Dispatcher
<1>2. ASSUME NEW w \in Workers, Worker(w) \/ DrainExpires(w)
      PROVE  DeliveryInv'
  BY <1>2, ReceiveKeeps, LoopKeeps, PreSendKeeps, RecordKeeps, BackoffKeeps DEF Worker
<1>3. ASSUME NEW k \in Stoppers, StopBegin(k) \/ Stopper(k)
      PROVE  DeliveryInv'
  BY <1>3, StopKeeps DEF Stopper
<1>4. CASE StartOne \/ OnInbound \/ Janitor \/ Cooldown
  BY <1>4, StartOneKeeps, TimeKeeps
<1>5. CASE UNCHANGED vars
  <2>1. /\ UNCHANGED <<rows, dispatchVars, born, queue, wpc, job, acked>>
        /\ UNCHANGED <<current, spc, stopping, closed, cancelled, mishaps, panicked, circuit, placeholders>>
    BY <1>5 DEF vars, workerVars, stopVars
  <2>2. QED
    BY <2>1, ManagerFacts, ManagerMoves
<1>6. QED
  BY <1>1, <1>2, <1>3, <1>4, <1>5 DEF Next

LEMMA DeliveryInvariant == Spec => []DeliveryInv
  BY DeliveryInit, DeliveryNext, PTL DEF Spec

\* Every variable keeps its type: also the index of a worker that was looked up, the chunk
\* counters and the circuit's failure count, for every size of the system.
THEOREM DeliveryTypes == Spec => []TypeOK
<1>1. DeliveryInv => TypeOK
  BY DEF DeliveryInv
<1>2. QED
  BY <1>1, DeliveryInvariant, PTL

\* A delivery shown as sent was acknowledged by the platform: the worker that writes "sent"
\* (recordDeliveryAttempt) has the acknowledgement of the chunk at hand, whatever retries,
\* edits, stops and lost answers came before.
THEOREM SentIsAcknowledged == Spec => []SentWasAcknowledged
<1>1. DeliveryInv => SentWasAcknowledged
  BY DEF DeliveryInv
<1>2. QED
  BY <1>1, DeliveryInvariant, PTL

\* A chunk the platform acknowledged is not sent again by sendWithRetry, also when StopOne and
\* StartOne leave two workers of the connector at work.
THEOREM AcknowledgedStays == Spec => []AcknowledgedIsNotResent
<1>1. DeliveryInv => AcknowledgedIsNotResent
  BY DEF DeliveryInv, AcknowledgedIsNotResent, Chunkwise, AtWork
<1>2. QED
  BY <1>1, DeliveryInvariant, PTL

\* As long as nothing expires or fails, a delivery shown as queued whose dispatch is over is
\* in a worker's channel or hands: no order of Enqueue, StopOne, StopAll and the worker's
\* drain strands it.
THEOREM QueuedStaysHeld == Spec => []QueuedIsHeld
<1>1. DeliveryInv => QueuedIsHeld
  BY DEF DeliveryInv
<1>2. QED
  BY <1>1, DeliveryInvariant, PTL
=============================================================================
