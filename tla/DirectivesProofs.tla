-------------------------- MODULE DirectivesProofs --------------------------
(***************************************************************************)
(* Proofs about Directives, for every number of directives, tasks and      *)
(* messages and every plan, whatever fails, crashes or is delivered again: *)
(* the tasks of a directive come from one decomposition, an open task is   *)
(* held by somebody, a complete directive has completed tasks, and every   *)
(* variable keeps its type.                                                *)
(***************************************************************************)
EXTENDS Directives, FiniteSetTheorems, WellFoundedInduction, TLAPS

Statuses == {"none", "pending", "running", "blocked", "completed", "failed"}
TaskRow == [dir : 0..MaxDirectives, agent : Agents, status : Statuses, batch : Nat]
LoopPhases ==
    {"wait", "decide", "chat", "decompose", "persist", "finalize", "summary", "publish", "exited"}
LoopState == [phase : LoopPhases, dir : 0..MaxDirectives, plan : Seq(Agents), outbox : Seq(Tasks),
              final : {"none", "STALLED", "COMPLETE"}]
WorkerPhases == {"idle", "authorize", "llm", "report", "fail", "ack"}
WorkerState == [phase : WorkerPhases, task : 0..MaxTasks]
MailStates == {"none", "ready", "out", "acked"}

LEMMA BoundsTyped == MaxDirectives \in Nat /\ MaxTasks \in Nat
  BY BoundsAreNats

-----------------------------------------------------------------------------
(* Sequences and numbers                                                   *)

LEMMA ElementsEmpty == Elements(<<>>) = {}
  BY DEF Elements

LEMMA ElementsAppend ==
    ASSUME NEW S, NEW s \in Seq(S), NEW x \in S
    PROVE  Append(s, x) \in Seq(S) /\ Elements(Append(s, x)) = Elements(s) \cup {x}
<1>1. /\ Append(s, x) \in Seq(S) /\ Len(Append(s, x)) = Len(s) + 1 /\ Len(s) \in Nat
      /\ \A i \in 1..Len(s) : Append(s, x)[i] = s[i]
      /\ Append(s, x)[Len(s) + 1] = x
  OBVIOUS
<1>2. 1..(Len(s) + 1) = 1..Len(s) \cup {Len(s) + 1}
  BY <1>1
<1>3. QED
  BY <1>1, <1>2 DEF Elements

LEMMA ElementsTail ==
    ASSUME NEW S, NEW s \in Seq(S), s # <<>>
    PROVE  /\ Head(s) \in S /\ Tail(s) \in Seq(S)
           /\ Head(s) \in Elements(s) /\ Elements(Tail(s)) \subseteq Elements(s)
           /\ Elements(s) = {Head(s)} \cup Elements(Tail(s))
<1>1. /\ Len(s) \in Nat /\ Len(s) >= 1 /\ Tail(s) \in Seq(S) /\ Len(Tail(s)) = Len(s) - 1
      /\ Head(s) = s[1] /\ Head(s) \in S
      /\ \A i \in 1..(Len(s) - 1) : Tail(s)[i] = s[i + 1]
  OBVIOUS
<1>2. \A i \in 2..Len(s) : i - 1 \in 1..(Len(s) - 1) /\ s[i] = Tail(s)[i - 1]
  BY <1>1
<1>3. \A i \in 1..Len(s) : i = 1 \/ i \in 2..Len(s)
  BY <1>1
<1>4. \A x \in Elements(s) : x = Head(s) \/ x \in Elements(Tail(s))
  <2>1. SUFFICES ASSUME NEW i \in 1..Len(s) PROVE s[i] = Head(s) \/ s[i] \in Elements(Tail(s))
    BY DEF Elements
  <2>2. CASE i = 1
    BY <1>1, <2>2
  <2>3. CASE i \in 2..Len(s)
    BY <1>1, <1>2, <2>3 DEF Elements
  <2>4. QED
    BY <1>3, <2>2, <2>3
<1>5. Head(s) \in Elements(s)
  BY <1>1 DEF Elements
<1>6. Elements(Tail(s)) \subseteq Elements(s)
  <2>1. SUFFICES ASSUME NEW i \in 1..(Len(s) - 1) PROVE s[i + 1] \in Elements(s)
    BY <1>1 DEF Elements
  <2>2. i + 1 \in 1..Len(s)
    BY <1>1
  <2>3. QED
    BY <2>2 DEF Elements
<1>7. QED
  BY <1>1, <1>4, <1>5, <1>6

LEMMA OneLess ==
    ASSUME NEW n \in Nat, NEW m \in Nat, NEW l \in Nat, l >= 1, n + l <= m, NEW k, k = l - 1
    PROVE  n + 1 \in 0..m /\ n + 1 + k <= m
  OBVIOUS

LEMMA LeastOf == ASSUME NEW T, T \subseteq Nat, T # {} PROVE \E x \in T : \A y \in T : x <= y
<1>1. PICK x \in T : \A y \in T : ~(<<y, x>> \in OpToRel(<, Nat))
  BY NatLessThanWellFounded, WFMin
<1>2. \A y \in T : ~(y < x)
  BY <1>1 DEF OpToRel
<1>3. QED
  BY <1>2

\* The CHOOSE of Newest is about a directive that is there.
LEMMA NewestExists == ASSUME Active # {} PROVE Newest \in Dirs /\ IsNewest(Newest)
<1> DEFINE T == {MaxDirectives - d : d \in Active}
<1>0. MaxDirectives \in Nat /\ Active \subseteq Dirs
  BY BoundsTyped DEF Active
<1>1. T \subseteq Nat /\ T # {}
  <2>1. \A d \in Active : MaxDirectives - d \in Nat
    BY <1>0 DEF Dirs
  <2>2. T \subseteq Nat
    BY <2>1
  <2>3. QED
    BY <2>2
<1>2. PICK x \in T : \A y \in T : x <= y
  BY <1>1, LeastOf
<1>3. PICK d \in Active : x = MaxDirectives - d
  BY <1>2
<1>4. \A e \in Active : MaxDirectives - d <= MaxDirectives - e
  BY <1>2, <1>3
<1>5. \A e \in Active : e <= d
  BY <1>0, <1>3, <1>4 DEF Dirs
<1>6. IsNewest(d) /\ d \in Dirs
  BY <1>0, <1>3, <1>5 DEF IsNewest
<1>7. QED
  BY <1>6 DEF Newest

-----------------------------------------------------------------------------
(* The invariant                                                           *)

Used(t) == tasks[t].status # "none"

Typed ==
    /\ tasks \in [Tasks -> TaskRow] /\ mail \in [Tasks -> MailStates]
    /\ inbox \in [Agents -> Seq(Tasks)] /\ worker \in [Agents -> WorkerState]
    /\ loop \in LoopState

\* Only tasks that were persisted are on their way, each to the worker of its agent.
Known ==
    /\ \A t \in Tasks : mail[t] # "none" => Used(t)
    /\ \A t \in Elements(loop.outbox) : Used(t)
    /\ \A a \in Agents : \A t \in Elements(inbox[a]) : Used(t) /\ tasks[t].agent = a
    /\ \A a \in Agents : worker[a].phase # "idle" =>
         worker[a].task \in Tasks /\ Used(worker[a].task) /\ tasks[worker[a].task].agent = a

\* The tasks that were persisted are the first n, and a plan fits behind them.
Numbered ==
    \E n \in 0..MaxTasks :
        /\ \A t \in Tasks : Used(t) <=> t <= n
        /\ loop.phase = "persist" => n + Len(loop.plan) <= MaxTasks

Rows == \A t \in Tasks : IF Used(t) THEN tasks[t].dir \in Dirs ELSE tasks[t].dir = 0 /\ tasks[t].batch = 0

\* While a plan is persisted, the directive has the tasks of this plan and no others.
Decomposing ==
    /\ loop.phase \notin {"persist", "publish"} => loop.outbox = <<>>
    /\ loop.phase = "decompose" => loop.dir \in Dirs /\ TasksOf(loop.dir) = {}
    /\ loop.phase = "persist" =>
         /\ loop.dir \in Dirs
         /\ loop.outbox = <<>> => TasksOf(loop.dir) = {}
         /\ loop.outbox # <<>> => \A t \in TasksOf(loop.dir) : tasks[t].batch = Head(loop.outbox)

\* The inductive invariant.
DecInv == Typed /\ Known /\ Numbered /\ Rows /\ Decomposing /\ OneDecomposition

LEMMA DecInit == Init => DecInv
<1> SUFFICES ASSUME Init PROVE DecInv
  OBVIOUS
<1>1. /\ \A t \in Tasks : tasks[t] = NoTask /\ mail[t] = "none"
      /\ \A a \in Agents : worker[a] = Idle /\ inbox[a] = <<>>
      /\ loop = Waiting
  BY DEF Init
<1>2. NoTask \in TaskRow /\ NoTask.status = "none" /\ NoTask.dir = 0 /\ NoTask.batch = 0
  BY BoundsTyped DEF NoTask, TaskRow, Agents, Statuses
<1>3. Waiting \in LoopState /\ Waiting.phase = "wait" /\ Waiting.outbox = <<>>
  BY BoundsTyped DEF Waiting, LoopState, LoopPhases
<1>4. Idle \in WorkerState /\ Idle.phase = "idle"
  BY BoundsTyped DEF Idle, WorkerState, WorkerPhases
<1>5. Typed
  BY <1>1, <1>2, <1>3, <1>4 DEF Init, Typed, MailStates
<1>6. Known /\ Rows /\ Decomposing /\ OneDecomposition
  BY <1>1, <1>2, <1>3, <1>4, ElementsEmpty DEF Known, Used, Rows, Decomposing, OneDecomposition
<1>7. Numbered
  <2>1. 0 \in 0..MaxTasks /\ \A t \in Tasks : Used(t) <=> t <= 0
    BY <1>1, <1>2, BoundsTyped DEF Used, Tasks
  <2>2. QED
    BY <1>1, <1>3, <2>1 DEF Numbered
<1>8. QED
  BY <1>5, <1>6, <1>7 DEF DecInv

-----------------------------------------------------------------------------
(* Frames                                                                  *)

\* Steps that change nothing of a task but its status, and leave the loop alone.
LEMMA RowsFrame ==
    ASSUME DecInv, loop' = loop, Typed', Known',
           \A t \in Tasks : /\ tasks'[t].dir = tasks[t].dir /\ tasks'[t].batch = tasks[t].batch
                            /\ Used(t)' <=> Used(t)
    PROVE  DecInv'
<1>1. \A d : TasksOf(d)' = TasksOf(d)
  BY DEF TasksOf
<1>2. Numbered'
  BY DEF DecInv, Numbered
<1>3. Rows' /\ OneDecomposition'
  BY DEF DecInv, Rows, OneDecomposition
<1>4. Decomposing'
  BY <1>1 DEF DecInv, Decomposing, TasksOf
<1>5. QED
  BY <1>2, <1>3, <1>4 DEF DecInv

\* Steps of the loop that write no task.
LEMMA LoopFrame ==
    ASSUME DecInv, tasks' = tasks, Typed', Known', Decomposing',
           loop'.phase = "persist" => loop.phase = "persist" /\ loop'.plan = loop.plan
    PROVE  DecInv'
<1>1. Numbered'
  BY DEF DecInv, Numbered, Used
<1>2. Rows' /\ OneDecomposition'
  BY DEF DecInv, Rows, Used, OneDecomposition
<1>3. QED
  BY <1>1, <1>2 DEF DecInv

LEMMA ToPhase ==
    ASSUME loop \in LoopState, NEW p \in LoopPhases, loop' = [loop EXCEPT !.phase = p]
    PROVE  loop' \in LoopState /\ loop'.phase = p /\ loop'.dir = loop.dir /\ loop'.plan = loop.plan /\ loop'.outbox = loop.outbox
  BY DEF LoopState

LEMMA WaitingTyped ==
    /\ Waiting \in LoopState /\ Waiting.phase = "wait" /\ Waiting.outbox = <<>>
    /\ Exited \in LoopState /\ Exited.phase = "exited" /\ Exited.outbox = <<>>
<1>1. Waiting \in LoopState /\ Waiting.phase = "wait" /\ Waiting.outbox = <<>>
  BY BoundsTyped DEF Waiting, LoopState, LoopPhases
<1>2. Exited \in LoopState /\ Exited.phase = "exited" /\ Exited.outbox = Waiting.outbox
  BY <1>1 DEF Exited, LoopState, LoopPhases
<1>3. QED
  BY <1>1, <1>2

\* The loop starts over or ends.
LEMMA LoopRests ==
    ASSUME DecInv, loop' \in {Waiting, Exited}, UNCHANGED <<tasks, inbox, worker>>,
           mail' \in [Tasks -> MailStates], \A t \in Tasks : mail'[t] # "none" => Used(t)
    PROVE  DecInv'
<1>1. loop' \in LoopState /\ loop'.phase \in {"wait", "exited"} /\ loop'.outbox = <<>>
  BY WaitingTyped
<1>2. Typed' /\ Decomposing'
  BY <1>1 DEF DecInv, Typed, Decomposing
<1>3. Known'
  BY <1>1, ElementsEmpty DEF DecInv, Known, Used
<1>4. QED
  BY <1>1, <1>2, <1>3, LoopFrame

\* The loop moves on, its outbox as before.
LEMMA LoopMoves ==
    ASSUME DecInv, UNCHANGED <<tasks, mail, inbox, worker>>, loop' \in LoopState,
           loop'.outbox = loop.outbox, Decomposing',
           loop'.phase = "persist" => loop.phase = "persist" /\ loop'.plan = loop.plan
    PROVE  DecInv'
<1>1. Typed'
  BY DEF DecInv, Typed
<1>2. Known'
  BY DEF DecInv, Known, Used
<1>3. QED
  BY <1>1, <1>2, LoopFrame

-----------------------------------------------------------------------------
(* The orchestration loop                                                  *)

LEMMA ExitStep == ASSUME DecInv, Exit, UNCHANGED <<tasks, inbox, worker, mail>> PROVE DecInv'
<1>1. mail' \in [Tasks -> MailStates] /\ \A t \in Tasks : mail'[t] # "none" => Used(t)
  BY DEF DecInv, Typed, Known
<1>2. QED
  BY <1>1, LoopRests DEF Exit

LEMMA ReplyStep ==
    ASSUME DecInv, NEW content, Reply(content)
    PROVE  DecInv'
<1>0. UNCHANGED <<tasks, mail, inbox, worker>> /\ loop \in LoopState
  BY DEF Reply, broker, work, DecInv, Typed
<1>1. CASE Exit
  BY <1>0, <1>1, ExitStep
<1>2. CASE Goto([loop EXCEPT !.phase = "publish"])
  <2>1. loop' \in LoopState /\ loop'.phase = "publish" /\ loop'.outbox = loop.outbox
    BY <1>0, <1>2, ToPhase DEF Goto, LoopPhases
  <2>2. Decomposing'
    BY <2>1 DEF Decomposing
  <2>3. QED
    BY <1>0, <2>1, <2>2, LoopMoves
<1>3. QED
  BY <1>1, <1>2 DEF Reply

LEMMA TickStep == ASSUME DecInv, Tick PROVE DecInv'
<1>0. UNCHANGED <<tasks, mail, inbox, worker>> /\ loop \in LoopState /\ loop.phase = "wait"
  BY DEF Tick, store, broker, work, DecInv, Typed
<1>1. CASE Exit
  BY <1>0, <1>1, ExitStep
<1>2. CASE Goto([loop EXCEPT !.phase = "decide"])
  <2>1. loop' \in LoopState /\ loop'.phase = "decide" /\ loop'.outbox = loop.outbox
    BY <1>0, <1>2, ToPhase DEF Goto, LoopPhases
  <2>2. Decomposing'
    BY <1>0, <2>1 DEF DecInv, Decomposing
  <2>3. QED
    BY <1>0, <2>1, <2>2, LoopMoves
<1>3. QED
  BY <1>1, <1>2 DEF Tick

\* A directive is decomposed only when it has no task.
LEMMA DecideStep == ASSUME DecInv, Decide PROVE DecInv'
<1> DEFINE d == Newest
           c == IF Active = {} THEN "wait" ELSE Choice(d)
<1>0. UNCHANGED <<tasks, mail, inbox, worker>> /\ loop \in LoopState /\ loop.phase = "decide"
  BY DEF Decide, store, broker, work, DecInv, Typed
<1>1. loop' = IF c = "wait" THEN Waiting
              ELSE [loop EXCEPT !.phase = c, !.dir = d,
                                !.final = IF c = "finalize" THEN FinalStatus(d) ELSE "none"]
  BY DEF Decide, Goto
<1>2. CASE c = "wait"
  <2>1. mail' \in [Tasks -> MailStates] /\ \A t \in Tasks : mail'[t] # "none" => Used(t)
    BY <1>0 DEF DecInv, Typed, Known
  <2>2. QED
    BY <1>0, <1>1, <1>2, <2>1, LoopRests
<1>3. CASE c # "wait"
  <2>1. d \in Dirs /\ d \in 0..MaxDirectives
    BY <1>3, NewestExists, BoundsTyped DEF Dirs
  <2>2. c \in {"decompose", "finalize", "chat"} /\ (c = "decompose" => TasksOf(d) = {})
    BY <1>3 DEF Choice
  <2> DEFINE f == IF c = "finalize" THEN FinalStatus(d) ELSE "none"
  <2>7. f \in {"none", "STALLED", "COMPLETE"} /\ loop' = [loop EXCEPT !.phase = c, !.dir = d, !.final = f]
    BY <1>1, <1>3 DEF FinalStatus
  <2> HIDE DEF c, d, f
  <2>3. loop' \in LoopState /\ loop'.phase = c /\ loop'.dir = d /\ loop'.outbox = loop.outbox
    BY <1>0, <2>1, <2>2, <2>7 DEF LoopState, LoopPhases
  <2>4. \A e : TasksOf(e)' = TasksOf(e)
    BY <1>0 DEF TasksOf
  <2>5. Decomposing'
    BY <1>0, <2>1, <2>2, <2>3, <2>4 DEF DecInv, Decomposing
  <2>6. QED
    BY <1>0, <2>2, <2>3, <2>5, LoopMoves
<1>4. QED
  BY <1>2, <1>3

\* A plan is accepted if there is room for its tasks.
LEMMA PlanStep ==
    ASSUME DecInv, NEW content, NEW plan \in Plans, DecomposeReplies(content, plan)
    PROVE  DecInv'
<1>1. CASE Reply(content)
  BY <1>1, ReplyStep
<1>2. CASE /\ plan # <<>>
           /\ Cardinality({t \in Tasks : tasks[t].status = "none"}) >= Len(plan)
           /\ Goto([loop EXCEPT !.phase = "persist", !.plan = plan])
           /\ UNCHANGED <<store, broker, work, gov, mpc, seen, incidents>>
  <2>0. UNCHANGED <<tasks, mail, inbox, worker>> /\ loop \in LoopState /\ loop.phase = "decompose"
    BY <1>2 DEF DecomposeReplies, store, broker, work, DecInv, Typed
  <2>1. plan \in Seq(Agents) /\ Len(plan) \in Nat
    BY PlansTyped
  <2>2. /\ loop' \in LoopState /\ loop'.phase = "persist" /\ loop'.dir = loop.dir
        /\ loop'.plan = plan /\ loop'.outbox = loop.outbox
    BY <1>2, <2>0, <2>1 DEF Goto, LoopState, LoopPhases
  <2>3. PICK n \in 0..MaxTasks : \A t \in Tasks : Used(t) <=> t <= n
    BY DEF DecInv, Numbered
  <2> DEFINE Free == {t \in Tasks : tasks[t].status = "none"}
  <2>f. Cardinality(Free) >= Len(plan)
    BY <1>2
  <2>4. Free = (n + 1)..MaxTasks
    <3>1. \A t \in Tasks : tasks[t].status = "none" <=> t >= n + 1
      BY <2>3, BoundsTyped DEF Used, Tasks
    <3>2. \A t : t \in (n + 1)..MaxTasks <=> t \in Tasks /\ t >= n + 1
      BY <2>3, BoundsTyped DEF Tasks
    <3>3. QED
      BY <3>1, <3>2
  <2>5. Cardinality((n + 1)..MaxTasks) = MaxTasks - n
    <3>1. n + 1 \in Int /\ MaxTasks \in Int /\ n <= MaxTasks /\ n \in Int
      BY <2>3, BoundsTyped
    <3>2. Cardinality((n + 1)..MaxTasks) = IF n + 1 > MaxTasks THEN 0 ELSE MaxTasks - (n + 1) + 1
      BY <3>1, FS_Interval
    <3>3. QED
      BY <3>1, <3>2
  <2> HIDE DEF Free
  <2>6. n + Len(plan) <= MaxTasks
    <3>1. MaxTasks - n >= Len(plan)
      BY <2>f, <2>4, <2>5
    <3>2. QED
      BY <2>1, <2>3, <3>1, BoundsTyped
  <2>7. Numbered'
    BY <2>0, <2>2, <2>3, <2>6 DEF Numbered, Used
  <2>8. \A e : TasksOf(e)' = TasksOf(e)
    BY <2>0 DEF TasksOf
  <2>9. Decomposing'
    BY <2>0, <2>2, <2>8 DEF DecInv, Decomposing
  <2>10. Typed' /\ Known'
    BY <2>0, <2>2 DEF DecInv, Typed, Known, Used
  <2>11. Rows' /\ OneDecomposition'
    BY <2>0 DEF DecInv, Rows, Used, OneDecomposition
  <2>12. QED
    BY <2>7, <2>9, <2>10, <2>11 DEF DecInv
<1>3. QED
  BY <1>1, <1>2 DEF DecomposeReplies

\* The next task takes the next number, and the batch of those before it.
LEMMA PersistStep == ASSUME DecInv, PersistTask PROVE DecInv'
<1>0. /\ UNCHANGED <<mail, inbox, worker>> /\ loop \in LoopState /\ loop.phase = "persist"
      /\ loop.plan # <<>> /\ loop.plan \in Seq(Agents) /\ loop.outbox \in Seq(Tasks)
      /\ loop.dir \in Dirs
  BY DEF PersistTask, broker, work, DecInv, Typed, Decomposing, LoopState
<1>1. Head(loop.plan) \in Agents /\ Tail(loop.plan) \in Seq(Agents) /\ Len(loop.plan) \in Nat
      /\ Len(Tail(loop.plan)) = Len(loop.plan) - 1 /\ Len(loop.plan) >= 1
  BY <1>0
<1>2. PICK n \in 0..MaxTasks : (\A t \in Tasks : Used(t) <=> t <= n) /\ n + Len(loop.plan) <= MaxTasks
  BY <1>0 DEF DecInv, Numbered
<1> DEFINE First(t) == tasks[t].status = "none" /\ \A u \in 1..(t - 1) : tasks[u].status # "none"
           b == CHOOSE t \in Tasks : First(t)
<1>3. b = n + 1 /\ n + 1 \in Tasks /\ b \in Nat
  <2>1. n + 1 \in Tasks /\ First(n + 1)
    BY <1>1, <1>2, BoundsTyped DEF Used, Tasks
  <2>2. \A t \in Tasks : First(t) => t = n + 1
    BY <1>1, <1>2, BoundsTyped DEF Used, Tasks
  <2>3. QED
    BY <2>1, <2>2 DEF Tasks
<1> DEFINE batch == IF loop.outbox = <<>> THEN b ELSE Head(loop.outbox)
           row == [dir |-> loop.dir, agent |-> Head(loop.plan), status |-> "pending", batch |-> batch]
<1>4. tasks' = [tasks EXCEPT ![b] = row] /\ loop' = [loop EXCEPT !.plan = Tail(loop.plan), !.outbox = Append(loop.outbox, b)]
  BY DEF PersistTask, Goto
<1> HIDE DEF b
<1>5. batch \in Nat
  BY <1>0, <1>3, BoundsTyped DEF Tasks
<1> HIDE DEF batch
<1>6. row \in TaskRow /\ row.dir = loop.dir /\ row.batch = batch /\ row.status = "pending"
  BY <1>0, <1>1, <1>5, BoundsTyped DEF TaskRow, Statuses, Dirs
<1> HIDE DEF row
<1>7. /\ tasks' \in [Tasks -> TaskRow] /\ tasks'[b] = row
      /\ \A t \in Tasks \ {b} : tasks'[t] = tasks[t]
  BY <1>3, <1>4, <1>6 DEF DecInv, Typed
<1>8. /\ loop' \in LoopState /\ loop'.phase = "persist" /\ loop'.dir = loop.dir
      /\ loop'.plan = Tail(loop.plan) /\ loop'.outbox = Append(loop.outbox, b)
  <2>1. Append(loop.outbox, b) \in Seq(Tasks)
    BY <1>0, <1>3
  <2>2. QED
    BY <1>0, <1>1, <1>4, <2>1 DEF LoopState
<1>9. /\ loop'.outbox # <<>> /\ Head(loop'.outbox) = batch
      /\ Elements(loop'.outbox) = Elements(loop.outbox) \cup {b}
  <2>1. b \in Tasks
    BY <1>3
  <2>2. Append(loop.outbox, b) # <<>> /\ Head(Append(loop.outbox, b)) = batch
    <3>1. loop.outbox \in Seq(Tasks)
      BY <1>0
    <3>2. CASE loop.outbox = <<>>
      BY <2>1, <3>2 DEF batch
    <3>3. CASE loop.outbox # <<>>
      <4>1. Len(loop.outbox) \in Nat /\ Len(loop.outbox) >= 1
        BY <3>1, <3>3
      <4>2. Append(loop.outbox, b)[1] = loop.outbox[1] /\ Len(Append(loop.outbox, b)) = Len(loop.outbox) + 1
        BY <2>1, <3>1, <4>1
      <4>3. QED
        BY <2>1, <3>1, <3>3, <4>1, <4>2 DEF batch
    <3>4. QED
      BY <3>2, <3>3
  <2>3. Elements(Append(loop.outbox, b)) = Elements(loop.outbox) \cup {b}
    BY <1>0, <2>1, ElementsAppend
  <2>4. QED
    BY <1>8, <2>2, <2>3
<1>10. ~Used(b) /\ tasks[b].dir = 0
  BY <1>2, <1>3 DEF DecInv, Rows, Tasks
<1>11. \A t \in Tasks : Used(t)' <=> (Used(t) \/ t = b)
  BY <1>6, <1>7 DEF Used
<1>12. Typed'
  BY <1>0, <1>7, <1>8 DEF DecInv, Typed
<1>13. Known'
  <2>1. \A a \in Agents : Elements(inbox[a]) \subseteq Tasks
    BY DEF DecInv, Typed, Elements
  <2>2. Elements(loop.outbox) \subseteq Tasks
    BY <1>0 DEF Elements
  <2>3. \A t \in Tasks : Used(t) => t # b
    BY <1>10
  <2>4. \A a \in Agents : \A t \in Elements(inbox'[a]) : Used(t)' /\ tasks'[t].agent = a
    BY <1>0, <1>7, <1>11, <2>1, <2>3 DEF DecInv, Known
  <2>5. \A a \in Agents : worker'[a].phase # "idle" =>
          worker'[a].task \in Tasks /\ Used(worker[a].task)' /\ tasks'[worker'[a].task].agent = a
    BY <1>0, <1>7, <1>11, <2>3 DEF DecInv, Known, Used
  <2>6. /\ \A t \in Tasks : mail'[t] # "none" => Used(t)'
        /\ \A t \in Elements(loop'.outbox) : Used(t)'
    BY <1>0, <1>3, <1>9, <1>11, <2>2 DEF DecInv, Known
  <2>7. QED
    BY <1>0, <2>4, <2>5, <2>6 DEF Known, Used
<1>14. Numbered'
  <2>1. n + 1 \in 0..MaxTasks /\ n + 1 + Len(loop'.plan) <= MaxTasks
    <3>1. Len(loop'.plan) = Len(loop.plan) - 1
      <4>1. loop'.plan = Tail(loop.plan) /\ Len(Tail(loop.plan)) = Len(loop.plan) - 1
        BY <1>1, <1>8
      <4>2. QED
        BY <4>1
    <3>2. n \in Nat /\ MaxTasks \in Nat /\ Len(loop.plan) \in Nat /\ Len(loop.plan) >= 1 /\ n + Len(loop.plan) <= MaxTasks
      BY <1>1, <1>2, BoundsTyped
    <3>3. QED
      BY <3>1, <3>2, OneLess
  <2>2. \A t \in Tasks : Used(t)' <=> t <= n + 1
    BY <1>2, <1>3, <1>11 DEF Tasks
  <2>3. QED
    BY <2>1, <2>2 DEF Numbered
<1>15. Rows'
  BY <1>0, <1>6, <1>7, <1>11 DEF DecInv, Rows
<1>16. \A d \in Dirs : TasksOf(d)' = IF d = loop.dir THEN TasksOf(d) \cup {b} ELSE TasksOf(d)
  <2>1. SUFFICES ASSUME NEW d \in Dirs, NEW t \in Tasks
                 PROVE  tasks'[t].dir = d <=> tasks[t].dir = d \/ (d = loop.dir /\ t = b)
    BY <1>3 DEF TasksOf
  <2>2. CASE t = b
    <3>1. d # 0
      BY DEF Dirs
    <3>2. QED
      BY <1>6, <1>7, <1>10, <2>2, <3>1
  <2>3. CASE t # b
    BY <1>7, <2>3
  <2>4. QED
    BY <2>2, <2>3
<1>17. \A t \in TasksOf(loop.dir)' : tasks'[t].batch = batch
  <2>1. TasksOf(loop.dir) \subseteq Tasks
    BY DEF TasksOf
  <2>2. \A t \in TasksOf(loop.dir) : tasks[t].batch = batch
    BY <1>0, <1>3 DEF DecInv, Decomposing, batch
  <2>3. QED
    BY <1>0, <1>6, <1>7, <1>8, <1>16, <2>1, <2>2
<1>18. Decomposing'
  BY <1>0, <1>8, <1>9, <1>17 DEF Decomposing
<1>19. OneDecomposition'
  <2>1. SUFFICES ASSUME NEW t \in Tasks, NEW u \in Tasks, tasks'[t].dir = tasks'[u].dir
                 PROVE  tasks'[t].batch = tasks'[u].batch
    BY DEF OneDecomposition
  <2>2. CASE tasks'[t].dir = loop.dir
    BY <1>8, <1>17, <2>1, <2>2 DEF TasksOf
  <2>3. CASE tasks'[t].dir # loop.dir
    BY <1>6, <1>7, <2>1, <2>3 DEF DecInv, OneDecomposition
  <2>4. QED
    BY <2>2, <2>3
<1>20. QED
  BY <1>12, <1>13, <1>14, <1>15, <1>18, <1>19 DEF DecInv

LEMMA FinalizeStep == ASSUME DecInv, Finalize PROVE DecInv'
<1>0. UNCHANGED <<tasks, mail, inbox, worker>> /\ loop \in LoopState /\ loop.phase = "finalize"
  BY DEF Finalize, broker, work, DecInv, Typed
<1>1. loop' \in LoopState /\ loop'.phase = "summary" /\ loop'.outbox = loop.outbox
  BY <1>0, ToPhase DEF Finalize, Goto, LoopPhases
<1>2. Decomposing'
  BY <1>0, <1>1 DEF DecInv, Decomposing
<1>3. QED
  BY <1>0, <1>1, <1>2, LoopMoves

LEMMA SummariseStep == ASSUME DecInv, Summarise PROVE DecInv'
<1>0. UNCHANGED <<tasks, mail, inbox, worker>> /\ loop \in LoopState
  BY DEF Summarise, broker, work, DecInv, Typed
<1>1. loop' \in LoopState /\ loop'.phase = "publish" /\ loop'.outbox = loop.outbox
  BY <1>0, ToPhase DEF Summarise, Goto, LoopPhases
<1>2. Decomposing'
  BY <1>1 DEF Decomposing
<1>3. QED
  BY <1>0, <1>1, <1>2, LoopMoves

LEMMA PublishStep == ASSUME DecInv, Publish PROVE DecInv'
<1>0. UNCHANGED <<tasks, inbox, worker>> /\ loop \in LoopState /\ loop.phase = "publish" /\ loop.outbox \in Seq(Tasks)
  BY DEF Publish, store, work, DecInv, Typed, LoopState
<1>1. CASE loop.outbox = <<>> /\ Goto(Waiting) /\ UNCHANGED mail
  <2>1. mail' \in [Tasks -> MailStates] /\ \A t \in Tasks : mail'[t] # "none" => Used(t)
    BY <1>1 DEF DecInv, Typed, Known
  <2>2. QED
    BY <1>0, <1>1, <2>1, LoopRests DEF Goto
<1>2. CASE loop.outbox # <<>> /\ mail' = [mail EXCEPT ![Head(loop.outbox)] = "ready"]
  <2>1. /\ Head(loop.outbox) \in Tasks /\ Head(loop.outbox) \in Elements(loop.outbox)
        /\ Tail(loop.outbox) \in Seq(Tasks) /\ Elements(Tail(loop.outbox)) \subseteq Elements(loop.outbox)
    BY <1>0, <1>2, ElementsTail
  <2>2. mail' \in [Tasks -> MailStates] /\ \A t \in Tasks : mail'[t] # "none" => Used(t)
    BY <1>2, <2>1 DEF DecInv, Typed, Known, MailStates
  <2>3. CASE Exit
    BY <1>0, <2>2, <2>3, LoopRests DEF Exit
  <2>4. CASE Goto([loop EXCEPT !.outbox = Tail(@)])
    <3>1. loop' \in LoopState /\ loop'.phase = "publish" /\ loop'.outbox = Tail(loop.outbox)
      BY <1>0, <2>1, <2>4 DEF Goto, LoopState
    <3>2. Typed' /\ Decomposing'
      BY <1>0, <2>2, <3>1 DEF DecInv, Typed, Decomposing
    <3>3. Known'
      BY <1>0, <2>1, <2>2, <3>1 DEF DecInv, Known, Used
    <3>4. QED
      BY <1>0, <3>1, <3>2, <3>3, LoopFrame
  <2>5. QED
    BY <1>2, <2>3, <2>4 DEF Publish
<1>3. QED
  BY <1>1, <1>2 DEF Publish

-----------------------------------------------------------------------------
(* Gateway, broker and workers                                             *)

LEMMA OutsideStep == ASSUME DecInv, UNCHANGED <<tasks, mail, inbox, worker, loop>> PROVE DecInv'
<1>1. Typed' /\ Known'
  BY DEF DecInv, Typed, Known, Used
<1>2. QED
  BY <1>1, RowsFrame DEF Used

LEMMA ReceiveStep ==
    ASSUME DecInv, NEW t \in Tasks, mail[t] # "none", Receive(t), UNCHANGED <<tasks, worker, loop>>,
           mail' \in [Tasks -> MailStates], \A u \in Tasks : mail'[u] # "none" => mail[u] # "none"
    PROVE  DecInv'
<1> DEFINE a == tasks[t].agent
<1>1. a \in Agents /\ inbox[a] \in Seq(Tasks) /\ Used(t)
  BY DEF DecInv, Typed, Known, TaskRow
<1>2. Append(inbox[a], t) \in Seq(Tasks) /\ Elements(Append(inbox[a], t)) = Elements(inbox[a]) \cup {t}
  BY <1>1, ElementsAppend
<1>3. /\ inbox' \in [Agents -> Seq(Tasks)] /\ inbox'[a] = Append(inbox[a], t)
      /\ \A b \in Agents \ {a} : inbox'[b] = inbox[b]
  BY <1>1, <1>2 DEF Receive, DecInv, Typed
<1>4. Typed'
  BY <1>3 DEF DecInv, Typed
<1>5. \A b \in Agents : \A u \in Elements(inbox'[b]) : Used(u) /\ tasks[u].agent = b
  <2>1. SUFFICES ASSUME NEW b \in Agents, NEW u \in Elements(inbox'[b]) PROVE Used(u) /\ tasks[u].agent = b
    OBVIOUS
  <2>2. CASE b = a
    BY <1>1, <1>2, <1>3, <2>2 DEF DecInv, Known
  <2>3. CASE b # a
    BY <1>3, <2>3 DEF DecInv, Known
  <2>4. QED
    BY <2>2, <2>3
<1>6. Known'
  BY <1>5 DEF DecInv, Known, Used
<1>7. QED
  BY <1>4, <1>6, RowsFrame DEF Used

LEMMA BrokerStep == ASSUME DecInv, NEW t \in Tasks, Deliver(t) \/ AckWaitExpires(t) PROVE DecInv'
<1>1. /\ mail[t] # "none" /\ Receive(t) /\ UNCHANGED <<tasks, worker, loop>>
      /\ mail' \in [Tasks -> MailStates] /\ \A u \in Tasks : mail'[u] # "none" => mail[u] # "none"
  BY DEF Deliver, AckWaitExpires, store, DecInv, Typed, MailStates
<1>2. QED
  BY <1>1, ReceiveStep

LEMMA IdleTyped == Idle \in WorkerState /\ Idle.phase = "idle"
  BY BoundsTyped DEF Idle, WorkerState, WorkerPhases

LEMMA TakeStep == ASSUME DecInv, NEW a \in Agents, TakeTask(a) PROVE DecInv'
<1>1. inbox[a] \in Seq(Tasks) /\ inbox[a] # <<>> /\ UNCHANGED <<tasks, mail, loop>>
  BY DEF TakeTask, DecInv, Typed, store, broker
<1>2. /\ Head(inbox[a]) \in Tasks /\ Tail(inbox[a]) \in Seq(Tasks)
      /\ Head(inbox[a]) \in Elements(inbox[a]) /\ Elements(Tail(inbox[a])) \subseteq Elements(inbox[a])
  BY <1>1, ElementsTail
<1>3. /\ inbox' \in [Agents -> Seq(Tasks)] /\ inbox'[a] = Tail(inbox[a])
      /\ \A b \in Agents \ {a} : inbox'[b] = inbox[b]
  BY <1>2 DEF TakeTask, DecInv, Typed
<1>4. /\ worker' \in [Agents -> WorkerState] /\ worker'[a].task = Head(inbox[a])
      /\ \A b \in Agents \ {a} : worker'[b] = worker[b]
  <2>1. [phase |-> "authorize", task |-> Head(inbox[a])] \in WorkerState
    BY <1>2, BoundsTyped DEF WorkerState, WorkerPhases, Tasks
  <2>2. QED
    BY <2>1 DEF TakeTask, DecInv, Typed
<1>5. Typed'
  BY <1>1, <1>3, <1>4 DEF DecInv, Typed
<1>6. \A b \in Agents : Elements(inbox'[b]) \subseteq Elements(inbox[b])
  BY <1>2, <1>3
<1>7. \A b \in Agents : worker'[b].phase # "idle" =>
          worker'[b].task \in Tasks /\ tasks[worker'[b].task].status # "none" /\ tasks[worker'[b].task].agent = b
  BY <1>2, <1>4 DEF DecInv, Known, Used
<1>8. Known'
  BY <1>1, <1>6, <1>7 DEF DecInv, Known, Used
<1>9. QED
  BY <1>1, <1>5, <1>8, RowsFrame DEF Used

\* A handler moves on, with or without a new status of its task.
LEMMA WorkStep ==
    ASSUME DecInv, NEW a \in Agents, worker[a].phase # "idle", NEW p \in WorkerPhases,
           worker' = [worker EXCEPT ![a].phase = p], UNCHANGED <<mail, inbox, loop>>,
           \/ tasks' = tasks
           \/ \E s \in Statuses \ {"none"} : tasks' = [tasks EXCEPT ![worker[a].task].status = s]
    PROVE  DecInv'
<1>1. worker[a].task \in Tasks /\ Used(worker[a].task)
  BY DEF DecInv, Known
<1>2. /\ tasks' \in [Tasks -> TaskRow]
      /\ \A t \in Tasks : /\ tasks'[t].dir = tasks[t].dir /\ tasks'[t].batch = tasks[t].batch
                          /\ tasks'[t].agent = tasks[t].agent
                          /\ Used(t)' <=> Used(t)
  <2>1. CASE tasks' = tasks
    BY <2>1 DEF DecInv, Typed, Used
  <2>2. CASE tasks' # tasks
    <3>1. PICK s \in Statuses \ {"none"} : tasks' = [tasks EXCEPT ![worker[a].task].status = s]
      BY <2>2
    <3>2. PICK row : row = [tasks[worker[a].task] EXCEPT !.status = s]
      OBVIOUS
    <3>3. /\ row \in TaskRow /\ row.status = s /\ row.dir = tasks[worker[a].task].dir
          /\ row.batch = tasks[worker[a].task].batch /\ row.agent = tasks[worker[a].task].agent
      BY <1>1, <3>2 DEF DecInv, Typed, TaskRow
    <3>4. tasks' = [tasks EXCEPT ![worker[a].task] = row]
      BY <3>1, <3>2
    <3>5. QED
      BY <1>1, <3>3, <3>4 DEF DecInv, Typed, Used
  <2>3. QED
    BY <2>1, <2>2
<1>3. /\ worker' \in [Agents -> WorkerState] /\ worker'[a].task = worker[a].task
      /\ \A b \in Agents \ {a} : worker'[b] = worker[b]
  BY DEF DecInv, Typed, WorkerState
<1>4. Typed'
  BY <1>2, <1>3 DEF DecInv, Typed
<1>5. Known'
  <2>1. Elements(loop.outbox) \subseteq Tasks /\ \A b \in Agents : Elements(inbox[b]) \subseteq Tasks
    BY DEF DecInv, Typed, LoopState, Elements
  <2>2. \A b \in Agents : worker'[b].phase # "idle" =>
            worker'[b].task \in Tasks /\ Used(worker'[b].task) /\ tasks[worker'[b].task].agent = b
    BY <1>3 DEF DecInv, Known
  <2>3. \A b \in Agents : worker'[b].phase # "idle" =>
            worker'[b].task \in Tasks /\ tasks'[worker'[b].task].status # "none" /\ tasks'[worker'[b].task].agent = b
    BY <1>2, <2>2 DEF Used
  <2>4. QED
    BY <1>2, <2>1, <2>3 DEF DecInv, Known, Used
<1>6. QED
  BY <1>2, <1>4, <1>5, RowsFrame

LEMMA HandlerStep ==
    ASSUME DecInv, NEW a \in Agents, Authorize(a) \/ ReportTask(a) \/ CompleteTask(a) \/ ExecuteFails(a) \/ FailTask(a)
    PROVE  DecInv'
<1>1. /\ worker[a].phase # "idle" /\ UNCHANGED <<mail, inbox, loop>>
      /\ \E p \in WorkerPhases : worker' = [worker EXCEPT ![a].phase = p]
      /\ \/ tasks' = tasks
         \/ \E s \in Statuses \ {"none"} : tasks' = [tasks EXCEPT ![worker[a].task].status = s]
  BY DEF Authorize, StartTask, ReportTask, CompleteTask, ExecuteFails, FailTask, OnlyWork, broker, Written, WriteFails,
         WorkerPhases, Statuses
<1>2. QED
  BY <1>1, WorkStep

\* A handler is done with its message, in one way or the other.
LEMMA DoneStep == ASSUME DecInv, NEW a \in Agents, Ack(a) \/ HandlerPanics(a) PROVE DecInv'
<1>0. worker[a].task \in Tasks /\ Used(worker[a].task) /\ UNCHANGED <<tasks, inbox, loop>>
  BY DEF Ack, HandlerPanics, DecInv, Known, store
<1>1. mail' \in [Tasks -> MailStates] /\ \A t \in Tasks : mail'[t] # "none" => mail[t] # "none" \/ t = worker[a].task
  BY <1>0 DEF Ack, HandlerPanics, DecInv, Typed, MailStates
<1>2. worker' \in [Agents -> WorkerState] /\ \A b \in Agents : worker'[b] = worker[b] \/ worker'[b] = Idle
  BY IdleTyped DEF Ack, HandlerPanics, DecInv, Typed
<1>3. Typed'
  BY <1>0, <1>1, <1>2 DEF DecInv, Typed
<1>4. Known'
  BY <1>0, <1>1, <1>2, IdleTyped DEF DecInv, Known, Used
<1>5. QED
  BY <1>0, <1>3, <1>4, RowsFrame DEF Used

LEMMA CrashStep == ASSUME DecInv, Crash PROVE DecInv'
<1>1. /\ loop' = Waiting /\ tasks' = tasks
      /\ mail' \in [Tasks -> MailStates] /\ \A t \in Tasks : mail'[t] # "none" => mail[t] # "none"
      /\ inbox' \in [Agents -> Seq(Tasks)] /\ \A a \in Agents : inbox'[a] = <<>>
      /\ worker' \in [Agents -> WorkerState] /\ \A a \in Agents : worker'[a] = Idle
  BY IdleTyped DEF Crash, store, DecInv, Typed, MailStates
<1>2. loop' \in LoopState /\ loop'.phase = "wait" /\ loop'.outbox = <<>>
  BY <1>1, WaitingTyped
<1>3. Typed' /\ Decomposing'
  BY <1>1, <1>2 DEF DecInv, Typed, Decomposing
<1>4. Known'
  BY <1>1, <1>2, IdleTyped, ElementsEmpty DEF DecInv, Known, Used
<1>5. QED
  BY <1>1, <1>2, <1>3, <1>4, LoopFrame

-----------------------------------------------------------------------------
LEMMA DecStep == ASSUME DecInv, [Next]_vars PROVE DecInv'
<1>1. ASSUME NEW d \in Dirs, NEW mode \in Modes, CreateDirective(d, mode) \/ UpdateMode(d, mode)
      PROVE  DecInv'
  BY <1>1, OutsideStep DEF CreateDirective, UpdateMode, broker, work
<1>2. ASSUME NEW m \in Msgs, PublishMessage(m) \/ \E d \in Dirs : PostMessage(m, d)
      PROVE  DecInv'
  BY <1>2, OutsideStep DEF PublishMessage, PostMessage, broker, work
<1>3. CASE Tick \/ Decide \/ PersistTask \/ Finalize \/ Summarise \/ Publish
  BY <1>3, TickStep, DecideStep, PersistStep, FinalizeStep, SummariseStep, PublishStep
<1>4. ASSUME NEW c \in Contents, ChatReplies(c) \/ Decomposed(c) \/ \E p \in Plans : DecomposeReplies(c, p)
      PROVE  DecInv'
  BY <1>4, ReplyStep, PlanStep DEF ChatReplies, Decomposed
<1>5. CASE DurationTrips \/ TickFails
  BY <1>5, ExitStep DEF DurationTrips, TickFails, store, broker, work
<1>6. ASSUME NEW t \in Tasks, Deliver(t) \/ AckWaitExpires(t) PROVE DecInv'
  BY <1>6, BrokerStep
<1>7. ASSUME NEW a \in Agents, WorkerStep(a) \/ HandlerPanics(a) PROVE DecInv'
  BY <1>7, TakeStep, HandlerStep, DoneStep DEF WorkerStep
<1>8. CASE Crash
  BY <1>8, CrashStep
<1>9. CASE UNCHANGED vars
  BY <1>9, OutsideStep DEF vars, store, broker, work
<1>10. QED
  BY <1>1, <1>2, <1>3, <1>4, <1>5, <1>6, <1>7, <1>8, <1>9 DEF Next, LoopStep

LEMMA DecInvariant == Spec => []DecInv
<1>1. DecInv /\ [Next]_vars => DecInv'
  BY DecStep
<1>2. QED
  BY <1>1, DecInit, PTL DEF Spec

\* handleImplement runs at most once to the point of writing tasks: the tasks of a directive are
\* of one plan, although they are written one by one and any write, the process or the mode of
\* the directive may fail or change in between.
THEOREM AlwaysOneDecomposition == Spec => []OneDecomposition
<1>1. DecInv => OneDecomposition
  BY DEF DecInv
<1>2. QED
  BY <1>1, DecInvariant, PTL

-----------------------------------------------------------------------------
(***************************************************************************)
(* The tasks: one that is not over is held by somebody who will end it,    *)
(* and a directive is complete only when its tasks are.                    *)
(***************************************************************************)

DirRow == [mode : Modes, status : {"none", "ACTIVE", "STALLED", "COMPLETE"}]

At(t, a) == worker[a].task = t \/ t \in Elements(inbox[a])

\* Where a task may be: behind its publication, and in one place unless it was delivered again.
Copies ==
    /\ \A a \in Agents : worker[a].phase = "idle" => worker[a].task = 0
    /\ \A t \in Tasks, a \in Agents : At(t, a) => mail[t] # "none"
    /\ \A t \in Tasks \ again, a \in Agents :
         /\ At(t, a) => mail[t] = "out"
         /\ worker[a].task = t => t \notin Elements(inbox[a])
         /\ \A i, j \in 1..Len(inbox[a]) : inbox[a][i] = t /\ inbox[a][j] = t => i = j

\* How far a task that was delivered once has come, by the place it is at.
Progressed ==
    \A t \in Tasks \ again :
        /\ Used(t) /\ mail[t] \in {"none", "ready"} => tasks[t].status = "pending"
        /\ \A a \in Agents :
             /\ t \in Elements(inbox[a]) => tasks[t].status = "pending"
             /\ worker[a].task = t =>
                  /\ worker[a].phase = "authorize" => tasks[t].status = "pending"
                  /\ worker[a].phase \in {"llm", "report"} => tasks[t].status = "running"
                  /\ worker[a].phase = "fail" => tasks[t].status # "completed"

\* What the loop is about to publish was not published before.
OutboxFresh ==
    \A i \in 1..Len(loop.outbox) :
        /\ mail[loop.outbox[i]] = "none"
        /\ \A j \in 1..Len(loop.outbox) : loop.outbox[i] = loop.outbox[j] => i = j

\* A directive that is being decomposed is not over, and one that is over has a status to come.
Doing ==
    /\ dirs \in [Dirs -> DirRow]
    /\ loop.phase \in {"decompose", "persist"} => dirs[loop.dir].status \in {"ACTIVE", "STALLED"}
    /\ loop.phase = "finalize" => loop.dir \in Dirs /\ loop.final \in {"STALLED", "COMPLETE"}

\* Before a message is acknowledged, its task is over or written off.
AckMeansEnded ==
    \A a \in Agents : worker[a].phase = "ack" => Ended(worker[a].task) \/ worker[a].task \in stranded

\* The directive the loop is about to mark as complete may be so marked already.
CompleteOK ==
    /\ CompleteMeansCompleted
    /\ loop.phase = "finalize" /\ loop.final = "COMPLETE" =>
         \A t \in TasksOf(loop.dir) : tasks[t].status = "completed" \/ t \in again

\* The inductive invariant, on top of DecInv.
TaskInv ==
    /\ Copies /\ Progressed /\ OutboxFresh /\ Doing /\ AckMeansEnded
    /\ OpenTaskIsHeld /\ CompleteOK

LEMMA IdleTask == Idle.phase = "idle" /\ Idle.task = 0
  BY DEF Idle

LEMMA TaskInit == Init => TaskInv
<1> SUFFICES ASSUME Init PROVE TaskInv
  OBVIOUS
<1>1. /\ \A t \in Tasks : tasks[t] = NoTask /\ mail[t] = "none"
      /\ \A a \in Agents : worker[a] = Idle /\ inbox[a] = <<>>
      /\ loop = Waiting /\ dirs = [d \in Dirs |-> [mode |-> "chat", status |-> "none"]]
  BY DEF Init
<1>2. NoTask.status = "none" /\ Waiting.phase = "wait" /\ Waiting.outbox = <<>> /\ Len(<<>>) = 0
  BY DEF NoTask, Waiting
<1>3. 0 \notin Tasks
  BY BoundsTyped DEF Tasks
<1>4. Copies /\ Progressed /\ OutboxFresh /\ AckMeansEnded
  BY <1>1, <1>2, <1>3, IdleTask, ElementsEmpty DEF Copies, At, Progressed, Used, OutboxFresh, AckMeansEnded
<1>5. Doing /\ CompleteOK
  BY <1>1, <1>2 DEF Doing, DirRow, Modes, CompleteOK, CompleteMeansCompleted
<1>6. OpenTaskIsHeld
  BY <1>1, <1>2 DEF OpenTaskIsHeld
<1>7. QED
  BY <1>4, <1>5, <1>6 DEF TaskInv

-----------------------------------------------------------------------------
(* Frames                                                                  *)

\* Steps that leave the tasks and their messages alone.
LEMMA LoopOnly ==
    ASSUME TaskInv, UNCHANGED <<tasks, mail, again, inbox, worker>>, stranded \subseteq stranded',
           Elements(loop.outbox) \subseteq Elements(loop'.outbox) \cup stranded',
           OutboxFresh', Doing', CompleteOK'
    PROVE  TaskInv'
<1>1. Copies' /\ Progressed'
  BY DEF TaskInv, Copies, At, Progressed, Used
<1>2. AckMeansEnded'
  BY DEF TaskInv, AckMeansEnded, Ended
<1>3. OpenTaskIsHeld'
  BY DEF TaskInv, OpenTaskIsHeld, Held
<1>4. QED
  BY <1>1, <1>2, <1>3 DEF TaskInv

LEMMA SameDirs ==
    ASSUME TaskInv, UNCHANGED <<tasks, again, dirs>>, loop' = loop \/ loop'.phase # "finalize"
    PROVE  CompleteOK'
  BY DEF TaskInv, CompleteOK, CompleteMeansCompleted, TasksOf

\* The loop rests or ends; what it leaves unpublished is written off.
LEMMA RestStep ==
    ASSUME TaskInv, UNCHANGED <<tasks, mail, again, inbox, worker, dirs>>, loop' \in {Waiting, Exited},
           stranded \subseteq stranded', Elements(loop.outbox) \subseteq stranded'
    PROVE  TaskInv'
<1>1. loop'.outbox = <<>> /\ loop'.phase \in {"wait", "exited"} /\ Len(loop'.outbox) = 0
  BY WaitingTyped
<1>2. OutboxFresh' /\ Doing'
  BY <1>1 DEF TaskInv, OutboxFresh, Doing
<1>3. QED
  BY <1>1, <1>2, SameDirs, LoopOnly

\* The loop goes on with the same outbox.
LEMMA GoOnStep ==
    ASSUME TaskInv, UNCHANGED <<tasks, mail, again, inbox, worker, stranded>>,
           loop'.outbox = loop.outbox, Doing', CompleteOK'
    PROVE  TaskInv'
<1>1. OutboxFresh'
  BY DEF TaskInv, OutboxFresh
<1>2. QED
  BY <1>1, LoopOnly

-----------------------------------------------------------------------------
(* Gateway and loop                                                        *)

LEMMA GatewayKeeps ==
    ASSUME TaskInv, DecInv,
           \/ \E d \in Dirs, mode \in Modes : CreateDirective(d, mode) \/ UpdateMode(d, mode)
           \/ \E m \in Msgs : PublishMessage(m) \/ \E d \in Dirs : PostMessage(m, d)
    PROVE  TaskInv'
<1>1. UNCHANGED <<tasks, mail, again, inbox, worker, stranded, loop>>
  BY DEF CreateDirective, UpdateMode, PublishMessage, PostMessage, broker, work
<1>2. /\ dirs' \in [Dirs -> DirRow]
      /\ \A d \in Dirs : dirs'[d].status = dirs[d].status \/ (dirs[d].status = "none" /\ dirs'[d].status = "ACTIVE")
  <2>1. CASE UNCHANGED dirs
    BY <2>1 DEF TaskInv, Doing
  <2>2. ASSUME NEW d \in Dirs, NEW mode \in Modes, CreateDirective(d, mode)
        PROVE  /\ dirs' \in [Dirs -> DirRow]
               /\ \A e \in Dirs : dirs'[e].status = dirs[e].status \/ (dirs[e].status = "none" /\ dirs'[e].status = "ACTIVE")
    BY <2>2 DEF TaskInv, Doing, CreateDirective, DirRow
  <2>3. ASSUME NEW d \in Dirs, NEW mode \in Modes, UpdateMode(d, mode)
        PROVE  dirs' \in [Dirs -> DirRow] /\ \A e \in Dirs : dirs'[e].status = dirs[e].status
    BY <2>3 DEF TaskInv, Doing, UpdateMode, DirRow
  <2>4. QED
    BY <2>1, <2>2, <2>3 DEF PublishMessage, PostMessage
<1>3. Doing'
  BY <1>1, <1>2 DEF TaskInv, Doing, DecInv, Decomposing
<1>4. CompleteOK'
  BY <1>1, <1>2 DEF TaskInv, CompleteOK, CompleteMeansCompleted, TasksOf
<1>5. QED
  BY <1>1, <1>3, <1>4, GoOnStep

LEMMA ExitKeeps ==
    ASSUME TaskInv, Exit, UNCHANGED <<tasks, mail, again, inbox, worker, dirs>>
    PROVE  TaskInv'
  BY RestStep DEF Exit

LEMMA ReplyKeeps == ASSUME TaskInv, DecInv, NEW content, Reply(content) PROVE TaskInv'
<1>0. UNCHANGED <<tasks, mail, again, inbox, worker, dirs>> /\ loop \in LoopState
  BY DEF Reply, broker, work, DecInv, Typed
<1>1. CASE Exit
  BY <1>0, <1>1, ExitKeeps
<1>2. CASE Goto([loop EXCEPT !.phase = "publish"])
  <2>1. loop'.phase = "publish" /\ loop'.outbox = loop.outbox /\ stranded' = stranded
    BY <1>0, <1>2, ToPhase DEF Goto, LoopPhases
  <2>2. Doing'
    BY <1>0, <2>1 DEF TaskInv, Doing
  <2>3. QED
    BY <1>0, <2>1, <2>2, SameDirs, GoOnStep
<1>3. QED
  BY <1>1, <1>2 DEF Reply

LEMMA TickKeeps == ASSUME TaskInv, DecInv, Tick PROVE TaskInv'
<1>0. UNCHANGED <<tasks, mail, again, inbox, worker, dirs>> /\ loop \in LoopState
  BY DEF Tick, store, broker, work, DecInv, Typed
<1>1. CASE Exit
  BY <1>0, <1>1, ExitKeeps
<1>2. CASE Goto([loop EXCEPT !.phase = "decide"])
  <2>1. loop'.phase = "decide" /\ loop'.outbox = loop.outbox /\ stranded' = stranded
    BY <1>0, <1>2, ToPhase DEF Goto, LoopPhases
  <2>2. Doing'
    BY <1>0, <2>1 DEF TaskInv, Doing
  <2>3. QED
    BY <1>0, <2>1, <2>2, SameDirs, GoOnStep
<1>3. QED
  BY <1>1, <1>2 DEF Tick

\* The status that is computed fits the tasks that are read.
LEMMA DecideKeeps == ASSUME TaskInv, DecInv, Decide PROVE TaskInv'
<1> DEFINE d == Newest
           c == IF Active = {} THEN "wait" ELSE Choice(d)
<1>0. /\ UNCHANGED <<tasks, mail, again, inbox, worker, stranded, dirs>> /\ loop \in LoopState
      /\ loop.phase = "decide" /\ loop.outbox = <<>>
  BY DEF Decide, Goto, store, broker, work, DecInv, Typed, Decomposing
<1>1. loop' = IF c = "wait" THEN Waiting
              ELSE [loop EXCEPT !.phase = c, !.dir = d,
                                !.final = IF c = "finalize" THEN FinalStatus(d) ELSE "none"]
  BY DEF Decide, Goto
<1>2. CASE c = "wait"
  BY <1>0, <1>1, <1>2, RestStep, ElementsEmpty
<1>3. CASE c # "wait"
  <2>1. d \in Dirs /\ d \in 0..MaxDirectives /\ dirs[d].status \in {"ACTIVE", "STALLED"}
    BY <1>3, NewestExists, BoundsTyped DEF Dirs, IsNewest, Active
  <2>2. c \in {"decompose", "finalize", "chat"} /\ (c = "finalize" => \A t \in TasksOf(d) : Terminal(t))
    BY <1>3 DEF Choice
  <2> DEFINE f == IF c = "finalize" THEN FinalStatus(d) ELSE "none"
  <2>3. /\ f \in {"none", "STALLED", "COMPLETE"} /\ (c = "finalize" => f # "none")
        /\ c = "finalize" /\ f = "COMPLETE" => \A t \in TasksOf(d) : tasks[t].status = "completed"
        /\ loop' = [loop EXCEPT !.phase = c, !.dir = d, !.final = f]
    BY <1>1, <1>3, <2>2 DEF FinalStatus, Terminal
  <2> HIDE DEF c, d, f
  <2>4. loop'.phase = c /\ loop'.dir = d /\ loop'.outbox = loop.outbox /\ loop'.final = f
    BY <1>0, <2>1, <2>2, <2>3 DEF LoopState, LoopPhases
  <2>5. Doing'
    BY <1>0, <2>1, <2>3, <2>4 DEF TaskInv, Doing
  <2>6. CompleteOK'
    BY <1>0, <2>3, <2>4 DEF TaskInv, CompleteOK, CompleteMeansCompleted, TasksOf
  <2>7. QED
    BY <1>0, <2>4, <2>5, <2>6, GoOnStep
<1>4. QED
  BY <1>2, <1>3

\* A directive becomes complete when all its tasks are completed, or were executed once more
\* since they were read.
LEMMA FinalizeKeeps == ASSUME TaskInv, DecInv, Finalize PROVE TaskInv'
<1> DEFINE d == loop.dir
<1>0. /\ UNCHANGED <<tasks, mail, again, inbox, worker, stranded>> /\ loop \in LoopState
      /\ loop.phase = "finalize" /\ dirs' = [dirs EXCEPT ![d].status = loop.final]
  BY DEF Finalize, Goto, broker, work, DecInv, Typed
<1>1. d \in Dirs /\ loop.final \in {"STALLED", "COMPLETE"} /\ dirs \in [Dirs -> DirRow]
  BY <1>0 DEF TaskInv, Doing
<1>2. loop'.phase = "summary" /\ loop'.outbox = loop.outbox
  BY <1>0, ToPhase DEF Finalize, Goto, LoopPhases
<1>3. /\ dirs' \in [Dirs -> DirRow] /\ dirs'[d].status = loop.final
      /\ \A e \in Dirs \ {d} : dirs'[e] = dirs[e]
  BY <1>0, <1>1 DEF DirRow
<1>4. Doing'
  BY <1>2, <1>3 DEF Doing
<1>5. CompleteOK'
  <2>1. \A e : TasksOf(e)' = TasksOf(e)
    BY <1>0 DEF TasksOf
  <2>2. QED
    BY <1>0, <1>2, <1>3, <2>1 DEF TaskInv, CompleteOK, CompleteMeansCompleted
<1>6. QED
  BY <1>0, <1>2, <1>4, <1>5, GoOnStep

LEMMA PlanKeeps ==
    ASSUME TaskInv, DecInv, NEW content, NEW plan \in Plans, DecomposeReplies(content, plan)
    PROVE  TaskInv'
<1>1. CASE Reply(content)
  BY <1>1, ReplyKeeps
<1>2. CASE /\ Goto([loop EXCEPT !.phase = "persist", !.plan = plan])
           /\ UNCHANGED <<store, broker, work, gov, mpc, seen, incidents>>
  <2>0. /\ UNCHANGED <<tasks, mail, again, inbox, worker, dirs, stranded>>
        /\ loop \in LoopState /\ loop.phase = "decompose" /\ plan \in Seq(Agents)
    BY <1>2, PlansTyped DEF DecomposeReplies, Goto, store, broker, work, DecInv, Typed
  <2>1. loop'.phase = "persist" /\ loop'.dir = loop.dir /\ loop'.outbox = loop.outbox
    BY <1>2, <2>0 DEF Goto, LoopState, LoopPhases
  <2>2. Doing'
    BY <2>0, <2>1 DEF TaskInv, Doing
  <2>3. QED
    BY <2>0, <2>1, <2>2, SameDirs, GoOnStep
<1>3. QED
  BY <1>1, <1>2 DEF DecomposeReplies

LEMMA SummariseKeeps == ASSUME TaskInv, DecInv, Summarise PROVE TaskInv'
<1>0. UNCHANGED <<tasks, mail, again, inbox, worker, dirs, stranded>> /\ loop \in LoopState
  BY DEF Summarise, Goto, broker, work, DecInv, Typed
<1>1. loop'.phase = "publish" /\ loop'.outbox = loop.outbox
  BY <1>0, ToPhase DEF Summarise, Goto, LoopPhases
<1>2. Doing'
  BY <1>0, <1>1 DEF TaskInv, Doing
<1>3. QED
  BY <1>0, <1>1, <1>2, SameDirs, GoOnStep

\* A task that was not known to anybody is persisted and waits in the outbox.
LEMMA PersistKeeps == ASSUME TaskInv, DecInv, PersistTask PROVE TaskInv'
<1>0. /\ UNCHANGED <<mail, again, inbox, worker, dirs, stranded>> /\ loop \in LoopState /\ loop.phase = "persist"
      /\ loop.plan # <<>> /\ loop.plan \in Seq(Agents) /\ loop.outbox \in Seq(Tasks)
      /\ loop.dir \in Dirs
  BY DEF PersistTask, Goto, broker, work, DecInv, Typed, Decomposing, LoopState
<1>1. Head(loop.plan) \in Agents /\ Len(loop.plan) \in Nat /\ Len(loop.plan) >= 1 /\ Tail(loop.plan) \in Seq(Agents)
  BY <1>0
<1>2. PICK n \in 0..MaxTasks : (\A t \in Tasks : Used(t) <=> t <= n) /\ n + Len(loop.plan) <= MaxTasks
  BY <1>0 DEF DecInv, Numbered
<1> DEFINE First(t) == tasks[t].status = "none" /\ \A u \in 1..(t - 1) : tasks[u].status # "none"
           b == CHOOSE t \in Tasks : First(t)
<1>3. b \in Tasks /\ ~Used(b)
  <2>1. n + 1 \in Tasks /\ First(n + 1)
    BY <1>1, <1>2, BoundsTyped DEF Used, Tasks
  <2>2. b \in Tasks /\ First(b)
    BY <2>1
  <2>3. QED
    BY <2>2 DEF Used
<1> DEFINE batch == IF loop.outbox = <<>> THEN b ELSE Head(loop.outbox)
           row == [dir |-> loop.dir, agent |-> Head(loop.plan), status |-> "pending", batch |-> batch]
<1>4. tasks' = [tasks EXCEPT ![b] = row] /\ loop' = [loop EXCEPT !.plan = Tail(loop.plan), !.outbox = Append(loop.outbox, b)]
  BY DEF PersistTask, Goto
<1> HIDE DEF b, batch
<1>5. row.dir = loop.dir /\ row.status = "pending"
  OBVIOUS
<1> HIDE DEF row
<1>6. tasks'[b] = row /\ \A t \in Tasks \ {b} : tasks'[t] = tasks[t]
  BY <1>3, <1>4 DEF DecInv, Typed
<1>7. loop'.phase = "persist" /\ loop'.dir = loop.dir /\ loop'.outbox = Append(loop.outbox, b)
  BY <1>0, <1>4 DEF LoopState
<1>8. mail[b] = "none" /\ b \notin Elements(loop.outbox) /\ \A a \in Agents : ~At(b, a)
  BY <1>3 DEF DecInv, Known, TaskInv, Copies
<1>9. Elements(loop'.outbox) = Elements(loop.outbox) \cup {b}
  BY <1>0, <1>3, <1>7, ElementsAppend
<1>10. Copies' /\ Doing'
  BY <1>0, <1>7 DEF TaskInv, Copies, At, Doing
<1>11. Progressed'
  <2>1. SUFFICES ASSUME NEW t \in Tasks, t \notin again
                 PROVE  /\ Used(t)' /\ mail[t] \in {"none", "ready"} => tasks'[t].status = "pending"
                        /\ \A a \in Agents :
                             /\ t \in Elements(inbox[a]) => tasks'[t].status = "pending"
                             /\ worker[a].task = t =>
                                  /\ worker[a].phase = "authorize" => tasks'[t].status = "pending"
                                  /\ worker[a].phase \in {"llm", "report"} => tasks'[t].status = "running"
                                  /\ worker[a].phase = "fail" => tasks'[t].status # "completed"
    BY <1>0 DEF Progressed
  <2>2. CASE t = b
    BY <1>5, <1>6, <1>8, <2>2 DEF At
  <2>3. CASE t # b
    BY <1>6, <2>1, <2>3 DEF TaskInv, Progressed, Used
  <2>4. QED
    BY <2>2, <2>3
<1>12. OutboxFresh'
  <2>1. /\ Len(loop'.outbox) = Len(loop.outbox) + 1 /\ Len(loop.outbox) \in Nat
        /\ loop'.outbox[Len(loop.outbox) + 1] = b
        /\ \A i \in 1..Len(loop.outbox) : loop'.outbox[i] = loop.outbox[i]
    BY <1>0, <1>3, <1>7
  <2>2. \A i \in 1..Len(loop.outbox) : loop.outbox[i] # b /\ mail[loop.outbox[i]] = "none"
    BY <1>8 DEF Elements, TaskInv, OutboxFresh
  <2>3. \A i \in 1..(Len(loop.outbox) + 1) : i \in 1..Len(loop.outbox) \/ i = Len(loop.outbox) + 1
    BY <2>1
  <2>4. \A i, j \in 1..Len(loop.outbox) : loop.outbox[i] = loop.outbox[j] => i = j
    BY DEF TaskInv, OutboxFresh
  <2>5. QED
    BY <1>0, <1>8, <2>1, <2>2, <2>3, <2>4 DEF OutboxFresh
<1>13. AckMeansEnded'
  <2>1. \A a \in Agents : worker[a].phase = "ack" => worker[a].task \in Tasks /\ worker[a].task # b
    BY <1>3 DEF DecInv, Known
  <2>2. QED
    BY <1>0, <1>6, <2>1 DEF TaskInv, AckMeansEnded, Ended
<1>14. OpenTaskIsHeld'
  BY <1>0, <1>6, <1>9 DEF TaskInv, OpenTaskIsHeld, Held
<1>15. CompleteOK'
  <2>1. dirs[loop.dir].status # "COMPLETE"
    BY <1>0 DEF TaskInv, Doing
  <2>2. QED
    BY <1>0, <1>5, <1>6, <1>7, <2>1 DEF TaskInv, CompleteOK, CompleteMeansCompleted, TasksOf
<1>16. QED
  BY <1>10, <1>11, <1>12, <1>13, <1>14, <1>15 DEF TaskInv

\* The head of the outbox goes to the broker; the rest stays or is written off.
LEMMA PublishKeeps == ASSUME TaskInv, DecInv, Publish PROVE TaskInv'
<1>0. /\ UNCHANGED <<tasks, again, inbox, worker, dirs>> /\ loop \in LoopState
      /\ loop.phase = "publish" /\ loop.outbox \in Seq(Tasks)
  BY DEF Publish, store, work, DecInv, Typed, LoopState
<1>1. CASE loop.outbox = <<>> /\ Goto(Waiting) /\ UNCHANGED mail
  BY <1>0, <1>1, RestStep, ElementsEmpty DEF Goto
<1>2. CASE loop.outbox # <<>> /\ mail' = [mail EXCEPT ![Head(loop.outbox)] = "ready"]
  <2> DEFINE h == Head(loop.outbox)
  <2>1. /\ h \in Tasks /\ h \in Elements(loop.outbox)
        /\ Elements(loop.outbox) = {h} \cup Elements(Tail(loop.outbox))
    BY <1>0, <1>2, ElementsTail
  <2>2. mail[h] = "none" /\ Used(h) /\ \A a \in Agents : ~At(h, a)
    BY <2>1 DEF TaskInv, OutboxFresh, Elements, DecInv, Known, Copies
  <2>3. mail'[h] = "ready" /\ \A t \in Tasks \ {h} : mail'[t] = mail[t]
    BY <1>2, <2>1 DEF DecInv, Typed
  <2>4. /\ Len(Tail(loop.outbox)) = Len(loop.outbox) - 1 /\ Len(loop.outbox) \in Nat /\ Len(loop.outbox) >= 1
        /\ h = loop.outbox[1]
        /\ \A i \in 1..(Len(loop.outbox) - 1) : Tail(loop.outbox)[i] = loop.outbox[i + 1]
    BY <1>0, <1>2
  <2> HIDE DEF h
  <2>5. Copies' /\ Progressed'
    <3>1. Copies'
      BY <1>0, <2>2, <2>3 DEF TaskInv, Copies, At
    <3>2. Progressed'
      BY <1>0, <2>2, <2>3 DEF TaskInv, Progressed, Used
    <3>3. QED
      BY <3>1, <3>2
  <2>6. /\ stranded \subseteq stranded'
        /\ Elements(loop.outbox) \subseteq {h} \cup Elements(loop'.outbox) \cup stranded'
        /\ OutboxFresh' /\ loop'.phase \in {"publish", "exited"}
    <3>1. CASE Exit
      <4>1. loop'.outbox = <<>> /\ loop'.phase = "exited" /\ Len(loop'.outbox) = 0
        BY <3>1, WaitingTyped DEF Exit
      <4>2. QED
        BY <3>1, <4>1 DEF Exit, OutboxFresh
    <3>2. CASE Goto([loop EXCEPT !.outbox = Tail(@)])
      <4>1. loop'.phase = "publish" /\ loop'.outbox = Tail(loop.outbox) /\ stranded' = stranded
        BY <1>0, <3>2 DEF Goto, LoopState
      <4>2. \A i \in 1..Len(Tail(loop.outbox)) :
              /\ i + 1 \in 1..Len(loop.outbox) /\ i + 1 # 1 /\ 1 \in 1..Len(loop.outbox)
              /\ Tail(loop.outbox)[i] = loop.outbox[i + 1]
        BY <2>4
      <4>3. \A i \in 1..Len(Tail(loop.outbox)) :
              /\ Tail(loop.outbox)[i] # h /\ mail[Tail(loop.outbox)[i]] = "none"
              /\ Tail(loop.outbox)[i] \in Tasks
        BY <1>0, <2>4, <4>2 DEF TaskInv, OutboxFresh
      <4>4. \A i, j \in 1..Len(Tail(loop.outbox)) : Tail(loop.outbox)[i] = Tail(loop.outbox)[j] => i = j
        <5>1. SUFFICES ASSUME NEW i \in 1..Len(Tail(loop.outbox)), NEW j \in 1..Len(Tail(loop.outbox)),
                              Tail(loop.outbox)[i] = Tail(loop.outbox)[j]
                       PROVE  i = j
          OBVIOUS
        <5>2. i + 1 = j + 1
          BY <4>2, <5>1 DEF TaskInv, OutboxFresh
        <5>3. QED
          BY <5>2, <2>4
      <4>5. OutboxFresh'
        BY <2>3, <4>1, <4>3, <4>4 DEF OutboxFresh
      <4>6. QED
        BY <2>1, <4>1, <4>5
    <3>3. QED
      BY <1>2, <3>1, <3>2 DEF Publish
  <2>7. AckMeansEnded' /\ Doing'
    BY <1>0, <2>6 DEF TaskInv, AckMeansEnded, Ended, Doing
  <2>8. OpenTaskIsHeld'
    BY <1>0, <2>3, <2>6 DEF TaskInv, OpenTaskIsHeld, Held
  <2>9. QED
    BY <1>0, <2>5, <2>6, <2>7, <2>8, SameDirs DEF TaskInv
<1>3. QED
  BY <1>1, <1>2 DEF Publish

-----------------------------------------------------------------------------
(* Broker and workers                                                      *)

\* A first or a repeated delivery.
LEMMA BrokerKeeps ==
    ASSUME TaskInv, DecInv, NEW t \in Tasks, Deliver(t) \/ AckWaitExpires(t)
    PROVE  TaskInv'
<1> DEFINE b == tasks[t].agent
<1>0. /\ UNCHANGED <<tasks, worker, loop, dirs, stranded>> /\ Receive(t) /\ mail[t] \in {"ready", "out"}
      /\ mail'[t] = "out" /\ \A u \in Tasks \ {t} : mail'[u] = mail[u]
      /\ (again' = again /\ mail[t] = "ready") \/ again' = again \cup {t}
  BY DEF Deliver, AckWaitExpires, store, DecInv, Typed
<1>1. b \in Agents /\ inbox[b] \in Seq(Tasks)
  BY DEF DecInv, Typed, TaskRow
<1>2. inbox'[b] = Append(inbox[b], t) /\ \A a \in Agents \ {b} : inbox'[a] = inbox[a]
  BY <1>0, <1>1 DEF Receive, DecInv, Typed
<1>3. Elements(Append(inbox[b], t)) = Elements(inbox[b]) \cup {t}
  BY <1>1, ElementsAppend
<1>4. \A a \in Agents : Elements(inbox'[a]) = Elements(inbox[a]) \/ (a = b /\ Elements(inbox'[a]) = Elements(inbox[a]) \cup {t})
  BY <1>2, <1>3
<1>5. /\ Len(inbox'[b]) = Len(inbox[b]) + 1 /\ Len(inbox[b]) \in Nat /\ inbox'[b][Len(inbox[b]) + 1] = t
      /\ \A i \in 1..Len(inbox[b]) : inbox'[b][i] = inbox[b][i]
  BY <1>1, <1>2
<1> HIDE DEF b
<1>6. t \notin again' => /\ tasks[t].status = "pending" /\ \A a \in Agents : ~At(t, a)
  BY <1>0 DEF TaskInv, Copies, Progressed, DecInv, Known
<1>7. Copies'
  <2>1. \A a \in Agents : worker'[a].phase = "idle" => worker'[a].task = 0
    BY <1>0 DEF TaskInv, Copies
  <2>2. \A u \in Tasks, a \in Agents : At(u, a)' => mail'[u] # "none"
    BY <1>0, <1>4 DEF TaskInv, Copies, At
  <2>3. ASSUME NEW u \in Tasks \ again', NEW a \in Agents
        PROVE  /\ At(u, a)' => mail'[u] = "out"
               /\ worker'[a].task = u => u \notin Elements(inbox'[a])
               /\ \A i, j \in 1..Len(inbox'[a]) : inbox'[a][i] = u /\ inbox'[a][j] = u => i = j
    <3>0. u \in Tasks \ again
      BY <1>0, <2>3
    <3>1. At(u, a)' => mail'[u] = "out"
      BY <1>0, <1>4, <3>0 DEF TaskInv, Copies, At
    <3>2. worker'[a].task = u => u \notin Elements(inbox'[a])
      <4>1. CASE u = t
        BY <1>0, <1>6, <2>3, <4>1 DEF At
      <4>2. CASE u # t
        <5>1. worker[a].task = u => u \notin Elements(inbox[a])
          BY <3>0 DEF TaskInv, Copies
        <5>2. u \in Elements(inbox'[a]) => u \in Elements(inbox[a])
          BY <1>4, <4>2
        <5>3. QED
          BY <1>0, <5>1, <5>2
      <4>3. QED
        BY <4>1, <4>2
    <3>3. \A i, j \in 1..Len(inbox'[a]) : inbox'[a][i] = u /\ inbox'[a][j] = u => i = j
      <4>1. CASE a # b
        BY <1>2, <3>0, <4>1 DEF TaskInv, Copies
      <4>2. CASE a = b /\ u # t
        <5>1. \A i \in 1..Len(inbox'[b]) : inbox'[b][i] = u => i \in 1..Len(inbox[b])
          BY <1>5, <4>2
        <5>2. QED
          BY <1>1, <1>5, <3>0, <4>2, <5>1 DEF TaskInv, Copies
      <4>3. CASE a = b /\ u = t
        <5>1. \A i \in 1..Len(inbox[b]) : inbox[b][i] # t
          BY <1>1, <1>6, <2>3, <4>3 DEF At, Elements
        <5>2. \A i \in 1..Len(inbox'[b]) : inbox'[b][i] = t => i = Len(inbox[b]) + 1
          BY <1>5, <5>1
        <5>3. QED
          BY <4>3, <5>2
      <4>4. QED
        BY <4>1, <4>2, <4>3
    <3>4. QED
      BY <3>1, <3>2, <3>3
  <2>4. QED
    BY <2>1, <2>2, <2>3 DEF Copies
<1>8. Progressed'
  BY <1>0, <1>4, <1>6 DEF TaskInv, Progressed, Used
<1>9. OutboxFresh'
  <2>1. \A i \in 1..Len(loop.outbox) : loop.outbox[i] \in Tasks
    BY DEF DecInv, Typed, LoopState
  <2>2. QED
    BY <1>0, <2>1 DEF TaskInv, OutboxFresh
<1>10. Doing' /\ AckMeansEnded'
  BY <1>0 DEF TaskInv, Doing, AckMeansEnded, Ended
<1>11. OpenTaskIsHeld'
  <2>1. \A u \in Tasks : Elements(inbox[tasks[u].agent]) \subseteq Elements(inbox'[tasks[u].agent])
    BY <1>4 DEF DecInv, Typed, TaskRow
  <2>2. QED
    BY <1>0, <2>1 DEF TaskInv, OpenTaskIsHeld, Held
<1>12. CompleteOK'
  BY <1>0 DEF TaskInv, CompleteOK, CompleteMeansCompleted, TasksOf
<1>13. QED
  BY <1>7, <1>8, <1>9, <1>10, <1>11, <1>12 DEF TaskInv

\* A worker takes the first message; that was the only one of a task that was delivered once.
LEMMA TakeKeeps == ASSUME TaskInv, DecInv, NEW a \in Agents, TakeTask(a) PROVE TaskInv'
<1> DEFINE h == Head(inbox[a])
<1>0. /\ UNCHANGED <<tasks, mail, again, loop, dirs, stranded>> /\ inbox[a] \in Seq(Tasks) /\ inbox[a] # <<>>
      /\ worker[a].phase = "idle" /\ worker[a].task = 0
  BY DEF TakeTask, store, broker, DecInv, Typed, TaskInv, Copies
<1>1. /\ h \in Tasks /\ h \in Elements(inbox[a]) /\ tasks[h].agent = a /\ mail[h] # "none"
      /\ Elements(inbox[a]) = {h} \cup Elements(Tail(inbox[a]))
  <2>1. h \in Tasks /\ h \in Elements(inbox[a]) /\ Elements(inbox[a]) = {h} \cup Elements(Tail(inbox[a]))
    BY <1>0, ElementsTail
  <2>2. QED
    BY <2>1 DEF DecInv, Known, TaskInv, Copies, At
<1>2. inbox'[a] = Tail(inbox[a]) /\ \A b \in Agents \ {a} : inbox'[b] = inbox[b]
  BY DEF TakeTask, DecInv, Typed
<1>3. /\ worker'[a].task = h /\ worker'[a].phase = "authorize"
      /\ \A b \in Agents \ {a} : worker'[b] = worker[b]
  BY DEF TakeTask, DecInv, Typed
<1>4. /\ Len(Tail(inbox[a])) = Len(inbox[a]) - 1 /\ Len(inbox[a]) \in Nat /\ Len(inbox[a]) >= 1
      /\ h = inbox[a][1]
      /\ \A i \in 1..(Len(inbox[a]) - 1) : Tail(inbox[a])[i] = inbox[a][i + 1]
  BY <1>0
<1> HIDE DEF h
<1>5. \A i \in 1..Len(Tail(inbox[a])) :
        /\ i + 1 \in 1..Len(inbox[a]) /\ i + 1 # 1 /\ 1 \in 1..Len(inbox[a])
        /\ Tail(inbox[a])[i] = inbox[a][i + 1]
  BY <1>4
<1>6. \A t \in Tasks \ again : \A i, j \in 1..Len(Tail(inbox[a])) :
        Tail(inbox[a])[i] = t /\ Tail(inbox[a])[j] = t => i = j
  <2>1. SUFFICES ASSUME NEW t \in Tasks \ again,
                        NEW i \in 1..Len(Tail(inbox[a])), NEW j \in 1..Len(Tail(inbox[a])),
                        Tail(inbox[a])[i] = t, Tail(inbox[a])[j] = t
                 PROVE  i = j
    OBVIOUS
  <2>2. i + 1 = j + 1
    BY <1>5, <2>1 DEF TaskInv, Copies
  <2>3. QED
    BY <2>2, <1>4
<1>7. h \in again \/ h \notin Elements(Tail(inbox[a]))
  BY <1>1, <1>4, <1>5 DEF TaskInv, Copies, Elements
<1>8. \A t \in Tasks, b \in Agents : At(t, b)' => At(t, b)
  BY <1>1, <1>2, <1>3 DEF At
<1>9. Copies'
  <2>1. \A b \in Agents : worker'[b].phase = "idle" => worker'[b].task = 0
    BY <1>3 DEF TaskInv, Copies
  <2>2. \A t \in Tasks, b \in Agents : At(t, b)' => mail'[t] # "none"
    BY <1>0, <1>8 DEF TaskInv, Copies
  <2>3. ASSUME NEW t \in Tasks \ again', NEW b \in Agents
        PROVE  /\ At(t, b)' => mail'[t] = "out"
               /\ worker'[b].task = t => t \notin Elements(inbox'[b])
               /\ \A i, j \in 1..Len(inbox'[b]) : inbox'[b][i] = t /\ inbox'[b][j] = t => i = j
    <3>1. At(t, b)' => mail'[t] = "out"
      BY <1>0, <1>8, <2>3 DEF TaskInv, Copies
    <3>2. CASE b = a
      <4>1. worker'[b].task = t => t \notin Elements(inbox'[b])
        BY <1>0, <1>2, <1>3, <1>7, <2>3, <3>2
      <4>2. \A i, j \in 1..Len(inbox'[b]) : inbox'[b][i] = t /\ inbox'[b][j] = t => i = j
        <5>1. t \in Tasks \ again /\ inbox'[b] = Tail(inbox[a])
          BY <1>0, <1>2, <2>3, <3>2
        <5>2. QED
          BY <1>6, <5>1
      <4>3. QED
        BY <3>1, <4>1, <4>2
    <3>3. CASE b # a
      BY <1>0, <1>2, <1>3, <3>1, <3>3 DEF TaskInv, Copies
    <3>4. QED
      BY <3>2, <3>3
  <2>4. QED
    BY <2>1, <2>2, <2>3 DEF Copies
<1>10. Progressed'
  BY <1>0, <1>1, <1>2, <1>3 DEF TaskInv, Progressed, Used
<1>11. OutboxFresh' /\ Doing' /\ AckMeansEnded'
  BY <1>0, <1>3 DEF TaskInv, OutboxFresh, Doing, AckMeansEnded, Ended
<1>12. OpenTaskIsHeld'
  <2>1. \A t \in Tasks, b \in Agents : At(t, b) => At(t, b)'
    <3>1. 0 \notin Tasks
      BY BoundsTyped DEF Tasks
    <3>2. QED
      BY <1>0, <1>1, <1>2, <1>3, <3>1 DEF At
  <2>2. \A t \in Tasks : tasks[t].agent \in Agents
    BY DEF DecInv, Typed, TaskRow
  <2>3. QED
    BY <1>0, <2>1, <2>2 DEF TaskInv, OpenTaskIsHeld, Held, At
<1>13. QED
  BY <1>0, <1>9, <1>10, <1>11, <1>12, SameDirs DEF TaskInv

\* A handler goes on to phase p, and its task has the status s from then on.
LEMMA MoveOn ==
    ASSUME TaskInv, DecInv, NEW a \in Agents, worker[a].phase # "idle", NEW p \in WorkerPhases \ {"idle"},
           worker' = [worker EXCEPT ![a].phase = p], UNCHANGED <<mail, again, inbox, loop, dirs>>,
           stranded \subseteq stranded', NEW s \in Statuses \ {"none"},
           tasks' = [tasks EXCEPT ![worker[a].task].status = s],
           \/ worker[a].task \in again
           \/ /\ s # tasks[worker[a].task].status => tasks[worker[a].task].status # "completed"
              /\ p = "authorize" => s = "pending"
              /\ p \in {"llm", "report"} => s = "running"
              /\ p = "fail" => s # "completed",
           p = "ack" => s \in {"completed", "failed", "blocked"} \/ worker[a].task \in stranded'
    PROVE  TaskInv'
<1> DEFINE t == worker[a].task
<1>0. t \in Tasks /\ Used(t) /\ tasks[t].agent = a /\ \A b \in Agents \ {a} : worker[b].task # t /\ t \notin Elements(inbox[b])
  <2>1. t \in Tasks /\ Used(t) /\ tasks[t].agent = a
    BY DEF DecInv, Known
  <2>2. \A b \in Agents \ {a} : t \notin Elements(inbox[b])
    BY <2>1 DEF DecInv, Known
  <2>3. 0 \notin Tasks
    BY BoundsTyped DEF Tasks
  <2>4. \A b \in Agents \ {a} : worker[b].task # t
    BY <2>1, <2>3 DEF DecInv, Known, TaskInv, Copies
  <2>5. QED
    BY <2>1, <2>2, <2>4
<1>1. PICK row : row = [tasks[t] EXCEPT !.status = s]
  OBVIOUS
<1>2. row.status = s /\ row.dir = tasks[t].dir /\ row.agent = tasks[t].agent
  BY <1>0, <1>1 DEF DecInv, Typed, TaskRow
<1>3. tasks' = [tasks EXCEPT ![t] = row]
  BY <1>1
<1>4. tasks'[t] = row /\ \A u \in Tasks \ {t} : tasks'[u] = tasks[u]
  BY <1>0, <1>3 DEF DecInv, Typed
<1>5. worker'[a].phase = p /\ worker'[a].task = t /\ \A b \in Agents \ {a} : worker'[b] = worker[b]
  BY DEF DecInv, Typed, WorkerState
<1> HIDE DEF t
<1>6. \A b \in Agents : worker'[b].task = worker[b].task
  BY <1>5 DEF t
<1>7. Copies'
  BY <1>5, <1>6 DEF TaskInv, Copies, At
<1>8. Progressed'
  <2>1. ASSUME NEW u \in Tasks \ again
        PROVE  /\ Used(u)' /\ mail[u] \in {"none", "ready"} => tasks'[u].status = "pending"
               /\ \A b \in Agents :
                    /\ u \in Elements(inbox[b]) => tasks'[u].status = "pending"
                    /\ worker'[b].task = u =>
                         /\ worker'[b].phase = "authorize" => tasks'[u].status = "pending"
                         /\ worker'[b].phase \in {"llm", "report"} => tasks'[u].status = "running"
                         /\ worker'[b].phase = "fail" => tasks'[u].status # "completed"
    <3>1. CASE u = t
      <4>1. mail[t] = "out" /\ t \notin Elements(inbox[a])
        BY <1>0, <2>1, <3>1 DEF TaskInv, Copies, At, t
      <4>2. \A b \in Agents : t \notin Elements(inbox[b])
        BY <1>0, <4>1
      <4>3. tasks'[u].status = s
        BY <1>2, <1>4, <3>1
      <4>4. \A b \in Agents : worker'[b].task = u => b = a
        BY <1>0, <1>6, <3>1
      <4>5. /\ p = "authorize" => s = "pending"
            /\ p \in {"llm", "report"} => s = "running"
            /\ p = "fail" => s # "completed"
        BY <2>1, <3>1 DEF t
      <4>6. QED
        BY <1>5, <3>1, <4>1, <4>2, <4>3, <4>4, <4>5
    <3>2. CASE u # t
      <4>1. \A b \in Agents : worker'[b].task = u => worker'[b] = worker[b]
        BY <1>5, <3>2
      <4>2. tasks'[u] = tasks[u]
        BY <1>4, <3>2
      <4>3. QED
        BY <4>1, <4>2 DEF TaskInv, Progressed, Used
    <3>3. QED
      BY <3>1, <3>2
  <2>2. QED
    BY <2>1 DEF Progressed
<1>9. OutboxFresh' /\ Doing'
  BY DEF TaskInv, OutboxFresh, Doing
<1>10. AckMeansEnded'
  <2>1. \A b \in Agents \ {a} : worker[b].phase = "ack" => worker[b].task \in Tasks \ {t}
    BY <1>0 DEF DecInv, Known
  <2>2. \A b \in Agents \ {a} : worker'[b].phase = "ack" =>
          tasks'[worker'[b].task].status \in {"completed", "failed", "blocked"} \/ worker'[b].task \in stranded'
    BY <1>4, <1>5, <2>1 DEF TaskInv, AckMeansEnded, Ended
  <2>3. worker'[a].phase = "ack" =>
          tasks'[worker'[a].task].status \in {"completed", "failed", "blocked"} \/ worker'[a].task \in stranded'
    BY <1>2, <1>4, <1>5 DEF t
  <2>4. QED
    BY <2>2, <2>3 DEF AckMeansEnded, Ended
<1>11. OpenTaskIsHeld'
  <2>1. \A u \in Tasks : tasks'[u].agent = tasks[u].agent /\ tasks[u].agent \in Agents
    BY <1>2, <1>4 DEF DecInv, Typed, TaskRow
  <2>2. ASSUME NEW u \in Tasks, tasks'[u].status \in {"pending", "running"}
        PROVE  Held(u)' \/ u \in stranded'
    <3>1. CASE u = t
      BY <1>0, <1>5, <2>1, <3>1 DEF Held
    <3>2. CASE u # t
      BY <1>4, <1>6, <2>1, <2>2, <3>2 DEF TaskInv, OpenTaskIsHeld, Held
    <3>3. QED
      BY <3>1, <3>2
  <2>3. QED
    BY <2>2 DEF OpenTaskIsHeld
<1>12. CompleteOK'
  <2>1. \A u \in Tasks : tasks'[u].dir = tasks[u].dir
    BY <1>2, <1>4
  <2>2. \A u \in Tasks : tasks[u].status = "completed" => tasks'[u].status = "completed" \/ u \in again
    BY <1>2, <1>4 DEF t
  <2>3. QED
    BY <2>1, <2>2 DEF TaskInv, CompleteOK, CompleteMeansCompleted, TasksOf
<1>13. QED
  BY <1>7, <1>8, <1>9, <1>10, <1>11, <1>12 DEF TaskInv

\* A failed write, or none: the task keeps its row.
LEMMA SameRow ==
    ASSUME DecInv, NEW a \in Agents, worker[a].phase # "idle", tasks' = tasks
    PROVE  /\ tasks[worker[a].task].status \in Statuses \ {"none"}
           /\ tasks' = [tasks EXCEPT ![worker[a].task].status = tasks[worker[a].task].status]
<1>1. worker[a].task \in Tasks /\ Used(worker[a].task) /\ tasks \in [Tasks -> TaskRow]
  BY DEF DecInv, Known, Typed
<1>2. [tasks[worker[a].task] EXCEPT !.status = tasks[worker[a].task].status] = tasks[worker[a].task]
  BY <1>1 DEF TaskRow
<1>3. QED
  BY <1>1, <1>2 DEF Used, TaskRow

LEMMA HandlerKeeps ==
    ASSUME TaskInv, DecInv, NEW a \in Agents,
           Authorize(a) \/ ReportTask(a) \/ CompleteTask(a) \/ ExecuteFails(a) \/ FailTask(a)
    PROVE  TaskInv'
<1> DEFINE t == worker[a].task
           was == tasks[t].status
<1>0. /\ worker[a].phase # "idle" /\ UNCHANGED <<mail, again, inbox, loop, dirs>> /\ t \in Tasks
      /\ stranded \subseteq stranded'
  BY DEF Authorize, StartTask, ReportTask, CompleteTask, ExecuteFails, FailTask, OnlyWork, broker, Written, WriteFails, DecInv, Known
<1>1. \/ t \in again
      \/ /\ worker[a].phase = "authorize" => was = "pending"
         /\ worker[a].phase \in {"llm", "report"} => was = "running"
         /\ worker[a].phase = "fail" => was # "completed"
  BY <1>0 DEF TaskInv, Progressed
<1> DEFINE Moves(p, s) == /\ worker' = [worker EXCEPT ![a].phase = p]
                          /\ tasks' = [tasks EXCEPT ![t].status = s]
                          /\ t \in again \/ (/\ s # was => was # "completed"
                                             /\ p \in {"llm", "report"} => s = "running"
                                             /\ p = "fail" => s # "completed")
                          /\ p = "ack" => s \in {"completed", "failed", "blocked"} \/ t \in stranded'
<1>2. {"running", "blocked", "completed", "failed"} \subseteq Statuses \ {"none"}
  BY DEF Statuses
<1>3. \E p \in {"llm", "report", "fail", "ack"}, s \in Statuses \ {"none"} : Moves(p, s)
  <2>1. CASE Written(a, "blocked", "ack") /\ worker[a].phase = "authorize"
    <3>1. Moves("ack", "blocked")
      BY <1>1, <2>1 DEF Written
    <3> HIDE DEF Moves
    <3>2. QED
      BY <1>2, <3>1
  <2>2. CASE Written(a, "running", "llm") /\ worker[a].phase = "authorize"
    <3>1. Moves("llm", "running")
      BY <1>1, <2>2 DEF Written
    <3> HIDE DEF Moves
    <3>2. QED
      BY <1>2, <3>1
  <2>3. CASE Written(a, "completed", "ack") /\ worker[a].phase = "report"
    <3>1. Moves("ack", "completed")
      BY <1>1, <2>3 DEF Written
    <3> HIDE DEF Moves
    <3>2. QED
      BY <1>2, <3>1
  <2>4. CASE Written(a, "failed", "fail") /\ worker[a].phase = "llm"
    <3>1. Moves("fail", "failed")
      BY <1>1, <2>4 DEF Written
    <3> HIDE DEF Moves
    <3>2. QED
      BY <1>2, <3>1
  <2>5. CASE Written(a, "failed", "ack") /\ worker[a].phase = "fail"
    <3>1. Moves("ack", "failed")
      BY <1>1, <2>5 DEF Written
    <3> HIDE DEF Moves
    <3>2. QED
      BY <1>2, <3>1
  <2>6. CASE WriteFails(a, "ack")
    <3>1. was \in Statuses \ {"none"} /\ tasks' = [tasks EXCEPT ![t].status = was]
      BY <1>0, <2>6, SameRow DEF WriteFails
    <3>2. Moves("ack", was)
      BY <2>6, <3>1 DEF WriteFails
    <3> HIDE DEF Moves
    <3>3. QED
      BY <3>1, <3>2
  <2>7. CASE /\ WriteFails(a, "fail") \/ (worker' = [worker EXCEPT ![a].phase = "fail"] /\ UNCHANGED tasks)
             /\ worker[a].phase \in {"authorize", "llm", "report"}
    <3>1. was \in Statuses \ {"none"} /\ tasks' = [tasks EXCEPT ![t].status = was]
      BY <1>0, <2>7, SameRow DEF WriteFails
    <3>2. Moves("fail", was)
      BY <1>1, <2>7, <3>1 DEF WriteFails
    <3> HIDE DEF Moves
    <3>3. QED
      BY <3>1, <3>2
  <2>8. CASE worker[a].phase = "llm" /\ worker' = [worker EXCEPT ![a].phase = "report"] /\ UNCHANGED tasks
    <3>1. was \in Statuses \ {"none"} /\ tasks' = [tasks EXCEPT ![t].status = was]
      BY <1>0, <2>8, SameRow
    <3>2. Moves("report", was)
      BY <1>1, <2>8, <3>1
    <3> HIDE DEF Moves
    <3>3. QED
      BY <3>1, <3>2
  <2> HIDE DEF Moves
  <2>9. QED
    BY <2>1, <2>2, <2>3, <2>4, <2>5, <2>6, <2>7, <2>8 DEF Authorize, StartTask, ReportTask, CompleteTask, ExecuteFails, FailTask
<1>4. PICK p \in {"llm", "report", "fail", "ack"}, s \in Statuses \ {"none"} : Moves(p, s)
  BY <1>3
<1>5. p \in WorkerPhases \ {"idle"} /\ p # "authorize"
  BY <1>4 DEF WorkerPhases
<1>6. QED
  BY <1>0, <1>4, <1>5, MoveOn

\* A handler is done: acknowledged, or sent back after a panic.
LEMMA DoneKeeps == ASSUME TaskInv, DecInv, NEW a \in Agents, Ack(a) \/ HandlerPanics(a) PROVE TaskInv'
<1>a. PICK t : t = worker[a].task
  OBVIOUS
<1>0. /\ t \in Tasks /\ Used(t) /\ tasks[t].agent = a /\ worker[a].phase # "idle"
      /\ UNCHANGED <<tasks, inbox, loop, dirs>> /\ t = worker[a].task
  BY <1>a DEF Ack, HandlerPanics, DecInv, Known, store
<1>1. mail[t] # "none" /\ (t \notin again => mail[t] = "out")
  BY <1>0 DEF TaskInv, Copies, At
<1>2. 0 \notin Tasks
  BY BoundsTyped DEF Tasks
<1>3. \A b \in Agents \ {a} : worker[b].task # t /\ t \notin Elements(inbox[b])
  BY <1>0, <1>2 DEF DecInv, Known, TaskInv, Copies
<1>4. /\ mail'[t] # "none" /\ \A u \in Tasks \ {t} : mail'[u] = mail[u]
      /\ again \subseteq again' /\ again' \subseteq again \cup {t} /\ stranded \subseteq stranded'
      /\ t \notin again' => worker[a].phase = "ack" /\ mail'[t] = "acked"
      /\ mail'[t] \in {"ready", "out"} \/ Ended(t) \/ t \in stranded'
  <2>1. CASE Ack(a)
    BY <1>0, <2>1 DEF Ack, DecInv, Typed, TaskInv, AckMeansEnded
  <2>2. CASE HandlerPanics(a)
    BY <1>0, <1>1, <2>2 DEF HandlerPanics, DecInv, Typed, MailStates
  <2>3. QED
    BY <2>1, <2>2
<1>5. worker'[a] = Idle /\ \A b \in Agents \ {a} : worker'[b] = worker[b]
  BY DEF Ack, HandlerPanics, DecInv, Typed
<1>6. t \notin again' => \A b \in Agents : ~At(t, b)'
  <2>1. SUFFICES ASSUME t \notin again', NEW b \in Agents PROVE worker'[b].task # t /\ t \notin Elements(inbox[b])
    BY <1>0 DEF At
  <2>2. t \notin again
    BY <1>4, <2>1
  <2>3. CASE b = a
    BY <1>0, <1>2, <1>5, <2>2, <2>3, IdleTask DEF TaskInv, Copies
  <2>4. CASE b # a
    BY <1>3, <1>5, <2>4
  <2>5. QED
    BY <2>3, <2>4
<1>7. \A u \in Tasks, b \in Agents : At(u, b)' => At(u, b)
  BY <1>0, <1>2, <1>5, IdleTask DEF At
<1>8. Copies'
  <2>1. \A b \in Agents : worker'[b].phase = "idle" => worker'[b].task = 0
    BY <1>5, IdleTask DEF TaskInv, Copies
  <2>2. \A u \in Tasks, b \in Agents : At(u, b)' => mail'[u] # "none"
    BY <1>4, <1>7 DEF TaskInv, Copies
  <2>3. ASSUME NEW u \in Tasks \ again', NEW b \in Agents
        PROVE  /\ At(u, b)' => mail'[u] = "out"
               /\ worker'[b].task = u => u \notin Elements(inbox'[b])
               /\ \A i, j \in 1..Len(inbox'[b]) : inbox'[b][i] = u /\ inbox'[b][j] = u => i = j
    <3>0. u \in Tasks \ again
      BY <1>4, <2>3
    <3>1. At(u, b)' => mail'[u] = "out"
      BY <1>4, <1>6, <1>7, <2>3, <3>0 DEF TaskInv, Copies
    <3>2. worker'[b].task = u => u \notin Elements(inbox'[b])
      BY <1>0, <1>2, <1>5, <3>0, IdleTask DEF TaskInv, Copies
    <3>3. \A i, j \in 1..Len(inbox'[b]) : inbox'[b][i] = u /\ inbox'[b][j] = u => i = j
      BY <1>0, <3>0 DEF TaskInv, Copies
    <3>4. QED
      BY <3>1, <3>2, <3>3
  <2>4. QED
    BY <2>1, <2>2, <2>3 DEF Copies
<1>9. Progressed'
  <2>1. ASSUME NEW u \in Tasks \ again'
        PROVE  /\ Used(u)' /\ mail'[u] \in {"none", "ready"} => tasks'[u].status = "pending"
               /\ \A b \in Agents :
                    /\ u \in Elements(inbox'[b]) => tasks'[u].status = "pending"
                    /\ worker'[b].task = u =>
                         /\ worker'[b].phase = "authorize" => tasks'[u].status = "pending"
                         /\ worker'[b].phase \in {"llm", "report"} => tasks'[u].status = "running"
                         /\ worker'[b].phase = "fail" => tasks'[u].status # "completed"
    <3>1. CASE u = t
      BY <1>4, <1>6, <2>1, <3>1 DEF At
    <3>2. CASE u # t
      <4>1. u \in Tasks \ again /\ mail'[u] = mail[u]
        BY <1>4, <2>1, <3>2
      <4>2. \A b \in Agents : worker'[b].task = u => worker'[b] = worker[b]
        BY <1>2, <1>5, IdleTask
      <4>3. QED
        BY <1>0, <4>1, <4>2 DEF TaskInv, Progressed, Used
    <3>3. QED
      BY <3>1, <3>2
  <2>2. QED
    BY <2>1 DEF Progressed
<1>10. OutboxFresh'
  <2>1. \A i \in 1..Len(loop.outbox) : loop.outbox[i] \in Tasks /\ loop.outbox[i] # t
    BY <1>1 DEF DecInv, Typed, LoopState, TaskInv, OutboxFresh
  <2>2. QED
    BY <1>0, <1>4, <2>1 DEF TaskInv, OutboxFresh
<1>11. Doing' /\ AckMeansEnded'
  BY <1>0, <1>4, <1>5, IdleTask DEF TaskInv, Doing, AckMeansEnded, Ended
<1>12. OpenTaskIsHeld'
  <2>1. ASSUME NEW u \in Tasks, tasks[u].status \in {"pending", "running"} PROVE Held(u)' \/ u \in stranded'
    <3>1. CASE u = t
      BY <1>0, <1>4, <2>1, <3>1 DEF Held, Ended
    <3>2. CASE u # t
      <4>1. \A b \in Agents : worker[b].task = u => worker'[b].task = u
        BY <1>0, <1>5, <3>2
      <4>2. tasks[u].agent \in Agents
        BY DEF DecInv, Typed, TaskRow
      <4>3. QED
        BY <1>0, <1>4, <2>1, <3>2, <4>1, <4>2 DEF TaskInv, OpenTaskIsHeld, Held
    <3>3. QED
      BY <3>1, <3>2
  <2>2. QED
    BY <1>0, <2>1 DEF OpenTaskIsHeld
<1>13. CompleteOK'
  BY <1>0, <1>4 DEF TaskInv, CompleteOK, CompleteMeansCompleted, TasksOf
<1>14. QED
  BY <1>8, <1>9, <1>10, <1>11, <1>12, <1>13 DEF TaskInv

\* What was in memory is written off or will be delivered again.
LEMMA CrashKeeps == ASSUME TaskInv, DecInv, Crash PROVE TaskInv'
<1>0. /\ UNCHANGED <<tasks, dirs>> /\ loop' = Waiting
      /\ \A t \in Tasks : mail'[t] = IF mail[t] = "out" THEN "ready" ELSE mail[t]
      /\ again' = again \cup {t \in Tasks : mail[t] = "out"}
      /\ stranded' = stranded \cup Elements(loop.outbox) \cup {t \in again : mail[t] = "acked"}
      /\ \A a \in Agents : inbox'[a] = <<>> /\ worker'[a] = Idle
  BY DEF Crash, store
<1>1. loop'.outbox = <<>> /\ loop'.phase = "wait" /\ Len(loop'.outbox) = 0 /\ Len(<<>>) = 0
  BY <1>0, WaitingTyped
<1>2. 0 \notin Tasks
  BY BoundsTyped DEF Tasks
<1>3. \A t \in Tasks, a \in Agents : worker'[a].task # t /\ t \notin Elements(inbox'[a])
  BY <1>0, <1>2, IdleTask, ElementsEmpty
<1>4. Copies'
  BY <1>0, <1>1, <1>3, IdleTask DEF Copies, At
<1>5. Progressed'
  BY <1>0, <1>3 DEF TaskInv, Progressed, Used
<1>6. OutboxFresh' /\ Doing' /\ AckMeansEnded'
  BY <1>0, <1>1, IdleTask DEF TaskInv, OutboxFresh, Doing, AckMeansEnded
<1>7. OpenTaskIsHeld'
  <2>1. ASSUME NEW t \in Tasks, tasks[t].status \in {"pending", "running"} PROVE Held(t)' \/ t \in stranded'
    <3>1. Held(t) \/ t \in stranded
      BY <2>1 DEF TaskInv, OpenTaskIsHeld
    <3>2. CASE At(t, tasks[t].agent)
      <4>1. tasks[t].agent \in Agents /\ mail[t] \in MailStates
        BY DEF DecInv, Typed, TaskRow
      <4>2. mail[t] # "none" /\ (t \in again \/ mail[t] = "out")
        BY <3>2, <4>1 DEF TaskInv, Copies
      <4>3. QED
        BY <1>0, <4>1, <4>2 DEF Held, MailStates
    <3>3. CASE ~At(t, tasks[t].agent)
      BY <1>0, <3>1, <3>3 DEF Held, At
    <3>4. QED
      BY <3>2, <3>3
  <2>2. QED
    BY <1>0, <2>1 DEF OpenTaskIsHeld
<1>8. CompleteOK'
  BY <1>0, <1>1 DEF TaskInv, CompleteOK, CompleteMeansCompleted, TasksOf
<1>9. QED
  BY <1>4, <1>5, <1>6, <1>7, <1>8 DEF TaskInv

-----------------------------------------------------------------------------
LEMMA TaskStep == ASSUME TaskInv, DecInv, [Next]_vars PROVE TaskInv'
<1>1. CASE \/ \E d \in Dirs, mode \in Modes : CreateDirective(d, mode) \/ UpdateMode(d, mode)
           \/ \E m \in Msgs : PublishMessage(m) \/ \E d \in Dirs : PostMessage(m, d)
  BY <1>1, GatewayKeeps
<1>2. CASE Tick \/ Decide \/ PersistTask \/ Finalize \/ Summarise \/ Publish
  BY <1>2, TickKeeps, DecideKeeps, PersistKeeps, FinalizeKeeps, SummariseKeeps, PublishKeeps
<1>3. ASSUME NEW c \in Contents, ChatReplies(c) \/ Decomposed(c) \/ \E p \in Plans : DecomposeReplies(c, p)
      PROVE  TaskInv'
  BY <1>3, ReplyKeeps, PlanKeeps DEF ChatReplies, Decomposed
<1>4. CASE DurationTrips \/ TickFails
  BY <1>4, ExitKeeps DEF DurationTrips, TickFails, store, broker, work
<1>5. ASSUME NEW t \in Tasks, Deliver(t) \/ AckWaitExpires(t) PROVE TaskInv'
  BY <1>5, BrokerKeeps
<1>6. ASSUME NEW a \in Agents, WorkerStep(a) \/ HandlerPanics(a) PROVE TaskInv'
  BY <1>6, TakeKeeps, HandlerKeeps, DoneKeeps DEF WorkerStep
<1>7. CASE Crash
  BY <1>7, CrashKeeps
<1>8. CASE UNCHANGED vars
  <2>1. UNCHANGED <<tasks, mail, again, inbox, worker, stranded, loop, dirs>>
    BY <1>8 DEF vars, store, broker, work
  <2>2. Doing'
    BY <2>1 DEF TaskInv, Doing
  <2>3. QED
    BY <2>1, <2>2, SameDirs, GoOnStep
<1>9. QED
  BY <1>1, <1>2, <1>3, <1>4, <1>5, <1>6, <1>7, <1>8 DEF Next, LoopStep

LEMMA TaskInvariant == Spec => []TaskInv
<1>1. TaskInv /\ DecInv /\ [Next]_vars => TaskInv'
  BY TaskStep
<1>2. QED
  BY <1>1, TaskInit, DecInvariant, PTL DEF Spec

\* A task that is pending or running is in the loop's outbox, at the broker or at a worker,
\* whatever crashes, panics or is delivered twice; the exceptions are the ones OpenTaskIsHeld
\* names.  The acknowledgement after the last status write in the workers' handler is what
\* makes this hold.
THEOREM OpenTaskIsAlwaysHeld == Spec => []OpenTaskIsHeld
<1>1. TaskInv => OpenTaskIsHeld
  BY DEF TaskInv
<1>2. QED
  BY <1>1, TaskInvariant, PTL

\* finalizeDirective marks a directive COMPLETE only over completed tasks, and no execution of a
\* task that was delivered once changes its status afterwards.
THEOREM CompleteAlwaysMeansCompleted == Spec => []CompleteMeansCompleted
<1>1. TaskInv => CompleteMeansCompleted
  BY DEF TaskInv, CompleteOK
<1>2. QED
  BY <1>1, TaskInvariant, PTL

-----------------------------------------------------------------------------
(* Types                                                                   *)

GovState == [actions : Nat, totalUSD : Nat, last : Contents \cup {""}, count : Nat]
Entry == Msgs \cup {"navi"}

LogTyped == log \in [Dirs -> Seq(Entry)]
SetsTyped == again \subseteq Tasks /\ stranded \subseteq Tasks /\ seen \subseteq Msgs
PostsTyped == mpc \in [Msgs -> {"idle", "posted", "done"}]

\* What DecInv and TaskInv do not say of the types.
RestInv == LogTyped /\ SetsTyped /\ PostsTyped /\ gov \in GovState /\ incidents \in Nat

\* A message more and a message less leave a log a log.
LEMMA LogEdits ==
    ASSUME NEW l \in Seq(Entry)
    PROVE  /\ \A x \in Entry : Appended(l, x) \in Seq(Entry)
           /\ \A i \in 1..Len(l) : Without(l, i) \in Seq(Entry)
<1>1. \A x \in Entry : Appended(l, x) \in Seq(Entry)
  BY DEF Appended
<1>2. ASSUME NEW i \in 1..Len(l) PROVE Without(l, i) \in Seq(Entry)
  <2>1. SubSeq(l, 1, i - 1) \in Seq(Entry)
    BY <1>2
  <2>2. SubSeq(l, i + 1, Len(l)) \in Seq(Entry)
    BY <1>2
  <2>3. QED
    BY <2>1, <2>2 DEF Without
<1>3. QED
  BY <1>1, <1>2

\* A write to one log; a directive that does not exist has none.
LEMMA LogWrite ==
    ASSUME LogTyped, NEW d, NEW l, d \in Dirs => l \in Seq(Entry), log' = [log EXCEPT ![d] = l]
    PROVE  LogTyped'
  BY DEF LogTyped

LEMMA LogReply ==
    ASSUME LogTyped, NEW d, log' = [log EXCEPT ![d] = Appended(@, "navi")]
    PROVE  LogTyped'
<1>1. d \in Dirs => Appended(log[d], "navi") \in Seq(Entry)
  BY LogEdits DEF LogTyped, Entry
<1>2. log' = [log EXCEPT ![d] = Appended(log[d], "navi")]
  OBVIOUS
<1>3. QED
  BY <1>1, <1>2, LogWrite

LEMMA LogStep == ASSUME RestInv, DecInv, [Next]_vars PROVE LogTyped'
<1>0. LogTyped
  BY DEF RestInv
<1>1. CASE UNCHANGED log
  BY <1>0, <1>1 DEF LogTyped
<1>2. ASSUME NEW m \in Msgs, NEW d \in Dirs, PostMessage(m, d) PROVE LogTyped'
  <2>1. Appended(log[d], m) \in Seq(Entry)
    BY <1>0, LogEdits DEF LogTyped, Entry
  <2>2. log' = [log EXCEPT ![d] = Appended(log[d], m)]
    BY <1>2 DEF PostMessage
  <2>3. QED
    BY <1>0, <2>1, <2>2, LogWrite
<1>3. ASSUME NEW m \in Msgs, PublishMessage(m) PROVE LogTyped'
  <2>1. ASSUME NEW d \in Dirs, NEW i \in 1..Len(log[d]), log' = [log EXCEPT ![d] = Without(@, i)]
        PROVE  LogTyped'
    <3>1. Without(log[d], i) \in Seq(Entry)
      BY <1>0, LogEdits DEF LogTyped
    <3>2. log' = [log EXCEPT ![d] = Without(log[d], i)]
      BY <2>1
    <3>3. QED
      BY <1>0, <3>1, <3>2, LogWrite
  <2>2. QED
    BY <1>1, <1>3, <2>1 DEF PublishMessage
<1>4. CASE LoopStep
  <2>1. UNCHANGED log \/ log' = [log EXCEPT ![loop.dir] = Appended(@, "navi")]
    BY <1>4 DEF LoopStep, Tick, Decide, PersistTask, Finalize, Summarise, Publish, ChatReplies, Decomposed,
                DecomposeReplies, Reply, store
  <2>2. QED
    BY <1>0, <1>1, <2>1, LogReply
<1>5. ASSUME NEW a \in Agents, WorkerStep(a) PROVE LogTyped'
  <2>1. UNCHANGED log \/ log' = [log EXCEPT ![tasks[worker[a].task].dir] = Appended(@, "navi")]
    BY <1>5 DEF WorkerStep, TakeTask, Authorize, StartTask, ReportTask, CompleteTask, ExecuteFails, FailTask, Ack, store
  <2>2. QED
    BY <1>0, <1>1, <2>1, LogReply
<1>6. ASSUME \/ \E d \in Dirs, mode \in Modes : CreateDirective(d, mode) \/ UpdateMode(d, mode)
             \/ DurationTrips \/ TickFails
             \/ \E t \in Tasks : Deliver(t) \/ AckWaitExpires(t)
             \/ \E a \in Agents : HandlerPanics(a)
             \/ Crash \/ UNCHANGED vars
      PROVE  UNCHANGED log
  BY <1>6 DEF CreateDirective, UpdateMode, DurationTrips, TickFails, Deliver, AckWaitExpires, HandlerPanics,
              Crash, vars, store
<1>7. QED
  BY <1>1, <1>2, <1>3, <1>4, <1>5, <1>6 DEF Next

LEMMA GovFields ==
    ASSUME NEW g \in GovState
    PROVE  g.actions \in Nat /\ g.totalUSD \in Nat /\ g.count \in Nat
  BY Zenon DEF GovState

LEMMA OneMore == \A n \in Nat : n + 1 \in Nat
  OBVIOUS

\* The governor counts.
LEMMA GovStep == ASSUME RestInv, [Next]_vars PROVE gov' \in GovState
<1>0. gov \in GovState
  BY DEF RestInv
<1>1. Fresh \in GovState
  BY DEF Fresh, GovState
<1>2. RecordAction(gov) \in GovState
  <2>1. gov.actions + 1 \in Nat
    BY <1>0, GovFields, OneMore
  <2>2. RecordAction(gov) = [gov EXCEPT !.actions = gov.actions + 1]
    BY DEF RecordAction
  <2>3. QED
    BY <1>0, <2>1, <2>2 DEF GovState
<1>3. ASSUME NEW content \in Contents PROVE RecordRepetition(RecordCost(gov, 1), content) \in GovState
  <2>1. RecordCost(gov, 1) \in GovState
    <3>1. gov.totalUSD + 1 \in Nat
      BY <1>0, GovFields, OneMore
    <3>2. RecordCost(gov, 1) = [gov EXCEPT !.totalUSD = gov.totalUSD + 1]
      BY DEF RecordCost
    <3>3. QED
      BY <1>0, <3>1, <3>2 DEF GovState
  <2>2. ASSUME NEW g \in GovState PROVE RecordRepetition(g, content) \in GovState
    <3>1. g.count + 1 \in Nat
      BY GovFields, OneMore
    <3>2. \A n \in Nat : [g EXCEPT !.last = content, !.count = n] \in GovState
      BY DEF GovState
    <3>3. \/ RecordRepetition(g, content) = g
          \/ RecordRepetition(g, content) = [g EXCEPT !.last = content, !.count = g.count + 1]
          \/ RecordRepetition(g, content) = [g EXCEPT !.last = content, !.count = 1]
      BY DEF RecordRepetition
    <3>4. QED
      BY <3>1, <3>2, <3>3
  <2>3. QED
    BY <2>1, <2>2
<1>4. CASE Tick \/ Crash
  BY <1>1, <1>2, <1>4 DEF Tick, Crash
<1>5. ASSUME NEW c \in Contents, ChatReplies(c) \/ Decomposed(c) \/ \E p \in Plans : DecomposeReplies(c, p)
      PROVE  gov' \in GovState
  <2>1. UNCHANGED gov \/ gov' = RecordRepetition(RecordCost(gov, 1), c)
    BY <1>5 DEF ChatReplies, Decomposed, DecomposeReplies, Reply
  <2>2. QED
    BY <1>0, <1>3, <2>1
<1>6. ASSUME \/ \E d \in Dirs, mode \in Modes : CreateDirective(d, mode) \/ UpdateMode(d, mode)
             \/ \E m \in Msgs : PublishMessage(m) \/ \E d \in Dirs : PostMessage(m, d)
             \/ Decide \/ PersistTask \/ Finalize \/ Summarise \/ Publish \/ DurationTrips \/ TickFails
             \/ \E t \in Tasks : Deliver(t) \/ AckWaitExpires(t)
             \/ UNCHANGED vars
      PROVE  UNCHANGED gov
  BY <1>6 DEF CreateDirective, UpdateMode, PublishMessage, PostMessage, Decide, PersistTask, Finalize, Summarise, Publish,
              DurationTrips, TickFails, Deliver, AckWaitExpires, vars
<1>7. ASSUME NEW a \in Agents, WorkerStep(a) \/ HandlerPanics(a) PROVE UNCHANGED gov
  BY <1>7 DEF WorkerStep, TakeTask, Authorize, StartTask, ReportTask, CompleteTask, ExecuteFails, FailTask, Ack, HandlerPanics, OnlyWork
<1>8. QED
  BY <1>0, <1>4, <1>5, <1>6, <1>7 DEF Next, LoopStep

\* Messages are posted once, and incidents are counted.
LEMMA PostsStep == ASSUME RestInv, [Next]_vars PROVE PostsTyped'
<1>0. mpc \in [Msgs -> {"idle", "posted", "done"}]
  BY DEF RestInv, PostsTyped
<1>1. ASSUME NEW m \in Msgs, PublishMessage(m) \/ \E d \in Dirs : PostMessage(m, d) PROVE PostsTyped'
  <2>1. \E s \in {"posted", "done"} : mpc' = [mpc EXCEPT ![m] = s]
    BY <1>1 DEF PublishMessage, PostMessage
  <2>2. QED
    BY <1>0, <2>1 DEF PostsTyped
<1>2. CASE Crash
  BY <1>0, <1>2 DEF Crash, PostsTyped
<1>3. ASSUME \/ \E d \in Dirs, mode \in Modes : CreateDirective(d, mode) \/ UpdateMode(d, mode)
             \/ LoopStep \/ DurationTrips \/ TickFails
             \/ \E t \in Tasks : Deliver(t) \/ AckWaitExpires(t)
             \/ UNCHANGED vars
      PROVE  UNCHANGED mpc
  BY <1>3 DEF CreateDirective, UpdateMode, LoopStep, Tick, Decide, PersistTask, Finalize, Summarise, Publish, ChatReplies,
              Decomposed, DecomposeReplies, Reply, DurationTrips, TickFails, Deliver, AckWaitExpires, vars
<1>4. ASSUME NEW a \in Agents, WorkerStep(a) \/ HandlerPanics(a) PROVE UNCHANGED mpc
  BY <1>4 DEF WorkerStep, TakeTask, Authorize, StartTask, ReportTask, CompleteTask, ExecuteFails, FailTask, Ack, HandlerPanics, OnlyWork
<1>5. QED
  BY <1>0, <1>1, <1>2, <1>3, <1>4 DEF Next, PostsTyped

LEMMA IncidentsStep == ASSUME RestInv, [Next]_vars PROVE incidents' \in Nat
<1>0. incidents \in Nat
  BY DEF RestInv
<1>1. ASSUME NEW k, Incident(k) PROVE incidents' \in Nat
  BY <1>0, <1>1 DEF Incident
<1>2. CASE Fault
  BY <1>1, <1>2 DEF Fault
<1>3. CASE \/ \E d \in Dirs, mode \in Modes : CreateDirective(d, mode) \/ UpdateMode(d, mode)
           \/ \E m \in Msgs : PublishMessage(m) \/ \E d \in Dirs : PostMessage(m, d)
           \/ DurationTrips \/ TickFails
           \/ \E t \in Tasks : Deliver(t) \/ AckWaitExpires(t)
           \/ Crash \/ UNCHANGED vars
  BY <1>0, <1>1, <1>2, <1>3 DEF CreateDirective, UpdateMode, PublishMessage, PostMessage, DurationTrips, TickFails,
                                Deliver, AckWaitExpires, Crash, vars
<1>4. CASE LoopStep
  <2>1. UNCHANGED incidents \/ Fault
    BY <1>4 DEF LoopStep, Tick, Decide, PersistTask, Finalize, Summarise, Publish, ChatReplies, Decomposed,
                DecomposeReplies, Reply
  <2>2. QED
    BY <1>0, <1>2, <2>1
<1>5. ASSUME NEW a \in Agents, WorkerStep(a) \/ HandlerPanics(a) PROVE incidents' \in Nat
  <2>1. UNCHANGED incidents \/ Fault
    BY <1>5 DEF WorkerStep, TakeTask, Authorize, StartTask, ReportTask, CompleteTask, ExecuteFails, FailTask, Ack, HandlerPanics,
                Written, WriteFails
  <2>2. QED
    BY <1>0, <1>2, <2>1
<1>6. QED
  BY <1>3, <1>4, <1>5 DEF Next

\* What is given up was a task, and what the model is given was a message.
LEMMA SetsStep == ASSUME RestInv, DecInv, [Next]_vars PROVE SetsTyped'
<1>0. again \subseteq Tasks /\ stranded \subseteq Tasks /\ seen \subseteq Msgs
  BY DEF RestInv, SetsTyped
<1>1. Elements(loop.outbox) \subseteq Tasks
  <2>1. loop.outbox \in Seq(Tasks)
    BY DEF DecInv, Typed, LoopState
  <2>2. QED
    BY <2>1 DEF Elements
<1>2. \A a \in Agents : worker[a].phase # "idle" => worker[a].task \in Tasks
  BY DEF DecInv, Known
<1>3. CASE UNCHANGED <<again, seen>> /\ (UNCHANGED stranded \/ Exit)
  BY <1>0, <1>1, <1>3 DEF Exit, SetsTyped
<1>4. CASE LoopStep
  <2>1. CASE Decide
    <3>1. UNCHANGED <<again, stranded>>
      BY <2>1 DEF Decide, Goto, broker
    <3>2. UNCHANGED seen \/ seen' = seen \cup History(Newest)
      BY <2>1 DEF Decide
    <3>3. QED
      BY <1>0, <3>1, <3>2 DEF History, SetsTyped
  <2>2. CASE ~Decide
    <3>1. UNCHANGED <<again, seen>>
      BY <1>4, <2>2 DEF LoopStep, Tick, PersistTask, Finalize, Summarise, Publish, ChatReplies, Decomposed,
                        DecomposeReplies, Reply, broker
    <3>2. UNCHANGED stranded \/ Exit
      BY <1>4, <2>2 DEF LoopStep, Tick, PersistTask, Finalize, Summarise, Publish, ChatReplies, Decomposed,
                        DecomposeReplies, Reply, Goto
    <3>3. QED
      BY <1>3, <3>1, <3>2
  <2>3. QED
    BY <2>1, <2>2
<1>5. CASE DurationTrips \/ TickFails
  BY <1>3, <1>5 DEF DurationTrips, TickFails, broker
<1>6. ASSUME NEW t \in Tasks, Deliver(t) \/ AckWaitExpires(t) PROVE SetsTyped'
  BY <1>0, <1>6 DEF Deliver, AckWaitExpires, SetsTyped
<1>7. ASSUME NEW a \in Agents, WorkerStep(a) PROVE SetsTyped'
  <2>1. UNCHANGED <<again, seen>>
    BY <1>7 DEF WorkerStep, TakeTask, Authorize, StartTask, ReportTask, CompleteTask, ExecuteFails, FailTask, Ack, OnlyWork, broker
  <2>2. \/ UNCHANGED stranded
        \/ worker[a].phase # "idle" /\ stranded' = stranded \cup {worker[a].task}
    BY <1>7 DEF WorkerStep, TakeTask, Authorize, StartTask, ReportTask, CompleteTask, ExecuteFails, FailTask, Ack, Written, WriteFails
  <2>3. QED
    BY <1>0, <1>2, <2>1, <2>2 DEF SetsTyped
<1>8. ASSUME NEW a \in Agents, HandlerPanics(a) PROVE SetsTyped'
  <2>1. worker[a].task \in Tasks
    BY <1>2, <1>8 DEF HandlerPanics
  <2>2. QED
    BY <1>0, <1>8, <2>1 DEF HandlerPanics, SetsTyped
<1>9. CASE Crash
  BY <1>0, <1>1, <1>9 DEF Crash, SetsTyped
<1>10. CASE \/ \E d \in Dirs, mode \in Modes : CreateDirective(d, mode) \/ UpdateMode(d, mode)
            \/ \E m \in Msgs : PublishMessage(m) \/ \E d \in Dirs : PostMessage(m, d)
            \/ UNCHANGED vars
  BY <1>3, <1>10 DEF CreateDirective, UpdateMode, PublishMessage, PostMessage, broker, vars
<1>11. QED
  BY <1>4, <1>5, <1>6, <1>7, <1>8, <1>9, <1>10 DEF Next

\* Every variable keeps its type; with the invariants above this covers what the loop, the
\* broker, the workers and the gateway write.
THEOREM DirectiveTypes == Spec => []TypeOK
<1>1. Init => RestInv
  <2> SUFFICES ASSUME Init PROVE RestInv
    OBVIOUS
  <2>1. LogTyped
    BY DEF Init, LogTyped
  <2>2. SetsTyped /\ PostsTyped
    BY DEF Init, SetsTyped, PostsTyped
  <2>3. gov \in GovState /\ incidents \in Nat
    BY DEF Init, Fresh, GovState
  <2>4. QED
    BY <2>1, <2>2, <2>3 DEF RestInv
<1>2. RestInv /\ DecInv /\ [Next]_vars => RestInv'
  BY LogStep, GovStep, PostsStep, IncidentsStep, SetsStep DEF RestInv
<1>3. RestInv /\ DecInv /\ TaskInv => TypeOK
  <2> SUFFICES ASSUME RestInv, DecInv, TaskInv PROVE TypeOK
    OBVIOUS
  <2>1. dirs \in [Dirs -> DirRow] /\ LogTyped /\ SetsTyped /\ PostsTyped /\ gov \in GovState /\ incidents \in Nat
    BY DEF TaskInv, Doing, RestInv
  <2>2. TaskRow = [dir : 0..MaxDirectives, agent : Agents, batch : Nat, status : Statuses]
    BY DEF TaskRow
  <2>3. tasks \in [Tasks -> [dir : 0..MaxDirectives, agent : Agents, batch : Nat, status : Statuses]]
    BY <2>2 DEF DecInv, Typed
  <2>4. /\ mail \in [Tasks -> MailStates] /\ inbox \in [Agents -> Seq(Tasks)]
        /\ worker \in [Agents -> WorkerState] /\ loop \in LoopState
    BY DEF DecInv, Typed
  <2>5. QED
    BY <2>1, <2>3, <2>4, Zenon DEF LogTyped, SetsTyped, PostsTyped, GovState, Entry, Statuses, MailStates,
       WorkerState, WorkerPhases, LoopState, LoopPhases, DirRow, TypeOK
<1>4. QED
  BY <1>1, <1>2, <1>3, DecInvariant, TaskInvariant, PTL DEF Spec
==============================================================================
