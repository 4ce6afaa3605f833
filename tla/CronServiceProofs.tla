-------------------------- MODULE CronServiceProofs --------------------------
(***************************************************************************)
(* Proofs about CronService, for every number of jobs, clients and ticks:  *)
(* the timer is never lost, no job is executed by two ticks at once, and   *)
(* every variable keeps its type.                                          *)
(***************************************************************************)
EXTENDS CronService, TLAPS

\* A tick goroutine that is past the critical section of onTimer and has not
\* finished its tick.
InTick(t) == pc[t] \in {"load", "mark", "spawn", "finish"}

\* The shape of the workers' control state.
Control ==
    /\ pc \in [Workers -> Pcs]
    /\ DOMAIN exec = Workers
    /\ \A w \in Workers : DOMAIN exec[w] = Jobs

\* The inductive invariant of TicksDoNotOverlap: the flag covers the one tick there
\* is, and a tick's executions end before it does.
TickInv ==
    /\ Control
    /\ \A t \in Ticks : InTick(t) => ticking
    /\ \A t, u \in Ticks : InTick(t) /\ InTick(u) => t = u
    /\ \A t \in Ticks, j \in Jobs : exec[t][j].pc # "idle" => pc[t] \in {"mark", "spawn"}

\* Updating one execution leaves the others alone.
LEMMA OneExecution ==
    ASSUME Control, NEW w \in Workers, NEW j \in Jobs, NEW e, exec' = [exec EXCEPT ![w][j] = e]
    PROVE  /\ DOMAIN exec' = Workers
           /\ \A u \in Workers : DOMAIN exec'[u] = Jobs
           /\ \A u \in Workers, k \in Jobs : (u # w \/ k # j) => exec'[u][k] = exec[u][k]
           /\ exec'[w][j] = e
  BY DEF Control

\* A worker that is not a tick moves on.
LEMMA OtherWorker ==
    ASSUME NEW w \in Workers \ Ticks, NEW s \in Pcs, Control, Go(w, s)
    PROVE  /\ pc' \in [Workers -> Pcs]
           /\ \A t \in Ticks : pc'[t] = pc[t]
  BY DEF Control, Go, Workers

\* Steps in which no tick moves and none starts an execution.
LEMMA TickFrame ==
    ASSUME TickInv, Control', ticking' = ticking, \A t \in Ticks : pc'[t] = pc[t],
           \A t \in Ticks, j \in Jobs : exec'[t][j].pc # "idle" => exec[t][j].pc # "idle"
    PROVE  TickInv'
  BY DEF TickInv, InTick

\* Steps of one tick within its tick, after which none of its executions is lost track of.
LEMMA TickMoves ==
    ASSUME TickInv, NEW t \in Ticks, InTick(t), NEW s \in {"mark", "spawn", "finish"},
           pc' = [pc EXCEPT ![t] = s], ticking' = ticking, Control',
           \A u \in Ticks \ {t}, j \in Jobs : exec'[u][j].pc # "idle" => exec[u][j].pc # "idle",
           s = "finish" => \A j \in Jobs : exec'[t][j].pc = "idle"
    PROVE  TickInv'
  BY DEF TickInv, InTick, Control, Workers

\* runOneJob goes on: an execution that is not idle changes, its worker does not.
LEMMA JobStep ==
    ASSUME TickInv, NEW w \in Workers, NEW j \in Jobs, RunOneJob(w, j)
    PROVE  TickInv'
<1>1. UNCHANGED <<pc, ticking>> /\ exec[w][j].pc # "idle"
  BY DEF RunOneJob, Dispatch, Refresh, Persist, DeleteAfterRun, ClearRunning, svcVars
<1>2. PICK e : exec' = [exec EXCEPT ![w][j] = e]
  BY DEF RunOneJob, Dispatch, Refresh, Persist, DeleteAfterRun, ClearRunning, Finish
<1>3. /\ DOMAIN exec' = Workers
      /\ \A u \in Workers : DOMAIN exec'[u] = Jobs
      /\ \A u \in Workers, k \in Jobs : (u # w \/ k # j) => exec'[u][k] = exec[u][k]
  BY <1>2, OneExecution DEF TickInv
<1>4. Control'
  BY <1>1, <1>3 DEF TickInv, Control
<1>5. \A u \in Ticks, k \in Jobs : exec'[u][k].pc # "idle" => exec[u][k].pc # "idle"
  BY <1>1, <1>3 DEF Workers
<1>6. QED
  BY <1>1, <1>4, <1>5, TickFrame

\* The steps of a tick.
LEMMA TickSteps ==
    ASSUME TickInv, NEW t \in Ticks, TickStep(t)
    PROVE  TickInv'
<1>0. t \in Workers /\ {"load", "mark", "spawn", "finish", "arm"} \subseteq Pcs
  BY DEF Workers, Pcs
<1>1. CASE OnTimer(t)
  <2>1. UNCHANGED exec
    BY <1>1 DEF OnTimer
  <2>2. CASE stopped \/ ticking
    <3>1. UNCHANGED <<pc, ticking>>
      BY <1>1, <2>2 DEF OnTimer
    <3>2. Control'
      BY <2>1, <3>1 DEF TickInv, Control
    <3>3. QED
      BY <2>1, <3>1, <3>2, TickFrame
  <2>3. CASE ~(stopped \/ ticking)
    <3>1. ticking' /\ pc' = [pc EXCEPT ![t] = "load"]
      BY <1>1, <2>3 DEF OnTimer, Go
    <3>4. \A u \in Ticks : ~InTick(u)
      BY <2>3 DEF TickInv
    <3>2. \A u \in Ticks, k \in Jobs : exec[u][k].pc = "idle"
      BY <3>4 DEF TickInv, InTick
    <3>5. Control'
      BY <1>0, <2>1, <3>1 DEF TickInv, Control
    <3>6. \A u \in Ticks : pc'[u] = IF u = t THEN "load" ELSE pc[u]
      BY <3>1 DEF TickInv, Control, Workers
    <3>7. \A u \in Ticks : InTick(u)' => u = t
      BY <3>4, <3>6 DEF InTick
    <3>8. QED
      BY <2>1, <3>1, <3>2, <3>5, <3>7 DEF TickInv
  <2>4. QED
    BY <2>2, <2>3
<1>2. CASE Load(t)
  <2>1. InTick(t) /\ pc[t] = "load" /\ UNCHANGED <<ticking, exec>>
    BY <1>2 DEF Load, InTick, svcVars
  <2>2. PICK s \in {"mark", "finish"} : pc' = [pc EXCEPT ![t] = s]
    BY <1>2 DEF Load, Go
  <2>3. Control'
    BY <1>0, <2>1, <2>2 DEF TickInv, Control
  <2>4. \A j \in Jobs : exec'[t][j].pc = "idle"
    BY <2>1 DEF TickInv
  <2>5. QED
    BY <2>1, <2>2, <2>3, <2>4, TickMoves
<1>3. CASE Spawn(t)
  <2>1. InTick(t) /\ UNCHANGED ticking /\ pc' = [pc EXCEPT ![t] = "mark"]
    BY <1>3 DEF Spawn, InTick, Go, svcVars
  <2>2. /\ DOMAIN exec' = Workers
        /\ \A u \in Workers : DOMAIN exec'[u] = Jobs
        /\ \A u \in Workers \ {t} : exec'[u] = exec[u]
    BY <1>0, <1>3 DEF Spawn, Launch, TickInv, Control
  <2>3. Control'
    BY <1>0, <2>1, <2>2 DEF TickInv, Control
  <2>4. QED
    BY <2>1, <2>2, <2>3, TickMoves DEF Workers
<1>4. CASE WaitDone(t)
  <2>1. InTick(t) /\ UNCHANGED <<ticking, exec>> /\ pc' = [pc EXCEPT ![t] = "finish"]
    BY <1>4 DEF WaitDone, InTick, Go, svcVars
  <2>2. Control'
    BY <1>0, <2>1 DEF TickInv, Control
  <2>3. \A j \in Jobs : exec'[t][j].pc = "idle"
    BY <1>4, <2>1 DEF WaitDone, Busy
  <2>4. QED
    BY <2>1, <2>2, <2>3, TickMoves
<1>5. CASE FinishTick(t)
  <2>1. InTick(t) /\ pc[t] = "finish" /\ UNCHANGED exec /\ pc' = [pc EXCEPT ![t] = "arm"]
    BY <1>5 DEF FinishTick, InTick, Go
  <2>2. \A u \in Ticks : pc'[u] = IF u = t THEN "arm" ELSE pc[u]
    BY <2>1 DEF TickInv, Control, Workers
  <2>3. \A u \in Ticks : ~InTick(u)'
    BY <2>1, <2>2 DEF TickInv, InTick
  <2>4. \A u \in Ticks, k \in Jobs : exec'[u][k].pc # "idle" => pc'[u] \in {"mark", "spawn"}
    BY <2>1, <2>2 DEF TickInv
  <2>5. Control'
    BY <1>0, <2>1 DEF TickInv, Control
  <2>6. QED
    BY <2>3, <2>4, <2>5 DEF TickInv
<1>6. ASSUME NEW j \in Jobs, MarkRunning(t, j)
      PROVE  TickInv'
  <2>1. InTick(t) /\ UNCHANGED <<ticking, exec>>
    BY <1>6 DEF MarkRunning, InTick, svcVars
  <2>2. CASE UNCHANGED pc
    BY <2>1, <2>2, TickFrame DEF TickInv, Control
  <2>3. CASE pc' = [pc EXCEPT ![t] = "spawn"]
    <3>1. Control'
      BY <1>0, <2>1, <2>3 DEF TickInv, Control
    <3>2. QED
      BY <2>1, <2>3, <3>1, TickMoves
  <2>4. QED
    BY <1>6, <2>2, <2>3 DEF MarkRunning, Go
<1>7. QED
  BY <1>1, <1>2, <1>3, <1>4, <1>5, <1>6 DEF TickStep

\* A worker that is not a tick moves on, with an execution of its own or without.
LEMMA OthersStep ==
    ASSUME TickInv, NEW w \in Workers \ Ticks, NEW s \in Pcs, UNCHANGED ticking,
           UNCHANGED pc \/ Go(w, s),
           UNCHANGED exec \/ (\E j : Launch(w, j))
    PROVE  TickInv'
<1>1. pc' \in [Workers -> Pcs] /\ \A t \in Ticks : pc'[t] = pc[t]
  BY OtherWorker DEF TickInv, Control
<1>2. /\ DOMAIN exec' = Workers
      /\ \A u \in Workers : DOMAIN exec'[u] = Jobs
      /\ \A u \in Workers \ {w} : exec'[u] = exec[u]
  BY DEF Launch, TickInv, Control
<1>3. QED
  BY <1>1, <1>2, TickFrame DEF Control, Workers

\* The steps of Start and of the clients.
LEMMA OtherSteps ==
    ASSUME TickInv,
           \/ StartStep \/ Restart
           \/ \E c \in Clients : ClientStep(c) \/ CallerGone(c)
           \/ \E c \in Clients, j \in Jobs : Request(c, j)
    PROVE  TickInv'
<1>0. /\ Boot \in Workers \ Ticks /\ Clients \subseteq Workers \ Ticks
      /\ {"idle", "load", "mark", "await", "defer", "arm", "check", "write", "runnow"} \subseteq Pcs
  BY DistinctWorkers DEF Workers, Pcs
<1>1. CASE StartStep
  <2>1. UNCHANGED ticking
    BY <1>1 DEF StartStep, CatchUp, CatchUpNext, DeferWrite, CatchUpDone, CatchUpMark, DeferRead, svcVars
  <2>2. UNCHANGED exec \/ \E j \in Jobs : Launch(Boot, j)
    BY <1>1 DEF StartStep, CatchUp, CatchUpNext, DeferWrite, CatchUpDone, CatchUpMark, DeferRead
  <2>3. UNCHANGED pc \/ \E s \in {"mark", "await", "defer", "arm"} : Go(Boot, s)
    BY <1>1 DEF StartStep, CatchUp, CatchUpNext, DeferWrite, CatchUpDone, CatchUpMark, DeferRead
  <2>4. QED
    BY <1>0, <2>1, <2>2, <2>3, OthersStep
<1>2. CASE Restart
  BY <1>0, <1>2, OthersStep DEF Restart, svcVars
<1>3. ASSUME NEW c \in Clients, ClientStep(c) \/ CallerGone(c)
      PROVE  TickInv'
  <2>1. UNCHANGED ticking
    BY <1>3 DEF ClientStep, CheckUpdate, WriteUpdate, RunNowMark, RunNowDone, CallerGone, svcVars
  <2>2. CASE RunNowMark(c)
    <3>1. UNCHANGED exec \/ \E j : Launch(c, j)
      BY <2>2 DEF RunNowMark
    <3>2. \E s \in {"idle", "await"} : Go(c, s)
      BY <2>2 DEF RunNowMark
    <3>3. QED
      BY <1>0, <2>1, <3>1, <3>2, OthersStep
  <2>3. CASE ~RunNowMark(c)
    <3>1. UNCHANGED exec
      BY <1>3, <2>3 DEF ClientStep, CheckUpdate, WriteUpdate, RunNowDone, CallerGone
    <3>2. UNCHANGED pc \/ \E s \in {"idle", "write", "arm"} : Go(c, s)
      BY <1>3, <2>3 DEF ClientStep, CheckUpdate, WriteUpdate, RunNowDone, CallerGone
    <3>3. QED
      BY <1>0, <2>1, <3>1, <3>2, OthersStep
  <2>4. QED
    BY <2>2, <2>3
<1>4. ASSUME NEW c \in Clients, NEW j \in Jobs, Request(c, j)
      PROVE  TickInv'
  <2>1. UNCHANGED <<ticking, exec>>
    BY <1>4 DEF Request, Create, BeginUpdate, Delete, RunNow, svcVars
  <2>2. \E s \in {"arm", "check", "runnow"} : Go(c, s)
    BY <1>4 DEF Request, Create, BeginUpdate, Delete, RunNow
  <2>3. QED
    BY <1>0, <2>1, <2>2, OthersStep
<1>5. QED
  BY <1>1, <1>2, <1>3, <1>4

\* Every step keeps the invariant.
LEMMA TickInvStep == TickInv /\ [Next]_vars => TickInv'
<1> SUFFICES ASSUME TickInv, [Next]_vars PROVE TickInv'
  OBVIOUS
<1>1. ASSUME NEW w \in Workers, ArmTimer(w) PROVE TickInv'
  <2>1. UNCHANGED <<ticking, exec>> /\ pc[w] = "arm" /\ pc' = [pc EXCEPT ![w] = "idle"] /\ "idle" \in Pcs
    BY <1>1 DEF ArmTimer, Go, Pcs
  <2>2. Control'
    BY <2>1 DEF TickInv, Control
  <2>3. \A t \in Ticks : InTick(t)' => InTick(t)
    BY <2>1 DEF TickInv, Control, InTick, Workers
  <2>4. \A t \in Ticks, j \in Jobs : exec'[t][j].pc # "idle" => pc'[t] \in {"mark", "spawn"}
    BY <2>1 DEF TickInv, Control, Workers
  <2>5. QED
    BY <2>1, <2>2, <2>3, <2>4 DEF TickInv
<1>2. CASE Fire \/ Stop \/ Pass \/ UNCHANGED vars
  <2>1. UNCHANGED <<ticking, pc, exec>>
    BY <1>2 DEF Fire, Stop, Pass, vars, svcVars
  <2>2. QED
    BY <2>1, TickFrame DEF TickInv, Control
<1>3. CASE Crash \/ Exit
  <2>1. pc' = [w \in Workers |-> "idle"] /\ exec' = Quiet /\ "idle" \in Pcs
    BY <1>3 DEF Crash, Exit, Die, Pcs
  <2>2. \A t \in Ticks : ~InTick(t)' /\ \A j \in Jobs : exec'[t][j].pc = "idle"
    BY <2>1 DEF InTick, Workers, Quiet, NoExec
  <2>3. Control'
    BY <2>1 DEF Control, Quiet
  <2>4. QED
    BY <2>2, <2>3 DEF TickInv
<1>4. QED
  BY <1>1, <1>2, <1>3, JobStep, TickSteps, OtherSteps DEF Next

\* Nobody ticks in an initial state.
LEMMA InitTickInv == Init => TickInv
<1>1. ASSUME Init PROVE Control
  BY <1>1 DEF Init, Control, Quiet, Pcs
<1>2. ASSUME Init, NEW t \in Ticks PROVE ~InTick(t) /\ \A j \in Jobs : exec[t][j].pc = "idle"
  BY <1>2, DistinctWorkers DEF Init, InTick, Workers, Quiet, NoExec
<1>3. QED
  BY <1>1, <1>2 DEF TickInv

\* No job is ever executed by two ticks at once, however many timers fire and whatever
\* the clients write over the row's mark.
THEOREM TicksApart == Spec => []TicksDoNotOverlap
<1>1. TickInv => TicksDoNotOverlap
  BY DEF TickInv, TicksDoNotOverlap, InTick
<1>2. QED
  BY <1>1, InitTickInv, TickInvStep, PTL DEF Spec

-----------------------------------------------------------------------------
(* The timer                                                               *)

\* The inductive invariant of TimerNeverLost.
TimerInv == TickInv /\ fired \in Nat /\ TimerNeverLost

\* A worker moves on without touching the timers: it was not about to arm them, and
\* Start does not return this way.
LEMMA TimerFrame ==
    ASSUME TimerInv, UNCHANGED <<up, svcVars>>,
           \/ UNCHANGED pc
           \/ \E w \in Workers, s \in Pcs : pc[w] # "arm" /\ Go(w, s) /\ (w = Boot => s # "idle")
    PROVE  fired' \in Nat /\ TimerNeverLost'
<1>1. UNCHANGED <<up, stopped, timer, recheck, fired>>
  BY DEF svcVars
<1>2. CASE UNCHANGED pc
  BY <1>1, <1>2 DEF TimerInv, TimerNeverLost
<1>3. ASSUME NEW w \in Workers, NEW s \in Pcs, pc[w] # "arm", Go(w, s), w = Boot => s # "idle"
      PROVE  fired' \in Nat /\ TimerNeverLost'
  <2>1. \A u \in Workers : pc'[u] = IF u = w THEN s ELSE pc[u]
    BY <1>3 DEF Go, TimerInv, TickInv, Control
  <2>2. Boot \in Workers
    BY DEF Workers
  <2>3. pc'[Boot] = "idle" => pc[Boot] = "idle"
    BY <1>3, <2>1, <2>2
  <2>4. (\E u \in Workers : pc[u] = "arm") => \E u \in Workers : pc'[u] = "arm"
    BY <1>3, <2>1
  <2>5. QED
    BY <1>1, <2>3, <2>4 DEF TimerInv, TimerNeverLost
<1>4. QED
  BY <1>2, <1>3

\* The steps that do not touch the timers.
LEMMA TimerUntouched ==
    ASSUME TimerInv,
           \/ \E w \in Workers, j \in Jobs : RunOneJob(w, j)
           \/ \E t \in Ticks : Load(t) \/ Spawn(t) \/ WaitDone(t) \/ \E j \in Jobs : MarkRunning(t, j)
           \/ \E c \in Clients : ClientStep(c) \/ CallerGone(c)
           \/ \E c \in Clients, j \in Jobs : Request(c, j)
           \/ StartStep \/ Pass
    PROVE  fired' \in Nat /\ TimerNeverLost'
<1>0. /\ Boot \in Workers /\ Clients \subseteq Workers /\ Ticks \subseteq Workers
      /\ Boot \notin Clients /\ Boot \notin Ticks
      /\ {"idle", "load", "mark", "spawn", "finish", "await", "defer", "arm", "check", "write", "runnow"} \subseteq Pcs
  BY DistinctWorkers DEF Workers, Pcs
<1>1. ASSUME NEW w \in Workers, NEW j \in Jobs, RunOneJob(w, j)
      PROVE  fired' \in Nat /\ TimerNeverLost'
  <2>1. UNCHANGED <<up, svcVars, pc>>
    BY <1>1 DEF RunOneJob, Dispatch, Refresh, Persist, DeleteAfterRun, ClearRunning
  <2>2. QED
    BY <2>1, TimerFrame
<1>2. ASSUME NEW t \in Ticks, Load(t) \/ Spawn(t) \/ WaitDone(t) \/ \E j \in Jobs : MarkRunning(t, j)
      PROVE  fired' \in Nat /\ TimerNeverLost'
  <2>1. UNCHANGED <<up, svcVars>>
    BY <1>2 DEF Load, Spawn, WaitDone, MarkRunning
  <2>2. UNCHANGED pc \/ (pc[t] # "arm" /\ \E s \in {"mark", "spawn", "finish"} : Go(t, s))
    BY <1>2 DEF Load, Spawn, WaitDone, MarkRunning
  <2>3. QED
    BY <1>0, <2>1, <2>2, TimerFrame
<1>3. ASSUME NEW c \in Clients, ClientStep(c) \/ CallerGone(c)
      PROVE  fired' \in Nat /\ TimerNeverLost'
  <2>1. UNCHANGED <<up, svcVars>>
    BY <1>3 DEF ClientStep, CheckUpdate, WriteUpdate, RunNowMark, RunNowDone, CallerGone
  <2>2. UNCHANGED pc \/ (pc[c] # "arm" /\ \E s \in {"idle", "write", "arm", "await"} : Go(c, s))
    BY <1>3 DEF ClientStep, CheckUpdate, WriteUpdate, RunNowMark, RunNowDone, CallerGone
  <2>3. QED
    BY <1>0, <2>1, <2>2, TimerFrame
<1>4. ASSUME NEW c \in Clients, NEW j \in Jobs, Request(c, j)
      PROVE  fired' \in Nat /\ TimerNeverLost'
  <2>1. UNCHANGED <<up, svcVars>>
    BY <1>4 DEF Request, Create, BeginUpdate, Delete, RunNow
  <2>2. pc[c] # "arm" /\ \E s \in {"arm", "check", "runnow"} : Go(c, s)
    BY <1>4 DEF Request, Create, BeginUpdate, Delete, RunNow, Begin
  <2>3. QED
    BY <1>0, <2>1, <2>2, TimerFrame
<1>5. CASE StartStep
  <2>1. UNCHANGED <<up, svcVars>>
    BY <1>5 DEF StartStep, CatchUp, CatchUpNext, DeferWrite, CatchUpDone, CatchUpMark, DeferRead
  <2>2. UNCHANGED pc \/ (pc[Boot] # "arm" /\ \E s \in {"mark", "await", "defer", "arm"} : Go(Boot, s))
    BY <1>5 DEF StartStep, CatchUp, CatchUpNext, DeferWrite, CatchUpDone, CatchUpMark, DeferRead
  <2>3. QED
    BY <1>0, <2>1, <2>2, TimerFrame
<1>6. CASE Pass
  BY <1>6, TimerFrame DEF Pass
<1>7. QED
  BY <1>1, <1>2, <1>3, <1>4, <1>5, <1>6

\* Every step keeps the timer.
LEMMA TimerInvStep == TimerInv /\ [Next]_vars => TimerInv'
<1> SUFFICES ASSUME TimerInv, [Next]_vars PROVE fired' \in Nat /\ TimerNeverLost'
  BY TickInvStep DEF TimerInv
<1>0. Ticks \subseteq Workers /\ Boot \in Workers /\ Boot \notin Ticks
  BY DistinctWorkers DEF Workers
<1>1. ASSUME NEW w \in Workers, ArmTimer(w) PROVE fired' \in Nat /\ TimerNeverLost'
  <2>1. UNCHANGED <<fired, stopped>> /\ (~stopped => timer' \/ recheck')
    BY <1>1 DEF ArmTimer, Rearm
  <2>2. QED
    BY <2>1 DEF TimerInv, TimerNeverLost
<1>2. ASSUME NEW t \in Ticks, OnTimer(t) PROVE fired' \in Nat /\ TimerNeverLost'
  <2>1. fired > 0 /\ fired' = fired - 1 /\ recheck'
    BY <1>2 DEF OnTimer
  <2>2. QED
    BY <2>1 DEF TimerInv, TimerNeverLost
<1>3. ASSUME NEW t \in Ticks, FinishTick(t) PROVE fired' \in Nat /\ TimerNeverLost'
  <2>1. UNCHANGED fired /\ pc' = [pc EXCEPT ![t] = "arm"]
    BY <1>3 DEF FinishTick, Go
  <2>2. pc'[t] = "arm"
    BY <1>0, <2>1 DEF TimerInv, TickInv, Control
  <2>3. QED
    BY <1>0, <2>1, <2>2 DEF TimerInv, TimerNeverLost
<1>4. CASE Fire
  <2>1. fired' = fired + 1
    BY <1>4 DEF Fire
  <2>2. fired' \in Nat /\ fired' > 0
    BY <2>1 DEF TimerInv
  <2>3. QED
    BY <2>2 DEF TimerNeverLost
<1>5. CASE Stop
  BY <1>5 DEF Stop, TimerInv, TimerNeverLost
<1>6. CASE Crash \/ Exit
  BY <1>6 DEF Crash, Exit, Die, TimerNeverLost
<1>7. CASE Restart
  <2>1. UNCHANGED fired /\ pc' = [pc EXCEPT ![Boot] = "load"]
    BY <1>7 DEF Restart, Go, svcVars
  <2>2. pc'[Boot] # "idle"
    BY <1>0, <2>1 DEF TimerInv, TickInv, Control
  <2>3. QED
    BY <2>1, <2>2 DEF TimerInv, TimerNeverLost
<1>8. CASE UNCHANGED vars
  BY <1>8 DEF vars, svcVars, TimerInv, TimerNeverLost
<1>9. QED
  BY <1>1, <1>2, <1>3, <1>4, <1>5, <1>6, <1>7, <1>8, TimerUntouched DEF Next, TickStep

\* A service that was started and not stopped always has a timer set, a wake-up on its
\* way, or somebody about to arm one.
THEOREM TimerKept == Spec => []TimerNeverLost
<1>1. Init => TimerInv
  <2>1. ASSUME Init PROVE fired \in Nat /\ pc[Boot] # "idle"
    BY <2>1 DEF Init, Workers
  <2>2. QED
    BY <2>1, InitTickInv DEF TimerInv, TimerNeverLost
<1>2. TimerInv => TimerNeverLost
  BY DEF TimerInv
<1>3. QED
  BY <1>1, <1>2, TimerInvStep, PTL DEF Spec

-----------------------------------------------------------------------------
(* Types                                                                   *)

RowOrNone == Row \cup {None}
Numbers == {now, fired, ops, faults, crashes, stops} \subseteq Nat
Flags == {up, stopped, ticking, timer, recheck} \subseteq BOOLEAN
RowsTyped == rows \in [Jobs -> RowOrNone]
LocalTyped == local \in [Workers -> Local]
ExecTyped == exec \in [Workers -> [Jobs -> Exec]]

\* The job a client works on between two statements of Update or RunNow; RunNow
\* holds the row it read.
ClientHolds(c) ==
    /\ pc[c] \in {"check", "runnow"} => local[c].job \in Jobs
    /\ pc[c] = "runnow" => local[c].todo[local[c].job] \in Row

\* The inductive invariant of TypeOK.
CronInv ==
    /\ TickInv /\ Numbers /\ Flags /\ RowsTyped /\ LocalTyped /\ ExecTyped
    /\ ctx \in [Clients -> BOOLEAN]
    /\ \A c \in Clients : ClientHolds(c)

LEMMA LargerTyped == \A a, b \in Nat : Larger(a, b) \in Nat /\ Larger(a, b) >= a /\ Larger(a, b) >= b
  BY DEF Larger

\* ComputeJobNextInstant returns an instant, or 0 for none.
LEMMA NextTyped ==
    ASSUME NEW cfg \in Config, NEW t \in Nat
    PROVE  NextInstant(cfg, t) \in Nat
<1>1. Period \in Nat \ {0} /\ cfg.at \in Nat /\ cfg.kind \in Kinds
  BY PositiveBounds DEF Config
<1>2. (t + Period - 1) \in Nat
  BY <1>1
<1>3. (t + Period - 1) \div Period \in Nat /\ t \div Period \in Nat
  BY <1>1, <1>2
<1>4. Larger((t + Period - 1) \div Period, 1) \in Nat
  BY <1>3, LargerTyped
<1>5. \A q \in Nat : Period * q \in Nat
  BY <1>1
<1>6. Period * Larger((t + Period - 1) \div Period, 1) \in Nat /\ Period * (t \div Period + 1) \in Nat
  BY <1>3, <1>4, <1>5
<1>7. QED
  BY <1>1, <1>6 DEF NextInstant, Kinds

\* The delay before the next attempt is an entry of the table.
LEMMA BackoffTyped == \A n \in Nat : ErrorBackoff(n) \in Nat
<1>1. Len(Backoffs) \in Nat /\ Len(Backoffs) >= 1 /\ \A i \in 1..Len(Backoffs) : Backoffs[i] \in Nat
  BY BackoffTable
<1>2. \A n \in Nat : (IF n > Len(Backoffs) THEN Len(Backoffs) ELSE Larger(n, 1)) \in 1..Len(Backoffs)
  BY <1>1 DEF Larger
<1>3. QED
  BY <1>1, <1>2 DEF ErrorBackoff

\* applyOutcome yields the columns of a row.
LEMMA OutcomeTyped ==
    ASSUME NEW row \in Row, NEW res \in ResultSet, NEW end \in Nat
    PROVE  Outcome(row, res, end) \in [enabled : BOOLEAN, next : Nat, errors : 0..MaxErrors]
<1> DEFINE failed == res \in {"transient", "permanent"}
           errors == IF ~failed THEN 0
                     ELSE IF row.errors < MaxErrors THEN row.errors + 1 ELSE MaxErrors
           retry == end + ErrorBackoff(errors)
           again == res = "transient" /\ errors <= MaxAttempts
           planned == NextInstant(row.cfg, end)
           delayed == IF res = "ok" THEN planned ELSE Larger(planned, retry)
           spaced == IF row.cfg.kind = "cron" THEN Larger(delayed, end + MinGap) ELSE delayed
<1>1. row.cfg \in Config /\ row.errors \in 0..MaxErrors /\ row.enabled \in BOOLEAN
  BY DEF Row
<1>2. errors \in 0..MaxErrors /\ errors \in Nat
  BY <1>1, PositiveBounds
<1> HIDE DEF errors
<1>3. retry \in Nat
  BY <1>2, BackoffTyped
<1>4. planned \in Nat
  BY <1>1, NextTyped
<1> HIDE DEF retry, planned
<1>5. delayed \in Nat
  BY <1>3, <1>4, LargerTyped
<1> HIDE DEF delayed
<1>5a. end + MinGap \in Nat
  BY PositiveBounds
<1>6. spaced \in Nat
  BY <1>5, <1>5a, LargerTyped
<1>7. (row.enabled /\ again) \in BOOLEAN
  OBVIOUS
<1> HIDE DEF spaced, again
<1>8. Outcome(row, res, end) =
         IF row.cfg.kind \in {"at", "once"}
         THEN [enabled |-> row.enabled /\ again, next |-> IF again THEN retry ELSE 0, errors |-> errors]
         ELSE [enabled |-> row.enabled, next |-> spaced, errors |-> errors]
  BY DEF Outcome, errors, retry, again, planned, delayed, spaced
<1>9. (IF again THEN retry ELSE 0) \in Nat
  BY <1>3
<1>10. CASE row.cfg.kind \in {"at", "once"}
  BY <1>2, <1>7, <1>8, <1>9, <1>10
<1>11. CASE row.cfg.kind \notin {"at", "once"}
  BY <1>1, <1>2, <1>6, <1>8, <1>11
<1>12. QED
  BY <1>10, <1>11

\* A store call succeeds or fails; at most it counts a fault.
LEMMA FaultCounted ==
    ASSUME faults \in Nat, UNCHANGED faults \/ Fault
    PROVE  faults' \in Nat
  BY DEF Fault

\* Every step counts at most one request, fault, crash, stop, timer or instant.
LEMMA NumbersStep == CronInv /\ [Next]_vars => Numbers'
<1> SUFFICES ASSUME CronInv, [Next]_vars PROVE Numbers'
  OBVIOUS
<1>0. now \in Nat /\ fired \in Nat /\ ops \in Nat /\ faults \in Nat /\ crashes \in Nat /\ stops \in Nat
  BY DEF CronInv, Numbers
<1>1. ASSUME NEW w \in Workers, NEW j \in Jobs, RunOneJob(w, j) PROVE Numbers'
  <2>1. UNCHANGED <<now, svcVars, ops, crashes, stops>>
    BY <1>1 DEF RunOneJob, Dispatch, Refresh, Persist, DeleteAfterRun, ClearRunning, bounds
  <2>2. UNCHANGED faults \/ Fault
    BY <1>1 DEF RunOneJob, Dispatch, Refresh, Persist, DeleteAfterRun, ClearRunning, bounds, Succeeds, Fails
  <2>3. QED
    BY <1>0, <2>1, <2>2, FaultCounted DEF Numbers, svcVars
<1>2. ASSUME NEW t \in Ticks, Load(t) \/ Spawn(t) \/ WaitDone(t) \/ \E j \in Jobs : MarkRunning(t, j)
      PROVE  Numbers'
  <2>1. UNCHANGED <<now, svcVars, ops, crashes, stops>>
    BY <1>2 DEF Load, Spawn, WaitDone, MarkRunning, bounds
  <2>2. UNCHANGED faults \/ Fault
    BY <1>2 DEF Load, Spawn, WaitDone, MarkRunning, bounds, Succeeds, Fails
  <2>3. QED
    BY <1>0, <2>1, <2>2, FaultCounted DEF Numbers, svcVars
<1>3. ASSUME NEW t \in Ticks, OnTimer(t) \/ FinishTick(t) PROVE Numbers'
  <2>1. UNCHANGED <<now, bounds>> /\ fired' \in Nat
    BY <1>0, <1>3 DEF OnTimer, FinishTick
  <2>2. QED
    BY <1>0, <2>1 DEF Numbers, bounds
<1>4. CASE StartStep
  <2>1. UNCHANGED <<now, svcVars, ops, crashes, stops>>
    BY <1>4 DEF StartStep, CatchUp, CatchUpNext, DeferWrite, CatchUpDone, CatchUpMark, DeferRead, bounds
  <2>2. UNCHANGED faults \/ Fault
    BY <1>4 DEF StartStep, CatchUp, CatchUpNext, DeferWrite, CatchUpDone, CatchUpMark, DeferRead, bounds
  <2>3. QED
    BY <1>0, <2>1, <2>2, FaultCounted DEF Numbers, svcVars
<1>5. ASSUME NEW c \in Clients, ClientStep(c) \/ CallerGone(c) PROVE Numbers'
  <2>1. UNCHANGED <<now, svcVars, ops, crashes, stops>>
    BY <1>5 DEF ClientStep, CheckUpdate, WriteUpdate, RunNowMark, RunNowDone, CallerGone, bounds
  <2>2. UNCHANGED faults \/ Fault
    BY <1>5 DEF ClientStep, CheckUpdate, WriteUpdate, RunNowMark, RunNowDone, CallerGone, bounds, Succeeds, Fails
  <2>3. QED
    BY <1>0, <2>1, <2>2, FaultCounted DEF Numbers, svcVars
<1>6. ASSUME NEW c \in Clients, NEW j \in Jobs, Request(c, j) PROVE Numbers'
  <2>1. UNCHANGED <<now, svcVars, faults, crashes, stops>> /\ ops' = ops + 1
    BY <1>6 DEF Request, Create, BeginUpdate, Delete, RunNow, Begin
  <2>2. QED
    BY <1>0, <2>1 DEF Numbers, svcVars
<1>7. CASE Fire \/ Stop \/ Crash \/ Exit \/ Restart \/ Pass \/ UNCHANGED vars
  BY <1>0, <1>7 DEF Fire, Stop, Crash, Exit, Die, Restart, Pass, vars, svcVars, bounds, Numbers
<1>8. ASSUME NEW w \in Workers, ArmTimer(w) PROVE Numbers'
  BY <1>0, <1>8 DEF ArmTimer, bounds, Numbers
<1>9. QED
  BY <1>1, <1>2, <1>3, <1>4, <1>5, <1>6, <1>7, <1>8 DEF Next, TickStep

\* The flags of the service stay flags, and so do the clients' contexts.
LEMMA FlagsStep == CronInv /\ [Next]_vars => Flags' /\ ctx' \in [Clients -> BOOLEAN]
<1> SUFFICES ASSUME CronInv, [Next]_vars PROVE Flags' /\ ctx' \in [Clients -> BOOLEAN]
  OBVIOUS
<1>0. {up, stopped, ticking, timer, recheck} \subseteq BOOLEAN /\ ctx \in [Clients -> BOOLEAN]
  BY DEF CronInv, Flags
<1>1. ASSUME UNCHANGED <<up, svcVars, ctx>> PROVE Flags' /\ ctx' \in [Clients -> BOOLEAN]
  BY <1>0, <1>1 DEF Flags, svcVars
<1>2. ASSUME NEW w \in Workers, NEW j \in Jobs, RunOneJob(w, j) PROVE UNCHANGED <<up, svcVars, ctx>>
  BY <1>2 DEF RunOneJob, Dispatch, Refresh, Persist, DeleteAfterRun, ClearRunning
<1>3. ASSUME NEW t \in Ticks, Load(t) \/ Spawn(t) \/ WaitDone(t) \/ \E j \in Jobs : MarkRunning(t, j)
      PROVE  UNCHANGED <<up, svcVars, ctx>>
  BY <1>3 DEF Load, Spawn, WaitDone, MarkRunning
<1>4. ASSUME StartStep PROVE UNCHANGED <<up, svcVars, ctx>>
  BY <1>4 DEF StartStep, CatchUp, CatchUpNext, DeferWrite, CatchUpDone, CatchUpMark, DeferRead
<1>5. ASSUME NEW c \in Clients, ClientStep(c) PROVE UNCHANGED <<up, svcVars, ctx>>
  BY <1>5 DEF ClientStep, CheckUpdate, WriteUpdate, RunNowMark, RunNowDone
<1>6. ASSUME NEW t \in Ticks, OnTimer(t) \/ FinishTick(t) PROVE Flags' /\ ctx' \in [Clients -> BOOLEAN]
  BY <1>0, <1>6, Zenon DEF OnTimer, FinishTick, Flags
<1>7. ASSUME NEW c \in Clients, CallerGone(c) PROVE Flags' /\ ctx' \in [Clients -> BOOLEAN]
  <2>1. UNCHANGED <<up, svcVars>> /\ ctx' = [ctx EXCEPT ![c] = FALSE]
    BY <1>7 DEF CallerGone
  <2>2. QED
    BY <1>0, <2>1 DEF Flags, svcVars
<1>8. ASSUME NEW c \in Clients, NEW j \in Jobs, Request(c, j) PROVE Flags' /\ ctx' \in [Clients -> BOOLEAN]
  <2>1. UNCHANGED <<up, svcVars>> /\ ctx' = [ctx EXCEPT ![c] = TRUE]
    BY <1>8 DEF Request, Create, BeginUpdate, Delete, RunNow, Begin
  <2>2. QED
    BY <1>0, <2>1 DEF Flags, svcVars
<1>9. ASSUME NEW w \in Workers, ArmTimer(w) PROVE Flags' /\ ctx' \in [Clients -> BOOLEAN]
  BY <1>0, <1>9, Zenon DEF ArmTimer, Rearm, Flags
<1>10. CASE Fire \/ Stop \/ Restart
  BY <1>0, <1>10, Zenon DEF Fire, Stop, Restart, Flags, svcVars
<1>11. CASE Crash \/ Exit
  BY <1>11 DEF Crash, Exit, Die, Flags
<1>12. CASE Pass \/ UNCHANGED vars
  BY <1>1, <1>12 DEF Pass, vars
<1>13. QED
  BY <1>1, <1>2, <1>3, <1>4, <1>5, <1>6, <1>7, <1>8, <1>9, <1>10, <1>11, <1>12 DEF Next, TickStep

\* The records that stand for nothing are records.
LEMMA EmptyTyped == NoRow \in Row /\ NoLocal \in Local /\ NoExec \in Exec
<1>1. NoRow \in Row
  BY PositiveBounds DEF NoRow, Row, Config, Kinds
<1>2. NoLocal \in Local
  BY <1>1 DEF NoLocal, NoList, Local
<1>3. NoExec \in Exec
  BY PositiveBounds DEF NoExec, Exec, ResultSet
<1>4. QED
  BY <1>1, <1>2, <1>3

\* A worker's record: its list holds rows, and so do its marks.
LEMMA MarkTyped ==
    ASSUME CronInv, NEW w \in Workers, NEW j \in Jobs, local[w].todo[j] \in Row
    PROVE  Marked(w, j) \in Row
<1>1. local[w].ms \in Nat
  BY DEF CronInv, LocalTyped, Local
<1>2. QED
  BY <1>1 DEF Marked, Row

\* Create makes a row.
LEMMA NewRowTyped ==
    ASSUME NEW cfg \in Config, NEW n \in Nat
    PROVE  [NoRow EXCEPT !.cfg = cfg, !.enabled = TRUE, !.next = n] \in Row
  BY EmptyTyped DEF Row

\* What is written to a row is a row, or its deletion.
LEMMA RowsStep == CronInv /\ [Next]_vars => RowsTyped'
<1> SUFFICES ASSUME CronInv, [Next]_vars PROVE RowsTyped'
  OBVIOUS
<1>0. /\ rows \in [Jobs -> RowOrNone] /\ local \in [Workers -> Local]
      /\ exec \in [Workers -> [Jobs -> Exec]] /\ now \in Nat /\ faults \in Nat
      /\ Ticks \subseteq Workers /\ Boot \in Workers /\ Clients \subseteq Workers
  BY DEF CronInv, RowsTyped, LocalTyped, ExecTyped, Numbers, Workers
<1>1. ASSUME NEW j, NEW r, j \in Jobs => r \in RowOrNone, rows' = [rows EXCEPT ![j] = r] PROVE RowsTyped'
  BY <1>0, <1>1 DEF RowsTyped
<1>2. CASE UNCHANGED rows
  BY <1>0, <1>2 DEF RowsTyped
<1>3. None \in RowOrNone /\ Row \subseteq RowOrNone
  BY DEF RowOrNone
<1>4. ASSUME NEW w \in Workers, NEW j \in Jobs, RunOneJob(w, j) PROVE RowsTyped'
  <2>1. CASE ~UNCHANGED rows /\ Persist(w, j)
    <3>1. rows[j] \in Row
      BY <1>0, <2>1 DEF Persist, RowOrNone
    <3>2. exec[w][j].out \in [enabled : BOOLEAN, next : Nat, errors : 0..MaxErrors]
      BY <1>0 DEF Exec
    <3>3. [rows[j] EXCEPT !.enabled = exec[w][j].out.enabled, !.next = exec[w][j].out.next,
                          !.errors = exec[w][j].out.errors, !.running = 0] \in Row
      BY <3>1, <3>2 DEF Row
    <3>4. QED
      BY <1>1, <1>3, <2>1, <3>3 DEF Persist
  <2>2. CASE ~UNCHANGED rows /\ ClearRunning(w, j)
    <3>1. rows[j] \in Row
      BY <1>0, <2>2 DEF ClearRunning, RowOrNone
    <3>2. [rows[j] EXCEPT !.running = 0] \in Row
      BY <3>1 DEF Row
    <3>3. QED
      BY <1>1, <1>3, <2>2, <3>2 DEF ClearRunning
  <2>3. CASE DeleteAfterRun(w, j)
    BY <1>1, <1>2, <1>3, <2>3 DEF DeleteAfterRun
  <2>4. QED
    BY <1>2, <1>4, <2>1, <2>2, <2>3 DEF RunOneJob, Dispatch, Refresh
<1>5. ASSUME NEW t \in Ticks, NEW j \in Jobs, MarkRunning(t, j) PROVE RowsTyped'
  <2>1. local[t].todo[j] \in Row
    BY <1>0, <1>5 DEF MarkRunning, First, Local
  <2>2. Marked(t, j) \in Row
    BY <1>0, <2>1, MarkTyped
  <2>3. QED
    BY <1>1, <1>2, <1>3, <1>5, <2>2 DEF MarkRunning
<1>6. ASSUME NEW j \in Jobs, CatchUpMark(j) PROVE RowsTyped'
  <2>1. local[Boot].todo[j] \in Row
    BY <1>0, <1>6 DEF CatchUpMark, First, Local
  <2>2. Marked(Boot, j) \in Row
    BY <1>0, <2>1, MarkTyped
  <2>3. QED
    BY <1>1, <1>2, <1>3, <1>6, <2>2 DEF CatchUpMark
<1>7. CASE DeferWrite
  <2>1. local[Boot].row \in Row
    BY <1>0 DEF Local
  <2>2. QED
    BY <1>1, <1>2, <1>3, <1>7, <2>1 DEF DeferWrite
<1>8. ASSUME NEW c \in Clients, NEW j \in Jobs, Request(c, j) PROVE RowsTyped'
  <2>1. ASSUME NEW cfg \in Configs, Create(c, j, cfg) PROVE RowsTyped'
    <3>1. cfg \in Config /\ NextInstant(cfg, now) \in Nat
      BY <1>0, ConfigsAreConfigs, NextTyped
    <3>2. [NoRow EXCEPT !.cfg = cfg, !.enabled = TRUE, !.next = NextInstant(cfg, now)] \in Row
      BY <3>1, NewRowTyped
    <3>3. QED
      BY <1>1, <1>3, <2>1, <3>2 DEF Create
  <2>2. CASE Delete(c, j)
    BY <1>1, <1>3, <2>2 DEF Delete
  <2>3. QED
    BY <1>2, <1>8, <2>1, <2>2 DEF Request, BeginUpdate, RunNow
<1>9. ASSUME NEW c \in Clients, ClientStep(c) PROVE RowsTyped'
  <2>1. CASE WriteUpdate(c)
    <3>1. local[c].row \in Row
      BY <1>0 DEF Local
    <3>2. QED
      BY <1>1, <1>2, <1>3, <2>1, <3>1 DEF WriteUpdate
  <2>2. CASE RunNowMark(c)
    <3>1. local[c].job \in Jobs /\ local[c].todo[local[c].job] \in Row
      BY <2>2 DEF RunNowMark, CronInv, ClientHolds
    <3>2. Marked(c, local[c].job) \in Row
      BY <1>0, <3>1, MarkTyped
    <3>3. QED
      BY <1>1, <1>2, <1>3, <2>2, <3>2 DEF RunNowMark
  <2>3. QED
    BY <1>2, <1>9, <2>1, <2>2 DEF ClientStep, CheckUpdate, RunNowDone
<1>10. ASSUME NEW t \in Ticks, OnTimer(t) \/ Load(t) \/ Spawn(t) \/ WaitDone(t) \/ FinishTick(t)
       PROVE  UNCHANGED rows
  BY <1>10 DEF OnTimer, Load, Spawn, WaitDone, FinishTick
<1>11. ASSUME CatchUp \/ CatchUpNext \/ CatchUpDone \/ \E j \in Jobs : DeferRead(j) PROVE UNCHANGED rows
  BY <1>11 DEF CatchUp, CatchUpNext, CatchUpDone, DeferRead
<1>12. ASSUME \/ \E w \in Workers : ArmTimer(w)
              \/ \E c \in Clients : CallerGone(c)
              \/ Fire \/ Stop \/ Crash \/ Exit \/ Restart \/ Pass \/ UNCHANGED vars
       PROVE  UNCHANGED rows
  BY <1>12 DEF ArmTimer, CallerGone, Fire, Stop, Crash, Exit, Die, Restart, Pass, vars
<1>13. QED
  BY <1>2, <1>4, <1>5, <1>6, <1>7, <1>8, <1>9, <1>10, <1>11, <1>12 DEF Next, TickStep, StartStep

\* An execution is set to a record of an execution.
LEMMA ExecStep == CronInv /\ [Next]_vars => ExecTyped'
<1> SUFFICES ASSUME CronInv, [Next]_vars PROVE ExecTyped'
  OBVIOUS
<1>0. /\ exec \in [Workers -> [Jobs -> Exec]] /\ rows \in [Jobs -> RowOrNone] /\ now \in Nat
      /\ Ticks \subseteq Workers /\ Boot \in Workers /\ Clients \subseteq Workers
  BY DEF CronInv, RowsTyped, ExecTyped, Numbers, Workers
<1>1. ASSUME NEW w \in Workers, NEW j \in Jobs, NEW e \in Exec, exec' = [exec EXCEPT ![w][j] = e] PROVE ExecTyped'
  BY <1>0, <1>1 DEF ExecTyped
<1>2. CASE UNCHANGED exec
  BY <1>0, <1>2 DEF ExecTyped
<1>3. ASSUME NEW w \in Workers, NEW j, Launch(w, j) PROVE ExecTyped'
  <2>1. CASE j \in Jobs
    <3>0. exec[w][j] \in Exec
      BY <1>0, <2>1
    <3>1. [exec[w][j] EXCEPT !.pc = "dispatch"] \in Exec
      BY <3>0 DEF Exec
    <3>2. exec' = [exec EXCEPT ![w][j] = [exec[w][j] EXCEPT !.pc = "dispatch"]]
      BY <1>0, <1>3, <2>1 DEF Launch
    <3>3. QED
      BY <1>1, <2>1, <3>1, <3>2
  <2>2. CASE j \notin Jobs
    BY <1>0, <1>3, <2>2 DEF Launch, ExecTyped
  <2>3. QED
    BY <2>1, <2>2
<1>4. ASSUME NEW w \in Workers, NEW j \in Jobs, RunOneJob(w, j) PROVE ExecTyped'
  <2>0. exec[w][j] \in Exec
    BY <1>0
  <2>1. [exec[w][j] EXCEPT !.pc = "clear"] \in Exec
    BY <2>0 DEF Exec
  <2>2. ASSUME NEW res \in Results, Dispatch(w, j, res) PROVE ExecTyped'
    <3>1. [exec[w][j] EXCEPT !.pc = "refresh", !.res = res, !.end = now] \in Exec
      BY <1>0, <2>0, ResultsAreResults DEF Exec
    <3>2. exec' = [exec EXCEPT ![w][j] = [exec[w][j] EXCEPT !.pc = "refresh", !.res = res, !.end = now]]
      BY <1>0, <2>2 DEF Dispatch
    <3>3. QED
      BY <1>1, <3>1, <3>2
  <2>3. CASE Refresh(w, j)
    <3>1. CASE rows[j] # None
      <4>1. rows[j] \in Row /\ exec[w][j].res \in ResultSet /\ exec[w][j].end \in Nat
        BY <1>0, <2>0, <3>1 DEF Exec, RowOrNone
      <4>2. Outcome(rows[j], exec[w][j].res, exec[w][j].end)
              \in [enabled : BOOLEAN, next : Nat, errors : 0..MaxErrors]
        BY <4>1, OutcomeTyped
      <4>3. \A p \in {"delete", "persist"} :
               [NoExec EXCEPT !.pc = p, !.out = Outcome(rows[j], exec[w][j].res, exec[w][j].end)] \in Exec
        BY <4>2, EmptyTyped DEF Exec
      <4>4. \/ exec' = [exec EXCEPT ![w][j].pc = "clear"]
            \/ \E p \in {"delete", "persist"} : exec' = [exec EXCEPT ![w][j] =
                  [NoExec EXCEPT !.pc = p, !.out = Outcome(rows[j], exec[w][j].res, exec[w][j].end)]]
        BY <2>3 DEF Refresh
      <4>5. CASE exec' = [exec EXCEPT ![w][j].pc = "clear"]
        BY <1>0, <1>1, <2>1, <4>5
      <4>6. QED
        BY <1>1, <4>3, <4>4, <4>5
    <3>2. CASE rows[j] = None
      <4>1. exec' = [exec EXCEPT ![w][j].pc = "clear"]
        BY <2>3, <3>2 DEF Refresh
      <4>2. QED
        BY <1>0, <1>1, <2>1, <4>1
    <3>3. QED
      BY <3>1, <3>2
  <2>4. CASE Persist(w, j) \/ DeleteAfterRun(w, j) \/ ClearRunning(w, j)
    <3>1. Finish(w, j) \/ exec' = [exec EXCEPT ![w][j].pc = "clear"]
      BY <2>4 DEF Persist, DeleteAfterRun, ClearRunning
    <3>2. CASE exec' = [exec EXCEPT ![w][j].pc = "clear"]
      BY <1>0, <1>1, <2>1, <3>2
    <3>3. CASE Finish(w, j)
      BY <1>1, <3>3, EmptyTyped DEF Finish
    <3>4. QED
      BY <3>1, <3>2, <3>3
  <2>5. QED
    BY <1>4, <2>2, <2>3, <2>4 DEF RunOneJob
<1>5. ASSUME NEW t \in Ticks, TickStep(t) PROVE ExecTyped'
  <2>1. UNCHANGED exec \/ Launch(t, local[t].job)
    BY <1>5 DEF TickStep, OnTimer, Load, Spawn, WaitDone, FinishTick, MarkRunning
  <2>2. QED
    BY <1>0, <1>2, <1>3, <2>1
<1>6. CASE StartStep
  <2>1. UNCHANGED exec \/ \E j \in Jobs : Launch(Boot, j)
    BY <1>6 DEF StartStep, CatchUp, CatchUpNext, DeferWrite, CatchUpDone, CatchUpMark, DeferRead
  <2>2. QED
    BY <1>0, <1>2, <1>3, <2>1
<1>7. ASSUME NEW c \in Clients, ClientStep(c) PROVE ExecTyped'
  <2>1. UNCHANGED exec \/ Launch(c, local[c].job)
    BY <1>7 DEF ClientStep, CheckUpdate, WriteUpdate, RunNowMark, RunNowDone
  <2>2. QED
    BY <1>0, <1>2, <1>3, <2>1
<1>8. ASSUME \/ \E w \in Workers : ArmTimer(w)
             \/ \E c \in Clients : CallerGone(c) \/ \E j \in Jobs : Request(c, j)
             \/ Fire \/ Stop \/ Restart \/ Pass \/ UNCHANGED vars
      PROVE  UNCHANGED exec
  BY <1>8 DEF ArmTimer, CallerGone, Request, Create, BeginUpdate, Delete, RunNow, Fire, Stop, Restart, Pass, vars
<1>9. CASE Crash \/ Exit
  BY <1>9, EmptyTyped DEF Crash, Exit, Die, Quiet, ExecTyped
<1>10. QED
  BY <1>2, <1>4, <1>5, <1>6, <1>7, <1>8, <1>9 DEF Next

\* A worker takes an entry off one of its lists.
LEMMA ListsTyped ==
    ASSUME NEW l \in Local, NEW j \in Jobs, NEW n \in Nat
    PROVE  /\ [l EXCEPT !.todo[j] = None] \in Local
           /\ [l EXCEPT !.todo[j] = None, !.job = j] \in Local
           /\ [l EXCEPT !.later[j] = None, !.ms = n] \in Local
<1>1. [l.todo EXCEPT ![j] = None] \in [Jobs -> Row \cup {None}]
  BY DEF Local
<1>2. [l.later EXCEPT ![j] = None] \in [Jobs -> Row \cup {None}]
  BY DEF Local
<1>3. QED
  BY <1>1, <1>2 DEF Local

\* What a worker remembers stays typed.
LEMMA LocalStep == CronInv /\ [Next]_vars => LocalTyped'
<1> SUFFICES ASSUME CronInv, [Next]_vars PROVE LocalTyped'
  OBVIOUS
<1>0. /\ local \in [Workers -> Local] /\ rows \in [Jobs -> Row \cup {None}] /\ now \in Nat
      /\ Ticks \subseteq Workers /\ Boot \in Workers /\ Clients \subseteq Workers
  BY DEF CronInv, RowsTyped, LocalTyped, Numbers, Workers, RowOrNone
<1>1. ASSUME NEW w \in Workers, NEW l \in Local, local' = [local EXCEPT ![w] = l] PROVE LocalTyped'
  BY <1>0, <1>1 DEF LocalTyped
<1>2. CASE UNCHANGED local
  BY <1>0, <1>2 DEF LocalTyped
<1>3. NoLocal \in Local
  BY EmptyTyped
<1>4. ASSUME NEW t \in Ticks, TickStep(t) PROVE LocalTyped'
  <2>0. t \in Workers /\ local[t] \in Local
    BY <1>0
  <2>1. CASE Load(t)
    <3> DEFINE list == [j \in Jobs |-> IF rows[j] # None /\ IsDue(rows[j]) /\ ~IsRunning(rows[j])
                                       THEN rows[j] ELSE None]
    <3>1. list \in [Jobs -> Row \cup {None}]
      BY <1>0
    <3>2. UNCHANGED local \/ local' = [local EXCEPT ![t] = [NoLocal EXCEPT !.ms = now, !.todo = list]]
      BY <2>1 DEF Load
    <3> HIDE DEF list
    <3>3. [NoLocal EXCEPT !.ms = now, !.todo = list] \in Local
      BY <1>0, <1>3, <3>1 DEF Local
    <3>4. QED
      BY <1>1, <1>2, <2>0, <3>2, <3>3
  <2>2. ASSUME NEW j \in Jobs, MarkRunning(t, j) PROVE LocalTyped'
    <3>1. \/ local' = [local EXCEPT ![t] = [local[t] EXCEPT !.todo[j] = None, !.job = j]]
          \/ local' = [local EXCEPT ![t] = [local[t] EXCEPT !.todo[j] = None]]
      BY <1>0, <2>0, <2>2 DEF MarkRunning, Local
    <3>2. QED
      BY <1>1, <2>0, <3>1, ListsTyped, 0 \in Nat
  <2>3. CASE Spawn(t)
    <3>1. local' = [local EXCEPT ![t] = [local[t] EXCEPT !.job = None]]
      BY <1>0, <2>0, <2>3 DEF Spawn
    <3>2. [local[t] EXCEPT !.job = None] \in Local
      BY <2>0 DEF Local
    <3>3. QED
      BY <1>1, <2>0, <3>1, <3>2
  <2>4. CASE WaitDone(t)
    BY <1>1, <1>3, <2>0, <2>4 DEF WaitDone
  <2>5. CASE OnTimer(t) \/ FinishTick(t)
    BY <1>2, <2>5 DEF OnTimer, FinishTick
  <2>6. QED
    BY <1>4, <2>1, <2>2, <2>3, <2>4, <2>5 DEF TickStep
<1>5. CASE StartStep
  <2>0. local[Boot] \in Local /\ local[Boot].ms \in Nat
    BY <1>0 DEF Local
  <2>1. CASE CatchUp /\ ~UNCHANGED local
    <3>1. PICK S \in SUBSET Jobs, D \in SUBSET Jobs :
             /\ \A j \in S \cup D : rows[j] # None
             /\ local' = [local EXCEPT ![Boot] = [NoLocal EXCEPT
                    !.ms = now,
                    !.todo = [j \in Jobs |-> IF j \in S THEN rows[j] ELSE None],
                    !.later = [j \in Jobs |-> IF j \in D THEN rows[j] ELSE None]]]
      <4> DEFINE overdue == {j \in Jobs : rows[j] # None /\ IsDue(rows[j])}
      <4>1. PICK S \in SUBSET overdue :
             local' = [local EXCEPT ![Boot] = [NoLocal EXCEPT
                    !.ms = now,
                    !.todo = [j \in Jobs |-> IF j \in S THEN rows[j] ELSE None],
                    !.later = [j \in Jobs |-> IF j \in overdue \ S THEN rows[j] ELSE None]]]
        BY <2>1 DEF CatchUp
      <4>2. S \in SUBSET Jobs /\ overdue \ S \in SUBSET Jobs /\ \A j \in S \cup (overdue \ S) : rows[j] # None
        OBVIOUS
      <4> HIDE DEF overdue
      <4>3. QED
        BY <4>1, <4>2
    <3> DEFINE todo == [j \in Jobs |-> IF j \in S THEN rows[j] ELSE None]
               later == [j \in Jobs |-> IF j \in D THEN rows[j] ELSE None]
    <3>2. todo \in [Jobs -> Row \cup {None}] /\ later \in [Jobs -> Row \cup {None}]
      BY <1>0
    <3> HIDE DEF todo, later
    <3>3. [NoLocal EXCEPT !.ms = now, !.todo = todo, !.later = later] \in Local
      BY <1>0, <1>3, <3>2 DEF Local
    <3>4. QED
      BY <1>0, <1>1, <3>1, <3>3 DEF todo, later
  <2>2. ASSUME NEW j \in Jobs, CatchUpMark(j) PROVE LocalTyped'
    <3>1. local' = [local EXCEPT ![Boot] = [local[Boot] EXCEPT !.todo[j] = None]]
      BY <1>0, <2>0, <2>2 DEF CatchUpMark
    <3>2. QED
      BY <1>0, <1>1, <2>0, <3>1, ListsTyped, 0 \in Nat
  <2>3. ASSUME NEW j \in Jobs, DeferRead(j) PROVE LocalTyped'
    <3> DEFINE at == local[Boot].ms + Stagger
               rest == [local[Boot] EXCEPT !.later[j] = None, !.ms = at]
    <3>1. at \in Nat
      BY <2>0, PositiveBounds
    <3>2. \/ rows[j] # None /\ local' = [local EXCEPT ![Boot] =
                [rest EXCEPT !.job = j, !.row = [rows[j] EXCEPT !.next = at]]]
          \/ local' = [local EXCEPT ![Boot] = rest]
      BY <2>3 DEF DeferRead
    <3> HIDE DEF at
    <3>3. rest \in Local
      BY <2>0, <3>1, ListsTyped
    <3> HIDE DEF rest
    <3>4. ASSUME rows[j] # None PROVE [rest EXCEPT !.job = j, !.row = [rows[j] EXCEPT !.next = at]] \in Local
      <4>1. rows[j] \in Row
        BY <1>0, <3>4
      <4>2. [rows[j] EXCEPT !.next = at] \in Row
        BY <3>1, <4>1 DEF Row
      <4>3. QED
        BY <3>3, <4>2 DEF Local
    <3>5. QED
      BY <1>0, <1>1, <3>2, <3>3, <3>4
  <2>4. CASE CatchUpDone
    BY <1>0, <1>1, <1>3, <2>4 DEF CatchUpDone
  <2>5. CASE CatchUpNext \/ DeferWrite
    BY <1>2, <2>5 DEF CatchUpNext, DeferWrite
  <2>6. QED
    BY <1>2, <1>5, <2>1, <2>2, <2>3, <2>4, <2>5 DEF StartStep
<1>6. ASSUME NEW c \in Clients, NEW j \in Jobs, Request(c, j) PROVE LocalTyped'
  <2>0. c \in Workers
    BY <1>0
  <2>1. ASSUME NEW cfg \in Configs, NEW en \in BOOLEAN, BeginUpdate(c, j, cfg, en) PROVE LocalTyped'
    <3>1. rows[j] \in Row /\ cfg \in Config
      BY <1>0, <2>1, ConfigsAreConfigs DEF BeginUpdate
    <3>2. [rows[j] EXCEPT !.cfg = cfg, !.enabled = en] \in Row
      BY <3>1 DEF Row
    <3>3. [NoLocal EXCEPT !.job = j, !.row = [rows[j] EXCEPT !.cfg = cfg, !.enabled = en]] \in Local
      BY <1>3, <3>2 DEF Local
    <3>4. QED
      BY <1>1, <2>0, <2>1, <3>3 DEF BeginUpdate
  <2>2. CASE RunNow(c, j)
    <3>1. rows[j] \in Row
      BY <1>0, <2>2 DEF RunNow
    <3>2. [NoList EXCEPT ![j] = rows[j]] \in [Jobs -> Row \cup {None}]
      BY <3>1 DEF NoList
    <3>3. [NoLocal EXCEPT !.ms = now, !.job = j, !.todo = [NoList EXCEPT ![j] = rows[j]]] \in Local
      BY <1>0, <1>3, <3>2 DEF Local
    <3>4. QED
      BY <1>1, <2>0, <2>2, <3>3 DEF RunNow
  <2>3. QED
    BY <1>2, <1>6, <2>1, <2>2 DEF Request, Create, Delete
<1>7. ASSUME NEW c \in Clients, ClientStep(c) PROVE LocalTyped'
  <2>0. c \in Workers /\ local[c] \in Local /\ local[c].row \in Row
    BY <1>0 DEF Local
  <2>1. CASE CheckUpdate(c)
    <3> DEFINE j == local[c].job
               next == NextInstant(local[c].row.cfg, now)
    <3>1. j \in Jobs
      BY <2>1 DEF CheckUpdate, CronInv, ClientHolds
    <3>2. next \in Nat
      BY <1>0, <2>0, NextTyped DEF Row
    <3>3. \/ rows[j] # None /\ local' = [local EXCEPT ![c].row.next = next, ![c].row.errors = rows[j].errors]
          \/ local' = [local EXCEPT ![c] = NoLocal]
      BY <2>1 DEF CheckUpdate
    <3> HIDE DEF next, j
    <3>4. ASSUME rows[j] # None, local' = [local EXCEPT ![c].row.next = next, ![c].row.errors = rows[j].errors]
          PROVE  LocalTyped'
      <4>1. rows[j] \in Row
        BY <1>0, <3>1, <3>4
      <4>2. [local[c].row EXCEPT !.next = next, !.errors = rows[j].errors] \in Row
        BY <2>0, <3>2, <4>1 DEF Row
      <4>3. [local[c] EXCEPT !.row = [local[c].row EXCEPT !.next = next, !.errors = rows[j].errors]] \in Local
        BY <2>0, <4>2 DEF Local
      <4>4. local' = [local EXCEPT ![c] =
               [local[c] EXCEPT !.row = [local[c].row EXCEPT !.next = next, !.errors = rows[j].errors]]]
        BY <1>0, <2>0, <3>4 DEF Local, Row
      <4>5. QED
        BY <1>1, <2>0, <4>3, <4>4
    <3>5. QED
      BY <1>1, <1>3, <2>0, <3>3, <3>4
  <2>2. CASE WriteUpdate(c) \/ RunNowMark(c)
    BY <1>1, <1>3, <2>0, <2>2 DEF WriteUpdate, RunNowMark
  <2>3. QED
    BY <1>2, <1>7, <2>1, <2>2 DEF ClientStep, RunNowDone
<1>8. ASSUME \/ \E w \in Workers : ArmTimer(w) \/ \E j \in Jobs : RunOneJob(w, j)
             \/ \E c \in Clients : CallerGone(c)
             \/ Fire \/ Stop \/ Restart \/ Pass \/ UNCHANGED vars
      PROVE  UNCHANGED local
  BY <1>8 DEF ArmTimer, RunOneJob, Dispatch, Refresh, Persist, DeleteAfterRun, ClearRunning, CallerGone,
              Fire, Stop, Restart, Pass, vars
<1>9. CASE Crash \/ Exit
  BY <1>3, <1>9 DEF Crash, Exit, Die, LocalTyped
<1>10. QED
  BY <1>2, <1>4, <1>5, <1>6, <1>7, <1>8, <1>9 DEF Next

\* Between two statements a client keeps the job it was asked about.
LEMMA HoldsStep == CronInv /\ [Next]_vars => \A c \in Clients : ClientHolds(c)'
<1> SUFFICES ASSUME CronInv, [Next]_vars, NEW c \in Clients PROVE ClientHolds(c)'
  OBVIOUS
<1>0. /\ pc \in [Workers -> Pcs] /\ local \in [Workers -> Local] /\ rows \in [Jobs -> RowOrNone]
      /\ c \in Workers /\ c # Boot /\ c \notin Ticks /\ Clients \subseteq Workers
      /\ ClientHolds(c)
  BY DistinctWorkers DEF CronInv, TickInv, Control, LocalTyped, RowsTyped, Workers
<1>1. ASSUME pc'[c] = pc[c], local'[c] = local[c] PROVE ClientHolds(c)'
  BY <1>0, <1>1 DEF ClientHolds
<1>2. ASSUME pc'[c] \notin {"check", "runnow"} PROVE ClientHolds(c)'
  BY <1>2 DEF ClientHolds
<1>3. ASSUME NEW w \in Workers, w # c, NEW l, NEW s,
             pc' = pc \/ pc' = [pc EXCEPT ![w] = s],
             local' = local \/ local' = [local EXCEPT ![w] = l]
      PROVE  ClientHolds(c)'
  BY <1>0, <1>1, <1>3
<1>4. ASSUME \E w \in Workers, j \in Jobs : RunOneJob(w, j) PROVE ClientHolds(c)'
  BY <1>1, <1>4 DEF RunOneJob, Dispatch, Refresh, Persist, DeleteAfterRun, ClearRunning
<1>5. ASSUME NEW w \in Workers, ArmTimer(w) PROVE ClientHolds(c)'
  <2>1. pc' = [pc EXCEPT ![w] = "idle"] /\ UNCHANGED local
    BY <1>5 DEF ArmTimer, Go
  <2>2. QED
    BY <1>0, <1>1, <1>2, <2>1
<1>6. ASSUME NEW t \in Ticks, TickStep(t) PROVE ClientHolds(c)'
  <2>1. t \in Workers /\ t # c
    BY <1>0 DEF Workers
  <2>2. UNCHANGED pc \/ \E s : pc' = [pc EXCEPT ![t] = s]
    BY <1>6 DEF TickStep, OnTimer, Load, Spawn, WaitDone, FinishTick, MarkRunning, Go
  <2>3. UNCHANGED local \/ \E l : local' = [local EXCEPT ![t] = l]
    BY <1>6 DEF TickStep, OnTimer, Load, Spawn, WaitDone, FinishTick, MarkRunning
  <2>4. QED
    BY <1>3, <2>1, <2>2, <2>3
<1>7. CASE StartStep
  <2>1. Boot \in Workers /\ Boot # c
    BY <1>0 DEF Workers
  <2>2. UNCHANGED pc \/ \E s : pc' = [pc EXCEPT ![Boot] = s]
    BY <1>7 DEF StartStep, CatchUp, CatchUpNext, DeferWrite, CatchUpDone, CatchUpMark, DeferRead, Go
  <2>3. UNCHANGED local \/ \E l : local' = [local EXCEPT ![Boot] = l]
    BY <1>7 DEF StartStep, CatchUp, CatchUpNext, DeferWrite, CatchUpDone, CatchUpMark, DeferRead
  <2>4. QED
    BY <1>3, <2>1, <2>2, <2>3
<1>8. ASSUME NEW d \in Clients, NEW j \in Jobs, Request(d, j) PROVE ClientHolds(c)'
  <2>0. d \in Workers
    BY <1>0
  <2>1. ASSUME NEW cfg \in Configs, NEW en \in BOOLEAN, BeginUpdate(d, j, cfg, en) PROVE ClientHolds(c)'
    <3> DEFINE l == [NoLocal EXCEPT !.job = j, !.row = [rows[j] EXCEPT !.cfg = cfg, !.enabled = en]]
    <3>1. pc' = [pc EXCEPT ![d] = "check"] /\ local' = [local EXCEPT ![d] = l]
      BY <2>1 DEF BeginUpdate, Go
    <3>2. l.job = j
      BY DEF NoLocal
    <3> HIDE DEF l
    <3>3. CASE d = c
      BY <1>0, <3>1, <3>2, <3>3 DEF ClientHolds
    <3>4. QED
      BY <1>3, <2>0, <3>1, <3>3
  <2>2. CASE RunNow(d, j)
    <3> DEFINE l == [NoLocal EXCEPT !.ms = now, !.job = j, !.todo = [NoList EXCEPT ![j] = rows[j]]]
    <3>1. pc' = [pc EXCEPT ![d] = "runnow"] /\ local' = [local EXCEPT ![d] = l] /\ rows[j] \in Row
      BY <1>0, <2>2 DEF RunNow, Go, RowOrNone
    <3>2. l.job = j /\ l.todo[j] = rows[j]
      BY DEF NoLocal, NoList
    <3> HIDE DEF l
    <3>3. CASE d = c
      BY <1>0, <3>1, <3>2, <3>3 DEF ClientHolds
    <3>4. QED
      BY <1>3, <2>0, <3>1, <3>3
  <2>3. CASE Delete(d, j) \/ \E cfg \in Configs : Create(d, j, cfg)
    <3>1. pc' = [pc EXCEPT ![d] = "arm"] /\ UNCHANGED local
      BY <2>3 DEF Delete, Create, Go
    <3>2. QED
      BY <1>0, <1>1, <1>2, <2>0, <3>1
  <2>4. QED
    BY <1>8, <2>1, <2>2, <2>3 DEF Request
<1>9. ASSUME NEW d \in Clients, ClientStep(d) PROVE ClientHolds(c)'
  <2>0. d \in Workers
    BY <1>0
  <2>1. \E s \in {"idle", "write", "arm", "await"} : pc' = [pc EXCEPT ![d] = s]
    BY <1>9 DEF ClientStep, CheckUpdate, WriteUpdate, RunNowMark, RunNowDone, Go
  <2>2. CASE d = c
    BY <1>0, <1>2, <2>1, <2>2
  <2>3. CASE d # c
    <3>1. local'[c] = local[c]
      BY <1>0, <1>9, <2>0, <2>3 DEF ClientStep, CheckUpdate, WriteUpdate, RunNowMark, RunNowDone
    <3>2. QED
      BY <1>0, <1>1, <2>0, <2>1, <2>3, <3>1
  <2>4. QED
    BY <2>2, <2>3
<1>10. ASSUME (\E d \in Clients : CallerGone(d)) \/ Fire \/ Stop \/ Pass \/ UNCHANGED vars PROVE ClientHolds(c)'
  BY <1>1, <1>10 DEF CallerGone, Fire, Stop, Pass, vars
<1>11. CASE Crash \/ Exit
  BY <1>0, <1>2, <1>11 DEF Crash, Exit, Die
<1>12. CASE Restart
  <2>1. Boot \in Workers /\ pc' = [pc EXCEPT ![Boot] = "load"] /\ UNCHANGED local
    BY <1>12 DEF Restart, Go, Workers
  <2>2. QED
    BY <1>0, <1>1, <2>1
<1>13. QED
  BY <1>4, <1>5, <1>6, <1>7, <1>8, <1>9, <1>10, <1>11, <1>12 DEF Next

\* The rows of an earlier life are rows, and nobody is at work but Start.
LEMMA InitCronInv == Init => CronInv
<1> SUFFICES ASSUME Init PROVE CronInv
  OBVIOUS
<1>1. TickInv
  BY InitTickInv
<1>2. Numbers /\ Flags
  <2>0. now = 1 /\ fired = 0 /\ ops = 0 /\ faults = 0 /\ crashes = 0 /\ stops = 0
    BY Zenon DEF Init
  <2>1. Numbers
    BY <2>0 DEF Numbers
  <2>2. Flags
    BY Zenon DEF Init, Flags
  <2>3. QED
    BY <2>1, <2>2
<1>3. ASSUME NEW cfg \in Configs
      PROVE  [NoRow EXCEPT !.cfg = cfg, !.enabled = TRUE, !.next = NextInstant(cfg, 0)] \in Row
  <2>1. cfg \in Config /\ NextInstant(cfg, 0) \in Nat
    BY ConfigsAreConfigs, NextTyped
  <2>2. QED
    BY <2>1, NewRowTyped
<1>4. RowsTyped
  <2> DEFINE old == {[NoRow EXCEPT !.cfg = cfg, !.enabled = TRUE, !.next = NextInstant(cfg, 0)] :
                         cfg \in Configs}
  <2>1. old \subseteq Row
    BY <1>3
  <2>2. rows \in [Jobs -> {None} \cup old]
    BY DEF Init
  <2> HIDE DEF old
  <2>3. QED
    BY <2>1, <2>2 DEF RowsTyped, RowOrNone
<1>5. LocalTyped /\ ExecTyped
  BY EmptyTyped DEF Init, LocalTyped, ExecTyped, Quiet
<1>6. ctx \in [Clients -> BOOLEAN]
  BY DEF Init
<1>7. ASSUME NEW c \in Clients PROVE ClientHolds(c)
  BY DistinctWorkers DEF Init, ClientHolds, Workers
<1>8. QED
  BY <1>1, <1>2, <1>4, <1>5, <1>6, <1>7 DEF CronInv

\* Every variable keeps its type: no schedule, back-off or catch-up leaves the instants and
\* the error counts of the cron_jobs columns, and no worker writes what is not a row.
THEOREM CronTypes == Spec => []TypeOK
<1>1. CronInv /\ [Next]_vars => CronInv'
  <2> SUFFICES ASSUME CronInv, [Next]_vars PROVE CronInv'
    OBVIOUS
  <2>1. TickInv'
    BY TickInvStep DEF CronInv
  <2>2. Numbers' /\ Flags' /\ RowsTyped' /\ LocalTyped' /\ ExecTyped' /\ ctx' \in [Clients -> BOOLEAN]
    BY NumbersStep, FlagsStep, RowsStep, LocalStep, ExecStep
  <2>3. \A c \in Clients : ClientHolds(c)'
    BY HoldsStep
  <2>4. QED
    BY <2>1, <2>2, <2>3 DEF CronInv
<1>2. CronInv => TypeOK
  BY DEF CronInv, TypeOK, TickInv, Control, Numbers, Flags, RowsTyped, RowOrNone, LocalTyped, ExecTyped
<1>3. QED
  BY <1>1, <1>2, InitCronInv, PTL DEF Spec
==============================================================================
