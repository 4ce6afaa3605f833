----------------------------- MODULE CronService -----------------------------
(***************************************************************************)
(* The cron service: rows of cron_jobs, the timer loop (onTimer), RunNow,  *)
(* Create, Update, Delete, the catch-up at start, and the executions these *)
(* start (runOneJob).  One step per store statement or critical section.   *)
(*                                                                         *)
(* Time is a counter of abstract units, up to MaxTime; 0 is "unset", as    *)
(* for the columns.  A timer fires at any time after it was set: its delay *)
(* (2 s to 60 s) bounds nothing the service relies on, because a tick      *)
(* reads again which jobs are due.  The payload of a job is left out.      *)
(***************************************************************************)
EXTENDS Integers, Sequences, FiniteSets

CONSTANTS
    Jobs, Ticks, Clients, Boot,  \* job ids; goroutines that run onTimer, serve a client, run Start
    None,
    Configs,        \* the configurations clients may give a job
    Period,         \* of a recurring schedule
    Results,        \* what a dispatch may return: a subset of ResultSet
    Backoffs,       \* retry.backoff_ms
    MaxAttempts,    \* retry.max_attempts
    MinGap,         \* minRefireGap
    StuckAfter,     \* stuckRunningAfter
    Stagger,        \* missed_job_stagger_ms
    MaxImmediate,   \* max_missed_jobs_per_restart
    Pool,           \* max_concurrent_runs
    MaxErrors,      \* consecutive_errors saturates here, above MaxAttempts and Len(Backoffs)
    MaxTime, MaxFired, MaxOps, MaxFaults, MaxCrashes, MaxStops

Workers == {Boot} \cup Ticks \cup Clients
Kinds == {"at", "once", "every", "cron"}   \* "once" is "at" with delete_after_run
Config == [kind : Kinds, at : Nat]
ResultSet == {"ok", "skipped", "transient", "permanent"}

ASSUME PositiveBounds ==
    /\ Period \in Nat \ {0} /\ Pool \in Nat \ {0} /\ StuckAfter \in Nat \ {0}
    /\ MaxAttempts \in Nat /\ MinGap \in Nat /\ Stagger \in Nat /\ MaxImmediate \in Nat \ {0}
    /\ MaxErrors \in Nat \ {0}
    /\ {MaxTime, MaxFired, MaxOps, MaxFaults, MaxCrashes, MaxStops} \subseteq Nat
ASSUME ResultsAreResults == Results \subseteq ResultSet
ASSUME BackoffTable == Backoffs \in Seq(Nat) /\ Backoffs # <<>>
ASSUME DistinctWorkers == Boot \notin Ticks \cup Clients /\ Ticks \cap Clients = {}
ASSUME ConfigsAreConfigs == Configs \subseteq Config

VARIABLES
    now, rows,                                \* cron_jobs
    up, stopped, ticking, timer, recheck,     \* the Service
    fired,                                    \* onTimer goroutines waiting for the mutex
    pc, local, ctx, exec,                     \* the workers and their executions
    ops, faults, crashes, stops

svcVars == <<stopped, ticking, timer, recheck, fired>>
bounds == <<ops, faults, crashes, stops>>
vars == <<now, rows, up, svcVars, pc, local, ctx, exec, bounds>>

-----------------------------------------------------------------------------
(* Rows and schedules                                                      *)

Row == [cfg : Config, enabled : BOOLEAN, next : Nat, running : Nat, errors : 0..MaxErrors]

Larger(a, b) == IF a > b THEN a ELSE b

\* ComputeJobNextInstant; 0 when there is none.  An interval returns the present
\* instant when it falls on a boundary, a cron expression (external) a later one.
NextInstant(cfg, t) ==
    CASE cfg.kind \in {"at", "once"} -> IF cfg.at > t THEN cfg.at ELSE 0
      [] cfg.kind = "every" -> Period * Larger((t + Period - 1) \div Period, 1)
      [] cfg.kind = "cron" -> Period * (t \div Period + 1)

ErrorBackoff(n) == Backoffs[IF n > Len(Backoffs) THEN Len(Backoffs) ELSE Larger(n, 1)]

\* Mutant of IsRunning: a mark never grows old.
MarkedForEver(row) == row.running > 0

\* running_at_ms is set and not older than two hours.
IsRunning(row) == row.running > 0 /\ now - row.running < StuckAfter

IsDue(row) == row.enabled /\ row.next > 0 /\ row.next <= now

\* Mutant of Outcome: a success takes one error back.
OutcomeForgives(row, res, end) ==
    LET failed == res \in {"transient", "permanent"}
        errors == IF ~failed THEN row.errors - 1
                  ELSE IF row.errors < MaxErrors THEN row.errors + 1 ELSE MaxErrors
        retry == end + ErrorBackoff(errors)
        again == res = "transient" /\ errors <= MaxAttempts
        planned == NextInstant(row.cfg, end)
        delayed == IF res = "ok" THEN planned ELSE Larger(planned, retry)
        spaced == IF row.cfg.kind = "cron" THEN Larger(delayed, end + MinGap) ELSE delayed
    IN  IF row.cfg.kind \in {"at", "once"}
        THEN [enabled |-> row.enabled /\ again, next |-> IF again THEN retry ELSE 0, errors |-> errors]
        ELSE [enabled |-> row.enabled, next |-> spaced, errors |-> errors]

\* applyOutcome: the columns UpdateCronJobOutcome will write.
Outcome(row, res, end) ==
    LET failed == res \in {"transient", "permanent"}
        errors == IF ~failed THEN 0
                  ELSE IF row.errors < MaxErrors THEN row.errors + 1 ELSE MaxErrors
        retry == end + ErrorBackoff(errors)
        again == res = "transient" /\ errors <= MaxAttempts
        planned == NextInstant(row.cfg, end)
        delayed == IF res = "ok" THEN planned ELSE Larger(planned, retry)
        spaced == IF row.cfg.kind = "cron" THEN Larger(delayed, end + MinGap) ELSE delayed
    IN  IF row.cfg.kind \in {"at", "once"}
        THEN [enabled |-> row.enabled /\ again, next |-> IF again THEN retry ELSE 0, errors |-> errors]
        ELSE [enabled |-> row.enabled, next |-> spaced, errors |-> errors]

-----------------------------------------------------------------------------
(* Workers, executions and store calls                                     *)

NoRow == [cfg |-> [kind |-> "every", at |-> 0], enabled |-> FALSE, next |-> 0, running |-> 0, errors |-> 0]
NoList == [j \in Jobs |-> None]
NoLocal == [ms |-> 0, todo |-> NoList, later |-> NoList, job |-> None, row |-> NoRow]
NoExec == [pc |-> "idle", res |-> "ok", end |-> 0,
           out |-> [enabled |-> FALSE, next |-> 0, errors |-> 0]]
Quiet == [w \in Workers |-> [j \in Jobs |-> NoExec]]

Go(w, s) == pc' = [pc EXCEPT ![w] = s]

\* Failures and client requests stop early enough for two hours to pass after them.
Early == now + StuckAfter <= MaxTime

\* A tick runs under rootCtx, which Stop cancels; a client under its own context.
Alive(w) == IF w \in Clients THEN ctx[w] ELSE (w \in Ticks => ~stopped)
Succeeds(w) == Alive(w) /\ UNCHANGED faults
Fault == Early /\ faults < MaxFaults /\ faults' = faults + 1
Fails(w) == (~Alive(w) /\ UNCHANGED faults) \/ Fault

\* A row with an earlier due time goes first (the sort of the due jobs).
First(j, list) == list[j] # None /\ \A k \in Jobs : list[k] # None => list[j].next <= list[k].next

Busy(w) == \E j \in Jobs : exec[w][j].pc # "idle"

\* armTimer: a recheck during a tick, a new timer otherwise.
Rearm ==
    /\ timer' = (timer \/ ~(stopped \/ ticking))
    /\ recheck' = IF stopped THEN recheck ELSE ticking

ArmTimer(w) ==
    /\ pc[w] = "arm"
    /\ Rearm
    /\ Go(w, "idle")
    /\ UNCHANGED <<now, rows, up, stopped, ticking, fired, local, ctx, exec, bounds>>

-----------------------------------------------------------------------------
(* runOneJob                                                               *)

Launch(w, j) == exec' = [exec EXCEPT ![w][j].pc = "dispatch"]

Finish(w, j) == exec' = [exec EXCEPT ![w][j] = NoExec]

\* executeDispatch returns; its timeout bounds it.
Dispatch(w, j, res) ==
    /\ exec[w][j].pc = "dispatch"
    /\ exec' = [exec EXCEPT ![w][j] = [@ EXCEPT !.pc = "refresh", !.res = res, !.end = now]]
    /\ UNCHANGED <<now, rows, up, svcVars, pc, local, ctx, bounds>>

\* The row is read again, under context.Background().
Refresh(w, j) ==
    /\ exec[w][j].pc = "refresh"
    /\ \/ /\ rows[j] # None
          /\ LET e == exec[w][j]
                 gone == rows[j].cfg.kind = "once" /\ e.res = "ok"
             IN  exec' = [exec EXCEPT ![w][j] =
                     [NoExec EXCEPT !.pc = IF gone THEN "delete" ELSE "persist",
                               !.out = Outcome(rows[j], e.res, e.end)]]
          /\ UNCHANGED faults
       \/ /\ (rows[j] = None /\ UNCHANGED faults) \/ Fault
          /\ exec' = [exec EXCEPT ![w][j].pc = "clear"]
    /\ UNCHANGED <<now, rows, up, svcVars, pc, local, ctx, ops, crashes, stops>>

\* UpdateCronJobOutcome; when it fails, clearRunningBestEffort.
Persist(w, j) ==
    /\ exec[w][j].pc = "persist"
    /\ \/ /\ Succeeds(w)
          /\ rows' = IF rows[j] = None THEN rows
                     ELSE [rows EXCEPT ![j] = [@ EXCEPT
                              !.enabled = exec[w][j].out.enabled,
                              !.next = exec[w][j].out.next,
                              !.errors = exec[w][j].out.errors,
                              !.running = 0]]
          /\ Finish(w, j)
       \/ /\ Fails(w)
          /\ exec' = [exec EXCEPT ![w][j].pc = "clear"]
          /\ UNCHANGED rows
    /\ UNCHANGED <<now, up, svcVars, pc, local, ctx, ops, crashes, stops>>

\* The delete of a one-shot job; its failure is logged.
DeleteAfterRun(w, j) ==
    /\ exec[w][j].pc = "delete"
    /\ \/ Succeeds(w) /\ rows' = [rows EXCEPT ![j] = None]
       \/ Fails(w) /\ UNCHANGED rows
    /\ Finish(w, j)
    /\ UNCHANGED <<now, up, svcVars, pc, local, ctx, ops, crashes, stops>>

ClearRunning(w, j) ==
    /\ exec[w][j].pc = "clear"
    /\ \/ /\ Succeeds(w)
          /\ rows' = IF rows[j] = None THEN rows ELSE [rows EXCEPT ![j].running = 0]
       \/ Fails(w) /\ UNCHANGED rows
    /\ Finish(w, j)
    /\ UNCHANGED <<now, up, svcVars, pc, local, ctx, ops, crashes, stops>>

-----------------------------------------------------------------------------
(* The timer loop                                                          *)

Fire ==
    /\ \/ timer /\ timer' = FALSE /\ UNCHANGED recheck
       \/ recheck /\ recheck' = FALSE /\ UNCHANGED timer
    /\ fired < MaxFired /\ fired' = fired + 1
    /\ UNCHANGED <<now, rows, up, stopped, ticking, pc, local, ctx, exec, bounds>>

\* Mutant of OnTimer: a tick in progress is not looked at.
OnTimerUnguarded(t) ==
    /\ fired > 0 /\ pc[t] = "idle"
    /\ fired' = fired - 1
    /\ recheck' = TRUE
    /\ IF stopped
       THEN UNCHANGED <<ticking, pc>>
       ELSE ticking' = TRUE /\ Go(t, "load")
    /\ UNCHANGED <<now, rows, up, stopped, timer, local, ctx, exec, bounds>>

\* The critical section of onTimer: one tick at a time.
OnTimer(t) ==
    /\ fired > 0 /\ pc[t] = "idle"
    /\ fired' = fired - 1
    /\ recheck' = TRUE
    /\ IF stopped \/ ticking
       THEN UNCHANGED <<ticking, pc>>
       ELSE ticking' = TRUE /\ Go(t, "load")
    /\ UNCHANGED <<now, rows, up, stopped, timer, local, ctx, exec, bounds>>

Load(t) ==
    /\ pc[t] = "load"
    /\ \/ /\ Succeeds(t)
          /\ local' = [local EXCEPT ![t] = [NoLocal EXCEPT
                 !.ms = now,
                 !.todo = [j \in Jobs |-> IF rows[j] # None /\ IsDue(rows[j]) /\ ~IsRunning(rows[j])
                                          THEN rows[j] ELSE None]]]
          /\ Go(t, "mark")
       \/ Fails(t) /\ Go(t, "finish") /\ UNCHANGED local
    /\ UNCHANGED <<now, rows, up, svcVars, ctx, exec, ops, crashes, stops>>

\* The mark is a write of the whole row as it was loaded.
Marked(w, j) == [local[w].todo[j] EXCEPT !.running = local[w].ms]

MarkRunning(t, j) ==
    /\ pc[t] = "mark" /\ First(j, local[t].todo)
    /\ \/ /\ Succeeds(t) /\ rows[j] # None
          /\ rows' = [rows EXCEPT ![j] = Marked(t, j)]
          /\ local' = [local EXCEPT ![t].todo[j] = None, ![t].job = j]
          /\ Go(t, "spawn")
       \/ /\ (rows[j] = None /\ UNCHANGED faults) \/ Fails(t)
          /\ local' = [local EXCEPT ![t].todo[j] = None]
          /\ UNCHANGED <<rows, pc>>
    /\ UNCHANGED <<now, up, svcVars, ctx, exec, ops, crashes, stops>>

\* The semaphore, then the goroutine.
Spawn(t) ==
    /\ pc[t] = "spawn"
    /\ Cardinality({j \in Jobs : exec[t][j].pc # "idle"}) < Pool
    /\ Launch(t, local[t].job)
    /\ local' = [local EXCEPT ![t].job = None]
    /\ Go(t, "mark")
    /\ UNCHANGED <<now, rows, up, svcVars, ctx, bounds>>

WaitDone(t) ==
    /\ pc[t] = "mark" /\ local[t].todo = NoList /\ ~Busy(t)
    /\ local' = [local EXCEPT ![t] = NoLocal]
    /\ Go(t, "finish")
    /\ UNCHANGED <<now, rows, up, svcVars, ctx, exec, bounds>>

\* Mutant of FinishTick: armTimer is forgotten.
FinishUnarmed(t) ==
    /\ pc[t] = "finish"
    /\ ticking' = FALSE /\ recheck' = FALSE
    /\ Go(t, "idle")
    /\ UNCHANGED <<now, rows, up, stopped, timer, fired, local, ctx, exec, bounds>>

FinishTick(t) ==
    /\ pc[t] = "finish"
    /\ ticking' = FALSE /\ recheck' = FALSE
    /\ Go(t, "arm")
    /\ UNCHANGED <<now, rows, up, stopped, timer, fired, local, ctx, exec, bounds>>

-----------------------------------------------------------------------------
(* Start: the catch-up                                                     *)

\* Jobs that are overdue, running or not; the first MaxImmediate are run here.
CatchUp ==
    /\ up /\ pc[Boot] = "load"
    /\ \/ /\ UNCHANGED faults
          /\ LET overdue == {j \in Jobs : rows[j] # None /\ IsDue(rows[j])}
             IN  \E S \in SUBSET overdue :
                   /\ Cardinality(S) = MaxImmediate \/ (S = overdue /\ Cardinality(S) < MaxImmediate)
                   /\ \A a \in S, b \in overdue \ S : rows[a].next <= rows[b].next
                   /\ local' = [local EXCEPT ![Boot] = [NoLocal EXCEPT
                          !.ms = now,
                          !.todo = [j \in Jobs |-> IF j \in S THEN rows[j] ELSE None],
                          !.later = [j \in Jobs |-> IF j \in overdue \ S THEN rows[j] ELSE None]]]
          /\ Go(Boot, "mark")
       \/ Fault /\ Go(Boot, "arm") /\ UNCHANGED local
    /\ UNCHANGED <<now, rows, up, svcVars, ctx, exec, ops, crashes, stops>>

CatchUpMark(j) ==
    /\ pc[Boot] = "mark" /\ First(j, local[Boot].todo)
    /\ local' = [local EXCEPT ![Boot].todo[j] = None]
    /\ \/ /\ rows[j] # None /\ UNCHANGED faults
          /\ rows' = [rows EXCEPT ![j] = Marked(Boot, j)]
          /\ Launch(Boot, j)
          /\ Go(Boot, "await")
       \/ /\ (rows[j] = None /\ UNCHANGED faults) \/ Fault
          /\ UNCHANGED <<rows, exec, pc>>
    /\ UNCHANGED <<now, up, svcVars, ctx, ops, crashes, stops>>

\* runOneJob is called, not spawned: the next one waits for it.
CatchUpNext ==
    /\ pc[Boot] = "await" /\ ~Busy(Boot)
    /\ Go(Boot, "mark")
    /\ UNCHANGED <<now, rows, up, svcVars, local, ctx, exec, bounds>>

\* The remaining jobs are put off one stagger each: read, then a full-row write.
DeferRead(j) ==
    /\ pc[Boot] = "mark" /\ local[Boot].todo = NoList /\ First(j, local[Boot].later)
    /\ LET at == local[Boot].ms + Stagger
           rest == [local[Boot] EXCEPT !.later[j] = None, !.ms = at]
       IN  \/ /\ rows[j] # None /\ UNCHANGED faults
              /\ local' = [local EXCEPT ![Boot] =
                     [rest EXCEPT !.job = j, !.row = [rows[j] EXCEPT !.next = at]]]
              /\ Go(Boot, "defer")
           \/ /\ (rows[j] = None /\ UNCHANGED faults) \/ Fault
              /\ local' = [local EXCEPT ![Boot] = rest]
              /\ UNCHANGED pc
    /\ UNCHANGED <<now, rows, up, svcVars, ctx, exec, ops, crashes, stops>>

DeferWrite ==
    /\ pc[Boot] = "defer"
    /\ \/ /\ rows[local[Boot].job] # None /\ UNCHANGED faults
          /\ rows' = [rows EXCEPT ![local[Boot].job] = local[Boot].row]
       \/ /\ (rows[local[Boot].job] = None /\ UNCHANGED faults) \/ Fault
          /\ UNCHANGED rows
    /\ Go(Boot, "mark")
    /\ UNCHANGED <<now, up, svcVars, local, ctx, exec, ops, crashes, stops>>

CatchUpDone ==
    /\ pc[Boot] = "mark" /\ local[Boot].todo = NoList /\ local[Boot].later = NoList
    /\ local' = [local EXCEPT ![Boot] = NoLocal]
    /\ Go(Boot, "arm")
    /\ UNCHANGED <<now, rows, up, svcVars, ctx, exec, bounds>>

-----------------------------------------------------------------------------
(* Clients                                                                 *)

Begin(c) ==
    /\ up /\ pc[c] = "idle" /\ Early /\ ops < MaxOps
    /\ ops' = ops + 1
    /\ ctx' = [ctx EXCEPT ![c] = TRUE]

Create(c, j, cfg) ==
    /\ Begin(c)
    /\ rows[j] = None /\ NextInstant(cfg, now) > 0
    /\ rows' = [rows EXCEPT ![j] = [NoRow EXCEPT !.cfg = cfg, !.enabled = TRUE,
                                                 !.next = NextInstant(cfg, now)]]
    /\ Go(c, "arm")
    /\ UNCHANGED <<now, up, svcVars, local, exec, faults, crashes, stops>>

Delete(c, j) ==
    /\ Begin(c)
    /\ rows' = [rows EXCEPT ![j] = None]
    /\ Go(c, "arm")
    /\ UNCHANGED <<now, up, svcVars, local, exec, faults, crashes, stops>>

\* update_task reads the row and edits its copy, running_at_ms included.
BeginUpdate(c, j, cfg, en) ==
    /\ Begin(c)
    /\ rows[j] # None
    /\ local' = [local EXCEPT ![c] = [NoLocal EXCEPT
           !.job = j, !.row = [rows[j] EXCEPT !.cfg = cfg, !.enabled = en]]]
    /\ Go(c, "check")
    /\ UNCHANGED <<now, rows, up, svcVars, exec, faults, crashes, stops>>

\* Update reads it again: refused while the job runs or without a next instant.
CheckUpdate(c) ==
    /\ pc[c] = "check"
    /\ LET j == local[c].job
           next == NextInstant(local[c].row.cfg, now)
           accepted == rows[j] # None /\ ~IsRunning(rows[j]) /\ next > 0
       IN  \/ /\ Succeeds(c) /\ accepted
              /\ local' = [local EXCEPT ![c].row.next = next, ![c].row.errors = rows[j].errors]
              /\ Go(c, "write")
           \/ /\ (~accepted /\ UNCHANGED faults) \/ Fails(c)
              /\ local' = [local EXCEPT ![c] = NoLocal]
              /\ Go(c, "idle")
    /\ UNCHANGED <<now, rows, up, svcVars, ctx, exec, ops, crashes, stops>>

WriteUpdate(c) ==
    /\ pc[c] = "write"
    /\ LET j == local[c].job
       IN  \/ /\ Succeeds(c) /\ rows[j] # None
              /\ rows' = [rows EXCEPT ![j] = local[c].row]
              /\ Go(c, "arm")
           \/ /\ (rows[j] = None /\ UNCHANGED faults) \/ Fails(c)
              /\ Go(c, "idle")
              /\ UNCHANGED rows
    /\ local' = [local EXCEPT ![c] = NoLocal]
    /\ UNCHANGED <<now, up, svcVars, ctx, exec, ops, crashes, stops>>

RunNow(c, j) ==
    /\ Begin(c)
    /\ rows[j] # None /\ ~IsRunning(rows[j])
    /\ local' = [local EXCEPT ![c] = [NoLocal EXCEPT
           !.ms = now, !.job = j, !.todo = [NoList EXCEPT ![j] = rows[j]]]]
    /\ Go(c, "runnow")
    /\ UNCHANGED <<now, rows, up, svcVars, exec, faults, crashes, stops>>

RunNowMark(c) ==
    /\ pc[c] = "runnow"
    /\ LET j == local[c].job
       IN  \/ /\ Succeeds(c) /\ rows[j] # None
              /\ rows' = [rows EXCEPT ![j] = Marked(c, j)]
              /\ Launch(c, j)
              /\ Go(c, "await")
           \/ /\ (rows[j] = None /\ UNCHANGED faults) \/ Fails(c)
              /\ Go(c, "idle")
              /\ UNCHANGED <<rows, exec>>
    /\ local' = [local EXCEPT ![c] = NoLocal]
    /\ UNCHANGED <<now, up, svcVars, ctx, ops, crashes, stops>>

RunNowDone(c) ==
    /\ pc[c] = "await" /\ ~Busy(c)
    /\ Go(c, "arm")
    /\ UNCHANGED <<now, rows, up, svcVars, local, ctx, exec, bounds>>

\* The run whose tool call this is was cancelled or timed out.
CallerGone(c) ==
    /\ pc[c] # "idle" /\ ctx[c] /\ Early
    /\ ctx' = [ctx EXCEPT ![c] = FALSE]
    /\ UNCHANGED <<now, rows, up, svcVars, pc, local, exec, bounds>>

-----------------------------------------------------------------------------
(* Stop, the end of the process, time                                      *)

Stop ==
    /\ up /\ ~stopped /\ Early /\ stops < MaxStops
    /\ stopped' = TRUE /\ timer' = FALSE /\ recheck' = FALSE
    /\ stops' = stops + 1
    /\ UNCHANGED <<now, rows, up, ticking, fired, pc, local, ctx, exec, ops, faults, crashes>>

\* Nothing but the rows survives the process.
Die ==
    /\ up' = FALSE /\ stopped' = FALSE /\ ticking' = FALSE
    /\ timer' = FALSE /\ recheck' = FALSE /\ fired' = 0
    /\ pc' = [w \in Workers |-> "idle"]
    /\ local' = [w \in Workers |-> NoLocal]
    /\ ctx' = [c \in Clients |-> TRUE]
    /\ exec' = Quiet
    /\ UNCHANGED <<now, rows, ops, faults, stops>>

Crash ==
    /\ up /\ Early /\ crashes < MaxCrashes
    /\ crashes' = crashes + 1
    /\ Die

Exit ==
    /\ stopped
    /\ Die
    /\ UNCHANGED crashes

Restart ==
    /\ ~up
    /\ up' = TRUE
    /\ Go(Boot, "load")
    /\ UNCHANGED <<now, rows, svcVars, local, ctx, exec, bounds>>

Pass ==
    /\ now < MaxTime
    /\ now' = now + 1
    /\ UNCHANGED <<rows, up, svcVars, pc, local, ctx, exec, bounds>>

-----------------------------------------------------------------------------
(* The specification                                                       *)

\* Rows of an earlier life of the daemon, created at time 0.
Init ==
    /\ now = 1
    /\ rows \in [Jobs -> {None} \cup {[NoRow EXCEPT !.cfg = cfg, !.enabled = TRUE, !.next = NextInstant(cfg, 0)] :
                                          cfg \in Configs}]
    /\ up = TRUE /\ stopped = FALSE /\ ticking = FALSE
    /\ timer = FALSE /\ recheck = FALSE /\ fired = 0
    /\ pc = [w \in Workers |-> IF w = Boot THEN "load" ELSE "idle"]
    /\ local = [w \in Workers |-> NoLocal]
    /\ ctx = [c \in Clients |-> TRUE]
    /\ exec = Quiet
    /\ ops = 0 /\ faults = 0 /\ crashes = 0 /\ stops = 0

RunOneJob(w, j) ==
    \/ \E res \in Results : Dispatch(w, j, res)
    \/ Refresh(w, j) \/ Persist(w, j) \/ DeleteAfterRun(w, j) \/ ClearRunning(w, j)

TickStep(t) ==
    \/ OnTimer(t) \/ Load(t) \/ Spawn(t) \/ WaitDone(t) \/ FinishTick(t)
    \/ \E j \in Jobs : MarkRunning(t, j)

StartStep ==
    \/ CatchUp \/ CatchUpNext \/ DeferWrite \/ CatchUpDone
    \/ \E j \in Jobs : CatchUpMark(j) \/ DeferRead(j)

Request(c, j) ==
    \/ \E cfg \in Configs : Create(c, j, cfg)
    \/ \E cfg \in Configs, en \in BOOLEAN : BeginUpdate(c, j, cfg, en)
    \/ Delete(c, j) \/ RunNow(c, j)

ClientStep(c) == CheckUpdate(c) \/ WriteUpdate(c) \/ RunNowMark(c) \/ RunNowDone(c)

Next ==
    \/ \E w \in Workers, j \in Jobs : RunOneJob(w, j)
    \/ \E w \in Workers : ArmTimer(w)
    \/ \E t \in Ticks : TickStep(t)
    \/ \E c \in Clients : ClientStep(c) \/ CallerGone(c)
    \/ \E c \in Clients, j \in Jobs : Request(c, j)
    \/ StartStep \/ Fire \/ Stop \/ Crash \/ Exit \/ Restart \/ Pass

Spec == Init /\ [][Next]_vars

\* Goroutines run, timers fire, a dispatch ends (its context has a deadline), a
\* request that was begun goes on, and the daemon is started again.
Fairness ==
    /\ \A w \in Workers : WF_vars(ArmTimer(w)) /\ \A j \in Jobs : WF_vars(RunOneJob(w, j))
    /\ \A t \in Ticks : WF_vars(TickStep(t))
    /\ \A c \in Clients : WF_vars(ClientStep(c))
    /\ WF_vars(StartStep) /\ WF_vars(Fire) /\ WF_vars(Exit) /\ WF_vars(Restart) /\ WF_vars(Pass)

FairSpec == Spec /\ Fairness

-----------------------------------------------------------------------------
(* Properties                                                              *)

Pcs == {"idle", "arm", "load", "mark", "spawn", "finish", "await", "defer", "check", "write", "runnow"}
Local == [ms : Nat, todo : [Jobs -> Row \cup {None}], later : [Jobs -> Row \cup {None}],
          job : Jobs \cup {None}, row : Row]
Exec == [pc : {"idle", "dispatch", "refresh", "persist", "delete", "clear"}, res : ResultSet, end : Nat,
         out : [enabled : BOOLEAN, next : Nat, errors : 0..MaxErrors]]

\* Every variable has its type.
TypeOK ==
    /\ now \in Nat /\ rows \in [Jobs -> Row \cup {None}]
    /\ {up, stopped, ticking, timer, recheck} \subseteq BOOLEAN /\ fired \in Nat
    /\ pc \in [Workers -> Pcs] /\ local \in [Workers -> Local] /\ ctx \in [Clients -> BOOLEAN]
    /\ exec \in [Workers -> [Jobs -> Exec]]
    /\ {ops, faults, crashes, stops} \subseteq Nat

\* A service that was started and not stopped will look at its jobs again: a timer or
\* a recheck is set, one has fired and waits for the mutex, or somebody is about to call
\* armTimer.  Ticks, rechecks during a tick and the clients' armTimer all reset both timers.
TimerNeverLost ==
    (up /\ ~stopped /\ pc[Boot] = "idle") =>
        (timer \/ recheck \/ fired > 0 \/ \E w \in Workers : pc[w] = "arm")

\* No job is executed by two ticks at once, although the mark on its row is a plain write
\* of what the tick read, which an Update may erase while the job runs (onTimer, ticking).
TicksDoNotOverlap ==
    \A t, u \in Ticks, j \in Jobs :
        exec[t][j].pc # "idle" /\ exec[u][j].pc # "idle" => t = u

\* A job that is due is executed, or is deleted, disabled or put off: no crash, failing
\* statement, vanished caller or stale mark of a running job keeps it from running for ever.
DueIsServed ==
    \A j \in Jobs :
        (rows[j] # None /\ IsDue(rows[j])) ~>
            \/ \E w \in Workers : exec[w][j].pc # "idle"
            \/ ~(rows[j] # None /\ IsDue(rows[j]))
=============================================================================
