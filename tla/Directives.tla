----------------------------- MODULE Directives -----------------------------
(***************************************************************************)
(* Directives: the gateway and the schedulers that write them, the         *)
(* orchestration loop that answers the newest active one or decomposes it  *)
(* into tasks, and the workers that execute the tasks they get from a      *)
(* durable JetStream consumer.  Directives are numbered in the order of    *)
(* their creation, tasks in the order they are persisted.  Modes other     *)
(* than ACT behave alike and are "chat"; of the workers the coder differs  *)
(* and the critic stands for critic, strategist and scout.                 *)
(***************************************************************************)
EXTENDS Governor, Sequences, FiniteSets

CONSTANTS
    Msgs,              \* owner messages
    Contents,          \* what the model may answer
    Plans,             \* decompositions the model may return: sequences of agents
    MaxDirectives, MaxTasks,
    Incidents, MaxIncidents  \* "crash", "fault", "redelivery", "mode" (a change of mode); how often

Dirs == 1..MaxDirectives
Tasks == 1..MaxTasks
Agents == {"coder", "critic"}
Modes == {"chat", "act"}

ASSUME BoundsAreNats ==
    {MaxDirectives, MaxTasks, MaxIncidents} \subseteq Nat
ASSUME PlansTyped == Plans \subseteq Seq(Agents)
ASSUME NaviIsNoMsg == "navi" \notin Msgs

VARIABLES
    dirs, log,         \* directives; directive_messages in created_at order
    tasks,             \* tasks
    mail, again,       \* JetStream: CmdTaskAssign per task; tasks delivered more than once
    inbox, worker,     \* messages a worker's subscription holds; its handler
    loop, gov,         \* RunLoop; the governor
    mpc,               \* requests that post a message
    seen, stranded,    \* history: messages a model call was given; tasks dropped on the way
    incidents          \* bound: how many there were

store == <<dirs, log, tasks>>
broker == <<mail, again>>
work == <<inbox, worker>>
vars == <<store, broker, work, loop, gov, mpc, seen, stranded, incidents>>

-----------------------------------------------------------------------------
NoTask == [dir |-> 0, agent |-> "critic", status |-> "none", batch |-> 0]
Waiting == [phase |-> "wait", dir |-> 0, plan |-> <<>>, outbox |-> <<>>, final |-> "none"]
Exited == [Waiting EXCEPT !.phase = "exited"]
Idle == [phase |-> "idle", task |-> 0]

Incident(kind) == kind \in Incidents /\ incidents < MaxIncidents /\ incidents' = incidents + 1
Fault == Incident("fault")

TasksOf(d) == {t \in Tasks : tasks[t].dir = d}
Terminal(t) == tasks[t].status \in {"completed", "failed"}
Ended(t) == tasks[t].status \in {"completed", "failed", "blocked"}

Active == {d \in Dirs : dirs[d].status \in {"ACTIVE", "STALLED"}}
IsNewest(d) == d \in Active /\ \A e \in Active : e <= d
Newest == CHOOSE d \in Dirs : IsNewest(d)
LastRole(d) == IF log[d] = <<>> THEN "none" ELSE log[d][Len(log[d])]

\* Replies in a row are told apart by nothing in this code: one stands for all.
Appended(l, x) == IF x = "navi" /\ l # <<>> /\ l[Len(l)] = "navi" THEN l ELSE Append(l, x)
History(d) == {m \in Msgs : \E i \in 1..Len(log[d]) : log[d][i] = m}
Without(l, i) == SubSeq(l, 1, i - 1) \o SubSeq(l, i + 1, Len(l))
Elements(s) == {s[i] : i \in 1..Len(s)}

Init ==
    /\ dirs = [d \in Dirs |-> [mode |-> "chat", status |-> "none"]]
    /\ log = [d \in Dirs |-> <<>>]
    /\ tasks = [t \in Tasks |-> NoTask]
    /\ mail = [t \in Tasks |-> "none"] /\ again = {}
    /\ inbox = [a \in Agents |-> <<>>] /\ worker = [a \in Agents |-> Idle]
    /\ loop = Waiting /\ gov = Fresh
    /\ mpc = [m \in Msgs |-> "idle"]
    /\ seen = {} /\ stranded = {}
    /\ incidents = 0

-----------------------------------------------------------------------------
(* Owner and schedulers                                                    *)

CreateDirective(d, mode) ==
    /\ dirs[d].status = "none" /\ \A e \in 1..(d - 1) : dirs[e].status # "none"
    /\ dirs' = [dirs EXCEPT ![d] = [mode |-> mode, status |-> "ACTIVE"]]
    /\ UNCHANGED <<log, tasks, broker, work, loop, gov, mpc, seen, stranded, incidents>>

UpdateMode(d, mode) ==
    /\ dirs[d].status # "none" /\ dirs[d].mode # mode /\ Incident("mode")
    /\ dirs' = [dirs EXCEPT ![d].mode = mode]
    /\ UNCHANGED <<log, tasks, broker, work, loop, gov, mpc, seen, stranded>>

\* handleDirectiveMessage appends first ...
PostMessage(m, d) ==
    /\ mpc[m] = "idle" /\ dirs[d].status # "none"
    /\ log' = [log EXCEPT ![d] = Appended(@, m)]
    /\ mpc' = [mpc EXCEPT ![m] = "posted"]
    /\ UNCHANGED <<dirs, tasks, broker, work, loop, gov, seen, stranded, incidents>>

\* ... then publishes a command that nobody subscribes to; a message that could not be
\* published is deleted again.
PublishMessage(m) ==
    /\ mpc[m] = "posted"
    /\ mpc' = [mpc EXCEPT ![m] = "done"]
    /\ \/ UNCHANGED <<log, incidents>>
       \/ Fault /\ \E d \in Dirs : \E i \in 1..Len(log[d]) :
                      log[d][i] = m /\ log' = [log EXCEPT ![d] = Without(@, i)]
    /\ UNCHANGED <<dirs, tasks, broker, work, loop, gov, seen, stranded>>

-----------------------------------------------------------------------------
(* The orchestration loop                                                  *)

\* A trip or an error ends RunLoop; what it had not published is in no mailbox.
Exit == loop' = Exited /\ stranded' = stranded \cup Elements(loop.outbox)
Goto(next) == loop' = next /\ UNCHANGED stranded

\* Mutant of HasWork: a reply is waited with in ACT mode too.
HasWorkUnanswered == Active # {} /\ LastRole(Newest) # "navi"

\* Mutant of HasWork: only ACT directives are work.
HasWorkAct == Active # {} /\ dirs[Newest].mode = "act"

HasWork == Active # {} /\ (dirs[Newest].mode = "act" \/ LastRole(Newest) # "navi")

\* tick up to Decide: an action is paid for, whatever Decide will make of it.
Tick ==
    /\ loop.phase = "wait" /\ HasWork
    /\ gov' = RecordAction(gov)
    /\ IF ActionTripped(gov') THEN Exit ELSE Goto([loop EXCEPT !.phase = "decide"])
    /\ UNCHANGED <<store, broker, work, mpc, seen, incidents>>

DurationTrips ==
    /\ loop.phase = "wait" /\ Fault
    /\ Exit
    /\ UNCHANGED <<store, broker, work, gov, mpc, seen>>

\* Mutant of Choice: no unfinished task is taken for no task.
ChoiceUnfinished(d) ==
    IF dirs[d].mode # "act" /\ LastRole(d) = "navi" THEN "wait"
    ELSE IF dirs[d].mode = "act" /\ \A t \in TasksOf(d) : tasks[t].status = "failed" THEN "decompose"
    ELSE IF dirs[d].mode = "act" /\ \A t \in TasksOf(d) : Terminal(t) THEN "finalize"
    ELSE IF log[d] = <<>> THEN "wait" ELSE "chat"

\* Mutant of Choice: a blocked task counts as over.
ChoiceBlockedIsOver(d) ==
    IF dirs[d].mode # "act" /\ LastRole(d) = "navi" THEN "wait"
    ELSE IF dirs[d].mode = "act" /\ TasksOf(d) = {} THEN "decompose"
    ELSE IF dirs[d].mode = "act" /\ \A t \in TasksOf(d) : Ended(t) THEN "finalize"
    ELSE IF log[d] = <<>> THEN "wait" ELSE "chat"

\* What Decide does with the newest directive, in the order of its tests.
Choice(d) ==
    IF dirs[d].mode # "act" /\ LastRole(d) = "navi" THEN "wait"
    ELSE IF dirs[d].mode = "act" /\ TasksOf(d) = {} THEN "decompose"
    ELSE IF dirs[d].mode = "act" /\ \A t \in TasksOf(d) : Terminal(t) THEN "finalize"
    ELSE IF log[d] = <<>> THEN "wait" ELSE "chat"

\* Mutant of FinalStatus: a directive without failures is closed.
FinalStatusClosed(d) == IF \E t \in TasksOf(d) : tasks[t].status = "failed" THEN "STALLED" ELSE "CLOSED"

\* The status finalizeDirective computes from the tasks it was given.
FinalStatus(d) == IF \E t \in TasksOf(d) : tasks[t].status = "failed" THEN "STALLED" ELSE "COMPLETE"

\* Decide up to its model call, or up to the status it has computed of the tasks it read.
Decide ==
    /\ loop.phase = "decide"
    /\ LET d == Newest
           c == IF Active = {} THEN "wait" ELSE Choice(d)
       IN  /\ Goto(IF c = "wait" THEN Waiting
                   ELSE [loop EXCEPT !.phase = c, !.dir = d,
                                     !.final = IF c = "finalize" THEN FinalStatus(d) ELSE "none"])
           /\ seen' = IF c \in {"chat", "decompose"} THEN seen \cup History(d) ELSE seen
    /\ UNCHANGED <<store, broker, work, gov, mpc, incidents>>

\* The reply is saved, then the governor hears of cost and content.
Reply(content) ==
    /\ log' = [log EXCEPT ![loop.dir] = Appended(@, "navi")]
    /\ gov' = RecordRepetition(RecordCost(gov, 1), content)
    /\ IF CostTripped(gov') \/ RepetitionTripped(gov', content)
       THEN Exit ELSE Goto([loop EXCEPT !.phase = "publish"])
    /\ UNCHANGED <<dirs, tasks, broker, work, mpc, seen, incidents>>

ChatReplies(content) == loop.phase = "chat" /\ Reply(content)

\* handleImplement after the model call; without tasks the answer is a reply.
DecomposeReplies(content, plan) ==
    /\ loop.phase = "decompose"
    /\ \/ plan = <<>> /\ Reply(content)
       \/ /\ plan # <<>>
          /\ Cardinality({t \in Tasks : tasks[t].status = "none"}) >= Len(plan)
          /\ Goto([loop EXCEPT !.phase = "persist", !.plan = plan])
          /\ UNCHANGED <<store, broker, work, gov, mpc, seen, incidents>>

\* One task after the other; batch is the first task of the decomposition.
PersistTask ==
    /\ loop.phase = "persist" /\ loop.plan # <<>>
    /\ LET t == CHOOSE t \in Tasks : /\ tasks[t].status = "none"
                                     /\ \A u \in 1..(t - 1) : tasks[u].status # "none"
       IN  /\ tasks' = [tasks EXCEPT ![t] = [dir |-> loop.dir, agent |-> Head(loop.plan),
                                             status |-> "pending",
                                             batch |-> IF loop.outbox = <<>> THEN t ELSE Head(loop.outbox)]]
           /\ Goto([loop EXCEPT !.plan = Tail(@), !.outbox = Append(@, t)])
    /\ UNCHANGED <<dirs, log, broker, work, gov, mpc, seen, incidents>>

Decomposed(content) == loop.phase = "persist" /\ loop.plan = <<>> /\ Reply(content)

\* UpdateDirectiveStatus; tasks may have been executed again since they were read.
Finalize ==
    /\ loop.phase = "finalize"
    /\ dirs' = [dirs EXCEPT ![loop.dir].status = loop.final]
    /\ Goto([loop EXCEPT !.phase = "summary"])
    /\ UNCHANGED <<log, tasks, broker, work, gov, mpc, seen, incidents>>

\* finalizeDirective after the status; its decision has no cost and no content.
Summarise ==
    /\ loop.phase = "summary"
    /\ log' = [log EXCEPT ![loop.dir] = Appended(@, "navi")]
    /\ Goto([loop EXCEPT !.phase = "publish"])
    /\ UNCHANGED <<dirs, tasks, broker, work, gov, mpc, seen, incidents>>

\* The events of the decision; an error may hide a publish that went through.
Publish ==
    /\ loop.phase = "publish"
    /\ \/ loop.outbox = <<>> /\ Goto(Waiting) /\ UNCHANGED <<mail, incidents>>
       \/ /\ loop.outbox # <<>>
          /\ mail' = [mail EXCEPT ![Head(loop.outbox)] = "ready"]
          /\ \/ Goto([loop EXCEPT !.outbox = Tail(@)]) /\ UNCHANGED incidents
             \/ Fault /\ Exit
    /\ UNCHANGED <<store, again, work, gov, mpc, seen>>

\* A failed read, write, model call or publish.
TickFails ==
    /\ loop.phase \in {"decide", "chat", "decompose", "persist", "finalize", "summary", "publish"} /\ Fault
    /\ Exit
    /\ UNCHANGED <<store, broker, work, gov, mpc, seen>>

-----------------------------------------------------------------------------
(* JetStream and the workers                                               *)

Receive(t) == inbox' = [inbox EXCEPT ![tasks[t].agent] = Append(@, t)]

Deliver(t) ==
    /\ mail[t] = "ready"
    /\ mail' = [mail EXCEPT ![t] = "out"]
    /\ Receive(t)
    /\ UNCHANGED <<store, again, worker, loop, gov, mpc, seen, stranded, incidents>>

\* The default acknowledgement wait is shorter than a model call may take, and it runs for
\* messages that wait behind others as well.
AckWaitExpires(t) ==
    /\ mail[t] = "out" /\ Incident("redelivery")
    /\ Receive(t)
    /\ again' = again \cup {t}
    /\ UNCHANGED <<store, mail, worker, loop, gov, mpc, seen, stranded>>

\* Mutant of TakeTask: acknowledged when it is received.
TakeAndAck(a) ==
    /\ worker[a].phase = "idle" /\ inbox[a] # <<>>
    /\ worker' = [worker EXCEPT ![a] = [phase |-> "authorize", task |-> Head(inbox[a])]]
    /\ inbox' = [inbox EXCEPT ![a] = Tail(@)]
    /\ mail' = [mail EXCEPT ![Head(inbox[a])] = "acked"]
    /\ UNCHANGED <<store, again, loop, gov, mpc, seen, stranded, incidents>>

TakeTask(a) ==
    /\ worker[a].phase = "idle" /\ inbox[a] # <<>>
    /\ worker' = [worker EXCEPT ![a] = [phase |-> "authorize", task |-> Head(inbox[a])]]
    /\ inbox' = [inbox EXCEPT ![a] = Tail(@)]
    /\ UNCHANGED <<store, broker, loop, gov, mpc, seen, stranded, incidents>>

\* UpdateTask writes the row of the event with a new status.
Written(a, status, next) ==
    /\ tasks' = [tasks EXCEPT ![worker[a].task].status = status]
    /\ worker' = [worker EXCEPT ![a].phase = next]
    /\ UNCHANGED <<incidents, stranded>>
WriteFails(a, next) ==
    /\ Fault
    /\ stranded' = stranded \cup {worker[a].task}
    /\ worker' = [worker EXCEPT ![a].phase = next]
    /\ UNCHANGED tasks

OnlyWork == UNCHANGED <<dirs, broker, inbox, loop, gov, mpc, seen>>

\* Execute begins: the row is running.
StartTask(a) == Written(a, "running", "llm") \/ WriteFails(a, "fail")

\* workerGovernanceOK; the coder's runner lacks the directive writer it insists on.
Authorize(a) ==
    /\ worker[a].phase = "authorize"
    /\ \/ Written(a, "blocked", "ack") \/ WriteFails(a, "ack")
       \/ a = "coder" /\ worker' = [worker EXCEPT ![a].phase = "fail"]
                      /\ UNCHANGED <<tasks, incidents, stranded>>
       \/ a # "coder" /\ StartTask(a)
    /\ UNCHANGED log /\ OnlyWork

\* The report is a message of the directive's log; that it could not be saved is logged.
ReportTask(a) ==
    /\ worker[a].phase = "llm"
    /\ \/ /\ log' = [log EXCEPT ![tasks[worker[a].task].dir] = Appended(@, "navi")]
          /\ UNCHANGED incidents
       \/ Fault /\ UNCHANGED log
    /\ worker' = [worker EXCEPT ![a].phase = "report"]
    /\ UNCHANGED <<tasks, stranded>> /\ OnlyWork

CompleteTask(a) ==
    /\ worker[a].phase = "report"
    /\ Written(a, "completed", "ack") \/ WriteFails(a, "fail")
    /\ UNCHANGED log /\ OnlyWork

ExecuteFails(a) ==
    /\ worker[a].phase = "llm"
    /\ Written(a, "failed", "fail") \/ WriteFails(a, "fail")
    /\ UNCHANGED log /\ OnlyWork

\* Mutant of FailTask: the error is logged only.
FailSilently(a) ==
    /\ worker[a].phase = "fail"
    /\ worker' = [worker EXCEPT ![a].phase = "ack"]
    /\ UNCHANGED <<tasks, incidents, stranded>>
    /\ UNCHANGED log /\ OnlyWork

FailTask(a) ==
    /\ worker[a].phase = "fail"
    /\ Written(a, "failed", "ack") \/ WriteFails(a, "ack")
    /\ UNCHANGED log /\ OnlyWork

Ack(a) ==
    /\ worker[a].phase = "ack"
    /\ mail' = [mail EXCEPT ![worker[a].task] = "acked"]
    /\ worker' = [worker EXCEPT ![a] = Idle]
    /\ UNCHANGED <<store, again, inbox, loop, gov, mpc, seen, stranded, incidents>>

\* A panic of the handler is caught and the message sent back.
HandlerPanics(a) ==
    /\ worker[a].phase \in {"authorize", "llm", "report", "fail", "ack"} /\ Fault
    /\ LET t == worker[a].task
       IN  /\ mail' = [mail EXCEPT ![t] = IF @ = "out" THEN "ready" ELSE @]
           /\ again' = again \cup {t}
           /\ stranded' = IF mail[t] = "acked" THEN stranded \cup {t} ELSE stranded
    /\ worker' = [worker EXCEPT ![a] = Idle]
    /\ UNCHANGED <<store, inbox, loop, gov, mpc, seen>>

-----------------------------------------------------------------------------
\* Crash and restart: rows and streams stay, what was delivered and not acknowledged is
\* delivered again, everything in memory is new.
Crash ==
    /\ Incident("crash")
    /\ mail' = [t \in Tasks |-> IF mail[t] = "out" THEN "ready" ELSE mail[t]]
    /\ again' = again \cup {t \in Tasks : mail[t] = "out"}
    /\ stranded' = stranded \cup Elements(loop.outbox)
                            \cup {t \in again : mail[t] = "acked"}
    /\ inbox' = [a \in Agents |-> <<>>] /\ worker' = [a \in Agents |-> Idle]
    /\ loop' = Waiting /\ gov' = Fresh
    /\ mpc' = [m \in Msgs |-> IF mpc[m] = "posted" THEN "done" ELSE mpc[m]]
    /\ UNCHANGED <<store, seen>>

LoopStep ==
    \/ Tick \/ Decide \/ PersistTask \/ Finalize \/ Summarise \/ Publish
    \/ \E c \in Contents : ChatReplies(c) \/ Decomposed(c)
                           \/ \E p \in Plans : DecomposeReplies(c, p)

WorkerStep(a) ==
    \/ TakeTask(a) \/ Authorize(a) \/ ReportTask(a) \/ CompleteTask(a) \/ ExecuteFails(a)
    \/ FailTask(a) \/ Ack(a)

Next ==
    \/ \E d \in Dirs, mode \in Modes : CreateDirective(d, mode) \/ UpdateMode(d, mode)
    \/ \E m \in Msgs : PublishMessage(m) \/ \E d \in Dirs : PostMessage(m, d)
    \/ LoopStep \/ DurationTrips \/ TickFails
    \/ \E t \in Tasks : Deliver(t) \/ AckWaitExpires(t)
    \/ \E a \in Agents : WorkerStep(a) \/ HandlerPanics(a)
    \/ Crash

Spec == Init /\ [][Next]_vars

\* The ticker ticks and model calls return, the broker delivers, handlers run.
Fairness ==
    /\ WF_vars(LoopStep)
    /\ \A t \in Tasks : WF_vars(Deliver(t))
    /\ \A a \in Agents : WF_vars(WorkerStep(a))

FairSpec == Spec /\ Fairness

-----------------------------------------------------------------------------
(* Properties                                                              *)

\* Every variable has its type.
TypeOK ==
    /\ dirs \in [Dirs -> [mode : Modes, status : {"none", "ACTIVE", "STALLED", "COMPLETE"}]]
    /\ log \in [Dirs -> Seq(Msgs \cup {"navi"})]
    /\ tasks \in [Tasks -> [dir : 0..MaxDirectives, agent : Agents, batch : Nat,
                            status : {"none", "pending", "running", "blocked", "completed", "failed"}]]
    /\ mail \in [Tasks -> {"none", "ready", "out", "acked"}] /\ again \subseteq Tasks
    /\ inbox \in [Agents -> Seq(Tasks)]
    /\ worker \in [Agents -> [phase : {"idle", "authorize", "llm", "report", "fail", "ack"}, task : 0..MaxTasks]]
    /\ loop \in [phase : {"wait", "decide", "chat", "decompose", "persist", "finalize", "summary",
                          "publish", "exited"},
                 dir : 0..MaxDirectives, plan : Seq(Agents), outbox : Seq(Tasks),
                 final : {"none", "STALLED", "COMPLETE"}]
    /\ gov \in [actions : Nat, totalUSD : Nat, last : Contents \cup {""}, count : Nat]
    /\ mpc \in [Msgs -> {"idle", "posted", "done"}]
    /\ seen \subseteq Msgs /\ stranded \subseteq Tasks
    /\ incidents \in Nat

Held(t) ==
    \/ t \in Elements(loop.outbox)
    \/ mail[t] \in {"ready", "out"}
    \/ worker[tasks[t].agent].task = t \/ t \in Elements(inbox[tasks[t].agent])

\* A task that is not over has somebody who will bring it to an end: the loop that is about to
\* publish it, the broker, or a worker.  What ends the loop before it published, a status write
\* that failed, and a process that dies in a repeated execution are the only ways to lose one.
OpenTaskIsHeld ==
    \A t \in Tasks : tasks[t].status \in {"pending", "running"} => Held(t) \/ t \in stranded

\* All tasks of a directive come from one decomposition, also after a crash or an error in the
\* middle of it and whatever the mode is changed to.
OneDecomposition ==
    \A t, u \in Tasks : tasks[t].dir = tasks[u].dir => tasks[t].batch = tasks[u].batch

\* A directive is complete only when all its tasks are completed; a second delivery may execute
\* a task again later and change that.
CompleteMeansCompleted ==
    \A d \in Dirs : dirs[d].status = "COMPLETE" =>
        \A t \in TasksOf(d) : tasks[t].status = "completed" \/ t \in again

\* A task the broker has comes to an end, unless a write of its status failed.
TasksEnd == \A t \in Tasks : mail[t] = "ready" ~> Ended(t) \/ t \in stranded

ReadyToFinalize(d) ==
    /\ IsNewest(d) /\ dirs[d] = [mode |-> "act", status |-> "ACTIVE"]
    /\ TasksOf(d) # {} /\ \A t \in TasksOf(d) : Terminal(t)

\* A directive whose tasks are over gets its final status while the loop runs and nothing
\* newer takes its turn.
DirectivesAreFinalized ==
    \A d \in Dirs : ReadyToFinalize(d) ~> ~ReadyToFinalize(d) \/ loop.phase = "exited"

\* The loop works on an answer to d that was asked for without what comes in now.
Answering(d) ==
    loop.dir = d /\ loop.phase \in {"chat", "decompose", "persist", "finalize", "summary"}

\* What the owner says while no answer is under way and no worker reports is put before the
\* model, while the loop runs and nothing newer takes its turn.  A message that comes in during
\* an answer is excepted: OwnerIsAnswered is about it.
OwnerIsHeard ==
    \A d \in Dirs, m \in Msgs :
        (IsNewest(d) /\ LastRole(d) = m /\ TasksOf(d) = {} /\ ~Answering(d))
            ~> (m \in seen \/ m \notin History(d) \/ ~IsNewest(d) \/ loop.phase = "exited")

\* Whenever a message comes in, the model gets to see it, while the loop runs and nothing newer
\* takes its turn.  Decide's comment promises it: after a reply "we wait for a new user message".
\* It does not hold: the reply to the message before comes behind a message that was posted
\* during the model call, and HasWork and Decide take the role of the last message for an answer.
OwnerIsAnswered ==
    \A d \in Dirs, m \in Msgs :
        (IsNewest(d) /\ m \in History(d))
            ~> (m \in seen \/ m \notin History(d) \/ ~IsNewest(d) \/ loop.phase = "exited")
=============================================================================
