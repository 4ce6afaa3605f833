-------------------------- MODULE RunCoordinatorRuns --------------------------
(*****************************************************************************)
(* What the run coordinator keeps right besides the turns: the text of       *)
(* merged messages, the single completion of a run, the single replay of an  *)
(* approved tool call, and the checkpoint of a paused run.                   *)
(*****************************************************************************)
EXTENDS RunCoordinatorTurns, FiniteSetTheorems

-----------------------------------------------------------------------------
(* The text of a merged message is in one row                              *)

\* Text travels once, from a row that becomes merged to a row that is in the
\* queue or was dispatched, and never on from there.
Carried ==
    /\ \A i, j \in Items : i \in inbox[j].content /\ i # j =>
          inbox[i].st = "merged" /\ inbox[j].st \notin {"merged", "none"}
    /\ \A i, j, k \in Items :
          i \in inbox[j].content /\ i \in inbox[k].content /\ j # i /\ k # i => j = k
    /\ \A i \in Items : inbox[i].st = "merged" =>
          \E j \in Items : j # i /\ i \in inbox[j].content /\ inbox[j].st # "merged"
    /\ \A i \in Items : inbox[i].st = "none" => inbox[i].content = {} /\ inbox[i].type = "text"

\* Every row keeps its text and type, and whether it is there, merged or consumed.
RowsMove ==
    \A j \in Items :
        /\ inbox[j].st = "consumed" => inbox'[j].st = "consumed"
        /\ inbox'[j].content = inbox[j].content
        /\ inbox'[j].type = inbox[j].type
        /\ inbox'[j].prop = inbox[j].prop
        /\ inbox'[j].st = inbox[j].st \/ {inbox[j].st, inbox'[j].st} \cap {"merged", "none"} = {}

\* MarkInboxConsumed and PromoteDeferredItems move rows that carry what they carry.
LEMMA CarriedMoves == Carried /\ RowsMove => Carried'
<1> SUFFICES ASSUME Carried, RowsMove PROVE Carried'
  OBVIOUS
<1>1. \A j \in Items : /\ inbox'[j].content = inbox[j].content
                       /\ inbox'[j].type = inbox[j].type
                       /\ inbox'[j].st = "merged" <=> inbox[j].st = "merged"
                       /\ inbox'[j].st = "none" <=> inbox[j].st = "none"
  BY DEF RowsMove
<1>2. \A i, j \in Items : i \in inbox'[j].content /\ i # j =>
          inbox'[i].st = "merged" /\ inbox'[j].st \notin {"merged", "none"}
  BY <1>1 DEF Carried
<1>3. \A i \in Items : inbox'[i].st = "merged" =>
          \E j \in Items : j # i /\ i \in inbox'[j].content /\ inbox'[j].st # "merged"
  BY <1>1 DEF Carried
<1> QED BY <1>1, <1>2, <1>3 DEF Carried

\* A new row i, with no text but its own, that is not merged; a message comes from
\* a submission that is under way.
RowComes(i) ==
    /\ sub[i].pc = "accept" \/ inbox'[i].type # "text"
    /\ inbox'[i].content \subseteq {i}
    /\ inbox'[i].st \notin {"merged", "none"}
    /\ \A j \in Items : j # i => inbox'[j] = inbox[j]

\* A row that goes in takes no text from another.
LEMMA CarriedComes ==
    ASSUME Carried, NEW i \in Items, inbox[i].st = "none", RowComes(i) PROVE Carried'
<1>1. \A j \in Items : j # i => i \notin inbox[j].content
  BY DEF Carried
<1>2. \A j, k \in Items : k \in inbox'[j].content /\ k # j => j # i /\ k # i /\ k \in inbox[j].content
  BY <1>1 DEF RowComes
<1>3. \A k, j \in Items : k \in inbox'[j].content /\ k # j =>
          inbox'[k].st = "merged" /\ inbox'[j].st \notin {"merged", "none"}
  BY <1>2 DEF Carried, RowComes
<1>4. \A k \in Items : inbox'[k].st = "merged" =>
          \E j \in Items : j # k /\ k \in inbox'[j].content /\ inbox'[j].st # "merged"
  <2> SUFFICES ASSUME NEW k \in Items, inbox'[k].st = "merged"
               PROVE  \E j \in Items : j # k /\ k \in inbox'[j].content /\ inbox'[j].st # "merged"
    OBVIOUS
  <2>1. k # i /\ inbox[k].st = "merged"
    BY DEF RowComes
  <2>2. PICK j \in Items : j # k /\ k \in inbox[j].content /\ inbox[j].st # "merged"
    BY <2>1 DEF Carried
  <2>3. j # i
    BY <2>2 DEF Carried
  <2> QED BY <2>2, <2>3 DEF RowComes
<1> QED BY <1>2, <1>3, <1>4 DEF Carried, RowComes

\* Row i goes in as merged, and its text into the pending row t.
RowMerges(i, t) ==
    /\ sub[i].pc = "accept"
    /\ inbox[t].st = "pending"
    /\ inbox'[i].st = "merged" /\ inbox'[i].content = {i}
    /\ inbox'[t].st = "pending" /\ inbox'[t].content = inbox[t].content \cup {i}
    /\ inbox'[t].type = inbox[t].type /\ inbox'[t].prop = inbox[t].prop
    /\ \A j \in Items : j # i /\ j # t => inbox'[j] = inbox[j]

\* A merge in AcceptMessage puts the text where it can be found, once.
LEMMA CarriedMerges ==
    ASSUME Carried, NEW i \in Items, NEW t \in Items, inbox[i].st = "none", RowMerges(i, t)
    PROVE  Carried'
<1>0. t # i
  BY DEF RowMerges
<1>1. \A j \in Items : i \notin inbox[j].content
  BY DEF Carried
<1>2. \A j, k \in Items : k \in inbox'[j].content /\ k # j =>
          (k = i /\ j = t) \/ (j # i /\ k # i /\ k \in inbox[j].content)
  BY <1>0, <1>1 DEF RowMerges
<1>3. \A k, j \in Items : k \in inbox'[j].content /\ k # j =>
          inbox'[k].st = "merged" /\ inbox'[j].st \notin {"merged", "none"}
  <2> SUFFICES ASSUME NEW k \in Items, NEW j \in Items, k \in inbox'[j].content, k # j
               PROVE  inbox'[k].st = "merged" /\ inbox'[j].st \notin {"merged", "none"}
    OBVIOUS
  <2>1. CASE k = i /\ j = t
    BY <2>1 DEF RowMerges
  <2>2. CASE j # i /\ k # i /\ k \in inbox[j].content
    <3>1. inbox[k].st = "merged" /\ inbox[j].st \notin {"merged", "none"}
      BY <2>2 DEF Carried
    <3>2. k # t
      BY <3>1 DEF RowMerges
    <3> QED BY <2>2, <3>1, <3>2 DEF RowMerges
  <2> QED BY <1>2, <2>1, <2>2
<1>4. \A k \in Items : inbox'[k].st = "merged" =>
          \E j \in Items : j # k /\ k \in inbox'[j].content /\ inbox'[j].st # "merged"
  <2> SUFFICES ASSUME NEW k \in Items, inbox'[k].st = "merged"
               PROVE  \E j \in Items : j # k /\ k \in inbox'[j].content /\ inbox'[j].st # "merged"
    OBVIOUS
  <2>1. CASE k = i
    BY <1>0, <2>1 DEF RowMerges
  <2>2. CASE k # i
    <3>1. k # t /\ inbox[k].st = "merged"
      BY <2>2 DEF RowMerges
    <3>2. PICK j \in Items : j # k /\ k \in inbox[j].content /\ inbox[j].st # "merged"
      BY <3>1 DEF Carried
    <3>3. j # i
      BY <3>2 DEF Carried
    <3>4. k \in inbox'[j].content /\ inbox'[j].st # "merged"
      BY <3>2, <3>3 DEF RowMerges
    <3> QED BY <3>2, <3>4
  <2> QED BY <2>1, <2>2
<1>5. \A k, j, l \in Items :
          k \in inbox'[j].content /\ k \in inbox'[l].content /\ j # k /\ l # k => j = l
  BY <1>1, <1>2 DEF Carried
<1>6. \A k \in Items : inbox'[k].st = "none" => inbox'[k].content = {} /\ inbox'[k].type = "text"
  BY DEF Carried, RowMerges
<1> QED BY <1>3, <1>4, <1>5, <1>6 DEF Carried

\* The operations that write the inbox table.
WritesInbox ==
    \/ \E i \in Items : FinishSubmit(i) \/ \E k \in Keys \cup {None} : SubmitSignal(i, k)
    \/ \E c \in Callers, i \in Items : EnqueueInsert(c, i)
    \/ Promote \/ ConsumeItem
    \/ \E r \in Runs : ConsumeResume(r)

\* No other step does.
LEMMA InboxWriters == [Next]_vars => WritesInbox \/ inbox' = inbox
<1> SUFFICES ASSUME [Next]_vars, ~WritesInbox PROVE inbox' = inbox
  OBVIOUS
<1> USE DEF storeVars
<1>1. CASE Intake
  BY <1>1 DEF WritesInbox, Intake, BeginSubmit, ClassifySubmit
<1>2. CASE Resolution
  BY <1>2 DEF WritesInbox, Resolution, ResolveRead, ResolveUpdate, ResolveFails, EnqueueCheck
<1>3. CASE Loop
  BY <1>3 DEF WritesInbox, Loop, Boot, Poll, ListItems, GiveUp, Create, Abort, EmitAbort, Launch
<1>4. ASSUME NEW r \in Runs, LaunchStep(r) PROVE inbox' = inbox
  BY <1>4 DEF WritesInbox, LaunchStep, LoadCheckpoint, Activate, AwaitResult, DrainExpired, FailRun,
              CancelledRun, EmitEnded, SavePause, PersistPause, Reply, Complete, Deliver,
              MarkDelivered, Exit
<1>5. ASSUME NEW r \in Runs, Timeout(r) \/ ExecutorStep(r) PROVE inbox' = inbox
  BY <1>5 DEF Timeout, ExecutorStep, Replay, Propose, SavePropose, Return
<1>6. CASE SchedulerStep \/ CancelStep \/ Drain \/ DrainReturns \/ Crash \/ UNCHANGED vars
  BY <1>6 DEF SchedulerStep, FireJob, CompleteJob, CancelStep, CancelMark, CancelRead, CancelWrite,
              CancelSignal, Drain, DrainReturns, Crash, vars
<1>7. ASSUME NEW p \in Proposals, Expire(p) PROVE inbox' = inbox
  BY <1>7 DEF Expire
<1> QED BY <1>1, <1>2, <1>3, <1>4, <1>5, <1>6, <1>7 DEF Next

\* What AcceptMessage makes of the inbox, case by case.
LEMMA Accepted ==
    ASSUME TypeOK, Carried, NEW i \in Items, NEW k, NEW act, NEW into, inbox[i].st = "none",
           sub[i].pc = "accept", AcceptMessage(i, k, act, into)
    PROVE  \/ inbox' = inbox
           \/ RowComes(i) /\ inbox'[i].content = {i} /\ inbox'[i].type = "text"
           \/ into \in Items /\ RowMerges(i, into) /\ inbox'[i].type = "text"
<1> USE DEF InboxRow
<1>t. inbox \in [Items -> InboxRow]
  BY DEF TypeOK, StoreTypeOK
<1>1. CASE inbox' = inbox
  BY <1>1
<1>2. CASE ~KeyTaken(k) /\ act = "merge" /\ into \in Pending
  <2>1. into \in Items /\ inbox[into].st = "pending" /\ into # i
    BY <1>2 DEF Pending
  <2>2. inbox'[i] = AcceptedRow(i, k, act, into)
    BY <1>2 DEF AcceptMessage
  <2>3. inbox'[into] = [inbox[into] EXCEPT !.content = @ \cup {i}]
    BY <1>2, <2>1 DEF AcceptMessage
  <2>4. \A j \in Items : j # i /\ j # into => inbox'[j] = inbox[j]
    BY <1>2 DEF AcceptMessage
  <2>5. inbox'[i].st = "merged" /\ inbox'[i].content = {i} /\ inbox'[i].type = "text"
    BY <1>2, <2>2 DEF AcceptedRow, NoItem
  <2>6. /\ inbox'[into].st = "pending" /\ inbox'[into].content = inbox[into].content \cup {i}
        /\ inbox'[into].type = inbox[into].type /\ inbox'[into].prop = inbox[into].prop
    BY <1>t, <2>1, <2>3
  <2> QED BY <2>1, <2>4, <2>5, <2>6 DEF RowMerges
<1>3. CASE ~KeyTaken(k) /\ ~(act = "merge" /\ into \in Pending)
  <2>1. inbox'[i] = AcceptedRow(i, k, act, into)
    BY <1>3 DEF AcceptMessage
  <2>2. \A j \in Items : j # i => inbox'[j] = inbox[j]
    BY <1>3 DEF AcceptMessage
  <2>3. /\ inbox'[i].st \in {"deferred", "superseded", "pending"}
        /\ inbox'[i].content = {i} /\ inbox'[i].type = "text"
    BY <1>3, <2>1 DEF AcceptedRow, NoItem
  <2> QED BY <2>2, <2>3 DEF RowComes
<1> QED BY <1>1, <1>2, <1>3 DEF AcceptMessage

\* What AcceptSignal does with a row that has no text but its own.
LEMMA SignalComes ==
    ASSUME TypeOK, NEW i \in Items, NEW row, row.content \subseteq {i}, row.st = "pending",
           row.type # "text", AcceptSignal(i, row)
    PROVE  inbox' = inbox \/ (RowComes(i) /\ inbox'[i] = row)
<1>t. inbox \in [Items -> InboxRow]
  BY DEF TypeOK, StoreTypeOK
<1> QED BY <1>t DEF AcceptSignal, RowComes

\* Marking an item that was dispatched moves its row.
LEMMA ConsumedMoves ==
    ASSUME TypeOK, NEW i \in Items, inbox[i].st \in {"pending", "consumed"}, MarkInboxConsumed(i)
    PROVE  RowsMove /\ inbox'[i].st = "consumed"
<1> USE DEF InboxRow
<1>t. inbox \in [Items -> InboxRow]
  BY DEF TypeOK, StoreTypeOK
<1>1. inbox'[i] = [inbox[i] EXCEPT !.st = "consumed"] /\ \A j \in Items : j # i => inbox'[j] = inbox[j]
  BY <1>t DEF MarkInboxConsumed
<1>2. /\ inbox'[i].st = "consumed" /\ inbox'[i].content = inbox[i].content
      /\ inbox'[i].type = inbox[i].type /\ inbox'[i].prop = inbox[i].prop
  BY <1>t, <1>1
<1> QED BY <1>1, <1>2 DEF RowsMove

\* How a step may change the inbox: rows move, one comes, or one is merged.
InboxStep ==
    \/ RowsMove
    \/ \E i \in Items : inbox[i].st = "none" /\ RowComes(i)
    \/ \E i, t \in Items : inbox[i].st = "none" /\ RowMerges(i, t)

\* Every step of every goroutine changes the inbox in one of these ways.
LEMMA InboxSteps == TypeOK /\ TurnInv /\ Carried /\ [Next]_vars => InboxStep
<1> SUFFICES ASSUME TypeOK, TurnInv, Carried, [Next]_vars PROVE InboxStep
  OBVIOUS
<1>t. inbox \in [Items -> InboxRow]
  BY DEF TypeOK, StoreTypeOK
<1>0. CASE inbox' = inbox
  BY <1>0 DEF InboxStep, RowsMove
<1>1. ASSUME NEW i \in Items, FinishSubmit(i) PROVE InboxStep
  <2>1. inbox[i].st = "none" /\ sub[i].pc = "accept"
    BY <1>1 DEF FinishSubmit, TurnInv, IntakeInv
  <2> QED BY <1>0, <1>1, <2>1, Accepted DEF FinishSubmit, InboxStep
<1>2. ASSUME NEW i \in Items, NEW k \in Keys \cup {None}, SubmitSignal(i, k) PROVE InboxStep
  <2>1. inbox[i].st = "none" /\ AcceptSignal(i, SignalRow(i, k))
    BY <1>2 DEF SubmitSignal, Fresh
  <2>2. /\ SignalRow(i, k).content \subseteq {i} /\ SignalRow(i, k).st = "pending"
        /\ SignalRow(i, k).type # "text"
    BY DEF SignalRow, NoItem
  <2> QED BY <1>0, <2>1, <2>2, SignalComes DEF InboxStep
<1>3. ASSUME NEW c \in Callers, NEW i \in Items, EnqueueInsert(c, i) PROVE InboxStep
  <2>1. PICK p, d : inbox[i].st = "none" /\ AcceptSignal(i, ResolutionRow(p, d))
    BY <1>3 DEF EnqueueInsert, Fresh
  <2>2. /\ ResolutionRow(p, d).content \subseteq {i} /\ ResolutionRow(p, d).st = "pending"
        /\ ResolutionRow(p, d).type # "text"
    BY DEF ResolutionRow, NoItem
  <2> QED BY <1>0, <2>1, <2>2, SignalComes DEF InboxStep
<1>4. CASE Promote
  <2>1. \A j \in Items : \/ inbox'[j] = inbox[j]
                         \/ /\ inbox[j].st = "deferred"
                            /\ inbox'[j] = [inbox[j] EXCEPT !.st = "pending"]
    BY <1>4 DEF Promote, PromoteDeferredItems
  <2>2. ASSUME NEW j \in Items
        PROVE  /\ inbox'[j].content = inbox[j].content /\ inbox'[j].type = inbox[j].type
               /\ inbox'[j].prop = inbox[j].prop
               /\ inbox'[j].st = inbox[j].st \/ (inbox[j].st = "deferred" /\ inbox'[j].st = "pending")
    <3>1. inbox[j] \in InboxRow
      BY <1>t
    <3>2. CASE inbox'[j] = inbox[j]
      BY <3>2
    <3>3. CASE inbox[j].st = "deferred" /\ inbox'[j] = [inbox[j] EXCEPT !.st = "pending"]
      BY <3>1, <3>3 DEF InboxRow
    <3> QED BY <2>1, <3>2, <3>3
  <2> QED BY <2>2 DEF InboxStep, RowsMove
<1>5. CASE ConsumeItem
  <2>1. litem \in Items /\ inbox[litem].st = "pending"
    BY <1>5 DEF ConsumeItem, TurnInv, LoopInv, Untouched
  <2> QED BY <1>0, <1>5, <2>1, ConsumedMoves DEF ConsumeItem, InboxStep
<1>6. ASSUME NEW r \in Runs, ConsumeResume(r) PROVE InboxStep
  <2>1. gitem[r] \in Items /\ inbox[gitem[r]].st \in {"pending", "consumed"}
    BY <1>6 DEF ConsumeResume, TurnInv, LaunchInv, Untouched
  <2> QED BY <1>0, <1>6, <2>1, ConsumedMoves DEF ConsumeResume, InboxStep
<1> QED BY <1>0, <1>1, <1>2, <1>3, <1>4, <1>5, <1>6, InboxWriters DEF WritesInbox

\* Carried is preserved by every step.
LEMMA CarriedStep == TypeOK /\ TurnInv /\ Carried /\ [Next]_vars => Carried'
BY InboxSteps, CarriedMoves, CarriedComes, CarriedMerges DEF InboxStep

\* Nothing is merged in an empty inbox.
LEMMA CarriedInit == Init => Carried
BY DEF Init, StoreInit, Carried, NoItem

-----------------------------------------------------------------------------
(* Runs the coordinator knows                                              *)

\* What the functions of run.go do to the fields of a RunState.
LEMMA RecFacts ==
    ASSUME NEW m \in RunRec, NEW x
    PROVE  /\ SetStatus(m, x).st = x /\ SetStatus(m, x).blocked = m.blocked
           /\ SetStatus(m, x).intr = m.intr /\ SetStatus(m, x).item = m.item
           /\ Interrupt(m, x).st = m.st /\ Interrupt(m, x).blocked = m.blocked
           /\ Interrupt(m, x).intr = x /\ Interrupt(m, x).item = m.item
           /\ Waiting(m, x).st = "waiting_for_proposal" /\ Waiting(m, x).blocked = x
           /\ Waiting(m, x).intr = m.intr /\ Waiting(m, x).item = m.item
           /\ Resumed(m).st = "active" /\ Resumed(m).blocked = None
           /\ Resumed(m).intr = m.intr /\ Resumed(m).item = m.item
BY DEF RunRec, SetStatus, Interrupt, Waiting, Resumed

\* The process holds a RunState of r.
Known(r) == mem[r].st # "none"

\* What the loop knows of the runs it handles.
LoopKnown ==
    /\ lpc \in {"consume", "abort", "launch"} => Known(lrun)
    /\ lpc \in {"list", "promote", "relist"} /\ lpaused # None => Known(lpaused)
    /\ lpc \in {"create", "consume", "abort", "emit"} => lpaused = None
    /\ lpc = "launch" /\ lpaused # None =>
          lrun = lpaused /\ inbox[litem].type = "proposal_resolution"

\* A run without a row has had no executor and no RunState; launch, scheduler and
\* CancelRun handle runs the process knows.  A CancelRun under way has left its mark
\* on the RunState, or on its copy, that it is going to write.
RunsKnown ==
    /\ \A r \in Runs : rows[r].st = "none" => input[r] = {} /\ cancel.run # r /\ ~Known(r)
    /\ \A r \in Runs : gpc[r] # "none" \/ jobs[r] # 0 \/ spc = r => Known(r)
    /\ cancel.pc = "read" => Known(cancel.run) /\ mem[cancel.run].intr # "none"
    /\ cancel.pc = "write" => cancel.rec.st # "none" /\ cancel.rec.intr # "none"

\* How the records of a run flow: its row, its RunState and what a CancelRun took.
Flow(r) ==
    /\ mem'[r].item \in {mem[r].item, rows[r].item}
    /\ \/ rows'[r].item \in {mem[r].item, rows[r].item}
       \/ cancel.run = r /\ rows'[r].item = cancel.rec.item
    /\ Known(r) => Known(r)'
    /\ rows[r].st # "none" => rows'[r].st # "none"
    /\ Known(r)' => Known(r) \/ rows'[r].st # "none"
    /\ cancel'.run = r =>
          /\ cancel.run = r \/ running = r
          /\ \/ cancel'.rec.item \in {None, mem[r].item}
             \/ cancel.run = r /\ cancel'.rec.item = cancel.rec.item
          /\ cancel'.pc = "read" => mem'[r].intr # "none" /\ (cancel.pc = "read" \/ running = r)
          /\ cancel'.pc = "write" =>
                \/ cancel.pc = "write" /\ cancel'.rec = cancel.rec
                \/ cancel.pc = "read" /\ cancel.run = r /\ cancel'.rec = mem[r]

\* Only what was launched runs, and only what runs leaves delayed messages.
Starts(r) ==
    /\ gpc'[r] # "none" => gpc[r] # "none" \/ (lpc = "launch" /\ lrun = r)
    /\ jobs'[r] # 0 \/ spc' = r => jobs[r] # 0 \/ spc = r \/ gpc[r] # "none"
    /\ input'[r] = input[r] \/ (lpc = "launch" /\ lrun = r)

RunStep == \A r \in Runs : Flow(r) /\ Starts(r)

\* The records of a run that are not written do not move.
LEMMA FlowStays ==
    ASSUME RunsKnown, NEW r \in Runs, mem'[r] = mem[r], rows'[r] = rows[r], cancel' = cancel
    PROVE  Flow(r)
BY DEF Flow, Known, RunsKnown

\* EndRun keeps the item and leaves a run that exists.
LEMMA EndRunFlows ==
    ASSUME TypeOK, RunsKnown, NEW r \in Runs, Known(r), NEW s, s # "none", NEW ctxDone,
           EndRun(r, s, ctxDone), cancel' = cancel
    PROVE  \A q \in Runs : Flow(q)
<1>t. mem \in [Runs -> RunRec] /\ rows \in [Runs -> RunRec]
  BY DEF TypeOK, StoreTypeOK
<1>1. /\ SetStatus(mem[r], s).st = s /\ SetStatus(mem[r], s).item = mem[r].item
      /\ SetStatus(mem[r], s).intr = mem[r].intr
  BY <1>t, RecFacts
<1>2. mem'[r] = SetStatus(mem[r], s) /\ rows'[r] \in {rows[r], SetStatus(mem[r], s)}
  BY <1>t DEF EndRun, UpdateRun
<1>3. \A q \in Runs : q # r => mem'[q] = mem[q] /\ rows'[q] = rows[q]
  BY <1>t DEF EndRun, UpdateRun
<1>4. Flow(r)
  BY <1>1, <1>2 DEF Flow, Known, RunsKnown
<1> QED BY <1>3, <1>4, FlowStays

\* So does Completion.
LEMMA CompletionFlows ==
    ASSUME TypeOK, RunsKnown, NEW r \in Runs, Known(r), NEW ok, Completion(r, ok), cancel' = cancel
    PROVE  \A q \in Runs : Flow(q)
<1>t. mem \in [Runs -> RunRec] /\ rows \in [Runs -> RunRec]
  BY DEF TypeOK, StoreTypeOK
<1>1. /\ SetStatus(mem[r], "completed").st = "completed"
      /\ SetStatus(mem[r], "completed").item = mem[r].item
      /\ SetStatus(mem[r], "completed").intr = mem[r].intr
      /\ SetStatus(rows[r], "completed").st = "completed"
      /\ SetStatus(rows[r], "completed").item = rows[r].item
  BY <1>t, RecFacts
<1>2. /\ mem'[r] \in {mem[r], SetStatus(mem[r], "completed")}
      /\ rows'[r] \in {rows[r], SetStatus(rows[r], "completed")}
  BY <1>t DEF Completion, MarkRunCompleted
<1>3. \A q \in Runs : q # r => mem'[q] = mem[q] /\ rows'[q] = rows[q]
  BY <1>t DEF Completion, MarkRunCompleted
<1>4. Flow(r)
  BY <1>1, <1>2 DEF Flow, Known, RunsKnown
<1> QED BY <1>3, <1>4, FlowStays

\* A step of the launch of r that writes at most its label and the run's records.
LEMMA LaunchStarts ==
    ASSUME TypeOK, NEW r \in Runs, gpc[r] # "none", UNCHANGED <<jobs, spc, input>>,
           NEW pc, gpc' = [gpc EXCEPT ![r] = pc]
    PROVE  \A q \in Runs : Starts(q)
<1>t. gpc \in [Runs -> LaunchPC]
  BY DEF TypeOK
<1> QED BY <1>t DEF Starts

\* Except for CreateRun and a crash, every step is a RunStep.
LEMMA RunSteps ==
    TypeOK /\ TurnInv /\ RunsKnown /\ LoopKnown /\ [Next]_vars => RunStep \/ Create \/ Crash
<1> SUFFICES ASSUME TypeOK, TurnInv, RunsKnown, LoopKnown, [Next]_vars, ~Create, ~Crash
             PROVE  RunStep
  OBVIOUS
<1>t. /\ mem \in [Runs -> RunRec] /\ rows \in [Runs -> RunRec]
      /\ gpc \in [Runs -> LaunchPC] /\ jobs \in [Runs -> Nat]
      /\ xprop \in [Runs -> Proposals \cup {None}] /\ input \in [Runs -> SUBSET Items]
      /\ running \in Runs \cup {None} /\ cancel \in CancelRec /\ spc \in Runs \cup {None}
      /\ None \notin Runs
  BY NoneAssumption DEF TypeOK, StoreTypeOK
<1>c. cancel.pc # "idle" => cancel.run \in Runs /\ cancel \in ActiveCancel
  BY <1>t DEF CancelRec, ActiveCancel, IdleCancel
<1>0. CASE UNCHANGED <<rows, mem, cancel, gpc, jobs, spc, input>>
  BY <1>0, FlowStays DEF RunStep, Starts
<1>1. CASE Intake
  BY <1>0, <1>1 DEF Intake, BeginSubmit, SubmitSignal, ClassifySubmit, FinishSubmit, storeVars,
                    launchVars, execVars, deliverVars
<1>2. CASE Resolution
  <2>1. UNCHANGED <<rows, mem, cancel, gpc, jobs, spc, input>>
    BY <1>2 DEF Resolution, ResolveRead, ResolveUpdate, ResolveFails, EnqueueCheck, EnqueueInsert,
                storeVars, launchVars, execVars, deliverVars
  <2> QED BY <1>0, <2>1
<1>3. ASSUME NEW p \in Proposals, Expire(p) PROVE RunStep
  BY <1>0, <1>3 DEF Expire, launchVars, execVars, deliverVars, clientVars
<1>4. CASE ListItems \/ Promote \/ GiveUp \/ ConsumeItem \/ EmitAbort
  <2>1. UNCHANGED <<rows, mem, cancel, gpc, jobs, spc, input>>
    BY <1>4 DEF ListItems, Promote, GiveUp, ConsumeItem, EmitAbort, storeVars, launchVars, execVars,
                deliverVars, clientVars
  <2> QED BY <1>0, <2>1
<1>5. ASSUME NEW r \in Runs, ExecutorStep(r) PROVE RunStep
  <2>1. UNCHANGED <<rows, mem, cancel, gpc, jobs, spc, input>>
    BY <1>5 DEF ExecutorStep, Replay, Propose, SavePropose, Return, storeVars, launchVars,
                deliverVars, clientVars
  <2> QED BY <1>0, <2>1
<1>6. CASE Drain \/ DrainReturns \/ UNCHANGED vars
  BY <1>0, <1>6 DEF Drain, DrainReturns, vars, storeVars, launchVars, execVars, deliverVars,
                    clientVars
<1>7. CASE Boot
  <2>1. UNCHANGED <<mem, cancel, gpc, jobs, spc, input>>
    BY <1>7 DEF Boot, launchVars, execVars, deliverVars, clientVars
  <2>2. \A r \in Runs : \/ rows'[r] = rows[r]
                        \/ rows'[r] = Interrupt(SetStatus(rows[r], "failed"), "system")
    BY <1>7 DEF Boot
  <2>3. ASSUME NEW r \in Runs PROVE rows'[r].item = rows[r].item /\ (rows[r].st # "none" => rows'[r].st # "none")
    <3>1. SetStatus(rows[r], "failed") \in RunRec
      BY <1>t, SetStatusType DEF RunStatus
    <3>2. Interrupt(SetStatus(rows[r], "failed"), "system").st = SetStatus(rows[r], "failed").st
      BY <3>1, RecFacts
    <3>3. Interrupt(SetStatus(rows[r], "failed"), "system").item = SetStatus(rows[r], "failed").item
      BY <3>1, RecFacts
    <3>4. SetStatus(rows[r], "failed").st = "failed" /\ SetStatus(rows[r], "failed").item = rows[r].item
      BY <1>t, RecFacts
    <3> QED BY <2>2, <3>2, <3>3, <3>4
  <2> QED BY <2>1, <2>3 DEF RunStep, Flow, Starts, Known, RunsKnown
<1>8. CASE Poll
  <2>1. UNCHANGED <<rows, gpc, jobs, spc, input>>
    BY <1>8 DEF Poll, storeVars, launchVars, execVars, deliverVars
  <2>2. CASE UNCHANGED <<mem, cancel>>
    BY <1>0, <2>1, <2>2
  <2>3. ASSUME NEW r \in PausedRuns, mem' = [mem EXCEPT ![r] = rows[r]], cancel' = CancelKeeps(r)
        PROVE  RunStep
    <3>1. r \in Runs /\ rows[r].st = "waiting_for_proposal" /\ mem'[r] = rows[r]
      BY <1>t, <2>3 DEF PausedRuns
    <3>2. \A q \in Runs : q # r => mem'[q] = mem[q]
      BY <1>t, <2>3
    <3>3. \/ cancel' = cancel /\ ~(cancel.pc = "read" /\ cancel.run = r)
          \/ /\ cancel.pc = "read" /\ cancel.run = r
             /\ cancel'.pc = "write" /\ cancel'.run = r /\ cancel'.rec = mem[r]
      BY <1>c, <2>3 DEF CancelKeeps, CancelTakes, ActiveCancel
    <3>4. Flow(r)
      BY <2>1, <3>1, <3>3 DEF Flow, Known, RunsKnown
    <3>5. ASSUME NEW q \in Runs, q # r PROVE Flow(q)
      <4>1. CASE cancel' = cancel
        BY <2>1, <3>2, <3>5, <4>1, FlowStays
      <4>2. CASE cancel'.run = r
        BY <2>1, <3>2, <3>5, <4>2 DEF Flow, Known
      <4> QED BY <3>3, <4>1, <4>2
    <3> QED BY <2>1, <3>4, <3>5 DEF RunStep, Starts
  <2> QED BY <1>8, <2>2, <2>3 DEF Poll
<1>9. CASE Abort
  <2>1. UNCHANGED <<cancel, gpc, jobs, spc, input>> /\ EndRun(lrun, "failed", FALSE)
    BY <1>9 DEF Abort, launchVars, execVars, deliverVars, clientVars
  <2>2. lrun \in Runs /\ Known(lrun)
    BY <1>9 DEF Abort, TurnInv, LoopInv, LoopKnown
  <2>3. \A q \in Runs : Flow(q)
    BY <2>1, <2>2, EndRunFlows
  <2> QED BY <2>1, <2>3 DEF RunStep, Starts
<1>10. CASE Launch
  <2>1. UNCHANGED <<rows, mem, cancel, jobs, spc>> /\ lpc = "launch" /\ lrun \in Runs
    BY <1>10 DEF Launch, storeVars, deliverVars, clientVars, TurnInv, LoopInv
  <2>2. \A q \in Runs : q # lrun => gpc'[q] = gpc[q] /\ input'[q] = input[q]
    BY <1>10, <1>t, <2>1 DEF Launch, execVars
  <2>3. \A q \in Runs : Flow(q)
    BY <2>1, FlowStays
  <2> QED BY <2>1, <2>2, <2>3 DEF RunStep, Starts
<1>11. ASSUME NEW r \in Runs,
              \/ LoadCheckpoint(r) \/ ConsumeResume(r) \/ DrainExpired(r) \/ EmitEnded(r)
              \/ SavePause(r) \/ Reply(r)
       PROVE  RunStep
  <2>1. UNCHANGED <<rows, mem, cancel, jobs, spc, input>> /\ gpc[r] # "none"
    BY <1>11 DEF LoadCheckpoint, ConsumeResume, DrainExpired, EmitEnded, SavePause, Reply,
                 storeVars, execVars, deliverVars, clientVars
  <2>2. PICK pc : gpc' = [gpc EXCEPT ![r] = pc]
    BY <1>11 DEF LoadCheckpoint, ConsumeResume, DrainExpired, EmitEnded, SavePause, Reply, Goto
  <2> QED BY <2>1, <2>2, LaunchStarts, FlowStays DEF RunStep
<1>12. ASSUME NEW r \in Runs, Activate(r) PROVE RunStep
  <2>1. UNCHANGED <<cancel, jobs, spc, input>> /\ gpc[r] # "none" /\ Known(r)
    BY <1>12 DEF Activate, execVars, deliverVars, clientVars, RunsKnown
  <2>2. PICK pc : gpc' = [gpc EXCEPT ![r] = pc]
    BY <1>12 DEF Activate, Goto
  <2>3. mem'[r] = Resumed(mem[r]) /\ rows'[r] \in {rows[r], Resumed(mem[r])}
    BY <1>12, <1>t DEF Activate, UpdateRun
  <2>4. \A q \in Runs : q # r => mem'[q] = mem[q] /\ rows'[q] = rows[q]
    BY <1>12, <1>t DEF Activate, UpdateRun
  <2>5. /\ Resumed(mem[r]).st = "active" /\ Resumed(mem[r]).item = mem[r].item
        /\ Resumed(mem[r]).intr = mem[r].intr
    BY <1>t, RecFacts
  <2>6. Flow(r)
    BY <2>1, <2>3, <2>5 DEF Flow, Known, RunsKnown
  <2> QED BY <2>1, <2>2, <2>4, <2>6, LaunchStarts, FlowStays DEF RunStep
<1>13. ASSUME NEW r \in Runs, AwaitResult(r) \/ Timeout(r) PROVE RunStep
  <2>1. UNCHANGED <<rows, cancel, jobs, spc, input>> /\ gpc[r] # "none"
    BY <1>13 DEF AwaitResult, Timeout, storeVars, execVars, deliverVars, clientVars
  <2>2. PICK pc : gpc' = [gpc EXCEPT ![r] = pc]
    BY <1>13 DEF AwaitResult, Timeout, Goto
  <2>3. mem'[r] \in {mem[r], Waiting(mem[r], xprop[r]), Interrupt(mem[r], "system")}
    BY <1>13, <1>t DEF AwaitResult, Timeout
  <2>4. \A q \in Runs : q # r => mem'[q] = mem[q]
    BY <1>13, <1>t DEF AwaitResult, Timeout
  <2>5. /\ Waiting(mem[r], xprop[r]).st # "none" /\ Waiting(mem[r], xprop[r]).item = mem[r].item
        /\ Waiting(mem[r], xprop[r]).intr = mem[r].intr /\ Interrupt(mem[r], "system").intr = "system"
        /\ Interrupt(mem[r], "system").st = mem[r].st /\ Interrupt(mem[r], "system").item = mem[r].item
    BY <1>t, RecFacts
  <2>6. Flow(r)
    BY <2>1, <2>3, <2>5 DEF Flow, Known, RunsKnown
  <2> QED BY <2>1, <2>2, <2>4, <2>6, LaunchStarts, FlowStays DEF RunStep
<1>14. ASSUME NEW r \in Runs, FailRun(r) \/ CancelledRun(r) PROVE RunStep
  <2>1. UNCHANGED <<cancel, jobs, spc, input>> /\ gpc[r] # "none" /\ Known(r)
    BY <1>14 DEF FailRun, CancelledRun, execVars, deliverVars, clientVars, RunsKnown
  <2>2. PICK pc : gpc' = [gpc EXCEPT ![r] = pc]
    BY <1>14 DEF FailRun, CancelledRun, Goto
  <2>3. \A q \in Runs : Flow(q)
    BY <1>14, <2>1, EndRunFlows DEF FailRun, CancelledRun
  <2> QED BY <2>1, <2>2, <2>3, LaunchStarts DEF RunStep
<1>15. ASSUME NEW r \in Runs, PersistPause(r) PROVE RunStep
  <2>1. UNCHANGED <<mem, cancel, jobs, spc, input>> /\ gpc[r] # "none" /\ Known(r)
    BY <1>15 DEF PersistPause, execVars, deliverVars, clientVars, RunsKnown
  <2>2. PICK pc : gpc' = [gpc EXCEPT ![r] = pc]
    BY <1>15 DEF PersistPause, Goto
  <2>3. rows'[r] \in {rows[r], mem[r]} /\ \A q \in Runs : q # r => rows'[q] = rows[q]
    BY <1>15, <1>t DEF PersistPause, UpdateRun
  <2>4. Flow(r)
    BY <2>1, <2>3 DEF Flow, Known, RunsKnown
  <2> QED BY <2>1, <2>2, <2>3, <2>4, LaunchStarts, FlowStays DEF RunStep
<1>16. ASSUME NEW r \in Runs, Complete(r) \/ MarkDelivered(r) PROVE RunStep
  <2>1. UNCHANGED <<cancel, jobs, spc, input>> /\ gpc[r] # "none" /\ Known(r)
    BY <1>16 DEF Complete, MarkDelivered, execVars, deliverVars, clientVars, RunsKnown
  <2>2. PICK pc : gpc' = [gpc EXCEPT ![r] = pc]
    BY <1>16 DEF Complete, MarkDelivered, Goto
  <2>3. Completion(r, TRUE) \/ Completion(r, FALSE)
    BY <1>16 DEF Complete, MarkDelivered
  <2>4. \A q \in Runs : Flow(q)
    BY <2>1, <2>3, CompletionFlows
  <2> QED BY <2>1, <2>2, <2>4, LaunchStarts DEF RunStep
<1>17. ASSUME NEW r \in Runs, Deliver(r) PROVE RunStep
  <2>1. UNCHANGED <<rows, mem, cancel, spc, input>> /\ gpc[r] = "deliver"
    BY <1>17 DEF Deliver, execVars, clientVars
  <2>2. \A q \in Runs : q # r => gpc'[q] = gpc[q] /\ jobs'[q] = jobs[q]
    BY <1>17, <1>t DEF Deliver, Goto
  <2>3. \A q \in Runs : Starts(q)
    BY <2>1, <2>2 DEF Starts
  <2> QED BY <2>1, <2>3, FlowStays DEF RunStep
<1>18. ASSUME NEW r \in Runs, Exit(r) PROVE RunStep
  <2>1. UNCHANGED <<rows, mem, jobs, spc, input>> /\ gpc' = [gpc EXCEPT ![r] = "none"]
    BY <1>18 DEF Exit, Goto, storeVars, execVars, deliverVars
  <2>2. cancel' = cancel \/ (cancel.run = r /\ cancel' = [cancel EXCEPT !.live = FALSE])
    BY <1>18 DEF Exit
  <2>3. cancel'.pc = cancel.pc /\ cancel'.run = cancel.run /\ cancel'.rec = cancel.rec
    BY <1>t, <2>2 DEF CancelRec, ActiveCancel, IdleCancel
  <2>4. \A q \in Runs : Flow(q)
    BY <2>1, <2>3 DEF Flow, Known, RunsKnown
  <2> QED BY <1>t, <2>1, <2>4 DEF RunStep, Starts
<1>19. ASSUME NEW r \in Runs, FireJob(r) PROVE RunStep
  <2>1. UNCHANGED <<rows, mem, cancel, gpc, input>> /\ jobs[r] # 0
    BY <1>19, <1>t DEF FireJob, launchVars, execVars, clientVars
  <2>2. spc' \in {r, None} /\ \A q \in Runs : q # r => jobs'[q] = jobs[q]
    BY <1>19, <1>t DEF FireJob
  <2>3. \A q \in Runs : Starts(q)
    BY <1>t, <2>1, <2>2 DEF Starts
  <2> QED BY <2>1, <2>3, FlowStays DEF RunStep
<1>20. CASE CompleteJob
  <2>1. UNCHANGED <<cancel, gpc, jobs, input>> /\ spc \in Runs /\ spc' = None /\ Known(spc)
    BY <1>20, <1>t DEF CompleteJob, launchVars, execVars, clientVars, RunsKnown
  <2>2. Completion(spc, TRUE) \/ Completion(spc, FALSE)
    BY <1>20 DEF CompleteJob
  <2>3. \A q \in Runs : Flow(q)
    BY <2>1, <2>2, CompletionFlows
  <2> QED BY <1>t, <2>1, <2>3 DEF RunStep, Starts
<1>21. CASE CancelMark
  <2>1. /\ UNCHANGED <<rows, gpc, jobs, spc, input>> /\ running \in Runs
        /\ mem'[running] = Interrupt(mem[running], "user_cancel")
        /\ \A q \in Runs : q # running => mem'[q] = mem[q]
    BY <1>21, <1>t DEF CancelMark, storeVars, launchVars, execVars, deliverVars
  <2>2. cancel'.pc = "read" /\ cancel'.run = running /\ cancel'.rec.item = None
    BY <1>21 DEF CancelMark, IdleCancel, NoRun
  <2>3. /\ Interrupt(mem[running], "user_cancel").st = mem[running].st
        /\ Interrupt(mem[running], "user_cancel").item = mem[running].item
        /\ Interrupt(mem[running], "user_cancel").intr = "user_cancel"
    BY <1>t, <2>1, RecFacts
  <2>4. \A q \in Runs : Flow(q)
    BY <2>1, <2>2, <2>3 DEF Flow, Known
  <2> QED BY <2>1, <2>4 DEF RunStep, Starts
<1>22. CASE CancelRead
  <2>1. UNCHANGED <<rows, mem, gpc, jobs, spc, input>> /\ cancel.run \in Runs
    BY <1>22, <1>c DEF CancelRead, storeVars, launchVars, execVars, deliverVars
  <2>2. /\ cancel.pc = "read" /\ cancel'.pc = "write" /\ cancel'.run = cancel.run
        /\ cancel'.rec = mem[cancel.run]
    BY <1>22, <1>c DEF CancelRead, CancelTakes, ActiveCancel
  <2>3. \A q \in Runs : Flow(q)
    BY <2>1, <2>2 DEF Flow, Known
  <2> QED BY <2>1, <2>3 DEF RunStep, Starts
<1>23. CASE CancelWrite
  <2>1. UNCHANGED <<mem, gpc, jobs, spc, input>> /\ cancel.run \in Runs /\ cancel.rec.st # "none"
    BY <1>23, <1>c DEF CancelWrite, launchVars, execVars, deliverVars, RunsKnown
  <2>2. cancel'.pc = "signal" /\ cancel'.run = cancel.run /\ cancel'.rec = cancel.rec
    BY <1>23, <1>c DEF CancelWrite, ActiveCancel
  <2>3. /\ rows'[cancel.run] \in {rows[cancel.run], cancel.rec}
        /\ \A q \in Runs : q # cancel.run => rows'[q] = rows[q]
    BY <1>23, <1>t DEF CancelWrite, UpdateRun
  <2>4. \A q \in Runs : Flow(q)
    BY <2>1, <2>2, <2>3 DEF Flow, Known
  <2> QED BY <2>1, <2>4 DEF RunStep, Starts
<1>24. CASE CancelSignal
  <2>1. UNCHANGED <<rows, mem, gpc, jobs, spc, input>> /\ cancel'.run = None
    BY <1>24 DEF CancelSignal, storeVars, execVars, deliverVars, IdleCancel
  <2>2. \A q \in Runs : Flow(q)
    BY <1>t, <2>1 DEF Flow, Known
  <2> QED BY <2>1, <2>2 DEF RunStep, Starts
<1> QED BY <1>1, <1>2, <1>3, <1>4, <1>5, <1>6, <1>7, <1>8, <1>9, <1>10, <1>11, <1>12, <1>13, <1>14,
           <1>15, <1>16, <1>17, <1>18, <1>19, <1>20, <1>21, <1>22, <1>23, <1>24
        DEF Next, Loop, LaunchStep, SchedulerStep, CancelStep

\* Only the loop moves the loop.
LEMMA LoopMoves == [Next]_vars => Loop \/ Crash \/ UNCHANGED loopVars
<1> SUFFICES ASSUME [Next]_vars, ~Loop, ~Crash PROVE UNCHANGED loopVars
  OBVIOUS
<1>1. CASE Intake \/ Resolution
  BY <1>1 DEF Intake, BeginSubmit, SubmitSignal, ClassifySubmit, FinishSubmit, Resolution,
              ResolveRead, ResolveUpdate, ResolveFails, EnqueueCheck, EnqueueInsert
<1>2. ASSUME NEW r \in Runs, LaunchStep(r) PROVE UNCHANGED loopVars
  BY <1>2 DEF LaunchStep, LoadCheckpoint, ConsumeResume, Activate, AwaitResult, DrainExpired,
              FailRun, CancelledRun, EmitEnded, SavePause, PersistPause, Reply, Complete, Deliver,
              MarkDelivered, Exit
<1>3. ASSUME NEW r \in Runs, Timeout(r) \/ ExecutorStep(r) PROVE UNCHANGED loopVars
  BY <1>3 DEF Timeout, ExecutorStep, Replay, Propose, SavePropose, Return
<1>4. CASE SchedulerStep \/ CancelStep \/ Drain \/ DrainReturns \/ UNCHANGED vars
  BY <1>4 DEF SchedulerStep, FireJob, CompleteJob, CancelStep, CancelMark, CancelRead, CancelWrite,
              CancelSignal, Drain, DrainReturns, vars
<1>5. ASSUME NEW p \in Proposals, Expire(p) PROVE UNCHANGED loopVars
  BY <1>5 DEF Expire
<1> QED BY <1>1, <1>2, <1>3, <1>4, <1>5 DEF Next

\* A row that is there keeps its type.
LEMMA TypeKept == InboxStep => \A j \in Items : inbox[j].st # "none" => inbox'[j].type = inbox[j].type
<1> SUFFICES ASSUME InboxStep, NEW j \in Items, inbox[j].st # "none"
             PROVE  inbox'[j].type = inbox[j].type
  OBVIOUS
<1>1. CASE RowsMove
  BY <1>1 DEF RowsMove
<1>2. ASSUME NEW i \in Items, inbox[i].st = "none", RowComes(i) PROVE inbox'[j].type = inbox[j].type
  BY <1>2 DEF RowComes
<1>3. ASSUME NEW i \in Items, NEW t \in Items, inbox[i].st = "none", RowMerges(i, t)
      PROVE  inbox'[j].type = inbox[j].type
  BY <1>3 DEF RowMerges
<1> QED BY <1>1, <1>2, <1>3 DEF InboxStep

\* CreateRun leaves a run that is known and has its item, in memory and in its row.
LEMMA Created ==
    ASSUME TypeOK, Create, rows' # rows \/ lpc' # "idle"
    PROVE  /\ lrun' \in Runs /\ lpc' = "consume" /\ rows[lrun'].st = "none"
           /\ mem'[lrun'] = NewRun(litem) /\ rows'[lrun'] = NewRun(litem)
           /\ \A q \in Runs : q # lrun' => mem'[q] = mem[q] /\ rows'[q] = rows[q]
<1>t. mem \in [Runs -> RunRec] /\ rows \in [Runs -> RunRec]
  BY DEF TypeOK, StoreTypeOK
<1>1. PICK r \in Runs : /\ IsOldest(r, {q \in Runs : rows[q].st = "none"})
                        /\ CreateRun(r, litem)
                        /\ mem' = [mem EXCEPT ![r] = NewRun(litem)]
                        /\ lrun' = r
                        /\ lpc' = "consume"
  BY DEF Create
<1> QED BY <1>t, <1>1 DEF CreateRun, IsOldest

\* A failed CreateRun leaves everything as it is.
LEMMA NotCreated ==
    ASSUME Create, ~(rows' # rows \/ lpc' # "idle") PROVE UNCHANGED <<rows, mem, lrun>> /\ lpc' = "idle"
BY DEF Create

\* RunsKnown is preserved by every step.
LEMMA RunsKnownStep ==
    TypeOK /\ TurnInv /\ RunsKnown /\ LoopKnown /\ [Next]_vars => RunsKnown'
<1> SUFFICES ASSUME TypeOK, TurnInv, RunsKnown, LoopKnown, [Next]_vars PROVE RunsKnown'
  OBVIOUS
<1>t. /\ running \in Runs \cup {None} /\ cancel \in CancelRec /\ cancel' \in CancelRec
      /\ None \notin Runs /\ jobs \in [Runs -> Nat]
  BY NoneAssumption, TypeStep DEF TypeOK
<1>c. /\ cancel'.pc # "idle" => cancel'.run \in Runs
      /\ cancel.pc # "idle" => cancel.run \in Runs
  BY <1>t DEF CancelRec, ActiveCancel, IdleCancel
<1>1. CASE RunStep
  <2>1. \A r \in Runs : Known(r) => rows[r].st # "none"
    BY DEF RunsKnown
  <2>2. running \in Runs => Known(running)
    BY <1>t DEF RunsKnown, TurnInv, SingleFlight
  <2>3. \A r \in Runs : rows'[r].st = "none" => input'[r] = {} /\ cancel'.run # r /\ ~Known(r)'
    <3> SUFFICES ASSUME NEW r \in Runs, rows'[r].st = "none"
                 PROVE  input'[r] = {} /\ cancel'.run # r /\ ~Known(r)'
      OBVIOUS
    <3>1. Flow(r) /\ Starts(r)
      BY <1>1 DEF RunStep
    <3>2. rows[r].st = "none" /\ ~Known(r)
      BY <2>1, <3>1 DEF Flow
    <3>3. input[r] = {} /\ cancel.run # r
      BY <3>2 DEF RunsKnown
    <3>4. ~Known(r)' /\ cancel'.run # r
      BY <2>2, <3>1, <3>2, <3>3 DEF Flow
    <3>5. input'[r] = {}
      BY <3>1, <3>2, <3>3 DEF Starts, LoopKnown
    <3> QED BY <3>4, <3>5
  <2>4. \A r \in Runs : gpc'[r] # "none" \/ jobs'[r] # 0 \/ spc' = r => Known(r)'
    <3> SUFFICES ASSUME NEW r \in Runs, gpc'[r] # "none" \/ jobs'[r] # 0 \/ spc' = r
                 PROVE  Known(r)'
      OBVIOUS
    <3>1. Flow(r) /\ Starts(r)
      BY <1>1 DEF RunStep
    <3>2. Known(r)
      BY <3>1 DEF Starts, RunsKnown, LoopKnown
    <3> QED BY <3>1, <3>2 DEF Flow
  <2>5. /\ cancel'.pc = "read" => mem'[cancel'.run].st # "none" /\ mem'[cancel'.run].intr # "none"
        /\ cancel'.pc = "write" => cancel'.rec.st # "none" /\ cancel'.rec.intr # "none"
    <3> SUFFICES ASSUME cancel'.pc \in {"read", "write"}
                 PROVE  /\ cancel'.pc = "read" => /\ mem'[cancel'.run].st # "none"
                                                   /\ mem'[cancel'.run].intr # "none"
                        /\ cancel'.pc = "write" => cancel'.rec.st # "none" /\ cancel'.rec.intr # "none"
      OBVIOUS
    <3>1. PICK r \in Runs : r = cancel'.run
      BY <1>c
    <3>2. Flow(r)
      BY <1>1 DEF RunStep
    <3>3. CASE cancel'.pc = "read"
      <4>1. (cancel.pc = "read" /\ cancel.run = r) \/ running = r
        BY <3>1, <3>2, <3>3 DEF Flow
      <4>2. Known(r)
        BY <2>2, <4>1 DEF RunsKnown
      <4> QED BY <3>1, <3>2, <3>3, <4>2 DEF Flow, Known
    <3>4. CASE cancel'.pc = "write"
      <4>1. \/ cancel.pc = "write" /\ cancel'.rec = cancel.rec
            \/ cancel.pc = "read" /\ cancel'.rec = mem[r]
        BY <3>1, <3>2, <3>4 DEF Flow
      <4>2. CASE cancel.pc = "write" /\ cancel'.rec = cancel.rec
        BY <3>4, <4>2 DEF RunsKnown
      <4>3. CASE cancel.pc = "read" /\ cancel'.rec = mem[r]
        <5>1. cancel.run = r
          BY <3>1, <3>2, <3>4, <4>3 DEF Flow
        <5>2. Known(r) /\ mem[r].intr # "none"
          BY <4>3, <5>1 DEF RunsKnown
        <5> QED BY <3>4, <4>3, <5>2 DEF Known
      <4> QED BY <4>1, <4>2, <4>3
    <3> QED BY <3>3, <3>4
  <2> QED BY <2>3, <2>4, <2>5 DEF RunsKnown, Known
<1>2. CASE Create
  <2>1. UNCHANGED <<cancel, gpc, jobs, spc, input>>
    BY <1>2 DEF Create, launchVars, execVars, deliverVars, clientVars
  <2>2. CASE rows' # rows \/ lpc' # "idle"
    <3>1. NewRun(litem).st = "active"
      BY DEF NewRun, NoRun
    <3>2. \A q \in Runs : Known(q) => Known(q)'
      BY <1>2, <2>2, <3>1, Created DEF Known
    <3>3. \A q \in Runs : rows'[q].st = "none" => rows[q].st = "none" /\ ~Known(q)'
      BY <1>2, <2>2, <3>1, Created DEF Known, RunsKnown
    <3>4. cancel.pc = "read" => mem'[cancel.run] = mem[cancel.run]
      BY <1>2, <1>c, <2>2, Created DEF RunsKnown
    <3> QED BY <2>1, <3>2, <3>3, <3>4 DEF RunsKnown, Known
  <2> QED BY <1>2, <2>1, <2>2, NotCreated DEF RunsKnown, Known
<1>3. CASE Crash
  <2>1. /\ UNCHANGED <<rows, input>> /\ cancel' = IdleCancel /\ spc' = None
        /\ mem' = [r \in Runs |-> NoRun] /\ gpc' = [r \in Runs |-> "none"]
        /\ jobs' = [r \in Runs |-> 0]
    BY <1>3 DEF Crash, storeVars
  <2> QED BY <1>t, <2>1 DEF RunsKnown, Known, IdleCancel, NoRun
<1> QED BY <1>1, <1>2, <1>3, RunSteps

\* LoopKnown is preserved by every step.
LEMMA LoopKnownStep ==
    TypeOK /\ TurnInv /\ Carried /\ RunsKnown /\ LoopKnown /\ [Next]_vars => LoopKnown'
<1> SUFFICES ASSUME TypeOK, TurnInv, Carried, RunsKnown, LoopKnown, [Next]_vars PROVE LoopKnown'
  OBVIOUS
<1>t. lpaused \in Runs \cup {None} /\ None \notin Runs /\ mem \in [Runs -> RunRec]
  BY NoneAssumption DEF TypeOK
<1>1. CASE lpc' \in {"boot", "idle"}
  BY <1>1 DEF LoopKnown
<1>2. CASE RunStep /\ UNCHANGED loopVars
  <2>1. \A r \in Runs : Known(r) => Known(r)'
    BY <1>2 DEF RunStep, Flow
  <2>2. lpc \in {"consume", "abort", "launch"} => lrun \in Runs
    BY DEF TurnInv, LoopInv
  <2>3. lpc = "launch" => inbox'[litem].type = inbox[litem].type
    <3>1. lpc = "launch" => litem \in Items /\ inbox[litem].st # "none"
      BY DEF TurnInv, LoopInv, Untouched
    <3> QED BY <3>1, InboxSteps, TypeKept
  <2>4. UNCHANGED <<lpc, lpaused, litem, lrun>>
    BY <1>2 DEF loopVars
  <2>5. lpc \in {"consume", "abort", "launch"} => mem'[lrun].st # "none"
    BY <2>1, <2>2 DEF LoopKnown, Known
  <2>6. lpc \in {"list", "promote", "relist"} /\ lpaused # None => mem'[lpaused].st # "none"
    BY <1>t, <2>1 DEF LoopKnown, Known
  <2> QED BY <2>3, <2>4, <2>5, <2>6 DEF LoopKnown, Known
<1>3. CASE Poll
  <2>1. lpc' = "list"
    BY <1>3 DEF Poll
  <2>2. CASE lpaused' = None
    BY <2>1, <2>2 DEF LoopKnown
  <2>3. ASSUME NEW r \in PausedRuns, lpaused' = r, mem' = [mem EXCEPT ![r] = rows[r]]
        PROVE  LoopKnown'
    <3>1. mem'[r].st = "waiting_for_proposal"
      BY <1>t, <2>3 DEF PausedRuns
    <3> QED BY <2>1, <2>3, <3>1 DEF LoopKnown, Known
  <2> QED BY <1>3, <2>2, <2>3 DEF Poll
<1>4. CASE ListItems
  <2>1. UNCHANGED <<lpaused, mem, inbox>> /\ lpc \in {"list", "relist"}
    BY <1>4 DEF ListItems, storeVars
  <2>2. CASE PickItem
    <3>1. PICK i \in Eligible : litem' = i
      BY <2>2 DEF PickItem
    <3>2. lpaused # None => inbox[i].type = "proposal_resolution"
      BY <3>1 DEF Eligible
    <3>3. lrun' = lpaused /\ lpc' = IF lpaused = None THEN "create" ELSE "launch"
      BY <2>2 DEF PickItem
    <3> QED BY <2>1, <3>1, <3>2, <3>3 DEF LoopKnown, Known
  <2>3. CASE lpc' \in {"promote", "idle"} /\ UNCHANGED lrun
    BY <2>1, <2>3 DEF LoopKnown, Known
  <2> QED BY <1>4, <2>2, <2>3 DEF ListItems
<1>5. CASE Promote
  <2>1. UNCHANGED <<lpaused, mem>> /\ lpc = "promote" /\ lpc' \in {"idle", "relist"}
    BY <1>5 DEF Promote
  <2> QED BY <2>1 DEF LoopKnown, Known
<1>6. CASE Create
  <2>1. UNCHANGED lpaused /\ lpc = "create"
    BY <1>6 DEF Create
  <2>2. CASE rows' # rows \/ lpc' # "idle"
    <3>1. NewRun(litem).st = "active"
      BY DEF NewRun, NoRun
    <3> QED BY <1>6, <2>1, <2>2, <3>1, Created DEF LoopKnown, Known
  <2> QED BY <1>1, <2>2
<1>7. CASE ConsumeItem
  <2>1. UNCHANGED <<lpaused, lrun, mem>> /\ lpc = "consume" /\ lpc' \in {"launch", "abort"}
    BY <1>7 DEF ConsumeItem
  <2> QED BY <2>1 DEF LoopKnown, Known
<1>8. CASE Abort
  <2>1. UNCHANGED lpaused /\ lpc = "abort" /\ lpc' = "emit"
    BY <1>8 DEF Abort
  <2> QED BY <2>1 DEF LoopKnown
<1>9. CASE Boot \/ GiveUp \/ EmitAbort \/ Launch \/ Crash
  BY <1>1, <1>9 DEF Boot, GiveUp, EmitAbort, Launch, Crash
<1> QED BY <1>2, <1>3, <1>4, <1>5, <1>6, <1>7, <1>8, <1>9, RunSteps, LoopMoves DEF Loop

-----------------------------------------------------------------------------
(* An executor has read what was merged into its item                      *)

\* The loop has created a run for litem and is about to launch it.
FreshDispatch == lpc \in {"consume", "launch"} /\ lpaused = None

\* i is the item of r as the row, the RunState or a CancelRun under way has it.
ItemOf(r, i) == rows[r].item = i \/ mem[r].item = i \/ (cancel.run = r /\ cancel.rec.item = i)

\* SubmitMessage appends to the chat before it touches the inbox.
Heard ==
    /\ \A i \in Items : sub[i].pc \in {"classify", "accept"} => i \in transcript
    /\ \A i \in Items : inbox[i].type = "text" => inbox[i].content \subseteq transcript

\* A run that is being dispatched is about the item of the dispatch, and no
\* CancelRun holds another RunState of it.
FreshKnown ==
    FreshDispatch => rows[lrun].item = litem /\ mem[lrun].item = litem /\ cancel.run # lrun

\* The item of a run that was started is consumed, and its text was loaded.
Read ==
    \A r \in Runs, i \in Items :
        ItemOf(r, i) /\ input[r] # {} /\ inbox[i].type = "text" =>
            inbox[i].st = "consumed" /\ inbox[i].content \subseteq seen[r]

\* Who adds to the chat, and who is under way with a submission.
LEMMA SubmissionMoves ==
    TypeOK /\ [Next]_vars =>
        /\ transcript \subseteq transcript'
        /\ \A i \in Items : sub'[i].pc \in {"classify", "accept"} =>
              sub[i].pc \in {"classify", "accept"} \/ i \in transcript'
<1> SUFFICES ASSUME TypeOK, [Next]_vars
             PROVE  /\ transcript \subseteq transcript'
                    /\ \A i \in Items : sub'[i].pc \in {"classify", "accept"} =>
                          sub[i].pc \in {"classify", "accept"} \/ i \in transcript'
  OBVIOUS
<1>t. sub \in [Items -> SubRec]
  BY DEF TypeOK
<1>0. CASE UNCHANGED <<transcript, sub>>
  BY <1>0
<1>1. ASSUME NEW i \in Items, NEW k \in Keys \cup {None}, BeginSubmit(i, k)
      PROVE  /\ transcript' = transcript \cup {i}
             /\ \A j \in Items : j # i => sub'[j] = sub[j]
  BY <1>1, <1>t DEF BeginSubmit
<1>2. ASSUME NEW i \in Items,
             \/ ClassifySubmit(i) \/ FinishSubmit(i)
             \/ \E k \in Keys \cup {None} : SubmitSignal(i, k)
      PROVE  /\ transcript' = transcript
             /\ \A j \in Items : j # i => sub'[j] = sub[j]
             /\ sub[i].pc = "classify" \/ sub'[i].pc = "done"
  BY <1>2, <1>t DEF ClassifySubmit, FinishSubmit, SubmitSignal, storeVars, SubRec
<1>3. CASE Resolution
  BY <1>0, <1>3 DEF Resolution, ResolveRead, ResolveUpdate, ResolveFails, EnqueueCheck,
                    EnqueueInsert, storeVars
<1>4. CASE Loop
  BY <1>0, <1>4 DEF Loop, Boot, Poll, ListItems, Promote, GiveUp, Create, ConsumeItem, Abort,
                    EmitAbort, Launch, storeVars, clientVars
<1>5. ASSUME NEW r \in Runs, LaunchStep(r) PROVE UNCHANGED <<transcript, sub>>
  BY <1>5 DEF LaunchStep, LoadCheckpoint, ConsumeResume, Activate, AwaitResult, DrainExpired,
              FailRun, CancelledRun, EmitEnded, SavePause, PersistPause, Reply, Complete, Deliver,
              MarkDelivered, Exit, storeVars, clientVars
<1>6. ASSUME NEW r \in Runs, Timeout(r) \/ ExecutorStep(r) PROVE UNCHANGED <<transcript, sub>>
  BY <1>6 DEF Timeout, ExecutorStep, Replay, Propose, SavePropose, Return, storeVars, clientVars
<1>7. CASE SchedulerStep \/ CancelStep \/ Drain \/ DrainReturns \/ UNCHANGED vars
  BY <1>0, <1>7 DEF SchedulerStep, FireJob, CompleteJob, CancelStep, CancelMark, CancelRead,
              CancelWrite, CancelSignal, Drain, DrainReturns, vars, storeVars, clientVars
<1>8. ASSUME NEW p \in Proposals, Expire(p) PROVE UNCHANGED <<transcript, sub>>
  BY <1>8 DEF Expire, clientVars
<1>9. CASE Crash
  <2>1. transcript' = transcript
    BY <1>9 DEF Crash, storeVars
  <2>2. \A i \in Items : sub'[i] = sub[i] \/ sub'[i].pc = "done"
    BY <1>9 DEF Crash, NoSub
  <2> QED BY <2>1, <2>2
<1>10. CASE Intake
  BY <1>1, <1>2, <1>10 DEF Intake
<1> QED BY <1>0, <1>3, <1>4, <1>5, <1>6, <1>7, <1>8, <1>9, <1>10 DEF Next

\* Heard is preserved by every step.
LEMMA HeardStep == TypeOK /\ TurnInv /\ Carried /\ Heard /\ [Next]_vars => Heard'
<1> SUFFICES ASSUME TypeOK, TurnInv, Carried, Heard, [Next]_vars PROVE Heard'
  OBVIOUS
<1>1. transcript \subseteq transcript' /\ InboxStep
  BY SubmissionMoves, InboxSteps
<1>2. \A i \in Items : sub'[i].pc \in {"classify", "accept"} => i \in transcript'
  BY <1>1, SubmissionMoves DEF Heard
<1>3. ASSUME NEW j \in Items, inbox'[j].type = "text" PROVE inbox'[j].content \subseteq transcript'
  <2>1. CASE RowsMove
    BY <1>1, <1>3, <2>1 DEF RowsMove, Heard
  <2>2. ASSUME NEW i \in Items, RowComes(i)
        PROVE  inbox'[j].content \subseteq transcript'
    BY <1>1, <1>3, <2>2 DEF RowComes, Heard
  <2>3. ASSUME NEW i \in Items, NEW t \in Items, RowMerges(i, t)
        PROVE  inbox'[j].content \subseteq transcript'
    <3>1. i \in transcript'
      BY <1>1, <2>3 DEF Heard, RowMerges
    <3>2. CASE j = i
      BY <2>3, <3>1, <3>2 DEF RowMerges
    <3>3. CASE j = t /\ j # i
      BY <1>1, <1>3, <2>3, <3>1, <3>3 DEF RowMerges, Heard
    <3>4. CASE j # t /\ j # i
      BY <1>1, <1>3, <2>3, <3>4 DEF RowMerges, Heard
    <3> QED BY <3>2, <3>3, <3>4
  <2> QED BY <1>1, <2>1, <2>2, <2>3 DEF InboxStep
<1> QED BY <1>2, <1>3 DEF Heard

\* No step gives a run that was started another item.
LEMMA ItemsStay ==
    ASSUME TypeOK, TurnInv, RunsKnown, LoopKnown, [Next]_vars,
           NEW r \in Runs, NEW i \in Items, ItemOf(r, i)', input[r] # {}
    PROVE  ItemOf(r, i)
<1>t. i # None /\ None \notin Runs
  BY NoneAssumption
<1>1. CASE RunStep
  <2>1. Flow(r)
    BY <1>1 DEF RunStep
  <2> QED BY <1>t, <2>1 DEF Flow, ItemOf
<1>2. CASE Create
  <2>1. cancel' = cancel
    BY <1>2 DEF Create, clientVars
  <2>2. CASE rows' # rows \/ lpc' # "idle"
    <3>1. r # lrun'
      BY <1>2, <2>2, Created DEF RunsKnown
    <3> QED BY <1>2, <2>1, <2>2, <3>1, Created DEF ItemOf
  <2> QED BY <1>2, <2>1, <2>2, NotCreated DEF ItemOf
<1>3. CASE Crash
  <2>1. rows' = rows /\ cancel' = IdleCancel /\ mem' = [q \in Runs |-> NoRun]
    BY <1>3 DEF Crash, storeVars
  <2> QED BY <1>t, <2>1 DEF ItemOf, IdleCancel, NoRun
<1> QED BY <1>1, <1>2, <1>3, RunSteps

\* A consumed row is final, and no step makes a row of text of another one.
LEMMA ConsumedStays ==
    ASSUME TypeOK, TurnInv, Carried, [Next]_vars, NEW i \in Items, inbox'[i].type = "text",
           inbox[i].type = "text" => inbox[i].st = "consumed"
    PROVE  /\ inbox'[i].st = "consumed"
           /\ inbox'[i].content = inbox[i].content
           /\ inbox[i].type = "text"
<1>1. inbox[i].st # "none" /\ InboxStep
  BY InboxSteps DEF Carried
<1>2. inbox[i].type = "text" /\ inbox[i].st = "consumed"
  BY <1>1, TypeKept
<1>3. CASE RowsMove
  BY <1>2, <1>3 DEF RowsMove
<1>4. ASSUME NEW j \in Items, inbox[j].st = "none", RowComes(j) PROVE inbox'[i] = inbox[i]
  BY <1>1, <1>4 DEF RowComes
<1>5. ASSUME NEW j \in Items, NEW t \in Items, inbox[j].st = "none", RowMerges(j, t)
      PROVE  inbox'[i] = inbox[i]
  BY <1>1, <1>2, <1>5 DEF RowMerges
<1> QED BY <1>1, <1>2, <1>3, <1>4, <1>5 DEF InboxStep

\* FreshKnown is preserved by every step.
LEMMA FreshStep ==
    TypeOK /\ TurnInv /\ RunsKnown /\ LoopKnown /\ FreshKnown /\ [Next]_vars => FreshKnown'
<1> SUFFICES ASSUME TypeOK, TurnInv, RunsKnown, LoopKnown, FreshKnown, [Next]_vars
             PROVE  FreshKnown'
  OBVIOUS
<1>t. None \notin Runs
  BY NoneAssumption
<1>1. CASE ~FreshDispatch'
  BY <1>1 DEF FreshKnown
<1>2. CASE UNCHANGED loopVars /\ RunStep
  <2>1. UNCHANGED <<lpc, lpaused, litem, lrun>>
    BY <1>2 DEF loopVars
  <2> SUFFICES ASSUME FreshDispatch
               PROVE  rows'[lrun].item = litem /\ mem'[lrun].item = litem /\ cancel'.run # lrun
    BY <2>1 DEF FreshKnown, FreshDispatch
  <2>2. lrun \in Runs /\ running = None
    BY DEF FreshDispatch, TurnInv, LoopInv, SingleFlight
  <2>3. rows[lrun].item = litem /\ mem[lrun].item = litem /\ cancel.run # lrun
    BY DEF FreshKnown
  <2>4. Flow(lrun)
    BY <1>2, <2>2 DEF RunStep
  <2> QED BY <1>t, <2>2, <2>3, <2>4 DEF Flow
<1>3. CASE Create
  <2>1. UNCHANGED <<cancel, litem>>
    BY <1>3 DEF Create, clientVars
  <2>2. CASE rows' # rows \/ lpc' # "idle"
    <3>1. NewRun(litem).item = litem
      BY DEF NewRun, NoRun
    <3>2. rows'[lrun'].item = litem /\ mem'[lrun'].item = litem /\ cancel.run # lrun'
      BY <1>3, <2>2, <3>1, Created DEF RunsKnown
    <3> QED BY <2>1, <3>2 DEF FreshKnown
  <2> QED BY <1>1, <2>2 DEF FreshDispatch
<1>4. CASE ConsumeItem
  <2>1. UNCHANGED <<rows, mem, cancel, litem, lrun, lpaused>> /\ lpc = "consume"
    BY <1>4 DEF ConsumeItem, clientVars
  <2> QED BY <2>1 DEF FreshKnown, FreshDispatch
<1>5. CASE Boot \/ Poll \/ Promote \/ GiveUp \/ Abort \/ EmitAbort \/ Launch \/ Crash
  <2>1. lpc' \notin {"consume", "launch"}
    BY <1>5 DEF Boot, Poll, Promote, GiveUp, Abort, EmitAbort, Launch, Crash
  <2> QED BY <1>1, <2>1 DEF FreshDispatch
<1>6. CASE ListItems
  <2>1. lpc' \in {"create", "promote", "idle"} \/ (lpc' = "launch" /\ lpaused # None)
    BY <1>6 DEF ListItems, PickItem
  <2>2. lpaused' = lpaused
    BY <1>6 DEF ListItems
  <2> QED BY <1>1, <2>1, <2>2 DEF FreshDispatch
<1> QED BY <1>2, <1>3, <1>4, <1>5, <1>6, RunSteps, LoopMoves DEF Loop

\* What an executor has loaded, and what it was given, comes from its start.
LEMMA ExecutorReads ==
    TypeOK /\ [Next]_vars => /\ Launch \/ input' = input
                             /\ \A r \in Runs : seen'[r] \in {seen[r], transcript}
<1> SUFFICES ASSUME TypeOK, [Next]_vars
             PROVE  /\ Launch \/ input' = input
                    /\ \A r \in Runs : seen'[r] \in {seen[r], transcript}
  OBVIOUS
<1>t. seen \in [Runs -> SUBSET Items]
  BY DEF TypeOK
<1>0. CASE UNCHANGED <<input, seen>>
  BY <1>0
<1>1. CASE Intake \/ Resolution
  BY <1>0, <1>1 DEF Intake, BeginSubmit, SubmitSignal, ClassifySubmit, FinishSubmit, Resolution,
              ResolveRead, ResolveUpdate, ResolveFails, EnqueueCheck, EnqueueInsert, execVars
<1>2. CASE Launch
  BY <1>2, <1>t DEF Launch, StartExecutor, execVars
<1>3. CASE Loop /\ ~Launch
  BY <1>0, <1>3 DEF Loop, Boot, Poll, ListItems, Promote, GiveUp, Create, ConsumeItem, Abort,
                    EmitAbort, execVars
<1>4. ASSUME NEW r \in Runs, Activate(r)
      PROVE  input' = input /\ \A q \in Runs : seen'[q] \in {seen[q], transcript}
  BY <1>4, <1>t DEF Activate, StartExecutor, execVars
<1>5. ASSUME NEW r \in Runs, LaunchStep(r), ~Activate(r) PROVE UNCHANGED <<input, seen>>
  BY <1>5 DEF LaunchStep, LoadCheckpoint, ConsumeResume, AwaitResult, DrainExpired,
              FailRun, CancelledRun, EmitEnded, SavePause, PersistPause, Reply, Complete, Deliver,
              MarkDelivered, Exit, execVars
<1>6. ASSUME NEW r \in Runs, Timeout(r) \/ ExecutorStep(r) PROVE UNCHANGED <<input, seen>>
  BY <1>6 DEF Timeout, ExecutorStep, Replay, Propose, SavePropose, Return, execVars
<1>7. CASE SchedulerStep \/ CancelStep \/ Drain \/ DrainReturns \/ Crash \/ UNCHANGED vars
  BY <1>0, <1>7 DEF SchedulerStep, FireJob, CompleteJob, CancelStep, CancelMark, CancelRead,
              CancelWrite, CancelSignal, Drain, DrainReturns, Crash, vars, execVars
<1>8. ASSUME NEW p \in Proposals, Expire(p) PROVE UNCHANGED <<input, seen>>
  BY <1>8 DEF Expire, execVars
<1> QED BY <1>0, <1>1, <1>2, <1>3, <1>4, <1>5, <1>6, <1>7, <1>8 DEF Next

\* Everything the text needs.
TextInv == Carried /\ RunsKnown /\ LoopKnown /\ Heard /\ FreshKnown /\ Read

\* Read is preserved by every step: a row that is consumed gets no more text, and
\* an executor that starts loads a chat in which all of it is.
LEMMA ReadStep == TypeOK /\ TurnInv /\ TextInv /\ [Next]_vars => Read'
<1> SUFFICES ASSUME TypeOK, TurnInv, TextInv, [Next]_vars,
                    NEW r \in Runs, NEW i \in Items,
                    ItemOf(r, i)', input'[r] # {}, inbox'[i].type = "text"
             PROVE  inbox'[i].st = "consumed" /\ inbox'[i].content \subseteq seen'[r]
  BY DEF Read
<1>1. seen'[r] \in {seen[r], transcript}
  BY ExecutorReads
<1>2. CASE input[r] # {}
  <2>1. ItemOf(r, i)
    BY <1>2, ItemsStay DEF TextInv
  <2>2. inbox[i].type = "text" => inbox[i].st = "consumed" /\ inbox[i].content \subseteq seen[r]
    BY <1>2, <2>1 DEF TextInv, Read
  <2>3. inbox'[i].st = "consumed" /\ inbox'[i].content = inbox[i].content /\ inbox[i].type = "text"
    BY <2>2, ConsumedStays DEF TextInv
  <2>4. inbox[i].content \subseteq transcript
    BY <2>3 DEF TextInv, Heard
  <2> QED BY <1>1, <2>2, <2>3, <2>4
<1>3. CASE input[r] = {}
  <2>t. /\ input \in [Runs -> SUBSET Items] /\ seen \in [Runs -> SUBSET Items]
        /\ lpaused \in Runs \cup {None}
    BY DEF TypeOK
  <2>1. Launch
    BY <1>3, ExecutorReads
  <2>2. /\ UNCHANGED <<inbox, rows, mem, cancel>> /\ lpc = "launch" /\ lrun \in Runs
        /\ litem \in Items
    BY <2>1 DEF Launch, storeVars, clientVars, TurnInv, LoopInv, Untouched
  <2>3. r = lrun /\ inbox[litem].type # "proposal_resolution" /\ seen'[lrun] = transcript
    BY <1>3, <2>1, <2>2, <2>t DEF Launch, StartExecutor, execVars
  <2>4. FreshDispatch
    BY <2>2, <2>3 DEF TextInv, LoopKnown, FreshDispatch
  <2>5. i = litem
    BY <2>2, <2>3, <2>4 DEF TextInv, FreshKnown, ItemOf
  <2>6. inbox[litem].st = "consumed"
    BY <2>2, <2>3 DEF TurnInv, LoopInv, Untouched
  <2> QED BY <2>2, <2>3, <2>5, <2>6 DEF TextInv, Heard
<1> QED BY <1>2, <1>3

\* Nothing is known or read when the first process starts.
LEMMA TextInit == Init => TextInv
<1> SUFFICES ASSUME Init PROVE TextInv
  OBVIOUS
<1>1. Carried
  BY CarriedInit
<1>2. RunsKnown /\ LoopKnown
  BY NoneAssumption DEF Init, StoreInit, RunsKnown, LoopKnown, Known, NoRun, IdleCancel
<1>3. Heard
  BY DEF Init, StoreInit, Heard, NoItem, NoSub
<1>4. FreshKnown /\ Read
  BY DEF Init, FreshKnown, FreshDispatch, Read
<1> QED BY <1>1, <1>2, <1>3, <1>4 DEF TextInv

\* TextInv is inductive.
LEMMA TextStep == TypeOK /\ TurnInv /\ TextInv /\ [Next]_vars => TextInv'
BY CarriedStep, RunsKnownStep, LoopKnownStep, HeardStep, FreshStep, ReadStep DEF TextInv

\* Text, rows and RunStates are related as TextInv says in every reachable state.
THEOREM TextInvariant == Spec => []TextInv
<1>1. Init => TextInv
  BY TextInit
<1>2. TypeOK /\ TurnInv /\ TextInv /\ [Next]_vars => TextInv'
  BY TextStep
<1> QED BY <1>1, <1>2, TypeCorrect, TurnInvariant, PTL DEF Spec

\* A merged row has exactly one row that carries its text.
LEMMA CarriedIsCarried == Carried => MergedTextIsCarried
<1> SUFFICES ASSUME Carried, NEW i \in Items, inbox[i].st = "merged"
             PROVE  Cardinality({j \in Items : inbox[j].st # "merged" /\ i \in inbox[j].content}) = 1
  BY DEF MergedTextIsCarried
<1>1. PICK j \in Items : j # i /\ i \in inbox[j].content /\ inbox[j].st # "merged"
  BY DEF Carried
<1>2. {k \in Items : inbox[k].st # "merged" /\ i \in inbox[k].content} = {j}
  BY <1>1 DEF Carried
<1> QED BY <1>2, FS_Singleton

\* The text of a merged message is in exactly one row that is not merged, however
\* submissions, the loop, launches, crashes and failing store calls interleave.
THEOREM MergedTextCarried == Spec => []MergedTextIsCarried
<1>1. TextInv => MergedTextIsCarried
  BY CarriedIsCarried DEF TextInv
<1> QED BY <1>1, TextInvariant, PTL

\* An executor has in its transcript all the text of the item of its run, also what
\* was merged into the item between the listing and the start of the executor.
THEOREM MergedTextSeen == Spec => []MergedTextIsSeen
<1>1. TextInv => MergedTextIsSeen
  BY DEF TextInv, Read, ItemOf, MergedTextIsSeen
<1> QED BY <1>1, TextInvariant, PTL

-----------------------------------------------------------------------------
(* Starting, resuming and completing a run                                 *)

Completions(r) == events[r]["run.completed"]

\* Run r has sent nothing of a schedule, has none, and was not completed.
Unsent(r) == jobs[r] = 0 /\ plan[r] = <<>> /\ left[r] = 0 /\ spc # r /\ Completions(r) = 0

\* The row of a paused run that no CancelRun wrote.  (A row CancelRun wrote may be
\* older than what the run did since; it carries the mark of the cancellation, and
\* an executor resumed from it is interrupted before it acts.)
Resumable(r) == rows[r].st = "waiting_for_proposal" /\ rows[r].intr = "none"

\* A run may be created with this id, or resumed.
Startable(r) == rows[r].st = "none" \/ Resumable(r)

\* The RunState carries no mark.
Clean(r) == mem[r].intr = "none"

\* The loop is about to resume r.
LoopHas(r) == lpc \in {"list", "promote", "relist", "launch"} /\ lpaused = r

\* The launch takes r back from its checkpoint; its executor has not acted yet;
\* its executor may act, or has an answer the launch will use.
Loading(r)  == gpc[r] \in {"load", "consume", "activate"}
Resuming(r) == gpc[r] = "exec" /\ xpc[r] = "resuming"
Acting(r)   == /\ gpc[r] = "exec"
               /\ xpc[r] \in {"running", "saving", "proposed", "ok", "scheduled", "paused"}

\* A run that may start, resume or act has sent nothing of a schedule; whoever
\* brings the counter of a schedule to zero is alone to complete the run.
SendOK(r) ==
    /\ Startable(r) => Unsent(r)
    /\ gpc[r] \in {"exec", "save", "pause"} => ~Startable(r)
    /\ (Loading(r) \/ Resuming(r)) /\ Clean(r) => Unsent(r)
    /\ Acting(r) \/ gpc[r] \in {"save", "pause", "reply", "complete"} => Unsent(r)
    /\ left[r] = jobs[r] + Len(plan[r])
    /\ Completions(r) <= 1
    /\ spc = r \/ Completions(r) = 1 \/ gpc[r] = "mark" => left[r] = 0
    /\ spc = r \/ gpc[r] = "mark" => Completions(r) = 0
    /\ gpc[r] = "mark" => spc # r

\* A paused run has the checkpoint of the proposal it waits for; an unmarked run is
\* resumed with the resolution of that proposal.
CkptOK(r) ==
    /\ rows[r].st = "none" => ckpt[r] = None
    /\ Resumable(r) => ckpt[r] = rows[r].blocked /\ ckpt[r] # None
    /\ gpc[r] = "load" /\ Clean(r) => ckpt[r] = mem[r].blocked
    /\ (gpc[r] \in {"consume", "activate"} \/ Resuming(r)) /\ Clean(r) =>
          ckpt[r] = inbox[gitem[r]].prop
    /\ gpc[r] = "exec" => inbox[gitem[r]].st = "consumed"
    /\ gpc[r] \in {"save", "pause"} => mem[r].blocked = xprop[r] /\ xprop[r] # None
    /\ gpc[r] = "pause" => ckpt[r] = xprop[r]
    /\ xpc[r] \in {"saving", "proposed", "paused"} => xprop[r] # None

\* The same for the run the loop is about to launch.
LoopOK ==
    /\ FreshDispatch =>
          /\ ~Startable(lrun) /\ Unsent(lrun)
          /\ ckpt[lrun] = None /\ mem[lrun].blocked = None
    /\ \A r \in Runs : LoopHas(r) /\ Clean(r) => Unsent(r) /\ ckpt[r] = mem[r].blocked

RunsOK == \A r \in Runs : SendOK(r) /\ CkptOK(r)

\* Labels at which a launch makes no use of the run's checkpoint or schedule.
Unclaimed == {"none", "drain", "fail", "cancelled", "deliver", "emit", "exit"}

\* A step that leaves what SendOK and CkptOK say of r as it is, or gives it up.
Quiet(r) ==
    /\ \/ rows'[r] = rows[r]
       \/ ~Startable(r)' /\ (cancel.pc = "idle" => rows'[r].st # "waiting_for_proposal")
    /\ \/ gpc'[r] \in Unclaimed
       \/ /\ gpc'[r] = gpc[r] /\ gitem'[r] = gitem[r] /\ xpc'[r] = xpc[r]
          /\ mem'[r].blocked = mem[r].blocked /\ (Clean(r)' => Clean(r))
          /\ cancels' = cancels => (Clean(r) => Clean(r)')
    /\ xprop'[r] = xprop[r]
    /\ xpc'[r] = xpc[r] \/ xpc'[r] \notin {"saving", "proposed", "paused"}
    /\ ckpt'[r] = ckpt[r]
    /\ jobs'[r] = jobs[r] /\ plan'[r] = plan[r] /\ left'[r] = left[r]
    /\ (spc' = r) <=> (spc = r)
    /\ Completions(r)' = Completions(r)

\* Rows that are there keep their proposal, and consumed ones stay consumed.
PropsKept ==
    \A j \in Items : inbox[j].st # "none" =>
        /\ inbox'[j].prop = inbox[j].prop
        /\ inbox[j].st = "consumed" => inbox'[j].st = "consumed"

\* Every change of the inbox does so.
LEMMA PropsAreKept == InboxStep => PropsKept
<1> SUFFICES ASSUME InboxStep, NEW j \in Items, inbox[j].st # "none"
             PROVE  /\ inbox'[j].prop = inbox[j].prop
                    /\ inbox[j].st = "consumed" => inbox'[j].st = "consumed"
  BY DEF PropsKept
<1>1. CASE RowsMove
  BY <1>1 DEF RowsMove
<1>2. ASSUME NEW i \in Items, inbox[i].st = "none", RowComes(i) PROVE inbox'[j] = inbox[j]
  BY <1>2 DEF RowComes
<1>3. ASSUME NEW i \in Items, NEW t \in Items, inbox[i].st = "none", RowMerges(i, t)
      PROVE  /\ inbox'[j].prop = inbox[j].prop
             /\ inbox[j].st = "consumed" => inbox'[j].st = "consumed"
  BY <1>3 DEF RowMerges
<1> QED BY <1>1, <1>2, <1>3 DEF InboxStep

\* The item of a launch is in the inbox.
LEMMA LaunchItem ==
    ASSUME TurnInv, PropsKept, NEW r \in Runs, CkptOK(r),
           gpc[r] \in {"load", "consume", "activate", "exec"}
    PROVE  /\ inbox'[gitem[r]].prop = inbox[gitem[r]].prop
           /\ inbox[gitem[r]].st = "consumed" => inbox'[gitem[r]].st = "consumed"
<1>1. gitem[r] \in Items /\ inbox[gitem[r]].st # "none"
  BY DEF TurnInv, LaunchInv, Untouched, CkptOK
<1> QED BY <1>1 DEF PropsKept

\* A quiet step keeps a run in order.
LEMMA QuietOK ==
    ASSUME TurnInv, PropsKept, NEW r \in Runs, SendOK(r), CkptOK(r), Quiet(r)
    PROVE  SendOK(r)' /\ CkptOK(r)'
<1>1. Unsent(r)' <=> Unsent(r)
  BY DEF Quiet, Unsent
<1>2. Startable(r)' => Startable(r) /\ rows'[r] = rows[r]
  BY DEF Quiet, Startable, Resumable
<1>3. SendOK(r)'
  <2>1. CASE gpc'[r] \in Unclaimed
    BY <1>1, <1>2, <2>1 DEF SendOK, Quiet, Loading, Resuming, Acting, Unclaimed, Completions
  <2>2. CASE gpc'[r] = gpc[r] /\ xpc'[r] = xpc[r] /\ (Clean(r)' => Clean(r))
    BY <1>1, <1>2, <2>2 DEF SendOK, Quiet, Loading, Resuming, Acting, Completions
  <2> QED BY <2>1, <2>2 DEF Quiet
<1>4. CkptOK(r)'
  <2>1. CASE gpc'[r] \in Unclaimed
    BY <1>2, <2>1 DEF CkptOK, Quiet, Resuming, Unclaimed, Startable, Resumable
  <2>2. CASE /\ gpc'[r] = gpc[r] /\ gitem'[r] = gitem[r] /\ xpc'[r] = xpc[r]
             /\ mem'[r].blocked = mem[r].blocked /\ (Clean(r)' => Clean(r))
    <3>1. gpc[r] \in {"load", "consume", "activate", "exec"} =>
             /\ inbox'[gitem'[r]].prop = inbox[gitem[r]].prop
             /\ inbox[gitem[r]].st = "consumed" => inbox'[gitem'[r]].st = "consumed"
      BY <2>2, LaunchItem
    <3> QED BY <1>2, <2>2, <3>1 DEF CkptOK, Quiet, Resuming, Startable, Resumable
  <2> QED BY <2>1, <2>2 DEF Quiet
<1> QED BY <1>3, <1>4

\* The operations on run r that move it on.
Moves(r) ==
    \/ Launch /\ lrun = r
    \/ LoadCheckpoint(r) \/ ConsumeResume(r) \/ Activate(r) \/ AwaitResult(r) \/ SavePause(r)
    \/ PersistPause(r) \/ Reply(r) \/ Complete(r) \/ Deliver(r) \/ MarkDelivered(r)
    \/ ExecutorStep(r) \/ FireJob(r) \/ (CompleteJob /\ spc = r) \/ Crash

\* A step that does not touch a run is quiet for it.
LEMMA SameIsQuiet ==
    ASSUME NEW r \in Runs,
           rows'[r] = rows[r], mem'[r] = mem[r], ckpt'[r] = ckpt[r],
           gpc'[r] = gpc[r], gitem'[r] = gitem[r], xpc'[r] = xpc[r], xprop'[r] = xprop[r],
           jobs'[r] = jobs[r], plan'[r] = plan[r], left'[r] = left[r],
           (spc' = r) <=> (spc = r), events'[r] = events[r]
    PROVE  Quiet(r)
BY DEF Quiet, Clean, Completions

\* run.failed and run.cancelled are not completions.
LEMMA EndEvents ==
    ASSUME TypeOK, NEW r \in Runs, NEW ctxDone, EmitEnd(r, ctxDone)
    PROVE  \A q \in Runs : Completions(q)' = Completions(q)
<1>t. events \in [Runs -> [TerminalEvent -> Nat]]
  BY DEF TypeOK, StoreTypeOK
<1>1. CASE events' = events
  BY <1>1 DEF Completions
<1>2. ASSUME NEW e \in {"run.failed", "run.cancelled"}, AppendRuntimeEvent(r, e)
      PROVE  \A q \in Runs : Completions(q)' = Completions(q)
  <2>1. \A q \in Runs : q # r => events'[q] = events[q]
    BY <1>t, <1>2 DEF AppendRuntimeEvent
  <2>2. events'[r] = [events[r] EXCEPT ![e] = @ + 1]
    BY <1>t, <1>2 DEF AppendRuntimeEvent
  <2>3. events'[r]["run.completed"] = events[r]["run.completed"]
    BY <1>t, <1>2, <2>2 DEF TerminalEvent
  <2> QED BY <2>1, <2>3 DEF Completions
<1> QED BY <1>1, <1>2 DEF EmitEnd

\* Every other step is quiet for r.
LEMMA QuietSteps ==
    ASSUME TypeOK, TurnInv, TextInv, [Next]_vars, NEW q \in Runs, ~Moves(q) PROVE Quiet(q)
<1>t. /\ mem \in [Runs -> RunRec] /\ rows \in [Runs -> RunRec]
      /\ ckpt \in [Runs -> Proposals \cup {None}]
      /\ gpc \in [Runs -> LaunchPC] /\ gitem \in [Runs -> Items \cup {None}]
      /\ xpc \in [Runs -> ExecPC] /\ xprop \in [Runs -> Proposals \cup {None}]
      /\ jobs \in [Runs -> Nat] /\ plan \in [Runs -> Seq({"now", "later"})] /\ left \in [Runs -> Int]
      /\ events \in [Runs -> [TerminalEvent -> Nat]]
      /\ running \in Runs \cup {None} /\ cancel \in CancelRec /\ spc \in Runs \cup {None}
      /\ None \notin Runs
  BY NoneAssumption DEF TypeOK, StoreTypeOK
<1>c. cancel.pc # "idle" => cancel.run \in Runs /\ cancel \in ActiveCancel
  BY <1>t DEF CancelRec, ActiveCancel, IdleCancel
<1>g. running = None => gpc[q] = "none"
  BY <1>t DEF TurnInv, SingleFlight
<1>0. CASE UNCHANGED <<rows, mem, ckpt, gpc, gitem, xpc, xprop, jobs, plan, left, spc, events>>
  BY <1>0, SameIsQuiet
<1>1. CASE Intake
  BY <1>0, <1>1 DEF Intake, BeginSubmit, SubmitSignal, ClassifySubmit, FinishSubmit, storeVars,
                    launchVars, execVars, deliverVars
<1>2. CASE Resolution
  <2>1. UNCHANGED <<rows, mem, ckpt, gpc, gitem, xpc, xprop, jobs, plan, left, spc, events>>
    BY <1>2 DEF Resolution, ResolveRead, ResolveUpdate, ResolveFails, EnqueueCheck, EnqueueInsert,
                storeVars, launchVars, execVars, deliverVars
  <2> QED BY <1>0, <2>1
<1>3. ASSUME NEW p \in Proposals, Expire(p) PROVE Quiet(q)
  BY <1>0, <1>3 DEF Expire, launchVars, execVars, deliverVars
<1>4. CASE ListItems \/ Promote \/ GiveUp \/ ConsumeItem
  <2>1. UNCHANGED <<rows, mem, ckpt, gpc, gitem, xpc, xprop, jobs, plan, left, spc, events>>
    BY <1>4 DEF ListItems, Promote, GiveUp, ConsumeItem, storeVars, launchVars, execVars,
                deliverVars
  <2> QED BY <1>0, <2>1
<1>5. CASE Drain \/ DrainReturns \/ CancelRead \/ CancelSignal \/ UNCHANGED vars
  <2>1. UNCHANGED <<rows, mem, ckpt, gpc, gitem, xpc, xprop, jobs, plan, left, spc, events>>
    BY <1>5 DEF Drain, DrainReturns, CancelRead, CancelSignal, vars, storeVars, launchVars,
                execVars, deliverVars
  <2> QED BY <1>0, <2>1
<1>6. CASE EmitAbort
  <2>1. UNCHANGED <<rows, mem, ckpt, gpc, gitem, xpc, xprop, jobs, plan, left, spc>>
    BY <1>6 DEF EmitAbort, launchVars, execVars, deliverVars
  <2>2. Completions(q)' = Completions(q)
    <3>1. lrun \in Runs /\ EmitEnd(lrun, FALSE)
      BY <1>6 DEF EmitAbort, TurnInv, LoopInv
    <3> QED BY <3>1, EndEvents
  <2> QED BY <2>1, <2>2 DEF Quiet, Clean
<1>7. CASE Boot
  <2>1. UNCHANGED <<mem, ckpt, gpc, gitem, xpc, xprop, jobs, plan, left, spc, events>>
    BY <1>7 DEF Boot, launchVars, execVars, deliverVars
  <2>2. rows'[q] = rows[q] \/ rows'[q] = Interrupt(SetStatus(rows[q], "failed"), "system")
    BY <1>7 DEF Boot
  <2>3. rows'[q] = rows[q] \/ rows'[q].st = "failed"
    <3>1. SetStatus(rows[q], "failed") \in RunRec /\ SetStatus(rows[q], "failed").st = "failed"
      BY <1>t, SetStatusType, RecFacts DEF RunStatus
    <3>2. Interrupt(SetStatus(rows[q], "failed"), "system").st = SetStatus(rows[q], "failed").st
      BY <3>1, RecFacts
    <3> QED BY <2>2, <3>1, <3>2
  <2> QED BY <2>1, <2>3 DEF Quiet, Clean, Completions, Startable, Resumable
<1>8. CASE Poll
  <2>1. UNCHANGED <<rows, ckpt, gpc, gitem, xpc, xprop, jobs, plan, left, spc, events>>
    BY <1>8 DEF Poll, storeVars, launchVars, execVars, deliverVars
  <2>2. gpc[q] = "none"
    BY <1>8, <1>g DEF Poll
  <2> QED BY <2>1, <2>2 DEF Quiet, Unclaimed, Completions
<1>9. CASE Create
  <2>1. UNCHANGED <<ckpt, gpc, gitem, xpc, xprop, jobs, plan, left, spc, events>> /\ gpc[q] = "none"
    BY <1>9, <1>g DEF Create, launchVars, execVars, deliverVars, TurnInv, SingleFlight
  <2>2. rows'[q] = rows[q] \/ rows'[q] = NewRun(litem)
    BY <1>9, Created, NotCreated
  <2>3. NewRun(litem).st = "active"
    BY DEF NewRun, NoRun
  <2> QED BY <2>1, <2>2, <2>3 DEF Quiet, Unclaimed, Completions, Startable, Resumable
<1>10. CASE Abort
  <2>1. UNCHANGED <<ckpt, gpc, gitem, xpc, xprop, jobs, plan, left, spc, events>> /\ gpc[q] = "none"
    BY <1>10, <1>g DEF Abort, launchVars, execVars, deliverVars, TurnInv, SingleFlight
  <2>2. rows'[q] = rows[q] \/ (q = lrun /\ rows'[q] = SetStatus(mem[q], "failed"))
    BY <1>10, <1>t DEF Abort, EndRun, UpdateRun
  <2>3. SetStatus(mem[q], "failed").st = "failed"
    BY <1>t, RecFacts
  <2> QED BY <2>1, <2>2, <2>3 DEF Quiet, Unclaimed, Completions, Startable, Resumable
<1>11. CASE Launch
  <2>1. UNCHANGED <<rows, mem, ckpt, jobs, plan, left, spc, events>> /\ q # lrun
    BY <1>11 DEF Launch, storeVars, deliverVars, Moves
  <2>2. gpc'[q] = gpc[q] /\ gitem'[q] = gitem[q] /\ xpc'[q] = xpc[q] /\ xprop'[q] = xprop[q]
    BY <1>11, <1>t, <2>1 DEF Launch, StartExecutor, execVars
  <2> QED BY <2>1, <2>2, SameIsQuiet
<1>12. ASSUME NEW r \in Runs, LoadCheckpoint(r) \/ ConsumeResume(r) \/ SavePause(r) \/ Reply(r)
       PROVE  Quiet(q)
  <2>1. UNCHANGED <<rows, mem, gitem, xpc, xprop, jobs, plan, left, spc, events>> /\ q # r
    BY <1>12 DEF LoadCheckpoint, ConsumeResume, SavePause, Reply, storeVars, execVars, deliverVars,
                 Moves
  <2>2. gpc'[q] = gpc[q] /\ ckpt'[q] = ckpt[q]
    BY <1>12, <1>t, <2>1 DEF LoadCheckpoint, ConsumeResume, SavePause, Reply, Goto, SaveCheckpoint,
                 storeVars
  <2> QED BY <2>1, <2>2, SameIsQuiet
<1>13. ASSUME NEW r \in Runs, Activate(r) \/ AwaitResult(r) \/ PersistPause(r) PROVE Quiet(q)
  <2>1. UNCHANGED <<ckpt, gitem, jobs, spc, events>> /\ q # r
    BY <1>13 DEF Activate, AwaitResult, PersistPause, storeVars, deliverVars, Moves
  <2>2. CASE Activate(r)
    <3>1. /\ rows'[q] = rows[q] /\ mem'[q] = mem[q] /\ gpc'[q] = gpc[q] /\ xpc'[q] = xpc[q]
          /\ xprop'[q] = xprop[q] /\ UNCHANGED <<plan, left>>
      BY <1>t, <2>1, <2>2 DEF Activate, Goto, UpdateRun, StartExecutor, execVars, deliverVars
    <3> QED BY <2>1, <3>1, SameIsQuiet
  <2>3. CASE AwaitResult(r)
    <3>1. /\ UNCHANGED <<rows, xprop>> /\ mem'[q] = mem[q] /\ gpc'[q] = gpc[q] /\ xpc'[q] = xpc[q]
          /\ plan'[q] = plan[q] /\ left'[q] = left[q]
      BY <1>t, <2>1, <2>3 DEF AwaitResult, Goto, storeVars
    <3> QED BY <2>1, <3>1, SameIsQuiet
  <2>4. CASE PersistPause(r)
    <3>1. /\ UNCHANGED <<mem, xpc, xprop, plan, left>> /\ gpc'[q] = gpc[q] /\ rows'[q] = rows[q]
      BY <1>t, <2>1, <2>4 DEF PersistPause, Goto, UpdateRun, execVars, deliverVars
    <3> QED BY <2>1, <3>1, SameIsQuiet
  <2> QED BY <1>13, <2>2, <2>3, <2>4
<1>14. ASSUME NEW r \in Runs, Timeout(r) PROVE Quiet(q)
  <2>1. UNCHANGED <<rows, ckpt, gitem, xpc, xprop, jobs, plan, left, spc, events>>
    BY <1>14 DEF Timeout, storeVars, execVars, deliverVars
  <2>2. \/ q = r /\ gpc'[q] = "drain"
        \/ q # r /\ gpc'[q] = gpc[q] /\ mem'[q] = mem[q]
    BY <1>14, <1>t DEF Timeout, Goto
  <2> QED BY <2>1, <2>2, SameIsQuiet DEF Quiet, Unclaimed, Completions
<1>15. ASSUME NEW r \in Runs, DrainExpired(r) \/ Exit(r) PROVE Quiet(q)
  <2>1. UNCHANGED <<rows, mem, ckpt, gitem, xpc, xprop, jobs, plan, left, spc, events>>
    BY <1>15 DEF DrainExpired, Exit, storeVars, execVars, deliverVars
  <2>2. \/ q = r /\ gpc'[q] \in {"fail", "none"}
        \/ q # r /\ gpc'[q] = gpc[q]
    BY <1>15, <1>t DEF DrainExpired, Exit, Goto
  <2> QED BY <2>1, <2>2, SameIsQuiet DEF Quiet, Unclaimed, Completions
<1>16. ASSUME NEW r \in Runs, FailRun(r) \/ CancelledRun(r) PROVE Quiet(q)
  <2>1. UNCHANGED <<ckpt, gitem, xpc, xprop, jobs, plan, left, spc, events>>
    BY <1>16 DEF FailRun, CancelledRun, execVars, deliverVars
  <2>2. CASE q # r
    <3>1. gpc'[q] = gpc[q] /\ mem'[q] = mem[q] /\ rows'[q] = rows[q]
      BY <1>16, <1>t, <2>2 DEF FailRun, CancelledRun, EndRun, UpdateRun, Goto
    <3> QED BY <2>1, <3>1, SameIsQuiet
  <2>3. CASE q = r
    <3>1. PICK s \in {"failed", "cancelled"} : rows'[q] = rows[q] \/ rows'[q] = SetStatus(mem[q], s)
      BY <1>16, <1>t, <2>3 DEF FailRun, CancelledRun, EndRun, UpdateRun
    <3>2. SetStatus(mem[q], s).st = s
      BY <1>t, RecFacts
    <3>3. gpc'[q] = "emit"
      BY <1>16, <1>t, <2>3 DEF FailRun, CancelledRun, Goto
    <3> QED BY <2>1, <3>1, <3>2, <3>3 DEF Quiet, Unclaimed, Completions, Startable, Resumable
  <2> QED BY <2>2, <2>3
<1>17. ASSUME NEW r \in Runs, EmitEnded(r) PROVE Quiet(q)
  <2>1. UNCHANGED <<rows, mem, ckpt, gitem, xpc, xprop, jobs, plan, left, spc>>
    BY <1>17 DEF EmitEnded, execVars, deliverVars
  <2>2. gpc'[q] = gpc[q] \/ gpc'[q] = "exit"
    BY <1>17, <1>t DEF EmitEnded, Goto
  <2>3. Completions(q)' = Completions(q)
    BY <1>17, EndEvents DEF EmitEnded
  <2> QED BY <2>1, <2>2, <2>3 DEF Quiet, Unclaimed, Clean
<1>18. ASSUME NEW r \in Runs, Complete(r) \/ MarkDelivered(r) PROVE Quiet(q)
  <2>1. UNCHANGED <<ckpt, gitem, xpc, xprop, jobs, plan, left, spc>> /\ q # r
    BY <1>18 DEF Complete, MarkDelivered, execVars, deliverVars, Moves
  <2>2. gpc'[q] = gpc[q] /\ mem'[q] = mem[q] /\ rows'[q] = rows[q] /\ events'[q] = events[q]
    BY <1>18, <1>t, <2>1 DEF Complete, MarkDelivered, Goto, Completion, MarkRunCompleted,
                             AppendRuntimeEvent
  <2> QED BY <2>1, <2>2, SameIsQuiet
<1>19. ASSUME NEW r \in Runs, Deliver(r) PROVE Quiet(q)
  <2>1. UNCHANGED <<rows, mem, ckpt, gitem, xpc, xprop, spc, events>> /\ q # r
    BY <1>19 DEF Deliver, execVars, Moves
  <2>2. gpc'[q] = gpc[q] /\ jobs'[q] = jobs[q] /\ plan'[q] = plan[q] /\ left'[q] = left[q]
    BY <1>19, <1>t, <2>1 DEF Deliver, Goto
  <2> QED BY <2>1, <2>2, SameIsQuiet
<1>20. ASSUME NEW r \in Runs, ExecutorStep(r) PROVE Quiet(q)
  <2>1. UNCHANGED <<rows, mem, ckpt, gpc, gitem, jobs, plan, left, spc, events>> /\ q # r
    BY <1>20 DEF ExecutorStep, Replay, Propose, SavePropose, Return, storeVars, launchVars,
                 deliverVars, Moves
  <2>2. xpc'[q] = xpc[q] /\ xprop'[q] = xprop[q]
    BY <1>20, <1>t, <2>1 DEF ExecutorStep, Replay, Propose, SavePropose, Return
  <2> QED BY <2>1, <2>2, SameIsQuiet
<1>21. ASSUME NEW r \in Runs, FireJob(r) PROVE Quiet(q)
  <2>1. UNCHANGED <<rows, mem, ckpt, gpc, gitem, xpc, xprop, plan, events>> /\ q # r
    BY <1>21 DEF FireJob, launchVars, execVars, Moves
  <2>2. jobs'[q] = jobs[q] /\ left'[q] = left[q] /\ spc # q /\ spc' # q
    BY <1>21, <1>t, <2>1 DEF FireJob
  <2> QED BY <2>1, <2>2, SameIsQuiet
<1>22. CASE CompleteJob
  <2>1. UNCHANGED <<ckpt, gpc, gitem, xpc, xprop, jobs, plan, left>> /\ q # spc /\ spc' = None
    BY <1>22 DEF CompleteJob, launchVars, execVars, Moves
  <2>2. mem'[q] = mem[q] /\ rows'[q] = rows[q] /\ events'[q] = events[q]
    BY <1>22, <1>t, <2>1 DEF CompleteJob, Completion, MarkRunCompleted, AppendRuntimeEvent
  <2> QED BY <1>t, <2>1, <2>2, SameIsQuiet
<1>23. CASE CancelMark
  <2>1. UNCHANGED <<rows, ckpt, gpc, gitem, xpc, xprop, jobs, plan, left, spc, events>>
    BY <1>23 DEF CancelMark, storeVars, launchVars, execVars, deliverVars
  <2>2. mem'[q] = mem[q] \/ mem'[q] = Interrupt(mem[q], "user_cancel")
    BY <1>23, <1>t DEF CancelMark
  <2>3. /\ Interrupt(mem[q], "user_cancel").intr # "none"
        /\ Interrupt(mem[q], "user_cancel").blocked = mem[q].blocked
    BY <1>t, RecFacts
  <2>4. cancels' # cancels
    BY <1>23 DEF CancelMark, TypeOK
  <2> QED BY <2>1, <2>2, <2>3, <2>4 DEF Quiet, Clean, Completions
<1>24. CASE CancelWrite
  <2>1. UNCHANGED <<mem, ckpt, gpc, gitem, xpc, xprop, jobs, plan, left, spc, events>>
    BY <1>24 DEF CancelWrite, launchVars, execVars, deliverVars
  <2>2. rows'[q] = rows[q] \/ rows'[q] = cancel.rec
    BY <1>24, <1>t DEF CancelWrite, UpdateRun
  <2>3. cancel.rec.st # "none" /\ cancel.rec.intr # "none" /\ cancel.pc # "idle"
    BY <1>24 DEF CancelWrite, TextInv, RunsKnown
  <2> QED BY <2>1, <2>2, <2>3 DEF Quiet, Clean, Completions, Startable, Resumable
<1> QED BY <1>1, <1>2, <1>3, <1>4, <1>5, <1>6, <1>7, <1>8, <1>9, <1>10, <1>11, <1>12, <1>13, <1>14,
           <1>15, <1>16, <1>17, <1>18, <1>19, <1>20, <1>21, <1>22, <1>23, <1>24
        DEF Next, Loop, LaunchStep, SchedulerStep, CancelStep, Moves

\* A run that moves on at a label that claims nothing, with its sending untouched.
LEMMA Unclaims ==
    ASSUME NEW r \in Runs, gpc'[r] \in Unclaimed, rows'[r] = rows[r],
           xprop'[r] = xprop[r], xpc'[r] = xpc[r] \/ xpc'[r] \notin {"saving", "proposed", "paused"},
           ckpt'[r] = ckpt[r], jobs'[r] = jobs[r], plan'[r] = plan[r], left'[r] = left[r],
           spc' = spc, Completions(r)' = Completions(r)
    PROVE  Quiet(r)
BY DEF Quiet

\* Completing a run that nobody else completes.
LEMMA CompletesOnce ==
    ASSUME TypeOK, NEW r \in Runs, SendOK(r), CkptOK(r), left[r] = 0, Completions(r) = 0,
           Completion(r, TRUE), gpc'[r] \in Unclaimed \/ UNCHANGED <<gpc, gitem, xpc, inbox>>,
           spc' # r, UNCHANGED <<ckpt, xpc, xprop, jobs, plan, left>>,
           gpc[r] \notin {"save", "pause", "reply", "mark"} \/ gpc'[r] \in Unclaimed,
           gpc[r] # "complete" \/ gpc'[r] \in Unclaimed,
           (Clean(r) /\ (Loading(r) \/ Resuming(r))) \/ Acting(r) => gpc'[r] \in Unclaimed
    PROVE  SendOK(r)' /\ CkptOK(r)'
<1>t. /\ mem \in [Runs -> RunRec] /\ rows \in [Runs -> RunRec]
      /\ events \in [Runs -> [TerminalEvent -> Nat]]
  BY DEF TypeOK, StoreTypeOK
<1>1. /\ rows'[r] = SetStatus(rows[r], "completed") /\ mem'[r] = SetStatus(mem[r], "completed")
      /\ events'[r] = [events[r] EXCEPT !["run.completed"] = @ + 1]
  BY <1>t DEF Completion, MarkRunCompleted, AppendRuntimeEvent
<1>2. /\ rows'[r].st = "completed" /\ mem'[r].intr = mem[r].intr /\ mem'[r].blocked = mem[r].blocked
  BY <1>t, <1>1, RecFacts
<1>3. Completions(r)' = 1
  BY <1>t, <1>1 DEF Completions, TerminalEvent
<1>4. SendOK(r)'
  BY <1>2, <1>3 DEF SendOK, Startable, Resumable, Loading, Resuming, Acting, Clean, Unclaimed
<1>5. CkptOK(r)'
  BY <1>2 DEF CkptOK, Resumable, Resuming, Clean, Unclaimed
<1> QED BY <1>4, <1>5

\* Every operation that moves a run on keeps it in order.
LEMMA MovesOK ==
    ASSUME TypeOK, TurnInv, TextInv, PropsKept, RunsOK, LoopOK, NEW r \in Runs, Moves(r)
    PROVE  SendOK(r)' /\ CkptOK(r)'
<1>t. /\ mem \in [Runs -> RunRec] /\ rows \in [Runs -> RunRec]
      /\ ckpt \in [Runs -> Proposals \cup {None}]
      /\ gpc \in [Runs -> LaunchPC] /\ gitem \in [Runs -> Items \cup {None}]
      /\ xpc \in [Runs -> ExecPC] /\ xprop \in [Runs -> Proposals \cup {None}]
      /\ jobs \in [Runs -> Nat] /\ plan \in [Runs -> Seq({"now", "later"})] /\ left \in [Runs -> Int]
      /\ events \in [Runs -> [TerminalEvent -> Nat]]
      /\ running \in Runs \cup {None} /\ spc \in Runs \cup {None}
      /\ None \notin Runs /\ None \notin Proposals
  BY NoneAssumption DEF TypeOK, StoreTypeOK
<1>o. SendOK(r) /\ CkptOK(r)
  BY DEF RunsOK
<1>q. Quiet(r) => SendOK(r)' /\ CkptOK(r)'
  BY <1>o, QuietOK
<1>1. CASE Launch /\ lrun = r
  <2>1. /\ UNCHANGED <<inbox, rows, mem, ckpt, jobs, plan, left, spc, events>>
        /\ lpc = "launch" /\ litem \in Items /\ gitem'[r] = litem
    BY <1>1, <1>t DEF Launch, storeVars, deliverVars, TurnInv, LoopInv, Untouched
  <2>2. Unsent(r)' <=> Unsent(r)
    BY <2>1 DEF Unsent, Completions
  <2>3. CASE inbox[litem].type = "proposal_resolution" /\ gpc'[r] = "load" /\ UNCHANGED <<xpc, xprop>>
    <3>1. Clean(r) => Unsent(r) /\ ckpt[r] = mem[r].blocked
      <4>1. CASE lpaused = None
        BY <1>1, <2>1, <4>1 DEF LoopOK, FreshDispatch
      <4>2. CASE lpaused # None
        <5>1. LoopHas(r)
          BY <1>1, <2>1, <4>2 DEF LoopHas, TextInv, LoopKnown
        <5> QED BY <5>1 DEF LoopOK
      <4> QED BY <4>1, <4>2
    <3>2. SendOK(r)'
      BY <1>o, <2>1, <2>2, <2>3, <3>1 DEF SendOK, Startable, Resumable, Loading, Resuming, Acting,
                                     Clean, Completions
    <3>3. CkptOK(r)'
      BY <1>o, <2>1, <2>3, <3>1 DEF CkptOK, Resumable, Resuming, Clean
    <3> QED BY <3>2, <3>3
  <2>4. CASE /\ inbox[litem].type # "proposal_resolution" /\ gpc'[r] = "exec"
             /\ xpc'[r] = "running"
    <3>1. FreshDispatch
      BY <2>1, <2>4 DEF TextInv, LoopKnown, FreshDispatch
    <3>2. ~Startable(r) /\ Unsent(r)
      BY <1>1, <3>1 DEF LoopOK
    <3>3. inbox[litem].st = "consumed"
      BY <2>1, <2>4 DEF TurnInv, LoopInv, Untouched
    <3>4. SendOK(r)'
      BY <1>o, <2>1, <2>2, <2>4, <3>2 DEF SendOK, Startable, Resumable, Loading, Resuming, Acting,
                                     Clean, Completions
    <3>5. CkptOK(r)'
      BY <1>o, <2>1, <2>4, <3>2, <3>3 DEF CkptOK, Resumable, Startable, Resuming, Clean
    <3> QED BY <3>4, <3>5
  <2> QED BY <1>1, <1>t, <2>3, <2>4 DEF Launch, StartExecutor, execVars
<1>2. CASE LoadCheckpoint(r)
  <2>1. /\ UNCHANGED <<inbox, rows, mem, ckpt, gitem, xpc, xprop, jobs, plan, left, spc, events>>
        /\ gpc[r] = "load"
    BY <1>2 DEF LoadCheckpoint, storeVars, execVars, deliverVars
  <2>2. CASE gpc'[r] = "fail"
    BY <1>q, <2>1, <2>2, Unclaims DEF Unclaimed, Completions
  <2>3. CASE /\ gpc'[r] = "consume" /\ ckpt[r] # None
             /\ mem[r].blocked = None \/ inbox[gitem[r]].prop = mem[r].blocked
    <3>1. SendOK(r)'
      BY <1>o, <2>1, <2>3 DEF SendOK, Startable, Resumable, Unsent, Loading, Resuming, Acting, Clean,
                         Completions
    <3>2. CkptOK(r)'
      BY <1>o, <2>1, <2>3 DEF CkptOK, Resumable, Resuming, Clean
    <3> QED BY <3>1, <3>2
  <2> QED BY <1>2, <1>t, <2>2, <2>3 DEF LoadCheckpoint, Goto
<1>3. CASE ConsumeResume(r)
  <2>1. /\ UNCHANGED <<rows, mem, ckpt, gitem, xpc, xprop, jobs, plan, left, spc, events>>
        /\ gpc[r] = "consume"
    BY <1>3 DEF ConsumeResume, execVars, deliverVars
  <2>2. CASE gpc'[r] = "fail"
    BY <1>q, <2>1, <2>2, Unclaims DEF Unclaimed, Completions
  <2>3. CASE gpc'[r] = "activate"
    <3>1. SendOK(r)'
      BY <1>o, <2>1, <2>3 DEF SendOK, Startable, Resumable, Unsent, Loading, Resuming, Acting, Clean,
                         Completions
    <3>2. inbox'[gitem[r]].prop = inbox[gitem[r]].prop
      BY <1>o, <2>1, LaunchItem
    <3>3. CkptOK(r)'
      BY <1>o, <2>1, <2>3, <3>2 DEF CkptOK, Resumable, Resuming, Clean
    <3> QED BY <3>1, <3>3
  <2> QED BY <1>3, <1>t, <2>2, <2>3 DEF ConsumeResume, Goto
<1>4. CASE Activate(r)
  <2>1. UNCHANGED <<inbox, ckpt, gitem, jobs, plan, left, spc, events>> /\ gpc[r] = "activate"
    BY <1>4 DEF Activate, deliverVars
  <2>2. CASE gpc'[r] = "fail" /\ UNCHANGED <<rows, xpc, xprop>>
    BY <1>q, <2>1, <2>2, Unclaims DEF Unclaimed, Completions
  <2>3. CASE /\ gpc'[r] = "exec" /\ xpc'[r] = "resuming"
             /\ rows'[r] = Resumed(mem[r]) /\ mem'[r] = Resumed(mem[r])
    <3>0. Resumed(mem[r]).st = "active" /\ Resumed(mem[r]).intr = mem[r].intr
      <4>1. mem[r] \in RunRec
        BY <1>t
      <4> QED BY <4>1 DEF Resumed, RunRec
    <3>1. rows'[r].st = "active" /\ mem'[r].intr = mem[r].intr
      BY <2>3, <3>0
    <3>2. inbox[gitem[r]].st = "consumed"
      BY <2>1 DEF TurnInv, LaunchInv, Untouched
    <3>3. SendOK(r)'
      BY <1>o, <2>1, <2>3, <3>1 DEF SendOK, Startable, Resumable, Unsent, Loading, Resuming, Acting,
                               Clean, Completions
    <3>4. CkptOK(r)'
      BY <1>o, <2>1, <2>3, <3>1, <3>2 DEF CkptOK, Resumable, Resuming, Clean
    <3> QED BY <3>3, <3>4
  <2> QED BY <1>4, <1>t, <2>2, <2>3 DEF Activate, Goto, UpdateRun, StartExecutor, execVars
<1>5. CASE AwaitResult(r)
  <2>1. /\ UNCHANGED <<inbox, rows, ckpt, gitem, xprop, jobs, spc, events>>
        /\ gpc[r] \in {"exec", "drain"} /\ xpc'[r] = "none"
        /\ xpc[r] \in {"ok", "scheduled", "paused", "error", "interrupted"}
        /\ gpc'[r] = AfterResult(r, xpc[r], gpc[r] = "drain")
    BY <1>5, <1>t DEF AwaitResult, storeVars, Goto
  <2>2. CASE gpc[r] = "exec" /\ xpc[r] = "paused"
    <3>1. gpc'[r] = "save" /\ UNCHANGED <<plan, left>> /\ mem'[r] = Waiting(mem[r], xprop[r])
      BY <1>5, <1>t, <2>1, <2>2 DEF AwaitResult, AfterResult
    <3>2. mem'[r].blocked = xprop[r]
      BY <1>t, <3>1, RecFacts
    <3>3. SendOK(r)'
      BY <1>o, <2>1, <2>2, <3>1 DEF SendOK, Startable, Resumable, Unsent, Loading, Resuming, Acting,
                               Completions
    <3>4. CkptOK(r)'
      BY <1>o, <2>1, <2>2, <3>1, <3>2 DEF CkptOK, Resumable, Resuming
    <3> QED BY <3>3, <3>4
  <2>3. CASE gpc[r] = "exec" /\ xpc[r] = "ok"
    <3>1. gpc'[r] = "reply" /\ UNCHANGED <<plan, left>>
      BY <1>5, <1>t, <2>1, <2>3 DEF AwaitResult, AfterResult
    <3>3. SendOK(r)'
      BY <1>o, <2>1, <2>3, <3>1 DEF SendOK, Startable, Resumable, Unsent, Loading, Resuming, Acting,
                               Completions
    <3>4. CkptOK(r)'
      BY <1>o, <2>1, <2>3, <3>1 DEF CkptOK, Resumable, Resuming
    <3> QED BY <3>3, <3>4
  <2>4. CASE gpc[r] = "exec" /\ xpc[r] = "scheduled"
    <3>1. gpc'[r] = "deliver"
      BY <2>1, <2>4 DEF AfterResult
    <3>2. PICK p \in Plans : plan'[r] = p /\ left'[r] = Len(p)
      BY <1>5, <1>t, <2>4 DEF AwaitResult
    <3>3. Unsent(r) /\ ~Startable(r)
      BY <1>o, <2>4 DEF SendOK, Acting
    <3>4. Completions(r)' = Completions(r) /\ ~Startable(r)'
      BY <2>1, <3>3 DEF Completions, Startable, Resumable
    <3>5. left'[r] = jobs'[r] + Len(plan'[r])
      <4>1. Len(p) \in Nat
        BY EnvironmentAssumption
      <4> QED BY <2>1, <3>2, <3>3, <4>1 DEF Unsent
    <3>6. SendOK(r)'
      BY <1>o, <2>1, <3>1, <3>3, <3>4, <3>5 DEF SendOK, Unsent, Loading, Resuming, Acting
    <3>7. CkptOK(r)'
      BY <1>o, <2>1, <3>1 DEF CkptOK, Resumable, Resuming
    <3> QED BY <3>6, <3>7
  <2>5. CASE gpc[r] = "drain" \/ xpc[r] \in {"error", "interrupted"}
    <3>1. gpc'[r] \in {"fail", "cancelled"}
      BY <2>1, <2>5 DEF AfterResult
    <3>2. UNCHANGED <<plan, left>>
      BY <1>5, <2>5 DEF AwaitResult
    <3> QED BY <1>q, <2>1, <3>1, <3>2, Unclaims DEF Unclaimed, Completions
  <2> QED BY <2>1, <2>2, <2>3, <2>4, <2>5
<1>6. CASE SavePause(r)
  <2>1. /\ UNCHANGED <<inbox, rows, mem, gitem, xpc, xprop, jobs, plan, left, spc, events>>
        /\ gpc[r] = "save"
    BY <1>6 DEF SavePause, execVars, deliverVars
  <2>2. CASE gpc'[r] = "fail" /\ UNCHANGED ckpt
    BY <1>q, <2>1, <2>2, Unclaims DEF Unclaimed, Completions
  <2>3. CASE gpc'[r] = "pause" /\ ckpt'[r] = xprop[r]
    <3>1. SendOK(r)'
      BY <1>o, <2>1, <2>3 DEF SendOK, Startable, Resumable, Unsent, Loading, Resuming, Acting, Clean,
                         Completions
    <3>2. ~Startable(r)
      BY <1>o, <2>1 DEF SendOK
    <3>3. CkptOK(r)'
      BY <1>o, <2>1, <2>3, <3>2 DEF CkptOK, Startable, Resumable, Resuming, Clean
    <3> QED BY <3>1, <3>3
  <2> QED BY <1>6, <1>t, <2>2, <2>3 DEF SavePause, SaveCheckpoint, Goto
<1>7. CASE PersistPause(r)
  <2>1. /\ UNCHANGED <<inbox, mem, ckpt, gitem, xpc, xprop, jobs, plan, left, spc, events>>
        /\ gpc[r] = "pause"
    BY <1>7 DEF PersistPause, execVars, deliverVars
  <2>2. CASE gpc'[r] = "fail" /\ UNCHANGED rows
    BY <1>q, <2>1, <2>2, Unclaims DEF Unclaimed, Completions
  <2>3. CASE gpc'[r] = "exit" /\ rows'[r] = mem[r]
    <3>1. SendOK(r)'
      BY <1>o, <2>1, <2>3 DEF SendOK, Startable, Resumable, Unsent, Loading, Resuming, Acting, Clean,
                         Completions
    <3>2. mem[r].st # "none"
      BY <2>1 DEF TextInv, RunsKnown, Known
    <3>3. CkptOK(r)'
      BY <1>o, <2>1, <2>3, <3>2 DEF CkptOK, Resumable, Resuming, Clean
    <3> QED BY <3>1, <3>3
  <2> QED BY <1>7, <1>t, <2>2, <2>3 DEF PersistPause, UpdateRun, Goto
<1>8. CASE Reply(r)
  <2>1. /\ UNCHANGED <<inbox, rows, mem, ckpt, gitem, xpc, xprop, jobs, plan, left, spc, events>>
        /\ gpc[r] = "reply"
    BY <1>8 DEF Reply, execVars, deliverVars
  <2>2. CASE gpc'[r] = "fail"
    BY <1>q, <2>1, <2>2, Unclaims DEF Unclaimed, Completions
  <2>3. CASE gpc'[r] = "complete"
    <3>1. SendOK(r)'
      BY <1>o, <2>1, <2>3 DEF SendOK, Startable, Resumable, Unsent, Loading, Resuming, Acting, Clean,
                         Completions
    <3>2. CkptOK(r)'
      BY <1>o, <2>1, <2>3 DEF CkptOK, Resumable, Resuming, Clean
    <3> QED BY <3>1, <3>2
  <2> QED BY <1>8, <1>t, <2>2, <2>3 DEF Reply, Goto
<1>9. CASE Complete(r) \/ MarkDelivered(r)
  <2>1. /\ UNCHANGED <<inbox, ckpt, gitem, xpc, xprop, jobs, plan, left, spc>>
        /\ gpc[r] \in {"complete", "mark"} /\ gpc'[r] \in {"exit", "fail"}
    BY <1>9, <1>t DEF Complete, MarkDelivered, execVars, deliverVars, Goto
  <2>2. CASE Completion(r, FALSE)
    <3>1. UNCHANGED <<rows, events>>
      BY <2>2 DEF Completion
    <3> QED BY <1>q, <2>1, <3>1, Unclaims DEF Unclaimed, Completions
  <2>3. CASE Completion(r, TRUE)
    <3>1. left[r] = 0 /\ Completions(r) = 0 /\ spc # r
      BY <1>o, <2>1 DEF SendOK, Unsent
    <3>2. gpc'[r] \in Unclaimed
      BY <2>1 DEF Unclaimed
    <3> QED BY <1>o, <2>1, <2>3, <3>1, <3>2, CompletesOnce
  <2> QED BY <1>9, <2>2, <2>3 DEF Complete, MarkDelivered
<1>10. CASE Deliver(r)
  <2>1. /\ UNCHANGED <<inbox, rows, mem, ckpt, gitem, xpc, xprop, spc, events>>
        /\ gpc[r] = "deliver"
    BY <1>10 DEF Deliver, execVars
  <2>2. CASE gpc'[r] \in {"exit", "fail"} /\ UNCHANGED <<plan, left, jobs>>
    BY <1>q, <2>1, <2>2, Unclaims DEF Unclaimed, Completions
  <2>3. CASE /\ plan[r] # <<>> /\ jobs'[r] = jobs[r] + 1 /\ plan'[r] = Tail(plan[r])
             /\ UNCHANGED <<gpc, left>>
    <3>1. /\ Len(plan[r]) \in Nat /\ Len(plan[r]) # 0 /\ Len(plan'[r]) = Len(plan[r]) - 1
          /\ jobs[r] \in Nat
      BY <1>t, <2>3
    <3>2. left[r] = jobs[r] + Len(plan[r]) /\ left[r] # 0
      BY <1>o, <3>1 DEF SendOK
    <3>3. left'[r] = jobs'[r] + Len(plan'[r])
      BY <2>3, <3>1, <3>2
    <3>4. SendOK(r)'
      BY <1>o, <2>1, <2>3, <3>2, <3>3 DEF SendOK, Startable, Resumable, Unsent, Loading, Resuming,
                                     Acting, Clean, Completions
    <3>5. CkptOK(r)'
      BY <1>o, <2>1, <2>3 DEF CkptOK, Resumable, Resuming, Clean
    <3> QED BY <3>4, <3>5
  <2>4. CASE /\ plan[r] # <<>> /\ left'[r] = left[r] - 1 /\ plan'[r] = Tail(plan[r])
             /\ gpc'[r] = (IF left'[r] = 0 THEN "mark" ELSE "deliver") /\ UNCHANGED jobs
    <3>1. /\ Len(plan[r]) \in Nat /\ Len(plan[r]) # 0 /\ Len(plan'[r]) = Len(plan[r]) - 1
          /\ jobs[r] \in Nat
      BY <1>t, <2>4
    <3>2. left[r] = jobs[r] + Len(plan[r]) /\ left[r] # 0
      BY <1>o, <3>1 DEF SendOK
    <3>3. left'[r] = jobs'[r] + Len(plan'[r])
      BY <2>4, <3>1, <3>2
    <3>4. spc # r /\ Completions(r) = 0 /\ ~Startable(r)
      <4>1. Completions(r) \in Nat
        BY <1>t DEF Completions, TerminalEvent
      <4> QED BY <1>o, <3>2, <4>1 DEF SendOK, Unsent
    <3>5. Completions(r)' = Completions(r) /\ ~Startable(r)'
      BY <2>1, <3>4 DEF Completions, Startable, Resumable
    <3>6. gpc'[r] \in {"mark", "deliver"} /\ (gpc'[r] = "mark" => left'[r] = 0)
      BY <2>4
    <3>7. SendOK(r)'
      BY <1>o, <2>1, <3>3, <3>4, <3>5, <3>6 DEF SendOK, Loading, Resuming, Acting
    <3>8. CkptOK(r)'
      BY <1>o, <2>1, <3>6 DEF CkptOK, Resumable, Resuming, Clean
    <3> QED BY <3>7, <3>8
  <2> QED BY <1>10, <1>t, <2>2, <2>3, <2>4 DEF Deliver, Goto
<1>11. CASE ExecutorStep(r)
  <2>1. UNCHANGED <<inbox, rows, mem, ckpt, gpc, gitem, jobs, plan, left, spc, events>>
    BY <1>11 DEF ExecutorStep, Replay, Propose, SavePropose, Return, storeVars, launchVars,
                 deliverVars
  <2>2. /\ xpc'[r] # "resuming"
        /\ Acting(r)' => Acting(r) \/ (Resuming(r) /\ Clean(r))
        /\ xpc'[r] \in {"saving", "proposed", "paused"} => xprop'[r] # None
        /\ gpc[r] # "exec" => xprop'[r] = xprop[r]
    <3>1. CASE Replay(r)
      BY <1>o, <1>t, <2>1, <3>1 DEF Replay, Acting, Resuming, Clean, Interrupted, ExecCtxDone, CkptOK
    <3>2. ASSUME NEW p \in Proposals, Propose(r, p)
          PROVE  /\ xpc'[r] # "resuming"
                 /\ Acting(r)' => Acting(r) \/ (Resuming(r) /\ Clean(r))
                 /\ xpc'[r] \in {"saving", "proposed", "paused"} => xprop'[r] # None
                 /\ gpc[r] # "exec" => xprop'[r] = xprop[r]
      <4>1. xpc'[r] = "saving" /\ xprop'[r] = p /\ gpc[r] = "exec"
        BY <1>t, <3>2 DEF Propose, ExecCtxDone
      <4>2. xpc[r] = "running" \/ (xpc[r] = "resuming" /\ Clean(r))
        BY <3>2 DEF Propose, Interrupted, Clean
      <4> QED BY <1>t, <4>1, <4>2 DEF Acting, Resuming
    <3>3. CASE SavePropose(r)
      BY <1>o, <1>t, <2>1, <3>3 DEF SavePropose, Acting, CkptOK
    <3>4. CASE Return(r)
      <4>1. PICK res \in {"ok", "scheduled", "paused", "error", "interrupted"} :
               /\ res = "ok" => xpc[r] = "running"
               /\ res = "scheduled" => xpc[r] = "running"
               /\ res = "paused" => xpc[r] = "proposed"
               /\ xpc' = [xpc EXCEPT ![r] = res]
        BY <3>4 DEF Return
      <4>2. xpc'[r] = res /\ xprop' = xprop
        BY <1>t, <3>4, <4>1 DEF Return
      <4> QED BY <1>o, <2>1, <4>1, <4>2 DEF Acting, CkptOK
    <3> QED BY <1>11, <3>1, <3>2, <3>3, <3>4 DEF ExecutorStep
  <2>3. Unsent(r)' <=> Unsent(r)
    BY <2>1 DEF Unsent, Completions
  <2>4. SendOK(r)'
    BY <1>o, <2>1, <2>2, <2>3 DEF SendOK, Startable, Resumable, Loading, Resuming, Clean, Completions
  <2>5. CkptOK(r)'
    BY <1>o, <2>1, <2>2 DEF CkptOK, Resumable, Resuming, Clean
  <2> QED BY <2>4, <2>5
<1>12. CASE FireJob(r)
  <2>1. /\ UNCHANGED <<inbox, rows, mem, ckpt, gpc, gitem, xpc, xprop, plan, events>>
        /\ jobs[r] > 0 /\ jobs'[r] = jobs[r] - 1 /\ left'[r] = left[r] - 1 /\ spc # r
        /\ spc' = IF left'[r] = 0 THEN r ELSE None
    BY <1>12, <1>t DEF FireJob, launchVars, execVars
  <2>2. left[r] = jobs[r] + Len(plan[r]) /\ left[r] # 0 /\ left'[r] = jobs'[r] + Len(plan'[r])
    <3>1. Len(plan[r]) \in Nat /\ jobs[r] \in Nat
      BY <1>t
    <3> QED BY <1>o, <2>1, <3>1 DEF SendOK
  <2>3. Completions(r)' = Completions(r) /\ Completions(r) = 0 /\ gpc[r] # "mark" /\ ~Unsent(r)
    <3>1. Completions(r) \in Nat
      BY <1>t DEF Completions, TerminalEvent
    <3> QED BY <1>o, <2>1, <2>2, <3>1 DEF SendOK, Unsent, Completions
  <2>4. spc' = r => left'[r] = 0
    BY <1>t, <2>1
  <2>5. SendOK(r)'
    BY <1>o, <2>1, <2>2, <2>3, <2>4 DEF SendOK, Startable, Resumable, Loading, Resuming, Acting, Clean
  <2>6. CkptOK(r)'
    BY <1>o, <2>1 DEF CkptOK, Resumable, Resuming, Clean
  <2> QED BY <2>5, <2>6
<1>13. CASE CompleteJob /\ spc = r
  <2>1. UNCHANGED <<inbox, ckpt, gpc, gitem, xpc, xprop, jobs, plan, left>> /\ spc' # r
    BY <1>13, <1>t DEF CompleteJob, launchVars, execVars
  <2>2. left[r] = 0 /\ Completions(r) = 0 /\ ~Unsent(r) /\ gpc[r] # "mark"
    BY <1>o, <1>13 DEF SendOK, Unsent
  <2>3. /\ gpc[r] \notin {"save", "pause", "reply", "complete", "mark"} /\ ~Acting(r) /\ ~Startable(r)
        /\ ~((Loading(r) \/ Resuming(r)) /\ Clean(r))
    BY <1>o, <2>2 DEF SendOK
  <2>4. CASE Completion(r, TRUE)
    BY <1>o, <2>1, <2>2, <2>3, <2>4, CompletesOnce
  <2>5. CASE Completion(r, FALSE)
    <3>1. UNCHANGED <<rows, events>>
      BY <2>5 DEF Completion
    <3>2. mem'[r] = mem[r] \/ mem'[r] = SetStatus(mem[r], "completed")
      BY <1>t, <2>5 DEF Completion
    <3>3. mem'[r].intr = mem[r].intr /\ mem'[r].blocked = mem[r].blocked
      BY <1>t, <3>2, RecFacts
    <3>4. SendOK(r)'
      BY <1>o, <2>1, <2>2, <2>3, <3>1, <3>3 DEF SendOK, Startable, Resumable, Loading, Resuming,
                                                Acting, Clean, Completions
    <3>5. CkptOK(r)'
      BY <1>o, <2>1, <3>1, <3>3 DEF CkptOK, Resumable, Resuming, Clean
    <3> QED BY <3>4, <3>5
  <2> QED BY <1>13, <2>4, <2>5 DEF CompleteJob
<1>14. CASE Crash
  <2>1. /\ UNCHANGED <<inbox, rows, ckpt, events>>
        /\ gpc'[r] = "none" /\ xpc'[r] = "none" /\ spc' # r
        /\ jobs'[r] = 0 /\ plan'[r] = <<>> /\ left'[r] = 0
    BY <1>14, <1>t DEF Crash, storeVars
  <2>2. Len(plan'[r]) = 0
    BY <2>1
  <2>3. SendOK(r)'
    BY <1>o, <2>1, <2>2 DEF SendOK, Startable, Resumable, Unsent, Loading, Resuming, Acting, Completions
  <2>4. CkptOK(r)'
    BY <1>o, <2>1 DEF CkptOK, Resumable, Resuming
  <2> QED BY <2>3, <2>4
<1> QED BY <1>1, <1>2, <1>3, <1>4, <1>5, <1>6, <1>7, <1>8, <1>9, <1>10, <1>11, <1>12, <1>13, <1>14
        DEF Moves

\* Every run stays in order.
LEMMA RunsOKStep ==
    TypeOK /\ TurnInv /\ TextInv /\ RunsOK /\ LoopOK /\ [Next]_vars => RunsOK'
<1> SUFFICES ASSUME TypeOK, TurnInv, TextInv, RunsOK, LoopOK, [Next]_vars, NEW r \in Runs
             PROVE  SendOK(r)' /\ CkptOK(r)'
  BY DEF RunsOK
<1>1. PropsKept
  BY InboxSteps, PropsAreKept DEF TextInv
<1>2. CASE Moves(r)
  BY <1>1, <1>2, MovesOK
<1>3. CASE ~Moves(r)
  <2>1. Quiet(r)
    BY <1>3, QuietSteps
  <2> QED BY <1>1, <2>1, QuietOK DEF RunsOK
<1> QED BY <1>2, <1>3

\* What a goroutine other than the loop does while the loop dispatches: no launch
\* is under way.
LEMMA Meanwhile ==
    ASSUME TypeOK, TurnInv, [Next]_vars, ~Loop, ~Crash, running = None, NEW q \in Runs
    PROVE  /\ mem'[q].blocked = mem[q].blocked /\ mem'[q].intr = mem[q].intr
           /\ Moves(q) => ExecutorStep(q) \/ FireJob(q) \/ (CompleteJob /\ spc = q)
<1>t. mem \in [Runs -> RunRec] /\ spc \in Runs \cup {None}
  BY DEF TypeOK
<1>g. ASSUME NEW r \in Runs PROVE gpc[r] = "none"
  <2>1. running # r
    BY NoneAssumption
  <2> QED BY <2>1 DEF TurnInv, SingleFlight
<1>0. ASSUME NEW r \in Runs PROVE ~LaunchStep(r) /\ ~Timeout(r)
  <2>1. gpc[r] = "none"
    BY <1>g
  <2>2. ~(LoadCheckpoint(r) \/ ConsumeResume(r) \/ Activate(r) \/ AwaitResult(r))
    BY <2>1 DEF LoadCheckpoint, ConsumeResume, Activate, AwaitResult
  <2>3. ~(DrainExpired(r) \/ FailRun(r) \/ CancelledRun(r) \/ EmitEnded(r) \/ Timeout(r))
    BY <2>1 DEF DrainExpired, FailRun, CancelledRun, EmitEnded, Timeout
  <2>4. ~(SavePause(r) \/ PersistPause(r) \/ Reply(r) \/ Complete(r))
    BY <2>1 DEF SavePause, PersistPause, Reply, Complete
  <2>5. ~(Deliver(r) \/ MarkDelivered(r) \/ Exit(r))
    BY <2>1 DEF Deliver, MarkDelivered, Exit
  <2> QED BY <2>2, <2>3, <2>4, <2>5 DEF LaunchStep
<1>1. CASE CompleteJob
  <2>1. mem'[q] = mem[q] \/ mem'[q] = SetStatus(mem[q], "completed")
    BY <1>1, <1>t DEF CompleteJob, Completion
  <2>2. /\ SetStatus(mem[q], "completed").blocked = mem[q].blocked
        /\ SetStatus(mem[q], "completed").intr = mem[q].intr
    BY <1>t, RecFacts
  <2> QED BY <1>0, <2>1, <2>2 DEF Moves, LaunchStep, Loop
<1>2. CASE ~CompleteJob
  <2>1. ASSUME Intake \/ Resolution PROVE mem' = mem
    BY <2>1 DEF Intake, BeginSubmit, SubmitSignal, ClassifySubmit, FinishSubmit, Resolution,
                ResolveRead, ResolveUpdate, ResolveFails, EnqueueCheck, EnqueueInsert
  <2>2. ASSUME NEW r \in Runs, ExecutorStep(r) \/ FireJob(r) PROVE mem' = mem
    BY <2>2 DEF ExecutorStep, Replay, Propose, SavePropose, Return, FireJob
  <2>3. ASSUME CancelStep \/ Drain \/ DrainReturns \/ UNCHANGED vars PROVE mem' = mem
    BY <2>3 DEF CancelStep, CancelMark, CancelRead, CancelWrite, CancelSignal, Drain, DrainReturns, vars
  <2>4. ASSUME NEW p \in Proposals, Expire(p) PROVE mem' = mem
    BY <2>4 DEF Expire
  <2>5. mem' = mem
    BY <1>0, <1>2, <2>1, <2>2, <2>3, <2>4 DEF Next, SchedulerStep
  <2> QED BY <1>0, <1>2, <2>5 DEF Moves, LaunchStep, Loop
<1> QED BY <1>1, <1>2

\* A run that has sent nothing keeps what the loop knows of it.
LEMMA MeanwhileKept ==
    ASSUME TypeOK, TurnInv, TextInv, RunsOK, [Next]_vars, ~Loop, ~Crash, running = None,
           NEW q \in Runs, Unsent(q)
    PROVE  Unsent(q)' /\ ckpt'[q] = ckpt[q] /\ (Startable(q)' => Startable(q))
<1>1. CASE Moves(q)
  <2>1. ~FireJob(q) /\ ~(CompleteJob /\ spc = q)
    BY DEF Unsent, FireJob
  <2>2. ExecutorStep(q)
    BY <1>1, <2>1, Meanwhile
  <2>3. UNCHANGED <<rows, ckpt, jobs, plan, left, spc, events>>
    BY <2>2 DEF ExecutorStep, Replay, Propose, SavePropose, Return, storeVars, deliverVars
  <2> QED BY <2>3 DEF Unsent, Completions, Startable, Resumable
<1>2. CASE ~Moves(q)
  <2>1. Quiet(q)
    BY <1>2, QuietSteps
  <2> QED BY <2>1 DEF Quiet, Unsent, Startable, Resumable
<1> QED BY <1>1, <1>2

\* LoopOK is preserved by every step.
LEMMA LoopOKStep ==
    TypeOK /\ TurnInv /\ TextInv /\ RunsOK /\ LoopOK /\ [Next]_vars => LoopOK'
<1> SUFFICES ASSUME TypeOK, TurnInv, TextInv, RunsOK, LoopOK, [Next]_vars PROVE LoopOK'
  OBVIOUS
<1>t. /\ mem \in [Runs -> RunRec] /\ rows \in [Runs -> RunRec] /\ None \notin Runs
      /\ lpaused \in Runs \cup {None} /\ lrun \in Runs \cup {None}
  BY NoneAssumption DEF TypeOK, StoreTypeOK
<1>1. CASE lpc' \in {"boot", "idle", "emit", "abort", "create"}
  BY <1>1 DEF LoopOK, FreshDispatch, LoopHas
<1>2. CASE ~Loop /\ ~Crash /\ lpc' \notin {"boot", "idle"}
  <2>1. UNCHANGED loopVars
    BY <1>2, LoopMoves
  <2>2. running = None
    BY <1>2, <2>1 DEF loopVars, TurnInv, SingleFlight
  <2>3. ASSUME FreshDispatch'
        PROVE  ~Startable(lrun)' /\ Unsent(lrun)' /\ ckpt'[lrun'] = None /\ mem'[lrun'].blocked = None
    <3>1. FreshDispatch /\ lrun' = lrun /\ lrun \in Runs
      BY <2>1, <2>3 DEF FreshDispatch, loopVars, TurnInv, LoopInv
    <3>2. ~Startable(lrun) /\ Unsent(lrun) /\ ckpt[lrun] = None /\ mem[lrun].blocked = None
      BY <3>1 DEF LoopOK
    <3>3. PICK q \in Runs : q = lrun
      BY <3>1
    <3>4. Unsent(q)' /\ ckpt'[q] = ckpt[q] /\ ~Startable(q)' /\ mem'[q].blocked = mem[q].blocked
      BY <1>2, <2>2, <3>2, <3>3, MeanwhileKept, Meanwhile
    <3>5. q = lrun'
      BY <3>1, <3>3
    <3>6. Unsent(lrun)' /\ ~Startable(lrun)'
      BY <3>4, <3>5 DEF Unsent, Startable, Resumable, Completions
    <3> QED BY <3>2, <3>3, <3>4, <3>5, <3>6
  <2>4. ASSUME NEW q \in Runs, LoopHas(q)', Clean(q)' PROVE Unsent(q)' /\ ckpt'[q] = mem'[q].blocked
    <3>1. LoopHas(q)
      BY <2>1, <2>4 DEF LoopHas, loopVars
    <3>2. Clean(q) /\ mem'[q].blocked = mem[q].blocked
      BY <1>2, <2>2, <2>4, Meanwhile DEF Clean
    <3>3. Unsent(q) /\ ckpt[q] = mem[q].blocked
      BY <3>1, <3>2 DEF LoopOK
    <3> QED BY <1>2, <2>2, <3>2, <3>3, MeanwhileKept
  <2> QED BY <2>3, <2>4 DEF LoopOK
<1>3. CASE Poll
  <2>1. lpc' = "list" /\ UNCHANGED <<rows, ckpt, jobs, plan, left, spc, events>>
    BY <1>3 DEF Poll, storeVars, deliverVars
  <2>2. ASSUME NEW q \in Runs, LoopHas(q)', Clean(q)' PROVE Unsent(q)' /\ ckpt'[q] = mem'[q].blocked
    <3>1. q \in PausedRuns /\ mem'[q] = rows[q]
      BY <1>3, <1>t, <2>2 DEF Poll, LoopHas
    <3>2. Resumable(q)
      BY <2>2, <3>1 DEF Resumable, Clean, PausedRuns
    <3>3. Unsent(q) /\ ckpt[q] = rows[q].blocked
      BY <3>2 DEF RunsOK, SendOK, CkptOK, Startable
    <3> QED BY <2>1, <3>1, <3>3 DEF Unsent, Completions
  <2> QED BY <2>1, <2>2 DEF LoopOK, FreshDispatch
<1>4. CASE ListItems \/ Promote
  <2>1. UNCHANGED <<lpaused, mem, ckpt, jobs, plan, left, spc, events>>
    BY <1>4 DEF ListItems, Promote, storeVars, deliverVars
  <2>2. /\ lpc \in {"list", "relist", "promote"}
        /\ lpc' = "launch" => lpaused # None
        /\ lpc' # "consume"
    BY <1>4 DEF ListItems, Promote, PickItem
  <2> QED BY <2>1, <2>2 DEF LoopOK, LoopHas, FreshDispatch, Unsent, Completions, Clean
<1>5. CASE Create /\ lpc' # "idle"
  <2>1. /\ lrun' \in Runs /\ lpc' = "consume" /\ rows[lrun'].st = "none"
        /\ mem'[lrun'] = NewRun(litem) /\ rows'[lrun'] = NewRun(litem)
    BY <1>5, Created
  <2>2. UNCHANGED <<ckpt, jobs, plan, left, spc, events>>
    BY <1>5 DEF Create, deliverVars
  <2>3. PICK q \in Runs : q = lrun'
    BY <2>1
  <2>4. Unsent(q) /\ ckpt[q] = None
    BY <2>1, <2>3 DEF RunsOK, SendOK, CkptOK, Startable
  <2>5. NewRun(litem).st = "active" /\ NewRun(litem).blocked = None
    BY DEF NewRun, NoRun
  <2>6. Unsent(lrun)' /\ ~Startable(lrun)' /\ ckpt'[lrun'] = None /\ mem'[lrun'].blocked = None
    BY <2>1, <2>2, <2>3, <2>4, <2>5 DEF Unsent, Startable, Resumable, Completions
  <2> QED BY <2>1, <2>6 DEF LoopOK, LoopHas
<1>6. CASE ConsumeItem
  <2>1. UNCHANGED <<rows, lrun, lpaused, mem, ckpt, jobs, plan, left, spc, events>> /\ lpc = "consume"
    BY <1>6 DEF ConsumeItem, deliverVars
  <2>2. lpaused = None
    BY <2>1 DEF TextInv, LoopKnown
  <2> QED BY <1>t, <2>1, <2>2 DEF LoopOK, LoopHas, FreshDispatch, Unsent, Completions, Startable, Resumable
<1>7. CASE Boot \/ GiveUp \/ Abort \/ EmitAbort \/ Launch \/ Crash
  BY <1>1, <1>7 DEF Boot, GiveUp, Abort, EmitAbort, Launch, Crash
<1> QED BY <1>1, <1>2, <1>3, <1>4, <1>5, <1>6, <1>7 DEF Loop

\* At the start there are no runs.
LEMMA RunsInit == Init => RunsOK /\ LoopOK
<1> SUFFICES ASSUME Init PROVE RunsOK /\ LoopOK
  OBVIOUS
<1>1. ASSUME NEW r \in Runs PROVE SendOK(r) /\ CkptOK(r)
  <2>1. /\ gpc[r] = "none" /\ xpc[r] = "none" /\ ckpt[r] = None /\ rows[r] = NoRun
        /\ jobs[r] = 0 /\ plan[r] = <<>> /\ left[r] = 0 /\ spc # r
    BY NoneAssumption DEF Init, StoreInit
  <2>2. Completions(r) = 0 /\ Len(plan[r]) = 0 /\ rows[r].st = "none"
    BY <2>1 DEF Init, StoreInit, Completions, TerminalEvent, NoRun
  <2>3. SendOK(r)
    BY <2>1, <2>2 DEF SendOK, Unsent, Loading, Resuming, Acting
  <2>4. CkptOK(r)
    BY <2>1, <2>2 DEF CkptOK, Resumable, Resuming
  <2> QED BY <2>3, <2>4
<1>2. LoopOK
  BY DEF Init, LoopOK, FreshDispatch, LoopHas
<1> QED BY <1>1, <1>2 DEF RunsOK

\* Runs are kept in order: what may start or resume has sent nothing, a paused run
\* has its checkpoint, and one goroutine at most is about to complete a run.
THEOREM RunsInvariant == Spec => [](RunsOK /\ LoopOK)
<1>1. Init => RunsOK /\ LoopOK
  BY RunsInit
<1>2. TypeOK /\ TurnInv /\ TextInv /\ (RunsOK /\ LoopOK) /\ [Next]_vars => (RunsOK /\ LoopOK)'
  BY RunsOKStep, LoopOKStep
<1> QED BY <1>1, <1>2, TypeCorrect, TurnInvariant, TextInvariant, PTL DEF Spec

\* run.completed is recorded at most once per run, by the launch or by the scheduler
\* and not by both, and only when no message of the run is still to be sent.
THEOREM CompletedOnce == Spec => []CompletedOnceAtTheEnd
<1>1. TypeOK /\ RunsOK => CompletedOnceAtTheEnd
  <2> SUFFICES ASSUME TypeOK, NEW r \in Runs, SendOK(r)
               PROVE  /\ events[r]["run.completed"] <= 1
                      /\ events[r]["run.completed"] = 1 => jobs[r] = 0 /\ plan[r] = <<>>
    BY DEF RunsOK, CompletedOnceAtTheEnd
  <2>1. jobs[r] \in Nat /\ plan[r] \in Seq({"now", "later"})
    BY DEF TypeOK
  <2>2. Len(plan[r]) \in Nat /\ (Len(plan[r]) = 0 => plan[r] = <<>>)
    BY <2>1
  <2>3. /\ Completions(r) <= 1 /\ left[r] = jobs[r] + Len(plan[r])
        /\ Completions(r) = 1 => left[r] = 0
    BY DEF SendOK
  <2> QED BY <2>1, <2>2, <2>3 DEF Completions
<1> QED BY <1>1, TypeCorrect, RunsInvariant, PTL

-----------------------------------------------------------------------------
(* One execution of a gated tool call per approval                         *)

\* r may still be resumed from its checkpoint, and will then act; r is about to
\* pause for the proposal its executor has saved.
Holds(r) ==
    \/ Resumable(r)
    \/ (LoopHas(r) \/ Loading(r) \/ Resuming(r)) /\ Clean(r)
    \/ gpc[r] = "pause"
Asks(r) == (gpc[r] = "exec" /\ xpc[r] \in {"proposed", "paused"}) \/ gpc[r] = "save"

\* The tool call of p may still be executed by run r.
MayReplay(r, p) == (ckpt[r] = p /\ Holds(r)) \/ (xprop[r] = p /\ Asks(r))

\* No proposal was acted on more often than it was approved, and an approval that may
\* still be acted on is one that was not.
Approved ==
    \A p \in Proposals :
        /\ replays[p] <= approvals[p]
        /\ \A r \in Runs :
              prop[p] = "approved" /\ author[p] = r /\ MayReplay(r, p) => replays[p] < approvals[p]

\* The loop gets hold of a run only when it is paused.
LEMMA LoopHolds ==
    ASSUME TypeOK, TurnInv, TextInv, [Next]_vars, NEW r \in Runs, LoopHas(r)'
    PROVE  \/ r \in PausedRuns /\ mem'[r] = rows[r] /\ xpc' = xpc
           \/ LoopHas(r) /\ mem'[r].intr = mem[r].intr
<1>t. None \notin Runs /\ mem \in [Runs -> RunRec] /\ rows \in [Runs -> RunRec]
  BY NoneAssumption DEF TypeOK, StoreTypeOK
<1>1. CASE Loop
  <2>1. CASE Poll
    BY <1>t, <2>1 DEF Poll, LoopHas, execVars
  <2>2. CASE ListItems \/ Promote \/ ConsumeItem
    <3>1. UNCHANGED <<lpaused, mem>>
      BY <2>2 DEF ListItems, Promote, ConsumeItem
    <3>2. CASE ListItems \/ Promote
      BY <3>1, <3>2 DEF ListItems, Promote, LoopHas
    <3>3. CASE ConsumeItem
      BY <1>t, <3>1, <3>3 DEF ConsumeItem, LoopHas, TextInv, LoopKnown
    <3> QED BY <2>2, <3>2, <3>3
  <2>3. CASE Boot \/ GiveUp \/ Create \/ Abort \/ EmitAbort \/ Launch
    BY <2>3 DEF Boot, GiveUp, Create, Abort, EmitAbort, Launch, LoopHas
  <2> QED BY <1>1, <2>1, <2>2, <2>3 DEF Loop
<1>2. CASE Crash
  BY <1>2 DEF Crash, LoopHas
<1>3. CASE ~Loop /\ ~Crash
  <2>1. LoopHas(r) /\ lpc \notin {"boot", "idle"}
    BY <1>3, LoopMoves DEF LoopHas, loopVars
  <2>2. running = None
    BY <2>1 DEF TurnInv, SingleFlight
  <2> QED BY <1>3, <2>1, <2>2, Meanwhile
<1> QED BY <1>1, <1>2, <1>3

\* While a run has a launch the loop does not hold it.
LEMMA LaunchedIsNotHeld ==
    ASSUME TurnInv, NEW r \in Runs, gpc[r] # "none" PROVE ~LoopHas(r)
<1>1. running = r
  BY DEF TurnInv, SingleFlight
<1>2. lpc \in {"boot", "idle"}
  BY <1>1, NoneAssumption DEF TurnInv, SingleFlight
<1> QED BY <1>2 DEF LoopHas

\* An approval can be acted on only by the run that has it so far: no step but
\* SaveProposal, which makes the proposal pending, makes a tool call possible.
LEMMA MayReplayBefore ==
    ASSUME TypeOK, TurnInv, TextInv, RunsOK, LoopOK, [Next]_vars, NEW r \in Runs,
           NEW p \in Proposals, MayReplay(r, p)', ~SavePropose(r)
    PROVE  MayReplay(r, p)
<1>t. /\ mem \in [Runs -> RunRec] /\ rows \in [Runs -> RunRec]
      /\ ckpt \in [Runs -> Proposals \cup {None}]
      /\ gpc \in [Runs -> LaunchPC] /\ gitem \in [Runs -> Items \cup {None}]
      /\ xpc \in [Runs -> ExecPC] /\ xprop \in [Runs -> Proposals \cup {None}]
      /\ None \notin Runs /\ p # None
  BY NoneAssumption DEF TypeOK, StoreTypeOK
<1>o. SendOK(r) /\ CkptOK(r)
  BY DEF RunsOK
<1>h. LoopHas(r)' /\ Clean(r)' => Resumable(r) \/ (LoopHas(r) /\ Clean(r))
  BY LoopHolds DEF Resumable, Clean, PausedRuns
<1>0. CASE Quiet(r)
  <2>1. Holds(r)' => Holds(r)
    BY <1>0, <1>h DEF Quiet, Holds, Loading, Resuming, Startable, Resumable, Unclaimed
  <2>2. Asks(r)' => Asks(r)
    BY <1>0 DEF Quiet, Asks, Unclaimed
  <2> QED BY <1>0, <2>1, <2>2 DEF Quiet, MayReplay
<1>1. CASE Launch /\ lrun = r
  <2>1. UNCHANGED <<rows, mem, ckpt>> /\ lpc = "launch" /\ lpc' = "idle"
    BY <1>1 DEF Launch, storeVars
  <2>2. CASE gpc'[r] = "load"
    <3>1. MayReplay(r, p)' => ckpt[r] = p /\ (Resumable(r) \/ Clean(r))
      BY <2>1, <2>2 DEF MayReplay, Holds, Asks, Resumable, LoopHas, Loading, Resuming, Clean
    <3>2. lpaused # None
      BY <1>1, <1>t, <2>1, <3>1 DEF LoopOK, FreshDispatch
    <3>3. LoopHas(r)
      BY <1>1, <2>1, <3>2 DEF LoopHas, TextInv, LoopKnown
    <3> QED BY <3>1, <3>3 DEF MayReplay, Holds
  <2>3. CASE gpc'[r] = "exec" /\ xpc'[r] = "running"
    BY <2>1, <2>3 DEF MayReplay, Holds, Asks, Resumable, LoopHas, Loading, Resuming
  <2> QED BY <1>1, <1>t, <2>2, <2>3 DEF Launch, StartExecutor
<1>2. CASE LoadCheckpoint(r) \/ ConsumeResume(r)
  <2>1. UNCHANGED <<rows, mem, ckpt, lpc, lpaused>> /\ gpc[r] \in {"load", "consume"}
    BY <1>2 DEF LoadCheckpoint, ConsumeResume, storeVars, loopVars
  <2>2. gpc'[r] \in {"consume", "activate", "fail"}
    BY <1>2, <1>t DEF LoadCheckpoint, ConsumeResume, Goto
  <2> QED BY <2>1, <2>2 DEF MayReplay, Holds, Asks, Resumable, LoopHas, Loading, Resuming, Clean
<1>3. CASE Activate(r)
  <2>1. UNCHANGED <<ckpt, lpc, lpaused>> /\ gpc[r] = "activate" /\ mem'[r] = Resumed(mem[r])
    BY <1>3, <1>t DEF Activate, loopVars
  <2>2. Resumed(mem[r]).st = "active" /\ Resumed(mem[r]).intr = mem[r].intr
    <3>1. mem[r] \in RunRec
      BY <1>t
    <3> QED BY <3>1 DEF Resumed, RunRec
  <2>3. rows'[r] = rows[r] \/ rows'[r] = Resumed(mem[r])
    BY <1>3, <1>t DEF Activate, UpdateRun
  <2>4. gpc'[r] = "fail" \/ (gpc'[r] = "exec" /\ xpc'[r] = "resuming")
    BY <1>3, <1>t DEF Activate, Goto, StartExecutor
  <2> QED BY <2>1, <2>2, <2>3, <2>4
          DEF MayReplay, Holds, Asks, Resumable, LoopHas, Loading, Resuming, Clean
<1>4. CASE AwaitResult(r)
  <2>1. UNCHANGED <<rows, ckpt, xprop, lpc, lpaused>> /\ gpc[r] # "none"
    BY <1>4 DEF AwaitResult, storeVars, loopVars
  <2>2. gpc'[r] = AfterResult(r, xpc[r], gpc[r] = "drain") /\ ~LoopHas(r)
    BY <1>4, <1>t, <2>1, LaunchedIsNotHeld DEF AwaitResult, Goto
  <2>3. /\ gpc'[r] \in {"fail", "cancelled", "save", "reply", "deliver"}
        /\ gpc'[r] = "save" => gpc[r] = "exec" /\ xpc[r] = "paused"
    BY <1>4, <2>2 DEF AwaitResult, AfterResult
  <2> QED BY <2>1, <2>2, <2>3 DEF MayReplay, Holds, Asks, Resumable, LoopHas, Loading, Resuming
<1>5. CASE SavePause(r)
  <2>1. UNCHANGED <<rows, mem, xpc, xprop, lpc, lpaused>> /\ gpc[r] = "save"
    BY <1>5 DEF SavePause, execVars, loopVars
  <2>2. ~Resumable(r) /\ ~LoopHas(r)
    BY <1>o, <2>1, LaunchedIsNotHeld DEF SendOK, Startable
  <2>3. \/ gpc'[r] = "pause" /\ ckpt'[r] = xprop[r]
        \/ gpc'[r] = "fail"
    BY <1>5, <1>t DEF SavePause, SaveCheckpoint, Goto
  <2> QED BY <2>1, <2>2, <2>3 DEF MayReplay, Holds, Asks, Resumable, LoopHas, Loading, Resuming
<1>6. CASE PersistPause(r)
  <2>1. UNCHANGED <<mem, ckpt, xpc, xprop, lpc, lpaused>> /\ gpc[r] = "pause"
    BY <1>6 DEF PersistPause, execVars, loopVars
  <2>2. gpc'[r] \in {"fail", "exit"}
    BY <1>6, <1>t DEF PersistPause, Goto
  <2> QED BY <2>1, <2>2 DEF MayReplay, Holds, Asks
<1>7. CASE Reply(r) \/ Complete(r) \/ Deliver(r) \/ MarkDelivered(r)
  <2>1. UNCHANGED <<ckpt, lpc, lpaused>> /\ ~LoopHas(r)
    BY <1>7, LaunchedIsNotHeld DEF Reply, Complete, Deliver, MarkDelivered, loopVars
  <2>2. gpc'[r] \in {"complete", "fail", "exit", "deliver", "mark"}
    BY <1>7, <1>t DEF Reply, Complete, Deliver, MarkDelivered, Goto
  <2>3. rows'[r] = rows[r] \/ rows'[r] = SetStatus(rows[r], "completed")
    BY <1>7, <1>t DEF Reply, Complete, Deliver, MarkDelivered, Completion, MarkRunCompleted
  <2>4. SetStatus(rows[r], "completed").st = "completed"
    BY <1>t, RecFacts
  <2> QED BY <2>1, <2>2, <2>3, <2>4
          DEF MayReplay, Holds, Asks, Resumable, LoopHas, Loading, Resuming
<1>8. CASE ExecutorStep(r)
  <2>1. UNCHANGED <<rows, mem, ckpt, gpc, lpc, lpaused>>
    BY <1>8 DEF ExecutorStep, Replay, Propose, SavePropose, Return, storeVars, launchVars, loopVars
  <2>2. xpc'[r] # "resuming"
    BY <1>8, <1>t DEF ExecutorStep, Replay, Propose, SavePropose, Return
  <2>3. xpc'[r] \notin {"proposed", "paused"} \/ (xpc[r] = "proposed" /\ xprop' = xprop)
    BY <1>8, <1>t DEF ExecutorStep, Replay, Propose, Return
  <2>4. gpc[r] = "save" => xprop'[r] = xprop[r]
    BY <1>8, <1>t DEF ExecutorStep, Replay, Propose, Return, ExecCtxDone
  <2> QED BY <2>1, <2>2, <2>3, <2>4
          DEF MayReplay, Holds, Asks, Resumable, LoopHas, Loading, Resuming, Clean
<1>9. CASE FireJob(r)
  <2>1. UNCHANGED <<rows, mem, ckpt, gpc, xpc, xprop, lpc, lpaused>>
    BY <1>9 DEF FireJob, launchVars, execVars, loopVars
  <2> QED BY <2>1 DEF MayReplay, Holds, Asks, Resumable, LoopHas, Loading, Resuming, Clean
<1>10. CASE CompleteJob /\ spc = r
  <2>1. UNCHANGED <<ckpt, gpc, xpc, xprop, lpc, lpaused>>
    BY <1>10 DEF CompleteJob, launchVars, execVars, loopVars
  <2>2. /\ rows'[r] = rows[r] \/ rows'[r] = SetStatus(rows[r], "completed")
        /\ mem'[r] = mem[r] \/ mem'[r] = SetStatus(mem[r], "completed")
    BY <1>10, <1>t DEF CompleteJob, Completion, MarkRunCompleted
  <2>3. /\ SetStatus(rows[r], "completed").st = "completed"
        /\ SetStatus(mem[r], "completed").intr = mem[r].intr
    BY <1>t, RecFacts
  <2> QED BY <2>1, <2>2, <2>3 DEF MayReplay, Holds, Asks, Resumable, LoopHas, Loading, Resuming, Clean
<1>11. CASE Crash
  <2>1. UNCHANGED <<rows, ckpt>> /\ gpc'[r] = "none" /\ lpc' = "boot"
    BY <1>11 DEF Crash, storeVars
  <2> QED BY <2>1 DEF MayReplay, Holds, Asks, Resumable, LoopHas, Loading, Resuming
<1> QED BY <1>0, <1>1, <1>2, <1>3, <1>4, <1>5, <1>6, <1>7, <1>8, <1>9, <1>10, <1>11, QuietSteps DEF Moves

\* The owner's decision, and what an executor does with it.
LEMMA Decisions ==
    ASSUME TypeOK, [Next]_vars, NEW p \in Proposals
    PROVE  /\ \/ approvals'[p] = approvals[p] + 1 /\ replays' = replays
              \/ /\ approvals'[p] = approvals[p]
                 /\ prop'[p] = "approved" => prop[p] = "approved" /\ author'[p] = author[p]
           /\ replays'[p] # replays[p] =>
                 \E r \in Runs : /\ Replay(r)
                                 /\ replays'[p] = replays[p] + 1
                                 /\ inbox[gitem[r]].prop = p
                                 /\ prop[p] = "approved" /\ author[p] = r
<1>t. /\ approvals \in [Proposals -> Nat] /\ replays \in [Proposals -> Nat]
      /\ prop \in [Proposals -> ProposalStatus] /\ author \in [Proposals -> Runs \cup {None}]
      /\ xprop \in [Runs -> Proposals \cup {None}]
  BY DEF TypeOK, StoreTypeOK
<1>0. CASE UNCHANGED <<prop, author, approvals, replays>>
  BY <1>0
<1>1. ASSUME NEW c \in Callers, ResolveUpdate(c)
      PROVE  /\ author' = author /\ replays' = replays
             /\ \/ approvals'[p] = approvals[p] + 1
                \/ approvals'[p] = approvals[p] /\ (prop'[p] = "approved" => prop[p] = "approved")
  <2>1. author' = author /\ replays' = replays
    BY <1>1 DEF ResolveUpdate
  <2>2. CASE call[c].prop = p /\ prop[p] = "pending"
    BY <1>1, <1>t, <2>2 DEF ResolveUpdate, ResolveProposal
  <2>3. CASE ~(call[c].prop = p /\ prop[p] = "pending")
    BY <1>1, <1>t, <2>3 DEF ResolveUpdate, ResolveProposal
  <2> QED BY <2>1, <2>2, <2>3
<1>2. ASSUME NEW q \in Proposals, Expire(q)
      PROVE  /\ UNCHANGED <<author, approvals, replays>>
             /\ prop'[p] = "approved" => prop[p] = "approved"
  BY <1>2, <1>t DEF Expire, ExpireProposal, execVars
<1>3. ASSUME NEW r \in Runs, SavePropose(r)
      PROVE  /\ UNCHANGED <<approvals, replays>>
             /\ prop'[p] = "approved" => prop[p] = "approved" /\ author'[p] = author[p]
  BY <1>3, <1>t DEF SavePropose, SaveProposal
<1>4. ASSUME NEW r \in Runs, Replay(r)
      PROVE  /\ UNCHANGED <<prop, author, approvals>>
             /\ replays'[p] # replays[p] =>
                   /\ replays'[p] = replays[p] + 1 /\ inbox[gitem[r]].prop = p
                   /\ prop[p] = "approved" /\ author[p] = r
  <2>1. UNCHANGED <<prop, author, approvals>>
    BY <1>4 DEF Replay, storeVars
  <2>2. \/ replays' = replays
        \/ /\ prop[inbox[gitem[r]].prop] = "approved" /\ author[inbox[gitem[r]].prop] = r
           /\ replays' = [replays EXCEPT ![inbox[gitem[r]].prop] = @ + 1]
    BY <1>4 DEF Replay
  <2> QED BY <1>t, <2>1, <2>2
<1>5. ASSUME Intake PROVE UNCHANGED <<prop, author, approvals, replays>>
  BY <1>5 DEF Intake, BeginSubmit, SubmitSignal, ClassifySubmit, FinishSubmit, storeVars, execVars
<1>6. ASSUME NEW c \in Callers, ResolveFails(c) \/ EnqueueCheck(c)
                   \/ (\E q \in Proposals, d \in Decision : ResolveRead(c, q, d))
                   \/ (\E i \in Items : EnqueueInsert(c, i))
      PROVE  UNCHANGED <<prop, author, approvals, replays>>
  BY <1>6 DEF ResolveRead, ResolveFails, EnqueueCheck, EnqueueInsert, storeVars, execVars
<1>7. ASSUME Loop PROVE UNCHANGED <<prop, author, approvals, replays>>
  BY <1>7 DEF Loop, Boot, Poll, ListItems, Promote, GiveUp, Create, ConsumeItem, Abort, EmitAbort,
              Launch, StartExecutor, storeVars, execVars
<1>8. ASSUME NEW r \in Runs, LaunchStep(r) \/ Timeout(r) PROVE UNCHANGED <<prop, author, approvals, replays>>
  BY <1>8 DEF LaunchStep, LoadCheckpoint, ConsumeResume, Activate, AwaitResult, DrainExpired,
              FailRun, CancelledRun, EmitEnded, SavePause, PersistPause, Reply, Complete, Deliver,
              MarkDelivered, Exit, Timeout, StartExecutor, storeVars, execVars
<1>9. ASSUME NEW r \in Runs, NEW q \in Proposals, Propose(r, q)
      PROVE UNCHANGED <<prop, author, approvals, replays>>
  BY <1>9 DEF Propose, storeVars
<1>10. ASSUME NEW r \in Runs, Return(r) \/ FireJob(r) PROVE UNCHANGED <<prop, author, approvals, replays>>
  BY <1>10 DEF Return, FireJob, storeVars, execVars
<1>11. CASE CompleteJob \/ CancelStep \/ Drain \/ DrainReturns \/ Crash \/ UNCHANGED vars
  <2>1. UNCHANGED <<prop, author, approvals, replays>>
    BY <1>11 DEF CompleteJob, CancelStep, CancelMark, CancelRead, CancelWrite, CancelSignal, Drain,
                 DrainReturns, Crash, vars, storeVars, execVars
  <2> QED BY <1>0, <2>1
<1> QED BY <1>0, <1>1, <1>2, <1>3, <1>4, <1>5, <1>6, <1>7, <1>8, <1>9, <1>10, <1>11
        DEF Next, Resolution, ExecutorStep, SchedulerStep

\* Approved is preserved by every step.
LEMMA ApprovedStep ==
    TypeOK /\ TurnInv /\ TextInv /\ RunsOK /\ LoopOK /\ Approved /\ [Next]_vars => Approved'
<1> SUFFICES ASSUME TypeOK, TurnInv, TextInv, RunsOK, LoopOK, Approved, [Next]_vars,
                    NEW p \in Proposals
             PROVE  /\ replays'[p] <= approvals'[p]
                    /\ \A r \in Runs : prop'[p] = "approved" /\ author'[p] = r /\ MayReplay(r, p)'
                                           => replays'[p] < approvals'[p]
  BY DEF Approved
<1>t. approvals[p] \in Nat /\ replays[p] \in Nat
  BY DEF TypeOK
<1>o. /\ replays[p] <= approvals[p]
      /\ \A r \in Runs : prop[p] = "approved" /\ author[p] = r /\ MayReplay(r, p) => replays[p] < approvals[p]
  BY DEF Approved
<1>1. CASE approvals'[p] = approvals[p] + 1 /\ replays' = replays
  BY <1>1, <1>t, <1>o
<1>2. CASE /\ approvals'[p] = approvals[p] /\ replays'[p] = replays[p]
           /\ prop'[p] = "approved" => prop[p] = "approved" /\ author'[p] = author[p]
  <2>1. ASSUME NEW r \in Runs, prop'[p] = "approved", author'[p] = r, MayReplay(r, p)'
        PROVE  replays'[p] < approvals'[p]
    <3>1. CASE ~SavePropose(r)
      BY <1>2, <1>o, <2>1, <3>1, MayReplayBefore
    <3>2. CASE SavePropose(r)
      <4>t. /\ prop \in [Proposals -> ProposalStatus] /\ xpc \in [Runs -> ExecPC]
            /\ gpc \in [Runs -> LaunchPC]
        BY DEF TypeOK, StoreTypeOK
      <4>1. UNCHANGED <<rows, mem, ckpt, gpc, xprop, lpc, lpaused>>
        BY <3>2 DEF SavePropose, launchVars, loopVars
      <4>2. \/ xpc'[r] = "running"
            \/ xpc'[r] = "proposed" /\ xprop[r] # p
        BY <2>1, <3>2, <4>t DEF SavePropose, SaveProposal
      <4>3. MayReplay(r, p)
        BY <2>1, <4>1, <4>2 DEF MayReplay, Holds, Asks, Resumable, LoopHas, Loading, Resuming, Clean
      <4> QED BY <1>2, <1>o, <2>1, <4>3
    <3> QED BY <3>1, <3>2
  <2> QED BY <1>2, <1>o, <2>1
<1>3. ASSUME NEW q \in Runs, Replay(q), replays'[p] = replays[p] + 1, inbox[gitem[q]].prop = p,
             prop[p] = "approved", author[p] = q, approvals'[p] = approvals[p],
             prop'[p] = "approved" => author'[p] = author[p]
      PROVE  /\ replays'[p] <= approvals'[p]
             /\ \A r \in Runs : ~(prop'[p] = "approved" /\ author'[p] = r /\ MayReplay(r, p)')
  <2>1. Resuming(q) /\ Clean(q)
    BY <1>3 DEF Replay, Interrupted, ExecCtxDone, Resuming, Clean
  <2>2. ckpt[q] = p
    BY <1>3, <2>1 DEF RunsOK, CkptOK
  <2>3. replays[p] < approvals[p]
    BY <1>3, <1>o, <2>1, <2>2 DEF MayReplay, Holds
  <2>4. ~Resumable(q) /\ ~LoopHas(q) /\ gpc[q] = "exec"
    BY <2>1, LaunchedIsNotHeld DEF RunsOK, SendOK, Startable, Resuming
  <2>5. /\ UNCHANGED <<rows, mem, ckpt, gpc, xprop, lpc, lpaused>>
        /\ xpc'[q] \in {"running", "ok"}
    <3>1. xpc \in [Runs -> ExecPC]
      BY DEF TypeOK
    <3> QED BY <1>3, <3>1 DEF Replay, storeVars, launchVars, loopVars
  <2>6. ~MayReplay(q, p)'
    BY <2>4, <2>5 DEF MayReplay, Holds, Asks, Resumable, LoopHas, Loading, Resuming
  <2> QED BY <1>3, <1>t, <2>3, <2>6
<1> QED BY <1>1, <1>2, <1>3, Decisions

\* Every execution of a gated tool call has an approval of the owner of its own: none
\* follows a decline that raced the approval, an expiry, a duplicate resolution, a
\* crash and a retry, or an approval given to another run, also when a CancelRun
\* wrote back an old row of the run.
THEOREM ReplayedOnce == Spec => []ReplayOncePerApproval
<1>1. Init => Approved
  BY DEF Init, StoreInit, Approved
<1>2. TypeOK /\ TurnInv /\ TextInv /\ (RunsOK /\ LoopOK) /\ Approved /\ [Next]_vars => Approved'
  BY ApprovedStep
<1>3. Approved => ReplayOncePerApproval
  BY DEF Approved, ReplayOncePerApproval
<1> QED BY <1>1, <1>2, <1>3, TypeCorrect, TurnInvariant, TextInvariant, RunsInvariant, PTL DEF Spec

-----------------------------------------------------------------------------
(* Paused and resumed runs of a process nobody called CancelRun on         *)

\* A run that is paused, or on its way to or from a pause, has no mark, and no
\* executor that was left behind; a resumed executor has the resolution of its
\* checkpoint.
Unmarked(r) ==
    /\ rows[r].st = "waiting_for_proposal" => rows[r].intr = "none" /\ xpc[r] = "none"
    /\ rows[r].st = "none" => xpc[r] = "none"
    /\ Loading(r) \/ gpc[r] \in {"exec", "save", "pause"} \/ LoopHas(r) => Clean(r)
    /\ Loading(r) \/ gpc[r] \in {"save", "pause"} \/ LoopHas(r) => xpc[r] = "none"
    /\ xpc[r] = "resuming" =>
          /\ gitem[r] \in Items /\ inbox[gitem[r]].st = "consumed"
          /\ inbox[gitem[r]].prop = ckpt[r]

Uncancelled ==
    /\ cancel.pc = "idle"
    /\ \A r \in Runs : Unmarked(r)
    /\ FreshDispatch => Clean(lrun) /\ xpc[lrun] = "none"

\* Only launches, executors and a crash move the executor of a run.
LEMMA ExecutorMoves ==
    ASSUME TypeOK, TurnInv, [Next]_vars, NEW q \in Runs, ~Moves(q)
    PROVE  xpc'[q] = xpc[q] /\ gitem'[q] = gitem[q]
<1>t. /\ xpc \in [Runs -> ExecPC] /\ gitem \in [Runs -> Items \cup {None}]
  BY DEF TypeOK
<1>1. ASSUME Intake \/ Resolution PROVE UNCHANGED <<xpc, gitem>>
  BY <1>1 DEF Intake, BeginSubmit, SubmitSignal, ClassifySubmit, FinishSubmit, Resolution,
              ResolveRead, ResolveUpdate, ResolveFails, EnqueueCheck, EnqueueInsert, launchVars,
              execVars
<1>2. ASSUME NEW p \in Proposals, Expire(p) PROVE UNCHANGED <<xpc, gitem>>
  BY <1>2 DEF Expire, launchVars, execVars
<1>3. ASSUME Boot \/ Poll \/ ListItems \/ Promote \/ GiveUp \/ Create \/ ConsumeItem \/ Abort \/ EmitAbort
      PROVE  UNCHANGED <<xpc, gitem>>
  BY <1>3 DEF Boot, Poll, ListItems, Promote, GiveUp, Create, ConsumeItem, Abort, EmitAbort,
              launchVars, execVars
<1>4. CASE Launch
  <2>1. q # lrun
    BY <1>4 DEF Moves
  <2> QED BY <1>4, <1>t, <2>1 DEF Launch, StartExecutor, execVars
<1>5. ASSUME NEW r \in Runs, Activate(r) \/ AwaitResult(r) \/ ExecutorStep(r)
      PROVE  xpc'[q] = xpc[q] /\ gitem'[q] = gitem[q]
  <2>1. q # r /\ gitem' = gitem
    BY <1>5 DEF Activate, AwaitResult, ExecutorStep, Replay, Propose, SavePropose, Return,
                launchVars, Moves
  <2> QED BY <1>5, <1>t, <2>1 DEF Activate, AwaitResult, ExecutorStep, Replay, Propose, SavePropose,
                Return, StartExecutor, execVars
<1>6. ASSUME NEW r \in Runs, LaunchStep(r), ~Activate(r), ~AwaitResult(r) PROVE UNCHANGED <<xpc, gitem>>
  BY <1>6 DEF LaunchStep, LoadCheckpoint, ConsumeResume, DrainExpired, FailRun, CancelledRun,
              EmitEnded, SavePause, PersistPause, Reply, Complete, Deliver, MarkDelivered, Exit,
              execVars
<1>7. ASSUME NEW r \in Runs, Timeout(r) \/ FireJob(r) PROVE UNCHANGED <<xpc, gitem>>
  BY <1>7 DEF Timeout, FireJob, launchVars, execVars
<1>8. ASSUME CompleteJob \/ CancelStep \/ Drain \/ DrainReturns \/ UNCHANGED vars
      PROVE  UNCHANGED <<xpc, gitem>>
  BY <1>8 DEF CompleteJob, CancelStep, CancelMark, CancelRead, CancelWrite, CancelSignal, Drain,
              DrainReturns, vars, launchVars, execVars
<1> QED BY <1>1, <1>2, <1>3, <1>4, <1>5, <1>6, <1>7, <1>8 DEF Next, Loop, SchedulerStep, Moves

\* Without a call of CancelRun there is none under way; the calls are only counted up.
LEMMA NoCancel ==
    ASSUME TypeOK, [Next]_vars, cancels' = 0
    PROVE  cancels = 0 /\ (cancel.pc = "idle" => cancel'.pc = "idle")
<1>t. cancels \in Nat /\ cancel \in CancelRec
  BY DEF TypeOK
<1>1. CASE UNCHANGED <<cancel, cancels>>
  BY <1>1
<1>2. ASSUME Intake \/ Resolution PROVE UNCHANGED <<cancel, cancels>>
  BY <1>2 DEF Intake, BeginSubmit, SubmitSignal, ClassifySubmit, FinishSubmit, Resolution,
              ResolveRead, ResolveUpdate, ResolveFails, EnqueueCheck, EnqueueInsert
<1>3. ASSUME NEW p \in Proposals, Expire(p) PROVE UNCHANGED <<cancel, cancels>>
  BY <1>3 DEF Expire, clientVars
<1>4. ASSUME Boot \/ ListItems \/ Promote \/ GiveUp \/ Create \/ ConsumeItem \/ Abort \/ EmitAbort \/ Launch
      PROVE  UNCHANGED <<cancel, cancels>>
  BY <1>4 DEF Boot, ListItems, Promote, GiveUp, Create, ConsumeItem, Abort, EmitAbort, Launch,
              clientVars
<1>5. CASE Poll
  BY <1>5 DEF Poll, CancelKeeps
<1>6. ASSUME NEW r \in Runs, LaunchStep(r), ~Exit(r) PROVE UNCHANGED <<cancel, cancels>>
  BY <1>6 DEF LaunchStep, LoadCheckpoint, ConsumeResume, Activate, AwaitResult, DrainExpired,
              FailRun, CancelledRun, EmitEnded, SavePause, PersistPause, Reply, Complete, Deliver,
              MarkDelivered, clientVars
<1>7. ASSUME NEW r \in Runs, Exit(r) PROVE cancels' = cancels /\ cancel'.pc = cancel.pc
  BY <1>7, <1>t DEF Exit, CancelRec, ActiveCancel, IdleCancel
<1>8. ASSUME NEW r \in Runs, Timeout(r) \/ ExecutorStep(r) \/ FireJob(r) PROVE UNCHANGED <<cancel, cancels>>
  BY <1>8 DEF Timeout, ExecutorStep, Replay, Propose, SavePropose, Return, FireJob, clientVars
<1>9. CASE CancelStep
  BY <1>9, <1>t DEF CancelStep, CancelMark, CancelRead, CancelWrite, CancelSignal, IdleCancel
<1>10. ASSUME CompleteJob \/ Drain \/ DrainReturns \/ UNCHANGED vars PROVE UNCHANGED <<cancel, cancels>>
  BY <1>10 DEF CompleteJob, Drain, DrainReturns, vars, clientVars
<1>11. CASE Crash
  BY <1>11 DEF Crash, IdleCancel
<1> QED BY <1>1, <1>2, <1>3, <1>4, <1>5, <1>6, <1>7, <1>8, <1>9, <1>10, <1>11
        DEF Next, Loop, SchedulerStep

\* The operations on a run keep it unmarked.
LEMMA UnmarkedStep ==
    ASSUME TypeOK, TurnInv, TextInv, RunsOK, LoopOK, Uncancelled, [Next]_vars, cancels' = cancels,
           NEW r \in Runs
    PROVE  Unmarked(r)'
<1>t. /\ mem \in [Runs -> RunRec] /\ rows \in [Runs -> RunRec]
      /\ ckpt \in [Runs -> Proposals \cup {None}]
      /\ gpc \in [Runs -> LaunchPC] /\ gitem \in [Runs -> Items \cup {None}]
      /\ xpc \in [Runs -> ExecPC] /\ None \notin Runs
  BY NoneAssumption DEF TypeOK, StoreTypeOK
<1>o. SendOK(r) /\ CkptOK(r) /\ Unmarked(r) /\ cancel.pc = "idle"
  BY DEF RunsOK, Uncancelled
<1>w. ~Startable(r) => rows[r].st \notin {"none", "waiting_for_proposal"}
  BY <1>o DEF Startable, Resumable, Unmarked
<1>h. LoopHas(r)' => \/ r \in PausedRuns /\ mem'[r] = rows[r] /\ xpc' = xpc
                     \/ LoopHas(r) /\ mem'[r].intr = mem[r].intr
  BY LoopHolds
<1>p. PropsKept
  BY InboxSteps, PropsAreKept DEF TextInv
<1>i. xpc[r] = "resuming" /\ gitem'[r] = gitem[r] /\ ckpt'[r] = ckpt[r] =>
         /\ gitem'[r] \in Items /\ inbox'[gitem'[r]].st = "consumed"
         /\ inbox'[gitem'[r]].prop = ckpt'[r]
  BY <1>o, <1>p DEF Unmarked, PropsKept
<1>0. CASE ~Moves(r)
  <2>1. Quiet(r) /\ xpc'[r] = xpc[r] /\ gitem'[r] = gitem[r]
    BY <1>0, QuietSteps, ExecutorMoves
  <2>2. ckpt'[r] = ckpt[r]
    BY <2>1 DEF Quiet
  <2>3. \/ rows'[r] = rows[r]
        \/ rows'[r].st \notin {"none", "waiting_for_proposal"}
    BY <1>o, <2>1 DEF Quiet, Startable
  <2>4. gpc'[r] \in Unclaimed \/ (gpc'[r] = gpc[r] /\ (Clean(r) => Clean(r)'))
    BY <2>1 DEF Quiet
  <2>5. LoopHas(r)' => Clean(r)' /\ xpc[r] = "none"
    BY <1>h, <1>o DEF Unmarked, Clean, PausedRuns
  <2> QED BY <1>o, <1>i, <2>1, <2>2, <2>3, <2>4, <2>5 DEF Unmarked, Unclaimed, Loading
<1>1. CASE Launch /\ lrun = r
  <2>1. UNCHANGED <<rows, mem>> /\ lpc = "launch" /\ lpc' = "idle"
    BY <1>1 DEF Launch, storeVars
  <2>2. Clean(r) /\ xpc[r] = "none"
    <3>1. CASE lpaused = None
      BY <1>1, <2>1, <3>1 DEF Uncancelled, FreshDispatch
    <3>2. CASE lpaused # None
      BY <1>1, <1>o, <2>1, <3>2 DEF Unmarked, LoopHas, TextInv, LoopKnown
    <3> QED BY <3>1, <3>2
  <2>3. CASE gpc'[r] = "load" /\ xpc' = xpc
    BY <1>o, <2>1, <2>2, <2>3 DEF Unmarked, Loading, LoopHas, Clean
  <2>4. CASE gpc'[r] = "exec" /\ xpc'[r] = "running" /\ inbox[litem].type # "proposal_resolution"
    <3>1. ~Startable(r)
      BY <1>1, <2>1, <2>4 DEF TextInv, LoopKnown, FreshDispatch, LoopOK
    <3> QED BY <1>w, <2>1, <2>2, <2>4, <3>1 DEF Unmarked, Loading, LoopHas, Clean
  <2> QED BY <1>1, <1>t, <2>3, <2>4 DEF Launch, StartExecutor, execVars
<1>2. CASE LoadCheckpoint(r) \/ ConsumeResume(r)
  <2>1. /\ UNCHANGED <<rows, mem, ckpt, gitem, xpc, lpc, lpaused>>
        /\ gpc[r] \in {"load", "consume"}
    BY <1>2 DEF LoadCheckpoint, ConsumeResume, storeVars, execVars, loopVars
  <2>2. gpc'[r] \in {"consume", "activate", "fail"}
    BY <1>2, <1>t DEF LoadCheckpoint, ConsumeResume, Goto
  <2> QED BY <1>o, <1>i, <2>1, <2>2 DEF Unmarked, LoopHas, Loading, Clean
<1>3. CASE Activate(r)
  <2>1. /\ UNCHANGED <<inbox, ckpt, gitem, lpc, lpaused>> /\ gpc[r] = "activate"
        /\ mem'[r] = Resumed(mem[r])
    BY <1>3, <1>t DEF Activate, loopVars
  <2>2. Resumed(mem[r]).st = "active" /\ Resumed(mem[r]).intr = mem[r].intr
    <3>1. mem[r] \in RunRec
      BY <1>t
    <3> QED BY <3>1 DEF Resumed, RunRec
  <2>3. ~LoopHas(r) /\ Clean(r) /\ xpc[r] = "none"
    BY <1>o, <2>1, LaunchedIsNotHeld DEF Unmarked, Loading
  <2>4. gitem[r] \in Items /\ inbox[gitem[r]].st = "consumed" /\ inbox[gitem[r]].prop = ckpt[r]
    BY <1>o, <2>1, <2>3 DEF TurnInv, LaunchInv, Untouched, CkptOK
  <2>5. CASE gpc'[r] = "fail" /\ rows' = rows /\ xpc' = xpc
    BY <1>o, <2>1, <2>3, <2>5 DEF Unmarked, LoopHas, Loading
  <2>6. CASE gpc'[r] = "exec" /\ xpc'[r] = "resuming" /\ rows'[r] = Resumed(mem[r])
    BY <2>1, <2>2, <2>3, <2>4, <2>6 DEF Unmarked, LoopHas, Loading, Clean
  <2> QED BY <1>3, <1>t, <2>5, <2>6 DEF Activate, Goto, StartExecutor, UpdateRun, execVars
<1>4. CASE AwaitResult(r)
  <2>1. UNCHANGED <<rows, lpc, lpaused>> /\ gpc[r] # "none" /\ xpc'[r] = "none"
    BY <1>4, <1>t DEF AwaitResult, storeVars, loopVars
  <2>2. gpc'[r] = AfterResult(r, xpc[r], gpc[r] = "drain") /\ ~LoopHas(r)
    BY <1>4, <1>t, <2>1, LaunchedIsNotHeld DEF AwaitResult, Goto
  <2>3. /\ gpc'[r] \in {"fail", "cancelled", "save", "reply", "deliver"}
        /\ gpc'[r] = "save" => gpc[r] = "exec" /\ xpc[r] = "paused"
    BY <1>4, <2>2 DEF AwaitResult, AfterResult
  <2>4. gpc'[r] = "save" => mem'[r] = Waiting(mem[r], xprop[r])
    BY <1>4, <1>t, <2>3 DEF AwaitResult
  <2>5. Waiting(mem[r], xprop[r]).intr = mem[r].intr
    BY <1>t, RecFacts
  <2> QED BY <1>o, <2>1, <2>2, <2>3, <2>4, <2>5 DEF Unmarked, LoopHas, Loading, Clean
<1>5. CASE SavePause(r) \/ PersistPause(r)
  <2>1. UNCHANGED <<mem, xpc, lpc, lpaused>> /\ gpc[r] \in {"save", "pause"}
    BY <1>5 DEF SavePause, PersistPause, execVars, loopVars
  <2>2. ~LoopHas(r) /\ Clean(r) /\ xpc[r] = "none"
    BY <1>o, <2>1, LaunchedIsNotHeld DEF Unmarked
  <2>3. gpc'[r] \in {"pause", "fail", "exit"}
    BY <1>5, <1>t DEF SavePause, PersistPause, Goto
  <2>4. rows'[r] = rows[r] \/ rows'[r] = mem[r]
    BY <1>5, <1>t DEF SavePause, PersistPause, UpdateRun
  <2> QED BY <1>o, <2>1, <2>2, <2>3, <2>4 DEF Unmarked, LoopHas, Loading, Clean
<1>6. CASE Reply(r) \/ Complete(r) \/ Deliver(r) \/ MarkDelivered(r)
  <2>1. UNCHANGED <<ckpt, gitem, xpc, lpc, lpaused>> /\ ~LoopHas(r)
    BY <1>6, LaunchedIsNotHeld DEF Reply, Complete, Deliver, MarkDelivered, loopVars, execVars
  <2>2. gpc'[r] \in {"complete", "fail", "exit", "deliver", "mark"}
    BY <1>6, <1>t DEF Reply, Complete, Deliver, MarkDelivered, Goto
  <2>3. rows'[r] = rows[r] \/ rows'[r] = SetStatus(rows[r], "completed")
    BY <1>6, <1>t DEF Reply, Complete, Deliver, MarkDelivered, Completion, MarkRunCompleted
  <2>4. SetStatus(rows[r], "completed").st = "completed"
    BY <1>t, RecFacts
  <2> QED BY <1>o, <1>i, <2>1, <2>2, <2>3, <2>4 DEF Unmarked, LoopHas, Loading
<1>7. CASE ExecutorStep(r)
  <2>1. UNCHANGED <<rows, mem, gpc, lpc, lpaused>>
    BY <1>7 DEF ExecutorStep, Replay, Propose, SavePropose, Return, storeVars, launchVars, loopVars
  <2>2. xpc[r] # "none" /\ xpc'[r] # "resuming"
    BY <1>7, <1>t DEF ExecutorStep, Replay, Propose, SavePropose, Return
  <2> QED BY <1>o, <2>1, <2>2 DEF Unmarked, LoopHas, Loading, Clean
<1>8. CASE FireJob(r) \/ (CompleteJob /\ spc = r)
  <2>1. UNCHANGED <<ckpt, gpc, gitem, xpc, lpc, lpaused>>
    BY <1>8 DEF FireJob, CompleteJob, launchVars, execVars, loopVars
  <2>2. /\ rows'[r] = rows[r] \/ rows'[r] = SetStatus(rows[r], "completed")
        /\ mem'[r] = mem[r] \/ mem'[r] = SetStatus(mem[r], "completed")
    BY <1>8, <1>t DEF FireJob, CompleteJob, Completion, MarkRunCompleted
  <2>3. /\ SetStatus(rows[r], "completed").st = "completed"
        /\ SetStatus(mem[r], "completed").intr = mem[r].intr
    BY <1>t, RecFacts
  <2> QED BY <1>o, <1>i, <2>1, <2>2, <2>3 DEF Unmarked, LoopHas, Loading, Clean
<1>9. CASE Crash
  <2>1. rows' = rows /\ gpc'[r] = "none" /\ xpc'[r] = "none" /\ lpc' = "boot"
    BY <1>9 DEF Crash, storeVars
  <2> QED BY <1>o, <2>1 DEF Unmarked, LoopHas, Loading
<1> QED BY <1>0, <1>1, <1>2, <1>3, <1>4, <1>5, <1>6, <1>7, <1>8, <1>9 DEF Moves

\* The run the loop has just created is unmarked too.
LEMMA FreshUnmarked ==
    ASSUME TypeOK, TurnInv, TextInv, RunsOK, Uncancelled, [Next]_vars, FreshDispatch'
    PROVE  Clean(lrun)' /\ xpc'[lrun'] = "none"
<1>t. xpc \in [Runs -> ExecPC] /\ None \notin Runs
  BY NoneAssumption DEF TypeOK
<1>1. CASE Loop
  <2>1. CASE Create
    <3>1. /\ lrun' \in Runs /\ rows[lrun'].st = "none" /\ mem'[lrun'] = NewRun(litem)
      BY <2>1, Created DEF FreshDispatch
    <3>2. xpc' = xpc /\ xpc[lrun'] = "none"
      BY <2>1, <3>1 DEF Create, execVars, Uncancelled, Unmarked
    <3>3. NewRun(litem).intr = "none"
      BY DEF NewRun, NoRun
    <3> QED BY <3>1, <3>2, <3>3 DEF Clean
  <2>2. CASE ConsumeItem
    <3>1. FreshDispatch /\ UNCHANGED <<lrun, mem, xpc>>
      BY <2>2 DEF ConsumeItem, FreshDispatch, execVars
    <3> QED BY <3>1 DEF Uncancelled, Clean
  <2>3. CASE ~Create /\ ~ConsumeItem
    BY <1>1, <2>3 DEF Loop, Boot, Poll, ListItems, PickItem, Promote, GiveUp, Abort, EmitAbort, Launch,
                      FreshDispatch
  <2> QED BY <2>1, <2>2, <2>3
<1>2. CASE Crash
  BY <1>2 DEF Crash, FreshDispatch
<1>3. CASE ~Loop /\ ~Crash
  <2>1. FreshDispatch /\ lrun' = lrun
    BY <1>3, LoopMoves DEF FreshDispatch, loopVars
  <2>2. running = None /\ lrun \in Runs
    BY <2>1 DEF FreshDispatch, TurnInv, SingleFlight, LoopInv
  <2>3. PICK q \in Runs : q = lrun
    BY <2>2
  <2>4. Clean(q) /\ xpc[q] = "none"
    BY <2>1, <2>3 DEF Uncancelled
  <2>5. mem'[q].intr = mem[q].intr
    BY <1>3, <2>2, Meanwhile
  <2>6. xpc'[q] = xpc[q]
    <3>1. CASE Moves(q)
      <4>1. ~ExecutorStep(q)
        BY <2>4 DEF ExecutorStep, Replay, Propose, SavePropose, Return
      <4>2. FireJob(q) \/ CompleteJob
        BY <1>3, <2>2, <3>1, <4>1, Meanwhile
      <4> QED BY <4>2 DEF FireJob, CompleteJob, execVars
    <3>2. CASE ~Moves(q)
      BY <3>2, ExecutorMoves
    <3> QED BY <3>1, <3>2
  <2> QED BY <2>1, <2>3, <2>4, <2>5, <2>6 DEF Clean
<1> QED BY <1>1, <1>2, <1>3

\* As long as CancelRun is not called.
THEOREM UncancelledInvariant == Spec => [](cancels = 0 => Uncancelled)
<1>1. Init => (cancels = 0 => Uncancelled)
  <2> SUFFICES ASSUME Init PROVE Uncancelled
    OBVIOUS
  <2>1. cancel.pc = "idle" /\ ~FreshDispatch
    BY DEF Init, IdleCancel, FreshDispatch
  <2>2. ASSUME NEW r \in Runs PROVE Unmarked(r)
    <3>1. rows[r].st = "none" /\ xpc[r] = "none" /\ gpc[r] = "none" /\ lpc = "boot"
      BY DEF Init, StoreInit, NoRun
    <3> QED BY <3>1 DEF Unmarked, Loading, LoopHas
  <2> QED BY <2>1, <2>2 DEF Uncancelled
<1>2. /\ TypeOK /\ TurnInv /\ TextInv /\ (RunsOK /\ LoopOK) /\ (cancels = 0 => Uncancelled)
      /\ [Next]_vars
      => (cancels = 0 => Uncancelled)'
  <2> SUFFICES ASSUME TypeOK, TurnInv, TextInv, RunsOK, LoopOK, cancels = 0 => Uncancelled,
                      [Next]_vars, cancels' = 0
               PROVE  Uncancelled'
    OBVIOUS
  <2>1. Uncancelled /\ cancels' = cancels
    BY NoCancel
  <2>2. cancel'.pc = "idle"
    BY <2>1, NoCancel DEF Uncancelled
  <2>3. \A r \in Runs : Unmarked(r)'
    BY <2>1, UnmarkedStep
  <2>4. FreshDispatch' => Clean(lrun)' /\ xpc'[lrun'] = "none"
    BY <2>1, FreshUnmarked
  <2> QED BY <2>2, <2>3, <2>4 DEF Uncancelled
<1> QED BY <1>1, <1>2, TypeCorrect, TurnInvariant, TextInvariant, RunsInvariant, PTL DEF Spec

\* A run that is durably paused has the checkpoint it will be resumed from, whatever
\* crashes, timeouts and failing store calls happen, unless CancelRun was called: a
\* CancelRun that is overtaken writes back a row of an earlier pause.
THEOREM PausedIsCheckpointed == Spec => [](cancels = 0 => PausedHasCheckpoint)
<1>1. RunsOK /\ LoopOK /\ (cancels = 0 => Uncancelled) => (cancels = 0 => PausedHasCheckpoint)
  <2> SUFFICES ASSUME RunsOK, Uncancelled, NEW r \in Runs, rows[r].st = "waiting_for_proposal"
               PROVE  ckpt[r] # None /\ ckpt[r] = rows[r].blocked
    BY DEF PausedHasCheckpoint
  <2>1. Resumable(r)
    BY DEF Uncancelled, Unmarked, Resumable
  <2> QED BY <2>1 DEF RunsOK, CkptOK
<1> QED BY <1>1, RunsInvariant, UncancelledInvariant, PTL

\* A resumed executor is given the resolution of the proposal its checkpoint waits
\* for, under the same condition.
THEOREM ResumedWithItsProposal == Spec => [](cancels = 0 => ResumesItsOwnProposal)
<1>1. (cancels = 0 => Uncancelled) => (cancels = 0 => ResumesItsOwnProposal)
  BY DEF Uncancelled, Unmarked, ResumesItsOwnProposal
<1> QED BY <1>1, UncancelledInvariant, PTL
==============================================================================
