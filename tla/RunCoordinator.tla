---------------------------- MODULE RunCoordinator ----------------------------
(***************************************************************************)
(* The run coordinator of NAVI (internal/runtime/coordinator.go) for one   *)
(* runtime session, with the handlers that call it and the executor it     *)
(* calls.  The coordinator keys all of its state by runtime session, so    *)
(* one session is the unit of the model; that other sessions share the     *)
(* loop goroutine only delays a step.                                      *)
(*                                                                         *)
(* Processes, each of them a goroutine of the program:                     *)
(*   - the loop: Run, dispatchPending, dispatchRuntimeSession (lpc);       *)
(*   - the launch of a run: the goroutine launchRun starts (gpc);          *)
(*   - the executor of a run: exec.ExecuteRun (xpc), which the launch      *)
(*     abandons when it does not return after a timeout;                   *)
(*   - the scheduler of delayed messages (spc);                            *)
(*   - one SubmitMessage call per submission (sub), resolveProposal calls  *)
(*     of the owner's clients (call), a CancelRun call (cancel), Drain.    *)
(* A step is one store call, or what happens between two of them.          *)
(*                                                                         *)
(* The 200ms ticker may dispatch at any time, so Wake (which only makes a  *)
(* dispatch happen sooner, and drops the token when wakeCh is full) needs  *)
(* no state of its own.                                                    *)
(***************************************************************************)
EXTENDS RuntimeStore, Sequences

CONSTANTS
    Callers,     \* concurrent callers of resolveProposal
    Plans,       \* lists of scheduled messages ("now" / "later") a run may return
    MaxCrashes,  \* bound on process crashes
    MaxFaults,   \* bound on store calls that fail for a reason of their own
    MaxIncidents,\* bound on crashes and such failures together
    MaxCancels,  \* bound on CancelRun calls
    Signals,     \* may SubmitSignal be called on this session
    Timeouts,    \* may the run watchdog fire
    Expiry,      \* may a pending proposal expire
    Drains       \* may Drain be called

ASSUME EnvironmentAssumption ==
    /\ MaxCrashes \in Nat /\ MaxFaults \in Nat /\ MaxIncidents \in Nat /\ MaxCancels \in Nat
    /\ Plans \subseteq Seq({"now", "later"}) \ {<<>>}
    /\ {Signals, Timeouts, Expiry, Drains} \subseteq BOOLEAN

VARIABLES
    lpc,       \* what the loop does next
    lpaused,   \* its pausedRun
    litem,     \* its item ...
    ltext,     \* ... with the content the item had when it was listed
    lrun,      \* its run
    running,   \* c.running[session]: the run of the launch, or None
    gpc,       \* what the launch of a run does next
    gitem,     \* its item
    gctx,      \* its ctx is cancelled
    mem,       \* the RunState in memory, shared by launch, executor and CancelRun
    xpc,       \* executor: "running", or the result it returned
    xprop,     \* proposal the executor asks for
    plan,      \* scheduled messages the launch has not gone through yet
    left,      \* deliverScheduledMessages: the atomic counter "remaining"
    jobs,      \* delayed messages of a run in the scheduler's heap
    spc,       \* run whose completion the scheduler is about to record
    sub,       \* SubmitMessage calls, by item
    call,      \* resolveProposal calls, by caller
    cancel,    \* the CancelRun call
    drain,     \* the Drain call
    crashes, faults, cancels,
    ran,       \* history: how often the executor was started for an item
    input,     \* history: InboxItem.Content handed to the executor of a run
    seen,      \* history: transcript the executor of a run loaded
    approvals, \* history: how often the owner approved a proposal
    replays    \* history: how often the tool call of a proposal was executed

loopVars    == <<lpc, lpaused, litem, ltext, lrun>>
launchVars  == <<running, gpc, gitem, gctx>>
execVars    == <<xpc, xprop, input, seen, approvals, replays>>
deliverVars == <<plan, left, jobs, spc>>
clientVars  == <<sub, call, cancel, drain, cancels>>
vars == <<storeVars, loopVars, launchVars, mem, execVars, deliverVars,
          clientVars, ran, faults, crashes>>

LoopPC == {"boot", "idle", "list", "promote", "relist", "create", "consume",
           "abort", "emit", "launch"}
LaunchPC == {"none", "load", "consume", "activate", "exec", "drain", "fail",
             "cancelled", "save", "pause", "reply", "complete", "deliver",
             "mark", "emit", "exit"}
ExecPC == {"none", "resuming", "running", "saving", "proposed", "ok", "scheduled",
           "paused", "error", "interrupted"}
QueueAction == {"append", "defer", "merge", "supersede"}

SubRec == [pc : {"none", "classify", "accept", "done"}, key : Keys \cup {None},
           paused : BOOLEAN, act : QueueAction, into : Items \cup {None}]
CallRec == [pc : {"idle", "update", "updateOnly", "enqueue", "insert"},
            prop : Proposals \cup {None}, dec : Decision]
ActiveCancel == [pc : {"read", "write", "signal"}, run : Runs, rec : RunRec, live : BOOLEAN]

NoSub == [pc |-> "none", key |-> None, paused |-> FALSE, act |-> "append", into |-> None]
IdleCall == [pc |-> "idle", prop |-> None, dec |-> "approved"]
IdleCancel == [pc |-> "idle", run |-> None, rec |-> NoRun, live |-> FALSE]
CancelRec == ActiveCancel \cup {IdleCancel}

TypeOK ==
    /\ StoreTypeOK
    /\ lpc \in LoopPC
    /\ lpaused \in Runs \cup {None}
    /\ litem \in Items \cup {None}
    /\ ltext \in SUBSET Items
    /\ lrun \in Runs \cup {None}
    /\ running \in Runs \cup {None}
    /\ gpc \in [Runs -> LaunchPC]
    /\ gitem \in [Runs -> Items \cup {None}]
    /\ gctx \in [Runs -> BOOLEAN]
    /\ mem \in [Runs -> RunRec]
    /\ xpc \in [Runs -> ExecPC]
    /\ xprop \in [Runs -> Proposals \cup {None}]
    /\ plan \in [Runs -> Seq({"now", "later"})]
    /\ left \in [Runs -> Int]
    /\ jobs \in [Runs -> Nat]
    /\ spc \in Runs \cup {None}
    /\ sub \in [Items -> SubRec]
    /\ call \in [Callers -> CallRec]
    /\ cancel \in CancelRec
    /\ drain \in {"no", "draining", "drained"}
    /\ crashes \in Nat /\ faults \in Nat /\ cancels \in Nat
    /\ ran \in [Items -> Nat]
    /\ input \in [Runs -> SUBSET Items]
    /\ seen \in [Runs -> SUBSET Items]
    /\ approvals \in [Proposals -> Nat]
    /\ replays \in [Proposals -> Nat]

Init ==
    /\ StoreInit
    /\ lpc = "boot" /\ lpaused = None /\ litem = None /\ ltext = {} /\ lrun = None
    /\ running = None
    /\ gpc = [r \in Runs |-> "none"]
    /\ gitem = [r \in Runs |-> None]
    /\ gctx = [r \in Runs |-> FALSE]
    /\ mem = [r \in Runs |-> NoRun]
    /\ xpc = [r \in Runs |-> "none"]
    /\ xprop = [r \in Runs |-> None]
    /\ plan = [r \in Runs |-> <<>>]
    /\ left = [r \in Runs |-> 0]
    /\ jobs = [r \in Runs |-> 0]
    /\ spc = None
    /\ call = [c \in Callers |-> IdleCall]
    /\ cancel = IdleCancel
    /\ drain = "no"
    /\ sub = [i \in Items |-> NoSub]
    /\ crashes = 0 /\ faults = 0 /\ cancels = 0
    /\ ran = [i \in Items |-> 0]
    /\ input = [r \in Runs |-> {}]
    /\ seen = [r \in Runs |-> {}]
    /\ approvals = [p \in Proposals |-> 0]
    /\ replays = [p \in Proposals |-> 0]

-----------------------------------------------------------------------------
(* Store calls.  database/sql refuses a call whose context is cancelled;   *)
(* any other call may fail too, at most MaxFaults times.                   *)

Fault == faults < MaxFaults /\ faults + crashes < MaxIncidents /\ faults' = faults + 1

CallOK(r)  == ~gctx[r] /\ UNCHANGED faults
CallErr(r) == IF gctx[r] THEN UNCHANGED faults ELSE Fault

-----------------------------------------------------------------------------
(* Intake                                                                  *)

\* Items are numbered in received_at order.
Fresh(i) == /\ sub[i].pc = "none" /\ inbox[i].st = "none"
            /\ \A j \in Items : j < i => sub[j].pc # "none" \/ inbox[j].st # "none"

\* MessageIntakeService.SubmitMessage appends the message to the chat and
\* calls RunCoordinator.SubmitMessage, whose classifier reads the paused run;
\* when that read fails the message is classified as if there were none.
BeginSubmit(i, k) ==
    /\ Fresh(i)
    /\ transcript' = transcript \cup {i}
    /\ \E paused \in BOOLEAN :
          /\ IF paused <=> PausedRuns # {} THEN UNCHANGED faults ELSE ~paused /\ Fault
          /\ sub' = [sub EXCEPT ![i] = [NoSub EXCEPT !.pc = "classify", !.key = k,
                                                     !.paused = paused]]
    /\ UNCHANGED <<inbox, rows, ckpt, prop, author, sent, events, loopVars, launchVars, mem,
                   execVars, deliverVars, call, cancel, drain, cancels, ran, crashes>>

\* Classifier.classify, against the pending items listed now.  burst is the
\* first pending item of the same source within the burst window, if any.
Classified(s, burst) ==
    CASE s.paused -> [s EXCEPT !.act = "defer"]
      [] ~s.paused /\ (\E j \in ListPendingItems : s.key # None /\ inbox[j].key = s.key)
            -> [s EXCEPT !.act = "supersede"]
      [] OTHER -> IF burst = None THEN s ELSE [s EXCEPT !.act = "merge", !.into = burst]

\* When the list of pending items cannot be read the message is appended.
ClassifySubmit(i) ==
    /\ sub[i].pc = "classify"
    /\ \/ \E burst \in {j \in ListPendingItems : inbox[j].type = "text"} \cup {None} :
             /\ sub' = [sub EXCEPT ![i] = [Classified(sub[i], burst) EXCEPT !.pc = "accept"]]
             /\ UNCHANGED faults
       \/ Fault /\ sub' = [sub EXCEPT ![i].pc = "accept"]
    /\ UNCHANGED <<storeVars, loopVars, launchVars, mem, execVars, deliverVars, call,
                   cancel, drain, cancels, ran, crashes>>

FinishSubmit(i) ==
    /\ sub[i].pc = "accept"
    /\ \/ AcceptMessage(i, sub[i].key, sub[i].act, sub[i].into) /\ UNCHANGED faults
       \/ Fault /\ UNCHANGED inbox
    /\ sub' = [sub EXCEPT ![i].pc = "done"]
    /\ UNCHANGED <<rows, ckpt, prop, author, transcript, sent, events, loopVars, launchVars, mem,
                   execVars, deliverVars, call, cancel, drain, cancels, ran, crashes>>

\* SubmitSignal: webhook, chat action or other system input.
SubmitSignal(i, k) ==
    /\ Signals
    /\ Fresh(i)
    /\ AcceptSignal(i, SignalRow(i, k))
    /\ sub' = [sub EXCEPT ![i].pc = "done"]
    /\ UNCHANGED <<rows, ckpt, prop, author, transcript, sent, events, loopVars, launchVars, mem,
                   execVars, deliverVars, call, cancel, drain, cancels, ran, faults, crashes>>

-----------------------------------------------------------------------------
(* Proposal resolution (NAVI.resolveProposalWithResume)                    *)

\* The paused run, if there is one, is blocked on another proposal than p.
BlockedElsewhere(p) ==
    \E r \in PausedRuns : rows[r].blocked # None /\ rows[r].blocked # p

\* GetProposal and GetPausedRun.  A proposal already resolved the same way is
\* a retry and goes on to the enqueue; one resolved otherwise is an error.
ResolveRead(c, p, d) ==
    /\ call[c].pc = "idle"
    /\ \/ /\ prop[p] = "pending"
          /\ call' = [call EXCEPT ![c] =
                [pc |-> IF BlockedElsewhere(p) THEN "updateOnly" ELSE "update",
                 prop |-> p, dec |-> d]]
       \/ /\ prop[p] = d
          /\ ~BlockedElsewhere(p)
          /\ call' = [call EXCEPT ![c] = [pc |-> "enqueue", prop |-> p, dec |-> d]]
    /\ UNCHANGED <<storeVars, loopVars, launchVars, mem, execVars, deliverVars, sub,
                   cancel, drain, cancels, ran, faults, crashes>>

ResolveUpdate(c) ==
    /\ call[c].pc \in {"update", "updateOnly"}
    /\ ResolveProposal(call[c].prop, call[c].dec)
    /\ approvals' = IF prop[call[c].prop] = "pending" /\ call[c].dec = "approved"
                    THEN [approvals EXCEPT ![call[c].prop] = @ + 1] ELSE approvals
    /\ call' = [call EXCEPT ![c].pc = IF @ = "update" THEN "enqueue" ELSE "idle"]
    /\ UNCHANGED <<inbox, rows, ckpt, author, transcript, sent, events, loopVars, launchVars,
                   mem, xpc, xprop, input, seen, replays, deliverVars, sub, cancel, drain,
                   cancels, ran, faults, crashes>>

\* EnqueueProposalResolution: the paused run must exist and wait for this proposal.
EnqueueCheck(c) ==
    /\ call[c].pc = "enqueue"
    /\ call' = [call EXCEPT ![c] =
          IF PausedRuns # {} /\ ~BlockedElsewhere(@.prop)
          THEN [@ EXCEPT !.pc = "insert"] ELSE IdleCall]
    /\ UNCHANGED <<storeVars, loopVars, launchVars, mem, execVars, deliverVars, sub,
                   cancel, drain, cancels, ran, faults, crashes>>

EnqueueInsert(c, i) ==
    /\ call[c].pc = "insert"
    /\ Fresh(i)
    /\ AcceptSignal(i, ResolutionRow(call[c].prop, call[c].dec))
    /\ call' = [call EXCEPT ![c] = IdleCall]
    /\ UNCHANGED <<rows, ckpt, prop, author, transcript, sent, events, loopVars, launchVars, mem,
                   execVars, deliverVars, sub, cancel, drain, cancels, ran, faults, crashes>>

\* A store call of the resolution fails: the client gets an error, and nothing
\* of what was done before is undone.
ResolveFails(c) ==
    /\ call[c].pc # "idle"
    /\ Fault
    /\ call' = [call EXCEPT ![c] = IdleCall]
    /\ UNCHANGED <<storeVars, loopVars, launchVars, mem, execVars, deliverVars, sub,
                   cancel, drain, cancels, ran, crashes>>

Expire(p) ==
    /\ Expiry
    /\ ExpireProposal(p)
    /\ UNCHANGED <<inbox, rows, ckpt, author, transcript, sent, events, loopVars, launchVars, mem,
                   execVars, deliverVars, clientVars, ran, faults, crashes>>

-----------------------------------------------------------------------------
(* The loop                                                                *)

\* recoverOrphanedRuns: every run a dead process left active is failed, except
\* those whose update failed, or all of them when they could not be listed.
Boot ==
    /\ lpc = "boot"
    /\ \E skipped \in SUBSET ActiveRuns :
          /\ rows' = [r \in Runs |-> IF r \in ActiveRuns \ skipped
                                     THEN Interrupt(SetStatus(rows[r], "failed"), "system")
                                     ELSE rows[r]]
          /\ IF skipped = {} THEN UNCHANGED faults ELSE Fault
    /\ lpc' = "idle"
    /\ UNCHANGED <<inbox, ckpt, prop, author, transcript, sent, events, lpaused, litem, ltext, lrun,
                   launchVars, mem, execVars, deliverVars, clientVars, ran, crashes>>

\* A CancelRun call that has not read its RunState yet keeps the one it found.
CancelTakes(rec) == [cancel EXCEPT !.pc = "write", !.rec = rec]
CancelKeeps(r) ==
    IF cancel.pc = "read" /\ cancel.run = r THEN CancelTakes(mem[r]) ELSE cancel

\* Mutant of Poll: dispatch without looking at c.running.
PollUnguarded ==
    /\ lpc = "idle"
    /\ drain = "no"
    /\ Pending # {}
    /\ PausedRuns = {}
    /\ lpaused' = None
    /\ lpc' = "list"
    /\ UNCHANGED <<storeVars, litem, ltext, lrun, launchVars, mem, execVars, deliverVars,
                   clientVars, ran, faults, crashes>>

\* dispatchRuntimeSession, up to GetPausedRun, which loads the run into a new
\* RunState.
Poll ==
    /\ lpc = "idle"
    /\ drain = "no"
    /\ running = None
    /\ Pending \cup Deferred # {}
    /\ \/ /\ PausedRuns = {}
          /\ lpaused' = None
          /\ UNCHANGED <<mem, cancel>>
       \/ \E r \in PausedRuns :
          /\ lpaused' = r
          /\ mem' = [mem EXCEPT ![r] = rows[r]]
          /\ cancel' = CancelKeeps(r)
    /\ lpc' = "list"
    /\ UNCHANGED <<storeVars, litem, ltext, lrun, launchVars, execVars, deliverVars,
                   sub, call, drain, cancels, ran, faults, crashes>>

\* Mutant of Eligible: a paused run looks at the head of the queue only.
EligibleHead == IF lpaused = None THEN ListPendingItems
                ELSE {i \in ListPendingItems : /\ inbox[i].type = "proposal_resolution"
                                               /\ IsOldest(i, Pending)}

\* The item that is dispatched next: the oldest one, or, when a run is paused,
\* the oldest that may resume it.
Eligible == IF lpaused = None THEN ListPendingItems
            ELSE {i \in ListPendingItems : inbox[i].type = "proposal_resolution"}

PickItem ==
    /\ \E i \in Eligible :
          /\ IsOldest(i, Eligible)
          /\ litem' = i
          /\ ltext' = inbox[i].content
    /\ lpc' = IF lpaused = None THEN "create" ELSE "launch"
    /\ lrun' = lpaused

\* Mutant of ListItems: an empty list ends the dispatch, nothing is promoted.
ListWithoutPromotion ==
    /\ lpc \in {"list", "relist"}
    /\ \/ PickItem
       \/ Eligible = {} /\ lpc' = "idle" /\ UNCHANGED <<litem, ltext, lrun>>
    /\ UNCHANGED <<storeVars, lpaused, launchVars, mem, execVars, deliverVars,
                   clientVars, ran, faults, crashes>>

\* ListPendingItems, before and after PromoteDeferredItems.
ListItems ==
    /\ lpc \in {"list", "relist"}
    /\ \/ PickItem
       \/ /\ Eligible = {}
          /\ lpc' = IF lpc = "list" /\ lpaused = None THEN "promote" ELSE "idle"
          /\ UNCHANGED <<litem, ltext, lrun>>
    /\ UNCHANGED <<storeVars, lpaused, launchVars, mem, execVars, deliverVars,
                   clientVars, ran, faults, crashes>>

Promote ==
    /\ lpc = "promote"
    /\ PromoteDeferredItems
    /\ lpc' = IF Deferred = {} THEN "idle" ELSE "relist"
    /\ UNCHANGED <<rows, ckpt, prop, author, transcript, sent, events, lpaused, litem, ltext, lrun,
                   launchVars, mem, execVars, deliverVars, clientVars, ran, faults, crashes>>

\* One of these store calls failed: the dispatch returns, a later tick retries.
GiveUp ==
    /\ lpc \in {"list", "promote", "relist"}
    /\ Fault
    /\ lpc' = "idle"
    /\ UNCHANGED <<storeVars, lpaused, litem, ltext, lrun, launchVars, mem, execVars,
                   deliverVars, clientVars, ran, crashes>>

\* CreateRun of a new run for litem.
Create ==
    /\ lpc = "create"
    /\ \/ \E r \in Runs :
          /\ IsOldest(r, {q \in Runs : rows[q].st = "none"})
          /\ CreateRun(r, litem)
          /\ mem' = [mem EXCEPT ![r] = NewRun(litem)]
          /\ lrun' = r
          /\ lpc' = "consume"
          /\ UNCHANGED faults
       \/ /\ Fault
          /\ lpc' = "idle"
          /\ UNCHANGED <<rows, mem, lrun>>
    /\ UNCHANGED <<inbox, ckpt, prop, author, transcript, sent, events, lpaused, litem, ltext,
                   launchVars, execVars, deliverVars, clientVars, ran, crashes>>

\* Mutant of ConsumeItem: the run is launched although the item was not marked.
ConsumeUnchecked ==
    /\ lpc = "consume"
    /\ lpc' = "launch"
    /\ \/ MarkInboxConsumed(litem) /\ UNCHANGED faults
       \/ Fault /\ UNCHANGED inbox
    /\ UNCHANGED <<rows, ckpt, prop, author, transcript, sent, events, lpaused, litem, ltext, lrun,
                   launchVars, mem, execVars, deliverVars, clientVars, ran, crashes>>

\* MarkInboxConsumed for the item of a new run.
ConsumeItem ==
    /\ lpc = "consume"
    /\ \/ MarkInboxConsumed(litem) /\ lpc' = "launch" /\ UNCHANGED faults
       \/ Fault /\ lpc' = "abort" /\ UNCHANGED inbox
    /\ UNCHANGED <<rows, ckpt, prop, author, transcript, sent, events, lpaused, litem, ltext, lrun,
                   launchVars, mem, execVars, deliverVars, clientVars, ran, crashes>>

\* failRunWithOutcome and its twin for cancelled runs, under a context that is
\* cancelled or not: the status is set in memory whatever the store says ...
EndRun(r, status, ctxDone) ==
    LET rec == SetStatus(mem[r], status)
    IN  /\ mem' = [mem EXCEPT ![r] = rec]
        /\ \/ ~ctxDone /\ UpdateRun(r, rec) /\ UNCHANGED faults
           \/ ~ctxDone /\ Fault /\ UNCHANGED rows
           \/ ctxDone /\ UNCHANGED <<rows, faults>>

\* ... and the event is appended even if the row could not be updated.
EmitEnd(r, ctxDone) ==
    \/ /\ ~ctxDone
       /\ AppendRuntimeEvent(r, IF mem[r].st = "failed" THEN "run.failed" ELSE "run.cancelled")
       /\ UNCHANGED faults
    \/ ~ctxDone /\ Fault /\ UNCHANGED events
    \/ ctxDone /\ UNCHANGED <<events, faults>>

\* The inbox item could not be marked: fail the run that was just created.
Abort ==
    /\ lpc = "abort"
    /\ EndRun(lrun, "failed", FALSE)
    /\ lpc' = "emit"
    /\ UNCHANGED <<inbox, ckpt, prop, author, transcript, sent, events, lpaused, litem, ltext, lrun,
                   launchVars, execVars, deliverVars, clientVars, ran, crashes>>

EmitAbort ==
    /\ lpc = "emit"
    /\ EmitEnd(lrun, FALSE)
    /\ lpc' = "idle"
    /\ UNCHANGED <<inbox, rows, ckpt, prop, author, transcript, sent, lpaused, litem, ltext, lrun,
                   launchVars, mem, execVars, deliverVars, clientVars, ran, crashes>>

\* Mutant of StartExecutor: the executor sees the message it was started for only.
StartShortSighted(r, i, pc) ==
    /\ xpc' = [xpc EXCEPT ![r] = pc]
    /\ xprop' = [xprop EXCEPT ![r] = None]
    /\ seen' = [seen EXCEPT ![r] = {i}]
    /\ ran' = [ran EXCEPT ![i] = @ + 1]
    /\ UNCHANGED <<approvals, replays>>

\* The executor goroutine of run r starts on item i.
StartExecutor(r, i, pc) ==
    /\ xpc' = [xpc EXCEPT ![r] = pc]
    /\ xprop' = [xprop EXCEPT ![r] = None]
    /\ seen' = [seen EXCEPT ![r] = transcript]
    /\ ran' = [ran EXCEPT ![i] = @ + 1]
    /\ UNCHANGED <<approvals, replays>>

\* launchRun: register the run and start its goroutine.  A new run starts its
\* executor at once, a paused one goes through its checkpoint first.
Launch ==
    /\ lpc = "launch"
    /\ running' = lrun
    /\ gitem' = [gitem EXCEPT ![lrun] = litem]
    /\ gctx' = [gctx EXCEPT ![lrun] = FALSE]
    /\ \/ /\ inbox[litem].type = "proposal_resolution"
          /\ gpc' = [gpc EXCEPT ![lrun] = "load"]
          /\ UNCHANGED <<execVars, ran>>
       \/ /\ inbox[litem].type # "proposal_resolution"
          /\ gpc' = [gpc EXCEPT ![lrun] = "exec"]
          /\ StartExecutor(lrun, litem, "running")
          /\ input' = [input EXCEPT ![lrun] = ltext]
    /\ lpc' = "idle"
    /\ UNCHANGED <<storeVars, lpaused, litem, ltext, lrun, mem, deliverVars,
                   clientVars, faults, crashes>>

-----------------------------------------------------------------------------
(* The launch of a run                                                     *)

Goto(r, pc) == gpc' = [gpc EXCEPT ![r] = pc]

\* LoadCheckpoint and the checks on it.
LoadCheckpoint(r) ==
    /\ gpc[r] = "load"
    /\ \/ /\ CallOK(r)
          /\ IF \/ ckpt[r] = None
                \/ mem[r].blocked # None /\ inbox[gitem[r]].prop # mem[r].blocked
             THEN Goto(r, "fail")
             ELSE Goto(r, "consume")
       \/ CallErr(r) /\ Goto(r, "fail")
    /\ UNCHANGED <<storeVars, loopVars, running, gitem, gctx, mem, execVars, deliverVars,
                   clientVars, ran, crashes>>

\* Mutant of ConsumeResume: the checkpoint goes with the resolution, before the executor has it.
ConsumeBoth(r) ==
    /\ gpc[r] = "consume"
    /\ \/ CallOK(r) /\ MarkInboxConsumed(gitem[r]) /\ SaveCheckpoint(r, None) /\ Goto(r, "activate")
       \/ CallErr(r) /\ Goto(r, "fail") /\ UNCHANGED <<inbox, ckpt>>
    /\ UNCHANGED <<rows, prop, author, transcript, sent, events, loopVars, running, gitem,
                   gctx, mem, execVars, deliverVars, clientVars, ran, crashes>>

ConsumeResume(r) ==
    /\ gpc[r] = "consume"
    /\ \/ CallOK(r) /\ MarkInboxConsumed(gitem[r]) /\ Goto(r, "activate")
       \/ CallErr(r) /\ Goto(r, "fail") /\ UNCHANGED inbox
    /\ UNCHANGED <<rows, ckpt, prop, author, transcript, sent, events, loopVars, running, gitem,
                   gctx, mem, execVars, deliverVars, clientVars, ran, crashes>>

\* The resumed run is active again, in memory and in its row; start the executor.
Activate(r) ==
    /\ gpc[r] = "activate"
    /\ LET rec == Resumed(mem[r])
       IN  /\ mem' = [mem EXCEPT ![r] = rec]
           /\ \/ /\ CallOK(r)
                 /\ UpdateRun(r, rec)
                 /\ Goto(r, "exec")
                 /\ StartExecutor(r, gitem[r], "resuming")
                 /\ UNCHANGED input
              \/ /\ CallErr(r)
                 /\ Goto(r, "fail")
                 /\ UNCHANGED <<rows, execVars, ran>>
    /\ UNCHANGED <<inbox, ckpt, prop, author, transcript, sent, events, loopVars, running, gitem,
                   gctx, deliverVars, clientVars, crashes>>

\* Mutant of AfterResult: the run is shown as paused before its checkpoint is saved.
PauseFirst(r, res, late) ==
    IF res \in {"error", "interrupted"} \/ late THEN "fail"
    ELSE IF res = "paused" THEN "pause" ELSE "reply"

\* Where the launch goes with the executor's answer; late: after the timeout.
AfterResult(r, res, late) ==
    IF res \in {"error", "interrupted"}
    THEN IF gctx[r] \/ res = "interrupted"
         THEN IF mem[r].intr = "system" THEN "fail" ELSE "cancelled"
         ELSE "fail"
    ELSE CASE late -> "fail"
           [] ~late /\ res = "paused" -> "save"
           [] ~late /\ res = "ok" -> "reply"
           [] OTHER -> "deliver"

AwaitResult(r) ==
    /\ gpc[r] \in {"exec", "drain"}
    /\ xpc[r] \in {"ok", "scheduled", "paused", "error", "interrupted"}
    /\ Goto(r, AfterResult(r, xpc[r], gpc[r] = "drain"))
    /\ mem' = IF gpc[r] = "exec" /\ xpc[r] = "paused"
              THEN [mem EXCEPT ![r] = Waiting(@, xprop[r])]
              ELSE mem
    /\ IF gpc[r] = "exec" /\ xpc[r] = "scheduled"
       THEN \E p \in Plans : /\ plan' = [plan EXCEPT ![r] = p]
                             /\ left' = [left EXCEPT ![r] = Len(p)]
       ELSE UNCHANGED <<plan, left>>
    /\ xpc' = [xpc EXCEPT ![r] = "none"]
    /\ UNCHANGED <<storeVars, loopVars, running, gitem, gctx, xprop, input, seen, approvals, replays,
                   jobs, spc, clientVars, ran, faults, crashes>>

\* The run watchdog: interrupt the executor, give it interruptDrainTimeout.
Timeout(r) ==
    /\ Timeouts
    /\ gpc[r] = "exec"
    /\ mem' = [mem EXCEPT ![r] = Interrupt(@, "system")]
    /\ Goto(r, "drain")
    /\ UNCHANGED <<storeVars, loopVars, running, gitem, gctx, execVars, deliverVars,
                   clientVars, ran, faults, crashes>>

\* Mutant of DrainExpired: no deadline for an executor that was interrupted.
DrainForever(r) == FALSE /\ UNCHANGED vars

\* The executor did not come back: fail the run and leave the executor behind.
DrainExpired(r) ==
    /\ gpc[r] = "drain"
    /\ Goto(r, "fail")
    /\ UNCHANGED <<storeVars, loopVars, running, gitem, gctx, mem, execVars, deliverVars,
                   clientVars, ran, faults, crashes>>

FailRun(r) ==
    /\ gpc[r] = "fail"
    /\ EndRun(r, "failed", gctx[r])
    /\ Goto(r, "emit")
    /\ UNCHANGED <<inbox, ckpt, prop, author, transcript, sent, events, loopVars, running, gitem,
                   gctx, execVars, deliverVars, clientVars, ran, crashes>>

CancelledRun(r) ==
    /\ gpc[r] = "cancelled"
    /\ EndRun(r, "cancelled", gctx[r])
    /\ Goto(r, "emit")
    /\ UNCHANGED <<inbox, ckpt, prop, author, transcript, sent, events, loopVars, running, gitem,
                   gctx, execVars, deliverVars, clientVars, ran, crashes>>

EmitEnded(r) ==
    /\ gpc[r] = "emit"
    /\ EmitEnd(r, gctx[r])
    /\ Goto(r, "exit")
    /\ UNCHANGED <<inbox, rows, ckpt, prop, author, transcript, sent, loopVars, running, gitem,
                   gctx, mem, execVars, deliverVars, clientVars, ran, crashes>>

\* A paused result: first the checkpoint, then the row that makes it visible.
SavePause(r) ==
    /\ gpc[r] = "save"
    /\ \/ CallOK(r) /\ SaveCheckpoint(r, xprop[r]) /\ Goto(r, "pause")
       \/ CallErr(r) /\ Goto(r, "fail") /\ UNCHANGED ckpt
    /\ UNCHANGED <<inbox, rows, prop, author, transcript, sent, events, loopVars, running, gitem,
                   gctx, mem, execVars, deliverVars, clientVars, ran, crashes>>

PersistPause(r) ==
    /\ gpc[r] = "pause"
    /\ \/ CallOK(r) /\ UpdateRun(r, mem[r]) /\ Goto(r, "exit")
       \/ CallErr(r) /\ Goto(r, "fail") /\ UNCHANGED rows
    /\ UNCHANGED <<inbox, ckpt, prop, author, transcript, sent, events, loopVars, running, gitem,
                   gctx, mem, execVars, deliverVars, clientVars, ran, crashes>>

\* CompleteRun is two transactions: the reply, then the completion.
Reply(r) ==
    /\ gpc[r] = "reply"
    /\ \/ CallOK(r) /\ AppendAssistantMessage(r) /\ Goto(r, "complete")
       \/ CallErr(r) /\ Goto(r, "fail") /\ UNCHANGED sent
    /\ UNCHANGED <<inbox, rows, ckpt, prop, author, transcript, events, loopVars, running, gitem,
                   gctx, mem, execVars, deliverVars, clientVars, ran, crashes>>

\* MarkRunCompleted sets the status in memory before the transaction commits.
Completion(r, ok) ==
    /\ mem' \in {[mem EXCEPT ![r] = SetStatus(@, "completed")]} \cup (IF ok THEN {} ELSE {mem})
    /\ IF ok THEN MarkRunCompleted(r) ELSE UNCHANGED <<rows, events>>

Complete(r) ==
    /\ gpc[r] = "complete"
    /\ \/ CallOK(r) /\ Completion(r, TRUE) /\ Goto(r, "exit")
       \/ CallErr(r) /\ Completion(r, FALSE) /\ Goto(r, "fail")
    /\ UNCHANGED <<inbox, ckpt, prop, author, transcript, sent, loopVars, running, gitem,
                   gctx, execVars, deliverVars, clientVars, ran, crashes>>

\* deliverScheduledMessages, one message: sent now, or left to the scheduler.
\* Whoever brings the counter to zero records the completion.
Deliver(r) ==
    /\ gpc[r] = "deliver"
    /\ \/ /\ plan[r] = <<>>
          /\ Goto(r, "exit")
          /\ UNCHANGED <<plan, left, jobs, sent, faults>>
       \/ /\ plan[r] # <<>> /\ Head(plan[r]) = "later"
          /\ jobs' = [jobs EXCEPT ![r] = @ + 1]
          /\ plan' = [plan EXCEPT ![r] = Tail(@)]
          /\ UNCHANGED <<gpc, left, sent, faults>>
       \/ /\ plan[r] # <<>> /\ Head(plan[r]) = "now"
          /\ CallOK(r)
          /\ AppendAssistantMessage(r)
          /\ left' = [left EXCEPT ![r] = @ - 1]
          /\ plan' = [plan EXCEPT ![r] = Tail(@)]
          /\ Goto(r, IF left'[r] = 0 THEN "mark" ELSE "deliver")
          /\ UNCHANGED jobs
       \/ /\ plan[r] # <<>> /\ Head(plan[r]) = "now"
          /\ CallErr(r)
          /\ Goto(r, "fail")
          /\ UNCHANGED <<plan, left, jobs, sent>>
    /\ UNCHANGED <<inbox, rows, ckpt, prop, author, transcript, events, loopVars, running, gitem,
                   gctx, mem, execVars, spc, clientVars, ran, crashes>>

\* The last message went out at once; an error of MarkRunCompleted is only logged.
MarkDelivered(r) ==
    /\ gpc[r] = "mark"
    /\ \/ CallOK(r) /\ Completion(r, TRUE)
       \/ CallErr(r) /\ Completion(r, FALSE)
    /\ Goto(r, "exit")
    /\ UNCHANGED <<inbox, ckpt, prop, author, transcript, sent, loopVars, running, gitem,
                   gctx, execVars, deliverVars, clientVars, ran, crashes>>

\* The deferred function: the session is free again.
Exit(r) ==
    /\ gpc[r] = "exit"
    /\ Goto(r, "none")
    /\ running' = None
    /\ gctx' = [gctx EXCEPT ![r] = TRUE]
    /\ cancel' = IF cancel.run = r THEN [cancel EXCEPT !.live = FALSE] ELSE cancel
    /\ UNCHANGED <<storeVars, loopVars, gitem, mem, execVars, deliverVars, sub, call,
                   drain, cancels, ran, faults, crashes>>

-----------------------------------------------------------------------------
(* The scheduler of delayed messages, under context.Background             *)

\* Mutant of FireJob: the first delayed message that goes out completes the run.
FireCompletes(r) ==
    /\ spc = None
    /\ jobs[r] > 0
    /\ jobs' = [jobs EXCEPT ![r] = @ - 1]
    /\ left' = [left EXCEPT ![r] = @ - 1]
    /\ AppendAssistantMessage(r)
    /\ spc' = r
    /\ UNCHANGED <<inbox, rows, ckpt, prop, author, transcript, events, loopVars, launchVars, mem,
                   execVars, plan, clientVars, ran, faults, crashes>>

\* A delayed message is due; its failure is only logged.
FireJob(r) ==
    /\ spc = None
    /\ jobs[r] > 0
    /\ jobs' = [jobs EXCEPT ![r] = @ - 1]
    /\ left' = [left EXCEPT ![r] = @ - 1]
    /\ \/ AppendAssistantMessage(r) /\ UNCHANGED faults
       \/ Fault /\ UNCHANGED sent
    /\ spc' = IF left'[r] = 0 THEN r ELSE None
    /\ UNCHANGED <<inbox, rows, ckpt, prop, author, transcript, events, loopVars, launchVars, mem,
                   execVars, plan, clientVars, ran, crashes>>

CompleteJob ==
    /\ spc # None
    /\ \/ Completion(spc, TRUE) /\ UNCHANGED faults
       \/ Completion(spc, FALSE) /\ Fault
    /\ spc' = None
    /\ UNCHANGED <<inbox, ckpt, prop, author, transcript, sent, loopVars, launchVars, execVars,
                   plan, left, jobs, clientVars, ran, crashes>>

-----------------------------------------------------------------------------
(* The executor (external to the coordinator: ExecuteRun)                  *)

\* execCtx: cancelled with the ctx of the launch, by the watchdog, and when the
\* launch is over.
ExecCtxDone(r) == gctx[r] \/ gpc[r] # "exec"

\* ShouldInterrupt.
Interrupted(r) == ExecCtxDone(r) \/ mem[r].intr # "none"

\* Mutant of Replay: the resolution is believed, the proposal row is not read.
ReplayUnverified(r) ==
    /\ xpc[r] = "resuming"
    /\ ~Interrupted(r)
    /\ inbox[gitem[r]].dec = "approved"
    /\ replays' = [replays EXCEPT ![inbox[gitem[r]].prop] = @ + 1]
    /\ xpc' = [xpc EXCEPT ![r] = "running"]
    /\ UNCHANGED <<storeVars, loopVars, launchVars, mem, xprop, input, seen, approvals,
                   deliverVars, clientVars, ran, faults, crashes>>

\* A resumed run replays its pending tool call if the owner approved it AND
\* the proposal row says so, for this run, and has not gone stale; otherwise it
\* answers without executing it.
Replay(r) ==
    /\ xpc[r] = "resuming"
    /\ ~Interrupted(r)
    /\ LET p == inbox[gitem[r]].prop
           verified == prop[p] = "approved" /\ author[p] = r
       IN  \/ /\ inbox[gitem[r]].dec = "declined"
              /\ xpc' = [xpc EXCEPT ![r] = "running"]
              /\ UNCHANGED replays
           \/ /\ inbox[gitem[r]].dec = "approved"
              /\ verified
              /\ replays' = [replays EXCEPT ![p] = @ + 1]
              /\ xpc' = [xpc EXCEPT ![r] = "running"]
           \/ /\ inbox[gitem[r]].dec = "approved"
              /\ ~verified \/ Expiry
              /\ xpc' = [xpc EXCEPT ![r] = "ok"]
              /\ UNCHANGED replays
    /\ UNCHANGED <<storeVars, loopVars, launchVars, mem, xprop, input, seen, approvals,
                   deliverVars, clientVars, ran, faults, crashes>>

\* The executor needs an approval: it reuses the pending proposal of the same
\* boundary, whichever run asked, or takes a new id ...
Propose(r, p) ==
    /\ xpc[r] \in {"running", "resuming"}
    /\ xpc[r] = "resuming" => ~Interrupted(r)
    /\ ~ExecCtxDone(r)
    /\ prop[p] \in {"none", "pending"}
    /\ xprop' = [xprop EXCEPT ![r] = p]
    /\ xpc' = [xpc EXCEPT ![r] = "saving"]
    /\ UNCHANGED <<storeVars, loopVars, launchVars, mem, input, seen, approvals, replays,
                   deliverVars, clientVars, ran, faults, crashes>>

\* ... and saves it.  When that fails the action is rejected, not the run.
SavePropose(r) ==
    /\ xpc[r] = "saving"
    /\ \/ /\ ~ExecCtxDone(r)
          /\ SaveProposal(xprop[r], r)
          /\ xpc' = [xpc EXCEPT ![r] = "proposed"]
          /\ UNCHANGED faults
       \/ /\ IF ExecCtxDone(r) THEN UNCHANGED faults ELSE Fault
          /\ xpc' = [xpc EXCEPT ![r] = "running"]
          /\ UNCHANGED <<prop, author>>
    /\ UNCHANGED <<inbox, rows, ckpt, transcript, sent, events, loopVars, launchVars, mem,
                   xprop, input, seen, approvals, replays, deliverVars, clientVars, ran,
                   crashes>>

Return(r) ==
    /\ xpc[r] \in {"running", "resuming", "saving", "proposed"}
    /\ \E res \in {"ok", "scheduled", "paused", "error", "interrupted"} :
          /\ res = "ok" => xpc[r] = "running"
          /\ res = "scheduled" => xpc[r] = "running" /\ Plans # {}
          /\ res = "paused" => xpc[r] = "proposed"
          /\ res = "interrupted" => Interrupted(r)
          /\ xpc' = [xpc EXCEPT ![r] = res]
    /\ UNCHANGED <<storeVars, loopVars, launchVars, mem, xprop, input, seen, approvals,
                   replays, deliverVars, clientVars, ran, faults, crashes>>

-----------------------------------------------------------------------------
(* CancelRun and Drain                                                     *)

\* CancelRun marks the RunState it found ...
CancelMark ==
    /\ cancel.pc = "idle"
    /\ cancels < MaxCancels
    /\ running # None
    /\ mem' = [mem EXCEPT ![running] = Interrupt(@, "user_cancel")]
    /\ cancel' = [IdleCancel EXCEPT !.pc = "read", !.run = running, !.live = TRUE]
    /\ cancels' = cancels + 1
    /\ UNCHANGED <<storeVars, loopVars, launchVars, execVars, deliverVars, sub, call, drain,
                   ran, faults, crashes>>

\* ... takes the values of the row UpdateRun is going to write ...
CancelRead ==
    /\ cancel.pc = "read"
    /\ cancel' = CancelTakes(mem[cancel.run])
    /\ UNCHANGED <<storeVars, loopVars, launchVars, mem, execVars, deliverVars, sub, call,
                   drain, cancels, ran, faults, crashes>>

\* ... writes it under a context of its own ...
CancelWrite ==
    /\ cancel.pc = "write"
    /\ \/ UpdateRun(cancel.run, cancel.rec) /\ UNCHANGED faults
       \/ Fault /\ UNCHANGED rows
    /\ cancel' = [cancel EXCEPT !.pc = "signal"]
    /\ UNCHANGED <<inbox, ckpt, prop, author, transcript, sent, events, loopVars, launchVars, mem,
                   execVars, deliverVars, sub, call, drain, cancels, ran, crashes>>

\* ... and cancels the context of the launch it found.
CancelSignal ==
    /\ cancel.pc = "signal"
    /\ gctx' = IF cancel.live THEN [gctx EXCEPT ![cancel.run] = TRUE] ELSE gctx
    /\ cancel' = IdleCancel
    /\ UNCHANGED <<storeVars, loopVars, running, gpc, gitem, mem, execVars, deliverVars,
                   sub, call, drain, cancels, ran, faults, crashes>>

Drain ==
    /\ Drains
    /\ drain = "no"
    /\ drain' = "draining"
    /\ UNCHANGED <<storeVars, loopVars, launchVars, mem, execVars, deliverVars, sub, call,
                   cancel, cancels, ran, faults, crashes>>

\* wg.Wait returned before the drain deadline.
DrainReturns ==
    /\ drain = "draining"
    /\ \A r \in Runs : gpc[r] = "none"
    /\ drain' = "drained"
    /\ UNCHANGED <<storeVars, loopVars, launchVars, mem, execVars, deliverVars, sub, call,
                   cancel, cancels, ran, faults, crashes>>

\* The process dies and starts again; calls in flight are gone.
Crash ==
    /\ crashes < MaxCrashes /\ faults + crashes < MaxIncidents
    /\ crashes' = crashes + 1
    /\ lpc' = "boot" /\ lpaused' = None /\ litem' = None /\ ltext' = {} /\ lrun' = None
    /\ running' = None
    /\ gpc' = [r \in Runs |-> "none"]
    /\ gitem' = [r \in Runs |-> None]
    /\ gctx' = [r \in Runs |-> FALSE]
    /\ mem' = [r \in Runs |-> NoRun]
    /\ xpc' = [r \in Runs |-> "none"]
    /\ xprop' = [r \in Runs |-> None]
    /\ plan' = [r \in Runs |-> <<>>]
    /\ left' = [r \in Runs |-> 0]
    /\ jobs' = [r \in Runs |-> 0]
    /\ spc' = None
    /\ call' = [c \in Callers |-> IdleCall]
    /\ cancel' = IdleCancel
    /\ drain' = "no"
    /\ sub' = [i \in Items |-> IF sub[i].pc \in {"classify", "accept"}
                               THEN [NoSub EXCEPT !.pc = "done"] ELSE sub[i]]
    /\ UNCHANGED <<storeVars, cancels, ran, faults, input, seen, approvals, replays>>

-----------------------------------------------------------------------------

Intake == \E i \in Items :
    \/ \E k \in Keys \cup {None} : BeginSubmit(i, k) \/ SubmitSignal(i, k)
    \/ ClassifySubmit(i)
    \/ FinishSubmit(i)

Resolution == \E c \in Callers :
    \/ \E p \in Proposals, d \in Decision : ResolveRead(c, p, d)
    \/ ResolveUpdate(c)
    \/ ResolveFails(c)
    \/ EnqueueCheck(c)
    \/ \E i \in Items : EnqueueInsert(c, i)

Loop ==
    \/ Boot \/ Poll \/ ListItems \/ Promote \/ GiveUp \/ Create \/ ConsumeItem
    \/ Abort \/ EmitAbort \/ Launch

LaunchStep(r) ==
    \/ LoadCheckpoint(r) \/ ConsumeResume(r) \/ Activate(r) \/ AwaitResult(r)
    \/ DrainExpired(r) \/ FailRun(r) \/ CancelledRun(r) \/ EmitEnded(r)
    \/ SavePause(r) \/ PersistPause(r)
    \/ Reply(r) \/ Complete(r) \/ Deliver(r) \/ MarkDelivered(r) \/ Exit(r)

ExecutorStep(r) ==
    Replay(r) \/ (\E p \in Proposals : Propose(r, p)) \/ SavePropose(r) \/ Return(r)

SchedulerStep == (\E r \in Runs : FireJob(r)) \/ CompleteJob

CancelStep == CancelMark \/ CancelRead \/ CancelWrite \/ CancelSignal

Next ==
    \/ Intake
    \/ Resolution
    \/ \E p \in Proposals : Expire(p)
    \/ Loop
    \/ \E r \in Runs : LaunchStep(r) \/ Timeout(r) \/ ExecutorStep(r)
    \/ SchedulerStep
    \/ CancelStep
    \/ Drain
    \/ DrainReturns
    \/ Crash

Spec == Init /\ [][Next]_vars

-----------------------------------------------------------------------------
(* Properties                                                              *)

\* A session has one launch goroutine at a time and running names it; the loop
\* dispatches only while there is none.  (The check of c.running and the
\* registration in launchRun are two critical sections with store calls
\* between them.)
SingleFlight ==
    /\ \A r \in Runs : gpc[r] # "none" <=> running = r
    /\ lpc \notin {"boot", "idle"} => running = None

\* No inbox item is handed to an executor twice, whatever crashes, failing
\* store calls, cancellations or timeouts happen in between.
ActedAtMostOnce == \A i \in Items : ran[i] <= 1

\* An executor acts only on an item that is durably consumed: a crash after
\* this point cannot make the next process act on it again.
ConsumedBeforeActed == \A i \in Items : ran[i] > 0 => inbox[i].st = "consumed"

\* Every execution of a gated tool call has an approval of the owner of its own:
\* none follows a decline that raced the approval, an expiry, a duplicate
\* resolution, a crash and a retry, or an approval given to another run.
ReplayOncePerApproval == \A p \in Proposals : replays[p] <= approvals[p]

\* A resumed executor is given the resolution of the proposal its checkpoint
\* waits for, and not that of an earlier proposal of the same run.
ResumesItsOwnProposal ==
    \A r \in Runs : xpc[r] = "resuming" => inbox[gitem[r]].prop = ckpt[r]

\* A run that is durably paused has the checkpoint it will be resumed from.
PausedHasCheckpoint ==
    \A r \in Runs : rows[r].st = "waiting_for_proposal" =>
                       ckpt[r] # None /\ ckpt[r] = rows[r].blocked

\* run.completed is recorded at most once per run, and only when none of the
\* messages of the run is still to be sent.
CompletedOnceAtTheEnd ==
    \A r \in Runs : LET n == events[r]["run.completed"]
                    IN  n <= 1 /\ (n = 1 => jobs[r] = 0 /\ plan[r] = <<>>)

\* An executor has in its transcript every message that was merged into the
\* item it acts on, also one merged after the item was listed.
MergedTextIsSeen ==
    \A r \in Runs, i \in Items :
        rows[r].item = i /\ input[r] # {} /\ inbox[i].type = "text"
            => inbox[i].content \subseteq seen[r]

\* The text of a merged message is in exactly one row that is not merged.
MergedTextIsCarried ==
    \A i \in Items : inbox[i].st = "merged" =>
        Cardinality({j \in Items : inbox[j].st # "merged" /\ i \in inbox[j].content}) = 1

-----------------------------------------------------------------------------
(* Why an item is acted on once: the inductive invariant of the proofs     *)

\* A dispatch is under way: the loop has picked litem.
Dispatching == lpc \in {"create", "consume", "abort", "emit", "launch"}

\* i can still be acted on: it has not been, and it is in the state st.
Untouched(i, st) == i \in Items /\ ran[i] = 0 /\ inbox[i].st \in st

\* What the loop knows of the item it dispatches.
LoopInv ==
    /\ Dispatching => litem \in Items
    /\ lpc \in {"consume", "abort", "emit", "launch"} => lrun \in Runs
    /\ lpc \in {"create", "consume"} => Untouched(litem, {"pending"})
    /\ lpc = "launch" =>
          Untouched(litem, IF inbox[litem].type = "proposal_resolution"
                           THEN {"pending", "consumed"} ELSE {"consumed"})

\* What a launch knows of its item.
LaunchInv ==
    \A r \in Runs :
        /\ gpc[r] # "none" => gitem[r] \in Items
        /\ gpc[r] \in {"load", "consume"} => Untouched(gitem[r], {"pending", "consumed"})
        /\ gpc[r] = "activate" => Untouched(gitem[r], {"consumed"})

\* What a submission knows of the row it has not inserted yet.
IntakeInv ==
    \A i \in Items : sub[i].pc \in {"classify", "accept"} => inbox[i].st = "none"

\* A submission classified as a replacement is a retry: its key is in the inbox,
\* and stays there, so that AcceptMessage will refuse it.
RetryInv ==
    \A i \in Items : sub[i].act = "supersede" => KeyTaken(sub[i].key)

\* The inductive invariant: between picking an item and acting on it, loop and
\* launch hold the only claim on it.
TurnInv ==
    /\ SingleFlight
    /\ LoopInv
    /\ LaunchInv
    /\ IntakeInv
    /\ RetryInv
    /\ ActedAtMostOnce
    /\ ConsumedBeforeActed

-----------------------------------------------------------------------------
(* The refinement mapping to SessionTurns                                  *)

ItemStateOf(i) ==
    CASE inbox[i].st = "none" -> "absent"
      [] inbox[i].st \in {"pending", "deferred"} -> "queued"
      [] inbox[i].st \in {"merged", "superseded"} -> "folded"
      [] OTHER -> "taken"

Turn == IF Dispatching THEN litem
        ELSE IF running = None THEN None ELSE gitem[running]

ItemStates == [i \in Items |-> ItemStateOf(i)]
Acted == {i \in Items : ran[i] > 0}

Turns == INSTANCE SessionTurns WITH state <- ItemStates, turn <- Turn, acted <- Acted

\* The coordinator implements the turns it promises: every step of every
\* goroutine is a step of SessionTurns or changes nothing there.
ImplementsTurns == Turns!Spec

-----------------------------------------------------------------------------
(* Liveness                                                                *)

\* Fairness: the loop is woken by its ticker, a launch runs to its end, its
\* timers fire, the scheduler's heap is served, and a request that was begun is
\* finished.  Nothing is assumed of the executor, which calls models and tools,
\* nor of the owner.
Fairness ==
    /\ WF_vars(Loop)
    /\ WF_vars(SchedulerStep)
    /\ WF_vars(CancelRead \/ CancelWrite \/ CancelSignal)
    /\ \A r \in Runs : WF_vars(LaunchStep(r)) /\ WF_vars(Timeout(r))
    /\ \A i \in Items : WF_vars(ClassifySubmit(i) \/ FinishSubmit(i))
    /\ \A c \in Callers : WF_vars(ResolveUpdate(c) \/ EnqueueCheck(c)
                                    \/ \E i \in Items : EnqueueInsert(c, i))

FairSpec == Spec /\ Fairness

\* An executor that never returns does not keep the session: the watchdog ends
\* every launch, and the session is free for the next item.
SessionIsReleased == running # None ~> running = None

\* The loop wants to start a run beyond MaxRuns.
OutOfRuns == lpc = "create" /\ \A r \in Runs : rows[r].st # "none"

\* An accepted message is consumed in the end, deferred ones included, unless a run
\* stays paused for ever, the process is shutting down or the bound on runs is reached.
MessagesProgress ==
    \A i \in Items :
        inbox[i].st \in {"pending", "deferred"} ~>
            \/ inbox[i].st = "consumed"
            \/ drain # "no"
            \/ OutOfRuns
            \/ [](PausedRuns # {})

\* A run does not stay paused when the resolution it waits for is among the rows a dispatch
\* reads: the signals before it are skipped, whatever else is queued.  Beyond the page it is
\* not read, and as long as the page holds only rows that a paused run skips it never will be.
ResolutionsProgress ==
    \A i \in Items, r \in Runs :
        (/\ inbox[i].type = "proposal_resolution" /\ i \in ListPendingItems
         /\ r \in PausedRuns /\ rows[r].blocked = inbox[i].prop)
            ~> (r \notin PausedRuns \/ drain # "no")
=============================================================================
