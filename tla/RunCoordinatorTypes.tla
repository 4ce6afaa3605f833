------------------------- MODULE RunCoordinatorTypes -------------------------
(*****************************************************************************)
(* Type correctness of RunCoordinator: every step of every goroutine keeps  *)
(* every variable in its set, for every value of the constants.  One step   *)
(* per action; under it one leaf per variable the action writes, from the   *)
(* types of the variables it reads (<2>a).                                  *)
(*****************************************************************************)
EXTENDS RunCoordinator, TLAPS

\* The record of no run has the type of a run.
LEMMA NoRunType == NoRun \in RunRec
BY DEF RunRec, NoRun, RunStatus, InterruptClass

\* NewRun (run.go) makes a well-typed run.
LEMMA NewRunType == ASSUME NEW i \in Items \cup {None} PROVE NewRun(i) \in RunRec
BY DEF RunRec, NewRun, NoRun, RunStatus, InterruptClass

\* SetStatus keeps the type of a run.
LEMMA SetStatusType ==
    ASSUME NEW m \in RunRec, NEW s \in RunStatus PROVE SetStatus(m, s) \in RunRec
BY DEF RunRec, SetStatus

\* Marking a run as interrupted keeps its type.
LEMMA InterruptType ==
    ASSUME NEW m \in RunRec, NEW c \in InterruptClass PROVE Interrupt(m, c) \in RunRec
BY DEF RunRec, Interrupt

\* A run that pauses on a proposal keeps its type.
LEMMA WaitingType ==
    ASSUME NEW m \in RunRec, NEW p \in Proposals \cup {None} PROVE Waiting(m, p) \in RunRec
BY DEF RunRec, Waiting, RunStatus

\* A run that is resumed keeps its type.
LEMMA ResumedType == ASSUME NEW m \in RunRec PROVE Resumed(m) \in RunRec
BY DEF RunRec, Resumed, RunStatus

\* AcceptMessage inserts a well-typed row, whatever the classifier said.
LEMMA AcceptedRowType ==
    ASSUME NEW i \in Items, NEW k \in Keys \cup {None}, NEW act, NEW into
    PROVE  AcceptedRow(i, k, act, into) \in InboxRow
BY DEF AcceptedRow, NoItem, InboxRow, InboxStatus, PayloadType

\* SubmitSignal inserts a well-typed row.
LEMMA SignalRowType ==
    ASSUME NEW i \in Items, NEW k \in Keys \cup {None} PROVE SignalRow(i, k) \in InboxRow
BY DEF SignalRow, NoItem, InboxRow, InboxStatus, PayloadType

\* EnqueueProposalResolution inserts a well-typed row.
LEMMA ResolutionRowType ==
    ASSUME NEW p \in Proposals \cup {None}, NEW d \in Decision
    PROVE  ResolutionRow(p, d) \in InboxRow
BY DEF ResolutionRow, NoItem, InboxRow, InboxStatus, PayloadType

\* The text of an inbox row is a set of submissions.
LEMMA ContentType ==
    ASSUME inbox \in [Items -> InboxRow], NEW i \in Items
    PROVE  inbox[i].content \in SUBSET Items
BY DEF InboxRow

\* What the classifier makes of a submission is a submission.
LEMMA ClassifiedType ==
    ASSUME NEW s \in SubRec, NEW b \in Items \cup {None}
    PROVE  [Classified(s, b) EXCEPT !.pc = "accept"] \in SubRec
<1>1. Classified(s, b) \in SubRec
  BY DEF Classified, SubRec, QueueAction
<1> QED BY <1>1 DEF SubRec

\* A message can be merged only into an item.
LEMMA ClassifyTargets == ListPendingItems \subseteq Items
BY DEF ListPendingItems, Pending

\* CancelRun can take any RunState it finds.
LEMMA CancelTakesType ==
    ASSUME cancel \in ActiveCancel, NEW m \in RunRec PROVE CancelTakes(m) \in ActiveCancel
BY DEF CancelTakes, ActiveCancel

\* Going through a list of scheduled messages leaves a list of them.
LEMMA TailPlan ==
    ASSUME NEW S, NEW q \in Seq(S), q # <<>> PROVE Tail(q) \in Seq(S)
OBVIOUS

\* A pending row that text is merged into keeps its type.
LEMMA MergedContentType ==
    ASSUME NEW row \in InboxRow, NEW i \in Items
    PROVE  [row EXCEPT !.content = @ \cup {i}] \in InboxRow
BY DEF InboxRow

\* A submission that takes a step keeps its type.
LEMMA SubStepType ==
    ASSUME NEW s \in SubRec, NEW pc \in {"none", "classify", "accept", "done"}
    PROVE  [s EXCEPT !.pc = pc] \in SubRec
BY DEF SubRec

\* Counting one up keeps the type of a family of counters.
LEMMA CountType ==
    ASSUME NEW S, NEW f \in [S -> Nat], NEW x PROVE [f EXCEPT ![x] = @ + 1] \in [S -> Nat]
<1>1. CASE x \in S
  BY <1>1
<1>2. CASE x \notin S
  <2>1. [f EXCEPT ![x] = @ + 1] = [y \in S |-> f[y]]
    BY <1>2
  <2> QED BY <2>1
<1> QED BY <1>1, <1>2

-----------------------------------------------------------------------------

\* The first process starts from a well-typed state: empty tables, idle goroutines.
LEMMA TypeInit == Init => TypeOK
<1> SUFFICES ASSUME Init PROVE TypeOK
  OBVIOUS
<1>1. StoreTypeOK
  <2>1. inbox \in [Items -> InboxRow]
    BY DEF Init, StoreInit, NoItem, InboxRow, InboxStatus, PayloadType
  <2>2. rows \in [Runs -> RunRec]
    BY NoRunType DEF Init, StoreInit
  <2>3. events \in [Runs -> [TerminalEvent -> Nat]]
    BY DEF Init, StoreInit
  <2> QED BY <2>1, <2>2, <2>3 DEF Init, StoreInit, StoreTypeOK, ProposalStatus
<1>2. mem \in [Runs -> RunRec]
  BY NoRunType DEF Init
<1>3. sub \in [Items -> SubRec]
  BY DEF Init, NoSub, SubRec, QueueAction
<1>4. call \in [Callers -> CallRec]
  BY DEF Init, IdleCall, CallRec, Decision
<1>5. cancel \in CancelRec
  BY DEF Init, CancelRec
<1>6. plan \in [Runs -> Seq({"now", "later"})]
  BY DEF Init
<1> QED BY <1>1, <1>2, <1>3, <1>4, <1>5, <1>6 DEF Init, TypeOK, LoopPC, LaunchPC, ExecPC

\* No step of the loop, a launch, an executor, the scheduler or a client leaves
\* the types, and neither does a crash.
LEMMA TypeStep == TypeOK /\ [Next]_vars => TypeOK'
<1> SUFFICES ASSUME TypeOK, [Next]_vars PROVE TypeOK'
  OBVIOUS
<1>1. ASSUME NEW i \in Items, NEW k \in Keys \cup {None}, BeginSubmit(i, k) PROVE TypeOK'
  <2>a. /\ transcript \in SUBSET Items
        /\ faults \in Nat
        /\ sub \in [Items -> SubRec]
    BY DEF TypeOK, StoreTypeOK
  <2>1. transcript' \in SUBSET Items
    BY <1>1, <2>a DEF BeginSubmit
  <2>2. faults' \in Nat
    BY <1>1, <2>a DEF BeginSubmit, Fault
  <2>3. sub' \in [Items -> SubRec]
    BY <1>1, <2>a DEF BeginSubmit, SubRec, NoSub, QueueAction
  <2> QED BY <1>1, <2>1, <2>2, <2>3 DEF TypeOK, StoreTypeOK, BeginSubmit, storeVars,
     loopVars, launchVars, execVars, deliverVars, clientVars
<1>2. ASSUME NEW i \in Items, NEW k \in Keys \cup {None}, SubmitSignal(i, k) PROVE TypeOK'
  <2>a. /\ inbox \in [Items -> InboxRow]
        /\ sub \in [Items -> SubRec]
    BY DEF TypeOK, StoreTypeOK
  <2>1. inbox' \in [Items -> InboxRow]
    BY <1>2, <2>a, SignalRowType DEF SubmitSignal, AcceptSignal
  <2>2. sub' \in [Items -> SubRec]
    BY <1>2, <2>a DEF SubmitSignal, SubRec
  <2> QED BY <1>2, <2>1, <2>2 DEF TypeOK, StoreTypeOK, SubmitSignal, storeVars,
     loopVars, launchVars, execVars, deliverVars, clientVars
<1>3. ASSUME NEW i \in Items, ClassifySubmit(i) PROVE TypeOK'
  <2>a. /\ sub \in [Items -> SubRec]
        /\ faults \in Nat
    BY DEF TypeOK
  <2>1. sub' \in [Items -> SubRec]
    <3>1. CASE \E b \in {j \in ListPendingItems : inbox[j].type = "text"} \cup {None} :
                  sub' = [sub EXCEPT ![i] = [Classified(sub[i], b) EXCEPT !.pc = "accept"]]
      BY <3>1, <2>a, ClassifiedType, ClassifyTargets
    <3>2. CASE sub' = [sub EXCEPT ![i].pc = "accept"]
      BY <3>2, <2>a, SubStepType
    <3> QED BY <1>3, <3>1, <3>2 DEF ClassifySubmit
  <2>2. faults' \in Nat
    BY <1>3, <2>a DEF ClassifySubmit, Fault
  <2> QED BY <1>3, <2>1, <2>2 DEF TypeOK, StoreTypeOK, ClassifySubmit, storeVars,
     loopVars, launchVars, execVars, deliverVars, clientVars
<1>4. ASSUME NEW i \in Items, FinishSubmit(i) PROVE TypeOK'
  <2>a. /\ inbox \in [Items -> InboxRow]
        /\ sub \in [Items -> SubRec]
        /\ faults \in Nat
    BY DEF TypeOK, StoreTypeOK
  <2>1. inbox' \in [Items -> InboxRow]
    <3>1. AcceptedRow(i, sub[i].key, sub[i].act, sub[i].into) \in InboxRow
      BY <2>a, AcceptedRowType DEF SubRec
    <3>2. \A j \in Items : [inbox[j] EXCEPT !.content = @ \cup {i}] \in InboxRow
      BY <2>a, <1>4, MergedContentType
    <3> QED BY <1>4, <2>a, <3>1, <3>2 DEF FinishSubmit, AcceptMessage
  <2>2. sub' \in [Items -> SubRec]
    BY <1>4, <2>a DEF FinishSubmit, SubRec
  <2>3. faults' \in Nat
    BY <1>4, <2>a DEF FinishSubmit, Fault
  <2> QED BY <1>4, <2>1, <2>2, <2>3 DEF TypeOK, StoreTypeOK, FinishSubmit,
     storeVars, loopVars, launchVars, execVars, deliverVars, clientVars
<1>5. ASSUME NEW c \in Callers, NEW p \in Proposals, NEW d \in Decision, ResolveRead(c, p, d) PROVE TypeOK'
  <2>a. /\ call \in [Callers -> CallRec]
    BY DEF TypeOK
  <2>1. call' \in [Callers -> CallRec]
    BY <1>5, <2>a DEF ResolveRead, CallRec
  <2> QED BY <1>5, <2>1 DEF TypeOK, StoreTypeOK, ResolveRead, storeVars, loopVars,
     launchVars, execVars, deliverVars, clientVars
<1>6. ASSUME NEW c \in Callers, ResolveUpdate(c) PROVE TypeOK'
  <2>a. /\ prop \in [Proposals -> ProposalStatus]
        /\ call \in [Callers -> CallRec]
        /\ approvals \in [Proposals -> Nat]
    BY DEF TypeOK, StoreTypeOK
  <2>1. prop' \in [Proposals -> ProposalStatus]
    BY <1>6, <2>a DEF ResolveUpdate, ResolveProposal, CallRec, Decision,
       ProposalStatus
  <2>2. approvals' \in [Proposals -> Nat]
    <3>1. \/ approvals' = approvals
          \/ approvals' = [approvals EXCEPT ![call[c].prop] = @ + 1]
      BY <1>6 DEF ResolveUpdate
    <3> QED BY <2>a, <3>1, CountType
  <2>3. call' \in [Callers -> CallRec]
    BY <1>6, <2>a DEF ResolveUpdate, CallRec
  <2> QED BY <1>6, <2>1, <2>2, <2>3 DEF TypeOK, StoreTypeOK, ResolveUpdate,
     storeVars, loopVars, launchVars, execVars, deliverVars, clientVars
<1>7. ASSUME NEW c \in Callers, ResolveFails(c) PROVE TypeOK'
  <2>a. /\ call \in [Callers -> CallRec]
        /\ faults \in Nat
    BY DEF TypeOK
  <2>1. call' \in [Callers -> CallRec]
    BY <1>7, <2>a DEF ResolveFails, CallRec, IdleCall, Decision
  <2>2. faults' \in Nat
    BY <1>7, <2>a DEF ResolveFails, Fault
  <2> QED BY <1>7, <2>1, <2>2 DEF TypeOK, StoreTypeOK, ResolveFails, storeVars,
     loopVars, launchVars, execVars, deliverVars, clientVars
<1>8. ASSUME NEW c \in Callers, EnqueueCheck(c) PROVE TypeOK'
  <2>a. /\ call \in [Callers -> CallRec]
    BY DEF TypeOK
  <2>1. call' \in [Callers -> CallRec]
    BY <1>8, <2>a DEF EnqueueCheck, CallRec, IdleCall, Decision
  <2> QED BY <1>8, <2>1 DEF TypeOK, StoreTypeOK, EnqueueCheck, storeVars, loopVars,
     launchVars, execVars, deliverVars, clientVars
<1>9. ASSUME NEW c \in Callers, NEW i \in Items, EnqueueInsert(c, i) PROVE TypeOK'
  <2>a. /\ inbox \in [Items -> InboxRow]
        /\ call \in [Callers -> CallRec]
    BY DEF TypeOK, StoreTypeOK
  <2>1. inbox' \in [Items -> InboxRow]
    BY <1>9, <2>a, ResolutionRowType DEF EnqueueInsert, AcceptSignal, CallRec
  <2>2. call' \in [Callers -> CallRec]
    BY <1>9, <2>a DEF EnqueueInsert, CallRec, IdleCall, Decision
  <2> QED BY <1>9, <2>1, <2>2 DEF TypeOK, StoreTypeOK, EnqueueInsert, storeVars,
     loopVars, launchVars, execVars, deliverVars, clientVars
<1>10. ASSUME NEW p \in Proposals, Expire(p) PROVE TypeOK'
  <2>a. /\ prop \in [Proposals -> ProposalStatus]
    BY DEF TypeOK, StoreTypeOK
  <2>1. prop' \in [Proposals -> ProposalStatus]
    BY <1>10, <2>a DEF Expire, ExpireProposal, ProposalStatus
  <2> QED BY <1>10, <2>1 DEF TypeOK, StoreTypeOK, Expire, storeVars, loopVars,
     launchVars, execVars, deliverVars, clientVars
<1>11. ASSUME Boot PROVE TypeOK'
  <2>a. /\ rows \in [Runs -> RunRec]
        /\ lpc \in LoopPC
        /\ faults \in Nat
    BY DEF TypeOK, StoreTypeOK
  <2>1. rows' \in [Runs -> RunRec]
    BY <1>11, <2>a, SetStatusType, InterruptType DEF Boot, RunStatus, InterruptClass
  <2>2. lpc' \in LoopPC
    BY <1>11, <2>a DEF Boot, LoopPC
  <2>3. faults' \in Nat
    BY <1>11, <2>a DEF Boot, Fault
  <2> QED BY <1>11, <2>1, <2>2, <2>3 DEF TypeOK, StoreTypeOK, Boot, storeVars,
     loopVars, launchVars, execVars, deliverVars, clientVars
<1>12. ASSUME Poll PROVE TypeOK'
  <2>a. /\ lpaused \in Runs \cup {None}
        /\ mem \in [Runs -> RunRec]
        /\ rows \in [Runs -> RunRec]
        /\ cancel \in CancelRec
        /\ lpc \in LoopPC
    BY DEF TypeOK, StoreTypeOK
  <2>1. lpaused' \in Runs \cup {None}
    BY <1>12, <2>a DEF Poll, PausedRuns
  <2>2. mem' \in [Runs -> RunRec]
    BY <1>12, <2>a DEF Poll, PausedRuns
  <2>3. cancel' \in CancelRec
    BY <1>12, <2>a, CancelTakesType DEF Poll, CancelKeeps, PausedRuns, CancelRec,
       IdleCancel
  <2>4. lpc' \in LoopPC
    BY <1>12, <2>a DEF Poll, LoopPC
  <2> QED BY <1>12, <2>1, <2>2, <2>3, <2>4 DEF TypeOK, StoreTypeOK, Poll, storeVars,
     loopVars, launchVars, execVars, deliverVars, clientVars
<1>13. ASSUME ListItems PROVE TypeOK'
  <2>a. /\ lpc \in LoopPC
        /\ litem \in Items \cup {None}
        /\ ltext \in SUBSET Items
        /\ inbox \in [Items -> InboxRow]
        /\ lrun \in Runs \cup {None}
        /\ lpaused \in Runs \cup {None}
    BY DEF TypeOK, StoreTypeOK
  <2>1. lpc' \in LoopPC
    BY <1>13, <2>a DEF ListItems, PickItem, LoopPC
  <2>2. litem' \in Items \cup {None}
    BY <1>13, <2>a DEF ListItems, PickItem, Eligible, ListPendingItems, Pending
  <2>3. ltext' \in SUBSET Items
    BY <1>13, <2>a, ContentType DEF ListItems, PickItem, Eligible, ListPendingItems,
       Pending
  <2>4. lrun' \in Runs \cup {None}
    BY <1>13, <2>a DEF ListItems, PickItem
  <2> QED BY <1>13, <2>1, <2>2, <2>3, <2>4 DEF TypeOK, StoreTypeOK, ListItems,
     storeVars, loopVars, launchVars, execVars, deliverVars, clientVars
<1>14. ASSUME Promote PROVE TypeOK'
  <2>a. /\ inbox \in [Items -> InboxRow]
        /\ lpc \in LoopPC
    BY DEF TypeOK, StoreTypeOK
  <2>1. inbox' \in [Items -> InboxRow]
    BY <1>14, <2>a DEF Promote, PromoteDeferredItems, InboxRow, InboxStatus
  <2>2. lpc' \in LoopPC
    BY <1>14, <2>a DEF Promote, LoopPC
  <2> QED BY <1>14, <2>1, <2>2 DEF TypeOK, StoreTypeOK, Promote, storeVars,
     loopVars, launchVars, execVars, deliverVars, clientVars
<1>15. ASSUME GiveUp PROVE TypeOK'
  <2>a. /\ lpc \in LoopPC
        /\ faults \in Nat
    BY DEF TypeOK
  <2>1. lpc' \in LoopPC
    BY <1>15, <2>a DEF GiveUp, LoopPC
  <2>2. faults' \in Nat
    BY <1>15, <2>a DEF GiveUp, Fault
  <2> QED BY <1>15, <2>1, <2>2 DEF TypeOK, StoreTypeOK, GiveUp, storeVars, loopVars,
     launchVars, execVars, deliverVars, clientVars
<1>16. ASSUME Create PROVE TypeOK'
  <2>a. /\ rows \in [Runs -> RunRec]
        /\ litem \in Items \cup {None}
        /\ mem \in [Runs -> RunRec]
        /\ lrun \in Runs \cup {None}
        /\ lpc \in LoopPC
        /\ faults \in Nat
    BY DEF TypeOK, StoreTypeOK
  <2>1. rows' \in [Runs -> RunRec]
    BY <1>16, <2>a, NewRunType DEF Create, CreateRun
  <2>2. mem' \in [Runs -> RunRec]
    BY <1>16, <2>a, NewRunType DEF Create
  <2>3. lrun' \in Runs \cup {None}
    BY <1>16, <2>a DEF Create
  <2>4. lpc' \in LoopPC
    BY <1>16, <2>a DEF Create, LoopPC
  <2>5. faults' \in Nat
    <3>1. Fault \/ UNCHANGED faults
      BY <1>16 DEF Create
    <3> QED BY <2>a, <3>1 DEF Fault
  <2> QED BY <1>16, <2>1, <2>2, <2>3, <2>4, <2>5 DEF TypeOK, StoreTypeOK, Create,
     storeVars, loopVars, launchVars, execVars, deliverVars, clientVars
<1>17. ASSUME ConsumeItem PROVE TypeOK'
  <2>a. /\ inbox \in [Items -> InboxRow]
        /\ lpc \in LoopPC
        /\ faults \in Nat
    BY DEF TypeOK, StoreTypeOK
  <2>1. inbox' \in [Items -> InboxRow]
    BY <1>17, <2>a DEF ConsumeItem, MarkInboxConsumed, InboxRow, InboxStatus
  <2>2. lpc' \in LoopPC
    BY <1>17, <2>a DEF ConsumeItem, LoopPC
  <2>3. faults' \in Nat
    BY <1>17, <2>a DEF ConsumeItem, Fault
  <2> QED BY <1>17, <2>1, <2>2, <2>3 DEF TypeOK, StoreTypeOK, ConsumeItem,
     storeVars, loopVars, launchVars, execVars, deliverVars, clientVars
<1>18. ASSUME Abort PROVE TypeOK'
  <2>a. /\ rows \in [Runs -> RunRec]
        /\ mem \in [Runs -> RunRec]
        /\ lpc \in LoopPC
        /\ faults \in Nat
    BY DEF TypeOK, StoreTypeOK
  <2>1. rows' \in [Runs -> RunRec]
    BY <1>18, <2>a, SetStatusType DEF Abort, EndRun, UpdateRun, RunStatus
  <2>2. mem' \in [Runs -> RunRec]
    BY <1>18, <2>a, SetStatusType DEF Abort, EndRun, RunStatus
  <2>3. lpc' \in LoopPC
    BY <1>18, <2>a DEF Abort, LoopPC
  <2>4. faults' \in Nat
    BY <1>18, <2>a DEF Abort, EndRun, Fault
  <2> QED BY <1>18, <2>1, <2>2, <2>3, <2>4 DEF TypeOK, StoreTypeOK, Abort,
     storeVars, loopVars, launchVars, execVars, deliverVars, clientVars
<1>19. ASSUME EmitAbort PROVE TypeOK'
  <2>a. /\ events \in [Runs -> [TerminalEvent -> Nat]]
        /\ lpc \in LoopPC
        /\ faults \in Nat
    BY DEF TypeOK, StoreTypeOK
  <2>1. events' \in [Runs -> [TerminalEvent -> Nat]]
    BY <1>19, <2>a DEF EmitAbort, EmitEnd, AppendRuntimeEvent, TerminalEvent
  <2>2. lpc' \in LoopPC
    BY <1>19, <2>a DEF EmitAbort, LoopPC
  <2>3. faults' \in Nat
    BY <1>19, <2>a DEF EmitAbort, EmitEnd, Fault
  <2> QED BY <1>19, <2>1, <2>2, <2>3 DEF TypeOK, StoreTypeOK, EmitAbort, storeVars,
     loopVars, launchVars, execVars, deliverVars, clientVars
<1>20. ASSUME Launch PROVE TypeOK'
  <2>a. /\ running \in Runs \cup {None}
        /\ lrun \in Runs \cup {None}
        /\ gpc \in [Runs -> LaunchPC]
        /\ gitem \in [Runs -> Items \cup {None}]
        /\ litem \in Items \cup {None}
        /\ gctx \in [Runs -> BOOLEAN]
        /\ xpc \in [Runs -> ExecPC]
        /\ xprop \in [Runs -> Proposals \cup {None}]
        /\ seen \in [Runs -> SUBSET Items]
        /\ transcript \in SUBSET Items
        /\ ran \in [Items -> Nat]
        /\ input \in [Runs -> SUBSET Items]
        /\ ltext \in SUBSET Items
        /\ lpc \in LoopPC
        /\ approvals \in [Proposals -> Nat]
        /\ replays \in [Proposals -> Nat]
    BY DEF TypeOK, StoreTypeOK
  <2>1. running' \in Runs \cup {None}
    BY <1>20, <2>a DEF Launch
  <2>2. gpc' \in [Runs -> LaunchPC]
    BY <1>20, <2>a DEF Launch, LaunchPC
  <2>3. gitem' \in [Runs -> Items \cup {None}]
    BY <1>20, <2>a DEF Launch
  <2>4. gctx' \in [Runs -> BOOLEAN]
    BY <1>20, <2>a DEF Launch
  <2>5. xpc' \in [Runs -> ExecPC]
    BY <1>20, <2>a DEF Launch, StartExecutor, ExecPC, execVars
  <2>6. xprop' \in [Runs -> Proposals \cup {None}]
    BY <1>20, <2>a DEF Launch, StartExecutor, execVars
  <2>7. seen' \in [Runs -> SUBSET Items]
    BY <1>20, <2>a DEF Launch, StartExecutor, execVars
  <2>8. ran' \in [Items -> Nat]
    BY <1>20, <2>a DEF Launch, StartExecutor, execVars
  <2>9. input' \in [Runs -> SUBSET Items]
    BY <1>20, <2>a DEF Launch, execVars, StartExecutor
  <2>10. lpc' \in LoopPC
    BY <1>20, <2>a DEF Launch, LoopPC
  <2>11. approvals' \in [Proposals -> Nat]
    BY <1>20, <2>a DEF Launch, StartExecutor, execVars
  <2>12. replays' \in [Proposals -> Nat]
    BY <1>20, <2>a DEF Launch, StartExecutor, execVars
  <2> QED BY <1>20, <2>1, <2>2, <2>3, <2>4, <2>5, <2>6, <2>7, <2>8, <2>9, <2>10,
     <2>11, <2>12 DEF TypeOK, StoreTypeOK, Launch, storeVars, loopVars, launchVars,
     execVars, deliverVars, clientVars
<1>21. ASSUME NEW r \in Runs, LoadCheckpoint(r) PROVE TypeOK'
  <2>a. /\ gpc \in [Runs -> LaunchPC]
        /\ faults \in Nat
    BY DEF TypeOK
  <2>1. gpc' \in [Runs -> LaunchPC]
    BY <1>21, <2>a DEF LoadCheckpoint, Goto, LaunchPC
  <2>2. faults' \in Nat
    BY <1>21, <2>a DEF LoadCheckpoint, CallOK, CallErr, Fault
  <2> QED BY <1>21, <2>1, <2>2 DEF TypeOK, StoreTypeOK, LoadCheckpoint, storeVars,
     loopVars, launchVars, execVars, deliverVars, clientVars
<1>22. ASSUME NEW r \in Runs, ConsumeResume(r) PROVE TypeOK'
  <2>a. /\ inbox \in [Items -> InboxRow]
        /\ gpc \in [Runs -> LaunchPC]
        /\ faults \in Nat
    BY DEF TypeOK, StoreTypeOK
  <2>1. inbox' \in [Items -> InboxRow]
    BY <1>22, <2>a DEF ConsumeResume, MarkInboxConsumed, InboxRow, InboxStatus
  <2>2. gpc' \in [Runs -> LaunchPC]
    BY <1>22, <2>a DEF ConsumeResume, Goto, LaunchPC
  <2>3. faults' \in Nat
    BY <1>22, <2>a DEF ConsumeResume, CallOK, CallErr, Fault
  <2> QED BY <1>22, <2>1, <2>2, <2>3 DEF TypeOK, StoreTypeOK, ConsumeResume,
     storeVars, loopVars, launchVars, execVars, deliverVars, clientVars
<1>23. ASSUME NEW r \in Runs, Activate(r) PROVE TypeOK'
  <2>a. /\ mem \in [Runs -> RunRec]
        /\ rows \in [Runs -> RunRec]
        /\ gpc \in [Runs -> LaunchPC]
        /\ xpc \in [Runs -> ExecPC]
        /\ xprop \in [Runs -> Proposals \cup {None}]
        /\ seen \in [Runs -> SUBSET Items]
        /\ transcript \in SUBSET Items
        /\ ran \in [Items -> Nat]
        /\ input \in [Runs -> SUBSET Items]
        /\ approvals \in [Proposals -> Nat]
        /\ replays \in [Proposals -> Nat]
        /\ faults \in Nat
    BY DEF TypeOK, StoreTypeOK
  <2>1. mem' \in [Runs -> RunRec]
    BY <1>23, <2>a, ResumedType DEF Activate
  <2>2. rows' \in [Runs -> RunRec]
    BY <1>23, <2>a, ResumedType DEF Activate, UpdateRun
  <2>3. gpc' \in [Runs -> LaunchPC]
    BY <1>23, <2>a DEF Activate, Goto, LaunchPC
  <2>4. xpc' \in [Runs -> ExecPC]
    BY <1>23, <2>a DEF Activate, StartExecutor, ExecPC, execVars
  <2>5. xprop' \in [Runs -> Proposals \cup {None}]
    BY <1>23, <2>a DEF Activate, StartExecutor, execVars
  <2>6. seen' \in [Runs -> SUBSET Items]
    BY <1>23, <2>a DEF Activate, StartExecutor, execVars
  <2>7. ran' \in [Items -> Nat]
    BY <1>23, <2>a DEF Activate, StartExecutor, execVars
  <2>8. input' \in [Runs -> SUBSET Items]
    BY <1>23, <2>a DEF Activate, execVars, StartExecutor
  <2>9. approvals' \in [Proposals -> Nat]
    BY <1>23, <2>a DEF Activate, StartExecutor, execVars
  <2>10. replays' \in [Proposals -> Nat]
    BY <1>23, <2>a DEF Activate, StartExecutor, execVars
  <2>11. faults' \in Nat
    BY <1>23, <2>a DEF Activate, CallOK, CallErr, Fault
  <2> QED BY <1>23, <2>1, <2>2, <2>3, <2>4, <2>5, <2>6, <2>7, <2>8, <2>9, <2>10,
     <2>11 DEF TypeOK, StoreTypeOK, Activate, storeVars, loopVars, launchVars,
     execVars, deliverVars, clientVars
<1>24. ASSUME NEW r \in Runs, AwaitResult(r) PROVE TypeOK'
  <2>a. /\ gpc \in [Runs -> LaunchPC]
        /\ mem \in [Runs -> RunRec]
        /\ xprop \in [Runs -> Proposals \cup {None}]
        /\ plan \in [Runs -> Seq({"now", "later"})]
        /\ left \in [Runs -> Int]
        /\ xpc \in [Runs -> ExecPC]
    BY DEF TypeOK
  <2>1. gpc' \in [Runs -> LaunchPC]
    BY <1>24, <2>a DEF AwaitResult, Goto, AfterResult, LaunchPC
  <2>2. mem' \in [Runs -> RunRec]
    BY <1>24, <2>a, WaitingType DEF AwaitResult
  <2>3. plan' \in [Runs -> Seq({"now", "later"})]
    BY <1>24, <2>a, EnvironmentAssumption DEF AwaitResult
  <2>4. left' \in [Runs -> Int]
    BY <1>24, <2>a, EnvironmentAssumption DEF AwaitResult
  <2>5. xpc' \in [Runs -> ExecPC]
    BY <1>24, <2>a DEF AwaitResult, ExecPC
  <2> QED BY <1>24, <2>1, <2>2, <2>3, <2>4, <2>5 DEF TypeOK, StoreTypeOK,
     AwaitResult, storeVars, loopVars, launchVars, execVars, deliverVars, clientVars
<1>25. ASSUME NEW r \in Runs, DrainExpired(r) PROVE TypeOK'
  <2>a. /\ gpc \in [Runs -> LaunchPC]
    BY DEF TypeOK
  <2>1. gpc' \in [Runs -> LaunchPC]
    BY <1>25, <2>a DEF DrainExpired, Goto, LaunchPC
  <2> QED BY <1>25, <2>1 DEF TypeOK, StoreTypeOK, DrainExpired, storeVars, loopVars,
     launchVars, execVars, deliverVars, clientVars
<1>26. ASSUME NEW r \in Runs, FailRun(r) PROVE TypeOK'
  <2>a. /\ rows \in [Runs -> RunRec]
        /\ mem \in [Runs -> RunRec]
        /\ gpc \in [Runs -> LaunchPC]
        /\ faults \in Nat
    BY DEF TypeOK, StoreTypeOK
  <2>1. rows' \in [Runs -> RunRec]
    BY <1>26, <2>a, SetStatusType DEF FailRun, EndRun, UpdateRun, RunStatus
  <2>2. mem' \in [Runs -> RunRec]
    BY <1>26, <2>a, SetStatusType DEF FailRun, EndRun, RunStatus
  <2>3. gpc' \in [Runs -> LaunchPC]
    BY <1>26, <2>a DEF FailRun, Goto, LaunchPC
  <2>4. faults' \in Nat
    BY <1>26, <2>a DEF FailRun, EndRun, Fault
  <2> QED BY <1>26, <2>1, <2>2, <2>3, <2>4 DEF TypeOK, StoreTypeOK, FailRun,
     storeVars, loopVars, launchVars, execVars, deliverVars, clientVars
<1>27. ASSUME NEW r \in Runs, CancelledRun(r) PROVE TypeOK'
  <2>a. /\ rows \in [Runs -> RunRec]
        /\ mem \in [Runs -> RunRec]
        /\ gpc \in [Runs -> LaunchPC]
        /\ faults \in Nat
    BY DEF TypeOK, StoreTypeOK
  <2>1. rows' \in [Runs -> RunRec]
    BY <1>27, <2>a, SetStatusType DEF CancelledRun, EndRun, UpdateRun, RunStatus
  <2>2. mem' \in [Runs -> RunRec]
    BY <1>27, <2>a, SetStatusType DEF CancelledRun, EndRun, RunStatus
  <2>3. gpc' \in [Runs -> LaunchPC]
    BY <1>27, <2>a DEF CancelledRun, Goto, LaunchPC
  <2>4. faults' \in Nat
    BY <1>27, <2>a DEF CancelledRun, EndRun, Fault
  <2> QED BY <1>27, <2>1, <2>2, <2>3, <2>4 DEF TypeOK, StoreTypeOK, CancelledRun,
     storeVars, loopVars, launchVars, execVars, deliverVars, clientVars
<1>28. ASSUME NEW r \in Runs, EmitEnded(r) PROVE TypeOK'
  <2>a. /\ events \in [Runs -> [TerminalEvent -> Nat]]
        /\ gpc \in [Runs -> LaunchPC]
        /\ faults \in Nat
    BY DEF TypeOK, StoreTypeOK
  <2>1. events' \in [Runs -> [TerminalEvent -> Nat]]
    BY <1>28, <2>a DEF EmitEnded, EmitEnd, AppendRuntimeEvent, TerminalEvent
  <2>2. gpc' \in [Runs -> LaunchPC]
    BY <1>28, <2>a DEF EmitEnded, Goto, LaunchPC
  <2>3. faults' \in Nat
    BY <1>28, <2>a DEF EmitEnded, EmitEnd, Fault
  <2> QED BY <1>28, <2>1, <2>2, <2>3 DEF TypeOK, StoreTypeOK, EmitEnded, storeVars,
     loopVars, launchVars, execVars, deliverVars, clientVars
<1>29. ASSUME NEW r \in Runs, SavePause(r) PROVE TypeOK'
  <2>a. /\ ckpt \in [Runs -> Proposals \cup {None}]
        /\ xprop \in [Runs -> Proposals \cup {None}]
        /\ gpc \in [Runs -> LaunchPC]
        /\ faults \in Nat
    BY DEF TypeOK, StoreTypeOK
  <2>1. ckpt' \in [Runs -> Proposals \cup {None}]
    BY <1>29, <2>a DEF SavePause, SaveCheckpoint
  <2>2. gpc' \in [Runs -> LaunchPC]
    BY <1>29, <2>a DEF SavePause, Goto, LaunchPC
  <2>3. faults' \in Nat
    BY <1>29, <2>a DEF SavePause, CallOK, CallErr, Fault
  <2> QED BY <1>29, <2>1, <2>2, <2>3 DEF TypeOK, StoreTypeOK, SavePause, storeVars,
     loopVars, launchVars, execVars, deliverVars, clientVars
<1>30. ASSUME NEW r \in Runs, PersistPause(r) PROVE TypeOK'
  <2>a. /\ rows \in [Runs -> RunRec]
        /\ mem \in [Runs -> RunRec]
        /\ gpc \in [Runs -> LaunchPC]
        /\ faults \in Nat
    BY DEF TypeOK, StoreTypeOK
  <2>1. rows' \in [Runs -> RunRec]
    BY <1>30, <2>a DEF PersistPause, UpdateRun
  <2>2. gpc' \in [Runs -> LaunchPC]
    BY <1>30, <2>a DEF PersistPause, Goto, LaunchPC
  <2>3. faults' \in Nat
    BY <1>30, <2>a DEF PersistPause, CallOK, CallErr, Fault
  <2> QED BY <1>30, <2>1, <2>2, <2>3 DEF TypeOK, StoreTypeOK, PersistPause,
     storeVars, loopVars, launchVars, execVars, deliverVars, clientVars
<1>31. ASSUME NEW r \in Runs, Reply(r) PROVE TypeOK'
  <2>a. /\ sent \in [Runs -> Nat]
        /\ gpc \in [Runs -> LaunchPC]
        /\ faults \in Nat
    BY DEF TypeOK, StoreTypeOK
  <2>1. sent' \in [Runs -> Nat]
    BY <1>31, <2>a DEF Reply, AppendAssistantMessage
  <2>2. gpc' \in [Runs -> LaunchPC]
    BY <1>31, <2>a DEF Reply, Goto, LaunchPC
  <2>3. faults' \in Nat
    BY <1>31, <2>a DEF Reply, CallOK, CallErr, Fault
  <2> QED BY <1>31, <2>1, <2>2, <2>3 DEF TypeOK, StoreTypeOK, Reply, storeVars,
     loopVars, launchVars, execVars, deliverVars, clientVars
<1>32. ASSUME NEW r \in Runs, Complete(r) PROVE TypeOK'
  <2>a. /\ rows \in [Runs -> RunRec]
        /\ events \in [Runs -> [TerminalEvent -> Nat]]
        /\ mem \in [Runs -> RunRec]
        /\ gpc \in [Runs -> LaunchPC]
        /\ faults \in Nat
    BY DEF TypeOK, StoreTypeOK
  <2>1. rows' \in [Runs -> RunRec]
    BY <1>32, <2>a, SetStatusType DEF Complete, Completion, MarkRunCompleted,
       RunStatus
  <2>2. events' \in [Runs -> [TerminalEvent -> Nat]]
    BY <1>32, <2>a DEF Complete, Completion, MarkRunCompleted, AppendRuntimeEvent,
       TerminalEvent
  <2>3. mem' \in [Runs -> RunRec]
    BY <1>32, <2>a, SetStatusType DEF Complete, Completion, RunStatus
  <2>4. gpc' \in [Runs -> LaunchPC]
    BY <1>32, <2>a DEF Complete, Goto, LaunchPC
  <2>5. faults' \in Nat
    BY <1>32, <2>a DEF Complete, CallOK, CallErr, Fault, Completion
  <2> QED BY <1>32, <2>1, <2>2, <2>3, <2>4, <2>5 DEF TypeOK, StoreTypeOK, Complete,
     storeVars, loopVars, launchVars, execVars, deliverVars, clientVars
<1>33. ASSUME NEW r \in Runs, Deliver(r) PROVE TypeOK'
  <2>a. /\ gpc \in [Runs -> LaunchPC]
        /\ plan \in [Runs -> Seq({"now", "later"})]
        /\ left \in [Runs -> Int]
        /\ jobs \in [Runs -> Nat]
        /\ sent \in [Runs -> Nat]
        /\ faults \in Nat
    BY DEF TypeOK, StoreTypeOK
  <2>1. gpc' \in [Runs -> LaunchPC]
    BY <1>33, <2>a DEF Deliver, Goto, LaunchPC
  <2>2. plan' \in [Runs -> Seq({"now", "later"})]
    <3>1. \/ plan' = plan
          \/ plan[r] # <<>> /\ plan' = [plan EXCEPT ![r] = Tail(@)]
      BY <1>33 DEF Deliver
    <3>2. plan[r] # <<>> => Tail(plan[r]) \in Seq({"now", "later"})
      BY <2>a, TailPlan
    <3> QED BY <2>a, <3>1, <3>2
  <2>3. left' \in [Runs -> Int]
    BY <1>33, <2>a DEF Deliver
  <2>4. jobs' \in [Runs -> Nat]
    BY <1>33, <2>a DEF Deliver
  <2>5. sent' \in [Runs -> Nat]
    BY <1>33, <2>a DEF Deliver, AppendAssistantMessage
  <2>6. faults' \in Nat
    BY <1>33, <2>a DEF Deliver, CallOK, CallErr, Fault
  <2> QED BY <1>33, <2>1, <2>2, <2>3, <2>4, <2>5, <2>6 DEF TypeOK, StoreTypeOK,
     Deliver, storeVars, loopVars, launchVars, execVars, deliverVars, clientVars
<1>34. ASSUME NEW r \in Runs, MarkDelivered(r) PROVE TypeOK'
  <2>a. /\ rows \in [Runs -> RunRec]
        /\ events \in [Runs -> [TerminalEvent -> Nat]]
        /\ mem \in [Runs -> RunRec]
        /\ gpc \in [Runs -> LaunchPC]
        /\ faults \in Nat
    BY DEF TypeOK, StoreTypeOK
  <2>1. rows' \in [Runs -> RunRec]
    BY <1>34, <2>a, SetStatusType DEF MarkDelivered, Completion, MarkRunCompleted,
       RunStatus
  <2>2. events' \in [Runs -> [TerminalEvent -> Nat]]
    BY <1>34, <2>a DEF MarkDelivered, Completion, MarkRunCompleted,
       AppendRuntimeEvent, TerminalEvent
  <2>3. mem' \in [Runs -> RunRec]
    BY <1>34, <2>a, SetStatusType DEF MarkDelivered, Completion, RunStatus
  <2>4. gpc' \in [Runs -> LaunchPC]
    BY <1>34, <2>a DEF MarkDelivered, Goto, LaunchPC
  <2>5. faults' \in Nat
    BY <1>34, <2>a DEF MarkDelivered, CallOK, CallErr, Fault, Completion
  <2> QED BY <1>34, <2>1, <2>2, <2>3, <2>4, <2>5 DEF TypeOK, StoreTypeOK,
     MarkDelivered, storeVars, loopVars, launchVars, execVars, deliverVars,
     clientVars
<1>35. ASSUME NEW r \in Runs, Exit(r) PROVE TypeOK'
  <2>a. /\ gpc \in [Runs -> LaunchPC]
        /\ running \in Runs \cup {None}
        /\ gctx \in [Runs -> BOOLEAN]
        /\ cancel \in CancelRec
    BY DEF TypeOK
  <2>1. gpc' \in [Runs -> LaunchPC]
    BY <1>35, <2>a DEF Exit, Goto, LaunchPC
  <2>2. running' \in Runs \cup {None}
    BY <1>35, <2>a DEF Exit
  <2>3. gctx' \in [Runs -> BOOLEAN]
    BY <1>35, <2>a DEF Exit
  <2>4. cancel' \in CancelRec
    <3>1. CASE cancel \in ActiveCancel
      BY <1>35, <3>1 DEF Exit, CancelRec, ActiveCancel
    <3>2. CASE cancel = IdleCancel
      BY <1>35, <3>2, NoneAssumption DEF Exit, CancelRec, IdleCancel
    <3> QED BY <2>a, <3>1, <3>2 DEF CancelRec
  <2> QED BY <1>35, <2>1, <2>2, <2>3, <2>4 DEF TypeOK, StoreTypeOK, Exit, storeVars,
     loopVars, launchVars, execVars, deliverVars, clientVars
<1>36. ASSUME NEW r \in Runs, Timeout(r) PROVE TypeOK'
  <2>a. /\ mem \in [Runs -> RunRec]
        /\ gpc \in [Runs -> LaunchPC]
    BY DEF TypeOK
  <2>1. mem' \in [Runs -> RunRec]
    BY <1>36, <2>a, InterruptType DEF Timeout, InterruptClass
  <2>2. gpc' \in [Runs -> LaunchPC]
    BY <1>36, <2>a DEF Timeout, Goto, LaunchPC
  <2> QED BY <1>36, <2>1, <2>2 DEF TypeOK, StoreTypeOK, Timeout, storeVars,
     loopVars, launchVars, execVars, deliverVars, clientVars
<1>37. ASSUME NEW r \in Runs, Replay(r) PROVE TypeOK'
  <2>a. /\ xpc \in [Runs -> ExecPC]
        /\ replays \in [Proposals -> Nat]
    BY DEF TypeOK
  <2>1. xpc' \in [Runs -> ExecPC]
    BY <1>37, <2>a DEF Replay, ExecPC
  <2>2. replays' \in [Proposals -> Nat]
    BY <1>37, <2>a DEF Replay
  <2> QED BY <1>37, <2>1, <2>2 DEF TypeOK, StoreTypeOK, Replay, storeVars, loopVars,
     launchVars, execVars, deliverVars, clientVars
<1>38. ASSUME NEW r \in Runs, NEW p \in Proposals, Propose(r, p) PROVE TypeOK'
  <2>a. /\ xprop \in [Runs -> Proposals \cup {None}]
        /\ xpc \in [Runs -> ExecPC]
    BY DEF TypeOK
  <2>1. xprop' \in [Runs -> Proposals \cup {None}]
    BY <1>38, <2>a DEF Propose
  <2>2. xpc' \in [Runs -> ExecPC]
    BY <1>38, <2>a DEF Propose, ExecPC
  <2> QED BY <1>38, <2>1, <2>2 DEF TypeOK, StoreTypeOK, Propose, storeVars,
     loopVars, launchVars, execVars, deliverVars, clientVars
<1>39. ASSUME NEW r \in Runs, SavePropose(r) PROVE TypeOK'
  <2>a. /\ prop \in [Proposals -> ProposalStatus]
        /\ author \in [Proposals -> Runs \cup {None}]
        /\ xpc \in [Runs -> ExecPC]
        /\ faults \in Nat
    BY DEF TypeOK, StoreTypeOK
  <2>1. prop' \in [Proposals -> ProposalStatus]
    BY <1>39, <2>a DEF SavePropose, SaveProposal, ProposalStatus
  <2>2. author' \in [Proposals -> Runs \cup {None}]
    BY <1>39, <2>a DEF SavePropose, SaveProposal
  <2>3. xpc' \in [Runs -> ExecPC]
    BY <1>39, <2>a DEF SavePropose, ExecPC
  <2>4. faults' \in Nat
    BY <1>39, <2>a DEF SavePropose, Fault
  <2> QED BY <1>39, <2>1, <2>2, <2>3, <2>4 DEF TypeOK, StoreTypeOK, SavePropose,
     storeVars, loopVars, launchVars, execVars, deliverVars, clientVars
<1>40. ASSUME NEW r \in Runs, Return(r) PROVE TypeOK'
  <2>a. /\ xpc \in [Runs -> ExecPC]
    BY DEF TypeOK
  <2>1. xpc' \in [Runs -> ExecPC]
    BY <1>40, <2>a DEF Return, ExecPC
  <2> QED BY <1>40, <2>1 DEF TypeOK, StoreTypeOK, Return, storeVars, loopVars,
     launchVars, execVars, deliverVars, clientVars
<1>41. ASSUME NEW r \in Runs, FireJob(r) PROVE TypeOK'
  <2>a. /\ jobs \in [Runs -> Nat]
        /\ left \in [Runs -> Int]
        /\ sent \in [Runs -> Nat]
        /\ spc \in Runs \cup {None}
        /\ faults \in Nat
    BY DEF TypeOK, StoreTypeOK
  <2>1. jobs' \in [Runs -> Nat]
    BY <1>41, <2>a DEF FireJob
  <2>2. left' \in [Runs -> Int]
    BY <1>41, <2>a DEF FireJob
  <2>3. sent' \in [Runs -> Nat]
    BY <1>41, <2>a DEF FireJob, AppendAssistantMessage
  <2>4. spc' \in Runs \cup {None}
    BY <1>41, <2>a DEF FireJob
  <2>5. faults' \in Nat
    BY <1>41, <2>a DEF FireJob, Fault
  <2> QED BY <1>41, <2>1, <2>2, <2>3, <2>4, <2>5 DEF TypeOK, StoreTypeOK, FireJob,
     storeVars, loopVars, launchVars, execVars, deliverVars, clientVars
<1>42. ASSUME CompleteJob PROVE TypeOK'
  <2>a. /\ rows \in [Runs -> RunRec]
        /\ spc \in Runs \cup {None}
        /\ events \in [Runs -> [TerminalEvent -> Nat]]
        /\ mem \in [Runs -> RunRec]
        /\ faults \in Nat
    BY DEF TypeOK, StoreTypeOK
  <2>1. rows' \in [Runs -> RunRec]
    BY <1>42, <2>a, SetStatusType DEF CompleteJob, Completion, MarkRunCompleted,
       RunStatus
  <2>2. events' \in [Runs -> [TerminalEvent -> Nat]]
    BY <1>42, <2>a DEF CompleteJob, Completion, MarkRunCompleted,
       AppendRuntimeEvent, TerminalEvent
  <2>3. mem' \in [Runs -> RunRec]
    BY <1>42, <2>a, SetStatusType DEF CompleteJob, Completion, RunStatus
  <2>4. spc' \in Runs \cup {None}
    BY <1>42, <2>a DEF CompleteJob
  <2>5. faults' \in Nat
    BY <1>42, <2>a DEF CompleteJob, Fault, Completion
  <2> QED BY <1>42, <2>1, <2>2, <2>3, <2>4, <2>5 DEF TypeOK, StoreTypeOK,
     CompleteJob, storeVars, loopVars, launchVars, execVars, deliverVars, clientVars
<1>43. ASSUME CancelMark PROVE TypeOK'
  <2>a. /\ mem \in [Runs -> RunRec]
        /\ running \in Runs \cup {None}
        /\ cancel \in CancelRec
        /\ cancels \in Nat
    BY DEF TypeOK
  <2>1. mem' \in [Runs -> RunRec]
    BY <1>43, <2>a, InterruptType DEF CancelMark, InterruptClass
  <2>2. cancel' \in CancelRec
    BY <1>43, <2>a DEF CancelMark, CancelRec, ActiveCancel, IdleCancel, NoRun,
       RunRec, RunStatus, InterruptClass
  <2>3. cancels' \in Nat
    BY <1>43, <2>a DEF CancelMark
  <2> QED BY <1>43, <2>1, <2>2, <2>3 DEF TypeOK, StoreTypeOK, CancelMark, storeVars,
     loopVars, launchVars, execVars, deliverVars, clientVars
<1>44. ASSUME CancelRead PROVE TypeOK'
  <2>a. /\ cancel \in CancelRec
        /\ mem \in [Runs -> RunRec]
    BY DEF TypeOK
  <2>1. cancel' \in CancelRec
    BY <1>44, <2>a, CancelTakesType DEF CancelRead, CancelRec, ActiveCancel,
       IdleCancel
  <2> QED BY <1>44, <2>1 DEF TypeOK, StoreTypeOK, CancelRead, storeVars, loopVars,
     launchVars, execVars, deliverVars, clientVars
<1>45. ASSUME CancelWrite PROVE TypeOK'
  <2>a. /\ rows \in [Runs -> RunRec]
        /\ cancel \in CancelRec
        /\ faults \in Nat
    BY DEF TypeOK, StoreTypeOK
  <2>1. rows' \in [Runs -> RunRec]
    BY <1>45, <2>a DEF CancelWrite, UpdateRun, CancelRec, ActiveCancel, IdleCancel
  <2>2. cancel' \in CancelRec
    BY <1>45, <2>a DEF CancelWrite, CancelRec, ActiveCancel, IdleCancel
  <2>3. faults' \in Nat
    BY <1>45, <2>a DEF CancelWrite, Fault
  <2> QED BY <1>45, <2>1, <2>2, <2>3 DEF TypeOK, StoreTypeOK, CancelWrite,
     storeVars, loopVars, launchVars, execVars, deliverVars, clientVars
<1>46. ASSUME CancelSignal PROVE TypeOK'
  <2>a. /\ gctx \in [Runs -> BOOLEAN]
        /\ cancel \in CancelRec
    BY DEF TypeOK
  <2>1. gctx' \in [Runs -> BOOLEAN]
    BY <1>46, <2>a DEF CancelSignal
  <2>2. cancel' \in CancelRec
    BY <1>46, <2>a DEF CancelSignal, CancelRec
  <2> QED BY <1>46, <2>1, <2>2 DEF TypeOK, StoreTypeOK, CancelSignal, storeVars,
     loopVars, launchVars, execVars, deliverVars, clientVars
<1>47. ASSUME Drain PROVE TypeOK'
  <2>a. /\ drain \in {"no", "draining", "drained"}
    BY DEF TypeOK
  <2>1. drain' \in {"no", "draining", "drained"}
    BY <1>47, <2>a DEF Drain
  <2> QED BY <1>47, <2>1 DEF TypeOK, StoreTypeOK, Drain, storeVars, loopVars,
     launchVars, execVars, deliverVars, clientVars
<1>48. ASSUME DrainReturns PROVE TypeOK'
  <2>a. /\ drain \in {"no", "draining", "drained"}
    BY DEF TypeOK
  <2>1. drain' \in {"no", "draining", "drained"}
    BY <1>48, <2>a DEF DrainReturns
  <2> QED BY <1>48, <2>1 DEF TypeOK, StoreTypeOK, DrainReturns, storeVars, loopVars,
     launchVars, execVars, deliverVars, clientVars
<1>49. ASSUME Crash PROVE TypeOK'
  <2>a. /\ lpc \in LoopPC
        /\ lpaused \in Runs \cup {None}
        /\ litem \in Items \cup {None}
        /\ ltext \in SUBSET Items
        /\ lrun \in Runs \cup {None}
        /\ running \in Runs \cup {None}
        /\ gpc \in [Runs -> LaunchPC]
        /\ gitem \in [Runs -> Items \cup {None}]
        /\ gctx \in [Runs -> BOOLEAN]
        /\ mem \in [Runs -> RunRec]
        /\ xpc \in [Runs -> ExecPC]
        /\ xprop \in [Runs -> Proposals \cup {None}]
        /\ plan \in [Runs -> Seq({"now", "later"})]
        /\ left \in [Runs -> Int]
        /\ jobs \in [Runs -> Nat]
        /\ spc \in Runs \cup {None}
        /\ sub \in [Items -> SubRec]
        /\ call \in [Callers -> CallRec]
        /\ cancel \in CancelRec
        /\ drain \in {"no", "draining", "drained"}
        /\ crashes \in Nat
    BY DEF TypeOK
  <2>1. lpc' \in LoopPC
    BY <1>49, <2>a DEF Crash, LoopPC
  <2>2. lpaused' \in Runs \cup {None}
    BY <1>49, <2>a DEF Crash
  <2>3. litem' \in Items \cup {None}
    BY <1>49, <2>a DEF Crash
  <2>4. ltext' \in SUBSET Items
    BY <1>49, <2>a DEF Crash
  <2>5. lrun' \in Runs \cup {None}
    BY <1>49, <2>a DEF Crash
  <2>6. running' \in Runs \cup {None}
    BY <1>49, <2>a DEF Crash
  <2>7. gpc' \in [Runs -> LaunchPC]
    BY <1>49, <2>a DEF Crash, LaunchPC
  <2>8. gitem' \in [Runs -> Items \cup {None}]
    BY <1>49, <2>a DEF Crash
  <2>9. gctx' \in [Runs -> BOOLEAN]
    BY <1>49, <2>a DEF Crash
  <2>10. mem' \in [Runs -> RunRec]
    BY <1>49, <2>a, NoRunType DEF Crash
  <2>11. xpc' \in [Runs -> ExecPC]
    BY <1>49, <2>a DEF Crash, ExecPC
  <2>12. xprop' \in [Runs -> Proposals \cup {None}]
    BY <1>49, <2>a DEF Crash
  <2>13. plan' \in [Runs -> Seq({"now", "later"})]
    BY <1>49, <2>a DEF Crash
  <2>14. left' \in [Runs -> Int]
    BY <1>49, <2>a DEF Crash
  <2>15. jobs' \in [Runs -> Nat]
    BY <1>49, <2>a DEF Crash
  <2>16. spc' \in Runs \cup {None}
    BY <1>49, <2>a DEF Crash
  <2>17. sub' \in [Items -> SubRec]
    BY <1>49, <2>a DEF Crash, SubRec, NoSub, QueueAction
  <2>18. call' \in [Callers -> CallRec]
    BY <1>49, <2>a DEF Crash, CallRec, IdleCall, Decision
  <2>19. cancel' \in CancelRec
    BY <1>49, <2>a DEF Crash, CancelRec
  <2>20. drain' \in {"no", "draining", "drained"}
    BY <1>49, <2>a DEF Crash
  <2>21. crashes' \in Nat
    BY <1>49, <2>a DEF Crash
  <2> QED BY <1>49, <2>1, <2>2, <2>3, <2>4, <2>5, <2>6, <2>7, <2>8, <2>9, <2>10,
     <2>11, <2>12, <2>13, <2>14, <2>15, <2>16, <2>17, <2>18, <2>19, <2>20, <2>21 DEF
     TypeOK, StoreTypeOK, Crash, storeVars, loopVars, launchVars, execVars,
     deliverVars, clientVars
<1>50. CASE UNCHANGED vars
  BY <1>50 DEF TypeOK, StoreTypeOK, vars, storeVars, loopVars, launchVars, execVars,
              deliverVars, clientVars
<1> QED BY <1>1, <1>2, <1>3, <1>4, <1>5, <1>6, <1>7, <1>8, <1>9, <1>10, <1>11,
   <1>12, <1>13, <1>14, <1>15, <1>16, <1>17, <1>18, <1>19, <1>20, <1>21, <1>22,
   <1>23, <1>24, <1>25, <1>26, <1>27, <1>28, <1>29, <1>30, <1>31, <1>32, <1>33,
   <1>34, <1>35, <1>36, <1>37, <1>38, <1>39, <1>40, <1>41, <1>42, <1>43, <1>44,
   <1>45, <1>46, <1>47, <1>48, <1>49, <1>50 DEF Next, Intake, Resolution, Loop,
   LaunchStep, ExecutorStep, SchedulerStep, CancelStep

\* Type correctness: in every reachable state of the coordinator, rows, RunStates,
\* program counters and calls in flight are what the code's types say.
THEOREM TypeCorrect == Spec => []TypeOK
<1>1. Init => TypeOK
  BY TypeInit
<1>2. TypeOK /\ [Next]_vars => TypeOK'
  BY TypeStep
<1> QED BY <1>1, <1>2, PTL DEF Spec
==============================================================================
