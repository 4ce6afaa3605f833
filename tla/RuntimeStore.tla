----------------------------- MODULE RuntimeStore -----------------------------
(***************************************************************************)
(* The durable state of one runtime session: the SQLite tables behind      *)
(* runtime.Store (internal/navi/store/runtime_store.go), the chat          *)
(* transcript and the proposals table, and the statements the coordinator  *)
(* issues against them.  Every operator here is ONE statement or ONE       *)
(* transaction: the database makes it atomic, and nothing more.  It        *)
(* survives Crash (RunCoordinator); everything else is lost.               *)
(*                                                                         *)
(* An inbox item is named by its place in received_at order, a run and a   *)
(* proposal by an id.  Message text is abstracted to the set of items      *)
(* whose text it contains.                                                 *)
(***************************************************************************)
EXTENDS Integers, FiniteSets

CONSTANTS
    None,        \* "no value": nil pointer, empty string or SQL NULL
    MaxItems,    \* bound on the inbox items of the session
    MaxRuns,     \* bound on the runs of the session
    Proposals,   \* ids the executor may give to the proposals it saves
    Keys,        \* idempotency keys that clients use
    PageSize     \* ListPendingItems limit: 20 in the code

Items == 1..MaxItems
Runs  == 1..MaxRuns

ASSUME BoundsAssumption ==
    /\ MaxItems \in Nat
    /\ MaxRuns \in Nat
    /\ PageSize \in Nat \ {0}

ASSUME NoneAssumption ==
    /\ None \notin Items
    /\ None \notin Runs
    /\ None \notin Proposals
    /\ None \notin Keys

InboxStatus    == {"none", "pending", "deferred", "merged", "superseded", "consumed"}
PayloadType    == {"text", "signal", "proposal_resolution"}
Decision       == {"approved", "declined"}
RunStatus      == {"none", "active", "waiting_for_proposal", "completed", "failed", "cancelled"}
Terminal       == {"completed", "failed", "cancelled"}
InterruptClass == {"none", "user_cancel", "system"}
ProposalStatus == {"none", "pending", "approved", "declined", "expired"}

\* A row of navi_inbox.  st = "none": the row does not exist.
InboxRow ==
    [st : InboxStatus, type : PayloadType, key : Keys \cup {None},
     content : SUBSET Items, prop : Proposals \cup {None},
     dec : Decision \cup {None}]

\* A row of runtime_runs; RunState in memory has the same shape.
RunRec ==
    [st : RunStatus, blocked : Proposals \cup {None},
     intr : InterruptClass, item : Items \cup {None}]

NoItem == [st |-> "none", type |-> "text", key |-> None, content |-> {},
           prop |-> None, dec |-> None]
NoRun  == [st |-> "none", blocked |-> None, intr |-> "none", item |-> None]

VARIABLES
    inbox,       \* navi_inbox
    rows,        \* runtime_runs
    ckpt,        \* runtime_checkpoints: proposal of the latest checkpoint of a run
    prop,        \* proposals.status
    author,      \* run_id in proposals.proposed_action: the run that asks
    transcript,  \* user messages of navi_chat_messages, by submission
    sent,        \* number of assistant messages of a run
    events       \* number of terminal run events in the event log, per run and kind

storeVars == <<inbox, rows, ckpt, prop, author, transcript, sent, events>>

TerminalEvent == {"run.completed", "run.failed", "run.cancelled"}

StoreTypeOK ==
    /\ inbox \in [Items -> InboxRow]
    /\ rows \in [Runs -> RunRec]
    /\ ckpt \in [Runs -> Proposals \cup {None}]
    /\ prop \in [Proposals -> ProposalStatus]
    /\ author \in [Proposals -> Runs \cup {None}]
    /\ transcript \in SUBSET Items
    /\ sent \in [Runs -> Nat]
    /\ events \in [Runs -> [TerminalEvent -> Nat]]

StoreInit ==
    /\ inbox = [i \in Items |-> NoItem]
    /\ rows = [r \in Runs |-> NoRun]
    /\ ckpt = [r \in Runs |-> None]
    /\ prop = [p \in Proposals |-> "none"]
    /\ author = [p \in Proposals |-> None]
    /\ transcript = {}
    /\ sent = [r \in Runs |-> 0]
    /\ events = [r \in Runs |-> [e \in TerminalEvent |-> 0]]

-----------------------------------------------------------------------------
(* Queries                                                                 *)

Pending  == {i \in Items : inbox[i].st = "pending"}
Deferred == {i \in Items : inbox[i].st = "deferred"}

\* ListPendingItems: the oldest PageSize pending rows.
ListPendingItems ==
    {i \in Pending : Cardinality({j \in Pending : j < i}) < PageSize}

\* GetPausedRun returns the most recently updated of these; the model lets it
\* return any of them (there is more than one only after a lost update).
PausedRuns == {r \in Runs : rows[r].st = "waiting_for_proposal"}

\* ListActiveRuns.
ActiveRuns == {r \in Runs : rows[r].st = "active"}

\* i is the oldest member of S.
IsOldest(i, S) == i \in S /\ \A j \in S : i <= j

\* findInboxByIdempotencyKeyTx and the unique index on (chat_id, idempotency_key).
KeyTaken(k) == k # None /\ \E j \in Items : inbox[j].st # "none" /\ inbox[j].key = k

-----------------------------------------------------------------------------
(* Inbox statements                                                        *)

\* Mutants of AcceptedRow: the queue action is written to the status column;
\* the status does not depend on the merge having found its target.
ActionAsStatus(i, k, act, into) ==
    [NoItem EXCEPT !.st = act, !.key = k, !.content = {i}]
MergedUnchecked(i, k, act, into) ==
    [NoItem EXCEPT !.st = IF act = "merge" THEN "merged" ELSE "pending",
                   !.key = k, !.content = {i}]

\* The row AcceptMessage inserts for submission i: queue action act, merge
\* target into.  A merge whose target is no longer pending becomes an append.
AcceptedRow(i, k, act, into) ==
    [NoItem EXCEPT
        !.st = CASE act = "merge" /\ into \in Pending -> "merged"
                 [] act = "defer" -> "deferred"
                 [] act = "supersede" -> "superseded"
                 [] OTHER -> "pending",
        !.key = k,
        !.content = {i}]

\* AcceptMessage, the whole transaction: refuse a known idempotency key,
\* insert the row, and append its text to the pending row it is merged into.
AcceptMessage(i, k, act, into) ==
    IF KeyTaken(k)
    THEN UNCHANGED inbox
    ELSE inbox' = [j \in Items |->
            IF j = i THEN AcceptedRow(i, k, act, into)
            ELSE IF act = "merge" /\ j = into /\ j \in Pending
                 THEN [inbox[j] EXCEPT !.content = @ \cup {i}]
                 ELSE inbox[j]]

\* The rows of SubmitSignal and EnqueueProposalResolution.
SignalRow(i, k) ==
    [NoItem EXCEPT !.st = "pending", !.type = "signal", !.key = k, !.content = {i}]
ResolutionRow(p, d) ==
    [NoItem EXCEPT !.st = "pending", !.type = "proposal_resolution", !.prop = p, !.dec = d]

\* AcceptSignal: the row goes in as it is, unclassified.
AcceptSignal(i, row) ==
    IF KeyTaken(row.key)
    THEN UNCHANGED inbox
    ELSE inbox' = [inbox EXCEPT ![i] = row]

\* Mutant of MarkInboxConsumed: the WHERE clause matches no row.
MarkNothing(i) == UNCHANGED inbox

\* MarkInboxConsumed: by primary key, whatever the status is.
MarkInboxConsumed(i) == inbox' = [inbox EXCEPT ![i].st = "consumed"]

\* PromoteDeferredItems (the limit of 100 exceeds MaxItems).
PromoteDeferredItems ==
    inbox' = [i \in Items |-> IF inbox[i].st = "deferred"
                              THEN [inbox[i] EXCEPT !.st = "pending"]
                              ELSE inbox[i]]

-----------------------------------------------------------------------------
(* Runs in memory (internal/runtime/run.go)                                *)

NewRun(i) == [NoRun EXCEPT !.st = "active", !.item = i]
SetStatus(run, status) == [run EXCEPT !.st = status]
Interrupt(run, class) == [run EXCEPT !.intr = class]
Waiting(run, p) == [run EXCEPT !.st = "waiting_for_proposal", !.blocked = p]
Resumed(run) == [run EXCEPT !.st = "active", !.blocked = None]

-----------------------------------------------------------------------------
(* Run statements                                                          *)

\* CreateRun: the row of a new active run initiated by inbox item i.
CreateRun(r, i) == rows' = [rows EXCEPT ![r] = NewRun(i)]

\* UpdateRun: every column of the row, from the RunState the caller holds.
UpdateRun(r, rec) == rows' = [rows EXCEPT ![r] = rec]

\* SaveCheckpoint.
SaveCheckpoint(r, p) == ckpt' = [ckpt EXCEPT ![r] = p]

\* AppendAssistantMessage.
AppendAssistantMessage(r) == sent' = [sent EXCEPT ![r] = @ + 1]

\* AppendRuntimeEvent, for the events that end a run.
AppendRuntimeEvent(r, e) == events' = [events EXCEPT ![r][e] = @ + 1]

\* MarkRunCompleted: status and run.completed in one transaction; the other
\* columns of the row are left alone.
MarkRunCompleted(r) ==
    /\ rows' = [rows EXCEPT ![r] = SetStatus(@, "completed")]
    /\ AppendRuntimeEvent(r, "run.completed")

-----------------------------------------------------------------------------
(* Proposal statements (internal/store/proposal.go)                        *)

\* SaveProposal for run r: an upsert, which makes the row pending whatever it was.
SaveProposal(p, r) ==
    /\ prop' = [prop EXCEPT ![p] = "pending"]
    /\ author' = [author EXCEPT ![p] = r]

\* ResolveProposal: conditional on the row being pending; that no row matched
\* is not an error.
ResolveProposal(p, d) ==
    prop' = [prop EXCEPT ![p] = IF @ = "pending" THEN d ELSE @]

\* ExpireProposals, for one proposal past its expires_at.
ExpireProposal(p) ==
    /\ prop[p] = "pending"
    /\ prop' = [prop EXCEPT ![p] = "expired"]
=============================================================================
