------------------------------ MODULE Refinery ------------------------------
(***************************************************************************)
(* The connector intake pipeline: records connectors emit to a durable     *)
(* work queue, the worker that admits, stores, chunks and synthesises them *)
(* one after the other, and the passes it counts them in, which a ticker   *)
(* flushes concurrently.  One connector; a source is one (connector_id,    *)
(* source_id), a message one emission of it.  A record has Chunks chunks,  *)
(* and its candidates (contacts and chunk memories) are given by their     *)
(* derivation keys: a contact a chunk names twice has one key.             *)
(***************************************************************************)
EXTENDS Governor, Sequences, FiniteSets

CONSTANTS
    Msgs, Source,          \* messages; Source[m]: what m is a copy of
    Malformed,             \* messages Admit refuses
    Chunks, Candidates,    \* of a record: how many chunks; a sequence of derivation keys
    Memories,              \* the keys among them that are chunk memories
    MaxRecordsPerPass, ConnectorCeiling,   \* sync policy; cost of a record is 1
    Incidents, MaxIncidents                \* "crash", "fault", "redelivery"; how often

Sources == {Source[m] : m \in Msgs}
Keys == {Candidates[i] : i \in DOMAIN Candidates}

ASSUME RefineryBounds == Chunks \in Nat /\ MaxRecordsPerPass \in Int /\ ConnectorCeiling \in Int

\* Candidates come from chunks: a record without content has none.
ASSUME CandidatesOfChunks == Candidates \in Seq(Keys) /\ (Chunks = 0 => Candidates = <<>>)

\* A memory's key is made of its chunk's id: a record has it once.
ASSUME MemoriesAreDistinct ==
    /\ Memories \subseteq Keys
    /\ \A i, j \in 1..Len(Candidates) : Candidates[i] = Candidates[j] /\ Candidates[i] \in Memories => i = j

ASSUME MalformedAreMsgs == Malformed \subseteq Msgs

VARIABLES
    mail, pending,         \* JetStream: state per message; messages the subscription holds
    stored,                \* intake_records
    chunks,                \* intake_chunks: how many of a source are persisted
    entities, links,       \* per source and key: entity writes; intake_provenance
    h,                     \* the message handler
    pass, closing, logged, \* the open pass; passes taken out to be logged; intake_sync_log
    gov, spent,            \* the governor: its counters, the connector's cost
    saved, lostCount,      \* history: records saved; those in passes that were never logged
    halted, damaged,       \* history: sources dropped at the ceiling; sources whose stages were cut short or not resumed
    incidents              \* bound: how many there were

broker == <<mail, pending>>
store == <<stored, chunks, entities, links>>
passes == <<pass, closing, logged, lostCount>>
vars == <<broker, store, h, passes, gov, spent, saved, halted, damaged, incidents>>

-----------------------------------------------------------------------------
Idle == [pc |-> "idle", src |-> "none", at |-> 0, fresh |-> FALSE]
NoPass == [open |-> FALSE, admitted |-> 0]
Closers == {"handler", "ticker"}
Src == Source[Head(pending)]
Key == Candidates[h.at]
AtMemory == h.pc \in {"synth", "link"} /\ h.at <= Len(Candidates) /\ Key \in Memories

Incident(kind) == kind \in Incidents /\ incidents < MaxIncidents /\ incidents' = incidents + 1
Fault == Incident("fault")

Goto(pc) == h' = [h EXCEPT !.pc = pc]

\* ensurePassLocked and one counter, under passMu; of the counters only Admitted is kept.
BumpAdmitted == pass' = [pass EXCEPT !.open = TRUE, !.admitted = @ + 1]
BumpOther == pass' = [pass EXCEPT !.open = TRUE]

Init ==
    /\ mail = [m \in Msgs |-> "none"] /\ pending = <<>>
    /\ stored = {} /\ chunks = [s \in Sources |-> 0]
    /\ entities = [s \in Sources |-> [k \in Keys |-> 0]]
    /\ links = [s \in Sources |-> {}]
    /\ h = Idle
    /\ pass = NoPass /\ closing = [x \in Closers |-> NoPass] /\ logged = 0
    /\ gov = Fresh /\ spent = 0
    /\ saved = 0 /\ lostCount = 0 /\ halted = {} /\ damaged = {}
    /\ incidents = 0

-----------------------------------------------------------------------------
(* Connectors and JetStream                                                *)

Emit(m) ==
    /\ mail[m] = "none"
    /\ mail' = [mail EXCEPT ![m] = "ready"]
    /\ UNCHANGED <<pending, store, h, passes, gov, spent, saved, halted, damaged, incidents>>

Deliver(m) ==
    /\ mail[m] = "ready"
    /\ mail' = [mail EXCEPT ![m] = "out"]
    /\ pending' = Append(pending, m)
    /\ UNCHANGED <<store, h, passes, gov, spent, saved, halted, damaged, incidents>>

\* The acknowledgement wait also runs while a message waits behind others.
AckWaitExpires(m) ==
    /\ mail[m] = "out" /\ Incident("redelivery")
    /\ pending' = Append(pending, m)
    /\ UNCHANGED <<mail, store, h, passes, gov, spent, saved, halted, damaged>>

-----------------------------------------------------------------------------
(* processRecord, for the message at the head of pending                   *)

\* The global action budget and Admit; both errors end in a Nak.
Begin ==
    /\ h.pc = "idle" /\ pending # <<>>
    /\ gov' = IF ActionTripped(gov) THEN gov ELSE RecordAction(gov)
    /\ IF ActionTripped(gov') THEN h' = [Idle EXCEPT !.pc = "nak"] /\ UNCHANGED pass
       ELSE IF Head(pending) \in Malformed THEN h' = [Idle EXCEPT !.pc = "nak"] /\ BumpOther
       ELSE h' = [Idle EXCEPT !.pc = "dedupe", !.src = Src] /\ UNCHANGED pass
    /\ UNCHANGED <<broker, store, closing, logged, lostCount, spent, saved, halted, damaged, incidents>>

\* Mutant of Resumes: a duplicate is dropped.
ResumesNever(s) == FALSE

\* resumeDownstream
Resumes(s) == chunks[s] = 0

\* A copy of a stored record is resumed; when resumeDownstream cannot read, it is acknowledged
\* as it is.  A failing existence check is a Nak.
Dedupe ==
    /\ h.pc = "dedupe"
    /\ \/ /\ h.src \in stored /\ BumpOther
          /\ \/ Goto(IF Resumes(h.src) THEN "chunk" ELSE "ack") /\ UNCHANGED <<damaged, incidents>>
             \/ Fault /\ Goto("ack") /\ damaged' = damaged \cup {h.src}
       \/ h.src \notin stored /\ Goto("budget") /\ UNCHANGED <<pass, damaged, incidents>>
       \/ Fault /\ BumpOther /\ Goto("nak") /\ UNCHANGED damaged
    /\ UNCHANGED <<broker, store, closing, logged, lostCount, gov, spent, saved, halted>>

\* Mutant of CanAdmit: the limit may be passed by one.
CanAdmitOneMore(p) == MaxRecordsPerPass <= 0 \/ p.admitted <= MaxRecordsPerPass

CanAdmit(p) == MaxRecordsPerPass <= 0 \/ p.admitted + 1 <= MaxRecordsPerPass

\* closePass: the pass is taken out under passMu, its row written later.
TakeOut(x) == closing' = [closing EXCEPT ![x] = pass] /\ pass' = NoPass

\* The budget of the pass; one that is full is closed and a new one opened.
Budget ==
    /\ h.pc = "budget"
    /\ Goto("cost")
    /\ \/ CanAdmit(pass) /\ pass' = [pass EXCEPT !.open = TRUE] /\ UNCHANGED closing
       \/ ~CanAdmit(pass) /\ TakeOut("handler")
    /\ UNCHANGED <<broker, store, logged, lostCount, gov, spent, saved, halted, damaged, incidents>>

\* writePassRow: it is appended, or a failure is logged and the counts are gone.
WriteRow(x) ==
    /\ closing[x].open
    /\ \/ logged' = logged + closing[x].admitted /\ UNCHANGED <<lostCount, incidents>>
       \/ Fault /\ lostCount' = lostCount + closing[x].admitted /\ UNCHANGED logged
    /\ closing' = [closing EXCEPT ![x] = NoPass]
    /\ UNCHANGED <<broker, store, h, pass, gov, spent, saved, halted, damaged>>

\* The ceiling of the connector: past it the pass ends, the cost starts anew, and the record
\* is dropped.
Cost ==
    /\ h.pc = "cost" /\ ~closing["handler"].open
    /\ IF ConnectorTripped(spent + 1, ConnectorCeiling)
       THEN TakeOut("handler") /\ spent' = 0 /\ Goto("ack")
            /\ halted' = halted \cup {h.src}
       ELSE spent' = spent + 1 /\ Goto("save") /\ UNCHANGED <<pass, closing, halted>>
    /\ UNCHANGED <<broker, store, logged, lostCount, gov, saved, damaged, incidents>>

Save ==
    /\ h.pc = "save"
    /\ \/ /\ stored' = stored \cup {h.src} /\ saved' = saved + 1
          /\ h' = [h EXCEPT !.pc = "bump", !.fresh = TRUE]
          /\ UNCHANGED <<pass, incidents>>
       \/ Fault /\ BumpOther /\ Goto("nak") /\ UNCHANGED <<stored, saved>>
    /\ UNCHANGED <<broker, chunks, entities, links, closing, logged, lostCount, gov, spent, halted, damaged>>

Bump ==
    /\ h.pc = "bump"
    /\ BumpAdmitted /\ Goto("chunk")
    /\ UNCHANGED <<broker, store, closing, logged, lostCount, gov, spent, saved, halted, damaged, incidents>>

-----------------------------------------------------------------------------
(* RunStages                                                               *)

\* Chunks are inserted one by one, INSERT OR IGNORE; synthesis starts behind the last.
SaveChunk ==
    /\ h.pc = "chunk"
    /\ \/ h.at < Chunks
          /\ chunks' = [chunks EXCEPT ![h.src] = IF @ > h.at THEN @ ELSE h.at + 1]
          /\ h' = [h EXCEPT !.at = @ + 1]
       \/ h.at = Chunks /\ h' = [h EXCEPT !.pc = "synth", !.at = 1] /\ UNCHANGED chunks
    /\ UNCHANGED <<broker, stored, entities, links, passes, gov, spent, saved, halted, damaged, incidents>>

\* Mutant of Candidate: derivations are not looked up.
CandidateAgain ==
    /\ h.pc = "synth"
    /\ \/ h.at > Len(Candidates) /\ Goto("stages") /\ UNCHANGED entities
       \/ /\ h.at <= Len(Candidates)
          /\ \/ Goto("link") /\ entities' = [entities EXCEPT ![h.src][Key] = @ + 1]
             \/ Goto("link") /\ UNCHANGED entities
    /\ UNCHANGED <<broker, stored, chunks, links, passes, gov, spent, saved, halted, damaged, incidents>>

\* Synthesize for one candidate: a derivation that is linked is skipped, else the governor's
\* verdict says whether an entity is written; the link follows.
Candidate ==
    /\ h.pc = "synth"
    /\ \/ h.at > Len(Candidates) /\ Goto("stages") /\ UNCHANGED entities
       \/ /\ h.at <= Len(Candidates) /\ Key \in links[h.src]
          /\ h' = [h EXCEPT !.at = @ + 1] /\ UNCHANGED entities
       \/ /\ h.at <= Len(Candidates) /\ Key \notin links[h.src]
          /\ \/ Goto("link") /\ entities' = [entities EXCEPT ![h.src][Key] = @ + 1]
             \/ Goto("link") /\ UNCHANGED entities
    /\ UNCHANGED <<broker, stored, chunks, links, passes, gov, spent, saved, halted, damaged, incidents>>

Link ==
    /\ h.pc = "link"
    /\ links' = [links EXCEPT ![h.src] = @ \cup {Key}]
    /\ h' = [h EXCEPT !.pc = "synth", !.at = @ + 1]
    /\ UNCHANGED <<broker, stored, chunks, entities, passes, gov, spent, saved, halted, damaged, incidents>>

\* appendChunkMemory fails, at its lookup, its insert or its link: only logged, and synthesis
\* goes on with what follows.
MemoryFails ==
    /\ AtMemory /\ Fault
    /\ damaged' = damaged \cup {h.src}
    /\ h' = [h EXCEPT !.pc = "synth", !.at = @ + 1]
    /\ UNCHANGED <<broker, store, passes, gov, spent, saved, halted>>

\* A stage fails elsewhere: logged, counted for a new record, and acknowledged all the same.
StageFails ==
    /\ h.pc \in {"chunk", "synth", "link"} /\ ~AtMemory /\ Fault
    /\ damaged' = damaged \cup {h.src}
    /\ Goto("ack")
    /\ IF h.fresh THEN BumpOther ELSE UNCHANGED pass
    /\ UNCHANGED <<broker, store, closing, logged, lostCount, gov, spent, saved, halted>>

\* passBumpStages of a new record: opens a pass if the ticker took the last one.
StagesDone ==
    /\ h.pc = "stages"
    /\ Goto("ack")
    /\ IF h.fresh THEN BumpOther ELSE UNCHANGED pass
    /\ UNCHANGED <<broker, store, closing, logged, lostCount, gov, spent, saved, halted, damaged, incidents>>

-----------------------------------------------------------------------------
\* Ack and Nak of the message; an acknowledged one is not delivered again.
Respond ==
    /\ h.pc \in {"ack", "nak"} /\ ~closing["handler"].open
    /\ LET m == Head(pending)
       IN  mail' = [mail EXCEPT ![m] = IF h.pc = "ack" THEN "acked" ELSE IF @ = "out" THEN "ready" ELSE @]
    /\ pending' = Tail(pending)
    /\ h' = Idle
    /\ UNCHANGED <<store, passes, gov, spent, saved, halted, damaged, incidents>>

\* Mutant of FlushPasses: the pass stays in the map while its row is written.
FlushCopies ==
    /\ pass.open /\ ~closing["ticker"].open
    /\ closing' = [closing EXCEPT !["ticker"] = pass]
    /\ UNCHANGED <<broker, store, h, pass, logged, lostCount, gov, spent, saved, halted, damaged, incidents>>

\* The ticker's FlushPasses, also called at shutdown.
FlushPasses ==
    /\ pass.open /\ ~closing["ticker"].open
    /\ TakeOut("ticker")
    /\ UNCHANGED <<broker, store, h, logged, lostCount, gov, spent, saved, halted, damaged, incidents>>

\* Mutant of Crash: what was delivered is gone.
CrashForgets ==
    /\ Incident("crash")
    /\ pending' = <<>> /\ UNCHANGED mail
    /\ h' = Idle /\ pass' = NoPass /\ closing' = [x \in Closers |-> NoPass]
    /\ gov' = Fresh /\ spent' = 0
    /\ lostCount' = saved - logged
    /\ damaged' = damaged \cup {s \in Sources : h.src = s /\ chunks[s] > 0}
    /\ UNCHANGED <<store, logged, saved, halted>>

\* Crash and restart: open passes and counters are gone, what was not acknowledged comes again.
\* A source that has a first chunk is not resumed.
Crash ==
    /\ Incident("crash")
    /\ pending' = <<>>
    /\ mail' = [m \in Msgs |-> IF mail[m] = "out" THEN "ready" ELSE mail[m]]
    /\ h' = Idle /\ pass' = NoPass /\ closing' = [x \in Closers |-> NoPass]
    /\ gov' = Fresh /\ spent' = 0
    /\ lostCount' = saved - logged
    /\ damaged' = damaged \cup {s \in Sources : h.src = s /\ chunks[s] > 0}
    /\ UNCHANGED <<store, logged, saved, halted>>

HandlerStep ==
    \/ Begin \/ Dedupe \/ Budget \/ Cost \/ Save \/ Bump \/ SaveChunk \/ Candidate \/ Link
    \/ MemoryFails \/ StageFails \/ StagesDone \/ Respond \/ WriteRow("handler")

Next ==
    \/ \E m \in Msgs : Emit(m) \/ Deliver(m) \/ AckWaitExpires(m)
    \/ HandlerStep
    \/ FlushPasses \/ WriteRow("ticker")
    \/ Crash

Spec == Init /\ [][Next]_vars

\* The broker delivers, the handler's goroutine runs.
Fairness == WF_vars(HandlerStep) /\ \A m \in Msgs : WF_vars(Deliver(m))

FairSpec == Spec /\ Fairness

-----------------------------------------------------------------------------
(* Properties                                                              *)

Count(x) == closing[x].admitted
Unbumped == IF h.pc = "bump" THEN 1 ELSE 0

\* Every record saved is counted exactly once, in a row of the sync log or in a pass that is
\* still to be logged, however the ticker's flush falls between the worker's steps; only a
\* crash or a failed row write loses counts.
PassesAddUp ==
    saved = logged + pass.admitted + Count("handler") + Count("ticker") + Unbumped + lostCount

\* No pass admits more records than its budget, flushed or not.
BudgetIsKept ==
    MaxRecordsPerPass > 0 =>
        pass.admitted <= MaxRecordsPerPass /\ \A x \in Closers : Count(x) <= MaxRecordsPerPass

Refined(s) == s \in stored /\ chunks[s] = Chunks /\ links[s] = Keys

\* An acknowledged message has been refined to the end, by it or by another copy, unless the
\* ceiling dropped it, a stage, a chunk memory or the reads of its resumption failed, or the process died behind
\* its first chunk.
AcknowledgedIsRefined ==
    \A m \in Msgs : mail[m] = "acked" =>
        Refined(Source[m]) \/ Source[m] \in halted \cup damaged

\* A derivation key becomes at most one entity, although entity and link are two writes, a chunk
\* may name a contact twice, and records are delivered again.
EntityOncePerDerivation == \A s \in Sources, k \in Keys : entities[s][k] <= 1

\* A message that is well formed is answered, unless the action budget of the governor is used
\* up: then it comes back for ever.
RecordsSettle ==
    \A m \in Msgs \ Malformed : mail[m] = "ready" ~> (mail[m] = "acked" \/ ActionTripped(gov))
=============================================================================
