--------------------------- MODULE RefineryProofs ---------------------------
(***************************************************************************)
(* Proofs about Refinery, for every set of messages and every number of    *)
(* chunks, candidates, faults, crashes and redeliveries: the passes add up *)
(* and keep their budget, no derivation is written twice, and what is      *)
(* acknowledged is refined or accounted for.                               *)
(***************************************************************************)
EXTENDS Refinery, TLAPS

Pcs == {"idle", "nak", "dedupe", "budget", "cost", "save", "bump", "chunk", "synth", "link", "stages", "ack"}
Handler == [pc : Pcs, src : Sources \cup {"none"}, at : Nat, fresh : BOOLEAN]
PassRow == [open : BOOLEAN, admitted : Nat]

-----------------------------------------------------------------------------
(* The handler's record                                                    *)

LEMMA IdleTyped == Idle \in Handler /\ Idle.pc = "idle" /\ Idle.at = 0
  BY DEF Idle, Handler, Pcs

LEMMA NakTyped ==
    ASSUME h' = [Idle EXCEPT !.pc = "nak"]
    PROVE  h' \in Handler /\ h'.pc = "nak"
  BY DEF Idle, Handler, Pcs

LEMMA BegunTyped ==
    ASSUME NEW s \in Sources, h' = [Idle EXCEPT !.pc = "dedupe", !.src = s]
    PROVE  h' \in Handler /\ h'.pc = "dedupe" /\ h'.src = s /\ h'.at = 0
  BY DEF Idle, Handler, Pcs

LEMMA AtTyped ==
    ASSUME h \in Handler, NEW n \in Nat, h' = [h EXCEPT !.at = n]
    PROVE  h' \in Handler /\ h'.pc = h.pc /\ h'.src = h.src /\ h'.at = n
  BY DEF Handler

LEMMA MoveTyped ==
    ASSUME h \in Handler, NEW n \in Nat, NEW p \in Pcs, h' = [h EXCEPT !.pc = p, !.at = n]
    PROVE  h' \in Handler /\ h'.pc = p /\ h'.src = h.src /\ h'.at = n
  BY DEF Handler

LEMMA GotoTyped ==
    ASSUME h \in Handler, NEW p \in Pcs, Goto(p)
    PROVE  h' \in Handler /\ h'.pc = p /\ h'.src = h.src /\ h'.at = h.at
  BY DEF Goto, Handler

-----------------------------------------------------------------------------
(* The queue                                                               *)

\* What the subscription holds; the handler works on the message at its head.
QueueInv == pending \in Seq(Msgs) /\ (h.pc # "idle" => pending # <<>>)

LEMMA QueueInit == Init => QueueInv
  BY IdleTyped DEF Init, QueueInv

LEMMA QueueStep == ASSUME h \in Handler, QueueInv, [Next]_vars PROVE QueueInv'
<1>1. ASSUME NEW m \in Msgs, Emit(m) PROVE QueueInv'
  BY <1>1 DEF Emit, QueueInv
<1>2. ASSUME NEW m \in Msgs, Deliver(m) \/ AckWaitExpires(m) PROVE QueueInv'
  BY <1>2 DEF Deliver, AckWaitExpires, QueueInv
<1>3. CASE Respond
  <2>1. pending # <<>> /\ pending' = Tail(pending) /\ h' = Idle
    BY <1>3 DEF Respond, QueueInv
  <2>2. QED
    BY <2>1, IdleTyped DEF QueueInv
<1>4. CASE Begin
  BY <1>4 DEF Begin, QueueInv, broker
<1>5. CASE Dedupe \/ Budget \/ Cost \/ Save \/ Bump \/ SaveChunk \/ Candidate \/ Link \/ MemoryFails \/ StageFails \/ StagesDone
  <2>1. h.pc # "idle" /\ pending' = pending
    BY <1>5 DEF Dedupe, Budget, Cost, Save, Bump, SaveChunk, Candidate, Link, MemoryFails, AtMemory, StageFails, StagesDone, broker
  <2>2. QED
    BY <2>1 DEF QueueInv
<1>6. ASSUME NEW x \in Closers, WriteRow(x) PROVE QueueInv'
  BY <1>6 DEF WriteRow, QueueInv, broker
<1>7. CASE FlushPasses
  BY <1>7 DEF FlushPasses, QueueInv, broker
<1>8. CASE Crash
  BY <1>8, IdleTyped DEF Crash, QueueInv
<1>9. CASE UNCHANGED vars
  BY <1>9 DEF vars, broker, QueueInv
<1>10. QED
  BY <1>1, <1>2, <1>3, <1>4, <1>5, <1>6, <1>7, <1>8, <1>9 DEF Next, HandlerStep, Closers

-----------------------------------------------------------------------------
(* The passes                                                              *)

\* The inductive invariant of the counts: a slot of a row that is being written is free again
\* before it is needed, and behind the budget check one more record fits the open pass.
PassInv ==
    /\ h \in Handler
    /\ pass \in PassRow /\ closing \in [Closers -> PassRow]
    /\ logged \in Nat /\ saved \in Nat /\ lostCount \in Int
    /\ pass.open \/ pass.admitted = 0
    /\ \A x \in Closers : closing[x].open \/ closing[x].admitted = 0
    /\ closing["handler"].open => h.pc \in {"cost", "ack"}
    /\ h.pc \in {"cost", "save", "bump"} => CanAdmit(pass)
    /\ PassesAddUp
    /\ BudgetIsKept

LEMMA NoPassTyped == NoPass \in PassRow /\ NoPass.open = FALSE /\ NoPass.admitted = 0 /\ CanAdmit(NoPass)
  BY RefineryBounds DEF NoPass, PassRow, CanAdmit

LEMMA BumpOtherTyped ==
    ASSUME pass \in PassRow, BumpOther
    PROVE  pass' \in PassRow /\ pass'.open = TRUE /\ pass'.admitted = pass.admitted
  BY DEF BumpOther, PassRow

LEMMA PassInit == Init => PassInv
<1> SUFFICES ASSUME Init PROVE PassInv
  OBVIOUS
<1>1. pass = NoPass /\ h = Idle /\ \A x \in Closers : closing[x] = NoPass
  BY DEF Init
<1>2. /\ h \in Handler /\ h.pc = "idle" /\ pass \in PassRow /\ closing \in [Closers -> PassRow]
      /\ logged = 0 /\ saved = 0 /\ lostCount = 0
  BY <1>1, NoPassTyped, IdleTyped DEF Init
<1>3. PassesAddUp /\ BudgetIsKept
  BY <1>1, <1>2, NoPassTyped, RefineryBounds DEF PassesAddUp, BudgetIsKept, Count, Unbumped, Closers
<1>4. QED
  BY <1>1, <1>2, <1>3, NoPassTyped DEF PassInv, Closers

\* Steps that count nothing.
LEMMA PassFrame ==
    ASSUME PassInv, h' \in Handler, pass' \in PassRow, pass'.admitted = pass.admitted,
           pass'.open \/ pass'.admitted = 0, UNCHANGED <<closing, logged, lostCount, saved>>,
           h'.pc = "bump" <=> h.pc = "bump",
           closing["handler"].open => h'.pc \in {"cost", "ack"},
           h'.pc \in {"cost", "save", "bump"} => h.pc \in {"cost", "save", "bump"}
    PROVE  PassInv'
<1>1. PassesAddUp' /\ BudgetIsKept'
  BY DEF PassInv, PassesAddUp, BudgetIsKept, Count, Unbumped
<1>2. h'.pc \in {"cost", "save", "bump"} => CanAdmit(pass)'
  BY DEF PassInv, CanAdmit
<1>3. QED
  BY <1>1, <1>2 DEF PassInv

\* A pass taken out to be logged.
LEMMA TakeOutStep ==
    ASSUME PassInv, NEW x \in Closers, TakeOut(x), ~closing[x].open, h' \in Handler,
           UNCHANGED <<logged, lostCount, saved>>, h'.pc = "bump" <=> h.pc = "bump",
           closing'["handler"].open => h'.pc \in {"cost", "ack"}
    PROVE  PassInv'
<1>1. /\ pass' = NoPass /\ closing' \in [Closers -> PassRow] /\ closing'[x] = pass
      /\ \A y \in Closers \ {x} : closing'[y] = closing[y]
  BY DEF TakeOut, PassInv
<1>2. closing[x].admitted = 0
  BY DEF PassInv
<1>3. pass.admitted + Count("handler") + Count("ticker") = pass'.admitted + Count("handler")' + Count("ticker")'
  <2>1. pass.admitted \in Nat /\ \A y \in Closers : closing[y].admitted \in Nat
    BY DEF PassInv, PassRow
  <2>2. CASE x = "handler"
    BY <1>1, <1>2, <2>1, <2>2, NoPassTyped DEF Count, Closers
  <2>3. CASE x = "ticker"
    BY <1>1, <1>2, <2>1, <2>3, NoPassTyped DEF Count, Closers
  <2>4. QED
    BY <2>2, <2>3 DEF Closers
<1>4. PassesAddUp'
  <2>1. /\ pass.admitted \in Nat /\ pass'.admitted \in Nat
        /\ \A y \in Closers : closing[y].admitted \in Nat /\ closing'[y].admitted \in Nat
    BY <1>1, NoPassTyped DEF PassInv, PassRow
  <2>2. QED
    BY <1>3, <2>1 DEF PassInv, PassesAddUp, Unbumped, Count, Closers
<1>5. BudgetIsKept'
  BY <1>1, NoPassTyped, RefineryBounds DEF PassInv, BudgetIsKept, Count
<1>6. QED
  BY <1>1, <1>4, <1>5, NoPassTyped DEF PassInv

LEMMA BudgetStep == ASSUME PassInv, Budget PROVE PassInv'
<1>1. h' \in Handler /\ h'.pc = "cost" /\ h.pc = "budget"
  BY GotoTyped DEF Budget, PassInv, Pcs
<1>2. ~closing["handler"].open
  BY <1>1 DEF PassInv
<1>3. CASE CanAdmit(pass) /\ pass' = [pass EXCEPT !.open = TRUE] /\ UNCHANGED closing
  <2>1. pass' \in PassRow /\ pass'.admitted = pass.admitted /\ pass'.open
    BY <1>3 DEF PassInv, PassRow
  <2>2. PassesAddUp' /\ BudgetIsKept' /\ CanAdmit(pass)'
    BY <1>1, <1>3, <2>1 DEF Budget, PassInv, PassesAddUp, BudgetIsKept, Count, Unbumped, CanAdmit
  <2>3. QED
    BY <1>1, <1>3, <2>1, <2>2 DEF Budget, PassInv
<1>4. CASE ~CanAdmit(pass) /\ TakeOut("handler")
  BY <1>1, <1>2, <1>4, TakeOutStep DEF Budget, Closers
<1>5. QED
  BY <1>3, <1>4 DEF Budget

LEMMA WriteStep == ASSUME PassInv, NEW x \in Closers, WriteRow(x) PROVE PassInv'
<1>1. /\ closing' \in [Closers -> PassRow] /\ closing'[x] = NoPass
      /\ \A y \in Closers \ {x} : closing'[y] = closing[y]
  BY NoPassTyped DEF WriteRow, PassInv
<1>2. UNCHANGED <<h, pass, saved>>
  BY DEF WriteRow
<1>3. \/ logged' = logged + closing[x].admitted /\ lostCount' = lostCount
      \/ lostCount' = lostCount + closing[x].admitted /\ logged' = logged
  BY DEF WriteRow
<1>4. \A y \in Closers : closing[y].admitted \in Nat
  BY DEF PassInv, PassRow
<1>5. logged' \in Nat /\ lostCount' \in Int
  BY <1>3, <1>4 DEF PassInv
<1>6. PassesAddUp'
  <2>0. pass.admitted \in Nat
    BY DEF PassInv, PassRow
  <2>1. CASE x = "handler"
    BY <1>1, <1>2, <1>3, <1>4, <2>0, <2>1, NoPassTyped DEF PassInv, PassesAddUp, Count, Unbumped, Closers
  <2>2. CASE x = "ticker"
    BY <1>1, <1>2, <1>3, <1>4, <2>0, <2>2, NoPassTyped DEF PassInv, PassesAddUp, Count, Unbumped, Closers
  <2>3. QED
    BY <2>1, <2>2 DEF Closers
<1>7. BudgetIsKept'
  BY <1>1, <1>2, NoPassTyped, RefineryBounds DEF PassInv, BudgetIsKept, Count
<1>8. closing'["handler"].open => closing["handler"].open
  BY <1>1, NoPassTyped DEF Closers
<1>9. QED
  BY <1>1, <1>2, <1>5, <1>6, <1>7, <1>8, NoPassTyped DEF PassInv, CanAdmit

LEMMA SaveStep == ASSUME PassInv, Save PROVE PassInv'
<1>1. CASE /\ saved' = saved + 1 /\ h' = [h EXCEPT !.pc = "bump", !.fresh = TRUE] /\ UNCHANGED pass
  <2>1. h' \in Handler /\ h'.pc = "bump" /\ h.pc = "save"
    BY <1>1 DEF Save, PassInv, Handler, Pcs
  <2>2. pass.admitted \in Nat /\ \A y \in Closers : closing[y].admitted \in Nat
    BY DEF PassInv, PassRow
  <2>3. PassesAddUp' /\ BudgetIsKept'
    BY <1>1, <2>1, <2>2 DEF Save, PassInv, PassesAddUp, BudgetIsKept, Count, Unbumped, Closers
  <2>4. QED
    BY <1>1, <2>1, <2>3 DEF Save, PassInv, CanAdmit
<1>2. CASE BumpOther /\ Goto("nak") /\ UNCHANGED saved
  <2>1. h' \in Handler /\ h'.pc = "nak" /\ h.pc = "save"
    BY <1>2, GotoTyped DEF Save, PassInv, Pcs
  <2>2. ~closing["handler"].open
    BY <2>1 DEF PassInv
  <2>3. pass' \in PassRow /\ pass'.open = TRUE /\ pass'.admitted = pass.admitted
    BY <1>2, BumpOtherTyped DEF PassInv
  <2>4. QED
    BY <1>2, <2>1, <2>2, <2>3, PassFrame DEF Save
<1>3. QED
  BY <1>1, <1>2 DEF Save

LEMMA BumpStep == ASSUME PassInv, Bump PROVE PassInv'
<1>1. h' \in Handler /\ h'.pc = "chunk" /\ h.pc = "bump"
  BY GotoTyped DEF Bump, PassInv, Pcs
<1>2. pass' \in PassRow /\ pass'.open = TRUE /\ pass'.admitted = pass.admitted + 1
  <2>1. pass \in PassRow /\ pass.admitted + 1 \in Nat
    BY DEF PassInv, PassRow
  <2>2. pass' = [pass EXCEPT !.open = TRUE, !.admitted = pass.admitted + 1]
    BY DEF Bump, BumpAdmitted
  <2>3. QED
    BY <2>1, <2>2 DEF PassRow
<1>3. pass.admitted \in Nat /\ \A y \in Closers : closing[y].admitted \in Nat
  BY DEF PassInv, PassRow
<1>4. PassesAddUp'
  BY <1>1, <1>2, <1>3 DEF Bump, PassInv, PassesAddUp, Count, Unbumped, Closers
<1>5. BudgetIsKept'
  BY <1>1, <1>2, <1>3, RefineryBounds DEF Bump, PassInv, CanAdmit, BudgetIsKept, Count
<1>6. QED
  BY <1>1, <1>2, <1>4, <1>5 DEF Bump, PassInv

LEMMA CostStep == ASSUME PassInv, Cost PROVE PassInv'
<1>1. CASE TakeOut("handler") /\ Goto("ack")
  <2>1. h' \in Handler /\ h'.pc = "ack" /\ h.pc = "cost"
    BY <1>1, GotoTyped DEF Cost, PassInv, Pcs
  <2>2. QED
    BY <1>1, <2>1, TakeOutStep DEF Cost, Closers
<1>2. CASE Goto("save") /\ UNCHANGED <<pass, closing>>
  <2>1. h' \in Handler /\ h'.pc = "save" /\ h.pc = "cost"
    BY <1>2, GotoTyped DEF Cost, PassInv, Pcs
  <2>2. QED
    BY <1>2, <2>1, PassFrame DEF Cost, PassInv
<1>3. QED
  BY <1>1, <1>2 DEF Cost

LEMMA FlushStep == ASSUME PassInv, FlushPasses PROVE PassInv'
<1>1. closing'["handler"] = closing["handler"]
  BY DEF FlushPasses, TakeOut, PassInv, Closers
<1>2. QED
  BY <1>1, TakeOutStep DEF FlushPasses, PassInv, Closers

LEMMA CrashStep == ASSUME PassInv, Crash PROVE PassInv'
<1>1. h' = Idle /\ pass' = NoPass /\ logged' = logged /\ saved' = saved /\ lostCount' = saved - logged
  BY DEF Crash
<1>2. closing' \in [Closers -> PassRow] /\ \A x \in Closers : closing'[x] = NoPass
  BY NoPassTyped DEF Crash
<1>3. h' \in Handler /\ h'.pc = "idle"
  BY <1>1, IdleTyped
<1>4. saved \in Nat /\ logged \in Nat /\ lostCount' \in Int
  BY <1>1 DEF PassInv
<1>5. PassesAddUp'
  BY <1>1, <1>2, <1>3, <1>4, NoPassTyped DEF PassesAddUp, Count, Unbumped, Closers
<1>6. BudgetIsKept'
  BY <1>1, <1>2, NoPassTyped, RefineryBounds DEF BudgetIsKept, Count
<1>7. closing'["handler"].open = FALSE
  BY <1>2, NoPassTyped DEF Closers
<1>8. QED
  BY <1>1, <1>2, <1>3, <1>4, <1>5, <1>6, <1>7, NoPassTyped DEF PassInv

\* The handler's other steps: they move on from a place where no row is being written, and at
\* most open the pass.
LEMMA OtherSteps ==
    ASSUME QueueInv, PassInv,
           Begin \/ Dedupe \/ SaveChunk \/ Candidate \/ Link \/ MemoryFails \/ StageFails \/ StagesDone \/ Respond
    PROVE  PassInv'
<1>1. /\ h.pc \notin {"cost", "save", "bump"}
      /\ ~closing["handler"].open
      /\ UNCHANGED <<closing, logged, lostCount, saved>>
  BY DEF PassInv, Begin, Dedupe, SaveChunk, Candidate, Link, MemoryFails, AtMemory, StageFails, StagesDone, Respond, passes
<1>2. pass' = pass \/ BumpOther
  BY DEF Begin, Dedupe, SaveChunk, Candidate, Link, MemoryFails, AtMemory, StageFails, StagesDone, Respond, passes
<1>3. pass' \in PassRow /\ pass'.admitted = pass.admitted /\ (pass'.open \/ pass'.admitted = 0)
  BY <1>2, BumpOtherTyped DEF PassInv
<1>4. h' \in Handler /\ h'.pc \notin {"cost", "save", "bump"}
  <2>1. CASE Begin
    <3>1. Src \in Sources
      BY <2>1 DEF Begin, QueueInv, Src, Sources
    <3>2. \/ h' = [Idle EXCEPT !.pc = "nak"]
          \/ h' = [Idle EXCEPT !.pc = "dedupe", !.src = Src]
      BY <2>1 DEF Begin
    <3>3. QED
      BY <3>1, <3>2, NakTyped, BegunTyped
  <2>2. CASE Dedupe \/ StageFails \/ StagesDone
    BY <2>2, GotoTyped DEF Dedupe, StageFails, StagesDone, PassInv, Pcs
  <2>3. CASE SaveChunk
    <3>1. h \in Handler /\ h.at + 1 \in Nat /\ 1 \in Nat /\ "synth" \in Pcs /\ h.pc = "chunk"
      BY <2>3 DEF SaveChunk, PassInv, Handler, Pcs
    <3>2. h' = [h EXCEPT !.at = h.at + 1] \/ h' = [h EXCEPT !.pc = "synth", !.at = 1]
      BY <2>3 DEF SaveChunk
    <3>3. QED
      BY <3>1, <3>2, AtTyped, MoveTyped
  <2>4. CASE Candidate
    <3>1. h \in Handler /\ h.at + 1 \in Nat /\ h.pc = "synth"
      BY <2>4 DEF Candidate, PassInv, Handler
    <3>2. h' = [h EXCEPT !.at = h.at + 1] \/ Goto("stages") \/ Goto("link")
      BY <2>4 DEF Candidate
    <3>3. QED
      BY <3>1, <3>2, AtTyped, GotoTyped DEF Pcs
  <2>5. CASE Link \/ MemoryFails
    <3>1. h \in Handler /\ h.at + 1 \in Nat /\ "synth" \in Pcs
      BY DEF PassInv, Handler, Pcs
    <3>2. h' = [h EXCEPT !.pc = "synth", !.at = h.at + 1]
      BY <2>5 DEF Link, MemoryFails
    <3>3. QED
      BY <3>1, <3>2, MoveTyped
  <2>6. CASE Respond
    BY <2>6, IdleTyped DEF Respond
  <2>7. QED
    BY <2>1, <2>2, <2>3, <2>4, <2>5, <2>6
<1>5. QED
  BY <1>1, <1>3, <1>4, PassFrame

LEMMA PassStep == ASSUME QueueInv, PassInv, [Next]_vars PROVE PassInv'
<1>1. ASSUME NEW m \in Msgs, Emit(m) \/ Deliver(m) \/ AckWaitExpires(m) PROVE PassInv'
  BY <1>1, PassFrame DEF Emit, Deliver, AckWaitExpires, passes, PassInv
<1>2. CASE Begin \/ Dedupe \/ SaveChunk \/ Candidate \/ Link \/ MemoryFails \/ StageFails \/ StagesDone \/ Respond
  BY <1>2, OtherSteps
<1>3. CASE Budget \/ Cost \/ Save \/ Bump \/ FlushPasses \/ Crash
  BY <1>3, BudgetStep, CostStep, SaveStep, BumpStep, FlushStep, CrashStep
<1>4. ASSUME NEW x \in Closers, WriteRow(x) PROVE PassInv'
  BY <1>4, WriteStep
<1>5. CASE UNCHANGED vars
  BY <1>5, PassFrame DEF vars, passes, PassInv
<1>6. QED
  BY <1>1, <1>2, <1>3, <1>4, <1>5 DEF Next, HandlerStep, Closers

LEMMA PassesInvariant == Spec => [](QueueInv /\ PassInv)
<1>1. Init => QueueInv /\ PassInv
  BY QueueInit, PassInit
<1>2. QueueInv /\ PassInv /\ [Next]_vars => (QueueInv /\ PassInv)'
  BY QueueStep, PassStep DEF PassInv
<1>3. QED
  BY <1>1, <1>2, PTL DEF Spec

\* Every record the worker saves is counted in exactly one pass, however closePass, FlushPasses
\* and the worker's bumps interleave.
THEOREM PassesAlwaysAddUp == Spec => []PassesAddUp
<1>1. QueueInv /\ PassInv => PassesAddUp
  BY DEF PassInv
<1>2. QED
  BY <1>1, PassesInvariant, PTL

\* CanAdmit is checked long before the record is counted, and still no pass exceeds its budget.
THEOREM BudgetIsAlwaysKept == Spec => []BudgetIsKept
<1>1. QueueInv /\ PassInv => BudgetIsKept
  BY DEF PassInv
<1>2. QED
  BY <1>1, PassesInvariant, PTL

-----------------------------------------------------------------------------
(***************************************************************************)
(* The stages: no derivation key is written twice, and an acknowledged    *)
(* record is refined or accounted for.                                     *)
(***************************************************************************)

Stages == {"chunk", "synth", "link", "stages"}

Settled(s) == Refined(s) \/ s \in halted \cup damaged
Untouched(s) == links[s] = {} /\ \A k \in Keys : entities[s][k] = 0

StoreTyped ==
    /\ mail \in [Msgs -> {"none", "ready", "out", "acked"}]
    /\ stored \subseteq Sources
    /\ chunks \in [Sources -> 0..Chunks]
    /\ entities \in [Sources -> [Keys -> Nat]]
    /\ links \in [Sources -> SUBSET Keys]

\* The handler works on the message at the head of the queue.
HeadInv == h.pc \notin {"idle", "nak"} => h.src = Source[Head(pending)]

\* Chunks follow the record, entities and links follow the chunks.
StoreInv ==
    \A s \in Sources :
        /\ s \notin stored => chunks[s] = 0
        /\ chunks[s] = 0 => Untouched(s)
        /\ \A k \in Keys : entities[s][k] <= 1

\* A memory that failed is passed over; it may have been written without its link.
Skipped(i) == Candidates[i] \in Memories /\ h.src \in damaged
GoneBy(k) == k \in Memories /\ \E i \in 1..(h.at - 1) : k = Candidates[i]

\* What the handler has done for its record, by the place it is at.
PlaceInv ==
    /\ h.pc \in {"dedupe", "budget", "cost", "save", "bump"} => h.at = 0
    /\ h.pc \in {"budget", "cost", "save"} => h.src \notin stored
    /\ h.pc = "bump" => h.src \in stored /\ chunks[h.src] = 0
    /\ h.pc = "chunk" => h.src \in stored /\ chunks[h.src] = h.at /\ Untouched(h.src)
    /\ h.pc \in {"synth", "link"} =>
         /\ h.src \in stored /\ chunks[h.src] = Chunks
         /\ h.at \in 1..(Len(Candidates) + 1)
         /\ \A i \in 1..(h.at - 1) : Candidates[i] \in links[h.src] \/ Skipped(i)
         /\ \A k \in Keys : entities[h.src][k] = 0 \/ k \in links[h.src] \/ GoneBy(k) \/ (h.pc = "link" /\ k = Key)
    /\ h.pc = "link" => h.at <= Len(Candidates)
    /\ h.pc \in {"stages", "ack"} => Settled(h.src)

\* A source that is left behind its first chunk is refined, or it is known why not.
LeftSettled == \A s \in Sources : chunks[s] > 0 => Settled(s) \/ (h.src = s /\ h.pc \in Stages)

\* The inductive invariant.
StageInv ==
    /\ h \in Handler /\ QueueInv /\ StoreTyped
    /\ HeadInv /\ StoreInv /\ PlaceInv /\ LeftSettled
    /\ AcknowledgedIsRefined

LEMMA CandidatesTyped ==
    /\ Chunks \in Nat /\ Len(Candidates) \in Nat
    /\ \A i \in 1..Len(Candidates) : Candidates[i] \in Keys
    /\ \A k \in Keys : \E i \in 1..Len(Candidates) : k = Candidates[i]
    /\ Chunks = 0 => Keys = {}
  BY RefineryBounds, CandidatesOfChunks DEF Keys

LEMMA SourceTyped == \A m \in Msgs : Source[m] \in Sources
  BY DEF Sources

LEMMA HandlerAtSource == ASSUME StageInv, h.pc \notin {"idle", "nak"} PROVE h.src \in Sources
<1>1. Head(pending) \in Msgs
  BY DEF StageInv, QueueInv
<1>2. QED
  BY <1>1, SourceTyped DEF StageInv, HeadInv

LEMMA StageInit == Init => StageInv
<1> SUFFICES ASSUME Init PROVE StageInv
  OBVIOUS
<1>1. h \in Handler /\ h.pc = "idle" /\ QueueInv
  BY IdleTyped, QueueInit DEF Init
<1>2. StoreTyped /\ StoreInv /\ LeftSettled /\ AcknowledgedIsRefined
  BY CandidatesTyped DEF Init, StoreTyped, StoreInv, Untouched, LeftSettled, AcknowledgedIsRefined
<1>3. HeadInv /\ PlaceInv
  BY <1>1 DEF HeadInv, PlaceInv
<1>4. QED
  BY <1>1, <1>2, <1>3 DEF StageInv

\* Steps that write nothing: the handler's place is justified anew.
LEMMA StageFrame ==
    ASSUME StageInv, UNCHANGED store, halted \subseteq halted', damaged \subseteq damaged',
           h' \in Handler, QueueInv', HeadInv', PlaceInv',
           mail' \in [Msgs -> {"none", "ready", "out", "acked"}],
           \A m \in Msgs : mail'[m] = "acked" => mail[m] = "acked" \/ Settled(Source[m])',
           \A s \in Sources : h.src = s /\ h.pc \in Stages =>
               (h'.src = s /\ h'.pc \in Stages) \/ Settled(s)' \/ chunks[s] = 0
    PROVE  StageInv'
<1>1. StoreTyped' /\ StoreInv'
  BY DEF StageInv, store, StoreTyped, StoreInv, Untouched
<1>2. \A s : Settled(s) => Settled(s)'
  BY DEF Settled, Refined, store
<1>3. LeftSettled'
  BY <1>2 DEF StageInv, LeftSettled, store, StoreTyped
<1>4. AcknowledgedIsRefined'
  BY <1>2 DEF StageInv, AcknowledgedIsRefined, Settled
<1>5. QED
  BY <1>1, <1>3, <1>4 DEF StageInv

\* The broker's steps: the head of a queue that is not empty stays.
LEMMA BrokerStep ==
    ASSUME StageInv, QueueInv', NEW m \in Msgs, Emit(m) \/ Deliver(m) \/ AckWaitExpires(m)
    PROVE  StageInv'
<1>1. UNCHANGED <<h, store, halted, damaged>>
  BY DEF Emit, Deliver, AckWaitExpires
<1>2. /\ mail' \in [Msgs -> {"none", "ready", "out", "acked"}]
      /\ \A n \in Msgs : mail'[n] = "acked" => mail[n] = "acked"
  BY DEF Emit, Deliver, AckWaitExpires, StageInv, StoreTyped
<1>3. pending # <<>> => Head(pending') = Head(pending)
  BY DEF Emit, Deliver, AckWaitExpires, StageInv, QueueInv
<1>4. HeadInv' /\ PlaceInv'
  BY <1>1, <1>3 DEF StageInv, QueueInv, HeadInv, PlaceInv, Skipped, GoneBy, Untouched, Settled, Refined, Key, store
<1>5. QED
  BY <1>1, <1>2, <1>4, StageFrame DEF StageInv

\* Steps of the handler that write nothing and stay with the message.
LEMMA MoveFrame ==
    ASSUME StageInv, UNCHANGED <<broker, store>>, halted \subseteq halted', damaged \subseteq damaged',
           h' \in Handler, h.pc \notin {"idle", "nak"}, h'.pc # "idle", h'.src = h.src, PlaceInv',
           h.pc \in Stages => h'.pc \in Stages \cup {"ack"}
    PROVE  StageInv'
<1>1. HeadInv' /\ QueueInv'
  BY DEF StageInv, HeadInv, QueueInv, broker
<1>2. h'.pc = "ack" => Settled(h.src)'
  BY DEF PlaceInv
<1>3. \A s \in Sources : h.src = s /\ h.pc \in Stages => (h'.src = s /\ h'.pc \in Stages) \/ Settled(s)'
  BY <1>2 DEF Settled, Refined
<1>4. mail' \in [Msgs -> {"none", "ready", "out", "acked"}] /\ mail' = mail
  BY DEF StageInv, StoreTyped, broker
<1>5. QED
  BY <1>1, <1>3, <1>4, StageFrame

LEMMA BeginStep == ASSUME StageInv, Begin, QueueInv' PROVE StageInv'
<1>0. Src \in Sources /\ UNCHANGED <<broker, store, halted, damaged>> /\ h.pc = "idle"
  BY SourceTyped DEF Begin, StageInv, QueueInv, Src
<1>1. \/ h' \in Handler /\ h'.pc = "nak"
      \/ h' \in Handler /\ h'.pc = "dedupe" /\ h'.src = Src /\ h'.at = 0
  BY <1>0, NakTyped, BegunTyped DEF Begin
<1>2. HeadInv' /\ PlaceInv' /\ h' \in Handler
  BY <1>0, <1>1 DEF HeadInv, PlaceInv, broker, Src
<1>3. mail' \in [Msgs -> {"none", "ready", "out", "acked"}] /\ mail' = mail
  BY <1>0 DEF StageInv, StoreTyped, broker
<1>4. QED
  BY <1>0, <1>2, <1>3, StageFrame DEF Stages

\* A duplicate is left only when it is settled.
LEMMA DedupeStep == ASSUME StageInv, Dedupe PROVE StageInv'
<1>0. h \in Handler /\ h.pc = "dedupe" /\ h.at = 0 /\ h.src \in Sources
      /\ UNCHANGED <<broker, store, halted>> /\ damaged \subseteq damaged'
  BY HandlerAtSource DEF Dedupe, StageInv, PlaceInv
<1>1. chunks[h.src] \in Nat /\ (chunks[h.src] > 0 => Settled(h.src))
  BY <1>0, CandidatesTyped DEF StageInv, StoreTyped, LeftSettled, Stages
<1>2. CASE h.src \in stored /\ Resumes(h.src) /\ Goto("chunk")
  <2>1. h' \in Handler /\ h'.pc = "chunk" /\ h'.src = h.src /\ h'.at = h.at
    BY <1>0, <1>2, GotoTyped DEF Pcs
  <2>2. PlaceInv'
    BY <1>0, <1>2, <2>1 DEF StageInv, StoreInv, PlaceInv, Untouched, Resumes, store
  <2>3. QED
    BY <1>0, <2>1, <2>2, MoveFrame DEF Stages
<1>3. CASE h.src \in stored /\ ~Resumes(h.src) /\ Goto("ack")
  <2>1. h' \in Handler /\ h'.pc = "ack" /\ h'.src = h.src
    BY <1>0, <1>3, GotoTyped DEF Pcs
  <2>2. PlaceInv'
    BY <1>0, <1>1, <1>3, <2>1 DEF PlaceInv, Resumes, Settled, Refined, store
  <2>3. QED
    BY <1>0, <2>1, <2>2, MoveFrame DEF Stages
<1>4. CASE h.src \notin stored /\ Goto("budget")
  <2>1. h' \in Handler /\ h'.pc = "budget" /\ h'.src = h.src /\ h'.at = h.at
    BY <1>0, <1>4, GotoTyped DEF Pcs
  <2>2. PlaceInv'
    BY <1>0, <1>4, <2>1 DEF PlaceInv, store
  <2>3. QED
    BY <1>0, <2>1, <2>2, MoveFrame DEF Stages
<1>5. CASE h.src \in stored /\ Goto("ack") /\ damaged' = damaged \cup {h.src}
  <2>1. h' \in Handler /\ h'.pc = "ack" /\ h'.src = h.src
    BY <1>0, <1>5, GotoTyped DEF Pcs
  <2>2. PlaceInv'
    BY <1>0, <1>5, <2>1 DEF PlaceInv, Settled, store
  <2>3. QED
    BY <1>0, <2>1, <2>2, MoveFrame DEF Stages
<1>6. CASE Goto("nak")
  <2>1. h' \in Handler /\ h'.pc = "nak" /\ h'.src = h.src
    BY <1>0, <1>6, GotoTyped DEF Pcs
  <2>2. PlaceInv'
    BY <1>0, <1>6, <2>1 DEF PlaceInv, store
  <2>3. QED
    BY <1>0, <2>1, <2>2, MoveFrame DEF Stages
<1>7. QED
  BY <1>2, <1>3, <1>4, <1>5, <1>6 DEF Dedupe

\* Budget, Cost and Bump, and what ends the stages.
LEMMA GateStep == ASSUME StageInv, Budget \/ Cost \/ Bump \/ StageFails \/ StagesDone PROVE StageInv'
<1>0. h \in Handler /\ UNCHANGED <<broker, store>> /\ halted \subseteq halted' /\ damaged \subseteq damaged'
  BY DEF StageInv, Budget, Cost, Bump, StageFails, StagesDone
<1>1. CASE Budget
  <2>1. h' \in Handler /\ h'.pc = "cost" /\ h'.src = h.src /\ h'.at = h.at /\ h.pc = "budget"
    BY <1>0, <1>1, GotoTyped DEF Budget, Pcs
  <2>2. PlaceInv'
    BY <1>0, <2>1 DEF StageInv, PlaceInv, store
  <2>3. QED
    BY <1>0, <2>1, <2>2, MoveFrame DEF Stages
<1>2. CASE Cost
  <2>1. /\ h' \in Handler /\ h'.src = h.src /\ h'.at = h.at /\ h.pc = "cost"
        /\ h'.pc = "save" \/ (h'.pc = "ack" /\ halted' = halted \cup {h.src})
    BY <1>0, <1>2, GotoTyped DEF Cost, Pcs
  <2>2. PlaceInv'
    BY <1>0, <2>1 DEF StageInv, PlaceInv, Settled, store
  <2>3. QED
    BY <1>0, <2>1, <2>2, MoveFrame DEF Stages
<1>3. CASE Bump
  <2>1. h' \in Handler /\ h'.pc = "chunk" /\ h'.src = h.src /\ h'.at = h.at /\ h.pc = "bump"
    BY <1>0, <1>3, GotoTyped DEF Bump, Pcs
  <2>2. h.src \in Sources
    BY <2>1, HandlerAtSource
  <2>3. PlaceInv'
    BY <1>0, <2>1, <2>2 DEF StageInv, StoreInv, PlaceInv, Untouched, store
  <2>4. QED
    BY <1>0, <2>1, <2>3, MoveFrame DEF Stages
<1>4. CASE StageFails
  <2>1. /\ h' \in Handler /\ h'.pc = "ack" /\ h'.src = h.src /\ h.pc \in Stages
        /\ damaged' = damaged \cup {h.src}
    BY <1>0, <1>4, GotoTyped DEF StageFails, Pcs, Stages
  <2>2. PlaceInv'
    BY <2>1 DEF PlaceInv, Settled
  <2>3. QED
    BY <1>0, <2>1, <2>2, MoveFrame DEF Stages
<1>5. CASE StagesDone
  <2>1. h' \in Handler /\ h'.pc = "ack" /\ h'.src = h.src /\ h.pc = "stages"
    BY <1>0, <1>5, GotoTyped DEF StagesDone, Pcs
  <2>2. PlaceInv'
    BY <1>0, <2>1 DEF StageInv, PlaceInv, Settled, Refined, store
  <2>3. QED
    BY <1>0, <2>1, <2>2, MoveFrame DEF Stages
<1>6. QED
  BY <1>1, <1>2, <1>3, <1>4, <1>5

LEMMA RespondStep == ASSUME StageInv, Respond, QueueInv' PROVE StageInv'
<1>0. h' = Idle /\ h' \in Handler /\ h'.pc = "idle" /\ UNCHANGED <<store, halted, damaged>>
  BY IdleTyped DEF Respond
<1>1. h.pc \in {"ack", "nak"} /\ Head(pending) \in Msgs
  BY DEF Respond, StageInv, QueueInv
<1>2. HeadInv' /\ PlaceInv'
  BY <1>0 DEF HeadInv, PlaceInv
<1>3. mail' \in [Msgs -> {"none", "ready", "out", "acked"}]
  BY <1>1 DEF Respond, StageInv, StoreTyped
<1>4. ASSUME NEW m \in Msgs, mail'[m] = "acked", mail[m] # "acked"
      PROVE  Settled(Source[m])'
  <2>1. m = Head(pending) /\ h.pc = "ack"
    BY <1>1, <1>4 DEF Respond, StageInv, StoreTyped
  <2>2. Settled(Source[m])
    BY <2>1 DEF StageInv, HeadInv, PlaceInv
  <2>3. QED
    BY <1>0, <2>2 DEF Settled, Refined, store
<1>5. QED
  BY <1>0, <1>1, <1>2, <1>3, <1>4, StageFrame DEF Stages

LEMMA CrashSettles == ASSUME StageInv, Crash, QueueInv' PROVE StageInv'
<1>0. h' = Idle /\ h' \in Handler /\ h'.pc = "idle" /\ UNCHANGED <<store, halted>>
  BY IdleTyped DEF Crash
<1>1. HeadInv' /\ PlaceInv'
  BY <1>0 DEF HeadInv, PlaceInv
<1>2. /\ mail' \in [Msgs -> {"none", "ready", "out", "acked"}]
      /\ \A m \in Msgs : mail'[m] = "acked" => mail[m] = "acked"
  BY DEF Crash, StageInv, StoreTyped
<1>3. damaged \subseteq damaged' /\ \A s \in Sources : h.src = s /\ chunks[s] > 0 => s \in damaged'
  BY DEF Crash
<1>4. \A s \in Sources : h.src = s => Settled(s)' \/ chunks[s] = 0
  BY <1>3, CandidatesTyped DEF Settled, StageInv, StoreTyped
<1>5. QED
  BY <1>0, <1>1, <1>2, <1>3, <1>4, StageFrame

LEMMA PassesStep ==
    ASSUME StageInv, QueueInv', FlushPasses \/ \E x \in Closers : WriteRow(x)
    PROVE  StageInv'
<1>1. UNCHANGED <<h, broker, store, halted, damaged>>
  BY DEF FlushPasses, WriteRow
<1>2. HeadInv' /\ PlaceInv' /\ h' \in Handler /\ mail' \in [Msgs -> {"none", "ready", "out", "acked"}]
  BY <1>1 DEF StageInv, HeadInv, PlaceInv, Skipped, GoneBy, Untouched, Settled, Refined, Key, store, broker, StoreTyped
<1>3. mail' = mail
  BY <1>1 DEF broker
<1>4. QED
  BY <1>1, <1>2, <1>3, StageFrame

-----------------------------------------------------------------------------
(* Steps that write for the handler's source s: what other sources have is *)
(* left alone, and what is settled stays settled.                          *)

LEMMA WriteFrame ==
    ASSUME StageInv, StoreTyped', UNCHANGED <<broker, halted, damaged>>,
           h.pc \in {"save", "chunk", "synth", "link"},
           h' \in Handler, h'.src = h.src, h'.pc \in Stages \cup {"bump"}, PlaceInv',
           h.pc = "save" => h'.pc = "bump" /\ chunks' = chunks,
           h.pc # "save" => h'.pc \in Stages,
           stored \subseteq stored',
           \A s \in Sources \ {h.src} :
               /\ s \in stored' <=> s \in stored
               /\ chunks'[s] = chunks[s] /\ entities'[s] = entities[s] /\ links'[s] = links[s],
           Refined(h.src) => Refined(h.src)',
           h.src \in stored',
           chunks'[h.src] = 0 => Untouched(h.src)',
           \A k \in Keys : entities'[h.src][k] <= 1
    PROVE  StageInv'
<1>0. h.src \in Sources
  BY HandlerAtSource DEF Stages
<1>1. HeadInv' /\ QueueInv'
  BY DEF StageInv, HeadInv, QueueInv, broker, Stages
<1>2. StoreInv'
  BY <1>0 DEF StageInv, StoreInv, Untouched
<1>3. ASSUME NEW s \in Sources, Settled(s) PROVE Settled(s)'
  <2>1. CASE s = h.src
    BY <1>3, <2>1 DEF Settled, Refined
  <2>2. CASE s # h.src
    BY <1>3, <2>2 DEF Settled, Refined
  <2>3. QED
    BY <2>1, <2>2
<1>4. LeftSettled'
  <2>1. ASSUME NEW s \in Sources, chunks'[s] > 0
        PROVE  Settled(s)' \/ (h'.src = s /\ h'.pc \in Stages)
    <3>1. CASE s = h.src
      BY <1>3, <2>1, <3>1 DEF StageInv, LeftSettled, Stages
    <3>2. CASE s # h.src
      BY <1>3, <2>1, <3>2 DEF StageInv, LeftSettled
    <3>3. QED
      BY <3>1, <3>2
  <2>2. QED
    BY <2>1 DEF LeftSettled
<1>5. AcknowledgedIsRefined'
  BY <1>3, SourceTyped DEF StageInv, AcknowledgedIsRefined, Settled, broker
<1>6. QED
  BY <1>1, <1>2, <1>4, <1>5 DEF StageInv

LEMMA SaveWrites == ASSUME StageInv, Save PROVE StageInv'
<1>0. h \in Handler /\ h.pc = "save" /\ h.src \in Sources /\ h.at = 0 /\ h.src \notin stored
  BY HandlerAtSource DEF Save, StageInv, PlaceInv
<1>1. CASE stored' = stored \cup {h.src} /\ h' = [h EXCEPT !.pc = "bump", !.fresh = TRUE]
  <2>1. h' \in Handler /\ h'.pc = "bump" /\ h'.src = h.src /\ h'.at = h.at
    BY <1>0, <1>1 DEF Handler, Pcs
  <2>2. UNCHANGED <<chunks, entities, links, broker, halted, damaged>>
    BY DEF Save
  <2>3. chunks[h.src] = 0 /\ Untouched(h.src)
    BY <1>0 DEF StageInv, StoreInv
  <2>4. PlaceInv'
    BY <1>0, <1>1, <2>1, <2>2, <2>3 DEF PlaceInv
  <2>5. StoreTyped'
    BY <1>0, <1>1, <2>2 DEF StageInv, StoreTyped, broker
  <2>6. Untouched(h.src)' /\ (Refined(h.src) => Refined(h.src)') /\ \A k \in Keys : entities'[h.src][k] <= 1
    BY <1>0, <1>1, <2>1, <2>2, <2>3 DEF Untouched, Refined, StageInv, StoreInv
  <2>7. QED
    BY <1>0, <1>1, <2>1, <2>2, <2>4, <2>5, <2>6, WriteFrame DEF Stages
<1>2. CASE Goto("nak") /\ UNCHANGED stored
  <2>1. h' \in Handler /\ h'.pc = "nak" /\ h'.src = h.src
    BY <1>0, <1>2, GotoTyped DEF Pcs
  <2>2. UNCHANGED <<broker, store, halted, damaged>>
    BY <1>2 DEF Save, store
  <2>3. PlaceInv'
    BY <2>1 DEF PlaceInv
  <2>4. QED
    BY <1>0, <2>1, <2>2, <2>3, MoveFrame DEF Stages
<1>3. QED
  BY <1>1, <1>2 DEF Save

LEMMA ChunkWrites == ASSUME StageInv, SaveChunk PROVE StageInv'
<1>0. /\ h \in Handler /\ h.pc = "chunk" /\ h.src \in Sources /\ h.src \in stored
      /\ chunks[h.src] = h.at /\ Untouched(h.src) /\ h.at \in Nat /\ h.at <= Chunks
  BY HandlerAtSource, CandidatesTyped DEF SaveChunk, StageInv, PlaceInv, StoreTyped, Handler
<1>u. UNCHANGED <<broker, stored, entities, links, halted, damaged>>
  BY DEF SaveChunk
<1>1. CASE /\ h.at < Chunks
           /\ chunks' = [chunks EXCEPT ![h.src] = IF @ > h.at THEN @ ELSE h.at + 1]
           /\ h' = [h EXCEPT !.at = @ + 1]
  <2>1. h' \in Handler /\ h'.pc = "chunk" /\ h'.src = h.src /\ h'.at = h.at + 1
    <3>1. h.at + 1 \in Nat /\ h' = [h EXCEPT !.at = h.at + 1]
      BY <1>0, <1>1
    <3>2. QED
      BY <1>0, <3>1, AtTyped
  <2>2. (IF chunks[h.src] > h.at THEN chunks[h.src] ELSE h.at + 1) = h.at + 1
    BY <1>0
  <2>3. /\ chunks' \in [Sources -> 0..Chunks] /\ chunks'[h.src] = h.at + 1
        /\ \A s \in Sources \ {h.src} : chunks'[s] = chunks[s]
    BY <1>0, <1>1, <2>2, CandidatesTyped DEF StageInv, StoreTyped
  <2>4. StoreTyped'
    BY <1>u, <2>3 DEF StageInv, StoreTyped, broker
  <2>5. PlaceInv'
    BY <1>0, <1>u, <2>1, <2>3 DEF PlaceInv, Untouched
  <2>6. ~Refined(h.src) /\ chunks'[h.src] # 0 /\ \A k \in Keys : entities'[h.src][k] <= 1
    BY <1>0, <1>1, <1>u, <2>3 DEF Refined, StageInv, StoreInv
  <2>7. QED
    BY <1>0, <1>u, <2>1, <2>3, <2>4, <2>5, <2>6, WriteFrame DEF Stages
<1>2. CASE h.at = Chunks /\ h' = [h EXCEPT !.pc = "synth", !.at = 1] /\ UNCHANGED chunks
  <2>1. h' \in Handler /\ h'.pc = "synth" /\ h'.src = h.src /\ h'.at = 1
    BY <1>0, <1>2, MoveTyped DEF Pcs
  <2>2. PlaceInv'
    BY <1>0, <1>2, <1>u, <2>1, CandidatesTyped DEF PlaceInv, Untouched
  <2>3. QED
    BY <1>0, <1>2, <1>u, <2>1, <2>2, MoveFrame DEF Stages, store
<1>3. QED
  BY <1>1, <1>2 DEF SaveChunk

LEMMA CandidateWrites == ASSUME StageInv, Candidate PROVE StageInv'
<1>0. /\ h \in Handler /\ h.pc = "synth" /\ h.src \in Sources /\ h.src \in stored
      /\ chunks[h.src] = Chunks /\ h.at \in 1..(Len(Candidates) + 1)
      /\ \A i \in 1..(h.at - 1) : Candidates[i] \in links[h.src] \/ Skipped(i)
      /\ \A k \in Keys : entities[h.src][k] = 0 \/ k \in links[h.src] \/ GoneBy(k)
      /\ links[h.src] \subseteq Keys
  BY HandlerAtSource DEF Candidate, StageInv, PlaceInv, StoreTyped
<1>u. UNCHANGED <<broker, stored, chunks, links, halted, damaged>>
  BY DEF Candidate
<1>1. CASE h.at > Len(Candidates) /\ Goto("stages") /\ UNCHANGED entities
  <2>1. h' \in Handler /\ h'.pc = "stages" /\ h'.src = h.src
    BY <1>0, <1>1, GotoTyped DEF Pcs
  <2>2. h.at - 1 = Len(Candidates)
    BY <1>0, <1>1, CandidatesTyped
  <2>3. links[h.src] = Keys \/ h.src \in damaged
    BY <1>0, <2>2, CandidatesTyped DEF Skipped
  <2>4. PlaceInv'
    BY <1>0, <1>u, <2>1, <2>3 DEF PlaceInv, Settled, Refined
  <2>5. QED
    BY <1>0, <1>1, <1>u, <2>1, <2>4, MoveFrame DEF Stages, store
<1>2. CASE /\ h.at <= Len(Candidates) /\ Key \in links[h.src]
           /\ h' = [h EXCEPT !.at = @ + 1] /\ UNCHANGED entities
  <2>1. h' \in Handler /\ h'.pc = "synth" /\ h'.src = h.src /\ h'.at = h.at + 1
    <3>1. h.at + 1 \in Nat /\ h' = [h EXCEPT !.at = h.at + 1]
      BY <1>0, <1>2
    <3>2. QED
      BY <1>0, <3>1, AtTyped
  <2>2. /\ \A i \in 1..(h'.at - 1) : Candidates[i] \in links[h.src] \/ Skipped(i)'
        /\ \A k : GoneBy(k) => GoneBy(k)'
    BY <1>0, <1>2, <1>u, <2>1, CandidatesTyped DEF Key, Skipped, GoneBy
  <2>3. h'.at \in 1..(Len(Candidates) + 1)
    BY <1>0, <1>2, <2>1, CandidatesTyped
  <2>4. PlaceInv'
    BY <1>0, <1>2, <1>u, <2>1, <2>2, <2>3 DEF PlaceInv
  <2>5. QED
    BY <1>0, <1>2, <1>u, <2>1, <2>4, MoveFrame DEF Stages, store
<1>3. CASE /\ h.at <= Len(Candidates) /\ Key \notin links[h.src] /\ Goto("link")
           /\ entities' = [entities EXCEPT ![h.src][Key] = @ + 1] \/ UNCHANGED entities
  <2>1. h' \in Handler /\ h'.pc = "link" /\ h'.src = h.src /\ h'.at = h.at
    BY <1>0, <1>3, GotoTyped DEF Pcs
  <2>2. Key \in Keys /\ Key' = Key /\ entities[h.src][Key] = 0
    <3>1. ~GoneBy(Key)
      BY <1>0, <1>3, CandidatesTyped, MemoriesAreDistinct DEF GoneBy, Key
    <3>2. QED
      BY <1>0, <1>3, <2>1, <3>1, CandidatesTyped DEF Key
  <2>g. /\ \A i \in 1..(h'.at - 1) : Skipped(i)' <=> Skipped(i)
        /\ \A k : GoneBy(k)' <=> GoneBy(k)
    BY <1>u, <2>1 DEF Skipped, GoneBy
  <2>3. CASE UNCHANGED entities
    <3>1. PlaceInv'
      BY <1>0, <1>3, <1>u, <2>1, <2>3, <2>g DEF PlaceInv
    <3>2. QED
      BY <1>0, <1>u, <2>1, <2>3, <3>1, MoveFrame DEF Stages, store
  <2>4. CASE entities' = [entities EXCEPT ![h.src][Key] = @ + 1]
    <3>1. /\ entities' \in [Sources -> [Keys -> Nat]] /\ entities'[h.src][Key] = 1
          /\ \A k \in Keys \ {Key} : entities'[h.src][k] = entities[h.src][k]
          /\ \A s \in Sources \ {h.src} : entities'[s] = entities[s]
      BY <1>0, <2>2, <2>4 DEF StageInv, StoreTyped
    <3>2. StoreTyped'
      BY <1>u, <3>1 DEF StageInv, StoreTyped, broker
    <3>3. PlaceInv'
      BY <1>0, <1>3, <1>u, <2>1, <2>2, <2>g, <3>1 DEF PlaceInv
    <3>4. \A k \in Keys : entities'[h.src][k] <= 1
      BY <1>0, <2>2, <3>1 DEF StageInv, StoreInv
    <3>5. (Refined(h.src) => Refined(h.src)') /\ chunks'[h.src] # 0
      BY <1>0, <1>u, <2>1, <2>2, CandidatesTyped DEF Refined
    <3>6. QED
      BY <1>0, <1>u, <2>1, <3>1, <3>2, <3>3, <3>4, <3>5, WriteFrame DEF Stages
  <2>5. QED
    BY <1>3, <2>3, <2>4
<1>4. QED
  BY <1>1, <1>2, <1>3 DEF Candidate

LEMMA LinkWrites == ASSUME StageInv, Link PROVE StageInv'
<1>0. /\ h \in Handler /\ h.pc = "link" /\ h.src \in Sources /\ h.src \in stored
      /\ chunks[h.src] = Chunks /\ h.at \in 1..Len(Candidates)
      /\ \A i \in 1..(h.at - 1) : Candidates[i] \in links[h.src] \/ Skipped(i)
      /\ \A k \in Keys : entities[h.src][k] = 0 \/ k \in links[h.src] \/ GoneBy(k) \/ k = Key
  BY HandlerAtSource, CandidatesTyped DEF Link, StageInv, PlaceInv
<1>1. Key \in Keys
  BY <1>0, CandidatesTyped DEF Key
<1>2. UNCHANGED <<broker, stored, chunks, entities, halted, damaged>>
  BY DEF Link
<1>3. h' \in Handler /\ h'.pc = "synth" /\ h'.src = h.src /\ h'.at = h.at + 1
  <2>1. h.at + 1 \in Nat /\ h' = [h EXCEPT !.pc = "synth", !.at = h.at + 1]
    BY <1>0 DEF Link
  <2>2. QED
    BY <1>0, <2>1, MoveTyped DEF Pcs
<1>4. /\ links' \in [Sources -> SUBSET Keys] /\ links'[h.src] = links[h.src] \cup {Key}
      /\ \A s \in Sources \ {h.src} : links'[s] = links[s]
  BY <1>0, <1>1 DEF Link, StageInv, StoreTyped
<1>5. StoreTyped'
  BY <1>2, <1>4 DEF StageInv, StoreTyped, broker
<1>6. /\ \A i \in 1..(h'.at - 1) : Candidates[i] \in links'[h.src] \/ Skipped(i)'
      /\ \A k : GoneBy(k) => GoneBy(k)'
  <2>1. \A i \in 1..(h'.at - 1) : i \in 1..(h.at - 1) \/ i = h.at
    BY <1>0, <1>3, CandidatesTyped
  <2>2. QED
    BY <1>0, <1>2, <1>3, <1>4, <2>1 DEF Key, Skipped, GoneBy
<1>7. h'.at \in 1..(Len(Candidates) + 1)
  BY <1>0, <1>3, CandidatesTyped
<1>8. PlaceInv'
  BY <1>0, <1>2, <1>3, <1>4, <1>6, <1>7 DEF PlaceInv
<1>9. /\ Refined(h.src) => Refined(h.src)'
      /\ chunks'[h.src] # 0
      /\ \A k \in Keys : entities'[h.src][k] <= 1
  BY <1>0, <1>1, <1>2, <1>3, <1>4, CandidatesTyped DEF Refined, StageInv, StoreInv
<1>10. QED
  BY <1>0, <1>2, <1>3, <1>4, <1>5, <1>8, <1>9, WriteFrame DEF Stages

\* A memory that fails is passed over with its source marked.
LEMMA MemoryPassed == ASSUME StageInv, MemoryFails PROVE StageInv'
<1>0. /\ h \in Handler /\ h.pc \in {"synth", "link"} /\ h.src \in stored
      /\ chunks[h.src] = Chunks /\ h.at \in 1..Len(Candidates) /\ Key \in Memories
      /\ \A i \in 1..(h.at - 1) : Candidates[i] \in links[h.src] \/ Skipped(i)
      /\ \A k \in Keys : entities[h.src][k] = 0 \/ k \in links[h.src] \/ GoneBy(k) \/ k = Key
  BY CandidatesTyped DEF MemoryFails, AtMemory, StageInv, PlaceInv
<1>1. UNCHANGED <<broker, store, halted>> /\ damaged' = damaged \cup {h.src}
  BY DEF MemoryFails
<1>2. h' \in Handler /\ h'.pc = "synth" /\ h'.src = h.src /\ h'.at = h.at + 1
  <2>1. h.at + 1 \in Nat /\ h' = [h EXCEPT !.pc = "synth", !.at = h.at + 1]
    BY <1>0 DEF MemoryFails
  <2>2. QED
    BY <1>0, <2>1, MoveTyped DEF Pcs
<1>3. /\ h'.at \in 1..(Len(Candidates) + 1)
      /\ \A i \in 1..(h'.at - 1) : i \in 1..(h.at - 1) \/ i = h.at
      /\ \A i \in 1..(h.at - 1) : i \in 1..(h'.at - 1)
      /\ h.at \in 1..(h'.at - 1)
  BY <1>0, <1>2, CandidatesTyped
<1>4. \A i \in 1..(h'.at - 1) : Candidates[i] \in links[h.src] \/ Skipped(i)'
  BY <1>0, <1>1, <1>2, <1>3 DEF Skipped, Key
<1>5. \A k \in Keys : entities[h.src][k] = 0 \/ k \in links[h.src] \/ GoneBy(k)'
  BY <1>0, <1>3 DEF GoneBy, Key
<1>6. PlaceInv'
  BY <1>0, <1>1, <1>2, <1>3, <1>4, <1>5 DEF PlaceInv, store
<1>7. QED
  BY <1>0, <1>1, <1>2, <1>6, MoveFrame DEF Stages

-----------------------------------------------------------------------------
LEMMA StageStep == ASSUME StageInv, [Next]_vars PROVE StageInv'
<1>q. QueueInv'
  BY QueueStep DEF StageInv
<1>1. ASSUME NEW m \in Msgs, Emit(m) \/ Deliver(m) \/ AckWaitExpires(m) PROVE StageInv'
  BY <1>1, <1>q, BrokerStep
<1>2. CASE Begin \/ Dedupe \/ Budget \/ Cost \/ Bump \/ StageFails \/ StagesDone \/ Respond
  BY <1>2, <1>q, BeginStep, DedupeStep, GateStep, RespondStep
<1>3. CASE Save \/ SaveChunk \/ Candidate \/ Link \/ MemoryFails
  BY <1>3, SaveWrites, ChunkWrites, CandidateWrites, LinkWrites, MemoryPassed
<1>4. CASE FlushPasses \/ \E x \in Closers : WriteRow(x)
  BY <1>4, <1>q, PassesStep
<1>5. CASE Crash
  BY <1>5, <1>q, CrashSettles
<1>6. CASE UNCHANGED vars
  <2>1. UNCHANGED <<h, broker, store, halted, damaged>>
    BY <1>6 DEF vars
  <2>2. HeadInv' /\ PlaceInv' /\ h' \in Handler /\ mail' = mail
    BY <2>1 DEF StageInv, HeadInv, PlaceInv, Skipped, GoneBy, Untouched, Settled, Refined, Key, store, broker
  <2>3. QED
    BY <1>q, <2>1, <2>2, StageFrame DEF StageInv, StoreTyped
<1>7. QED
  BY <1>1, <1>2, <1>3, <1>4, <1>5, <1>6 DEF Next, HandlerStep, Closers

LEMMA StagesInvariant == Spec => []StageInv
<1>1. StageInv /\ [Next]_vars => StageInv'
  BY StageStep
<1>2. QED
  BY <1>1, StageInit, PTL DEF Spec

\* An Ack of the worker means that the record's chunks and candidates are all persisted, or that
\* the ceiling, a failed stage or memory, or a crash behind its first chunk is the reason.
THEOREM AcknowledgedIsAlwaysRefined == Spec => []AcknowledgedIsRefined
<1>1. StageInv => AcknowledgedIsRefined
  BY DEF StageInv
<1>2. QED
  BY <1>1, StagesInvariant, PTL

\* Synthesize writes at most one entity for a derivation key, whatever is delivered again.
THEOREM EntityAlwaysOnce == Spec => []EntityOncePerDerivation
<1>1. StageInv => EntityOncePerDerivation
  BY DEF StageInv, StoreInv, EntityOncePerDerivation
<1>2. QED
  BY <1>1, StagesInvariant, PTL
=============================================================================
