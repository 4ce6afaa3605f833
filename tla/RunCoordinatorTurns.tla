------------------------- MODULE RunCoordinatorTurns -------------------------
(*****************************************************************************)
(* Why the run coordinator acts on an inbox item once, and why it           *)
(* implements SessionTurns.                                                 *)
(*                                                                          *)
(* The argument: SingleFlight makes loop and launch exclude each other, so  *)
(* that the item a dispatch or a launch is about is claimed by nobody else; *)
(* TurnInv says what the claimant knows of it (LoopInv, LaunchInv), that    *)
(* intake touches only rows nobody has seen (IntakeInv), and that a row, once*)
(* there, keeps its idempotency key (RetryInv).  TurnInv is inductive; the  *)
(* refinement needs all of it, step by step.                                *)
(*****************************************************************************)
EXTENDS RunCoordinatorTypes

-----------------------------------------------------------------------------
(* An item is acted on once                                                *)

turnVars == <<running, gpc, lpc, litem, lrun, gitem, inbox, ran, sub>>

\* TurnInv is about turnVars only.
LEMMA TurnUnchanged == TurnInv /\ UNCHANGED turnVars => TurnInv'
BY DEF TurnInv, turnVars, SingleFlight, LoopInv, LaunchInv, IntakeInv, RetryInv,
       ActedAtMostOnce, ConsumedBeforeActed, Dispatching, Untouched, KeyTaken

\* A launch may go on to any label from which it can no longer act on its item.
LEMMA LaunchMoves ==
    ASSUME TypeOK, TurnInv, NEW r \in Runs, NEW pc,
           gpc[r] # "none", pc # "none", pc # "activate",
           pc \in {"load", "consume"} => gpc[r] \in {"load", "consume"},
           gpc' = [gpc EXCEPT ![r] = pc],
           UNCHANGED <<running, lpc, litem, lrun, gitem, inbox, ran, sub>>
    PROVE  TurnInv'
<1>0. gpc \in [Runs -> LaunchPC]
  BY DEF TypeOK
<1>1. SingleFlight'
  BY <1>0 DEF TurnInv, SingleFlight
<1>2. LaunchInv'
  BY <1>0 DEF TurnInv, LaunchInv, Untouched
<1> QED BY <1>1, <1>2 DEF TurnInv, LoopInv, IntakeInv, RetryInv, ActedAtMostOnce,
                          ConsumedBeforeActed, Dispatching, Untouched, KeyTaken

\* Intake leaves the items loop and launches know of as they are.
InboxKeeps ==
    \A j \in Items : inbox[j].st \in {"pending", "consumed"} =>
        inbox'[j].st = inbox[j].st /\ inbox'[j].type = inbox[j].type

\* Rows are never deleted and keep their idempotency key.
KeysKept ==
    \A j \in Items : inbox[j].st # "none" =>
        inbox'[j].st # "none" /\ inbox'[j].key = inbox[j].key

\* So a submission that was a retry still is one.
LEMMA RetryKept ==
    ASSUME TurnInv, KeysKept, \A i \in Items : sub'[i].act = "supersede" =>
                                  sub'[i].act = sub[i].act /\ sub'[i].key = sub[i].key
    PROVE  RetryInv'
BY DEF TurnInv, RetryInv, KeyTaken, KeysKept

\* A step of intake that keeps those promises keeps TurnInv.
LEMMA IntakeMoves ==
    ASSUME TypeOK, TurnInv, InboxKeeps, IntakeInv', RetryInv',
           UNCHANGED <<running, gpc, lpc, litem, lrun, gitem, ran>>
    PROVE  TurnInv'
<1>1. LoopInv'
  BY DEF TurnInv, LoopInv, Dispatching, Untouched, InboxKeeps
<1>2. LaunchInv'
  BY DEF TurnInv, LaunchInv, Untouched, InboxKeeps
<1>3. ConsumedBeforeActed'
  BY DEF TurnInv, ConsumedBeforeActed, InboxKeeps
<1> QED BY <1>1, <1>2, <1>3 DEF TurnInv, SingleFlight, ActedAtMostOnce

\* The classifier keeps the key, and calls a submission a replacement only when
\* a pending row has its key.
KnownKey(s) == \E j \in ListPendingItems : s.key # None /\ inbox[j].key = s.key

\* What Classified does to the key and to the queue action.
LEMMA ClassifiedFacts ==
    ASSUME NEW s \in SubRec, NEW b, NEW c, c = [Classified(s, b) EXCEPT !.pc = "accept"]
    PROVE  c.key = s.key /\ (c.act = "supersede" => s.act = "supersede" \/ KnownKey(s))
<1>1. CASE s.paused
  BY <1>1 DEF Classified, SubRec
<1>2. CASE ~s.paused /\ KnownKey(s)
  BY <1>2 DEF Classified, SubRec, KnownKey
<1>3. CASE ~s.paused /\ ~KnownKey(s)
  <2>1. Classified(s, b) = IF b = None THEN s ELSE [s EXCEPT !.act = "merge", !.into = b]
    BY <1>3 DEF Classified, KnownKey
  <2> QED BY <2>1 DEF SubRec
<1> QED BY <1>1, <1>2, <1>3

\* One step per operation that touches what TurnInv is about.
LEMMA TurnStep == TypeOK /\ TurnInv /\ [Next]_vars => TurnInv'
<1> SUFFICES ASSUME TypeOK, TurnInv, [Next]_vars PROVE TurnInv'
  OBVIOUS
<1> USE DEF InboxRow
<1>t. /\ inbox \in [Items -> InboxRow]
      /\ sub \in [Items -> SubRec]
      /\ gpc \in [Runs -> LaunchPC]
      /\ gitem \in [Runs -> Items \cup {None}]
      /\ ran \in [Items -> Nat]
      /\ running \in Runs \cup {None}
      /\ lpaused \in Runs \cup {None}
      /\ None \notin Runs
  BY NoneAssumption DEF TypeOK, StoreTypeOK
<1>1. ASSUME NEW i \in Items, NEW k \in Keys \cup {None}, BeginSubmit(i, k) PROVE TurnInv'
  <2>1. IntakeInv'
    BY <1>1, <1>t DEF BeginSubmit, Fresh, TurnInv, IntakeInv
  <2>2. InboxKeeps
    BY <1>1 DEF BeginSubmit, InboxKeeps
  <2>3. RetryInv'
    BY <1>1, <1>t, RetryKept DEF BeginSubmit, KeysKept, NoSub
  <2> QED BY <1>1, <2>1, <2>2, <2>3, IntakeMoves DEF BeginSubmit, loopVars, launchVars
<1>2. ASSUME NEW i \in Items, NEW k \in Keys \cup {None}, SubmitSignal(i, k) PROVE TurnInv'
  <2>1. IntakeInv'
    BY <1>2, <1>t DEF SubmitSignal, Fresh, AcceptSignal, TurnInv, IntakeInv, SubRec
  <2>2. InboxKeeps
    BY <1>2, <1>t DEF SubmitSignal, Fresh, AcceptSignal, InboxKeeps
  <2>3. KeysKept
    BY <1>2, <1>t DEF SubmitSignal, Fresh, AcceptSignal, KeysKept
  <2>4. RetryInv'
    BY <1>2, <1>t, <2>3, RetryKept DEF SubmitSignal, SubRec
  <2> QED BY <1>2, <2>1, <2>2, <2>4, IntakeMoves DEF SubmitSignal, loopVars, launchVars
<1>3. ASSUME NEW i \in Items, ClassifySubmit(i) PROVE TurnInv'
  <2>1. IntakeInv'
    BY <1>3, <1>t DEF ClassifySubmit, TurnInv, IntakeInv, storeVars
  <2>2. InboxKeeps
    BY <1>3 DEF ClassifySubmit, InboxKeeps, storeVars
  <2>3. RetryInv'
    <3>1. inbox' = inbox
      BY <1>3 DEF ClassifySubmit, storeVars
    <3>2. \A j \in Items : j # i => sub'[j] = sub[j]
      BY <1>3, <1>t DEF ClassifySubmit
    <3>3. \/ sub'[i] = [sub[i] EXCEPT !.pc = "accept"]
          \/ \E b : sub'[i] = [Classified(sub[i], b) EXCEPT !.pc = "accept"]
      BY <1>3, <1>t DEF ClassifySubmit
    <3>4. /\ sub'[i].key = sub[i].key
          /\ sub'[i].act = "supersede" => sub[i].act = "supersede" \/ KnownKey(sub[i])
      <4>1. sub[i] \in SubRec
        BY <1>t
      <4>2. CASE sub'[i] = [sub[i] EXCEPT !.pc = "accept"]
        BY <4>1, <4>2 DEF SubRec
      <4>3. CASE \E b : sub'[i] = [Classified(sub[i], b) EXCEPT !.pc = "accept"]
        <5>1. PICK b : sub'[i] = [Classified(sub[i], b) EXCEPT !.pc = "accept"]
          BY <4>3
        <5> DEFINE c == [Classified(sub[i], b) EXCEPT !.pc = "accept"]
        <5>2. c.key = sub[i].key /\ (c.act = "supersede" => sub[i].act = "supersede" \/ KnownKey(sub[i]))
          BY <4>1, ClassifiedFacts
        <5>3. sub'[i] = c
          BY <5>1
        <5> HIDE DEF c
        <5> QED BY <5>2, <5>3
      <4> QED BY <3>3, <4>2, <4>3
    <3>5. \A j \in ListPendingItems : j \in Items /\ inbox[j].st # "none"
      BY DEF ListPendingItems, Pending
    <3>6. sub'[i].act = "supersede" => KeyTaken(sub[i].key)
      BY <3>4, <3>5 DEF TurnInv, RetryInv, KeyTaken, KnownKey
    <3> QED BY <3>1, <3>2, <3>4, <3>6 DEF TurnInv, RetryInv, KeyTaken
  <2> QED BY <1>3, <2>1, <2>2, <2>3, IntakeMoves DEF ClassifySubmit, loopVars, launchVars
<1>4. ASSUME NEW i \in Items, FinishSubmit(i) PROVE TurnInv'
  <2>1. inbox[i].st = "none"
    BY <1>4 DEF FinishSubmit, TurnInv, IntakeInv
  <2>2. \A j \in Items : j # i => inbox'[j].st = inbox[j].st /\ inbox'[j].type = inbox[j].type
    BY <1>4, <1>t DEF FinishSubmit, AcceptMessage
  <2>3. InboxKeeps
    BY <2>1, <2>2 DEF InboxKeeps
  <2>4. IntakeInv'
    BY <1>4, <1>t, <2>2 DEF FinishSubmit, TurnInv, IntakeInv, SubRec
  <2>5. KeysKept
    BY <1>4, <1>t, <2>1 DEF FinishSubmit, AcceptMessage, KeysKept
  <2>6. RetryInv'
    BY <1>4, <1>t, <2>5, RetryKept DEF FinishSubmit, SubRec
  <2> QED BY <1>4, <2>3, <2>4, <2>6, IntakeMoves DEF FinishSubmit, loopVars, launchVars
<1>5. ASSUME NEW c \in Callers, NEW i \in Items, EnqueueInsert(c, i) PROVE TurnInv'
  <2>1. IntakeInv'
    BY <1>5, <1>t DEF EnqueueInsert, Fresh, AcceptSignal, TurnInv, IntakeInv
  <2>2. InboxKeeps
    BY <1>5, <1>t DEF EnqueueInsert, Fresh, AcceptSignal, InboxKeeps
  <2>3. KeysKept
    BY <1>5, <1>t DEF EnqueueInsert, Fresh, AcceptSignal, KeysKept
  <2>4. RetryInv'
    BY <1>5, <2>3, RetryKept DEF EnqueueInsert
  <2> QED BY <1>5, <2>1, <2>2, <2>4, IntakeMoves DEF EnqueueInsert, loopVars, launchVars
<1>6. ASSUME Boot PROVE TurnInv'
  BY <1>6 DEF Boot, launchVars, clientVars, TurnInv, SingleFlight, LoopInv, LaunchInv, IntakeInv,
              RetryInv, ActedAtMostOnce, ConsumedBeforeActed, Dispatching, Untouched, KeyTaken
<1>7. ASSUME Poll PROVE TurnInv'
  BY <1>7 DEF Poll, launchVars, storeVars, TurnInv, SingleFlight, LoopInv, LaunchInv, IntakeInv,
              RetryInv, ActedAtMostOnce, ConsumedBeforeActed, Dispatching, Untouched, KeyTaken
<1>8. ASSUME ListItems PROVE TurnInv'
  <2>1. UNCHANGED <<inbox, running, gpc, gitem, ran, sub>>
    BY <1>8 DEF ListItems, launchVars, storeVars, clientVars
  <2>2. running = None
    BY <1>8 DEF ListItems, TurnInv, SingleFlight
  <2>3. LoopInv'
    <3>1. CASE PickItem
      <4>1. PICK i \in Eligible : litem' = i
        BY <3>1 DEF PickItem
      <4>2. i \in Items /\ inbox[i].st = "pending"
        BY <4>1 DEF Eligible, ListPendingItems, Pending
      <4>3. ran[i] = 0
        BY <4>2, <1>t DEF TurnInv, ConsumedBeforeActed
      <4>4. CASE lpaused = None
        BY <4>1, <4>2, <4>3, <4>4, <3>1, <2>1 DEF PickItem, LoopInv, Dispatching, Untouched
      <4>5. CASE lpaused # None
        <5>1. inbox[i].type = "proposal_resolution" /\ lrun' \in Runs /\ lpc' = "launch"
          BY <4>1, <4>5, <3>1, <1>t DEF Eligible, PickItem
        <5> QED BY <5>1, <4>1, <4>2, <4>3, <2>1 DEF LoopInv, Dispatching, Untouched
      <4> QED BY <4>4, <4>5
    <3>2. CASE lpc' \in {"promote", "idle"}
      BY <3>2 DEF LoopInv, Dispatching
    <3> QED BY <1>8, <3>1, <3>2 DEF ListItems
  <2> QED BY <2>1, <2>2, <2>3 DEF TurnInv, SingleFlight, LaunchInv, IntakeInv, RetryInv,
                                  ActedAtMostOnce, ConsumedBeforeActed, Untouched, KeyTaken
<1>9. ASSUME Promote PROVE TurnInv'
  <2>1. UNCHANGED <<running, gpc, gitem, ran, sub>>
    BY <1>9 DEF Promote, launchVars, clientVars
  <2>2. InboxKeeps
    BY <1>9, <1>t DEF Promote, PromoteDeferredItems, InboxKeeps
  <2>3. \A j \in Items : inbox[j].st = "none" => inbox'[j].st = "none"
    BY <1>9, <1>t DEF Promote, PromoteDeferredItems
  <2>4. LoopInv'
    BY <1>9 DEF Promote, LoopInv, Dispatching
  <2>5. LaunchInv'
    BY <2>1, <2>2 DEF TurnInv, LaunchInv, Untouched, InboxKeeps
  <2>6. SingleFlight'
    BY <1>9, <2>1 DEF Promote, TurnInv, SingleFlight
  <2>7. ConsumedBeforeActed' /\ ActedAtMostOnce'
    BY <2>1, <2>2 DEF TurnInv, ConsumedBeforeActed, ActedAtMostOnce, InboxKeeps
  <2>8. IntakeInv'
    BY <2>1, <2>3 DEF TurnInv, IntakeInv
  <2>9. RetryInv'
    <3>1. KeysKept
      BY <1>9, <1>t DEF Promote, PromoteDeferredItems, KeysKept
    <3> QED BY <2>1, <3>1, RetryKept
  <2> QED BY <2>4, <2>5, <2>6, <2>7, <2>8, <2>9 DEF TurnInv
<1>10. ASSUME GiveUp PROVE TurnInv'
  BY <1>10 DEF GiveUp, launchVars, storeVars, clientVars, TurnInv, SingleFlight, LoopInv, LaunchInv,
               IntakeInv, RetryInv, ActedAtMostOnce, ConsumedBeforeActed, Dispatching, Untouched,
               KeyTaken
<1>11. ASSUME Create PROVE TurnInv'
  <2>1. UNCHANGED <<inbox, running, gpc, gitem, ran, sub, litem>> /\ lpc = "create"
    BY <1>11 DEF Create, launchVars, clientVars
  <2>2. lpc' = "idle" \/ (lpc' = "consume" /\ lrun' \in Runs)
    BY <1>11 DEF Create
  <2>3. LoopInv'
    BY <2>1, <2>2 DEF TurnInv, LoopInv, Dispatching, Untouched
  <2> QED BY <2>1, <2>2, <2>3 DEF TurnInv, SingleFlight, LaunchInv, IntakeInv, RetryInv,
                                  ActedAtMostOnce, ConsumedBeforeActed, Untouched, KeyTaken
<1>12. ASSUME ConsumeItem PROVE TurnInv'
  <2>1. UNCHANGED <<running, gpc, gitem, ran, sub, litem, lrun>> /\ lpc = "consume"
    BY <1>12 DEF ConsumeItem, launchVars, clientVars
  <2>2. Untouched(litem, {"pending"}) /\ lrun \in Runs /\ running = None
    BY <2>1 DEF TurnInv, LoopInv, SingleFlight
  <2>3. CASE lpc' = "abort" /\ inbox' = inbox
    BY <2>1, <2>2, <2>3 DEF TurnInv, SingleFlight, LoopInv, LaunchInv, IntakeInv, RetryInv,
                            ActedAtMostOnce, ConsumedBeforeActed, Dispatching, Untouched, KeyTaken
  <2>4. CASE lpc' = "launch" /\ MarkInboxConsumed(litem)
    <3>1. \A j \in Items : /\ inbox'[j].type = inbox[j].type
                           /\ inbox'[j].st = IF j = litem THEN "consumed" ELSE inbox[j].st
      BY <2>4, <1>t DEF MarkInboxConsumed
    <3>2. LoopInv'
      BY <2>1, <2>2, <2>4, <3>1 DEF LoopInv, Dispatching, Untouched
    <3>3. LaunchInv' /\ SingleFlight'
      BY <2>1, <2>2, <2>4, <1>t DEF TurnInv, SingleFlight, LaunchInv
    <3>4. ConsumedBeforeActed' /\ ActedAtMostOnce'
      BY <2>1, <3>1 DEF TurnInv, ConsumedBeforeActed, ActedAtMostOnce
    <3>5. IntakeInv'
      BY <2>1, <2>2, <3>1 DEF TurnInv, IntakeInv, Untouched
    <3>6. RetryInv'
      BY <2>1, <2>4, <1>t, RetryKept DEF MarkInboxConsumed, KeysKept
    <3> QED BY <3>2, <3>3, <3>4, <3>5, <3>6 DEF TurnInv
  <2> QED BY <1>12, <2>3, <2>4 DEF ConsumeItem
<1>13. ASSUME Abort PROVE TurnInv'
  BY <1>13 DEF Abort, launchVars, clientVars, TurnInv, SingleFlight, LoopInv, LaunchInv, IntakeInv,
               RetryInv, ActedAtMostOnce, ConsumedBeforeActed, Dispatching, Untouched, KeyTaken
<1>14. ASSUME EmitAbort PROVE TurnInv'
  BY <1>14 DEF EmitAbort, launchVars, clientVars, TurnInv, SingleFlight, LoopInv, LaunchInv,
               IntakeInv, RetryInv, ActedAtMostOnce, ConsumedBeforeActed, Dispatching, Untouched,
               KeyTaken
<1>15. ASSUME Launch PROVE TurnInv'
  <2>1. /\ UNCHANGED <<inbox, sub, litem, lrun>>
        /\ lpc = "launch" /\ lpc' = "idle"
        /\ running' = lrun /\ gitem' = [gitem EXCEPT ![lrun] = litem]
    BY <1>15 DEF Launch, storeVars, clientVars
  <2>2. litem \in Items /\ lrun \in Runs /\ ran[litem] = 0 /\ running = None
    BY <2>1 DEF TurnInv, LoopInv, SingleFlight, Untouched
  <2>3. \A r \in Runs : gpc[r] = "none"
    BY <2>2, <1>t DEF TurnInv, SingleFlight
  <2>4. LoopInv'
    BY <2>1 DEF LoopInv, Dispatching
  <2>5. IntakeInv' /\ RetryInv'
    BY <2>1 DEF TurnInv, IntakeInv, RetryInv, KeyTaken
  <2>6. CASE /\ inbox[litem].type = "proposal_resolution"
             /\ gpc' = [gpc EXCEPT ![lrun] = "load"]
             /\ ran' = ran
    <3>1. SingleFlight'
      BY <2>1, <2>2, <2>3, <2>6, <1>t DEF SingleFlight
    <3>2. Untouched(litem, {"pending", "consumed"})'
      BY <2>1, <2>2, <2>6 DEF TurnInv, LoopInv, Untouched
    <3>3. LaunchInv'
      BY <2>1, <2>2, <2>3, <2>6, <3>2, <1>t DEF LaunchInv
    <3> QED BY <2>1, <2>4, <2>5, <2>6, <3>1, <3>3
            DEF TurnInv, ActedAtMostOnce, ConsumedBeforeActed
  <2>7. CASE /\ inbox[litem].type # "proposal_resolution"
             /\ gpc' = [gpc EXCEPT ![lrun] = "exec"]
             /\ ran' = [ran EXCEPT ![litem] = @ + 1]
    <3>1. SingleFlight'
      BY <2>1, <2>2, <2>3, <2>7, <1>t DEF SingleFlight
    <3>2. LaunchInv'
      BY <2>1, <2>2, <2>3, <2>7, <1>t DEF LaunchInv
    <3>3. inbox[litem].st = "consumed"
      BY <2>1, <2>7 DEF TurnInv, LoopInv, Untouched
    <3>4. ActedAtMostOnce'
      BY <2>2, <2>7, <1>t DEF TurnInv, ActedAtMostOnce
    <3>5. ConsumedBeforeActed'
      BY <2>1, <2>2, <2>7, <3>3, <1>t DEF TurnInv, ConsumedBeforeActed
    <3> QED BY <2>4, <2>5, <3>1, <3>2, <3>4, <3>5 DEF TurnInv
  <2> QED BY <1>15, <2>6, <2>7 DEF Launch, StartExecutor
<1>16. ASSUME NEW r \in Runs, ConsumeResume(r) PROVE TurnInv'
  <2>1. UNCHANGED <<running, gitem, lpc, litem, lrun, ran, sub>> /\ gpc[r] = "consume"
    BY <1>16 DEF ConsumeResume, loopVars, clientVars
  <2>2. Untouched(gitem[r], {"pending", "consumed"}) /\ lpc \in {"boot", "idle"}
    BY <2>1, <1>t DEF TurnInv, LaunchInv, SingleFlight
  <2>3. running = r /\ \A q \in Runs : q # r => gpc[q] = "none"
    BY <2>1, <1>t DEF TurnInv, SingleFlight
  <2>4. CASE inbox' = inbox /\ gpc' = [gpc EXCEPT ![r] = "fail"]
    BY <2>1, <2>4, LaunchMoves
  <2>5. CASE MarkInboxConsumed(gitem[r]) /\ gpc' = [gpc EXCEPT ![r] = "activate"]
    <3>1. \A j \in Items : /\ inbox'[j].type = inbox[j].type
                           /\ inbox'[j].st = IF j = gitem[r] THEN "consumed" ELSE inbox[j].st
      BY <2>5, <1>t DEF MarkInboxConsumed
    <3>2. LoopInv'
      BY <2>1, <2>2 DEF LoopInv, Dispatching
    <3>3. SingleFlight'
      BY <2>1, <2>2, <2>3, <2>5, <1>t DEF SingleFlight
    <3>4. LaunchInv'
      BY <2>1, <2>2, <2>3, <2>5, <3>1, <1>t DEF LaunchInv, Untouched
    <3>5. ConsumedBeforeActed' /\ ActedAtMostOnce'
      BY <2>1, <3>1 DEF TurnInv, ConsumedBeforeActed, ActedAtMostOnce
    <3>6. IntakeInv'
      BY <2>1, <2>2, <3>1 DEF TurnInv, IntakeInv, Untouched
    <3>7. RetryInv'
      BY <2>1, <2>5, <1>t, RetryKept DEF MarkInboxConsumed, KeysKept
    <3> QED BY <3>2, <3>3, <3>4, <3>5, <3>6, <3>7 DEF TurnInv
  <2> QED BY <1>16, <2>4, <2>5 DEF ConsumeResume, Goto
<1>17. ASSUME NEW r \in Runs, Activate(r) PROVE TurnInv'
  <2>1. UNCHANGED <<running, gitem, lpc, litem, lrun, inbox, sub>> /\ gpc[r] = "activate"
    BY <1>17 DEF Activate, loopVars, clientVars
  <2>2. Untouched(gitem[r], {"consumed"}) /\ lpc \in {"boot", "idle"}
    BY <2>1, <1>t DEF TurnInv, LaunchInv, SingleFlight
  <2>3. running = r /\ \A q \in Runs : q # r => gpc[q] = "none"
    BY <2>1, <1>t DEF TurnInv, SingleFlight
  <2>4. CASE ran' = ran /\ gpc' = [gpc EXCEPT ![r] = "fail"]
    BY <2>1, <2>4, LaunchMoves
  <2>5. CASE ran' = [ran EXCEPT ![gitem[r]] = @ + 1] /\ gpc' = [gpc EXCEPT ![r] = "exec"]
    <3>1. LoopInv' /\ IntakeInv' /\ RetryInv'
      BY <2>1, <2>2 DEF TurnInv, LoopInv, IntakeInv, RetryInv, KeyTaken, Dispatching
    <3>2. SingleFlight'
      BY <2>1, <2>2, <2>3, <2>5, <1>t DEF SingleFlight
    <3>3. LaunchInv'
      BY <2>1, <2>2, <2>3, <2>5, <1>t DEF LaunchInv, Untouched
    <3>4. ActedAtMostOnce'
      BY <2>2, <2>5, <1>t DEF TurnInv, ActedAtMostOnce, Untouched
    <3>5. ConsumedBeforeActed'
      BY <2>1, <2>2, <2>5, <1>t DEF TurnInv, ConsumedBeforeActed, Untouched
    <3> QED BY <3>1, <3>2, <3>3, <3>4, <3>5 DEF TurnInv
  <2> QED BY <1>17, <2>4, <2>5 DEF Activate, Goto, StartExecutor
<1>18. ASSUME NEW r \in Runs, LoadCheckpoint(r) PROVE TurnInv'
  <2>1. \E pc \in {"fail", "consume"} : gpc' = [gpc EXCEPT ![r] = pc]
    BY <1>18 DEF LoadCheckpoint, Goto
  <2> QED BY <1>18, <2>1, LaunchMoves DEF LoadCheckpoint, loopVars, storeVars, clientVars
<1>19. ASSUME NEW r \in Runs, AwaitResult(r) PROVE TurnInv'
  <2>1. \E pc \in {"fail", "cancelled", "save", "reply", "deliver"} :
            gpc' = [gpc EXCEPT ![r] = pc]
    BY <1>19 DEF AwaitResult, AfterResult, Goto
  <2>2. UNCHANGED <<running, lpc, litem, lrun, gitem, inbox, ran, sub>> /\ gpc[r] # "none"
    BY <1>19 DEF AwaitResult, loopVars, storeVars, clientVars
  <2> QED BY <2>1, <2>2, LaunchMoves
<1>20. ASSUME NEW r \in Runs,
              \/ Timeout(r) \/ DrainExpired(r) \/ FailRun(r) \/ CancelledRun(r) \/ EmitEnded(r)
              \/ SavePause(r) \/ PersistPause(r) \/ Reply(r) \/ Complete(r) \/ MarkDelivered(r)
       PROVE  TurnInv'
  <2>1. \E pc \in {"drain", "fail", "emit", "pause", "exit", "complete"} :
            gpc' = [gpc EXCEPT ![r] = pc]
    BY <1>20 DEF Timeout, DrainExpired, FailRun, CancelledRun, EmitEnded, SavePause, PersistPause,
                 Reply, Complete, MarkDelivered, Goto
  <2>2. UNCHANGED <<running, lpc, litem, lrun, gitem, inbox, ran, sub>> /\ gpc[r] # "none"
    BY <1>20 DEF Timeout, DrainExpired, FailRun, CancelledRun, EmitEnded, SavePause, PersistPause,
                 Reply, Complete, MarkDelivered, loopVars, storeVars, clientVars
  <2> QED BY <2>1, <2>2, LaunchMoves
<1>21. ASSUME NEW r \in Runs, Deliver(r) PROVE TurnInv'
  <2>1. gpc' = gpc \/ \E pc \in {"exit", "mark", "deliver", "fail"} : gpc' = [gpc EXCEPT ![r] = pc]
    BY <1>21 DEF Deliver, Goto
  <2>2. UNCHANGED <<running, lpc, litem, lrun, gitem, inbox, ran, sub>> /\ gpc[r] # "none"
    BY <1>21 DEF Deliver, loopVars, clientVars
  <2> QED BY <2>1, <2>2, LaunchMoves, TurnUnchanged DEF turnVars
<1>22. ASSUME NEW r \in Runs, Exit(r) PROVE TurnInv'
  <2>1. /\ UNCHANGED <<lpc, litem, lrun, gitem, inbox, ran, sub>>
        /\ gpc[r] = "exit" /\ gpc' = [gpc EXCEPT ![r] = "none"] /\ running' = None
    BY <1>22 DEF Exit, Goto, loopVars, storeVars
  <2>2. running = r /\ \A q \in Runs : q # r => gpc[q] = "none"
    BY <2>1, <1>t DEF TurnInv, SingleFlight
  <2>3. \A q \in Runs : gpc'[q] = "none"
    BY <2>1, <2>2, <1>t
  <2>4. SingleFlight' /\ LaunchInv'
    BY <2>1, <2>3, <1>t DEF SingleFlight, LaunchInv
  <2> QED BY <2>1, <2>4 DEF TurnInv, LoopInv, IntakeInv, RetryInv, ActedAtMostOnce,
                            ConsumedBeforeActed, Dispatching, Untouched, KeyTaken
<1>23. ASSUME Crash PROVE TurnInv'
  <2>1. /\ UNCHANGED <<inbox, ran>>
        /\ lpc' = "boot" /\ running' = None /\ gpc' = [r \in Runs |-> "none"]
    BY <1>23 DEF Crash, storeVars
  <2>2. IntakeInv'
    BY <1>23, <1>t DEF Crash, IntakeInv, SubRec, NoSub
  <2>3. RetryInv'
    BY <1>23, <1>t, <2>1, RetryKept DEF Crash, KeysKept, NoSub
  <2> QED BY <2>1, <2>2, <2>3, <1>t DEF TurnInv, SingleFlight, LoopInv, LaunchInv, ActedAtMostOnce,
                                  ConsumedBeforeActed, Dispatching
<1>24. ASSUME NEW c \in Callers, NEW p \in Proposals, NEW d \in Decision, ResolveRead(c, p, d)
       PROVE  TurnInv'
  BY <1>24, TurnUnchanged DEF turnVars, ResolveRead, storeVars, loopVars, launchVars
<1>25. ASSUME NEW c \in Callers, ResolveUpdate(c) \/ ResolveFails(c) \/ EnqueueCheck(c)
       PROVE  TurnInv'
  BY <1>25, TurnUnchanged DEF turnVars, ResolveUpdate, ResolveFails, EnqueueCheck, storeVars,
                              loopVars, launchVars
<1>26. ASSUME NEW p \in Proposals, Expire(p) PROVE TurnInv'
  BY <1>26, TurnUnchanged DEF turnVars, Expire, loopVars, launchVars, clientVars
<1>27. ASSUME NEW r \in Runs, ExecutorStep(r) PROVE TurnInv'
  BY <1>27, TurnUnchanged DEF turnVars, ExecutorStep, Replay, Propose, SavePropose, Return,
                              storeVars, loopVars, launchVars, clientVars
<1>28. ASSUME SchedulerStep PROVE TurnInv'
  BY <1>28, TurnUnchanged DEF turnVars, SchedulerStep, FireJob, CompleteJob, loopVars,
                              launchVars, clientVars
<1>29. ASSUME CancelStep PROVE TurnInv'
  BY <1>29, TurnUnchanged DEF turnVars, CancelStep, CancelMark, CancelRead, CancelWrite,
                              CancelSignal, storeVars, loopVars, launchVars
<1>30. ASSUME Drain \/ DrainReturns PROVE TurnInv'
  BY <1>30, TurnUnchanged DEF turnVars, Drain, DrainReturns, storeVars, loopVars, launchVars
<1>31. CASE UNCHANGED vars
  BY <1>31, TurnUnchanged DEF turnVars, vars, storeVars, loopVars, launchVars, clientVars
<1> QED BY <1>1, <1>2, <1>3, <1>4, <1>5, <1>6, <1>7, <1>8, <1>9, <1>10, <1>11, <1>12, <1>13,
           <1>14, <1>15, <1>16, <1>17, <1>18, <1>19, <1>20, <1>21, <1>22, <1>23, <1>24, <1>25,
           <1>26, <1>27, <1>28, <1>29, <1>30, <1>31
        DEF Next, Intake, Resolution, Loop, LaunchStep

\* The first process starts with nothing dispatched, launched or submitted.
LEMMA TurnInit == Init => TurnInv
BY NoneAssumption
   DEF Init, StoreInit, TurnInv, SingleFlight, LoopInv, LaunchInv, IntakeInv, RetryInv,
       ActedAtMostOnce, ConsumedBeforeActed, Dispatching, NoSub

\* TurnInv holds for any number of items, runs, proposals, callers, crashes,
\* faults and cancellations, and any page size.
THEOREM TurnInvariant == Spec => []TurnInv
<1>1. Init => TurnInv
  BY TurnInit
<1>2. TypeOK /\ TurnInv /\ [Next]_vars => TurnInv'
  BY TurnStep
<1> QED BY <1>1, <1>2, TypeCorrect, PTL DEF Spec

\* One launch at a time per session, and no dispatch while there is one: the gap
\* between the check of c.running and the registration in launchRun is harmless.
THEOREM OneLaunchAtATime == Spec => []SingleFlight
<1>1. TurnInv => SingleFlight
  BY DEF TurnInv
<1> QED BY <1>1, TurnInvariant, PTL

\* No inbox item is handed to an executor twice, across crashes and restarts too.
THEOREM ActsAtMostOnce == Spec => []ActedAtMostOnce
<1>1. TurnInv => ActedAtMostOnce
  BY DEF TurnInv
<1> QED BY <1>1, TurnInvariant, PTL

\* An item is durably consumed before an executor starts on it.
THEOREM ConsumesBeforeActing == Spec => []ConsumedBeforeActed
<1>1. TurnInv => ConsumedBeforeActed
  BY DEF TurnInv
<1> QED BY <1>1, TurnInvariant, PTL

-----------------------------------------------------------------------------
(* The coordinator implements SessionTurns                                 *)

mapVars == <<inbox, ran, lpc, litem, running, gitem>>

\* The refinement mapping reads mapVars only.
LEMMA MapUnchanged == UNCHANGED mapVars => UNCHANGED Turns!vars
BY DEF mapVars, Turns!vars, ItemStates, ItemStateOf, Turn, Dispatching, Acted

\* Empty tables and no dispatch are no items and no turn.
LEMMA TurnsInit == Init => Turns!Init
BY NoneAssumption DEF Init, StoreInit, NoItem, Turns!Init, ItemStates, ItemStateOf, Turn,
                      Dispatching, Acted

\* A new row shows as Accept.
LEMMA ShowAccept ==
    ASSUME NEW i \in Items, ItemStateOf(i) = "absent",
           \/ ItemStateOf(i)' = "queued"
           \/ ItemStateOf(i)' = "folded" /\ \E j \in Items : ItemStateOf(j) = "queued",
           \A j \in Items : j # i => ItemStateOf(j)' = ItemStateOf(j),
           UNCHANGED <<ran, lpc, litem, running, gitem>>
    PROVE  Turns!Next
<1>1. UNCHANGED <<Turn, Acted>>
  BY DEF Turn, Dispatching, Acted
<1>2. \/ ItemStates' = [ItemStates EXCEPT ![i] = "queued"]
      \/ /\ \E j \in Items : ItemStates[j] = "queued"
         /\ ItemStates' = [ItemStates EXCEPT ![i] = "folded"]
  BY DEF ItemStates
<1>3. ItemStates[i] = "absent"
  BY DEF ItemStates
<1>4. Turns!Accept(i)
  BY <1>1, <1>2, <1>3 DEF Turns!Accept
<1> QED BY <1>4 DEF Turns!Next

\* MarkInboxConsumed of the item whose turn it is shows as Take.
LEMMA ShowTake ==
    ASSUME NEW i \in Items, Turn = i, UNCHANGED <<Turn, Acted>>,
           ItemStateOf(i) = "queued", ItemStateOf(i)' = "taken",
           \A j \in Items : j # i => ItemStateOf(j)' = ItemStateOf(j)
    PROVE  Turns!Next
<1>1. ItemStates[i] = "queued" /\ ItemStates' = [ItemStates EXCEPT ![i] = "taken"]
  BY DEF ItemStates
<1>2. Turns!Take(i)
  BY <1>1 DEF Turns!Take
<1> QED BY <1>2 DEF Turns!Next

\* The start of the executor shows as Act.
LEMMA ShowAct ==
    ASSUME NEW i \in Items, Turn = i, UNCHANGED <<inbox, Turn>>, inbox[i].st = "consumed",
           ran \in [Items -> Nat], ran[i] = 0, ran' = [ran EXCEPT ![i] = @ + 1]
    PROVE  Turns!Next
<1>1. ItemStates' = ItemStates
  BY DEF ItemStates, ItemStateOf
<1>2. ItemStates[i] = "taken"
  BY DEF ItemStates, ItemStateOf
<1>3. i \notin Acted /\ Acted' = Acted \cup {i}
  BY DEF Acted
<1>4. Turns!Act(i)
  BY <1>1, <1>2, <1>3 DEF Turns!Act
<1> QED BY <1>4 DEF Turns!Next

\* The end of a dispatch or of a launch shows as End.
LEMMA ShowEnd ==
    ASSUME UNCHANGED <<inbox, ran>>, Turn' = None
    PROVE  [Turns!Next]_(Turns!vars)
<1>1. ItemStates' = ItemStates
  BY DEF ItemStates, ItemStateOf
<1>2. Acted' = Acted
  BY DEF Acted
<1>3. CASE Turn = None
  BY <1>1, <1>2, <1>3 DEF Turns!vars
<1>4. CASE Turn # None
  BY <1>1, <1>2, <1>4 DEF Turns!Next, Turns!End
<1> QED BY <1>3, <1>4

\* Every step of the coordinator is a step of SessionTurns, or changes nothing there.
LEMMA TurnsStep == TypeOK /\ TurnInv /\ [Next]_vars => [Turns!Next]_(Turns!vars)
<1> SUFFICES ASSUME TypeOK, TurnInv, [Next]_vars PROVE [Turns!Next]_(Turns!vars)
  OBVIOUS
<1> USE DEF InboxRow
<1>t. /\ inbox \in [Items -> InboxRow]
      /\ sub \in [Items -> SubRec]
      /\ gpc \in [Runs -> LaunchPC]
      /\ gitem \in [Runs -> Items \cup {None}]
      /\ ran \in [Items -> Nat]
      /\ None \notin Runs /\ None \notin Items
  BY NoneAssumption DEF TypeOK, StoreTypeOK
<1>1. ASSUME NEW i \in Items, NEW k \in Keys \cup {None}, SubmitSignal(i, k)
      PROVE  [Turns!Next]_(Turns!vars)
  <2>1. UNCHANGED <<ran, lpc, litem, running, gitem>> /\ inbox[i].st = "none"
    BY <1>1 DEF SubmitSignal, Fresh, loopVars, launchVars
  <2>2. CASE inbox' = inbox
    BY <2>1, <2>2, MapUnchanged DEF mapVars
  <2>3. CASE inbox' = [inbox EXCEPT ![i] = SignalRow(i, k)]
    <3>1. ItemStateOf(i) = "absent" /\ ItemStateOf(i)' = "queued"
      BY <2>1, <2>3, <1>t DEF ItemStateOf, SignalRow, NoItem
    <3>2. \A j \in Items : j # i => ItemStateOf(j)' = ItemStateOf(j)
      BY <2>3, <1>t DEF ItemStateOf
    <3> QED BY <2>1, <3>1, <3>2, ShowAccept
  <2> QED BY <1>1, <2>2, <2>3 DEF SubmitSignal, AcceptSignal
<1>2. ASSUME NEW c \in Callers, NEW i \in Items, EnqueueInsert(c, i)
      PROVE  [Turns!Next]_(Turns!vars)
  <2>1. UNCHANGED <<ran, lpc, litem, running, gitem>> /\ inbox[i].st = "none"
    BY <1>2 DEF EnqueueInsert, Fresh, loopVars, launchVars
  <2>2. CASE inbox' = inbox
    BY <2>1, <2>2, MapUnchanged DEF mapVars
  <2>3. CASE inbox' = [inbox EXCEPT ![i] = ResolutionRow(call[c].prop, call[c].dec)]
    <3>1. ItemStateOf(i) = "absent" /\ ItemStateOf(i)' = "queued"
      BY <2>1, <2>3, <1>t DEF ItemStateOf, ResolutionRow, NoItem
    <3>2. \A j \in Items : j # i => ItemStateOf(j)' = ItemStateOf(j)
      BY <2>3, <1>t DEF ItemStateOf
    <3> QED BY <2>1, <3>1, <3>2, ShowAccept
  <2> QED BY <1>2, <2>2, <2>3 DEF EnqueueInsert, AcceptSignal
<1>3. ASSUME NEW i \in Items, FinishSubmit(i) PROVE [Turns!Next]_(Turns!vars)
  <2> DEFINE k == sub[i].key  act == sub[i].act  into == sub[i].into
  <2>1. UNCHANGED <<ran, lpc, litem, running, gitem>> /\ inbox[i].st = "none"
    BY <1>3 DEF FinishSubmit, loopVars, launchVars, TurnInv, IntakeInv
  <2>2. CASE inbox' = inbox
    BY <2>1, <2>2, MapUnchanged DEF mapVars
  <2>3. CASE ~KeyTaken(k) /\ AcceptMessage(i, k, act, into)
    <3>1. act \in {"append", "defer", "merge"}
      BY <2>3, <1>t DEF TurnInv, RetryInv, SubRec, QueueAction
    <3>2. inbox'[i] = AcceptedRow(i, k, act, into)
      BY <2>3 DEF AcceptMessage
    <3>3. \A j \in Items : j # i => inbox'[j].st = inbox[j].st
      BY <2>3, <1>t DEF AcceptMessage
    <3>4. \/ AcceptedRow(i, k, act, into).st \in {"pending", "deferred"}
          \/ AcceptedRow(i, k, act, into).st = "merged" /\ into \in Pending
      BY <3>1 DEF AcceptedRow, NoItem
    <3>5. ItemStateOf(i) = "absent"
      BY <2>1 DEF ItemStateOf
    <3>6. \/ ItemStateOf(i)' = "queued"
          \/ ItemStateOf(i)' = "folded" /\ \E j \in Items : ItemStateOf(j) = "queued"
      BY <3>2, <3>4 DEF ItemStateOf, Pending
    <3>7. \A j \in Items : j # i => ItemStateOf(j)' = ItemStateOf(j)
      BY <3>3 DEF ItemStateOf
    <3> QED BY <2>1, <3>5, <3>6, <3>7, ShowAccept
  <2> QED BY <1>3, <2>2, <2>3 DEF FinishSubmit, AcceptMessage
<1>4. ASSUME NEW i \in Items,
             ClassifySubmit(i) \/ \E k \in Keys \cup {None} : BeginSubmit(i, k)
      PROVE  [Turns!Next]_(Turns!vars)
  BY <1>4, MapUnchanged DEF mapVars, ClassifySubmit, BeginSubmit, storeVars, loopVars, launchVars
<1>5. ASSUME Boot \/ Poll \/ GiveUp PROVE [Turns!Next]_(Turns!vars)
  <2>1. /\ UNCHANGED <<inbox, ran, litem, running, gitem>>
        /\ lpc \notin {"create", "consume", "abort", "emit", "launch"}
        /\ lpc' \notin {"create", "consume", "abort", "emit", "launch"}
    BY <1>5 DEF Boot, Poll, GiveUp, storeVars, launchVars
  <2> QED BY <2>1 DEF Turns!vars, ItemStates, ItemStateOf, Turn, Dispatching, Acted
<1>6. ASSUME Promote PROVE [Turns!Next]_(Turns!vars)
  <2>1. /\ UNCHANGED <<ran, litem, running, gitem>>
        /\ lpc = "promote" /\ lpc' \in {"idle", "relist"}
    BY <1>6 DEF Promote, launchVars
  <2>2. \A i \in Items : ItemStateOf(i)' = ItemStateOf(i)
    BY <1>6, <1>t DEF Promote, PromoteDeferredItems, ItemStateOf
  <2>3. UNCHANGED <<Turn, Acted>>
    BY <2>1 DEF Turn, Dispatching, Acted
  <2> QED BY <2>2, <2>3 DEF Turns!vars, ItemStates
<1>7. ASSUME ListItems PROVE [Turns!Next]_(Turns!vars)
  <2>1. UNCHANGED <<inbox, ran, running, gitem>> /\ lpc \in {"list", "relist"}
    BY <1>7 DEF ListItems, storeVars, launchVars
  <2>2. running = None /\ Turn = None
    BY <2>1 DEF TurnInv, SingleFlight, Turn, Dispatching
  <2>3. CASE PickItem
    <3>1. PICK i \in Eligible : litem' = i
      BY <2>3 DEF PickItem
    <3>2. i \in Items /\ inbox[i].st = "pending"
      BY <3>1 DEF Eligible, ListPendingItems, Pending
    <3>3. Turn' = i
      BY <2>3, <3>1 DEF PickItem, Turn, Dispatching
    <3>4. ItemStates[i] = "queued"
      BY <3>2 DEF ItemStates, ItemStateOf
    <3>5. ItemStates' = ItemStates /\ Acted' = Acted
      BY <2>1 DEF ItemStates, ItemStateOf, Acted
    <3>6. Turns!Begin(i)
      BY <2>2, <3>3, <3>4, <3>5 DEF Turns!Begin
    <3> QED BY <3>2, <3>6 DEF Turns!Next
  <2>4. CASE lpc' \in {"promote", "idle"}
    <3>1. Turn' = None
      BY <2>1, <2>2, <2>4 DEF Turn, Dispatching
    <3> QED BY <2>1, <3>1, ShowEnd
  <2> QED BY <1>7, <2>3, <2>4 DEF ListItems
<1>8. ASSUME Create \/ Abort \/ EmitAbort PROVE [Turns!Next]_(Turns!vars)
  <2>1. /\ UNCHANGED <<inbox, ran, running, gitem, litem>>
        /\ lpc \in {"create", "abort", "emit"}
        /\ lpc' \in {"consume", "emit", "idle"}
    BY <1>8 DEF Create, Abort, EmitAbort, launchVars
  <2>2. running = None
    BY <2>1 DEF TurnInv, SingleFlight
  <2>3. CASE lpc' = "idle"
    <3>1. Turn' = None
      BY <2>1, <2>2, <2>3 DEF Turn, Dispatching
    <3> QED BY <2>1, <3>1, ShowEnd
  <2>4. CASE lpc' # "idle"
    BY <2>1, <2>4 DEF Turns!vars, ItemStates, ItemStateOf, Turn, Dispatching, Acted
  <2> QED BY <2>3, <2>4
<1>9. ASSUME ConsumeItem PROVE [Turns!Next]_(Turns!vars)
  <2>1. /\ UNCHANGED <<ran, running, gitem, litem>>
        /\ lpc = "consume" /\ lpc' \in {"launch", "abort"}
    BY <1>9 DEF ConsumeItem, launchVars
  <2>2. UNCHANGED <<Turn, Acted>> /\ Turn = litem
    BY <2>1 DEF Turn, Dispatching, Acted
  <2>3. CASE inbox' = inbox
    BY <2>2, <2>3 DEF Turns!vars, ItemStates, ItemStateOf
  <2>4. CASE MarkInboxConsumed(litem)
    <3>1. litem \in Items /\ inbox[litem].st = "pending"
      BY <2>1 DEF TurnInv, LoopInv, Untouched
    <3>2. PICK i \in Items : i = litem
      BY <3>1
    <3>3. ItemStateOf(i) = "queued" /\ ItemStateOf(i)' = "taken"
      BY <2>4, <3>1, <3>2, <1>t DEF MarkInboxConsumed, ItemStateOf
    <3>4. \A j \in Items : j # i => ItemStateOf(j)' = ItemStateOf(j)
      BY <2>4, <3>2, <1>t DEF MarkInboxConsumed, ItemStateOf
    <3> QED BY <2>2, <3>2, <3>3, <3>4, ShowTake
  <2> QED BY <1>9, <2>3, <2>4 DEF ConsumeItem
<1>10. ASSUME Launch PROVE [Turns!Next]_(Turns!vars)
  <2>1. /\ inbox' = inbox /\ lpc = "launch" /\ lpc' = "idle"
        /\ running' = lrun /\ gitem' = [gitem EXCEPT ![lrun] = litem]
    BY <1>10 DEF Launch, storeVars
  <2>2. litem \in Items /\ lrun \in Runs /\ ran[litem] = 0
    BY <2>1 DEF TurnInv, LoopInv, Untouched
  <2>3. Turn = litem /\ Turn' = litem
    BY <2>1, <2>2, <1>t DEF Turn, Dispatching
  <2>4. CASE ran' = ran
    BY <2>1, <2>3, <2>4 DEF Turns!vars, ItemStates, ItemStateOf, Acted
  <2>5. CASE ran' = [ran EXCEPT ![litem] = @ + 1] /\ inbox[litem].type # "proposal_resolution"
    <3>1. inbox[litem].st = "consumed"
      BY <2>1, <2>5 DEF TurnInv, LoopInv, Untouched
    <3> QED BY <2>1, <2>2, <2>3, <2>5, <3>1, <1>t, ShowAct
  <2> QED BY <1>10, <2>4, <2>5 DEF Launch, StartExecutor
<1>11. ASSUME NEW r \in Runs, ConsumeResume(r) PROVE [Turns!Next]_(Turns!vars)
  <2>1. UNCHANGED <<ran, lpc, litem, running, gitem>> /\ gpc[r] = "consume"
    BY <1>11 DEF ConsumeResume, loopVars
  <2>2. running = r /\ lpc \in {"boot", "idle"}
    BY <2>1, <1>t DEF TurnInv, SingleFlight
  <2>3. UNCHANGED <<Turn, Acted>> /\ Turn = gitem[r]
    BY <2>1, <2>2, <1>t DEF Turn, Dispatching, Acted
  <2>4. gitem[r] \in Items /\ inbox[gitem[r]].st \in {"pending", "consumed"}
    BY <2>1 DEF TurnInv, LaunchInv, Untouched
  <2>5. CASE inbox' = inbox
    BY <2>3, <2>5 DEF Turns!vars, ItemStates, ItemStateOf
  <2>6. CASE MarkInboxConsumed(gitem[r])
    <3>1. PICK i \in Items : i = gitem[r]
      BY <2>4
    <3>2. ItemStateOf(i)' = "taken"
      BY <2>6, <3>1, <1>t DEF MarkInboxConsumed, ItemStateOf
    <3>3. \A j \in Items : j # i => ItemStateOf(j)' = ItemStateOf(j)
      BY <2>6, <3>1, <1>t DEF MarkInboxConsumed, ItemStateOf
    <3>4. CASE inbox[i].st = "pending"
      <4>1. ItemStateOf(i) = "queued"
        BY <3>4 DEF ItemStateOf
      <4> QED BY <2>3, <3>1, <3>2, <3>3, <4>1, ShowTake
    <3>5. CASE inbox[i].st = "consumed"
      <4>1. ItemStateOf(i) = "taken"
        BY <3>5 DEF ItemStateOf
      <4>2. ItemStates' = ItemStates
        BY <3>2, <3>3, <4>1 DEF ItemStates
      <4> QED BY <2>3, <4>2 DEF Turns!vars
    <3> QED BY <2>4, <3>1, <3>4, <3>5
  <2> QED BY <1>11, <2>5, <2>6 DEF ConsumeResume
<1>12. ASSUME NEW r \in Runs, Activate(r) PROVE [Turns!Next]_(Turns!vars)
  <2>1. UNCHANGED <<inbox, lpc, litem, running, gitem>> /\ gpc[r] = "activate"
    BY <1>12 DEF Activate, loopVars
  <2>2. running = r /\ lpc \in {"boot", "idle"}
    BY <2>1, <1>t DEF TurnInv, SingleFlight
  <2>3. UNCHANGED Turn /\ Turn = gitem[r]
    BY <2>1, <2>2, <1>t DEF Turn, Dispatching
  <2>4. CASE ran' = ran
    BY <2>1, <2>4, MapUnchanged DEF mapVars
  <2>5. CASE ran' = [ran EXCEPT ![gitem[r]] = @ + 1]
    <3>1. gitem[r] \in Items /\ ran[gitem[r]] = 0 /\ inbox[gitem[r]].st = "consumed"
      BY <2>1 DEF TurnInv, LaunchInv, Untouched
    <3> QED BY <2>1, <2>3, <2>5, <3>1, <1>t, ShowAct
  <2> QED BY <1>12, <2>4, <2>5 DEF Activate, StartExecutor
<1>13. ASSUME NEW r \in Runs, Exit(r) PROVE [Turns!Next]_(Turns!vars)
  <2>1. UNCHANGED <<inbox, ran, lpc>> /\ gpc[r] = "exit" /\ running' = None
    BY <1>13 DEF Exit, storeVars, loopVars
  <2>2. lpc \in {"boot", "idle"}
    BY <2>1, <1>t DEF TurnInv, SingleFlight
  <2>3. Turn' = None
    BY <2>1, <2>2 DEF Turn, Dispatching
  <2> QED BY <2>1, <2>3, ShowEnd
<1>14. ASSUME Crash PROVE [Turns!Next]_(Turns!vars)
  <2>1. UNCHANGED <<inbox, ran>> /\ Turn' = None
    BY <1>14 DEF Crash, storeVars, Turn, Dispatching
  <2> QED BY <2>1, ShowEnd
<1>15. ASSUME NEW r \in Runs,
              \/ LoadCheckpoint(r) \/ AwaitResult(r) \/ Timeout(r) \/ DrainExpired(r) \/ FailRun(r)
              \/ CancelledRun(r) \/ EmitEnded(r) \/ SavePause(r) \/ PersistPause(r) \/ Reply(r)
              \/ Complete(r) \/ Deliver(r) \/ MarkDelivered(r)
       PROVE  [Turns!Next]_(Turns!vars)
  BY <1>15, MapUnchanged
     DEF mapVars, LoadCheckpoint, AwaitResult, Timeout, DrainExpired, FailRun, CancelledRun,
         EmitEnded, SavePause, PersistPause, Reply, Complete, Deliver, MarkDelivered,
         storeVars, loopVars
<1>16. ASSUME NEW c \in Callers,
              \/ \E p \in Proposals, d \in Decision : ResolveRead(c, p, d)
              \/ ResolveUpdate(c) \/ ResolveFails(c) \/ EnqueueCheck(c)
       PROVE  [Turns!Next]_(Turns!vars)
  BY <1>16, MapUnchanged DEF mapVars, ResolveRead, ResolveUpdate, ResolveFails, EnqueueCheck,
                             storeVars, loopVars, launchVars
<1>17. ASSUME \/ \E p \in Proposals : Expire(p)
              \/ \E r \in Runs : ExecutorStep(r)
              \/ SchedulerStep \/ CancelStep \/ Drain \/ DrainReturns
       PROVE  [Turns!Next]_(Turns!vars)
  BY <1>17, MapUnchanged
     DEF mapVars, Expire, ExecutorStep, Replay, Propose, SavePropose, Return, SchedulerStep,
         FireJob, CompleteJob, CancelStep, CancelMark, CancelRead, CancelWrite, CancelSignal,
         Drain, DrainReturns, storeVars, loopVars, launchVars
<1>18. CASE UNCHANGED vars
  BY <1>18, MapUnchanged DEF mapVars, vars, storeVars, loopVars, launchVars
<1> QED BY <1>1, <1>2, <1>3, <1>4, <1>5, <1>6, <1>7, <1>8, <1>9, <1>10, <1>11, <1>12, <1>13,
           <1>14, <1>15, <1>16, <1>17, <1>18
        DEF Next, Intake, Resolution, Loop, LaunchStep

\* The coordinator, with all of its goroutines, crashes and failing store calls,
\* implements the turns of SessionTurns.
THEOREM Refinement == Spec => ImplementsTurns
<1>1. Init => Turns!Init
  BY TurnsInit
<1>2. TypeOK /\ TurnInv /\ [Next]_vars => [Turns!Next]_(Turns!vars)
  BY TurnsStep
<1> QED BY <1>1, <1>2, TypeCorrect, TurnInvariant, PTL DEF Spec, ImplementsTurns, Turns!Spec
==============================================================================
