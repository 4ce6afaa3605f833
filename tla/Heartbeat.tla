------------------------------ MODULE Heartbeat ------------------------------
(***************************************************************************)
(* The heartbeat service: its ticker loop, wake requests that are merged   *)
(* per session key during a coalescing window, and the heartbeat cycles    *)
(* both lead to.  A loop is numbered by the Start that launched it, a      *)
(* drain by the slot of its timer's goroutine.  The notes of a wake are    *)
(* the requests whose reasons they hold.  Interval, window and quiet hours *)
(* are times that pass.                                                    *)
(***************************************************************************)
EXTENDS Integers, FiniteSets

CONSTANTS
    Requests,      \* calls of RequestWake
    Priority,      \* Priority[r]: WakePriority, 0 (action) to 3 (retry)
    Key,           \* Key[r]: sessionKey
    MaxStarts,     \* calls of Start that launch a loop
    MaxDrains      \* timer goroutines alive at once

Keys == {Key[r] : r \in Requests}
Loops == 1..MaxStarts
Drains == 1..MaxDrains

ASSUME Bounds == {MaxStarts, MaxDrains} \subseteq Nat \ {0}
ASSUME RequestsTyped == Priority \in [Requests -> 0..3] /\ \A r \in Requests : Key[r] \in Keys

VARIABLES
    running, stopChan,     \* h.running; h.stopChan, the number of the Start that made it
    closed,                \* stop channels that were closed
    ctxDone,               \* the context given to Start
    lpc, waitsOn,          \* loops, and the channel each evaluated for its select
    rpc,                   \* callers of RequestWake
    pendingWake, wakeTimer,
    drain,                 \* drains: phase, the map taken, the key at work
    accepted, served, lost \* history: wakes merged, handed to the agent, dropped by a stop or a failed cycle

loopVars == <<running, stopChan, closed, ctxDone, lpc, waitsOn>>
wakeVars == <<rpc, pendingWake, wakeTimer, accepted>>
vars == <<loopVars, wakeVars, drain, served, lost>>

-----------------------------------------------------------------------------
NoWake == [notes |-> {}, pri |-> 0]
Wake == [notes : SUBSET Requests, pri : 0..3]
NoneTaken == [k \in Keys |-> NoWake]
Idle == [phase |-> "idle", taken |-> NoneTaken]

HasWake(p, k) == p[k].notes # {}

Init ==
    /\ running = FALSE /\ stopChan = 0 /\ closed = {} /\ ctxDone = FALSE
    /\ lpc = [l \in Loops |-> "none"] /\ waitsOn = [l \in Loops |-> 0]
    /\ rpc = [r \in Requests |-> "idle"]
    /\ pendingWake = NoneTaken /\ wakeTimer = FALSE
    /\ drain = [d \in Drains |-> Idle]
    /\ accepted = {} /\ served = {} /\ lost = {}

-----------------------------------------------------------------------------
(* Start, Stop and the ticker loop                                         *)

Start ==
    /\ ~running /\ stopChan < MaxStarts
    /\ stopChan' = stopChan + 1
    /\ running' = TRUE
    /\ lpc' = [lpc EXCEPT ![stopChan + 1] = "top"]
    /\ UNCHANGED <<closed, ctxDone, waitsOn, wakeVars, drain, served, lost>>

\* Mutant of Stop: the loop is not told.
StopSilently ==
    /\ running
    /\ running' = FALSE
    /\ wakeTimer' = FALSE /\ pendingWake' = NoneTaken
    /\ lost' = lost \cup UNION {pendingWake[k].notes : k \in Keys}
    /\ UNCHANGED <<closed, stopChan, ctxDone, lpc, waitsOn, rpc, accepted, drain, served>>

Stop ==
    /\ running
    /\ closed' = closed \cup {stopChan}
    /\ running' = FALSE
    /\ wakeTimer' = FALSE /\ pendingWake' = NoneTaken
    /\ lost' = lost \cup UNION {pendingWake[k].notes : k \in Keys}
    /\ UNCHANGED <<stopChan, ctxDone, lpc, waitsOn, rpc, accepted, drain, served>>

CancelCtx ==
    /\ ~ctxDone /\ stopChan > 0
    /\ ctxDone' = TRUE
    /\ UNCHANGED <<running, stopChan, closed, lpc, waitsOn, wakeVars, drain, served, lost>>

\* The select of runLoop reads h.stopChan anew on every iteration.
LoopSelect(l) ==
    /\ lpc[l] = "top"
    /\ waitsOn' = [waitsOn EXCEPT ![l] = stopChan]
    /\ lpc' = [lpc EXCEPT ![l] = "select"]
    /\ UNCHANGED <<running, stopChan, closed, ctxDone, wakeVars, drain, served, lost>>

LoopExit(l) ==
    /\ lpc[l] = "select"
    /\ \/ ctxDone /\ running' = FALSE
       \/ waitsOn[l] \in closed /\ UNCHANGED running
    /\ lpc' = [lpc EXCEPT ![l] = "exited"]
    /\ waitsOn' = [waitsOn EXCEPT ![l] = 0]
    /\ UNCHANGED <<stopChan, closed, ctxDone, wakeVars, drain, served, lost>>

LoopTick(l) ==
    /\ lpc[l] = "select"
    /\ lpc' = [lpc EXCEPT ![l] = "cycle"]
    /\ waitsOn' = [waitsOn EXCEPT ![l] = 0]
    /\ UNCHANGED <<running, stopChan, closed, ctxDone, wakeVars, drain, served, lost>>

\* executeHeartbeat of the ticker: nothing to carry, whatever its result.
LoopCycle(l) ==
    /\ lpc[l] = "cycle"
    /\ lpc' = [lpc EXCEPT ![l] = "top"]
    /\ UNCHANGED <<running, stopChan, closed, ctxDone, waitsOn, wakeVars, drain, served, lost>>

-----------------------------------------------------------------------------
(* Wake requests                                                           *)

\* The check of running, and of do not disturb and quiet hours, which come and go; the lock is
\* taken after it.
RequestWake(r) ==
    /\ rpc[r] = "idle"
    /\ \/ running /\ rpc' = [rpc EXCEPT ![r] = "checked"]
       \/ rpc' = [rpc EXCEPT ![r] = "done"]
    /\ UNCHANGED <<loopVars, pendingWake, wakeTimer, accepted, drain, served, lost>>

\* Mutant of Merged: equal priorities replace each other.
MergedOver(prev, r) == [notes |-> {r}, pri |-> Priority[r]]

\* mergeWakeLines for an equal priority; a higher one replaces what is pending.
Merged(prev, r) ==
    IF prev.notes # {} /\ Priority[r] = prev.pri THEN [prev EXCEPT !.notes = @ \cup {r}]
    ELSE [notes |-> {r}, pri |-> Priority[r]]

\* Mutant of MergeWake: the timer is stopped, and armed again for a new key only.
MergeUnarmed(r) ==
    /\ rpc[r] = "checked"
    /\ rpc' = [rpc EXCEPT ![r] = "done"]
    /\ accepted' = accepted \cup {r}
    /\ LET k == Key[r]
           prev == pendingWake[k]
       IN  \/ /\ prev.notes # {} /\ Priority[r] < prev.pri
              /\ UNCHANGED <<pendingWake, wakeTimer>>
           \/ /\ prev.notes = {} \/ Priority[r] >= prev.pri
              /\ pendingWake' = [pendingWake EXCEPT ![k] = Merged(prev, r)]
              /\ wakeTimer' = (prev.notes = {})
    /\ UNCHANGED <<loopVars, drain, served, lost>>

\* The part under wakeMu: a lower priority than the pending one changes nothing, any other
\* restarts the window.
MergeWake(r) ==
    /\ rpc[r] = "checked"
    /\ rpc' = [rpc EXCEPT ![r] = "done"]
    /\ accepted' = accepted \cup {r}
    /\ LET k == Key[r]
           prev == pendingWake[k]
       IN  \/ /\ prev.notes # {} /\ Priority[r] < prev.pri
              /\ UNCHANGED <<pendingWake, wakeTimer>>
           \/ /\ prev.notes = {} \/ Priority[r] >= prev.pri
              /\ pendingWake' = [pendingWake EXCEPT ![k] = Merged(prev, r)]
              /\ wakeTimer' = TRUE
    /\ UNCHANGED <<loopVars, drain, served, lost>>

\* The window is over: the timer's function starts in a goroutine of its own.  A Stop of the
\* timer comes too late from here on.
TimerFires(d) ==
    /\ wakeTimer /\ drain[d].phase = "idle"
    /\ wakeTimer' = FALSE
    /\ drain' = [drain EXCEPT ![d].phase = "fired"]
    /\ UNCHANGED <<loopVars, rpc, pendingWake, accepted, served, lost>>

\* drainMergedWake, under wakeMu: it takes what is pending and stops a timer armed meanwhile.
TakeWakes(d) ==
    /\ drain[d].phase = "fired"
    /\ drain' = [drain EXCEPT ![d] = [phase |-> IF pendingWake = NoneTaken THEN "idle" ELSE "taken",
                                      taken |-> pendingWake]]
    /\ pendingWake' = NoneTaken
    /\ wakeTimer' = FALSE
    /\ UNCHANGED <<loopVars, rpc, accepted, served, lost>>

\* A service that was stopped meanwhile drops what was taken.
CheckRunning(d) ==
    /\ drain[d].phase = "taken"
    /\ \/ running /\ drain' = [drain EXCEPT ![d].phase = "cycle"] /\ UNCHANGED lost
       \/ /\ ~running /\ drain' = [drain EXCEPT ![d] = Idle]
          /\ lost' = lost \cup UNION {drain[d].taken[k].notes : k \in Keys}
    /\ UNCHANGED <<loopVars, wakeVars, served>>

\* executeHeartbeat for one key after the other: without tasks or when the handler fails the
\* notes are gone, else they are part of the prompt handed to the agent.
WakeCycle(d, k, ok) ==
    /\ drain[d].phase = "cycle" /\ HasWake(drain[d].taken, k)
    /\ served' = IF ok THEN served \cup drain[d].taken[k].notes ELSE served
    /\ lost' = IF ok THEN lost ELSE lost \cup drain[d].taken[k].notes
    /\ LET left == [drain[d].taken EXCEPT ![k] = NoWake]
       IN  drain' = [drain EXCEPT ![d] = IF left = NoneTaken THEN Idle ELSE [@ EXCEPT !.taken = left]]
    /\ UNCHANGED <<loopVars, wakeVars>>

-----------------------------------------------------------------------------
LoopStep(l) == LoopSelect(l) \/ LoopCycle(l)

DrainStep(d) ==
    \/ TakeWakes(d) \/ CheckRunning(d)
    \/ \E k \in Keys, ok \in BOOLEAN : WakeCycle(d, k, ok)

Next ==
    \/ Start \/ Stop \/ CancelCtx
    \/ \E l \in Loops : LoopStep(l) \/ LoopExit(l) \/ LoopTick(l)
    \/ \E r \in Requests : RequestWake(r) \/ MergeWake(r)
    \/ \E d \in Drains : TimerFires(d) \/ DrainStep(d)

Spec == Init /\ [][Next]_vars

\* Goroutines run, timers fire, a cycle ends (its waits have deadlines), and a select that
\* finds several channels ready again and again chooses each of them at some time.
Fairness ==
    /\ \A l \in Loops : WF_vars(LoopStep(l)) /\ SF_vars(LoopExit(l))
    /\ \A d \in Drains : WF_vars(DrainStep(d))
    /\ WF_vars(\E d \in Drains : TimerFires(d))

FairSpec == Spec /\ Fairness

-----------------------------------------------------------------------------
(* Properties                                                              *)

Carried(r) ==
    \/ r \in pendingWake[Key[r]].notes
    \/ \E d \in Drains : r \in drain[d].taken[Key[r]].notes
    \/ r \in served

Outranked(r) == \E q \in accepted : Key[q] = Key[r] /\ Priority[q] > Priority[r]

\* The notes of a wake that was accepted are pending, taken or handed to the agent, also when
\* they arrive while a drain of an earlier window is under way; only a wake of higher priority
\* for the same session, a stop or a failed cycle may take them away.
NotesAreCarried == \A r \in accepted : Carried(r) \/ Outranked(r) \/ r \in lost

\* What is pending has a timer that will fire or a drain that has not taken it yet, whichever
\* of a request, a stop and an earlier timer came last.
PendingHasTimer ==
    pendingWake = NoneTaken \/ wakeTimer \/ \E d \in Drains : drain[d].phase = "fired"

\* A pending wake does not stay pending: it is taken by a drain, or gone with a stop.
WakesAreTaken == \A k \in Keys : HasWake(pendingWake, k) ~> ~HasWake(pendingWake, k)

\* Every ticker loop ends once the service is stopped for good or its context is cancelled,
\* also one that was in a cycle during a Stop and a Start.
LoopsEnd == <>[]~running => <>[](\A l \in Loops : lpc[l] \in {"none", "exited"})
=============================================================================
