--------------------------- MODULE HeartbeatProofs ---------------------------
(***************************************************************************)
(* Proofs about Heartbeat, for every set of requests, priorities and keys: *)
(* a pending wake has a timer or a drain, and no accepted note vanishes.   *)
(***************************************************************************)
EXTENDS Heartbeat, TLAPS

Phases == {"idle", "fired", "taken", "cycle"}

\* What the wake part of the service keeps.
WakesTyped ==
    /\ pendingWake \in [Keys -> Wake]
    /\ drain \in [Drains -> [phase : Phases, taken : [Keys -> Wake]]]
    /\ accepted \subseteq Requests

\* A pending wake holds accepted requests of its session only, all of its priority.
PendingIsUniform ==
    \A k \in Keys : \A r \in pendingWake[k].notes :
        r \in accepted /\ Key[r] = k /\ Priority[r] = pendingWake[k].pri

\* A drain that has not taken anything has nothing to lose.
EmptyBeforeTaking == \A d \in Drains : drain[d].phase \in {"idle", "fired"} => drain[d].taken = NoneTaken

\* The inductive invariant.
WakeInv ==
    /\ WakesTyped
    /\ PendingIsUniform
    /\ EmptyBeforeTaking
    /\ PendingHasTimer
    /\ NotesAreCarried

LEMMA EmptyIsTyped == NoWake \in Wake /\ NoneTaken \in [Keys -> Wake] /\ \A k \in Keys : NoneTaken[k].notes = {}
  BY DEF NoWake, Wake, NoneTaken

LEMMA KeysTyped == \A r \in Requests : Key[r] \in Keys
  BY RequestsTyped

LEMMA WakeInit == Init => WakeInv
  BY EmptyIsTyped DEF Init, WakeInv, WakesTyped, PendingIsUniform, EmptyBeforeTaking, PendingHasTimer,
       NotesAreCarried, Idle, Phases

\* Steps that touch neither the pending wakes nor the drains.
LEMMA WakeFrame ==
    ASSUME WakeInv, UNCHANGED <<pendingWake, wakeTimer, drain, accepted>>, served' = served, lost' = lost
    PROVE  WakeInv'
  BY DEF WakeInv, WakesTyped, PendingIsUniform, EmptyBeforeTaking, PendingHasTimer, NotesAreCarried,
       Carried, Outranked

\* Stop drops what is pending, and says so.
LEMMA StopStep ==
    ASSUME WakeInv, Stop
    PROVE  WakeInv'
<1>1. WakesTyped' /\ EmptyBeforeTaking' /\ PendingHasTimer'
  BY EmptyIsTyped DEF Stop, WakeInv, WakesTyped, EmptyBeforeTaking, PendingHasTimer
<1>2. PendingIsUniform'
  BY EmptyIsTyped DEF Stop, PendingIsUniform
<1>3. ASSUME NEW r \in accepted'
      PROVE  Carried(r)' \/ Outranked(r)' \/ r \in lost'
  <2>1. r \in accepted /\ Key[r] \in Keys
    BY <1>3, KeysTyped DEF Stop, WakeInv, WakesTyped
  <2>2. CASE r \in pendingWake[Key[r]].notes
    BY <2>1, <2>2 DEF Stop
  <2>3. CASE r \notin pendingWake[Key[r]].notes
    BY <2>1, <2>3 DEF Stop, WakeInv, NotesAreCarried, Carried, Outranked
  <2>4. QED
    BY <2>2, <2>3
<1>4. QED
  BY <1>1, <1>2, <1>3 DEF WakeInv, NotesAreCarried

\* A request under the lock: dropped behind a wake of higher priority, merged with its equals,
\* or put in the place of what it outranks.
LEMMA MergeStep ==
    ASSUME WakeInv, NEW r \in Requests, MergeWake(r)
    PROVE  WakeInv'
<1> DEFINE k == Key[r]
           prev == pendingWake[k]
<1>k. k \in Keys /\ prev \in Wake /\ Priority[r] \in 0..3
  BY KeysTyped, RequestsTyped DEF WakeInv, WakesTyped
<1>a. accepted' = accepted \cup {r} /\ drain' = drain /\ served' = served /\ lost' = lost
  BY DEF MergeWake
<1>1. CASE prev.notes # {} /\ Priority[r] < prev.pri /\ UNCHANGED <<pendingWake, wakeTimer>>
  <2>1. WakesTyped' /\ PendingIsUniform' /\ EmptyBeforeTaking' /\ PendingHasTimer'
    BY <1>a, <1>1 DEF WakeInv, WakesTyped, PendingIsUniform, EmptyBeforeTaking, PendingHasTimer
  <2>2. PICK q \in prev.notes : q \in accepted /\ Key[q] = k /\ Priority[q] = prev.pri
    BY <1>k, <1>1 DEF WakeInv, PendingIsUniform
  <2>3. Priority[q] > Priority[r]
    BY <1>k, <1>1, <2>2 DEF Wake
  <2>4. Outranked(r)'
    BY <1>a, <2>2, <2>3 DEF Outranked
  <2>5. \A s \in accepted : Carried(s)' \/ Outranked(s)' \/ s \in lost'
    BY <1>a, <1>1 DEF WakeInv, NotesAreCarried, Carried, Outranked
  <2>6. QED
    BY <1>a, <2>1, <2>4, <2>5 DEF WakeInv, NotesAreCarried
<1>2. CASE /\ prev.notes = {} \/ Priority[r] >= prev.pri
           /\ pendingWake' = [pendingWake EXCEPT ![k] = Merged(prev, r)]
           /\ wakeTimer' = TRUE
  <2>1. /\ Merged(prev, r) \in Wake
        /\ r \in Merged(prev, r).notes
        /\ Merged(prev, r).pri = Priority[r]
        /\ \A s \in Merged(prev, r).notes : s = r \/ (s \in prev.notes /\ Priority[r] = prev.pri)
        /\ \A s \in prev.notes : s \in Merged(prev, r).notes \/ Priority[r] # prev.pri
    BY <1>k DEF Merged, Wake
  <2>2. /\ pendingWake' \in [Keys -> Wake]
        /\ pendingWake'[k] = Merged(prev, r)
        /\ \A l \in Keys \ {k} : pendingWake'[l] = pendingWake[l]
    BY <1>k, <1>2, <2>1 DEF WakeInv, WakesTyped
  <2>3. WakesTyped' /\ EmptyBeforeTaking' /\ PendingHasTimer'
    BY <1>a, <1>2, <2>2 DEF WakeInv, WakesTyped, EmptyBeforeTaking, PendingHasTimer
  <2>4. PendingIsUniform'
    BY <1>a, <1>k, <2>1, <2>2 DEF WakeInv, PendingIsUniform
  <2>5. ASSUME NEW s \in accepted
        PROVE  Carried(s)' \/ Outranked(s)' \/ s \in lost'
    <3>1. CASE Key[s] = k /\ s \in prev.notes /\ Priority[r] # prev.pri
      <4>1. Priority[s] = prev.pri /\ prev.pri \in 0..3
        BY <1>k, <3>1 DEF WakeInv, PendingIsUniform, Wake
      <4>2. Priority[r] > Priority[s]
        BY <1>k, <1>2, <3>1, <4>1
      <4>3. QED
        BY <1>a, <3>1, <4>2 DEF Outranked
    <3>2. CASE ~(Key[s] = k /\ s \in prev.notes /\ Priority[r] # prev.pri)
      <4>1. Key[s] \in Keys
        BY <2>5, KeysTyped DEF WakeInv, WakesTyped
      <4>2. s \in pendingWake[Key[s]].notes => s \in pendingWake'[Key[s]].notes
        BY <2>1, <2>2, <3>2, <4>1
      <4>3. QED
        BY <1>a, <4>2 DEF WakeInv, NotesAreCarried, Carried, Outranked
    <3>3. QED
      BY <3>1, <3>2
  <2>6. Carried(r)'
    BY <2>1, <2>2 DEF Carried
  <2>7. QED
    BY <1>a, <2>3, <2>4, <2>5, <2>6 DEF WakeInv, NotesAreCarried
<1>3. QED
  BY <1>1, <1>2 DEF MergeWake

\* The timer's goroutine starts.
LEMMA FireStep ==
    ASSUME WakeInv, NEW d \in Drains, TimerFires(d)
    PROVE  WakeInv'
<1>1. /\ drain' \in [Drains -> [phase : Phases, taken : [Keys -> Wake]]]
      /\ drain'[d].phase = "fired"
      /\ \A e \in Drains : drain'[e].taken = drain[e].taken
      /\ \A e \in Drains \ {d} : drain'[e] = drain[e]
  BY DEF TimerFires, WakeInv, WakesTyped, Phases
<1>2. UNCHANGED <<pendingWake, accepted, served, lost>>
  BY DEF TimerFires
<1>3. WakesTyped' /\ PendingIsUniform' /\ PendingHasTimer'
  BY <1>1, <1>2 DEF WakeInv, WakesTyped, PendingIsUniform, PendingHasTimer
<1>4. EmptyBeforeTaking'
  BY <1>1 DEF TimerFires, WakeInv, EmptyBeforeTaking
<1>5. NotesAreCarried'
  BY <1>1, <1>2 DEF WakeInv, NotesAreCarried, Carried, Outranked
<1>6. QED
  BY <1>3, <1>4, <1>5 DEF WakeInv

\* A drain takes everything that is pending.
LEMMA TakeStep ==
    ASSUME WakeInv, NEW d \in Drains, TakeWakes(d)
    PROVE  WakeInv'
<1>1. /\ drain' \in [Drains -> [phase : Phases, taken : [Keys -> Wake]]]
      /\ drain'[d].phase = "idle" => pendingWake = NoneTaken
      /\ drain'[d].phase # "fired"
      /\ drain'[d].taken = pendingWake
      /\ \A e \in Drains \ {d} : drain'[e] = drain[e]
  BY DEF TakeWakes, WakeInv, WakesTyped, Phases
<1>2. pendingWake' = NoneTaken /\ UNCHANGED <<accepted, served, lost>>
  BY DEF TakeWakes
<1>3. WakesTyped' /\ PendingIsUniform' /\ PendingHasTimer'
  BY <1>1, <1>2, EmptyIsTyped DEF WakeInv, WakesTyped, PendingIsUniform, PendingHasTimer
<1>4. EmptyBeforeTaking'
  BY <1>1 DEF WakeInv, EmptyBeforeTaking
<1>5. ASSUME NEW r \in accepted'
      PROVE  Carried(r)' \/ Outranked(r)' \/ r \in lost'
  <2>1. r \in accepted /\ Key[r] \in Keys
    BY <1>2, <1>5, KeysTyped DEF WakeInv, WakesTyped
  <2>2. r \notin drain[d].taken[Key[r]].notes
    BY <2>1, EmptyIsTyped DEF TakeWakes, WakeInv, EmptyBeforeTaking
  <2>3. QED
    BY <1>1, <1>2, <2>1, <2>2 DEF WakeInv, NotesAreCarried, Carried, Outranked
<1>6. QED
  BY <1>3, <1>4, <1>5 DEF WakeInv, NotesAreCarried

\* What a drain loses or serves is recorded as lost or served.
LEMMA DrainFrame ==
    ASSUME WakeInv, NEW d \in Drains, NEW e \in [phase : Phases, taken : [Keys -> Wake]],
           drain[d].phase \in {"taken", "cycle"}, e.phase \in {"idle", "fired"} => e.taken = NoneTaken,
           e.phase # "fired", drain' = [drain EXCEPT ![d] = e],
           UNCHANGED <<pendingWake, wakeTimer, accepted>>, served \subseteq served', lost \subseteq lost',
           \A k \in Keys : drain[d].taken[k].notes \subseteq e.taken[k].notes \cup served' \cup lost'
    PROVE  WakeInv'
<1>1. /\ drain' \in [Drains -> [phase : Phases, taken : [Keys -> Wake]]]
      /\ drain'[d] = e
      /\ \A f \in Drains \ {d} : drain'[f] = drain[f]
  BY DEF WakeInv, WakesTyped
<1>2. WakesTyped' /\ PendingIsUniform' /\ PendingHasTimer' /\ EmptyBeforeTaking'
  BY <1>1 DEF WakeInv, WakesTyped, PendingIsUniform, PendingHasTimer, EmptyBeforeTaking
<1>3. ASSUME NEW r \in accepted'
      PROVE  Carried(r)' \/ Outranked(r)' \/ r \in lost'
  <2>1. r \in accepted /\ Key[r] \in Keys
    BY <1>3, KeysTyped DEF WakeInv, WakesTyped
  <2>2. CASE r \in drain[d].taken[Key[r]].notes
    BY <1>1, <2>1, <2>2 DEF Carried
  <2>3. CASE r \notin drain[d].taken[Key[r]].notes
    BY <1>1, <2>1, <2>3 DEF WakeInv, NotesAreCarried, Carried, Outranked
  <2>4. QED
    BY <2>2, <2>3
<1>4. QED
  BY <1>2, <1>3 DEF WakeInv, NotesAreCarried

LEMMA CheckStep ==
    ASSUME WakeInv, NEW d \in Drains, CheckRunning(d)
    PROVE  WakeInv'
<1>t. drain[d] \in [phase : Phases, taken : [Keys -> Wake]] /\ drain[d].phase = "taken"
  BY DEF WakeInv, WakesTyped, CheckRunning
<1>u. UNCHANGED <<pendingWake, wakeTimer, accepted, served>>
  BY DEF CheckRunning, wakeVars
<1>1. CASE running /\ drain' = [drain EXCEPT ![d].phase = "cycle"] /\ UNCHANGED lost
  <2> DEFINE e == [drain[d] EXCEPT !.phase = "cycle"]
  <2>1. /\ e \in [phase : Phases, taken : [Keys -> Wake]] /\ e.phase = "cycle"
        /\ e.taken = drain[d].taken
        /\ drain' = [drain EXCEPT ![d] = e]
    BY <1>1, <1>t DEF Phases
  <2> HIDE DEF e
  <2>2. QED
    BY <1>1, <1>t, <1>u, <2>1, DrainFrame
<1>2. CASE /\ ~running /\ drain' = [drain EXCEPT ![d] = Idle]
           /\ lost' = lost \cup UNION {drain[d].taken[k].notes : k \in Keys}
  <2>1. /\ Idle \in [phase : Phases, taken : [Keys -> Wake]]
        /\ Idle.phase # "fired" /\ Idle.taken = NoneTaken
    BY EmptyIsTyped DEF Idle, Phases
  <2>2. \A k \in Keys : drain[d].taken[k].notes \subseteq Idle.taken[k].notes \cup served' \cup lost'
    BY <1>2
  <2>3. served \subseteq served' /\ lost \subseteq lost' /\ drain' = [drain EXCEPT ![d] = Idle]
    BY <1>2, <1>u
  <2>4. QED
    <3>1. PICK e \in [phase : Phases, taken : [Keys -> Wake]] : e = Idle
      BY <2>1
    <3>2. QED
      BY <1>t, <1>u, <2>1, <2>2, <2>3, <3>1, DrainFrame
<1>3. QED
  BY <1>1, <1>2 DEF CheckRunning

LEMMA CycleStep ==
    ASSUME WakeInv, NEW d \in Drains, NEW k \in Keys, NEW ok \in BOOLEAN, WakeCycle(d, k, ok)
    PROVE  WakeInv'
<1> DEFINE left == [drain[d].taken EXCEPT ![k] = NoWake]
           e == IF left = NoneTaken THEN Idle ELSE [drain[d] EXCEPT !.taken = left]
<1>t. drain[d] \in [phase : Phases, taken : [Keys -> Wake]] /\ drain[d].phase = "cycle"
  BY DEF WakeInv, WakesTyped, WakeCycle
<1>u. UNCHANGED <<pendingWake, wakeTimer, accepted>>
  BY DEF WakeCycle, wakeVars
<1>1. left \in [Keys -> Wake] /\ \A l \in Keys \ {k} : left[l] = drain[d].taken[l]
  BY <1>t, EmptyIsTyped
<1>2. /\ e \in [phase : Phases, taken : [Keys -> Wake]]
      /\ e.taken = left
      /\ e.phase \in {"idle", "fired"} => e.taken = NoneTaken
      /\ e.phase # "fired"
  BY <1>t, <1>1, EmptyIsTyped DEF Idle, Phases
<1>3. drain' = [drain EXCEPT ![d] = e]
  BY <1>t DEF WakeCycle, WakeInv, WakesTyped
<1>4. served \subseteq served' /\ lost \subseteq lost' /\ drain[d].taken[k].notes \subseteq served' \cup lost'
  BY DEF WakeCycle
<1>5. \A l \in Keys : drain[d].taken[l].notes \subseteq e.taken[l].notes \cup served' \cup lost'
  BY <1>1, <1>2, <1>4
<1> HIDE DEF e, left
<1>6. QED
  BY <1>t, <1>u, <1>2, <1>3, <1>4, <1>5, DrainFrame

LEMMA WakeStep == WakeInv /\ [Next]_vars => WakeInv'
<1> SUFFICES ASSUME WakeInv, [Next]_vars PROVE WakeInv'
  OBVIOUS
<1>1. CASE Start \/ CancelCtx
  BY <1>1, WakeFrame DEF Start, CancelCtx, wakeVars
<1>2. CASE Stop
  BY <1>2, StopStep
<1>3. ASSUME NEW l \in Loops, LoopStep(l) \/ LoopExit(l) \/ LoopTick(l)
      PROVE  WakeInv'
  BY <1>3, WakeFrame DEF LoopStep, LoopSelect, LoopCycle, LoopExit, LoopTick, wakeVars
<1>4. ASSUME NEW r \in Requests, RequestWake(r)
      PROVE  WakeInv'
  BY <1>4, WakeFrame DEF RequestWake
<1>5. ASSUME NEW r \in Requests, MergeWake(r)
      PROVE  WakeInv'
  BY <1>5, MergeStep
<1>6. ASSUME NEW d \in Drains, TimerFires(d) \/ DrainStep(d)
      PROVE  WakeInv'
  BY <1>6, FireStep, TakeStep, CheckStep, CycleStep DEF DrainStep
<1>7. CASE UNCHANGED vars
  BY <1>7, WakeFrame DEF vars, wakeVars
<1>8. QED
  BY <1>1, <1>2, <1>3, <1>4, <1>5, <1>6, <1>7 DEF Next

\* RequestWake, Stop and the drains never leave a pending wake without a timer or a drain that
\* will take it, whatever the interleaving.
THEOREM PendingAlwaysHasTimer == Spec => []PendingHasTimer
<1>1. Init => WakeInv
  BY WakeInit
<1>2. WakeInv => PendingHasTimer
  BY DEF WakeInv
<1>3. QED
  BY <1>1, <1>2, WakeStep, PTL DEF Spec

\* The notes of an accepted wake are pending, taken, served or accounted for: outranked by a
\* wake of the same session, or gone with a stop or a failed cycle.
THEOREM NotesAreNeverDropped == Spec => []NotesAreCarried
<1>1. Init => WakeInv
  BY WakeInit
<1>2. WakeInv => NotesAreCarried
  BY DEF WakeInv
<1>3. QED
  BY <1>1, <1>2, WakeStep, PTL DEF Spec
=============================================================================
