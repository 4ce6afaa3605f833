----------------------------- MODULE SessionTurns -----------------------------
(***************************************************************************)
(* What the run coordinator promises to a runtime session, without runs,   *)
(* checkpoints, contexts or goroutines: accepted items are handled in      *)
(* turns, one turn at a time; a turn takes its item out of the queue for   *)
(* good before anything is done about it, and acts on it at most once.     *)
(* A turn may end at any point (error, cancellation, crash); then an item  *)
(* that was not taken is still queued, and one that was taken never comes  *)
(* back.  RunCoordinator implements this specification.                    *)
(***************************************************************************)
CONSTANTS Items, None

VARIABLES
    state,   \* state of every item
    turn,    \* the item whose turn it is, or None
    acted    \* items that were acted on

vars == <<state, turn, acted>>

ItemState == {"absent", "queued", "folded", "taken"}

Init ==
    /\ state = [i \in Items |-> "absent"]
    /\ turn = None
    /\ acted = {}

\* A new item is queued, or folded into one that is.
Accept(i) ==
    /\ state[i] = "absent"
    /\ \/ state' = [state EXCEPT ![i] = "queued"]
       \/ /\ \E j \in Items : state[j] = "queued"
          /\ state' = [state EXCEPT ![i] = "folded"]
    /\ UNCHANGED <<turn, acted>>

Begin(i) ==
    /\ turn = None
    /\ state[i] = "queued"
    /\ turn' = i
    /\ UNCHANGED <<state, acted>>

Take(i) ==
    /\ turn = i
    /\ state[i] = "queued"
    /\ state' = [state EXCEPT ![i] = "taken"]
    /\ UNCHANGED <<turn, acted>>

Act(i) ==
    /\ turn = i
    /\ state[i] = "taken"
    /\ i \notin acted
    /\ acted' = acted \cup {i}
    /\ UNCHANGED <<state, turn>>

End ==
    /\ turn # None
    /\ turn' = None
    /\ UNCHANGED <<state, acted>>

Next == End \/ \E i \in Items : Accept(i) \/ Begin(i) \/ Take(i) \/ Act(i)

Spec == Init /\ [][Next]_vars
=============================================================================
