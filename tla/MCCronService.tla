---------------------------- MODULE MCCronService ----------------------------
(***************************************************************************)
(* Instances of CronService for TLC; the .cfg files give the bounds.       *)
(***************************************************************************)
EXTENDS CronService, TLC

Table == <<1, 2>>
Once == [kind |-> "once", at |-> 1]
Every == [kind |-> "every", at |-> 0]
AllKinds == {Once, Every, [kind |-> "at", at |-> 2], [kind |-> "cron", at |-> 0]}
OnceAndEvery == {Once, Every}
OnlyEvery == {Every}

\* Jobs and ticks are only compared for equality.
Symmetry == Permutations(Jobs) \cup Permutations(Ticks)
=============================================================================
