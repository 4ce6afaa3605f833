---------------------------- MODULE MCDirectives ----------------------------
(***************************************************************************)
(* Instances of Directives for TLC.                                        *)
(***************************************************************************)
EXTENDS Directives

CONSTANTS m1, m2

\* No task, one for an agent that can complete it, that and one for the coder.
SmallPlans == {<<>>, <<"critic">>, <<"critic", "coder">>}

\* A conversation: the model never answers with tasks.
TalkOnly == {<<>>}
=============================================================================
