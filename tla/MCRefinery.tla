----------------------------- MODULE MCRefinery -----------------------------
(***************************************************************************)
(* Instances of Refinery for TLC.                                          *)
(***************************************************************************)
EXTENDS Refinery, TLC

CONSTANTS m1, m2, bad, s1, s2, s3

\* Two sources and a malformed record; copies come from redelivery.
SourceOf == m1 :> s1 @@ m2 :> s2 @@ bad :> s3

\* One chunk is remembered and names a contact twice.
Mentions == <<"memory", "alice", "alice">>
=============================================================================
