------------------------ MODULE MCConnectorDelivery -------------------------
(***************************************************************************)
(* Instances of ConnectorDelivery for TLC.                                 *)
(***************************************************************************)
EXTENDS ConnectorDelivery, TLC

CONSTANTS m1, m2

\* The second message is split.
LongAndShort == m1 :> 1 @@ m2 :> 2
=============================================================================
