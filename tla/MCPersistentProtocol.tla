----------------------- MODULE MCPersistentProtocol ------------------------
(***************************************************************************)
(* Instances of PersistentProtocol for TLC: what each application sends.   *)
(***************************************************************************)
EXTENDS PersistentProtocol

CONSTANTS a, b, c       \* model values: application payloads

MCData == {a, b, c}
MCNoData == "none"

(* The client sends two messages, the server one. *)
TwoOne == [p \in Peers |-> IF p = Client THEN <<a, b>> ELSE <<c>>]

(* The client only sends, two messages. *)
TwoNone == [p \in Peers |-> IF p = Client THEN <<a, b>> ELSE <<>>]
=============================================================================
