--------------------------- MODULE MCIpcChannel ----------------------------
(***************************************************************************)
(* Instances of IpcChannel for TLC.                                        *)
(***************************************************************************)
EXTENDS IpcChannel

CONSTANTS c1, e1, e2, ch1      \* model values

OneCall == {c1}
TwoEvents == {e1, e2}
SecondEvent == {e2}
OneChannel == {ch1}

AllFirst == [id \in Ids |-> ch1]
=============================================================================
