------------------------- MODULE MCRemoteConnection -------------------------
(***************************************************************************)
(* Instances of RemoteConnection for TLC: a management connection m and an *)
(* extension host connection x.                                            *)
(***************************************************************************)
EXTENDS RemoteConnection

CONSTANTS m, x          \* model values

Management == {m}
ExtensionHost == {x}
Window == {m, x}
None == {}
=============================================================================
