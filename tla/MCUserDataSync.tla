--------------------------- MODULE MCUserDataSync ---------------------------
(* Instances of UserDataSync: two machines and two contents. *)
EXTENDS UserDataSync

CONSTANTS m1, m2, c1, c2

MCMachines == {m1, m2}
MCContents == {c1, c2}
=============================================================================
