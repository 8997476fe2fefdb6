---------------------------- MODULE DurableStore ----------------------------
(***************************************************************************)
(* What a store with a cache in memory and a database behind it promises:  *)
(* the database holds what the memory held at some earlier moment, as a    *)
(* whole and never of a moment before the last one, so that a crash undoes *)
(* the newest changes and nothing else.  The promise ends when the         *)
(* database reports an error, until the store has been closed and opened   *)
(* again.                                                                  *)
(***************************************************************************)
CONSTANTS Contents      \* what memory and database may hold

VARIABLES
    memory,     \* what readers see
    snapshot,   \* the moment that is being written, or was written last
    durable,    \* what a restart finds
    broken      \* the database reported an error

vars == <<memory, snapshot, durable, broken>>

Init ==
    /\ memory \in Contents
    /\ snapshot = memory /\ durable = memory
    /\ broken = FALSE

(* Readers and writers change the memory. *)
Change ==
    /\ memory' \in Contents
    /\ UNCHANGED <<snapshot, durable, broken>>

(* The present moment is taken, and no other while it is being written. *)
Take ==
    /\ broken \/ durable = snapshot
    /\ snapshot' = memory
    /\ UNCHANGED <<memory, durable, broken>>

(* It is stored; the next one may be taken at once. *)
Store ==
    /\ ~broken
    /\ durable' = snapshot
    /\ snapshot' \in {snapshot, memory}
    /\ UNCHANGED <<memory, broken>>

(* An error: from now on the database holds anything. *)
Fail ==
    /\ durable' \in Contents
    /\ broken' = TRUE
    /\ snapshot' \in Contents
    /\ UNCHANGED memory

(* Closing a broken store may repair it: then all of the memory is stored. *)
Repair ==
    /\ broken
    /\ durable' = memory /\ snapshot' = memory
    /\ broken' = FALSE
    /\ UNCHANGED memory

(* A crash, or a restart: the memory is read again. *)
Restart ==
    /\ memory' = durable /\ snapshot' = durable
    /\ broken' = FALSE
    /\ UNCHANGED durable

Next == Change \/ Take \/ Store \/ Fail \/ Repair \/ Restart

Spec == Init /\ [][Next]_vars
=============================================================================
