---------------------------- MODULE DurableCommit ----------------------------
(***************************************************************************)
(* What the commit protocol promises of the disk, with the stores and the  *)
(* steps of Sync::sync abstracted away.  The database's committed sequence *)
(* number goes up one at a time, and a number is committed only once the  *)
(* data of that sync is durable in every store.  `staged` says that the    *)
(* data of number committed + 1 is durable in every store.                 *)
(***************************************************************************)
EXTENDS Naturals

VARIABLES
  committed,   \* the sequence number the disk is committed to
  staged       \* the data of committed + 1 is durable everywhere

Init ==
  /\ committed = 0
  /\ staged = FALSE

\* The data of the next sequence number becomes durable in every store.
Stage ==
  /\ ~staged
  /\ staged' = TRUE
  /\ UNCHANGED committed

\* The next sequence number is committed; its data was already durable.
Commit ==
  /\ staged
  /\ committed' = committed + 1
  /\ staged' = FALSE

Next == Stage \/ Commit

Spec == Init /\ [][Next]_<<committed, staged>>

=============================================================================
