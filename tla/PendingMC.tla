------------------------------ MODULE PendingMC ------------------------------
(* Instances of PendingActions for TLC. *)
EXTENDS PendingActions

\* One message per folder, with uids that differ.
InboxAndTrash == [m \in Msgs |-> IF m = 1 THEN "INBOX" ELSE "TRASH"]
OtherAndTrash == [m \in Msgs |-> IF m = 1 THEN "OTHER" ELSE "TRASH"]
Distinct == [m \in Msgs |-> m]
=============================================================================
