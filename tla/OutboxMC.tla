------------------------------ MODULE OutboxMC ------------------------------
(* Instances of Outbox for TLC. *)
EXTENDS Outbox

\* One account for all messages, or an account per message.
OneAccount == [u \in Uids |-> CHOOSE a \in Accounts : TRUE]
TwoAccounts == [u \in Uids |-> IF u = 1 THEN "a" ELSE "b"]

NoFiles == [u \in Uids |-> {}]
OwnFiles == [u \in Uids |-> {"own"}]
FirstIsMixed == [u \in Uids |-> IF u = 1 THEN {"own", "fwd"} ELSE {}]
=============================================================================
