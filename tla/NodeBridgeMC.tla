---------------------------- MODULE NodeBridgeMC ----------------------------
(* The instance of NodeBridge that TLC checks. *)
EXTENDS NodeBridge
=============================================================================
