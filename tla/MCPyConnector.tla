---------------------------- MODULE MCPyConnector ----------------------------
(***************************************************************************)
(* Two instances, each with a server of its own.                           *)
(***************************************************************************)
EXTENDS PyConnector

TwoInstances == {"a", "b"}
=============================================================================
