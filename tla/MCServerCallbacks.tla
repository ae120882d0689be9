-------------------------- MODULE MCServerCallbacks --------------------------
(***************************************************************************)
(* The instance of MCServer, with the callbacks of ServerCallbacks.        *)
(***************************************************************************)
EXTENDS MCServer, ServerCallbacks
=============================================================================
