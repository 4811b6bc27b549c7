--------------------------- MODULE MCOperationTxnV1 ---------------------------
(***************************************************************************)
(* Two transaction ids called with two intents by processes that share two *)
(* process ids.                                                            *)
(***************************************************************************)
EXTENDS OperationTxnV1
=============================================================================
