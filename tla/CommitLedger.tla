---------------------------- MODULE CommitLedger ----------------------------
(***************************************************************************)
(* What production-v2 promises its callers, without files: an append-only  *)
(* ledger of transactions, each committed by one atomic step, a runtime    *)
(* that serves either nothing or the whole ledger it was opened on, and    *)
(* receipts that name a served entry by its position.                      *)
(***************************************************************************)
EXTENDS Integers, Sequences

CONSTANTS TxIds, Requests

VARIABLES
    ledger,  \* the committed transactions, in commit order
    served,  \* how many of them the running owner serves; 0 when none runs
    acks     \* the receipts ever handed out

lvars == <<ledger, served, acks>>

LedgerInit == ledger = << >> /\ served = 0 /\ acks = {}

\* A transaction identity commits at most once.
Commit(tx, req) ==
    /\ \A i \in 1..Len(ledger) : ledger[i].tx # tx
    /\ ledger' = Append(ledger, [tx |-> tx, req |-> req])
    /\ UNCHANGED <<served, acks>>

\* An owner (re)opens its runtime on everything committed so far.
Serve == served' = Len(ledger) /\ UNCHANGED <<ledger, acks>>

\* The owner stops or dies.
Stop == served' = 0 /\ UNCHANGED <<ledger, acks>>

\* A receipt is handed out only for an entry the runtime serves.
Acknowledge(i) ==
    /\ i \in 1..served
    /\ acks' = acks \cup {[tx |-> ledger[i].tx, req |-> ledger[i].req, n |-> i]}
    /\ UNCHANGED <<ledger, served>>

LedgerNext ==
    \/ \E tx \in TxIds, req \in Requests : Commit(tx, req)
    \/ Serve
    \/ Stop
    \/ \E i \in 1..served : Acknowledge(i)

LedgerSpec == LedgerInit /\ [][LedgerNext]_lvars
=============================================================================
