-------------------------- MODULE MCProductionTxn --------------------------
(* Small instances of ProductionTxn for TLC. *)
EXTENDS ProductionTxn, TLC

CONSTANTS t1, t2, t3, a1, a2, a3, b1, b1x, b2, b3, bad, p1, p2

MCAtomOf == b1 :> a1 @@ b1x :> a1 @@ b2 :> a2 @@ b3 :> a3 @@ bad :> NoAtom

Direct(b) == [kind |-> "direct", items |-> <<b>>, old |-> NoAtom, prov |-> ZeroProv]
Batch(items) == [kind |-> "batch", items |-> items, old |-> NoAtom, prov |-> ZeroProv]
Update(a, b, p) == [kind |-> "update", items |-> <<b>>, old |-> a, prov |-> p]

\* A second body of atom a1 (b1x), an invalid and a duplicated item, an update
\* of a batch or direct atom and one of its successor, an update to the same atom.
SafetyRequests == {Direct(b1), Batch(<<b2, b1x>>), Batch(<<bad, b1, b1>>), Update(a1, b3, p1),
                   Update(a3, b2, p2), Update(a1, b1x, p2)}

TxSymmetry == Permutations(TxIds)

AllPhases == {"check", "remove", "replay", "install", "opened", "decide", "stage",
              "reply", "idle"}
Everywhere == AllPhases \X (Kinds \cup {"none"})
\* An atom updated twice in a row.
UpdateRequests == {Direct(b1), Update(a1, b2, p1), Update(a2, b3, p2)}
BatchRequests == {Batch(<<b1, b2>>)}
RetryRequests == {Batch(<<b1, b2>>), Update(a1, b3, p1)}
LivenessRequests == {Direct(b1), Batch(<<b1, b2>>), Update(a1, b3, p1)}

Nowhere == {}
BatchStaging == {<<"stage", "batch">>}

\* The points from which every whole-file crash recovers: everywhere but in
\* the staging of a batch and in the removal of a pending tree.
RecoverablePoints ==
    Everywhere \ (BatchStaging \cup ({"remove"} \X Kinds))
=============================================================================
