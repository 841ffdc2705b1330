-------------------------- MODULE MCPersistentNode --------------------------
(***************************************************************************)
(* An instance of PersistentNode for TLC.  Two transactions of one sender  *)
(* share a nonce.  Another sender's expire at heights 1 and 2; the first,  *)
(* at two units, does not fit into a block beside an earlier one, while    *)
(* the second, which comes after it, may.                                  *)
(***************************************************************************)
EXTENDS PersistentNode, TLC

CONSTANTS none

Tx(hash, sender, nonce, valid_until_height, units) ==
    [hash |-> hash, sender |-> sender, nonce |-> nonce,
     valid_until_height |-> valid_until_height, units |-> units]

MCTransactions ==
    {Tx(1, "a", 0, none, 1), Tx(2, "a", 0, none, 1), Tx(3, "b", 0, 1, 2),
     Tx(4, "b", 1, 2, 1)}
MCRank == [tx \in MCTransactions |-> tx.hash]

=============================================================================
