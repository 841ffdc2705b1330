------------------------------- MODULE Bridge -------------------------------
(***************************************************************************)
(* The bridge contract of detta-core: queue_bridge_message takes assets    *)
(* into custody and appends to the outbox, redeem_bridge_message mints     *)
(* against a finality proof of the source chain's validators.              *)
(***************************************************************************)
EXTENDS ContractState

CONSTANT ChainId   \* this chain

(* The id is global: a second bridge may not reuse it either.              *)
QueueBridgeMessage(w, t) ==
    LET c == t.target
        message == [source_chain |-> ChainId, source_contract |-> c, source_height |-> w.height,
                    destination_chain |-> t.chain, destination_contract |-> t.contract,
                    message_id |-> t.id, recipient |-> t.to, asset |-> t.asset,
                    amount |-> t.amount]
    IN  Require(t.amount # 0 /\ t.id \notin w.outbound_message_ids, w,
                Then(TransferAsset(w, t.sender, c, t.asset, t.amount),
                     LAMBDA v : Ok([v EXCEPT !.outbound_message_ids = @ \cup {t.id},
                                             !.cross_shard_outbox = Append(@, message)])))

Distinct(signers) == Cardinality(Range(signers)) = Len(signers)

(* CrossShardFinalityProof::verify_message.  proof.included stands for the *)
(* Merkle proof: it verifies, and its root is the outbox root.             *)
VerifyMessage(proof, expected) ==
    /\ proof.quorum # 0 /\ Len(proof.signers) >= proof.quorum
    /\ Distinct(proof.signers)
    /\ proof.included
    /\ proof.source_chain = expected.source_chain
    /\ proof.message.source_chain = proof.source_chain
    /\ proof.message.source_height = proof.source_height
    /\ \A f \in {"destination_chain", "destination_contract", "message_id", "recipient",
                 "asset", "amount"} : proof.message[f] = expected[f]

(* BridgeValidatorSet::verifies_finality: the quorum that counts is the    *)
(* trusted set's, not the one the proof claims.                            *)
VerifiesFinality(set, source_chain, proof) ==
    /\ proof.source_chain = source_chain /\ proof.quorum = set.quorum
    /\ Range(proof.signers) \subseteq set.validators
    /\ Distinct(proof.signers)
    /\ Len(proof.signers) >= set.quorum

(* The two together: verify_message_with_validator_set.                    *)
VerifyBridgeFinalityProof(proof, expected, set) ==
    VerifyMessage(proof, expected) /\ VerifiesFinality(set, expected.source_chain, proof)

(* Mutant: the message is not marked.                                      *)
ConsumeNothing(w, c, id) == w

(* Consuming a message: its id is marked under the bridge that paid it.    *)
Consume(w, c, id) == StateSet(w, <<"BridgeMessageConsumed", c, id>>, 1)

RedeemBridgeMessage(w, t) ==
    LET c == t.target
        chain == Kind(w, c).source_chain
        expected == [destination_chain |-> ChainId, destination_contract |-> c,
                     source_chain |-> chain, message_id |-> t.id, recipient |-> t.to,
                     asset |-> t.asset, amount |-> t.amount]
    IN  Require(/\ t.amount # 0
                /\ chain \in DOMAIN w.trusted_bridge_validator_sets
                /\ VerifyBridgeFinalityProof(t.proof, expected, w.trusted_bridge_validator_sets[chain])
                /\ UintAt(w, <<"BridgeMessageConsumed", c, t.id>>) = 0,
                w, Then(MintAsset(w, t.to, t.asset, t.amount),
                        LAMBDA v : Ok(Consume(v, c, t.id))))

=============================================================================
