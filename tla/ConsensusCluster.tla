--------------------------- MODULE ConsensusCluster ---------------------------
(***************************************************************************)
(* ConsensusCluster of detta-consensus: a set of validators that changes   *)
(* over time, the blocks they finalize one call at a time, the validators  *)
(* slashed for equivocation, and the certificates that come out.           *)
(*                                                                         *)
(* Validators are numbered in the order of their ids, the order in which   *)
(* finalize_block asks them.  A validator record also has born, the number *)
(* of set updates applied when it joined: with it a validator that leaves  *)
(* and returns under its old id is told from the one it was.               *)
(***************************************************************************)
EXTENDS Blocks, FiniteSetsExt

CONSTANTS
    ValidatorIds,       \* every id that may be a validator
    FirstValidators,    \* the ids ConsensusCluster::new is given
    Scope               \* bounds: the records the variable scope may be

VARIABLES
    scope,           \* what happens in this behaviour; it never changes
    validators,      \* id -> ValidatorNode and when it joined
    slashed,         \* the ids with a slashing record
    applied_updates, \* the update ids applied
    proposed,        \* blocks handed to the cluster so far
    certificates     \* FinalityCertificates issued, with who the signers were

clusterVars == <<validators, slashed, applied_updates, proposed, certificates>>

QuorumFor(active) == IF active = 0 THEN 0 ELSE (active * 2) \div 3 + 1

\* active_validator_count subtracts: it is right as long as only validators
\* have slashing records.
ActiveValidatorCount == Cardinality(DOMAIN validators) - Cardinality(slashed)
Quorum == QuorumFor(ActiveValidatorCount)
Active == DOMAIN validators \ slashed

ClusterInit ==
    /\ scope \in Scope
    /\ validators = [v \in FirstValidators |-> NewNode(GenesisState) @@ [born |-> 0]]
    /\ slashed = {} /\ applied_updates = {} /\ proposed = {} /\ certificates = {}

--------------------------------------------------------------------------------
\* propose_block: the caller says of which height.
Propose(p, height, txs) ==
    /\ p \in Active
    /\ Cardinality(proposed) < scope.proposals
    /\ proposed' = proposed \cup {BuildBlock(validators[p].state, height, txs, p)}
    /\ UNCHANGED <<validators, slashed, applied_updates, certificates>>

\* A block as its proposer did not build it: without its receipts, or with
\* another state root in its header.
Altered(b) ==
    {[b EXCEPT !.receipts = <<>>], [b EXCEPT !.header.storage_root = EmptyRoot]}
Alter(b) ==
    /\ Cardinality(proposed) < scope.proposals
    /\ \E a \in Altered(b) : proposed' = proposed \cup {a}
    /\ UNCHANGED <<validators, slashed, applied_updates, certificates>>

Certificate(height, hash, signers, from) ==
    [height |-> height, block_hash |-> hash, signers |-> signers, from |-> from,
     born |-> [v \in signers \cap DOMAIN validators |-> validators[v].born]]

\* certificate_from_votes, given the votes left after the filter.
CertificateFromVotes(height, hash, voters, from) ==
    IF Cardinality(voters) >= Quorum THEN {Certificate(height, hash, voters, from)} ELSE {}

\* Mutant: a validator that rejects the block is counted with the others.
FinalizeRegardless(b) ==
    LET accepting == {v \in Active : Accepts(validators[v].state, b)}
    IN  /\ b.header.proposer \notin slashed
        /\ validators' = [v \in DOMAIN validators |->
                            IF v \in accepting THEN ValidateAndApply(validators[v], b) @@ validators[v]
                            ELSE validators[v]]
        /\ certificates' = certificates
                             \cup CertificateFromVotes(b.header.height, BlockHash(b), Active, "finalize")
        /\ UNCHANGED <<slashed, applied_updates, proposed>>

\* finalize_block: the validators apply the block in order, up to the first
\* one that rejects it.  Those before it keep the block; there is then no
\* certificate.
FinalizeBlock(b) ==
    LET rejecting == {v \in Active : ~Accepts(validators[v].state, b)}
        applying == {v \in Active : \A r \in rejecting : v < r}
    IN  /\ b.header.proposer \notin slashed
        /\ validators' = [v \in DOMAIN validators |->
                            IF v \in applying THEN ValidateAndApply(validators[v], b) @@ validators[v]
                            ELSE validators[v]]
        /\ certificates' = IF rejecting # {} THEN certificates
                           ELSE certificates
                                  \cup CertificateFromVotes(b.header.height, BlockHash(b), Active, "finalize")
        /\ UNCHANGED <<slashed, applied_updates, proposed>>

\* record_equivocation: the first record of a validator stays.
RecordEquivocation(v) ==
    /\ v \in DOMAIN validators
    /\ Cardinality(slashed \cup {v}) <= scope.slashings
    /\ slashed' = slashed \cup {v}
    /\ UNCHANGED <<validators, applied_updates, proposed, certificates>>

Vote(v, b) == [validator |-> v, height |-> b.header.height, block_hash |-> BlockHash(b)]

Equivocators(votes) ==
    {v \in {x.validator : x \in votes} :
        \E x, y \in votes : /\ x.validator = v /\ y.validator = v
                            /\ x.height = y.height /\ x.block_hash # y.block_hash}

\* certificate_from_active_votes for block b.  The validator the equivocation
\* is recorded of is the first in the order the votes came in.  A vote of an
\* id that is not, or no longer, a validator is counted.
CertificateFromActiveVotes(b, votes) ==
    LET voters == {x.validator : x \in {y \in votes : y.block_hash = BlockHash(b)}}
    IN  \/ \E v \in Equivocators(votes) : RecordEquivocation(v)
        \/ /\ Equivocators(votes) = {}
           /\ certificates' = certificates
                \cup CertificateFromVotes(b.header.height, BlockHash(b), voters \ slashed, "votes")
           /\ UNCHANGED <<validators, slashed, applied_updates, proposed>>

\* require_active_quorum.
RequireActiveQuorum(signers) == signers \subseteq Active /\ Cardinality(signers) >= Quorum

\* validate_validator_set_update.
ValidUpdate(u) ==
    /\ u.add \cap DOMAIN validators = {}
    /\ u.remove \subseteq DOMAIN validators
    /\ Cardinality(DOMAIN validators) + Cardinality(u.add) - Cardinality(u.remove) # 0

\* apply_validator_set_update.  The certificate has to be signed by a quorum
\* of today's validators; what it certifies is not looked at.  A validator
\* that joins brings the state the caller gives it: that of a validator, or
\* one that has seen no block.
ApplyValidatorSetUpdate(u, c, given) ==
    /\ u.update_id \notin applied_updates
    /\ RequireActiveQuorum(c.signers)
    /\ ValidUpdate(u)
    /\ applied_updates' = applied_updates \cup {u.update_id}
    /\ validators' = [v \in (DOMAIN validators \ u.remove) \cup u.add |->
                        IF v \in u.add
                        THEN NewNode(given) @@ [born |-> Cardinality(applied_updates')]
                        ELSE validators[v]]
    /\ slashed' = slashed \ u.remove
    /\ UNCHANGED <<proposed, certificates>>

\* The library's verify_finality_certificate.
VerifiesFor(c, height, hash, active, quorum) ==
    /\ active # {} /\ quorum # 0
    /\ c.height = height /\ c.block_hash = hash
    /\ c.signers \subseteq active
    /\ Cardinality(c.signers) >= quorum

\* The cluster's: with the validators that are active now.
VerifyFinalityCertificate(c, height, hash) ==
    /\ c.signers \subseteq DOMAIN validators /\ c.signers \cap slashed = {}
    /\ VerifiesFor(c, height, hash, Active, Quorum)

--------------------------------------------------------------------------------
ClusterNext ==
    \/ \E p \in DOMAIN validators, height \in scope.heights, txs \in scope.txs :
          Propose(p, height, txs)
    \/ \E b \in proposed : FinalizeBlock(b) \/ (scope.alters /\ Alter(b))
    \/ scope.slashings > 0 /\ \E v \in ValidatorIds : RecordEquivocation(v)
    \/ Cardinality(certificates) < scope.counts /\ \E b \in proposed, votes \in SUBSET {Vote(v, x) : v \in ValidatorIds, x \in proposed} :
          CertificateFromActiveVotes(b, votes)
    \/ \E u \in scope.updates, c \in certificates :
          \E given \in {GenesisState} \cup {validators[v].state : v \in Active} :
              ApplyValidatorSetUpdate(u, c, given)
================================================================================
