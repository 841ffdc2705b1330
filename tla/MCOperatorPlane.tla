---------------------------- MODULE MCOperatorPlane ----------------------------
(***************************************************************************)
(* Two nodes: one collects authorizations and serves snapshots, the other  *)
(* fetches.  Two validators, so that a quorum is both.  Three updates: one *)
(* adds a third validator and expires at height 1, another with the same   *)
(* id replaces validator 1's key, the third removes validator 2, who has   *)
(* to sign it.                                                             *)
(***************************************************************************)
EXTENDS OperatorPlane

CONSTANTS n1, n2

MCNode == {n1, n2}
MCKeyring == [v \in {1, 2} |-> 1]

NoKeys == [v \in {} |-> 0]

Adds == [update_id |-> 1, add |-> 3 :> 1, remove |-> {}, expires_at_height |-> 1]
Rotates == [update_id |-> 1, add |-> 1 :> 2, remove |-> {1}, expires_at_height |-> 99]
Removes == [update_id |-> 2, add |-> NoKeys, remove |-> {2}, expires_at_height |-> 99]

Update(u) == [kind |-> "metadata_update", update |-> u]
SignedBy(v, k, message) == SignMessage(v, k, k, "ours", "chain", message)
From(p, message) == [from |-> p, message |-> message]
Signed(signed) == [kind |-> "signed", signed |-> signed]
Authorizations(auths) == {From("peer", Signed(a)) : a \in auths}

\* Nothing happens in this scope but what a scope below turns on.
Still ==
    [producing |-> {}, height |-> 0, blocks |-> {[receipts |-> 1, failures |-> 0]}, faults |-> 0,
     fetches |-> 0, fetching |-> {}, collecting |-> {n1}, envelopes |-> {}, requests |-> {},
     errors |-> 0, certificates |-> {}, pool_limits |-> {}, audit_limits |-> {},
     import_limits |-> {}, batches |-> {}, quorums |-> {}, validator_sets |-> {}, trusted |-> {},
     networks |-> {}]

\* Keyring updates of every kind at one node, with a crash or a failed write.
Updating ==
    [Still EXCEPT !.producing = {n1}, !.height = 1, !.faults = 1,
        !.envelopes = Authorizations(
            {SignedBy(v, 1, Update(u)) : v \in {1, 2}, u \in {Adds, Rotates, Removes}}
            \cup {SignedBy(1, 2, Update(Removes)),
                  [SignedBy(1, 1, Update(Adds)) EXCEPT !.network = "other"]}),
        !.pool_limits = {<<2, 2>>}]

\* Updates one at a time, with the limit of their audit raised at some point.
Auditing ==
    [Still EXCEPT !.producing = {n1}, !.height = 1, !.faults = 1,
        !.envelopes = Authorizations({SignedBy(v, 1, Update(u)) : v \in {1, 2}, u \in {Adds, Removes}}),
        !.audit_limits = {2}]

\* A fetch from a node whose audit grows while it is being fetched.
Syncing ==
    [Still EXCEPT !.producing = {n1}, !.height = 1, !.faults = 1, !.fetches = 1,
        !.fetching = {n2}, !.envelopes = Authorizations({SignedBy(1, 1, Update(Adds))})]

\* Two fetches, in either direction, of a chain that grows.
Exchanging ==
    [Still EXCEPT !.producing = {n1}, !.height = 1, !.fetches = 2, !.fetching = {n1, n2}]

\* Two fetches with the limit of the import audit changed at some point.
Retaining ==
    [Still EXCEPT !.fetches = 2, !.fetching = {n1, n2}, !.import_limits = {2}]

\* The same at the collecting node alone, with a limit of zero.
Emptying ==
    [Still EXCEPT !.fetches = 2, !.fetching = {n1}, !.import_limits = {0}]

\* Messages of every kind, requests of clients and certificates at one node.
Vote(v) == [kind |-> "vote", validator_id |-> v]
Evidence(v) == [kind |-> "evidence", evidence |-> [validator_id |-> v]]
Proposed == SignedBy(2, 1, Update(Removes))
Reporting ==
    [Still EXCEPT !.producing = {n1}, !.height = 2, !.faults = 1,
        !.blocks = {[receipts |-> 2, failures |-> 2]},
        !.envelopes =
            {From(n1, Vote(1)), From("peer", Update(Adds)), From("peer", [kind |-> "certificate"]),
             From("peer", [kind |-> "peer_hello"]), From(n1, Evidence(1)),
             From("peer", [kind |-> "block", height |-> 1,
                           block |-> [receipts |-> 1, failures |-> 1]])}
            \cup {From(n1, Signed(a)) : a \in
                    {SignedBy(1, 1, Evidence(2)), SignedBy(1, 1, Vote(2)), SignedBy(3, 1, Vote(3)),
                     SignedBy(1, 1, Update(Removes)),
                     [SignedBy(1, 1, Vote(1)) EXCEPT !.domain = "BlockProposal"],
                     [SignedBy(1, 1, Vote(1)) EXCEPT !.signature = NoSignature]}},
        !.requests =
            {[call |-> "ProposeValidatorSetMetadataUpdate", authorization |-> a] :
                a \in {Proposed, [Proposed EXCEPT !.chain = "other"]}} \cup
            {[call |-> "GetBlock", height |-> 2], [call |-> "GetFinalityCertificate", height |-> 1],
             [call |-> "GetReceiptProof", height |-> 1, index |-> 1],
             [call |-> "GetSlashingRecord", validator_id |-> 2], [call |-> "GetOperatorAlerts"]},
        !.errors = 1, !.certificates = {1}]

\* The validator set changed by hand, between authorizations, with a crash.
\* The update of the batch is in the pool too.
Renews == [update_id |-> 3, add |-> 1 :> 3, remove |-> {1}, expires_at_height |-> 99]
Administering ==
    [Still EXCEPT !.faults = 1,
        !.envelopes = Authorizations(
            {SignedBy(1, 1, Update(Renews)), SignedBy(2, 1, Update(Removes)),
             SignedBy(3, 2, Update(Removes))}),
        !.batches = {{}, {SignedBy(2, 1, Update(Renews))},
                     {SignedBy(v, 1, Update(Renews)) : v \in {1, 2}}},
        !.quorums = {0}, !.trusted = {<<3, 2>>}, !.networks = {"other"},
        !.validator_sets = {[network |-> "ours", keyring |-> 2 :> 1 @@ 3 :> 2]}]

\* Transactions at a node that takes in another node's block, as a block or
\* with a snapshot.
Pooling ==
    [Still EXCEPT !.producing = {n1}, !.height = 1, !.faults = 1, !.fetches = 1, !.fetching = {n2},
        !.collecting = {n2},
        !.envelopes =
            {From("peer", [kind |-> "transaction", tx |-> h]) : h \in {1, 2}} \cup
            {From("peer", [kind |-> "block", height |-> 1,
                           block |-> [receipts |-> 1, failures |-> 0]])}]

MCScope ==
    {Updating, Auditing, Syncing, Exchanging, Retaining, Emptying, Reporting, Administering, Pooling}
MCUnknownRoots == "client_metrics" :> {0}
================================================================================
