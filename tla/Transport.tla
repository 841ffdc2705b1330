------------------------------ MODULE Transport ------------------------------
(***************************************************************************)
(* detta-network: the inboxes of InMemoryTransport, the register of peers  *)
(* of PeerConnectionManager with the version negotiation of detta-protocol,*)
(* and the order in which PeerReconnectQueue has peers dialled.  Each is a *)
(* value, and its methods are operators on it.                             *)
(***************************************************************************)
EXTENDS Integers, Sequences, FiniteSets, SequencesExt

CONSTANT BaseDelay      \* base_delay_ticks

--------------------------------------------------------------------------------
(***************************************************************************)
(* InMemoryTransport: peer -> envelopes not yet drained.  A payload that   *)
(* does not decode has decodes = FALSE (inject_raw).                       *)
(***************************************************************************)
Send(inboxes, from, to, payload) ==
    [inboxes EXCEPT ![to] = Append(@, [from |-> from, payload |-> payload])]

Broadcast(inboxes, from, payload) ==
    [p \in DOMAIN inboxes |-> IF p = from THEN inboxes[p]
                              ELSE Send(inboxes, from, p, payload)[p]]

\* drain_peer_bounded: the envelopes leave the inbox before they are
\* decoded; one that does not decode fails the call, and the others drained
\* with it are gone.
DrainBounded(inboxes, peer, max) ==
    LET count == IF max < Len(inboxes[peer]) THEN max ELSE Len(inboxes[peer])
        wires == SubSeq(inboxes[peer], 1, count)
    IN  [inboxes |-> [inboxes EXCEPT ![peer] = SubSeq(@, count + 1, Len(@))],
         envelopes |-> IF \A i \in 1..count : wires[i].payload.decodes THEN wires ELSE <<>>]

--------------------------------------------------------------------------------
(***************************************************************************)
(* PeerHello: peer_id, network_id, min and max protocol version.           *)
(***************************************************************************)
NegotiateProtocolVersion(local, remote) ==
    LET low == IF local.min > remote.min THEN local.min ELSE remote.min
        high == IF local.max < remote.max THEN local.max ELSE remote.max
    IN  IF local.min > local.max \/ remote.min > remote.max \/ low > high THEN {} ELSE {high}

\* TcpProtocolStream::handshake, given what the other side sends first.
Handshake(local, remote) ==
    /\ remote.network_id = local.network_id
    /\ NegotiateProtocolVersion(local, remote) # {}

\* register_peer: the manager after it, which an error leaves as it was.
RegisterPeer(manager, local, hello) ==
    IF \/ hello.peer_id = local.peer_id \/ hello.network_id # local.network_id
       \/ NegotiateProtocolVersion(local, hello) = {} \/ hello.peer_id \in DOMAIN manager
    THEN manager
    ELSE [p \in DOMAIN manager \cup {hello.peer_id} |->
            IF p = hello.peer_id
            THEN CHOOSE v \in NegotiateProtocolVersion(local, hello) : TRUE
            ELSE manager[p]]

--------------------------------------------------------------------------------
(***************************************************************************)
(* PeerReconnectQueue: peer -> score, failures and next_retry_tick.        *)
(***************************************************************************)
Untried == [score |-> 0, failures |-> 0, next_retry_tick |-> 0]

TrackPeer(queue, peer) ==
    [p \in DOMAIN queue \cup {peer} |-> IF p \in DOMAIN queue THEN queue[p] ELSE Untried]

RecordSuccess(queue, peer) ==
    [TrackPeer(queue, peer) EXCEPT ![peer].failures = 0, ![peer].score = @ + 1,
                                   ![peer].next_retry_tick = 0]

RecordFailure(queue, peer, now) ==
    LET tracked == TrackPeer(queue, peer)
        failures == tracked[peer].failures + 1
    IN  [tracked EXCEPT ![peer] = [score |-> @.score - 1, failures |-> failures,
                                   next_retry_tick |-> now + BaseDelay * failures]]

\* ready_peers: those whose time has come, the best score first, then by id.
ReadyPeers(queue, now, limit) ==
    LET ready == {p \in DOMAIN queue : queue[p].next_retry_tick <= now}
        Before(p, q) == \/ queue[p].score > queue[q].score
                        \/ queue[p].score = queue[q].score /\ p < q
        order == SetToSortSeq(ready, Before)
    IN  SubSeq(order, 1, IF limit < Len(order) THEN limit ELSE Len(order))
================================================================================
