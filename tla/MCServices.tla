------------------------------ MODULE MCServices ------------------------------
(***************************************************************************)
(* The instance of Services that TLC checks, one scope per group.          *)
(***************************************************************************)
EXTENDS Services

\* Transactions: one that sets two entries and grants, a rival of it with the
\* same nonce, one that changes an entry, revokes, and emits, one that reverts.
Events(name, nonce, n) == [i \in 1..n |-> [tx |-> name, nonce |-> nonce, index |-> i]]
Tx(rank, name, nonce, units, sets, grants, revokes, events, messages) ==
    [rank |-> rank, name |-> name, nonce |-> nonce, commits |-> TRUE, units |-> units,
     sets |-> sets, grants |-> grants, revokes |-> revokes,
     events |-> Events(name, nonce, events), messages |-> messages]
TxA == Tx(1, "a", "n1", 1, (2 :> 1) @@ (4 :> 1), (3 :> 1), {}, 2, <<"m">>)
Rival == Tx(2, "r", "n1", 1, 2 :> 5, NoEntries, {}, 1, <<>>)
TxB == Tx(3, "b", "n2", 1, (2 :> 2) @@ (6 :> 1), (1 :> 1), {3}, 1, <<>>)
TxC == [Tx(4, "c", "n3", 3, 2 :> 9, NoEntries, {}, 1, <<>>) EXCEPT !.commits = FALSE]

MCBlockResourceLimit == 3
MCValidatorIds == 1..5
MCFirstValidators == 1..4
MCHellos ==
    (3 :> [peer_id |-> 3, network_id |-> "net", min |-> 3, max |-> 3]) @@
    (4 :> [peer_id |-> 4, network_id |-> "net", min |-> 2, max |-> 3])

\* Nothing happens in this scope but what a scope below turns on.
Still ==
    [name |-> "still", heights |-> {}, proposals |-> 0, txs |-> {}, alters |-> FALSE,
     slashings |-> 0, counts |-> 0, updates |-> {}, produce |-> 0, submits |-> {},
     certificates |-> 0, topics |-> {}, limits |-> {}, gossip |-> FALSE, garbles |-> 0,
     dials |-> 0, ticks |-> 0, page |-> 0, asks |-> FALSE, accepts |-> 0, layers |-> {<<>>},
     budgets |-> {}]

\* Two blocks, some altered; a slashing and a change of the set.
Finalizing ==
    [Still EXCEPT !.name = "finalizing", !.heights = {1, 2}, !.proposals = 3,
                  !.txs = {<<TxA>>}, !.alters = TRUE]
Slashing ==
    [Still EXCEPT !.name = "slashing", !.heights = {1}, !.proposals = 2, !.txs = {<<TxA>>},
                  !.slashings = 1, !.counts = 1]
Changing ==
    [Still EXCEPT !.name = "changing", !.heights = {1}, !.proposals = 2, !.txs = {<<TxA>>},
                  !.slashings = 1,
                  !.updates = {[update_id |-> "u", add |-> {5}, remove |-> {1}],
                               [update_id |-> "v", add |-> {1}, remove |-> {2}]}]

Feeding ==
    [Still EXCEPT !.name = "feeding", !.produce = 2, !.heights = {1}, !.submits = {TxA, TxC},
                  !.certificates = 1, !.limits = {0, 1, 2, 9},
                  !.topics = {{}, {"Blocks", "Finality"}, {"Events"}}]
Gossiping ==
    [Still EXCEPT !.name = "gossiping", !.produce = 3, !.heights = {1, 2}, !.submits = {TxA},
                  !.gossip = TRUE, !.garbles = 1, !.dials = 2, !.ticks = 1, !.page = 1]
Proving ==
    [Still EXCEPT !.name = "proving", !.produce = 3, !.heights = {1, 2},
                  !.submits = {TxA, TxB}, !.asks = TRUE]
MCQueries ==
    {[kind |-> k, key |-> n] : k \in {"storage", "no_storage"}, n \in 1..7} \cup
    {[kind |-> k, key |-> n] : k \in {"registry", "no_registry"}, n \in 0..4} \cup
    {[kind |-> k, index |-> n] : k \in {"event", "outbox"}, n \in 0..5} \cup
    {[kind |-> "receipt", height |-> h, index |-> n] : h \in 1..2, n \in 0..2} \cup
    {[kind |-> "health"]} \cup {[kind |-> "block", height |-> h] : h \in 0..3} \cup
    {[kind |-> "events", offset |-> n, limit |-> l] : n \in {0, 2, 5}, l \in {0, 9}}

--------------------------------------------------------------------------------
\* Two blocks of a chain; the second has a transaction of the first again.
B1 == BuildBlock(GenesisState, 1, <<TxA>>, 0)
B2 == BuildBlock(ApplyBlock(GenesisState, B1), 2, <<TxA, TxB>>, 0)
Changes == {"ImportBlock", "SubmitTransaction", "ProduceBlock", "Subscribe"}
Script == <<"(", "abort", ")">>
MCRequests ==
    {[call |-> "ImportBlock", block |-> B1], [call |-> "ImportBlock", block |-> B2],
     [call |-> "SubmitTransaction", tx |-> TxA], [call |-> "SubmitTransaction", tx |-> Rival],
     [call |-> "ProduceBlock", height |-> 1],
     [call |-> "Subscribe", topics |-> {}],
     [call |-> "GetSubscriptionEvents", id |-> 1, from |-> 1, limit |-> 2],
     [call |-> "GetReceipt", name |-> "a"], [call |-> "GetTransaction", name |-> "a"],
     [call |-> "Get", query |-> [kind |-> "receipt", height |-> 1, index |-> 0]],
     [call |-> "EvaluateRestrictedScript", tokens |-> Script, max_steps |-> 3],
     [call |-> "GetMempoolStatus"], [call |-> "GetFinalityCertificate"]} \cup
    {[call |-> "SubmitSignedTransaction", tx |-> TxB, signature |-> g] :
        g \in {"right", "wrong", "another account's"}} \cup
    {[call |-> "GetContract", answer |-> a] : a \in Lookups["GetContract"]}
Bytes(shape, request, token) ==
    [bytes |-> 2, shape |-> shape, request |-> request, token |-> token]
Lines ==
    {Bytes("request", r, "none") : r \in MCRequests} \cup
    {Bytes("envelope", r, "right") : r \in {x \in MCRequests : x.call \in Changes}} \cup
    {Bytes("envelope", r, "wrong") : r \in {[call |-> "Subscribe", topics |-> {}]}} \cup
    {Bytes("garbage", [call |-> "GetFinalityCertificate"], "none"),
     [Bytes("request", [call |-> "Subscribe", topics |-> {}], "none") EXCEPT !.bytes = 9]}
PostHead(lengths) ==
    [bytes |-> 3, well_formed |-> TRUE, method |-> "POST", path |-> "/rpc", lengths |-> lengths]
Announced(n) == [parses |-> TRUE, bytes |-> n]
Heads ==
    {PostHead(<<Announced(2)>>), PostHead(<<Announced(2), Announced(2)>>),
     PostHead(<<Announced(2), Announced(1)>>), PostHead(<<[parses |-> FALSE, bytes |-> 0]>>),
     PostHead(<<>>), PostHead(<<Announced(9)>>), PostHead(<<Announced(3)>>),
     PostHead(<<Announced(1)>>), [PostHead(<<Announced(2)>>) EXCEPT !.method = "GET"],
     [PostHead(<<Announced(2)>>) EXCEPT !.path = "/x"],
     [PostHead(<<Announced(2)>>) EXCEPT !.well_formed = FALSE],
     [PostHead(<<>>) EXCEPT !.bytes = 0], [PostHead(<<>>) EXCEPT !.bytes = 99]}
Posted == [call |-> "ImportBlock", block |-> B1]
MCConnections ==
    {[transport |-> "tcp", lines |-> <<l>>] : l \in Lines} \cup
    {[transport |-> "tcp", lines |-> <<l, l>>] : l \in Lines} \cup
    {[transport |-> "http", head |-> h, body |-> Bytes("envelope", Posted, "right")] : h \in Heads}
    \cup {[transport |-> "http", head |-> PostHead(<<Announced(2)>>),
           body |-> Bytes("request", Posted, "none")]}
Serving ==
    [Still EXCEPT !.name = "serving", !.accepts = 2,
                  !.layers = {<<>>, <<"rate">>, <<"auth">>, <<"rate", "auth">>, <<"auth", "rate">>}]

--------------------------------------------------------------------------------
MCNumerals == ("0" :> 0) @@ ("1" :> 1) @@ ("3" :> 3) @@ ("+3" :> 3) @@ ("03" :> 3) @@ ("7" :> 7)
MCMethods == {"Transfer", "Mint"}
KeySource(kind, n) == <<"(", kind>> \o SubSeq(<<"c", "o", "x">>, 1, n) \o <<")">>
Instructions ==
    {<<"(", "use-primitive", p, ")">> : p \in {"EmitEvent", "Randomness", "Unknown"}} \cup
    {<<"(", "state-get">> \o KeySource(k, KeyArity[k]) \o <<")">> : k \in DOMAIN KeyArity} \cup
    {<<"(", "state-get">> \o KeySource("reserve", 3) \o <<")">>,
     <<"(", "state-get">> \o KeySource("aspect-state", 3) \o <<")">>} \cup
    {<<"(", "state-set">> \o KeySource("debt", 3) \o <<"(", "uint", a, ")", ")">> :
        a \in DOMAIN MCNumerals \cup {"x"}} \cup
    {<<"(", "state-set">> \o KeySource("reserve", 2) \o <<"(", "int", "1", ")", ")">>} \cup
    {<<"(", "call-contract", "c", m, ")">> : m \in {"Transfer", "Unknown"}} \cup
    {<<"(", "pure-add", a, b, ")">> : a, b \in {"+3", "7", "0", "x"}} \cup
    {<<"(", "abort", ")">>, <<"(", "abort">>, <<"(", "loop", ")">>, <<"abort", ")">>}
\* Every instruction alone, and the writes and the short ones also in pairs.
Short == {i \in Instructions : Len(i) < 8} \cup {i \in Instructions : i[2] = "state-set"}
MCScripts == {<<>>} \cup Instructions \cup {i \o j : i, j \in Short}
Evaluating ==
    [Still EXCEPT !.name = "evaluating", !.budgets = {1, 2, 4}]

MCScope == {Finalizing, Slashing, Changing, Feeding, Gossiping, Proving, Serving, Evaluating}
================================================================================
