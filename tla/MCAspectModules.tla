--------------------------- MODULE MCAspectModules ---------------------------
(***************************************************************************)
(* Packages for AspectModules.  A token (the standard library's ledger)    *)
(* and a desk that calls it and reads its supply, in variations: what the  *)
(* desk's code names, what its policy declares, and one defect at a time   *)
(* for the checks of the verifier.                                         *)
(***************************************************************************)
EXTENDS AspectModules, TransferToken

Flat(parts) == FoldLeft(LAMBDA done, part : done \o part, <<>>, parts)

Unless(condition, words) == IF condition THEN <<>> ELSE words

TokenAspects(defect) == Flat(
    <<<<"(", ":", "Account", "Type", ")">>,
      <<"(", "abstract-aspect", "BalanceAspect", ")">>,
      <<"(", "aspect", "StaticBalanceAspect", ")", "(", "aspect", "TransferableBalanceAspect", ")",
        "(", "aspect", "SelfTransferAspect", ")">>,
      <<"(", "extends", "StaticBalanceAspect", "BalanceAspect", ")",
        "(", "extends", "TransferableBalanceAspect", "BalanceAspect", ")",
        "(", "extends", "SelfTransferAspect", "TransferableBalanceAspect", ")">>,
      <<"(", "owns", "StaticBalanceAspect", "initialized", "Amount", ")",
        "(", "owns", "StaticBalanceAspect", "totalSupply", "Amount", ")",
        "(", "owns", "StaticBalanceAspect", "balanceOf", "(", "->", "Address", "Amount", ")", ")">>,
      Unless(defect = "no facet",
          <<"(", "provides", "TransferableBalanceAspect", "Balance-Transfer", ")">>),
      <<"(", "requires", "SelfTransferAspect", "Balance-Transfer", ")">>,
      Unless(defect = "undeclared action",
          <<"(", "action", "StaticBalanceAspect", "initializeSupply", ")">>),
      <<"(", "action", "TransferableBalanceAspect", "transferBalance", ")",
        "(", "action", "SelfTransferAspect", "transferFromSelf", ")">>,
      InitializeSupply, TransferBalance, TransferFromSelf,
      <<"(", "local-invariant", "TransferableBalanceAspect", "TBA-3", "True", ")">>>>)

TokenBundle(defect) == Flat(
    <<<<"(", "bundle", "Token", ")",
        "(", "bundle-includes", "Token", "StaticBalanceAspect", ")",
        "(", "bundle-includes", "Token", "SelfTransferAspect", ")">>,
      <<"(", "projection", "Token", "ERC20-initialize",
          "(", "=", "(", "ERC20.initialize", "$owner", "$amount", ")",
            "(", "initializeSupply", "$owner", "$amount", ")", ")", ")",
        "(", "method-abi", "Token", "ERC20-initialize",
          "(", "args", "(", "owner", "Address", ")", "(", "amount", "Amount", ")", ")", "Bool", ")",
        "(", "method-policy", "Token", "ERC20-initialize", "GovernanceAdminGrant",
          "(", "effects", "ReadState", "WriteState", "EmitEvent", ")",
          "(", "invariants", "TBA-3", ")", ")">>,
      <<"(", "projection", "Token", "ERC20-transfer",
          "(", "=", "(", "ERC20.transfer", "$to", "$amount", ")",
            "(", "transferFromSelf", "tx.sender", "$to", "$amount", ")", ")", ")">>,
      Unless(defect = "no abi",
          <<"(", "method-abi", "Token", "ERC20-transfer",
            "(", "args", "(", "to", "Address", ")", "(", "amount", "Amount", ")", ")", "Bool", ")">>),
      Unless(defect = "no policy",
          <<"(", "method-policy", "Token", "ERC20-transfer",
            IF defect = "no authority" THEN "Nobody" ELSE "TxSender",
            "(", "effects", "ReadState", "WriteState", "EmitEvent", ")",
            "(", "invariants", "TBA-3", ")", ")">>)>>)

MCTokenSource == Tokens(TokenAspects("") \o TokenBundle(""))

-----------------------------------------------------------------------------
(* The desk.  v.callee and v.reader are how its code names the token (by   *)
(* name or through a variable), v.calls and v.reads the patterns of its    *)
(* policy ("" for none), v.effects what it declares.                       *)

Pattern(head, entry, target, name) ==
    Unless(target = "", <<"(", head, "(", entry, target, name, ")", ")">>)

DeskAspect(v) == Flat(
    <<<<"(", "aspect", "DeskAspect", ")", "(", "owns", "DeskAspect", "orders", "Amount", ")",
        "(", "requires", "DeskAspect", "Balance-Transfer", ")">>,
      Unless(v.defect # "two owners", <<"(", "owns", "DeskAspect", "totalSupply", "Amount", ")">>),
      Unless(v.defect # "conflict",
          <<"(", "conflicts", "DeskAspect", "StaticBalanceAspect", ")">>),
      Unless(v.defect # "cycle of aspects",
          <<"(", "extends", "BalanceAspect", "DeskAspect", ")">>),
      Unless(v.defect # "unknown aspect", <<"(", "extends", "DeskAspect", "Other", ")">>),
      Unless(v.defect # "unknown type", <<"(", "owns", "DeskAspect", "note", "Other", ")">>),
      Unless(v.defect # "declared twice", <<"(", "aspect", "DeskAspect", ")">>),
      <<"(", "action", "DeskAspect", "order", ")", "(", "action", "DeskAspect", "quote", ")">>,
      <<"(", "derived", "DeskAspect", "order",
          "(", "=", "(", "order", "$coin", "$to", "$amount", ")",
            "(", "begin",
              "(", "state-set!", "orders", "(", "safe-add", "(", "state-get", "orders", ")", "1", ")", ")",
              "(", "call-contract!", v.callee, "ERC20-transfer", "$to", "$amount", ")",
              "(", IF v.defect = "cycle of actions" THEN "order" ELSE "quote", "$coin", ")",
              ")", ")", ")">>,
      <<"(", "derived", "DeskAspect", "quote",
          "(", "=", "(", "quote", "$coin", ")",
            "(", "contract-state-get", v.reader, "totalSupply", ")", ")", ")">>,
      <<"(", "local-invariant", "DeskAspect", "DESK-1",
          "(", "<=", "(", "state-get", "orders", ")",
               "(", "contract-state-get", "coin", "totalSupply", ")", ")", ")">>>>)

DeskBundle(v) == Flat(
    <<<<"(", "bundle", "Desk", ")", "(", "bundle-includes", "Desk", "DeskAspect", ")">>,
      Unless(v.defect = "not extended", <<"(", "bundle-extends", "Desk", "Token", ")">>),
      <<"(", "projection", "Desk", "Desk-order",
          "(", "=", "(", "Desk.order", "$coin", "$to", "$amount", ")",
            "(", IF v.defect = "no target" THEN "trade" ELSE "order", "$coin", "$to", "$amount", ")",
            ")", ")",
        "(", "method-abi", "Desk", "Desk-order",
          "(", "args", "(", "coin", "Address", ")", "(", "to", "Account", ")",
               "(", "amount", "Amount", ")", ")", "Amount", ")">>,
      <<"(", "method-policy", "Desk", "Desk-order", "TxSender">>,
      <<"(", "effects">> \o v.effects \o <<")">>,
      <<"(", "invariants", "DESK-1", ")">>,
      Pattern("calls", "call", v.calls, "ERC20-transfer"),
      Pattern("reads", "read", v.reads, "totalSupply"),
      <<")">>,
      Unless(v.defect # "forbidden form", <<"(", "cross-constraint", "Note", "(", "match", "$x", ")", ")">>)>>)

AllEffects == <<"ReadState", "WriteState", "CallContract">>

Plain == [callee |-> "$coin", reader |-> "$coin", calls |-> "*", reads |-> "*",
          effects |-> AllEffects, defect |-> ""]

Defects ==
    {"no facet", "undeclared action", "no abi", "no policy", "no authority", "two owners",
     "conflict", "cycle of aspects", "unknown aspect", "unknown type", "declared twice",
     "cycle of actions", "not extended", "no target", "forbidden form"}

Variations ==
    [callee : {"$coin", "coin"}, reader : {"$coin", "coin"}, calls : {"*", "coin", "desk", ""},
     reads : {"*", "coin", ""}, effects : {AllEffects}, defect : {""}]
    \cup {[Plain EXCEPT !.defect = d] : d \in Defects}
    \cup {[Plain EXCEPT !.effects = SubSeq(AllEffects, 1, 2)],
          [Plain EXCEPT !.effects = Tail(AllEffects)],
          [Plain EXCEPT !.effects = <<"ReadState", "CallContract">>],
          [Plain EXCEPT !.callee = "tx.sender", !.calls = "tx.sender"],
          [Plain EXCEPT !.reader = "msg.sender", !.reads = "msg.sender"]}

DeskSource(v) ==
    Tokens(TokenAspects(v.defect) \o TokenBundle(v.defect) \o DeskAspect(v) \o DeskBundle(v))

-----------------------------------------------------------------------------
(* The methods of Host use the other host operations.                      *)

HostWords(operation, effect) == Flat(
    <<<<"(", "aspect", "HostAspect", ")", "(", "registry-owns", "HostAspect", "grants", "Bool", ")",
        "(", "action", "HostAspect", "use", ")">>,
      <<"(", "derived", "HostAspect", "use", "(", "=", "(", "use", "$amount", "$certificate", ")",
          "(", "if", "(", "and", "(", ">", "$amount", "0", ")", "True", ")">>, operation,
          <<"False", ")", ")", ")">>,
      <<"(", "bundle", "Host", ")", "(", "bundle-includes", "Host", "HostAspect", ")",
        "(", "projection", "Host", "Host-use",
          "(", "=", "(", "Host.use", "$amount", "$certificate", ")",
            "(", "use", "$amount", "$certificate", ")", ")", ")",
        "(", "method-abi", "Host", "Host-use",
          "(", "args", "(", "amount", "Amount", ")", "(", "certificate", "Bytes", ")", ")", "Bool", ")",
        "(", "method-policy", "Host", "Host-use", "TxSender", "(", "effects", effect, ")",
          "(", "invariants", ")", ")">>>>)

HostSources ==
    {Tokens(HostWords(<<"(", "permit-verify!", "tx.sender", "desk", "gold", "$amount", "$certificate", ")">>,
                      "UsePermitCertificate")),
     Tokens(HostWords(<<"(", "bridge-verify!", "other", "message", "tx.sender", "gold", "$amount",
                        "$certificate", ")">>, "UseBridgeCertificate")),
     Tokens(HostWords(<<"(", "cross-shard-outbox-append!", "other", "there", "$certificate", "tx.sender",
                        "gold", "$amount", ")">>, "CrossShardOutboxAppend")),
     Tokens(HostWords(<<"(", "registry-consume!", "grants", "$amount", ")">>, "ConsumeRegistryGrant")),
     Tokens(HostWords(<<"(", "registry-get", "grants", ")">>, "ReadRegistry"))}

-----------------------------------------------------------------------------
(* A method of Note applies its action, announce, to an argument.  n.action *)
(* is the action's name, n.argument what it is applied to, n.body what it   *)
(* does; count is an action that writes.                                    *)

NoteSource(n) == Tokens(Flat(
    <<<<"(", "aspect", "NoteAspect", ")", "(", "owns", "NoteAspect", "orders", "Amount", ")",
        "(", "action", "NoteAspect", "count", ")", "(", "action", "NoteAspect", n.action, ")">>,
      <<"(", "derived", "NoteAspect", "count", "(", "=", "(", "count", ")",
          "(", "begin", "(", "state-set!", "orders", "1", ")", "1", ")", ")", ")">>,
      <<"(", "derived", "NoteAspect", n.action, "(", "=", "(", n.action, "$x", ")">>,
          n.body, <<")", ")">>,
      <<"(", "bundle", "Note", ")", "(", "bundle-includes", "Note", "NoteAspect", ")",
        "(", "projection", "Note", "Note-announce",
          "(", "=", "(", "Note.announce", "$x", ")", "(", n.action>>, n.argument, <<")", ")", ")",
        "(", "method-abi", "Note", "Note-announce", "(", "args", "(", "x", "Amount", ")", ")", "Bool", ")",
        "(", "method-policy", "Note", "Note-announce", "TxSender", "(", "effects">>, n.effects,
      <<")", "(", "invariants", ")", ")">>>>))

Announced == <<"(", "emit!", "(", "Announced", "$x", ")", ")">>
Counted == <<"(", "count", ")">>
Ordered == <<"(", "call-contract!", "coin", "ERC20-transfer", "bob", "1", ")">>

Notes ==
    [action : {"announce", "emit!", "begin"}, argument : {<<"$x">>, Counted, Ordered},
     body : {<<"True">>, Announced, <<"(", "=">> \o Counted \o <<"$x", ")">>, <<"(", "=", "$x">> \o Counted \o <<")">>},
     effects : {<<"EmitEvent">>, <<"EmitEvent", "WriteState">>, <<>>}]

MCSources ==
    {DeskSource(v) : v \in Variations} \cup HostSources \cup {NoteSource(n) : n \in Notes}

MCDeployments == {<<"coin", Sym("Token")>>, <<"desk", Sym("Desk")>>, <<"host", Sym("Host")>>,
                   <<"note", Sym("Note")>>}

Call(target, method, sender, args, budget) ==
    [target |-> target, method |-> Sym(method), sender |-> sender, args |-> args, budget |-> budget]

MCCalls ==
    {Call("coin", "ERC20-initialize", s, <<Atom("alice"), Amount(2)>>, 99) : s \in {"admin", "bob"}}
    \cup {Call("coin", "ERC20-transfer", "alice", <<Atom("bob"), Amount(n)>>, 99) : n \in 1..2}
    \cup {Call("desk", "Desk-order", "alice", <<Atom(c), Atom("bob"), Amount(1)>>, b) :
             c \in {"coin", "desk"}, b \in {6, 99}}
    \cup {Call("host", "Host-use", "alice", <<Amount(n), Atom("cert")>>, 99) : n \in 0..1}
    \cup {Call("note", "Note-announce", "alice", <<Amount(1)>>, 99)}

MCPermitCertificates ==
    "cert" :> [permits |-> <<"host", Atom("alice"), Atom("desk"), Atom("gold"), Amount(1)>>,
               nonce |-> 1]

MCBridgeProofs ==
    {<<"host", Atom("other"), Atom("message"), Atom("alice"), Atom("gold"), Amount(1), Atom("cert")>>}

-----------------------------------------------------------------------------
(* The token alone, with transfers between all accounts.                   *)

MCTokenSources == {MCTokenSource}

MCTokenDeployments == {<<"coin", Sym("Token")>>}

MCTokenCalls ==
    {Call("coin", "ERC20-initialize", "admin", <<Atom("alice"), Amount(2)>>, 99)}
    \cup {Call("coin", "ERC20-transfer", s, <<Atom(t), Amount(1)>>, 99) :
             s, t \in {"alice", "bob"}}

(* An argument computed by an action that writes, and an action that is    *)
(* compared.                                                               *)
MCNoteSources ==
    {NoteSource([action |-> "announce", argument |-> Counted, body |-> Announced,
                 effects |-> <<"EmitEvent">>]),
     NoteSource([action |-> "announce", argument |-> <<"$x">>,
                 body |-> <<"(", "=">> \o Counted \o <<"$x", ")">>, effects |-> <<"EmitEvent">>])}

MCNoteDeployments == {<<"note", Sym("Note")>>}

MCNoteCalls == {Call("note", "Note-announce", "alice", <<Amount(1)>>, 99)}
==============================================================================
