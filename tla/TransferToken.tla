---------------------------- MODULE TransferToken ----------------------------
(***************************************************************************)
(* The ledger of the aspect standard library (minimal-transfer-token.metta)*)
(* as source text: the aspects that initialize a supply and transfer it,   *)
(* and the two methods of ERC20ConformantToken that reach them.  The other *)
(* aspects of the file (fees, locks, snapshots, ...) are left out.         *)
(***************************************************************************)
EXTENDS AspectSyntax

(* A word of the text as a token.                                          *)
Numeral == ("0" :> 0) @@ ("1" :> 1)

Variables == {"$owner", "$from", "$to", "$caller", "$amount", "$coin", "$certificate", "$x"}

Token(word) ==
    CASE word = "(" -> LParen
      [] word = ")" -> RParen
      [] word \in Variables -> Var(word)
      [] word \in DOMAIN Numeral -> Num(Numeral[word])
      [] OTHER -> Sym(word)

Tokens(words) == [i \in 1..Len(words) |-> Token(words[i])]

InitializeSupply ==
    <<"(", "derived", "StaticBalanceAspect", "initializeSupply",
        "(", "=", "(", "initializeSupply", "$owner", "$amount", ")",
          "(", "begin",
            "(", "require", "(", "=", "(", "state-get", "initialized", ")", "0", ")",
                 "ALREADY_INITIALIZED", ")",
            "(", "state-set!", "initialized", "1", ")",
            "(", "state-set!", "totalSupply", "$amount", ")",
            "(", "state-set!", "balanceOf", "$owner", "$amount", ")",
            "(", "emit!", "(", "Transfer", "ZeroAddress", "$owner", "$amount", ")", ")",
            "True", ")", ")", ")">>

TransferBalance ==
    <<"(", "derived", "TransferableBalanceAspect", "transferBalance",
        "(", "=", "(", "transferBalance", "$from", "$to", "$amount", ")",
          "(", "begin",
            "(", "require", "(", ">=", "(", "state-get", "balanceOf", "$from", ")", "$amount", ")",
                 "INSUFFICIENT_BALANCE", ")",
            "(", "state-set!", "balanceOf", "$from",
              "(", "safe-sub", "(", "state-get", "balanceOf", "$from", ")", "$amount", ")", ")",
            "(", "state-set!", "balanceOf", "$to",
              "(", "safe-add", "(", "state-get", "balanceOf", "$to", ")", "$amount", ")", ")",
            "(", "emit!", "(", "Transfer", "$from", "$to", "$amount", ")", ")",
            "True", ")", ")", ")">>

TransferFromSelf ==
    <<"(", "derived", "SelfTransferAspect", "transferFromSelf",
        "(", "=", "(", "transferFromSelf", "$caller", "$to", "$amount", ")",
          "(", "transferBalance", "$caller", "$to", "$amount", ")", ")", ")">>
==============================================================================
