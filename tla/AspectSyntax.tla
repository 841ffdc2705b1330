---------------------------- MODULE AspectSyntax ----------------------------
(***************************************************************************)
(* The syntax of aspect packages (detta-aspects): expressions and their    *)
(* tokens, the declarations a package is parsed into, and the canonical    *)
(* source whose hash is the package's source root.                         *)
(*                                                                         *)
(* Tokenizing is left out: a source is the sequence of its tokens.  An     *)
(* atom is one token and keeps the three lexical classes the code tells    *)
(* apart: a variable ("$x"), a numeral, any other symbol.                  *)
(***************************************************************************)
EXTENDS Naturals, Sequences, SequencesExt, TLC

-----------------------------------------------------------------------------
(* Expr.                                                                   *)

Sym(name) == <<"sym", name>>
Var(name) == <<"var", name>>
Num(n) == <<"num", n>>
List(items) == <<"list", items>>

IsList(e) == e[1] = "list"
IsAtom(e) == e[1] \in {"sym", "var", "num"}
Items(e) == e[2]

(* The list expression e begins with the given symbol.                     *)
HeadIs(e, name) == IsList(e) /\ Len(Items(e)) > 0 /\ Items(e)[1] = Sym(name)

LParen == <<"(", 0>>
RParen == <<")", 0>>

(* The tokens of an expression, in the order canonical_expr prints them.   *)
RECURSIVE CanonicalExpr(_)
CanonicalExpr(e) ==
    IF IsAtom(e)
    THEN <<e>>
    ELSE <<LParen>> \o FoldLeft(LAMBDA done, item : done \o CanonicalExpr(item), <<>>, Items(e))
                    \o <<RParen>>

(* SExprParser: the expression that begins at a position, and the position *)
(* after it.  The loop of parse_expr is ParseItems.                        *)
RECURSIVE ParseExpr(_, _), ParseItems(_, _, _)
ParseExpr(tokens, at) ==
    IF at > Len(tokens) \/ tokens[at] = RParen
    THEN [ok |-> FALSE]
    ELSE IF tokens[at] = LParen
         THEN ParseItems(tokens, at + 1, <<>>)
         ELSE [ok |-> TRUE, expr |-> tokens[at], next |-> at + 1]

ParseItems(tokens, at, items) ==
    IF at > Len(tokens)
    THEN [ok |-> FALSE]
    ELSE IF tokens[at] = RParen
         THEN [ok |-> TRUE, expr |-> List(items), next |-> at + 1]
         ELSE LET item == ParseExpr(tokens, at)
              IN  IF item.ok
                  THEN ParseItems(tokens, item.next, Append(items, item.expr))
                  ELSE item

-----------------------------------------------------------------------------
(* Declarations.  A declaration is its form, the atoms and then the        *)
(* expressions that follow, and a method policy's two optional lists.      *)

None == <<"none", 0>>

(* By form: how many items the list has, and how many of those after the   *)
(* head must be atoms.                                                     *)
Forms ==
    (":" :> <<3, 1>>) @@ ("aspect" :> <<2, 1>>) @@ ("abstract-aspect" :> <<2, 1>>)
    @@ ("bundle" :> <<2, 1>>) @@ ("layer-of" :> <<3, 2>>) @@ ("extends" :> <<3, 2>>)
    @@ ("conflicts" :> <<3, 2>>) @@ ("owns" :> <<4, 2>>) @@ ("registry-owns" :> <<4, 2>>)
    @@ ("provides" :> <<3, 2>>) @@ ("requires" :> <<3, 2>>) @@ ("action" :> <<3, 2>>)
    @@ ("derived" :> <<4, 2>>) @@ ("local-invariant" :> <<4, 2>>)
    @@ ("bundle-includes" :> <<3, 2>>) @@ ("bundle-extends" :> <<3, 2>>)
    @@ ("bundle-constraint" :> <<4, 2>>) @@ ("projection" :> <<4, 2>>)
    @@ ("method-abi" :> <<5, 2>>) @@ ("method-policy" :> <<6, 2>>)
    @@ ("cross-constraint" :> <<3, 1>>)

ForbiddenForms ==
    {"add-atom", "remove-atom", "get-atoms", "match", "import!", "py-call", "callPredicate",
     "assertzPredicate", "assertaPredicate", "retractPredicate", "translatePredicate",
     "add-translator-rule!", "remove-translator-rule!", "filesystem-access",
     "process-execution", "network-access", "wall-clock-access", "randomness"}

RECURSIVE UsesForbiddenForm(_)
UsesForbiddenForm(e) ==
    /\ IsList(e)
    /\ \/ \E form \in ForbiddenForms : HeadIs(e, form)
       \/ \E i \in 1..Len(Items(e)) : UsesForbiddenForm(Items(e)[i])

(* The optional (calls ...) and (reads ...) lists of a method policy, in   *)
(* either order, each at most once.                                        *)
PolicyExtensions(extensions) ==
    LET of(name) == SelectSeq(extensions, LAMBDA e : HeadIs(e, name))
        only(name) == IF of(name) = <<>> THEN None ELSE of(name)[1]
    IN  [ok |-> /\ Len(of("calls")) <= 1
                /\ Len(of("reads")) <= 1
                /\ Len(of("calls")) + Len(of("reads")) = Len(extensions),
         calls |-> only("calls"),
         reads |-> only("reads")]

DeclarationFromExpr(e) ==
    LET items == Items(e)
        form == items[1][2]
        arity == Forms[form][1]
        atoms == Forms[form][2]
        extensions == PolicyExtensions(SubSeq(items, 7, Len(items)))
        arityOk == IF form = "method-policy" THEN Len(items) \in 6..8 ELSE Len(items) = arity
    IN  IF /\ ~UsesForbiddenForm(e)
           /\ IsList(e)
           /\ Len(items) > 0
           /\ items[1][1] = "sym"
           /\ form \in DOMAIN Forms
           /\ arityOk
           /\ form = "method-policy" => extensions.ok
           /\ \A i \in 2..(atoms + 1) : IsAtom(items[i])
        THEN [ok |-> TRUE,
              declaration |-> [form |-> form,
                               names |-> SubSeq(items, 2, atoms + 1),
                               exprs |-> SubSeq(items, atoms + 2, arity),
                               calls |-> IF form = "method-policy" THEN extensions.calls ELSE None,
                               reads |-> IF form = "method-policy" THEN extensions.reads ELSE None]]
        ELSE [ok |-> FALSE]

(* Mutant: the calls of a policy that also has reads are not printed.      *)
CanonicalDeclarationLosingCalls(d) ==
    LET optional(e) == IF e = None THEN <<>> ELSE <<e>>
        extensions == IF d.reads = None THEN optional(d.calls) ELSE optional(d.reads)
    IN  CanonicalExpr(List(<<Sym(d.form)>> \o d.names \o d.exprs \o extensions))

CanonicalDeclaration(d) ==
    LET optional(e) == IF e = None THEN <<>> ELSE <<e>>
    IN  CanonicalExpr(List(<<Sym(d.form)>> \o d.names \o d.exprs
                           \o optional(d.calls) \o optional(d.reads)))

(* parse_aspect_package: the declarations of a source, up to the first     *)
(* error.                                                                  *)
RECURSIVE ParseFrom(_, _, _)
ParseFrom(tokens, at, declarations) ==
    IF at > Len(tokens)
    THEN [ok |-> TRUE, ast |-> declarations]
    ELSE LET parsed == ParseExpr(tokens, at)
             found == IF parsed.ok THEN DeclarationFromExpr(parsed.expr) ELSE parsed
         IN  IF found.ok
             THEN ParseFrom(tokens, parsed.next, Append(declarations, found.declaration))
             ELSE [ok |-> FALSE]

ParseAspectPackage(tokens) == ParseFrom(tokens, 1, <<>>)

(* What canonical_source_root hashes.                                      *)
CanonicalAspectSource(ast) ==
    FoldLeft(LAMBDA done, d : done \o CanonicalDeclaration(d), <<>>, ast)
=============================================================================
