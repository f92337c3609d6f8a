---------------------------- MODULE KconfigExpr ----------------------------
(***************************************************************************)
(* The dependency expressions of the menu (config/expr.c, expr.h): their   *)
(* three-valued meaning, and the rewritings with which menu_finalize       *)
(* brings the conditions of the menu files into a simple form.             *)
(*                                                                         *)
(* An expression is a record; the C code rewrites cells of a tree in       *)
(* place, here a rewriting returns the new tree.  Typ gives the type of    *)
(* every symbol; "y", "m" and "n" are the constant symbols.                *)
(***************************************************************************)
EXTENDS Integers, Sequences, SequencesExt

(* FoldLeft, by position: TLC is faster with a function over an interval.  *)
Each(Op(_, _), base, seq) ==
    LET upto[i \in 0..Len(seq)] == IF i = 0 THEN base ELSE Op(upto[i - 1], seq[i])
    IN upto[Len(seq)]

no == 0
mod == 1
yes == 2
Tristate == {no, mod, yes}

EXPR_AND(a, b) == IF a < b THEN a ELSE b
EXPR_OR(a, b) == IF a > b THEN a ELSE b
EXPR_NOT(a) == 2 - a

Constants == {"y", "m", "n"}
TriOf == [c \in Constants |-> CASE c = "y" -> yes [] c = "m" -> mod [] OTHER -> no]

NULL == [type |-> "NONE"]
Sy(x) == [type |-> "SYMBOL", sym |-> x]
Not(e) == [type |-> "NOT", left |-> e]
Two(t, l, r) == [type |-> t, left |-> l, right |-> r]
Comp(t, x, c) == [type |-> t, sym |-> x, right |-> c]

AllocAnd(l, r) == IF l = NULL THEN r ELSE IF r = NULL THEN l ELSE Two("AND", l, r)
AllocOr(l, r) == IF l = NULL THEN r ELSE IF r = NULL THEN l ELSE Two("OR", l, r)

IsYes(e) == e = NULL \/ e = Sy("y")
IsNo(e) == e = Sy("n")
IsTree(e) == e.type \in {"AND", "OR"}
IsComp(e) == e.type \in {"EQUAL", "UNEQUAL"}
Dual(t) == IF t = "AND" THEN "OR" ELSE "AND"

(* The neutral element of a chain of type t. *)
Neutral(t) == IF t = "AND" THEN Sy("y") ELSE Sy("n")

-----------------------------------------------------------------------------
(* The meaning of an expression, from the values (tristate and text) of    *)
(* the symbols; expr_calc_value first computes them, left to right.         *)

RECURSIVE SymsOf(_)
SymsOf(e) ==
    CASE e.type = "NONE" -> << >>
      [] e.type = "SYMBOL" -> <<e.sym>>
      [] IsComp(e) -> <<e.sym, e.right>>
      [] e.type = "NOT" -> SymsOf(e.left)
      [] OTHER -> SymsOf(e.left) \o SymsOf(e.right)

RECURSIVE Value(_, _, _)
Value(tri, str, e) ==
    CASE e.type = "NONE" -> yes
      [] e.type = "SYMBOL" -> tri[e.sym]
      [] e.type = "NOT" -> EXPR_NOT(Value(tri, str, e.left))
      [] e.type = "AND" -> EXPR_AND(Value(tri, str, e.left), Value(tri, str, e.right))
      [] e.type = "OR" -> EXPR_OR(Value(tri, str, e.left), Value(tri, str, e.right))
      [] e.type = "EQUAL" -> IF str[e.sym] = str[e.right] THEN yes ELSE no
      [] e.type = "UNEQUAL" -> IF str[e.sym] = str[e.right] THEN no ELSE yes

-----------------------------------------------------------------------------
(* A chain of ANDs or ORs is visited leaf by leaf; Graft puts new leaves   *)
(* into the cells of the old ones.                                         *)

RECURSIVE Leaves(_, _)
Leaves(t, e) == IF e.type = t THEN Leaves(t, e.left) \o Leaves(t, e.right) ELSE <<e>>

RECURSIVE Graft(_, _, _)
Graft(t, e, leaves) ==
    IF e.type # t THEN leaves[1]
    ELSE LET n == Len(Leaves(t, e.left))
         IN Two(t, Graft(t, e.left, SubSeq(leaves, 1, n)),
                   Graft(t, e.right, SubSeq(leaves, n + 1, Len(leaves))))

(* All pairs of positions in the order in which the nested visits meet them. *)
Pairs(n, k) == [i \in 1..n * k |-> <<((i - 1) \div k) + 1, ((i - 1) % k) + 1>>]

RECURSIVE EliminateYn(_)
EliminateYn(e) ==
    IF ~IsTree(e) THEN e
    ELSE LET l == EliminateYn(e.left)
             r == EliminateYn(e.right)
             zero == Neutral(Dual(e.type))
             one == Neutral(e.type)
         IN CASE l = zero -> zero
              [] l = one -> r
              [] r = zero -> zero
              [] r = one -> l
              [] OTHER -> Two(e.type, l, r)

RECURSIVE ExprEq(_, _), EliminateEq(_, _), Strike(_, _, _, _)

(* Strike from two lists of leaves <<a, b>> what they share, pair by pair, *)
(* but for the leaves that are kept; a third entry tells of a hit.         *)
Strike(t, kept, q, pairs) ==
    IF pairs = << >> THEN q
    ELSE LET i == pairs[1][1]
             j == pairs[1][2]
             same == (q[1][i] # q[2][j] \/ q[1][i] \notin kept) /\ ExprEq(q[1][i], q[2][j])
         IN Strike(t, kept,
                   IF same THEN <<[q[1] EXCEPT ![i] = Neutral(t)], [q[2] EXCEPT ![j] = Neutral(t)], TRUE>>
                   ELSE q,
                   Tail(pairs))

(* The chains <<p[1], p[2]>> with what they share struck, and the hit. *)
Struck(t, kept, p) ==
    LET a == Leaves(t, p[1])
        b == Leaves(t, p[2])
        Grafted(q) == <<Graft(t, p[1], q[1]), Graft(t, p[2], q[2]), q[3]>>
    IN Grafted(Strike(t, kept, <<a, b, FALSE>>, Pairs(Len(a), Len(b))))

EliminateEqIn(t, p) == Struck(t, {Sy("y"), Sy("n")}, p)

(* Strike what the two expressions share as chains of the type of the      *)
(* first, then as chains of the type of the second.                        *)
EliminateEq(x, z) ==
    LET First(p) == IF IsTree(p[1]) THEN EliminateEqIn(p[1].type, p) ELSE p
        Second(p) == IF p[1].type # p[2].type /\ IsTree(p[2]) THEN EliminateEqIn(p[2].type, p) ELSE p
        Cleaned(p) == <<EliminateYn(p[1]), EliminateYn(p[2])>>
    IN IF x = NULL \/ z = NULL THEN <<x, z>> ELSE Cleaned(Second(First(<<x, z>>)))

SameSymbol(p) == p[1].type = "SYMBOL" /\ p[1] = p[2]

ExprEq(x, z) ==
    /\ x.type = z.type
    /\ CASE x.type = "NOT" -> ExprEq(x.left, z.left)
         [] IsTree(x) -> SameSymbol(EliminateEq(x, z))
         [] OTHER -> x = z

-----------------------------------------------------------------------------
RECURSIVE Transform(_, _), EliminateDups(_, _)
RECURSIVE JoinLeaves(_, _, _, _), Dups1(_, _, _), Contradict(_, _, _, _), Dups2(_, _, _)

(* FOO!=n -> FOO, for the conditions of what is not tristate. *)
RECURSIVE TransBool(_, _)
TransBool(Typ, e) ==
    CASE IsTree(e) -> Two(e.type, TransBool(Typ, e.left), TransBool(Typ, e.right))
      [] e.type = "NOT" -> Not(TransBool(Typ, e.left))
      [] e.type = "UNEQUAL" /\ Typ[e.sym] = "tristate" /\ e.right = "n" -> Sy(e.sym)
      [] OTHER -> e

(* The symbol two leaves can be joined on, or "" when they cannot. *)
LeafSym(e, nested) ==
    CASE IsComp(e) \/ e.type = "SYMBOL" -> e.sym
      [] e.type = "NOT" /\ e.left.type \in nested -> e.left.sym
      [] OTHER -> ""

JoinSym(Typ, x, z) ==
    LET s == LeafSym(x, {"EQUAL", "UNEQUAL", "SYMBOL"})
    IN IF s # "" /\ s = LeafSym(z, {"SYMBOL"}) /\ Typ[s] \in {"boolean", "tristate"}
         THEN s ELSE ""

Third(c, d) == CHOOSE t \in Constants : t \notin {c, d}

(* Both are comparisons t of one symbol with two of the constants. *)
TwoConstants(t, x, z) ==
    x.type = t /\ z.type = t /\ {x.right, z.right} \subseteq Constants /\ x.right # z.right

JoinOr(Typ, x, z) ==
    LET s == JoinSym(Typ, x, z)
    IN IF ExprEq(x, z) THEN x ELSE IF s = "" THEN NULL
       ELSE CASE Typ[s] = "tristate" /\ TwoConstants("EQUAL", x, z) -> Comp("UNEQUAL", s, Third(x.right, z.right))
            [] Typ[s] = "boolean" /\ {x, z} = {Sy(s), Not(Sy(s))} -> Sy("y")
            [] OTHER -> NULL

JoinAnd(Typ, x, z) ==
    LET s == JoinSym(Typ, x, z)
        SymbolAnd(t, c) == {x, z} = {Sy(s), Comp(t, s, c)}
    IN IF ExprEq(x, z) THEN x ELSE IF s = "" THEN NULL
       ELSE CASE SymbolAnd("EQUAL", "y") -> Comp("EQUAL", s, "y")
            [] SymbolAnd("UNEQUAL", "n") -> Sy(s)
            [] SymbolAnd("UNEQUAL", "m") -> Comp("EQUAL", s, "y")
            [] /\ Typ[s] = "tristate" /\ {x.type, z.type} = {"EQUAL", "UNEQUAL"}
               /\ {x.right, z.right} \subseteq Constants ->
                   LET c == IF x.type = "EQUAL" THEN x.right ELSE z.right
                   IN IF x.right # z.right THEN Comp("EQUAL", s, c) ELSE Sy("n")
            [] Typ[s] = "tristate" /\ TwoConstants("UNEQUAL", x, z) -> Comp("EQUAL", s, Third(x.right, z.right))
            [] OTHER -> NULL

Join(Typ, t, x, z) == IF t = "OR" THEN JoinOr(Typ, x, z) ELSE JoinAnd(Typ, x, z)

-----------------------------------------------------------------------------
(* Strike from two chains of type t what they share; <<x, z, any>>. *)
ExtractEq(t, x, z) ==
    LET Cleaned(q) == IF q[3] THEN <<EliminateYn(q[1]), EliminateYn(q[2]), TRUE>> ELSE q
    IN Cleaned(Struck(t, {}, <<x, z>>))

(* An expression whose branches are transformed. *)
TransformTop(Typ, e) ==
    LET l == e.left
    IN CASE IsComp(e) /\ Typ[e.sym] = "boolean" /\ e.right \in Constants ->
              IF e.right = "m" THEN (IF e.type = "EQUAL" THEN Sy("n") ELSE Sy("y"))
              ELSE IF (e.type = "EQUAL") = (e.right = "y") THEN Sy(e.sym) ELSE Not(Sy(e.sym))
         [] e.type = "NOT" /\ l.type = "NOT" -> Transform(Typ, l.left)
         [] e.type = "NOT" /\ IsComp(l) ->
              [l EXCEPT !.type = IF @ = "EQUAL" THEN "UNEQUAL" ELSE "EQUAL"]
         [] e.type = "NOT" /\ IsTree(l) ->
              Transform(Typ, Two(Dual(l.type), Not(l.left), Not(l.right)))
         [] e.type = "NOT" /\ l.type = "SYMBOL" /\ l.sym \in Constants ->
              CASE l.sym = "y" -> Sy("n") [] l.sym = "n" -> Sy("y") [] OTHER -> l
         [] OTHER -> e

Transform(Typ, e) ==
    TransformTop(Typ,
        CASE IsTree(e) -> Two(e.type, Transform(Typ, e.left), Transform(Typ, e.right))
          [] e.type = "NOT" -> Not(Transform(Typ, e.left))
          [] OTHER -> e)

(* Join every leaf of a chain with every other that says something of the  *)
(* same symbol, pair by pair; chains within a leaf are joined first.       *)
(* q and n are [s, hit] and [e, hit].                                      *)
Nested1(Typ, p) == IF IsTree(p) THEN Dups1(Typ, p.type, p) ELSE [e |-> p, hit |-> FALSE]

JoinPair(Typ, t, q, i, j, n) ==
    LET With(new) == IF new = NULL THEN [s |-> [q.s EXCEPT ![i] = n.e], hit |-> q.hit \/ n.hit]
                     ELSE [s |-> [q.s EXCEPT ![i] = Neutral(t), ![j] = new], hit |-> TRUE]
    IN With(Join(Typ, t, n.e, q.s[j]))

JoinLeaves(Typ, t, q, pairs) ==
    LET i == pairs[1][1]
        j == pairs[1][2]
    IN IF pairs = << >> THEN q
       ELSE JoinLeaves(Typ, t,
                       IF i = j THEN q ELSE JoinPair(Typ, t, q, i, j, Nested1(Typ, q.s[i])),
                       Tail(pairs))

Dups1(Typ, t, e) ==
    LET Grafted(q) == [e |-> Graft(t, e, q.s), hit |-> q.hit]
        leaves == Leaves(t, e)
    IN Grafted(JoinLeaves(Typ, t, [s |-> leaves, hit |-> FALSE], Pairs(Len(leaves), Len(leaves))))

(* The cells a leaf is compared with: every node of the chain, the leaves  *)
(* first, since the visit of an inner node goes on after its branches.     *)
RECURSIVE Cells(_, _, _)
Cells(t, e, at) ==
    IF e.type # t THEN <<[leaf |-> at, node |-> e]>>
    ELSE LET l == Cells(t, e.left, at)
             r == Cells(t, e.right, at + Len(Leaves(t, e.left)))
         IN l \o r \o <<[leaf |-> 0, node |-> e]>>

(* (FOO || BAR) && (!FOO && !BAR) -> n, and its dual: leaf i, whose nested *)
(* contradictions are gone, is one of the node given, or it stays.         *)
ContradictLeaf(Typ, t, q, i, nested, node) ==
    LET p == nested.e
        Gone(rest) == IF p.type = "OR" THEN IsYes(rest) ELSE IsNo(rest)
        With(gone) == [e |-> Graft(t, q.e, [Leaves(t, q.e) EXCEPT ![i] = IF gone THEN Neutral(p.type) ELSE p]),
                       hit |-> q.hit \/ nested.hit \/ gone]
    IN With(Gone(ExtractEq(Dual(p.type), Transform(Typ, Not(p)), node)[1]))

Contradict(Typ, t, q, pairs) ==
    LET i == pairs[1][1]
        p == Leaves(t, q.e)[i]
        cell == Cells(t, q.e, 1)[pairs[1][2]]
    IN IF pairs = << >> THEN q
       ELSE Contradict(Typ, t,
                       IF ~IsTree(p) \/ cell.leaf = i THEN q
                       ELSE ContradictLeaf(Typ, t, q, i, Dups2(Typ, p.type, p), cell.node),
                       Tail(pairs))

Dups2(Typ, t, e) ==
    LET n == Len(Leaves(t, e))
    IN Contradict(Typ, t, [e |-> e, hit |-> FALSE], Pairs(n, 2 * n - 1))

EliminateDups(Typ, e) ==
    LET Second(a) == [Dups2(Typ, e.type, a.e) EXCEPT !.hit = @ \/ a.hit]
        Again(b) == IF b.hit THEN EliminateDups(Typ, EliminateYn(b.e)) ELSE b.e
    IN IF IsTree(e) THEN Again(Second(Dups1(Typ, e.type, e))) ELSE e

-----------------------------------------------------------------------------
RECURSIVE ContainsSymbol(_, _)
ContainsSymbol(e, x) ==
    CASE IsTree(e) -> ContainsSymbol(e.left, x) \/ ContainsSymbol(e.right, x)
      [] e.type = "NOT" -> ContainsSymbol(e.left, x)
      [] e.type = "SYMBOL" -> e.sym = x
      [] IsComp(e) -> x \in {e.sym, e.right}
      [] OTHER -> FALSE

(* The expression is n whenever the symbol is. *)
RECURSIVE DependsSymbol(_, _)
DependsSymbol(e, x) ==
    CASE e.type = "AND" -> DependsSymbol(e.left, x) \/ DependsSymbol(e.right, x)
      [] e.type = "SYMBOL" -> e.sym = x
      [] e.type = "EQUAL" -> e.sym = x /\ e.right \in {"y", "m"}
      [] e.type = "UNEQUAL" -> e.sym = x /\ e.right = "n"
      [] OTHER -> FALSE

(* The expression e = c (or e # c), pushed down to the symbols. *)
RECURSIVE TransCompare(_, _, _)
TransCompare(e, t, c) ==
    LET Negated(f) == IF t = "UNEQUAL" THEN Not(f) ELSE f
    IN CASE e.type = "NONE" -> Negated(Sy(c))
         [] IsTree(e) ->
              LET l == TransCompare(e.left, "EQUAL", c)
                  r == TransCompare(e.right, "EQUAL", c)
              IN Negated(CASE c = "y" -> Two(e.type, l, r)
                           [] c = "n" -> Two(Dual(e.type), l, r)
                           [] OTHER -> e)
         [] e.type = "NOT" -> TransCompare(e.left, IF t = "EQUAL" THEN "UNEQUAL" ELSE "EQUAL", c)
         [] IsComp(e) -> CASE c = "y" -> Negated(e)
                           [] c = "m" -> (IF t = "EQUAL" THEN Sy("n") ELSE Sy("y"))
                           [] OTHER -> (IF t = "EQUAL" THEN Not(e) ELSE e)
         [] OTHER -> Comp(t, e.sym, c)
=============================================================================
