---------------------------- MODULE KconfigExpr -----------------------------
(***************************************************************************)
(* The dependency expressions of Buildroot's configuration system          *)
(* (support/kconfig/expr.c): their value, and the rewriting menu_finalize  *)
(* puts every one of them through before it is ever evaluated.             *)
(*                                                                         *)
(* An expression is a tree of records.  The C code rewrites trees in       *)
(* place; an operator here returns the new tree, together with trans_count *)
(* where the caller reads it.                                              *)
(***************************************************************************)
EXTENDS KconfigRules, Sequences, SequencesExt

(* expr_calc_value, after sym_calc_value has given the symbols values.     *)
RECURSIVE expr_calc_value(_, _)
expr_calc_value(e, val) ==
  CASE e.type = "NULL"     -> 2
    [] e.type = "E_NOT"    -> EXPR_NOT(expr_calc_value(e.expr, val))
    [] e.type = "E_AND"    -> EXPR_AND(expr_calc_value(e.left, val), expr_calc_value(e.right, val))
    [] e.type = "E_OR"     -> EXPR_OR(expr_calc_value(e.left, val), expr_calc_value(e.right, val))
    [] OTHER               -> FlatValue(e, val)

-----------------------------------------------------------------------------
(* The operands of one level of && or ||, left to right, and the tree put  *)
(* back over changed operands.                                             *)
RECURSIVE Operands(_, _)
Operands(type, e) ==
  IF e.type = type THEN Operands(type, e.left) \o Operands(type, e.right) ELSE <<e>>

RECURSIVE WithOperands(_, _, _)
WithOperands(type, e, s) ==
  IF e.type # type THEN s[1]
  ELSE LET n == Len(Operands(type, e.left))
       IN  expr_alloc_two(type, WithOperands(type, e.left, SubSeq(s, 1, n)),
                                WithOperands(type, e.right, SubSeq(s, n + 1, Len(s))))

(* A mutant: an operand n takes the expression with it in ||, too.         *)
RECURSIVE YnSwapped(_)
YnSwapped(e) ==
  IF e.type \notin {"E_AND", "E_OR"} THEN e
  ELSE LET l == YnSwapped(e.left)
           r == YnSwapped(e.right)
       IN  IF No \in {l, r} THEN No ELSE IF l = Yes THEN r ELSE IF r = Yes THEN l
           ELSE expr_alloc_two(e.type, l, r)

RECURSIVE expr_eliminate_yn(_)
expr_eliminate_yn(e) ==
  IF e.type \notin {"E_AND", "E_OR"} THEN e
  ELSE YnLevel(e.type, expr_eliminate_yn(e.left), expr_eliminate_yn(e.right))

(* Equal operands of two expressions are both replaced, pair by pair.      *)
RECURSIVE expr_eq(_, _), expr_eliminate_eq(_, _), EqualPairs(_, _, _, _)

EqualPairs(type, s1, s2, k) ==
  LET i == (k \div Len(s2)) + 1
      j == (k % Len(s2)) + 1
      gone == IF type = "E_OR" THEN No ELSE Yes
  IN  IF k = Len(s1) * Len(s2) THEN <<s1, s2>>
      ELSE IF (s1[i] = s2[j] /\ s1[i] \in {Yes, No}) \/ ~expr_eq(s1[i], s2[j])
           THEN EqualPairs(type, s1, s2, k + 1)
           ELSE EqualPairs(type, [s1 EXCEPT ![i] = gone], [s2 EXCEPT ![j] = gone], k + 1)

Rebuilt(type, p, s) == <<WithOperands(type, p[1], s[1]), WithOperands(type, p[2], s[2])>>

EliminateLevel(type, p) ==
  IF type \notin {"E_AND", "E_OR"} THEN p
  ELSE Rebuilt(type, p, EqualPairs(type, Operands(type, p[1]), Operands(type, p[2]), 0))

OtherLevel(p) == IF p[1].type # p[2].type THEN EliminateLevel(p[2].type, p) ELSE p
YnGone(p) == <<expr_eliminate_yn(p[1]), expr_eliminate_yn(p[2])>>

expr_eliminate_eq(e1, e2) ==
  IF NULL \in {e1, e2} THEN <<e1, e2>>
  ELSE YnGone(OtherLevel(EliminateLevel(e1.type, <<e1, e2>>)))

SameSymbol(p) == p[1].type = "E_SYMBOL" /\ p[2].type = "E_SYMBOL" /\ p[1].sym = p[2].sym

expr_eq(e1, e2) ==
  /\ e1.type = e2.type
  /\ CASE e1.type \in Comparisons \cup {"E_SYMBOL"} -> e1 = e2
       [] e1.type = "E_NOT" -> expr_eq(e1.expr, e2.expr)
       [] e1.type \in {"E_AND", "E_OR"} -> SameSymbol(expr_eliminate_eq(e1, e2))
       [] OTHER -> FALSE

-----------------------------------------------------------------------------
(* Joining the operands of a level.  NULL: two operands stay as they are.  *)
Join(type, e1, e2) ==
  IF expr_eq(e1, e2) THEN e1
  ELSE IF ~Joinable(e1, e2) THEN NULL
  ELSE IF type = "E_OR" THEN expr_join_or(e1, e2, Subject(e1)) ELSE expr_join_and(e1, e2, Subject(e1))

(* One pass over every ordered pair of different operands of a level, an   *)
(* operand of the other connective having its own pass first; the result   *)
(* carries trans_count.                                                    *)
RECURSIVE Deduped(_, _)

JoinInner(type, s, n, i, j, inner) == Replaced(type, s, n, i, j, inner, Join(type, inner[1], s[j]))
JoinPair(type, s, n, i, j) ==
  IF i = j THEN <<s, n>>
  ELSE JoinInner(type, s, n, i, j, IF s[i].type \in {"E_AND", "E_OR"} THEN Deduped(s[i].type, s[i]) ELSE <<s[i], 0>>)

JoinPairs(type, s) ==
  FoldLeft(LAMBDA r, k : JoinPair(type, r[1], r[2], (k \div Len(s)) + 1, (k % Len(s)) + 1),
           <<s, 0>>, [k \in 1..(Len(s) * Len(s)) |-> k - 1])

Deduped(type, e) ==
  LET Back(p) == <<WithOperands(type, e, p[1]), p[2]>> IN Back(JoinPairs(type, Operands(type, e)))

RECURSIVE expr_eliminate_dups(_)
Again(p) == IF p[2] = 0 THEN p[1] ELSE expr_eliminate_dups(expr_eliminate_yn(p[1]))
expr_eliminate_dups(e) == IF e.type \notin {"E_AND", "E_OR"} THEN e ELSE Again(Deduped(e.type, e))

-----------------------------------------------------------------------------
(* expr_transform: comparisons of a bool with a constant become the symbol *)
(* or its negation, and negations move inwards.                            *)
RECURSIVE expr_transform(_)
Inwards(type, x) ==
  expr_transform(expr_alloc_two(type, expr_alloc_one("E_NOT", x.left), expr_alloc_one("E_NOT", x.right)))
TransformNot(e, x) ==
  CASE x.type = "E_NOT" -> expr_transform(x.expr)
    [] x.type \in {"E_OR", "E_AND"} -> Inwards(IF x.type = "E_OR" THEN "E_AND" ELSE "E_OR", x)
    [] OTHER -> NegatedLeaf(e, x)
expr_transform(e) ==
  CASE e.type \in {"E_AND", "E_OR"} ->
         expr_alloc_two(e.type, expr_transform(e.left), expr_transform(e.right))
    [] e.type = "E_NOT" ->
         LET Not(x) == TransformNot(expr_alloc_one("E_NOT", x), x) IN Not(expr_transform(e.expr))
    [] e.type \in {"E_EQUAL", "E_UNEQUAL"} /\ SymType[e.lsym] = "S_BOOLEAN" -> BoolComparison(e)
    [] OTHER -> e

(* FOO!=n becomes FOO where only the truth of it matters.                  *)
RECURSIVE expr_trans_bool(_)
expr_trans_bool(e) ==
  CASE e.type \in {"E_AND", "E_OR"} ->
         expr_alloc_two(e.type, expr_trans_bool(e.left), expr_trans_bool(e.right))
    [] e.type = "E_NOT" -> expr_alloc_one("E_NOT", expr_trans_bool(e.expr))
    [] e.type = "E_UNEQUAL" ->
         IF SymType[e.lsym] = "S_TRISTATE" /\ e.rsym = "n" THEN expr_alloc_symbol(e.lsym) ELSE e
    [] OTHER -> e

(* The expression "e compares with v", v being y or n as in its callers.   *)
RECURSIVE expr_trans_compare(_, _, _)
expr_trans_compare(e, type, v) ==
  LET Sub(x) == expr_trans_compare(x, "E_EQUAL", v)
      Unless(x) == IF type = "E_UNEQUAL" THEN expr_alloc_one("E_NOT", x) ELSE x
      dual == IF e.type = "E_AND" THEN "E_OR" ELSE "E_AND"
  IN  CASE e.type = "NULL" -> Unless(expr_alloc_symbol(v))
        [] e.type \in {"E_AND", "E_OR"} ->
             Unless(expr_alloc_two(IF v = "y" THEN e.type ELSE dual, Sub(e.left), Sub(e.right)))
        [] e.type = "E_NOT" ->
             expr_trans_compare(e.expr, IF type = "E_EQUAL" THEN "E_UNEQUAL" ELSE "E_EQUAL", v)
        [] e.type \in Comparisons ->
             IF (type = "E_EQUAL") = (v = "y") THEN e ELSE expr_alloc_one("E_NOT", e)
        [] e.type = "E_SYMBOL" -> expr_alloc_comp(type, e.sym, v)

-----------------------------------------------------------------------------
(* Which symbols an expression mentions, and which ones it needs.          *)
RECURSIVE expr_contains_symbol(_, _), expr_depends_symbol(_, _), NeededSomewhere(_, _)

(* A mutant: what one side of || needs, the whole needs.                   *)
NeededSomewhere(e, s) ==
  CASE e.type \in {"E_AND", "E_OR"} -> NeededSomewhere(e.left, s) \/ NeededSomewhere(e.right, s)
    [] e.type = "E_SYMBOL" -> e.sym = s
    [] e.type = "E_EQUAL" -> e.lsym = s /\ e.rsym \in {"y", "m"}
    [] e.type = "E_UNEQUAL" -> e.lsym = s /\ e.rsym = "n"
    [] OTHER -> FALSE

expr_contains_symbol(e, s) ==
  CASE e.type \in {"E_AND", "E_OR"} -> expr_contains_symbol(e.left, s) \/ expr_contains_symbol(e.right, s)
    [] e.type = "E_SYMBOL" -> e.sym = s
    [] e.type \in Comparisons -> s \in {e.lsym, e.rsym}
    [] e.type = "E_NOT" -> expr_contains_symbol(e.expr, s)
    [] OTHER -> FALSE

expr_depends_symbol(e, s) ==
  CASE e.type = "E_AND" -> expr_depends_symbol(e.left, s) \/ expr_depends_symbol(e.right, s)
    [] e.type = "E_SYMBOL" -> e.sym = s
    [] e.type = "E_EQUAL" -> e.lsym = s /\ e.rsym \in {"y", "m"}
    [] e.type = "E_UNEQUAL" -> e.lsym = s /\ e.rsym = "n"
    [] OTHER -> FALSE

-----------------------------------------------------------------------------
(* Printing, as a sequence of tokens, and the grammar that reads them.     *)

(* An operand is put in parentheses when its connective binds less.        *)
Binding == ("E_OR" :> 1) @@ ("E_AND" :> 2) @@ ("E_NOT" :> 3) @@
           [t \in Comparisons |-> IF t \in {"E_EQUAL", "E_UNEQUAL"} THEN 4 ELSE 5]
(* A mutant: && and || taken for equally strong.                           *)
AndLikeOr(t1, t2) ==
  IF t1 \in DOMAIN Binding /\ t2 \in DOMAIN Binding /\ {t1, t2} # {"E_AND", "E_OR"}
     /\ Binding[t1] > Binding[t2] THEN 1 ELSE -1
expr_compare_type(t1, t2) ==
  IF t1 \in DOMAIN Binding /\ t2 \in DOMAIN Binding /\ Binding[t1] > Binding[t2] THEN 1 ELSE -1

RelationToken == [t \in Comparisons |->
                    CASE t = "E_EQUAL" -> "=" [] t = "E_UNEQUAL" -> "!=" [] t = "E_LTH" -> "<"
                      [] t = "E_LEQ" -> "<=" [] t = "E_GTH" -> ">" [] t = "E_GEQ" -> ">="]

RECURSIVE expr_print(_, _)
expr_print(e, prevtoken) ==
  LET paren == expr_compare_type(prevtoken, e.type) > 0
      body == CASE e.type = "NULL" -> <<"y">>
                [] e.type = "E_SYMBOL" -> <<e.sym>>
                [] e.type = "E_NOT" -> <<"!">> \o expr_print(e.expr, "E_NOT")
                [] e.type \in Comparisons -> <<e.lsym, RelationToken[e.type], e.rsym>>
                [] e.type = "E_OR" -> expr_print(e.left, "E_OR") \o <<"||">> \o expr_print(e.right, "E_OR")
                [] e.type = "E_AND" -> expr_print(e.left, "E_AND") \o <<"&&">> \o expr_print(e.right, "E_AND")
  IN  IF paren THEN <<"(">> \o body \o <<")">> ELSE body

(* The rules of zconf.y for expr, with the precedence it declares: ||      *)
(* binds least, then &&, then !; both group to the left.  A parser returns *)
(* the tree and what is left of the tokens.                                *)
RECURSIVE ParseOr(_), ParseAnd(_), ParseNot(_), OrTail(_, _), AndTail(_, _)

ParseNot(t) ==
  CASE t[1] = "!" -> LET p == ParseNot(Tail(t)) IN <<expr_alloc_one("E_NOT", p[1]), p[2]>>
    [] t[1] = "(" -> LET p == ParseOr(Tail(t)) IN <<p[1], Tail(p[2])>>
    [] OTHER ->
         IF Len(t) >= 3 /\ \E c \in Comparisons : RelationToken[c] = t[2]
         THEN <<expr_alloc_comp(CHOOSE c \in Comparisons : RelationToken[c] = t[2], t[1], t[3]),
                SubSeq(t, 4, Len(t))>>
         ELSE <<expr_alloc_symbol(t[1]), Tail(t)>>
AndTail(e, t) ==
  IF t # <<>> /\ t[1] = "&&"
  THEN LET p == ParseNot(Tail(t)) IN AndTail(expr_alloc_two("E_AND", e, p[1]), p[2])
  ELSE <<e, t>>
ParseAnd(t) == LET p == ParseNot(t) IN AndTail(p[1], p[2])
OrTail(e, t) ==
  IF t # <<>> /\ t[1] = "||"
  THEN LET p == ParseAnd(Tail(t)) IN OrTail(expr_alloc_two("E_OR", e, p[1]), p[2])
  ELSE <<e, t>>
ParseOr(t) == LET p == ParseAnd(t) IN OrTail(p[1], p[2])

(* Reverse dependencies are printed one line for each ||-ed select that    *)
(* has the value asked for.                                                *)
RECURSIVE expr_print_revdep(_, _, _)
expr_print_revdep(e, val, pr_type) ==
  IF e.type = "E_OR"
  THEN expr_print_revdep(e.left, val, pr_type) \o expr_print_revdep(e.right, val, pr_type)
  ELSE IF expr_calc_value(e, val) = pr_type THEN <<expr_print(e, "E_NONE")>> ELSE <<>>

=============================================================================
