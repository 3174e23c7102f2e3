---------------------------- MODULE KconfigRules ----------------------------
(***************************************************************************)
(* The rules by which support/kconfig/expr.c rewrites a dependency, each   *)
(* for the operands it looks at: how a level of && or || loses y and n,    *)
(* how two operands about the same symbol are joined, how comparisons and  *)
(* constants take a negation in.  KconfigExpr applies them to trees.       *)
(***************************************************************************)
EXTENDS Integers

CONSTANTS
  SymType,   \* the type of every symbol; S_UNKNOWN for a constant
  Const,     \* those with SYMBOL_CONST: y, m, n and quoted strings
  Number,    \* what strtoll reads completely of a <<type, string>>
  StrRank    \* strcmp: the rank of every string that occurs

(* Strings that differ compare as different, and y, m and n are constants, *)
(* of no type, that strtoll does not read; nor is a bool or a tristate     *)
(* ever read as a number (expr_parse_string has a case of its own).        *)
ASSUME RulesAssumption ==
  /\ \A s \in DOMAIN StrRank : StrRank[s] \in Int
  /\ \A s, t \in DOMAIN StrRank : StrRank[s] = StrRank[t] => s = t
  /\ \A p \in DOMAIN Number : Number[p] \in Int /\ p[1] \notin {"S_BOOLEAN", "S_TRISTATE"}
  /\ {"y", "m", "n"} \subseteq Const /\ Const \subseteq DOMAIN SymType
  /\ \A s \in Const : SymType[s] = "S_UNKNOWN"
  /\ \A s \in {"y", "m", "n"} : <<"S_UNKNOWN", s>> \notin DOMAIN Number

Boolean == {"S_BOOLEAN", "S_TRISTATE"}
Comparisons == {"E_EQUAL", "E_UNEQUAL", "E_LTH", "E_LEQ", "E_GTH", "E_GEQ"}

expr_alloc_symbol(s) == [type |-> "E_SYMBOL", sym |-> s]
expr_alloc_one(type, e) == [type |-> type, expr |-> e]
expr_alloc_two(type, l, r) == [type |-> type, left |-> l, right |-> r]
expr_alloc_comp(type, a, b) == [type |-> type, lsym |-> a, rsym |-> b]

NULL == [type |-> "NULL"]
Yes == expr_alloc_symbol("y")
No == expr_alloc_symbol("n")
Mod == expr_alloc_symbol("m")

expr_alloc_and(l, r) ==
  IF l = NULL THEN r ELSE IF r = NULL THEN l ELSE expr_alloc_two("E_AND", l, r)
expr_alloc_or(l, r) ==
  IF l = NULL THEN r ELSE IF r = NULL THEN l ELSE expr_alloc_two("E_OR", l, r)

-----------------------------------------------------------------------------
(* Values.  An assignment gives every symbol its string value; a tristate  *)
(* is 0, 1 or 2 for n, m, y.                                               *)

Tri == [s \in {"n", "m", "y"} |-> IF s = "n" THEN 0 ELSE IF s = "m" THEN 1 ELSE 2]

(* The left side of ||, && and ! in expr.h.                                *)
EXPR_OR(a, b) == IF a > b THEN a ELSE b
EXPR_AND(a, b) == IF a < b THEN a ELSE b
EXPR_NOT(a) == 2 - a

(* How expr_parse_string reads a string of a type: as a number or, when    *)
(* characters are left over, as a string.                                  *)
IsNumber(s) == s[1] \in Boolean \/ s \in DOMAIN Number
NumberOf(s) ==
  IF s \in DOMAIN Number THEN Number[s] ELSE IF s[2] \in DOMAIN Tri THEN Tri[s[2]] ELSE -1

(* Two <<type, string>> as they compare: two numbers, or two ranks.        *)
Compared(a, b) ==
  IF {a[1], b[1]} # {"S_STRING"} /\ IsNumber(a) /\ IsNumber(b)
  THEN <<NumberOf(a), NumberOf(b)>> ELSE <<StrRank[a[2]], StrRank[b[2]]>>

Relates(type, p) ==
  CASE type = "E_EQUAL"   -> p[1] = p[2]
    [] type = "E_UNEQUAL" -> p[1] # p[2]
    [] type = "E_LTH"     -> p[1] < p[2]
    [] type = "E_LEQ"     -> p[1] <= p[2]
    [] type = "E_GTH"     -> p[1] > p[2]
    [] type = "E_GEQ"     -> p[1] >= p[2]

(* The value of an operand that is neither an expression of its own nor a  *)
(* negation: a symbol or a comparison.                                     *)
FlatValue(e, val) ==
  IF e.type = "E_SYMBOL"
  THEN IF SymType[e.sym] \in Boolean \/ e.sym \in DOMAIN Tri THEN Tri[val[e.sym]] ELSE 0
  ELSE IF Relates(e.type, Compared(<<SymType[e.lsym], val[e.lsym]>>, <<SymType[e.rsym], val[e.rsym]>>))
       THEN 2 ELSE 0

-----------------------------------------------------------------------------
(* expr && y is expr, expr && n is n; the other way round for ||.  l and r *)
(* are the operands, rewritten already.                                    *)
YnLevel(type, l, r) ==
  LET absorbing == IF type = "E_AND" THEN No ELSE Yes
      neutral   == IF type = "E_AND" THEN Yes ELSE No
  IN  IF l = absorbing \/ (l # neutral /\ r = absorbing) THEN absorbing
      ELSE IF l = neutral THEN r
      ELSE IF r = neutral THEN l
      ELSE expr_alloc_two(type, l, r)

-----------------------------------------------------------------------------
(* Joining two operands.  NULL: they stay as they are.                     *)

(* The symbol an operand is about, as the guards of expr_join_or and       *)
(* expr_join_and find it; the second operand may only negate a symbol.     *)
Simple == {"E_EQUAL", "E_UNEQUAL", "E_SYMBOL"}
About(e) == IF e.type = "E_SYMBOL" THEN e.sym ELSE e.lsym
Joinable(e1, e2) ==
  /\ e1.type \in Simple \/ (e1.type = "E_NOT" /\ e1.expr.type \in Simple)
  /\ e2.type \in Simple \/ (e2.type = "E_NOT" /\ e2.expr.type = "E_SYMBOL")
  /\ LET s1 == About(IF e1.type = "E_NOT" THEN e1.expr ELSE e1)
         s2 == About(IF e2.type = "E_NOT" THEN e2.expr ELSE e2)
     IN  s1 = s2 /\ SymType[s1] \in Boolean
Subject(e1) == About(IF e1.type = "E_NOT" THEN e1.expr ELSE e1)

(* Both compare with constants among a and b, one with each.               *)
Both(type, e1, e2, a, b) ==
  e1.type = type /\ e2.type = type /\ <<e1.rsym, e2.rsym>> \in {<<a, b>>, <<b, a>>}
(* One is the symbol itself, the other compares it with v.                 *)
SymbolAnd(e1, e2, type, v) ==
  \/ e1.type = "E_SYMBOL" /\ e2.type = type /\ e2.rsym = v
  \/ e2.type = "E_SYMBOL" /\ e1.type = type /\ e1.rsym = v

(* The rest of expr_join_or and of expr_join_and, for joinable operands    *)
(* about the symbol s that are not equal.                                  *)
expr_join_or(e1, e2, s) ==
  LET tristate == SymType[s] = "S_TRISTATE"
  IN  IF tristate /\ Both("E_EQUAL", e1, e2, "y", "m") THEN expr_alloc_comp("E_UNEQUAL", s, "n")
      ELSE IF tristate /\ Both("E_EQUAL", e1, e2, "y", "n") THEN expr_alloc_comp("E_UNEQUAL", s, "m")
      ELSE IF tristate /\ Both("E_EQUAL", e1, e2, "m", "n") THEN expr_alloc_comp("E_UNEQUAL", s, "y")
      ELSE IF ~tristate /\ {e1, e2} = {expr_alloc_symbol(s), expr_alloc_one("E_NOT", expr_alloc_symbol(s))}
           THEN Yes
      ELSE NULL

(* (a='b') && (a!='c') for constants b and c.                              *)
Excluded(s, eq, ne) ==
  IF ~({eq.rsym, ne.rsym} \subseteq Const) THEN NULL
  ELSE IF eq.rsym = ne.rsym THEN No ELSE expr_alloc_comp("E_EQUAL", s, eq.rsym)

(* A mutant: the comment at expr.c:561 taken at its word.                  *)
NeitherModNorNo(s) == expr_alloc_comp("E_EQUAL", s, "m")
NotModNotNo(s) == expr_alloc_comp("E_EQUAL", s, "y")

expr_join_and(e1, e2, s) ==
  LET tristate == SymType[s] = "S_TRISTATE"
  IN  IF SymbolAnd(e1, e2, "E_EQUAL", "y") THEN expr_alloc_comp("E_EQUAL", s, "y")
      ELSE IF SymbolAnd(e1, e2, "E_UNEQUAL", "n") THEN expr_alloc_symbol(s)
      ELSE IF SymbolAnd(e1, e2, "E_UNEQUAL", "m") THEN expr_alloc_comp("E_EQUAL", s, "y")
      ELSE IF ~tristate THEN NULL
      ELSE IF e1.type = "E_EQUAL" /\ e2.type = "E_UNEQUAL" THEN Excluded(s, e1, e2)
      ELSE IF e1.type = "E_UNEQUAL" /\ e2.type = "E_EQUAL" THEN Excluded(s, e2, e1)
      ELSE IF Both("E_UNEQUAL", e1, e2, "y", "n") THEN expr_alloc_comp("E_EQUAL", s, "m")
      ELSE IF Both("E_UNEQUAL", e1, e2, "y", "m") THEN expr_alloc_comp("E_EQUAL", s, "n")
      ELSE IF Both("E_UNEQUAL", e1, e2, "m", "n") THEN NotModNotNo(s)
      ELSE NULL

(* The operands s with n transformations, after inner (an operand and its  *)
(* transformations) was joined at i with the one at j.                     *)
Replaced(type, s, n, i, j, inner, joined) ==
  IF joined = NULL THEN <<[s EXCEPT ![i] = inner[1]], n + inner[2]>>
  ELSE <<[s EXCEPT ![i] = IF type = "E_OR" THEN No ELSE Yes, ![j] = joined], n + inner[2] + 1>>

-----------------------------------------------------------------------------
(* What expr_transform does to the leaves of an expression.                *)

(* The relation that holds where another does not.                         *)
Negated == [t \in Comparisons |->
              CASE t = "E_EQUAL" -> "E_UNEQUAL" [] t = "E_UNEQUAL" -> "E_EQUAL"
                [] t = "E_LEQ" -> "E_GTH"       [] t = "E_GEQ" -> "E_LTH"
                [] t = "E_LTH" -> "E_GEQ"       [] t = "E_GTH" -> "E_LEQ"]

(* What becomes of e, the negation of x, if x is a comparison or a constant.*)
NegatedLeaf(e, x) ==
  IF x.type \in Comparisons THEN [x EXCEPT !.type = Negated[x.type]]
  ELSE IF x = Yes THEN No ELSE IF x = No THEN Yes ELSE IF x = Mod THEN Mod ELSE e

BoolComparison(e) ==
  LET equal == e.type = "E_EQUAL"
      s == expr_alloc_symbol(e.lsym)
  IN  CASE e.rsym = (IF equal THEN "y" ELSE "n") -> s
        [] e.rsym = (IF equal THEN "n" ELSE "y") -> expr_alloc_one("E_NOT", s)
        [] e.rsym = "m" -> IF equal THEN No ELSE Yes
        [] OTHER -> e

=============================================================================
