------------------------- MODULE KconfigRulesProofs -------------------------
(***************************************************************************)
(* The rewriting rules of expr.c keep the value of an expression, in every *)
(* assignment of values to symbols, for any symbols, constants and types.  *)
(***************************************************************************)
EXTENDS KconfigRules, Sequences, TLAPS

(* What values symbols can have: a bool is y or n, a tristate y, m or n,   *)
(* anything else any string that can be compared; a constant is itself.    *)
Valid(val) ==
  /\ \A s \in DOMAIN SymType :
       /\ val[s] \in DOMAIN StrRank
       /\ SymType[s] = "S_BOOLEAN" => val[s] \in {"n", "y"}
       /\ SymType[s] = "S_TRISTATE" => val[s] \in {"n", "m", "y"}
  /\ \A s \in Const : val[s] = s

Compares == {expr_alloc_comp(t, a, b) : t \in Comparisons, a \in DOMAIN SymType, b \in DOMAIN SymType}
Mentions == {expr_alloc_symbol(s) : s \in DOMAIN SymType}
Negations == {expr_alloc_one("E_NOT", x) : x \in Compares \cup Mentions}

(* The value of an operand of a level that is no expression of its own, as *)
(* expr_calc_value has it.                                                 *)
OperandValue(e, val) == IF e.type = "E_NOT" THEN EXPR_NOT(FlatValue(e.expr, val)) ELSE FlatValue(e, val)

(* A constant that no y, m or n equals unless it is that: not a number     *)
(* like "2", which strtoll reads as what y is.                             *)
Plain(c) == <<"S_UNKNOWN", c>> \in DOMAIN Number => Number[<<"S_UNKNOWN", c>>] \notin 0..2

-----------------------------------------------------------------------------
(* The three kinds of operands are told apart by their types.              *)
LEMMA MentionFacts ==
  ASSUME NEW e \in Mentions
  PROVE  e.type = "E_SYMBOL" /\ e.sym \in DOMAIN SymType /\ e = expr_alloc_symbol(e.sym)
BY DEF Mentions, expr_alloc_symbol

(* A comparison has one of six types.                                      *)
LEMMA CompareFacts ==
  ASSUME NEW e \in Compares
  PROVE  /\ e.type \in Comparisons /\ e.lsym \in DOMAIN SymType /\ e.rsym \in DOMAIN SymType
         /\ e = expr_alloc_comp(e.type, e.lsym, e.rsym)
BY DEF Compares, expr_alloc_comp

(* A negation is of a comparison or a symbol.                              *)
LEMMA NegationFacts ==
  ASSUME NEW e \in Negations
  PROVE  /\ e.type = "E_NOT" /\ e.expr \in Compares \cup Mentions
         /\ e = expr_alloc_one("E_NOT", e.expr)
BY DEF Negations, expr_alloc_one

(* The values of a tristate.                                               *)
LEMMA TriFacts ==
  /\ DOMAIN Tri = {"n", "m", "y"} /\ Tri["n"] = 0 /\ Tri["m"] = 1 /\ Tri["y"] = 2
  /\ \A s \in {"n", "m", "y"} : Tri[s] \in 0..2
BY DEF Tri

(* A bool or tristate compared with a constant: equal if it has its name.  *)
LEMMA ComparedWithConst ==
  ASSUME NEW val, Valid(val), NEW s \in DOMAIN SymType, SymType[s] \in Boolean,
         NEW c \in Const, Plain(c)
  PROVE  /\ FlatValue(expr_alloc_comp("E_EQUAL", s, c), val) = (IF val[s] = c THEN 2 ELSE 0)
         /\ FlatValue(expr_alloc_comp("E_UNEQUAL", s, c), val) = (IF val[s] = c THEN 0 ELSE 2)
<1> DEFINE a == <<SymType[s], val[s]>>
           b == <<"S_UNKNOWN", c>>
           p == Compared(a, b)
<1>1. /\ val[s] \in {"n", "m", "y"} /\ val[s] \in DOMAIN StrRank
      /\ c \in DOMAIN SymType /\ val[c] = c /\ c \in DOMAIN StrRank /\ SymType[c] = "S_UNKNOWN"
  BY RulesAssumption DEF Valid, Boolean
<1>2. a \notin DOMAIN Number /\ IsNumber(a) /\ NumberOf(a) \in 0..2
  <2>1. a \notin DOMAIN Number
    BY RulesAssumption DEF Boolean
  <2> QED
    BY <1>1, <2>1, TriFacts DEF IsNumber, NumberOf
<1>3. p[1] = p[2] <=> val[s] = c
  <2>1. CASE b \in DOMAIN Number
    <3>1. IsNumber(b) /\ NumberOf(b) = Number[b] /\ Number[b] \notin 0..2
      BY <2>1 DEF IsNumber, NumberOf, Plain
    <3>2. p = <<NumberOf(a), NumberOf(b)>>
      BY <1>2, <3>1 DEF Compared
    <3>3. val[s] # c
      BY <1>1, <2>1, RulesAssumption
    <3> QED
      BY <1>2, <3>1, <3>2, <3>3
  <2>2. CASE b \notin DOMAIN Number
    <3>1. ~IsNumber(b)
      BY <2>2 DEF IsNumber, Boolean
    <3>2. p = <<StrRank[val[s]], StrRank[c]>>
      BY <3>1 DEF Compared
    <3> QED
      BY <1>1, <3>2, RulesAssumption
  <2> QED
    BY <2>1, <2>2
<1>4. /\ Relates("E_EQUAL", p) <=> p[1] = p[2]
      /\ Relates("E_UNEQUAL", p) <=> p[1] # p[2]
  BY DEF Relates
<1> HIDE DEF p
<1> QED
  BY <1>1, <1>3, <1>4 DEF FlatValue, expr_alloc_comp, p

(* The constants y, m and n are plain.                                     *)
LEMMA PlainConstants == \A c \in {"y", "m", "n"} : c \in Const /\ Plain(c)
BY RulesAssumption DEF Plain

(* A bool or tristate by itself.                                           *)
LEMMA MentionValue ==
  ASSUME NEW val, Valid(val), NEW s \in DOMAIN SymType, SymType[s] \in Boolean
  PROVE  FlatValue(expr_alloc_symbol(s), val) = Tri[val[s]] /\ val[s] \in {"n", "m", "y"}
BY DEF FlatValue, expr_alloc_symbol, Valid, Boolean

(* The constants' own values.                                              *)
LEMMA ConstantValues ==
  ASSUME NEW val, Valid(val)
  PROVE  FlatValue(Yes, val) = 2 /\ FlatValue(No, val) = 0 /\ FlatValue(Mod, val) = 1
BY RulesAssumption, TriFacts DEF FlatValue, Yes, No, Mod, expr_alloc_symbol, Valid

-----------------------------------------------------------------------------
(* Joining two operands.                                                   *)

Operands == Compares \cup Mentions \cup Negations

(* Operands that can be joined are about the same bool or tristate.        *)
LEMMA JoinableFacts ==
  ASSUME NEW e1 \in Operands, NEW e2 \in Operands, Joinable(e1, e2), NEW s, s = Subject(e1)
  PROVE  /\ s \in DOMAIN SymType /\ SymType[s] \in Boolean
         /\ \A e \in {e1, e2} :
              /\ e.type = "E_SYMBOL" => e = expr_alloc_symbol(s)
              /\ e.type \in {"E_EQUAL", "E_UNEQUAL"} => e = expr_alloc_comp(e.type, s, e.rsym)
<1> DEFINE Inner(e) == IF e.type = "E_NOT" THEN e.expr ELSE e
<1>1. \A e \in Operands : \/ e \in Compares /\ e.type \in Comparisons
                          \/ e \in Mentions /\ e.type = "E_SYMBOL"
                          \/ e \in Negations /\ e.type = "E_NOT" /\ e.expr \in Compares \cup Mentions
  BY MentionFacts, CompareFacts, NegationFacts DEF Operands
<1>2. \A e \in Operands : Inner(e) \in Compares \cup Mentions /\ (e.type # "E_NOT" => Inner(e) = e)
  BY <1>1 DEF Comparisons
<1>3. \A x \in Compares \cup Mentions : About(x) \in DOMAIN SymType
  BY MentionFacts, CompareFacts DEF About, Comparisons
<1>4. About(Inner(e1)) = s /\ About(Inner(e2)) = s /\ SymType[s] \in Boolean
  BY DEF Joinable, Subject
<1> HIDE DEF Inner
<1>5. ASSUME NEW e \in {e1, e2}
      PROVE  /\ e.type = "E_SYMBOL" => e = expr_alloc_symbol(s)
             /\ e.type \in {"E_EQUAL", "E_UNEQUAL"} => e = expr_alloc_comp(e.type, s, e.rsym)
  <2>1. e \in Operands /\ About(Inner(e)) = s
    BY <1>4, <1>5
  <2>2. CASE e.type = "E_SYMBOL"
    BY <1>1, <1>2, <2>1, <2>2, MentionFacts DEF About, Comparisons
  <2>3. CASE e.type \in {"E_EQUAL", "E_UNEQUAL"}
    BY <1>1, <1>2, <2>1, <2>3, CompareFacts DEF About, Comparisons
  <2> QED
    BY <2>2, <2>3
<1> QED
  BY <1>2, <1>3, <1>4, <1>5

(* What || gives for values of a tristate.                                 *)
LEMMA TristateOr ==
  ASSUME NEW val, Valid(val), NEW s \in DOMAIN SymType, SymType[s] = "S_TRISTATE",
         NEW a \in {"y", "m", "n"}, NEW b \in {"y", "m", "n"}, NEW c \in {"y", "m", "n"},
         a # b, a # c, b # c
  PROVE  FlatValue(expr_alloc_comp("E_UNEQUAL", s, c), val)
         = EXPR_OR(FlatValue(expr_alloc_comp("E_EQUAL", s, a), val),
                   FlatValue(expr_alloc_comp("E_EQUAL", s, b), val))
<1>1. val[s] \in {"n", "m", "y"} /\ SymType[s] \in Boolean
  BY DEF Valid, Boolean
<1> QED
  BY <1>1, PlainConstants, ComparedWithConst DEF EXPR_OR

(* For the values of the two operands.                                     *)
LEMMA CompareOperand ==
  ASSUME NEW val, NEW t \in Comparisons, NEW a, NEW b
  PROVE  OperandValue(expr_alloc_comp(t, a, b), val) = FlatValue(expr_alloc_comp(t, a, b), val)
BY DEF OperandValue, expr_alloc_comp, Comparisons

(* The rules for || keep the value.                                        *)
LEMMA JoinOrKeeps ==
  ASSUME NEW val, Valid(val), NEW e1 \in Operands, NEW e2 \in Operands, Joinable(e1, e2),
         NEW r, r = expr_join_or(e1, e2, Subject(e1)), r # NULL
  PROVE  OperandValue(r, val) = EXPR_OR(OperandValue(e1, val), OperandValue(e2, val))
<1> DEFINE s == Subject(e1)
<1>1. /\ s \in DOMAIN SymType /\ SymType[s] \in Boolean
      /\ \A e \in {e1, e2} :
           /\ e.type = "E_SYMBOL" => e = expr_alloc_symbol(s)
           /\ e.type \in {"E_EQUAL", "E_UNEQUAL"} => e = expr_alloc_comp(e.type, s, e.rsym)
  BY JoinableFacts
<1> HIDE DEF s
<1>2. ASSUME NEW a \in {"y", "m", "n"}, NEW b \in {"y", "m", "n"}, NEW c \in {"y", "m", "n"},
             a # b, a # c, b # c, SymType[s] = "S_TRISTATE", Both("E_EQUAL", e1, e2, a, b),
             r = expr_alloc_comp("E_UNEQUAL", s, c)
      PROVE  OperandValue(r, val) = EXPR_OR(OperandValue(e1, val), OperandValue(e2, val))
  <2>1. \/ e1 = expr_alloc_comp("E_EQUAL", s, a) /\ e2 = expr_alloc_comp("E_EQUAL", s, b)
        \/ e1 = expr_alloc_comp("E_EQUAL", s, b) /\ e2 = expr_alloc_comp("E_EQUAL", s, a)
    BY <1>1, <1>2 DEF Both
  <2>2. "E_EQUAL" \in Comparisons /\ "E_UNEQUAL" \in Comparisons
    BY DEF Comparisons
  <2> QED
    BY <1>1, <1>2, <2>1, <2>2, TristateOr, CompareOperand
<1>3. CASE /\ SymType[s] # "S_TRISTATE" /\ r = Yes
           /\ {e1, e2} = {expr_alloc_symbol(s), expr_alloc_one("E_NOT", expr_alloc_symbol(s))}
  <2> DEFINE x == expr_alloc_symbol(s)
  <2>1. FlatValue(x, val) = Tri[val[s]] /\ val[s] \in {"n", "y"}
    BY <1>1, <1>3, MentionValue DEF Valid, Boolean
  <2>2. FlatValue(x, val) \in {0, 2}
    BY <2>1, TriFacts
  <2>3. OperandValue(x, val) = FlatValue(x, val)
    BY DEF OperandValue, expr_alloc_symbol
  <2>4. OperandValue(expr_alloc_one("E_NOT", x), val) = 2 - FlatValue(x, val)
    BY DEF OperandValue, expr_alloc_one, EXPR_NOT
  <2>5. OperandValue(Yes, val) = 2
    BY ConstantValues DEF OperandValue, Yes, expr_alloc_symbol
  <2> HIDE DEF x
  <2>6. \/ e1 = x /\ e2 = expr_alloc_one("E_NOT", x)
        \/ e2 = x /\ e1 = expr_alloc_one("E_NOT", x)
    <3>1. x # expr_alloc_one("E_NOT", x)
      BY DEF x, expr_alloc_symbol, expr_alloc_one
    <3> QED
      BY <1>3, <3>1 DEF x
  <2> QED
    BY <1>3, <2>2, <2>3, <2>4, <2>5, <2>6 DEF EXPR_OR
<1> QED
  BY <1>2, <1>3 DEF expr_join_or, s

(* Whatever a comparison on a joined level is with, if with a constant.    *)
PlainOperand(e) == e.type \in {"E_EQUAL", "E_UNEQUAL"} /\ e.rsym \in Const => Plain(e.rsym)

(* The value of a symbol, of one equal to c and of one other than c.       *)
LEMMA SubjectValues ==
  ASSUME NEW val, Valid(val), NEW s \in DOMAIN SymType, SymType[s] \in Boolean
  PROVE  /\ val[s] \in {"n", "m", "y"}
         /\ OperandValue(expr_alloc_symbol(s), val) = Tri[val[s]]
         /\ \A c \in Const : Plain(c) =>
              /\ OperandValue(expr_alloc_comp("E_EQUAL", s, c), val) = (IF val[s] = c THEN 2 ELSE 0)
              /\ OperandValue(expr_alloc_comp("E_UNEQUAL", s, c), val) = (IF val[s] = c THEN 0 ELSE 2)
<1>1. FlatValue(expr_alloc_symbol(s), val) = Tri[val[s]] /\ val[s] \in {"n", "m", "y"}
  BY MentionValue
<1>2. OperandValue(expr_alloc_symbol(s), val) = FlatValue(expr_alloc_symbol(s), val)
  BY DEF OperandValue, expr_alloc_symbol
<1>3. "E_EQUAL" \in Comparisons /\ "E_UNEQUAL" \in Comparisons
  BY DEF Comparisons
<1> QED
  BY <1>1, <1>2, <1>3, CompareOperand, ComparedWithConst

(* The rules for && keep the value.                                        *)
LEMMA JoinAndKeeps ==
  ASSUME NEW val, Valid(val), NEW e1 \in Operands, NEW e2 \in Operands, Joinable(e1, e2),
         PlainOperand(e1), PlainOperand(e2),
         NEW r, r = expr_join_and(e1, e2, Subject(e1)), r # NULL
  PROVE  OperandValue(r, val) = EXPR_AND(OperandValue(e1, val), OperandValue(e2, val))
<1> DEFINE s == Subject(e1)
           sym == expr_alloc_symbol(s)
           Eq(c) == expr_alloc_comp("E_EQUAL", s, c)
           Ne(c) == expr_alloc_comp("E_UNEQUAL", s, c)
           V(e) == OperandValue(e, val)
           Goal == V(r) = EXPR_AND(V(e1), V(e2))
<1> SUFFICES Goal
  OBVIOUS
<1>1. /\ s \in DOMAIN SymType /\ SymType[s] \in Boolean
      /\ \A e \in {e1, e2} :
           /\ e.type = "E_SYMBOL" => e = sym
           /\ e.type = "E_EQUAL" => e = Eq(e.rsym)
           /\ e.type = "E_UNEQUAL" => e = Ne(e.rsym)
  <2> HIDE DEF s
  <2>1. /\ s \in DOMAIN SymType /\ SymType[s] \in Boolean
        /\ \A e \in {e1, e2} :
             /\ e.type = "E_SYMBOL" => e = expr_alloc_symbol(s)
             /\ e.type \in {"E_EQUAL", "E_UNEQUAL"} => e = expr_alloc_comp(e.type, s, e.rsym)
    BY JoinableFacts DEF s
  <2> QED
    BY <2>1
<1>2. SymType[s] = "S_TRISTATE" \/ (SymType[s] = "S_BOOLEAN" /\ val[s] # "m")
  BY <1>1 DEF Boolean, Valid
<1> HIDE DEF s, sym, Eq, Ne, V
<1>3. /\ val[s] \in {"n", "m", "y"} /\ V(sym) = Tri[val[s]]
      /\ \A c \in Const : Plain(c) => /\ V(Eq(c)) = (IF val[s] = c THEN 2 ELSE 0)
                                      /\ V(Ne(c)) = (IF val[s] = c THEN 0 ELSE 2)
  BY <1>1, SubjectValues DEF sym, Eq, Ne, V
<1>4. \A c \in {"y", "m", "n"} : /\ V(Eq(c)) = (IF val[s] = c THEN 2 ELSE 0)
                                 /\ V(Ne(c)) = (IF val[s] = c THEN 0 ELSE 2)
  BY <1>3, PlainConstants
<1>5. V(No) = 0
  BY ConstantValues DEF V, OperandValue, No, expr_alloc_symbol
<1>6. ASSUME NEW t \in {"E_EQUAL", "E_UNEQUAL"}, NEW v, SymbolAnd(e1, e2, t, v)
      PROVE  LET x == IF t = "E_EQUAL" THEN Eq(v) ELSE Ne(v)
             IN  (e1 = sym /\ e2 = x) \/ (e2 = sym /\ e1 = x)
  BY <1>1, <1>6 DEF SymbolAnd
<1>7. CASE SymbolAnd(e1, e2, "E_EQUAL", "y") /\ r = Eq("y")
  BY <1>3, <1>4, <1>6, <1>7, TriFacts DEF EXPR_AND
<1>8. CASE SymbolAnd(e1, e2, "E_UNEQUAL", "n") /\ r = sym
  BY <1>3, <1>4, <1>6, <1>8, TriFacts DEF EXPR_AND
<1>9. CASE SymbolAnd(e1, e2, "E_UNEQUAL", "m") /\ r = Eq("y")
  BY <1>3, <1>4, <1>6, <1>9, TriFacts DEF EXPR_AND
<1>10. ASSUME NEW eq \in {e1, e2}, NEW ne \in {e1, e2}, eq.type = "E_EQUAL", ne.type = "E_UNEQUAL",
              r = Excluded(s, eq, ne)
       PROVE  V(r) = EXPR_AND(V(eq), V(ne)) /\ V(r) = EXPR_AND(V(ne), V(eq))
  <2>1. eq.rsym \in Const /\ ne.rsym \in Const /\ Plain(eq.rsym) /\ Plain(ne.rsym)
    BY <1>10 DEF Excluded, PlainOperand
  <2>2. r = IF eq.rsym = ne.rsym THEN No ELSE Eq(eq.rsym)
    BY <1>10, <2>1 DEF Excluded, Eq
  <2>3. eq = Eq(eq.rsym) /\ ne = Ne(ne.rsym)
    BY <1>1, <1>10
  <2>4. V(eq) = (IF val[s] = eq.rsym THEN 2 ELSE 0) /\ V(ne) = (IF val[s] = ne.rsym THEN 0 ELSE 2)
    BY <1>3, <2>1, <2>3
  <2>5. CASE eq.rsym = ne.rsym
    BY <1>5, <2>2, <2>4, <2>5 DEF EXPR_AND
  <2>6. CASE eq.rsym # ne.rsym
    <3>1. V(r) = V(eq)
      BY <2>2, <2>3, <2>6
    <3> QED
      BY <2>4, <2>6, <3>1 DEF EXPR_AND
  <2> QED
    BY <2>5, <2>6
<1>11. ASSUME NEW a \in {"y", "m", "n"}, NEW b \in {"y", "m", "n"}, NEW c \in {"y", "m", "n"},
              a # b, a # c, b # c, Both("E_UNEQUAL", e1, e2, a, b), r = Eq(c)
       PROVE  Goal
  <2>1. (e1 = Ne(a) /\ e2 = Ne(b)) \/ (e1 = Ne(b) /\ e2 = Ne(a))
    BY <1>1, <1>11 DEF Both
  <2> QED
    BY <1>3, <1>4, <1>11, <2>1 DEF EXPR_AND
<1>12. r = IF SymbolAnd(e1, e2, "E_EQUAL", "y") THEN Eq("y")
           ELSE IF SymbolAnd(e1, e2, "E_UNEQUAL", "n") THEN sym
           ELSE IF SymbolAnd(e1, e2, "E_UNEQUAL", "m") THEN Eq("y")
           ELSE IF SymType[s] # "S_TRISTATE" THEN NULL
           ELSE IF e1.type = "E_EQUAL" /\ e2.type = "E_UNEQUAL" THEN Excluded(s, e1, e2)
           ELSE IF e1.type = "E_UNEQUAL" /\ e2.type = "E_EQUAL" THEN Excluded(s, e2, e1)
           ELSE IF Both("E_UNEQUAL", e1, e2, "y", "n") THEN Eq("m")
           ELSE IF Both("E_UNEQUAL", e1, e2, "y", "m") THEN Eq("n")
           ELSE IF Both("E_UNEQUAL", e1, e2, "m", "n") THEN Eq("y")
           ELSE NULL
  BY DEF expr_join_and, NotModNotNo, Eq, sym, s
<1>13. CASE e1.type = "E_EQUAL" /\ e2.type = "E_UNEQUAL" /\ r = Excluded(s, e1, e2)
  BY <1>10, <1>13
<1>14. CASE e1.type = "E_UNEQUAL" /\ e2.type = "E_EQUAL" /\ r = Excluded(s, e2, e1)
  BY <1>10, <1>14
<1>15. \/ Both("E_UNEQUAL", e1, e2, "y", "n") /\ r = Eq("m")
       \/ Both("E_UNEQUAL", e1, e2, "y", "m") /\ r = Eq("n")
       \/ Both("E_UNEQUAL", e1, e2, "m", "n") /\ r = Eq("y")
       => Goal
  BY <1>11
<1> HIDE DEF Goal
<1> QED
  BY <1>7, <1>8, <1>9, <1>12, <1>13, <1>14, <1>15

(* However two operands of a level about the same bool or tristate are     *)
(* joined (expr_join_or, expr_join_and), the result has the value of the   *)
(* two, in every assignment: for any symbols and constants, except that a  *)
(* tristate is not compared with a number that y, m or n is read as.       *)
THEOREM JoiningKeepsMeaning ==
  ASSUME NEW val, Valid(val), NEW e1 \in Operands, NEW e2 \in Operands, Joinable(e1, e2),
         PlainOperand(e1), PlainOperand(e2)
  PROVE  LET or == expr_join_or(e1, e2, Subject(e1))
             and == expr_join_and(e1, e2, Subject(e1))
         IN  /\ or # NULL => OperandValue(or, val) = EXPR_OR(OperandValue(e1, val), OperandValue(e2, val))
             /\ and # NULL => OperandValue(and, val) = EXPR_AND(OperandValue(e1, val), OperandValue(e2, val))
BY JoinOrKeeps, JoinAndKeeps

-----------------------------------------------------------------------------
(* A whole level of operands.                                              *)

(* The value of a level, its operands having the values v, is at least t.  *)
AtLeast(type, v, t) ==
  IF type = "E_AND" THEN \A k \in DOMAIN v : v[k] >= t ELSE \E k \in DOMAIN v : v[k] >= t

(* A value that two operands have together: of && at least t if both are,  *)
(* of || if one is.                                                        *)
LEMMA Thresholds ==
  ASSUME NEW a \in Int, NEW b \in Int, NEW t \in Int
  PROVE  /\ EXPR_AND(a, b) >= t <=> a >= t /\ b >= t
         /\ EXPR_OR(a, b) >= t <=> a >= t \/ b >= t
BY DEF EXPR_AND, EXPR_OR

(* The values of operands.                                                 *)
LEMMA OperandRange ==
  ASSUME NEW val, Valid(val), NEW e \in Operands
  PROVE  OperandValue(e, val) \in 0..2
<1>1. ASSUME NEW x \in Compares \cup Mentions PROVE FlatValue(x, val) \in 0..2
  <2>1. CASE x \in Compares
    BY <2>1, CompareFacts DEF FlatValue, Comparisons
  <2>2. CASE x \in Mentions
    <3>1. x.type = "E_SYMBOL" /\ x.sym \in DOMAIN SymType
      BY <2>2, MentionFacts
    <3>2. SymType[x.sym] \in Boolean \/ x.sym \in DOMAIN Tri => val[x.sym] \in {"n", "m", "y"}
      BY <3>1, TriFacts, RulesAssumption DEF Valid, Boolean
    <3> QED
      BY <3>1, <3>2, TriFacts DEF FlatValue
  <2> QED
    BY <1>1, <2>1, <2>2
<1>2. CASE e \in Negations
  <2>1. e.type = "E_NOT" /\ FlatValue(e.expr, val) \in 0..2
    BY <1>1, <1>2, NegationFacts
  <2> QED
    BY <2>1 DEF OperandValue, EXPR_NOT
<1>3. CASE e \in Compares \cup Mentions
  <2>1. e.type # "E_NOT"
    BY <1>3, CompareFacts, MentionFacts DEF Comparisons
  <2> QED
    BY <1>1, <1>3, <2>1 DEF OperandValue
<1> QED
  BY <1>2, <1>3 DEF Operands

(* Replacing two operands of a level by what they were joined to, in       *)
(* expr_eliminate_dups1, keeps the value of the level: v are the values    *)
(* before and w those after, whatever the others are.                      *)
THEOREM JoiningKeepsLevel ==
  ASSUME NEW val, Valid(val), NEW S, NEW s \in Seq(S), NEW i \in 1..Len(s), NEW j \in 1..Len(s), i # j,
         NEW e, e \in Operands, s[j] \in Operands, Joinable(e, s[j]), PlainOperand(e), PlainOperand(s[j]),
         NEW type \in {"E_AND", "E_OR"}, NEW joined, joined # NULL,
         joined = IF type = "E_OR" THEN expr_join_or(e, s[j], Subject(e)) ELSE expr_join_and(e, s[j], Subject(e)),
         NEW n \in Nat, NEW m \in Nat, NEW r, r = Replaced(type, s, n, i, j, <<e, m>>, joined)[1],
         NEW v \in [1..Len(s) -> 0..2], v[i] = OperandValue(e, val), v[j] = OperandValue(s[j], val),
         NEW w, w = [k \in 1..Len(s) |-> IF k \in {i, j} THEN OperandValue(r[k], val) ELSE v[k]],
         NEW t \in 0..2
  PROVE  AtLeast(type, w, t) <=> AtLeast(type, v, t)
<1> DEFINE gone == IF type = "E_OR" THEN No ELSE Yes
<1>1. r = [s EXCEPT ![i] = gone, ![j] = joined] /\ DOMAIN s = 1..Len(s)
  BY DEF Replaced
<1>2. r[i] = gone /\ r[j] = joined
  BY <1>1
<1>3. OperandValue(gone, val) = IF type = "E_OR" THEN 0 ELSE 2
  BY ConstantValues DEF OperandValue, Yes, No, expr_alloc_symbol
<1> HIDE DEF gone
<1>4. /\ DOMAIN w = 1..Len(s) /\ w[i] = (IF type = "E_OR" THEN 0 ELSE 2)
      /\ w[j] = OperandValue(joined, val) /\ \A k \in 1..Len(s) : k \notin {i, j} => w[k] = v[k]
  BY <1>2, <1>3
<1>5. w[j] = IF type = "E_OR" THEN EXPR_OR(v[i], v[j]) ELSE EXPR_AND(v[i], v[j])
  <2>1. CASE type = "E_OR"
    BY <1>4, <2>1, JoinOrKeeps
  <2>2. CASE type = "E_AND"
    BY <1>4, <2>2, JoinAndKeeps
  <2> QED
    BY <2>1, <2>2
<1>6. v[i] \in Int /\ v[j] \in Int /\ t \in Int /\ t >= 0 /\ t <= 2
  OBVIOUS
<1>7. CASE type = "E_AND"
  <2>1. w[i] >= t /\ (w[j] >= t <=> v[i] >= t /\ v[j] >= t)
    BY <1>4, <1>5, <1>6, <1>7, Thresholds
  <2>2. (\A k \in 1..Len(s) : w[k] >= t) <=> (\A k \in 1..Len(s) : v[k] >= t)
    BY <1>4, <2>1
  <2> QED
    BY <1>4, <1>7, <2>2 DEF AtLeast
<1>8. CASE type = "E_OR"
  <2>1. (w[i] >= t => t = 0) /\ (w[j] >= t <=> v[i] >= t \/ v[j] >= t)
    BY <1>4, <1>5, <1>6, <1>8, Thresholds
  <2>2. t = 0 => v[i] >= t
    OBVIOUS
  <2>3. (\E k \in 1..Len(s) : w[k] >= t) <=> (\E k \in 1..Len(s) : v[k] >= t)
    BY <1>4, <2>1, <2>2
  <2> QED
    BY <1>4, <1>8, <2>3 DEF AtLeast
<1> QED
  BY <1>7, <1>8

(* A level that loses y and n (expr_eliminate_yn) is one of its operands   *)
(* with the value of both, or stays; vl and vr are the operands' values.   *)
THEOREM DroppingKeepsLevel ==
  ASSUME NEW type \in {"E_AND", "E_OR"}, NEW l, NEW r, NEW vl \in 0..2, NEW vr \in 0..2,
         l = Yes => vl = 2, l = No => vl = 0, r = Yes => vr = 2, r = No => vr = 0
  PROVE  LET x == YnLevel(type, l, r)
             v == IF type = "E_AND" THEN EXPR_AND(vl, vr) ELSE EXPR_OR(vl, vr)
         IN  x = expr_alloc_two(type, l, r) \/ (x = l /\ v = vl) \/ (x = r /\ v = vr)
<1>1. Yes # No
  BY DEF Yes, No, expr_alloc_symbol
<1>2. CASE type = "E_AND"
  BY <1>1, <1>2 DEF YnLevel, EXPR_AND
<1>3. CASE type = "E_OR"
  BY <1>1, <1>3 DEF YnLevel, EXPR_OR
<1> QED
  BY <1>2, <1>3

-----------------------------------------------------------------------------
(* The leaves of expr_transform.                                           *)

(* What a comparison compares is numbers, or ranks.                        *)
LEMMA ComparedTyped ==
  ASSUME NEW val, Valid(val), NEW a \in DOMAIN SymType, NEW b \in DOMAIN SymType,
         NEW p, p = Compared(<<SymType[a], val[a]>>, <<SymType[b], val[b]>>)
  PROVE  p[1] \in Int /\ p[2] \in Int
<1>1. \A q : IsNumber(q) => NumberOf(q) \in Int
  BY RulesAssumption, TriFacts DEF NumberOf, IsNumber
<1>2. StrRank[val[a]] \in Int /\ StrRank[val[b]] \in Int
  BY RulesAssumption DEF Valid
<1> QED
  BY <1>1, <1>2 DEF Compared

(* The other relation of each of the six.                                  *)
LEMMA NegatedFacts ==
  ASSUME NEW t \in Comparisons, NEW p, p[1] \in Int, p[2] \in Int
  PROVE  Negated[t] \in Comparisons /\ (Relates(Negated[t], p) <=> ~Relates(t, p))
<1>1. CASE t = "E_EQUAL"
  BY <1>1 DEF Comparisons, Negated, Relates
<1>2. CASE t = "E_UNEQUAL"
  BY <1>2 DEF Comparisons, Negated, Relates
<1>3. CASE t = "E_LTH"
  BY <1>3 DEF Comparisons, Negated, Relates
<1>4. CASE t = "E_LEQ"
  BY <1>4 DEF Comparisons, Negated, Relates
<1>5. CASE t = "E_GTH"
  BY <1>5 DEF Comparisons, Negated, Relates
<1>6. CASE t = "E_GEQ"
  BY <1>6 DEF Comparisons, Negated, Relates
<1> QED
  BY <1>1, <1>2, <1>3, <1>4, <1>5, <1>6 DEF Comparisons

(* A negation taken into a leaf has the value of the negation.             *)
LEMMA NegatedLeafKeeps ==
  ASSUME NEW val, Valid(val), NEW x \in Compares \cup Mentions
  PROVE  OperandValue(NegatedLeaf(expr_alloc_one("E_NOT", x), x), val) = EXPR_NOT(FlatValue(x, val))
<1> DEFINE e == expr_alloc_one("E_NOT", x)
<1>1. OperandValue(e, val) = EXPR_NOT(FlatValue(x, val))
  BY DEF OperandValue, expr_alloc_one
<1>2. CASE x \in Compares
  <2> DEFINE p == Compared(<<SymType[x.lsym], val[x.lsym]>>, <<SymType[x.rsym], val[x.rsym]>>)
             y == expr_alloc_comp(Negated[x.type], x.lsym, x.rsym)
  <2>1. /\ x.type \in Comparisons /\ x.lsym \in DOMAIN SymType /\ x.rsym \in DOMAIN SymType
        /\ x = expr_alloc_comp(x.type, x.lsym, x.rsym)
    BY <1>2, CompareFacts
  <2>2. p[1] \in Int /\ p[2] \in Int
    BY <2>1, ComparedTyped
  <2>3. NegatedLeaf(e, x) = y
    BY <2>1 DEF NegatedLeaf, expr_alloc_comp
  <2>4. Negated[x.type] \in Comparisons /\ (Relates(Negated[x.type], p) <=> ~Relates(x.type, p))
    BY <2>1, <2>2, NegatedFacts
  <2>5. y.type = Negated[x.type] /\ y.lsym = x.lsym /\ y.rsym = x.rsym
    BY DEF expr_alloc_comp
  <2>6. FlatValue(x, val) = IF Relates(x.type, p) THEN 2 ELSE 0
    BY <2>1 DEF FlatValue, Comparisons
  <2>7. FlatValue(y, val) = IF Relates(y.type, p) THEN 2 ELSE 0
    BY <2>4, <2>5 DEF FlatValue, Comparisons
  <2>8. OperandValue(y, val) = FlatValue(y, val)
    BY <2>4, CompareOperand
  <2> HIDE DEF p, y, e
  <2> QED
    BY <2>3, <2>4, <2>5, <2>6, <2>7, <2>8 DEF EXPR_NOT, e
<1>3. CASE x \in Mentions
  <2>1. x.type = "E_SYMBOL" /\ x.type \notin Comparisons
    BY <1>3, MentionFacts DEF Comparisons
  <2>2. \A c \in {Yes, No, Mod} : OperandValue(c, val) = FlatValue(c, val)
    BY DEF OperandValue, Yes, No, Mod, expr_alloc_symbol
  <2> HIDE DEF e
  <2>3. NegatedLeaf(e, x) = IF x = Yes THEN No ELSE IF x = No THEN Yes ELSE IF x = Mod THEN Mod ELSE e
    BY <2>1 DEF NegatedLeaf
  <2>4. /\ x = Yes => OperandValue(No, val) = EXPR_NOT(FlatValue(x, val))
        /\ x = No => OperandValue(Yes, val) = EXPR_NOT(FlatValue(x, val))
        /\ x = Mod => OperandValue(Mod, val) = EXPR_NOT(FlatValue(x, val))
    BY <2>2, ConstantValues DEF EXPR_NOT
  <2>5. OperandValue(NegatedLeaf(e, x), val) = EXPR_NOT(FlatValue(x, val))
    BY <1>1, <2>3, <2>4
  <2> QED
    BY <2>5 DEF e
<1> QED
  BY <1>2, <1>3

(* A comparison of a bool with a constant has the value it is replaced by. *)
LEMMA BoolComparisonKeeps ==
  ASSUME NEW val, Valid(val), NEW e \in Compares, e.type \in {"E_EQUAL", "E_UNEQUAL"},
         SymType[e.lsym] = "S_BOOLEAN"
  PROVE  OperandValue(BoolComparison(e), val) = FlatValue(e, val)
<1> DEFINE s == e.lsym
           c == e.rsym
           sym == expr_alloc_symbol(s)
           not == expr_alloc_one("E_NOT", sym)
<1>1. s \in DOMAIN SymType /\ e = expr_alloc_comp(e.type, s, c) /\ SymType[s] \in Boolean /\ e.type \in Comparisons
  BY CompareFacts DEF Boolean
<1>2. val[s] \in {"n", "y"} /\ FlatValue(sym, val) = Tri[val[s]]
  BY <1>1, MentionValue DEF Valid
<1>3. OperandValue(sym, val) = Tri[val[s]] /\ OperandValue(not, val) = 2 - Tri[val[s]]
  BY <1>2 DEF OperandValue, expr_alloc_symbol, expr_alloc_one, EXPR_NOT
<1>4. OperandValue(Yes, val) = 2 /\ OperandValue(No, val) = 0
  BY ConstantValues DEF OperandValue, Yes, No, expr_alloc_symbol
<1>5. OperandValue(e, val) = FlatValue(e, val)
  BY <1>1, CompareOperand
<1>6. c \in {"y", "m", "n"} => FlatValue(e, val) = IF (e.type = "E_EQUAL") = (val[s] = c) THEN 2 ELSE 0
  <2>1. CASE e.type = "E_EQUAL"
    BY <1>1, <2>1, PlainConstants, ComparedWithConst
  <2>2. CASE e.type = "E_UNEQUAL"
    BY <1>1, <2>2, PlainConstants, ComparedWithConst
  <2> QED
    BY <2>1, <2>2
<1>7. /\ c = "y" => BoolComparison(e) = IF e.type = "E_EQUAL" THEN sym ELSE not
      /\ c = "n" => BoolComparison(e) = IF e.type = "E_EQUAL" THEN not ELSE sym
      /\ c = "m" => BoolComparison(e) = IF e.type = "E_EQUAL" THEN No ELSE Yes
      /\ c \notin {"y", "m", "n"} => BoolComparison(e) = e
  BY DEF BoolComparison
<1> HIDE DEF s, c, sym, not
<1> QED
  BY <1>2, <1>3, <1>4, <1>5, <1>6, <1>7, TriFacts

(* The leaves of expr_transform and of expr_trans_bool: a comparison of a  *)
(* bool becomes the symbol or its negation, a negation is taken into a     *)
(* comparison or a constant and through && and ||, all with the same       *)
(* value; and FOO!=n becomes FOO, which is true when it is.                *)
THEOREM TransformKeepsMeaning ==
  ASSUME NEW val, Valid(val)
  PROVE  /\ \A e \in Compares : e.type \in {"E_EQUAL", "E_UNEQUAL"} /\ SymType[e.lsym] = "S_BOOLEAN" =>
              OperandValue(BoolComparison(e), val) = FlatValue(e, val)
         /\ \A x \in Compares \cup Mentions :
              OperandValue(NegatedLeaf(expr_alloc_one("E_NOT", x), x), val) = EXPR_NOT(FlatValue(x, val))
         /\ \A a, b \in 0..2 : /\ EXPR_NOT(EXPR_AND(a, b)) = EXPR_OR(EXPR_NOT(a), EXPR_NOT(b))
                               /\ EXPR_NOT(EXPR_OR(a, b)) = EXPR_AND(EXPR_NOT(a), EXPR_NOT(b))
         /\ \A s \in DOMAIN SymType : SymType[s] = "S_TRISTATE" =>
              (FlatValue(expr_alloc_comp("E_UNEQUAL", s, "n"), val) = 0
                 <=> FlatValue(expr_alloc_symbol(s), val) = 0)
<1>1. \A a, b \in 0..2 : /\ EXPR_NOT(EXPR_AND(a, b)) = EXPR_OR(EXPR_NOT(a), EXPR_NOT(b))
                         /\ EXPR_NOT(EXPR_OR(a, b)) = EXPR_AND(EXPR_NOT(a), EXPR_NOT(b))
  BY DEF EXPR_NOT, EXPR_AND, EXPR_OR
<1>2. ASSUME NEW s \in DOMAIN SymType, SymType[s] = "S_TRISTATE"
      PROVE  FlatValue(expr_alloc_comp("E_UNEQUAL", s, "n"), val) = 0 <=> FlatValue(expr_alloc_symbol(s), val) = 0
  <2>1. SymType[s] \in Boolean
    BY <1>2 DEF Boolean
  <2> QED
    BY <2>1, PlainConstants, ComparedWithConst, MentionValue, TriFacts
<1> QED
  BY <1>1, <1>2, NegatedLeafKeeps, BoolComparisonKeeps
=============================================================================
