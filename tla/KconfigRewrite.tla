--------------------------- MODULE KconfigRewrite ---------------------------
(***************************************************************************)
(* What menu_finalize does to dependencies: expressions read by the parser *)
(* are joined with && and ||, transformed and simplified, in any order,    *)
(* and decisions are taken from the result instead of the original.        *)
(*                                                                         *)
(* e is the dependency of an entry, f the one of the menu it is in.  Their *)
(* value in every assignment, as they were written, is kept beside them.   *)
(***************************************************************************)
EXTENDS KconfigExpr, FiniteSets

CONSTANTS
  Vals,      \* the strings a symbol of a type can have as its value
  Scripts    \* pairs: the expressions read, and how many may be joined

VARIABLES
  script,    \* which leaves are written, and the bound on their number
  e, f,      \* the dependencies of an entry and of its menu
  size,      \* how many leaves were read
  me, mf     \* history: the value of e and of f as they were written

rvars == <<script, e, f, size, me, mf>>

Symbols == DOMAIN SymType \ Const
Assignments == {a \in [DOMAIN SymType -> UNION {Vals[t] : t \in DOMAIN Vals} \cup Const] :
                  /\ \A s \in Const : a[s] = s
                  /\ \A s \in Symbols : a[s] \in Vals[SymType[s]]}
Meaning(x) == [a \in Assignments |-> expr_calc_value(x, a)]

Init ==
  /\ script \in Scripts
  /\ e \in script.leaves /\ f = e /\ size = 1
  /\ me = Meaning(e) /\ mf = me

(* The entry becomes the menu of another one, whose dependency is x.       *)
Enter(x) ==
  /\ e' = x /\ f' = e
  /\ me' = Meaning(x) /\ mf' = me

(* The dependency is joined with another one, x of value mx: a second      *)
(* "depends on", a condition, or the menu's dependency.                    *)
And(x, mx) ==
  /\ e' = expr_alloc_and(e, x)
  /\ me' = [a \in Assignments |-> EXPR_AND(me[a], mx[a])]
  /\ UNCHANGED <<f, mf>>

Or(x, mx) ==
  /\ e' = expr_alloc_or(e, x)
  /\ me' = [a \in Assignments |-> EXPR_OR(me[a], mx[a])]
  /\ UNCHANGED <<f, mf>>

Not ==
  /\ e.type # "E_NOT"
  /\ e' = expr_alloc_one("E_NOT", e)
  /\ me' = [a \in Assignments |-> EXPR_NOT(me[a])]
  /\ UNCHANGED <<f, size, mf>>

(* menu_finalize: transform, eliminate duplicates.                         *)
Rewrite ==
  /\ e' \in {expr_transform(e), expr_eliminate_dups(e)}
  /\ UNCHANGED <<f, size, me, mf>>

Write ==
  /\ size < script.max /\ size' = size + 1
  /\ \/ \E x \in script.leaves : Enter(x) \/ And(x, Meaning(x)) \/ Or(x, Meaning(x))
     \/ And(f, mf) \/ Or(f, mf)

Next ==
  /\ Write \/ (size < script.max /\ Not) \/ Rewrite
  /\ UNCHANGED script

RewriteSpec == Init /\ [][Next]_rvars

-----------------------------------------------------------------------------
(* However expressions are transformed and simplified, in every assignment *)
(* they keep the value they were written with (expr_transform,             *)
(* expr_eliminate_dups, the join rules and expr_eliminate_yn).             *)
SameMeaning == Meaning(e) = me /\ Meaning(f) = mf

(* Taking the common operands out of two expressions does not change how   *)
(* they compare: where what is left of e is at most what is left of f, e   *)
(* is at most f.  menu_finalize makes an entry a submenu because nothing   *)
(* is left of the other dependency.  And expressions found equal are.      *)
EliminationKeepsOrder ==
  LET p == expr_eliminate_eq(e, f)
  IN  /\ \A a \in Assignments :
           expr_calc_value(p[1], a) <= expr_calc_value(p[2], a) => me[a] <= mf[a]
      /\ expr_eq(e, f) => expr_eq(f, e) /\ me = mf
      /\ expr_eq(e, e)

(* What menu_finalize concludes from an expression without evaluating it:  *)
(* it is n where a symbol it depends on is n, a symbol it does not contain *)
(* does not matter, and compared with y or n it is y or n accordingly,     *)
(* except for a negation that is m.                                        *)
DecidedBySymbols ==
  /\ \A s \in Symbols, a \in Assignments :
       /\ expr_depends_symbol(e, s) /\ SymType[s] \in Boolean /\ a[s] = "n" => me[a] = 0
       /\ ~expr_contains_symbol(e, s) =>
            \A v \in Vals[SymType[s]] : me[[a EXCEPT ![s] = v]] = me[a]
  /\ \A a \in Assignments : (\A s \in Symbols : a[s] # "m") =>
       /\ ~expr_contains_symbol(e, "m") =>
            \A v \in {"y", "n"} :
              /\ expr_calc_value(expr_trans_compare(e, "E_EQUAL", v), a) = IF me[a] = Tri[v] THEN 2 ELSE 0
              /\ expr_calc_value(expr_trans_compare(e, "E_UNEQUAL", v), a) = IF me[a] # Tri[v] THEN 2 ELSE 0
       /\ expr_calc_value(expr_trans_bool(e), a) = me[a]

(* The help text says what the expression says: read again by the grammar, *)
(* the printed tokens have the same value, and every reverse dependency is *)
(* listed under the value it has.                                          *)
PrintedMeansTheSame ==
  /\ ParseOr(expr_print(e, "E_NONE"))[2] = <<>>
  /\ Meaning(ParseOr(expr_print(e, "E_NONE"))[1]) = me
  /\ \A a \in Assignments :
       /\ \A v \in 0..2 : \A i \in DOMAIN expr_print_revdep(e, a, v) :
            expr_calc_value(ParseOr(expr_print_revdep(e, a, v)[i])[1], a) = v
       /\ me[a] > 0 => expr_print_revdep(e, a, me[a]) # <<>>

=============================================================================
