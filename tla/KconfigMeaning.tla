--------------------------- MODULE KconfigMeaning ---------------------------
(***************************************************************************)
(* What the text of a configuration promises about values, read from its   *)
(* statements alone: no menu tree, no rewriting, no order of calculation.  *)
(***************************************************************************)
EXTENDS KconfigSymbol

Headers == {"config", "choice", "menu", "comment"}
Positions(text, kinds) == {i \in DOMAIN text : text[i].kind \in kinds}

(* The entry a statement belongs to.                                       *)
Owner(text, i) == Max({h \in Positions(text, Headers) : h <= i})

(* The blocks a statement stands in: their openings.                       *)
Opened(text, a, b) == Cardinality({j \in Positions(text, {"if", "begin"}) : a <= j /\ j <= b})
Ended(text, a, b) == Cardinality({j \in Positions(text, {"end"}) : a <= j /\ j <= b})
Around_(text, i) ==
  {j \in Positions(text, {"if", "begin"}) : j < i /\ \A k \in j..(i - 1) : Ended(text, j, k) < Opened(text, j, k)}

(* All that an entry depends on: what it says, and what the blocks say.    *)
Own(text, h) == {text[i].expr : i \in {j \in Positions(text, {"depends"}) : Owner(text, j) = h}}
DependsOn(text, h) ==
  Own(text, h) \cup
    UNION {IF text[j].kind = "if" THEN {text[j].expr} ELSE Own(text, Owner(text, j)) : j \in Around_(text, h)}

(* Those of a statement of a kind: who says it, and on which conditions.   *)
Says(text, kind, s) ==
  {[sym |-> text[Owner(text, i)].sym, conds |-> DependsOn(text, Owner(text, i)) \cup {text[i].cond}] :
     i \in {j \in Positions(text, {kind}) : text[j].expr.sym = s}}

(* Every text taken apart.                                                 *)
Entries ==
  [k \in DOMAIN Files |-> LET text == Files[k] IN
     {[sym |-> text[h].sym, conds |-> DependsOn(text, h),
       select |-> Says(text, "P_SELECT", text[h].sym), imply |-> Says(text, "P_IMPLY", text[h].sym)] :
        h \in Positions(text, {"config"})}]

(* A value is n as far as what it depends on is n; m only for a tristate.  *)
Meaning(t, exprs) == Min({yes} \cup {Value(t, e) : e \in exprs})

(* How far statements raise a symbol.                                      *)
Raised(t, said) == Max({no} \cup {EXPR_AND(t.sym[x.sym].curr.tri, Meaning(t, x.conds)) : x \in said})

Upto(s, tri) == IF SymType[s] = "S_BOOLEAN" /\ tri = mod THEN yes ELSE tri

(* Of every symbol with one entry: a select raises it, and without one it  *)
(* has no value that what it depends on rules out.                         *)
LanguageHolds(t) ==
  \A entry \in Entries[kconf] :
    LET s == entry.sym
        value == t.sym[s].curr.tri
        allowed == Meaning(t, entry.conds)
        selected == Raised(t, entry.select)
    IN  SymType[s] \in Boolean =>
          /\ selected <= value
          /\ allowed = no /\ selected = no => value = no
          /\ ~sym_is_choice_value(s) => value <= Upto(s, Max({allowed, selected, Raised(t, entry.imply)}))

=============================================================================
