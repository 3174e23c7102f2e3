---------------------------- MODULE KconfigSymbol ----------------------------
(***************************************************************************)
(* The values of symbols (support/kconfig/symbol.c).  They are calculated  *)
(* on demand and kept until sym_clear_all_valid: the order of calculation  *)
(* and what a nested one still finds are part of the model, so that every  *)
(* function here takes the table of symbols and returns the new one.       *)
(*                                                                         *)
(* A value is a record of a tristate 0, 1, 2 and a string (for a choice    *)
(* the value chosen).  SYMBOL_CHANGED, which only says what a window is to *)
(* draw again, is left out.                                                *)
(***************************************************************************)
EXTENDS KconfigMenu

CONSTANTS
  Files,       \* the configurations to choose from: statements by name
  Parsed,      \* the same, as the parser leaves them
  NumberName,  \* what sprintf makes of a <<type, number>>
  WithPrefix   \* a hexadecimal string with 0x in front

VARIABLES
  kconf,       \* the name of the configuration being worked on
  K,           \* what the parser made of it, which no action changes
  T            \* the table: symbols, modules_val, visible.tri of prompts,
               \* whether there is something to save

(* FoldLeft, with every step evaluated before the next one is begun.       *)
RECURSIVE StepBy(_, _, _)
StepBy(op(_, _), t, list) ==
  IF list = <<>> THEN t
  ELSE CHOOSE u \in {StepBy(op, v, Tail(list)) : v \in {op(t, Head(list))}} : TRUE

(* The menus, the symbols in some order, and the properties of each.       *)
KconfigOf(M) ==
  [M |-> M, syms |-> Symbols(M), order |-> SetToSeq(Symbols(M)),
   prompts  |-> [s \in Symbols(M) |-> SelectSeq(EntriesOf(M, s), LAMBDA n : HasPrompt(M, n))],
   defaults |-> [s \in Symbols(M) |-> PropsOf(M, s, "P_DEFAULT")],
   ranges   |-> [s \in Symbols(M) |-> PropsOf(M, s, "P_RANGE")]]

ASSUME ParsedAssumption == Parsed = [k \in DOMAIN Files |-> KconfigOf(conf_parse(Files[k]))]

no == 0
mod == 1
yes == 2
TriName == <<"n", "m", "y">>
EmptyValue == [tri |-> no, val |-> ""]
Undefined == [tri |-> no, val |-> None]

sym_is_choice(s) == s \in K.M.choices
sym_is_choice_value(s) == K.M.choice[s] # None
ChoiceOf(s) == K.M.choice[s]
ValuesOf(c) == ToSet(K.M.values[c])
sym_is_optional(s) == s \in K.M.optional
SYMBOL_AUTO(s) == sym_is_choice(s)

Flag(t, s, f) == f \in t.sym[s].flags
sym_has_value(t, s) == Flag(t, s, "DEF_USER")
SetFlag(t, s, f) == [t EXCEPT !.sym[s].flags = @ \cup {f}]
ClearFlag(t, s, f) == [t EXCEPT !.sym[s].flags = @ \ {f}]

(* modules_val says whether m is possible at all.                          *)
sym_get_type(t, s) ==
  IF SymType[s] = "S_TRISTATE" /\ ((sym_is_choice_value(s) /\ t.sym[s].visible = yes) \/ t.mod = no)
  THEN "S_BOOLEAN" ELSE SymType[s]

sym_get_tristate_value(t, s) == t.sym[s].curr.tri
sym_get_string_value(t, s) ==
  IF s \notin K.syms THEN s
  ELSE IF SymType[s] \in Boolean THEN TriName[t.sym[s].curr.tri + 1]
  ELSE t.sym[s].curr.val
Value(t, e) == expr_calc_value(e, [s \in DOMAIN SymType |-> sym_get_string_value(t, s)])

strtoll(type, str) == IF <<type, str>> \in DOMAIN Number THEN Number[<<type, str>>] ELSE 0

RECURSIVE SymbolsIn(_)
SymbolsIn(e) ==
  CASE e.type = "E_SYMBOL" -> <<e.sym>>
    [] e.type \in Comparisons -> <<e.lsym, e.rsym>>
    [] e.type = "E_NOT" -> SymbolsIn(e.expr)
    [] e.type \in {"E_AND", "E_OR"} -> SymbolsIn(e.left) \o SymbolsIn(e.right)
    [] OTHER -> <<>>

-----------------------------------------------------------------------------
(* The table in which the value of an expression has been calculated, with *)
(* that value; and what Then makes of the two.                             *)
RECURSIVE Evaluated(_, _)
sym_calc_value(t, s) ==
  IF s \notin K.syms \/ Flag(t, s, "VALID") THEN t ELSE Evaluated(t, expr_alloc_symbol(s))[1]
CalcAll(t, list) == StepBy(sym_calc_value, t, list)
After(t, e, Then(_, _)) == LET With(r) == Then(r[1], r[2]) IN With(Evaluated(t, e))

(* The table, and the first property whose condition is not n.             *)
RECURSIVE FirstVisible(_, _)
FirstVisible(t, props) ==
  IF props = <<>> THEN <<t, NULL, no>>
  ELSE After(t, Head(props).vis,
             LAMBDA u, v : IF v # no THEN <<u, Head(props), v>> ELSE FirstVisible(u, Tail(props)))

sym_get_default_prop(t, s) == FirstVisible(t, K.defaults[s])
sym_get_range_prop(t, s) == FirstVisible(t, K.ranges[s])

(* The bound x of a range of s.                                            *)
sym_get_range_val(t, s, x) ==
  strtoll(IF SymType[x] \in {"S_INT", "S_HEX"} THEN SymType[x] ELSE SymType[s], sym_get_string_value(t, x))

(* A mutant: only the upper bound is looked at.                            *)
BoundedAbove(t, s, range, val) ==
  LET u == sym_calc_value(t, range.rsym)
  IN  IF val <= sym_get_range_val(u, s, range.rsym) THEN u
      ELSE [u EXCEPT !.sym[s].curr.val = NumberName[<<SymType[s], sym_get_range_val(u, s, range.rsym)>>]]

(* A value outside the range becomes the bound it misses.                  *)
Bounded(t, s, range, val) ==
  LET Set(u, bound) == [u EXCEPT !.sym[s].curr.val = NumberName[<<SymType[s], sym_get_range_val(u, s, bound)>>]]
      High(u) == IF val <= sym_get_range_val(u, s, range.rsym) THEN u ELSE Set(u, range.rsym)
      Low(u) == IF val < sym_get_range_val(u, s, range.lsym) THEN Set(u, range.lsym)
                ELSE High(sym_calc_value(u, range.rsym))
  IN  Low(sym_calc_value(t, range.lsym))

sym_validate_range(t, s) ==
  LET In(found) == IF found[2] = NULL THEN found[1]
                   ELSE Bounded(found[1], s, found[2].expr, strtoll(SymType[s], t.sym[s].curr.val))
  IN  IF SymType[s] \in {"S_INT", "S_HEX"} THEN In(sym_get_range_prop(t, s)) ELSE t

(* m counts as y for a symbol that cannot be m.                            *)
NotMod(t, s, tri) == IF tri = mod /\ sym_get_type(t, s) = "S_BOOLEAN" THEN yes ELSE tri

(* The prompts are visible, then the three kinds of dependencies.          *)
SeePrompt(t, s, m) ==
  After(t, PromptOf(K.M, m).vis,
        LAMBDA u, v : [u EXCEPT !.seen[m] =
          IF /\ sym_is_choice_value(s) /\ SymType[s] = "S_TRISTATE"
             /\ v = mod /\ u.sym[ChoiceOf(s)].curr.tri = yes
          THEN no ELSE v])

CalcVisible(t, s) ==
  LET Set(u, tri) == [u EXCEPT !.sym[s].visible =
                        IF tri = mod /\ (SymType[s] # "S_TRISTATE" \/ u.mod = no) THEN yes ELSE tri]
      See(u) == Set(u, Max({no} \cup {u.seen[m] : m \in ToSet(K.prompts[s])}))
  IN  See(StepBy(LAMBDA u, m : SeePrompt(u, s, m), t, K.prompts[s]))

(* The dependency of a symbol of a kind; there is no implied value where   *)
(* the direct dependency is n.                                             *)
DependencyOf(t, s, kind) ==
  CASE kind = "dir_dep" -> K.M.dir[s]
    [] kind = "rev_dep" -> IF K.M.rev[s] = NULL THEN No ELSE K.M.rev[s]
    [] kind = "implied" -> IF K.M.implied[s] = NULL \/ t.sym[s].dir_dep = no THEN No ELSE K.M.implied[s]
CalcDependency(t, s, kind) ==
  After(t, DependencyOf(t, s, kind), LAMBDA u, v : [u EXCEPT !.sym[s][kind] = NotMod(u, s, v)])

sym_calc_visibility(t, s) ==
  LET Deps(u) == IF sym_is_choice_value(s) THEN u
                 ELSE StepBy(LAMBDA w, kind : CalcDependency(w, s, kind), u, <<"dir_dep", "rev_dep", "implied">>)
  IN  Deps(CalcVisible(t, s))

-----------------------------------------------------------------------------
(* Choices.                                                                *)

(* A visible default, or the first visible value.                          *)
RECURSIVE VisibleDefault(_, _)
VisibleDefault(t, props) ==
  IF props = <<>> THEN <<t, None>>
  ELSE After(t, Head(props).vis,
             LAMBDA u, v : IF v # no /\ u.sym[prop_get_symbol(Head(props))].visible # no
                           THEN <<u, prop_get_symbol(Head(props))>>
                           ELSE VisibleDefault(u, Tail(props)))

FirstVisibleValue(t, c) ==
  LET visible == SelectSeq(K.M.values[c], LAMBDA s : t.sym[s].visible # no)
  IN  IF visible = <<>> THEN None ELSE visible[1]

sym_choice_default(t, c) ==
  LET Or1st(found) == IF found[2] # None THEN found ELSE <<found[1], FirstVisibleValue(found[1], c)>>
  IN  Or1st(VisibleDefault(t, K.defaults[c]))

(* A mutant: what the user chose is taken even when it is not visible.     *)
EverChosen(t, c, visible) == t.sym[c].def.val # None
UserChoice(t, c, visible) == t.sym[c].def.val \in visible

ChooseValue(t, c, visible) ==
  LET ByDefault(found) == IF found[2] # None THEN [found[1] EXCEPT !.sym[c].curr.val = found[2]]
                        ELSE [found[1] EXCEPT !.sym[c].curr = EmptyValue]
  IN  IF UserChoice(t, c, visible) THEN [t EXCEPT !.sym[c].curr.val = t.sym[c].def.val]
      ELSE ByDefault(sym_choice_default(t, c))

(* The choice stays decided while every visible value is.                  *)
StillDecided(t, c, visible) ==
  ChooseValue(IF \A s \in visible : sym_has_value(t, s) THEN t ELSE ClearFlag(t, c, "DEF_USER"), c, visible)

sym_calc_choice(t, c) ==
  LET Choose(u) == StillDecided(u, c, {s \in ValuesOf(c) : u.sym[s].visible # no})
  IN  Choose(StepBy(sym_calc_visibility, t, K.M.values[c]))

(* conf_set_all_new_symbols has every choice value default to n.           *)
set_all_choice_values(t, c) ==
  [t EXCEPT !.sym = [s \in DOMAIN @ |->
     IF s = c THEN [@[s] EXCEPT !.flags = (@ \cup {"DEF_USER"}) \ {"VALID", "NEED_SET_CHOICE_VALUES"}]
     ELSE IF s \in ValuesOf(c) /\ ~sym_has_value(t, s) THEN [@[s] EXCEPT !.def.tri = no]
     ELSE @[s]]]

-----------------------------------------------------------------------------
(* The value of a symbol before ranges: what the user set, as far as it is *)
(* visible, or a default; a bool or tristate at least what selects it.     *)

(* The table, and the tristate of the default found.                       *)
DefaultTristate(found) ==
  IF found[2] = NULL THEN <<found[1], no>>
  ELSE After(found[1], found[2].expr, LAMBDA u, v : <<u, EXPR_AND(v, found[3])>>)

OrImplied(d, s) ==
  LET new == EXPR_OR(d[2], d[1].sym[s].implied)
  IN  <<IF new # no THEN SetFlag(d[1], s, "WRITE") ELSE d[1], new>>

(* A mutant: what selects a symbol is forgotten when the user has set it.  *)
UserFirst(t, s, tri) == IF sym_has_value(t, s) THEN tri ELSE EXPR_OR(tri, t.sym[s].rev_dep)
AtLeastSelected(t, s, tri) == EXPR_OR(tri, t.sym[s].rev_dep)

SetTristate(t, s, new) ==
  [t EXCEPT !.sym[s].curr =
     [tri |-> IF new = mod /\ (sym_get_type(t, s) = "S_BOOLEAN" \/ t.sym[s].implied = yes) THEN yes ELSE new,
      val |-> ""]]

(* What a default gives; of a string, the value of the default symbol.     *)
FromDefault(found, s) ==
  LET Tristate(d) == SetTristate(d[1], s, AtLeastSelected(d[1], s, d[2]))
      String(u, ds) == [u EXCEPT !.sym[s].curr.val = sym_get_string_value(u, ds)]
  IN  IF SymType[s] \in Boolean THEN Tristate(OrImplied(DefaultTristate(found), s))
      ELSE IF found[2] = NULL THEN found[1]
      ELSE LET ds == prop_get_symbol(found[2])
           IN  String(sym_calc_value(SetFlag(found[1], s, "WRITE"), ds), ds)

UserValue(t, s) ==
  IF SymType[s] \in Boolean
  THEN SetTristate(t, s, AtLeastSelected(t, s, EXPR_AND(t.sym[s].def.tri, t.sym[s].visible)))
  ELSE [t EXCEPT !.sym[s].curr.val = t.sym[s].def.val]
WriteSelected(t, s) ==
  IF SymType[s] \in Boolean /\ t.sym[s].rev_dep # no THEN SetFlag(t, s, "WRITE") ELSE t

NotSet(t, s) ==
  IF sym_is_choice(s) THEN SetTristate(t, s, AtLeastSelected(t, s, no))
  ELSE FromDefault(sym_get_default_prop(t, s), s)

Valued(t, s) ==
  IF sym_is_choice_value(s) /\ SymType[s] \in Boolean /\ t.sym[s].visible = yes
  THEN SetTristate(t, s, IF t.sym[ChoiceOf(s)].curr.val = s THEN yes ELSE no)
  ELSE IF t.sym[s].visible # no /\ sym_has_value(t, s) THEN UserValue(t, s)
  ELSE NotSet(WriteSelected(t, s), s)

-----------------------------------------------------------------------------
(* sym_calc_value, step by step.                                           *)

WithChoice(t, s) == IF sym_is_choice(s) /\ t.sym[s].curr.tri = yes THEN sym_calc_choice(t, s) ELSE t

(* A choice that is written has its visible values written.                *)
WriteValues(t, c) ==
  IF ~Flag(t, c, "WRITE") THEN t
  ELSE StepBy(LAMBDA u, s : IF u.sym[s].visible # no THEN SetFlag(u, s, "WRITE") ELSE u, t, K.M.values[c])

(* The end: modules_val, the values of a choice, and the flags.            *)
Finish(t, s) ==
  LET m == IF s = Modules THEN [t EXCEPT !.mod = t.sym[s].curr.tri] ELSE t
      Auto(u) == IF SYMBOL_AUTO(s) THEN ClearFlag(u, s, "WRITE") ELSE u
      New(u) == IF Flag(u, s, "NEED_SET_CHOICE_VALUES") THEN set_all_choice_values(u, s) ELSE u
  IN  New(Auto(IF sym_is_choice(s) THEN WriteValues(m, s) ELSE m))

(* The default a recursive call still finds.                               *)
WithDefault(t, s) ==
  [IF t.sym[s].visible # no THEN SetFlag(t, s, "WRITE") ELSE t EXCEPT !.sym[s].curr = EmptyValue]

Calculate(t, s) ==
  Finish(sym_validate_range(WithChoice(Valued(WithDefault(sym_calc_visibility(
    [t EXCEPT !.sym[s].flags = (@ \cup {"VALID"}) \ {"WRITE"}], s), s), s), s), s), s)

Calculated1st(t, s) ==
  IF Flag(t, s, "VALID") THEN t
  ELSE Calculate(IF sym_is_choice_value(s) /\ Flag(t, s, "NEED_SET_CHOICE_VALUES")
                 THEN sym_calc_value(ClearFlag(t, s, "NEED_SET_CHOICE_VALUES"), ChoiceOf(s)) ELSE t, s)

Evaluated(t, e) ==
  LET With(u) == <<u, Value(u, e)>>
  IN  With(IF e.type = "E_SYMBOL" /\ e.sym \in K.syms THEN Calculated1st(t, e.sym) ELSE CalcAll(t, SymbolsIn(e)))

-----------------------------------------------------------------------------
(* Setting values.  Each returns whether it was done, and the table.       *)

AllInvalid(t) == [t EXCEPT !.sym = [s \in DOMAIN @ |-> [@[s] EXCEPT !.flags = @ \ {"VALID"}]]]
(* A mutant: the change is not counted.                                    *)
Uncounted(t) == sym_calc_value(AllInvalid(t), Modules)
sym_clear_all_valid(t) == sym_calc_value([AllInvalid(t) EXCEPT !.changed = TRUE], Modules)

sym_tristate_within_range(t, s, val) ==
  LET x == t.sym[s]
      type == sym_get_type(t, s)
  IN  /\ x.visible # no /\ type \in Boolean
      /\ ~(type = "S_BOOLEAN" /\ val = mod)
      /\ x.visible > x.rev_dep
      /\ ~(x.implied = yes /\ val = mod)
      /\ IF sym_is_choice_value(s) /\ x.visible = yes THEN val = yes
         ELSE x.rev_dep <= val /\ val <= x.visible

(* A value of a choice makes the choice and its visible values decided.    *)
Decide(t, c, s) ==
  [t EXCEPT !.sym = [x \in DOMAIN @ |->
     IF x = c THEN [@[x] EXCEPT !.flags = @ \cup {"DEF_USER"}, !.def.val = s]
     ELSE IF x \in ValuesOf(c) /\ t.sym[x].visible # no THEN [@[x] EXCEPT !.flags = @ \cup {"DEF_USER"}]
     ELSE @[x]]]

(* A mutant: the other values keep their flags, the choice its old value.  *)
Decided(t, s, val) ==
  LET u == SetFlag(t, s, "DEF_USER")
  IN  IF sym_is_choice_value(s) /\ val = yes THEN Decide(u, ChoiceOf(s), s) ELSE u

(* A mutant: only what was set is calculated again.                        *)
OnlyOneInvalid(t, s) == [ClearFlag(t, s, "VALID") EXCEPT !.changed = TRUE]
Invalidated(t, s) == sym_clear_all_valid(t)

sym_set_tristate_value(t, s, val) ==
  LET old == sym_get_tristate_value(t, s)
      u == [Decided(t, s, val) EXCEPT !.sym[s].def.tri = val]
  IN  IF old # val /\ ~sym_tristate_within_range(t, s, val) THEN <<FALSE, t>>
      ELSE <<TRUE, IF old # val THEN Invalidated(u, s) ELSE u>>

(* The values are tried in turn until one can be set.                      *)
SetFirst(t, s, values) ==
  StepBy(LAMBDA r, tri : IF r[1] THEN r ELSE sym_set_tristate_value(r[2], s, tri), <<FALSE, t>>, values)[2]

(* n, m, y, n ... from the value it has.                                   *)
ToggleOrder(t, s) == [i \in 1..3 |-> (sym_get_tristate_value(t, s) + i) % 3]
sym_toggle_tristate_value(t, s) == SetFirst(t, s, ToggleOrder(t, s))

sym_string_valid(s, str) ==
  SymType[s] = "S_STRING" \/ <<SymType[s], str>> \in DOMAIN Number

(* The table, and whether the string is a number in the range.             *)
InRange(t, s, range, val) ==
  LET Fits(u, bound) == LET limit == sym_get_range_val(u, s, range[bound])
                        IN  <<u, IF bound = "lsym" THEN limit <= val ELSE val <= limit>>
  IN  StepBy(LAMBDA r, bound : IF r[2] THEN Fits(sym_calc_value(r[1], range[bound]), bound) ELSE r,
               <<t, TRUE>>, <<"lsym", "rsym">>)
sym_string_within_range(t, s, str) ==
  LET In(found) == IF found[2] = NULL THEN <<found[1], TRUE>>
                   ELSE InRange(found[1], s, found[2].expr, strtoll(SymType[s], str))
  IN  IF SymType[s] = "S_STRING" \/ ~sym_string_valid(s, str) THEN <<t, sym_string_valid(s, str)>>
      ELSE In(sym_get_range_prop(t, s))

sym_set_string_value(t, s, str) ==
  LET new == IF SymType[s] = "S_HEX" THEN WithPrefix[str] ELSE str
      same == str = new /\ t.sym[s].def.val = str
      Set(u) == IF same THEN u ELSE sym_clear_all_valid(u)
      Within(range) == IF ~range[2] THEN <<FALSE, range[1]>>
                       ELSE <<TRUE, Set([SetFlag(range[1], s, "DEF_USER") EXCEPT !.sym[s].def.val = new])>>
  IN  Within(sym_string_within_range(t, s, str))

sym_is_changable(t, s) == t.sym[s].visible > t.sym[s].rev_dep

(* The table, and the value a symbol has when nobody sets it.              *)
TristateDefault(t, s, default) ==
  LET selected == EXPR_OR(default, t.sym[s].rev_dep)
      allowed == IF /\ selected = mod
                    /\ (~sym_is_choice_value(s) /\ t.mod = no) \/ SymType[s] = "S_BOOLEAN"
                 THEN yes ELSE selected
  IN  <<t, TriName[EXPR_OR(allowed, t.sym[s].implied) + 1]>>
DefaultString(found) ==
  LET Get(u) == <<u, sym_get_string_value(u, prop_get_symbol(found[2]))>>
  IN  IF found[2] = NULL THEN <<found[1], "">> ELSE Get(sym_calc_value(found[1], prop_get_symbol(found[2])))
sym_get_string_default(t, s) ==
  LET Of(found) == IF SymType[s] \notin Boolean THEN DefaultString(found)
                   ELSE LET d == DefaultTristate(found) IN TristateDefault(d[1], s, d[2])
  IN  Of(sym_get_default_prop(sym_calc_value(sym_calc_visibility(t, s), Modules), s))

(* The table before anything was read: all memory is zero.                 *)
NoSymbols ==
  [sym |-> [s \in K.syms |->
     [flags |-> {}, visible |-> no, dir_dep |-> no, rev_dep |-> no, implied |-> no,
      curr |-> EmptyValue, def |-> Undefined]],
   mod |-> no, seen |-> [m \in DOMAIN K.M.menu |-> no], changed |-> TRUE]

=============================================================================
