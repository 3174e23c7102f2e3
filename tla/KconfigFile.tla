----------------------------- MODULE KconfigFile -----------------------------
(***************************************************************************)
(* What is written of a table of symbols and what is read back             *)
(* (support/kconfig/confdata.c), with the walk over the menus that decides *)
(* what is visible (menu_is_visible of menu.c).                            *)
(*                                                                         *)
(* A configuration file is a sequence of lines <<symbol, string>>; a line  *)
(* "# SYMBOL is not set" is <<symbol, "n">>.  Headings are left out.       *)
(***************************************************************************)
EXTENDS KconfigSymbol

Children(m) == K.M.menu[m].list
SymOf(m) == K.M.menu[m].sym

(* The table, and whether an entry is visible.  An entry that is not, but  *)
(* has a visible child, counts as set by the user.                         *)
RECURSIVE menu_is_visible(_, _)

(* The table after a look at the entries of a list, all or only up to the  *)
(* first visible one, and those that are visible.                          *)
LookUntil(t, list, first) ==
  LET Add(r, vis, m) == <<vis[1], IF vis[2] THEN Append(r[2], m) ELSE r[2]>>
  IN  StepBy(LAMBDA r, m : IF first /\ r[2] # <<>> THEN r ELSE Add(r, menu_is_visible(r[1], m), m),
               <<t, <<>>>>, list)
LookAt(t, list) == LookUntil(t, list, FALSE)
AnyVisible(t, list) == LookUntil(t, list, TRUE)

(* The visibility of the menu around it comes first; if it is not n, the   *)
(* symbol is calculated, or the condition of the prompt.                   *)
Conditions(m, s, prompt) == <<K.M.menu[m].visibility, IF s # None THEN expr_alloc_symbol(s) ELSE prompt>>
CalcWhileNotNo(t, exprs) ==
  LET Add(r, calc) == <<calc[1], Append(r[2], calc[2])>>
  IN  StepBy(LAMBDA r, e : IF no \in Range(r[2]) THEN r ELSE Add(r, Evaluated(r[1], e)), <<t, <<>>>>, exprs)

SeeEntry(t, m, s, values) ==
  LET w == IF s # None THEN t ELSE [t EXCEPT !.seen[m] = values[2]]
      Mark(r) == IF r[2] # <<>> THEN <<SetFlag(r[1], s, "DEF_USER"), TRUE>> ELSE <<r[1], FALSE>>
  IN  IF values[1] = no THEN <<t, FALSE>>
      ELSE IF w.seen[m] # no THEN <<w, TRUE>>
      ELSE IF s = None \/ sym_get_tristate_value(w, s) = no THEN <<w, FALSE>>
      ELSE Mark(AnyVisible(w, Children(m)))

menu_is_visible(t, m) ==
  LET See(r) == SeeEntry(r[1], m, SymOf(m), r[2])
  IN  IF HasPrompt(K.M, m) THEN See(CalcWhileNotNo(t, Conditions(m, SymOf(m), PromptOf(K.M, m).vis)))
      ELSE <<t, FALSE>>

(* All entries but the root, in the order of the menus.                    *)
RECURSIVE Below(_)
Below(m) == FlattenSeq([i \in DOMAIN Children(m) |-> <<Children(m)[i]>> \o Below(Children(m)[i])])

-----------------------------------------------------------------------------
(* Reading.                                                                *)

(* Nothing has a value from the file yet; a choice counts as decided.      *)
Without(t, flags) ==
  [t EXCEPT !.sym = [s \in DOMAIN @ |->
     [@[s] EXCEPT !.flags = (@ \ flags) \cup (IF sym_is_choice(s) THEN {"DEF_USER"} ELSE {}),
                  !.def = Undefined]]]
(* A mutant: what was calculated before stays valid.                       *)
StaysValid(t) == Without(t, {"DEF_USER"})
Forget(t) == Without(t, {"DEF_USER", "VALID"})

(* Whether conf_set_sym_val takes the string for the symbol.               *)
Accepted(s, str) ==
  CASE SymType[s] = "S_TRISTATE" -> str \in {"n", "m", "y"}
    [] SymType[s] = "S_BOOLEAN"  -> str \in {"n", "y"}
    [] OTHER -> sym_string_valid(s, str)

(* A value of a choice, of tristate tri: the choice follows.               *)
ChoiceFollows(t, s, tri) ==
  LET c == ChoiceOf(s)
      u == IF tri = mod /\ t.sym[c].def.tri = yes THEN ClearFlag(t, c, "DEF_USER") ELSE t
  IN  [u EXCEPT !.sym[c].def = [tri |-> EXPR_OR(@.tri, tri), val |-> IF tri = yes THEN s ELSE @.val]]

conf_set_sym_val(t, s, str) ==
  LET u == SetFlag(t, s, "DEF_USER")
      v == [u EXCEPT !.sym[s].def = IF SymType[s] \in Boolean THEN [tri |-> Tri[str], val |-> None]
                                    ELSE [tri |-> no, val |-> str]]
  IN  IF sym_is_choice_value(s) THEN ChoiceFollows(v, s, v.sym[s].def.tri) ELSE v

(* The table, and whether there was a warning.                             *)
ReadLine(tw, line) ==
  LET t == tw[1]
      s == line[1]
      override == sym_has_value(t, s)
      inconsistent == sym_is_choice_value(s) /\ SymType[s] \in Boolean /\
                      LET was == t.sym[ChoiceOf(s)].def.tri
                      IN  (line[2] = "y" /\ was # no) \/ (line[2] = "m" /\ was = yes)
  IN  IF s \notin K.syms THEN <<[t EXCEPT !.changed = TRUE], tw[2]>>
      ELSE IF line[2] = "n" /\ SymType[s] \notin Boolean THEN <<t, tw[2] \/ override>>
      ELSE IF ~Accepted(s, line[2]) THEN <<t, TRUE>>
      ELSE <<conf_set_sym_val(t, s, line[2]), tw[2] \/ override \/ inconsistent>>

conf_read_simple(t, lines) == StepBy(ReadLine, <<Forget(t), FALSE>>, lines)

(* What was calculated differs from what the file says.                    *)
Unsaved(t, s) ==
  LET x == t.sym[s]
  IN  IF sym_has_value(t, s) /\ Flag(t, s, "WRITE")
      THEN IF SymType[s] \in Boolean THEN x.def.tri # x.curr.tri ELSE x.def.val # x.curr.val
      ELSE sym_has_value(t, s) \/ Flag(t, s, "WRITE")

(* The table, and whether something is unsaved: values that are not        *)
(* visible become new ones, values out of range are dropped.               *)
Renew(t, s, unsaved) ==
  LET u == IF t.sym[s].visible = no /\ ~unsaved THEN ClearFlag(t, s, "DEF_USER") ELSE t
      Within(range) ==
        IF range[2] THEN <<range[1], unsaved>>
        ELSE <<[range[1] EXCEPT !.sym[s].flags = @ \ {"VALID", "DEF_USER"}], TRUE>>
  IN  IF ~sym_has_value(t, s) \/ sym_is_choice_value(s) THEN <<t, unsaved>>
      ELSE IF SymType[s] \in Boolean THEN <<u, unsaved>>
      ELSE Within(sym_string_within_range(u, s, u.sym[s].def.val))

RenewAll(t, unsaved) == StepBy(LAMBDA r, s : Renew(r[1], s, r[2]), <<t, unsaved>>, K.order)

conf_read(t, lines) ==
  LET Changed(r, warned) == [r[1] EXCEPT !.changed = @ \/ warned \/ r[2]]
      Check(u, warned) ==
        Changed(RenewAll(u, \E s \in K.syms : ~sym_is_choice(s) /\ Unsaved(u, s)), warned)
      Calc(read) == Check(CalcAll(read[1], <<Modules>> \o K.order), read[2])
  IN  Calc(conf_read_simple([t EXCEPT !.changed = FALSE], lines))

(* There is no file: everything is new, and to be saved.                   *)
ReadNothing(t) == sym_calc_value([t EXCEPT !.changed = TRUE], Modules)

-----------------------------------------------------------------------------
(* Writing.  Each writer returns the table and the lines.                  *)

Line(t, s) == <<s, sym_get_string_value(t, s)>>

WriteSymbol(t, lines, s) ==
  IF ~Flag(t, s, "WRITE") THEN <<t, lines>> ELSE <<ClearFlag(t, s, "WRITE"), Append(lines, Line(t, s))>>

WriteEntry(t, lines, m) ==
  LET s == SymOf(m)
  IN  IF s = None THEN <<menu_is_visible(t, m)[1], lines>>
      ELSE IF sym_is_choice(s) THEN <<t, lines>>
      ELSE WriteSymbol(sym_calc_value(t, s), lines, s)

conf_write(t) ==
  LET Saved(w) == <<[w[1] EXCEPT !.changed = FALSE], w[2]>>
  IN  Saved(StepBy(LAMBDA w, m : WriteEntry(w[1], w[2], m),
                     <<IF t.changed THEN t ELSE sym_clear_all_valid(t), <<>>>>, Below(1)))

(* A mutant: every value of a choice that is its default is left out.      *)
DefaultChosenLoosely(t, s) ==
  sym_is_choice_value(s) /\ sym_choice_default(t, ChoiceOf(s))[2] = s
(* The value of a choice that it has without being told.                   *)
DefaultChosen(t, s) ==
  /\ sym_is_choice_value(s) /\ ~sym_is_optional(ChoiceOf(s))
  /\ sym_choice_default(t, ChoiceOf(s))[2] = s
  /\ SymType[s] = "S_BOOLEAN" /\ sym_get_tristate_value(t, s) = yes

WriteUnlessDefault(t, lines, s, default) ==
  IF sym_get_string_value(t, s) = default \/ DefaultChosen(t, s) THEN <<t, lines>>
  ELSE <<t, Append(lines, Line(t, s))>>
DefconfigSymbol(t, lines, s) ==
  LET v == ClearFlag(t, s, "WRITE")
      Compare(d) == WriteUnlessDefault(d[1], lines, s, d[2])
  IN  IF ~Flag(t, s, "WRITE") \/ ~sym_is_changable(v, s) THEN <<v, lines>>
      ELSE Compare(sym_get_string_default(v, s))
DefconfigEntry(t, lines, m) ==
  LET s == SymOf(m)
  IN  IF s = None THEN <<menu_is_visible(t, m)[1], lines>>
      ELSE IF sym_is_choice(s) THEN <<t, lines>>
      ELSE DefconfigSymbol(sym_calc_value(t, s), lines, s)

conf_write_defconfig(t) ==
  StepBy(LAMBDA w, m : DefconfigEntry(w[1], w[2], m), <<sym_clear_all_valid(t), <<>>>>, Below(1))

=============================================================================
