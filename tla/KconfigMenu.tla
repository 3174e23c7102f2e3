----------------------------- MODULE KconfigMenu -----------------------------
(***************************************************************************)
(* From the statements of Config.in files to the tree of menu entries and  *)
(* the properties of symbols (support/kconfig/menu.c, called by the rules  *)
(* of zconf.y).                                                            *)
(*                                                                         *)
(* A menu entry is known by its number; 1 is the root menu.  The list of   *)
(* an entry's children is a sequence, where the code links them by next.   *)
(* The properties of a symbol are kept with the entry that states them, and*)
(* what a P_CHOICE property holds is the sequence of values of a choice.   *)
(* Types are known from the start: what menu_set_type finds out for choices*)
(* without one is left out, and so are the warnings.                       *)
(***************************************************************************)
EXTENDS KconfigExpr, FiniteSets

CONSTANT Modules   \* the symbol with "option modules"

None == "none"

(* A property: its type, what it gives, and the condition it has.          *)
Prop(type, expr, vis) == [type |-> type, expr |-> expr, vis |-> vis]
prop_get_symbol(prop) == prop.expr.sym

Entry(sym, parent) ==
  [sym |-> sym, parent |-> parent, dep |-> NULL, visibility |-> NULL,
   prompt |-> 0, props |-> <<>>, list |-> <<>>]

(* The state of the parser: the entries, where it stands, and for every    *)
(* symbol its direct and reverse dependencies.                             *)
_menu_init ==
  [menu |-> <<[Entry(None, 0) EXCEPT !.props = <<Prop("P_MENU", NULL, NULL)>>, !.prompt = 1]>>,
   entry |-> 1, current |-> 1,
   rev |-> [s \in DOMAIN SymType |-> NULL], implied |-> [s \in DOMAIN SymType |-> NULL],
   dir |-> [s \in DOMAIN SymType |-> NULL],
   choice |-> [s \in DOMAIN SymType |-> None],     \* of a choice value
   values |-> [s \in DOMAIN SymType |-> <<>>],     \* of a choice
   optional |-> {}, choices |-> {}]

-----------------------------------------------------------------------------
(* Building the tree.                                                      *)

menu_add_entry(M, sym) ==
  LET n == Len(M.menu) + 1
  IN  [M EXCEPT !.menu = [Append(@, Entry(sym, M.current)) EXCEPT ![M.current].list = Append(@, n)],
                !.entry = n]

menu_add_menu(M) == [M EXCEPT !.current = M.entry]
menu_end_menu(M) == [M EXCEPT !.current = M.menu[M.current].parent]

menu_add_dep(M, e) == [M EXCEPT !.menu[M.entry].dep = expr_alloc_and(@, e)]
menu_add_visibility(M, e) == [M EXCEPT !.menu[M.entry].visibility = expr_alloc_and(@, e)]

RECURSIVE UnderVisibilities(_, _, _)
UnderVisibilities(M, m, e) ==
  IF m = 0 THEN e ELSE UnderVisibilities(M, M.menu[m].parent, expr_alloc_and(e, M.menu[m].visibility))

menu_add_prop(M, type, expr, dep) ==
  [M EXCEPT !.menu[M.entry].props = Append(@, Prop(type, expr, dep))]

(* A prompt is visible where "visible if" lets it be.                      *)
menu_add_prompt(M, type, dep) ==
  LET vis == IF type = "P_PROMPT" THEN UnderVisibilities(M, M.menu[M.entry].parent, dep) ELSE dep
      P == menu_add_prop(M, type, NULL, vis)
  IN  [P EXCEPT !.menu[M.entry].prompt = Len(P.menu[M.entry].props)]

(* The end of a menuconfig statement: its prompt becomes a menu.           *)
menuconfig_stmt(M) == [M EXCEPT !.menu[M.entry].props[M.menu[M.entry].prompt].type = "P_MENU"]

(* One statement of a Config.in file, the parser's action for it.          *)
Statement(M, st) ==
  CASE st.kind = "config"   -> menu_add_entry([M EXCEPT !.optional = @ \cup {st.sym}], st.sym)
    [] st.kind = "choice"   -> menu_add_entry([M EXCEPT !.choices = @ \cup {st.sym}], st.sym)
    [] st.kind = "menu"     -> menu_add_prompt(menu_add_entry(M, None), "P_MENU", NULL)
    [] st.kind = "comment"  -> menu_add_prompt(menu_add_entry(M, None), "P_COMMENT", NULL)
    [] st.kind = "if"       -> menu_add_menu(menu_add_dep(menu_add_entry(M, None), st.expr))
    [] st.kind = "begin"    -> menu_add_menu(M)
    [] st.kind = "end"      -> menu_end_menu(M)
    [] st.kind = "menuconfig" -> menuconfig_stmt(M)
    [] st.kind = "optional" -> [M EXCEPT !.optional = @ \cup {M.menu[M.entry].sym}]
    [] st.kind = "depends"  -> menu_add_dep(M, st.expr)
    [] st.kind = "visible"  -> menu_add_visibility(M, st.expr)
    [] st.kind = "prompt"   -> menu_add_prompt(M, "P_PROMPT", st.cond)
    [] OTHER                -> menu_add_prop(M, st.kind, st.expr, st.cond)

-----------------------------------------------------------------------------
(* Finalizing it.                                                          *)

(* 'm' is 'm' && MODULES.                                                  *)
RECURSIVE rewrite_m(_)
rewrite_m(e) ==
  CASE e.type = "E_NOT" -> expr_alloc_one("E_NOT", rewrite_m(e.expr))
    [] e.type \in {"E_AND", "E_OR"} -> expr_alloc_two(e.type, rewrite_m(e.left), rewrite_m(e.right))
    [] e = Mod -> expr_alloc_and(e, expr_alloc_symbol(Modules))
    [] OTHER -> e

expr_is_yes(e) == e \in {NULL, Yes}
PromptOf(M, m) == M.menu[m].props[M.menu[m].prompt]
HasPrompt(M, m) == M.menu[m].prompt # 0
IsChoice(M, s) == s \in M.choices

Joined(parentdep, e) == expr_eliminate_dups(expr_alloc_and(parentdep, expr_transform(rewrite_m(e))))

(* What the children of an entry depend on because of it.                  *)
ParentDep(M, p) ==
  LET sym == M.menu[p].sym
  IN  IF sym # None /\ IsChoice(M, sym) THEN expr_alloc_symbol(sym)
      ELSE IF HasPrompt(M, p) THEN PromptOf(M, p).vis
      ELSE M.menu[p].dep

(* The dependencies of an entry and of its properties, with the parent's;  *)
(* selects and implies become dependencies of their target.                *)
Propagate(M, p, m) ==
  LET sym == M.menu[m].sym
      basedep == Joined(ParentDep(M, p), M.menu[m].dep)
      Cond(e) == LET d == Joined(basedep, e)
                 IN  IF sym # None /\ SymType[sym] # "S_TRISTATE" THEN expr_trans_bool(d) ELSE d
      props == [i \in DOMAIN M.menu[m].props |-> [M.menu[m].props[i] EXCEPT !.vis = Cond(@)]]
      AddTo(type, dep) ==
        FoldLeft(LAMBDA d, prop :
                   IF prop.type # type THEN d
                   ELSE [d EXCEPT ![prop_get_symbol(prop)] =
                           expr_alloc_or(@, expr_alloc_and(expr_alloc_symbol(sym), prop.vis))],
                 dep, props)
  IN  [M EXCEPT !.menu[m].dep = basedep, !.menu[m].props = props,
                !.rev = AddTo("P_SELECT", @), !.implied = AddTo("P_IMPLY", @)]

(* The dependency of a following entry contains the one of p.              *)
Superset(dep, basedep) ==
  LET d == expr_eliminate_dups(expr_transform(expr_trans_compare(dep, "E_UNEQUAL", "n")))
  IN  expr_is_yes(expr_eliminate_eq(d, basedep)[2])

(* One value of a choice.                                                  *)
ChoiceValue(M, choice, m) ==
  LET sym == M.menu[m].sym
      only == expr_alloc_comp("E_EQUAL", choice, "y")
      bool == SymType[choice] = "S_TRISTATE" /\ SymType[sym] # "S_TRISTATE"
      N == IF ~bool THEN M
           ELSE [M EXCEPT !.menu[m].dep = expr_alloc_and(only, @),
                          !.menu[m].props = [i \in DOMAIN @ |-> [@[i] EXCEPT !.vis = expr_alloc_and(only, @)]]]
  IN  [N EXCEPT !.choice[sym] = choice, !.values[choice] = Append(@, sym)]

(* A mutant: only symbols without prompt give their children up.           *)
UpFromSymbols(M, m) == M.menu[m].sym # None /\ ~HasPrompt(M, m)
GivesUp(M, m) == ~HasPrompt(M, m)

(* The children from the i-th on: those of a choice become its values, and *)
(* the entries under one without prompt move up behind it.                 *)
RECURSIVE Flatten(_, _, _)
Flatten(M, p, i) ==
  LET m == M.menu[p].list[i]
      sym == M.menu[p].sym
      V == IF sym # None /\ IsChoice(M, sym) /\ M.menu[m].sym # None /\ M.choice[M.menu[m].sym] = None
           THEN ChoiceValue(M, sym, m) ELSE M
      up == V.menu[m].list
      U == [V EXCEPT !.menu = [n \in DOMAIN @ |->
                CASE n = p -> [@[n] EXCEPT !.list = SubSeq(@, 1, i) \o up \o SubSeq(@, i + 1, Len(@))]
                  [] n = m -> [@[n] EXCEPT !.list = <<>>]
                  [] n \in ToSet(up) -> [@[n] EXCEPT !.parent = p]
                  [] OTHER -> @[n]]]
  IN  IF i > Len(M.menu[p].list) THEN M
      ELSE Flatten(IF up # <<>> /\ GivesUp(V, m) THEN U ELSE V, p, i + 1)

(* Whether the entry m belongs into an automatic submenu of p.             *)
Belongs(M, p, m) ==
  LET sym == M.menu[p].sym
      dep == IF HasPrompt(M, m) THEN PromptOf(M, m).vis ELSE M.menu[m].dep
      own == IF HasPrompt(M, p) THEN PromptOf(M, p).vis ELSE NULL
      basedep == expr_eliminate_dups(expr_transform(expr_trans_compare(own, "E_UNEQUAL", "n")))
  IN  /\ expr_contains_symbol(dep, sym)
      /\ expr_depends_symbol(dep, sym) \/ Superset(dep, basedep)

RECURSIVE menu_finalize(_, _), FinalizeList(_, _, _), Submenu(_, _, _)

FinalizeList(M, p, i) ==
  IF i > Len(M.menu[p].list) THEN M
  ELSE FinalizeList(menu_finalize(M, M.menu[p].list[i]), p, i + 1)

(* The entries after p, from the j-th of its siblings on, that belong into *)
(* a submenu of p: finalized, they move there.                             *)
Submenu(M, p, j) ==
  LET box == M.menu[p].parent
      chain == M.menu[box].list
      i == CHOOSE k \in DOMAIN chain : chain[k] = p
  IN  IF j <= Len(chain) /\ Belongs(M, p, chain[j])
      THEN Submenu([menu_finalize(M, chain[j]) EXCEPT !.menu[chain[j]].parent = p], p, j + 1)
      ELSE [M EXCEPT !.menu[p].list = SubSeq(chain, i + 1, j - 1),
                     !.menu[box].list = SubSeq(chain, 1, i) \o SubSeq(chain, j, Len(chain))]

menu_finalize(M, p) ==
  LET sym == M.menu[p].sym
      i == CHOOSE k \in DOMAIN M.menu[M.menu[p].parent].list : M.menu[M.menu[p].parent].list[k] = p
      F == IF M.menu[p].list # <<>>
           THEN FinalizeList(FoldLeft(LAMBDA N, m : Propagate(N, p, m), M, M.menu[p].list), p, 1)
           ELSE IF sym = None THEN M
           ELSE LET S == Submenu(M, p, i + 1)
                IN  [S EXCEPT !.dir[sym] = expr_alloc_or(@, S.menu[p].dep)]
      G == Flatten(F, p, 1)
  IN  IF sym # None /\ sym \notin G.optional /\ HasPrompt(G, p)
      THEN [G EXCEPT !.rev[sym] = expr_alloc_or(@, expr_alloc_and(PromptOf(G, p).vis, Mod))]
      ELSE G

conf_parse(file) == menu_finalize(FoldLeft(Statement, _menu_init, file), 1)

(* What the parser leaves of a symbol: the entries that define it, those   *)
(* with a prompt, and its properties of a type, in the order of the file.  *)
Symbols(M) == {M.menu[n].sym : n \in DOMAIN M.menu} \ {None}
EntriesOf(M, s) == SelectSeq([n \in DOMAIN M.menu |-> n], LAMBDA n : M.menu[n].sym = s)
PropsOf(M, s, type) ==
  LET entries == EntriesOf(M, s)
      props == FlattenSeq([k \in DOMAIN entries |-> M.menu[entries[k]].props])
  IN  SelectSeq(props, LAMBDA prop : prop.type = type)

=============================================================================
