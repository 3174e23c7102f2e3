----------------------------- MODULE Menuconfig -----------------------------
(***************************************************************************)
(* A session of menuconfig (support/kconfig/mconf.c): the menus opened one *)
(* from another, their items, and what the keys do to the configuration    *)
(* and to the file.                                                        *)
(*                                                                         *)
(* Every key ends with the current menu being built again, which           *)
(* calculates the symbols it shows: an action contains that, so that T is  *)
(* the table the items on the screen were made from.                       *)
(***************************************************************************)
EXTENDS KconfigFile, KconfigMeaning

CONSTANTS
  HandWritten,  \* by configuration: the .config files to start or to load
  Strings,      \* by type: what is typed into an input box
  MaxKeys       \* by configuration: how many keys are struck besides saving and opening menus, for TLC

VARIABLES
  trail,        \* the menus opened, the current one last
  show_all_options,
  items,        \* the items of the current menu
  disk,         \* the lines of the .config file, or NoFile
  keys,
  missed,       \* a file to load was missing, and nothing saved since
  screen,       \* the value every symbol shows
  reads         \* the values a start with the file on disk would show

mvars == <<kconf, K, T, trail, show_all_options, items, disk, keys, missed, screen, reads>>

NoFile == <<<<"", "no file">>>>

(* A table as far as it can be used for something: every symbol calculated.*)
(* A choice has no name and nothing of its own in the file.                *)
Calculated(t) == CalcAll(t, K.order)
Shown(t) == [s \in K.syms \ K.M.choices |-> sym_get_string_value(t, s)]
Loaded(lines) == IF lines = NoFile THEN ReadNothing(NoSymbols) ELSE conf_read(NoSymbols, lines)

-----------------------------------------------------------------------------
(* The items of a menu: <<entry, tag>> with the tag m (a menu), t (a       *)
(* tristate), s (a string) or : (nothing to select).                       *)

RECURSIVE build_conf(_, _, _, _, _)

(* The children are shown below their parent.                              *)
BuildChildren(current, all, t, list, m) ==
  StepBy(LAMBDA r, c : build_conf(current, all, r[1], r[2], c), <<t, list>>, Children(m))

(* A choice that is y shows the value chosen instead.                      *)
BuildChoice(current, all, t, list, m, def_menu) ==
  LET s == SymOf(m)
      tag == IF sym_is_changable(t, s) \/ def_menu # 0 THEN "t" ELSE ":"
      r == Append(list, <<m, tag>>)
  IN  IF sym_get_tristate_value(t, s) # yes THEN BuildChildren(current, all, t, r, m)
      ELSE IF def_menu # 0 /\ Children(def_menu) # <<>> THEN build_conf(current, all, t, r, def_menu)
      ELSE <<t, r>>

(* The value that is sym, of the visible ones.                             *)
EntryOf(visible, sym) == Max({0} \cup {c \in ToSet(visible) : SymOf(c) = sym})

TagOf(t, s) ==
  CASE sym_is_choice_value(s) /\ sym_get_tristate_value(t, s) = yes -> ":"
    [] sym_get_type(t, s) \in Boolean -> "t"
    [] OTHER -> "s"

BuildEntry(current, all, t, list, m) ==
  LET s == SymOf(m)
      type == PromptOf(K.M, m).type
      tag == CASE s # None /\ m # current -> TagOf(t, s)
               [] s = None /\ type = "P_MENU" /\ m # current -> "m"
               [] OTHER -> ":"
      next == IF s = None /\ m = current THEN list ELSE Append(list, <<m, tag>>)
      choice == s # None /\ sym_is_choice(s)
      Look(r) == IF choice THEN BuildChoice(current, all, r[1], list, m, EntryOf(r[2], t.sym[s].curr.val))
                 ELSE <<r[1], next>>
  IN  IF choice \/ (type = "P_MENU" /\ m # current /\ tag # "s") THEN Look(LookUntil(t, Children(m), ~choice))
      ELSE BuildChildren(current, all, t, next, m)

build_conf(current, all, t, list, m) ==
  LET Build(vis) == IF IF all THEN HasPrompt(K.M, m) ELSE vis[2]
                    THEN BuildEntry(current, all, vis[1], list, m) ELSE <<vis[1], list>>
  IN  Build(menu_is_visible(t, m))

Built(t, current, all) == build_conf(current, all, t, <<>>, current)

(* The current menu is built anew from the table t.                        *)
Redraw(t, tr, all) ==
  /\ trail' = tr /\ show_all_options' = all
  /\ \E built \in {Built(t, Last(tr), all)} : T' = built[1] /\ items' = ToSet(built[2])
  /\ screen' = Shown(Calculated(T'))
  /\ UNCHANGED <<kconf, K>>
Show(t) == Redraw(t, trail, show_all_options) /\ UNCHANGED <<disk, reads>>
Open(t, m) == Redraw(t, Append(trail, m), show_all_options) /\ UNCHANGED <<disk, reads>>
Holds(lines, t) == disk' = lines /\ reads' = Shown(Calculated(t))
Spend == keys < MaxKeys[kconf] /\ keys' = keys + 1
Key == Spend /\ missed' = missed
NoKey == UNCHANGED <<keys, missed>>

-----------------------------------------------------------------------------
Init ==
  /\ kconf \in DOMAIN Files /\ K = Parsed[kconf]
  /\ disk \in HandWritten[kconf] \cup {NoFile}
  /\ T = NoSymbols /\ trail = <<>> /\ show_all_options = FALSE /\ items = {} /\ keys = 0
  /\ missed = FALSE /\ screen = <<>> /\ reads = <<>>

(* The start of main: the file is read and the first menu shown.           *)
Start ==
  /\ trail = <<>>
  /\ \E t \in {Loaded(disk)} : Holds(disk, t) /\ Redraw(t, <<1>>, FALSE)
  /\ NoKey

(* A choice that is y shows its values, in a list of their own.            *)
ListsValues(t, s) == sym_is_choice(s) /\ sym_get_tristate_value(t, s) = yes

(* Enter on a menu, or on a menuconfig symbol.                             *)
Opens(t, item) ==
  \/ item[2] = "m"
  \/ item[2] = "t" /\ PromptOf(K.M, item[1]).type = "P_MENU" /\ ~ListsValues(t, SymOf(item[1]))
Enter ==
  /\ \E item \in items : Opens(T, item) /\ Open(T, item[1])
  /\ NoKey

(* conf_choice: one of the visible values is taken.                        *)
conf_choice ==
  /\ Key
  /\ \E item \in items :
       /\ item[2] = "t" /\ ListsValues(T, SymOf(item[1]))
       /\ \E look \in {LookAt(T, Children(item[1]))} : \E c \in ToSet(look[2]) :
            /\ SymOf(c) # None
            /\ Show(sym_set_tristate_value(look[1], SymOf(c), yes)[2])

(* conf_string: the box stays until the string is accepted.                *)
conf_string ==
  /\ Key
  /\ \E item \in items :
       /\ item[2] = "s"
       /\ \E str \in Strings[SymType[SymOf(item[1])]] :
            \E set \in {sym_set_string_value(T, SymOf(item[1]), str)} : set[1] /\ Show(set[2])

(* The keys y (m where y is refused), n, m and the space bar.              *)
SetByKey ==
  /\ Key
  /\ \E item \in items :
       /\ item[2] = "t"
       /\ LET s == SymOf(item[1])
          IN  \E t \in {SetFirst(T, s, tried) : tried \in {<<yes, mod>>, <<no>>, <<mod>>, ToggleOrder(T, s)}} :
                Show(t)

Back ==
  /\ Len(trail) > 1
  /\ Redraw(T, Front(trail), show_all_options)
  /\ UNCHANGED <<disk, reads>> /\ NoKey

ShowAll ==
  /\ trail # <<>> /\ Key
  /\ Redraw(T, trail, ~show_all_options)
  /\ UNCHANGED <<disk, reads>>

(* Search lists every prompt of the symbols found; its key opens the menu  *)
(* above the prompt or, where that is not visible, above the nearest       *)
(* visible entry around it.                                                *)
RECURSIVE Around(_)
Around(m) == IF m = 1 THEN <<>> ELSE <<m>> \o Around(K.M.menu[m].parent)

(* The menu a key opens for the prompt at m, with m in the entries looked  *)
(* at behind those around it.                                            *)
JumpTo(m, seen) ==
  IF Last(seen) = m THEN K.M.menu[m].parent ELSE K.M.menu[seen[1]].parent

search_conf ==
  /\ trail # <<>> /\ Key
  /\ \E s \in K.syms : \E m \in ToSet(K.prompts[s]) :
       LET around == SubSeq(Around(m), 2, Min({Len(Around(m)), 9}))
       IN  \E look \in {LookAt(CalcAll(T, <<s>>), Append(around, m))} :
             /\ Range(look[2]) \cap Range(around) # {}
             /\ Open(look[1], JumpTo(m, look[2]))

conf_save ==
  /\ trail # <<>> /\ keys' = keys /\ missed' = FALSE
  /\ \E written \in {conf_write(T)} :
       /\ Holds(written[2], Loaded(written[2]))
       /\ Redraw(written[1], trail, show_all_options)

(* Another file is read; it is not the one in use, so there is a change.   *)
conf_load ==
  /\ trail # <<>> /\ Key
  /\ \E lines \in HandWritten[kconf] : Show([conf_read(T, lines) EXCEPT !.changed = TRUE])

(* The file to load does not exist: what was changed counts as saved.      *)
LoadMissing ==
  /\ trail # <<>> /\ Spend /\ missed' = TRUE
  /\ Show(sym_calc_value([T EXCEPT !.changed = FALSE], Modules))

(* The end, from the root menu or by an interrupt from anywhere: what has  *)
(* changed is saved, or not, as the user wants.  The keys are used up then.*)
handle_exit ==
  /\ trail # <<>>
  /\ disk' \in (IF T.changed THEN {disk, conf_write(T)[2]} ELSE {disk})
  /\ T' = NoSymbols /\ trail' = <<>> /\ show_all_options' = FALSE /\ items' = {}
  /\ screen' = <<>> /\ reads' = <<>>
  /\ keys' = MaxKeys[kconf] /\ missed' = FALSE
  /\ UNCHANGED <<kconf, K>>

Next ==
  \/ Start \/ Enter \/ Back \/ ShowAll \/ search_conf
  \/ conf_choice \/ conf_string \/ SetByKey
  \/ conf_save \/ conf_load \/ LoadMissing \/ handle_exit

-----------------------------------------------------------------------------
(* What is promised.                                                       *)

(* The two ways in which a value shown is not the one a new calculation    *)
(* gives: a file that leaves visible values of an optional choice open has *)
(* the choice undone at the next change; and a string typed that is still  *)
(* there from the file is not calculated with.                             *)
Forgotten(t) == \E c \in K.M.choices : sym_is_optional(c) /\ t.sym[c].curr.tri # no /\ ~sym_has_value(t, c)
Retyped(t) ==
  \E s \in K.syms : /\ ~sym_is_choice(s) /\ SymType[s] \notin Boolean
                    /\ sym_has_value(t, s) /\ t.sym[s].visible # no /\ t.sym[s].def.val # t.sym[s].curr.val

(* The table of a program that runs, calculated.                           *)
Now == IF T = NoSymbols THEN {} ELSE {Calculated(T)}

UpToDate(t) == Shown(Calculated(t)) = Shown(Calculated(sym_clear_all_valid(t)))

(* SYMBOL_VALID is set when the value is up to date (expr.h): what is      *)
(* shown is what a calculation of everything from nothing would give, but  *)
(* for the two ways known.                                                 *)
NothingElseStale == \A t \in Now : Forgotten(t) \/ Retyped(t) \/ UpToDate(T)

(* menuconfig edits a document: what it does not ask to save at the end    *)
(* reads back from the file as it was shown.                               *)
Editor == INSTANCE Document WITH Closed <- <<>>, shown <- screen, file <- reads,
                                    asks <- T.changed \/ missed
EditsADocument == Editor!DocSpec

(* The button that loads a file restores what was saved (readme of mconf): *)
(* nothing of the session is left.                                         *)
Reloaded(t) == Shown(Calculated(conf_read(t, disk)))
LoadRestores == [][disk = NoFile \/ trail = <<>> \/ Reloaded(T') = reads]_screen

(* What savedefconfig leaves out comes back when the rest is read.         *)
Minimal(t) ==
  \A w \in {conf_write_defconfig(t)} : Shown(Calculated(Loaded(w[2]))) = Shown(Calculated(w[1]))
DefconfigReproduces == T = NoSymbols => \A t \in {Loaded(disk)} : Minimal(t)

(* A choice that is y has exactly one of its values y, if one is visible.  *)
OneValue(t) ==
  \A c \in K.M.choices :
    /\ t.sym[c].curr.tri = yes /\ (\E s \in ValuesOf(c) : t.sym[s].visible = yes) =>
         Cardinality({s \in ValuesOf(c) : t.sym[s].curr.tri = yes}) = 1
    /\ t.sym[c].curr.tri # yes => \A s \in ValuesOf(c) : t.sym[s].curr.tri # yes
OneOfAChoice == \A t \in Now : OneValue(t)

(* The values keep what the text of the configuration promises.            *)
TextIsKept == \A t \in Now : Retyped(t) \/ LanguageHolds(t)

(* Menus that can be opened from a menu, and the entries seen on the way,  *)
(* those in the list of values of a choice included.                       *)
ItemsOf(t, m) == ToSet(Built(t, m, FALSE)[2])
Listed(t, item) ==
  IF item[2] = "t" /\ ListsValues(t, SymOf(item[1])) THEN ToSet(LookAt(t, Children(item[1]))[2]) ELSE {}
RECURSIVE Seen(_, _, _)
Seen(t, open, seen) ==
  LET With(found) == Seen(t, {item[1] : item \in {i \in found : Opens(t, i)}} \ seen,
                          seen \cup {item[1] : item \in found} \cup UNION {Listed(t, item) : item \in found})
  IN  IF open = {} THEN seen ELSE With(UNION {ItemsOf(t, m) : m \in open})

(* Every entry that is visible can be reached with the keys.               *)
Reachable(t) ==
  {m \in DOMAIN K.M.menu : m # 1 /\ HasPrompt(K.M, m) /\ menu_is_visible(t, m)[2]
                          /\ t.seen[m] # no} \subseteq Seen(t, {1}, {})
EverythingReachable == trail # <<>> => Reachable(T)

=============================================================================
