-------------------------------- MODULE Conf --------------------------------
(***************************************************************************)
(* The program conf (support/kconfig/conf.c): make oldconfig, olddefconfig,*)
(* allnoconfig and so on, each of which reads the .config file, sets some  *)
(* symbols and writes it again; syncconfig, which also tells the build what*)
(* has changed (confdata.c).  They run while menuconfig does not.          *)
(*                                                                         *)
(* A program reads, works and writes, each a step of its own, and may be   *)
(* killed between them.  A line typed at the terminal is a step, too: what *)
(* the recursive functions still have to do is kept as a sequence of tasks *)
(* <<kind, menu entry>>.  When the terminal is closed every line is empty. *)
(***************************************************************************)
EXTENDS Menuconfig

CONSTANTS
  Lines,      \* by configuration: what can be typed at the terminal
  MaxLines,   \* by configuration: the lines behind which the terminal is closed
  Dice        \* by configuration: what rand() gives, a number for every symbol

VARIABLES
  program,    \* the program that runs: its mode, and what it is to do next
  auto,       \* auto.conf: the values the last build was told, by symbol
  touched     \* the headers of symbols written anew by the last syncconfig

cvars == <<mvars, program, auto, touched>>

Idle == [mode |-> "none", next |-> "none", todo |-> <<>>, root |-> 1, cnt |-> 0, typed |-> 0]
Asking == {"oldconfig", "oldaskconfig", "syncconfig"}
Setting == {"def_no", "def_yes", "def_mod", "def_default", "def_random"}

Stays == UNCHANGED <<kconf, K, trail, show_all_options, items, missed, screen, reads>>
NotBuilt == UNCHANGED <<auto, touched>>
Works == Stays /\ NotBuilt /\ UNCHANGED <<disk, keys>>

-----------------------------------------------------------------------------
(* The questions of oldconfig, oldaskconfig and syncconfig.                *)

Task == Head(program.todo)
Asks(kind) == program.next = "ask" /\ program.todo # <<>> /\ Task[1] = kind
Do(p, tasks) == [p EXCEPT !.todo = tasks \o Tail(program.todo)]
Under(kind, m) == [i \in DOMAIN Children(m) |-> <<kind, Children(m)[i]>>]
Known(t, s) == program.mode # "oldaskconfig" /\ sym_has_value(t, s)

(* A line of the terminal, empty behind the last one.                      *)
xfgets(line) == line \in IF program.typed < MaxLines[kconf] THEN Lines[kconf] \cup {""} ELSE {""}
Typed_(p) == [p EXCEPT !.typed = IF @ < MaxLines[kconf] THEN @ + 1 ELSE @]

RECURSIVE menu_get_parent_menu(_)
menu_get_parent_menu(m) ==
  IF m = 1 \/ (HasPrompt(K.M, m) /\ PromptOf(K.M, m).type = "P_MENU") THEN m
  ELSE menu_get_parent_menu(K.M.menu[m].parent)

IsNew(t, s) ==
  s # None /\ ~sym_has_value(t, s) /\
    (sym_is_changable(t, s) \/ (sym_is_choice(s) /\ sym_get_tristate_value(t, s) = yes))

(* A mutant: what an answer makes visible is not looked for.               *)
CheckedOnce(t, m) ==
  LET top == menu_get_parent_menu(m)
  IN  IF IsNew(t, SymOf(m)) THEN [Do(program, <<<<"conf", top>>>> \o Under("check", m)) EXCEPT !.root = top]
      ELSE Do(program, Under("check", m))

(* Where something is new the whole menu around it is asked for.           *)
Checked(t, m) ==
  LET top == menu_get_parent_menu(m)
  IN  IF IsNew(t, SymOf(m))
      THEN [Do(program, <<<<"conf", top>>>> \o Under("check", m)) EXCEPT !.cnt = 1, !.root = top]
      ELSE Do(program, Under("check", m))
check_conf ==
  /\ Asks("check")
  /\ \E vis \in {menu_is_visible(T, Task[2])} :
       T' = vis[1] /\ program' = IF vis[2] THEN Checked(vis[1], Task[2]) ELSE Do(program, <<>>)
  /\ Works

(* An entry is asked for, then those below it; a menu only as far as it is *)
(* new.                                                                    *)
Entered(t, m) ==
  LET s == SymOf(m)
  IN  IF PromptOf(K.M, m).type = "P_MENU" /\ program.mode # "oldaskconfig" /\ program.root # m
      THEN <<<<"check", m>>>>
      ELSE IF s = None THEN Under("conf", m)
      ELSE IF ~sym_is_choice(s) THEN <<<<"ask", m>>>> \o Under("conf", m)
      ELSE (IF sym_is_changable(t, s) THEN <<<<"ask", m>>>> ELSE <<>>)
           \o <<<<IF Known(t, s) THEN "known choice" ELSE "choice", m>>, <<"rest", m>>>>
conf ==
  /\ Asks("conf")
  /\ \E vis \in {menu_is_visible(T, Task[2])} :
       T' = vis[1] /\ program' = Do(program, IF vis[2] THEN Entered(vis[1], Task[2]) ELSE <<>>)
  /\ Works

(* What cannot be changed, or is known, is not asked for.                  *)
conf_askvalue(m) == sym_is_changable(T, SymOf(m)) /\ ~Known(T, SymOf(m))
Keep ==
  /\ Asks("ask") /\ ~conf_askvalue(Task[2])
  /\ program' = Do(program, <<>>) /\ UNCHANGED T /\ Works

(* It is asked for until the answer is taken.                              *)
Answered(set) == T' = set[2] /\ program' = Typed_(IF set[1] THEN Do(program, <<>>) ELSE program)
ask_string ==
  /\ Asks("ask") /\ SymType[SymOf(Task[2])] \notin Boolean /\ conf_askvalue(Task[2])
  /\ \E line \in Lines[kconf] \cup {""} :
       /\ xfgets(line) /\ line # "?"
       /\ \E s \in {SymOf(Task[2])} :
            \E set \in {sym_set_string_value(T, s, IF line = "" THEN sym_get_string_value(T, s) ELSE line)} :
              Answered(set)
  /\ Works
conf_sym ==
  /\ Asks("ask") /\ SymType[SymOf(Task[2])] \in Boolean /\ conf_askvalue(Task[2])
  /\ \E line \in Lines[kconf] \cup {""} :
       /\ xfgets(line) /\ line \in {"", "n", "m", "y"}
       /\ \E s \in {SymOf(Task[2])} :
            \E set \in {sym_set_tristate_value(T, s, IF line = "" THEN sym_get_tristate_value(T, s) ELSE Tri[line])} :
              Answered(set)
  /\ Works

(* Any other line has the question asked again.                            *)
AskAgain ==
  /\ Asks("ask") /\ conf_askvalue(Task[2])
  /\ \E line \in Lines[kconf] :
       xfgets(line) /\ line \notin (IF SymType[SymOf(Task[2])] \in Boolean THEN {"n", "m", "y"} ELSE Lines[kconf] \ {"?"})
  /\ program' = Typed_(program) /\ UNCHANGED T /\ Works

(* The number of the value of a choice: the only one, the one it has, or a *)
(* number typed; one that is none has everything shown again.              *)
Number_(line, chosen) ==
  IF line = "" THEN chosen ELSE IF <<"S_INT", line>> \in DOMAIN Number THEN Number[<<"S_INT", line>>] ELSE 0
Picks(values, chosen, known) ==
  IF Len(values) = 1 THEN {1} ELSE IF known THEN {chosen}
  ELSE {Number_(line, chosen) : line \in {l \in Lines[kconf] \cup {""} : xfgets(l)}}

(* The values are looked at, a choice that is not y has none to choose.    *)
ask_choice ==
  /\ Asks("choice") \/ Asks("known choice")
  /\ \E m \in {Task[2]} : \E t \in {sym_calc_value(T, SymOf(m))} :
       IF sym_get_tristate_value(t, SymOf(m)) # yes
       THEN T' = t /\ program' = Do(program, <<>>)
       ELSE \E look \in {LookAt(t, Children(m))} : \E values \in {SelectSeq(look[2], LAMBDA c : SymOf(c) # None)} :
              LET chosen == SelectLastInSeq(values, LAMBDA c : SymOf(c) = look[1].sym[SymOf(m)].curr.val)
              IN  \E pick \in Picks(values, chosen, Task[1] = "known choice") :
                    /\ T' = IF pick \notin DOMAIN values THEN look[1]
                            ELSE sym_set_tristate_value(look[1], SymOf(values[pick]), yes)[2]
                    /\ program' = Typed_(IF pick \notin DOMAIN values THEN program
                                        ELSE Do(program, Under("conf", values[pick])))
  /\ Works

(* A choice that is m has each of its values asked for.                    *)
RestOfChoice ==
  /\ Asks("rest")
  /\ program' = Do(program, IF T.sym[SymOf(Task[2])].curr.tri = mod THEN Under("conf", Task[2]) ELSE <<>>)
  /\ UNCHANGED T /\ Works

(* Once more until nothing new was found; syncconfig writes the file only  *)
(* if it must, and then tells the build.                                   *)
Again_ == [program EXCEPT !.todo = <<<<"check", 1>>>>, !.cnt = 0, !.mode = IF @ = "oldaskconfig" THEN "oldconfig" ELSE @]
CheckedAll ==
  /\ program.next = "ask" /\ program.todo = <<>>
  /\ program' = IF program.mode = "oldaskconfig" \/ program.cnt # 0 THEN Again_
                ELSE [program EXCEPT !.next = IF program.mode = "syncconfig" /\ ~T.changed THEN "tell" ELSE "write"]
  /\ UNCHANGED T /\ Works

-----------------------------------------------------------------------------
(* conf_set_all_new_symbols.                                               *)

(* What a symbol without value is given; a choice is not drawn here.       *)
NewValue(s, mode, dice) ==
  CASE mode = "def_yes" -> yes
    [] mode = "def_mod" -> mod
    [] mode = "def_no"  -> no
    [] mode = "def_random" -> IF dice[s] % 3 = mod /\ SymType[s] = "S_BOOLEAN" THEN no ELSE dice[s] % 3

Unset(t, s) == ~sym_has_value(t, s) /\ ~Flag(t, s, "VALID") /\ sym_get_type(t, s) \in Boolean
SetNew(t, mode, dice) ==
  [t EXCEPT !.sym = [s \in DOMAIN @ |->
     IF mode = "def_default" \/ ~Unset(t, s) THEN @[s]
     ELSE [@[s] EXCEPT !.def.tri = NewValue(s, mode, dice),
                       !.flags = IF sym_is_choice(s) /\ mode = "def_random" THEN @ ELSE @ \cup {"DEF_USER"}]]]

(* A choice drawn: one of its values, whether visible or not.              *)
randomize_choice_values(t, c, dice) ==
  LET drawn == K.M.values[c][(dice[c] % Len(K.M.values[c])) + 1]
      Of(s) == [t.sym[s] EXCEPT !.def.tri = IF s = drawn THEN yes ELSE no,
                                !.flags = (@ \cup {"DEF_USER"}) \ {"VALID"}]
  IN  IF t.sym[c].curr.tri # yes THEN t
      ELSE [t EXCEPT !.sym = [s \in DOMAIN @ |->
              IF s \in ValuesOf(c) THEN Of(s)
              ELSE IF s = c THEN [@[s] EXCEPT !.def.val = drawn, !.flags = (@ \cup {"DEF_USER"}) \ {"VALID"}]
              ELSE @[s]]]

NeedChoiceValues(t, mode) ==
  [t EXCEPT !.sym = [s \in DOMAIN @ |->
     IF mode # "def_random" /\ ((sym_is_choice(s) /\ ~sym_has_value(t, s)) \/ sym_is_choice_value(s))
     THEN [@[s] EXCEPT !.flags = @ \cup {"NEED_SET_CHOICE_VALUES"}] ELSE @[s]]]

(* The table, and whether anything was set: for random values the answer   *)
(* of the last choice, whatever was before.                                *)
SetChoice(r, c, mode, dice) ==
  LET Random(u) == <<randomize_choice_values(u, c, dice), u.sym[c].curr.tri = yes>>
  IN  IF ~sym_is_choice(c) \/ sym_has_value(r[1], c) THEN r
      ELSE IF mode = "def_random" THEN Random(sym_calc_value(r[1], c))
      ELSE <<set_all_choice_values(sym_calc_value(r[1], c), c), TRUE>>

conf_set_all_new_symbols(t, mode, dice) ==
  StepBy(LAMBDA r, c : SetChoice(r, c, mode, dice),
           <<NeedChoiceValues(sym_clear_all_valid(SetNew(t, mode, dice)), mode), \E s \in K.syms : Unset(t, s)>>,
           K.order)

-----------------------------------------------------------------------------
(* What the build is told.                                                 *)

(* The values of auto.conf; one that is n is not there.                    *)
Told(t) ==
  [s \in {x \in K.syms \ K.M.choices :
            Flag(t, x, "WRITE") /\ (SymType[x] \in Boolean => sym_get_tristate_value(t, x) # no)}
     |-> sym_get_string_value(t, s)]

(* A mutant: what is written no more is not told.                          *)
OnlyWritten(t) ==
  {s \in K.syms \ K.M.choices :
     Flag(t, s, "WRITE") /\ IF s \in DOMAIN auto THEN auto[s] # sym_get_string_value(t, s)
                            ELSE SymType[s] \in Boolean => sym_get_tristate_value(t, s) # no}

(* The symbols whose header is written anew.                               *)
conf_split_config(t) ==
  {s \in K.syms \ K.M.choices :
     IF Flag(t, s, "WRITE")
     THEN IF s \in DOMAIN auto THEN auto[s] # sym_get_string_value(t, s)
          ELSE SymType[s] \in Boolean => sym_get_tristate_value(t, s) # no
     ELSE s \in DOMAIN auto}

-----------------------------------------------------------------------------
(* The programs.                                                           *)

ConfInit == Init /\ program = Idle /\ auto = <<>> /\ touched = {}
Idles == program = Idle /\ program' = Idle /\ NotBuilt

(* Bounds: a program other than syncconfig is run once, before syncconfig  *)
(* has failed, and menuconfig only where nothing has been run before it.   *)
AtFirst == trail = <<>> /\ keys = 0 /\ keys' = MaxKeys[kconf]
First == keys = 0 /\ touched = {} /\ auto = <<>>

Begin(mode, next, t) ==
  /\ program = Idle
  /\ program' = [Idle EXCEPT !.mode = mode, !.next = next,
                  !.todo = CASE mode = "oldaskconfig" -> <<<<"conf", 1>>>> [] next = "ask" -> <<<<"check", 1>>>> [] OTHER -> <<>>]
  /\ T' = t /\ Stays /\ NotBuilt /\ UNCHANGED disk

(* The file in use is read, by defconfig one written by hand.              *)
ReadFile ==
  /\ trail = <<>>
  /\ \E mode \in Asking \cup {"olddefconfig", "def_default"} :
       \E lines \in IF mode = "def_default" THEN HandWritten[kconf] ELSE {disk} :
         /\ IF mode = "syncconfig" THEN lines # NoFile /\ keys' = keys ELSE AtFirst
         /\ Begin(mode, CASE mode \in Asking -> "ask" [] mode \in Setting -> "set" [] OTHER -> "write",
                  Loaded(lines))

(* KCONFIG_ALLCONFIG names a file of values to keep, or there is none.     *)
ReadSeed ==
  /\ AtFirst
  /\ \E mode \in Setting, seed \in HandWritten[kconf] \cup {NoFile} :
       Begin(mode, "set", IF seed = NoFile THEN NoSymbols ELSE conf_read_simple(NoSymbols, seed)[1])

(* Random values are set until that changes nothing.                       *)
SetAll ==
  /\ program.next = "set"
  /\ \E dice \in IF program.mode = "def_random" THEN Dice[kconf] ELSE {<<>>} :
       \E r \in {conf_set_all_new_symbols(T, program.mode, dice)} :
         /\ T' = r[1]
         /\ program' = [program EXCEPT !.next = IF program.mode = "def_random" /\ r[2] THEN "set" ELSE "write"]
  /\ Works

End == T' = NoSymbols /\ program' = Idle
Write ==
  /\ program.next = "write"
  /\ \E written \in {conf_write(T)} :
       /\ disk' = written[2]
       /\ IF program.mode = "syncconfig" THEN T' = written[1] /\ program' = [program EXCEPT !.next = "tell"] ELSE End
  /\ Stays /\ NotBuilt /\ UNCHANGED keys

(* The build is told.  That stops at the first file that cannot be made;   *)
(* auto.conf is the last to be renamed.                                    *)
conf_write_autoconf ==
  /\ program.next = "tell"
  /\ \E t \in {Calculated(sym_clear_all_valid(T))} :
       \/ touched' = conf_split_config(t) /\ auto' = Told(t) /\ keys' = keys
       \/ \E i \in 0..Len(K.order) :
            touched' = conf_split_config(t) \cap ToSet(SubSeq(K.order, 1, i)) /\ auto' = auto /\ keys' = MaxKeys[kconf]
  /\ End /\ Stays /\ UNCHANGED disk

(* A program is killed; KCONFIG_NOSILENTUPDATE forbids syncconfig to write.*)
Kill == program # Idle /\ End /\ Works

ConfNext ==
  \/ First /\ Start /\ Idles
  \/ Enter /\ Idles
  \/ Back /\ Idles
  \/ ShowAll /\ Idles
  \/ search_conf /\ Idles
  \/ conf_choice /\ Idles
  \/ conf_string /\ Idles
  \/ SetByKey /\ Idles
  \/ conf_save /\ Idles
  \/ conf_load /\ Idles
  \/ LoadMissing /\ Idles
  \/ handle_exit /\ Idles
  \/ ReadFile \/ ReadSeed \/ SetAll \/ Write \/ conf_write_autoconf \/ Kill
  \/ check_conf \/ conf \/ Keep \/ ask_string \/ conf_sym \/ AskAgain \/ ask_choice \/ RestOfChoice \/ CheckedAll

ConfSpec == ConfInit /\ [][ConfNext]_cvars

-----------------------------------------------------------------------------
(* What is promised.                                                       *)

(* The symbols that are shown, can be set and have no value yet.           *)
NewSymbols(t) ==
  LET Look(look) == {s \in {SymOf(m) : m \in ToSet(look[2])} : IsNew(look[1], s)} IN Look(LookAt(t, Below(1)))

(* When everything was asked for there is nothing new left.                *)
AllAnswered ==
  program.mode \in Asking /\ program.next \in {"write", "tell"} => NewSymbols(T) = {}

(* What a file does not say: a choice has no name.  An optional one without*)
(* a value that is set was n or m, and of its values some are there by     *)
(* chance, depending on the order in which they were calculated.           *)
Undecided(lines) ==
  \E c \in K.M.choices :
    sym_is_optional(c) /\ \A i \in DOMAIN lines : lines[i][1] \in ValuesOf(c) => lines[i][2] = "n"

(* A configuration that was written is settled: when it is read nothing is *)
(* new and nothing changed, and to write it again gives the same.          *)
Settled(lines) ==
  \A t \in {Loaded(lines)} : NewSymbols(t) = {} /\ conf_write(t)[2] = lines /\ ~t.changed
WrittenIsSettled ==
  trail = <<>> /\ program = Idle /\ disk \notin HandWritten[kconf] \cup {NoFile} =>
    Undecided(disk) \/ Settled(disk)

(* The headers written anew are those of the symbols whose value the build *)
(* was told differently before.                                            *)
ToldOf(a, s) == IF s \in DOMAIN a THEN a[s] ELSE "n"
ChangesAreTouched == [][\A s \in K.syms : ToldOf(auto, s) # ToldOf(auto', s) => s \in touched']_auto

=============================================================================
