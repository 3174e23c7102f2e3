---------------------------- MODULE MCMenuconfig ----------------------------
(* Instances of Menuconfig and Conf: five small configurations, each about one part *)
(* of the language, and what can be found in their .config files.          *)
EXTENDS Conf

Constants == {"y", "m", "n", "1", "2", "5", "9", "0x1", "0x2", "0x5", "0x9", "s1"}
Types ==
  LET Of(type, symbols) == [s \in symbols |-> type]
  IN  Of("S_BOOLEAN", {"MODULES", "B1", "B2", "B3", "B4", "B5", "B6", "CHOICE"}) @@
      Of("S_TRISTATE", {"T1", "T2", "T3", "T4", "TRICHOICE"}) @@ Of("S_INT", {"INT", "LOW"}) @@
      Of("S_HEX", {"HEX"}) @@ Of("S_STRING", {"STR"}) @@ Of("S_UNKNOWN", Constants)
Ints == ("1" :> 1) @@ ("2" :> 2) @@ ("5" :> 5) @@ ("9" :> 9)
Hexes == ("0x1" :> 1) @@ ("0x2" :> 2) @@ ("0x5" :> 5) @@ ("0x9" :> 9) @@ Ints
Numbers == LET Value_ == Hexes
           IN  [p \in ({"S_INT"} \X DOMAIN Ints) \cup ({"S_HEX", "S_UNKNOWN"} \X DOMAIN Hexes) |-> Value_[p[2]]]
Ranks == LET sorted == <<"", "0x1", "0x2", "0x5", "0x9", "1", "2", "5", "9", "m", "n", "s1", "y">>
         IN  [s \in ToSet(sorted) |-> CHOOSE i \in DOMAIN sorted : sorted[i] = s]
Names == LET Of(type, names) == [p \in {type} \X {Hexes[s] : s \in names} |->
                                   CHOOSE s \in names : Hexes[s] = p[2]]
         IN  Of("S_INT", DOMAIN Ints) @@ Of("S_HEX", {"0x1", "0x2", "0x5", "0x9"})
Prefixed == LET numbers == ("1" :> "0x1") @@ ("2" :> "0x2") @@ ("5" :> "0x5") @@ ("9" :> "0x9")
            IN  numbers @@ [s \in Range(numbers) |-> s]

S(s) == expr_alloc_symbol(s)
Is(s, v) == expr_alloc_comp("E_EQUAL", s, v)
Or(a, b) == expr_alloc_or(a, b)
And(a, b) == expr_alloc_and(a, b)

Config(s) == [kind |-> "config", sym |-> s]
Choice(s) == [kind |-> "choice", sym |-> s]
Word(kind) == [kind |-> kind]
If(e) == [kind |-> "if", expr |-> e]
Depends(e) == [kind |-> "depends", expr |-> e]
Visible(e) == [kind |-> "visible", expr |-> e]
PromptIf(e) == [kind |-> "prompt", cond |-> e]
Prompt == PromptIf(NULL)
Property(type, e, cond) == [kind |-> type, expr |-> e, cond |-> cond]
Default(e, cond) == Property("P_DEFAULT", e, cond)
Select(s, cond) == Property("P_SELECT", S(s), cond)
Imply(s, cond) == Property("P_IMPLY", S(s), cond)
Range_(a, b) == Property("P_RANGE", expr_alloc_comp("E_RANGE", a, b), NULL)

Selects == <<
  Config("MODULES"), Prompt,
  Config("T1"), Prompt, Imply("T3", NULL),
  Config("T2"), Prompt, Depends(S("T1")),
  Config("B1"), Prompt, Select("T2", S("T1")),
  Config("T3"), Prompt, Default(S("T2"), NULL)>>

Chosen == <<
  Config("B1"), Prompt, Default(Yes, NULL),
  Choice("CHOICE"), Prompt, Default(S("B3"), S("B1")), Word("begin"),
    Config("B2"), Prompt,
    Config("B3"), Prompt,
    Config("T1"), Prompt, Depends(S("B3")),
    Config("B4"), Prompt, Depends(S("B1")),
  Word("end")>>

Tristates == <<
  Config("MODULES"), Prompt, Default(Yes, NULL),
  Config("T3"), Prompt,
  Choice("TRICHOICE"), Prompt, Word("optional"), Word("begin"),
    Config("T1"), Prompt,
    Config("T2"), Prompt, Depends(S("T3")),
    Config("B2"), Prompt,
  Word("end")>>

Menus == <<
  Config("B1"), Prompt,
  If(S("B1")),
    Config("B2"), Prompt,
    Word("menu"), Visible(S("B2")), Word("begin"),
      Config("B3"), Prompt, Depends(Or(S("B2"), S("B5"))),
      Config("B4"), PromptIf(S("B3")), Default(S("B2"), NULL),
    Word("end"),
  Word("end"),
  Config("B5"), Prompt, Select("B2", NULL), Word("menuconfig"),
  Config("B6"), Prompt, Depends(S("B5")),
  Word("comment"), Depends(S("B6"))>>

Numbers_ == <<
  Config("B1"), Prompt,
  Config("LOW"), Prompt, Range_("1", "5"), Default(S("5"), NULL),
  Config("INT"), PromptIf(S("B1")), Range_("LOW", "9"), Default(S("LOW"), NULL),
  Config("HEX"), Prompt, Default(S("0x1"), NULL),
  Config("STR"), Prompt, Default(S("s1"), S("B1")), Depends(Is("INT", "9"))>>

(* (A constant that is a LET is evaluated only once by TLC and not counted  *)
(* with every use of it in the statistics it prints.)                      *)
Kconfigs == LET Files_ == [selects |-> Selects, choices |-> Chosen, tristates |-> Tristates,
             menus |-> Menus, numbers |-> Numbers_] IN Files_
ParsedKconfigs == LET files == Kconfigs IN [k \in DOMAIN files |-> KconfigOf(conf_parse(files[k]))]

(* Files written by hand: nothing, too little, and what does not fit.      *)
L(s, v) == <<s, v>>
Configs == [
  selects   |-> {<<>>, <<L("MODULES", "y"), L("T1", "m"), L("B1", "y")>>,
                 <<L("T1", "y"), L("T2", "m"), L("T3", "n")>>},
  choices   |-> {<<>>, <<L("B3", "y"), L("T1", "y")>>, <<L("B1", "n"), L("B2", "y"), L("B4", "y"), L("B3", "y")>>},
  tristates |-> {<<L("T3", "m"), L("T1", "m"), L("T2", "y")>>, <<L("B2", "y"), L("T1", "n"), L("T2", "m")>>},
  menus     |-> {<<L("B1", "y"), L("B2", "y"), L("B3", "y")>>, <<L("B5", "y"), L("B6", "y")>>, <<L("GONE", "y"), L("B1", "y"), L("B2", "n")>>},
  numbers   |-> {<<L("B1", "y"), L("LOW", "1"), L("INT", "1")>>, <<L("INT", "9"), L("HEX", "9")>>,
                 <<L("B1", "y"), L("INT", "9"), L("STR", "")>>}]
Keys == [selects |-> 2, choices |-> 2, tristates |-> 2, menus |-> 1, numbers |-> 2]
Typed == [S_INT |-> {"1", "5", "9"}, S_HEX |-> {"0x9", "1"}, S_STRING |-> {"", "s1"}]

(* What is typed at the terminal, and what is drawn.                       *)
TypedLines == [selects |-> {"y", "n", "m"}, choices |-> {"y", "n", "2"}, tristates |-> {"y", "m", "2"},
               menus |-> {"y", "n"}, numbers |-> {"y", "?", "5", "9"}]
TypedMost == [selects |-> 2, choices |-> 2, tristates |-> 2, menus |-> 2, numbers |-> 3]
Drawn == LET Of(syms, low, high) == {[s \in syms |-> IF s \in ones THEN high ELSE low] : ones \in {syms, {}} \cup {{s} : s \in syms}}
         IN  [selects   |-> Of({"MODULES", "T1", "T2", "T3", "B1"}, 2, 1),
              choices   |-> Of({"B1", "B2", "B3", "B4", "T1", "CHOICE"}, 2, 3),
              tristates |-> Of({"MODULES", "T1", "T2", "T3", "B2", "TRICHOICE"}, 2, 1),
              menus     |-> Of({"B1", "B2", "B3", "B4", "B5", "B6"}, 2, 0),
              numbers   |-> Of({"B1", "LOW", "INT", "HEX", "STR"}, 0, 2)]

=============================================================================
