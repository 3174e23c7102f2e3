-------------------------- MODULE MCKconfigRewrite --------------------------
(* Instances of KconfigRewrite: every pair of the comparisons the join     *)
(* rules tell apart, and up to four operands of a few of them.             *)
EXTENDS KconfigRewrite

Constants == {"y", "m", "n", "9", "10"}
Types == ("B" :> "S_BOOLEAN") @@ ("T" :> "S_TRISTATE") @@ ("I" :> "S_INT") @@
         [s \in Constants |-> "S_UNKNOWN"]
Values == ("S_BOOLEAN" :> {"n", "y"}) @@ ("S_TRISTATE" :> {"n", "m", "y"}) @@
          ("S_INT" :> {"", "9", "10"})
Numbers == [p \in {"S_INT", "S_UNKNOWN"} \X {"9", "10"} |-> IF p[2] = "9" THEN 9 ELSE 10]
Ranks == ("" :> 0) @@ ("10" :> 1) @@ ("9" :> 2) @@ ("m" :> 3) @@ ("n" :> 4) @@ ("y" :> 5)

S(s) == expr_alloc_symbol(s)
Is(t, s, v) == expr_alloc_comp(t, s, v)
Tests(s) == {S(s)} \cup {Is(t, s, v) : t \in {"E_EQUAL", "E_UNEQUAL"}, v \in {"y", "m", "n"}}
Pairs == [leaves |-> Tests("T") \cup Tests("B") \cup
                     {Yes, No, Mod, Is("E_EQUAL", "T", "B"), Is("E_LEQ", "I", "9"), Is("E_GTH", "I", "9")},
          max |-> 2]
Triples == [leaves |-> {S("T"), S("B"), Is("E_EQUAL", "T", "m"), Is("E_UNEQUAL", "T", "n"), Is("E_GTH", "T", "m")},
            max |-> 3]
Deep == [leaves |-> {S("T"), Is("E_EQUAL", "B", "n")}, max |-> 4]
All == {Pairs, Triples, Deep}
=============================================================================
