----------------------------- MODULE MCProperer -----------------------------
(* The automata with spontaneous arcs that the runs search. *)
EXTENDS Properer
LOCAL INSTANCE Weightsets

LOCAL Arc(s, l, d) == [src |-> s, label |-> l, dst |-> d]
LOCAL Inner == 2 .. 4
LOCAL Pairs == {Arc(s, "", d) : s \in Inner, d \in Inner}
LOCAL Ends == {Arc(0, "$", 2), Arc(4, "$", 1)}
LOCAL Some(k) ==
  CASE k = "b" -> {TRUE} [] k = "z" -> {1, -1} [] k = "zmin" -> {-1, 1}
    [] k = "q" -> {<<1, 1>>, <<-1, 2>>}

\* Three states, at most n spontaneous arcs weighted in Some, and arcs of
\* weight one among those of proper.
Spontaneous3(k, n, proper) ==
  UNION {UNION {{[a \in E \union P \union Ends |->
                    IF a \in E THEN w[a] ELSE one(k)] : w \in [E -> Some(k)]} :
                 P \in proper} :
          E \in {F \in SUBSET Pairs : Cardinality(F) \in 1 .. n}}

TinyAutomata(k) ==
  Spontaneous3(k, IF k = "b" THEN 6 ELSE 3,
               {{Arc(3, "a", 4), Arc(2, "a", 3)}, {Arc(4, "a", 3), Arc(3, "a", 3)}})
=============================================================================
