---------------------------- MODULE MCStringCode ----------------------------
(* StringCode over every program of a small family, and over two families   *)
(* kept apart from it.                                                      *)
EXTENDS StringPrograms

Does == {"writes t", "reads", "own", "fails"}
Forms == {"discard", "s =", "s = t =", "s, t = t,", "s, s = t,", "s = s =", "while",
          "for", "loop", "if"}

Statements ==
  {<<form, x>> : form \in Forms, x \in StringExpressions}
    \cup {<<"discard", x>> : x \in Expressions}
LastStatements ==
  {<<"discard", <<"just", "s">>>>, <<"discard", <<"join", "s", "f()">>>>,
   <<"discard", <<"len", "f()">>>>, <<"s, t = t,", <<"just", "s">>>>,
   <<"s = t =", <<"just", "f()">>>>, <<"if", <<"just", "s">>>>}

Stale(n) == n[1] \in {"writes t", "fails"} /\ ReadBeforeCall(n[2][2])

(* What f does matters to the statements that call it.                      *)
Calls(st) == "f()" \in ToSet(st[2])

Names ==
  {n \in Does \X Statements \X {<<"discard", <<"just", "s">>>>} :
     Calls(n[2]) \/ n[1] = "own"}
    \cup (Does \X {<<"s = t =", <<"join", "t", "f()">>>>, <<"loop", <<"just", "f()">>>>}
               \X LastStatements)
MCName == {n \in Names : ~Stale(n)}

(* A value read before a call that frees it, and used after.                *)
StaleName ==
  {n \in {"writes t"} \X Statements \X {<<"discard", <<"just", "s">>>>} : Stale(n)}

(* A block run for its effect that ends in a string.                        *)
ResultName ==
  Does \X {<<form, x>> : form \in {"while:", "if:"}, x \in StringExpressions}
    \X {<<"discard", <<"just", "s">>>>}
=============================================================================
