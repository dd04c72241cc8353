------------------------------ MODULE MCRanges ------------------------------
(* Every range of 4-bit words, literal and not, in each of its uses.        *)
EXTENDS Ranges

(* A literal has no sign of its own, so the least word is not one.          *)
Literals == Int64 \ {MinInt}

LiteralSources ==
  [use : Uses, start : Literals, stop : Literals, step : Literals \cup {Omitted},
   kind : Kinds, literal : {TRUE}, literalStep : {TRUE}]

ComputedSources ==
  [use : {"for"}, start : Int64, stop : Int64, step : Int64 \cup {Omitted},
   kind : Kinds, literal : {FALSE}, literalStep : {FALSE}]

LiteralBounds ==
  [use : {"for"}, start : Literals, stop : Literals, step : Int64,
   kind : Kinds, literal : {TRUE}, literalStep : {FALSE}]

MCSource == LiteralSources \cup ComputedSources \cup LiteralBounds

(* Ranges of literals up to the largest word, one by one.                   *)
LastWordSource ==
  {s \in LiteralSources :
     s.use = "for" /\ s.kind = "Inclusive" /\ s.stop = MaxInt /\ s.step = Omitted}
=============================================================================
