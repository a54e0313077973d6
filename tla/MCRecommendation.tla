-------------------------- MODULE MCRecommendation --------------------------
(* Bounded instances of Recommendation for TLC. *)
EXTENDS Recommendation

\* The defaults of ThresholdsConfig.
Density == <<3, 2>>
Half == <<1, 2>>

\* Links go round among three tables; text columns have one average length.
Schema(tables, links, junctions, texts, length) ==
  [tables |-> 1..tables,
   links |-> [l \in 1..links |-> {l % 3, (l + 1) % 3}],
   junctions |-> 1..junctions,
   columns |-> [c \in 1..texts |-> [type |-> "string", distinct |-> 11, length |-> length]]]

\* As it may grow: dense without junctions; at the threshold of text; junctions beside some
\* text; junction-rich and full of text.
SomeSchemas == {Schema(3, 5, 0, 0, 0), Schema(11, 5, 0, 3, 199),
                Schema(10, 5, 2, 1, 40), Schema(11, 5, 4, 3, 200)}
=============================================================================
