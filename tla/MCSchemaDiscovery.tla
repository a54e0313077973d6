-------------------------- MODULE MCSchemaDiscovery --------------------------
(* A bounded instance of SchemaDiscovery for TLC. *)
EXTENDS SchemaDiscovery, SequencesExt, TLC

CONSTANTS A, B, C, D, X, id, a, b, c, m, n

NamingDef == {<<a, A>>, <<b, B>>, <<c, C>>, <<c, D>>}

\* Table by table, each with its columns after it.
TableSeq == <<A, B, C, D, X>>
NameSeq == <<id, a, b, c, m, n>>
Rank(s, x) == CHOOSE i \in DOMAIN s : s[i] = x
OrderDef == [x \in Tables \cup Columns |->
               IF x \in Tables THEN 10 * Rank(TableSeq, x)
               ELSE 10 * Rank(TableSeq, x[1]) + Rank(NameSeq, x[2])]

Of(t, ns) == {t} \X ns
Key(t) == <<t, id>>
To(t, x, u) == <<<<t, x>>, Key(u)>>
Everything == Of(A, {id, b, c, m, n}) \cup Of(B, {id, c}) \cup Of(C, {id, b}) \cup Of(D, {id})

\* Identifiers and the columns that hold them are integers, the rest is text.
TypeDef == [col \in Columns |-> IF col[2] \in {m, n} THEN "string" ELSE "integer"]

\* Column b of A holds values that B does not have, column c values of C, both
\* beyond the dense ones; the other references are dense or agree in part.
RowsDef == [col \in Columns |-> CASE col = Key(C) -> <<1, 30, 40>>
                                  [] col[2] = id /\ col # Key(C) -> <<1, 2, 3>>
                                  [] col = <<A, b>> -> <<9, 8>>
                                  [] col = <<A, c>> -> <<30, 1>>
                                  [] col = <<C, b>> -> <<2, 1, 3>>
                                  [] col = <<B, c>> -> <<1, 2>>
                                  [] OTHER -> <<>>]

Source(cols, fk, rows) ==
  [cols |-> cols, pk |-> {col \in cols : col[2] = id}, fk |-> fk, type |-> TypeDef, rows |-> rows]
Declares(pairs) == [p \in pairs |-> Unnamed]

SchemasDef == {
  Source(Everything \cup Of(D, {m, n}), <<>>, RowsDef),   \* nothing is declared
  Source(Everything \ Of(A, {n}), Declares({To(A, b, B), To(A, c, C), To(B, c, C)}), RowsDef),
  Source(Everything, Declares({To(A, b, B), To(A, c, C), To(C, b, B)}), RowsDef),
  \* a composite key out of the configured schemas
  Source(Of(A, {id, b, c, m}),
         [p \in {To(A, b, X), <<<<A, c>>, <<X, m>>>>} |-> m], RowsDef),
  \* A is referenced from everywhere
  Source(Everything \cup Of(B, {a}) \cup Of(C, {a}) \cup Of(D, {a}),
         Declares({To(A, b, B), To(A, c, D), To(B, a, A), To(C, a, A), To(D, a, A)}), RowsDef)}
=============================================================================
