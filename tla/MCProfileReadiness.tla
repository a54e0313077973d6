------------------------- MODULE MCProfileReadiness -------------------------
(* A bounded instance of ProfileReadiness for TLC. *)
EXTENDS ProfileReadiness, Sequences, TLC

CONSTANTS T, U, f, v, k

Ref == <<T, f>>      \* a text column that holds keys of U
Val == <<T, v>>
Key == <<U, k>>
ColumnsDef == {Ref, Val, Key}
KeysDef == {<<Ref, Key>>}
TypeDef == (Ref :> "string") @@ (Val :> "integer") @@ (Key :> "integer")
OrderDef == (Ref :> 1) @@ (Val :> 2) @@ (Key :> 3) @@ (T :> 4) @@ (U :> 5) @@ (<<Ref, Key>> :> 6)

Int_(n) == [as |-> "int", n |-> n]
Text(n) == [as |-> "text", n |-> n]
Odd(n) == [as |-> "odd text", n |-> n]
Float(n) == [as |-> "float", n |-> n]
Digit(n) == [as |-> "unparsable text", n |-> n]

Source(refs, vals, keys) ==
  [state |-> [t \in Tables |-> "open"], closed |-> {}, unordered |-> {},
   count |-> (T :> Len(refs)) @@ (U :> Len(keys)),
   rows |-> (Ref :> refs) @@ (Val :> vals) @@ (Key :> keys),
   blocks |-> [t \in Tables |-> {2, 3}]]

Clean == Source(<<Text(1), Text(2), Null>>, <<Int_(1), Int_(1), Int_(2)>>, <<Int_(1), Int_(2)>>)
Orphaned == Source(<<Odd(1), Text(2), Null, Null>>, <<Null, Null, Null, Null>>, <<Int_(1), Int_(1)>>)
\* A nullable integer column of a CSV file, which pandas reads as floats, beside a key
\* that it reads as ints; and a superscript among the texts.
Floats == [Clean EXCEPT !.rows[Ref] = <<Float(1), Float(2), Null>>]
Digits == [Clean EXCEPT !.rows[Ref] = <<Digit(1), Text(2), Null>>]
SourcesDef == {
  Clean,
  Orphaned,
  Floats,
  Digits,
  [Clean EXCEPT !.state[T] = "denied"],
  \* the blocks sampled are empty, and values that cannot be ordered
  [Floats EXCEPT !.rows[Key] = <<Float(2), Float(3)>>, !.blocks[T] = {}, !.unordered = {Key}],
  [Source(<<>>, <<>>, <<Int_(1)>>) EXCEPT !.closed = {Key}]}
=============================================================================
