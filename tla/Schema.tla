------------------------------- MODULE Schema -------------------------------
(***************************************************************************)
(* class Schema (catalog/schema.py) as operators.  A row is a sequence of  *)
(* values in the order of the columns.  A byte is a pair <<x, i>>, the     *)
(* i-th byte of the encoding of x, so that what is read at a wrong offset  *)
(* is another value.  Numbers are counted in halves, 2.5 is 5 and the      *)
(* integer n is 2n; a text is a sequence of characters, by code point.     *)
(***************************************************************************)
EXTENDS Integers, SequencesExt, FiniteSetsExt

Unit == 2               \* the number 1
IsInteger(x) == x % Unit = 0

Column(name, type, max_length) ==       \* max_length 0: none
  [name |-> name, type |-> type, max_length |-> max_length]

Width == [INT |-> 4, FLOAT |-> 8, BOOL |-> 1]
IsVarchar(column) == column.type = "VARCHAR"
(* The VARCHARs among the first n columns.                                 *)
Varchars(columns, n) == Cardinality({i \in 1 .. n : IsVarchar(columns[i])})

(* get_index: of two columns with one name, the last.                      *)
Position(columns, name) == Max({i \in DOMAIN columns : columns[i].name = name})
HasColumn(columns, name) == \E i \in DOMAIN columns : columns[i].name = name

Bytes(x, n) == [i \in 1 .. n |-> <<x, i>>]

(* text.encode("utf-8"), and decode.                                       *)
CharWidth(c) == IF c < 128 THEN 1 ELSE 2
Encoded(text) ==
  FlattenSeq([i \in DOMAIN text |-> Bytes(text[i], CharWidth(text[i]))])
Decoded(raw) ==
  LET upto[n \in 0 .. Len(raw)] ==
        IF n = 0 THEN <<>>
        ELSE IF raw[n][2] = 1 THEN Append(upto[n - 1], raw[n][1]) ELSE upto[n - 1]
  IN  upto[Len(raw)]

Field(column, value) ==
  IF IsVarchar(column) THEN Encoded(value) ELSE Bytes(value, Width[column.type])

(* Two bytes for each varchar, the length of its field.                    *)
Prefix_InCharacters(columns, row) ==
  FlattenSeq([i \in DOMAIN columns |->
    IF IsVarchar(columns[i]) THEN Bytes(Len(row[i]), 2) ELSE <<>>])
Prefix(columns, row) ==
  FlattenSeq([i \in DOMAIN columns |->
    IF IsVarchar(columns[i]) THEN Bytes(Len(Field(columns[i], row[i])), 2)
                             ELSE <<>>])

(* serialize returns bytes unless a value is missing, two columns share a  *)
(* name, or a text has more characters than its column allows (it returns  *)
(* False for that, on which insert_tuple raises).                          *)
TooLong(column, text) ==
  IsVarchar(column) /\ column.max_length # 0 /\ Len(text) > column.max_length
Serializable(columns, row) ==
  /\ Len(row) = Len(columns)
  /\ \A i, j \in DOMAIN columns : columns[i].name = columns[j].name => i = j
  /\ \A i \in DOMAIN columns : ~TooLong(columns[i], row[i])

serialize(columns, row) ==
  Prefix(columns, row)
    \o FlattenSeq([i \in DOMAIN columns |-> Field(columns[i], row[i])])

(* The length of field i: in the prefix, or by the column's type.          *)
FieldLength(columns, raw, i) ==
  IF IsVarchar(columns[i])
  THEN raw[2 * Varchars(columns, i) - 1][1]
  ELSE Width[columns[i].type]

deserialize(columns, raw) ==
  LET offset[i \in 1 .. Len(columns) + 1] ==
        IF i = 1 THEN 2 * Varchars(columns, Len(columns))
        ELSE offset[i - 1] + FieldLength(columns, raw, i - 1)
      data(i) == SubSeq(raw, offset[i] + 1, offset[i + 1])
  IN  [i \in DOMAIN columns |->
        IF IsVarchar(columns[i]) THEN Decoded(data(i)) ELSE data(i)[1][1]]

(* coerce.  A word of an INSERT is a text, with the number that int() and  *)
(* float() read in it if they read one.  Values beyond the columns are     *)
(* dropped; what is missing is noticed by serialize.                       *)
Word(text) == [text |-> text, numeric |-> FALSE, number |-> 0]
Numeral(n) == [text |-> <<48>>, numeric |-> TRUE, number |-> n]

Paired(columns, words) == 1 .. Min({Len(columns), Len(words)})
Coercible(columns, words) ==
  \A i \in Paired(columns, words) :
    /\ columns[i].type \in {"INT", "FLOAT"} => words[i].numeric
    /\ columns[i].type = "INT" => IsInteger(words[i].number)
TrueTexts == {<<49>>, <<116, 114, 117, 101>>}
coerce(columns, words) ==
  [i \in Paired(columns, words) |->
    CASE columns[i].type = "VARCHAR" -> words[i].text
      [] columns[i].type = "BOOL" -> IF words[i].text \in TrueTexts THEN Unit ELSE 0
      [] OTHER -> words[i].number]
=============================================================================
