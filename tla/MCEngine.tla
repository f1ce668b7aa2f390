------------------------------ MODULE MCEngine ------------------------------
(***************************************************************************)
(* Three tables: l (k INT, f FLOAT, v INT), r (s VARCHAR(2), v INT,        *)
(* t VARCHAR) and m (b BOOL, k INT), with statements and queries on them.  *)
(***************************************************************************)
EXTENDS Engine

MCColumns == [
  l |-> <<Column("k", "INT", 0), Column("f", "FLOAT", 0), Column("v", "INT", 0)>>,
  r |-> <<Column("s", "VARCHAR", 2), Column("v", "INT", 0), Column("t", "VARCHAR", 0)>>,
  m |-> <<Column("b", "BOOL", 0), Column("k", "INT", 0)>>]

N(n) == Numeral(Unit * n)
A == 97  \* one byte
E == 233 \* two bytes
L(k, v) == <<N(k), Numeral(5), N(v)>>
R(s, v, t) == <<Word(s), N(v), Word(t)>>
M(b, k) == <<Word(b), N(k)>>
Into(n, words) == [table |-> n, words |-> words]

MCInserts == {
  Into("l", <<L(1, 2), <<N(1), Numeral(5)>>>>),             \* a value short
  Into("l", <<L(2, 2), L(3, 1)>>),
  Into("l", <<L(3, 1), <<Word(<<A>>), N(1), N(1)>>>>),      \* no number
  Into("r", <<R(<<E, A>>, 2, <<E>>)>>),
  Into("r", <<R(<<>>, 1, <<A>>), R(<<A, E, A>>, 2, <<>>)>>),  \* s too long
  Into("m", <<M(<<49>>, 1) \o <<N(9)>>>>)}                  \* a value too many

k == Col("l", "k")
v == Col("l", "v")
rv == Col("r", "v")
rs == Col("r", "s")
mk == Col("m", "k")
I(n) == Lit(Unit * n)
One(left, op, right) == <<Cmp(left, op, right)>>
Not(c) == Cmp(c.left, "other", c.right)

MCDeletes == {
  [table |-> "l", where |-> <<One(k, ">=", I(2))>>],
  [table |-> "l", where |-> <<One(v, "=", I(2)) \o One(k, "<", I(2))>>],
  [table |-> "r", where |-> <<One(rv, "=", I(1)), One(rs, "=", I(1))>>],
  [table |-> "r", where |-> <<One(rs, ">", rv)>>],                    \* TypeError
  [table |-> "l", where |-> <<One(k, ">=", I(1)) \o <<Not(Cmp(v, "=", I(1)))>>>>]}

MCIndexable == {<<"l", "k">>, <<"l", "v">>, <<"r", "v">>, <<"m", "k">>}

Select(from, joins, where, select) ==
  [from |-> from, joins |-> joins, where |-> where, select |-> select]
OnL(where) == Select("l", <<>>, where, <<>>)
Join(n, left, op, right) == [table |-> n, on |-> Cmp(left, op, right)]

Singles ==
  {OnL(<<One(k, op, I(2))>>) : op \in Operators}
    \cup {OnL(<<One(k, "<", Lit(5)), One(I(2), ">=", k)>>),
          OnL(<<One(Col(Unqualified, "k"), ">", I(1)) \o One(k, "<", I(3)), One(v, "=", I(1))>>),
          OnL(<<One(v, "<=", I(2)) \o One(k, ">", I(1)) \o One(v, ">", I(1))>>),
          OnL(<<One(k, "=", I(2)) \o One(k, ">=", I(3))>>),
          OnL(<<One(k, ">", v)>>),
          OnL(<<One(k, ">=", I(1)) \o One(k, "<", I(3)) \o One(k, "<=", I(3)) \o One(k, ">", I(1))>>)}
Texts ==
  {Select("r", <<>>, <<One(rs, ">=", Text(<<A>>)) \o One(rv, "<=", I(2))>>, <<rs>>),
   Select("r", <<>>, <<One(rs, "=", rv), One(rs, "<", Col("r", "t"))>>, <<rs>>)}

Wheres == {<<>>, <<One(k, "<=", I(2))>>, <<One(rv, "=", I(2))>>,
           <<One(k, "=", rv) \o One(v, ">", I(1))>>,
           <<One(k, "=", I(1)) \o One(v, "=", I(2)), One(rv, "=", I(1))>>}
Pairs ==
  {Select("l", <<Join("r", on[1], "=", on[2])>>, where, <<rv, k>>) :
     on \in {<<v, rv>>, <<k, rv>>}, where \in Wheres}
    \cup {Select("r", <<Join("l", rv, "=", v)>>, where, <<Col("r", "t"), v, I(1)>>) :
            where \in {<<>>, <<One(k, "<=", I(2))>>}}
    \cup {Select("l", <<Join("r", v, ">", rv)>>, <<>>, <<>>)}
Triples ==
  {Select("l", <<Join("r", v, "=", rv), Join("m", k, "=", mk)>>, where, <<mk, rv>>) :
     where \in {<<>>, <<One(mk, "=", I(1))>>, <<One(rv, "<=", k)>>}}

MCQueries == Singles \cup Texts \cup Pairs \cup Triples
=============================================================================
