------------------------------ MODULE MCSaisOmp ------------------------------
EXTENDS SaisOmp

HalfDef == 32
JunkDef == {-32, -5}

Job(kind0, t) == [kind |-> kind0, text |-> t]

\* All short texts of two symbols, and texts made of words, in which there are
\* runs of entries, symbols and equal names for both threads.
Concat(ws) ==
  LET upto[i \in 0 .. Len(ws)] == IF i = 0 THEN <<>> ELSE upto[i - 1] \o ws[i] IN upto[Len(ws)]
FromZero(s)         == [i \in 0 .. Len(s) - 1 |-> s[i + 1]]
Words(words, count) == {FromZero(Concat(ws)) : ws \in [1 .. count -> words]}

Bytes ==
  [0 .. 6 -> 0 .. 1]
  \cup Words({<<0, 1>>, <<0, 2>>, <<1, 2>>}, 5)
  \cup Words({<<0, 2>>, <<0, 1>>}, 7)
  \cup {FromZero(Concat([i \in 1 .. c |-> <<0, 1>>])) : c \in {10, 11, 12}}

\* Texts of one block, and of two.
Integers32s ==
  {FromZero(Concat(<<v, w, v>>)) : v, w \in {<<0, 1>>, <<0, 2>>, <<0, 1, 2>>, <<1, 0, 2, 2>>}}
  \cup Words({<<0, 1, 0, 2>>, <<0, 0, 1, 2>>}, 4)
  \cup Words({<<0, 1>>, <<0, 2>>}, 6)

\* Texts near the largest that 32 bits can index, and of a few names.
Wides ==
  {Job("wide", [p \in 0 .. size - 1 |-> (p * p + p \div 5) % 3]) : size \in {26, 30, 31}}
  \cup {Job("wide_names", t) : t \in Words({<<0, 1>>, <<0, 2>>}, 6)}

JobsDef ==
  Wides \cup
  {Job("8u", t) : t \in Bytes}
  \cup {Job(x, t) : x \in {"6k", "4k", "2k", "1k"}, t \in Integers32s}
=============================================================================
