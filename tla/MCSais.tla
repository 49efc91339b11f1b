------------------------------- MODULE MCSais -------------------------------
EXTENDS Sais

HalfDef == 64
JunkDef == {-64, -5}

Bytes(t, k, fs) == [bytes |-> TRUE, text |-> t, n |-> Cardinality(DOMAIN t), k |-> k, fs |-> fs]
Ints(t, k, fs)  == [bytes |-> FALSE, text |-> t, n |-> Cardinality(DOMAIN t), k |-> k, fs |-> fs]

\* Texts made of words: many substrings between LMS positions are equal, with
\* two words also in the text of the names, so that its call recurses again.
Joined(ws) ==
  LET upto[i \in 0 .. Len(ws)] == IF i = 0 THEN <<>> ELSE upto[i - 1] \o ws[i] IN upto[Len(ws)]
FromZero(s)         == [i \in 0 .. Len(s) - 1 |-> s[i + 1]]
Texts(words, count) == {FromZero(Joined(ws)) : ws \in [1 .. count -> words]}
Strings(k, lengths) == UNION {[0 .. n - 1 -> 0 .. k - 1] : n \in lengths}

ThreeWords == Texts({<<0, 1>>, <<0, 2>>, <<0, 0, 1>>}, 6)
TwoWords   == Texts({<<0, 1>>, <<0, 2>>}, 9)

\* The free space is chosen so that every variant is called.
JobsDef ==
  {Bytes(t, 3, 1) : t \in Strings(3, 0 .. 6) \cup ThreeWords \cup TwoWords}
  \cup {Ints(t, 2, fs) : t \in Strings(2, 1 .. 7), fs \in {0, 2, 4, 8, 12}}
  \cup {Ints(t, 3, fs) : t \in ThreeWords \cup TwoWords, fs \in {0, 3, 6, 12, 18}}
=============================================================================
