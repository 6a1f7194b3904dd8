------------------------------ MODULE MCValues ------------------------------
\* The calls of Values, with an int of 4 bits and an unsigned short of 3.
EXTENDS Values

\* Of three parameters the first has no name.
Params == <<"", "$a", ":b">>

Plain(t) == [type |-> t, n |-> 0]
Number(n) == [type |-> "number", n |-> n]

\* Integers inside and outside of -8..7.
Numbers == {Number(n) : n \in {-9, -8, 7, 8, 17}}
Every == {Plain(t) : t \in JsTypes \ {"number"}} \cup Numbers
Few == {Plain("string"), Plain("undefined"), Number(8)}

Name(s) == [name |-> s, numeric |-> FALSE, n |-> 0]
Num(s, n) == [name |-> s, numeric |-> TRUE, n |-> n]

ObjectKeys ==
  { Name("$a"), Name(":b"), Name("$c"), Num("0", 0), Num("1", 1), Num("2", 2),
    Num("4", 4), Num("9", 9), Num("-1", -1) }

Listed(vs) == [i \in DOMAIN vs |-> [key |-> Name(""), value |-> vs[i]]]

Lists ==
  {[shape |-> "list", entries |-> Listed(vs)] :
     vs \in {<<v>> : v \in Every \ {Plain("object")}} \cup
            {<<v, w>> : v \in Few, w \in Few} \cup {<<u, v, w>> : u, v, w \in Few}}

\* Arrays may be longer than unsigned short counts.
Arrays ==
  {[shape |-> "array", entries |-> Listed(vs)] :
     vs \in UNION {[1..n -> {Plain("undefined"), Plain("string")}] : n \in {0, 3, 4}} \cup
            {[i \in 1..9 |-> IF i \in at THEN Plain("buffer") ELSE Plain("undefined")] :
               at \in {{9}, {1, 9}, {8}}}}

Objects ==
  {o \in {[shape |-> "object",
           entries |-> [i \in DOMAIN ks |-> [key |-> ks[i], value |-> vs[i]]]] :
            ks \in {<<a, b>> : a, b \in ObjectKeys},
            vs \in {<<Plain("string"), Number(8)>>, <<Plain("undefined"), Plain("date")>>}} :
     /\ o.entries[1].key # o.entries[2].key
     /\ KeysOf(o.entries) = PropertyOrder(KeysOf(o.entries))}

AllCalls == {[shape |-> "none", entries |-> <<>>]} \cup Lists \cup Arrays \cup Objects

ColumnNames == {Name("a"), Name("b"), Num("1", 1), Num("2", 2)}
=============================================================================
