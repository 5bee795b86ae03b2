------------------------------ MODULE MCCodec -------------------------------
(* Values for SclCodec: every shape of value, and the lengths at which its *)
(* coding changes.                                                         *)
EXTENDS SclCodec

Value(t, o, n) == [type |-> t, object |-> o, array_len |-> n]

\* A string, none, an empty one, arrays of strings that hold both kinds of
\* empty one, no array, scalars, arrays with zeros in them, and
\* a block whose length takes two bytes.
MCValues == {
    Value("SCL_INT", <<7, 0, 0, 1>>, 1),
    Value("SCL_BOOL", <<1>>, 1),
    Value("SCL_LONG_A", <<1, 0, 0, 0, 0, 0, 0, 9>>, 1),
    Value("SCL_INT_A", NULL, 0),
    Value("SCL_DATA", [i \in 1 .. 257 |-> i % 3], 257),
    Value("SCL_STRING", <<97, 98>>, 1),
    Value("SCL_STRING", NULL, 1),
    Value("SCL_STRING", <<>>, 0),
    Value("SCL_STRING_A", <<<<97>>, <<98, 99>>, NULL, <<>>>>, 4),
    Value("SCL_STRING_A", NULL, 0)}
=============================================================================
