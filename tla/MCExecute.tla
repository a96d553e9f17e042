------------------------------ MODULE MCExecute ------------------------------
(***************************************************************************)
(* Statements for TLC: answers with ids and numbers of one and more bytes, *)
(* and what is no answer; parameters of each kind, alone and in pairs with *)
(* every other, lists of NULLs and dates around the ends of a bitmap byte, *)
(* 255 parameters, the most that com_stmt_execute_packet asserts, and 256, *)
(* with which a build with assertions aborts and one without them sends    *)
(* the message.                                                            *)
(***************************************************************************)
EXTENDS Execute

Bytes(n) == [i \in 1..n |-> 251 + (i % 5)]
Long == [i \in 1..65536 |-> 7]

ParamValues ==
  {NULL,
   Value("int64", <<-1>>), Value("int64", <<300>>), Value("uint64", <<251>>),
   Value("float", <<-17, -3>>), Value("double", <<1048577, -20>>), Value("double", <<0, 0>>),
   Value("string", <<>>), Value("string", Bytes(250)), Value("string", Bytes(251)),
   Value("date", <<2020, 2, 29>>), Value("datetime", <<1, 12, 31, 23, 59, 58, 999999>>),
   Value("time", <<0, -1>>), Value("time", <<-3020399, -999999>>), Value("time", <<90061, 5>>)}

OnlySome(n, nulls) ==
  [i \in 1..n |-> IF i \in nulls THEN NULL ELSE Value("date", <<2020, 1, 1 + (i % 28)>>)]

MCParamLists ==
  {<<>>, <<Value("string", Long)>>, OnlySome(255, {1, 255}), OnlySome(256, {1, 8, 249})}
    \cup {<<v>> : v \in ParamValues} \cup {<<v, w>> : v \in ParamValues, w \in ParamValues}
    \cup {OnlySome(n, nulls) : n \in {8, 9}, nulls \in {{}, {1}, {8}, {9}, {1, 8, 9}, 1..9}}

MCTexts == {<<>>, <<83, 0, 255>>}

MCAnswers ==
  {Answer("ok", 0, <<>>, 1, 0, n, 0) : n \in {0, 1, 2, 8, 9, 255, 256}}
    \cup {Answer("ok", 0, <<>>, 16777216, 65535, 1, 258)}
    \cup {Answer("error", 1064, <<66, 97, 100>>, 0, 0, 0, 0), Answer("error", 1295, <<>>, 0, 0, 0, 0),
          Answer("other", 0, <<>>, 0, 0, 0, 0), Answer("other", 0, <<0>>, 0, 0, 0, 0),
          Answer("other", 0, <<3, 1>>, 0, 0, 0, 0)}
=============================================================================
