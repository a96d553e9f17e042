------------------------------ MODULE MCSession ------------------------------
(***************************************************************************)
(* Responses for the model checker: without rows, with an error at once,   *)
(* with rows, with a head, a field definition, a row or a final OK packet  *)
(* the client cannot deserialize, with an error in the middle of the rows, *)
(* with a row that looks like the end of the rows.                         *)
(***************************************************************************)
EXTENDS Session

RegularResponses ==
  {<<"ok">>, <<"error">>,
   <<"count", "field", "eof">>,
   <<"count", "field", "field", "row", "row", "row", "eof">>,
   <<"count", "field", "row", "error">>}

IrregularResponses ==
  {<<"bad_head">>, <<"bad_head", "field", "row", "eof">>,
   <<"count", "field", "row", "bad_eof">>,
   <<"count", "field", "row", "bad_row", "row", "eof">>,
   <<"count", "field", "field", "bad_field", "row", "eof">>}

QueryResponses == RegularResponses \cup IrregularResponses
HugeResponses == RegularResponses \cup {<<"count", "field", "row", "huge_row", "row", "eof">>}

PrepareResponses == {<<"error">>, <<"prepared">>, <<"prepared", "meta", "meta">>, <<"bad_head", "meta">>}
=============================================================================
