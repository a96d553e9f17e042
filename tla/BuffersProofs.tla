---------------------------- MODULE BuffersProofs ----------------------------
(***************************************************************************)
(* No view of a row, a column or a response outlives the bytes it points   *)
(* to, for any number of objects, rows, columns and messages: proofs about *)
(* module Buffers.                                                         *)
(***************************************************************************)
EXTENDS Buffers, SequenceTheorems, TLAPS

\* Rows that own the buffer of their values.
OwningRows == {row \in [values : Nat, buffer : Nat] : row.values = row.buffer}

\* Resultsets that own a buffer for each column, and the buffer of the response
\* or of the message with which fetch_one ended them.
OwnBuffer(r) == r.ended \in {"response", "fetch_one"} => r.info = r.buffer
ResultsetType ==
  [valid : BOOLEAN, meta_buffers : Seq(Nat), fields : Seq(Nat), current_row : Nat, buffer : Nat, info : Nat,
   ended : {"no", "response", "fetch_one", "fetch_many"}]
Resultsets == {r \in ResultsetType : r.fields = r.meta_buffers /\ OwnBuffer(r)}

\* The same of operations in progress.
Processors ==
  {p \in [target : Objects, buffer : Nat, field_buffers : Seq(Nat), fields : Seq(Nat), left : Nat] :
     p.fields = p.field_buffers}
Fetches == [object : Objects, left : Nat \ {0}, rows : Seq(OwningRows)]

\* The invariant behind ViewsAreAlive: whatever is looked at is in a buffer of
\* the object it is looked at in.
Ownership ==
  /\ reads \in Nat
  /\ processor # NoProcessor => processor \in Processors
  /\ resultset \in [Objects -> Resultsets]
  /\ fetch # NoFetch => fetch \in Fetches
  /\ owned \subseteq OwningRows
  /\ borrowed \in Objects \cup {"none"}
  /\ borrowed # "none" => resultset[borrowed].current_row = resultset[borrowed].buffer

-----------------------------------------------------------------------------
(* Lemmas *)

\* Whoever owns the buffers keeps the views alive.
LEMMA OwnersKeepViewsAlive == Ownership => ViewsAreAlive
<1> SUFFICES ASSUME Ownership PROVE ViewsAreAlive
  OBVIOUS
<1>1. \A row \in owned : row.values \in Live
  <2> SUFFICES ASSUME NEW row \in owned PROVE row.values \in Live
    OBVIOUS
  <2>1. row.values = row.buffer
    BY DEF Ownership, OwningRows
  <2> QED BY <2>1 DEF Live
<1>2. fetch # NoFetch => \A row \in Range(fetch.rows) : row.values \in Live
  <2> SUFFICES ASSUME fetch # NoFetch, NEW row \in Range(fetch.rows) PROVE row.values \in Live
    OBVIOUS
  <2>1. row \in OwningRows
    BY DEF Ownership, Fetches, Range
  <2>2. row.values = row.buffer
    BY <2>1 DEF OwningRows
  <2>3. row.buffer \in {x.buffer : x \in Range(fetch.rows)}
    OBVIOUS
  <2>4. {x.buffer : x \in Range(fetch.rows)} \subseteq Live
    BY Zenon DEF Live
  <2> QED BY <2>2, <2>3, <2>4
<1>3. \A r \in Objects : resultset[r].buffer \in Live
  <2> TAKE r \in Objects
  <2> DEFINE buffers(x) == {resultset[x].buffer} \cup Range(resultset[x].meta_buffers)
  <2>1. resultset[r].buffer \in buffers(r)
    OBVIOUS
  <2>2. buffers(r) \subseteq UNION {buffers(x) : x \in Objects}
    BY Zenon
  <2>3. UNION {buffers(x) : x \in Objects} \subseteq Live
    BY Zenon DEF Live
  <2> QED BY <2>1, <2>2, <2>3
<1>4. borrowed # "none" => resultset[borrowed].current_row \in Live
  BY <1>3 DEF Ownership
<1>5. \A r \in Objects : resultset[r].fields = resultset[r].meta_buffers /\ OwnBuffer(resultset[r])
  <2> SUFFICES ASSUME NEW r \in Objects
               PROVE  resultset[r].fields = resultset[r].meta_buffers /\ OwnBuffer(resultset[r])
    OBVIOUS
  <2>1. resultset[r] \in Resultsets
    BY DEF Ownership
  <2> QED BY <2>1 DEF Resultsets
<1> QED BY <1>1, <1>2, <1>4, <1>5 DEF ViewsAreAlive, OwnBuffer

\* A default-constructed resultset, and one that has been moved from.
LEMMA InvalidOwns == Invalid \in Resultsets
<1>1. Resultset(<<>>, <<>>, 0, 0, "no") \in Resultsets
  BY DEF Resultset, Resultsets, ResultsetType, OwnBuffer
<1>2. \A r \in Resultsets : [r EXCEPT !.valid = FALSE] \in Resultsets
  BY DEF Resultsets, ResultsetType, OwnBuffer
<1> QED BY <1>1, <1>2 DEF Invalid

\* What a response makes: complete, or with its columns still to be filled.
LEMMA ResponseOwns ==
  ASSUME NEW buffers \in Seq(Nat), NEW buffer \in Nat, NEW ended \in {"no", "response"}
  PROVE  Resultset(buffers, buffers, buffer, buffer, ended) \in Resultsets
BY DEF Resultset, Resultsets, ResultsetType, OwnBuffer

\* A row read by a fetch of many.
LEMMA RowOwns ==
  ASSUME NEW message \in Nat
  PROVE  owning_row(message, message) \in OwningRows
BY DEF owning_row, OwningRows

\* A field definition takes its buffer along.
LEMMA ColumnOwns ==
  ASSUME NEW p \in Processors, p.left > 0, NEW message \in Nat
  PROVE  process_field_definition(p, message) \in Processors
<1>1. /\ Append(p.fields, message) \in Seq(Nat) /\ Append(p.field_buffers, message) \in Seq(Nat)
      /\ p.left - 1 \in Nat /\ p.fields = p.field_buffers
  BY AppendProperties DEF Processors
<1> QED BY <1>1 DEF Processors, process_field_definition

\* A resultset gets a new value, and the row of fetch_one in it is forgotten or
\* was not in it.
LEMMA Assigned ==
  ASSUME Ownership, NEW r \in Objects, NEW value \in Resultsets,
         resultset' = [resultset EXCEPT ![r] = value],
         \/ borrowed' = borrowed /\ borrowed # r
         \/ borrowed' = "none"
         \/ borrowed' = r /\ value.current_row = value.buffer
  PROVE  /\ resultset' \in [Objects -> Resultsets]
         /\ borrowed' \in Objects \cup {"none"}
         /\ borrowed' # "none" => resultset'[borrowed'].current_row = resultset'[borrowed'].buffer
BY NoObject DEF Ownership

\* At first there is nothing to own.
LEMMA OwnershipInit == Init => Ownership
BY InvalidOwns DEF Init, Ownership

\* Moving a resultset leaves nothing of it behind.
LEMMA MoveKeepsOwnership ==
  ASSUME Ownership, NEW from \in Objects, NEW to \in Objects, Move(from, to)
  PROVE  Ownership'
<1>1. Invalid \in Resultsets /\ resultset[from] \in Resultsets
  BY InvalidOwns DEF Ownership
<1>2. resultset' = [[resultset EXCEPT ![to] = resultset[from]] EXCEPT ![from] = Invalid]
  BY DEF Move
<1>3. resultset' \in [Objects -> Resultsets]
  BY <1>1, <1>2 DEF Ownership
<1>4. \A r \in Objects \ {from, to} : resultset'[r] = resultset[r]
  BY <1>2 DEF Ownership
<1>5. borrowed' = "none" \/ (borrowed' = borrowed /\ borrowed \notin {from, to})
  BY DEF Move, Forgets
<1>6. borrowed' # "none" => resultset'[borrowed'].current_row = resultset'[borrowed'].buffer
  BY <1>4, <1>5 DEF Ownership
<1> QED BY <1>3, <1>5, <1>6 DEF Ownership, Move

\* No step takes bytes away from a view of them.
LEMMA OwnershipStep == Ownership /\ [Next]_vars => Ownership'
<1> SUFFICES ASSUME Ownership, [Next]_vars PROVE Ownership'
  OBVIOUS
<1> DEFINE Kept == UNCHANGED resultset /\ UNCHANGED borrowed
           ProcessorOwns == processor # NoProcessor => processor \in Processors
           FetchOwns == fetch # NoFetch => fetch \in Fetches
<1>m. Message \in Nat /\ reads \in Nat /\ 0 \in Nat
  BY DEF Message, Ownership
<1>k. ASSUME Kept
      PROVE  /\ resultset' \in [Objects -> Resultsets]
             /\ borrowed' \in Objects \cup {"none"}
             /\ borrowed' # "none" => resultset'[borrowed'].current_row = resultset'[borrowed'].buffer
  BY <1>k DEF Ownership
<1>r. ASSUME processor # NoProcessor, NEW value \in Resultsets, Return(value)
      PROVE  /\ resultset' \in [Objects -> Resultsets]
             /\ borrowed' \in Objects \cup {"none"}
             /\ borrowed' # "none" => resultset'[borrowed'].current_row = resultset'[borrowed'].buffer
             /\ ProcessorOwns'
  <2>1. processor.target \in Objects
    BY <1>r DEF Ownership, Processors
  <2>2. resultset' = [resultset EXCEPT ![processor.target] = value] /\ processor' = NoProcessor
    BY <1>r DEF Return
  <2>3. borrowed' = "none" \/ (borrowed' = borrowed /\ borrowed # processor.target)
    BY <1>r DEF Return, Forgets
  <2> QED BY <2>1, <2>2, <2>3, Assigned
<1>1. ASSUME NEW r \in Objects, Start(r) PROVE Ownership'
  <2>1. processor' = [target |-> r, buffer |-> 0, field_buffers |-> <<>>, fields |-> <<>>, left |-> 0]
    BY <1>1 DEF Start
  <2>2. processor' \in Processors
    BY <2>1 DEF Processors
  <2> QED BY <1>1, <2>2 DEF Start, Ownership
<1>2. CASE ReadOk
  <2> DEFINE none == <<>>
  <2>0. none \in Seq(Nat)
    OBVIOUS
  <2> HIDE DEF none
  <2>1. Resultset(none, none, Message, Message, "response") \in Resultsets
    BY <1>m, <2>0, ResponseOwns
  <2> USE DEF none
  <2> QED BY <1>2, <1>m, <1>r, <2>1 DEF ReadOk, Read, Ownership
<1>3. CASE ReadFieldCount
  <2>1. PICK n \in FieldCounts : processor' = [processor EXCEPT !.buffer = Message, !.left = n]
    BY <1>3 DEF ReadFieldCount
  <2>2. processor' \in Processors
    BY <1>3, <1>m, <2>1, CountsAssumption DEF ReadFieldCount, Ownership, Processors
  <2> QED BY <1>3, <1>m, <2>2 DEF ReadFieldCount, Read, Ownership
<1>4. CASE ReadField
  <2> DEFINE p == process_field_definition(processor, Message)
  <2>1. processor # NoProcessor /\ p \in Processors
    BY <1>4, <1>m, ColumnOwns DEF ReadField, Ownership
  <2>2. p.fields = p.field_buffers /\ p.fields \in Seq(Nat)
    BY <2>1 DEF Processors
  <2>3. Resultset(p.field_buffers, p.fields, 0, 0, "no") \in Resultsets
    BY <2>2, <1>m, ResponseOwns
  <2>4. reads' = Message /\ fetch' = fetch /\ owned' = owned
    BY <1>4 DEF ReadField, Read
  <2>5. \/ Return(Resultset(p.field_buffers, p.fields, 0, 0, "no"))
        \/ processor' = p /\ Kept
    BY <1>4 DEF ReadField
  <2> HIDE DEF p
  <2> QED BY <1>m, <1>k, <1>r, <2>1, <2>3, <2>4, <2>5 DEF Ownership
<1>5. CASE ExecuteFails
  <2>1. ProcessorOwns' /\ resultset' \in [Objects -> Resultsets] /\ borrowed' \in Objects \cup {"none"}
        /\ (borrowed' # "none" => resultset'[borrowed'].current_row = resultset'[borrowed'].buffer)
    BY <1>5, <1>k, <1>r, InvalidOwns DEF ExecuteFails
  <2> QED BY <1>5, <2>1 DEF ExecuteFails, Ownership
<1>6. ASSUME NEW r \in Objects, FetchOneRow(r) PROVE Ownership'
  <2> DEFINE value == [resultset[r] EXCEPT !.buffer = Message, !.current_row = Message]
  <2>1. resultset[r] \in Resultsets /\ resultset[r].ended = "no"
    BY <1>6 DEF FetchOneRow, Complete, Ownership
  <2>2. value \in Resultsets /\ value.current_row = value.buffer
    BY <1>m, <2>1 DEF Resultsets, ResultsetType, OwnBuffer
  <2>3. resultset' = [resultset EXCEPT ![r] = value] /\ borrowed' = r
    BY <1>6 DEF FetchOneRow, Ownership
  <2> HIDE DEF value
  <2> QED BY <1>6, <1>m, <2>2, <2>3, Assigned DEF FetchOneRow, Read, Ownership
<1>7. ASSUME NEW r \in Objects, FetchOneEof(r) PROVE Ownership'
  <2> DEFINE value == [resultset[r] EXCEPT !.buffer = Message, !.info = Message, !.ended = "fetch_one"]
  <2>1. resultset[r] \in Resultsets
    BY DEF Ownership
  <2>2. value \in Resultsets
    BY <1>m, <2>1 DEF Resultsets, ResultsetType, OwnBuffer
  <2>3. resultset' = [resultset EXCEPT ![r] = value]
    BY <1>7 DEF FetchOneEof, Ownership
  <2>4. borrowed' = "none" \/ (borrowed' = borrowed /\ borrowed # r)
    BY <1>7 DEF FetchOneEof, Forgets
  <2> HIDE DEF value
  <2> QED BY <1>7, <1>m, <2>2, <2>3, <2>4, Assigned DEF FetchOneEof, Read, Ownership
<1>8. ASSUME NEW r \in Objects, FetchOneFails(r) PROVE Ownership'
  <2>1. PICK row \in {resultset[r].current_row, Message} :
          resultset' = [resultset EXCEPT ![r].buffer = Message, ![r].current_row = row]
    BY <1>8 DEF FetchOneFails
  <2> DEFINE value == [resultset[r] EXCEPT !.buffer = Message, !.current_row = row]
  <2>2. resultset[r] \in Resultsets /\ resultset[r].ended = "no"
    BY <1>8 DEF FetchOneFails, Complete, Ownership
  <2>3. value \in Resultsets
    BY <1>m, <2>1, <2>2 DEF Resultsets, ResultsetType, OwnBuffer
  <2>4. resultset' = [resultset EXCEPT ![r] = value]
    BY <2>1 DEF Ownership
  <2>5. borrowed' = "none" \/ (borrowed' = borrowed /\ borrowed # r)
    BY <1>8 DEF FetchOneFails, Forgets
  <2> HIDE DEF value
  <2> QED BY <1>8, <1>m, <2>3, <2>4, <2>5, Assigned DEF FetchOneFails, Read, Ownership
<1>9. ASSUME NEW r \in Objects, NEW count \in Counts, FetchMany(r, count) PROVE Ownership'
  <2>1. fetch' \in Fetches
    BY <1>9, CountsAssumption DEF FetchMany, Fetches
  <2>2. borrowed' = "none" \/ borrowed' = borrowed
    BY <1>9 DEF FetchMany, Forgets
  <2> QED BY <1>9, <2>1, <2>2 DEF FetchMany, Ownership
<1>10. CASE FetchManyRow
  <2> DEFINE rows == Append(fetch.rows, owning_row(Message, Message))
  <2>1. fetch \in Fetches /\ rows \in Seq(OwningRows)
    BY <1>10, <1>m, RowOwns, AppendProperties DEF FetchManyRow, Ownership, Fetches
  <2>2. Range(rows) \subseteq OwningRows
    BY <2>1 DEF Range
  <2>3. \/ FetchReturns(rows)
        \/ fetch.left # 1 /\ fetch' = [fetch EXCEPT !.rows = rows, !.left = @ - 1] /\ UNCHANGED owned
    BY <1>10 DEF FetchManyRow
  <2>4. Kept /\ reads' = Message /\ processor' = processor
    BY <1>10 DEF FetchManyRow, Read
  <2> HIDE DEF rows
  <2>5. FetchOwns' /\ owned' \subseteq OwningRows
    <3>1. CASE FetchReturns(rows)
      BY <3>1, <2>2 DEF FetchReturns, Ownership
    <3>2. CASE fetch.left # 1 /\ fetch' = [fetch EXCEPT !.rows = rows, !.left = @ - 1] /\ UNCHANGED owned
      <4>1. fetch.left - 1 \in Nat \ {0}
        BY <3>2, <2>1 DEF Fetches
      <4>2. fetch' \in Fetches
        BY <3>2, <4>1, <2>1 DEF Fetches
      <4> QED BY <3>2, <4>2 DEF Ownership
    <3> QED BY <2>3, <3>1, <3>2
  <2> QED BY <1>m, <1>k, <2>4, <2>5 DEF Ownership
<1>11. CASE FetchManyEof
  <2>1. fetch \in Fetches /\ fetch.object \in Objects
    BY <1>11 DEF FetchManyEof, Ownership, Fetches
  <2> DEFINE r == fetch.object
             value == [resultset[r] EXCEPT !.info = Message, !.ended = "fetch_many"]
  <2>2. resultset[r] \in Resultsets
    BY <2>1 DEF Ownership
  <2>3. value \in Resultsets
    BY <1>m, <2>2 DEF Resultsets, ResultsetType, OwnBuffer
  <2>4. resultset' = [resultset EXCEPT ![r] = value]
    BY <1>11, <2>1 DEF FetchManyEof, Ownership
  <2>5. borrowed # r \/ (borrowed = r /\ value.current_row = value.buffer)
    BY <2>2 , <2>1, NoObject DEF Ownership, Resultsets, ResultsetType
  <2>6. Range(fetch.rows) \subseteq OwningRows
    BY <2>1 DEF Fetches, Range
  <2>7. FetchOwns' /\ owned' \subseteq OwningRows
    BY <1>11, <2>6 DEF FetchManyEof, FetchReturns, Ownership
  <2>8. reads' = Message /\ processor' = processor /\ borrowed' = borrowed
    BY <1>11 DEF FetchManyEof, Read
  <2> HIDE DEF value, r
  <2>9. r \in Objects
    BY <2>1 DEF r
  <2> QED BY <1>m, <2>3, <2>4, <2>5, <2>7, <2>8, <2>9, Assigned DEF Ownership
<1>12. CASE FetchManyFails
  <2>1. Range(fetch.rows) \subseteq OwningRows
    BY <1>12 DEF FetchManyFails, Ownership, Fetches, Range
  <2>2. Range(<<>>) \subseteq OwningRows
    BY DEF Range
  <2>3. FetchOwns' /\ owned' \subseteq OwningRows
    BY <1>12, <2>1, <2>2 DEF FetchManyFails, FetchReturns, Ownership
  <2> QED BY <1>12, <1>k, <2>3 DEF FetchManyFails, Ownership
<1>13. ASSUME NEW from \in Objects, NEW to \in Objects, Move(from, to) PROVE Ownership'
  BY <1>13, MoveKeepsOwnership
<1>14. ASSUME NEW r \in Objects, Destroy(r) PROVE Ownership'
  <2>1. resultset' = [resultset EXCEPT ![r] = Invalid]
    BY <1>14 DEF Destroy
  <2>2. borrowed' = "none" \/ (borrowed' = borrowed /\ borrowed # r)
    BY <1>14 DEF Destroy, Forgets
  <2> QED BY <1>14, <2>1, <2>2, InvalidOwns, Assigned DEF Destroy, Ownership
<1>15. CASE DestroyRow
  BY <1>15 DEF DestroyRow, Ownership
<1>16. CASE UNCHANGED vars
  BY <1>16 DEF vars, Ownership
<1> QED
  BY <1>1, <1>2, <1>3, <1>4, <1>5, <1>6, <1>7, <1>8, <1>9, <1>10, <1>11, <1>12, <1>13, <1>14, <1>15, <1>16
  DEF Next

\* The invariant, in every behaviour.
LEMMA AlwaysOwned == Spec => []Ownership
BY OwnershipInit, OwnershipStep, PTL DEF Spec

-----------------------------------------------------------------------------
(* Theorem *)

\* Rows, column names and the text of a response are never looked at after the
\* bytes they are in have been dropped, however resultsets are read, moved,
\* assigned and destroyed in between.
THEOREM NoViewDangles == Spec => []ViewsAreAlive
BY AlwaysOwned, OwnersKeepViewsAlive, PTL
=============================================================================
