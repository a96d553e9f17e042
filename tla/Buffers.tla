------------------------------- MODULE Buffers -------------------------------
(***************************************************************************)
(* Who owns the bytes that rows, metadata and OK packets point into.       *)
(*                                                                         *)
(* Strings are never copied out of a message: a value, a field_metadata or *)
(* an OK packet holds views of the buffer the message was read into.  Here *)
(* the contents of the buffers are numbered in the order they are read.  A *)
(* buffer is its contents, 0 if it is empty; to move it moves the          *)
(* contents, as bytestring is a vector; to read into it or to destroy it   *)
(* drops them.  A view is the contents it was made for.                    *)
(*                                                                         *)
(* The user follows the documentation: one operation at a time, and no     *)
(* resultset moved, assigned or destroyed while an operation uses it.      *)
(***************************************************************************)
EXTENDS Naturals, Sequences, FiniteSets, Functions

CONSTANTS
  Objects,        \* the resultset objects of the user
  FieldCounts,    \* how many fields a resultset may have
  Counts,         \* the row counts given to fetch_many
  MaxReads        \* bound on the messages read

ASSUME NoObject == "none" \notin Objects
ASSUME CountsAssumption == FieldCounts \subseteq Nat \ {0} /\ Counts \subseteq Nat \ {0}
ASSUME MaxReadsAssumption == MaxReads \in Nat

VARIABLES
  reads,          \* messages read so far
  processor,      \* the execute_processor in use, or NoProcessor
  resultset,      \* the resultset in each object
  fetch,          \* the fetch_many in progress, or NoFetch
  owned,          \* the owning_rows the user has
  borrowed        \* the object whose row from fetch_one the user has, or "none"

vars == <<reads, processor, resultset, fetch, owned, borrowed>>

-----------------------------------------------------------------------------
(* Objects *)

\* How the resultset became complete: by its response or by a fetch.
Resultset(meta_buffers, fields, buffer, info, ended) ==
  [valid |-> TRUE, meta_buffers |-> meta_buffers, fields |-> fields, current_row |-> 0,
   buffer |-> buffer, info |-> info, ended |-> ended]
Invalid == [Resultset(<<>>, <<>>, 0, 0, "no") EXCEPT !.valid = FALSE]

Complete(r) == resultset[r].ended # "no"

RowWithoutBuffer(values, buffer) == [values |-> values, buffer |-> 0]
owning_row(values, buffer) == [values |-> values, buffer |-> buffer]

NoProcessor == [target |-> "none"]
NoFetch == [object |-> "none"]

Idle == processor = NoProcessor /\ fetch = NoFetch

\* The contents of all the buffers there are.
Live ==
  {row.buffer : row \in owned}
    \cup (UNION {{resultset[r].buffer} \cup Range(resultset[r].meta_buffers) : r \in Objects})
    \cup (IF processor = NoProcessor THEN {} ELSE {processor.buffer} \cup Range(processor.field_buffers))
    \cup (IF fetch = NoFetch THEN {} ELSE {row.buffer : row \in Range(fetch.rows)})

Init ==
  /\ reads = 0
  /\ processor = NoProcessor
  /\ resultset = [r \in Objects |-> Invalid]
  /\ fetch = NoFetch
  /\ owned = {} /\ borrowed = "none"

\* A message is read into some buffer, which gets the contents Message.
Message == reads + 1
Read == reads < MaxReads /\ reads' = Message

\* A row of fetch_one goes with the resultset it is in.
Forgets(objects) == borrowed' = IF borrowed \in objects THEN "none" ELSE borrowed

-----------------------------------------------------------------------------
(* Queries and executions *)

Start(target) ==
  /\ Idle
  /\ processor' = [target |-> target, buffer |-> 0, field_buffers |-> <<>>, fields |-> <<>>, left |-> 0]
  /\ UNCHANGED <<reads, resultset, fetch, owned, borrowed>>

\* The resultset is moved into the object of the user, whose old one goes.
Return(r) ==
  /\ resultset' = [resultset EXCEPT ![processor.target] = r]
  /\ processor' = NoProcessor
  /\ Forgets({processor.target})

\* An OK packet: an empty resultset that keeps the buffer.
ReadOk ==
  /\ processor # NoProcessor /\ processor.left = 0
  /\ Read
  /\ Return(Resultset(<<>>, <<>>, Message, Message, "response"))
  /\ UNCHANGED <<fetch, owned>>

ReadFieldCount ==
  /\ processor # NoProcessor /\ processor.left = 0
  /\ Read
  /\ \E n \in FieldCounts : processor' = [processor EXCEPT !.buffer = Message, !.left = n]
  /\ UNCHANGED <<resultset, fetch, owned, borrowed>>

\* The buffer is reused for the next field.
FieldsShareBuffer(p, message) ==
  [p EXCEPT !.fields = Append(@, message), !.buffer = message, !.left = @ - 1]

\* The buffer becomes one of field_buffers_ and the processor gets another.
process_field_definition(p, message) ==
  [p EXCEPT !.fields = Append(@, message), !.field_buffers = Append(@, message),
            !.buffer = 0, !.left = @ - 1]

ReadField ==
  LET p == process_field_definition(processor, Message) IN
  /\ processor # NoProcessor /\ processor.left > 0
  /\ Read
  /\ IF p.left = 0
       THEN Return(Resultset(p.field_buffers, p.fields, 0, 0, "no"))
       ELSE processor' = p /\ UNCHANGED <<resultset, borrowed>>
  /\ UNCHANGED <<fetch, owned>>

\* An error on the way: the user gets an invalid resultset, or an exception and
\* nothing.
ExecuteFails ==
  /\ processor # NoProcessor
  /\ Return(Invalid) \/ (processor' = NoProcessor /\ UNCHANGED <<resultset, borrowed>>)
  /\ UNCHANGED <<reads, fetch, owned>>

-----------------------------------------------------------------------------
(* Fetches *)

\* fetch_one reads into the buffer and the row of the resultset.
FetchOneRow(r) ==
  /\ Idle /\ resultset[r].valid /\ ~Complete(r)
  /\ Read
  /\ resultset' = [resultset EXCEPT ![r].buffer = Message, ![r].current_row = Message]
  /\ borrowed' = r
  /\ UNCHANGED <<processor, fetch, owned>>

FetchOneEof(r) ==
  /\ Idle /\ resultset[r].valid /\ ~Complete(r)
  /\ Read
  /\ resultset' = [resultset EXCEPT ![r].buffer = Message, ![r].info = Message, ![r].ended = "fetch_one"]
  /\ Forgets({r})
  /\ UNCHANGED <<processor, fetch, owned>>

\* A message that is no row, or only the first values of one.
FetchOneFails(r) ==
  /\ Idle /\ resultset[r].valid /\ ~Complete(r)
  /\ Read
  /\ \E row \in {resultset[r].current_row, Message} :
       resultset' = [resultset EXCEPT ![r].buffer = Message, ![r].current_row = row]
  /\ Forgets({r})
  /\ UNCHANGED <<processor, fetch, owned>>

\* On a complete resultset no fetch does anything.
FetchMany(r, count) ==
  /\ Idle /\ resultset[r].valid /\ ~Complete(r)
  /\ fetch' = [object |-> r, left |-> count, rows |-> <<>>]
  /\ Forgets({r})
  /\ UNCHANGED <<reads, processor, resultset, owned>>

\* The rows are the user's; the buffer for the next one, if it has been used,
\* goes.
FetchReturns(rows) == fetch' = NoFetch /\ owned' = owned \cup Range(rows)

FetchManyRow ==
  /\ fetch # NoFetch
  /\ Read
  /\ LET rows == Append(fetch.rows, owning_row(Message, Message)) IN
     IF fetch.left = 1 THEN FetchReturns(rows)
                       ELSE /\ fetch' = [fetch EXCEPT !.rows = rows, !.left = @ - 1]
                            /\ UNCHANGED owned
  /\ UNCHANGED <<processor, resultset, borrowed>>

\* The OK packet is the resultset's, the buffer that it was read into is not.
FetchManyEof ==
  /\ fetch # NoFetch
  /\ Read
  /\ resultset' = [resultset EXCEPT ![fetch.object].info = Message, ![fetch.object].ended = "fetch_many"]
  /\ FetchReturns(fetch.rows)
  /\ UNCHANGED <<processor, borrowed>>

\* The rows before the error are returned with it, or lost with an exception.
FetchManyFails ==
  /\ fetch # NoFetch
  /\ FetchReturns(fetch.rows) \/ FetchReturns(<<>>)
  /\ UNCHANGED <<reads, processor, resultset, borrowed>>

-----------------------------------------------------------------------------
(* The user *)

InUse == {processor.target, fetch.object}

\* What is moved from is assigned or destroyed, and never used again.
Move(from, to) ==
  /\ from # to /\ {from, to} \cap InUse = {} /\ resultset[from].valid
  /\ resultset' = [resultset EXCEPT ![to] = resultset[from], ![from] = Invalid]
  /\ Forgets({from, to})
  /\ UNCHANGED <<reads, processor, fetch, owned>>

Destroy(r) ==
  /\ r \notin InUse /\ resultset[r].valid
  /\ resultset' = [resultset EXCEPT ![r] = Invalid]
  /\ Forgets({r})
  /\ UNCHANGED <<reads, processor, fetch, owned>>

DestroyRow ==
  /\ \E row \in owned : owned' = owned \ {row}
  /\ UNCHANGED <<reads, processor, resultset, fetch, borrowed>>

Next ==
  \/ \E r \in Objects :
       \/ Start(r) \/ FetchOneRow(r) \/ FetchOneEof(r) \/ FetchOneFails(r)
       \/ \E count \in Counts : FetchMany(r, count)
       \/ \E to \in Objects : Move(r, to)
       \/ Destroy(r)
  \/ ReadOk \/ ReadFieldCount \/ ReadField \/ ExecuteFails
  \/ FetchManyRow \/ FetchManyEof \/ FetchManyFails
  \/ DestroyRow

Spec == Init /\ [][Next]_vars

-----------------------------------------------------------------------------
(* Properties *)

\* Whatever is moved, destroyed or read in between: the rows of fetch_many and
\* the names in the metadata of a resultset stay what they were, a row of
\* fetch_one does until its resultset is used again, and so does the text of the
\* OK packet of a resultset that its response or fetch_one completed.
ViewsAreAlive ==
  /\ \A row \in owned : row.values \in Live
  /\ fetch # NoFetch => \A row \in Range(fetch.rows) : row.values \in Live
  /\ borrowed # "none" => resultset[borrowed].current_row \in Live
  /\ \A r \in Objects : resultset[r].valid =>
       /\ Range(resultset[r].fields) \subseteq Range(resultset[r].meta_buffers)
       /\ resultset[r].ended \in {"response", "fetch_one"} => resultset[r].info = resultset[r].buffer

\* resultset::info: "additional text information about the execution", to be had
\* from every complete resultset.
InfoIsAlive == \A r \in Objects : resultset[r].valid /\ Complete(r) => resultset[r].info \in Live
=============================================================================
