------------------------------ MODULE RowUpdate ------------------------------
(***************************************************************************)
(* How SQLAlchemy writes a row back.  A session keeps one in-memory copy   *)
(* of a row (the identity map), loaded once per transaction and never      *)
(* refreshed by a later query of the same transaction.  A flush emits      *)
(*   UPDATE ... SET <the columns whose value differs from the loaded one>  *)
(* so a column the handler leaves alone, or sets to the value it already   *)
(* loaded, keeps whatever another transaction has committed meanwhile.     *)
(* backend/database.py creates every session with autoflush off, and the   *)
(* durable deployment profile is PostgreSQL at READ COMMITTED.             *)
(***************************************************************************)
EXTENDS Integers

\* The committed row after a transaction that loaded `loaded' and flushes
\* `new' commits on top of the row `current'.
Flush(current, loaded, new) ==
    [c \in DOMAIN current |-> IF new[c] # loaded[c] THEN new[c] ELSE current[c]]

\* Rows by id: one row, and a table after `new' has been inserted, or written
\* over the rows it has.
OneRow(id, columns) == [i \in {id} |-> columns]

\* Balances after a handler has taken n from a and then added m to b.  The two
\* may be the same account: the second assignment sees the first.
MoveAmount(balances, a, n, b, m) == [[balances EXCEPT ![a] = @ - n] EXCEPT ![b] = @ + m]

Put(new, table) == [i \in DOMAIN new \cup DOMAIN table |-> IF i \in DOMAIN new THEN new[i] ELSE table[i]]
==============================================================================
