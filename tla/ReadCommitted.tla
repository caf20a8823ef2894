---------------------------- MODULE ReadCommitted ----------------------------
(***************************************************************************)
(* PostgreSQL rows as the services see them: every service runs in one     *)
(* interactive READ COMMITTED transaction (db/transaction.ts) and relies   *)
(* on conditional UPDATEs and row locks only.  A row keeps its last        *)
(* committed value, the value written by the transaction that holds its    *)
(* lock, and that holder.  Tables are functions from row identities to     *)
(* rows; a session is one open transaction at a time.                      *)
(***************************************************************************)
CONSTANTS
    Session,    \* database sessions, each running one transaction at a time
    NoSession   \* the holder of an unlocked row

ASSUME NoSessionIsNotASession == NoSession \notin Session

Row(Value) == [saved : Value, new : Value, holder : Session \cup {NoSession}]

\* A row nobody holds: the committed value is the only one.
Stored(v) == [saved |-> v, new |-> v, holder |-> NoSession]

\* What a statement of session s reads: its own write, else the last commit.
View(row, s) == IF row.holder = s THEN row.new ELSE row.saved

\* A write by s does not have to wait for another transaction to end.
Free(row, s) == row.holder \in {NoSession, s}

Written(row, s, v) == [row EXCEPT !.new = v, !.holder = s]

\* COMMIT and ROLLBACK release every row that s holds.
Committed(table, s) ==
    [r \in DOMAIN table |->
        IF table[r].holder = s THEN Stored(table[r].new) ELSE table[r]]

RolledBack(table, s) ==
    [r \in DOMAIN table |->
        IF table[r].holder = s THEN Stored(table[r].saved) ELSE table[r]]
==============================================================================
