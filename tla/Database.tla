------------------------------ MODULE Database ------------------------------
(***************************************************************************)
(* What the services rely on when a transaction that has read a row stores *)
(* it again.  SQLAlchemy writes an UPDATE that names the row by its key    *)
(* and sets the columns that changed in Python; no row carries a version   *)
(* and no SELECT locks.  What the database makes of that UPDATE when the   *)
(* row was changed after the transaction's snapshot depends on it:         *)
(*   FirstUpdaterWins       the UPDATE is refused and the transaction      *)
(*                          rolled back (innodb_snapshot_isolation, on by  *)
(*                          default from MariaDB 11.6.2);                  *)
(*   ~FirstUpdaterWins      the columns computed from the old row land on  *)
(*                          the new one (MySQL, older MariaDB, and the     *)
(*                          READ COMMITTED of docker-compose.yml's         *)
(*                          PostgreSQL).                                   *)
(* Rows are only compared here: a row that changed and changed back counts *)
(* as unchanged, where InnoDB would compare transaction ids.               *)
(***************************************************************************)

CONSTANTS NoRow,             \* "the SELECT returned no row", for any table
          FirstUpdaterWins

ASSUME SwitchAssumption == FirstUpdaterWins \in BOOLEAN

\* An ORM update of the row `now': the columns in which `new' differs from the
\* row `read' are set.
Written(now, read, new) ==
  [c \in DOMAIN new |-> IF new[c] = read[c] THEN now[c] ELSE new[c]]

\* What the table holds after a transaction that read `read' stores `new', when
\* it holds `now' at the commit.
Stored(now, read, new) == IF read = NoRow THEN new ELSE Written(now, read, new)

\* The INSERT of a row that was not there must not meet its key.
CanInsert(now, read) == read = NoRow => now = NoRow

\* The database lets the transaction insert or update the row.
CanStore(now, read, new) ==
  /\ CanInsert(now, read)
  /\ FirstUpdaterWins /\ read # NoRow /\ read # new => now = read

=============================================================================
