-------------------------- MODULE MCDatabaseClient --------------------------
(* Instances of DatabaseClient for TLC: an empty table, and ones with ties. *)
EXTENDS DatabaseClient

Old(items) == [from |-> 0, items |-> items]
Tables == {<<>>, <<Old({1, 2})>>, <<Old({2}), Old({0, 2})>>}
=============================================================================
