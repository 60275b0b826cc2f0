--------------------------------- MODULE KV ---------------------------------
(***************************************************************************)
(* botkit's metadata store (store/kv.go): one SQLite table, botkit_kv,     *)
(* whose primary key is the namespaced key.  The table is a set of rows,   *)
(* the way the SQL statements see it; a key is <<namespace, name>>, so     *)
(* that the LIKE of the sweep is a test on the namespace.  Every operator  *)
(* is one SQL statement, and SQLite runs a statement atomically.           *)
(* Errors and crashes around a statement are the caller's business: the    *)
(* modules that use the store say where they may strike.                   *)
(***************************************************************************)
EXTENDS Integers

(* Mutant: opening starts a fresh table.                                   *)
OpenedAfresh(kv) == {}

(* CREATE TABLE IF NOT EXISTS: what was there stays.                       *)
Opened(kv) == kv

Rows(kv, key) == {row \in kv : row.key = key}

Has(kv, key) == Rows(kv, key) # {}

(* Get and Consume return the row's value; only meaningful when Has.       *)
Get(kv, key) == (CHOOSE row \in kv : row.key = key).value

(* DELETE FROM botkit_kv WHERE key = ?                                     *)
Delete(kv, key) == kv \ Rows(kv, key)

(* INSERT ... ON CONFLICT(key) DO UPDATE: second is datetime('now').       *)
Set(kv, key, value, second) ==
  Delete(kv, key) \cup {[key |-> key, value |-> value, updated_at |-> second]}

(* Mutant: a Consume relaxed into a Get.                                   *)
ConsumeKeeps(kv, key) == kv

(* What is left after DELETE ... RETURNING: Consume is this and Get in one *)
(* statement.                                                              *)
Consume(kv, key) == Delete(kv, key)

(* Mutant: a row exactly age old goes too.                                 *)
DeleteExpiredEarly(kv, prefix, age, second) ==
  {row \in kv : ~ (row.key[1] = prefix /\ row.updated_at <= second - age)}

(* Mutant: the sweep does not look at the namespace.                       *)
DeleteExpiredAnywhere(kv, prefix, age, second) ==
  {row \in kv : ~ row.updated_at < second - age}

(* DELETE ... WHERE key LIKE prefix AND updated_at < now - age: both sides *)
(* are whole seconds.                                                      *)
DeleteExpired(kv, prefix, age, second) ==
  {row \in kv : ~ (row.key[1] = prefix /\ row.updated_at < second - age)}
=============================================================================
