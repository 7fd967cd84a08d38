---------------------------- MODULE RequestStore ----------------------------
(***************************************************************************)
(* The database file beside the sessions and runs (internal/storage/       *)
(* sqlite.go): its schema, migrated step by step by every process that     *)
(* opens it, the captured requests, and the hourly and daily totals kept   *)
(* with them.  Two processes have the file: the server and a command line  *)
(* (`modeltap metrics rebuild` opens the same file).                       *)
(***************************************************************************)
EXTENDS Naturals, FiniteSets, FiniteSetsExt

CONSTANTS
    Hour,      \* the hours requests are made in, all of one day
    MaxOpens   \* bound: times the file is opened

Process == {"server", "cli"}

\* MaxKnownSchemaVersion; version i adds the tables (columns) i.
Version == 1 .. 4

\* The strftime formats of RebuildMetrics are not passed through Sprintf, so %%
\* stays and SQLite makes a plain % of it: one bucket for everything.
Literal == "%Y-%m-%d"
Day == "day"

ASSUME RequestStoreAssumption ==
    Literal \notin Hour /\ IsFiniteSet(Hour) /\ MaxOpens \in Nat

VARIABLES
    file,    \* version: PRAGMA user_version; has: the versions whose tables exist
    opener,  \* NewSQLiteStore of a process: at, the next step
    opens,   \* times the file was opened
    rows,    \* the requests table
    hourly, daily   \* request_count and output_tokens of an hour, of a day

storeVars == <<file, opener, opens, rows, hourly, daily>>

Closed == [at |-> "closed", step |-> 1]
Zero == [count |-> 0, output |-> 0]

StoreInit ==
    /\ file = [version |-> 0, has |-> {}]
    /\ opener = [p \in Process |-> Closed]
    /\ opens = 0
    /\ rows = {}
    /\ hourly = [h \in Hour \cup {Literal} |-> Zero]
    /\ daily = [d \in {Day, Literal} |-> Zero]

IsOpen(p) == opener[p].at = "open"

-----------------------------------------------------------------------------
(* Migration *)

\* Mutant: the comparison of a step with the version is off by one.
NextStepSkipped(version) == IF version = 0 THEN 1 ELSE version + 2

\* Every step above the version runs, in order; the version is read once, before
\* the first of them.
NextStep(version) == version + 1

\* NewSQLiteStore.
OpenStore(p) ==
    /\ opener[p].at = "closed"
    /\ opens < MaxOpens
    /\ opens' = opens + 1
    /\ opener' = [opener EXCEPT ![p] = [at |-> "migrating", step |-> NextStep(file.version)]]
    /\ UNCHANGED <<file, rows, hourly, daily>>

At(p, i) == opener[p].at = "migrating" /\ opener[p].step = i
Passed(p) == [opener EXCEPT ![p].step = @ + 1]

\* migrateToV1: statements of their own, tables IF NOT EXISTS and then the
\* version, which another process may have raised in between.
MigrateToV1(p) ==
    /\ At(p, 1)
    /\ file' = [file EXCEPT !.has = @ \cup {1}]
    /\ opener' = [opener EXCEPT ![p].at = "v1"]
    /\ UNCHANGED <<opens, rows, hourly, daily>>

MigrateToV1Version(p) ==
    /\ opener[p].at = "v1"
    /\ file' = [file EXCEPT !.version = 1]
    /\ opener' = [opener EXCEPT ![p].at = "migrating", ![p].step = 2]
    /\ UNCHANGED <<opens, rows, hourly, daily>>

\* One transaction each, and CREATE TABLE fails when the table exists.
CreateTables(p, i) ==
    /\ At(p, i)
    /\ IF i \in file.has
       THEN opener' = [opener EXCEPT ![p].at = "failed"] /\ UNCHANGED file
       ELSE opener' = Passed(p) /\ file' = [version |-> i, has |-> file.has \cup {i}]
    /\ UNCHANGED <<opens, rows, hourly, daily>>

MigrateToV2(p) == CreateTables(p, 2)
MigrateToV3(p) == CreateTables(p, 3)

\* migrateToV4: columns and indexes that exist are left alone.
MigrateToV4(p) ==
    /\ At(p, 4)
    /\ file' = [version |-> 4, has |-> file.has \cup {4}]
    /\ opener' = Passed(p)
    /\ UNCHANGED <<opens, rows, hourly, daily>>

Opened(p) ==
    /\ opener[p].at = "migrating" /\ opener[p].step > 4
    /\ opener' = [opener EXCEPT ![p].at = "open"]
    /\ UNCHANGED <<file, opens, rows, hourly, daily>>

Migrate(p) ==
    \/ MigrateToV1(p) \/ MigrateToV1Version(p)
    \/ MigrateToV2(p) \/ MigrateToV3(p)
    \/ MigrateToV4(p)
    \/ Opened(p)

-----------------------------------------------------------------------------
(* Requests and totals *)

Counted(total, row) == [count |-> total.count + 1, output |-> total.output + row.output]

\* SaveRequest: the row and both totals in one transaction.
SaveRequest(row) ==
    /\ rows' = rows \cup {row}
    /\ hourly' = [hourly EXCEPT ![row.hour] = Counted(@, row)]
    /\ daily' = [daily EXCEPT ![Day] = Counted(@, row)]
    /\ UNCHANGED <<file, opener, opens>>

Rebuilt(totals) ==
    [b \in DOMAIN totals |->
        IF b = Literal
        THEN [count |-> Cardinality(rows), output |-> MapThenSumSet(LAMBDA r : r.output, rows)]
        ELSE Zero]

\* Mutant: the daily totals are not cleared before they are filled in again.
RebuildKeepsDaily(p) ==
    /\ IsOpen(p)
    /\ hourly' = Rebuilt(hourly)
    /\ daily' = [Rebuilt(daily) EXCEPT ![Day] = daily[Day]]
    /\ UNCHANGED <<file, opener, opens, rows>>

\* RebuildMetrics, `modeltap metrics rebuild`: both tables cleared and filled in
\* from the rows, in one transaction.
RebuildMetrics(p) ==
    /\ IsOpen(p)
    /\ hourly' = Rebuilt(hourly)
    /\ daily' = Rebuilt(daily)
    /\ UNCHANGED <<file, opener, opens, rows>>

\* The command ends and closes the file, or a process dies: an open transaction
\* rolls back, what was committed stays.
CloseStore(p) ==
    /\ opener' = [opener EXCEPT ![p] = Closed]
    /\ UNCHANGED <<file, opens, rows, hourly, daily>>
=============================================================================
