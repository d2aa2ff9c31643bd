------------------------------ MODULE Startup ------------------------------
(***************************************************************************)
(* ServiceLocator::initialize with Migrations::run: the start of a run of  *)
(* the application, step by step.  Any step may fail, which ends the       *)
(* attempt, and the process may die after any; the user then tries again.  *)
(*                                                                         *)
(* A transaction works on a copy that COMMIT makes the database at once;   *)
(* a statement outside of one is committed by itself (SQLite).             *)
(***************************************************************************)
EXTENDS Naturals

CONSTANT Tables  \* number of tables the migration creates (12)

ASSUME TablesAssumption == Tables \in Nat \ {0}

VARIABLES phase,  \* how far initialize has come
          schema, \* the statements of the migration that are committed
          work,   \* those executed in the open transaction, too
          at      \* the statement that is executed next

startup == <<phase, schema, work, at>>

\* The last statement writes the version; the others create a table each.
Version   == Tables + 1
Statement == 1..Version

Phases == {"off", "unlocked", "migrating", "migrated", "ready"}

StartupInit == phase = "off" /\ schema = {} /\ work = {} /\ at = 1

\* unlockWithPassword has read the file.
Unlock == /\ phase = "off"
          /\ phase' = "unlocked"
          /\ UNCHANGED <<schema, work, at>>

\* Database::open; schema_migrations and its row are made where missing; the
\* version is read, and a transaction is begun when it is behind.
OpenDatabase == /\ phase = "unlocked"
                /\ phase' = IF Version \in schema THEN "migrated" ELSE "migrating"
                /\ work' = schema
                /\ at' = 1
                /\ UNCHANGED schema

\* Mutant: the loop runs one statement too far.
ExecutePastEnd == /\ phase = "migrating" /\ at <= Version + 1
                  /\ work' = work \cup {at}
                  /\ at' = at + 1
                  /\ UNCHANGED <<phase, schema>>

Execute == /\ phase = "migrating" /\ at \in Statement
           /\ work' = work \cup {at}
           /\ at' = at + 1
           /\ UNCHANGED <<phase, schema>>

Commit == /\ phase = "migrating" /\ at = Version + 1
          /\ schema' = work
          /\ phase' = "migrated"
          /\ UNCHANGED <<work, at>>

\* The attempt is over: with the process, or with its connection, which rolls
\* back what is not committed.
StartupEnds == /\ phase' = "off"
               /\ work' = {} /\ at' = 1
               /\ UNCHANGED schema

\* Mutant: a statement that fails is passed over.
PassOver == /\ phase = "migrating" /\ at \in Statement
            /\ at' = at + 1
            /\ UNCHANGED <<phase, schema, work>>

\* A step fails, and initialize answers false.
StepFails == phase \notin {"off", "ready"} /\ StartupEnds

\* FileStore::initialize has made its directories and the services are built.
BuildServices == /\ phase = "migrated"
                 /\ phase' = "ready"
                 /\ UNCHANGED <<schema, work, at>>
=============================================================================
