----------------------------- MODULE ForceClean ------------------------------
(***************************************************************************)
(* ForceCleanService.forceClean                                            *)
(* (packages/node/src/subcommands/forceClean.service.ts): drops the schema *)
(* of the project, the types of its enums from the time when they were     *)
(* outside the schema, and its row in public.subqueries.  The statements   *)
(* are no transaction: each may fail, the process may die between any two, *)
(* and the command may be run again, with or without a run of the project  *)
(* in between, which creates the schema and the row anew.  A statement     *)
(* whose promise failed, or whose process is gone, may still be executed   *)
(* by the database, during the next run too.                               *)
(***************************************************************************)
EXTENDS Naturals

CONSTANTS
  Enums,          \* enums of the project's GraphQL schema
  MaxCleanFaults  \* bound on the statements that fail and the crashes

ASSUME CleanAssumption ==
  /\ MaxCleanFaults \in Nat
  /\ {"dropSchema", "deleteRow"} \cap Enums = {}

VARIABLES
  schema,    \* whether the project's schema exists
  types,     \* enums whose deprecated type exists
  table,     \* whether public.subqueries exists
  row,       \* whether it has a row of the project
  step,      \* where forceClean is
  promises,  \* the promise of each enum: "none", "query", "drop" or "settled"
  failures,  \* failed statements and crashes so far
  late       \* statements the database has yet to execute, for a promise that failed or
             \* a process that is gone: a type, or "dropSchema" or "deleteRow"

cleanVars == <<schema, types, table, row, step, promises, failures, late>>

Statements == {"dropSchema", "deleteRow"} \cup Enums

NoPromises == [e \in Enums |-> "none"]

CleanInit ==
  /\ schema \in BOOLEAN
  /\ types \in SUBSET Enums
  /\ table \in BOOLEAN
  /\ row = (table /\ schema)
  /\ schema \/ types = {}
  /\ step = "start"
  /\ promises = NoPromises
  /\ failures = 0
  /\ late = {}

Failure ==
  /\ failures < MaxCleanFaults
  /\ failures' = failures + 1

\* The statements that wait for an answer of the database.
Sent == ({step} \cap {"dropSchema", "deleteRow"}) \cup {e \in Enums : promises[e] = "drop"}

\* getExistingProjectSchema; without a schema it throws.
LocateSchema ==
  /\ step = "start"
  /\ step' = IF schema THEN "dropSchema" ELSE "threw"
  /\ UNCHANGED <<schema, types, table, row, promises, failures, late>>

DropSchema ==
  /\ step = "dropSchema"
  /\ schema' = FALSE
  /\ step' = "enums"
  /\ promises' = [e \in Enums |-> "query"]
  /\ UNCHANGED <<types, table, row, failures, late>>

\* getEnumDeprecated: a type that does not exist is not dropped.
QueryEnum(e) ==
  /\ promises[e] = "query"
  /\ promises' = [promises EXCEPT ![e] = IF e \in types THEN "drop" ELSE "settled"]
  /\ UNCHANGED <<schema, types, table, row, step, failures, late>>

\* The promise goes on when another one has already made Promise.all reject.
DropType(e) ==
  /\ promises[e] = "drop"
  /\ e \in types
  /\ types' = types \ {e}
  /\ promises' = [promises EXCEPT ![e] = "settled"]
  /\ UNCHANGED <<schema, table, row, step, failures, late>>

\* A late statement has dropped the type since it was queried: DROP TYPE has no IF EXISTS.
DropMissing(e) ==
  /\ promises[e] = "drop"
  /\ e \notin types
  /\ promises' = [promises EXCEPT ![e] = "settled"]
  /\ step' = "threw"
  /\ UNCHANGED <<schema, types, table, row, failures, late>>

EnumFails(e) ==
  /\ promises[e] \in {"query", "drop"}
  /\ Failure
  /\ late' = late \cup (Sent \cap {e})
  /\ promises' = [promises EXCEPT ![e] = "settled"]
  /\ step' = "threw"
  /\ UNCHANGED <<schema, types, table, row>>

\* Mutant: the promises are not awaited.
EnumsStarted ==
  /\ step = "enums"
  /\ step' = "checkTable"
  /\ UNCHANGED <<schema, types, table, row, promises, failures, late>>

\* await Promise.all
EnumsDropped ==
  /\ step = "enums"
  /\ \A e \in Enums : promises[e] = "settled"
  /\ step' = "checkTable"
  /\ UNCHANGED <<schema, types, table, row, promises, failures, late>>

\* Mutant: the check for the table is the wrong way round.
CheckNoTable ==
  /\ step = "checkTable"
  /\ step' = IF table THEN "done" ELSE "deleteRow"
  /\ UNCHANGED <<schema, types, table, row, promises, failures, late>>

CheckTable ==
  /\ step = "checkTable"
  /\ step' = IF table THEN "deleteRow" ELSE "done"
  /\ UNCHANGED <<schema, types, table, row, promises, failures, late>>

DeleteRow ==
  /\ step = "deleteRow"
  /\ row' = FALSE
  /\ step' = "done"
  /\ UNCHANGED <<schema, types, table, promises, failures, late>>

\* Any other statement fails: logged and thrown again.
StatementFails ==
  /\ step \in {"start", "dropSchema", "checkTable", "deleteRow"}
  /\ Failure
  /\ late' = late \cup Sent
  /\ step' = "threw"
  /\ UNCHANGED <<schema, types, table, row, promises>>

\* The process dies; statements that were sent may still be executed.
CleanCrash ==
  /\ step \notin {"done", "threw"}
  /\ Failure
  /\ late' = late \cup Sent
  /\ step' = "threw"
  /\ promises' = NoPromises
  /\ UNCHANGED <<schema, types, table, row>>

\* The database executes, sooner or later or never, what nobody waits for any more.
LateStatement(s) ==
  /\ s \in late
  /\ late' = late \ {s}
  /\ schema' = (schema /\ s # "dropSchema")
  /\ types' = types \ {s}
  /\ row' = (row /\ s # "deleteRow")
  /\ UNCHANGED <<table, step, promises, failures>>

\* The process is gone, its statements need not be.
Ended ==
  /\ step \in {"done", "threw"}
  /\ late' = late \cup Sent
  /\ step' = "start"
  /\ promises' = NoPromises

CleanAgain ==
  /\ Ended
  /\ UNCHANGED <<schema, types, table, row, failures>>

\* The project runs again before the next force clean.
ProjectRuns ==
  /\ Ended
  /\ schema' = TRUE
  /\ row' = table
  /\ UNCHANGED <<types, table, failures>>

CleanNext ==
  \/ LocateSchema \/ DropSchema
  \/ \E e \in Enums : QueryEnum(e) \/ DropType(e) \/ DropMissing(e) \/ EnumFails(e)
  \/ \E s \in Statements : LateStatement(s)
  \/ EnumsDropped \/ CheckTable \/ DeleteRow \/ StatementFails
  \/ CleanCrash \/ CleanAgain \/ ProjectRuns

CleanSpec == CleanInit /\ [][CleanNext]_cleanVars
------------------------------------------------------------------------------
CleanTypeOK ==
  /\ schema \in BOOLEAN /\ table \in BOOLEAN /\ row \in BOOLEAN
  /\ types \subseteq Enums
  /\ step \in {"start", "dropSchema", "enums", "checkTable", "deleteRow", "done", "threw"}
  /\ promises \in [Enums -> {"none", "query", "drop", "settled"}]
  /\ failures \in 0 .. MaxCleanFaults
  /\ late \subseteq Statements

(***************************************************************************)
(* A forceClean that reports success has left nothing of the project,      *)
(* whatever earlier runs left behind when they failed half-way.            *)
(***************************************************************************)
CleanWhenDone == step = "done" => ~ schema /\ types = {} /\ ~ row

(***************************************************************************)
(* The row is deleted last: when a statement fails, or the process dies,   *)
(* and types are left without their schema, the project is still           *)
(* registered.  (It has to be, because forceClean itself does not run      *)
(* again without the schema.)                                              *)
(***************************************************************************)
LeftoversRegistered == ~ schema /\ types # {} => row = table
==============================================================================
