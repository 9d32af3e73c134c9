-------------------------------- MODULE Schema --------------------------------
(***************************************************************************)
(* initDatabase of db.mjs, run by every process that starts, over one      *)
(* database: tables are created if they are missing, then each index is    *)
(* looked up and added if it is missing.  The look-up and the ALTER TABLE  *)
(* are two queries; processes that start together interleave between them. *)
(* The database may be empty, or one of an earlier version whose tables    *)
(* lack an index.                                                          *)
(***************************************************************************)
EXTENDS Integers, Sequences, FiniteSets

CONSTANTS
    Processes,  \* processes that start
    MaxLosses   \* bound: queries that fail

Tables == <<"users", "conversations", "messages">>
Indexes == <<"idx_conversations_user_updated_id", "idx_messages_conversation_id">>

\* The index that CREATE TABLE brings along.
Indexed(table) ==
    CASE table = "conversations" -> {Indexes[1]}
      [] table = "messages" -> {Indexes[2]}
      [] OTHER -> {}

Objects == {Tables[i] : i \in 1..3} \cup {Indexes[i] : i \in 1..2}

VARIABLES
    schema,     \* the tables and indexes there are
    boot,       \* per process: where initDatabase is
    losses      \* queries that failed

schemaVars == <<schema, boot, losses>>

\* stage "table" and "look" and "add", each for the step-th of its list.
At(stage, step) == [stage |-> stage, step |-> step]

\* Created by an earlier version: some of the tables, in order, and some of
\* the indexes of those.
EarlierSchemas ==
    {{Tables[i] : i \in 1..n} \cup extra :
        n \in 0..3, extra \in SUBSET {Indexes[1], Indexes[2]}}

SchemaInit ==
    /\ schema \in {s \in EarlierSchemas :
                      /\ Indexes[1] \in s => "conversations" \in s
                      /\ Indexes[2] \in s => "messages" \in s}
    /\ boot = [p \in Processes |-> At("table", 1)]
    /\ losses = 0
-----------------------------------------------------------------------------
MoveTo(p, place) == boot' = [boot EXCEPT ![p] = place]

\* What follows the index i: the next one, or the end.
AfterIndex(i) == IF i < Len(Indexes) THEN At("look", i + 1) ELSE At("up", 0)

\* CREATE TABLE IF NOT EXISTS.
CreateTable(p) ==
    LET i == boot[p].step
    IN  /\ boot[p].stage = "table"
        /\ schema' = IF Tables[i] \in schema THEN schema
                     ELSE schema \cup {Tables[i]} \cup Indexed(Tables[i])
        /\ MoveTo(p, IF i < Len(Tables) THEN At("table", i + 1) ELSE At("look", 1))
        /\ UNCHANGED losses

\* ensureIndex: information_schema says whether the index is there.
LookUpIndex(p) ==
    LET i == boot[p].step
    IN  /\ boot[p].stage = "look"
        /\ MoveTo(p, IF Indexes[i] \in schema THEN AfterIndex(i) ELSE At("add", i))
        /\ UNCHANGED <<schema, losses>>

\* Mutant: ER_DUP_KEYNAME is an error like any other.
AddIndexOrFail(p) ==
    LET i == boot[p].step
    IN  /\ boot[p].stage = "add"
        /\ schema' = schema \cup {Indexes[i]}
        /\ MoveTo(p, IF Indexes[i] \in schema THEN At("failed", 0) ELSE AfterIndex(i))
        /\ UNCHANGED losses

\* ALTER TABLE; that another process was faster (ER_DUP_KEYNAME) will do.
AddIndex(p) ==
    LET i == boot[p].step
    IN  /\ boot[p].stage = "add"
        /\ schema' = schema \cup {Indexes[i]}
        /\ MoveTo(p, AfterIndex(i))
        /\ UNCHANGED losses

Starting(p) == boot[p].stage \in {"table", "look", "add"}

\* The query of a process fails: it does not start.
QueryFails(p) ==
    /\ Starting(p)
    /\ losses < MaxLosses
    /\ losses' = losses + 1
    /\ MoveTo(p, At("failed", 0))
    /\ UNCHANGED schema

\* A process that failed is started again.
StartAgain(p) ==
    /\ boot[p].stage = "failed"
    /\ MoveTo(p, At("table", 1))
    /\ UNCHANGED <<schema, losses>>

SchemaNext ==
    \E p \in Processes :
        \/ CreateTable(p)
        \/ LookUpIndex(p)
        \/ AddIndex(p)
        \/ QueryFails(p)
        \/ StartAgain(p)

SchemaSpec == SchemaInit /\ [][SchemaNext]_schemaVars
-----------------------------------------------------------------------------
\* Processes that start together do not fail each other: without a query that
\* is lost none of them fails, and one that is up has every table and index
\* it relies on, whatever the others did between its look-up and its ALTER
\* TABLE (db.mjs:96-97).
StartsDoNotClash ==
    \A p \in Processes :
        /\ boot[p].stage = "failed" => losses > 0
        /\ boot[p].stage = "up" => Objects \subseteq schema
=============================================================================
