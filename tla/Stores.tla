--------------------------------- MODULE Stores ---------------------------------
(* The persistence port and its two adapters (packages/persistence): the SQLite *)
(* repositories of the daemon, and the in-memory provider the tests of every    *)
(* other package stand on.  A behaviour is a sequence of calls on one           *)
(* repository, made of both adapters: "memory" holds the entries of the Maps    *)
(* and arrays in insertion order, "database" the rows in rowid order.  An entry *)
(* keeps its key, its owner (run, work item, namespace, experiment, kind), one  *)
(* field that changes, the time it is ordered by and, for a wait, its due time. *)
EXTENDS Naturals, Sequences, FiniteSets, SequencesExt

CONSTANTS
    Tables,     \* the repositories to try
    Ids,        \* keys, compared alike by localeCompare and by SQL
    Owners,     \* runs, items, namespaces, kinds, experiments
    States,     \* values of the field that changes
    Times,      \* instants 1..n
    Versions,   \* number of migrations
    MaxCalls,   \* bound: writes
    MaxStops    \* bound: processes stopped while they migrate

VARIABLES
    table,      \* the repository called
    memory,     \* InMemoryPersistenceProvider
    database,   \* SqlitePersistenceProvider
    lifecycles, \* lifecycles of both: kind and name -> state, "none" without an entry
    answered,   \* the last write returned the same of both
    schema,     \* the tables of the database and the migrations it records
    writes, stops

storeVars == <<table, memory, database, lifecycles, answered, schema, writes, stops>>

Row == [id : Ids, owner : Owners, state : States, at : Times, due : {0}]
WaitRow == [id : Ids, owner : Owners, state : {"open", "satisfied"}, at : Times, due : Times \cup {0}]
NoRows == [name \in Owners \X Ids |-> "none"]

StoresInit ==
    /\ table \in Tables
    /\ memory = <<>> /\ database = <<>>
    /\ lifecycles = [memory |-> NoRows, database |-> NoRows]
    /\ answered = TRUE
    /\ schema = [created |-> {}, recorded |-> {}, applied |-> {}, next |-> 1, pc |-> "closed"]
    /\ writes = 0 /\ stops = 0

--------------------------------------------------------------------------------
(* Migrations: one transaction each, recorded with the tables it creates        *)

\* migrate(): the migrations recorded are read once.
Migrate ==
    /\ schema.pc = "closed" \/ (schema.pc = "open" /\ writes = 0 /\ schema.next = Versions + 1)
    /\ schema' = [schema EXCEPT !.pc = "between", !.applied = schema.recorded, !.next = 1]
    /\ UNCHANGED <<table, memory, database, lifecycles, answered, writes, stops>>

\* One the database has is passed over; another begins its transaction, and creating a
\* table that exists throws.
CreateTables ==
    /\ schema.pc = "between" /\ schema.next <= Versions
    /\ schema' =
        IF schema.next \in schema.applied THEN [schema EXCEPT !.next = @ + 1]
        ELSE [schema EXCEPT !.pc = IF schema.next \in schema.created THEN "failed" ELSE "created"]
    /\ UNCHANGED <<table, memory, database, lifecycles, answered, writes, stops>>

\* COMMIT: tables and record together.
CommitMigration ==
    /\ schema.pc = "created"
    /\ schema' = [schema EXCEPT !.pc = "between", !.next = @ + 1,
                                !.created = @ \cup {schema.next}, !.recorded = @ \cup {schema.next}]
    /\ UNCHANGED <<table, memory, database, lifecycles, answered, writes, stops>>

MigrationsDone ==
    /\ schema.pc = "between" /\ schema.next > Versions
    /\ schema' = [schema EXCEPT !.pc = "open"]
    /\ UNCHANGED <<table, memory, database, lifecycles, answered, writes, stops>>

\* The process stops; a transaction under way is rolled back.
Stop ==
    /\ schema.pc \in {"between", "created"} /\ stops < MaxStops
    /\ stops' = stops + 1
    /\ schema' = [schema EXCEPT !.pc = "closed"]
    /\ UNCHANGED <<table, memory, database, lifecycles, answered, writes>>

--------------------------------------------------------------------------------
(* Writes                                                                       *)

Maps == {"runs", "sessions", "waits", "experiments", "config", "specs"}
Unique == {"events", "checkpoints", "specs"}

key(row) == IF table \in {"config", "specs"} THEN <<row.owner, row.id>> ELSE <<row.id>>
place(rows, row) == SelectInSeq(rows, LAMBDA r : key(r) = key(row))
put(rows, row) ==
    IF place(rows, row) = 0 THEN Append(rows, row) ELSE [rows EXCEPT ![place(rows, row)] = row]
result(m, d) == answered' = (m = d)
Call ==
    /\ schema.pc = "open" /\ writes < MaxCalls
    /\ writes' = writes + 1
    /\ UNCHANGED <<table, schema, stops>>

\* Map.set keeps the place of a key; the arrays only grow.
inMemory(row) == IF table \in Maps THEN put(memory, row) ELSE Append(memory, row)

\* INSERT, or INSERT ... ON CONFLICT DO UPDATE, which leaves created_at of a run alone.
upserted(row) ==
    IF table = "runs" /\ place(database, row) # 0
    THEN put(database, [row EXCEPT !.at = database[place(database, row)].at])
    ELSE put(database, row)
inDatabase(row) ==
    IF table \in Unique THEN IF place(database, row) = 0 THEN Append(database, row) ELSE database
    ELSE IF table \in Maps THEN upserted(row) ELSE Append(database, row)

\* The callers name events and checkpoints anew, count the revisions of a run up, and
\* spread a run they have read: its creation time stays.
asCalled(row) ==
    /\ table \in Unique => place(database, row) = 0
    /\ table = "runs" => \A i \in DOMAIN database :
            database[i].id = row.id => database[i].at = row.at

\* save, append, record, set, recordFiring, addSupplemental
SaveRow(row) ==
    /\ table \notin {"claims", "definitions"} /\ asCalled(row)
    /\ Call
    /\ memory' = inMemory(row) /\ database' = inDatabase(row)
    /\ result("saved", IF table \in Unique /\ place(database, row) # 0 THEN "throws" ELSE "saved")
    /\ UNCHANGED lifecycles

\* ConfigRepository.delete
Delete(owner, id) ==
    /\ table = "config" /\ Call
    /\ memory' = SelectSeq(memory, LAMBDA r : ~(r.owner = owner /\ r.id = id))
    /\ database' = SelectSeq(database, LAMBDA r : ~(r.owner = owner /\ r.id = id))
    /\ result("deleted", "deleted")
    /\ UNCHANGED lifecycles

entries == ToSet(memory) \cup ToSet(database)
changed(rows, which, value) ==
    [i \in DOMAIN rows |-> IF rows[i] \in which THEN [rows[i] EXCEPT !.state = value] ELSE rows[i]]

\* The first response wins: in memory by looking, in the database by the WHERE clause.
trySatisfy(id) ==
    LET open == {r \in entries : r.id = id /\ r.state = "open"}
        found == SelectInSeq(memory, LAMBDA r : r.id = id) IN
    /\ table = "waits" /\ Call
    /\ IF found # 0 /\ memory[found].state = "open"
       THEN memory' = [memory EXCEPT ![found].state = "satisfied"] ELSE UNCHANGED memory
    /\ database' = changed(database, open, "satisfied")
    /\ result(found # 0 /\ memory[found].state = "open", database' # database)
    /\ UNCHANGED lifecycles

cancelForRun(run) ==
    LET theirs == {r \in entries : r.owner = run /\ r.state = "open"} IN
    /\ table = "waits" /\ Call
    /\ memory' = changed(memory, theirs, "cancelled")
    /\ database' = changed(database, theirs, "cancelled")
    /\ result("cancelled", "cancelled")
    /\ UNCHANGED lifecycles

markSupplementalPromoted(id) ==
    LET late == {r \in entries : r.id = id} IN
    /\ table = "supplementals" /\ Call
    /\ memory' = changed(memory, late, "promoted")
    /\ database' = changed(database, late, "promoted")
    /\ result("promoted", "promoted")
    /\ UNCHANGED lifecycles

\* In memory by reading the claim; in the database by one conditional upsert, and a look
\* at the row it leaves.
claimed(item, run) == [id |-> item, owner |-> run, state |-> "held", at |-> 1, due |-> 0]

\* Mutant: the upsert without its WHERE clause.
free_Any(rows, item, run) == rows = rows

free(rows, item, run) ==
    \A i \in DOMAIN rows : rows[i].id = item => rows[i].state = "released" \/ rows[i].owner = run
tryClaim(item, run) ==
    LET row == claimed(item, run)
        held == place(memory, row) # 0 /\ memory[place(memory, row)].state = "held" IN
    /\ table = "claims" /\ Call
    /\ memory' = IF held THEN memory ELSE put(memory, row)
    /\ database' = IF free(database, item, run) THEN put(database, row) ELSE database
    /\ result(held => memory[place(memory, row)].owner = run,
              database'[place(database', row)] = row)
    /\ UNCHANGED lifecycles

release(item, run) ==
    LET mine == {r \in entries : r.id = item /\ r.owner = run /\ r.state = "held"} IN
    /\ table = "claims" /\ Call
    /\ memory' = changed(memory, mine, "released") /\ database' = changed(database, mine, "released")
    /\ result("released", "released")
    /\ UNCHANGED lifecycles

\* DefinitionStore.save: a version unless the document is the latest one; the database
\* writes the default lifecycle beside it.
version(kind, name, document, n) ==
    [id |-> name, owner |-> kind, state |-> document, at |-> n, due |-> 0]
lastOf(rows, kind, name) == SelectLastInSeq(rows, LAMBDA r : r.owner = kind /\ r.id = name)
SaveDefinition(kind, name, document) ==
    LET kept == lastOf(memory, kind, name)
        rows == {r \in ToSet(database) : r.owner = kind /\ r.id = name}
        number == IF kept = 0 THEN 1 ELSE memory[kept].at + 1
        latest == {r \in rows : \A other \in rows : other.at <= r.at}
        next == 1 + (IF rows = {} THEN 0 ELSE (CHOOSE r \in latest : TRUE).at) IN
    /\ table = "definitions" /\ Call
    /\ IF kept # 0 /\ memory[kept].state = document
       THEN UNCHANGED memory ELSE memory' = Append(memory, version(kind, name, document, number))
    /\ IF \E r \in latest : r.state = document
       THEN UNCHANGED <<database, lifecycles>>
       ELSE /\ database' = Append(database, version(kind, name, document, next))
            /\ lifecycles' = IF lifecycles.database[<<kind, name>>] = "none"
                             THEN [lifecycles EXCEPT !.database[<<kind, name>>] = "draft"] ELSE lifecycles
    /\ result(memory'[lastOf(memory', kind, name)].at, database'[lastOf(database', kind, name)].at)

SetLifecycle(kind, name, value) ==
    /\ table = "definitions" /\ Call
    /\ lifecycles' = [memory |-> [lifecycles.memory EXCEPT ![<<kind, name>>] = value],
                      database |-> [lifecycles.database EXCEPT ![<<kind, name>>] = value]]
    /\ result("set", "set")
    /\ UNCHANGED <<memory, database>>

Writes ==
    \/ \E row \in IF table = "waits" THEN WaitRow ELSE Row : SaveRow(row)
    \/ \E owner \in Owners, id \in Ids :
        \/ Delete(owner, id) \/ tryClaim(id, owner) \/ release(id, owner)
        \/ SetLifecycle(owner, id, "enabled")
        \/ \E document \in States : SaveDefinition(owner, id, document)
    \/ \E id \in Ids : trySatisfy(id) \/ markSupplementalPromoted(id)
    \/ \E run \in Owners : cancelForRun(run)

StoresNext == Writes \/ Migrate \/ CreateTables \/ CommitMigration \/ MigrationsDone \/ Stop

StoresSpec == StoresInit /\ [][StoresNext]_storeVars

--------------------------------------------------------------------------------
(* Reads.  A query has what its caller may pass: an optional filter is a set of *)
(* at most one value.                                                           *)

optional(S) == {{}} \cup {{x} : x \in S}
Query == [states : optional(SUBSET States \ {{}}), owner : optional(Owners), after : optional(Ids),
          from : Times, to : Times, limit : optional({1})]
Plain == [states |-> {}, owner |-> {}, after |-> {}, from |-> 1, to |-> 1, limit |-> {}]

\* The queries of each repository; a cursor is an event of the run asked for.
asks(q) ==
    LET only(fields) == \A field \in DOMAIN q \ fields : q[field] = Plain[field] IN
    CASE table = "runs" -> only({"states", "owner", "limit"})
      [] table \in {"sessions", "experiments", "checkpoints", "specs", "supplementals", "firings"} ->
            only({"owner"}) /\ q.owner # {}
      [] table = "events" ->
            IF q.owner = {} THEN only({"states", "limit"})
            ELSE only({"owner", "after"}) /\ \A id \in q.after, i \in DOMAIN database :
                    database[i].id = id => database[i].owner \in q.owner
      [] table = "judgments" -> IF q.owner = {} THEN only({"from", "to"}) ELSE only({"owner"})
      [] table = "usage" -> only({"from", "to"})
      [] table = "waits" -> only({"owner", "to", "states"}) /\ q.states \in {{}, {{"open"}}}
      [] OTHER -> q = Plain

period(q, row) == q.from <= row.at /\ row.at < q.to
byPeriod(q) == table = "usage" \/ (table = "judgments" /\ q.owner = {})

\* A wait of listOpen is open and, for a due date, has one before it.
dueBefore(q, row) == q.to = 1 \/ (row.due # 0 /\ row.due < q.to)
filtered(q, row) ==
    /\ \A s \in q.states : row.state \in s
    /\ \A o \in q.owner : row.owner = o
    /\ byPeriod(q) => period(q, row)
    /\ table = "waits" => dueBefore(q, row)

first(seq, limit) == IF limit # {} /\ Len(seq) > 1 THEN SubSeq(seq, 1, 1) ELSE seq

\* The JavaScript: filter, a stable sort, slice.
compared(q, a, b) ==
    CASE table = "runs" -> b.at < a.at
      [] table \in {"experiments", "waits"} -> a.at < b.at \/ (a.at = b.at /\ a.id < b.id)
      [] table = "specs" -> a.id < b.id
      [] table \in {"sessions", "checkpoints", "firings"} \/ byPeriod(q) -> a.at < b.at
      [] OTHER -> FALSE
stableSort(q, rows) ==
    LET before(i, j) == compared(q, rows[i], rows[j])
                        \/ (~compared(q, rows[j], rows[i]) /\ i < j) IN
    [n \in DOMAIN rows |-> rows[SortSeq([i \in DOMAIN rows |-> i], before)[n]]]
afterCursor(q, rows) ==
    LET index == SelectInSeq(rows, LAMBDA r : r.id \in q.after) IN
    IF q.after = {} \/ index = 0 THEN rows ELSE SubSeq(rows, index + 1, Len(rows))
answerInMemory(q) ==
    LET kept == afterCursor(q, SelectSeq(memory, LAMBDA r : filtered(q, r)))
        sorted == stableSort(q, kept) IN
    CASE table = "firings" -> IF sorted = <<>> THEN <<>> ELSE <<Last(sorted)>>
      [] table = "events" /\ q.owner = {} -> first(Reverse(sorted), q.limit)
      [] OTHER -> first(sorted, q.limit)

\* The SQL: WHERE, any order that ORDER BY allows, LIMIT.
ordered(q, i, j) ==
    LET a == database[i]  b == database[j] IN
    CASE table = "runs" -> b.at < a.at
      [] table \in {"experiments", "waits"} -> a.at < b.at \/ (a.at = b.at /\ a.id < b.id)
      [] table = "specs" -> a.id < b.id
      [] table = "checkpoints" -> a.at < b.at \/ (a.at = b.at /\ i < j)
      [] table = "firings" -> b.at < a.at \/ (a.at = b.at /\ j < i)
      [] table = "sessions" \/ byPeriod(q) -> a.at < b.at
      [] table = "events" /\ q.owner = {} -> j < i
      [] OTHER -> i < j
afterSeq(q, i) ==
    LET cursor == SelectInSeq(database, LAMBDA r : r.id \in q.after) IN q.after = {} \/ cursor < i
answersInDatabase(q) ==
    LET found == {i \in DOMAIN database : filtered(q, database[i]) /\ afterSeq(q, i)}
        orders == {o \in SetToSeqs(found) : \A m, n \in DOMAIN o : m < n => ~ordered(q, o[n], o[m])}
        rows(o) == [n \in DOMAIN o |-> database[o[n]]] IN
    {first(rows(o), IF table = "firings" THEN {1} ELSE q.limit) : o \in orders}

\* What is listed in no order: config.list, listActive; and the statuses of definitions.
statusesIn(rows, states) ==
    {[name |-> <<r.owner, r.id>>, latest |-> rows[lastOf(rows, r.owner, r.id)].at,
      lifecycle |-> IF states[<<r.owner, r.id>>] = "none" THEN "draft" ELSE states[<<r.owner, r.id>>]] :
        r \in ToSet(rows)}

--------------------------------------------------------------------------------
(* Properties                                                                   *)

\* "so the adapters can't silently drift from each other" (the contract both are tested
\* against): after any calls the program makes, a write returns the same of both, and
\* what the tests are answered from memory is an answer the daemon may get from SQLite.
StoresAgree ==
    /\ answered
    /\ CASE table \in {"config", "claims"} -> ToSet(memory) = ToSet(database)
         [] table = "definitions" ->
                statusesIn(memory, lifecycles.memory) = statusesIn(database, lifecycles.database)
         [] OTHER -> \A q \in {q \in Query : asks(q)} : answerInMemory(q) \in answersInDatabase(q)

\* Wherever a process stopped before, migrate() completes the schema: no migration meets
\* its own tables, and the store that opens has all of them.
SchemaCompletes ==
    /\ schema.pc # "failed"
    /\ schema.pc = "open" => schema.created = 1..Versions /\ schema.recorded = 1..Versions
================================================================================
