---------------------------- MODULE OsmIngestion ----------------------------
(***************************************************************************)
(* The ingestion script (backend/scripts/ingest-osm.ts): two passes over a *)
(* parsed OSM extract, one for the drivable ways and one for the nodes     *)
(* they refer to, then the replacement of the tables nodes and edges in    *)
(* one transaction, batch by batch.                                        *)
(*                                                                         *)
(* readOsm turns the events of the parser into an asynchronous generator:  *)
(* batches wait in an array, and a consumer that finds it empty sleeps     *)
(* until an event wakes it.  The parser and PostgreSQL are external: the   *)
(* parser emits the batches of the extract in order and may fail at any    *)
(* moment; TRUNCATE takes a lock that keeps readers away until the         *)
(* transaction ends.  The positions of nodes are points on a line, the     *)
(* length of an edge is the distance of its ends.  Counting the weakly     *)
(* connected components for the log is left out.                           *)
(***************************************************************************)
EXTENDS Integers, FiniteSetsExt, SequencesExt, Functions

CONSTANTS
    Extracts,       \* files: sequences of batches, which are sequences of elements
    InsertBatchSize \* INSERT_BATCH_SIZE

\* f @@ g, written out for the provers, which do not know module TLC.
Over(f, g) == [x \in DOMAIN f \cup DOMAIN g |-> IF x \in DOMAIN f THEN f[x] ELSE g[x]]

IsList(s) == s \in Seq(ToSet(s))

\* Positions by id: finitely many of them.
Located(positions) ==
    /\ IsFiniteSet(DOMAIN positions) /\ DOMAIN positions \subseteq Nat
    /\ \A id \in DOMAIN positions : positions[id] \in Int

\* Road segments with their lengths.
Measured(edges) == \A e \in edges : e.distanceM \in Nat

ASSUME IngestionAssumption ==
    /\ InsertBatchSize \in Nat \ {0}
    /\ \A file \in Extracts :
          /\ IsList(file)
          /\ \A items \in ToSet(file) :
                /\ IsList(items)
                /\ \A i \in ToSet(items) : i.type = "node" => i.id \in Nat /\ i.at \in Int

VARIABLES
    ingest,         \* where the script is
    extract,        \* the file it reads
    emitted,        \* batches of the file that the parser has emitted
    stream,         \* [batches, completed, failed, asleep]: the state of readOsm
    ways,           \* drivable ways found so far
    resolved,       \* positions of the nodes that were found
    pending,        \* rows still to be inserted: [nodes, edges]
    tables,         \* [nodes, edges] as the open transaction sees them
    committed       \* [nodes, edges] as they were committed last

ingestionVars == <<ingest, extract, emitted, stream, ways, resolved, pending, tables, committed>>

\* An opened file, before the first event.
Opened == [batches |-> <<>>, completed |-> FALSE, failed |-> FALSE, asleep |-> FALSE]
NoRows == [nodes |-> <<>>, edges |-> {}]

IngestionInit(before) ==
    /\ ingest = "idle" /\ extract = <<>> /\ emitted = 0
    /\ stream = Opened
    /\ ways = {} /\ resolved = <<>>
    /\ pending = NoRows
    /\ tables = before /\ committed = before

-----------------------------------------------------------------------------
(* Ways and edges                                                          *)

DrivableHighways == {"primary", "residential", "service"}

Tag(way, key) == IF key \in DOMAIN way.tags THEN way.tags[key] ELSE "undefined"

IsDrivableWay(way) ==
    /\ Tag(way, "highway") \in DrivableHighways
    /\ Tag(way, "area") # "yes"
    /\ {Tag(way, key) : key \in {"access", "vehicle", "motor_vehicle"}} \cap {"no", "private"} = {}

GetDirection(way) ==
    IF Tag(way, "oneway") = "-1" THEN "reverse"
    ELSE IF Tag(way, "oneway") \in {"yes", "true", "1"} \/ Tag(way, "junction") = "roundabout"
         THEN "forward"
    ELSE "both"

DrivableWays(items) ==
    {[refs |-> item.refs, direction |-> GetDirection(item)] :
        item \in {i \in ToSet(items) :
                    i.type = "way" /\ IsDrivableWay(i) /\ Len(i.refs) >= 2}}

ReferencedNodeIds == UNION {ToSet(way.refs) : way \in ways}

\* Coordinates of a later element with the same id replace the earlier ones.
ReferencedNodes(items) ==
    LET found == {i \in DOMAIN items : items[i].type = "node" /\ items[i].id \in ReferencedNodeIds}
    IN [id \in {items[i].id : i \in found} |->
            items[Max({i \in found : items[i].id = id})].at]

Edge(nodes, from, to) ==
    [from |-> from, to |-> to,
     distanceM |-> IF nodes[from] > nodes[to] THEN nodes[from] - nodes[to]
                                              ELSE nodes[to] - nodes[from]]

\* Segments of a way whose two ends were resolved, in its directions.
EdgesOf(way, nodes) ==
    LET segments == {k \in 1 .. Len(way.refs) - 1 :
                        {way.refs[k], way.refs[k + 1]} \subseteq DOMAIN nodes}
    IN  {Edge(nodes, way.refs[k], way.refs[k + 1]) :
            k \in {k \in segments : way.direction \in {"forward", "both"}}}
        \cup
        {Edge(nodes, way.refs[k + 1], way.refs[k]) :
            k \in {k \in segments : way.direction \in {"reverse", "both"}}}

BuildEdges(nodes) == UNION {EdgesOf(way, nodes) : way \in ways}

-----------------------------------------------------------------------------
(* readOsm: the events of the parser and the consumer of the generator     *)

Reading == ingest \in {"ways", "nodes"}

StartIngestion(file) ==
    /\ ingest = "idle"
    /\ ingest' = "ways" /\ extract' = file
    /\ emitted' = 0 /\ stream' = Opened
    /\ ways' = {} /\ resolved' = <<>>
    /\ UNCHANGED <<pending, tables, committed>>

StreamData ==
    /\ Reading /\ ~ stream.completed
    /\ emitted < Len(extract)
    /\ emitted' = emitted + 1
    /\ stream' = [stream EXCEPT !.batches = Append(@, extract[emitted + 1]), !.asleep = FALSE]
    /\ UNCHANGED <<ingest, extract, ways, resolved, pending, tables, committed>>

StreamEndUnheard ==
    /\ Reading /\ ~ stream.completed
    /\ emitted = Len(extract)
    /\ stream' = [stream EXCEPT !.completed = TRUE]
    /\ UNCHANGED <<ingest, extract, emitted, ways, resolved, pending, tables, committed>>

StreamEnd ==
    /\ Reading /\ ~ stream.completed
    /\ emitted = Len(extract)
    /\ stream' = [stream EXCEPT !.completed = TRUE, !.asleep = FALSE]
    /\ UNCHANGED <<ingest, extract, emitted, ways, resolved, pending, tables, committed>>

\* The file turns out to be damaged.
StreamError ==
    /\ Reading /\ ~ stream.completed
    /\ stream' = [stream EXCEPT !.completed = TRUE, !.failed = TRUE, !.asleep = FALSE]
    /\ UNCHANGED <<ingest, extract, emitted, ways, resolved, pending, tables, committed>>

Awake == Reading /\ ~ stream.asleep

\* collectDrivableWays or collectReferencedNodes takes the next batch.
ConsumeBatch ==
    LET items == Head(stream.batches) IN
    /\ Awake /\ ~ stream.failed /\ stream.batches # <<>>
    /\ stream' = [stream EXCEPT !.batches = Tail(@)]
    /\ IF ingest = "ways"
       THEN ways' = ways \cup DrivableWays(items) /\ UNCHANGED resolved
       ELSE resolved' = Over(ReferencedNodes(items), resolved) /\ UNCHANGED ways
    /\ UNCHANGED <<ingest, extract, emitted, pending, tables, committed>>

WaitForEvent ==
    /\ Awake /\ stream.batches = <<>> /\ ~ stream.completed
    /\ stream' = [stream EXCEPT !.asleep = TRUE]
    /\ UNCHANGED <<ingest, extract, emitted, ways, resolved, pending, tables, committed>>

\* The generator has nothing more: the second pass, or the replacement.
FinishPassEarly ==
    /\ Awake /\ stream.completed /\ ~ stream.failed
    /\ ingest' = IF ingest = "ways" THEN "nodes" ELSE "begin"
    /\ emitted' = 0 /\ stream' = Opened
    /\ UNCHANGED <<extract, ways, resolved, pending, tables, committed>>

FinishPass ==
    /\ Awake /\ stream.completed /\ ~ stream.failed /\ stream.batches = <<>>
    /\ ingest' = IF ingest = "ways" THEN "nodes" ELSE "begin"
    /\ emitted' = 0 /\ stream' = Opened
    /\ UNCHANGED <<extract, ways, resolved, pending, tables, committed>>

\* The generator throws, whatever batches are left.
FailPass ==
    /\ Awake /\ stream.failed
    /\ ingest' = "failed"
    /\ UNCHANGED <<extract, emitted, stream, ways, resolved, pending, tables, committed>>

-----------------------------------------------------------------------------
(* replaceRoadGraph: one statement after the other                         *)

\* A refused statement leads to ROLLBACK.
StatementRefused ==
    /\ ingest \in {"truncate", "insertNodes", "insertEdges", "commit"}
    /\ ingest' = "rollback"
    /\ UNCHANGED <<extract, emitted, stream, ways, resolved, pending, tables, committed>>

BeginTransaction ==
    /\ ingest = "begin"
    /\ ingest' = "truncate"
    /\ UNCHANGED <<extract, emitted, stream, ways, resolved, pending, tables, committed>>

TruncateTables ==
    /\ ingest = "truncate"
    /\ ingest' = "insertNodes"
    /\ tables' = NoRows
    /\ pending' = [nodes |-> resolved, edges |-> BuildEdges(resolved)]
    /\ UNCHANGED <<extract, emitted, stream, ways, resolved, committed>>

\* The next INSERT_BATCH_SIZE rows of what is left, in some order.
Batches(rows) == kSubset(IF Cardinality(rows) < InsertBatchSize THEN Cardinality(rows)
                                                                ELSE InsertBatchSize, rows)

InsertNodes ==
    /\ ingest = "insertNodes"
    /\ \E batch \in Batches(DOMAIN pending.nodes) :
        /\ tables' = [tables EXCEPT !.nodes = Over(Restrict(pending.nodes, batch), @)]
        /\ pending' = [pending EXCEPT !.nodes = Restrict(@, DOMAIN @ \ batch)]
    /\ ingest' = IF pending'.nodes = <<>> THEN "insertEdges" ELSE ingest
    /\ UNCHANGED <<extract, emitted, stream, ways, resolved, committed>>

InsertEdges ==
    /\ ingest = "insertEdges"
    /\ \E batch \in Batches(pending.edges) :
        /\ tables' = [tables EXCEPT !.edges = @ \cup batch]
        /\ pending' = [pending EXCEPT !.edges = @ \ batch]
    /\ ingest' = IF pending'.edges = {} THEN "commit" ELSE ingest
    /\ UNCHANGED <<extract, emitted, stream, ways, resolved, committed>>

\* The reply to COMMIT may be lost: the script reports a failure, and its
\* ROLLBACK finds no transaction.
Commit ==
    /\ ingest = "commit"
    /\ committed' = tables
    /\ ingest' \in {"ended", "rollback"}
    /\ UNCHANGED <<extract, emitted, stream, ways, resolved, pending, tables>>

\* The server undoes the transaction: a client whose statement has failed is
\* closed by the pool, and ROLLBACK goes to another one.
Rollback ==
    /\ ingest = "rollback"
    /\ ingest' = "failed"
    /\ tables' = committed
    /\ UNCHANGED <<extract, emitted, stream, ways, resolved, pending, committed>>

\* The process dies; so it does when the file cannot be read, since nobody
\* listens for errors of the stream before the parser.
KillIngestion ==
    /\ ingest \notin {"idle", "ended", "failed"}
    /\ ingest' = "failed"
    /\ tables' = committed
    /\ UNCHANGED <<extract, emitted, stream, ways, resolved, pending, committed>>

IngestionStep ==
    \/ StreamData
    \/ StreamEnd
    \/ ConsumeBatch
    \/ WaitForEvent
    \/ FinishPass
    \/ FailPass
    \/ BeginTransaction
    \/ TruncateTables
    \/ InsertNodes
    \/ InsertEdges
    \/ Commit
    \/ Rollback

IngestionFault ==
    \/ StreamError
    \/ StatementRefused
    \/ KillIngestion

\* TRUNCATE holds its lock until the end of the transaction.
Locked == ingest \in {"insertNodes", "insertEdges", "commit"}
          \/ (ingest = "rollback" /\ tables # committed)

-----------------------------------------------------------------------------
\* The graph that a file describes, read in one go.
GraphOf(file) ==
    LET items == FlattenSeq(file)
        drivable == DrivableWays(items)
        wanted == UNION {ToSet(way.refs) : way \in drivable}
        nodes == [id \in {i.id : i \in {j \in ToSet(items) : j.type = "node" /\ j.id \in wanted}} |->
                    items[Max({k \in DOMAIN items : items[k].type = "node" /\ items[k].id = id})].at]
    IN [nodes |-> nodes, edges |-> UNION {EdgesOf(way, nodes) : way \in drivable}]

\* Whoever reads the tables finds what was there before or all that the file
\* describes: no event of the parser, no batch and no failed statement is
\* visible, and no batch of the file was passed over.
ReplacesAllOrNothing(before) ==
    ~ Locked => tables \in {before} \cup {GraphOf(file) : file \in Extracts}

\* A started ingestion comes to an end: no event is missed while the consumer
\* goes to sleep.
IngestionEnds == Reading ~> ingest \in {"ended", "failed"}
=============================================================================
