------------------------------ MODULE AuditShip ------------------------------
(***************************************************************************)
(* The shipping of one audit table past its cursor (audit/shipping.py, the  *)
(* ship-logs command).  Rows get their id when they are inserted and become *)
(* visible when their transaction commits (audit/events.py emit).  Runs of  *)
(* the command may overlap, and may stop anywhere.                          *)
(***************************************************************************)
EXTENDS Naturals, FiniteSets, FiniteSetsExt

CONSTANTS
    Shipper,      \* runs of ship-logs in progress
    MaxId,        \* bound: audit rows
    BatchSize,    \* the --batch-size option
    MaxRuns       \* bound: runs of ship-logs

ASSUME ShipAssumption == {MaxId, MaxRuns} \subseteq Nat /\ BatchSize \in Nat \ {0}

VARIABLES
    audit,       \* audit[i]: the row with id i
    cursor,      \* log_ship_cursor's last_id, committed; 0 before the first run
    ship,        \* ship[x]: a run
    sink,        \* ids whose record reached the sink
    overtaken,   \* ids still uncommitted when a batch beyond them was read (history)
    dropped,     \* ids the file sink failed to write without saying so (history)
    runs         \* runs begun (bound)

shipVars == <<audit, cursor, ship, sink, overtaken, dropped, runs>>

Id == 1 .. MaxId

NoShip == [pc |-> "idle"]
Ships == {NoShip} \cup
         [pc : {"read", "emit", "advance", "commit"}, from : 0 .. MaxId, batch : SUBSET Id]

ShipInit ==
    /\ audit = [i \in Id |-> "none"]
    /\ cursor = 0
    /\ ship = [x \in Shipper |-> NoShip]
    /\ sink = {} /\ overtaken = {} /\ dropped = {}
    /\ runs = 0

-----------------------------------------------------------------------------
\* emit: the row takes the next id of the sequence in its caller's transaction.
EmitRow ==
    /\ \E i \in Id :
         /\ audit[i] = "none" /\ \A j \in Id : j < i => audit[j] # "none"
         /\ audit' = [audit EXCEPT ![i] = "open"]
    /\ UNCHANGED <<cursor, ship, sink, overtaken, dropped, runs>>

EndRow(i) ==
    /\ audit[i] = "open"
    /\ \E st \in {"committed", "rolledBack"} : audit' = [audit EXCEPT ![i] = st]
    /\ UNCHANGED <<cursor, ship, sink, overtaken, dropped, runs>>

\* _cursor.
ReadCursor(x) ==
    /\ ship[x] = NoShip /\ runs < MaxRuns
    /\ ship' = [ship EXCEPT ![x] = [pc |-> "read", from |-> cursor, batch |-> {}]]
    /\ runs' = runs + 1
    /\ UNCHANGED <<audit, cursor, sink, overtaken, dropped>>

\* The rows past the cursor, in the order of their ids, as many as fit.
Visible(from) == {i \in Id : i > from /\ audit[i] = "committed"}
Batch(from, B) ==
    /\ B \subseteq Visible(from)
    /\ \A i \in B, j \in Visible(from) \ B : i < j
    /\ Cardinality(B) = IF Cardinality(Visible(from)) < BatchSize
                          THEN Cardinality(Visible(from)) ELSE BatchSize

ReadBatch(x) ==
    /\ ship[x].pc = "read"
    /\ \E B \in SUBSET Id :
         /\ Batch(ship[x].from, B)
         /\ IF B = {} THEN ship' = [ship EXCEPT ![x] = NoShip] /\ UNCHANGED overtaken
            ELSE /\ ship' = [ship EXCEPT ![x].pc = "emit", ![x].batch = B]
                 /\ overtaken' = overtaken \cup {i \in Id : audit[i] = "open" /\ i < Max(B)}
    /\ UNCHANGED <<audit, cursor, sink, dropped, runs>>

\* sink.emit of the pipe: it takes the batch,
EmitLines(x) ==
    /\ ship[x].pc = "emit"
    /\ sink' = sink \cup ship[x].batch
    /\ ship' = [ship EXCEPT ![x].pc = "advance"]
    /\ UNCHANGED <<audit, cursor, overtaken, dropped, runs>>

\* or fails part of the way and raises, which rolls the run back.
AfterFailure_advance(x) == [ship[x] EXCEPT !.pc = "advance"]
AfterFailure(x) == NoShip
EmitLinesFails(x) ==
    /\ ship[x].pc = "emit"
    /\ \E B \in SUBSET ship[x].batch :
         (\A i \in B, j \in ship[x].batch \ B : i < j) /\ sink' = sink \cup B
    /\ ship' = [ship EXCEPT ![x] = AfterFailure(x)]
    /\ UNCHANGED <<audit, cursor, overtaken, dropped, runs>>

\* The file sink hands each record to a logging handler, which swallows a failed
\* write or rotation.
EmitToFile(x) ==
    /\ ship[x].pc = "emit"
    /\ \E B \in SUBSET ship[x].batch :
         sink' = sink \cup B /\ dropped' = dropped \cup (ship[x].batch \ B)
    /\ ship' = [ship EXCEPT ![x].pc = "advance"]
    /\ UNCHANGED <<audit, cursor, overtaken, runs>>

\* _advance: waits for another run that has written the cursor; the very first two
\* runs both insert it, and the second fails on the primary key.
Advance(x) ==
    /\ ship[x].pc = "advance"
    /\ \A y \in Shipper : ship[y].pc # "commit"
    /\ \/ ship' = [ship EXCEPT ![x].pc = "commit"]
       \/ ship[x].from = 0 /\ cursor # 0 /\ ship' = [ship EXCEPT ![x] = NoShip]
    /\ UNCHANGED <<audit, cursor, sink, overtaken, dropped, runs>>

CommitShip(x) ==
    /\ ship[x].pc = "commit"
    /\ cursor' = Max(ship[x].batch)
    /\ ship' = [ship EXCEPT ![x] = NoShip]
    /\ UNCHANGED <<audit, sink, overtaken, dropped, runs>>

StopShip(x) ==
    /\ ship[x] # NoShip
    /\ ship' = [ship EXCEPT ![x] = NoShip]
    /\ UNCHANGED <<audit, cursor, sink, overtaken, dropped, runs>>

ShipNext ==
    \/ EmitRow
    \/ \E i \in Id : EndRow(i)
    \/ \E x \in Shipper :
         \/ ReadCursor(x) \/ ReadBatch(x) \/ EmitLines(x) \/ EmitLinesFails(x) \/ EmitToFile(x)
         \/ Advance(x) \/ CommitShip(x) \/ StopShip(x)

ShipSpec == ShipInit /\ [][ShipNext]_shipVars

-----------------------------------------------------------------------------
(* Properties *)

ShipTypeOK ==
    /\ audit \in [Id -> {"none", "open", "committed", "rolledBack"}]
    /\ cursor \in 0 .. MaxId
    /\ ship \in [Shipper -> Ships]
    /\ sink \subseteq Id /\ overtaken \subseteq Id /\ dropped \subseteq Id
    /\ runs \in 0 .. MaxRuns

\* At least once: a committed row the cursor has passed has been shipped, whatever
\* runs overlapped, failed or stopped half-way.  The only exceptions are a row that
\* committed after a batch beyond it was read, and a record the file sink lost.
ShippedBelowCursor ==
    \A i \in Id :
        audit[i] = "committed" /\ i <= cursor => i \in sink \cup overtaken \cup dropped

=============================================================================
