----------------------------- MODULE SheetWrite -----------------------------
(***************************************************************************)
(* What a write job does to a tracker tab that people edit in Google at    *)
(* the same time (sheets/write.py, sheets/meta.py, sheets/retry.py as run  *)
(* by process_job of queue/worker.py), the audit rows it leaves behind     *)
(* (core/audit.py), and undo, which checks a cell and enqueues the inverse *)
(* of an audited write (api/audit.py).                                     *)
(*                                                                         *)
(* A row of the tab is the number in its ID column (0 when empty) and the  *)
(* value of the one column that is written.  Every call of the Sheets API  *)
(* is a step.  Jobs are executed one after another; the lists and the      *)
(* retries of whole jobs are those of WriteQueue, of which a crash and the *)
(* replay of the job are kept.                                             *)
(***************************************************************************)
EXTENDS Naturals, Sequences, FiniteSets, SequencesExt, FiniteSetsExt

CONSTANTS
    MaxId,        \* bound: IDs people use are 1..MaxId
    Tabs,         \* the ID columns a tab may have at first
    Values,       \* values of cells
    Blank,        \* the value of an empty cell
    MaxAttempts,  \* _with_retry max_attempts
    MaxJobs,      \* bound: jobs in a behaviour
    MaxEvents     \* bound: changes people make, crashes, lost answers, failed
                  \* reads and failed inserts

ASSUME SheetWriteAssumption ==
    /\ MaxId \in Nat \ {0} /\ Tabs \subseteq Seq(Nat) /\ Tabs # {}
    /\ Blank \notin Values
    /\ MaxAttempts \in Nat \ {0}
    /\ MaxJobs \in Nat /\ MaxEvents \in Nat

VARIABLES
    sheet,      \* the tab's rows
    queue,      \* jobs enqueued
    job,        \* the job that is executed
    at,         \* the call of the Sheets API that comes next
    todo,       \* targets of the job that are to be written one at a time
    rows,       \* targets of the next write call, each with its row
    attempt,    \* failed attempts of that call
    ok,         \* result_ok, as far as it is known
    notes,      \* audit rows of the job not yet inserted
    audit,      \* the audit_logs table, as a set
    undo,       \* the undo request that is being answered
    \* bookkeeping the properties speak about
    written,    \* targets that calls of this job have written
    moved,      \* have people changed the tab since its rows were looked up?
    lost,       \* did a call of this job take effect without an answer?
    calm,       \* undo jobs, by number (0: the request), since whose look at the
                \* cell the sheet has not changed
    jobs, events

worker  == <<job, at, todo, rows, attempt, ok, notes>>
history == <<written, moved, lost, calm>>
bounds  == <<jobs, events>>
vars    == <<sheet, queue, worker, audit, undo, history, bounds>>

Cells    == Values \cup {Blank}
Row      == [id : Nat, value : Cells]
EmptyRow == [id |-> 0, value |-> Blank]
Tools    == {"update_cell", "bulk_update", "add_row"}

\* One target of a job: the value read before the write for the audit row, and
\* the row found for it (0: not yet, or a row to append).
Target == [id : Nat, old : Cells, row : Nat]

AuditRow == [tool : Tools, id : Nat, old : Cells, new : Cells, ok : BOOLEAN]
NoEntry  == [tool |-> "none"]

\* `pin` is args.row_number, 0 when absent; `undoes` the audit row that an undo
\* restores, and `number` tells the jobs of undos apart.
Job == [tool : Tools, targets : SUBSET Target, pin : Nat, value : Cells,
        undoes : AuditRow \cup {NoEntry}, number : Nat]
NoJob == [tool |-> "none"]

Undo   == [at : {"reading", "checked"}, entry : AuditRow, row : Nat]
NoUndo == [at |-> "none"]

Hits(id) == { p \in 1..Len(sheet) : sheet[p].id = id }

\* A row of the tab, which is empty below the last.
ValueAt(p) == IF p \in 1..Len(sheet) THEN sheet[p].value ELSE Blank

Init ==
    /\ \E tab \in Tabs :
         sheet = [p \in 1..Len(tab) |-> [id |-> tab[p], value |-> Blank]]
    /\ queue = <<>> /\ job = NoJob /\ at = "idle"
    /\ todo = {} /\ rows = {} /\ attempt = 0 /\ ok = TRUE
    /\ notes = {} /\ audit = {} /\ undo = NoUndo
    /\ written = {} /\ moved = FALSE /\ lost = FALSE /\ calm = {}
    /\ jobs = 0 /\ events = 0

Event == events < MaxEvents /\ events' = events + 1

-----------------------------------------------------------------------------
(* Requests *)

Enqueue(j) ==
    /\ jobs < MaxJobs /\ jobs' = jobs + 1
    /\ queue' = Append(queue, j)

\* get_row_raw: the pinned row, or the first that holds the ID.
ReadBefore(id, pin) ==
    IF pin # 0 THEN ValueAt(pin)
    ELSE IF Hits(id) = {} THEN Blank ELSE ValueAt(Min(Hits(id)))

\* The values before the write are read for the audit row; a read that fails
\* must not block the write.
PreRead(known) == IF known THEN UNCHANGED events ELSE Event

\* A cell edit: from chat by ID, from the grid with the row the user saw.
DispatchUpdate(id, pin, v) ==
    /\ \E known \in BOOLEAN :
         /\ PreRead(known)
         /\ Enqueue([tool |-> "update_cell", pin |-> pin, value |-> v,
                     undoes |-> NoEntry, number |-> 0,
                     targets |-> {[id |-> id, row |-> 0,
                                   old |-> IF known THEN ReadBefore(id, pin) ELSE Blank]}])
    /\ UNCHANGED <<sheet, worker, audit, undo, history>>

\* A bulk update of all IDs, whether rows hold them or not; get_bulk_rows_raw
\* reads only those that one row holds.
DispatchBulk(v) ==
    /\ \E known \in BOOLEAN :
         /\ PreRead(known)
         /\ Enqueue([tool |-> "bulk_update", pin |-> 0, value |-> v,
                     undoes |-> NoEntry, number |-> 0,
                     targets |-> { [id |-> i, row |-> 0,
                                    old |-> IF known /\ Cardinality(Hits(i)) = 1
                                            THEN ReadBefore(i, 0) ELSE Blank] :
                                   i \in 1..MaxId }])
    /\ UNCHANGED <<sheet, worker, audit, undo, history>>

DispatchAdd(v) ==
    /\ Enqueue([tool |-> "add_row", targets |-> {}, pin |-> 0, value |-> v,
                undoes |-> NoEntry, number |-> 0])
    /\ UNCHANGED <<sheet, worker, audit, undo, history, events>>

-----------------------------------------------------------------------------
(* The worker *)

Take ==
    /\ at = "idle" /\ queue # <<>>
    /\ job' = Head(queue) /\ queue' = Tail(queue)
    /\ todo' = Head(queue).targets
    /\ at' = CASE Head(queue).tool = "update_cell" -> "find"
               [] Head(queue).tool = "bulk_update" -> "map"
               [] Head(queue).tool = "add_row"     -> "number"
    /\ UNCHANGED <<sheet, rows, attempt, ok, notes, audit, undo, history, bounds>>

Note(t, success) ==
    [tool |-> job.tool, id |-> t.id, old |-> t.old, new |-> job.value, ok |-> success]

NotesOf(ts, success) == { Note(t, success) : t \in ts }

\* An exception of the tool: one audit row says so, and those the tool would
\* have returned are forgotten.
Raise ==
    /\ at' = "report" /\ ok' = FALSE
    /\ notes' = {[tool |-> job.tool, id |-> 0, old |-> Blank, new |-> Blank, ok |-> FALSE]}
    /\ todo' = {} /\ rows' = {} /\ attempt' = 0
    /\ UNCHANGED job

\* The next target is looked up, or the tool returns.
GoOn == at' = IF todo' = {} THEN "report" ELSE "find"

\* Mutant: the row the user saw is trusted.
LocatedUnverified(id, pin) ==
    IF pin # 0 THEN {pin}
    ELSE IF Cardinality(Hits(id)) = 1 THEN Hits(id) ELSE {}

\* The row update_cell may write: the pinned one if it still holds the ID, or
\* the only one that does.
Located(id, pin) ==
    IF pin # 0 THEN Hits(id) \cap {pin}
    ELSE IF Cardinality(Hits(id)) = 1 THEN Hits(id) ELSE {}

Found(t, pin) == [t EXCEPT !.row = Min(Located(t.id, pin))]

\* Mutant: the second try of a bulk update takes every target for written.
FindRowOrSucceed ==
    /\ at = "find"
    /\ \E t \in todo :
         /\ todo' = todo \ {t}
         /\ \/ /\ Located(t.id, job.pin) # {}
               /\ rows' = {Found(t, job.pin)} /\ at' = "write"
               /\ UNCHANGED <<ok, notes>>
            \/ /\ Located(t.id, job.pin) = {}
               /\ notes' = notes \cup {Note(t, TRUE)}
               /\ GoOn
               /\ UNCHANGED <<rows, ok>>
    /\ UNCHANGED <<sheet, queue, job, attempt, audit, undo, history, bounds>>

\* update_cell scans the ID column for the next target.
FindRow ==
    /\ at = "find"
    /\ \E t \in todo :
         /\ todo' = todo \ {t}
         /\ \/ /\ Located(t.id, job.pin) # {}
               /\ rows' = {Found(t, job.pin)} /\ at' = "write"
               /\ UNCHANGED <<ok, notes>>
            \/ /\ Located(t.id, job.pin) = {}
               /\ ok' = FALSE /\ notes' = notes \cup {Note(t, FALSE)}
               /\ GoOn
               /\ UNCHANGED rows
    /\ UNCHANGED <<sheet, queue, job, attempt, audit, undo, history, bounds>>

\* bulk_update scans it once for all IDs, and skips those it cannot tell.
MapRows ==
    /\ at = "map" /\ todo' = {}
    /\ LET known == { t \in todo : Located(t.id, 0) # {} }
       IN  /\ rows' = { Found(t, 0) : t \in known }
           /\ notes' = NotesOf(todo \ known, FALSE)
           /\ ok' = (known = todo)
           /\ at' = IF known = {} THEN "report" ELSE "write all"
    /\ UNCHANGED <<sheet, queue, job, attempt, audit, undo, history, bounds>>

\* Mutant: the rows are counted.
CountOfRows == Cardinality({ p \in 1..Len(sheet) : sheet[p].id # 0 }) + 1

\* next_ricefw_id
NextId == Max({0} \cup { sheet[p].id : p \in 1..Len(sheet) }) + 1

NumberRow ==
    /\ at = "number" /\ at' = "append"
    /\ rows' = {[id |-> NextId, old |-> Blank, row |-> 0]}
    /\ UNCHANGED <<sheet, queue, job, todo, attempt, ok, notes, audit, undo,
                   history, bounds>>

\* A read of the worker fails for good.
ReadFails ==
    /\ at \in {"find", "map", "number"}
    /\ Raise /\ Event
    /\ UNCHANGED <<sheet, queue, audit, undo, history, jobs>>

Writing == {"write", "write all", "append"}

\* The sheet with the cells of rows written, or their row appended.
WrittenSheet ==
    LET target == { t.row : t \in rows }
    IN  IF at = "append"
        THEN Append(sheet, [id |-> (CHOOSE t \in rows : TRUE).id, value |-> job.value])
        ELSE [p \in 1..Max(target \cup {Len(sheet)}) |->
                [id |-> IF p <= Len(sheet) THEN sheet[p].id ELSE 0,
                 value |-> IF p \in target THEN job.value ELSE ValueAt(p)]]

\* The write call takes effect, all of it.
Effect ==
    /\ sheet' = WrittenSheet
    /\ written' = written \cup { t.id : t \in rows }
    /\ calm' = {}

WriteAnswered ==
    /\ at \in Writing
    /\ Effect
    /\ notes' = notes \cup NotesOf(rows, TRUE)
    /\ rows' = {} /\ attempt' = 0 /\ moved' = FALSE
    /\ at' = IF todo = {} THEN "report" ELSE "find"
    /\ UNCHANGED <<queue, job, todo, ok, audit, undo, lost, bounds>>

\* A call fails, or its answer is lost after it took effect.
EffectOrNot ==
    \/ UNCHANGED <<sheet, written, lost, calm, events>>
    \/ Effect /\ lost' = TRUE /\ Event

\* Mutant: one attempt more.
RetryOnceMore ==
    /\ at \in Writing
    /\ attempt < MaxAttempts /\ attempt' = attempt + 1
    /\ EffectOrNot
    /\ UNCHANGED <<queue, job, at, todo, rows, ok, notes, audit, undo, moved, jobs>>

\* Mutant: the count of attempts starts again.
RetryForever ==
    /\ at \in Writing
    /\ attempt' = (attempt + 1) % MaxAttempts
    /\ EffectOrNot
    /\ UNCHANGED <<queue, job, at, todo, rows, ok, notes, audit, undo, moved, jobs>>

\* _with_retry: a transient status is tried again, the same call on the same rows.
Retry ==
    /\ at \in Writing
    /\ attempt + 1 < MaxAttempts /\ attempt' = attempt + 1
    /\ EffectOrNot
    /\ UNCHANGED <<queue, job, at, todo, rows, ok, notes, audit, undo, moved, jobs>>

\* Another error, or the last attempt: bulk_update goes on to write the targets
\* one at a time; anything else raises.
GiveUp ==
    /\ EffectOrNot
    /\ \/ /\ at \in {"write", "append"} /\ Raise
       \/ /\ at = "write all"
          /\ todo' = rows /\ at' = "find" /\ rows' = {} /\ attempt' = 0
          /\ UNCHANGED <<job, ok, notes>>
    /\ moved' = FALSE
    /\ UNCHANGED <<queue, audit, undo, jobs>>

\* _write_audit_record, which swallows its failures.
Report ==
    /\ at = "report"
    /\ \E n \in notes :
         /\ notes' = notes \ {n}
         /\ \/ audit' = audit \cup {n} /\ UNCHANGED events
            \/ UNCHANGED audit /\ Event
    /\ UNCHANGED <<sheet, queue, job, at, todo, rows, attempt, ok, undo, history,
                   jobs>>

\* The cache is invalidated if the job succeeded, and the user is told.
Finish ==
    /\ at = "report" /\ notes = {}
    /\ at' = "idle" /\ job' = NoJob /\ ok' = TRUE
    /\ written' = {} /\ lost' = FALSE
    /\ UNCHANGED <<sheet, queue, todo, rows, attempt, notes, audit, undo, moved, calm,
                   bounds>>

\* The worker dies; its next start re-queues the job.
Crash ==
    /\ job # NoJob /\ Event
    /\ queue' = Append(queue, job)
    /\ job' = NoJob /\ at' = "idle"
    /\ todo' = {} /\ rows' = {} /\ attempt' = 0 /\ ok' = TRUE /\ notes' = {}
    /\ written' = {} /\ moved' = FALSE /\ lost' = FALSE
    /\ UNCHANGED <<sheet, audit, undo, calm, jobs>>

-----------------------------------------------------------------------------
(* Undo *)

\* The entry is eligible and its row is looked up, the first with the ID (0: none).
UndoFind(e) ==
    /\ undo = NoUndo
    /\ e.ok /\ e.tool \in {"update_cell", "bulk_update"}
    /\ undo' = [at |-> "reading", entry |-> e,
                row |-> IF Hits(e.id) = {} THEN 0 ELSE Min(Hits(e.id))]
    /\ calm' = calm \cup {0}
    /\ UNCHANGED <<sheet, queue, worker, audit, written, moved, lost, bounds>>

\* Mutant: the cell is not compared.
UndoReadUnchecked ==
    /\ undo.at = "reading"
    /\ undo' = [undo EXCEPT !.at = "checked"]
    /\ UNCHANGED <<sheet, queue, worker, audit, history, bounds>>

\* _verify_unchanged: the row is read, and the request refused if the cell no
\* longer holds what the entry wrote.
UndoRead ==
    /\ undo.at = "reading"
    /\ undo' = IF ValueAt(undo.row) = undo.entry.new
               THEN [undo EXCEPT !.at = "checked"] ELSE NoUndo
    /\ UNCHANGED <<sheet, queue, worker, audit, history, bounds>>

\* The inverse write is enqueued, by ID, or the request is denied.
UndoEnqueue ==
    /\ undo.at = "checked" /\ undo' = NoUndo
    /\ LET e == undo.entry
       IN  \/ /\ Enqueue([tool |-> "update_cell", pin |-> 0, value |-> e.old,
                          undoes |-> e, number |-> jobs',
                          targets |-> {[id |-> e.id, old |-> e.new, row |-> 0]}])
              /\ calm' = IF 0 \in calm THEN (calm \ {0}) \cup {jobs'} ELSE calm
           \/ /\ calm' = calm \ {0}
              /\ UNCHANGED <<queue, jobs>>
    /\ UNCHANGED <<sheet, worker, audit, written, moved, lost, events>>

-----------------------------------------------------------------------------
(* People in Google Sheets *)

\* Insert a row, delete one, exchange two (as a sort does), retype an ID or
\* change a value.
Edited ==
    \E p \in 1..Len(sheet) :
        \/ sheet' = InsertAt(sheet, p, EmptyRow)
        \/ sheet' = RemoveAt(sheet, p)
        \/ \E q \in 1..Len(sheet) :
             sheet' = [sheet EXCEPT ![p] = sheet[q], ![q] = sheet[p]]
        \/ \E i \in 0..MaxId : sheet' = [sheet EXCEPT ![p].id = i]
        \/ \E v \in Cells : sheet' = [sheet EXCEPT ![p].value = v]

Edit ==
    /\ Event
    /\ Edited /\ sheet' # sheet
    /\ moved' = (at \in Writing) /\ calm' = {}
    /\ UNCHANGED <<queue, worker, audit, undo, written, lost, jobs>>

WorkerStep ==
    \/ Take \/ FindRow \/ MapRows \/ NumberRow \/ ReadFails
    \/ WriteAnswered \/ Retry \/ GiveUp \/ Report \/ Finish

Next ==
    \/ \E id \in 1..MaxId, pin \in 0..Len(sheet), v \in Values : DispatchUpdate(id, pin, v)
    \/ \E v \in Values : DispatchBulk(v) \/ DispatchAdd(v)
    \/ WorkerStep \/ Crash
    \/ \E e \in audit : UndoFind(e)
    \/ UndoRead \/ UndoEnqueue
    \/ Edit

Spec == Init /\ [][Next]_vars

\* Calls of Google and Postgres return or time out; nobody has to ask for
\* anything.
FairSpec == Spec /\ WF_vars(WorkerStep)

-----------------------------------------------------------------------------
(* Properties *)

\* Every variable has its type; the worker holds targets, rows and audit rows
\* exactly where the job is at a step that uses them.
TypeOK ==
    /\ sheet \in Seq(Row)
    /\ queue \in Seq(Job) /\ job \in Job \cup {NoJob}
    /\ at \in {"idle", "find", "map", "number", "report"} \cup Writing
    /\ todo \subseteq Target /\ rows \subseteq Target
    /\ attempt \in 0..(MaxAttempts - 1) /\ ok \in BOOLEAN
    /\ notes \subseteq AuditRow /\ audit \subseteq AuditRow
    /\ undo \in Undo \cup {NoUndo}
    /\ written \subseteq Nat /\ moved \in BOOLEAN /\ lost \in BOOLEAN
    /\ calm \subseteq 0..MaxJobs
    /\ jobs \in 0..MaxJobs /\ events \in 0..MaxEvents
    /\ job = NoJob <=> at = "idle"
    /\ at = "find" => todo # {}
    /\ rows # {} <=> at \in Writing

\* A write call that takes effect: its answer may come, fail or be lost.
Writes == WriteAnswered \/ ((Retry \/ GiveUp) /\ events' # events)

\* A write lands on the row of its ID, and by ID only where no other row holds
\* it, unless people changed the tab after the worker looked it up: the pin of
\* a stale grid, the one scan of a bulk update and its row-by-row second try
\* never hit another row.
LandsOnTarget ==
    [][ Writes /\ ~moved /\ at # "append" =>
          \A t \in rows :
            /\ t.row \in Hits(t.id)
            /\ job.pin = 0 => Hits(t.id) = {t.row} ]_vars

\* Adding rows gives out no ID twice ("avoids the race a client-computed ID
\* would hit under concurrent adds"): the ID appended is not in the tab, unless
\* people changed it meanwhile or the append itself is repeated.
AddedIdIsNew ==
    [][ Writes /\ at = "append" /\ ~moved /\ ~lost =>
          \A t \in rows : Hits(t.id) = {} ]_vars

\* The audit trail and the verdict claim no write that was not made: what is
\* noted as successful was written by this job, and a job that succeeds has
\* written every target.
AuditTruthful ==
    /\ \A n \in notes : n.ok => n.id \in written
    /\ at = "report" /\ ok => \A t \in job.targets : t.id \in written

\* Undo discards nobody's edit: what it replaces is what its entry wrote, if
\* nothing changed the sheet between its look at the cell and its write.
UndoRestoresOnlyItsOwn ==
    [][ Writes /\ job.undoes # NoEntry /\ job.number \in calm =>
          \A t \in rows : ValueAt(t.row) = job.undoes.new ]_vars

\* Every job ends, whatever the Sheets API answers, unless the worker dies.
JobsEnd == at # "idle" ~> at = "idle"

\* process_job: "a failed job changed nothing, so the cache is still accurate".
FailedChangedNothing == at = "report" /\ ~ok => written = {}
=============================================================================
