----------------------------- MODULE WriteQueue -----------------------------
(***************************************************************************)
(* The durable write queue: the API process enqueues sheet mutations on a  *)
(* Redis list (queue/producer.py), one worker process (queue/worker.py)    *)
(* moves them to a processing list, executes them and removes them; at     *)
(* every start it re-queues or dead-letters what an earlier run left in    *)
(* the processing list.                                                    *)
(*                                                                         *)
(* Every Redis command is a step of its own, so the producer, the worker   *)
(* and a crash interleave between any two commands.  An envelope carries   *)
(* its job's id and its attempt counter; the payload is abstracted to the  *)
(* sheet cell Target[job] it overwrites, and the value it writes to the    *)
(* job itself.                                                             *)
(***************************************************************************)
EXTENDS Naturals, Sequences, SequencesExt

CONSTANTS
    Jobs,         \* jobs that may be enqueued
    NoJob,        \* a value that is not a job
    Cells,        \* sheet cells
    Target,       \* the cell each job overwrites
    MaxAttempts,  \* worker.py MAX_ATTEMPTS
    MaxCrashes,   \* bound: worker crashes in a behaviour
    MaxFaults     \* bound: failed Redis commands in a behaviour

ASSUME WriteQueueAssumption ==
    /\ NoJob \notin Jobs
    /\ Target \in [Jobs -> Cells]
    /\ MaxAttempts \in Nat
    /\ MaxCrashes \in Nat
    /\ MaxFaults \in Nat

VARIABLES
    queue, processing, deadLetter,  \* the three Redis lists
    jobState,     \* the job_state hash of each job
    producer,     \* where enqueue_write_job is, for each job
    worker,       \* where the worker is
    hand,         \* the envelope the worker holds in memory
    seen,         \* what _set_job_state read and has not yet written back
    resultOk,     \* process_job's result_ok
    sheet,        \* the job whose value each cell shows
    outcome,      \* what process_job last reported for each job
    told,         \* the statuses published to each job's user
    \* bookkeeping the properties speak about
    pushOrder,    \* jobs in the order they were enqueued
    firstPicks,   \* jobs in the order they were first picked up
    pickups,      \* how often each job was picked up
    cleared,      \* jobs removed by a clean pass
    dropped,      \* jobs popped by recovery and pushed nowhere
    crashes, faults

lists    == <<queue, processing, deadLetter>>
effects  == <<sheet, outcome, told>>
history  == <<pushOrder, firstPicks, pickups, cleared, dropped>>
budget   == <<crashes, faults>>
vars     == <<lists, jobState, producer, worker, hand, seen, resultOk,
              effects, history, budget>>

Envelope   == [id : Jobs, attempt : Nat]
NoEnvelope == [id |-> NoJob, attempt |-> 0]
\* Mutant: the attempt is not counted.
RetriedUncounted(e) == e

Retried(e) == [e EXCEPT !.attempt = @ + 1]

\* The ids of the envelopes in a list.
Ids(s) == { e.id : e \in ToSet(s) }

\* No two envelopes of a list belong to the same job.
Distinct(s) == \A i, k \in 1..Len(s) : s[i].id = s[k].id => i = k

Statuses == {"none", "queued", "processing", "done", "error", "dead_letter"}

\* A job_state hash: its status, and whether it names the user it belongs to
\* (get_job_status answers 404 to everybody but the named user).
JobState == [status : Statuses, owned : BOOLEAN]
NoState  == [status |-> "none", owned |-> FALSE]
NotRead  == [status |-> "unread", owned |-> FALSE]

\* Mutant: a job that raised is recorded as done.
StateUpdateRaisedIsDone ==
    [ picked   |-> [status |-> "processing",  next |-> "executing"],
      returned |-> [status |-> "done",        next |-> "clearing"],
      raised   |-> [status |-> "done",        next |-> "waiting"],
      requeued |-> [status |-> "queued",      next |-> "recovering"],
      buried   |-> [status |-> "dead_letter", next |-> "notifying"] ]

\* Mutant: a job whose execution raised is acknowledged like any other.
StateUpdateRaisedIsCleared ==
    [ picked   |-> [status |-> "processing",  next |-> "executing"],
      returned |-> [status |-> "done",        next |-> "clearing"],
      raised   |-> [status |-> "error",       next |-> "clearing"],
      requeued |-> [status |-> "queued",      next |-> "recovering"],
      buried   |-> [status |-> "dead_letter", next |-> "notifying"] ]

\* Where the worker calls _set_job_state, with which status, and where it
\* goes next.
StateUpdate ==
    [ picked   |-> [status |-> "processing",  next |-> "executing"],
      returned |-> [status |-> "done",        next |-> "clearing"],
      raised   |-> [status |-> "error",       next |-> "waiting"],
      requeued |-> [status |-> "queued",      next |-> "recovering"],
      buried   |-> [status |-> "dead_letter", next |-> "notifying"] ]

Locations == DOMAIN StateUpdate \cup
    {"down", "recovering", "moving", "notifying", "waiting", "executing",
     "reporting", "clearing"}

Init ==
    /\ queue = <<>> /\ processing = <<>> /\ deadLetter = <<>>
    /\ jobState = [j \in Jobs |-> NoState]
    /\ producer = [j \in Jobs |-> "idle"]
    /\ worker = "down" /\ hand = NoEnvelope /\ seen = NotRead
    /\ resultOk = FALSE
    /\ sheet = [c \in Cells |-> NoJob]
    /\ outcome = [j \in Jobs |-> "none"]
    /\ told = [j \in Jobs |-> {}]
    /\ pushOrder = <<>> /\ firstPicks = <<>>
    /\ pickups = [j \in Jobs |-> 0]
    /\ cleared = {} /\ dropped = {}
    /\ crashes = 0 /\ faults = 0

-----------------------------------------------------------------------------
(* The producer: enqueue_write_job *)

\* Mutant: LPUSH in place of RPUSH.
PushAtHead(j) ==
    /\ producer[j] = "idle"
    /\ queue' = <<[id |-> j, attempt |-> 0]>> \o queue
    /\ producer' = [producer EXCEPT ![j] = "pushed"]
    /\ pushOrder' = Append(pushOrder, j)
    /\ UNCHANGED <<processing, deadLetter, jobState, worker, hand, seen,
                   resultOk, effects, firstPicks, pickups, cleared, dropped,
                   budget>>

\* RPUSH of the envelope, before anything is known about the job elsewhere.
Push(j) ==
    /\ producer[j] = "idle"
    /\ queue' = Append(queue, [id |-> j, attempt |-> 0])
    /\ producer' = [producer EXCEPT ![j] = "pushed"]
    /\ pushOrder' = Append(pushOrder, j)
    /\ UNCHANGED <<processing, deadLetter, jobState, worker, hand, seen,
                   resultOk, effects, firstPicks, pickups, cleared, dropped,
                   budget>>

\* The SET of the whole initial state, after which the job id is returned.
SetInitialState(j) ==
    /\ producer[j] = "pushed"
    /\ jobState' = [jobState EXCEPT ![j] = [status |-> "queued", owned |-> TRUE]]
    /\ producer' = [producer EXCEPT ![j] = "returned"]
    /\ UNCHANGED <<lists, worker, hand, seen, resultOk, effects, history,
                   budget>>

\* The SET fails; the failure is logged and the job id returned all the same.
SetInitialStateFails(j) ==
    /\ producer[j] = "pushed"
    /\ faults < MaxFaults
    /\ faults' = faults + 1
    /\ producer' = [producer EXCEPT ![j] = "returned-unset"]
    /\ UNCHANGED <<lists, jobState, worker, hand, seen, resultOk, effects,
                   history, crashes>>

-----------------------------------------------------------------------------
(* Worker: start and recover_stale_jobs *)

\* Mutant: the worker starts without running recovery.
StartWithoutRecovery ==
    /\ worker = "down"
    /\ worker' = "waiting"
    /\ UNCHANGED <<lists, jobState, producer, hand, seen, resultOk, effects,
                   history, budget>>

\* docker's restart: unless-stopped
Start ==
    /\ worker = "down"
    /\ worker' = "recovering"
    /\ UNCHANGED <<lists, jobState, producer, hand, seen, resultOk, effects,
                   history, budget>>

\* LPOP returns nil: recovery is over.
RecoverDone ==
    /\ worker = "recovering" /\ processing = <<>>
    /\ worker' = "waiting"
    /\ UNCHANGED <<lists, jobState, producer, hand, seen, resultOk, effects,
                   history, budget>>

\* Mutant: recovery reads the envelope (LRANGE) and leaves it in the list.
RecoverPeek ==
    /\ worker = "recovering" /\ processing # <<>>
    /\ hand' = Head(processing)
    /\ worker' = "moving"
    /\ UNCHANGED <<lists, jobState, producer, seen, resultOk, effects,
                   history, budget>>

RecoverPop ==
    /\ worker = "recovering" /\ processing # <<>>
    /\ hand' = Head(processing)
    /\ processing' = Tail(processing)
    /\ worker' = "moving"
    /\ UNCHANGED <<queue, deadLetter, jobState, producer, seen, resultOk,
                   effects, history, budget>>

\* The RPUSH of the popped envelope, its attempt counted: back to the tail of
\* the queue, or past MaxAttempts to the dead-letter list.
PutBack ==
    /\ worker = "moving"
    /\ \/ /\ hand.attempt + 1 <= MaxAttempts
          /\ queue' = Append(queue, Retried(hand))
          /\ UNCHANGED deadLetter
       \/ /\ hand.attempt + 1 > MaxAttempts
          /\ deadLetter' = Append(deadLetter, Retried(hand))
          /\ UNCHANGED queue

RecoverPut ==
    /\ PutBack
    /\ hand' = Retried(hand)
    /\ worker' = IF hand.attempt + 1 <= MaxAttempts THEN "requeued" ELSE "buried"
    /\ UNCHANGED <<processing, jobState, producer, seen, resultOk, effects,
                   history, budget>>

\* Mutant: the status published is the one stored, which no client knows.
NotifyBuriedRaw ==
    /\ worker = "notifying"
    /\ told' = [told EXCEPT ![hand.id] = @ \cup {"dead_letter"}]
    /\ worker' = "recovering" /\ hand' = NoEnvelope
    /\ UNCHANGED <<lists, jobState, producer, seen, resultOk, sheet, outcome,
                   history, budget>>

\* The user of a dead-lettered job is told that the write failed.
NotifyBuried ==
    /\ worker = "notifying"
    /\ told' = [told EXCEPT ![hand.id] = @ \cup {"failed"}]
    /\ worker' = "recovering" /\ hand' = NoEnvelope
    /\ UNCHANGED <<lists, jobState, producer, seen, resultOk, sheet, outcome,
                   history, budget>>

\* A transient Redis error ends recovery and start_worker enters its main loop.
AbandonRecovery ==
    /\ faults < MaxFaults
    /\ faults' = faults + 1
    /\ worker' = "waiting" /\ hand' = NoEnvelope
    /\ UNCHANGED <<jobState, producer, seen, resultOk, effects, pushOrder,
                   firstPicks, pickups, cleared, crashes>>

\* ... the LPOP is not executed, or is executed and its reply lost;
RecoverPopFails ==
    /\ worker = "recovering"
    /\ AbandonRecovery
    /\ \/ UNCHANGED <<processing, dropped>>
       \/ /\ processing # <<>>
          /\ dropped' = dropped \cup {Head(processing).id}
          /\ processing' = Tail(processing)
    /\ UNCHANGED <<queue, deadLetter>>

\* ... or the RPUSH is executed and its reply lost, or is not executed.
RecoverPutFails ==
    /\ worker = "moving"
    /\ AbandonRecovery
    /\ \/ PutBack /\ UNCHANGED dropped
       \/ dropped' = dropped \cup {hand.id} /\ UNCHANGED <<queue, deadLetter>>
    /\ UNCHANGED processing

-----------------------------------------------------------------------------
(* Worker: _set_job_state, a GET and then a SET of the merged hash *)

GetJobState ==
    /\ worker \in DOMAIN StateUpdate /\ seen = NotRead
    /\ seen' = jobState[hand.id]
    /\ UNCHANGED <<lists, jobState, producer, worker, hand, resultOk, effects,
                   history, budget>>

\* What follows a call of _set_job_state, whether it succeeded or not.
AfterStateUpdate ==
    /\ worker' = StateUpdate[worker].next
    /\ hand' = IF worker' \in {"waiting", "recovering"} THEN NoEnvelope ELSE hand
    /\ seen' = NotRead

SetJobState ==
    /\ worker \in DOMAIN StateUpdate /\ seen # NotRead
    /\ jobState' = [jobState EXCEPT ![hand.id] =
                      [seen EXCEPT !.status = StateUpdate[worker].status]]
    /\ AfterStateUpdate
    /\ UNCHANGED <<lists, producer, resultOk, effects, history, budget>>

\* The GET or the SET fails, and the error is swallowed.
SetJobStateFails ==
    /\ worker \in DOMAIN StateUpdate
    /\ faults < MaxFaults
    /\ faults' = faults + 1
    /\ AfterStateUpdate
    /\ UNCHANGED <<lists, jobState, producer, resultOk, effects, history,
                   crashes>>

-----------------------------------------------------------------------------
(* Worker: the main loop of start_worker *)

\* Mutant: BLPOP, which hands the job over without recording it anywhere.
Blpop ==
    /\ queue # <<>>
    /\ LET e == Head(queue) IN
         /\ pickups' = [pickups EXCEPT ![e.id] = @ + 1]
         /\ firstPicks' = IF pickups[e.id] = 0 THEN Append(firstPicks, e.id)
                                               ELSE firstPicks
    /\ queue' = Tail(queue)
    /\ UNCHANGED processing

\* Mutant: BLMOVE ... RIGHT RIGHT takes the newest job.
BlmoveFromRight ==
    /\ queue # <<>>
    /\ LET e == Last(queue) IN
         /\ processing' = Append(processing, e)
         /\ pickups' = [pickups EXCEPT ![e.id] = @ + 1]
         /\ firstPicks' = IF pickups[e.id] = 0 THEN Append(firstPicks, e.id)
                                               ELSE firstPicks
    /\ queue' = Front(queue)

\* The effect of BLMOVE queue -> processing inside Redis.
Blmove ==
    /\ queue # <<>>
    /\ LET e == Head(queue) IN
         /\ processing' = Append(processing, e)
         /\ pickups' = [pickups EXCEPT ![e.id] = @ + 1]
         /\ firstPicks' = IF pickups[e.id] = 0 THEN Append(firstPicks, e.id)
                                               ELSE firstPicks
    /\ queue' = Tail(queue)

\* Mutant: a job is picked up only when the processing list is empty.
PickWhenClear ==
    /\ worker = "waiting" /\ processing = <<>>
    /\ Blmove
    /\ hand' = Head(queue) /\ worker' = "picked"
    /\ UNCHANGED <<deadLetter, jobState, producer, seen, resultOk, effects,
                   pushOrder, cleared, dropped, budget>>

Pick ==
    /\ worker = "waiting"
    /\ Blmove
    /\ hand' = Head(queue) /\ worker' = "picked"
    /\ UNCHANGED <<deadLetter, jobState, producer, seen, resultOk, effects,
                   pushOrder, cleared, dropped, budget>>

\* Redis executes the BLMOVE but its reply never arrives (timeout, dropped
\* socket): the worker goes round its loop without the job.
PickReplyLost ==
    /\ worker = "waiting"
    /\ faults < MaxFaults
    /\ faults' = faults + 1
    /\ Blmove
    /\ UNCHANGED <<deadLetter, jobState, producer, worker, hand, seen,
                   resultOk, effects, pushOrder, cleared, dropped, crashes>>

\* process_job's mutation: it may take effect and be reported as a success,
\* take effect and be reported as a failure (the answer is lost, a bulk write
\* stops half-way), or fail without effect.
Execute ==
    /\ worker = "executing"
    /\ resultOk' \in BOOLEAN
    /\ \/ sheet' = [sheet EXCEPT ![Target[hand.id]] = hand.id]
       \/ ~resultOk' /\ UNCHANGED sheet
    /\ worker' = "reporting"
    /\ UNCHANGED <<lists, jobState, producer, hand, seen, outcome, told,
                   history, budget>>

\* An exception before process_job's own handler is in force (payload, project
\* lookup, client): the job stays in the processing list.
ExecuteRaises ==
    /\ worker = "executing"
    /\ faults < MaxFaults
    /\ faults' = faults + 1
    /\ worker' = "raised"
    /\ UNCHANGED <<lists, jobState, producer, hand, seen, resultOk, effects,
                   history, crashes>>

\* The end of process_job: audit and publish the terminal status.
Report ==
    /\ worker = "reporting"
    /\ LET s == IF resultOk THEN "completed" ELSE "failed" IN
         /\ outcome' = [outcome EXCEPT ![hand.id] = s]
         /\ told' = [told EXCEPT ![hand.id] = @ \cup {s}]
    /\ worker' = "returned"
    /\ UNCHANGED <<lists, jobState, producer, hand, seen, resultOk, sheet,
                   history, budget>>

\* LREM processing 1 raw_data
Clear ==
    /\ worker = "clearing"
    /\ processing' = RemoveFirst(processing, hand)
    /\ cleared' = cleared \cup {hand.id}
    /\ worker' = "waiting" /\ hand' = NoEnvelope
    /\ UNCHANGED <<queue, deadLetter, jobState, producer, seen, resultOk,
                   effects, pushOrder, firstPicks, pickups, dropped, budget>>

ClearFails ==
    /\ worker = "clearing"
    /\ faults < MaxFaults
    /\ faults' = faults + 1
    /\ worker' = "waiting" /\ hand' = NoEnvelope
    /\ UNCHANGED <<lists, jobState, producer, seen, resultOk, effects,
                   history, crashes>>

-----------------------------------------------------------------------------
\* The worker process dies (OOM kill, container restart): Redis keeps the
\* lists, everything in memory is gone.
Crash ==
    /\ worker # "down"
    /\ crashes < MaxCrashes
    /\ crashes' = crashes + 1
    /\ worker' = "down" /\ hand' = NoEnvelope /\ seen' = NotRead
    /\ dropped' = IF worker = "moving" THEN dropped \cup {hand.id} ELSE dropped
    /\ UNCHANGED <<lists, jobState, producer, resultOk, effects, pushOrder,
                   firstPicks, pickups, cleared, faults>>

Produce == \E j \in Jobs : Push(j) \/ SetInitialState(j) \/ SetInitialStateFails(j)

Recover == RecoverDone \/ RecoverPop \/ RecoverPut \/ NotifyBuried

Work == Pick \/ Execute \/ Report \/ Clear

UpdateState == GetJobState \/ SetJobState

Fault == RecoverPopFails \/ RecoverPutFails \/ SetJobStateFails
         \/ PickReplyLost \/ ExecuteRaises \/ ClearFails

Next == Produce \/ Start \/ Recover \/ UpdateState \/ Work \/ Fault \/ Crash

Spec == Init /\ [][Next]_vars

(* The worker keeps running and docker keeps restarting it; nothing obliges *)
(* a user to write, a producer to survive, or a fault to happen.            *)
Fairness == /\ WF_vars(Start)
            /\ WF_vars(Recover \/ UpdateState \/ Work)

FairSpec == Spec /\ Fairness
-----------------------------------------------------------------------------
(* Properties *)

TypeOK ==
    /\ queue \in Seq(Envelope)
    /\ processing \in Seq(Envelope)
    /\ deadLetter \in Seq(Envelope)
    /\ jobState \in [Jobs -> JobState]
    /\ producer \in [Jobs -> {"idle", "pushed", "returned", "returned-unset"}]
    /\ worker \in Locations
    /\ hand \in Envelope \cup {NoEnvelope}
    /\ seen \in JobState \cup {NotRead}
    /\ resultOk \in BOOLEAN
    /\ sheet \in [Cells -> Jobs \cup {NoJob}]
    /\ outcome \in [Jobs -> {"none", "completed", "failed"}]
    /\ told \in [Jobs -> SUBSET {"completed", "failed"}]
    /\ pushOrder \in Seq(Jobs)
    /\ firstPicks \in Seq(Jobs)
    /\ pickups \in [Jobs -> Nat]
    /\ cleared \subseteq Jobs
    /\ dropped \subseteq Jobs
    /\ crashes \in 0..MaxCrashes
    /\ faults \in 0..MaxFaults

\* The job recovery has popped and not yet pushed anywhere.
InRecoverysHand == IF worker = "moving" THEN {hand.id} ELSE {}

Enqueued == { j \in Jobs : producer[j] # "idle" }

\* The jobs that are still going to be dealt with, and those that are not.
Live == Ids(queue) \cup Ids(processing) \cup InRecoverysHand
Gone == Ids(deadLetter) \cup cleared \cup dropped

\* Durability (worker.py 30-36): a job that was enqueued is, at every moment,
\* in one of the three lists, in the hands of recovery, removed by a clean
\* pass, or one that recovery dropped between its LPOP and its RPUSH.
NoJobLost == Enqueued \subseteq Live \cup Gone

\* No job is ever in two places, nor twice in one list: an interrupted
\* recovery and a lost reply never turn one enqueued write into two.
NoJobTwice ==
    /\ Distinct(queue) /\ Distinct(processing) /\ Distinct(deadLetter)
    /\ Ids(queue) \cap Ids(processing) = {}
    /\ (Ids(queue) \cup Ids(processing)) \cap InRecoverysHand = {}
    /\ Live \cap Gone = {}
    /\ Ids(deadLetter) \cap (cleared \cup dropped) = {}
    /\ cleared \cap dropped = {}

\* Where the worker is between a pickup and the LREM that ends it.
Holding == {"picked", "executing", "reporting", "returned", "raised", "clearing"}

\* From pickup to LREM the job the worker is busy with is also in the
\* processing list, so a crash at any point of it leaves it where the next
\* start finds it.
HeldJobIsBacked == worker \in Holding => hand \in ToSet(processing)

\* The retry budget (worker.py 92-98): no write is started more often than
\* MaxAttempts times after its first pickup, and a job is dead-lettered only
\* when that budget is spent.
AttemptsBounded ==
    /\ \A j \in Jobs : pickups[j] <= MaxAttempts + 1
    /\ \A j \in Ids(deadLetter) : pickups[j] = MaxAttempts + 1

\* The queue is first-in first-out (producer.py 59): whatever is re-queued in
\* between, jobs are picked up for the first time in the order of enqueueing.
FirstPicksInOrder == IsPrefix(firstPicks, pushOrder)

\* j was enqueued before k.
Before(j, k) ==
    \E m, n \in 1..Len(pushOrder) : m < n /\ pushOrder[m] = j /\ pushOrder[n] = k

\* A completed write is never hidden by one that was enqueued earlier.
NewestWriteShows ==
    \A j \in Jobs : outcome[j] = "completed" => ~Before(sheet[Target[j]], j)

\* ... which the queue's order guarantees as long as no job is picked up twice.
NewestWriteShowsUnlessReplayed ==
    (\A j \in Jobs : pickups[j] <= 1) => NewestWriteShows

\* What GET /jobs/{id} shows: "done" is shown only for a job process_job
\* returned for, and "dead_letter" only for one in the dead-letter list.  A job
\* whose initial state was stored and that no worker has picked up can be
\* queried by its user (one picked up before the store may lose its owner to
\* the worker's read-modify-write).
StatusTruthful ==
    \A j \in Jobs :
        /\ jobState[j].status = "done" => outcome[j] # "none"
        /\ jobState[j].status = "dead_letter" => j \in Ids(deadLetter)
        /\ producer[j] = "returned" /\ pickups[j] = 0 => jobState[j].owned

\* Once crashes and faults end the worker drains the queue and comes to rest,
\* with nothing waiting.
Quiesces == <>[](queue = <<>> /\ worker = "waiting")

\* A restart clears the processing list (worker.py 30-34): what a crashed run
\* left there is re-queued or dead-lettered, unless Redis fails again.
StaleJobsRecovered ==
    \A j \in Jobs :
        (worker = "down" /\ j \in Ids(processing) /\ faults = MaxFaults)
        ~> j \notin Ids(processing)

\* Where a job stands in the ledger the queue implements.
Phase(j) ==
    IF j \notin Enqueued THEN "new"
    ELSE IF j \in cleared THEN "finished"
    ELSE IF j \in Ids(deadLetter) THEN "buried"
    ELSE IF j \in dropped THEN "lost" ELSE "open"

Ledger == INSTANCE JobLedger
          WITH MaxStarts <- MaxAttempts + 1,
               phase     <- [j \in Jobs |-> Phase(j)],
               starts    <- pickups,
               shows     <- sheet,
               verdict   <- outcome

\* The whole of queue, worker, recovery, crashes and faults is an at-least-once
\* ledger: a write leaves the system only after its outcome was reported, when
\* its attempts are used up, or - once started - through recovery's gap, and it
\* touches the sheet only before that.
ImplementsLedger == Ledger!Spec
=============================================================================
