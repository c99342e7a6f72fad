----------------------------- MODULE GridEdits -----------------------------
(***************************************************************************)
(* Editing cells in the tracker grid: useRowEdits.ts and the part of the   *)
(* project page that reloads rows, against patch_row and the states of the *)
(* queued jobs (WriteQueue has what is behind those).                      *)
(*                                                                         *)
(* An edit's PATCH is answered with a job id; a marker on the cell says    *)
(* "queued" until a poll of GET /jobs/{id}, 8 s after the last change of   *)
(* the markers, finds the job done (the marker goes, the grid reloads) or  *)
(* failed.  The project page opens no WebSocket, so the queue_update       *)
(* listener of the same hook never hears anything there.                   *)
(*                                                                         *)
(* The sheet is a version, one more with each write that lands, and a row  *)
(* answer or the grid is the version it shows.  An edit and its job have   *)
(* one name.                                                               *)
(***************************************************************************)
EXTENDS Naturals

CONSTANTS
    MaxEdits,     \* the edits a user makes, numbered
    Cells,
    Layouts,      \* the cells these edits may be of
    None,
    MaxPolls,     \* bound on fired timers whose requests are still running
    MaxLoads,     \* bound on row requests that are still running
    MaxIncidents  \* bound on requests lost, jobs that raise or are recovered,
                  \* and changes of filter, page, tab or token and reloads

ASSUME GridAssumption ==
    /\ MaxEdits \in Nat /\ MaxPolls \in Nat /\ MaxLoads \in Nat
    /\ Layouts \subseteq [1..MaxEdits -> Cells]
    /\ None \notin 1..MaxEdits
    /\ None \notin [edit : (1..MaxEdits) \cup {None}, state : {"queued", "failed"}]
    /\ MaxIncidents \in Nat

VARIABLES
    cellOf,    \* the cell each edit is of, which no step changes
    patch,     \* each edit's PATCH request
    job,       \* the status in each job's job_state
    was,       \* the statuses each job has had
    landed,    \* the version of the sheet that each job made, or 0
    sheet,     \* the sheet's version
    markers,   \* `pending': the marker of each cell, or None
    timers,    \* the set of entries each armed 8 s timer will ask about
    polls,     \* the running callbacks of fired timers
    loads,     \* the running row requests, and the answers on their way
    grid,      \* the version on screen, 0 if an error is shown instead
    latest,    \* per cell, the last edit whose answer arrived on this page
    missed,    \* the edits whose GET /jobs went wrong in a poll
    due,       \* the newest version such a job had made
    crossed,   \* cells edited again while a callback was asking about them
    overtaken, \* a row answer came after that of a later request
    incidents

page   == <<markers, timers, polls, loads, grid>>
server == <<job, was, landed, sheet>>
notes  == <<latest, due, missed, crossed, overtaken>>
vars   == <<cellOf, patch, page, server, notes, incidents>>

Edits == 1..MaxEdits
Polls == 1..MaxPolls
Loads == 1..MaxLoads

Statuses == {"none", "queued", "done", "error", "dead_letter"}
Marker   == [edit : Edits \cup {None}, state : {"queued", "failed"}]
Idle     == [todo |-> {}, asked |-> None, status |-> "none"]
Asking(entries) == [todo |-> entries, asked |-> None, status |-> "none"]
NoLoad   == [stage |-> "idle", rows |-> 0]

\* `stuck': the edits whose marker says queued, over given markers.
Stuck(m) == {e \in Edits : m[cellOf[e]] = [edit |-> e, state |-> "queued"]}

\* Mutant: the effect returns no cleanup.
RearmedWithoutCleanup(m) == timers \cup (IF Stuck(m) = {} THEN {} ELSE {Stuck(m)})

\* Every setPending re-runs the polling effect: its cleanup stops the timer
\* that waits (not a callback that runs), and a new one is set if needed.
Rearmed(m) == IF Stuck(m) = {} THEN {} ELSE {Stuck(m)}

SetMarkers(m) ==
    /\ markers' = m
    /\ timers' = Rearmed(m)

\* A status a job gets, kept for the properties.
SetJob(e, status) ==
    /\ job' = [job EXCEPT ![e] = status]
    /\ was' = [was EXCEPT ![e] = @ \cup {status}]

\* load(), in the first slot that is free.
FreeLoad(l) == loads[l] = NoLoad /\ \A k \in 1..(l - 1) : loads[k] # NoLoad
Load(l) == FreeLoad(l) /\ loads' = [loads EXCEPT ![l].stage = "asked"]

AskedAbout(p) == polls[p].todo \cup ({polls[p].asked} \ {None})

Init ==
    /\ cellOf \in Layouts
    /\ patch = [e \in Edits |-> "unsent"]
    /\ job = [e \in Edits |-> "none"]
    /\ was = [e \in Edits |-> {}]
    /\ landed = [e \in Edits |-> 0]
    /\ sheet = 1
    /\ markers = [c \in Cells |-> None]
    /\ timers = {}
    /\ polls = [p \in Polls |-> Idle]
    /\ loads = [l \in Loads |-> NoLoad]
    /\ grid = 1
    /\ latest = [c \in Cells |-> None]
    /\ due = 0 /\ missed = {} /\ crossed = {} /\ overtaken = FALSE
    /\ incidents = 0

-----------------------------------------------------------------------------
(* saveCell and patch_row *)

Save(e) ==
    /\ patch[e] = "unsent" /\ \A d \in 1..(e - 1) : patch[d] # "unsent"
    /\ patch' = [patch EXCEPT ![e] = "sent"]
    /\ UNCHANGED <<cellOf, page, server, notes, incidents>>

\* patch_row gets to enqueue_write_job.
Accept(e) ==
    /\ patch[e] = "sent"
    /\ patch' = [patch EXCEPT ![e] = "accepted"]
    /\ SetJob(e, "queued")
    /\ UNCHANGED <<cellOf, page, landed, sheet, notes, incidents>>

Answered(e, marker) ==
    LET c == cellOf[e] IN
    /\ patch' = [patch EXCEPT ![e] = "answered"]
    /\ SetMarkers([markers EXCEPT ![c] = marker])
    /\ latest' = [latest EXCEPT ![c] = e]
    /\ crossed' = IF \E p \in Polls : \E d \in AskedAbout(p) : cellOf[d] = c
                  THEN crossed \cup {c} ELSE crossed

AcceptanceArrives(e) ==
    /\ patch[e] = "accepted"
    /\ Answered(e, [edit |-> e, state |-> "queued"])
    /\ UNCHANGED <<cellOf, polls, loads, grid, server, due, missed,
                   overtaken, incidents>>

\* patch_row answered 400, 403 or 404 before that, or failed.
RefusalArrives(e) ==
    /\ patch[e] = "sent"
    /\ Answered(e, [edit |-> None, state |-> "failed"])
    /\ UNCHANGED <<cellOf, polls, loads, grid, server, due, missed,
                   overtaken, incidents>>

\* fetch throws: "Could not reach the server", which may have enqueued the job.
PatchLost(e) ==
    /\ patch[e] \in {"sent", "accepted"} /\ incidents < MaxIncidents
    /\ Answered(e, [edit |-> None, state |-> "failed"])
    /\ incidents' = incidents + 1
    /\ UNCHANGED <<cellOf, polls, loads, grid, server, due, missed,
                   overtaken>>

-----------------------------------------------------------------------------
(* The job, as job_state shows it; what moves it is WriteQueue.  To the page
   "processing" is as "queued". *)

\* The mutation takes effect or not.
Mutates(e) ==
    \/ /\ sheet' = sheet + 1
       /\ landed' = [landed EXCEPT ![e] = sheet']
    \/ UNCHANGED <<sheet, landed>>

\* process_job returns, which says nothing of the mutation's own success.
JobReturns(e) ==
    /\ job[e] = "queued"
    /\ SetJob(e, "done")
    /\ Mutates(e)
    /\ UNCHANGED <<cellOf, patch, page, notes, incidents>>

\* Something around the mutation raises, before it or after it.
JobRaises(e) ==
    /\ job[e] = "queued" /\ incidents < MaxIncidents
    /\ SetJob(e, "error")
    /\ Mutates(e)
    /\ incidents' = incidents + 1
    /\ UNCHANGED <<cellOf, patch, page, notes>>

\* A restarted worker finds the job in the processing list, where a crash, an
\* exception or a failed LREM left it.
Recover(e) ==
    /\ job[e] \in {"queued", "done", "error"} /\ incidents < MaxIncidents
    /\ \E s \in {"queued", "dead_letter"} : SetJob(e, s)
    /\ incidents' = incidents + 1
    /\ UNCHANGED <<cellOf, patch, landed, sheet, page, notes>>

-----------------------------------------------------------------------------
(* The poll *)

TimerFires(p) ==
    /\ polls[p] = Idle /\ \A q \in 1..(p - 1) : polls[q] # Idle
    /\ \E entries \in timers :
         /\ timers' = timers \ {entries}
         /\ polls' = [polls EXCEPT ![p] = Asking(entries)]
    /\ UNCHANGED <<cellOf, patch, server, markers, loads, grid, notes, incidents>>

\* The next GET /jobs/{id} of the loop is answered with the state it finds.
Ask(p) ==
    /\ polls[p].asked = None
    /\ \E e \in polls[p].todo :
         polls' = [polls EXCEPT ![p] = [todo |-> @.todo \ {e}, asked |-> e,
                                        status |-> job[e]]]
    /\ UNCHANGED <<cellOf, patch, server, markers, timers, loads, grid, notes, incidents>>

\* Mutant: `return' for `continue'.
AskFailsStops(p) ==
    /\ polls[p].asked = None /\ incidents < MaxIncidents
    /\ \E e \in polls[p].todo :
         /\ polls' = [polls EXCEPT ![p] = Idle]
         /\ missed' = missed \cup {e}
    /\ incidents' = incidents + 1
    /\ UNCHANGED <<cellOf, patch, server, markers, timers, loads, grid, latest,
                   due, crossed, overtaken>>

\* It fails, or is not ok (the state expired, or was never stored).
AskFails(p) ==
    /\ polls[p].asked = None /\ incidents < MaxIncidents
    /\ \E e \in polls[p].todo :
         /\ polls' = [polls EXCEPT ![p] = Asking(polls[p].todo \ {e})]
         /\ missed' = missed \cup {e}
    /\ incidents' = incidents + 1
    /\ UNCHANGED <<cellOf, patch, server, markers, timers, loads, grid, latest,
                   due, crossed, overtaken>>

Replied(p, e, statuses) ==
    /\ polls[p].asked = e /\ polls[p].status \in statuses
    /\ polls' = [polls EXCEPT ![p] = Asking(polls[p].todo)]

\* Neither branch: no marker changes, so no further timer is set.
HearOpen(p) ==
    /\ \E e \in Edits : Replied(p, e, {"none", "queued"})
    /\ UNCHANGED <<cellOf, patch, server, markers, timers, loads, grid, notes, incidents>>

\* Mutant: no reload while one is running.
HearDoneOnceLoading(p) ==
    /\ \E e \in Edits :
         /\ Replied(p, e, {"done"})
         /\ SetMarkers([markers EXCEPT ![cellOf[e]] = None])
         /\ due' = IF landed[e] > due THEN landed[e] ELSE due
    /\ IF \A l \in Loads : loads[l] = NoLoad
       THEN \E l \in Loads : Load(l) ELSE UNCHANGED loads
    /\ UNCHANGED <<cellOf, patch, server, grid, latest, missed, crossed, overtaken,
                   incidents>>

\* The marker is dropped by its cell, whichever edit it belongs to by now,
\* and onApplied reads the rows again.
HearDone(p) ==
    /\ \E e \in Edits :
         /\ Replied(p, e, {"done"})
         /\ SetMarkers([markers EXCEPT ![cellOf[e]] = None])
         /\ due' = IF landed[e] > due THEN landed[e] ELSE due
    /\ \E l \in Loads : Load(l)
    /\ UNCHANGED <<cellOf, patch, server, grid, latest, missed, crossed, overtaken,
                   incidents>>

\* { ...prev[key], state: "failed" }, also where prev[key] is gone.
HearFailed(p) ==
    /\ \E e \in Edits :
         LET c == cellOf[e]
             owner == IF markers[c] = None THEN None ELSE markers[c].edit IN
         /\ Replied(p, e, {"error", "dead_letter"})
         /\ SetMarkers([markers EXCEPT
                ![c] = [edit |-> owner, state |-> "failed"]])
    /\ UNCHANGED <<cellOf, patch, server, loads, grid, notes, incidents>>

-----------------------------------------------------------------------------
(* The page around it *)

\* GET rows reads the sheet (RowsCache has what may be stale there).
RowsRead(l) ==
    /\ loads[l].stage = "asked"
    /\ loads' = [loads EXCEPT ![l] = [stage |-> "answered", rows |-> sheet]]
    /\ UNCHANGED <<cellOf, patch, server, markers, timers, polls, grid, notes, incidents>>

\* setRowsData with whichever answer comes.
RowsShown(l) ==
    /\ loads[l].stage = "answered"
    /\ grid' = loads[l].rows
    /\ overtaken' = (overtaken \/ loads[l].rows < grid)
    /\ loads' = [loads EXCEPT ![l] = NoLoad]
    /\ UNCHANGED <<cellOf, patch, server, markers, timers, polls, latest, due,
                   missed, crossed, incidents>>

\* setRowsData(null) and a message, until another request is answered.
RowsFail(l) ==
    /\ loads[l].stage = "asked" /\ incidents < MaxIncidents
    /\ grid' = 0
    /\ overtaken' = (overtaken \/ \E k \in Loads \ {l} : loads[k] # NoLoad)
    /\ loads' = [loads EXCEPT ![l] = NoLoad]
    /\ incidents' = incidents + 1
    /\ UNCHANGED <<cellOf, patch, server, markers, timers, polls, latest, due,
                   missed, crossed>>

\* A filter, page, tab or token changes: `load', hence onApplied, is new, the
\* rows are read again, and the effect stops its timer and sets another.
Rerender ==
    /\ incidents < MaxIncidents /\ incidents' = incidents + 1
    /\ \E l \in Loads : Load(l)
    /\ SetMarkers(markers)
    /\ UNCHANGED <<cellOf, patch, server, polls, grid, notes>>

\* The page is left or reloaded: the markers are gone, the timer is stopped,
\* and what is on its way reaches nobody.
Reload ==
    /\ incidents < MaxIncidents /\ incidents' = incidents + 1
    /\ SetMarkers([c \in Cells |-> None])
    /\ polls' = [p \in Polls |-> Idle]
    /\ grid' = sheet
    /\ loads' = [l \in Loads |-> NoLoad]
    /\ patch' = [e \in Edits |->
                   IF patch[e] = "unsent" THEN "unsent" ELSE "answered"]
    /\ latest' = [c \in Cells |-> None]
    /\ crossed' = {} /\ overtaken' = FALSE
    /\ due' = 0 /\ missed' = {}
    /\ UNCHANGED <<cellOf, server>>

PatchStep(e) ==
    \/ Accept(e) \/ AcceptanceArrives(e) \/ RefusalArrives(e) \/ PatchLost(e)
JobStep(e) == JobReturns(e) \/ JobRaises(e) \/ Recover(e)
PollStep(p) ==
    Ask(p) \/ AskFails(p) \/ HearOpen(p) \/ HearDone(p) \/ HearFailed(p)
LoadStep(l) == RowsRead(l) \/ RowsShown(l) \/ RowsFail(l)

Next ==
    \/ \E e \in Edits : Save(e) \/ PatchStep(e) \/ JobStep(e)
    \/ \E p \in Polls : TimerFires(p) \/ PollStep(p)
    \/ \E l \in Loads : LoadStep(l)
    \/ Rerender \/ Reload

Spec == Init /\ [][Next]_vars

\* Timers fire and requests end; nobody has to edit, and no job has to run.
FairSpec ==
    /\ Spec
    /\ \A p \in Polls : WF_vars(TimerFires(p)) /\ WF_vars(PollStep(p))
    /\ \A l \in Loads : WF_vars(LoadStep(l))

-----------------------------------------------------------------------------
(* Properties *)

\* What a cell says of the last edit the page heard about is so: it is queued
\* if the server has taken it, failed if its job has failed (or the server
\* refused it or was not reached), and without a marker only if its own job
\* has ended; unless the cell was edited again under a running callback.
MarkerTruthful ==
    \A c \in Cells \ crossed :
        latest[c] # None =>
            \/ markers[c] = [edit |-> None, state |-> "failed"]
            \/ /\ markers[c] = [edit |-> latest[c], state |-> "queued"]
               /\ was[latest[c]] # {}
            \/ /\ markers[c] = [edit |-> latest[c], state |-> "failed"]
               /\ was[latest[c]] \cap {"error", "dead_letter"} # {}
            \/ markers[c] = None /\ "done" \in was[latest[c]]

\* Once no row request is running, the rows on screen are as new as every write
\* whose marker was dropped, unless row answers overtook each other.
AppliedEditShown ==
    (grid # 0 /\ ~overtaken /\ \A l \in Loads : loads[l] = NoLoad) => grid >= due

\* A poll that is due about a job that has ended, and stays so, settles the
\* cell, unless its own request fails.
Final(e) == job[e] \in {"done", "dead_letter"}
Watched(e) == \E s \in timers \cup {polls[p].todo : p \in Polls} : e \in s
PollSettles ==
    \A e \in Edits :
        (e \in Stuck(markers) /\ Watched(e) /\ Final(e))
            ~> (e \notin Stuck(markers) \/ e \in missed \/ ~Final(e))
=============================================================================
