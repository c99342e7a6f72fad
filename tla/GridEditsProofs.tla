---------------------------- MODULE GridEditsProofs ----------------------------
(***************************************************************************)
(* Proofs about GridEdits, for any number of edits, cells, overlapping     *)
(* callbacks, row requests and incidents.  The invariant has two halves:   *)
(* which edit each marker and each running callback is about, and which    *)
(* row request will make the grid as new as the markers that were dropped. *)
(***************************************************************************)
EXTENDS GridEdits, TLAPS

-----------------------------------------------------------------------------
(* The invariant *)

TypeInv ==
    /\ cellOf \in [Edits -> Cells]
    /\ patch \in [Edits -> {"unsent", "sent", "accepted", "answered"}]
    /\ job \in [Edits -> Statuses] /\ was \in [Edits -> SUBSET Statuses]
    /\ landed \in [Edits -> Nat] /\ sheet \in Nat
    /\ markers \in [Cells -> Marker \cup {None}]
    /\ polls \in [Polls -> [todo : SUBSET Edits, asked : Edits \cup {None},
                            status : Statuses]]
    /\ loads \in [Loads -> [stage : {"idle", "asked", "answered"}, rows : Nat]]
    /\ grid \in Nat /\ due \in Nat
    /\ latest \in [Cells -> Edits \cup {None}]

\* The armed timer is about the markers as they are.
TimerInv == timers \subseteq {Stuck(markers)}

\* The server has heard of an edit whose answer is an acceptance, and a job has
\* had the status it has.
JobInv ==
    \A e \in Edits :
        /\ patch[e] = "accepted" => was[e] # {}
        /\ job[e] # "none" => job[e] \in was[e]

\* The page's notes are of the cell they are kept for.
LatestInv == \A c \in Cells : latest[c] # None => cellOf[latest[c]] = c

\* A cell is marked as queued for the edit that was answered last.
Queued(c) == [edit |-> latest[c], state |-> "queued"]
QueuedInv ==
    \A c \in Cells, e \in Edits :
        markers[c] = [edit |-> e, state |-> "queued"] => latest[c] = e

\* A callback is about the last edit of each of its cells, unless the cell was
\* edited again under it, and holds a status that edit's job has had.
AskedInv ==
    \A p \in Polls :
        /\ \A e \in AskedAbout(p) : cellOf[e] \in crossed \/ latest[cellOf[e]] = e
        /\ polls[p].asked # None =>
               polls[p].status = "none" \/ polls[p].status \in was[polls[p].asked]

MarkerInv ==
    TimerInv /\ JobInv /\ LatestInv /\ QueuedInv /\ AskedInv /\ MarkerTruthful

\* Nothing was shown or noted that the sheet has not had.
VersionInv == due <= sheet /\ \A e \in Edits : landed[e] <= sheet

\* A row request whose answer will be new enough.
Renewing(l) == loads[l].stage = "asked" \/ (loads[l].stage = "answered" /\ loads[l].rows >= due)
ViewInv ==
    ~ overtaken =>
        \/ \E l \in Loads : Renewing(l)
        \/ grid >= due
        \/ grid = 0 /\ \A l \in Loads : loads[l] = NoLoad

Inv == TypeInv /\ MarkerInv /\ VersionInv /\ ViewInv

-----------------------------------------------------------------------------
(* Types *)

\* A fresh page, sheet and server are of their types.
LEMMA TypeInit == Init => TypeInv
  BY GridAssumption
  DEF Init, TypeInv, Edits, Statuses, Idle, NoLoad, Polls, Loads

\* An answer to a PATCH, a poll and a change of the page keep the types.
LEMMA TypeStep == ASSUME TypeInv, TimerInv, [Next]_vars PROVE TypeInv'
<1> USE GridAssumption DEF TypeInv
<1>1. ASSUME NEW e \in Edits, Save(e) PROVE TypeInv'
  BY <1>1 DEF Save, page, server, notes
<1>2. ASSUME NEW e \in Edits, Accept(e) PROVE TypeInv'
  BY <1>2 DEF Accept, SetJob, page, notes, Statuses
<1>3. ASSUME NEW e \in Edits, NEW m \in Marker, Answered(e, m),
             UNCHANGED <<cellOf, polls, loads, grid, server, due>>
      PROVE  TypeInv'
  BY <1>3 DEF Answered, SetMarkers, server
<1>4. ASSUME NEW e \in Edits, AcceptanceArrives(e) \/ RefusalArrives(e) \/ PatchLost(e)
      PROVE  TypeInv'
  <2>1. [edit |-> e, state |-> "queued"] \in Marker /\ [edit |-> None, state |-> "failed"] \in Marker
    BY DEF Marker
  <2> QED
    BY <1>3, <1>4, <2>1 DEF AcceptanceArrives, RefusalArrives, PatchLost
<1>5. ASSUME NEW e \in Edits, NEW status \in Statuses, SetJob(e, status)
      PROVE  job' \in [Edits -> Statuses] /\ was' \in [Edits -> SUBSET Statuses]
  BY <1>5 DEF SetJob
<1>6. ASSUME NEW e \in Edits, Mutates(e) PROVE landed' \in [Edits -> Nat] /\ sheet' \in Nat
  <2>1. CASE sheet' = sheet + 1 /\ landed' = [landed EXCEPT ![e] = sheet']
    BY <2>1
  <2>2. CASE UNCHANGED <<sheet, landed>>
    BY <2>2
  <2> QED
    BY <1>6, <2>1, <2>2 DEF Mutates
<1>7. ASSUME NEW e \in Edits, JobStep(e) PROVE TypeInv'
  <2>1. UNCHANGED <<cellOf, patch, markers, polls, loads, grid, due, latest>>
    BY <1>7 DEF JobStep, JobReturns, JobRaises, Recover, page, notes
  <2>2. \E status \in Statuses : SetJob(e, status)
    BY <1>7 DEF JobStep, JobReturns, JobRaises, Recover, Statuses
  <2>3. Mutates(e) \/ UNCHANGED <<landed, sheet>>
    BY <1>7 DEF JobStep, JobReturns, JobRaises, Recover
  <2> QED
    BY <2>1, <2>2, <2>3, <1>5, <1>6
<1>8. ASSUME NEW p \in Polls, TimerFires(p) PROVE TypeInv'
  <2>1. PICK entries \in timers : polls' = [polls EXCEPT ![p] = Asking(entries)]
    BY <1>8 DEF TimerFires
  <2>2. entries \in SUBSET Edits
    <3>1. entries = Stuck(markers)
      BY <2>1 DEF TimerInv
    <3> QED
      BY <3>1 DEF Stuck
  <2> QED
    BY <1>8, <2>1, <2>2 DEF TimerFires, server, notes, Asking, Statuses
<1>9. ASSUME NEW p \in Polls, Ask(p) PROVE TypeInv'
  <2>1. PICK e \in polls[p].todo :
          polls' = [polls EXCEPT ![p] = [todo |-> @.todo \ {e}, asked |-> e, status |-> job[e]]]
    BY <1>9 DEF Ask
  <2>2. e \in Edits /\ polls[p].todo \in SUBSET Edits
    BY <2>1
  <2>3. [todo |-> polls[p].todo \ {e}, asked |-> e, status |-> job[e]]
          \in [todo : SUBSET Edits, asked : Edits \cup {None}, status : Statuses]
    BY <2>2
  <2> QED
    BY <1>9, <2>1, <2>3 DEF Ask, server, notes
<1>10. ASSUME NEW p \in Polls, AskFails(p) PROVE TypeInv'
  <2>1. PICK e \in polls[p].todo : polls' = [polls EXCEPT ![p] = Asking(polls[p].todo \ {e})]
    BY <1>10 DEF AskFails
  <2>2. polls' \in [Polls -> [todo : SUBSET Edits, asked : Edits \cup {None}, status : Statuses]]
    BY <2>1 DEF Asking, Statuses
  <2> QED
    BY <1>10, <2>2 DEF AskFails, server
<1>11. ASSUME NEW p \in Polls, NEW e \in Edits, NEW statuses, Replied(p, e, statuses)
       PROVE  polls' \in [Polls -> [todo : SUBSET Edits, asked : Edits \cup {None},
                                    status : Statuses]]
  BY <1>11 DEF Replied, Asking, Statuses
<1>12. ASSUME NEW p \in Polls, HearOpen(p) PROVE TypeInv'
  <2>1. polls' \in [Polls -> [todo : SUBSET Edits, asked : Edits \cup {None}, status : Statuses]]
    BY <1>11, <1>12 DEF HearOpen
  <2> QED
    BY <1>12, <2>1 DEF HearOpen, server, notes
<1>13. ASSUME NEW l \in Loads, Load(l)
       PROVE  loads' \in [Loads -> [stage : {"idle", "asked", "answered"}, rows : Nat]]
  BY <1>13, ZenonT(30) DEF Load
<1>14. ASSUME NEW p \in Polls, HearDone(p) PROVE TypeInv'
  <2>1. PICK e \in Edits : /\ Replied(p, e, {"done"})
                           /\ markers' = [markers EXCEPT ![cellOf[e]] = None]
                           /\ due' = IF landed[e] > due THEN landed[e] ELSE due
    BY <1>14 DEF HearDone, SetMarkers
  <2>2. polls' \in [Polls -> [todo : SUBSET Edits, asked : Edits \cup {None}, status : Statuses]]
    BY <1>11, <2>1
  <2>3. loads' \in [Loads -> [stage : {"idle", "asked", "answered"}, rows : Nat]]
    BY <1>13, <1>14 DEF HearDone
  <2>4. markers' \in [Cells -> Marker \cup {None}] /\ due' \in Nat
    BY <2>1
  <2> QED
    BY <1>14, <2>2, <2>3, <2>4 DEF HearDone, server
<1>15. ASSUME NEW p \in Polls, HearFailed(p) PROVE TypeInv'
  <2>1. PICK e \in Edits, owner \in Edits \cup {None} :
           /\ Replied(p, e, {"error", "dead_letter"})
           /\ markers' = [markers EXCEPT ![cellOf[e]] = [edit |-> owner, state |-> "failed"]]
    <3>1. PICK e \in Edits :
            /\ Replied(p, e, {"error", "dead_letter"})
            /\ markers' = [markers EXCEPT ![cellOf[e]] =
                 [edit |-> IF markers[cellOf[e]] = None THEN None ELSE markers[cellOf[e]].edit,
                  state |-> "failed"]]
      BY <1>15 DEF HearFailed, SetMarkers
    <3>2. (IF markers[cellOf[e]] = None THEN None ELSE markers[cellOf[e]].edit) \in Edits \cup {None}
      BY DEF Marker
    <3> QED
      BY <3>1, <3>2
  <2>2. polls' \in [Polls -> [todo : SUBSET Edits, asked : Edits \cup {None}, status : Statuses]]
    BY <1>11, <2>1
  <2>3. markers' \in [Cells -> Marker \cup {None}]
    BY <2>1 DEF Marker
  <2> QED
    BY <1>15, <2>2, <2>3 DEF HearFailed, server, notes
<1>16. ASSUME NEW l \in Loads, LoadStep(l) PROVE TypeInv'
  <2>1. loads' \in [Loads -> [stage : {"idle", "asked", "answered"}, rows : Nat]]
    <3>1. CASE RowsRead(l)
      BY <3>1 DEF RowsRead
    <3>2. CASE RowsShown(l)
      BY <3>2 DEF RowsShown, NoLoad
    <3>3. CASE RowsFail(l)
      BY <3>3 DEF RowsFail, NoLoad
    <3> QED
      BY <1>16, <3>1, <3>2, <3>3 DEF LoadStep
  <2>2. grid' \in Nat
    BY <1>16 DEF LoadStep, RowsRead, RowsShown, RowsFail
  <2>3. UNCHANGED <<cellOf, patch, server, markers, polls, due, latest>>
    BY <1>16 DEF LoadStep, RowsRead, RowsShown, RowsFail, notes
  <2> QED
    BY <2>1, <2>2, <2>3 DEF server
<1>17. CASE Rerender
  <2>1. loads' \in [Loads -> [stage : {"idle", "asked", "answered"}, rows : Nat]]
    BY <1>13, <1>17 DEF Rerender
  <2> QED
    BY <1>17, <2>1 DEF Rerender, SetMarkers, server, notes
<1>18. CASE Reload
  <2>1. /\ UNCHANGED <<cellOf, server>> /\ grid' = sheet /\ due' = 0
        /\ markers' = [c \in Cells |-> None]
        /\ loads' = [l \in Loads |-> NoLoad] /\ polls' = [p \in Polls |-> Idle]
        /\ latest' = [c \in Cells |-> None]
    BY <1>18 DEF Reload, SetMarkers
  <2>2. patch' \in [Edits -> {"unsent", "sent", "accepted", "answered"}]
    BY <1>18 DEF Reload
  <2> QED
    BY <2>1, <2>2 DEF server, NoLoad, Idle, Statuses
<1>19. CASE UNCHANGED vars
  BY <1>19 DEF vars, page, server, notes
<1> QED
  BY <1>1, <1>2, <1>4, <1>7, <1>8, <1>9, <1>10, <1>12, <1>14, <1>15, <1>16, <1>17, <1>18, <1>19
  DEF Next, PatchStep, PollStep

-----------------------------------------------------------------------------
(* Markers, timers and callbacks *)

\* A fresh page has no markers, timers or callbacks.
LEMMA MarkerInit == Init => MarkerInv
<1> SUFFICES ASSUME Init PROVE MarkerInv
  OBVIOUS
<1> USE GridAssumption DEF Init
<1>1. TimerInv
  BY DEF TimerInv
<1>2. JobInv
  BY DEF JobInv
<1>3. LatestInv /\ MarkerTruthful
  BY DEF LatestInv, MarkerTruthful
<1>4. QueuedInv
  <2>1. \A e \in Edits : [edit |-> e, state |-> "queued"] # None
    BY DEF Edits
  <2> QED
    BY <2>1 DEF QueuedInv
<1>5. AskedInv
  BY DEF AskedInv, AskedAbout, Idle
<1> QED
  BY <1>1, <1>2, <1>3, <1>4, <1>5 DEF MarkerInv

\* Whoever changes the markers re-arms the timer for them.
LEMMA SetMarkersTimer ==
  ASSUME NEW m, SetMarkers(m), cellOf' = cellOf
  PROVE  TimerInv'
<1>1. markers' = m /\ timers' \subseteq {Stuck(m)}
  BY DEF SetMarkers, Rearmed
<1>2. Stuck(markers)' = Stuck(m)
  BY <1>1 DEF Stuck, Edits
<1> QED
  BY <1>1, <1>2 DEF TimerInv

\* Steps that leave the page's half alone and add to what jobs have been.
LEMMA ServerMarker ==
  ASSUME TypeInv, MarkerInv, UNCHANGED <<cellOf, markers, timers, polls, latest, crossed>>,
         \A e \in Edits : was[e] \subseteq was'[e], JobInv'
  PROVE  MarkerInv'
<1> USE DEF MarkerInv
<1>1. TimerInv' /\ LatestInv' /\ QueuedInv'
  BY DEF TimerInv, LatestInv, QueuedInv, Stuck
<1>2. AskedInv'
  BY DEF AskedInv, AskedAbout, TypeInv
<1>3. MarkerTruthful'
  BY DEF MarkerTruthful, TypeInv
<1> QED
  BY <1>1, <1>2, <1>3

\* The answer to a PATCH marks the cell for the edit it is about; callbacks that
\* ask about the cell are crossed from then on.
LEMMA AnsweredMarker ==
  ASSUME TypeInv, MarkerInv, NEW e \in Edits, NEW m, Answered(e, m),
         UNCHANGED <<cellOf, polls, job, was>>,
         \/ m = [edit |-> None, state |-> "failed"]
         \/ m = [edit |-> e, state |-> "queued"] /\ was[e] # {}
  PROVE  MarkerInv'
<1> USE GridAssumption DEF MarkerInv
<1> DEFINE c == cellOf[e]
<1>1. /\ c \in Cells
      /\ \A d \in Cells : /\ markers'[d] = IF d = c THEN m ELSE markers[d]
                          /\ latest'[d] = IF d = c THEN e ELSE latest[d]
  BY DEF Answered, SetMarkers, TypeInv
<1>2. /\ crossed \subseteq crossed'
      /\ \A p \in Polls : \A d \in AskedAbout(p) : cellOf[d] = c => c \in crossed'
  BY DEF Answered
<1>3. TimerInv'
  BY SetMarkersTimer DEF Answered
<1>4. JobInv'
  BY DEF JobInv, Answered, TypeInv
<1>5. LatestInv'
  BY <1>1 DEF LatestInv
<1>6. QueuedInv'
  BY <1>1 DEF QueuedInv, Edits
<1>7. AskedInv'
  <2> SUFFICES ASSUME NEW p \in Polls
               PROVE  /\ \A d \in AskedAbout(p) : cellOf[d] \in crossed' \/ latest'[cellOf[d]] = d
                      /\ polls[p].asked # None =>
                           polls[p].status = "none" \/ polls[p].status \in was[polls[p].asked]
    BY DEF AskedInv, AskedAbout
  <2>1. ASSUME NEW d \in AskedAbout(p) PROVE cellOf[d] \in crossed' \/ latest'[cellOf[d]] = d
    <3>1. cellOf[d] \in Cells
      BY <2>1 DEF AskedAbout, TypeInv
    <3> QED
      BY <1>1, <1>2, <2>1, <3>1 DEF AskedInv
  <2> QED
    BY <2>1 DEF AskedInv
<1>8. MarkerTruthful'
  <2> SUFFICES ASSUME NEW d \in Cells \ crossed', latest'[d] # None
               PROVE  \/ markers'[d] = [edit |-> None, state |-> "failed"]
                      \/ /\ markers'[d] = [edit |-> latest'[d], state |-> "queued"]
                         /\ was[latest'[d]] # {}
                      \/ /\ markers'[d] = [edit |-> latest'[d], state |-> "failed"]
                         /\ was[latest'[d]] \cap {"error", "dead_letter"} # {}
                      \/ markers'[d] = None /\ "done" \in was[latest'[d]]
    BY DEF MarkerTruthful
  <2>1. CASE d = c
    BY <1>1, <2>1
  <2>2. CASE d # c
    BY <1>1, <1>2, <2>2 DEF MarkerTruthful
  <2> QED
    BY <2>1, <2>2
<1> QED
  BY <1>3, <1>4, <1>5, <1>6, <1>7, <1>8

\* A callback that is about fewer edits than before, and asks about none.
LEMMA FewerAsked ==
  ASSUME TypeInv, MarkerInv, NEW p \in Polls, NEW todo \in SUBSET AskedAbout(p),
         polls' = [polls EXCEPT ![p] = Asking(todo)],
         UNCHANGED <<cellOf, was, latest, crossed>>
  PROVE  AskedInv'
<1> SUFFICES ASSUME NEW q \in Polls
             PROVE  /\ \A d \in AskedAbout(q)' : cellOf[d] \in crossed \/ latest[cellOf[d]] = d
                    /\ polls'[q].asked # None =>
                         polls'[q].status = "none" \/ polls'[q].status \in was[polls'[q].asked]
  BY DEF AskedInv
<1>1. CASE q = p
  <2>1. polls'[q] = Asking(todo)
    BY <1>1 DEF TypeInv
  <2>2. AskedAbout(q)' \subseteq AskedAbout(p)
    BY <2>1 DEF AskedAbout, Asking
  <2> QED
    BY <2>1, <2>2 DEF Asking, AskedInv, MarkerInv
<1>2. CASE q # p
  BY <1>2 DEF TypeInv, AskedInv, MarkerInv, AskedAbout
<1> QED
  BY <1>1, <1>2
\* A job gets a status it has then had.
LEMMA SetJobMarker ==
  ASSUME TypeInv, MarkerInv, NEW e \in Edits, NEW status \in Statuses, SetJob(e, status),
         \/ UNCHANGED patch
         \/ status # "none" /\ patch' = [patch EXCEPT ![e] = "accepted"]
  PROVE  JobInv' /\ \A d \in Edits : was[d] \subseteq was'[d]
<1>1. \A d \in Edits : /\ job'[d] = IF d = e THEN status ELSE job[d]
                       /\ was'[d] = IF d = e THEN was[e] \cup {status} ELSE was[d]
  BY DEF SetJob, TypeInv
<1>2. \A d \in Edits : patch'[d] = "accepted" => d = e \/ patch[d] = "accepted"
  BY DEF TypeInv
<1> QED
  BY <1>1, <1>2 DEF MarkerInv, JobInv

\* Every step keeps what the markers, timers and callbacks are about.
LEMMA MarkerStep == ASSUME TypeInv, MarkerInv, [Next]_vars PROVE MarkerInv'
<1> USE GridAssumption
<1>1. ASSUME NEW e \in Edits, Save(e) PROVE MarkerInv'
  <2>1. JobInv'
    BY <1>1 DEF Save, MarkerInv, JobInv, TypeInv, server
  <2> QED
    BY <1>1, <2>1, ServerMarker DEF Save, page, server, notes
<1>2. ASSUME NEW e \in Edits, Accept(e) PROVE MarkerInv'
  <2>1. JobInv' /\ \A d \in Edits : was[d] \subseteq was'[d]
    BY <1>2, SetJobMarker DEF Accept, Statuses
  <2> QED
    BY <1>2, <2>1, ServerMarker DEF Accept, page, notes
<1>3. ASSUME NEW e \in Edits, AcceptanceArrives(e) PROVE MarkerInv'
  <2>1. was[e] # {}
    BY <1>3 DEF AcceptanceArrives, MarkerInv, JobInv
  <2> QED
    BY <1>3, <2>1, AnsweredMarker DEF AcceptanceArrives, server
<1>4. ASSUME NEW e \in Edits, RefusalArrives(e) \/ PatchLost(e) PROVE MarkerInv'
  BY <1>4, AnsweredMarker DEF RefusalArrives, PatchLost, server
<1>5. ASSUME NEW e \in Edits, JobStep(e) PROVE MarkerInv'
  <2>1. UNCHANGED <<cellOf, patch, markers, timers, polls, latest, crossed>>
    BY <1>5 DEF JobStep, JobReturns, JobRaises, Recover, page, notes
  <2>2. \E status \in Statuses : SetJob(e, status)
    BY <1>5 DEF JobStep, JobReturns, JobRaises, Recover, Statuses
  <2>3. JobInv' /\ \A d \in Edits : was[d] \subseteq was'[d]
    BY <2>1, <2>2, SetJobMarker
  <2> QED
    BY <2>1, <2>3, ServerMarker
<1>6. ASSUME NEW p \in Polls, TimerFires(p) PROVE MarkerInv'
  <2>1. PICK entries \in timers : /\ timers' = timers \ {entries}
                                  /\ polls' = [polls EXCEPT ![p] = Asking(entries)]
    BY <1>6 DEF TimerFires
  <2>2. UNCHANGED <<cellOf, patch, job, was, markers, latest, crossed>>
    BY <1>6 DEF TimerFires, server, notes
  <2>3. entries = Stuck(markers)
    BY <2>1 DEF MarkerInv, TimerInv
  <2>4. \A e \in entries : e \in Edits /\ latest[cellOf[e]] = e
    BY <2>3 DEF Stuck, MarkerInv, QueuedInv, TypeInv
  <2>5. AskedInv'
    <3> SUFFICES ASSUME NEW q \in Polls
                 PROVE  /\ \A d \in AskedAbout(q)' : cellOf[d] \in crossed \/ latest[cellOf[d]] = d
                        /\ polls'[q].asked # None =>
                             polls'[q].status = "none" \/ polls'[q].status \in was[polls'[q].asked]
      BY <2>2 DEF AskedInv
    <3>1. CASE q = p
      BY <2>1, <2>4, <3>1 DEF TypeInv, AskedAbout, Asking
    <3>2. CASE q # p
      BY <2>1, <3>2 DEF TypeInv, AskedInv, MarkerInv, AskedAbout
    <3> QED
      BY <3>1, <3>2
  <2>6. TimerInv'
    BY <2>1, <2>2 DEF MarkerInv, TimerInv, Stuck
  <2>7. JobInv' /\ LatestInv' /\ QueuedInv' /\ MarkerTruthful'
    BY <2>2 DEF MarkerInv, JobInv, LatestInv, QueuedInv, MarkerTruthful
  <2> QED
    BY <2>5, <2>6, <2>7 DEF MarkerInv
<1>7. ASSUME NEW p \in Polls, Ask(p) PROVE MarkerInv'
  <2>1. PICK e \in polls[p].todo :
          polls' = [polls EXCEPT ![p] = [todo |-> @.todo \ {e}, asked |-> e, status |-> job[e]]]
    BY <1>7 DEF Ask
  <2>2. UNCHANGED <<cellOf, patch, job, was, markers, timers, latest, crossed>>
    BY <1>7 DEF Ask, server, notes
  <2>3. e \in Edits /\ e # None
    BY <2>1 DEF TypeInv, Edits
  <2>4. polls'[p] = [todo |-> polls[p].todo \ {e}, asked |-> e, status |-> job[e]]
    BY <2>1 DEF TypeInv
  <2>5. AskedInv'
    <3> SUFFICES ASSUME NEW q \in Polls
                 PROVE  /\ \A d \in AskedAbout(q)' : cellOf[d] \in crossed \/ latest[cellOf[d]] = d
                        /\ polls'[q].asked # None =>
                             polls'[q].status = "none" \/ polls'[q].status \in was[polls'[q].asked]
      BY <2>2 DEF AskedInv
    <3>1. CASE q = p
      <4>1. AskedAbout(q)' \subseteq AskedAbout(p)
        BY <2>1, <2>4, <3>1 DEF AskedAbout
      <4>2. polls'[q].asked = e /\ polls'[q].status = job[e]
        BY <2>4, <3>1
      <4> QED
        BY <2>3, <3>1, <4>1, <4>2 DEF AskedInv, MarkerInv, JobInv
    <3>2. CASE q # p
      BY <2>1, <3>2 DEF TypeInv, AskedInv, MarkerInv, AskedAbout
    <3> QED
      BY <3>1, <3>2
  <2>6. TimerInv' /\ JobInv' /\ LatestInv' /\ QueuedInv' /\ MarkerTruthful'
    BY <2>2 DEF MarkerInv, TimerInv, Stuck, JobInv, LatestInv, QueuedInv, MarkerTruthful
  <2> QED
    BY <2>5, <2>6 DEF MarkerInv
<1>8. ASSUME NEW p \in Polls, AskFails(p) PROVE MarkerInv'
  <2>1. PICK e \in polls[p].todo : polls' = [polls EXCEPT ![p] = Asking(polls[p].todo \ {e})]
    BY <1>8 DEF AskFails
  <2>2. UNCHANGED <<cellOf, patch, job, was, markers, timers, latest, crossed>>
    BY <1>8 DEF AskFails, server
  <2>3. AskedInv'
    BY <2>1, <2>2, FewerAsked DEF AskedAbout
  <2>4. TimerInv' /\ JobInv' /\ LatestInv' /\ QueuedInv' /\ MarkerTruthful'
    BY <2>2 DEF MarkerInv, TimerInv, Stuck, JobInv, LatestInv, QueuedInv, MarkerTruthful
  <2> QED
    BY <2>3, <2>4 DEF MarkerInv
<1>9. ASSUME NEW p \in Polls, NEW e \in Edits, NEW statuses, Replied(p, e, statuses),
             UNCHANGED <<cellOf, was, latest, crossed>>
      PROVE  /\ AskedInv'
             /\ cellOf[e] \in crossed \/ latest[cellOf[e]] = e
             /\ polls[p].status \in statuses
             /\ polls[p].status = "none" \/ polls[p].status \in was[e]
  <2>1. polls[p].asked = e /\ e # None
    BY <1>9 DEF Replied, Edits
  <2>2. AskedInv'
    BY <1>9, FewerAsked DEF Replied, AskedAbout
  <2> QED
    BY <1>9, <2>1, <2>2 DEF Replied, AskedInv, MarkerInv, AskedAbout
<1>10. ASSUME NEW p \in Polls, HearOpen(p) PROVE MarkerInv'
  <2>1. UNCHANGED <<cellOf, patch, job, was, markers, timers, latest, crossed>>
    BY <1>10 DEF HearOpen, server, notes
  <2>2. AskedInv'
    BY <1>9, <1>10, <2>1 DEF HearOpen
  <2>3. TimerInv' /\ JobInv' /\ LatestInv' /\ QueuedInv' /\ MarkerTruthful'
    BY <2>1 DEF MarkerInv, TimerInv, Stuck, JobInv, LatestInv, QueuedInv, MarkerTruthful
  <2> QED
    BY <2>2, <2>3 DEF MarkerInv
<1>11. ASSUME NEW p \in Polls, HearDone(p) PROVE MarkerInv'
  <2>1. UNCHANGED <<cellOf, patch, job, was, latest, crossed>>
    BY <1>11 DEF HearDone, server
  <2>2. PICK e \in Edits : /\ Replied(p, e, {"done"})
                           /\ SetMarkers([markers EXCEPT ![cellOf[e]] = None])
    BY <1>11 DEF HearDone
  <2>3. /\ AskedInv' /\ cellOf[e] \in Cells
        /\ cellOf[e] \in crossed \/ (latest[cellOf[e]] = e /\ "done" \in was[e])
    BY <1>9, <2>1, <2>2 DEF TypeInv
  <2>4. \A c \in Cells : markers'[c] = IF c = cellOf[e] THEN None ELSE markers[c]
    BY <2>2 DEF SetMarkers, TypeInv
  <2>5. TimerInv'
    BY <2>1, <2>2, SetMarkersTimer
  <2>6. QueuedInv'
    <3>1. \A d \in Edits : [edit |-> d, state |-> "queued"] # None
      BY DEF Edits
    <3> QED
      BY <2>1, <2>4, <3>1 DEF MarkerInv, QueuedInv
  <2>7. MarkerTruthful'
    BY <2>1, <2>3, <2>4 DEF MarkerInv, MarkerTruthful
  <2>8. JobInv' /\ LatestInv'
    BY <2>1 DEF MarkerInv, JobInv, LatestInv
  <2> QED
    BY <2>3, <2>5, <2>6, <2>7, <2>8 DEF MarkerInv
<1>12. ASSUME NEW p \in Polls, HearFailed(p) PROVE MarkerInv'
  <2> DEFINE owner(c) == IF markers[c] = None THEN None ELSE markers[c].edit
  <2>1. UNCHANGED <<cellOf, patch, job, was, latest, crossed>>
    BY <1>12 DEF HearFailed, server, notes
  <2>2. PICK e \in Edits :
          /\ Replied(p, e, {"error", "dead_letter"})
          /\ SetMarkers([markers EXCEPT ![cellOf[e]] = [edit |-> owner(cellOf[e]), state |-> "failed"]])
    BY <1>12 DEF HearFailed
  <2>3. /\ AskedInv' /\ cellOf[e] \in Cells
        /\ cellOf[e] \in crossed
              \/ (latest[cellOf[e]] = e /\ was[e] \cap {"error", "dead_letter"} # {})
    BY <1>9, <2>1, <2>2 DEF TypeInv
  <2>4. \A c \in Cells : markers'[c] = IF c = cellOf[e] THEN [edit |-> owner(c), state |-> "failed"]
                                                       ELSE markers[c]
    BY <2>2 DEF SetMarkers, TypeInv
  <2>5. TimerInv'
    BY <2>1, <2>2, SetMarkersTimer
  <2>6. QueuedInv'
    <3>1. ASSUME NEW d \in Edits, NEW x
          PROVE  [edit |-> x, state |-> "failed"] # [edit |-> d, state |-> "queued"]
      OBVIOUS
    <3> HIDE DEF owner
    <3>2. \A c \in Cells, d \in Edits :
            markers'[c] = [edit |-> d, state |-> "queued"] => markers[c] = markers'[c]
      BY <2>4, <3>1
    <3> QED
      BY <2>1, <3>2 DEF MarkerInv, QueuedInv
  <2>7. MarkerTruthful'
    <3> SUFFICES ASSUME NEW c \in Cells \ crossed, latest[c] # None
                 PROVE  \/ markers'[c] = [edit |-> None, state |-> "failed"]
                        \/ /\ markers'[c] = [edit |-> latest[c], state |-> "queued"]
                           /\ was[latest[c]] # {}
                        \/ /\ markers'[c] = [edit |-> latest[c], state |-> "failed"]
                           /\ was[latest[c]] \cap {"error", "dead_letter"} # {}
                        \/ markers'[c] = None /\ "done" \in was[latest[c]]
      BY <2>1 DEF MarkerTruthful
    <3>1. CASE c = cellOf[e]
      <4>1. owner(c) \in {None, e}
        <5>1. /\ latest[c] = e
              /\ \/ markers[c] = None
                 \/ markers[c] = [edit |-> None, state |-> "failed"]
                 \/ markers[c] = [edit |-> e, state |-> "queued"]
                 \/ markers[c] = [edit |-> e, state |-> "failed"]
          BY <2>3, <3>1 DEF MarkerInv, MarkerTruthful
        <5>2. /\ [edit |-> None, state |-> "failed"].edit = None
              /\ [edit |-> e, state |-> "queued"].edit = e
              /\ [edit |-> e, state |-> "failed"].edit = e
          OBVIOUS
        <5> QED
          BY <5>1, <5>2
      <4> QED
        BY <2>3, <2>4, <3>1, <4>1
    <3>2. CASE c # cellOf[e]
      BY <2>4, <3>2 DEF MarkerInv, MarkerTruthful
    <3> QED
      BY <3>1, <3>2
  <2>8. JobInv' /\ LatestInv'
    BY <2>1 DEF MarkerInv, JobInv, LatestInv
  <2> QED
    BY <2>3, <2>5, <2>6, <2>7, <2>8 DEF MarkerInv
<1>13. ASSUME NEW l \in Loads, LoadStep(l) PROVE MarkerInv'
  <2>1. UNCHANGED <<cellOf, patch, job, was, markers, timers, polls, latest, crossed>>
    BY <1>13 DEF LoadStep, RowsRead, RowsShown, RowsFail, server, notes
  <2> QED
    BY <2>1, ServerMarker DEF MarkerInv, JobInv
<1>14. CASE Rerender
  <2>1. UNCHANGED <<cellOf, patch, job, was, markers, polls, latest, crossed>>
    BY <1>14 DEF Rerender, SetMarkers, server, notes
  <2>2. TimerInv'
    BY <1>14, <2>1, SetMarkersTimer DEF Rerender
  <2>3. AskedInv'
    BY <2>1 DEF MarkerInv, AskedInv, AskedAbout
  <2>4. JobInv' /\ LatestInv' /\ QueuedInv' /\ MarkerTruthful'
    BY <2>1 DEF MarkerInv, JobInv, LatestInv, QueuedInv, MarkerTruthful
  <2> QED
    BY <2>2, <2>3, <2>4 DEF MarkerInv
<1>15. CASE Reload
  <2>1. /\ UNCHANGED <<cellOf, job, was>>
        /\ markers' = [c \in Cells |-> None] /\ latest' = [c \in Cells |-> None]
        /\ polls' = [p \in Polls |-> Idle]
    BY <1>15 DEF Reload, SetMarkers, server
  <2>2. TimerInv'
    BY <1>15, <2>1, SetMarkersTimer DEF Reload
  <2>3. JobInv'
    <3>1. \A e \in Edits : patch'[e] # "accepted"
      BY <1>15 DEF Reload
    <3> QED
      BY <2>1, <3>1 DEF MarkerInv, JobInv
  <2>4. LatestInv' /\ MarkerTruthful'
    BY <2>1 DEF LatestInv, MarkerTruthful
  <2>5. QueuedInv'
    <3>1. \A d \in Edits : [edit |-> d, state |-> "queued"] # None
      BY DEF Edits
    <3> QED
      BY <2>1, <3>1 DEF QueuedInv
  <2>6. AskedInv'
    BY <2>1 DEF AskedInv, AskedAbout, Idle
  <2> QED
    BY <2>2, <2>3, <2>4, <2>5, <2>6 DEF MarkerInv
<1>16. CASE UNCHANGED vars
  <2>1. UNCHANGED <<cellOf, patch, job, was, markers, timers, polls, latest, crossed>>
    BY <1>16 DEF vars, page, server, notes
  <2> QED
    BY <2>1, ServerMarker DEF MarkerInv, JobInv
<1> QED
  BY <1>1, <1>2, <1>3, <1>4, <1>5, <1>6, <1>7, <1>8, <1>10, <1>11, <1>12, <1>13, <1>14, <1>15, <1>16
  DEF Next, PatchStep, PollStep

-----------------------------------------------------------------------------
(* Row requests *)

\* A sheet only grows, and what a write that lands makes is its newest version.
LEMMA VersionStep == ASSUME TypeInv, VersionInv, [Next]_vars PROVE VersionInv'
<1> USE DEF TypeInv, VersionInv
<1>1. CASE UNCHANGED <<landed, sheet, due>>
  BY <1>1
<1>2. ASSUME NEW e \in Edits, JobStep(e) PROVE VersionInv'
  <2>1. due' = due
    BY <1>2 DEF JobStep, JobReturns, JobRaises, Recover, notes
  <2>2. CASE Mutates(e)
    <3>1. CASE UNCHANGED <<sheet, landed>>
      BY <2>1, <3>1
    <3>2. CASE sheet' = sheet + 1 /\ landed' = [landed EXCEPT ![e] = sheet']
      <4>1. \A d \in Edits : landed'[d] = IF d = e THEN sheet + 1 ELSE landed[d]
        BY <3>2
      <4> QED
        BY <2>1, <3>2, <4>1
    <3> QED
      BY <2>2, <3>1, <3>2 DEF Mutates
  <2>3. CASE UNCHANGED <<landed, sheet>>
    BY <2>1, <2>3
  <2> QED
    BY <1>2, <2>2, <2>3 DEF JobStep, JobReturns, JobRaises, Recover
<1>3. ASSUME NEW p \in Polls, HearDone(p) PROVE VersionInv'
  <2>1. UNCHANGED <<landed, sheet>>
    BY <1>3 DEF HearDone, server
  <2>2. PICK e \in Edits : due' = IF landed[e] > due THEN landed[e] ELSE due
    BY <1>3 DEF HearDone
  <2> QED
    BY <2>1, <2>2
<1>4. CASE Reload
  <2>1. due' = 0 /\ UNCHANGED <<landed, sheet>>
    BY <1>4 DEF Reload, server
  <2> QED
    BY <2>1
<1> QED
  BY <1>1, <1>2, <1>3, <1>4
  DEF Next, Save, PatchStep, Accept, AcceptanceArrives, RefusalArrives, PatchLost,
      TimerFires, PollStep, Ask, AskFails, HearOpen, HearFailed, LoadStep, RowsRead,
      RowsShown, RowsFail, Rerender, page, server, notes, vars

\* A request that was just sent will make the grid new enough.
LEMMA LoadRenews ==
  ASSUME TypeInv, NEW l \in Loads, Load(l)
  PROVE  ViewInv'
<1>1. loads'[l].stage = "asked"
  BY DEF Load, TypeInv
<1> QED
  BY <1>1 DEF ViewInv, Renewing

\* Unless an answer overtakes a later one, the grid is as new as the markers that
\* were dropped, or a request will make it so.
LEMMA ViewStep ==
  ASSUME TypeInv, TypeInv', VersionInv, ViewInv, [Next]_vars
  PROVE  ViewInv'
<1>1. CASE UNCHANGED <<loads, grid, due, overtaken>>
  BY <1>1 DEF ViewInv, Renewing
<1>2. ASSUME NEW p \in Polls, HearDone(p) PROVE ViewInv'
  BY <1>2, LoadRenews DEF HearDone
<1>3. ASSUME NEW l \in Loads, RowsRead(l) PROVE ViewInv'
  <2>1. loads'[l] = [stage |-> "answered", rows |-> sheet]
    BY <1>3 DEF RowsRead, TypeInv
  <2>2. due' = due /\ sheet >= due
    BY <1>3 DEF RowsRead, notes, VersionInv, TypeInv
  <2> QED
    BY <2>1, <2>2 DEF ViewInv, Renewing
<1>4. ASSUME NEW l \in Loads, RowsShown(l) PROVE ViewInv'
  <2> SUFFICES ASSUME ~ overtaken'
               PROVE  \/ \E k \in Loads : Renewing(k)'
                      \/ grid' >= due'
    BY DEF ViewInv
  <2>1. /\ ~ overtaken /\ ~ (loads[l].rows < grid)
        /\ grid' = loads[l].rows /\ due' = due /\ loads[l].stage = "answered"
    BY <1>4 DEF RowsShown
  <2>2. \A k \in Loads \ {l} : loads'[k] = loads[k]
    BY <1>4 DEF RowsShown, TypeInv
  <2>3. loads[l].rows \in Nat /\ grid \in Nat /\ due \in Nat
    BY DEF TypeInv
  <2>4. loads[l] # NoLoad
    BY <2>1 DEF NoLoad
  <2>5. CASE grid >= due
    BY <2>1, <2>3, <2>5
  <2>6. ASSUME NEW k \in Loads, Renewing(k)
        PROVE  \/ \E j \in Loads : Renewing(j)'
               \/ grid' >= due'
    <3>1. CASE k = l
      BY <2>1, <2>6, <3>1 DEF Renewing
    <3>2. CASE k # l
      BY <2>1, <2>2, <2>6, <3>2 DEF Renewing
    <3> QED
      BY <3>1, <3>2
  <2> QED
    BY <2>1, <2>4, <2>5, <2>6 DEF ViewInv
<1>5. ASSUME NEW l \in Loads, RowsFail(l) PROVE ViewInv'
  <2> SUFFICES ASSUME ~ overtaken'
               PROVE  grid' = 0 /\ \A k \in Loads : loads'[k] = NoLoad
    BY DEF ViewInv
  <2> QED
    BY <1>5 DEF RowsFail, TypeInv
<1>6. CASE Rerender
  BY <1>6, LoadRenews DEF Rerender
<1>7. CASE Reload
  <2>1. grid' >= due'
    BY <1>7 DEF Reload, TypeInv
  <2> QED
    BY <2>1 DEF ViewInv
<1> QED
  BY <1>1, <1>2, <1>3, <1>4, <1>5, <1>6, <1>7
  DEF Next, Save, PatchStep, Accept, AcceptanceArrives, RefusalArrives, PatchLost,
      JobStep, JobReturns, JobRaises, Recover, TimerFires, PollStep, Ask, AskFails,
      HearOpen, HearFailed, LoadStep, page, server, notes, vars

-----------------------------------------------------------------------------
(* The theorems *)

\* The invariant holds of every behaviour.
LEMMA Invariance == Spec => []Inv
<1>1. Init => Inv
  <2> SUFFICES ASSUME Init PROVE Inv
    OBVIOUS
  <2>1. TypeInv /\ MarkerInv
    BY TypeInit, MarkerInit
  <2>2. VersionInv
    BY DEF Init, VersionInv
  <2>3. ViewInv
    BY DEF Init, ViewInv
  <2> QED
    BY <2>1, <2>2, <2>3 DEF Inv
<1>2. Inv /\ [Next]_vars => Inv'
  <2> SUFFICES ASSUME Inv, [Next]_vars PROVE Inv'
    OBVIOUS
  <2>1. TypeInv /\ MarkerInv /\ VersionInv /\ ViewInv
    BY DEF Inv
  <2>2. TypeInv'
    BY <2>1, TypeStep DEF MarkerInv
  <2>3. MarkerInv' /\ VersionInv' /\ ViewInv'
    BY <2>1, <2>2, MarkerStep, VersionStep, ViewStep
  <2> QED
    BY <2>2, <2>3 DEF Inv
<1> QED
  BY <1>1, <1>2, PTL DEF Spec

\* What the grid says of a cell agrees with what its last edit's job has been,
\* unless the cell was edited again under a running poll (useRowEdits.ts).
THEOREM MarkersTruthful == Spec => []MarkerTruthful
<1>1. Inv => MarkerTruthful
  BY DEF Inv, MarkerInv
<1> QED
  BY <1>1, Invariance, PTL

\* When no row request is running, the grid shows every write whose marker was
\* dropped, unless row answers overtook each other (the project page's load).
THEOREM EditsShown == Spec => []AppliedEditShown
<1>1. Inv => AppliedEditShown
  <2> SUFFICES ASSUME Inv, grid # 0, ~ overtaken, \A l \in Loads : loads[l] = NoLoad
               PROVE  grid >= due
    BY DEF AppliedEditShown
  <2>1. \A l \in Loads : ~ Renewing(l)
    BY DEF Renewing, NoLoad
  <2> QED
    BY <2>1 DEF Inv, ViewInv
<1> QED
  BY <1>1, Invariance, PTL
=============================================================================
