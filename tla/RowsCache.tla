----------------------------- MODULE RowsCache ------------------------------
(***************************************************************************)
(* The two-tier cache in front of one sheet tab (sheets/rows_cache.py over *)
(* sheets/records_cache.py): a Redis entry that expires, and a Postgres    *)
(* copy that is served until it is marked dirty or Drive's modifiedTime    *)
(* differs from the stamp kept with it.                                    *)
(*                                                                         *)
(* Readers fill both tiers; the queue worker and the Drive webhook clear   *)
(* both after a change.  Every await that touches shared state is a step   *)
(* of its own.  The sheet is a version number that each edit increments,   *)
(* and a matrix is the version its headers and the version its rows were   *)
(* read at; modifiedTime is that version too.  Time is abstracted to the   *)
(* expiry of the Redis entry, of the freshness grace and of the channel.   *)
(***************************************************************************)
EXTENDS Integers

CONSTANTS
    Readers,    \* concurrent calls of get_tab_matrix
    None,       \* no matrix, no stored tab, no modifiedTime
    MaxEdits,   \* bound: edits of the sheet
    MaxWatches, \* bound: registrations of a push channel
    MaxFaults   \* bound: lost notifications and failed invalidation commands

Matrix == [headers : Nat, rows : Nat]
Stamps == Nat \cup {None}

\* sheet_sync_state and the sheet_records it describes, for this tab.
Tab == [dirty : BOOLEAN, checked : BOOLEAN, stamp : Stamps,
        headers : Nat, rows : Nat]

\* What read_tab has in hand of it between its first SELECT and its last.
SyncState == [checked : BOOLEAN, stamp : Stamps, headers : Nat]

ASSUME RowsCacheAssumption ==
    /\ None \notin Nat /\ None \notin Matrix
    /\ None \notin Tab /\ None \notin SyncState
    /\ MaxEdits \in Nat /\ MaxWatches \in Nat /\ MaxFaults \in Nat

Invalidators == {"worker", "webhook"}

VARIABLES
    sheet,      \* the version the spreadsheet is at
    hot,        \* the Redis entry
    stored,     \* the Postgres tier
    watched,    \* an unexpired channel row, with its channel open at Drive
    notices,    \* notifications on their way
    reader,     \* where each reader is
    state,      \* the SyncState each reader loaded
    stamp,      \* the modifiedTime each reader asked for before its scan
    matrix,     \* what each reader has read so far, and returns
    clearing,   \* where each run of invalidate_tab is
    \* bookkeeping the properties speak about
    covers,     \* the version each run covers, 0 if its first half failed
    floor,      \* the newest version a whole invalidation has covered
    began,      \* the floor when each reader began
    raced,      \* a read overlapped an invalidation and then filled a tier
    watches, faults

tiers   == <<hot, stored>>
reading == <<reader, state, stamp, matrix, began>>
inval   == <<clearing, covers, floor>>
budget  == <<watches, faults>>
vars    == <<sheet, tiers, watched, notices, reading, inval, raced, budget>>

Init ==
    /\ sheet = 0 /\ hot = None /\ stored = None
    /\ watched = FALSE /\ notices = 0
    /\ reader = [r \in Readers |-> "idle"]
    /\ state = [r \in Readers |-> None]
    /\ stamp = [r \in Readers |-> None]
    /\ matrix = [r \in Readers |-> None]
    /\ clearing = [i \in Invalidators |-> "idle"]
    /\ covers = [i \in Invalidators |-> 0]
    /\ floor = 0 /\ began = [r \in Readers |-> 0] /\ raced = FALSE
    /\ watches = 0 /\ faults = 0

-----------------------------------------------------------------------------
(* Readers: get_tab_matrix *)

Goto(r, from, to) == reader[r] = from /\ reader' = [reader EXCEPT ![r] = to]

\* A read that finds the Redis entry returns it and changes nothing (so what
\* such reads return is `hot' itself).  This is one that misses, cannot reach
\* Redis or cannot parse the entry, and goes on to Postgres.
Begin(r) ==
    /\ Goto(r, "idle", "state")
    /\ began' = [began EXCEPT ![r] = floor]
    /\ UNCHANGED <<sheet, tiers, watched, notices, state, stamp, matrix, inval,
                   raced, budget>>

\* read_tab answers None: no such tab, or another start row, or an exception
\* at any of its awaits.  The read goes on to scan the sheet.
GiveUpOnStored(r) ==
    /\ reader[r] \in {"state", "confirm", "commit", "rows"}
    /\ reader' = [reader EXCEPT ![r] = "stamp"]
    /\ state' = [state EXCEPT ![r] = None]
    /\ UNCHANGED <<sheet, tiers, watched, notices, stamp, matrix, began, inval,
                   raced, budget>>

\* The sync state is loaded, and is clean.
ReadState(r) ==
    /\ Goto(r, "state", "confirm")
    /\ stored # None /\ ~stored.dirty
    /\ state' = [state EXCEPT ![r] = [checked |-> stored.checked,
                    stamp |-> stored.stamp, headers |-> stored.headers]]
    /\ UNCHANGED <<sheet, tiers, watched, notices, stamp, matrix, began, inval,
                   raced, budget>>

\* _clean_without_drive: a live channel, or a confirmation within the grace.
CleanWithoutDrive(r) ==
    /\ Goto(r, "confirm", "rows")
    /\ watched \/ state[r].checked
    /\ UNCHANGED <<sheet, tiers, watched, notices, state, stamp, matrix, began,
                   inval, raced, budget>>

\* Otherwise Drive is asked; the tab is fresh if modifiedTime is the stamp, and
\* a difference or no answer at all means a scan.
AskDrive(r) ==
    /\ reader[r] = "confirm" /\ ~watched /\ ~state[r].checked
    /\ \/ sheet = state[r].stamp /\ Goto(r, "confirm", "commit") /\ UNCHANGED state
       \/ Goto(r, "confirm", "stamp") /\ state' = [state EXCEPT ![r] = None]
    /\ UNCHANGED <<sheet, tiers, watched, notices, stamp, matrix, began, inval,
                   raced, budget>>

\* The UPDATE of checked_at, and of no other column.
CommitChecked(r) ==
    /\ Goto(r, "commit", "rows")
    /\ stored' = [stored EXCEPT !.checked = TRUE]
    /\ UNCHANGED <<sheet, hot, watched, notices, state, stamp, matrix, began,
                   inval, raced, budget>>

\* The SELECT of the records, which go with the headers loaded earlier.
SelectRows(r) ==
    /\ Goto(r, "rows", "fill")
    /\ matrix' = [matrix EXCEPT ![r] =
                    [headers |-> state[r].headers, rows |-> stored.rows]]
    /\ state' = [state EXCEPT ![r] = None]
    /\ UNCHANGED <<sheet, tiers, watched, notices, stamp, began, inval, raced,
                   budget>>

\* modifiedTime is read before the scan; every failure makes it None.
ReadStamp(r) ==
    /\ Goto(r, "stamp", "headers")
    /\ \E t \in {sheet, None} : stamp' = [stamp EXCEPT ![r] = t]
    /\ UNCHANGED <<sheet, tiers, watched, notices, state, matrix, began, inval,
                   raced, budget>>

ScanHeaders(r) ==
    /\ Goto(r, "headers", "scan")
    /\ matrix' = [matrix EXCEPT ![r] = [headers |-> sheet, rows |-> sheet]]
    /\ UNCHANGED <<sheet, tiers, watched, notices, state, stamp, began, inval,
                   raced, budget>>

ScanRows(r) ==
    /\ Goto(r, "scan", "store")
    /\ matrix' = [matrix EXCEPT ![r].rows = sheet]
    /\ UNCHANGED <<sheet, tiers, watched, notices, state, stamp, began, inval,
                   raced, budget>>

\* Mutant: a failed scan is taken for an empty tab.
ScanFailsEmpty(r) ==
    /\ reader[r] \in {"headers", "scan"}
    /\ reader' = [reader EXCEPT ![r] = "fill"]
    /\ stamp' = [stamp EXCEPT ![r] = None]
    /\ UNCHANGED <<sheet, tiers, watched, notices, state, matrix, began, inval,
                   raced, budget>>

\* Sheets refuses: the only failure a caller of get_tab_matrix sees.
ScanFails(r) ==
    /\ reader[r] \in {"headers", "scan"}
    /\ reader' = [reader EXCEPT ![r] = "idle"]
    /\ stamp' = [stamp EXCEPT ![r] = None]
    /\ matrix' = [matrix EXCEPT ![r] = None]
    /\ began' = [began EXCEPT ![r] = 0]
    /\ UNCHANGED <<sheet, tiers, watched, notices, state, inval, raced, budget>>

\* Reader r writes a tier: did its read overlap an invalidation?
NoteRace(r) ==
    raced' = (raced \/ began[r] < floor \/ \E i \in Invalidators : clearing[i] = "mark")

\* Mutant: the stamp is the modifiedTime at the moment of storing.
StoreTabStampedLate(r) ==
    /\ Goto(r, "store", "fill")
    /\ stored' = [dirty |-> FALSE, checked |-> TRUE, stamp |-> sheet,
                  headers |-> matrix[r].headers, rows |-> matrix[r].rows]
    /\ NoteRace(r)
    /\ stamp' = [stamp EXCEPT ![r] = None]
    /\ UNCHANGED <<sheet, hot, watched, notices, state, matrix, began, inval,
                   budget>>

\* store_tab's transaction replaces the tab wholesale and marks it clean, or
\* fails and is swallowed.
StoreTab(r) ==
    /\ Goto(r, "store", "fill")
    /\ \/ /\ stored' = [dirty |-> FALSE, checked |-> TRUE, stamp |-> stamp[r],
                        headers |-> matrix[r].headers, rows |-> matrix[r].rows]
          /\ NoteRace(r)
       \/ UNCHANGED <<stored, raced>>
    /\ stamp' = [stamp EXCEPT ![r] = None]
    /\ UNCHANGED <<sheet, hot, watched, notices, state, matrix, began, inval,
                   budget>>

\* The matrix is put in Redis, or not, and returned.
FillRedis(r) ==
    /\ Goto(r, "fill", "idle")
    /\ \/ hot' = matrix[r] /\ NoteRace(r)
       \/ UNCHANGED <<hot, raced>>
    /\ matrix' = [matrix EXCEPT ![r] = None]
    /\ began' = [began EXCEPT ![r] = 0]
    /\ UNCHANGED <<sheet, stored, watched, notices, state, stamp, inval, budget>>

-----------------------------------------------------------------------------
(* Edits and invalidation *)

\* Drive sends a notification of a change to every open channel.
NewVersion ==
    /\ sheet < MaxEdits
    /\ sheet' = sheet + 1
    /\ notices' = IF watched THEN notices + 1 ELSE notices

\* Somebody edits the spreadsheet in Google, or a queued job changes it and is
\* not reported as a success (which skips the worker's invalidation).
EditSheet ==
    /\ NewVersion
    /\ UNCHANGED <<tiers, watched, reading, inval, raced, budget>>

\* A queued job succeeds; the worker goes on to invalidate_tab.
WorkerWrites ==
    /\ NewVersion
    /\ clearing["worker"] = "idle"
    /\ clearing' = [clearing EXCEPT !["worker"] = "delete"]
    /\ UNCHANGED <<tiers, watched, reading, covers, floor, raced, budget>>

\* drive_notification finds the channel's row.
NoticeArrives ==
    /\ notices > 0 /\ notices' = notices - 1
    /\ clearing["webhook"] = "idle"
    /\ clearing' = [clearing EXCEPT !["webhook"] = "delete"]
    /\ UNCHANGED <<sheet, tiers, watched, reading, covers, floor, raced, budget>>

\* The notification is lost, or its channel lookup fails and it is answered
\* with 200 so that Drive does not repeat it.
NoticeLost ==
    /\ notices > 0 /\ notices' = notices - 1
    /\ faults < MaxFaults /\ faults' = faults + 1
    /\ UNCHANGED <<sheet, tiers, watched, reading, inval, raced, watches>>

\* Mutant: the entry is deleted under a key no reader uses.
DeleteOtherKey(i) ==
    /\ clearing[i] = "delete"
    /\ clearing' = [clearing EXCEPT ![i] = "mark"]
    /\ covers' = [covers EXCEPT ![i] = sheet]
    /\ UNCHANGED <<sheet, tiers, watched, notices, reading, floor, raced, budget>>

\* The first half of invalidate_tab: DEL of the Redis key.
DeleteHot(i) ==
    /\ clearing[i] = "delete"
    /\ clearing' = [clearing EXCEPT ![i] = "mark"]
    /\ hot' = None
    /\ covers' = [covers EXCEPT ![i] = sheet]
    /\ UNCHANGED <<sheet, stored, watched, notices, reading, floor, raced,
                   budget>>

DeleteHotFails(i) ==
    /\ clearing[i] = "delete"
    /\ clearing' = [clearing EXCEPT ![i] = "mark"]
    /\ faults < MaxFaults /\ faults' = faults + 1
    /\ UNCHANGED <<sheet, tiers, watched, notices, reading, covers, floor, raced,
                   watches>>

\* The second half: mark_dirty, an UPDATE that matches nothing when the tab
\* was never stored.
MarkDirty(i) ==
    /\ clearing[i] = "mark"
    /\ clearing' = [clearing EXCEPT ![i] = "idle"]
    /\ stored' = IF stored = None THEN None ELSE [stored EXCEPT !.dirty = TRUE]
    /\ floor' = IF covers[i] > floor THEN covers[i] ELSE floor
    /\ covers' = [covers EXCEPT ![i] = 0]
    /\ UNCHANGED <<sheet, hot, watched, notices, reading, raced, budget>>

MarkDirtyFails(i) ==
    /\ clearing[i] = "mark"
    /\ clearing' = [clearing EXCEPT ![i] = "idle"]
    /\ faults < MaxFaults /\ faults' = faults + 1
    /\ covers' = [covers EXCEPT ![i] = 0]
    /\ UNCHANGED <<sheet, tiers, watched, notices, reading, floor, raced,
                   watches>>

-----------------------------------------------------------------------------
(* Time and the push channel (whose own life is WatchChannel's subject) *)

\* Mutant: SET without ex=.
HotKept ==
    /\ hot # None
    /\ UNCHANGED vars

HotExpires ==
    /\ hot # None /\ hot' = None
    /\ UNCHANGED <<sheet, stored, watched, notices, reading, inval, raced, budget>>

\* FRESHNESS_GRACE_SECONDS pass after the last confirmation.
GraceExpires ==
    /\ stored # None /\ stored.checked
    /\ stored' = [stored EXCEPT !.checked = FALSE]
    /\ UNCHANGED <<sheet, hot, watched, notices, reading, inval, raced, budget>>

\* An administrator registers a channel; the cache is left as it is.
Watch ==
    /\ ~watched /\ watches < MaxWatches
    /\ watched' = TRUE /\ watches' = watches + 1
    /\ UNCHANGED <<sheet, tiers, notices, reading, inval, raced, faults>>

\* The channel is stopped, or expires unrenewed.
WatchEnds ==
    /\ watched /\ watched' = FALSE
    /\ UNCHANGED <<sheet, tiers, notices, reading, inval, raced, budget>>

ReadStep(r) ==
    \/ Begin(r) \/ GiveUpOnStored(r) \/ ReadState(r) \/ CleanWithoutDrive(r)
    \/ AskDrive(r) \/ CommitChecked(r) \/ SelectRows(r) \/ ReadStamp(r)
    \/ ScanHeaders(r) \/ ScanRows(r) \/ ScanFails(r) \/ StoreTab(r)
    \/ FillRedis(r)

ClearStep(i) ==
    DeleteHot(i) \/ DeleteHotFails(i) \/ MarkDirty(i) \/ MarkDirtyFails(i)

Next ==
    \/ \E r \in Readers : ReadStep(r)
    \/ \E i \in Invalidators : ClearStep(i)
    \/ EditSheet \/ WorkerWrites \/ NoticeArrives \/ NoticeLost
    \/ HotExpires \/ GraceExpires \/ Watch \/ WatchEnds

Spec == Init /\ [][Next]_vars

\* Requests, invalidations and clocks go on; nobody has to edit the sheet or
\* register a channel, and a channel ends.
FairSpec ==
    /\ Spec
    /\ \A r \in Readers : WF_vars(ReadStep(r))
    /\ \A i \in Invalidators : WF_vars(ClearStep(i))
    /\ WF_vars(HotExpires) /\ WF_vars(GraceExpires) /\ WF_vars(WatchEnds)

-----------------------------------------------------------------------------
(* Properties *)

\* Every component has its type, a reader past SelectRows or ScanHeaders has a
\* matrix, and one that has loaded the sync state finds the tab stored.
TypeOK ==
    /\ sheet \in 0..MaxEdits
    /\ hot \in Matrix \cup {None}
    /\ stored \in Tab \cup {None}
    /\ watched \in BOOLEAN /\ notices \in Nat
    /\ reader \in [Readers -> {"idle", "state", "confirm", "commit", "rows",
                               "stamp", "headers", "scan", "store", "fill"}]
    /\ state \in [Readers -> SyncState \cup {None}]
    /\ stamp \in [Readers -> Stamps]
    /\ matrix \in [Readers -> Matrix \cup {None}]
    /\ clearing \in [Invalidators -> {"idle", "delete", "mark"}]
    /\ covers \in [Invalidators -> Nat]
    /\ floor \in Nat /\ began \in [Readers -> Nat] /\ raced \in BOOLEAN
    /\ watches \in 0..MaxWatches /\ faults \in 0..MaxFaults
    /\ \A r \in Readers :
         /\ reader[r] \in {"confirm", "commit", "rows"} =>
              stored # None /\ state[r] # None
         /\ reader[r] \in {"scan", "store", "fill"} => matrix[r] # None

AtLeast(m, v) == m.headers >= v /\ m.rows >= v

\* A stamp that still equals Drive's modifiedTime proves that the stored rows
\* and headers are those of the sheet (store_tab: the stamp is read before the
\* scan), however refills and edits interleave.
StampSound ==
    stored # None /\ stored.stamp = sheet => AtLeast(stored, sheet)

\* Once invalidate_tab has gone through both tiers, nothing older than what it
\* covers is served or can be served, unless a read overlapped an invalidation
\* and then filled a tier.
StaleNeedsOverlap ==
    ~raced =>
      /\ hot # None => AtLeast(hot, floor)
      /\ stored # None /\ ~stored.dirty => AtLeast(stored, floor)
      /\ \A r \in Readers : reader[r] = "fill" => AtLeast(matrix[r], began[r])

\* Once edits have stopped and the channel has ended, reads come to return the
\* sheet as it is, whatever went wrong before (lost notifications, failed
\* invalidations, late refills).
EventuallyFresh ==
    <>[]( /\ hot # None => AtLeast(hot, sheet)
          /\ \A r \in Readers : reader[r] = "fill" => AtLeast(matrix[r], sheet) )

\* No read, notification or invalidation is under way, and none was lost.
Quiet ==
    /\ \A r \in Readers : reader[r] = "idle"
    /\ \A i \in Invalidators : clearing[i] = "idle"
    /\ notices = 0 /\ faults = 0

ServableFromStored == stored # None /\ ~stored.dirty

\* store_tab: an edit landing mid-scan "shows up as a mismatch on the next check
\* and triggers another refill"; so with every edit announced and nothing under
\* way, what a live channel lets readers have is the sheet.
MidScanEditCaught ==
    Quiet /\ floor = sheet /\ watched /\ ServableFromStored =>
        AtLeast(stored, sheet)
=============================================================================
