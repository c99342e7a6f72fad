---------------------------- MODULE WatchChannel ----------------------------
(***************************************************************************)
(* The Drive push channel of one spreadsheet: its row in                   *)
(* sheet_watch_channels, the channels open at Drive, the administrators'   *)
(* register and stop requests (api/watch.py), the renewal that rides on    *)
(* reads (records_cache.py _maybe_renew_channel), and the webhook that     *)
(* acts on a notification only if its channel is the row's                 *)
(* (api/webhooks.py).                                                      *)
(*                                                                         *)
(* Each call of Drive and each commit is a step of its own.  A channel's   *)
(* expiration, 24 hours, and the renewal margin, its last 6, are three     *)
(* stages of its life; the row's copy of the expiration agrees with        *)
(* Drive's, as register_watch takes Drive's.                               *)
(***************************************************************************)
EXTENDS Naturals, FiniteSets

CONSTANTS
    Readers,    \* concurrent reads of the project's rows
    Admins,     \* concurrent administrator requests
    Channels,   \* channel ids, each used once
    None,
    MaxFaults   \* bound: failed calls of Drive, lost answers and failed commits

ASSUME WatchChannelAssumption ==
    /\ None \notin Channels
    /\ Readers \cap Admins = {}
    /\ MaxFaults \in Nat

\* A row's primary key is named by the channel it was first inserted with, which
\* a renewal overwrites in place.
Row == [pk : Channels, channel : Channels]
NoRow == [pk |-> None, channel |-> None]
Rows == Row \cup {NoRow}

VARIABLES
    row,        \* the row of sheet_watch_channels
    life,       \* the life of each channel
    stopped,    \* channels stopped at Drive
    notices,    \* channels with a notification on its way
    reader,     \* where each reader's renewal is
    admin,      \* where each administrator's request is
    held,       \* the row each of them loaded
    new,        \* the channel each of them opened
    faults,
    \* bookkeeping the properties speak about
    cut,        \* channels stopped by a registration that replaces them
    owed,       \* an edit, trusted to be announced, has invalidated nothing yet
    trusted     \* the row's channel when that edit was made

requests == <<reader, admin, held, new>>
watching == <<notices, owed, trusted>>
vars     == <<row, life, stopped, requests, watching, faults, cut>>

Actors == Readers \cup Admins

Open(c) == life[c] \in {"fresh", "margin"} /\ c \notin stopped

\* _clean_without_drive: the row's expiration is in the future.
Trusting == row # NoRow /\ life[row.channel] \in {"fresh", "margin"}

Init ==
    /\ row = NoRow
    /\ life = [c \in Channels |-> "unused"]
    /\ stopped = {} /\ notices = {}
    /\ reader = [r \in Readers |-> "idle"]
    /\ admin = [a \in Admins |-> "idle"]
    /\ held = [x \in Actors |-> NoRow]
    /\ new = [x \in Actors |-> None]
    /\ faults = 0
    /\ cut = {} /\ owed = FALSE /\ trusted = None

-----------------------------------------------------------------------------
(* Calls of Drive *)

\* register_watch opens a channel for x and answers; or the answer is lost and
\* the channel open all the same; or Drive refuses.
Opens(x) ==
    \E c \in Channels :
        /\ life[c] = "unused"
        /\ life' = [life EXCEPT ![c] = "fresh"]
        /\ new' = [new EXCEPT ![x] = c]
        /\ UNCHANGED faults

OpenFails(x) ==
    /\ faults < MaxFaults /\ faults' = faults + 1
    /\ \/ UNCHANGED life
       \/ \E c \in Channels : life[c] = "unused" /\ life' = [life EXCEPT ![c] = "fresh"]

\* stop_watch, whose failure is logged and makes no difference to its callers.
Stops(c) ==
    \/ stopped' = stopped \cup {c} /\ UNCHANGED faults
    \/ faults < MaxFaults /\ faults' = faults + 1 /\ UNCHANGED stopped

Forget(x) ==
    /\ held' = [held EXCEPT ![x] = NoRow]
    /\ new' = [new EXCEPT ![x] = None]

-----------------------------------------------------------------------------
(* A reader renews the channel: _maybe_renew_channel *)

\* A read that found the tab clean without asking Drive loads a channel inside
\* the margin, or expired but within the freshness grace.
RenewBegin(r) ==
    /\ reader[r] = "idle" /\ row # NoRow
    /\ life[row.channel] \in {"margin", "expired"}
    /\ reader' = [reader EXCEPT ![r] = "opening"]
    /\ held' = [held EXCEPT ![r] = row]
    /\ UNCHANGED <<row, life, stopped, admin, new, watching, faults, cut>>

\* Mutant: register_watch's None is not looked for.
RenewOpenUnchecked(r) ==
    /\ reader[r] = "opening"
    /\ Opens(r) \/ (OpenFails(r) /\ UNCHANGED new)
    /\ reader' = [reader EXCEPT ![r] = "committing"]
    /\ UNCHANGED <<row, stopped, admin, held, watching, cut>>

RenewOpen(r) ==
    /\ reader[r] = "opening"
    /\ \/ /\ Opens(r)
          /\ reader' = [reader EXCEPT ![r] = "committing"]
          /\ UNCHANGED held
       \/ /\ OpenFails(r) /\ Forget(r)
          /\ reader' = [reader EXCEPT ![r] = "idle"]
    /\ UNCHANGED <<row, stopped, admin, watching, cut>>

\* The UPDATE by primary key.
RenewCommit(r) ==
    /\ reader[r] = "committing" /\ row.pk = held[r].pk
    /\ row' = [row EXCEPT !.channel = new[r]]
    /\ reader' = [reader EXCEPT ![r] = "stopping"]
    /\ UNCHANGED <<life, stopped, admin, held, new, watching, faults, cut>>

\* The row is gone, or the database fails: the error is swallowed.
RenewCommitFails(r) ==
    /\ reader[r] = "committing"
    /\ \/ row.pk # held[r].pk /\ UNCHANGED faults
       \/ faults < MaxFaults /\ faults' = faults + 1
    /\ reader' = [reader EXCEPT ![r] = "idle"] /\ Forget(r)
    /\ UNCHANGED <<row, life, stopped, admin, watching, cut>>

\* Mutant: the channel that is stopped is the one just committed.
RenewStopCurrent(r) ==
    /\ reader[r] = "stopping"
    /\ Stops(row.channel)
    /\ reader' = [reader EXCEPT ![r] = "idle"] /\ Forget(r)
    /\ UNCHANGED <<row, life, admin, watching, cut>>

RenewStop(r) ==
    /\ reader[r] = "stopping"
    /\ Stops(held[r].channel)
    /\ reader' = [reader EXCEPT ![r] = "idle"] /\ Forget(r)
    /\ UNCHANGED <<row, life, admin, watching, cut>>

-----------------------------------------------------------------------------
(* An administrator's requests: register_project_watch, stop_project_watch *)

RegisterBegin(a) ==
    /\ admin[a] = "idle"
    /\ held' = [held EXCEPT ![a] = row]
    /\ admin' = [admin EXCEPT ![a] = IF row = NoRow THEN "opening" ELSE "replacing"]
    /\ UNCHANGED <<row, life, stopped, reader, new, watching, faults, cut>>

\* The existing channel is stopped first.
RegisterStop(a) ==
    /\ admin[a] = "replacing"
    /\ Stops(held[a].channel)
    /\ cut' = cut \cup {held[a].channel}
    /\ admin' = [admin EXCEPT ![a] = "opening"]
    /\ UNCHANGED <<row, life, reader, held, new, watching>>

\* A refusal is answered with 502 and the row stays.
RegisterOpen(a) ==
    /\ admin[a] = "opening"
    /\ \/ /\ Opens(a)
          /\ admin' = [admin EXCEPT ![a] = "committing"]
          /\ UNCHANGED held
       \/ /\ OpenFails(a) /\ Forget(a)
          /\ admin' = [admin EXCEPT ![a] = "idle"]
    /\ UNCHANGED <<row, stopped, reader, watching, cut>>

\* DELETE of the loaded row and INSERT of the new one, in one transaction.
RegisterCommit(a) ==
    /\ admin[a] = "committing" /\ row \in {NoRow} \cup {x \in Row : x.pk = held[a].pk}
    /\ row' = [pk |-> new[a], channel |-> new[a]]
    /\ admin' = [admin EXCEPT ![a] = "idle"] /\ Forget(a)
    /\ UNCHANGED <<life, stopped, reader, watching, faults, cut>>

\* Another row holds the unique spreadsheet_id, or the database fails: rollback.
RegisterCommitFails(a) ==
    /\ admin[a] = "committing"
    /\ \/ row # NoRow /\ row.pk # held[a].pk /\ UNCHANGED faults
       \/ faults < MaxFaults /\ faults' = faults + 1
    /\ admin' = [admin EXCEPT ![a] = "idle"] /\ Forget(a)
    /\ UNCHANGED <<row, life, stopped, reader, watching, cut>>

StopBegin(a) ==
    /\ admin[a] = "idle" /\ row # NoRow
    /\ held' = [held EXCEPT ![a] = row]
    /\ admin' = [admin EXCEPT ![a] = "ending"]
    /\ UNCHANGED <<row, life, stopped, reader, new, watching, faults, cut>>

StopAtDrive(a) ==
    /\ admin[a] = "ending"
    /\ Stops(held[a].channel)
    /\ cut' = cut \cup {held[a].channel}
    /\ admin' = [admin EXCEPT ![a] = "deleting"]
    /\ UNCHANGED <<row, life, reader, held, new, watching>>

\* The DELETE by primary key, whatever channel the row has by now.
StopCommit(a) ==
    /\ admin[a] = "deleting"
    /\ \/ row' = (IF row.pk = held[a].pk THEN NoRow ELSE row) /\ UNCHANGED faults
       \/ faults < MaxFaults /\ faults' = faults + 1 /\ UNCHANGED row
    /\ admin' = [admin EXCEPT ![a] = "idle"] /\ Forget(a)
    /\ UNCHANGED <<life, stopped, reader, watching, cut>>

-----------------------------------------------------------------------------
(* The spreadsheet, Drive and time *)

\* An edit is announced on every open channel.
Edit ==
    /\ notices' = notices \cup {c \in Channels : Open(c)}
    /\ owed' = Trusting
    /\ trusted' = IF Trusting THEN row.channel ELSE None
    /\ UNCHANGED <<row, life, stopped, requests, faults, cut>>

\* Mutant: the notification of the row's channel is taken for a sync.
NoticeIgnored(c) ==
    /\ c \in notices /\ notices' = notices \ {c}
    /\ UNCHANGED <<owed, trusted>>
    /\ UNCHANGED <<row, life, stopped, requests, faults, cut>>

\* drive_notification: a channel that is not the row's is ignored.
Notice(c) ==
    /\ c \in notices /\ notices' = notices \ {c}
    /\ \/ row.channel = c /\ owed' = FALSE /\ trusted' = None
       \/ row.channel # c /\ UNCHANGED <<owed, trusted>>
    /\ UNCHANGED <<row, life, stopped, requests, faults, cut>>

\* Time passes for a channel.
Ages(c) ==
    /\ \/ life[c] = "fresh" /\ life' = [life EXCEPT ![c] = "margin"]
       \/ life[c] = "margin" /\ life' = [life EXCEPT ![c] = "expired"]
    /\ UNCHANGED <<row, stopped, requests, watching, faults, cut>>

RenewStep(r) ==
    \/ RenewBegin(r) \/ RenewOpen(r) \/ RenewCommit(r) \/ RenewCommitFails(r)
    \/ RenewStop(r)

AdminStep(a) ==
    \/ RegisterBegin(a) \/ RegisterStop(a) \/ RegisterOpen(a)
    \/ RegisterCommit(a) \/ RegisterCommitFails(a)
    \/ StopBegin(a) \/ StopAtDrive(a) \/ StopCommit(a)

Next ==
    \/ \E r \in Readers : RenewStep(r)
    \/ \E a \in Admins : AdminStep(a)
    \/ Edit
    \/ \E c \in Channels : Notice(c) \/ Ages(c)

Spec == Init /\ [][Next]_vars

-----------------------------------------------------------------------------
(* Properties *)

\* Every variable has its type; nobody idle holds anything, and whoever commits
\* has a channel that Drive opened for it.
TypeOK ==
    /\ row \in Rows
    /\ life \in [Channels -> {"unused", "fresh", "margin", "expired"}]
    /\ stopped \subseteq Channels /\ notices \subseteq Channels
    /\ cut \subseteq Channels
    /\ reader \in [Readers -> {"idle", "opening", "committing", "stopping"}]
    /\ admin \in [Admins -> {"idle", "replacing", "opening", "committing",
                             "ending", "deleting"}]
    /\ held \in [Actors -> Rows]
    /\ new \in [Actors -> Channels \cup {None}]
    /\ faults \in 0..MaxFaults
    /\ owed \in BOOLEAN /\ trusted \in Channels \cup {None}
    /\ \A r \in Readers :
         /\ reader[r] # "idle" => held[r] # NoRow
         /\ reader[r] \in {"committing", "stopping"} => new[r] # None
    /\ \A a \in Admins :
         /\ admin[a] \in {"replacing", "ending", "deleting"} => held[a] # NoRow
         /\ admin[a] = "committing" => new[a] # None

\* However many reads race to renew, no renewal closes the channel the row
\* names: if reads trust a channel that is not open, an administrator's request
\* stopped it.
RenewalKeepsRowOpen ==
    Trusting /\ ~Open(row.channel) => row.channel \in cut

\* While the row names the channel it named at an edit, the notification of
\* that edit is still to come and will be acted on, unless an administrator's
\* request stopped the channel.
AnnouncedUnlessReplaced ==
    owed /\ row.channel = trusted => trusted \in notices \cup cut
=============================================================================
