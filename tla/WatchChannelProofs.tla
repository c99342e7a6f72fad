------------------------- MODULE WatchChannelProofs -------------------------
(***************************************************************************)
(* Proofs about WatchChannel for any number of readers, administrators,    *)
(* channels and faults.                                                    *)
(***************************************************************************)
EXTENDS WatchChannel, TLAPS

Committing(x) == \/ x \in Readers /\ reader[x] = "committing"
                 \/ x \in Admins /\ admin[x] = "committing"

\* A channel id that appears anywhere was opened at Drive.
Used(c) == life[c] # "unused"

UsedInv ==
    /\ row # NoRow => Used(row.channel)
    /\ \A x \in Actors : held[x] # NoRow => Used(held[x].channel)
    /\ \A x \in Actors : Committing(x) => Used(new[x])
    /\ \A c \in stopped \cup cut : Used(c)
    /\ trusted # None => Used(trusted)
    /\ owed => trusted # None

\* A channel waiting to be committed is known to its opener alone.
NewInv ==
    \A x \in Actors : Committing(x) =>
        /\ new[x] \notin stopped /\ new[x] # row.channel /\ new[x] # trusted
        /\ \A y \in Actors : held[y].channel # new[x]
        /\ \A y \in Actors : Committing(y) /\ y # x => new[y] # new[x]

\* A renewal stops a channel that the row no longer names.
StopInv ==
    /\ \A r \in Readers : reader[r] = "stopping" => held[r].channel # row.channel
    /\ row.channel \in stopped => row.channel \in cut

IInv == TypeOK /\ UsedInv /\ NewInv /\ StopInv /\ AnnouncedUnlessReplaced

-----------------------------------------------------------------------------
\* The initial state satisfies the invariant.
LEMMA InitEstablishes == Init => IInv
<1> SUFFICES ASSUME Init PROVE IInv
  OBVIOUS
<1> USE WatchChannelAssumption
    DEF WatchChannelAssumption, Init, Actors, Rows, Row, NoRow
<1>1. TypeOK
  <2>1. row \in Rows /\ faults \in 0..MaxFaults
    OBVIOUS
  <2>2. held \in [Actors -> Rows] /\ new \in [Actors -> Channels \cup {None}]
    OBVIOUS
  <2>3. /\ \A r \in Readers : reader[r] = "idle"
        /\ \A a \in Admins : admin[a] = "idle"
    OBVIOUS
  <2>4. QED
    BY <2>1, <2>2, <2>3 DEF TypeOK
<1>2. UsedInv /\ NewInv /\ StopInv
  BY DEF UsedInv, NewInv, StopInv, Committing
<1>3. AnnouncedUnlessReplaced
  BY DEF AnnouncedUnlessReplaced
<1>4. QED
  BY <1>1, <1>2, <1>3 DEF IInv

\* Types: every step keeps them.
LEMMA TypeStep ==
    ASSUME TypeOK, [Next]_vars
    PROVE  TypeOK'
<1> USE WatchChannelAssumption DEF WatchChannelAssumption, TypeOK, Actors, Rows, Row, NoRow
<1>1. ASSUME NEW r \in Readers, RenewBegin(r) PROVE TypeOK'
  BY <1>1 DEF RenewBegin, requests, watching
<1>2. ASSUME NEW r \in Readers, RenewOpen(r) PROVE TypeOK'
  <2>1. CASE Opens(r) /\ reader' = [reader EXCEPT ![r] = "committing"] /\ UNCHANGED held
    <3>1. PICK c \in Channels :
            /\ life[c] = "unused" /\ life' = [life EXCEPT ![c] = "fresh"]
            /\ new' = [new EXCEPT ![r] = c] /\ UNCHANGED faults
      BY <2>1 DEF Opens
    <3>2. UNCHANGED <<row, stopped, admin, notices, owed, trusted, cut>>
      BY <1>2 DEF RenewOpen, Opens, OpenFails, Forget, requests, watching
    <3>3. /\ life' \in [Channels -> {"unused", "fresh", "margin", "expired"}]
          /\ new' \in [Actors -> Channels \cup {None}]
      BY <3>1
    <3>4. reader' \in [Readers -> {"idle", "opening", "committing", "stopping"}]
      BY <2>1
    <3>5. \A x \in Readers :
            /\ reader'[x] # "idle" => held'[x] # NoRow
            /\ reader'[x] \in {"committing", "stopping"} => new'[x] # None
      <4> SUFFICES ASSUME NEW x \in Readers
                   PROVE  /\ reader'[x] # "idle" => held'[x] # NoRow
                          /\ reader'[x] \in {"committing", "stopping"} => new'[x] # None
        OBVIOUS
      <4>1. CASE x = r
        BY <4>1, <3>1, <2>1, <1>2 DEF RenewOpen
      <4>2. CASE x # r
        BY <4>2, <3>1, <2>1
      <4>3. QED
        BY <4>1, <4>2
    <3>6. \A x \in Admins : new'[x] = new[x]
      BY <3>1
    <3>7. QED
      BY <2>1, <3>1, <3>2, <3>3, <3>4, <3>5, <3>6
  <2>2. CASE OpenFails(r) /\ Forget(r) /\ reader' = [reader EXCEPT ![r] = "idle"]
    BY <1>2, <2>2 DEF RenewOpen, Opens, OpenFails, Forget, requests, watching
  <2>3. QED
    BY <1>2, <2>1, <2>2 DEF RenewOpen
<1>3. ASSUME NEW r \in Readers, RenewCommit(r) PROVE TypeOK'
  BY <1>3 DEF RenewCommit, requests, watching
<1>4. ASSUME NEW r \in Readers, RenewCommitFails(r) PROVE TypeOK'
  BY <1>4 DEF RenewCommitFails, Forget, requests, watching
<1>5. ASSUME NEW r \in Readers, RenewStop(r) PROVE TypeOK'
  BY <1>5 DEF RenewStop, Stops, Forget, requests, watching
<1>6. ASSUME NEW a \in Admins, RegisterBegin(a) PROVE TypeOK'
  BY <1>6 DEF RegisterBegin, requests, watching
<1>7. ASSUME NEW a \in Admins, RegisterStop(a) PROVE TypeOK'
  BY <1>7 DEF RegisterStop, Stops, requests, watching
<1>8. ASSUME NEW a \in Admins, RegisterOpen(a) PROVE TypeOK'
  <2>1. CASE Opens(a) /\ admin' = [admin EXCEPT ![a] = "committing"] /\ UNCHANGED held
    <3>1. PICK c \in Channels :
            /\ life[c] = "unused" /\ life' = [life EXCEPT ![c] = "fresh"]
            /\ new' = [new EXCEPT ![a] = c] /\ UNCHANGED faults
      BY <2>1 DEF Opens
    <3>2. UNCHANGED <<row, stopped, reader, notices, owed, trusted, cut>>
      BY <1>8 DEF RegisterOpen, Opens, OpenFails, Forget, requests, watching
    <3>3. QED
      BY <2>1, <3>1, <3>2
  <2>2. CASE OpenFails(a) /\ Forget(a) /\ admin' = [admin EXCEPT ![a] = "idle"]
    BY <1>8, <2>2 DEF RegisterOpen, Opens, OpenFails, Forget, requests, watching
  <2>3. QED
    BY <1>8, <2>1, <2>2 DEF RegisterOpen
<1>9. ASSUME NEW a \in Admins, RegisterCommit(a) PROVE TypeOK'
  BY <1>9 DEF RegisterCommit, Forget, requests, watching
<1>10. ASSUME NEW a \in Admins, RegisterCommitFails(a) PROVE TypeOK'
  BY <1>10 DEF RegisterCommitFails, Forget, requests, watching
<1>11. ASSUME NEW a \in Admins, StopBegin(a) PROVE TypeOK'
  BY <1>11 DEF StopBegin, requests, watching
<1>12. ASSUME NEW a \in Admins, StopAtDrive(a) PROVE TypeOK'
  BY <1>12 DEF StopAtDrive, Stops, requests, watching
<1>13. ASSUME NEW a \in Admins, StopCommit(a) PROVE TypeOK'
  BY <1>13 DEF StopCommit, Forget, requests, watching
<1>14. CASE Edit
  BY <1>14 DEF Edit, Open, Trusting, requests, watching
<1>15. ASSUME NEW c \in Channels, Notice(c) PROVE TypeOK'
  BY <1>15 DEF Notice, requests, watching
<1>16. ASSUME NEW c \in Channels, Ages(c) PROVE TypeOK'
  BY <1>16 DEF Ages, requests, watching
<1>17. CASE UNCHANGED vars
  BY <1>17 DEF vars, requests, watching
<1>18. QED
  BY <1>1, <1>2, <1>3, <1>4, <1>5, <1>6, <1>7, <1>8, <1>9, <1>10, <1>11,
     <1>12, <1>13, <1>14, <1>15, <1>16, <1>17
     DEF Next, RenewStep, AdminStep

\* Ids: none is invented.
LEMMA UsedStep ==
    ASSUME TypeOK, TypeOK', UsedInv, [Next]_vars
    PROVE  UsedInv'
<1> USE WatchChannelAssumption DEF WatchChannelAssumption, TypeOK, Actors, Rows, Row, NoRow, UsedInv, Used, Committing
<1>1. ASSUME NEW r \in Readers, RenewBegin(r) PROVE UsedInv'
  BY <1>1 DEF RenewBegin, requests, watching
<1>2. ASSUME NEW r \in Readers, RenewOpen(r) PROVE UsedInv'
  BY <1>2 DEF RenewOpen, Opens, OpenFails, Forget, requests, watching
<1>3. ASSUME NEW r \in Readers, RenewCommit(r) PROVE UsedInv'
  BY <1>3 DEF RenewCommit, requests, watching
<1>4. ASSUME NEW r \in Readers, RenewCommitFails(r) PROVE UsedInv'
  BY <1>4 DEF RenewCommitFails, Forget, requests, watching
<1>5. ASSUME NEW r \in Readers, RenewStop(r) PROVE UsedInv'
  BY <1>5 DEF RenewStop, Stops, Forget, requests, watching
<1>6. ASSUME NEW a \in Admins, RegisterBegin(a) PROVE UsedInv'
  BY <1>6 DEF RegisterBegin, requests, watching
<1>7. ASSUME NEW a \in Admins, RegisterStop(a) PROVE UsedInv'
  BY <1>7 DEF RegisterStop, Stops, requests, watching
<1>8. ASSUME NEW a \in Admins, RegisterOpen(a) PROVE UsedInv'
  BY <1>8 DEF RegisterOpen, Opens, OpenFails, Forget, requests, watching
<1>9. ASSUME NEW a \in Admins, RegisterCommit(a) PROVE UsedInv'
  BY <1>9 DEF RegisterCommit, Forget, requests, watching
<1>10. ASSUME NEW a \in Admins, RegisterCommitFails(a) PROVE UsedInv'
  BY <1>10 DEF RegisterCommitFails, Forget, requests, watching
<1>11. ASSUME NEW a \in Admins, StopBegin(a) PROVE UsedInv'
  BY <1>11 DEF StopBegin, requests, watching
<1>12. ASSUME NEW a \in Admins, StopAtDrive(a) PROVE UsedInv'
  BY <1>12 DEF StopAtDrive, Stops, requests, watching
<1>13. ASSUME NEW a \in Admins, StopCommit(a) PROVE UsedInv'
  BY <1>13 DEF StopCommit, Forget, requests, watching
<1>14. CASE Edit
  BY <1>14 DEF Edit, Open, Trusting, requests, watching
<1>15. ASSUME NEW c \in Channels, Notice(c) PROVE UsedInv'
  BY <1>15 DEF Notice, requests, watching
<1>16. ASSUME NEW c \in Channels, Ages(c) PROVE UsedInv'
  BY <1>16 DEF Ages, requests, watching
<1>17. CASE UNCHANGED vars
  BY <1>17 DEF vars, requests, watching
<1>18. QED
  BY <1>1, <1>2, <1>3, <1>4, <1>5, <1>6, <1>7, <1>8, <1>9, <1>10, <1>11,
     <1>12, <1>13, <1>14, <1>15, <1>16, <1>17
     DEF Next, RenewStep, AdminStep

\* New channels: opened under an unused id, seen by nobody else until committed.
LEMMA NewStep ==
    ASSUME TypeOK, TypeOK', UsedInv, NewInv, [Next]_vars
    PROVE  NewInv'
<1> USE WatchChannelAssumption DEF WatchChannelAssumption, TypeOK, Actors, Rows, Row, NoRow, UsedInv, Used, Committing, NewInv
<1>1. ASSUME NEW r \in Readers, RenewBegin(r) PROVE NewInv'
  BY <1>1 DEF RenewBegin, requests, watching
<1>2. ASSUME NEW r \in Readers, RenewOpen(r) PROVE NewInv'
  <2>1. CASE Opens(r) /\ reader' = [reader EXCEPT ![r] = "committing"] /\ UNCHANGED held
    <3>1. PICK c \in Channels :
            /\ life[c] = "unused" /\ life' = [life EXCEPT ![c] = "fresh"]
            /\ new' = [new EXCEPT ![r] = c] /\ UNCHANGED faults
      BY <2>1 DEF Opens
    <3>2. UNCHANGED <<row, stopped, admin, notices, owed, trusted, cut>>
      BY <1>2 DEF RenewOpen, Opens, OpenFails, Forget, requests, watching
    <3>3. QED
      BY <2>1, <3>1, <3>2
  <2>2. CASE OpenFails(r) /\ Forget(r) /\ reader' = [reader EXCEPT ![r] = "idle"]
    BY <1>2, <2>2 DEF RenewOpen, Opens, OpenFails, Forget, requests, watching
  <2>3. QED
    BY <1>2, <2>1, <2>2 DEF RenewOpen
<1>3. ASSUME NEW r \in Readers, RenewCommit(r) PROVE NewInv'
  BY <1>3 DEF RenewCommit, requests, watching
<1>4. ASSUME NEW r \in Readers, RenewCommitFails(r) PROVE NewInv'
  BY <1>4 DEF RenewCommitFails, Forget, requests, watching
<1>5. ASSUME NEW r \in Readers, RenewStop(r) PROVE NewInv'
  BY <1>5 DEF RenewStop, Stops, Forget, requests, watching
<1>6. ASSUME NEW a \in Admins, RegisterBegin(a) PROVE NewInv'
  BY <1>6 DEF RegisterBegin, requests, watching
<1>7. ASSUME NEW a \in Admins, RegisterStop(a) PROVE NewInv'
  BY <1>7 DEF RegisterStop, Stops, requests, watching
<1>8. ASSUME NEW a \in Admins, RegisterOpen(a) PROVE NewInv'
  <2>1. CASE Opens(a) /\ admin' = [admin EXCEPT ![a] = "committing"] /\ UNCHANGED held
    <3>1. PICK c \in Channels :
            /\ life[c] = "unused" /\ life' = [life EXCEPT ![c] = "fresh"]
            /\ new' = [new EXCEPT ![a] = c] /\ UNCHANGED faults
      BY <2>1 DEF Opens
    <3>2. UNCHANGED <<row, stopped, reader, notices, owed, trusted, cut>>
      BY <1>8 DEF RegisterOpen, Opens, OpenFails, Forget, requests, watching
    <3>3. QED
      BY <2>1, <3>1, <3>2
  <2>2. CASE OpenFails(a) /\ Forget(a) /\ admin' = [admin EXCEPT ![a] = "idle"]
    BY <1>8, <2>2 DEF RegisterOpen, Opens, OpenFails, Forget, requests, watching
  <2>3. QED
    BY <1>8, <2>1, <2>2 DEF RegisterOpen
<1>9. ASSUME NEW a \in Admins, RegisterCommit(a) PROVE NewInv'
  BY <1>9 DEF RegisterCommit, Forget, requests, watching
<1>10. ASSUME NEW a \in Admins, RegisterCommitFails(a) PROVE NewInv'
  BY <1>10 DEF RegisterCommitFails, Forget, requests, watching
<1>11. ASSUME NEW a \in Admins, StopBegin(a) PROVE NewInv'
  BY <1>11 DEF StopBegin, requests, watching
<1>12. ASSUME NEW a \in Admins, StopAtDrive(a) PROVE NewInv'
  BY <1>12 DEF StopAtDrive, Stops, requests, watching
<1>13. ASSUME NEW a \in Admins, StopCommit(a) PROVE NewInv'
  BY <1>13 DEF StopCommit, Forget, requests, watching
<1>14. CASE Edit
  BY <1>14 DEF Edit, Open, Trusting, requests, watching
<1>15. ASSUME NEW c \in Channels, Notice(c) PROVE NewInv'
  BY <1>15 DEF Notice, requests, watching
<1>16. ASSUME NEW c \in Channels, Ages(c) PROVE NewInv'
  BY <1>16 DEF Ages, requests, watching
<1>17. CASE UNCHANGED vars
  BY <1>17 DEF vars, requests, watching
<1>18. QED
  BY <1>1, <1>2, <1>3, <1>4, <1>5, <1>6, <1>7, <1>8, <1>9, <1>10, <1>11,
     <1>12, <1>13, <1>14, <1>15, <1>16, <1>17
     DEF Next, RenewStep, AdminStep

\* Stops: a renewal never stops the channel of the row.
LEMMA StopStep ==
    ASSUME TypeOK, TypeOK', NewInv, StopInv, [Next]_vars
    PROVE  StopInv'
<1> USE WatchChannelAssumption DEF WatchChannelAssumption, TypeOK, Actors, Rows, Row, NoRow, Committing, NewInv, StopInv
<1>1. ASSUME NEW r \in Readers, RenewBegin(r) PROVE StopInv'
  BY <1>1 DEF RenewBegin, requests, watching
<1>2. ASSUME NEW r \in Readers, RenewOpen(r) PROVE StopInv'
  BY <1>2 DEF RenewOpen, Opens, OpenFails, Forget, requests, watching
<1>3. ASSUME NEW r \in Readers, RenewCommit(r) PROVE StopInv'
  BY <1>3 DEF RenewCommit, requests, watching
<1>4. ASSUME NEW r \in Readers, RenewCommitFails(r) PROVE StopInv'
  BY <1>4 DEF RenewCommitFails, Forget, requests, watching
<1>5. ASSUME NEW r \in Readers, RenewStop(r) PROVE StopInv'
  BY <1>5 DEF RenewStop, Stops, Forget, requests, watching
<1>6. ASSUME NEW a \in Admins, RegisterBegin(a) PROVE StopInv'
  BY <1>6 DEF RegisterBegin, requests, watching
<1>7. ASSUME NEW a \in Admins, RegisterStop(a) PROVE StopInv'
  BY <1>7 DEF RegisterStop, Stops, requests, watching
<1>8. ASSUME NEW a \in Admins, RegisterOpen(a) PROVE StopInv'
  BY <1>8 DEF RegisterOpen, Opens, OpenFails, Forget, requests, watching
<1>9. ASSUME NEW a \in Admins, RegisterCommit(a) PROVE StopInv'
  BY <1>9 DEF RegisterCommit, Forget, requests, watching
<1>10. ASSUME NEW a \in Admins, RegisterCommitFails(a) PROVE StopInv'
  BY <1>10 DEF RegisterCommitFails, Forget, requests, watching
<1>11. ASSUME NEW a \in Admins, StopBegin(a) PROVE StopInv'
  BY <1>11 DEF StopBegin, requests, watching
<1>12. ASSUME NEW a \in Admins, StopAtDrive(a) PROVE StopInv'
  BY <1>12 DEF StopAtDrive, Stops, requests, watching
<1>13. ASSUME NEW a \in Admins, StopCommit(a) PROVE StopInv'
  BY <1>13 DEF StopCommit, Forget, requests, watching
<1>14. CASE Edit
  BY <1>14 DEF Edit, Open, Trusting, requests, watching
<1>15. ASSUME NEW c \in Channels, Notice(c) PROVE StopInv'
  BY <1>15 DEF Notice, requests, watching
<1>16. ASSUME NEW c \in Channels, Ages(c) PROVE StopInv'
  BY <1>16 DEF Ages, requests, watching
<1>17. CASE UNCHANGED vars
  BY <1>17 DEF vars, requests, watching
<1>18. QED
  BY <1>1, <1>2, <1>3, <1>4, <1>5, <1>6, <1>7, <1>8, <1>9, <1>10, <1>11,
     <1>12, <1>13, <1>14, <1>15, <1>16, <1>17
     DEF Next, RenewStep, AdminStep

\* Announcements: the row's notification is not lost.
LEMMA AnnouncedStep ==
    ASSUME TypeOK, TypeOK', UsedInv, NewInv, StopInv, AnnouncedUnlessReplaced, [Next]_vars
    PROVE  AnnouncedUnlessReplaced'
<1> USE WatchChannelAssumption DEF WatchChannelAssumption, TypeOK, Actors, Rows, Row, NoRow, UsedInv, Used, Committing, NewInv, StopInv, AnnouncedUnlessReplaced
<1>1. ASSUME NEW r \in Readers, RenewBegin(r) PROVE AnnouncedUnlessReplaced'
  BY <1>1 DEF RenewBegin, requests, watching
<1>2. ASSUME NEW r \in Readers, RenewOpen(r) PROVE AnnouncedUnlessReplaced'
  BY <1>2 DEF RenewOpen, Opens, OpenFails, Forget, requests, watching
<1>3. ASSUME NEW r \in Readers, RenewCommit(r) PROVE AnnouncedUnlessReplaced'
  BY <1>3 DEF RenewCommit, requests, watching
<1>4. ASSUME NEW r \in Readers, RenewCommitFails(r) PROVE AnnouncedUnlessReplaced'
  BY <1>4 DEF RenewCommitFails, Forget, requests, watching
<1>5. ASSUME NEW r \in Readers, RenewStop(r) PROVE AnnouncedUnlessReplaced'
  BY <1>5 DEF RenewStop, Stops, Forget, requests, watching
<1>6. ASSUME NEW a \in Admins, RegisterBegin(a) PROVE AnnouncedUnlessReplaced'
  BY <1>6 DEF RegisterBegin, requests, watching
<1>7. ASSUME NEW a \in Admins, RegisterStop(a) PROVE AnnouncedUnlessReplaced'
  BY <1>7 DEF RegisterStop, Stops, requests, watching
<1>8. ASSUME NEW a \in Admins, RegisterOpen(a) PROVE AnnouncedUnlessReplaced'
  BY <1>8 DEF RegisterOpen, Opens, OpenFails, Forget, requests, watching
<1>9. ASSUME NEW a \in Admins, RegisterCommit(a) PROVE AnnouncedUnlessReplaced'
  BY <1>9 DEF RegisterCommit, Forget, requests, watching
<1>10. ASSUME NEW a \in Admins, RegisterCommitFails(a) PROVE AnnouncedUnlessReplaced'
  BY <1>10 DEF RegisterCommitFails, Forget, requests, watching
<1>11. ASSUME NEW a \in Admins, StopBegin(a) PROVE AnnouncedUnlessReplaced'
  BY <1>11 DEF StopBegin, requests, watching
<1>12. ASSUME NEW a \in Admins, StopAtDrive(a) PROVE AnnouncedUnlessReplaced'
  BY <1>12 DEF StopAtDrive, Stops, requests, watching
<1>13. ASSUME NEW a \in Admins, StopCommit(a) PROVE AnnouncedUnlessReplaced'
  BY <1>13 DEF StopCommit, Forget, requests, watching
<1>14. CASE Edit
  BY <1>14 DEF Edit, Open, Trusting, requests, watching
<1>15. ASSUME NEW c \in Channels, Notice(c) PROVE AnnouncedUnlessReplaced'
  BY <1>15 DEF Notice, requests, watching
<1>16. ASSUME NEW c \in Channels, Ages(c) PROVE AnnouncedUnlessReplaced'
  BY <1>16 DEF Ages, requests, watching
<1>17. CASE UNCHANGED vars
  BY <1>17 DEF vars, requests, watching
<1>18. QED
  BY <1>1, <1>2, <1>3, <1>4, <1>5, <1>6, <1>7, <1>8, <1>9, <1>10, <1>11,
     <1>12, <1>13, <1>14, <1>15, <1>16, <1>17
     DEF Next, RenewStep, AdminStep

-----------------------------------------------------------------------------
\* One step keeps the whole invariant.
LEMMA Inductive == IInv /\ [Next]_vars => IInv'
<1> SUFFICES ASSUME IInv, [Next]_vars PROVE IInv'
  OBVIOUS
<1>1. TypeOK'
  BY TypeStep DEF IInv
<1>2. UsedInv'
  BY <1>1, UsedStep DEF IInv
<1>3. NewInv'
  BY <1>1, NewStep DEF IInv
<1>4. StopInv'
  BY <1>1, StopStep DEF IInv
<1>5. AnnouncedUnlessReplaced'
  BY <1>1, AnnouncedStep DEF IInv
<1>6. QED
  BY <1>1, <1>2, <1>3, <1>4, <1>5 DEF IInv

\* The invariant holds in every reachable state.
THEOREM Invariance == Spec => []IInv
<1>1. QED
  BY InitEstablishes, Inductive, PTL DEF Spec

\* The row, the channels and the requests are well typed, and whoever commits
\* has a channel to commit.
THEOREM TypeCorrect == Spec => []TypeOK
<1>1. IInv => TypeOK
  BY DEF IInv
<1>2. QED
  BY <1>1, Invariance, PTL

\* However many reads race to renew, a trusted channel that is not open was
\* stopped by an administrator's request.
THEOREM RenewalSafe == Spec => []RenewalKeepsRowOpen
<1>1. IInv => RenewalKeepsRowOpen
  BY DEF IInv, StopInv, RenewalKeepsRowOpen, Trusting, Open
<1>2. QED
  BY <1>1, Invariance, PTL

\* An edit made under the row's channel stays announced for as long as the row
\* names that channel and no administrator's request stops it.
THEOREM Announced == Spec => []AnnouncedUnlessReplaced
<1>1. IInv => AnnouncedUnlessReplaced
  BY DEF IInv
<1>2. QED
  BY <1>1, Invariance, PTL
=============================================================================
