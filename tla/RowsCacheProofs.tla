-------------------------- MODULE RowsCacheProofs ---------------------------
(***************************************************************************)
(* Proofs about RowsCache for any number of readers, edits, channels and   *)
(* faults.                                                                 *)
(***************************************************************************)
EXTENDS RowsCache, TLAPS

Scanned(r) == reader[r] \in {"scan", "store"}
Loaded(r)  == reader[r] \in {"confirm", "commit", "rows"}
HasMatrix(r) == reader[r] \in {"scan", "store", "fill"}

\* Nothing is newer than the sheet, and a stamp is no newer than what was
\* scanned after it.
StampInv ==
    /\ \A r \in Readers :
         /\ stamp[r] # None => stamp[r] <= sheet
         /\ Scanned(r) /\ stamp[r] # None => AtLeast(matrix[r], stamp[r])
    /\ stored # None /\ stored.stamp # None =>
         stored.stamp <= sheet /\ AtLeast(stored, stored.stamp)

\* What floor and began record.
FloorInv ==
    /\ floor <= sheet
    /\ \A i \in Invalidators :
         covers[i] <= sheet /\ (clearing[i] # "mark" => covers[i] = 0)
    /\ \A r \in Readers : began[r] <= floor

\* Without a race, each tier is at least at the floor unless it is dirty or
\* about to be marked so, and what a reader holds is at least as new as the
\* floor it began at.
FreshInv ==
    ~raced =>
      /\ hot # None => AtLeast(hot, floor)
      /\ \A i \in Invalidators :
           clearing[i] = "mark" /\ covers[i] > floor => hot = None
      /\ stored # None /\ ~stored.dirty => AtLeast(stored, floor)
      /\ \A r \in Readers :
           /\ Loaded(r) => /\ AtLeast(stored, began[r])
                           /\ state[r].headers >= began[r]
           /\ HasMatrix(r) => AtLeast(matrix[r], began[r])

IInv == TypeOK /\ StampInv /\ FloorInv /\ FreshInv

-----------------------------------------------------------------------------
\* The initial state satisfies the invariant.
LEMMA InitEstablishes == Init => IInv
<1> SUFFICES ASSUME Init PROVE IInv
  OBVIOUS
<1> USE DEF Init
<1>1. TypeOK
  <2>1. MaxEdits \in Nat /\ MaxWatches \in Nat /\ MaxFaults \in Nat
    BY RowsCacheAssumption DEF RowsCacheAssumption
  <2>2. sheet \in 0..MaxEdits /\ watches \in 0..MaxWatches
        /\ faults \in 0..MaxFaults
    BY <2>1
  <2>3. /\ stamp \in [Readers -> Stamps]
        /\ clearing \in [Invalidators -> {"idle", "delete", "mark"}]
        /\ covers \in [Invalidators -> Nat] /\ began \in [Readers -> Nat]
    BY DEF Stamps
  <2>4. QED
    BY <2>2, <2>3 DEF TypeOK
<1>2. StampInv
  BY DEF StampInv, Scanned
<1>3. FloorInv
  BY DEF FloorInv
<1>4. FreshInv
  BY DEF FreshInv, Loaded, HasMatrix
<1>5. QED
  BY <1>1, <1>2, <1>3, <1>4 DEF IInv

\* Types: every step keeps them.
LEMMA TypeStep ==
    ASSUME TypeOK, [Next]_vars
    PROVE  TypeOK'
<1> USE RowsCacheAssumption DEF TypeOK, Matrix, Stamps, Tab, SyncState, Invalidators
<1>1. ASSUME NEW r \in Readers, Begin(r) PROVE TypeOK'
  BY <1>1 DEF Begin, Goto, tiers, reading, inval, budget
<1>2. ASSUME NEW r \in Readers, GiveUpOnStored(r) PROVE TypeOK'
  BY <1>2 DEF GiveUpOnStored, Goto, tiers, reading, inval, budget
<1>3. ASSUME NEW r \in Readers, ReadState(r) PROVE TypeOK'
  BY <1>3 DEF ReadState, Goto, tiers, reading, inval, budget
<1>4. ASSUME NEW r \in Readers, CleanWithoutDrive(r) PROVE TypeOK'
  BY <1>4 DEF CleanWithoutDrive, Goto, tiers, reading, inval, budget
<1>5. ASSUME NEW r \in Readers, AskDrive(r) PROVE TypeOK'
  BY <1>5 DEF AskDrive, Goto, tiers, reading, inval, budget
<1>6. ASSUME NEW r \in Readers, CommitChecked(r) PROVE TypeOK'
  BY <1>6, ZenonT(30) DEF CommitChecked, Goto, tiers, reading, inval, budget
<1>7. ASSUME NEW r \in Readers, SelectRows(r) PROVE TypeOK'
  BY <1>7 DEF SelectRows, Goto, tiers, reading, inval, budget
<1>8. ASSUME NEW r \in Readers, ReadStamp(r) PROVE TypeOK'
  BY <1>8 DEF ReadStamp, Goto, tiers, reading, inval, budget
<1>9. ASSUME NEW r \in Readers, ScanHeaders(r) PROVE TypeOK'
  BY <1>9 DEF ScanHeaders, Goto, tiers, reading, inval, budget
<1>10. ASSUME NEW r \in Readers, ScanRows(r) PROVE TypeOK'
  BY <1>10 DEF ScanRows, Goto, tiers, reading, inval, budget
<1>11. ASSUME NEW r \in Readers, ScanFails(r) PROVE TypeOK'
  BY <1>11 DEF ScanFails, Goto, tiers, reading, inval, budget
<1>12. ASSUME NEW r \in Readers, StoreTab(r) PROVE TypeOK'
  <2>1. CASE stored' = stored
    BY <1>12, <2>1 DEF StoreTab, Goto, NoteRace, tiers, reading, inval, budget
  <2>2. CASE stored' = [dirty |-> FALSE, checked |-> TRUE, stamp |-> stamp[r],
                        headers |-> matrix[r].headers, rows |-> matrix[r].rows]
    <3>1. matrix[r] \in Matrix /\ stamp[r] \in Stamps
      BY <1>12 DEF StoreTab, Goto, NoteRace, tiers, reading, inval, budget
    <3>2. stored' \in Tab
      BY <2>2, <3>1
    <3>3. stored' # None
      BY <3>2 DEF RowsCacheAssumption
    <3>4. raced' \in BOOLEAN
      BY <1>12 DEF StoreTab, Goto, NoteRace, tiers, reading, inval, budget
    <3>5. QED
      BY <1>12, <3>2, <3>3, <3>4 DEF StoreTab, Goto, NoteRace, tiers, reading, inval, budget
  <2>3. QED
    BY <1>12, <2>1, <2>2 DEF StoreTab, Goto, NoteRace, tiers, reading, inval, budget
<1>13. ASSUME NEW r \in Readers, FillRedis(r) PROVE TypeOK'
  BY <1>13 DEF FillRedis, Goto, NoteRace, tiers, reading, inval, budget
<1>14. ASSUME NEW i \in Invalidators, DeleteHot(i) PROVE TypeOK'
  BY <1>14 DEF DeleteHot, tiers, reading, inval, budget
<1>15. ASSUME NEW i \in Invalidators, DeleteHotFails(i) PROVE TypeOK'
  BY <1>15 DEF DeleteHotFails, tiers, reading, inval, budget
<1>16. ASSUME NEW i \in Invalidators, MarkDirty(i) PROVE TypeOK'
  BY <1>16, ZenonT(30) DEF MarkDirty, tiers, reading, inval, budget
<1>17. ASSUME NEW i \in Invalidators, MarkDirtyFails(i) PROVE TypeOK'
  BY <1>17 DEF MarkDirtyFails, tiers, reading, inval, budget
<1>18. CASE EditSheet
  BY <1>18 DEF EditSheet, NewVersion, tiers, reading, inval, budget
<1>19. CASE WorkerWrites
  BY <1>19 DEF WorkerWrites, NewVersion, tiers, reading, inval, budget
<1>20. CASE NoticeArrives
  BY <1>20 DEF NoticeArrives, tiers, reading, inval, budget
<1>21. CASE NoticeLost
  BY <1>21 DEF NoticeLost, tiers, reading, inval, budget
<1>22. CASE HotExpires
  BY <1>22 DEF HotExpires, tiers, reading, inval, budget
<1>23. CASE GraceExpires
  BY <1>23, ZenonT(30) DEF GraceExpires, tiers, reading, inval, budget
<1>24. CASE Watch
  BY <1>24 DEF Watch, tiers, reading, inval, budget
<1>25. CASE WatchEnds
  BY <1>25 DEF WatchEnds, tiers, reading, inval, budget
<1>26. CASE UNCHANGED vars
  BY <1>26 DEF vars, tiers, reading, inval, budget
<1>27. QED
  BY <1>1, <1>2, <1>3, <1>4, <1>5, <1>6, <1>7, <1>8, <1>9, <1>10, <1>11,
     <1>12, <1>13, <1>14, <1>15, <1>16, <1>17, <1>18, <1>19, <1>20, <1>21,
     <1>22, <1>23, <1>24, <1>25, <1>26
     DEF Next, ReadStep, ClearStep

\* Stamps: a stamp is never ahead of what was scanned after it.
LEMMA StampStep ==
    ASSUME TypeOK, TypeOK', StampInv, [Next]_vars
    PROVE  StampInv'
<1> USE RowsCacheAssumption DEF TypeOK, Matrix, Stamps, Tab, SyncState, Invalidators, StampInv, AtLeast, Scanned
<1>1. ASSUME NEW r \in Readers, Begin(r) PROVE StampInv'
  BY <1>1 DEF Begin, Goto, tiers, reading, inval, budget
<1>2. ASSUME NEW r \in Readers, GiveUpOnStored(r) PROVE StampInv'
  BY <1>2 DEF GiveUpOnStored, Goto, tiers, reading, inval, budget
<1>3. ASSUME NEW r \in Readers, ReadState(r) PROVE StampInv'
  BY <1>3 DEF ReadState, Goto, tiers, reading, inval, budget
<1>4. ASSUME NEW r \in Readers, CleanWithoutDrive(r) PROVE StampInv'
  BY <1>4 DEF CleanWithoutDrive, Goto, tiers, reading, inval, budget
<1>5. ASSUME NEW r \in Readers, AskDrive(r) PROVE StampInv'
  BY <1>5 DEF AskDrive, Goto, tiers, reading, inval, budget
<1>6. ASSUME NEW r \in Readers, CommitChecked(r) PROVE StampInv'
  BY <1>6 DEF CommitChecked, Goto, tiers, reading, inval, budget
<1>7. ASSUME NEW r \in Readers, SelectRows(r) PROVE StampInv'
  BY <1>7 DEF SelectRows, Goto, tiers, reading, inval, budget
<1>8. ASSUME NEW r \in Readers, ReadStamp(r) PROVE StampInv'
  BY <1>8 DEF ReadStamp, Goto, tiers, reading, inval, budget
<1>9. ASSUME NEW r \in Readers, ScanHeaders(r) PROVE StampInv'
  BY <1>9 DEF ScanHeaders, Goto, tiers, reading, inval, budget
<1>10. ASSUME NEW r \in Readers, ScanRows(r) PROVE StampInv'
  BY <1>10 DEF ScanRows, Goto, tiers, reading, inval, budget
<1>11. ASSUME NEW r \in Readers, ScanFails(r) PROVE StampInv'
  BY <1>11 DEF ScanFails, Goto, tiers, reading, inval, budget
<1>12. ASSUME NEW r \in Readers, StoreTab(r) PROVE StampInv'
  BY <1>12 DEF StoreTab, Goto, NoteRace, tiers, reading, inval, budget
<1>13. ASSUME NEW r \in Readers, FillRedis(r) PROVE StampInv'
  BY <1>13 DEF FillRedis, Goto, NoteRace, tiers, reading, inval, budget
<1>14. ASSUME NEW i \in Invalidators, DeleteHot(i) PROVE StampInv'
  BY <1>14 DEF DeleteHot, tiers, reading, inval, budget
<1>15. ASSUME NEW i \in Invalidators, DeleteHotFails(i) PROVE StampInv'
  BY <1>15 DEF DeleteHotFails, tiers, reading, inval, budget
<1>16. ASSUME NEW i \in Invalidators, MarkDirty(i) PROVE StampInv'
  BY <1>16 DEF MarkDirty, tiers, reading, inval, budget
<1>17. ASSUME NEW i \in Invalidators, MarkDirtyFails(i) PROVE StampInv'
  BY <1>17 DEF MarkDirtyFails, tiers, reading, inval, budget
<1>18. CASE EditSheet
  BY <1>18 DEF EditSheet, NewVersion, tiers, reading, inval, budget
<1>19. CASE WorkerWrites
  BY <1>19 DEF WorkerWrites, NewVersion, tiers, reading, inval, budget
<1>20. CASE NoticeArrives
  BY <1>20 DEF NoticeArrives, tiers, reading, inval, budget
<1>21. CASE NoticeLost
  BY <1>21 DEF NoticeLost, tiers, reading, inval, budget
<1>22. CASE HotExpires
  BY <1>22 DEF HotExpires, tiers, reading, inval, budget
<1>23. CASE GraceExpires
  BY <1>23 DEF GraceExpires, tiers, reading, inval, budget
<1>24. CASE Watch
  BY <1>24 DEF Watch, tiers, reading, inval, budget
<1>25. CASE WatchEnds
  BY <1>25 DEF WatchEnds, tiers, reading, inval, budget
<1>26. CASE UNCHANGED vars
  BY <1>26 DEF vars, tiers, reading, inval, budget
<1>27. QED
  BY <1>1, <1>2, <1>3, <1>4, <1>5, <1>6, <1>7, <1>8, <1>9, <1>10, <1>11,
     <1>12, <1>13, <1>14, <1>15, <1>16, <1>17, <1>18, <1>19, <1>20, <1>21,
     <1>22, <1>23, <1>24, <1>25, <1>26
     DEF Next, ReadStep, ClearStep

\* Floor: an invalidation covers no more than the sheet holds.
LEMMA FloorStep ==
    ASSUME TypeOK, TypeOK', FloorInv, [Next]_vars
    PROVE  FloorInv'
<1> USE RowsCacheAssumption DEF TypeOK, Invalidators, FloorInv
<1>1. ASSUME NEW r \in Readers, Begin(r) PROVE FloorInv'
  BY <1>1 DEF Begin, Goto, tiers, reading, inval, budget
<1>2. ASSUME NEW r \in Readers, GiveUpOnStored(r) PROVE FloorInv'
  BY <1>2 DEF GiveUpOnStored, Goto, tiers, reading, inval, budget
<1>3. ASSUME NEW r \in Readers, ReadState(r) PROVE FloorInv'
  BY <1>3 DEF ReadState, Goto, tiers, reading, inval, budget
<1>4. ASSUME NEW r \in Readers, CleanWithoutDrive(r) PROVE FloorInv'
  BY <1>4 DEF CleanWithoutDrive, Goto, tiers, reading, inval, budget
<1>5. ASSUME NEW r \in Readers, AskDrive(r) PROVE FloorInv'
  BY <1>5 DEF AskDrive, Goto, tiers, reading, inval, budget
<1>6. ASSUME NEW r \in Readers, CommitChecked(r) PROVE FloorInv'
  BY <1>6 DEF CommitChecked, Goto, tiers, reading, inval, budget
<1>7. ASSUME NEW r \in Readers, SelectRows(r) PROVE FloorInv'
  BY <1>7 DEF SelectRows, Goto, tiers, reading, inval, budget
<1>8. ASSUME NEW r \in Readers, ReadStamp(r) PROVE FloorInv'
  BY <1>8 DEF ReadStamp, Goto, tiers, reading, inval, budget
<1>9. ASSUME NEW r \in Readers, ScanHeaders(r) PROVE FloorInv'
  BY <1>9 DEF ScanHeaders, Goto, tiers, reading, inval, budget
<1>10. ASSUME NEW r \in Readers, ScanRows(r) PROVE FloorInv'
  BY <1>10 DEF ScanRows, Goto, tiers, reading, inval, budget
<1>11. ASSUME NEW r \in Readers, ScanFails(r) PROVE FloorInv'
  BY <1>11 DEF ScanFails, Goto, tiers, reading, inval, budget
<1>12. ASSUME NEW r \in Readers, StoreTab(r) PROVE FloorInv'
  BY <1>12 DEF StoreTab, Goto, NoteRace, tiers, reading, inval, budget
<1>13. ASSUME NEW r \in Readers, FillRedis(r) PROVE FloorInv'
  BY <1>13 DEF FillRedis, Goto, NoteRace, tiers, reading, inval, budget
<1>14. ASSUME NEW i \in Invalidators, DeleteHot(i) PROVE FloorInv'
  BY <1>14 DEF DeleteHot, tiers, reading, inval, budget
<1>15. ASSUME NEW i \in Invalidators, DeleteHotFails(i) PROVE FloorInv'
  BY <1>15 DEF DeleteHotFails, tiers, reading, inval, budget
<1>16. ASSUME NEW i \in Invalidators, MarkDirty(i) PROVE FloorInv'
  BY <1>16 DEF MarkDirty, tiers, reading, inval, budget
<1>17. ASSUME NEW i \in Invalidators, MarkDirtyFails(i) PROVE FloorInv'
  BY <1>17 DEF MarkDirtyFails, tiers, reading, inval, budget
<1>18. CASE EditSheet
  BY <1>18 DEF EditSheet, NewVersion, tiers, reading, inval, budget
<1>19. CASE WorkerWrites
  BY <1>19 DEF WorkerWrites, NewVersion, tiers, reading, inval, budget
<1>20. CASE NoticeArrives
  BY <1>20 DEF NoticeArrives, tiers, reading, inval, budget
<1>21. CASE NoticeLost
  BY <1>21 DEF NoticeLost, tiers, reading, inval, budget
<1>22. CASE HotExpires
  BY <1>22 DEF HotExpires, tiers, reading, inval, budget
<1>23. CASE GraceExpires
  BY <1>23 DEF GraceExpires, tiers, reading, inval, budget
<1>24. CASE Watch
  BY <1>24 DEF Watch, tiers, reading, inval, budget
<1>25. CASE WatchEnds
  BY <1>25 DEF WatchEnds, tiers, reading, inval, budget
<1>26. CASE UNCHANGED vars
  BY <1>26 DEF vars, tiers, reading, inval, budget
<1>27. QED
  BY <1>1, <1>2, <1>3, <1>4, <1>5, <1>6, <1>7, <1>8, <1>9, <1>10, <1>11,
     <1>12, <1>13, <1>14, <1>15, <1>16, <1>17, <1>18, <1>19, <1>20, <1>21,
     <1>22, <1>23, <1>24, <1>25, <1>26
     DEF Next, ReadStep, ClearStep

\* Freshness: only a fill that overlaps an invalidation brings old data back.
LEMMA FreshStep ==
    ASSUME TypeOK, TypeOK', FloorInv, FreshInv, [Next]_vars
    PROVE  FreshInv'
<1> USE RowsCacheAssumption DEF TypeOK, Matrix, Stamps, Tab, SyncState, Invalidators, FloorInv, FreshInv, AtLeast, Loaded, HasMatrix
<1>1. ASSUME NEW r \in Readers, Begin(r) PROVE FreshInv'
  BY <1>1 DEF Begin, Goto, tiers, reading, inval, budget
<1>2. ASSUME NEW r \in Readers, GiveUpOnStored(r) PROVE FreshInv'
  BY <1>2 DEF GiveUpOnStored, Goto, tiers, reading, inval, budget
<1>3. ASSUME NEW r \in Readers, ReadState(r) PROVE FreshInv'
  BY <1>3 DEF ReadState, Goto, tiers, reading, inval, budget
<1>4. ASSUME NEW r \in Readers, CleanWithoutDrive(r) PROVE FreshInv'
  BY <1>4 DEF CleanWithoutDrive, Goto, tiers, reading, inval, budget
<1>5. ASSUME NEW r \in Readers, AskDrive(r) PROVE FreshInv'
  BY <1>5 DEF AskDrive, Goto, tiers, reading, inval, budget
<1>6. ASSUME NEW r \in Readers, CommitChecked(r) PROVE FreshInv'
  BY <1>6 DEF CommitChecked, Goto, tiers, reading, inval, budget
<1>7. ASSUME NEW r \in Readers, SelectRows(r) PROVE FreshInv'
  BY <1>7 DEF SelectRows, Goto, tiers, reading, inval, budget
<1>8. ASSUME NEW r \in Readers, ReadStamp(r) PROVE FreshInv'
  BY <1>8 DEF ReadStamp, Goto, tiers, reading, inval, budget
<1>9. ASSUME NEW r \in Readers, ScanHeaders(r) PROVE FreshInv'
  BY <1>9 DEF ScanHeaders, Goto, tiers, reading, inval, budget
<1>10. ASSUME NEW r \in Readers, ScanRows(r) PROVE FreshInv'
  BY <1>10 DEF ScanRows, Goto, tiers, reading, inval, budget
<1>11. ASSUME NEW r \in Readers, ScanFails(r) PROVE FreshInv'
  BY <1>11 DEF ScanFails, Goto, tiers, reading, inval, budget
<1>12. ASSUME NEW r \in Readers, StoreTab(r) PROVE FreshInv'
  BY <1>12 DEF StoreTab, Goto, NoteRace, tiers, reading, inval, budget
<1>13. ASSUME NEW r \in Readers, FillRedis(r) PROVE FreshInv'
  BY <1>13 DEF FillRedis, Goto, NoteRace, tiers, reading, inval, budget
<1>14. ASSUME NEW i \in Invalidators, DeleteHot(i) PROVE FreshInv'
  BY <1>14 DEF DeleteHot, tiers, reading, inval, budget
<1>15. ASSUME NEW i \in Invalidators, DeleteHotFails(i) PROVE FreshInv'
  <2>1. /\ clearing' = [clearing EXCEPT ![i] = "mark"] /\ covers' = covers
        /\ UNCHANGED <<hot, stored, floor, raced, reader, state, matrix, began>>
    BY <1>15 DEF DeleteHotFails, tiers, reading, inval, budget
  <2>2. clearing[i] = "delete" /\ floor \in Nat
    BY <1>15 DEF DeleteHotFails, tiers, reading, inval, budget
  <2>3. covers[i] = 0
    BY <1>15 DEF DeleteHotFails, tiers, reading, inval, budget
  <2>4. QED
    BY <2>1, <2>2, <2>3
<1>16. ASSUME NEW i \in Invalidators, MarkDirty(i) PROVE FreshInv'
  BY <1>16 DEF MarkDirty, tiers, reading, inval, budget
<1>17. ASSUME NEW i \in Invalidators, MarkDirtyFails(i) PROVE FreshInv'
  BY <1>17 DEF MarkDirtyFails, tiers, reading, inval, budget
<1>18. CASE EditSheet
  BY <1>18 DEF EditSheet, NewVersion, tiers, reading, inval, budget
<1>19. CASE WorkerWrites
  BY <1>19 DEF WorkerWrites, NewVersion, tiers, reading, inval, budget
<1>20. CASE NoticeArrives
  BY <1>20 DEF NoticeArrives, tiers, reading, inval, budget
<1>21. CASE NoticeLost
  BY <1>21 DEF NoticeLost, tiers, reading, inval, budget
<1>22. CASE HotExpires
  BY <1>22 DEF HotExpires, tiers, reading, inval, budget
<1>23. CASE GraceExpires
  BY <1>23 DEF GraceExpires, tiers, reading, inval, budget
<1>24. CASE Watch
  BY <1>24 DEF Watch, tiers, reading, inval, budget
<1>25. CASE WatchEnds
  BY <1>25 DEF WatchEnds, tiers, reading, inval, budget
<1>26. CASE UNCHANGED vars
  BY <1>26 DEF vars, tiers, reading, inval, budget
<1>27. QED
  BY <1>1, <1>2, <1>3, <1>4, <1>5, <1>6, <1>7, <1>8, <1>9, <1>10, <1>11,
     <1>12, <1>13, <1>14, <1>15, <1>16, <1>17, <1>18, <1>19, <1>20, <1>21,
     <1>22, <1>23, <1>24, <1>25, <1>26
     DEF Next, ReadStep, ClearStep

-----------------------------------------------------------------------------
\* One step keeps the whole invariant.
LEMMA Inductive == IInv /\ [Next]_vars => IInv'
<1> SUFFICES ASSUME IInv, [Next]_vars PROVE IInv'
  OBVIOUS
<1>1. TypeOK'
  BY TypeStep DEF IInv
<1>2. StampInv'
  BY <1>1, StampStep DEF IInv
<1>3. FloorInv'
  BY <1>1, FloorStep DEF IInv
<1>4. FreshInv'
  BY <1>1, FreshStep DEF IInv
<1>5. QED
  BY <1>1, <1>2, <1>3, <1>4 DEF IInv

\* The invariant holds in every reachable state.
THEOREM Invariance == Spec => []IInv
<1>1. QED
  BY InitEstablishes, Inductive, PTL DEF Spec

\* The cache's state is well typed, and a reader never works on a sync state
\* or a matrix it does not have.
THEOREM TypeCorrect == Spec => []TypeOK
<1>1. IInv => TypeOK
  BY DEF IInv
<1>2. QED
  BY <1>1, Invariance, PTL

\* A stored stamp that equals Drive's modifiedTime proves the stored rows and
\* headers current, with any number of readers refilling and edits landing
\* anywhere in their scans.
THEOREM StampCorrect == Spec => []StampSound
<1>1. IInv => StampSound
  <2> SUFFICES ASSUME IInv, stored # None, stored.stamp = sheet
               PROVE  AtLeast(stored, sheet)
    BY DEF StampSound
  <2>1. stored.stamp # None
    BY RowsCacheAssumption DEF IInv, TypeOK, RowsCacheAssumption
  <2>2. QED
    BY <2>1 DEF IInv, StampInv
<1>2. QED
  BY <1>1, Invariance, PTL

\* Without a fill by a read that overlapped an invalidation, nothing older than
\* the last whole invalidation is served or servable.
THEOREM StaleOnlyByOverlap == Spec => []StaleNeedsOverlap
<1>1. IInv => StaleNeedsOverlap
  BY DEF IInv, FreshInv, StaleNeedsOverlap, HasMatrix
<1>2. QED
  BY <1>1, Invariance, PTL
=============================================================================
