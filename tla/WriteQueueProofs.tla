-------------------------- MODULE WriteQueueProofs --------------------------
(***************************************************************************)
(* What WriteQueue guarantees for every set of jobs, every MAX_ATTEMPTS    *)
(* and every number of crashes and Redis faults.                           *)
(***************************************************************************)
EXTENDS WriteQueue, SequenceTheorems, TLAPS

-----------------------------------------------------------------------------
(* Envelopes in lists *)

\* RPUSH adds exactly its envelope.
LEMMA AppendEnvelope ==
    ASSUME NEW s \in Seq(Envelope), NEW e \in Envelope
    PROVE  /\ Append(s, e) \in Seq(Envelope)
           /\ Append(s, e) # <<>>
           /\ Append(s, e)[Len(Append(s, e))] = e
           /\ ToSet(Append(s, e)) = ToSet(s) \cup {e}
           /\ Ids(Append(s, e)) = Ids(s) \cup {e.id}
           /\ Distinct(s) /\ e.id \notin Ids(s) => Distinct(Append(s, e))
<1> DEFINE t == Append(s, e)
<1>1. /\ t \in Seq(Envelope)
      /\ Len(t) = Len(s) + 1
      /\ t[Len(s) + 1] = e
      /\ \A i \in 1..Len(s) : t[i] = s[i]
  BY AppendProperties
<1>2. DOMAIN t = 1..(Len(s) + 1) /\ DOMAIN s = 1..Len(s) /\ Len(s) \in Nat
  BY <1>1, LenProperties
<1>3. ToSet(t) = ToSet(s) \cup {e}
  BY <1>1, <1>2 DEF ToSet
<1>4. Ids(t) = Ids(s) \cup {e.id}
  BY <1>3 DEF Ids
<1>5. ASSUME Distinct(s), e.id \notin Ids(s)
      PROVE  Distinct(t)
  <2>1. \A i \in 1..Len(s) : s[i].id # e.id
    BY <1>2, <1>5 DEF Ids, ToSet
  <2> QED
    BY <2>1, <1>1, <1>2, <1>5 DEF Distinct
<1>6. t # <<>>
  BY <1>1, <1>2
<1> QED
  BY <1>1, <1>3, <1>4, <1>5, <1>6

\* LPOP (and BLMOVE's source side) removes exactly the first envelope.
LEMMA PopEnvelope ==
    ASSUME NEW s \in Seq(Envelope), s # <<>>
    PROVE  /\ Head(s) \in Envelope
           /\ Tail(s) \in Seq(Envelope)
           /\ ToSet(s) = ToSet(Tail(s)) \cup {Head(s)}
           /\ Ids(s) = Ids(Tail(s)) \cup {Head(s).id}
           /\ Distinct(s) => Distinct(Tail(s)) /\ Head(s).id \notin Ids(Tail(s))
<1> DEFINE t == Tail(s)
<1>1. /\ t \in Seq(Envelope) /\ Len(t) = Len(s) - 1
      /\ \A i \in 1..Len(t) : t[i] = s[i + 1]
      /\ Head(s) = s[1] /\ Head(s) \in Envelope
  BY HeadTailProperties
<1>2. /\ Len(s) \in Nat \ {0} /\ DOMAIN s = 1..Len(s)
      /\ Len(t) \in Nat /\ DOMAIN t = 1..Len(t)
  BY <1>1, LenProperties, EmptySeq
<1>3. ToSet(s) = ToSet(t) \cup {Head(s)}
  <2>1. ASSUME NEW i \in 1..Len(s) PROVE s[i] \in ToSet(t) \cup {Head(s)}
    <3>1. CASE i = 1
      BY <3>1, <1>1
    <3>2. CASE i # 1
      <4>1. i - 1 \in 1..Len(t) /\ t[i - 1] = s[i]
        BY <3>2, <1>1, <1>2
      <4> QED BY <4>1, <1>2 DEF ToSet
    <3> QED BY <3>1, <3>2
  <2>2. ASSUME NEW i \in 1..Len(t) PROVE t[i] \in ToSet(s)
    BY <1>1, <1>2 DEF ToSet
  <2>3. Head(s) \in ToSet(s)
    BY <1>1, <1>2 DEF ToSet
  <2> QED BY <2>1, <2>2, <2>3, <1>2 DEF ToSet
<1>4. Ids(s) = Ids(t) \cup {Head(s).id}
  BY <1>3 DEF Ids
<1>5. ASSUME Distinct(s) PROVE Distinct(t) /\ Head(s).id \notin Ids(t)
  <2>1. \A i \in 1..Len(t) : i + 1 \in 1..Len(s) /\ i + 1 # 1
    BY <1>1, <1>2
  <2>2. Distinct(t)
    BY <2>1, <1>1, <1>2, <1>5 DEF Distinct
  <2>3. \A i \in 1..Len(t) : t[i].id # Head(s).id
    BY <2>1, <1>1, <1>2, <1>5 DEF Distinct
  <2> QED BY <2>2, <2>3, <1>2 DEF Ids, ToSet
<1> QED BY <1>1, <1>3, <1>4, <1>5

\* LREM 1 of a value that is in the list removes exactly that envelope.
LEMMA RemoveEnvelope ==
    ASSUME NEW s \in Seq(Envelope), NEW e \in ToSet(s), Distinct(s)
    PROVE  /\ RemoveFirst(s, e) \in Seq(Envelope)
           /\ ToSet(RemoveFirst(s, e)) \subseteq ToSet(s)
           /\ Ids(RemoveFirst(s, e)) = Ids(s) \ {e.id}
           /\ Distinct(RemoveFirst(s, e))
<1>1. Len(s) \in Nat /\ DOMAIN s = 1..Len(s)
  BY LenProperties
<1>2. PICK k \in 1..Len(s) : s[k] = e
  BY <1>1 DEF ToSet
<1>3. { i \in 1..Len(s) : s[i] = e } = {k}
  BY <1>2 DEF Distinct
<1>4. RemoveFirst(s, e) = RemoveAt(s, k)
  <2>1. RemoveFirst(s, e) = RemoveAt(s, Min({k}))
    BY <1>2, <1>3 DEF RemoveFirst, SelectInSeq
  <2>2. Min({k}) = k
    BY <1>1, <1>2 DEF Min
  <2> QED BY <2>1, <2>2
<1> DEFINE a == SubSeq(s, 1, k - 1)
           b == SubSeq(s, k + 1, Len(s))
           t == a \o b
<1>5. /\ a \in Seq(Envelope) /\ Len(a) = k - 1
      /\ \A i \in 1..(k - 1) : a[i] = s[i]
  BY <1>1, <1>2, SubSeqProperties
<1>6. /\ b \in Seq(Envelope) /\ Len(b) = Len(s) - k
      /\ \A i \in 1..(Len(s) - k) : b[i] = s[k + i]
  <2> DEFINE n == k + 1
  <2>1. n \in Int /\ Len(s) \in Int /\ \A i \in n..Len(s) : s[i] \in Envelope
    BY <1>1, <1>2, ElementOfSeq
  <2>2. /\ b \in Seq(Envelope)
        /\ Len(b) = IF n <= Len(s) THEN Len(s) - n + 1 ELSE 0
        /\ \A i \in 1..(Len(s) - n + 1) : b[i] = s[n + i - 1]
    <3> HIDE DEF n
    <3> QED BY <2>1, SubSeqProperties DEF n
  <2>3. Len(s) - n + 1 = Len(s) - k /\ \A i \in 1..(Len(s) - k) : n + i - 1 = k + i
    BY <1>1, <1>2
  <2>4. (IF n <= Len(s) THEN Len(s) - n + 1 ELSE 0) = Len(s) - k
    <3>1. CASE k = Len(s)
      BY <3>1, <1>1
    <3>2. CASE k # Len(s)
      <4>1. n <= Len(s)
        <5>1. k \in Int /\ Len(s) \in Int /\ k <= Len(s)
          BY <1>1
        <5> HIDE DEF a, b, t
        <5> QED BY <5>1, <3>2
      <4> QED BY <4>1, <2>3
    <3> QED BY <3>1, <3>2
  <2> HIDE DEF n, b
  <2> QED BY <2>2, <2>3, <2>4
<1>7. /\ t \in Seq(Envelope) /\ Len(t) = Len(s) - 1
      /\ \A i \in 1..(Len(s) - 1) : t[i] = IF i < k THEN s[i] ELSE s[i + 1]
  <2> HIDE DEF a, b
  <2>1. /\ t \in Seq(Envelope) /\ Len(t) = Len(a) + Len(b)
        /\ \A i \in 1..(Len(a) + Len(b)) :
             t[i] = IF i <= Len(a) THEN a[i] ELSE b[i - Len(a)]
    BY <1>5, <1>6, ConcatProperties
  <2> HIDE DEF t
  <2>2. Len(a) + Len(b) = Len(s) - 1
    BY <1>1, <1>2, <1>5, <1>6
  <2>3. ASSUME NEW i \in 1..(Len(s) - 1), i < k
        PROVE  t[i] = s[i]
    BY <1>1, <1>2, <1>5, <2>1, <2>2, <2>3
  <2>4. ASSUME NEW i \in 1..(Len(s) - 1), i >= k
        PROVE  t[i] = s[i + 1]
    <3>1. /\ i - (k - 1) \in 1..(Len(s) - k) /\ k + (i - (k - 1)) = i + 1
          /\ ~(i <= k - 1)
      BY <1>1, <1>2, <2>4
    <3>2. t[i] = b[i - (k - 1)]
      BY <3>1, <2>1, <2>2, <1>5
    <3> QED BY <3>1, <3>2, <1>6
  <2>5. ASSUME NEW i \in 1..(Len(s) - 1)
        PROVE  t[i] = IF i < k THEN s[i] ELSE s[i + 1]
    BY <2>3, <2>4, <1>1, <1>2
  <2> QED BY <2>1, <2>2, <2>5
<1>8. DOMAIN t = 1..(Len(s) - 1)
  BY <1>7, LenProperties
<1> HIDE DEF t
<1>9. RemoveFirst(s, e) = t
  BY <1>4 DEF RemoveAt, t
<1>10. ASSUME NEW i \in 1..(Len(s) - 1)
       PROVE  \E m \in 1..Len(s) : m # k /\ t[i] = s[m]
  BY <1>1, <1>2, <1>7
<1>11. ASSUME NEW m \in 1..Len(s), m # k
       PROVE  \E i \in 1..(Len(s) - 1) : t[i] = s[m]
  <2>1. CASE m < k
    BY <2>1, <1>1, <1>2, <1>7
  <2>2. CASE m > k
    <3>1. m - 1 \in 1..(Len(s) - 1) /\ t[m - 1] = s[m]
      BY <2>2, <1>1, <1>2, <1>7
    <3> QED BY <3>1
  <2> QED BY <1>1, <1>2, <1>11, <2>1, <2>2
<1>12. \A x : x \in ToSet(t) <=> \E m \in 1..Len(s) : m # k /\ x = s[m]
  <2>1. \A x : x \in ToSet(t) <=> \E i \in 1..(Len(s) - 1) : x = t[i]
    BY <1>8 DEF ToSet
  <2>2. \A i \in 1..(Len(s) - 1) : \E m \in 1..Len(s) : m # k /\ t[i] = s[m]
    BY <1>10
  <2>3. \A m \in 1..Len(s) : m # k => \E i \in 1..(Len(s) - 1) : t[i] = s[m]
    BY <1>11
  <2> SUFFICES ASSUME NEW x
               PROVE  x \in ToSet(t) <=> \E m \in 1..Len(s) : m # k /\ x = s[m]
    OBVIOUS
  <2>4. ASSUME x \in ToSet(t)
        PROVE  \E m \in 1..Len(s) : m # k /\ x = s[m]
    <3>1. PICK i \in 1..(Len(s) - 1) : x = t[i]
      BY <2>1, <2>4
    <3> QED BY <3>1, <2>2
  <2>5. ASSUME NEW m \in 1..Len(s), m # k, x = s[m]
        PROVE  x \in ToSet(t)
    <3>1. PICK i \in 1..(Len(s) - 1) : t[i] = s[m]
      BY <2>3, <2>5
    <3> QED BY <3>1, <2>1, <2>5
  <2> QED BY <2>4, <2>5
<1>13. Ids(t) = Ids(s) \ {e.id}
  <2>1. \A x : x \in ToSet(s) <=> \E m \in 1..Len(s) : x = s[m]
    BY <1>1 DEF ToSet
  <2>2. \A m \in 1..Len(s) : m # k => s[m].id # e.id
    BY <1>2 DEF Distinct
  <2>3. \A x : x \in ToSet(t) <=> x \in ToSet(s) /\ x.id # e.id
    BY <2>1, <2>2, <1>2, <1>12
  <2> QED BY <2>3 DEF Ids
<1>14. Distinct(t)
  <2> SUFFICES ASSUME NEW i \in 1..Len(t), NEW n \in 1..Len(t), t[i].id = t[n].id
               PROVE  i = n
    BY DEF Distinct
  <2> DEFINE f(x) == IF x < k THEN x ELSE x + 1
  <2>1. f(i) \in 1..Len(s) /\ f(n) \in 1..Len(s) /\ t[i] = s[f(i)] /\ t[n] = s[f(n)]
    BY <1>1, <1>2, <1>7
  <2>2. f(i) = f(n)
    BY <2>1 DEF Distinct
  <2> QED BY <2>2, <1>1, <1>2, <1>7
<1>15. ToSet(t) \subseteq ToSet(s)
  <2>1. \A m \in 1..Len(s) : s[m] \in ToSet(s)
    BY <1>1 DEF ToSet
  <2> QED BY <2>1, <1>12
<1> QED BY <1>7, <1>9, <1>13, <1>14, <1>15

-----------------------------------------------------------------------------
(* Type correctness *)

Empty == {"down", "recovering", "waiting"}

\* The worker holds an envelope exactly where the code has one in scope.
HandOK == IF worker \in Empty THEN hand = NoEnvelope ELSE hand \in Envelope

TypeInv == TypeOK /\ HandOK

\* The producer keeps the types.
LEMMA ProduceType == TypeInv /\ Produce => TypeInv'
<1> SUFFICES ASSUME TypeInv, NEW j \in Jobs,
                    Push(j) \/ SetInitialState(j) \/ SetInitialStateFails(j)
             PROVE  TypeInv'
  BY DEF Produce
<1> USE DEF TypeInv, TypeOK, HandOK, lists, effects, history, budget
<1>1. CASE Push(j)
  <2>1. [id |-> j, attempt |-> 0] \in Envelope
    BY DEF Envelope
  <2>2. queue' \in Seq(Envelope)
    BY <1>1, <2>1, AppendEnvelope DEF Push
  <2>3. pushOrder' \in Seq(Jobs)
    BY <1>1, AppendProperties DEF Push
  <2> QED BY <1>1, <2>2, <2>3 DEF Push
<1>2. CASE SetInitialState(j)
  BY <1>2 DEF SetInitialState, JobState, Statuses
<1>3. CASE SetInitialStateFails(j)
  BY <1>3, WriteQueueAssumption DEF SetInitialStateFails
<1> QED BY <1>1, <1>2, <1>3

\* So does a put back of recovery, from either caller.
LEMMA PutBackType ==
    ASSUME TypeInv, PutBack
    PROVE  /\ queue' \in Seq(Envelope) /\ deadLetter' \in Seq(Envelope)
           /\ Retried(hand) \in Envelope
<1>1. hand \in Envelope
  BY DEF TypeInv, HandOK, PutBack, Empty
<1>2. Retried(hand) \in Envelope
  BY <1>1 DEF Retried, Envelope
<1> QED BY <1>2, AppendEnvelope DEF PutBack, TypeInv, TypeOK

\* So do the worker's start and recovery.
LEMMA RecoverType == TypeInv /\ (Start \/ Recover) => TypeInv'
<1> SUFFICES ASSUME TypeInv, Start \/ Recover PROVE TypeInv'
  OBVIOUS
<1> USE DEF TypeInv, TypeOK, HandOK, lists, effects, history, budget, Empty
<1>1. CASE Start
  BY <1>1 DEF Start, Locations
<1>2. CASE RecoverDone
  BY <1>2 DEF RecoverDone, Locations
<1>3. CASE RecoverPop
  BY <1>3, PopEnvelope DEF RecoverPop, Locations
<1>4. CASE RecoverPut
  <2>1. PutBack
    BY <1>4 DEF RecoverPut
  <2>2. worker' \in {"requeued", "buried"}
    BY <1>4 DEF RecoverPut
  <2> QED BY <1>4, <2>1, <2>2, PutBackType DEF RecoverPut, Locations, StateUpdate
<1>5. CASE NotifyBuried
  <2>1. hand.id \in Jobs
    BY <1>5 DEF NotifyBuried, Envelope
  <2> QED BY <1>5, <2>1 DEF NotifyBuried, Locations
<1> QED BY <1>1, <1>2, <1>3, <1>4, <1>5 DEF Recover

\* Where the worker goes after a state update it may be.
LEMMA AfterStateUpdateType ==
    ASSUME TypeInv, worker \in DOMAIN StateUpdate, AfterStateUpdate
    PROVE  /\ worker' \in Locations
           /\ IF worker' \in Empty THEN hand' = NoEnvelope ELSE hand' \in Envelope
           /\ hand' \in Envelope \cup {NoEnvelope}
           /\ seen' = NotRead
           /\ hand.id \in Jobs
           /\ StateUpdate[worker].status \in Statuses
<1>1. worker \in {"picked", "returned", "raised", "requeued", "buried"}
  BY DEF StateUpdate
<1>2. hand \in Envelope
  BY <1>1 DEF TypeInv, HandOK, Empty
<1>3. worker' \in {"executing", "clearing", "waiting", "recovering", "notifying"}
  BY <1>1 DEF AfterStateUpdate, StateUpdate
<1>4. StateUpdate[worker].status \in Statuses
  BY <1>1 DEF StateUpdate, Statuses
<1> QED BY <1>2, <1>3, <1>4 DEF AfterStateUpdate, Locations, Empty, Envelope

\* _set_job_state keeps the types.
LEMMA UpdateStateType == TypeInv /\ UpdateState => TypeInv'
<1> SUFFICES ASSUME TypeInv, UpdateState PROVE TypeInv'
  OBVIOUS
<1> USE DEF lists, effects, history, budget
<1>1. CASE GetJobState
  <2>1. hand.id \in Jobs
    BY <1>1 DEF GetJobState, TypeInv, HandOK, Empty, StateUpdate, Envelope
  <2> QED BY <1>1, <2>1 DEF GetJobState, TypeInv, TypeOK, HandOK
<1>2. CASE SetJobState
  <2>1. AfterStateUpdate /\ worker \in DOMAIN StateUpdate
    BY <1>2 DEF SetJobState
  <2>2. [seen EXCEPT !.status = StateUpdate[worker].status] \in JobState
    BY <1>2, <2>1, AfterStateUpdateType DEF SetJobState, TypeInv, TypeOK, JobState
  <2>3. jobState' \in [Jobs -> JobState]
    BY <1>2, <2>1, <2>2, AfterStateUpdateType DEF SetJobState, TypeInv, TypeOK
  <2>4. HandOK'
    BY <2>1, AfterStateUpdateType DEF HandOK
  <2> QED BY <1>2, <2>1, <2>3, <2>4, AfterStateUpdateType
          DEF SetJobState, TypeInv, TypeOK
<1> QED BY <1>1, <1>2 DEF UpdateState

\* BLMOVE keeps the lists' types.
LEMMA BlmoveType ==
    ASSUME TypeInv, Blmove
    PROVE  /\ Head(queue) \in Envelope
           /\ queue' \in Seq(Envelope) /\ processing' \in Seq(Envelope)
           /\ pickups' \in [Jobs -> Nat] /\ firstPicks' \in Seq(Jobs)
<1>1. Head(queue) \in Envelope /\ queue' \in Seq(Envelope)
  BY PopEnvelope DEF Blmove, TypeInv, TypeOK
<1>2. processing' \in Seq(Envelope)
  BY <1>1, AppendEnvelope DEF Blmove, TypeInv, TypeOK
<1>3. Head(queue).id \in Jobs
  BY <1>1 DEF Envelope
<1>4. Append(firstPicks, Head(queue).id) \in Seq(Jobs)
  BY <1>3, AppendProperties DEF TypeInv, TypeOK
<1> QED BY <1>1, <1>2, <1>3, <1>4, SMTT(30) DEF Blmove, TypeInv, TypeOK

\* The main loop keeps the types.
LEMMA WorkType ==
    TypeInv /\ Distinct(processing) /\ HeldJobIsBacked /\ Work => TypeInv'
<1> SUFFICES ASSUME TypeInv, Distinct(processing), HeldJobIsBacked, Work
             PROVE  TypeInv'
  OBVIOUS
<1> USE DEF lists, effects, history, budget
<1>1. CASE Pick
  <2>1. Blmove BY <1>1 DEF Pick
  <2> QED BY <1>1, <2>1, BlmoveType
          DEF Pick, TypeInv, TypeOK, HandOK, Empty, Locations, StateUpdate
<1>2. CASE Execute
  <2>1. hand.id \in Jobs
    BY <1>2 DEF Execute, TypeInv, HandOK, Empty, Envelope
  <2>2. sheet' \in [Cells -> Jobs \cup {NoJob}]
    BY <1>2, <2>1 DEF Execute, TypeInv, TypeOK
  <2> QED BY <1>2, <2>1, <2>2
          DEF Execute, TypeInv, TypeOK, HandOK, Empty, Locations
<1>3. CASE Report
  <2>1. hand.id \in Jobs
    BY <1>3 DEF Report, TypeInv, HandOK, Empty, Envelope
  <2> DEFINE s == IF resultOk THEN "completed" ELSE "failed"
  <2>2. /\ outcome' = [outcome EXCEPT ![hand.id] = s]
        /\ told' = [told EXCEPT ![hand.id] = @ \cup {s}]
        /\ s \in {"completed", "failed"}
    BY <1>3 DEF Report
  <2> HIDE DEF s
  <2>3. outcome' \in [Jobs -> {"none", "completed", "failed"}]
    BY <2>1, <2>2 DEF TypeInv, TypeOK
  <2>4. told' \in [Jobs -> SUBSET {"completed", "failed"}]
    BY <2>1, <2>2 DEF TypeInv, TypeOK
  <2> QED BY <1>3, <2>3, <2>4
          DEF Report, TypeInv, TypeOK, HandOK, Empty, Locations, StateUpdate
<1>4. CASE Clear
  <2>1. hand \in ToSet(processing)
    BY <1>4 DEF Clear, HeldJobIsBacked, Holding
  <2>2. processing' \in Seq(Envelope)
    BY <1>4, <2>1, RemoveEnvelope DEF Clear, TypeInv, TypeOK
  <2>3. hand.id \in Jobs
    BY <1>4 DEF Clear, TypeInv, HandOK, Empty, Envelope
  <2> QED BY <1>4, <2>2, <2>3
          DEF Clear, TypeInv, TypeOK, HandOK, Empty, Locations
<1> QED BY <1>1, <1>2, <1>3, <1>4 DEF Work

\* Faults and crashes keep the types.
LEMMA FaultType == TypeInv /\ (Fault \/ Crash) => TypeInv'
<1> SUFFICES ASSUME TypeInv, Fault \/ Crash PROVE TypeInv'
  OBVIOUS
<1> USE DEF lists, effects, history, budget
<1>0. /\ faults < MaxFaults => faults + 1 \in 0..MaxFaults
      /\ crashes < MaxCrashes => crashes + 1 \in 0..MaxCrashes
  BY WriteQueueAssumption DEF TypeInv, TypeOK
<1>1. CASE RecoverPopFails
  <2>1. processing' \in Seq(Envelope) /\ dropped' \subseteq Jobs
    <3>1. processing # <<>> => /\ Tail(processing) \in Seq(Envelope)
                               /\ Head(processing) \in Envelope
      BY PopEnvelope DEF TypeInv, TypeOK
    <3>2. processing # <<>> => Head(processing).id \in Jobs
      BY <3>1 DEF Envelope
    <3> QED BY <1>1, <3>1, <3>2 DEF RecoverPopFails, TypeInv, TypeOK
  <2> QED BY <1>0, <1>1, <2>1
          DEF RecoverPopFails, AbandonRecovery, TypeInv, TypeOK, HandOK, Empty, Locations
<1>2. CASE RecoverPutFails
  <2>1. hand.id \in Jobs
    BY <1>2 DEF RecoverPutFails, TypeInv, HandOK, Empty, Envelope
  <2>2. /\ queue' \in Seq(Envelope) /\ deadLetter' \in Seq(Envelope)
        /\ dropped' \subseteq Jobs
    BY <1>2, <2>1, PutBackType DEF RecoverPutFails, TypeInv, TypeOK
  <2> QED BY <1>0, <1>2, <2>2
          DEF RecoverPutFails, AbandonRecovery, TypeInv, TypeOK, HandOK, Empty, Locations
<1>3. CASE SetJobStateFails
  <2>1. AfterStateUpdate /\ worker \in DOMAIN StateUpdate
    BY <1>3 DEF SetJobStateFails
  <2>2. HandOK'
    BY <2>1, AfterStateUpdateType DEF HandOK
  <2> QED BY <1>0, <1>3, <2>1, <2>2, AfterStateUpdateType
          DEF SetJobStateFails, TypeInv, TypeOK
<1>4. CASE PickReplyLost
  <2>1. Blmove BY <1>4 DEF PickReplyLost
  <2> QED BY <1>0, <1>4, <2>1, BlmoveType DEF PickReplyLost, TypeInv, TypeOK, HandOK
<1>5. CASE ExecuteRaises
  BY <1>0, <1>5
     DEF ExecuteRaises, TypeInv, TypeOK, HandOK, Empty, Locations, StateUpdate
<1>6. CASE ClearFails
  BY <1>0, <1>6 DEF ClearFails, TypeInv, TypeOK, HandOK, Empty, Locations
<1>7. CASE Crash
  <2>1. worker = "moving" => hand.id \in Jobs
    BY DEF TypeInv, HandOK, Empty, Envelope
  <2> QED BY <1>0, <1>7, <2>1 DEF Crash, TypeInv, TypeOK, HandOK, Empty, Locations
<1> QED BY <1>1, <1>2, <1>3, <1>4, <1>5, <1>6, <1>7 DEF Fault

-----------------------------------------------------------------------------
(* Every enqueued job is in exactly one place *)

\* A job that was not enqueued is nowhere.
IdleNowhere == (Jobs \ Enqueued) \cap (Live \cup Gone) = {}

PlaceInv == IdleNowhere /\ NoJobLost /\ NoJobTwice /\ HeldJobIsBacked

\* What the placement of jobs depends on.
placement == <<lists, producer, InRecoverysHand, cleared, dropped>>

\* The steps that move no envelope.
LEMMA SamePlaces ==
    ASSUME PlaceInv, UNCHANGED placement, HeldJobIsBacked'
    PROVE  PlaceInv'
BY DEF placement, lists, PlaceInv, IdleNowhere, NoJobLost, NoJobTwice, Live,
       Gone, Enqueued, InRecoverysHand, Ids, Distinct

\* A job enqueued was nowhere before.
LEMMA ProducePlace == TypeInv /\ PlaceInv /\ Produce => PlaceInv'
<1> SUFFICES ASSUME TypeInv, PlaceInv, NEW j \in Jobs,
                    Push(j) \/ SetInitialState(j) \/ SetInitialStateFails(j)
             PROVE  PlaceInv'
  BY DEF Produce
<1> USE DEF lists, effects, history, budget
<1>1. CASE Push(j)
  <2>1. [id |-> j, attempt |-> 0] \in Envelope
    BY DEF Envelope
  <2>2. Enqueued' = Enqueued \cup {j} /\ j \notin Enqueued
    BY <1>1 DEF Push, Enqueued, TypeInv, TypeOK
  <2>3. j \notin Live \cup Gone
    BY <2>2 DEF PlaceInv, IdleNowhere
  <2>4. Ids(queue)' = Ids(queue) \cup {j} /\ Distinct(queue)'
    BY <1>1, <2>1, <2>3, AppendEnvelope
       DEF Push, TypeInv, TypeOK, PlaceInv, NoJobTwice, Live
  <2>5. UNCHANGED <<Ids(processing), Ids(deadLetter), InRecoverysHand, cleared,
                    dropped, Distinct(processing), Distinct(deadLetter)>>
    BY <1>1 DEF Push, InRecoverysHand, Ids, Distinct
  <2>6. IdleNowhere' /\ NoJobLost'
    BY <2>2, <2>3, <2>4, <2>5 DEF IdleNowhere, NoJobLost, Live, Gone, PlaceInv
  <2>7. NoJobTwice'
    BY <2>3, <2>4, <2>5 DEF NoJobTwice, Live, Gone, PlaceInv
  <2>8. HeldJobIsBacked'
    BY <1>1 DEF Push, HeldJobIsBacked, Holding, PlaceInv
  <2> QED BY <2>6, <2>7, <2>8 DEF PlaceInv
<1>2. CASE SetInitialState(j) \/ SetInitialStateFails(j)
  <2>1. Enqueued' = Enqueued
    BY <1>2 DEF SetInitialState, SetInitialStateFails, Enqueued, TypeInv, TypeOK
  <2>2. HeldJobIsBacked'
    BY <1>2 DEF SetInitialState, SetInitialStateFails, HeldJobIsBacked, Holding, PlaceInv
  <2> QED
    BY <1>2, <2>1, <2>2 DEF SetInitialState, SetInitialStateFails, PlaceInv,
       IdleNowhere, NoJobLost, NoJobTwice, Live, Gone, InRecoverysHand, Ids, Distinct
<1> QED BY <1>1, <1>2

\* Recovery puts back what is in its hand and nowhere else.
LEMMA PutBackPlace ==
    ASSUME TypeInv, PlaceInv, PutBack, InRecoverysHand' = {}, HeldJobIsBacked',
           UNCHANGED <<processing, cleared, dropped, producer>>
    PROVE  PlaceInv'
<1>1. hand \in Envelope /\ InRecoverysHand = {hand.id}
  BY DEF PutBack, TypeInv, HandOK, Empty, InRecoverysHand
<1>2. Retried(hand) \in Envelope /\ Retried(hand).id = hand.id
  BY <1>1 DEF Retried, Envelope
<1>3. hand.id \notin Ids(queue) \cup Ids(processing) \cup Gone
  BY <1>1 DEF PlaceInv, NoJobTwice, Live
<1>4. UNCHANGED <<Ids(processing), cleared, dropped, Enqueued, Distinct(processing)>>
  BY DEF Ids, Distinct, Enqueued
<1>5. CASE queue' = Append(queue, Retried(hand)) /\ UNCHANGED deadLetter
  <2>1. Ids(queue)' = Ids(queue) \cup {hand.id} /\ Distinct(queue)'
    BY <1>2, <1>3, <1>5, AppendEnvelope
       DEF TypeInv, TypeOK, PlaceInv, NoJobTwice
  <2>2. UNCHANGED <<Ids(deadLetter), Distinct(deadLetter)>>
    BY <1>5 DEF Ids, Distinct
  <2>3. Live' = Live /\ Gone' = Gone
    BY <1>1, <1>4, <2>1, <2>2 DEF Live, Gone
  <2>4. NoJobTwice'
    BY <1>1, <1>3, <1>4, <2>1, <2>2, <2>3 DEF NoJobTwice, PlaceInv
  <2> QED BY <1>4, <2>3, <2>4 DEF PlaceInv, IdleNowhere, NoJobLost
<1>6. CASE deadLetter' = Append(deadLetter, Retried(hand)) /\ UNCHANGED queue
  <2>1. Ids(deadLetter)' = Ids(deadLetter) \cup {hand.id} /\ Distinct(deadLetter)'
    BY <1>2, <1>3, <1>6, AppendEnvelope
       DEF TypeInv, TypeOK, PlaceInv, NoJobTwice, Gone
  <2>2. UNCHANGED <<Ids(queue), Distinct(queue)>>
    BY <1>6 DEF Ids, Distinct
  <2>3. Live' \cup Gone' = Live \cup Gone
    BY <1>1, <1>4, <2>1, <2>2 DEF Live, Gone
  <2>4. NoJobTwice'
    BY <1>1, <1>3, <1>4, <2>1, <2>2 DEF NoJobTwice, PlaceInv, Live, Gone
  <2> QED BY <1>4, <2>3, <2>4 DEF PlaceInv, IdleNowhere, NoJobLost
<1> QED BY <1>5, <1>6 DEF PutBack

\* BLMOVE moves its job from one list to the other.
LEMMA BlmovePlace ==
    ASSUME TypeInv, PlaceInv, Blmove, InRecoverysHand = {}, InRecoverysHand' = {},
           HeldJobIsBacked', UNCHANGED <<deadLetter, cleared, dropped, producer>>
    PROVE  PlaceInv'
<1> DEFINE e == Head(queue)
<1>1. /\ e \in Envelope
      /\ Ids(queue) = Ids(queue)' \cup {e.id} /\ e.id \notin Ids(queue)'
      /\ Distinct(queue)'
  BY PopEnvelope DEF Blmove, TypeInv, TypeOK, PlaceInv, NoJobTwice, Ids, Distinct
<1>2. e.id \notin Ids(processing)
  BY <1>1 DEF PlaceInv, NoJobTwice
<1>3. Ids(processing)' = Ids(processing) \cup {e.id} /\ Distinct(processing)'
  BY <1>1, <1>2, AppendEnvelope
     DEF Blmove, TypeInv, TypeOK, PlaceInv, NoJobTwice
<1>4. UNCHANGED <<Ids(deadLetter), cleared, dropped, Enqueued, Distinct(deadLetter)>>
  BY DEF Ids, Distinct, Enqueued
<1>5. Live' = Live /\ Gone' = Gone
  BY <1>1, <1>3, <1>4 DEF Live, Gone
<1>6. NoJobTwice'
  BY <1>1, <1>3, <1>4, <1>5 DEF NoJobTwice, PlaceInv
<1> QED BY <1>4, <1>5, <1>6 DEF PlaceInv, IdleNowhere, NoJobLost

\* Recovery takes a job from the processing list and puts it in one place.
LEMMA RecoverPlace == TypeInv /\ PlaceInv /\ (Start \/ Recover) => PlaceInv'
<1> SUFFICES ASSUME TypeInv, PlaceInv, Start \/ Recover PROVE PlaceInv'
  OBVIOUS
<1> USE DEF lists, effects, history, budget
<1>1. CASE Start \/ RecoverDone \/ NotifyBuried
  <2>1. UNCHANGED placement /\ HeldJobIsBacked'
    BY <1>1 DEF Start, RecoverDone, NotifyBuried, placement, InRecoverysHand,
       HeldJobIsBacked, Holding
  <2> QED BY <2>1, SamePlaces
<1>2. CASE RecoverPop
  <2> DEFINE h == Head(processing)
  <2>1. /\ Ids(processing) = Ids(processing)' \cup {h.id}
        /\ h.id \notin Ids(processing)'
        /\ Distinct(processing)'
    BY <1>2, PopEnvelope DEF RecoverPop, TypeInv, TypeOK, PlaceInv, NoJobTwice, Ids, Distinct
  <2>2. InRecoverysHand = {} /\ InRecoverysHand' = {h.id}
    BY <1>2 DEF RecoverPop, InRecoverysHand
  <2>3. UNCHANGED <<Ids(queue), Ids(deadLetter), cleared, dropped, Enqueued,
                    Distinct(queue), Distinct(deadLetter)>>
    BY <1>2 DEF RecoverPop, Ids, Distinct, Enqueued
  <2>4. Live' = Live /\ Gone' = Gone
    BY <2>1, <2>2, <2>3 DEF Live, Gone
  <2>5. NoJobTwice'
    BY <2>1, <2>2, <2>3, <2>4 DEF NoJobTwice, PlaceInv, Live
  <2>6. HeldJobIsBacked'
    BY <1>2 DEF RecoverPop, HeldJobIsBacked, Holding
  <2> QED BY <2>3, <2>4, <2>5, <2>6 DEF PlaceInv, IdleNowhere, NoJobLost
<1>3. CASE RecoverPut
  <2>1. PutBack /\ UNCHANGED <<processing, cleared, dropped, producer>>
    BY <1>3 DEF RecoverPut
  <2>2. InRecoverysHand' = {} /\ HeldJobIsBacked'
    BY <1>3 DEF RecoverPut, InRecoverysHand, HeldJobIsBacked, Holding
  <2> QED BY <2>1, <2>2, PutBackPlace
<1> QED BY <1>1, <1>2, <1>3 DEF Recover

\* _set_job_state moves no envelope, and lets go of none that is not backed.
LEMMA UpdateStatePlace == TypeInv /\ PlaceInv /\ (UpdateState \/ SetJobStateFails) => PlaceInv'
<1> SUFFICES ASSUME TypeInv, PlaceInv, UpdateState \/ SetJobStateFails PROVE PlaceInv'
  OBVIOUS
<1>1. UNCHANGED <<lists, producer, cleared, dropped>>
  BY DEF UpdateState, GetJobState, SetJobState, SetJobStateFails, lists, history
<1>2. (worker' = worker /\ hand' = hand) \/ AfterStateUpdate
  BY DEF UpdateState, GetJobState, SetJobState, SetJobStateFails
<1>3. worker \in {"picked", "returned", "raised", "requeued", "buried"}
  BY DEF UpdateState, GetJobState, SetJobState, SetJobStateFails, StateUpdate
<1>4. InRecoverysHand' = InRecoverysHand
  BY <1>2, <1>3 DEF AfterStateUpdate, StateUpdate, InRecoverysHand
<1>5. HeldJobIsBacked'
  <2>1. CASE worker' = worker /\ hand' = hand
    BY <1>1, <2>1 DEF HeldJobIsBacked, Holding, PlaceInv, lists
  <2>2. CASE AfterStateUpdate
    <3>1. worker \in {"requeued", "buried", "raised"} =>
            worker' \in {"waiting", "recovering", "notifying"}
      BY <2>2 DEF AfterStateUpdate, StateUpdate
    <3>2. worker \in {"picked", "returned"} => hand' = hand
      BY <2>2 DEF AfterStateUpdate, StateUpdate
    <3> QED BY <1>1, <1>3, <3>1, <3>2 DEF HeldJobIsBacked, Holding, PlaceInv, lists
  <2> QED BY <1>2, <2>1, <2>2
<1> QED BY <1>1, <1>4, <1>5, SamePlaces DEF placement

\* The main loop moves a job, and removes it after a clean pass only.
LEMMA WorkPlace == TypeInv /\ PlaceInv /\ Work => PlaceInv'
<1> SUFFICES ASSUME TypeInv, PlaceInv, Work PROVE PlaceInv'
  OBVIOUS
<1> USE DEF lists, effects, history, budget
<1>1. CASE Pick
  <2>1. Blmove /\ InRecoverysHand = {} /\ InRecoverysHand' = {}
    BY <1>1 DEF Pick, InRecoverysHand
  <2>2. UNCHANGED <<deadLetter, cleared, dropped, producer>>
    BY <1>1 DEF Pick
  <2>3. HeldJobIsBacked'
    BY <1>1, AppendEnvelope, BlmoveType, PopEnvelope
       DEF Pick, Blmove, HeldJobIsBacked, Holding, TypeInv, TypeOK
  <2> QED BY <2>1, <2>2, <2>3, BlmovePlace
<1>2. CASE Execute \/ Report
  <2>1. UNCHANGED placement /\ HeldJobIsBacked'
    BY <1>2 DEF Execute, Report, placement, InRecoverysHand, HeldJobIsBacked, Holding, PlaceInv
  <2> QED BY <2>1, SamePlaces
<1>3. CASE Clear
  <2>1. hand \in ToSet(processing)
    BY <1>3 DEF Clear, PlaceInv, HeldJobIsBacked, Holding
  <2>2. Ids(processing)' = Ids(processing) \ {hand.id} /\ Distinct(processing)'
    BY <1>3, <2>1, RemoveEnvelope
       DEF Clear, TypeInv, TypeOK, PlaceInv, NoJobTwice, Ids, Distinct
  <2>3. hand.id \in Ids(processing)
    BY <2>1 DEF Ids
  <2>4. InRecoverysHand = {} /\ InRecoverysHand' = {} /\ HeldJobIsBacked'
    BY <1>3 DEF Clear, InRecoverysHand, HeldJobIsBacked, Holding
  <2>5. UNCHANGED <<Ids(queue), Ids(deadLetter), dropped, Enqueued,
                    Distinct(queue), Distinct(deadLetter)>>
    BY <1>3 DEF Clear, Ids, Distinct, Enqueued
  <2>6. cleared' = cleared \cup {hand.id}
    BY <1>3 DEF Clear
  <2>7. Live' \cup Gone' = Live \cup Gone
    BY <2>2, <2>3, <2>4, <2>5, <2>6 DEF Live, Gone
  <2>8. NoJobTwice'
    BY <2>2, <2>3, <2>4, <2>5, <2>6 DEF NoJobTwice, PlaceInv, Live, Gone
  <2> QED BY <2>4, <2>5, <2>7, <2>8 DEF PlaceInv, IdleNowhere, NoJobLost
<1> QED BY <1>1, <1>2, <1>3 DEF Work

\* A job is dropped from recovery's hand alone.
LEMMA DropPlace ==
    ASSUME TypeInv, PlaceInv, worker = "moving", InRecoverysHand' = {},
           HeldJobIsBacked', dropped' = dropped \cup {hand.id},
           UNCHANGED <<queue, processing, deadLetter, cleared, producer>>
    PROVE  PlaceInv'
<1>1. InRecoverysHand = {hand.id}
  BY DEF InRecoverysHand
<1>2. UNCHANGED <<Ids(queue), Ids(processing), Ids(deadLetter), Enqueued,
                  Distinct(queue), Distinct(processing), Distinct(deadLetter)>>
  BY DEF Ids, Distinct, Enqueued
<1>3. Live' \cup Gone' = Live \cup Gone
  BY <1>1, <1>2 DEF Live, Gone
<1>4. NoJobTwice'
  BY <1>1, <1>2 DEF NoJobTwice, PlaceInv, Live, Gone
<1> QED BY <1>2, <1>3, <1>4 DEF PlaceInv, IdleNowhere, NoJobLost

\* Faults and crashes lose no job but through recovery's gap.
LEMMA FaultPlace == TypeInv /\ PlaceInv /\ (Fault \/ Crash) => PlaceInv'
<1> SUFFICES ASSUME TypeInv, PlaceInv, Fault \/ Crash PROVE PlaceInv'
  OBVIOUS
<1> USE DEF lists, effects, history, budget
<1>1. CASE RecoverPopFails
  <2>1. InRecoverysHand = {} /\ InRecoverysHand' = {} /\ HeldJobIsBacked'
    BY <1>1 DEF RecoverPopFails, AbandonRecovery, InRecoverysHand, HeldJobIsBacked, Holding
  <2>2. UNCHANGED <<queue, deadLetter, cleared, producer>>
    BY <1>1 DEF RecoverPopFails, AbandonRecovery
  <2>3. CASE UNCHANGED <<processing, dropped>>
    BY <2>1, <2>2, <2>3, SamePlaces DEF placement
  <2>4. CASE /\ processing # <<>>
             /\ dropped' = dropped \cup {Head(processing).id}
             /\ processing' = Tail(processing)
    <3> DEFINE h == Head(processing)
    <3>1. /\ Ids(processing) = Ids(processing)' \cup {h.id}
          /\ h.id \notin Ids(processing)'
          /\ Distinct(processing)'
      BY <2>4, PopEnvelope DEF TypeInv, TypeOK, PlaceInv, NoJobTwice, Ids, Distinct
    <3>2. UNCHANGED <<Ids(queue), Ids(deadLetter), cleared, Enqueued,
                      Distinct(queue), Distinct(deadLetter)>>
      BY <2>2 DEF Ids, Distinct, Enqueued
    <3>3. Live' \cup Gone' = Live \cup Gone
      BY <2>1, <2>4, <3>1, <3>2 DEF Live, Gone
    <3>4. NoJobTwice'
      BY <2>1, <2>4, <3>1, <3>2 DEF NoJobTwice, PlaceInv, Live, Gone
    <3> QED BY <2>1, <3>2, <3>3, <3>4 DEF PlaceInv, IdleNowhere, NoJobLost
  <2> QED BY <1>1, <2>3, <2>4 DEF RecoverPopFails
<1>2. CASE RecoverPutFails
  <2>1. InRecoverysHand' = {} /\ HeldJobIsBacked'
    BY <1>2 DEF RecoverPutFails, AbandonRecovery, InRecoverysHand, HeldJobIsBacked, Holding
  <2>2. UNCHANGED <<processing, cleared, producer>>
    BY <1>2 DEF RecoverPutFails, AbandonRecovery
  <2>3. CASE PutBack /\ UNCHANGED dropped
    BY <2>1, <2>2, <2>3, PutBackPlace
  <2>4. CASE dropped' = dropped \cup {hand.id} /\ UNCHANGED <<queue, deadLetter>>
    BY <1>2, <2>1, <2>2, <2>4, DropPlace DEF RecoverPutFails
  <2> QED BY <1>2, <2>3, <2>4 DEF RecoverPutFails
<1>3. CASE SetJobStateFails
  BY <1>3, UpdateStatePlace
<1>4. CASE PickReplyLost
  <2>1. Blmove /\ InRecoverysHand = {} /\ InRecoverysHand' = {} /\ HeldJobIsBacked'
    BY <1>4 DEF PickReplyLost, InRecoverysHand, HeldJobIsBacked, Holding
  <2>2. UNCHANGED <<deadLetter, cleared, dropped, producer>>
    BY <1>4 DEF PickReplyLost
  <2> QED BY <2>1, <2>2, BlmovePlace
<1>5. CASE ExecuteRaises \/ ClearFails
  <2>1. UNCHANGED placement /\ HeldJobIsBacked'
    BY <1>5 DEF ExecuteRaises, ClearFails, placement, InRecoverysHand,
       HeldJobIsBacked, Holding, PlaceInv
  <2> QED BY <2>1, SamePlaces
<1>6. CASE Crash
  <2>1. InRecoverysHand' = {} /\ HeldJobIsBacked'
    BY <1>6 DEF Crash, InRecoverysHand, HeldJobIsBacked, Holding
  <2>2. UNCHANGED <<queue, processing, deadLetter, cleared, producer>>
    BY <1>6 DEF Crash
  <2>3. CASE worker = "moving"
    BY <1>6, <2>1, <2>2, <2>3, DropPlace DEF Crash
  <2>4. CASE worker # "moving"
    BY <1>6, <2>1, <2>2, <2>4, SamePlaces DEF Crash, placement, InRecoverysHand
  <2> QED BY <2>3, <2>4
<1> QED BY <1>1, <1>2, <1>3, <1>4, <1>5, <1>6 DEF Fault

-----------------------------------------------------------------------------
(* The retry budget *)

\* An envelope's attempt counter is the number of times its job was picked up
\* before the pickup that may be going on.
AttemptInv ==
    /\ \A e \in ToSet(queue) : pickups[e.id] = e.attempt /\ e.attempt <= MaxAttempts
    /\ \A e \in ToSet(processing) :
         pickups[e.id] = e.attempt + 1 /\ e.attempt <= MaxAttempts
    /\ worker = "moving" => /\ pickups[hand.id] = hand.attempt + 1
                            /\ hand.attempt <= MaxAttempts
    /\ \A j \in Jobs \ Enqueued : pickups[j] = 0
    /\ AttemptsBounded

\* The steps that neither pick a job up nor move an envelope.
LEMMA SameAttempts ==
    ASSUME AttemptInv, UNCHANGED <<lists, producer, pickups>>, worker' # "moving"
    PROVE  AttemptInv'
BY DEF lists, AttemptInv, AttemptsBounded, Enqueued, Ids

\* Recovery counts the attempt it puts back, and buries a job on the last.
LEMMA PutBackAttempts ==
    ASSUME TypeInv, PlaceInv, AttemptInv, PutBack, worker' # "moving",
           UNCHANGED <<processing, producer, pickups>>
    PROVE  AttemptInv'
<1>1. hand \in Envelope /\ worker = "moving"
  BY DEF PutBack, TypeInv, HandOK, Empty
<1>2. Retried(hand) \in Envelope /\ Retried(hand).id = hand.id
      /\ Retried(hand).attempt = hand.attempt + 1
  BY <1>1 DEF Retried, Envelope
<1>3. hand.attempt \in Nat /\ MaxAttempts \in Nat
  BY <1>1, WriteQueueAssumption DEF Envelope
<1>4. CASE /\ hand.attempt + 1 <= MaxAttempts
           /\ queue' = Append(queue, Retried(hand)) /\ UNCHANGED deadLetter
  <2>1. ToSet(queue') = ToSet(queue) \cup {Retried(hand)}
    BY <1>2, <1>4, AppendEnvelope DEF TypeInv, TypeOK
  <2> QED BY <1>1, <1>2, <1>4, <2>1 DEF AttemptInv, AttemptsBounded, Enqueued, Ids
<1>5. CASE /\ hand.attempt + 1 > MaxAttempts
           /\ deadLetter' = Append(deadLetter, Retried(hand)) /\ UNCHANGED queue
  <2>1. Ids(deadLetter)' = Ids(deadLetter) \cup {hand.id}
    BY <1>2, <1>5, AppendEnvelope DEF TypeInv, TypeOK
  <2>2. pickups[hand.id] = MaxAttempts + 1
    BY <1>1, <1>3, <1>5 DEF AttemptInv
  <2> QED BY <1>5, <2>1, <2>2 DEF AttemptInv, AttemptsBounded, Enqueued
<1> QED BY <1>4, <1>5 DEF PutBack

\* A pickup makes the count one more than the envelope's counter.
LEMMA BlmoveAttempts ==
    ASSUME TypeInv, PlaceInv, AttemptInv, Blmove, worker' # "moving",
           worker # "moving", UNCHANGED <<deadLetter, producer>>
    PROVE  AttemptInv'
<1> DEFINE e == Head(queue)
<1>1. /\ e \in Envelope /\ ToSet(queue) = ToSet(queue') \cup {e}
      /\ e.id \notin Ids(queue)' /\ e.id \in Ids(queue)
  <2>1. queue \in Seq(Envelope) /\ queue # <<>> /\ Distinct(queue) /\ queue' = Tail(queue)
    BY DEF Blmove, TypeInv, TypeOK, PlaceInv, NoJobTwice
  <2> QED BY <2>1, PopEnvelope
<1>2. ToSet(processing') = ToSet(processing) \cup {e}
  BY <1>1, AppendEnvelope DEF Blmove, TypeInv, TypeOK
<1>3. pickups' = [pickups EXCEPT ![e.id] = pickups[e.id] + 1]
  BY DEF Blmove
<1>4. e.id \in Jobs /\ e.attempt \in Nat /\ MaxAttempts \in Nat
      /\ pickups \in [Jobs -> Nat]
  BY <1>1, WriteQueueAssumption DEF Envelope, TypeInv, TypeOK
<1>5. pickups[e.id] = e.attempt /\ e.attempt <= MaxAttempts
  BY <1>1 DEF AttemptInv
<1>6. e.id \notin Ids(processing) /\ e.id \notin Ids(deadLetter) /\ e.id \in Enqueued
  BY <1>1, <1>4 DEF PlaceInv, NoJobTwice, IdleNowhere, Live, Gone
<1>7. \A d \in ToSet(queue') : d.id # e.id
  BY <1>1 DEF Ids
<1>8. \A d \in ToSet(processing) : d.id # e.id
  BY <1>6 DEF Ids
<1>9. \A d \in ToSet(queue') : pickups'[d.id] = d.attempt /\ d.attempt <= MaxAttempts
  BY <1>1, <1>3, <1>4, <1>7 DEF AttemptInv
<1>10. \A d \in ToSet(processing') :
          pickups'[d.id] = d.attempt + 1 /\ d.attempt <= MaxAttempts
  BY <1>2, <1>3, <1>4, <1>5, <1>8 DEF AttemptInv
<1>11. Enqueued' = Enqueued /\ \A j \in Jobs \ Enqueued : pickups'[j] = 0
  BY <1>3, <1>4, <1>6 DEF AttemptInv, Enqueued
<1>12. AttemptsBounded'
  <2>1. \A j \in Jobs : pickups'[j] <= MaxAttempts + 1
    BY <1>3, <1>4, <1>5 DEF AttemptInv, AttemptsBounded
  <2>2. \A j \in Ids(deadLetter) : pickups'[j] = pickups[j]
    BY <1>3, <1>4, <1>6
  <2>3. Ids(deadLetter)' = Ids(deadLetter)
    BY DEF Ids
  <2> QED BY <2>1, <2>2, <2>3 DEF AttemptInv, AttemptsBounded
<1> QED BY <1>9, <1>10, <1>11, <1>12 DEF AttemptInv

\* A job enqueued has not been picked up.
LEMMA ProduceAttempts == TypeInv /\ PlaceInv /\ AttemptInv /\ Produce => AttemptInv'
<1> SUFFICES ASSUME TypeInv, PlaceInv, AttemptInv, NEW j \in Jobs,
                    Push(j) \/ SetInitialState(j) \/ SetInitialStateFails(j)
             PROVE  AttemptInv'
  BY DEF Produce
<1> USE DEF lists, effects, history, budget
<1>1. CASE Push(j)
  <2> DEFINE e == [id |-> j, attempt |-> 0]
  <2>1. e \in Envelope /\ e.id = j /\ e.attempt = 0
    BY DEF Envelope
  <2>2. ToSet(queue') = ToSet(queue) \cup {e}
    BY <1>1, <2>1, AppendEnvelope DEF Push, TypeInv, TypeOK
  <2>3. Enqueued' = Enqueued \cup {j} /\ j \notin Enqueued
    BY <1>1 DEF Push, Enqueued, TypeInv, TypeOK
  <2>4. pickups[j] = 0 /\ 0 <= MaxAttempts
    BY <2>3, WriteQueueAssumption DEF AttemptInv
  <2>5. UNCHANGED <<processing, deadLetter, worker, hand, pickups>>
    BY <1>1 DEF Push
  <2> HIDE DEF e
  <2> QED BY <2>1, <2>2, <2>3, <2>4, <2>5 DEF AttemptInv, AttemptsBounded, Ids
<1>2. CASE SetInitialState(j) \/ SetInitialStateFails(j)
  <2>1. Enqueued' = Enqueued
    BY <1>2 DEF SetInitialState, SetInitialStateFails, Enqueued, TypeInv, TypeOK
  <2>2. UNCHANGED <<lists, worker, hand, pickups>>
    BY <1>2 DEF SetInitialState, SetInitialStateFails
  <2> QED BY <2>1, <2>2 DEF AttemptInv, AttemptsBounded, Ids
<1> QED BY <1>1, <1>2

\* Removing envelopes from the processing list keeps the budget.
LEMMA FewerAttempts ==
    ASSUME AttemptInv, ToSet(processing') \subseteq ToSet(processing),
           UNCHANGED <<queue, deadLetter, producer, pickups>>,
           worker' = "moving" => hand' \in ToSet(processing)
    PROVE  AttemptInv'
BY DEF AttemptInv, AttemptsBounded, Enqueued, Ids

\* All steps of the worker keep the count.
LEMMA WorkerAttempts ==
    TypeInv /\ PlaceInv /\ AttemptInv
      /\ (Start \/ Recover \/ UpdateState \/ Work \/ Fault \/ Crash) => AttemptInv'
<1> SUFFICES ASSUME TypeInv, PlaceInv, AttemptInv,
                    Start \/ Recover \/ UpdateState \/ Work \/ Fault \/ Crash
             PROVE  AttemptInv'
  OBVIOUS
<1> USE DEF lists, effects, history, budget
<1>1. CASE Start \/ RecoverDone \/ NotifyBuried \/ Execute \/ Report
           \/ ExecuteRaises \/ ClearFails \/ Crash
  BY <1>1, SameAttempts DEF Start, RecoverDone, NotifyBuried, Execute, Report,
     ExecuteRaises, ClearFails, Crash
<1>2. CASE GetJobState \/ SetJobState \/ SetJobStateFails
  <2>1. UNCHANGED <<lists, producer, pickups>>
    BY <1>2 DEF GetJobState, SetJobState, SetJobStateFails
  <2>2. worker' # "moving"
    BY <1>2 DEF GetJobState, SetJobState, SetJobStateFails, AfterStateUpdate, StateUpdate
  <2> QED BY <2>1, <2>2, SameAttempts
<1>3. CASE RecoverPop
  <2>1. ToSet(processing) = ToSet(processing') \cup {hand'}
    BY <1>3, PopEnvelope DEF RecoverPop, TypeInv, TypeOK
  <2> QED BY <1>3, <2>1, FewerAttempts DEF RecoverPop
<1>4. CASE RecoverPut
  BY <1>4, PutBackAttempts DEF RecoverPut
<1>5. CASE RecoverPopFails
  <2>1. ToSet(processing') \subseteq ToSet(processing)
    <3>1. processing # <<>> => ToSet(Tail(processing)) \subseteq ToSet(processing)
      BY PopEnvelope DEF TypeInv, TypeOK
    <3> QED BY <1>5, <3>1 DEF RecoverPopFails
  <2>2. UNCHANGED <<queue, deadLetter, producer, pickups>> /\ worker' # "moving"
    BY <1>5 DEF RecoverPopFails, AbandonRecovery
  <2> QED BY <2>1, <2>2, FewerAttempts
<1>6. CASE RecoverPutFails
  <2>1. UNCHANGED <<processing, producer, pickups>> /\ worker' # "moving"
    BY <1>6 DEF RecoverPutFails, AbandonRecovery
  <2>2. CASE PutBack
    BY <2>1, <2>2, PutBackAttempts
  <2>3. CASE UNCHANGED <<queue, deadLetter>>
    BY <2>1, <2>3, SameAttempts
  <2> QED BY <1>6, <2>2, <2>3 DEF RecoverPutFails
<1>7. CASE Pick \/ PickReplyLost
  BY <1>7, BlmoveAttempts DEF Pick, PickReplyLost
<1>8. CASE Clear
  <2>1. hand \in ToSet(processing)
    BY <1>8 DEF Clear, PlaceInv, HeldJobIsBacked, Holding
  <2>2. ToSet(processing') \subseteq ToSet(processing)
    BY <1>8, <2>1, RemoveEnvelope DEF Clear, TypeInv, TypeOK, PlaceInv, NoJobTwice
  <2> QED BY <1>8, <2>2, FewerAttempts DEF Clear
<1> QED BY <1>1, <1>2, <1>3, <1>4, <1>5, <1>6, <1>7, <1>8
        DEF Recover, UpdateState, Work, Fault

-----------------------------------------------------------------------------
(* The theorems *)

\* The inductive invariant.
IInv == TypeInv /\ PlaceInv /\ AttemptInv

\* The invariant holds at first ...
LEMMA InitIInv == Init => IInv
<1> SUFFICES ASSUME Init PROVE IInv
  OBVIOUS
<1> USE DEF Init
<1>1. /\ ToSet(queue) = {} /\ ToSet(processing) = {} /\ ToSet(deadLetter) = {}
      /\ Len(queue) = 0 /\ Len(processing) = 0 /\ Len(deadLetter) = 0
  BY DEF ToSet
<1>2. Ids(queue) = {} /\ Ids(processing) = {} /\ Ids(deadLetter) = {}
  BY <1>1 DEF Ids
<1>3. Distinct(queue) /\ Distinct(processing) /\ Distinct(deadLetter)
  BY <1>1 DEF Distinct
<1>4. Enqueued = {} /\ InRecoverysHand = {}
  BY DEF Enqueued, InRecoverysHand
<1>5. TypeInv
  <2>1. <<>> \in Seq(Envelope) /\ <<>> \in Seq(Jobs)
    BY EmptySeq
  <2>2. jobState \in [Jobs -> JobState]
    BY DEF JobState, Statuses, NoState
  <2>3. crashes \in 0..MaxCrashes /\ faults \in 0..MaxFaults
    BY WriteQueueAssumption
  <2> QED BY <2>1, <2>2, <2>3 DEF TypeInv, TypeOK, HandOK, Empty, Locations
<1>6. PlaceInv
  BY <1>2, <1>3, <1>4 DEF PlaceInv, IdleNowhere, NoJobLost, NoJobTwice,
     HeldJobIsBacked, Holding, Live, Gone
<1>7. AttemptInv
  BY <1>1, <1>2, WriteQueueAssumption DEF AttemptInv, AttemptsBounded
<1> QED BY <1>5, <1>6, <1>7 DEF IInv

\* ... every step keeps it ...
LEMMA NextIInv == IInv /\ [Next]_vars => IInv'
<1> SUFFICES ASSUME IInv, [Next]_vars PROVE IInv'
  OBVIOUS
<1>1. CASE UNCHANGED vars
  BY <1>1 DEF IInv, vars, lists, effects, history, budget, TypeInv, TypeOK, HandOK,
     PlaceInv, IdleNowhere, NoJobLost, NoJobTwice, HeldJobIsBacked, Holding, AttemptInv,
     AttemptsBounded, Live, Gone, Enqueued, InRecoverysHand, Ids, Distinct
<1>2. CASE Next
  <2>1. TypeInv'
    BY <1>2, ProduceType, RecoverType, UpdateStateType, WorkType, FaultType
       DEF Next, IInv, PlaceInv, NoJobTwice
  <2>2. PlaceInv'
    BY <1>2, ProducePlace, RecoverPlace, UpdateStatePlace, WorkPlace, FaultPlace
       DEF Next, IInv
  <2>3. AttemptInv'
    BY <1>2, ProduceAttempts, WorkerAttempts DEF Next, IInv
  <2> QED BY <2>1, <2>2, <2>3 DEF IInv
<1> QED BY <1>1, <1>2

\* ... and so it always holds.
LEMMA Invariance == Spec => []IInv
<1> QED BY InitIInv, NextIInv, PTL DEF Spec

\* Type correctness of the queue for any number of jobs, crashes and faults.
THEOREM TypeCorrect == Spec => []TypeOK
<1>1. IInv => TypeOK
  BY DEF IInv, TypeInv
<1> QED BY <1>1, Invariance, PTL

\* Durability (worker.py 30-36): the gap between recovery's LPOP and RPUSH is
\* the only way an enqueued job can disappear.
THEOREM Durability == Spec => []NoJobLost
<1>1. IInv => NoJobLost
  BY DEF IInv, PlaceInv
<1> QED BY <1>1, Invariance, PTL

\* One envelope per job, whatever crashes and faults happen.
THEOREM Uniqueness == Spec => []NoJobTwice
<1>1. IInv => NoJobTwice
  BY DEF IInv, PlaceInv
<1> QED BY <1>1, Invariance, PTL

\* A job being worked on can always be recovered.
THEOREM Backing == Spec => []HeldJobIsBacked
<1>1. IInv => HeldJobIsBacked
  BY DEF IInv, PlaceInv
<1> QED BY <1>1, Invariance, PTL

\* The retry budget of worker.py 92-98.
THEOREM RetryBudget == Spec => []AttemptsBounded
<1>1. IInv => AttemptsBounded
  BY DEF IInv, AttemptInv
<1> QED BY <1>1, Invariance, PTL

-----------------------------------------------------------------------------
(* First in, first out *)

\* The places in pushOrder of the jobs nobody has picked up yet.
Fresh == (Len(firstPicks) + 1)..Len(pushOrder)

\* The jobs picked up are the first of those enqueued; the others are in the
\* queue, in the order of enqueueing whatever has been re-queued among them.
OrderInv ==
    /\ \A m, n \in 1..Len(pushOrder) : pushOrder[m] = pushOrder[n] => m = n
    /\ Enqueued = { pushOrder[n] : n \in 1..Len(pushOrder) }
    /\ Len(firstPicks) <= Len(pushOrder)
    /\ \A n \in 1..Len(firstPicks) : firstPicks[n] = pushOrder[n]
    /\ \A n \in 1..Len(firstPicks) : pickups[pushOrder[n]] > 0
    /\ \A n \in Fresh : pickups[pushOrder[n]] = 0 /\ pushOrder[n] \in Ids(queue)
    /\ \A a, b \in 1..Len(queue), m, n \in Fresh :
         queue[a].id = pushOrder[m] /\ queue[b].id = pushOrder[n] /\ m < n => a < b

\* A job that was picked up is among the first picks, and no other is.
LEMMA PickedOnes ==
    ASSUME TypeInv, AttemptInv, OrderInv, NEW j \in Jobs
    PROVE  pickups[j] > 0 <=> \E n \in 1..Len(firstPicks) : pushOrder[n] = j
<1>1. Len(firstPicks) \in Nat /\ Len(pushOrder) \in Nat /\ pickups[j] \in Nat
  BY LenProperties DEF TypeInv, TypeOK
<1>2. ASSUME pickups[j] > 0 PROVE \E n \in 1..Len(firstPicks) : pushOrder[n] = j
  <2>1. j \in Enqueued
    BY <1>2 DEF AttemptInv
  <2>2. PICK n \in 1..Len(pushOrder) : pushOrder[n] = j
    BY <2>1 DEF OrderInv
  <2>3. n \notin Fresh
    BY <1>2, <2>2 DEF OrderInv
  <2>4. n \in 1..Len(firstPicks)
    BY <1>1, <2>3 DEF Fresh
  <2> QED BY <2>2, <2>4
<1> QED BY <1>2 DEF OrderInv

\* The steps that touch neither the queue nor the pickups.
LEMMA SameOrder ==
    ASSUME OrderInv, UNCHANGED <<queue, pushOrder, firstPicks, pickups, Enqueued>>
    PROVE  OrderInv'
BY DEF OrderInv, Fresh, Ids

\* What waits in the queue was enqueued.
LEMMA OnlyEnqueuedWait ==
    ASSUME TypeInv, PlaceInv
    PROVE  \A a \in 1..Len(queue) : queue[a].id \in Enqueued
<1>1. DOMAIN queue = 1..Len(queue) /\ \A a \in 1..Len(queue) : queue[a] \in Envelope
  BY LenProperties, ElementOfSeq DEF TypeInv, TypeOK
<1>2. \A a \in 1..Len(queue) : queue[a].id \in Ids(queue) /\ queue[a].id \in Jobs
  BY <1>1 DEF Ids, ToSet, Envelope
<1> QED BY <1>2 DEF PlaceInv, IdleNowhere, Live

\* A job enqueued goes behind all others.
LEMMA PushOrder ==
    ASSUME TypeInv, PlaceInv, AttemptInv, OrderInv, NEW j \in Jobs, Push(j)
    PROVE  OrderInv'
<1> DEFINE e == [id |-> j, attempt |-> 0]
           N == Len(pushOrder)
           Q == Len(queue)
<1>1. /\ e \in Envelope /\ e.id = j
      /\ queue' = Append(queue, e) /\ pushOrder' = Append(pushOrder, j)
      /\ UNCHANGED <<firstPicks, pickups>>
  BY DEF Push, Envelope
<1> HIDE DEF e
<1>2. Enqueued' = Enqueued \cup {j} /\ j \notin Enqueued
  BY DEF Push, Enqueued, TypeInv, TypeOK
<1>3. /\ N \in Nat /\ Len(pushOrder') = N + 1 /\ pushOrder'[N + 1] = j
      /\ \A n \in 1..N : pushOrder'[n] = pushOrder[n]
  BY <1>1, AppendProperties, LenProperties DEF TypeInv, TypeOK
<1>4. /\ Q \in Nat /\ Len(queue') = Q + 1 /\ queue'[Q + 1] = e
      /\ \A a \in 1..Q : queue'[a] = queue[a]
      /\ Ids(queue)' = Ids(queue) \cup {j}
  BY <1>1, AppendProperties, LenProperties, AppendEnvelope DEF TypeInv, TypeOK, Ids
<1>5. Len(firstPicks) \in Nat /\ Len(firstPicks) <= N
  BY LenProperties DEF TypeInv, TypeOK, OrderInv
<1>6. /\ \A n \in 1..N : pushOrder[n] # j
      /\ Enqueued = { pushOrder[n] : n \in 1..N }
  BY <1>2 DEF OrderInv
<1>7. Fresh' = Fresh \cup {N + 1} /\ Fresh \subseteq 1..N
  BY <1>1, <1>3, <1>5 DEF Fresh
<1>8. \A a \in 1..Q : queue[a].id # j
  BY <1>2, OnlyEnqueuedWait
<1>9. pickups[j] = 0
  BY <1>2 DEF AttemptInv
<1> HIDE DEF N, Q
<1>10. \A m, n \in 1..Len(pushOrder') : pushOrder'[m] = pushOrder'[n] => m = n
  BY <1>3, <1>6 DEF OrderInv, N
<1>11. Enqueued' = { pushOrder'[n] : n \in 1..Len(pushOrder') }
  BY <1>2, <1>3, <1>6
<1>12. /\ Len(firstPicks') <= Len(pushOrder')
       /\ \A n \in 1..Len(firstPicks') : /\ firstPicks'[n] = pushOrder'[n]
                                         /\ pickups'[pushOrder'[n]] > 0
  BY <1>1, <1>3, <1>5 DEF OrderInv
<1>13. \A n \in Fresh' : pickups'[pushOrder'[n]] = 0 /\ pushOrder'[n] \in Ids(queue)'
  BY <1>1, <1>3, <1>4, <1>7, <1>9 DEF OrderInv
<1>14. ASSUME NEW a \in 1..Len(queue'), NEW b \in 1..Len(queue'),
              NEW m \in Fresh', NEW n \in Fresh',
              queue'[a].id = pushOrder'[m], queue'[b].id = pushOrder'[n], m < n
       PROVE  a < b
  <2>1. m \in Fresh /\ m \in 1..N /\ pushOrder'[m] # j
    BY <1>3, <1>6, <1>7, <1>14
  <2>2. a \in 1..Q /\ queue[a].id = pushOrder[m]
    BY <1>1, <1>3, <1>4, <1>14, <2>1
  <2>3. CASE n = N + 1
    <3>1. b = Q + 1
      BY <1>3, <1>4, <1>8, <1>14, <2>3
    <3> QED BY <1>4, <2>2, <3>1
  <2>4. CASE n \in Fresh
    <3>1. n \in 1..N /\ pushOrder'[n] = pushOrder[n] /\ pushOrder[n] # j
      BY <1>3, <1>6, <1>7, <2>4
    <3>2. b \in 1..Q /\ queue[b].id = pushOrder[n]
      BY <1>1, <1>4, <1>14, <3>1
    <3> QED BY <1>14, <2>1, <2>2, <2>4, <3>2 DEF OrderInv, Q
  <2> QED BY <1>7, <1>14, <2>3, <2>4
<1> QED BY <1>10, <1>11, <1>12, <1>13, <1>14 DEF OrderInv

\* An envelope recovery puts back stands for a job that was picked up.
LEMMA PutBackOrder ==
    ASSUME TypeInv, AttemptInv, OrderInv, PutBack,
           UNCHANGED <<pushOrder, firstPicks, pickups, producer>>
    PROVE  OrderInv'
<1>1. hand \in Envelope /\ Retried(hand) \in Envelope /\ Retried(hand).id = hand.id
  BY DEF PutBack, TypeInv, HandOK, Empty, Retried, Envelope
<1>2. PICK k \in Jobs : k = hand.id
  BY <1>1 DEF Envelope
<1>3. pickups[k] > 0
  BY <1>1, <1>2 DEF PutBack, AttemptInv, Envelope
<1>4. Enqueued' = Enqueued
  BY DEF Enqueued
<1>5. CASE UNCHANGED queue
  BY <1>4, <1>5, SameOrder
<1>6. CASE queue' = Append(queue, Retried(hand))
  <2>1. /\ Len(queue) \in Nat /\ Len(queue') = Len(queue) + 1
        /\ queue'[Len(queue) + 1].id = k
        /\ \A a \in 1..Len(queue) : queue'[a] = queue[a]
        /\ Ids(queue)' = Ids(queue) \cup {k}
    BY <1>1, <1>2, <1>6, AppendProperties, LenProperties, AppendEnvelope
       DEF TypeInv, TypeOK, Ids
  <2>2. Fresh' = Fresh /\ \A n \in Fresh : pushOrder[n] # k
    BY <1>3 DEF Fresh, OrderInv
  <2>3. ASSUME NEW a \in 1..Len(queue'), NEW n \in Fresh, queue'[a].id = pushOrder[n]
        PROVE  a \in 1..Len(queue) /\ queue[a].id = pushOrder[n]
    BY <2>1, <2>2, <2>3
  <2>4. \A a, b \in 1..Len(queue'), m, n \in Fresh' :
          queue'[a].id = pushOrder'[m] /\ queue'[b].id = pushOrder'[n] /\ m < n => a < b
    BY <2>2, <2>3 DEF OrderInv
  <2> QED BY <1>4, <2>1, <2>2, <2>4 DEF OrderInv
<1> QED BY <1>5, <1>6 DEF PutBack

\* BLMOVE takes the job enqueued first of those nobody has picked up, or one
\* that was picked up before.
LEMMA BlmoveOrder ==
    ASSUME TypeInv, PlaceInv, AttemptInv, OrderInv, Blmove,
           UNCHANGED <<pushOrder, producer>>
    PROVE  OrderInv'
<1>1. queue \in Seq(Envelope) /\ queue # <<>> /\ Distinct(queue) /\ queue' = Tail(queue)
  BY DEF Blmove, TypeInv, TypeOK, PlaceInv, NoJobTwice
<1>2. PICK k \in Jobs : k = Head(queue).id
  BY <1>1, PopEnvelope DEF Envelope
<1>3. /\ Len(queue) \in Nat \ {0} /\ Len(queue') = Len(queue) - 1 /\ queue[1].id = k
      /\ \A a \in 1..Len(queue') : queue'[a] = queue[a + 1]
  BY <1>1, <1>2, HeadTailProperties, LenProperties, EmptySeq
<1>4. Ids(queue) = Ids(queue)' \cup {k}
  BY <1>1, <1>2, PopEnvelope DEF Ids
<1>5. /\ pickups' = [pickups EXCEPT ![k] = pickups[k] + 1]
      /\ firstPicks' = IF pickups[k] = 0 THEN Append(firstPicks, k) ELSE firstPicks
  BY <1>2 DEF Blmove
<1>6. /\ pickups \in [Jobs -> Nat] /\ Len(firstPicks) \in Nat /\ Len(pushOrder) \in Nat
      /\ Len(firstPicks) <= Len(pushOrder)
      /\ \A n \in 1..Len(pushOrder) : pushOrder[n] \in Jobs
  BY LenProperties, ElementOfSeq DEF TypeInv, TypeOK, OrderInv
<1>7. Enqueued' = Enqueued
  BY DEF Enqueued
\* What is still fresh after the step keeps its place in the order.
<1>8. ASSUME NEW F \in SUBSET Fresh, \A n \in F : pushOrder[n] # k
      PROVE  /\ \A n \in F : pickups'[pushOrder[n]] = 0 /\ pushOrder[n] \in Ids(queue)'
             /\ \A a, b \in 1..Len(queue'), m, n \in F :
                  queue'[a].id = pushOrder[m] /\ queue'[b].id = pushOrder[n] /\ m < n => a < b
  <2>1. \A n \in F : n \in 1..Len(pushOrder)
    BY <1>6 DEF Fresh
  <2>2. \A n \in F : pickups'[pushOrder[n]] = 0 /\ pushOrder[n] \in Ids(queue)'
    BY <1>4, <1>5, <1>6, <1>8, <2>1 DEF OrderInv
  <2>3. ASSUME NEW a \in 1..Len(queue'), NEW b \in 1..Len(queue'), NEW m \in F, NEW n \in F,
               queue'[a].id = pushOrder[m], queue'[b].id = pushOrder[n], m < n
        PROVE  a < b
    <3>1. a + 1 \in 1..Len(queue) /\ b + 1 \in 1..Len(queue)
      BY <1>3
    <3>2. queue[a + 1].id = pushOrder[m] /\ queue[b + 1].id = pushOrder[n]
      BY <1>3, <2>3
    <3>3. a + 1 < b + 1
      BY <2>3, <3>1, <3>2, <1>8 DEF OrderInv
    <3> QED BY <3>3
  <2> QED BY <2>2, <2>3
<1>9. CASE pickups[k] > 0
  <2>1. UNCHANGED firstPicks /\ Fresh' = Fresh
    BY <1>5, <1>9 DEF Fresh
  <2>2. \A n \in Fresh : pushOrder[n] # k
    BY <1>9 DEF OrderInv
  <2>3. \A n \in 1..Len(firstPicks) : n \in 1..Len(pushOrder)
    BY <1>6
  <2>4. \A n \in 1..Len(firstPicks) : pickups'[pushOrder[n]] > 0
    BY <1>5, <1>6, <2>3 DEF OrderInv
  <2> QED BY <1>7, <1>8, <2>1, <2>2, <2>4 DEF OrderInv
<1>10. CASE pickups[k] = 0
  <2> DEFINE f == Len(firstPicks) + 1
  <2>1. k \in Enqueued
    BY <1>2, <1>3, OnlyEnqueuedWait
  <2>2. PICK p \in 1..Len(pushOrder) : pushOrder[p] = k
    BY <2>1 DEF OrderInv
  <2>3. p \notin 1..Len(firstPicks)
    BY <1>10, <2>2 DEF OrderInv
  <2>4. p \in Fresh /\ f \in Fresh /\ f <= p
    BY <1>6, <2>2, <2>3 DEF Fresh
  <2>5. ~ f < p
    <3> SUFFICES ASSUME f < p PROVE FALSE
      OBVIOUS
    <3>1. PICK b \in 1..Len(queue) : queue[b].id = pushOrder[f]
      <4>1. pushOrder[f] \in Ids(queue) /\ DOMAIN queue = 1..Len(queue)
        BY <1>1, <2>4, LenProperties DEF OrderInv
      <4> QED BY <4>1 DEF Ids, ToSet
    <3>2. b < 1
      <4>1. 1 \in 1..Len(queue) /\ queue[1].id = pushOrder[p]
        BY <1>3, <2>2
      <4> HIDE DEF f
      <4> QED BY <2>4, <3>1, <4>1 DEF OrderInv
    <3> QED BY <3>2
  <2>6. p = f
    BY <1>6, <2>4, <2>5
  <2>7. /\ Len(firstPicks') = f /\ firstPicks'[f] = k
        /\ \A n \in 1..Len(firstPicks) : firstPicks'[n] = firstPicks[n]
    BY <1>5, <1>10, AppendProperties DEF TypeInv, TypeOK
  <2>8. Fresh' = Fresh \ {p}
    BY <1>6, <2>6, <2>7 DEF Fresh
  <2>9. \A n \in Fresh' : pushOrder[n] # k
    <3>1. \A n \in Fresh : n \in 1..Len(pushOrder)
      BY <1>6 DEF Fresh
    <3> QED BY <2>2, <2>8, <3>1 DEF OrderInv
  <2>10. 1..f = 1..Len(firstPicks) \cup {p} /\ f <= Len(pushOrder)
    BY <1>6, <2>2, <2>6
  <2>11. \A n \in 1..f : firstPicks'[n] = pushOrder[n]
    BY <2>2, <2>6, <2>7, <2>10 DEF OrderInv
  <2>12. \A n \in 1..f : pickups'[pushOrder[n]] > 0
    <3>1. \A n \in 1..Len(firstPicks) : pushOrder[n] \in Jobs /\ pickups[pushOrder[n]] > 0
      BY <1>6 DEF OrderInv
    <3>2. \A n \in 1..Len(firstPicks) : pickups'[pushOrder[n]] > 0
      BY <1>5, <1>6, <3>1
    <3>3. pickups'[k] > 0
      BY <1>5, <1>6
    <3> QED BY <2>2, <2>10, <3>2, <3>3
  <2> HIDE DEF f
  <2>13. Fresh' \in SUBSET Fresh
    BY <2>8
  <2>14. /\ \A n \in Fresh' : pickups'[pushOrder[n]] = 0 /\ pushOrder[n] \in Ids(queue)'
         /\ \A a, b \in 1..Len(queue'), m, n \in Fresh' :
              queue'[a].id = pushOrder[m] /\ queue'[b].id = pushOrder[n] /\ m < n => a < b
    BY <1>8, <2>9, <2>13
  <2> QED BY <1>7, <2>7, <2>10, <2>11, <2>12, <2>14 DEF OrderInv
<1> QED BY <1>6, <1>9, <1>10

\* Every step keeps the order.
LEMMA NextOrder == IInv /\ OrderInv /\ [Next]_vars => OrderInv'
<1> SUFFICES ASSUME IInv, OrderInv, [Next]_vars PROVE OrderInv'
  OBVIOUS
<1>1. TypeInv /\ PlaceInv /\ AttemptInv
  BY DEF IInv
<1> USE DEF lists, history
<1>2. CASE UNCHANGED vars
  BY <1>2, SameOrder DEF vars, Enqueued
<1>3. ASSUME NEW j \in Jobs, Push(j) PROVE OrderInv'
  BY <1>1, <1>3, PushOrder
<1>4. ASSUME NEW j \in Jobs, SetInitialState(j) \/ SetInitialStateFails(j) PROVE OrderInv'
  <2>1. Enqueued' = Enqueued
    BY <1>1, <1>4 DEF SetInitialState, SetInitialStateFails, Enqueued, TypeInv, TypeOK
  <2> QED BY <1>4, <2>1, SameOrder DEF SetInitialState, SetInitialStateFails
<1>5. CASE Start \/ RecoverDone \/ RecoverPop \/ NotifyBuried \/ RecoverPopFails \/ Crash
  BY <1>5, SameOrder DEF Start, RecoverDone, RecoverPop, NotifyBuried, RecoverPopFails,
     AbandonRecovery, Crash, Enqueued
<1>6. CASE RecoverPut \/ RecoverPutFails
  <2>1. UNCHANGED <<pushOrder, firstPicks, pickups, producer>>
    BY <1>6 DEF RecoverPut, RecoverPutFails, AbandonRecovery
  <2>2. CASE PutBack
    BY <1>1, <2>1, <2>2, PutBackOrder
  <2>3. CASE UNCHANGED queue
    BY <2>1, <2>3, SameOrder DEF Enqueued
  <2> QED BY <1>6, <2>2, <2>3 DEF RecoverPut, RecoverPutFails
<1>7. CASE GetJobState \/ SetJobState \/ SetJobStateFails
  BY <1>7, SameOrder DEF GetJobState, SetJobState, SetJobStateFails, AfterStateUpdate, Enqueued
<1>8. CASE Pick \/ PickReplyLost
  BY <1>1, <1>8, BlmoveOrder DEF Pick, PickReplyLost
<1>9. CASE Execute \/ ExecuteRaises \/ Report \/ Clear \/ ClearFails
  BY <1>9, SameOrder DEF Execute, ExecuteRaises, Report, Clear, ClearFails, Enqueued
<1> QED
  BY <1>2, <1>3, <1>4, <1>5, <1>6, <1>7, <1>8, <1>9
     DEF Next, Produce, Recover, UpdateState, Work, Fault

\* Nothing is enqueued at first.
LEMMA InitOrder == Init => OrderInv
<1> SUFFICES ASSUME Init PROVE OrderInv
  OBVIOUS
<1>1. /\ pushOrder = <<>> /\ firstPicks = <<>> /\ queue = <<>>
      /\ Len(pushOrder) = 0 /\ Len(firstPicks) = 0 /\ Len(queue) = 0
  BY EmptySeq DEF Init
<1>2. Enqueued = {}
  BY DEF Init, Enqueued
<1> QED BY <1>1, <1>2 DEF OrderInv, Fresh

\* The order holds in every behaviour.
LEMMA Ordering == Spec => []OrderInv
BY InitOrder, NextOrder, Invariance, PTL DEF Spec

\* First in, first out (producer.py 59): re-queued jobs, lost replies and crashes
\* never let a job be picked up for the first time before one enqueued earlier.
THEOREM FifoPicks == Spec => []FirstPicksInOrder
<1>1. IInv /\ OrderInv => FirstPicksInOrder
  <2> SUFFICES ASSUME IInv, OrderInv PROVE FirstPicksInOrder
    OBVIOUS
  <2> DEFINE n == Len(firstPicks)
  <2>1. /\ firstPicks \in Seq(Jobs) /\ pushOrder \in Seq(Jobs)
        /\ n \in Nat /\ Len(pushOrder) \in Nat /\ n <= Len(pushOrder)
    BY LenProperties DEF IInv, TypeInv, TypeOK, OrderInv
  <2> HIDE DEF n
  <2>2. /\ SubSeq(firstPicks, 1, n) = [i \in 1..n |-> firstPicks[i]]
        /\ SubSeq(pushOrder, 1, n) = [i \in 1..n |-> pushOrder[i]]
    BY <2>1
  <2>3. \A i \in 1..n : firstPicks[i] = pushOrder[i]
    BY DEF OrderInv, n
  <2> QED BY <2>1, <2>2, <2>3 DEF FirstPicksInOrder, IsPrefix, n
<1> QED BY <1>1, Invariance, Ordering, PTL

\* What the job the worker holds looks like in the ledger.
LEMMA HeldJobStarted ==
    ASSUME IInv, worker \in Holding
    PROVE  /\ hand.id \in Jobs
           /\ Phase(hand.id) = "open"
           /\ pickups[hand.id] > 0
<1>1. hand \in Envelope /\ hand \in ToSet(processing)
  BY DEF IInv, TypeInv, HandOK, PlaceInv, HeldJobIsBacked, Holding, Empty
<1>2. hand.id \in Jobs /\ hand.id \in Ids(processing) /\ hand.attempt \in Nat
  BY <1>1 DEF Envelope, Ids
<1>3. hand.id \in Enqueued /\ hand.id \notin Gone
  BY <1>2 DEF IInv, PlaceInv, IdleNowhere, NoJobTwice, Live
<1>4. pickups[hand.id] = hand.attempt + 1
  BY <1>1 DEF IInv, AttemptInv
<1> QED BY <1>2, <1>3, <1>4 DEF Phase, Gone

-----------------------------------------------------------------------------
(* What a cell shows, and what is said of a job *)

NoReplay == \A j \in Jobs : pickups[j] <= 1

\* Unless a job is replayed, the worker is busy with the one picked up last,
\* and a success it is going to report is on the sheet.
ShowInv ==
    /\ \A j \in Jobs : outcome[j] # "none" => pickups[j] > 0
    /\ NoReplay =>
         /\ worker \in Holding => /\ Len(firstPicks) > 0
                                  /\ hand.id = firstPicks[Len(firstPicks)]
         /\ worker = "reporting" /\ resultOk => sheet[Target[hand.id]] = hand.id
         /\ NewestWriteShows

\* Nothing picked up was enqueued after the job picked up last.
LEMMA LastPickIsNewest ==
    ASSUME IInv, OrderInv, Len(firstPicks) > 0, NEW j \in Jobs, pickups[j] > 0
    PROVE  ~ Before(firstPicks[Len(firstPicks)], j)
<1>1. /\ Len(firstPicks) \in Nat \ {0} /\ Len(pushOrder) \in Nat
      /\ Len(firstPicks) <= Len(pushOrder)
  BY LenProperties DEF IInv, TypeInv, TypeOK, OrderInv
<1>2. PICK p \in 1..Len(firstPicks) : pushOrder[p] = j
  BY PickedOnes DEF IInv
<1>3. firstPicks[Len(firstPicks)] = pushOrder[Len(firstPicks)]
  BY <1>1 DEF OrderInv
<1>4. ASSUME NEW m \in 1..Len(pushOrder), NEW n \in 1..Len(pushOrder), m < n,
             pushOrder[m] = pushOrder[Len(firstPicks)], pushOrder[n] = j
      PROVE  FALSE
  <2>1. m = Len(firstPicks) /\ n = p
    BY <1>1, <1>2, <1>4 DEF OrderInv
  <2> QED BY <1>1, <1>2, <1>4, <2>1
<1> QED BY <1>3, <1>4 DEF Before

\* The steps that leave alone what is shown, reported and picked up.
LEMMA SameShow ==
    ASSUME ShowInv, UNCHANGED <<pushOrder, firstPicks, pickups, sheet, outcome>>,
           worker' \in Holding => worker \in Holding /\ hand' = hand,
           worker' = "reporting" => worker = "reporting" /\ resultOk' = resultOk
    PROVE  ShowInv'
BY DEF ShowInv, NoReplay, NewestWriteShows, Before, Holding

\* A job enqueued has not been reported.
LEMMA PushShow ==
    ASSUME IInv, ShowInv, NEW j \in Jobs, Push(j)
    PROVE  ShowInv'
<1>1. /\ pushOrder' = Append(pushOrder, j)
      /\ UNCHANGED <<worker, hand, resultOk, firstPicks, pickups, sheet, outcome>>
  BY DEF Push, effects
<1>2. /\ Len(pushOrder) \in Nat /\ Len(pushOrder') = Len(pushOrder) + 1
      /\ pushOrder'[Len(pushOrder) + 1] = j
      /\ \A n \in 1..Len(pushOrder) : pushOrder'[n] = pushOrder[n]
  BY <1>1, AppendProperties, LenProperties DEF IInv, TypeInv, TypeOK
<1>3. pickups[j] = 0
  BY DEF Push, IInv, AttemptInv, Enqueued
<1>4. outcome[j] = "none"
  BY <1>3 DEF ShowInv
<1>5. ASSUME NEW k \in Jobs, k # j, NEW x, Before(x, k)' PROVE Before(x, k)
  <2>1. PICK m \in 1..Len(pushOrder'), n \in 1..Len(pushOrder') :
          m < n /\ pushOrder'[m] = x /\ pushOrder'[n] = k
    BY <1>5 DEF Before
  <2>2. n # Len(pushOrder) + 1
    BY <1>2, <1>5, <2>1
  <2>3. m \in 1..Len(pushOrder) /\ n \in 1..Len(pushOrder)
    BY <1>2, <2>1, <2>2
  <2> QED BY <1>2, <2>1, <2>3 DEF Before
<1>6. NewestWriteShows => NewestWriteShows'
  <2> SUFFICES ASSUME NewestWriteShows, NEW k \in Jobs, outcome[k] = "completed",
                      Before(sheet[Target[k]], k)'
               PROVE  FALSE
    BY <1>1 DEF NewestWriteShows, Before
  <2>1. k # j
    BY <1>4
  <2>2. Before(sheet[Target[k]], k)
    BY <1>1, <1>5, <2>1 DEF Before
  <2> QED BY <2>2 DEF NewestWriteShows
<1> QED BY <1>1, <1>6 DEF ShowInv, NoReplay

\* A pickup that is not the job's first ends the premise for good.
LEMMA BlmoveShow ==
    ASSUME IInv, ShowInv, Blmove, UNCHANGED <<pushOrder, sheet, outcome>>,
           worker' \in Holding => hand' = Head(queue), worker' # "reporting"
    PROVE  ShowInv'
<1>1. queue \in Seq(Envelope) /\ queue # <<>>
  BY DEF Blmove, IInv, TypeInv, TypeOK
<1>2. PICK k \in Jobs : k = Head(queue).id
  BY <1>1, PopEnvelope DEF Envelope
<1>3. /\ pickups' = [pickups EXCEPT ![k] = pickups[k] + 1]
      /\ firstPicks' = IF pickups[k] = 0 THEN Append(firstPicks, k) ELSE firstPicks
  BY <1>2 DEF Blmove
<1>4. pickups \in [Jobs -> Nat] /\ firstPicks \in Seq(Jobs) /\ Len(firstPicks) \in Nat
  BY LenProperties DEF IInv, TypeInv, TypeOK
<1>5. /\ pickups' \in [Jobs -> Nat]
      /\ \A j \in Jobs : pickups[j] <= pickups'[j]
  BY <1>3, <1>4
<1>6. \A j \in Jobs : outcome'[j] # "none" => pickups'[j] > 0
  BY <1>4, <1>5 DEF ShowInv
<1>7. ASSUME NoReplay'
      PROVE  /\ worker' \in Holding => /\ Len(firstPicks') > 0
                                       /\ hand'.id = firstPicks'[Len(firstPicks')]
             /\ NewestWriteShows'
  <2>1. NoReplay
    BY <1>4, <1>5, <1>7 DEF NoReplay
  <2>2. pickups[k] = 0
    BY <1>3, <1>4, <1>7 DEF NoReplay
  <2>3. Len(firstPicks') > 0 /\ firstPicks'[Len(firstPicks')] = k
    BY <1>3, <1>4, <2>2, AppendProperties
  <2>4. NewestWriteShows'
    BY <2>1 DEF ShowInv, NewestWriteShows, Before
  <2> QED BY <1>2, <2>3, <2>4
<1> QED BY <1>6, <1>7 DEF ShowInv

\* A write lands over writes that were enqueued before it.
LEMMA ExecuteShow ==
    ASSUME IInv, OrderInv, ShowInv, Execute
    PROVE  ShowInv'
<1>1. hand.id \in Jobs
  BY HeldJobStarted DEF Execute, Holding
<1>2. PICK h \in Jobs : h = hand.id
  BY <1>1
<1>3. /\ worker = "executing" /\ worker' = "reporting" /\ hand' = hand
      /\ UNCHANGED <<pushOrder, firstPicks, pickups, outcome>>
  BY DEF Execute, history
<1>4. \A j \in Jobs : Target[j] \in Cells
  BY WriteQueueAssumption
<1>5. sheet \in [Cells -> Jobs \cup {NoJob}]
  BY DEF IInv, TypeInv, TypeOK
<1>6. ASSUME NoReplay
      PROVE  /\ Len(firstPicks) > 0 /\ h = firstPicks[Len(firstPicks)]
             /\ NewestWriteShows
  BY <1>2, <1>3, <1>6 DEF ShowInv, Holding
<1>7. CASE sheet' = [sheet EXCEPT ![Target[h]] = h]
  <2>1. sheet'[Target[hand'.id]] = hand'.id
    BY <1>2, <1>3, <1>4, <1>5, <1>7
  <2>2. ASSUME NoReplay, NEW j \in Jobs, outcome[j] = "completed"
        PROVE  ~ Before(sheet'[Target[j]], j)
    <3>1. pickups[j] > 0
      BY <2>2 DEF ShowInv
    <3>2. CASE Target[j] = Target[h]
      <4>1. ~ Before(h, j)
        BY <1>6, <2>2, <3>1, LastPickIsNewest
      <4> QED BY <1>4, <1>5, <1>7, <3>2, <4>1
    <3>3. CASE Target[j] # Target[h]
      <4>1. sheet'[Target[j]] = sheet[Target[j]]
        BY <1>4, <1>5, <1>7, <3>3
      <4> QED BY <1>6, <2>2, <4>1 DEF NewestWriteShows
    <3> QED BY <3>2, <3>3
  <2>3. NoReplay => NewestWriteShows'
    BY <1>3, <2>2 DEF NewestWriteShows, Before
  <2> QED BY <1>3, <2>1, <2>3 DEF ShowInv, NoReplay, Holding
<1>8. CASE ~ resultOk' /\ UNCHANGED sheet
  BY <1>3, <1>8 DEF ShowInv, NoReplay, NewestWriteShows, Before, Holding
<1> QED BY <1>2, <1>7, <1>8 DEF Execute

\* A job is reported while the sheet shows it, or as failed.
LEMMA ReportShow ==
    ASSUME IInv, OrderInv, ShowInv, Report
    PROVE  ShowInv'
<1>1. hand.id \in Jobs /\ pickups[hand.id] > 0
  BY HeldJobStarted DEF Report, Holding
<1>2. PICK h \in Jobs : h = hand.id
  BY <1>1
<1>3. /\ worker = "reporting" /\ worker' = "returned"
      /\ outcome' = [outcome EXCEPT ![h] = IF resultOk THEN "completed" ELSE "failed"]
      /\ UNCHANGED <<hand, pushOrder, firstPicks, pickups, sheet>>
  BY <1>2 DEF Report, history
<1>4. outcome \in [Jobs -> {"none", "completed", "failed"}]
  BY DEF IInv, TypeInv, TypeOK
<1>5. \A j \in Jobs \ {h} : outcome'[j] = outcome[j]
  BY <1>3, <1>4
<1>6. ~ Before(h, h)
  BY DEF Before, OrderInv
<1>7. ASSUME NoReplay, NEW j \in Jobs, outcome'[j] = "completed"
      PROVE  ~ Before(sheet[Target[j]], j)
  <2>1. CASE j = h
    <3>1. resultOk
      BY <1>3, <1>4, <1>7, <2>1
    <3>2. sheet[Target[h]] = h
      BY <1>2, <1>3, <1>7, <3>1 DEF ShowInv
    <3> QED BY <1>6, <2>1, <3>2
  <2>2. CASE j # h
    BY <1>5, <1>7, <2>2 DEF ShowInv, NewestWriteShows
  <2> QED BY <2>1, <2>2
<1>8. NoReplay => NewestWriteShows'
  BY <1>3, <1>7 DEF NewestWriteShows, Before
<1>9. \A j \in Jobs : outcome'[j] # "none" => pickups[j] > 0
  BY <1>1, <1>2, <1>5 DEF ShowInv
<1> QED BY <1>3, <1>8, <1>9 DEF ShowInv, NoReplay, Holding

\* Every step keeps what the sheet shows in step with the order.
LEMMA NextShow == IInv /\ OrderInv /\ ShowInv /\ [Next]_vars => ShowInv'
<1> SUFFICES ASSUME IInv, OrderInv, ShowInv, [Next]_vars PROVE ShowInv'
  OBVIOUS
<1> USE DEF lists, history, effects
<1>1. CASE UNCHANGED vars
  BY <1>1, SameShow DEF vars
<1>2. ASSUME NEW j \in Jobs, Push(j) PROVE ShowInv'
  BY <1>2, PushShow
<1>3. ASSUME NEW j \in Jobs, SetInitialState(j) \/ SetInitialStateFails(j) PROVE ShowInv'
  BY <1>3, SameShow DEF SetInitialState, SetInitialStateFails
<1>4. CASE Start \/ RecoverDone \/ RecoverPop \/ RecoverPut \/ NotifyBuried
           \/ RecoverPopFails \/ RecoverPutFails \/ Crash
  BY <1>4, SameShow DEF Start, RecoverDone, RecoverPop, RecoverPut, NotifyBuried,
     RecoverPopFails, RecoverPutFails, AbandonRecovery, Crash, Holding
<1>5. CASE GetJobState \/ SetJobState \/ SetJobStateFails
  <2>1. UNCHANGED <<pushOrder, firstPicks, pickups, sheet, outcome, resultOk>>
    BY <1>5 DEF GetJobState, SetJobState, SetJobStateFails
  <2>2. /\ worker' \in Holding => worker \in Holding /\ hand' = hand
        /\ worker' # "reporting"
    BY <1>5 DEF GetJobState, SetJobState, SetJobStateFails, AfterStateUpdate, StateUpdate,
       Holding
  <2> QED BY <2>1, <2>2, SameShow
<1>6. CASE Pick \/ PickReplyLost
  BY <1>6, BlmoveShow DEF Pick, PickReplyLost, Holding
<1>7. CASE Execute \/ Report
  BY <1>7, ExecuteShow, ReportShow
<1>8. CASE ExecuteRaises \/ Clear \/ ClearFails
  BY <1>8, SameShow DEF ExecuteRaises, Clear, ClearFails, Holding
<1> QED
  BY <1>1, <1>2, <1>3, <1>4, <1>5, <1>6, <1>7, <1>8
     DEF Next, Produce, Recover, UpdateState, Work, Fault

\* Nothing is reported at first.
LEMMA InitShow == Init => ShowInv
BY DEF Init, ShowInv, NewestWriteShows, Holding

\* As long as no job is picked up twice, a completed write is never hidden by one
\* that was enqueued before it.
THEOREM NewestShown == Spec => []NewestWriteShowsUnlessReplayed
<1>1. ShowInv => NewestWriteShowsUnlessReplayed
  BY DEF ShowInv, NoReplay, NewestWriteShowsUnlessReplayed
<1> QED BY <1>1, InitShow, NextShow, Invariance, Ordering, PTL DEF Spec

\* From process_job's report to the LREM an outcome is on record.
ReportedInv == worker \in {"returned", "clearing"} => outcome[hand.id] # "none"

\* Nothing is in hand at first.
LEMMA InitReported == Init => ReportedInv
BY DEF Init, ReportedInv

\* A job is returned from process_job only once its outcome is on record.
LEMMA NextReported == IInv /\ ReportedInv /\ [Next]_vars => ReportedInv'
<1> SUFFICES ASSUME IInv, ReportedInv, [Next]_vars PROVE ReportedInv'
  OBVIOUS
<1> USE DEF ReportedInv
<1>1. CASE UNCHANGED vars
  BY <1>1 DEF vars, effects
<1>2. CASE Produce
  BY <1>2 DEF Produce, Push, SetInitialState, SetInitialStateFails, effects
<1>3. CASE Start \/ Recover
  BY <1>3 DEF Start, Recover, RecoverDone, RecoverPop, RecoverPut, NotifyBuried, effects
<1>4. CASE UpdateState \/ SetJobStateFails
  BY <1>4 DEF UpdateState, GetJobState, SetJobState, SetJobStateFails,
     AfterStateUpdate, StateUpdate, effects
<1>5. CASE Work
  <2>1. CASE Report
    <3>1. hand.id \in Jobs
      BY <2>1, HeldJobStarted DEF Report, Holding
    <3>2. outcome'[hand.id] # "none"
      BY <2>1, <3>1 DEF Report, IInv, TypeInv, TypeOK
    <3> QED BY <2>1, <3>2 DEF Report
  <2> QED BY <1>5, <2>1 DEF Work, Pick, Execute, Clear, effects
<1>6. CASE Fault \/ Crash
  <2>1. CASE SetJobStateFails
    BY <1>4, <2>1
  <2> QED BY <1>6, <2>1 DEF Fault, Crash, RecoverPopFails, RecoverPutFails, AbandonRecovery,
        PickReplyLost, ExecuteRaises, ClearFails, effects
<1> QED BY <1>1, <1>2, <1>3, <1>4, <1>5, <1>6 DEF Next

\* Outcomes come before the LREM in every behaviour.
LEMMA Reporting == Spec => []ReportedInv
BY InitReported, NextReported, Invariance, PTL DEF Spec

\* What the worker is about to say of a job is true, and said of a job that was
\* picked up: so its user's ownership is not lost to it before the first pickup.
StatusInv ==
    /\ StatusTruthful
    /\ worker = "buried" => hand.id \in Ids(deadLetter)
    /\ worker \in {"requeued", "buried"} => pickups[hand.id] > 0

\* The steps that do not touch job_state.
LEMMA SameStatus ==
    ASSUME IInv, StatusInv, UNCHANGED <<jobState, producer>>,
           \A j \in Jobs : /\ outcome[j] # "none" => outcome'[j] # "none"
                           /\ pickups[j] > 0 => pickups'[j] > 0
                           /\ pickups'[j] \in Nat,
           Ids(deadLetter) \subseteq Ids(deadLetter'),
           worker' \in {"requeued", "buried"} =>
               worker' = worker /\ hand' = hand /\ pickups' = pickups
    PROVE  StatusInv'
<1>1. pickups \in [Jobs -> Nat]
  BY DEF IInv, TypeInv, TypeOK
<1>2. Ids(deadLetter)' = Ids(deadLetter')
  BY DEF Ids
<1>3. \A j \in Jobs : pickups'[j] = 0 => pickups[j] = 0
  BY <1>1
<1> QED BY <1>2, <1>3 DEF StatusInv, StatusTruthful

\* Recovery buries a job before it says so.
LEMMA PutStatus ==
    ASSUME IInv, StatusInv, PutBack,
           UNCHANGED <<jobState, producer, outcome, pickups>>,
           worker' = "buried" => hand.attempt + 1 > MaxAttempts,
           worker' \in {"requeued", "buried"} => hand' = Retried(hand)
    PROVE  StatusInv'
<1>1. /\ hand \in Envelope /\ Retried(hand) \in Envelope /\ Retried(hand).id = hand.id
      /\ worker = "moving" /\ hand.attempt \in Nat /\ MaxAttempts \in Nat
  BY WriteQueueAssumption
     DEF PutBack, IInv, TypeInv, HandOK, Empty, Retried, Envelope
<1>2. PICK k \in Jobs : k = hand.id
  BY <1>1 DEF Envelope
<1>3. pickups[k] > 0
  BY <1>1, <1>2 DEF IInv, AttemptInv
<1>4. /\ Ids(deadLetter) \subseteq Ids(deadLetter)'
      /\ hand.attempt + 1 > MaxAttempts => k \in Ids(deadLetter)'
  <2>1. CASE UNCHANGED deadLetter /\ hand.attempt + 1 <= MaxAttempts
    BY <1>1, <2>1 DEF Ids
  <2>2. CASE deadLetter' = Append(deadLetter, Retried(hand))
    BY <1>1, <1>2, <2>2, AppendEnvelope DEF IInv, TypeInv, TypeOK, Ids
  <2> QED BY <2>1, <2>2 DEF PutBack
<1>5. worker' \in {"requeued", "buried"} => hand'.id = k
  BY <1>1, <1>2
<1> QED BY <1>3, <1>4, <1>5 DEF StatusInv, StatusTruthful

\* The worker writes what is true of the job in its hand.
LEMMA SetStatus ==
    ASSUME IInv, ReportedInv, StatusInv, SetJobState
    PROVE  StatusInv'
<1>1. worker \in {"picked", "returned", "raised"} \/ worker \in {"requeued", "buried"}
  BY DEF SetJobState, StateUpdate
<1>2. hand.id \in Jobs /\ pickups[hand.id] > 0
  <2>1. CASE worker \in {"picked", "returned", "raised"}
    BY <2>1, HeldJobStarted DEF Holding
  <2>2. CASE worker \in {"requeued", "buried"}
    BY <2>2 DEF StatusInv, IInv, TypeInv, HandOK, Empty, Envelope
  <2> QED BY <1>1, <2>1, <2>2
<1>3. PICK h \in Jobs : h = hand.id
  BY <1>2
<1>4. /\ UNCHANGED <<producer, outcome, pickups, deadLetter>>
      /\ worker' \notin {"requeued", "buried"}
      /\ jobState' = [jobState EXCEPT ![h] = [seen EXCEPT !.status = StateUpdate[worker].status]]
  BY <1>3 DEF SetJobState, AfterStateUpdate, StateUpdate, lists, effects, history
<1>5. jobState \in [Jobs -> JobState] /\ seen \in JobState
  BY DEF SetJobState, IInv, TypeInv, TypeOK
<1>6. jobState'[h].status = StateUpdate[worker].status
  BY <1>4, <1>5 DEF JobState
<1>7. \A j \in Jobs \ {h} : jobState'[j] = jobState[j]
  BY <1>4, <1>5
<1>8. Ids(deadLetter)' = Ids(deadLetter)
  BY <1>4 DEF Ids
<1>9. jobState'[h].status = "done" => outcome[h] # "none"
  BY <1>1, <1>3, <1>6 DEF StateUpdate, ReportedInv
<1>10. jobState'[h].status = "dead_letter" => h \in Ids(deadLetter)
  BY <1>1, <1>3, <1>6 DEF StateUpdate, StatusInv
<1>11. pickups[h] # 0
  BY <1>2, <1>3
<1>12. ASSUME NEW j \in Jobs
       PROVE  /\ jobState'[j].status = "done" => outcome[j] # "none"
              /\ jobState'[j].status = "dead_letter" => j \in Ids(deadLetter)
              /\ producer[j] = "returned" /\ pickups[j] = 0 => jobState'[j].owned
  <2>1. CASE j = h
    BY <1>9, <1>10, <1>11, <2>1
  <2>2. CASE j # h
    BY <1>7, <2>2 DEF StatusInv, StatusTruthful
  <2> QED BY <2>1, <2>2
<1> QED BY <1>4, <1>8, <1>12 DEF StatusInv, StatusTruthful

\* The producer's state is queued and owned.
LEMMA ProduceStatus ==
    ASSUME IInv, StatusInv, NEW j \in Jobs, SetInitialState(j)
    PROVE  StatusInv'
<1>1. /\ jobState' = [jobState EXCEPT ![j] = [status |-> "queued", owned |-> TRUE]]
      /\ producer' = [producer EXCEPT ![j] = "returned"]
      /\ UNCHANGED <<deadLetter, worker, hand, outcome, pickups>>
  BY DEF SetInitialState, lists, effects, history
<1>2. /\ jobState \in [Jobs -> JobState]
      /\ producer \in [Jobs -> {"idle", "pushed", "returned", "returned-unset"}]
  BY DEF IInv, TypeInv, TypeOK
<1>3. jobState'[j].status = "queued" /\ jobState'[j].owned
  BY <1>1, <1>2
<1>4. \A k \in Jobs \ {j} : jobState'[k] = jobState[k] /\ producer'[k] = producer[k]
  BY <1>1, <1>2
<1>5. Ids(deadLetter)' = Ids(deadLetter)
  BY <1>1 DEF Ids
<1> QED BY <1>1, <1>3, <1>4, <1>5 DEF StatusInv, StatusTruthful

\* Every step keeps the statuses true.
LEMMA NextStatus == IInv /\ IInv' /\ ReportedInv /\ StatusInv /\ [Next]_vars => StatusInv'
<1> SUFFICES ASSUME IInv, IInv', ReportedInv, StatusInv, [Next]_vars PROVE StatusInv'
  OBVIOUS
<1> USE DEF lists, history, effects
<1>1. \A j \in Jobs : pickups[j] \in Nat /\ pickups'[j] \in Nat
  BY DEF IInv, TypeInv, TypeOK
<1>2. CASE UNCHANGED vars
  BY <1>1, <1>2, SameStatus DEF vars
<1>3. ASSUME NEW j \in Jobs, Push(j) \/ SetInitialStateFails(j) PROVE StatusInv'
  <2>1. PICK p \in {"pushed", "returned-unset"} : producer' = [producer EXCEPT ![j] = p]
    BY <1>3 DEF Push, SetInitialStateFails
  <2>2. UNCHANGED <<deadLetter, jobState, worker, hand, outcome, pickups>>
    BY <1>3 DEF Push, SetInitialStateFails
  <2>3. \A k \in Jobs : producer'[k] = "returned" => producer[k] = "returned"
    BY <2>1 DEF IInv, TypeInv, TypeOK
  <2>4. Ids(deadLetter)' = Ids(deadLetter)
    BY <2>2 DEF Ids
  <2> QED BY <2>2, <2>3, <2>4 DEF StatusInv, StatusTruthful
<1>4. ASSUME NEW j \in Jobs, SetInitialState(j) PROVE StatusInv'
  BY <1>4, ProduceStatus
<1>5. CASE Start \/ RecoverDone \/ RecoverPop \/ NotifyBuried \/ RecoverPopFails \/ Crash
  BY <1>1, <1>5, SameStatus DEF Start, RecoverDone, RecoverPop, NotifyBuried,
     RecoverPopFails, AbandonRecovery, Crash
<1>6. CASE RecoverPut
  <2>1. hand.attempt \in Nat /\ MaxAttempts \in Nat
    BY <1>6, WriteQueueAssumption
       DEF RecoverPut, PutBack, IInv, TypeInv, HandOK, Empty, Envelope
  <2> QED BY <1>6, <2>1, PutStatus DEF RecoverPut
<1>7. CASE RecoverPutFails
  <2>1. CASE PutBack
    BY <1>7, <2>1, PutStatus DEF RecoverPutFails, AbandonRecovery
  <2>2. CASE UNCHANGED deadLetter
    BY <1>1, <1>7, <2>2, SameStatus DEF RecoverPutFails, AbandonRecovery
  <2> QED BY <1>7, <2>1, <2>2 DEF RecoverPutFails
<1>8. CASE GetJobState
  BY <1>1, <1>8, SameStatus DEF GetJobState
<1>9. CASE SetJobState
  BY <1>9, SetStatus
<1>10. CASE SetJobStateFails
  <2>1. worker' \notin {"requeued", "buried"}
    BY <1>10 DEF SetJobStateFails, AfterStateUpdate, StateUpdate
  <2> QED BY <1>1, <1>10, <2>1, SameStatus DEF SetJobStateFails
<1>11. CASE Pick \/ PickReplyLost
  <2>1. /\ Blmove /\ worker' \notin {"requeued", "buried"}
        /\ UNCHANGED <<jobState, producer, outcome, deadLetter>>
    BY <1>11 DEF Pick, PickReplyLost
  <2>2. \A j \in Jobs : pickups[j] > 0 => pickups'[j] > 0
    <3>1. PICK k : pickups' = [pickups EXCEPT ![k] = pickups[k] + 1]
      BY <2>1 DEF Blmove
    <3>2. pickups \in [Jobs -> Nat]
      BY DEF IInv, TypeInv, TypeOK
    <3> QED BY <3>1, <3>2
  <2> QED BY <1>1, <2>1, <2>2, SameStatus
<1>12. CASE Report
  <2>1. hand.id \in Jobs
    BY <1>12, HeldJobStarted DEF Report, Holding
  <2>2. \A j \in Jobs : outcome[j] # "none" => outcome'[j] # "none"
    BY <1>12, <2>1 DEF Report, IInv, TypeInv, TypeOK
  <2> QED BY <1>1, <1>12, <2>2, SameStatus DEF Report
<1>13. CASE Execute \/ ExecuteRaises \/ Clear \/ ClearFails
  BY <1>1, <1>13, SameStatus DEF Execute, ExecuteRaises, Clear, ClearFails
<1> QED
  BY <1>2, <1>3, <1>4, <1>5, <1>6, <1>7, <1>8, <1>9, <1>10, <1>11, <1>12, <1>13
     DEF Next, Produce, Recover, UpdateState, Work, Fault

\* No status is stored at first.
LEMMA InitStatus == Init => StatusInv
BY DEF Init, StatusInv, StatusTruthful, NoState

\* What GET /jobs/{id} answers about done and dead-lettered jobs is so, and a user
\* can ask for a job until a worker has picked it up.
THEOREM StatusCorrect == Spec => []StatusTruthful
<1>1. StatusInv => StatusTruthful
  BY DEF StatusInv
<1> QED BY <1>1, InitStatus, NextStatus, Reporting, Invariance, PTL DEF Spec

-----------------------------------------------------------------------------
(* The queue implements the ledger *)

\* The part of the ledger that a step leaves alone.
ledger == <<[j \in Jobs |-> Phase(j)], pickups, sheet, outcome>>

\* The steps that leave every job's phase alone.
LEMMA SamePhases ==
    ASSUME UNCHANGED <<Enqueued, cleared, Ids(deadLetter), dropped>>
    PROVE  [j \in Jobs |-> Phase(j)]' = [j \in Jobs |-> Phase(j)]
BY DEF Phase

\* The queue starts as the ledger does.
LEMMA InitLedger == Init => Ledger!Init
<1> SUFFICES ASSUME Init PROVE Ledger!Init
  OBVIOUS
<1>1. \A j \in Jobs : Phase(j) = "new"
  BY DEF Init, Phase, Enqueued
<1> QED BY <1>1 DEF Init, Ledger!Init

\* Every step is one of the ledger's or a stutter.
LEMMA NextLedger ==
    IInv /\ IInv' /\ ReportedInv /\ [Next]_vars => [Ledger!Next]_(Ledger!vars)
<1> SUFFICES ASSUME IInv, IInv', ReportedInv, [Next]_vars, ~ UNCHANGED Ledger!vars
             PROVE  Ledger!Next
  OBVIOUS
<1>A. ~ UNCHANGED ledger
  BY DEF ledger, Ledger!vars
<1>1. CASE UNCHANGED vars
  BY <1>1, <1>A DEF vars, lists, effects, history, ledger, Phase, Enqueued, Ids
<1>2. ASSUME NEW j \in Jobs, Push(j)
      PROVE  Ledger!Next
  <2>1. Phase(j) = "new"
    BY <1>2 DEF Push, Phase, Enqueued
  <2>2. Enqueued' = Enqueued \cup {j} /\ j \notin Enqueued
    BY <1>2 DEF Push, Enqueued, IInv, TypeInv, TypeOK
  <2>3. j \notin Gone
    BY <2>2 DEF IInv, PlaceInv, IdleNowhere
  <2>4. UNCHANGED <<cleared, Ids(deadLetter), dropped, pickups, sheet, outcome>>
    BY <1>2 DEF Push, Ids, effects
  <2>5. Phase(j)' = "open" /\ \A k \in Jobs \ {j} : Phase(k)' = Phase(k)
    BY <2>2, <2>3, <2>4 DEF Phase, Gone
  <2>6. Ledger!Accept(j)
    BY <2>1, <2>4, <2>5 DEF Ledger!Accept
  <2> QED BY <2>6 DEF Ledger!Next
<1>3. ASSUME NEW j \in Jobs, SetInitialState(j) \/ SetInitialStateFails(j)
      PROVE  Ledger!Next
  <2>1. UNCHANGED <<Enqueued, cleared, Ids(deadLetter), dropped, pickups, sheet, outcome>>
    BY <1>3 DEF SetInitialState, SetInitialStateFails, Enqueued, Ids, lists, effects,
       history, IInv, TypeInv, TypeOK
  <2> QED BY <2>1, <1>A, SamePhases DEF ledger
<1>4. CASE Start \/ RecoverDone \/ RecoverPop \/ NotifyBuried \/ GetJobState
           \/ SetJobState \/ SetJobStateFails \/ ExecuteRaises \/ ClearFails
  <2>1. UNCHANGED <<Enqueued, cleared, Ids(deadLetter), dropped, pickups, sheet, outcome>>
    BY <1>4 DEF Start, RecoverDone, RecoverPop, NotifyBuried, GetJobState, SetJobState,
       SetJobStateFails, ExecuteRaises, ClearFails, Enqueued, Ids, lists, effects, history
  <2> QED BY <2>1, <1>A, SamePhases DEF ledger
<1>5. CASE PutBack /\ UNCHANGED <<producer, cleared, dropped, pickups, sheet, outcome>>
  <2>1. hand \in Envelope /\ Retried(hand) \in Envelope /\ Retried(hand).id = hand.id
    BY <1>5 DEF PutBack, IInv, TypeInv, HandOK, Empty, Retried, Envelope
  <2>2. PICK k \in Jobs : k = hand.id
    BY <2>1 DEF Envelope
  <2>3. CASE UNCHANGED deadLetter
    <3>1. UNCHANGED <<Enqueued, Ids(deadLetter)>>
      BY <1>5, <2>3 DEF Enqueued, Ids
    <3> QED BY <1>5, <3>1, <1>A, SamePhases DEF ledger
  <2>4. CASE hand.attempt + 1 > MaxAttempts
             /\ deadLetter' = Append(deadLetter, Retried(hand))
    <3>1. Ids(deadLetter)' = Ids(deadLetter) \cup {k}
      BY <2>1, <2>2, <2>4, AppendEnvelope DEF IInv, TypeInv, TypeOK
    <3>2. k \in Enqueued /\ k \notin Gone
      BY <1>5, <2>2 DEF PutBack, InRecoverysHand, IInv, PlaceInv, IdleNowhere,
         NoJobTwice, Live
    <3>3. pickups[k] = MaxAttempts + 1
      BY <1>5, <2>1, <2>2, <2>4, WriteQueueAssumption
         DEF PutBack, IInv, AttemptInv, Envelope
    <3>4. Enqueued' = Enqueued
      BY <1>5 DEF Enqueued
    <3>5. Phase(k) = "open" /\ Phase(k)' = "buried"
      BY <1>5, <3>1, <3>2, <3>4 DEF Phase, Gone
    <3>6. \A j \in Jobs \ {k} : Phase(j)' = Phase(j)
      BY <1>5, <3>1, <3>4 DEF Phase
    <3>7. Ledger!Bury(k)
      BY <1>5, <3>3, <3>5, <3>6 DEF Ledger!Bury
    <3> QED BY <3>7 DEF Ledger!Next
  <2> QED BY <1>5, <2>3, <2>4 DEF PutBack
<1>6. ASSUME dropped' # dropped,
             UNCHANGED <<producer, cleared, deadLetter, pickups, sheet, outcome>>,
             NEW k \in Jobs, k \in Live, pickups[k] > 0, dropped' = dropped \cup {k}
      PROVE  Ledger!Next
  <2>1. k \in Enqueued /\ k \notin Gone
    BY <1>6 DEF IInv, PlaceInv, IdleNowhere, NoJobTwice
  <2>2. UNCHANGED <<Enqueued, Ids(deadLetter)>>
    BY <1>6 DEF Enqueued, Ids
  <2>3. Phase(k) = "open" /\ Phase(k)' = "lost"
    BY <1>6, <2>1, <2>2 DEF Phase, Gone
  <2>4. \A j \in Jobs \ {k} : Phase(j)' = Phase(j)
    BY <1>6, <2>2 DEF Phase
  <2>5. Ledger!Lose(k)
    BY <1>6, <2>3, <2>4 DEF Ledger!Lose, Ledger!Started
  <2> QED BY <2>5 DEF Ledger!Next
<1>7. ASSUME UNCHANGED <<producer, cleared, deadLetter, dropped, pickups, sheet, outcome>>
      PROVE  Ledger!Next
  <2>1. UNCHANGED <<Enqueued, Ids(deadLetter)>>
    BY <1>7 DEF Enqueued, Ids
  <2> QED BY <1>7, <2>1, <1>A, SamePhases DEF ledger
\* Recovery's hand is a job that was picked up.
<1>8. ASSUME worker = "moving"
      PROVE  hand.id \in Jobs /\ hand.id \in Live /\ pickups[hand.id] > 0
  <2>1. hand \in Envelope /\ hand.id \in Live
    BY <1>8 DEF IInv, TypeInv, HandOK, Empty, Live, InRecoverysHand
  <2> QED BY <1>8, <2>1 DEF IInv, AttemptInv, Envelope
<1>9. CASE RecoverPut
  BY <1>9, <1>5 DEF RecoverPut, effects, history
<1>10. CASE RecoverPopFails
  <2>1. CASE UNCHANGED dropped
    BY <1>7, <1>10, <2>1 DEF RecoverPopFails, AbandonRecovery, effects
  <2>2. CASE dropped' # dropped
    <3>1. processing \in Seq(Envelope) /\ processing # <<>>
          /\ dropped' = dropped \cup {Head(processing).id}
      BY <1>10, <2>2 DEF RecoverPopFails, IInv, TypeInv, TypeOK
    <3>2. Head(processing) \in Envelope /\ Head(processing) \in ToSet(processing)
      BY <3>1, PopEnvelope
    <3>3. PICK k \in Jobs : k = Head(processing).id
      BY <3>2 DEF Envelope
    <3>4. k \in Live
      BY <3>2, <3>3 DEF Live, Ids
    <3>5. pickups[k] > 0
      BY <3>2, <3>3 DEF IInv, AttemptInv, Envelope
    <3> QED
      BY <1>6, <1>10, <2>2, <3>1, <3>3, <3>4, <3>5 DEF RecoverPopFails, AbandonRecovery, effects
  <2> QED BY <2>1, <2>2
<1>11. CASE RecoverPutFails
  <2>1. CASE PutBack /\ UNCHANGED dropped
    BY <1>5, <1>11, <2>1 DEF RecoverPutFails, AbandonRecovery, effects
  <2>2. CASE UNCHANGED <<deadLetter, dropped>>
    BY <1>7, <1>11, <2>2 DEF RecoverPutFails, AbandonRecovery, effects
  <2>3. CASE dropped' = dropped \cup {hand.id} /\ UNCHANGED deadLetter /\ dropped' # dropped
    <3>1. PICK k \in Jobs : k = hand.id
      BY <1>8, <1>11 DEF RecoverPutFails
    <3>2. k \in Live /\ pickups[k] > 0
      BY <1>8, <1>11, <3>1 DEF RecoverPutFails
    <3> QED
      BY <1>6, <1>11, <2>3, <3>1, <3>2 DEF RecoverPutFails, AbandonRecovery, effects
  <2> QED BY <1>11, <2>1, <2>2, <2>3 DEF RecoverPutFails
<1>12. CASE Crash
  <2>1. CASE UNCHANGED dropped
    BY <1>7, <1>12, <2>1 DEF Crash, lists, effects
  <2>2. CASE dropped' # dropped
    <3>1. worker = "moving" /\ dropped' = dropped \cup {hand.id}
      BY <1>12, <2>2 DEF Crash
    <3>2. PICK k \in Jobs : k = hand.id
      BY <1>8, <3>1
    <3>3. k \in Live /\ pickups[k] > 0
      BY <1>8, <3>1, <3>2
    <3> QED BY <1>6, <1>12, <2>2, <3>1, <3>2, <3>3 DEF Crash, lists, effects
  <2> QED BY <2>1, <2>2
<1>13. CASE Blmove /\ UNCHANGED <<producer, cleared, deadLetter, dropped, sheet, outcome>>
  <2>1. queue \in Seq(Envelope) /\ queue # <<>>
    BY <1>13 DEF Blmove, IInv, TypeInv, TypeOK
  <2>2. Head(queue) \in Envelope /\ Head(queue) \in ToSet(queue)
    BY <2>1, PopEnvelope
  <2>3. PICK k \in Jobs : k = Head(queue).id
    BY <2>2 DEF Envelope
  <2>4. k \in Live /\ pickups[k] <= MaxAttempts
    BY <2>2, <2>3 DEF Live, Ids, IInv, AttemptInv
  <2>5. k \in Enqueued /\ k \notin Gone
    BY <2>4 DEF IInv, PlaceInv, IdleNowhere, NoJobTwice
  <2>6. Phase(k) = "open"
    BY <2>5 DEF Phase, Gone
  <2>7. pickups' = [pickups EXCEPT ![k] = @ + 1]
    BY <1>13, <2>3 DEF Blmove
  <2>8. UNCHANGED <<Enqueued, Ids(deadLetter)>>
    BY <1>13 DEF Enqueued, Ids
  <2>9. pickups[k] < MaxAttempts + 1
    BY <2>4, WriteQueueAssumption DEF IInv, TypeInv, TypeOK
  <2>10. Ledger!Begin(k)
    BY <1>13, <2>6, <2>7, <2>8, <2>9, SamePhases DEF Ledger!Begin
  <2> QED BY <2>10 DEF Ledger!Next
<1>14. CASE Pick \/ PickReplyLost
  BY <1>13, <1>14 DEF Pick, PickReplyLost, effects
<1>15. CASE Execute
  <2>1. PICK k \in Jobs : k = hand.id
    BY <1>15, HeldJobStarted DEF Execute, Holding
  <2>2. Phase(k) = "open" /\ pickups[k] > 0
    BY <1>15, <2>1, HeldJobStarted DEF Execute, Holding
  <2>3. UNCHANGED <<Enqueued, cleared, Ids(deadLetter), dropped, pickups, outcome>>
    BY <1>15 DEF Execute, Enqueued, Ids, lists, history
  <2>4. CASE sheet' = [sheet EXCEPT ![Target[k]] = k]
    <3>1. Ledger!Land(k)
      BY <2>2, <2>3, <2>4, SamePhases DEF Ledger!Land, Ledger!Started
    <3> QED BY <3>1 DEF Ledger!Next
  <2>5. CASE UNCHANGED sheet
    BY <2>3, <2>5, <1>A, SamePhases DEF ledger
  <2> QED BY <1>15, <2>1, <2>4, <2>5 DEF Execute
<1>16. CASE Report
  <2>1. PICK k \in Jobs : k = hand.id
    BY <1>16, HeldJobStarted DEF Report, Holding
  <2>2. Phase(k) = "open" /\ pickups[k] > 0
    BY <1>16, <2>1, HeldJobStarted DEF Report, Holding
  <2>3. UNCHANGED <<Enqueued, cleared, Ids(deadLetter), dropped, pickups, sheet>>
    BY <1>16 DEF Report, Enqueued, Ids, lists, history
  <2>4. \E v \in {"completed", "failed"} : outcome' = [outcome EXCEPT ![k] = v]
    BY <1>16, <2>1 DEF Report
  <2>5. Ledger!Judge(k)
    BY <2>2, <2>3, <2>4, SamePhases DEF Ledger!Judge, Ledger!Started
  <2> QED BY <2>5 DEF Ledger!Next
<1>17. CASE Clear
  <2>1. PICK k \in Jobs : k = hand.id
    BY <1>17, HeldJobStarted DEF Clear, Holding
  <2>2. Phase(k) = "open" /\ pickups[k] > 0
    BY <1>17, <2>1, HeldJobStarted DEF Clear, Holding
  <2>3. outcome[k] # "none"
    BY <1>17, <2>1 DEF Clear, ReportedInv
  <2>4. UNCHANGED <<Enqueued, Ids(deadLetter), dropped, pickups, sheet, outcome>>
        /\ cleared' = cleared \cup {k}
    BY <1>17, <2>1 DEF Clear, Enqueued, Ids, effects
  <2>5. Phase(k)' = "finished" /\ \A j \in Jobs \ {k} : Phase(j)' = Phase(j)
    BY <2>2, <2>4 DEF Phase
  <2>6. Ledger!Finish(k)
    BY <2>2, <2>3, <2>4, <2>5 DEF Ledger!Finish, Ledger!Started
  <2> QED BY <2>6 DEF Ledger!Next
<1> QED
  BY <1>1, <1>2, <1>3, <1>4, <1>9, <1>10, <1>11, <1>12, <1>14, <1>15, <1>16, <1>17
     DEF Next, Produce, Recover, UpdateState, Work, Fault

\* At-least-once delivery as a whole (worker.py 30-36): whatever crashes and
\* Redis faults occur, queue, worker and recovery behave like the ledger.
THEOREM Refinement == Spec => ImplementsLedger
<1> QED BY Reporting, Invariance, InitLedger, NextLedger, PTL
        DEF Spec, ImplementsLedger, Ledger!Spec
=============================================================================
