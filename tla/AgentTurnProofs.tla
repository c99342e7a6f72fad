-------------------------- MODULE AgentTurnProofs --------------------------
(***************************************************************************)
(* Proofs about AgentTurn for any sets of sockets and tabs, any limits,    *)
(* and any number of turns, tool calls and faults.                         *)
(***************************************************************************)
EXTENDS AgentTurn, SequenceTheorems, WellFoundedInduction, TLAPS

-----------------------------------------------------------------------------
(* Parts of a conversation *)

\* The part of a conversation from its a-th message on.
From(ms, a) == SubSeq(ms, a, Len(ms))

\* It has the same messages, moved to the front.
LEMMA FromProperties ==
  ASSUME NEW ms \in Seq(Message), NEW a \in 1..(Len(ms) + 1)
  PROVE  /\ Len(ms) \in Nat
         /\ From(ms, a) \in Seq(Message)
         /\ Len(From(ms, a)) = Len(ms) - a + 1
         /\ \A i \in 1..Len(From(ms, a)) : From(ms, a)[i] = ms[a + i - 1]
<1>1. Len(ms) \in Nat /\ \A i \in a..Len(ms) : ms[i] \in Message
  BY LenProperties, ElementOfSeq
<1>2. /\ SubSeq(ms, a, Len(ms)) \in Seq(Message)
      /\ Len(SubSeq(ms, a, Len(ms))) = IF a <= Len(ms) THEN Len(ms) - a + 1 ELSE 0
      /\ \A i \in 1..(Len(ms) - a + 1) : SubSeq(ms, a, Len(ms))[i] = ms[a + i - 1]
  BY <1>1, SubSeqProperties
<1> QED
  BY <1>1, <1>2 DEF From

\* A limit keeps the end of a conversation, and no more than it allows.
LEMMA NewestIsEnd ==
  ASSUME NEW ms \in Seq(Message), NEW n \in Nat
  PROVE  \E a \in 1..(Len(ms) + 1) : Newest(ms, n) = From(ms, a) /\ Len(From(ms, a)) <= n
<1>1. Len(ms) \in Nat
  BY LenProperties
<1>2. CASE Len(ms) <= n
  <2>1. From(ms, 1) = ms
    BY SubSeqFull DEF From
  <2> QED
    BY <1>1, <1>2, <2>1 DEF Newest
<1>3. CASE Len(ms) > n
  <2> DEFINE a == Len(ms) - n + 1
  <2>1. a \in 1..(Len(ms) + 1) /\ Newest(ms, n) = From(ms, a)
    BY <1>1, <1>3 DEF Newest, From
  <2>2. Len(From(ms, a)) = n
    BY <1>1, <1>3, <2>1, FromProperties
  <2> QED
    BY <2>1, <2>2
<1> QED
  BY <1>1, <1>2, <1>3

\* A set of naturals that is not empty has a least member.
LEMMA LeastExists ==
  ASSUME NEW S \in SUBSET Nat, S # {}
  PROVE  \E x \in S : \A y \in S : x <= y
<1> DEFINE R == OpToRel(<, Nat)
<1>1. IsWellFoundedOn(R, Nat)
  BY NatLessThanWellFounded
<1>2. PICK x \in S : \A y \in S : ~(<<y, x>> \in R)
  BY <1>1, WFMin, Zenon
<1>3. \A y \in S : ~(y < x)
  BY <1>2 DEF OpToRel
<1> QED
  BY <1>3

\* A set with 0 and with the successor of each of its numbers has all of them, up
\* to a limit.
LEMMA CountUp ==
  ASSUME NEW N \in Nat, NEW S, 0 \in S, \A n \in 1..N : n - 1 \in S => n \in S
  PROVE  0..N \subseteq S
<1> DEFINE Missing == { n \in 0..N : n \notin S }
<1> SUFFICES ASSUME Missing # {} PROVE FALSE
  OBVIOUS
<1>1. \E x \in Missing : \A y \in Missing : x <= y
  <2>1. Missing \in SUBSET Nat
    OBVIOUS
  <2> HIDE DEF Missing
  <2> QED
    BY <2>1, LeastExists
<1>2. PICK x \in Missing : \A y \in Missing : x <= y
  BY <1>1
<1>3. x \in 1..N /\ x - 1 \in 0..N /\ ~ (x <= x - 1)
  OBVIOUS
<1>4. x - 1 \in S
  BY <1>2, <1>3
<1> QED
  BY <1>3, <1>4

\* So does opening it at the first message of some roles.
LEMMA FromFirstIsEnd ==
  ASSUME NEW ms \in Seq(Message), NEW roles
  PROVE  \E a \in 1..(Len(ms) + 1) :
            /\ FromFirst(ms, roles) = From(ms, a)
            /\ a <= Len(ms) => ms[a].role \in roles
<1> DEFINE starts == { i \in 1..Len(ms) : ms[i].role \in roles }
           m == CHOOSE i \in starts : \A k \in starts : i <= k
<1>1. Len(ms) \in Nat
  BY LenProperties
<1>2. CASE starts = {}
  <2>1. From(ms, Len(ms) + 1) = <<>>
    BY <1>1, SubSeqEmpty DEF From
  <2> QED
    BY <1>1, <1>2, <2>1 DEF FromFirst
<1>3. CASE starts # {}
  <2>1. \E x \in starts : \A y \in starts : x <= y
    <3>1. starts \in SUBSET Nat
      BY <1>1
    <3> HIDE DEF starts
    <3> QED
      BY <1>3, <3>1, LeastExists
  <2>2. m \in starts
    BY <2>1
  <2>3. FromFirst(ms, roles) = From(ms, m)
    BY <1>3 DEF FromFirst, From
  <2> HIDE DEF m
  <2> QED
    BY <1>1, <2>2, <2>3
<1> QED
  BY <1>2, <1>3

-----------------------------------------------------------------------------
(* Calls and results *)

\* Every call is answered, except in turns that were torn.
CallsAnswered(ms, lost) ==
    \A i \in 1..Len(ms) :
        ms[i].role = "assistant" /\ ms[i].turn \notin lost => Answered(ms, i)

\* Every result has its call before it, or was parted from it by a limit: then
\* nothing but results is before it.
Orphan(ms, i) == \A x \in 1..i : ms[x].role = "tool"
ResultsOwned(ms) ==
    \A i \in 1..Len(ms) : ms[i].role = "tool" => HasCall(ms, i) \/ Orphan(ms, i)

Sound(ms, lost) == CallsAnswered(ms, lost) /\ ResultsOwned(ms)

\* No cut makes a conversation unsound.
LEMMA FromSound ==
  ASSUME NEW ms \in Seq(Message), NEW a \in 1..(Len(ms) + 1), NEW lost, Sound(ms, lost)
  PROVE  Sound(From(ms, a), lost)
<1> DEFINE t == From(ms, a)
<1>1. /\ Len(ms) \in Nat /\ Len(t) = Len(ms) - a + 1
      /\ \A i \in 1..Len(t) : t[i] = ms[a + i - 1]
  BY FromProperties
<1> HIDE DEF t
<1>2. ASSUME NEW i \in 1..Len(t), t[i].role = "assistant", t[i].turn \notin lost
      PROVE  Answered(t, i)
  <2> DEFINE j == a + i - 1
  <2>1. j \in 1..Len(ms) /\ t[i] = ms[j]
    BY <1>1
  <2>2. Answered(ms, j)
    BY <1>2, <2>1 DEF Sound, CallsAnswered
  <2> SUFFICES ASSUME NEW k \in 1..t[i].calls
               PROVE  /\ i + k <= Len(t) /\ t[i + k].role = "tool"
                      /\ t[i + k].turn = t[i].turn /\ t[i + k].of = t[i].at
    BY DEF Answered
  <2>3. /\ j + k <= Len(ms) /\ ms[j + k].role = "tool"
        /\ ms[j + k].turn = ms[j].turn /\ ms[j + k].of = ms[j].at
    BY <2>1, <2>2 DEF Answered
  <2>4. k \in Int /\ k >= 1
    BY <2>1, ElementOfSeq DEF Message
  <2>5. i + k \in 1..Len(t) /\ a + (i + k) - 1 = j + k
    BY <1>1, <2>3, <2>4
  <2>6. t[i + k] = ms[j + k]
    BY <1>1, <2>5
  <2> QED
    BY <2>1, <2>3, <2>5, <2>6
<1>3. ASSUME NEW i \in 1..Len(t), t[i].role = "tool"
      PROVE  HasCall(t, i) \/ Orphan(t, i)
  <2> DEFINE j == a + i - 1
  <2>1. j \in 1..Len(ms) /\ t[i] = ms[j]
    BY <1>1
  <2>2. HasCall(ms, j) \/ Orphan(ms, j)
    BY <1>3, <2>1 DEF Sound, ResultsOwned
  <2>3. CASE Orphan(ms, j)
    BY <1>1, <2>1, <2>3, SMTT(30) DEF Orphan
  <2>4. CASE HasCall(ms, j)
    <3>1. PICK k \in 1..(j - 1) :
            /\ ms[k].role = "assistant" /\ j - k <= ms[k].calls
            /\ \A x \in (k + 1)..j : /\ ms[x].role = "tool"
                                     /\ ms[x].turn = ms[k].turn /\ ms[x].of = ms[k].at
      BY <2>4 DEF HasCall
    <3>2. CASE k < a
      <4>1. \A x \in 1..i : t[x] = ms[a + x - 1] /\ a + x - 1 \in (k + 1)..j
        BY <1>1, <3>2
      <4> QED
        BY <3>1, <4>1 DEF Orphan
    <3>3. CASE k >= a
      <4> DEFINE b == k - a + 1
      <4>1. b \in 1..(i - 1) /\ t[b] = ms[k] /\ i - b = j - k
        <5>1. k \in Int /\ i \in Int /\ a \in Int /\ a >= 1 /\ k <= j - 1
          BY <1>1, <2>1
        <5>2. b \in 1..(i - 1) /\ i - b = j - k /\ a + b - 1 = k
          BY <3>3, <5>1
        <5>3. b \in 1..Len(t)
          BY <1>1, <5>2
        <5>4. t[b] = ms[a + b - 1]
          BY <1>1, <5>3
        <5> QED
          BY <5>2, <5>4
      <4>2. \A x \in (b + 1)..i : t[x] = ms[a + x - 1] /\ a + x - 1 \in (k + 1)..j
        BY <1>1, <3>3
      <4>3. \A x \in (b + 1)..i : /\ t[x].role = "tool"
                                  /\ t[x].turn = t[b].turn /\ t[x].of = t[b].at
        BY <3>1, <4>1, <4>2
      <4> QED
        BY <3>1, <4>1, <4>3 DEF HasCall
    <3> QED
      BY <3>2, <3>3
  <2> QED
    BY <2>2, <2>3, <2>4
<1> QED
  BY <1>2, <1>3 DEF Sound, CallsAnswered, ResultsOwned, t

\* What trim_for_model sends is sound, within the limit, and does not begin with
\* a result.
LEMMA TrimProperties ==
  ASSUME NEW ms \in Seq(Message), NEW lost
  PROVE  /\ TrimForModel(ms) \in Seq(Message)
         /\ Len(TrimForModel(ms)) \in 0..MaxModel
         /\ Len(TrimForModel(ms)) > 0 => TrimForModel(ms)[1].role # "tool"
         /\ Sound(ms, lost) => Sound(TrimForModel(ms), lost)
<1> USE AgentTurnAssumption
<1> DEFINE window == Newest(ms, MaxModel)
<1>1. /\ window \in Seq(Message) /\ Len(window) \in 0..MaxModel
      /\ Sound(ms, lost) => Sound(window, lost)
  <2>1. PICK a \in 1..(Len(ms) + 1) :
          window = From(ms, a) /\ Len(From(ms, a)) <= MaxModel
    BY NewestIsEnd
  <2>2. window \in Seq(Message) /\ (Sound(ms, lost) => Sound(window, lost))
    BY <2>1, FromProperties, FromSound
  <2>3. Len(window) \in Nat
    BY <2>2, LenProperties
  <2> QED
    BY <2>1, <2>2, <2>3
<1> HIDE DEF window
<1>2. PICK roles : /\ TrimForModel(ms) = FromFirst(window, roles) /\ "tool" \notin roles
  <2>1. \/ TrimForModel(ms) = FromFirst(window, {"user"})
        \/ TrimForModel(ms) = FromFirst(window, Roles \ {"tool"})
    <3>1. DropLeadingOrphans(window) = FromFirst(window, Roles \ {"tool"})
      BY DEF DropLeadingOrphans
    <3> QED
      BY <3>1 DEF TrimForModel, window
  <2>2. "tool" \notin {"user"} /\ "tool" \notin Roles \ {"tool"}
    OBVIOUS
  <2> QED
    BY <2>1, <2>2
<1>3. PICK a \in 1..(Len(window) + 1) :
        /\ FromFirst(window, roles) = From(window, a)
        /\ a <= Len(window) => window[a].role \in roles
  BY <1>1, FromFirstIsEnd
<1>4. /\ From(window, a) \in Seq(Message)
      /\ Len(From(window, a)) = Len(window) - a + 1
      /\ \A i \in 1..Len(From(window, a)) : From(window, a)[i] = window[a + i - 1]
  BY <1>1, FromProperties
<1>5. Sound(ms, lost) => Sound(From(window, a), lost)
  BY <1>1, FromSound
<1>6. Len(From(window, a)) > 0 => From(window, a)[1].role # "tool"
  BY <1>1, <1>2, <1>3, <1>4
<1>7. Len(From(window, a)) \in 0..MaxModel
  BY <1>1, <1>4
<1> QED
  BY <1>2, <1>3, <1>4, <1>5, <1>6, <1>7

-----------------------------------------------------------------------------
(* The invariant *)

TypeInv ==
    /\ store \in Seq(Message) /\ tab \in Tabs
    /\ conn \in [Sockets -> {"closed", "idle", "calling", "tool", "reporting",
                             "returned", "touching"}]
    /\ alive \in [Sockets -> BOOLEAN]
    /\ memory \in [Sockets -> Seq(Message)]
    /\ messages \in [Sockets -> Seq(Message)]
    /\ sent \in [Sockets -> 0..MaxModel]
    /\ turnTab \in [Sockets -> Tabs \cup {None}]
    /\ chosen \in [Sockets -> Tabs \cup {None}]
    /\ iteration \in [Sockets -> 0..(MaxIterations - 1)]
    /\ todo \in [Sockets -> 0..MaxCalls]
    /\ writes \subseteq [turn : Nat, at : Nat, tab : Tabs, chosen : Tabs]
    /\ turns \in 0..MaxTurns
    /\ unsaved \subseteq 1..turns /\ torn \subseteq 1..turns
    /\ missed \in [Sockets -> SUBSET (1..turns)]
    /\ faults \in 0..MaxFaults

\* What a handler has of a turn, by where it is.
HandlerInv ==
    \A s \in Sockets :
        /\ InTurn(s) <=> conn[s] \notin {"closed", "idle", "touching"}
        /\ InTurn(s) => turnTab[s] \in Tabs /\ chosen[s] \in Tabs
        /\ conn[s] \in {"tool", "reporting"} =>
               todo[s] > 0 /\ iteration[s] < MaxIterations - 1

\* The messages of the turn itself follow those that were sent with the prompt.
Own(s) == (sent[s] + 1)..Len(messages[s])
RunInv ==
    \A s \in Sockets : InTurn(s) =>
        /\ sent[s] < Len(messages[s])
        /\ \A i \in Own(s) : /\ messages[s][i].turn = Turn(s)
                             /\ messages[s][i].at = i - sent[s]
        /\ messages[s][sent[s] + 1].role = "user"
        /\ Turn(s) \in 1..turns

\* A turn that runs is nobody else's, and nothing of it is stored.
FreshInv ==
    /\ \A i \in 1..Len(store) : store[i].turn \in 1..turns
    /\ \A s \in Sockets, i \in 1..Len(store) : InTurn(s) => store[i].turn # Turn(s)
    /\ \A s, x \in Sockets : InTurn(s) /\ InTurn(x) /\ s # x => Turn(s) # Turn(x)

\* Where the result of a write is on record.
Stored(w) ==
    \E i \in 1..Len(store) :
        store[i].turn = w.turn /\ store[i].at = w.at /\ store[i].role = "tool"
Held(s, w) ==
    /\ InTurn(s) /\ Turn(s) = w.turn
    /\ \/ \E i \in Own(s) : messages[s][i].at = w.at /\ messages[s][i].role = "tool"
       \/ conn[s] = "reporting" /\ w.at = Last(messages[s]).at + 1
WritesInv ==
    \A w \in writes :
        /\ w.turn \in 1..turns
        /\ w.turn \in unsaved \/ Stored(w) \/ \E s \in Sockets : Held(s, w)

\* The call at p of a turn, which has results outstanding; no other has.
Open(s, p) ==
    LET ms == messages[s] IN
    /\ ms[p].role = "assistant" /\ ms[p].calls = Len(ms) - p + todo[s]
    /\ \A x \in (p + 1)..Len(ms) : /\ ms[x].role = "tool"
                                   /\ ms[x].turn = ms[p].turn /\ ms[x].of = ms[p].at
    /\ \A i \in (1..Len(ms)) \ {p} :
           ms[i].role = "assistant" /\ ms[i].turn \notin torn => Answered(ms, i)
TurnSound(s) ==
    /\ messages[s][1].role # "tool" /\ ResultsOwned(messages[s])
    /\ conn[s] \in {"calling", "returned"} => CallsAnswered(messages[s], torn)
    /\ conn[s] \in {"tool", "reporting"} => \E p \in Own(s) : Open(s, p)
SoundInv ==
    /\ Sound(store, torn)
    /\ \A s \in Sockets : Sound(memory[s], torn)
    /\ \A s \in Sockets : InTurn(s) => TurnSound(s)

Inv == TypeInv /\ HandlerInv /\ RunInv /\ FreshInv /\ StoredOnce /\ WritesInv /\ SoundInv

-----------------------------------------------------------------------------
(* Messages of a turn *)

\* The last message of a turn is a message, and what is said next is one.
LEMMA NextMessage ==
  ASSUME TypeInv, NEW s \in Sockets, InTurn(s),
         NEW role \in Roles, NEW calls \in Nat, NEW of \in Nat
  PROVE  /\ Len(messages[s]) \in Nat \ {0}
         /\ Last(messages[s]) \in Message /\ Turn(s) \in Nat /\ CallAt(s) \in Nat
         /\ Said(s, role, calls, of) \in Message
         /\ Said(s, role, calls, of) =
               [turn |-> Turn(s), at |-> Last(messages[s]).at + 1, role |-> role,
                calls |-> calls, of |-> of]
<1>1. messages[s] \in Seq(Message) /\ messages[s] # <<>>
  BY DEF TypeInv, InTurn
<1>2. Len(messages[s]) \in Nat \ {0}
  BY <1>1, EmptySeq
<1>3. Last(messages[s]) \in Message
  BY <1>1, <1>2, ElementOfSeq DEF Last
<1>4. Turn(s) \in Nat /\ CallAt(s) \in Nat
  BY <1>3 DEF Turn, CallAt, Message
<1>5. Said(s, role, calls, of) =
        [turn |-> Turn(s), at |-> Last(messages[s]).at + 1, role |-> role,
         calls |-> calls, of |-> of]
  BY DEF Said, Turn, Last
<1> QED
  BY <1>2, <1>3, <1>4, <1>5 DEF Message

\* Appending leaves the messages before as they are.
LEMMA Appended ==
  ASSUME NEW ms \in Seq(Message), NEW m \in Message
  PROVE  /\ Append(ms, m) \in Seq(Message) /\ Append(ms, m) # <<>>
         /\ Len(ms) \in Nat /\ Len(Append(ms, m)) = Len(ms) + 1
         /\ Append(ms, m)[Len(ms) + 1] = m /\ Last(Append(ms, m)) = m
         /\ \A i \in 1..Len(ms) : Append(ms, m)[i] = ms[i]
<1>1. /\ Append(ms, m) \in Seq(Message) /\ Len(ms) \in Nat
      /\ Len(Append(ms, m)) = Len(ms) + 1
      /\ Append(ms, m)[Len(ms) + 1] = m
      /\ \A i \in 1..Len(ms) : Append(ms, m)[i] = ms[i]
  BY AppendProperties, LenProperties
<1>2. Append(ms, m) # <<>>
  BY <1>1, EmptySeq
<1> QED
  BY <1>1, <1>2 DEF Last

-----------------------------------------------------------------------------
(* Types and handlers *)

\* Nothing is stored or connected at first.
LEMMA TypeInit == Init => TypeInv /\ HandlerInv
<1> SUFFICES ASSUME Init PROVE TypeInv /\ HandlerInv
  OBVIOUS
<1> USE AgentTurnAssumption DEF Init
<1>1. <<>> \in Seq(Message)
  BY EmptySeq
<1>2. TypeInv
  BY <1>1 DEF TypeInv
<1>3. HandlerInv
  BY DEF HandlerInv, InTurn
<1> QED
  BY <1>2, <1>3

\* A turn that ends leaves nothing behind.
LEMMA EndTurnType ==
  ASSUME TypeInv, NEW s \in Sockets, EndTurn(s)
  PROVE  /\ messages' \in [Sockets -> Seq(Message)] /\ sent' \in [Sockets -> 0..MaxModel]
         /\ turnTab' \in [Sockets -> Tabs \cup {None}]
         /\ chosen' \in [Sockets -> Tabs \cup {None}]
         /\ iteration' \in [Sockets -> 0..(MaxIterations - 1)]
         /\ todo' \in [Sockets -> 0..MaxCalls]
         /\ messages'[s] = <<>>
         /\ \A x \in Sockets \ {s} :
               /\ messages'[x] = messages[x] /\ turnTab'[x] = turnTab[x]
               /\ chosen'[x] = chosen[x] /\ iteration'[x] = iteration[x]
               /\ todo'[x] = todo[x] /\ sent'[x] = sent[x]
<1>1. <<>> \in Seq(Message)
  BY EmptySeq
<1> QED
  BY <1>1, AgentTurnAssumption DEF TypeInv, EndTurn

\* Every step keeps the types and what handlers have of their turns.
LEMMA TypeStep ==
  ASSUME TypeInv, HandlerInv, RunInv, [Next]_vars
  PROVE  TypeInv' /\ HandlerInv'
<1> USE AgentTurnAssumption
<1>1. ASSUME NEW s \in Sockets, Connect(s) PROVE TypeInv' /\ HandlerInv'
  <2>1. memory' \in [Sockets -> Seq(Message)]
    <3>1. Newest(store, MaxReplay) \in Seq(Message)
      <4>1. PICK a \in 1..(Len(store) + 1) : Newest(store, MaxReplay) = From(store, a)
        BY NewestIsEnd DEF TypeInv
      <4> QED
        BY <4>1, FromProperties DEF TypeInv
    <3>2. <<>> \in Seq(Message)
      BY EmptySeq
    <3> QED
      BY <1>1, <3>1, <3>2 DEF Connect, TypeInv
  <2>2. faults' \in 0..MaxFaults
    BY <1>1 DEF Connect, Fault, TypeInv
  <2>3. conn' = [conn EXCEPT ![s] = "idle"] /\ conn[s] = "closed"
    BY <1>1 DEF Connect, Goto
  <2>4. alive' \in [Sockets -> BOOLEAN] /\ missed' \in [Sockets -> SUBSET (1..turns)]
    BY <1>1 DEF Connect, TypeInv
  <2>5. UNCHANGED <<store, tab, turn, writes, turns, unsaved, torn>>
    BY <1>1 DEF Connect
  <2>6. TypeInv'
    BY <2>1, <2>2, <2>3, <2>4, <2>5 DEF TypeInv, turn
  <2>7. HandlerInv'
    BY <2>3, <2>5 DEF HandlerInv, TypeInv, turn, InTurn
  <2> QED
    BY <2>6, <2>7
<1>2. ASSUME NEW s \in Sockets, Leave(s) PROVE TypeInv' /\ HandlerInv'
  <2>1. conn' = [conn EXCEPT ![s] = "closed"] /\ conn[s] = "idle"
    BY <1>2 DEF Leave, Goto
  <2>2. memory' \in [Sockets -> Seq(Message)] /\ alive' \in [Sockets -> BOOLEAN]
    BY <1>2, EmptySeq DEF Leave, TypeInv
  <2>3. UNCHANGED <<store, tab, turn, writes, history, faults>>
    BY <1>2 DEF Leave
  <2>4. TypeInv'
    BY <2>1, <2>2, <2>3 DEF TypeInv, turn, history
  <2>5. HandlerInv'
    BY <2>1, <2>3 DEF HandlerInv, TypeInv, turn, InTurn
  <2> QED
    BY <2>4, <2>5
<1>3. ASSUME NEW s \in Sockets, SwitchTab(s) PROVE TypeInv' /\ HandlerInv'
  <2>1. TypeInv'
    BY <1>3 DEF SwitchTab, TypeInv, turn, history
  <2>2. HandlerInv'
    BY <1>3 DEF SwitchTab, HandlerInv, turn, InTurn
  <2> QED
    BY <2>1, <2>2
<1>4. ASSUME NEW s \in Sockets, Prompt(s) PROVE TypeInv' /\ HandlerInv'
  <2> DEFINE ms == TrimForModel(memory[s])
             m == [turn |-> turns', at |-> 1, role |-> "user", calls |-> 0, of |-> 0]
  <2>1. ms \in Seq(Message) /\ Len(ms) \in 0..MaxModel
    BY TrimProperties DEF TypeInv
  <2>2. turns' = turns + 1 /\ turns < MaxTurns /\ turns' \in Nat
    BY <1>4 DEF Prompt, TypeInv
  <2>3. m \in Message
    BY <2>2 DEF Message, Roles
  <2>4. Append(ms, m) \in Seq(Message) /\ Append(ms, m) # <<>>
    BY <2>1, <2>3, Appended
  <2>5. /\ messages' = [messages EXCEPT ![s] = Append(ms, m)]
        /\ sent' = [sent EXCEPT ![s] = Len(ms)]
    BY <1>4 DEF Prompt
  <2> HIDE DEF ms, m
  <2>6. /\ conn' = [conn EXCEPT ![s] = "calling"] /\ conn[s] = "idle"
        /\ turnTab' = [turnTab EXCEPT ![s] = tab] /\ chosen' = [chosen EXCEPT ![s] = tab]
        /\ UNCHANGED <<store, tab, alive, memory, iteration, todo, writes, unsaved,
                       missed, torn, faults>>
    BY <1>4 DEF Prompt, Goto
  <2>7. turns' \in 0..MaxTurns /\ 1..turns \subseteq 1..turns'
    BY <2>2 DEF TypeInv
  <2>8. /\ unsaved' \subseteq 1..turns' /\ torn' \subseteq 1..turns'
        /\ missed' \in [Sockets -> SUBSET (1..turns')]
    BY <2>6, <2>7 DEF TypeInv
  <2>9. TypeInv'
    BY <2>1, <2>4, <2>5, <2>6, <2>7, <2>8 DEF TypeInv
  <2>10. HandlerInv'
    BY <2>4, <2>5, <2>6 DEF HandlerInv, TypeInv, InTurn
  <2> QED
    BY <2>9, <2>10
<1>5. ASSUME NEW s \in Sockets, InTurn(s), NEW role \in Roles, NEW calls \in Nat, NEW of \in Nat,
             messages' = [messages EXCEPT ![s] = Append(@, Said(s, role, calls, of))]
      PROVE  /\ messages' \in [Sockets -> Seq(Message)]
             /\ \A x \in Sockets : InTurn(x)' <=> InTurn(x)
  <2>1. /\ Append(messages[s], Said(s, role, calls, of)) \in Seq(Message)
        /\ Append(messages[s], Said(s, role, calls, of)) # <<>>
    BY <1>5, NextMessage, Appended DEF TypeInv
  <2> QED
    BY <1>5, <2>1 DEF TypeInv, InTurn
<1>6. ASSUME NEW s \in Sockets, Answer(s) PROVE TypeInv' /\ HandlerInv'
  <2>1. conn[s] = "calling" /\ conn' = [conn EXCEPT ![s] = "returned"]
    BY <1>6 DEF Answer, Goto
  <2>2. InTurn(s)
    BY <2>1 DEF HandlerInv
  <2>3. messages' \in [Sockets -> Seq(Message)] /\ \A x \in Sockets : InTurn(x)' <=> InTurn(x)
    BY <1>5, <1>6, <2>2 DEF Answer, Roles
  <2>4. UNCHANGED <<store, tab, alive, memory, sent, turnTab, chosen, iteration, todo, writes,
                    history, faults>>
    BY <1>6 DEF Answer
  <2>5. TypeInv'
    BY <2>1, <2>3, <2>4 DEF TypeInv, history
  <2>6. HandlerInv'
    BY <2>1, <2>3, <2>4 DEF HandlerInv, TypeInv
  <2> QED
    BY <2>5, <2>6
<1>7. ASSUME NEW s \in Sockets, CallTools(s) PROVE TypeInv' /\ HandlerInv'
  <2>1. /\ conn[s] = "calling" /\ conn' = [conn EXCEPT ![s] = "tool"]
        /\ iteration[s] < MaxIterations - 1
        /\ UNCHANGED <<store, tab, alive, memory, sent, turnTab, chosen, iteration, writes,
                       history, faults>>
    BY <1>7 DEF CallTools, Goto
  <2>2. InTurn(s)
    BY <2>1 DEF HandlerInv
  <2>3. PICK k \in 1..MaxCalls :
          /\ todo' = [todo EXCEPT ![s] = k]
          /\ messages' = [messages EXCEPT ![s] = Append(@, Said(s, "assistant", k, 0))]
    BY <1>7 DEF CallTools
  <2>4. messages' \in [Sockets -> Seq(Message)] /\ \A x \in Sockets : InTurn(x)' <=> InTurn(x)
    <3>1. k \in Nat /\ 0 \in Nat /\ "assistant" \in Roles
      BY DEF Roles
    <3> QED
      BY <1>5, <2>2, <2>3, <3>1
  <2>5. TypeInv'
    <3>1. todo' \in [Sockets -> 0..MaxCalls]
      <4>1. k \in 0..MaxCalls
        OBVIOUS
      <4> QED
        BY <2>3, <4>1 DEF TypeInv
    <3>2. conn' \in [Sockets -> {"closed", "idle", "calling", "tool", "reporting",
                                 "returned", "touching"}]
      BY <2>1 DEF TypeInv
    <3> QED
      BY <2>1, <2>4, <3>1, <3>2 DEF TypeInv, history
  <2>6. HandlerInv'
    BY <2>1, <2>3, <2>4, SMTT(30) DEF HandlerInv, TypeInv
  <2> QED
    BY <2>5, <2>6
<1>8. ASSUME NEW s \in Sockets, ModelFails(s) \/ ReadOrRefuse(s) PROVE TypeInv' /\ HandlerInv'
  <2>1. /\ UNCHANGED <<store, tab, alive, memory, turn, writes, history, faults>>
        /\ \/ conn[s] = "calling" /\ conn' = [conn EXCEPT ![s] = "returned"]
           \/ conn[s] = "tool" /\ conn' = [conn EXCEPT ![s] = "reporting"]
    BY <1>8 DEF ModelFails, ReadOrRefuse, Goto
  <2>2. TypeInv'
    BY <2>1 DEF TypeInv, turn, history
  <2>3. HandlerInv'
    BY <2>1 DEF HandlerInv, TypeInv, turn, InTurn
  <2> QED
    BY <2>2, <2>3
<1>9. ASSUME NEW s \in Sockets, MalformedCall(s) PROVE TypeInv' /\ HandlerInv'
  <2>1. /\ conn[s] = "tool" /\ conn' = [conn EXCEPT ![s] = "returned"]
        /\ torn' = torn \cup {Turn(s)}
        /\ UNCHANGED <<store, tab, alive, memory, turn, writes, turns, unsaved, missed, faults>>
    BY <1>9 DEF MalformedCall, Goto
  <2>2. Turn(s) \in 1..turns
    BY <2>1 DEF HandlerInv, RunInv
  <2>3. TypeInv'
    BY <2>1, <2>2 DEF TypeInv, turn
  <2>4. HandlerInv'
    BY <2>1 DEF HandlerInv, TypeInv, turn, InTurn
  <2> QED
    BY <2>3, <2>4
<1>10. ASSUME NEW s \in Sockets, DispatchWrite(s) PROVE TypeInv' /\ HandlerInv'
  <2> DEFINE w == [turn |-> Turn(s), at |-> Last(messages[s]).at + 1,
                   tab |-> turnTab[s], chosen |-> chosen[s]]
  <2>1. /\ conn[s] = "tool" /\ conn' = [conn EXCEPT ![s] = "reporting"]
        /\ writes' = writes \cup {w}
        /\ UNCHANGED <<store, tab, alive, memory, turn, history, faults>>
    BY <1>10 DEF DispatchWrite, Goto
  <2>2. InTurn(s) /\ turnTab[s] \in Tabs /\ chosen[s] \in Tabs
    BY <2>1 DEF HandlerInv
  <2>3. Turn(s) \in Nat /\ Last(messages[s]).at \in Nat
    BY <2>2, NextMessage DEF Message, Roles
  <2>4. w \in [turn : Nat, at : Nat, tab : Tabs, chosen : Tabs]
    BY <2>2, <2>3
  <2> HIDE DEF w
  <2>5. TypeInv'
    BY <2>1, <2>4 DEF TypeInv, turn, history
  <2>6. HandlerInv'
    BY <2>1 DEF HandlerInv, TypeInv, turn, InTurn
  <2> QED
    BY <2>5, <2>6
<1>11. ASSUME NEW s \in Sockets, DispatchSwitch(s) PROVE TypeInv' /\ HandlerInv'
  <2>1. /\ conn[s] = "tool" /\ conn' = [conn EXCEPT ![s] = "reporting"]
        /\ \E t \in Tabs : tab' = t /\ chosen' = [chosen EXCEPT ![s] = t]
        /\ UNCHANGED <<store, alive, memory, messages, sent, turnTab, iteration, todo,
                       writes, history, faults>>
    BY <1>11 DEF DispatchSwitch, Goto
  <2>2. TypeInv'
    BY <2>1 DEF TypeInv, history
  <2>3. HandlerInv'
    BY <2>1 DEF HandlerInv, TypeInv, InTurn
  <2> QED
    BY <2>2, <2>3
<1>12. ASSUME NEW s \in Sockets, Report(s) PROVE TypeInv' /\ HandlerInv'
  <2>1. /\ conn[s] = "reporting"
        /\ todo' = [todo EXCEPT ![s] = @ - 1]
        /\ messages' = [messages EXCEPT ![s] = Append(@, Said(s, "tool", 0, CallAt(s)))]
        /\ UNCHANGED <<store, tab, alive, memory, sent, turnTab, chosen, writes, history, faults>>
    BY <1>12 DEF Report
  <2>2. InTurn(s) /\ todo[s] > 0 /\ iteration[s] < MaxIterations - 1
    BY <2>1 DEF HandlerInv
  <2>3. CallAt(s) \in Nat
    BY <2>2, NextMessage DEF Roles
  <2>4. messages' \in [Sockets -> Seq(Message)] /\ \A x \in Sockets : InTurn(x)' <=> InTurn(x)
    BY <1>5, <2>1, <2>2, <2>3 DEF Roles
  <2>5. todo[s] \in 0..MaxCalls /\ iteration[s] \in 0..(MaxIterations - 1)
    BY DEF TypeInv
  <2>6. todo' \in [Sockets -> 0..MaxCalls]
    <3>1. todo[s] - 1 \in 0..MaxCalls
      BY <2>2, <2>5
    <3> QED
      BY <2>1, <3>1 DEF TypeInv
  <2>7. CASE todo[s] > 1 /\ conn' = [conn EXCEPT ![s] = "tool"] /\ UNCHANGED iteration
    <3>1. TypeInv'
      BY <2>1, <2>4, <2>6, <2>7 DEF TypeInv, history
    <3>2. todo'[s] > 0
      BY <2>1, <2>5, <2>7 DEF TypeInv
    <3>3. HandlerInv'
      BY <2>1, <2>4, <2>7, <3>2 DEF HandlerInv, TypeInv
    <3> QED
      BY <3>1, <3>3
  <2>8. CASE /\ conn' = [conn EXCEPT ![s] = "calling"]
             /\ iteration' = [iteration EXCEPT ![s] = @ + 1]
    <3>1. iteration' \in [Sockets -> 0..(MaxIterations - 1)]
      <4>1. iteration[s] + 1 \in 0..(MaxIterations - 1)
        BY <2>2, <2>5
      <4> QED
        BY <2>8, <4>1 DEF TypeInv
    <3>2. TypeInv'
      BY <2>1, <2>4, <2>6, <2>8, <3>1 DEF TypeInv, history
    <3>3. HandlerInv'
      BY <2>1, <2>4, <2>8 DEF HandlerInv, TypeInv
    <3> QED
      BY <3>2, <3>3
  <2> QED
    BY <1>12, <2>7, <2>8 DEF Report
<1>13. ASSUME NEW s \in Sockets, Vanish(s) PROVE TypeInv' /\ HandlerInv'
  <2>1. /\ conn[s] \in {"calling", "tool", "reporting"}
        /\ conn' = [conn EXCEPT ![s] = "closed"]
        /\ memory' = [memory EXCEPT ![s] = <<>>]
        /\ unsaved' = unsaved \cup {Turn(s)} /\ EndTurn(s)
        /\ UNCHANGED <<store, tab, alive, writes, turns, missed, torn, faults>>
    BY <1>13 DEF Vanish
  <2>2. Turn(s) \in 1..turns
    BY <2>1 DEF HandlerInv, RunInv
  <2>3. memory' \in [Sockets -> Seq(Message)]
    BY <2>1, EmptySeq DEF TypeInv
  <2>4. TypeInv'
    BY <2>1, <2>2, <2>3, EndTurnType DEF TypeInv
  <2>5. ASSUME NEW x \in Sockets
        PROVE  /\ InTurn(x)' <=> conn'[x] \notin {"closed", "idle", "touching"}
               /\ InTurn(x)' => turnTab'[x] \in Tabs /\ chosen'[x] \in Tabs
               /\ conn'[x] \in {"tool", "reporting"} =>
                      todo'[x] > 0 /\ iteration'[x] < MaxIterations - 1
    <3>1. CASE x = s
      <4>1. conn'[x] = "closed" /\ messages'[x] = <<>>
        BY <2>1, <3>1, EndTurnType DEF TypeInv
      <4> QED
        BY <4>1 DEF InTurn
    <3>2. CASE x # s
      <4>1. /\ conn'[x] = conn[x] /\ messages'[x] = messages[x] /\ turnTab'[x] = turnTab[x]
            /\ chosen'[x] = chosen[x] /\ iteration'[x] = iteration[x] /\ todo'[x] = todo[x]
        BY <2>1, <3>2, EndTurnType, ZenonT(40) DEF TypeInv
      <4> QED
        BY <4>1 DEF InTurn, HandlerInv
    <3> QED
      BY <3>1, <3>2
  <2>6. HandlerInv'
    BY <2>5 DEF HandlerInv
  <2> QED
    BY <2>4, <2>6
<1>14. ASSUME NEW s \in Sockets, Save(s) PROVE TypeInv' /\ HandlerInv'
  <2>1. /\ conn[s] = "returned" /\ conn' = [conn EXCEPT ![s] = "touching"]
        /\ memory' = [memory EXCEPT ![s] = messages[s]] /\ EndTurn(s)
        /\ UNCHANGED <<tab, alive, writes, turns, torn>>
    BY <1>14 DEF Save, Goto
  <2>2. Turn(s) \in 1..turns
    BY <2>1 DEF HandlerInv, RunInv
  <2>3. memory' \in [Sockets -> Seq(Message)]
    BY <2>1 DEF TypeInv
  <2>4. store \o Delta(s) \in Seq(Message)
    <3>1. messages[s] \in Seq(Message) /\ sent[s] \in Nat /\ sent[s] + 1 \in Int
      BY DEF TypeInv
    <3>2. Len(messages[s]) \in Nat /\ \A i \in (sent[s] + 1)..Len(messages[s]) : messages[s][i] \in Message
      <4>1. Len(messages[s]) \in Nat
        BY <3>1, LenProperties
      <4>2. \A i \in (sent[s] + 1)..Len(messages[s]) : i \in 1..Len(messages[s])
        BY <3>1, <4>1
      <4> QED
        BY <3>1, <4>1, <4>2, ElementOfSeq
    <3>3. Delta(s) \in Seq(Message)
      BY <3>1, <3>2, SubSeqProperties DEF Delta
    <3> QED
      BY <3>3, ConcatProperties DEF TypeInv
  <2>5. \/ /\ store' = store \o Delta(s) /\ UNCHANGED <<unsaved, faults>>
           /\ missed' = [x \in Sockets |-> IF x = s THEN missed[x]
                                           ELSE missed[x] \cup {Turn(s)}]
        \/ /\ UNCHANGED <<store, missed>> /\ unsaved' = unsaved \cup {Turn(s)}
           /\ faults < MaxFaults /\ faults' = faults + 1
    BY <1>14 DEF Save, Fault
  <2>6. /\ store' \in Seq(Message) /\ unsaved' \subseteq 1..turns /\ faults' \in 0..MaxFaults
        /\ missed' \in [Sockets -> SUBSET (1..turns)]
    <3>1. CASE UNCHANGED <<unsaved, faults>> /\ store' = store \o Delta(s)
               /\ missed' = [x \in Sockets |-> IF x = s THEN missed[x]
                                               ELSE missed[x] \cup {Turn(s)}]
      BY <2>2, <2>4, <3>1 DEF TypeInv
    <3>2. CASE UNCHANGED <<store, missed>> /\ unsaved' = unsaved \cup {Turn(s)}
               /\ faults < MaxFaults /\ faults' = faults + 1
      <4>1. faults' \in 0..MaxFaults
        BY <3>2, AgentTurnAssumption DEF TypeInv
      <4>2. store' \in Seq(Message) /\ missed' \in [Sockets -> SUBSET (1..turns)]
        BY <3>2 DEF TypeInv
      <4>3. unsaved' \subseteq 1..turns
        BY <2>2, <3>2 DEF TypeInv
      <4> QED
        BY <4>1, <4>2, <4>3
    <3> QED
      BY <2>5, <3>1, <3>2
  <2>7. TypeInv'
    BY <2>1, <2>3, <2>6, EndTurnType DEF TypeInv
  <2>8. HandlerInv'
    BY <2>1, EndTurnType DEF HandlerInv, TypeInv, InTurn
  <2> QED
    BY <2>7, <2>8
<1>15. ASSUME NEW s \in Sockets, Touch(s) PROVE TypeInv' /\ HandlerInv'
  <2>1. /\ conn[s] = "touching"
        /\ conn' = [conn EXCEPT ![s] = "idle"] \/ conn' = [conn EXCEPT ![s] = "closed"]
        /\ UNCHANGED <<store, tab, turn, writes, history>>
    BY <1>15 DEF Touch, Goto
  <2>2. /\ alive' \in [Sockets -> BOOLEAN] /\ memory' \in [Sockets -> Seq(Message)]
        /\ faults' \in 0..MaxFaults
    <3>1. CASE UNCHANGED <<alive, memory, faults>>
      BY <3>1 DEF TypeInv
    <3>2. CASE /\ alive' = [alive EXCEPT ![s] = FALSE] /\ memory' = [memory EXCEPT ![s] = <<>>]
               /\ faults < MaxFaults /\ faults' = faults + 1
      <4>1. <<>> \in Seq(Message)
        BY EmptySeq
      <4> QED
        BY <3>2, <4>1, AgentTurnAssumption DEF TypeInv
    <3> QED
      BY <1>15, <3>1, <3>2 DEF Touch, Fault
  <2>3. TypeInv'
    BY <2>1, <2>2 DEF TypeInv, turn, history
  <2>4. HandlerInv'
    BY <2>1 DEF HandlerInv, TypeInv, turn, InTurn
  <2> QED
    BY <2>3, <2>4
<1>16. ASSUME NEW s \in Sockets, Drop(s) PROVE TypeInv' /\ HandlerInv'
  <2>1. TypeInv'
    BY <1>16, SMTT(30) DEF Drop, Fault, TypeInv, turn, history
  <2>2. HandlerInv'
    BY <1>16 DEF Drop, HandlerInv, turn, InTurn
  <2> QED
    BY <2>1, <2>2
<1>17. CASE Restart
  <2>1. { Turn(s) : s \in {x \in Sockets : InTurn(x)} } \subseteq 1..turns
    BY DEF RunInv
  <2>2. <<>> \in Seq(Message) /\ faults' \in 0..MaxFaults
    BY <1>17, EmptySeq DEF Restart, Fault, TypeInv
  <2>3. /\ conn' = [s \in Sockets |-> "closed"] /\ alive' = [s \in Sockets |-> FALSE]
        /\ memory' = [s \in Sockets |-> <<>>] /\ messages' = [s \in Sockets |-> <<>>]
        /\ sent' = [s \in Sockets |-> 0] /\ turnTab' = [s \in Sockets |-> None]
        /\ chosen' = [s \in Sockets |-> None] /\ iteration' = [s \in Sockets |-> 0]
        /\ todo' = [s \in Sockets |-> 0]
        /\ unsaved' = unsaved \cup { Turn(s) : s \in {x \in Sockets : InTurn(x)} }
        /\ UNCHANGED <<store, tab, writes, turns, missed, torn>>
    BY <1>17 DEF Restart
  <2>4. unsaved' \subseteq 1..turns'
    BY <2>1, <2>3 DEF TypeInv
  <2>5. /\ conn' \in [Sockets -> {"closed", "idle", "calling", "tool", "reporting",
                                 "returned", "touching"}]
        /\ alive' \in [Sockets -> BOOLEAN]
        /\ memory' \in [Sockets -> Seq(Message)] /\ messages' \in [Sockets -> Seq(Message)]
    BY <2>2, <2>3
  <2>6. /\ sent' \in [Sockets -> 0..MaxModel] /\ todo' \in [Sockets -> 0..MaxCalls]
        /\ iteration' \in [Sockets -> 0..(MaxIterations - 1)]
        /\ turnTab' \in [Sockets -> Tabs \cup {None}] /\ chosen' \in [Sockets -> Tabs \cup {None}]
    BY <2>3
  <2>7. TypeInv'
    BY <2>2, <2>3, <2>4, <2>5, <2>6 DEF TypeInv
  <2>8. HandlerInv'
    BY <2>3 DEF HandlerInv, InTurn
  <2> QED
    BY <2>7, <2>8
<1>18. CASE UNCHANGED vars
  BY <1>18 DEF vars, turn, history, TypeInv, HandlerInv, InTurn
<1> QED
  BY <1>1, <1>2, <1>3, <1>4, <1>6, <1>7, <1>8, <1>9, <1>10, <1>11, <1>12, <1>13, <1>14, <1>15,
     <1>16, <1>17, <1>18
  DEF Next, TurnStep

-----------------------------------------------------------------------------
(* Turns and the store *)

\* What a turn has added.
LEMMA DeltaProperties ==
  ASSUME TypeInv, RunInv, NEW s \in Sockets, InTurn(s)
  PROVE  /\ Delta(s) \in Seq(Message) /\ Len(store) \in Nat
         /\ Len(Delta(s)) = Len(messages[s]) - sent[s] /\ Len(Delta(s)) \in Nat
         /\ \A j \in 1..Len(Delta(s)) : /\ Delta(s)[j] = messages[s][sent[s] + j]
                                        /\ sent[s] + j \in Own(s)
                                        /\ Delta(s)[j].turn = Turn(s) /\ Delta(s)[j].at = j
         /\ store \o Delta(s) \in Seq(Message)
         /\ Len(store \o Delta(s)) = Len(store) + Len(Delta(s))
         /\ \A i \in 1..Len(store \o Delta(s)) :
               (store \o Delta(s))[i] = IF i <= Len(store) THEN store[i]
                                        ELSE Delta(s)[i - Len(store)]
<1>1. messages[s] \in Seq(Message) /\ sent[s] \in Nat /\ sent[s] < Len(messages[s])
  BY AgentTurnAssumption DEF TypeInv, RunInv
<1>2. Len(messages[s]) \in Nat
  BY <1>1, LenProperties
<1>3. \A i \in Own(s) : i \in 1..Len(messages[s]) /\ messages[s][i] \in Message
  BY <1>1, <1>2, ElementOfSeq DEF Own
<1>4. /\ Delta(s) \in Seq(Message)
      /\ Len(Delta(s)) = Len(messages[s]) - (sent[s] + 1) + 1
      /\ \A j \in 1..(Len(messages[s]) - (sent[s] + 1) + 1) :
            Delta(s)[j] = messages[s][(sent[s] + 1) + j - 1]
  BY <1>1, <1>2, <1>3, SubSeqProperties DEF Delta, Own
<1>5. ASSUME NEW j \in 1..Len(Delta(s))
      PROVE  /\ Delta(s)[j] = messages[s][sent[s] + j] /\ sent[s] + j \in Own(s)
             /\ Delta(s)[j].turn = Turn(s) /\ Delta(s)[j].at = j
  <2>1. (sent[s] + 1) + j - 1 = sent[s] + j /\ sent[s] + j \in Own(s) /\ (sent[s] + j) - sent[s] = j
    BY <1>1, <1>2, <1>4, SMTT(30) DEF Own
  <2> QED
    BY <1>4, <2>1 DEF RunInv
<1>6. Len(Delta(s)) = Len(messages[s]) - sent[s] /\ Len(Delta(s)) \in Nat
  BY <1>1, <1>2, <1>4
<1>7. /\ store \o Delta(s) \in Seq(Message) /\ Len(store) \in Nat
      /\ Len(store \o Delta(s)) = Len(store) + Len(Delta(s))
      /\ \A i \in 1..Len(store) + Len(Delta(s)) :
            (store \o Delta(s))[i] = IF i <= Len(store) THEN store[i]
                                     ELSE Delta(s)[i - Len(store)]
  BY <1>4, ConcatProperties, LenProperties DEF TypeInv
<1> QED
  BY <1>4, <1>5, <1>6, <1>7

\* What a step does to the messages of turns: a handler says something, or some
\* turns end, of which one may be stored.
Says(s, m) ==
    /\ InTurn(s) /\ m \in Message /\ m.turn = Turn(s) /\ m.at = Last(messages[s]).at + 1
    /\ messages' = [messages EXCEPT ![s] = Append(@, m)]
    /\ UNCHANGED <<sent, store, turns>>
Ends(S) ==
    /\ \A s \in Sockets : messages'[s] = IF s \in S THEN <<>> ELSE messages[s]
    /\ \A s \in Sockets \ S : sent'[s] = sent[s]
    /\ UNCHANGED turns
    /\ store' = store \/ \E s \in S : InTurn(s) /\ store' = store \o Delta(s)

\* Every step is one of these, begins a turn, or leaves all messages alone.
LEMMA MessageSteps ==
  ASSUME TypeInv, HandlerInv, [Next]_vars
  PROVE  \/ UNCHANGED <<messages, sent, store, turns>>
         \/ \E s \in Sockets : Prompt(s)
         \/ \E s \in Sockets, m \in Message : Says(s, m)
         \/ \E S \in SUBSET Sockets : Ends(S)
<1>1. ASSUME NEW s \in Sockets, InTurn(s), NEW role \in Roles, NEW calls \in Nat, NEW of \in Nat,
             messages' = [messages EXCEPT ![s] = Append(@, Said(s, role, calls, of))],
             UNCHANGED <<sent, store, turns>>
      PROVE  \E m \in Message : Says(s, m)
  <2> DEFINE m == Said(s, role, calls, of)
  <2>1. /\ m \in Message
        /\ m = [turn |-> Turn(s), at |-> Last(messages[s]).at + 1, role |-> role,
                calls |-> calls, of |-> of]
    BY <1>1, NextMessage
  <2>2. m.turn = Turn(s) /\ m.at = Last(messages[s]).at + 1
    BY <2>1
  <2>3. messages' = [messages EXCEPT ![s] = Append(@, m)]
    BY <1>1
  <2> HIDE DEF m
  <2> QED
    BY <1>1, <2>1, <2>2, <2>3 DEF Says
<1>2. ASSUME NEW s \in Sockets, Answer(s) PROVE \E m \in Message : Says(s, m)
  <2>1. InTurn(s) /\ "assistant" \in Roles /\ 0 \in Nat
    BY <1>2 DEF Answer, Goto, HandlerInv, Roles
  <2> QED
    BY <1>1, <1>2, <2>1 DEF Answer, history
<1>3. ASSUME NEW s \in Sockets, CallTools(s) PROVE \E m \in Message : Says(s, m)
  <2>1. InTurn(s) /\ "assistant" \in Roles /\ 0 \in Nat
    BY <1>3 DEF CallTools, Goto, HandlerInv, Roles
  <2>2. PICK k \in 1..MaxCalls :
          messages' = [messages EXCEPT ![s] = Append(@, Said(s, "assistant", k, 0))]
    BY <1>3 DEF CallTools
  <2>3. UNCHANGED <<sent, store, turns>> /\ k \in Nat
    BY <1>3 DEF CallTools, history
  <2> QED
    BY <1>1, <2>1, <2>2, <2>3
<1>4. ASSUME NEW s \in Sockets, Report(s) PROVE \E m \in Message : Says(s, m)
  <2>1. InTurn(s) /\ "tool" \in Roles /\ 0 \in Nat
    BY <1>4 DEF Report, HandlerInv, Roles
  <2>2. CallAt(s) \in Nat
    BY <2>1, NextMessage
  <2>3. UNCHANGED <<sent, store, turns>>
    BY <1>4 DEF Report, history
  <2> QED
    BY <1>1, <1>4, <2>1, <2>2, <2>3 DEF Report
<1>5. ASSUME NEW s \in Sockets, EndTurn(s), UNCHANGED turns,
             store' = store \/ (InTurn(s) /\ store' = store \o Delta(s))
      PROVE  Ends({s})
  <2>1. /\ messages'[s] = <<>>
        /\ \A x \in Sockets \ {s} : messages'[x] = messages[x] /\ sent'[x] = sent[x]
    BY <1>5, EndTurnType
  <2> QED
    BY <1>5, <2>1 DEF Ends
<1>6. ASSUME NEW s \in Sockets, Vanish(s) \/ Save(s) PROVE Ends({s})
  <2>1. EndTurn(s) /\ UNCHANGED turns
    BY <1>6 DEF Vanish, Save
  <2>2. store' = store \/ (InTurn(s) /\ store' = store \o Delta(s))
    <3>1. CASE Vanish(s)
      BY <3>1 DEF Vanish
    <3>2. CASE Save(s)
      <4>1. conn[s] = "returned"
        BY <3>2 DEF Save, Goto
      <4>2. InTurn(s)
        BY <4>1 DEF HandlerInv
      <4> QED
        BY <3>2, <4>2 DEF Save
    <3> QED
      BY <1>6, <3>1, <3>2
  <2> QED
    BY <1>5, <2>1, <2>2
<1>7. CASE Restart
  <2>1. Ends(Sockets)
    BY <1>7 DEF Restart, Ends
  <2> QED
    BY <2>1
<1>8. ASSUME NEW s \in Sockets,
             \/ Connect(s) \/ Leave(s) \/ SwitchTab(s) \/ ModelFails(s) \/ MalformedCall(s)
             \/ ReadOrRefuse(s) \/ DispatchWrite(s) \/ DispatchSwitch(s) \/ Touch(s) \/ Drop(s)
      PROVE  UNCHANGED <<messages, sent, store, turns>>
  BY <1>8 DEF Connect, Leave, SwitchTab, ModelFails, MalformedCall, ReadOrRefuse, DispatchWrite,
              DispatchSwitch, Touch, Drop, turn, history
<1>9. CASE UNCHANGED vars
  BY <1>9 DEF vars, turn, history
<1> QED
  BY <1>2, <1>3, <1>4, <1>6, <1>7, <1>8, <1>9 DEF Next, TurnStep

\* What a prompt makes of the messages.
LEMMA PromptMessages ==
  ASSUME TypeInv, HandlerInv, NEW s \in Sockets, Prompt(s)
  PROVE  LET ms == TrimForModel(memory[s]) IN
         /\ ms \in Seq(Message) /\ Len(ms) \in Nat
         /\ \lnot InTurn(s) /\ turns' = turns + 1 /\ turns \in Nat
         /\ \A x \in Sockets \ {s} : messages'[x] = messages[x] /\ sent'[x] = sent[x]
         /\ sent'[s] = Len(ms) /\ Len(messages'[s]) = Len(ms) + 1
         /\ messages'[s] # <<>> /\ messages'[s] \in Seq(Message)
         /\ Last(messages'[s]) = messages'[s][Len(ms) + 1]
         /\ messages'[s][Len(ms) + 1] =
              [turn |-> turns + 1, at |-> 1, role |-> "user", calls |-> 0, of |-> 0]
         /\ \A i \in 1..Len(ms) : messages'[s][i] = ms[i]
<1> DEFINE ms == TrimForModel(memory[s])
           m == [turn |-> turns', at |-> 1, role |-> "user", calls |-> 0, of |-> 0]
<1>1. ms \in Seq(Message) /\ Len(ms) \in 0..MaxModel
  BY TrimProperties DEF TypeInv
<1>2. turns' = turns + 1 /\ turns \in Nat
  BY AgentTurnAssumption DEF Prompt, TypeInv
<1>3. m \in Message
  BY <1>2 DEF Message, Roles
<1>4. ~ InTurn(s)
  BY DEF Prompt, Goto, HandlerInv
<1>5. messages' = [messages EXCEPT ![s] = Append(ms, m)] /\ sent' = [sent EXCEPT ![s] = Len(ms)]
  BY DEF Prompt
<1>6. m = [turn |-> turns + 1, at |-> 1, role |-> "user", calls |-> 0, of |-> 0]
  BY <1>2
<1> HIDE DEF ms, m
<1>7. /\ messages'[s] = Append(ms, m) /\ sent'[s] = Len(ms)
      /\ \A x \in Sockets \ {s} : messages'[x] = messages[x] /\ sent'[x] = sent[x]
  BY <1>5 DEF TypeInv
<1>8. Len(ms) \in Nat
  BY <1>1
<1>9. /\ Append(ms, m) # <<>> /\ Append(ms, m) \in Seq(Message)
      /\ Len(Append(ms, m)) = Len(ms) + 1 /\ Append(ms, m)[Len(ms) + 1] = m
      /\ Last(Append(ms, m)) = m
      /\ \A i \in 1..Len(ms) : Append(ms, m)[i] = ms[i]
  BY <1>1, <1>3, Appended
<1> QED
  BY <1>1, <1>2, <1>4, <1>6, <1>7, <1>8, <1>9 DEF ms

\* What a handler's message makes of them.
LEMMA SaysMessages ==
  ASSUME TypeInv, NEW s \in Sockets, NEW m \in Message, Says(s, m)
  PROVE  /\ Len(messages[s]) \in Nat \ {0} /\ Len(messages'[s]) = Len(messages[s]) + 1
         /\ messages'[s] # <<>> /\ messages'[s] \in Seq(Message)
         /\ messages'[s][Len(messages[s]) + 1] = m /\ Last(messages'[s]) = m
         /\ \A i \in 1..Len(messages[s]) : messages'[s][i] = messages[s][i]
         /\ \A x \in Sockets \ {s} : messages'[x] = messages[x]
         /\ \A x \in Sockets : (InTurn(x)' <=> InTurn(x)) /\ (InTurn(x) => Turn(x)' = Turn(x))
<1>1. /\ messages[s] \in Seq(Message) /\ messages[s] # <<>>
      /\ messages'[s] = Append(messages[s], m) /\ m.turn = Turn(s)
      /\ \A x \in Sockets \ {s} : messages'[x] = messages[x]
  BY DEF TypeInv, Says, InTurn
<1>2. Len(messages[s]) \in Nat \ {0}
  BY <1>1, EmptySeq
<1>3. /\ messages'[s] # <<>> /\ messages'[s] \in Seq(Message)
      /\ Len(messages'[s]) = Len(messages[s]) + 1
      /\ messages'[s][Len(messages[s]) + 1] = m /\ Last(messages'[s]) = m
      /\ \A i \in 1..Len(messages[s]) : messages'[s][i] = messages[s][i]
  BY <1>1, Appended
<1>4. \A x \in Sockets : (InTurn(x)' <=> InTurn(x)) /\ (InTurn(x) => Turn(x)' = Turn(x))
  BY <1>1, <1>3 DEF InTurn, Turn
<1> QED
  BY <1>1, <1>2, <1>3, <1>4

\* A turn that runs is told by the messages that follow what was sent.
LEMMA RunStep ==
  ASSUME TypeInv, TypeInv', HandlerInv, RunInv, [Next]_vars
  PROVE  RunInv'
<1> SUFFICES ASSUME NEW x \in Sockets, InTurn(x)'
             PROVE  /\ sent'[x] < Len(messages'[x])
                    /\ \A i \in (sent'[x] + 1)..Len(messages'[x]) :
                          /\ messages'[x][i].turn = Last(messages'[x]).turn
                          /\ messages'[x][i].at = i - sent'[x]
                    /\ messages'[x][sent'[x] + 1].role = "user"
                    /\ Last(messages'[x]).turn \in 1..turns'
  BY DEF RunInv, Own, Turn
<1>1. ASSUME messages'[x] = messages[x], sent'[x] = sent[x], turns \in Nat, turns' \in Nat,
             turns <= turns'
      PROVE  /\ sent'[x] < Len(messages'[x])
             /\ \A i \in (sent'[x] + 1)..Len(messages'[x]) :
                   /\ messages'[x][i].turn = Last(messages'[x]).turn
                   /\ messages'[x][i].at = i - sent'[x]
             /\ messages'[x][sent'[x] + 1].role = "user"
             /\ Last(messages'[x]).turn \in 1..turns'
  <2>1. InTurn(x)
    BY <1>1 DEF InTurn
  <2>2. 1..turns \subseteq 1..turns'
    BY <1>1
  <2> QED
    BY <1>1, <2>1, <2>2 DEF RunInv, Own, Turn
<1>2. turns \in Nat
  BY AgentTurnAssumption DEF TypeInv
<1>3. CASE UNCHANGED <<messages, sent, store, turns>>
  BY <1>1, <1>2, <1>3
<1>4. ASSUME NEW s \in Sockets, Prompt(s)
      PROVE  /\ sent'[x] < Len(messages'[x])
             /\ \A i \in (sent'[x] + 1)..Len(messages'[x]) :
                   /\ messages'[x][i].turn = Last(messages'[x]).turn
                   /\ messages'[x][i].at = i - sent'[x]
             /\ messages'[x][sent'[x] + 1].role = "user"
             /\ Last(messages'[x]).turn \in 1..turns'
  <2>1. PICK n \in Nat :
          /\ sent'[s] = n /\ Len(messages'[s]) = n + 1 /\ Last(messages'[s]) = messages'[s][n + 1]
          /\ messages'[s][n + 1] =
               [turn |-> turns + 1, at |-> 1, role |-> "user", calls |-> 0, of |-> 0]
          /\ turns' = turns + 1
          /\ \A y \in Sockets \ {s} : messages'[y] = messages[y] /\ sent'[y] = sent[y]
    BY <1>4, PromptMessages
  <2>2. CASE x = s
    <3>1. \A i \in (n + 1)..(n + 1) : i = n + 1 /\ i - n = 1
      OBVIOUS
    <3>2. turns + 1 \in 1..turns'
      BY <1>2, <2>1
    <3> QED
      BY <2>1, <2>2, <3>1, <3>2
  <2>3. CASE x # s
    BY <1>1, <1>2, <2>1, <2>3
  <2> QED
    BY <2>2, <2>3
<1>5. ASSUME NEW s \in Sockets, NEW m \in Message, Says(s, m)
      PROVE  /\ sent'[x] < Len(messages'[x])
             /\ \A i \in (sent'[x] + 1)..Len(messages'[x]) :
                   /\ messages'[x][i].turn = Last(messages'[x]).turn
                   /\ messages'[x][i].at = i - sent'[x]
             /\ messages'[x][sent'[x] + 1].role = "user"
             /\ Last(messages'[x]).turn \in 1..turns'
  <2> DEFINE n == Len(messages[s])
  <2>1. /\ n \in Nat \ {0} /\ Len(messages'[s]) = n + 1
        /\ messages'[s][n + 1] = m /\ Last(messages'[s]) = m
        /\ \A i \in 1..n : messages'[s][i] = messages[s][i]
        /\ \A y \in Sockets \ {s} : messages'[y] = messages[y]
    BY <1>5, SaysMessages
  <2>2. /\ InTurn(s) /\ m.turn = Turn(s) /\ m.at = Last(messages[s]).at + 1
        /\ sent' = sent /\ turns' = turns
    BY <1>5 DEF Says
  <2>3. /\ sent[s] \in Nat /\ sent[s] < n /\ Turn(s) \in 1..turns
        /\ \A i \in (sent[s] + 1)..n : /\ messages[s][i].turn = Turn(s)
                                      /\ messages[s][i].at = i - sent[s]
        /\ messages[s][sent[s] + 1].role = "user"
    BY <2>2, AgentTurnAssumption DEF RunInv, Own, TypeInv
  <2>4. Last(messages[s]).at = n - sent[s]
    <3>1. n \in (sent[s] + 1)..n
      BY <2>1, <2>3
    <3> QED
      BY <2>3, <3>1 DEF Last
  <2> HIDE DEF n
  <2>5. CASE x = s
    <3>1. ASSUME NEW i \in (sent[s] + 1)..(n + 1)
          PROVE  messages'[s][i].turn = m.turn /\ messages'[s][i].at = i - sent[s]
      <4>1. CASE i = n + 1
        <5>1. (n - sent[s]) + 1 = (n + 1) - sent[s]
          BY <2>1, <2>3
        <5>2. m.at = (n + 1) - sent[s]
          BY <2>2, <2>4, <5>1
        <5> QED
          BY <2>1, <4>1, <5>2
      <4>2. CASE i # n + 1
        <5>1. i \in 1..n /\ i \in (sent[s] + 1)..n
          BY <2>1, <2>3, <4>2
        <5> QED
          BY <2>1, <2>2, <2>3, <5>1
      <4> QED
        BY <4>1, <4>2
    <3>2. sent[s] + 1 \in 1..n
      BY <2>1, <2>3
    <3>3. sent[s] < n + 1
      BY <2>1, <2>3
    <3> QED
      BY <2>1, <2>2, <2>3, <2>5, <3>1, <3>2, <3>3
  <2>6. CASE x # s
    BY <1>1, <1>2, <2>1, <2>2, <2>6
  <2> QED
    BY <2>5, <2>6
<1>6. ASSUME NEW S \in SUBSET Sockets, Ends(S)
      PROVE  messages'[x] = messages[x] /\ sent'[x] = sent[x] /\ turns' = turns
  BY <1>6 DEF Ends, InTurn
<1> QED
  BY <1>1, <1>2, <1>3, <1>4, <1>5, <1>6, MessageSteps

\* Nothing of a running turn is stored, and nothing is stored twice.
LEMMA FreshStep ==
  ASSUME TypeInv, TypeInv', HandlerInv, RunInv, FreshInv, StoredOnce, [Next]_vars
  PROVE  FreshInv' /\ StoredOnce'
<1>1. turns \in Nat
  BY AgentTurnAssumption DEF TypeInv
<1>2. ASSUME UNCHANGED <<store, turns>>,
             \A s \in Sockets : InTurn(s)' => InTurn(s) /\ Turn(s)' = Turn(s)
      PROVE  FreshInv' /\ StoredOnce'
  BY <1>2 DEF FreshInv, StoredOnce
<1>3. CASE UNCHANGED <<messages, sent, store, turns>>
  BY <1>2, <1>3 DEF InTurn, Turn
<1>4. ASSUME NEW s \in Sockets, Prompt(s) PROVE FreshInv' /\ StoredOnce'
  <2>1. /\ ~ InTurn(s) /\ turns' = turns + 1 /\ Last(messages'[s]).turn = turns + 1
        /\ \A x \in Sockets \ {s} : messages'[x] = messages[x]
    BY <1>4, PromptMessages
  <2>2. store' = store
    BY <1>4 DEF Prompt
  <2>3. Turn(s)' = turns + 1 /\ \A x \in Sockets \ {s} : InTurn(x)' = InTurn(x) /\ Turn(x)' = Turn(x)
    BY <2>1 DEF Turn, InTurn
  <2>4. \A x \in Sockets \ {s} : InTurn(x) => Turn(x) # turns + 1
    BY <1>1 DEF RunInv
  <2>5. \A i \in 1..Len(store) : store[i].turn \in 1..(turns + 1) /\ store[i].turn # turns + 1
    BY <1>1 DEF FreshInv
  <2> QED
    BY <2>1, <2>2, <2>3, <2>4, <2>5 DEF FreshInv, StoredOnce
<1>5. ASSUME NEW s \in Sockets, NEW m \in Message, Says(s, m) PROVE FreshInv' /\ StoredOnce'
  BY <1>2, <1>5, SaysMessages DEF Says
<1>6. ASSUME NEW S \in SUBSET Sockets, Ends(S) PROVE FreshInv' /\ StoredOnce'
  <2>1. \A x \in Sockets : InTurn(x)' => x \notin S /\ InTurn(x) /\ Turn(x)' = Turn(x)
    BY <1>6 DEF Ends, InTurn, Turn
  <2>2. CASE store' = store
    BY <1>2, <1>6, <2>1, <2>2 DEF Ends
  <2>3. ASSUME NEW s \in S, InTurn(s), store' = store \o Delta(s) PROVE FreshInv' /\ StoredOnce'
    <3> DEFINE n == Len(store)
    <3>1. /\ n \in Nat /\ Len(store') = n + Len(Delta(s)) /\ Len(Delta(s)) \in Nat
          /\ \A i \in 1..Len(store') :
                store'[i] = IF i <= n THEN store[i] ELSE Delta(s)[i - n]
          /\ \A j \in 1..Len(Delta(s)) : Delta(s)[j].turn = Turn(s) /\ Delta(s)[j].at = j
      BY <2>3, DeltaProperties
    <3>2. turns' = turns /\ Turn(s) \in 1..turns
      BY <1>6, <2>3 DEF Ends, RunInv
    <3> HIDE DEF n
    <3>3. ASSUME NEW i \in 1..Len(store')
          PROVE  \/ i \in 1..n /\ store'[i] = store[i]
                 \/ ~(i <= n) /\ store'[i].turn = Turn(s) /\ store'[i].at = i - n
      <4>1. CASE i <= n
        BY <3>1, <4>1
      <4>2. CASE ~(i <= n)
        <5>1. i - n \in 1..Len(Delta(s))
          BY <3>1, <4>2
        <5> QED
          BY <3>1, <4>2, <5>1
      <4> QED
        BY <4>1, <4>2
    <3>4. \A i \in 1..n : store[i].turn \in 1..turns /\ store[i].turn # Turn(s)
      BY <2>3 DEF FreshInv, n
    <3>5. \A i \in 1..Len(store') : store'[i].turn \in 1..turns'
      BY <3>2, <3>3, <3>4
    <3>6. ASSUME NEW x \in Sockets, InTurn(x)', NEW i \in 1..Len(store')
          PROVE  store'[i].turn # Turn(x)'
      <4>1. x # s /\ InTurn(x) /\ Turn(x)' = Turn(x) /\ Turn(x) # Turn(s)
        BY <2>1, <2>3, <3>6 DEF FreshInv
      <4>2. \A k \in 1..n : store[k].turn # Turn(x)
        BY <4>1 DEF FreshInv, n
      <4> QED
        BY <3>3, <4>1, <4>2
    <3>7. FreshInv'
      BY <2>1, <3>5, <3>6 DEF FreshInv
    <3>8. ASSUME NEW i \in 1..Len(store'), NEW k \in 1..Len(store'),
                 store'[i].turn = store'[k].turn, store'[i].at = store'[k].at
          PROVE  i = k
      <4>1. CASE i \in 1..n /\ k \in 1..n
        <5>1. store'[i] = store[i] /\ store'[k] = store[k]
          BY <3>1, <4>1
        <5> QED
          BY <3>8, <4>1, <5>1 DEF StoredOnce, n
      <4>2. CASE ~(i <= n) /\ ~(k <= n)
        BY <3>1, <3>3, <3>8, <4>2
      <4>3. CASE i \in 1..n /\ ~(k <= n)
        BY <3>1, <3>3, <3>4, <3>8, <4>3
      <4>4. CASE ~(i <= n) /\ k \in 1..n
        BY <3>1, <3>3, <3>4, <3>8, <4>4
      <4> QED
        BY <3>1, <4>1, <4>2, <4>3, <4>4
    <3> QED
      BY <3>7, <3>8 DEF StoredOnce
  <2> QED
    BY <1>6, <2>2, <2>3 DEF Ends
<1> QED
  BY <1>3, <1>4, <1>5, <1>6, MessageSteps

-----------------------------------------------------------------------------
(* Writes *)

\* A write whose result is held by a turn that goes on is held there still, in
\* its messages or as the one that is said next.
LEMMA WritesStep ==
  ASSUME TypeInv, TypeInv', HandlerInv, RunInv, WritesInv, [Next]_vars
  PROVE  WritesInv'
<1> DEFINE Recorded(w) == w.turn \in unsaved \/ Stored(w) \/ \E s \in Sockets : Held(s, w)
<1>1. turns \in Nat /\ turns' \in Nat
  BY AgentTurnAssumption DEF TypeInv
<1>2. ASSUME turns <= turns', unsaved \subseteq unsaved', writes' = writes,
             store' = store,
             \A s \in Sockets, w \in writes : Held(s, w) => Recorded(w)'
      PROVE  WritesInv'
  <2> SUFFICES ASSUME NEW w \in writes
               PROVE  w.turn \in 1..turns' /\ Recorded(w)'
    BY <1>2 DEF WritesInv
  <2>1. w.turn \in 1..turns /\ Recorded(w)
    BY DEF WritesInv
  <2>2. w.turn \in 1..turns'
    BY <1>1, <1>2, <2>1
  <2>3. Stored(w) => Stored(w)'
    BY <1>2 DEF Stored
  <2> QED
    BY <1>2, <2>1, <2>2, <2>3
<1>3. ASSUME NEW s \in Sockets, NEW w, Held(s, w), messages'[s] = messages[s], sent'[s] = sent[s],
             conn'[s] = conn[s] \/ conn[s] # "reporting"
      PROVE  Held(s, w)'
  BY <1>3 DEF Held, InTurn, Turn, Own
<1>4. ASSUME UNCHANGED <<messages, sent, store, turns, unsaved, writes>>,
             \A s \in Sockets : conn'[s] = conn[s] \/ conn[s] # "reporting"
      PROVE  WritesInv'
  BY <1>1, <1>2, <1>3, <1>4
<1>5. ASSUME NEW s \in Sockets,
             \/ Connect(s) \/ Leave(s) \/ SwitchTab(s) \/ ModelFails(s) \/ MalformedCall(s)
             \/ ReadOrRefuse(s) \/ DispatchSwitch(s) \/ Touch(s) \/ Drop(s)
      PROVE  WritesInv'
  <2>1. UNCHANGED <<messages, sent, store, turns, unsaved, writes>>
    BY <1>5 DEF Connect, Leave, SwitchTab, ModelFails, MalformedCall, ReadOrRefuse,
                DispatchSwitch, Touch, Drop, turn, history
  <2>2. \A x \in Sockets : conn'[x] = conn[x] \/ conn[x] # "reporting"
    BY <1>5 DEF Connect, Leave, SwitchTab, ModelFails, MalformedCall, ReadOrRefuse,
                DispatchSwitch, Touch, Drop, Goto, TypeInv
  <2> QED
    BY <1>4, <2>1, <2>2
<1>6. ASSUME NEW s \in Sockets, Prompt(s) PROVE WritesInv'
  <2>1. /\ ~ InTurn(s) /\ turns' = turns + 1
        /\ \A x \in Sockets \ {s} : messages'[x] = messages[x] /\ sent'[x] = sent[x]
    BY <1>6, PromptMessages
  <2>2. UNCHANGED <<store, writes, unsaved>> /\ \A x \in Sockets \ {s} : conn'[x] = conn[x]
    BY <1>6 DEF Prompt, Goto, TypeInv
  <2>3. ASSUME NEW x \in Sockets, NEW w \in writes, Held(x, w) PROVE Held(x, w)'
    <3>1. x # s
      BY <2>1, <2>3 DEF Held
    <3> QED
      BY <1>3, <2>1, <2>2, <2>3, <3>1
  <2> QED
    BY <1>1, <1>2, <2>1, <2>2, <2>3
<1>7. ASSUME NEW s \in Sockets, NEW m \in Message, Says(s, m), UNCHANGED <<writes, unsaved>>,
             conn[s] = "reporting" => m.role = "tool",
             \A x \in Sockets \ {s} : conn'[x] = conn[x]
      PROVE  WritesInv'
  <2> DEFINE n == Len(messages[s])
  <2>1. /\ n \in Nat \ {0} /\ Len(messages'[s]) = n + 1
        /\ messages'[s][n + 1] = m
        /\ \A i \in 1..n : messages'[s][i] = messages[s][i]
        /\ \A x \in Sockets \ {s} : messages'[x] = messages[x]
        /\ \A x \in Sockets : (InTurn(x)' <=> InTurn(x)) /\ (InTurn(x) => Turn(x)' = Turn(x))
    BY <1>7, SaysMessages
  <2>2. UNCHANGED <<sent, store, turns>> /\ m.at = Last(messages[s]).at + 1
    BY <1>7 DEF Says
  <2> HIDE DEF n
  <2>3. sent[s] \in Nat /\ (InTurn(s) => sent[s] < n)
    BY AgentTurnAssumption DEF TypeInv, RunInv, n
  <2>4. ASSUME NEW w \in writes, Held(s, w) PROVE Held(s, w)'
    <3>1. InTurn(s)' /\ Turn(s)' = w.turn
      BY <2>1, <2>4 DEF Held
    <3>2. CASE \E i \in Own(s) : messages[s][i].at = w.at /\ messages[s][i].role = "tool"
      <4>1. PICK i \in Own(s) : messages[s][i].at = w.at /\ messages[s][i].role = "tool"
        BY <3>2
      <4>2. i \in 1..n /\ i \in (sent[s] + 1)..(n + 1)
        BY <2>1, <2>3, <4>1 DEF Own, n
      <4>3. i \in Own(s)' /\ messages'[s][i] = messages[s][i]
        BY <2>1, <2>2, <4>2 DEF Own
      <4> QED
        BY <3>1, <4>1, <4>3 DEF Held
    <3>3. CASE conn[s] = "reporting" /\ w.at = Last(messages[s]).at + 1
      <4>1. n + 1 \in (sent[s] + 1)..(n + 1)
        BY <2>1, <2>3, <2>4 DEF Held
      <4>2. n + 1 \in Own(s)' /\ messages'[s][n + 1] = m
        BY <2>1, <2>2, <4>1 DEF Own
      <4> QED
        BY <1>7, <2>2, <3>1, <3>3, <4>2 DEF Held
    <3> QED
      BY <2>4, <3>2, <3>3 DEF Held
  <2>5. ASSUME NEW x \in Sockets, NEW w \in writes, Held(x, w) PROVE Held(x, w)'
    <3>1. CASE x = s
      BY <2>4, <2>5, <3>1
    <3>2. CASE x # s
      BY <1>3, <1>7, <2>1, <2>2, <2>5, <3>2
    <3> QED
      BY <3>1, <3>2
  <2> QED
    BY <1>1, <1>2, <1>7, <2>2, <2>5
<1>8. ASSUME NEW s \in Sockets, Answer(s) \/ CallTools(s) \/ Report(s) PROVE WritesInv'
  <2>1. /\ UNCHANGED <<writes, unsaved, sent, store, turns>>
        /\ \A x \in Sockets \ {s} : conn'[x] = conn[x]
        /\ InTurn(s) /\ (conn[s] = "reporting" => Report(s))
    BY <1>8 DEF Answer, CallTools, Report, Goto, history, HandlerInv, TypeInv
  <2>2. PICK role \in Roles, calls \in Nat, of \in Nat :
          /\ messages' = [messages EXCEPT ![s] = Append(@, Said(s, role, calls, of))]
          /\ conn[s] = "reporting" => role = "tool"
    <3>1. CASE Answer(s)
      BY <3>1 DEF Answer, Goto, Roles
    <3>2. CASE CallTools(s)
      <4>1. conn[s] = "calling" /\ "assistant" \in Roles /\ 0 \in Nat
        BY <3>2 DEF CallTools, Goto, Roles
      <4>2. PICK k \in 1..MaxCalls :
              messages' = [messages EXCEPT ![s] = Append(@, Said(s, "assistant", k, 0))]
        BY <3>2 DEF CallTools
      <4>3. k \in Nat
        BY AgentTurnAssumption
      <4> QED
        BY <4>1, <4>2, <4>3
    <3>3. CASE Report(s)
      <4>1. CallAt(s) \in Nat /\ 0 \in Nat /\ "tool" \in Roles
        BY <2>1, NextMessage DEF Roles
      <4> QED
        BY <3>3, <4>1 DEF Report
    <3> QED
      BY <1>8, <3>1, <3>2, <3>3
  <2> DEFINE m == Said(s, role, calls, of)
  <2>3. /\ m \in Message
        /\ m = [turn |-> Turn(s), at |-> Last(messages[s]).at + 1, role |-> role,
                calls |-> calls, of |-> of]
    BY <2>1, NextMessage
  <2>4. m.turn = Turn(s) /\ m.at = Last(messages[s]).at + 1 /\ m.role = role
    BY <2>3
  <2>5. messages' = [messages EXCEPT ![s] = Append(@, m)]
    BY <2>2
  <2> HIDE DEF m
  <2>6. Says(s, m)
    BY <2>1, <2>3, <2>4, <2>5 DEF Says
  <2> QED
    BY <1>7, <2>1, <2>2, <2>3, <2>4, <2>6
<1>9. ASSUME NEW s \in Sockets, DispatchWrite(s) PROVE WritesInv'
  <2>1. /\ conn[s] = "tool" /\ conn' = [conn EXCEPT ![s] = "reporting"]
        /\ writes' = writes \cup {[turn |-> Turn(s), at |-> Last(messages[s]).at + 1,
                                  tab |-> turnTab[s], chosen |-> chosen[s]]}
        /\ UNCHANGED <<store, messages, sent, turns, unsaved>>
    BY <1>9 DEF DispatchWrite, Goto, turn, history
  <2>2. InTurn(s) /\ Turn(s) \in 1..turns
    BY <2>1 DEF HandlerInv, RunInv
  <2>3. conn'[s] = "reporting" /\ \A x \in Sockets : conn'[x] = conn[x] \/ conn[x] # "reporting"
    BY <2>1 DEF TypeInv
  <2> SUFFICES ASSUME NEW w \in writes'
               PROVE  w.turn \in 1..turns /\ Recorded(w)'
    BY <2>1 DEF WritesInv
  <2>4. CASE w \in writes
    <3>1. w.turn \in 1..turns /\ Recorded(w)
      BY <2>4 DEF WritesInv
    <3>2. Stored(w) => Stored(w)'
      BY <2>1 DEF Stored
    <3>3. \A x \in Sockets : Held(x, w) => Held(x, w)'
      BY <1>3, <2>1, <2>3
    <3> QED
      BY <2>1, <3>1, <3>2, <3>3
  <2>5. CASE w.turn = Turn(s) /\ w.at = Last(messages[s]).at + 1
    <3>1. Held(s, w)'
      BY <2>1, <2>2, <2>3, <2>5 DEF Held, InTurn, Turn
    <3> QED
      BY <2>2, <2>5, <3>1
  <2> QED
    BY <2>1, <2>4, <2>5
<1>10. ASSUME NEW S \in SUBSET Sockets, Ends(S), store' = store, UNCHANGED writes,
              unsaved' = unsaved \cup {Turn(s) : s \in {x \in S : InTurn(x)}},
              \A x \in Sockets \ S : conn'[x] = conn[x]
       PROVE  WritesInv'
  <2>1. \A x \in Sockets \ S : messages'[x] = messages[x] /\ sent'[x] = sent[x]
    BY <1>10 DEF Ends
  <2>2. ASSUME NEW x \in Sockets, NEW w \in writes, Held(x, w) PROVE Recorded(w)'
    <3>1. CASE x \in S
      BY <1>10, <2>2, <3>1 DEF Held
    <3>2. CASE x \notin S
      <4>1. Held(x, w)'
        BY <1>3, <1>10, <2>1, <2>2, <3>2
      <4> QED
        BY <4>1
    <3> QED
      BY <3>1, <3>2
  <2>3. turns' = turns
    BY <1>10 DEF Ends
  <2> QED
    BY <1>1, <1>2, <1>10, <2>2, <2>3
<1>11. ASSUME NEW s \in Sockets, Vanish(s) PROVE WritesInv'
  <2>1. /\ EndTurn(s) /\ UNCHANGED <<store, writes, turns>>
        /\ unsaved' = unsaved \cup {Turn(s)}
    BY <1>11 DEF Vanish
  <2>2. InTurn(s) /\ \A x \in Sockets \ {s} : conn'[x] = conn[x]
    BY <1>11 DEF Vanish, HandlerInv, TypeInv
  <2>3. Ends({s})
    BY <2>1, EndTurnType DEF Ends
  <2>4. unsaved' = unsaved \cup {Turn(x) : x \in {y \in {s} : InTurn(y)}}
    BY <2>1, <2>2
  <2> QED
    BY <1>10, <2>1, <2>2, <2>3, <2>4
<1>12. CASE Restart
  <2>1. Ends(Sockets) /\ UNCHANGED <<store, writes>>
    BY <1>12 DEF Restart, Ends
  <2>2. unsaved' = unsaved \cup {Turn(s) : s \in {x \in Sockets : InTurn(x)}}
    BY <1>12 DEF Restart
  <2> QED
    BY <1>10, <2>1, <2>2
<1>13. ASSUME NEW s \in Sockets, Save(s) PROVE WritesInv'
  <2>1. /\ EndTurn(s) /\ UNCHANGED <<writes, turns>> /\ conn[s] = "returned"
        /\ \A x \in Sockets \ {s} : conn'[x] = conn[x]
    BY <1>13 DEF Save, Goto, TypeInv
  <2>2. InTurn(s)
    BY <2>1 DEF HandlerInv
  <2>3. CASE store' = store /\ unsaved' = unsaved \cup {Turn(s)}
    <3>1. Ends({s})
      BY <2>1, <2>3, EndTurnType DEF Ends
    <3>2. unsaved' = unsaved \cup {Turn(x) : x \in {y \in {s} : InTurn(y)}}
      BY <2>2, <2>3
    <3> QED
      BY <1>10, <2>1, <2>3, <3>1, <3>2
  <2>4. CASE store' = store \o Delta(s) /\ unsaved' = unsaved
    <3> DEFINE n == Len(store)
    <3>1. /\ n \in Nat /\ Len(store') = n + Len(Delta(s)) /\ Len(Delta(s)) \in Nat
          /\ \A i \in 1..Len(store') :
                store'[i] = IF i <= n THEN store[i] ELSE Delta(s)[i - n]
          /\ Len(Delta(s)) = Len(messages[s]) - sent[s]
          /\ \A j \in 1..Len(Delta(s)) : /\ Delta(s)[j] = messages[s][sent[s] + j]
                                         /\ Delta(s)[j].turn = Turn(s)
      BY <2>2, <2>4, DeltaProperties
    <3> SUFFICES ASSUME NEW w \in writes
                 PROVE  w.turn \in 1..turns /\ Recorded(w)'
      BY <2>1 DEF WritesInv
    <3>2. w.turn \in 1..turns /\ Recorded(w)
      BY DEF WritesInv
    <3>3. Stored(w) => Stored(w)'
      <4>1. \A i \in 1..Len(store) : i \in 1..Len(store') /\ store'[i] = store[i]
        BY <3>1
      <4> QED
        BY <4>1 DEF Stored
    <3>4. ASSUME Held(s, w) PROVE Stored(w)'
      <4>1. Turn(s) = w.turn
        BY <3>4 DEF Held
      <4>2. PICK i \in Own(s) : messages[s][i].at = w.at /\ messages[s][i].role = "tool"
        BY <2>1, <3>4 DEF Held
      <4>3. sent[s] \in Nat /\ Len(messages[s]) \in Nat
        BY <2>2, NextMessage, AgentTurnAssumption DEF TypeInv, Roles
      <4>4. i - sent[s] \in 1..Len(Delta(s)) /\ sent[s] + (i - sent[s]) = i
        <5>1. i \in (sent[s] + 1)..Len(messages[s])
          BY <4>2 DEF Own
        <5>2. Len(Delta(s)) = Len(messages[s]) - sent[s]
          BY <3>1
        <5> QED
          BY <4>3, <5>1, <5>2
      <4>5. Delta(s)[i - sent[s]] = messages[s][i] /\ messages[s][i].turn = w.turn
        BY <3>1, <4>1, <4>4
      <4>6. /\ n + (i - sent[s]) \in 1..Len(store') /\ ~(n + (i - sent[s]) <= n)
            /\ (n + (i - sent[s])) - n = i - sent[s]
        BY <3>1, <4>4
      <4>7. store'[n + (i - sent[s])] = messages[s][i]
        BY <3>1, <4>5, <4>6
      <4> QED
        BY <4>2, <4>5, <4>6, <4>7 DEF Stored
    <3>5. \A x \in Sockets \ {s} : Held(x, w) => Held(x, w)'
      BY <1>3, <2>1, EndTurnType
    <3> QED
      BY <2>4, <3>2, <3>3, <3>4, <3>5
  <2> QED
    BY <1>13, <2>3, <2>4 DEF Save
<1>14. CASE UNCHANGED vars
  BY <1>4, <1>14 DEF vars, turn, history
<1> QED
  BY <1>5, <1>6, <1>8, <1>9, <1>11, <1>12, <1>13, <1>14 DEF Next, TurnStep

-----------------------------------------------------------------------------
(* Calls and their results *)

\* A conversation stays sound when more turns count as torn.
LEMMA SoundMore ==
  ASSUME NEW ms, NEW lost, NEW more, lost \subseteq more
  PROVE  /\ CallsAnswered(ms, lost) => CallsAnswered(ms, more)
         /\ Sound(ms, lost) => Sound(ms, more)
  BY DEF CallsAnswered, Sound

\* What a message said at the end leaves true of those before it.
LEMMA AppendSound ==
  ASSUME NEW ms \in Seq(Message), NEW m \in Message, NEW lost
  PROVE  LET t == Append(ms, m) IN
         /\ \A i \in 1..Len(ms) : Answered(ms, i) => Answered(t, i)
         /\ ResultsOwned(ms) /\ (m.role = "tool" => HasCall(t, Len(ms) + 1)) => ResultsOwned(t)
         /\ CallsAnswered(ms, lost) /\ (m.role = "assistant" => m.calls = 0)
              => CallsAnswered(t, lost)
<1> DEFINE t == Append(ms, m)
           n == Len(ms)
<1>1. /\ n \in Nat /\ Len(t) = n + 1 /\ t[n + 1] = m
      /\ \A i \in 1..n : t[i] = ms[i]
  BY Appended
<1> HIDE DEF t, n
<1>2. ASSUME NEW i \in 1..n, Answered(ms, i) PROVE Answered(t, i)
  <2>1. t[i] = ms[i] /\ ms[i].calls \in Nat
    <3>1. ms[i] \in Message
      BY ElementOfSeq DEF n
    <3> QED
      BY <1>1, <3>1 DEF Message
  <2> SUFFICES ASSUME NEW k \in 1..ms[i].calls
               PROVE  /\ i + k <= n + 1 /\ t[i + k].role = "tool"
                      /\ t[i + k].turn = ms[i].turn /\ t[i + k].of = ms[i].at
    BY <1>1, <2>1 DEF Answered
  <2>2. /\ i + k <= n /\ ms[i + k].role = "tool"
        /\ ms[i + k].turn = ms[i].turn /\ ms[i + k].of = ms[i].at
    BY <1>2 DEF Answered, n
  <2>3. i + k \in 1..n /\ i + k <= n + 1
    BY <1>1, <2>1, <2>2
  <2>4. t[i + k] = ms[i + k]
    BY <1>1, <2>3
  <2> QED
    BY <2>2, <2>3, <2>4
<1>3. ASSUME ResultsOwned(ms), m.role = "tool" => HasCall(t, n + 1)
      PROVE  ResultsOwned(t)
  <2> SUFFICES ASSUME NEW i \in 1..(n + 1), t[i].role = "tool"
               PROVE  HasCall(t, i) \/ Orphan(t, i)
    BY <1>1 DEF ResultsOwned
  <2>1. CASE i = n + 1
    BY <1>1, <1>3, <2>1
  <2>2. CASE i # n + 1
    <3>1. i \in 1..n /\ \A x \in 1..i : t[x] = ms[x]
      BY <1>1, <2>2
    <3>2. HasCall(ms, i) \/ Orphan(ms, i)
      BY <1>3, <3>1 DEF ResultsOwned, n
    <3>3. HasCall(ms, i) => HasCall(t, i)
      <4>1. \A k \in 1..(i - 1) : k \in 1..i /\ \A x \in (k + 1)..i : x \in 1..i
        BY <3>1
      <4> QED
        BY <3>1, <4>1 DEF HasCall
    <3>4. Orphan(ms, i) => Orphan(t, i)
      BY <3>1 DEF Orphan
    <3> QED
      BY <3>2, <3>3, <3>4
  <2> QED
    BY <2>1, <2>2
<1>4. ASSUME CallsAnswered(ms, lost), m.role = "assistant" => m.calls = 0
      PROVE  CallsAnswered(t, lost)
  <2> SUFFICES ASSUME NEW i \in 1..(n + 1), t[i].role = "assistant", t[i].turn \notin lost
               PROVE  Answered(t, i)
    BY <1>1 DEF CallsAnswered
  <2>1. CASE i = n + 1
    <3>1. t[i].calls = 0
      BY <1>1, <1>4, <2>1
    <3> QED
      BY <3>1 DEF Answered
  <2>2. CASE i # n + 1
    <3>1. i \in 1..n /\ t[i] = ms[i]
      BY <1>1, <2>2
    <3> QED
      BY <1>2, <1>4, <3>1 DEF CallsAnswered, n
  <2> QED
    BY <2>1, <2>2
<1> QED
  BY <1>2, <1>3, <1>4 DEF t, n

\* What is stored stays sound when a turn is added that leaves no call open: its
\* first message is the user's, so none of its results is parted from its call.
LEMMA StoreSound ==
  ASSUME TypeInv, RunInv, NEW s \in Sockets, InTurn(s), NEW lost, Sound(store, lost),
         CallsAnswered(messages[s], lost), ResultsOwned(messages[s]),
         messages[s][1].role # "tool"
  PROVE  Sound(store \o Delta(s), lost)
<1> DEFINE n == Len(store)
           d == Len(Delta(s))
           c == store \o Delta(s)
           ms == messages[s]
           b == sent[s]
<1>1. /\ n \in Nat /\ d \in Nat /\ Len(c) = n + d /\ d = Len(ms) - b
      /\ \A i \in 1..Len(c) : c[i] = IF i <= n THEN store[i] ELSE Delta(s)[i - n]
      /\ \A j \in 1..d : Delta(s)[j] = ms[b + j]
  BY DeltaProperties
<1>2. b \in Nat /\ ms[b + 1].role = "user" /\ b < Len(ms)
  BY AgentTurnAssumption DEF TypeInv, RunInv
<1>3. /\ \A i \in 1..n : store[i] \in Message
      /\ \A q \in 1..Len(ms) : ms[q] \in Message
      /\ Len(ms) \in Nat
  BY ElementOfSeq, LenProperties DEF TypeInv, InTurn
<1> HIDE DEF n, d, c, ms, b
<1>4. \A i \in 1..n : i \in 1..Len(c) /\ c[i] = store[i]
  BY <1>1
<1>5. ASSUME NEW j \in 1..d
      PROVE  /\ n + j \in 1..Len(c) /\ b + j \in 1..Len(ms) /\ c[n + j] = ms[b + j]
  <2>1. n + j \in 1..Len(c) /\ ~(n + j <= n) /\ (n + j) - n = j /\ b + j \in 1..Len(ms)
    BY <1>1, <1>2, SMTT(30)
  <2> QED
    BY <1>1, <2>1
<1>6. ASSUME NEW i \in 1..Len(c), i > n PROVE i - n \in 1..d /\ n + (i - n) = i
  BY <1>1, <1>6
<1>7. ASSUME NEW i \in 1..Len(c), c[i].role = "assistant", c[i].turn \notin lost
      PROVE  Answered(c, i)
  <2>1. CASE i <= n
    <3>1. i \in 1..n /\ c[i] = store[i] /\ store[i].calls \in Nat
      BY <1>1, <1>3, <1>4, <2>1 DEF Message
    <3>2. Answered(store, i)
      BY <1>7, <3>1 DEF Sound, CallsAnswered, n
    <3> SUFFICES ASSUME NEW k \in 1..store[i].calls
                 PROVE  /\ i + k <= Len(c) /\ c[i + k].role = "tool"
                        /\ c[i + k].turn = store[i].turn /\ c[i + k].of = store[i].at
      BY <3>1 DEF Answered
    <3>3. /\ i + k <= n /\ store[i + k].role = "tool"
          /\ store[i + k].turn = store[i].turn /\ store[i + k].of = store[i].at
      BY <3>2 DEF Answered, n
    <3>4. i + k \in 1..n /\ i + k <= Len(c)
      BY <1>1, <3>1, <3>3
    <3> QED
      BY <1>4, <3>3, <3>4
  <2>2. CASE i > n
    <3> DEFINE j == i - n
    <3>1. j \in 1..d /\ n + j = i /\ b + j \in 1..Len(ms) /\ c[i] = ms[b + j]
      BY <1>5, <1>6, <2>2
    <3>2. Answered(ms, b + j) /\ ms[b + j].calls \in Nat
      BY <1>3, <1>7, <3>1 DEF CallsAnswered, ms, Message
    <3> HIDE DEF j
    <3> SUFFICES ASSUME NEW k \in 1..ms[b + j].calls
                 PROVE  /\ i + k <= Len(c) /\ c[i + k].role = "tool"
                        /\ c[i + k].turn = ms[b + j].turn /\ c[i + k].of = ms[b + j].at
      BY <3>1 DEF Answered
    <3>3. /\ (b + j) + k <= Len(ms) /\ ms[(b + j) + k].role = "tool"
          /\ ms[(b + j) + k].turn = ms[b + j].turn /\ ms[(b + j) + k].of = ms[b + j].at
      BY <3>2 DEF Answered
    <3>4. j + k \in 1..d /\ b + (j + k) = (b + j) + k /\ n + (j + k) = i + k
      BY <1>1, <1>2, <3>1, <3>2, <3>3
    <3>5. i + k \in 1..Len(c) /\ c[i + k] = ms[(b + j) + k]
      BY <1>5, <3>4
    <3>6. i + k <= Len(c)
      BY <1>1, <3>5
    <3> QED
      BY <3>3, <3>5, <3>6
  <2> QED
    BY <1>1, <2>1, <2>2
<1>8. ASSUME NEW i \in 1..Len(c), c[i].role = "tool" PROVE HasCall(c, i) \/ Orphan(c, i)
  <2>1. CASE i <= n
    <3>1. i \in 1..n /\ \A x \in 1..i : c[x] = store[x]
      BY <1>1, <1>4, <2>1
    <3>2. HasCall(store, i) \/ Orphan(store, i)
      BY <1>8, <3>1 DEF Sound, ResultsOwned, n
    <3>3. HasCall(store, i) => HasCall(c, i)
      <4>1. \A k \in 1..(i - 1) : k \in 1..i /\ \A x \in (k + 1)..i : x \in 1..i
        BY <3>1
      <4> QED
        BY <3>1, <4>1 DEF HasCall
    <3>4. Orphan(store, i) => Orphan(c, i)
      BY <3>1 DEF Orphan
    <3> QED
      BY <3>2, <3>3, <3>4
  <2>2. CASE i > n
    <3> DEFINE j == i - n
               q == b + j
    <3>1. j \in 1..d /\ n + j = i /\ q \in 1..Len(ms) /\ c[i] = ms[q]
      BY <1>5, <1>6, <2>2
    <3>2. HasCall(ms, q)
      <4>1. ~ Orphan(ms, q)
        BY <1>2, <1>3, <3>1 DEF Orphan, ms
      <4> QED
        BY <1>8, <3>1, <4>1 DEF ResultsOwned, ms
    <3>3. PICK k \in 1..(q - 1) :
            /\ ms[k].role = "assistant" /\ q - k <= ms[k].calls
            /\ \A x \in (k + 1)..q : /\ ms[x].role = "tool"
                                     /\ ms[x].turn = ms[k].turn /\ ms[x].of = ms[k].at
      BY <3>2 DEF HasCall
    <3>4. j \in Nat /\ j >= 1 /\ k \in Int /\ k <= q - 1 /\ i \in Int /\ q = b + j /\ i = n + j
      BY <1>1, <3>1
    <3> HIDE DEF j, q
    <3>5. k > b
      <4> SUFFICES ASSUME ~(k > b) PROVE FALSE
        OBVIOUS
      <4>1. b + 1 \in (k + 1)..q
        BY <1>2, <3>4
      <4> QED
        BY <1>2, <3>3, <4>1
    <3> DEFINE e == n + (k - b)
    <3>6. k - b \in 1..d /\ b + (k - b) = k /\ e \in 1..(i - 1) /\ i - e = q - k
      BY <1>1, <1>2, <3>1, <3>4, <3>5
    <3>7. c[e] = ms[k]
      BY <1>5, <3>6
    <3> HIDE DEF e
    <3>8. ASSUME NEW x \in (e + 1)..i
          PROVE  /\ c[x].role = "tool" /\ c[x].turn = c[e].turn /\ c[x].of = c[e].at
      <4> DEFINE y == x - n
      <4>1. y \in 1..d /\ n + y = x /\ b + y \in (k + 1)..q
        BY <1>1, <1>2, <3>1, <3>4, <3>5, <3>6 DEF e
      <4>2. c[x] = ms[b + y]
        BY <1>5, <4>1
      <4> QED
        BY <3>3, <3>7, <4>1, <4>2
    <3> QED
      BY <3>3, <3>6, <3>7, <3>8 DEF HasCall
  <2> QED
    BY <1>1, <2>1, <2>2
<1> QED
  BY <1>7, <1>8 DEF Sound, CallsAnswered, ResultsOwned, c

\* A turn whose messages stay, and whose call stays open or closed, stays sound.
LEMMA TurnKept ==
  ASSUME NEW x \in Sockets, InTurn(x), TurnSound(x), torn \subseteq torn',
         messages'[x] = messages[x], sent'[x] = sent[x], todo'[x] = todo[x],
         \/ conn'[x] = conn[x]
         \/ conn[x] = "calling" /\ conn'[x] = "returned"
         \/ conn[x] = "tool" /\ conn'[x] = "reporting"
  PROVE  TurnSound(x)'
<1>1. messages'[x][1].role # "tool" /\ ResultsOwned(messages'[x])
  BY DEF TurnSound
<1>2. ASSUME conn'[x] \in {"calling", "returned"} PROVE CallsAnswered(messages'[x], torn')
  <2>1. CallsAnswered(messages[x], torn)
    BY <1>2 DEF TurnSound
  <2> QED
    BY <2>1, SoundMore
<1>3. ASSUME conn'[x] \in {"tool", "reporting"} PROVE \E p \in Own(x)' : Open(x, p)'
  <2>1. PICK p \in Own(x) : Open(x, p)
    BY <1>3 DEF TurnSound
  <2>2. Own(x)' = Own(x)
    BY DEF Own
  <2>3. Open(x, p)'
    BY <2>1 DEF Open
  <2> QED
    BY <2>1, <2>2, <2>3
<1> QED
  BY <1>1, <1>2, <1>3 DEF TurnSound

\* The empty conversation is sound.
LEMMA EmptySound == \A lost : Sound(<<>>, lost)
<1>1. Len(<<>>) = 0 /\ 1..0 = {}
  BY EmptySeq
<1> QED
  BY <1>1 DEF Sound, CallsAnswered, ResultsOwned

\* Calls and results part in turns that an exception tears, and nowhere else.
LEMMA SoundStep ==
  ASSUME TypeInv, TypeInv', HandlerInv, RunInv, SoundInv, [Next]_vars
  PROVE  SoundInv'
<1>1. ASSUME torn \subseteq torn', store' = store,
             \A x \in Sockets : memory'[x] = memory[x] \/ Sound(memory'[x], torn'),
             \A x \in Sockets : InTurn(x)' => TurnSound(x)'
      PROVE  SoundInv'
  <2>1. Sound(store', torn')
    BY <1>1, SoundMore DEF SoundInv
  <2>2. \A x \in Sockets : Sound(memory'[x], torn')
    BY <1>1, SoundMore DEF SoundInv
  <2> QED
    BY <1>1, <2>1, <2>2 DEF SoundInv
<1>2. ASSUME torn \subseteq torn', UNCHANGED <<store, messages, sent, todo>>,
             \A x \in Sockets : memory'[x] = memory[x] \/ Sound(memory'[x], torn'),
             \A x \in Sockets : InTurn(x) =>
                \/ conn'[x] = conn[x]
                \/ conn[x] = "calling" /\ conn'[x] = "returned"
                \/ conn[x] = "tool" /\ conn'[x] = "reporting"
      PROVE  SoundInv'
  <2>1. ASSUME NEW x \in Sockets, InTurn(x)' PROVE TurnSound(x)'
    <3>1. InTurn(x)
      BY <1>2, <2>1 DEF InTurn
    <3> QED
      BY <1>2, <3>1, TurnKept DEF SoundInv
  <2> QED
    BY <1>1, <1>2, <2>1
<1>3. ASSUME NEW s \in Sockets, Connect(s) PROVE SoundInv'
  <2>1. UNCHANGED <<store, messages, sent, todo, torn>> /\ conn[s] = "closed"
    BY <1>3 DEF Connect, turn, Goto
  <2>2. \A x \in Sockets \ {s} : memory'[x] = memory[x] /\ conn'[x] = conn[x]
    BY <1>3 DEF Connect, Goto, TypeInv
  <2>3. memory'[s] = Newest(store, MaxReplay) \/ memory'[s] = <<>>
    BY <1>3 DEF Connect, TypeInv
  <2>4. Sound(Newest(store, MaxReplay), torn)
    <3>1. PICK a \in 1..(Len(store) + 1) : Newest(store, MaxReplay) = From(store, a)
      BY NewestIsEnd, AgentTurnAssumption DEF TypeInv
    <3> QED
      BY <3>1, FromSound DEF SoundInv, TypeInv
  <2>5. ~ InTurn(s)
    BY <2>1 DEF HandlerInv
  <2> QED
    BY <1>2, <2>1, <2>2, <2>3, <2>4, <2>5, EmptySound
<1>4. ASSUME NEW s \in Sockets, Leave(s) \/ Touch(s) PROVE SoundInv'
  <2>1. UNCHANGED <<store, messages, sent, todo, torn>> /\ conn[s] \in {"idle", "touching"}
    BY <1>4 DEF Leave, Touch, turn, history, Goto
  <2>2. \A x \in Sockets \ {s} : memory'[x] = memory[x] /\ conn'[x] = conn[x]
    BY <1>4 DEF Leave, Touch, Goto, TypeInv
  <2>3. memory'[s] = memory[s] \/ memory'[s] = <<>>
    BY <1>4 DEF Leave, Touch, TypeInv
  <2>4. ~ InTurn(s)
    BY <2>1 DEF HandlerInv
  <2> QED
    BY <1>2, <2>1, <2>2, <2>3, <2>4, EmptySound
<1>5. ASSUME NEW s \in Sockets,
             \/ SwitchTab(s) \/ ModelFails(s) \/ ReadOrRefuse(s) \/ DispatchWrite(s)
             \/ DispatchSwitch(s) \/ Drop(s)
      PROVE  SoundInv'
  <2>1. UNCHANGED <<store, messages, sent, todo, torn, memory>>
    BY <1>5 DEF SwitchTab, ModelFails, ReadOrRefuse, DispatchWrite, DispatchSwitch, Drop,
                turn, history
  <2>2. \/ conn' = conn
        \/ conn[s] = "calling" /\ conn' = [conn EXCEPT ![s] = "returned"]
        \/ conn[s] = "tool" /\ conn' = [conn EXCEPT ![s] = "reporting"]
    BY <1>5 DEF SwitchTab, ModelFails, ReadOrRefuse, DispatchWrite, DispatchSwitch, Drop, Goto
  <2>3. \A x \in Sockets :
           \/ conn'[x] = conn[x]
           \/ conn[x] = "calling" /\ conn'[x] = "returned"
           \/ conn[x] = "tool" /\ conn'[x] = "reporting"
    BY <2>2 DEF TypeInv
  <2> QED
    BY <1>2, <2>1, <2>3
<1>6. ASSUME NEW s \in Sockets, Prompt(s) PROVE SoundInv'
  <2> DEFINE ms == TrimForModel(memory[s])
             m == [turn |-> turns + 1, at |-> 1, role |-> "user", calls |-> 0, of |-> 0]
             t == Append(ms, m)
  <2>1. /\ ms \in Seq(Message) /\ ~ InTurn(s)
        /\ \A x \in Sockets \ {s} : messages'[x] = messages[x] /\ sent'[x] = sent[x]
    BY <1>6, PromptMessages
  <2>2. /\ m \in Message /\ m.role = "user" /\ messages'[s] = t
    <3>1. turns' = turns + 1 /\ turns + 1 \in Nat
      BY <1>6, AgentTurnAssumption DEF Prompt, TypeInv
    <3>2. messages'[s] = t
      BY <1>6, <3>1 DEF Prompt, TypeInv
    <3> QED
      BY <3>1, <3>2 DEF Message, Roles
  <2>3. Sound(ms, torn) /\ (Len(ms) > 0 => ms[1].role # "tool") /\ Len(ms) \in Nat
    <3>1. memory[s] \in Seq(Message) /\ Sound(memory[s], torn)
      BY DEF TypeInv, SoundInv
    <3>2. Len(ms) \in 0..MaxModel
      BY <3>1, TrimProperties
    <3>3. Len(ms) \in Nat
      BY <3>2, AgentTurnAssumption
    <3> QED
      BY <3>1, <3>3, TrimProperties
  <2> HIDE DEF ms, m
  <2>4. ResultsOwned(t) /\ CallsAnswered(t, torn)
    BY <2>1, <2>2, <2>3, AppendSound DEF Sound
  <2>5. t[1].role # "tool"
    <3>1. /\ Len(t) = Len(ms) + 1 /\ t[Len(ms) + 1] = m
          /\ \A i \in 1..Len(ms) : t[i] = ms[i]
      BY <2>1, <2>2, Appended
    <3>2. CASE Len(ms) = 0
      BY <2>2, <3>1, <3>2
    <3>3. CASE Len(ms) > 0
      <4>1. 1 \in 1..Len(ms)
        BY <2>3, <3>3
      <4> QED
        BY <2>3, <3>1, <3>3, <4>1
    <3> QED
      BY <2>3, <3>2, <3>3
  <2> HIDE DEF t
  <2>6. /\ conn'[s] = "calling" /\ UNCHANGED <<torn, store, memory, todo>>
        /\ \A x \in Sockets \ {s} : conn'[x] = conn[x]
    BY <1>6 DEF Prompt, Goto, TypeInv
  <2>7. TurnSound(s)'
    BY <2>2, <2>4, <2>5, <2>6 DEF TurnSound
  <2>8. ASSUME NEW x \in Sockets \ {s}, InTurn(x)' PROVE TurnSound(x)'
    <3>1. InTurn(x)
      BY <2>1, <2>8 DEF InTurn
    <3> QED
      BY <2>1, <2>6, <3>1, TurnKept DEF SoundInv
  <2> QED
    BY <1>1, <2>6, <2>7, <2>8
<1>7. ASSUME NEW s \in Sockets, TurnSound(s)', UNCHANGED <<store, sent, torn, memory>>,
             \A x \in Sockets \ {s} : /\ messages'[x] = messages[x] /\ conn'[x] = conn[x]
                                      /\ todo'[x] = todo[x]
      PROVE  SoundInv'
  <2>1. ASSUME NEW x \in Sockets \ {s}, InTurn(x)' PROVE TurnSound(x)'
    <3>1. InTurn(x)
      BY <1>7, <2>1 DEF InTurn
    <3> QED
      BY <1>7, <3>1, TurnKept DEF SoundInv
  <2> QED
    BY <1>1, <1>7, <2>1
<1>8. ASSUME NEW s \in Sockets, InTurn(s), TurnSound(s), NEW m \in Message,
             messages' = [messages EXCEPT ![s] = Append(@, m)]
      PROVE  LET n == Len(messages[s]) IN
             /\ n \in Nat \ {0} /\ messages[s] \in Seq(Message)
             /\ messages'[s] = Append(messages[s], m) /\ Len(messages'[s]) = n + 1
             /\ messages'[s][n + 1] = m /\ messages'[s][1].role # "tool"
             /\ \A i \in 1..n : messages'[s][i] = messages[s][i]
             /\ \A x \in Sockets \ {s} : messages'[x] = messages[x]
  <2> DEFINE n == Len(messages[s])
  <2>1. /\ messages[s] \in Seq(Message) /\ messages[s] # <<>>
        /\ messages'[s] = Append(messages[s], m)
        /\ \A x \in Sockets \ {s} : messages'[x] = messages[x]
    BY <1>8 DEF TypeInv, InTurn
  <2>2. n \in Nat \ {0}
    BY <2>1, EmptySeq
  <2>3. /\ Len(messages'[s]) = n + 1 /\ messages'[s][n + 1] = m
        /\ \A i \in 1..n : messages'[s][i] = messages[s][i]
    BY <2>1, Appended
  <2>4. 1 \in 1..n
    BY <2>2
  <2>5. messages'[s][1].role # "tool"
    BY <1>8, <2>3, <2>4 DEF TurnSound
  <2> QED
    BY <2>1, <2>2, <2>3, <2>5
<1>9. ASSUME NEW s \in Sockets, Answer(s) PROVE SoundInv'
  <2> DEFINE m == Said(s, "assistant", 0, 0)
  <2>1. /\ conn[s] = "calling" /\ conn'[s] = "returned" /\ UNCHANGED <<store, sent, torn, memory>>
        /\ \A x \in Sockets \ {s} : conn'[x] = conn[x] /\ todo'[x] = todo[x]
        /\ messages' = [messages EXCEPT ![s] = Append(@, m)]
    BY <1>9 DEF Answer, Goto, history, TypeInv
  <2>2. InTurn(s) /\ TurnSound(s)
    BY <2>1 DEF HandlerInv, SoundInv
  <2>3. /\ m \in Message
        /\ m = [turn |-> Turn(s), at |-> Last(messages[s]).at + 1, role |-> "assistant",
                calls |-> 0, of |-> 0]
    BY <2>2, NextMessage DEF Roles
  <2>4. m.role = "assistant" /\ m.calls = 0
    BY <2>3
  <2> HIDE DEF m
  <2>5. /\ messages[s] \in Seq(Message) /\ messages'[s] = Append(messages[s], m)
        /\ messages'[s][1].role # "tool"
        /\ \A x \in Sockets \ {s} : messages'[x] = messages[x]
    BY <1>8, <2>1, <2>2, <2>3
  <2>6. ResultsOwned(messages[s]) /\ CallsAnswered(messages[s], torn)
    BY <2>1, <2>2 DEF TurnSound
  <2>7. ResultsOwned(messages'[s]) /\ CallsAnswered(messages'[s], torn)
    BY <2>3, <2>4, <2>5, <2>6, AppendSound
  <2>8. TurnSound(s)'
    BY <2>1, <2>5, <2>7 DEF TurnSound
  <2> QED
    BY <1>7, <2>1, <2>5, <2>8
<1>10. ASSUME NEW s \in Sockets, CallTools(s) PROVE SoundInv'
  <2>1. /\ conn[s] = "calling" /\ conn'[s] = "tool" /\ UNCHANGED <<store, sent, torn, memory>>
        /\ \A x \in Sockets \ {s} : conn'[x] = conn[x] /\ todo'[x] = todo[x]
    BY <1>10 DEF CallTools, Goto, history, TypeInv
  <2>2. InTurn(s) /\ TurnSound(s)
    BY <2>1 DEF HandlerInv, SoundInv
  <2>3. PICK k \in 1..MaxCalls :
          /\ todo' = [todo EXCEPT ![s] = k]
          /\ messages' = [messages EXCEPT ![s] = Append(@, Said(s, "assistant", k, 0))]
    BY <1>10 DEF CallTools
  <2> DEFINE m == Said(s, "assistant", k, 0)
             n == Len(messages[s])
  <2>4. k \in Nat /\ todo'[s] = k
    BY <2>3, AgentTurnAssumption DEF TypeInv
  <2>5. /\ m \in Message
        /\ m = [turn |-> Turn(s), at |-> Last(messages[s]).at + 1, role |-> "assistant",
                calls |-> k, of |-> 0]
    BY <2>2, <2>4, NextMessage DEF Roles
  <2>6. m.role = "assistant" /\ m.calls = k
    BY <2>5
  <2>7. messages' = [messages EXCEPT ![s] = Append(@, m)]
    BY <2>3
  <2> HIDE DEF m
  <2>8. /\ n \in Nat /\ messages[s] \in Seq(Message) /\ messages'[s] = Append(messages[s], m)
        /\ messages'[s][1].role # "tool" /\ Len(messages'[s]) = n + 1
        /\ messages'[s][n + 1] = m
        /\ \A i \in 1..n : messages'[s][i] = messages[s][i]
        /\ \A x \in Sockets \ {s} : messages'[x] = messages[x]
    BY <1>8, <2>2, <2>5, <2>7, ZenonT(40)
  <2>9. ResultsOwned(messages[s]) /\ CallsAnswered(messages[s], torn)
    BY <2>1, <2>2 DEF TurnSound
  <2>10. /\ ResultsOwned(messages'[s])
         /\ \A i \in 1..n : Answered(messages[s], i) => Answered(messages'[s], i)
    BY <2>5, <2>6, <2>8, <2>9, AppendSound
  <2> HIDE DEF n
  <2>11. PICK p \in Nat : p = n + 1
    BY <2>8
  <2>12. p \in Own(s)'
    <3>1. sent[s] \in Nat /\ sent[s] < n
      BY <2>2, AgentTurnAssumption DEF RunInv, TypeInv, n
    <3> QED
      BY <2>1, <2>8, <2>11, <3>1 DEF Own
  <2>13. Open(s, p)'
    <3>1. /\ messages'[s][p].role = "assistant"
          /\ messages'[s][p].calls = Len(messages'[s]) - p + todo'[s]
      <4>1. messages'[s][p] = m
        BY <2>8, <2>11
      <4>2. Len(messages'[s]) = p
        BY <2>8, <2>11
      <4>3. p - p + k = k
        BY <2>4, <2>11
      <4>4. messages'[s][p].role = "assistant" /\ messages'[s][p].calls = k
        BY <2>6, <4>1
      <4> QED
        BY <2>4, <4>2, <4>3, <4>4
    <3>2. (p + 1)..Len(messages'[s]) = {}
      BY <2>8, <2>11
    <3>3. ASSUME NEW i \in (1..Len(messages'[s])) \ {p}, messages'[s][i].role = "assistant",
                 messages'[s][i].turn \notin torn
          PROVE  Answered(messages'[s], i)
      <4>1. i \in 1..n /\ messages'[s][i] = messages[s][i]
        BY <2>8, <2>11
      <4> QED
        BY <2>9, <2>10, <3>3, <4>1 DEF CallsAnswered, n
    <3> QED
      BY <2>1, <3>1, <3>2, <3>3 DEF Open
  <2>14. TurnSound(s)'
    BY <2>1, <2>8, <2>10, <2>12, <2>13 DEF TurnSound
  <2> QED
    BY <1>7, <2>1, <2>8, <2>14
<1>11. ASSUME NEW s \in Sockets, MalformedCall(s) PROVE SoundInv'
  <2>1. /\ conn[s] = "tool" /\ conn'[s] = "returned" /\ torn' = torn \cup {Turn(s)}
        /\ UNCHANGED <<store, messages, sent, todo, memory>>
        /\ \A x \in Sockets \ {s} : conn'[x] = conn[x]
    BY <1>11 DEF MalformedCall, Goto, turn, TypeInv
  <2>2. InTurn(s) /\ TurnSound(s)
    BY <2>1 DEF HandlerInv, SoundInv
  <2>3. PICK p \in Own(s) : Open(s, p)
    BY <2>1, <2>2 DEF TurnSound
  <2>4. messages[s][p].turn = Turn(s)
    BY <2>2, <2>3 DEF RunInv
  <2>5. CallsAnswered(messages[s], torn')
    BY <2>1, <2>3, <2>4 DEF CallsAnswered, Open
  <2>6. TurnSound(s)'
    BY <2>1, <2>2, <2>5 DEF TurnSound
  <2>7. ASSUME NEW x \in Sockets, InTurn(x)' PROVE TurnSound(x)'
    <3>1. InTurn(x)
      BY <2>1, <2>7 DEF InTurn
    <3>2. CASE x # s
      BY <2>1, <3>1, <3>2, TurnKept DEF SoundInv
    <3> QED
      BY <2>6, <3>2
  <2> QED
    BY <1>1, <2>1, <2>7
<1>12. ASSUME NEW s \in Sockets, Report(s) PROVE SoundInv'
  <2> DEFINE m == Said(s, "tool", 0, CallAt(s))
             n == Len(messages[s])
  <2>1. /\ conn[s] = "reporting" /\ UNCHANGED <<store, sent, torn, memory>>
        /\ messages' = [messages EXCEPT ![s] = Append(@, m)]
    BY <1>12 DEF Report, history
  <2>2. InTurn(s) /\ TurnSound(s)
    BY <2>1 DEF HandlerInv, SoundInv
  <2>3. \A x \in Sockets \ {s} : conn'[x] = conn[x] /\ todo'[x] = todo[x]
    BY <1>12, SMTT(30) DEF Report, TypeInv
  <2>4. todo[s] \in Nat /\ todo'[s] = todo[s] - 1 /\ todo[s] > 0
    BY <1>12, <2>1, AgentTurnAssumption DEF Report, TypeInv, HandlerInv
  <2>5. \/ todo[s] > 1 /\ conn'[s] = "tool"
        \/ todo[s] = 1 /\ conn'[s] = "calling"
    BY <1>12 DEF Report, TypeInv
  <2>6. CallAt(s) \in Nat
    BY <2>2, NextMessage DEF Roles
  <2>7. /\ m \in Message
        /\ m = [turn |-> Turn(s), at |-> Last(messages[s]).at + 1, role |-> "tool",
                calls |-> 0, of |-> CallAt(s)]
    BY <2>2, <2>6, NextMessage DEF Roles
  <2>8. m.role = "tool" /\ m.turn = Turn(s) /\ m.of = CallAt(s)
    BY <2>7
  <2> HIDE DEF m
  <2>9. /\ n \in Nat \ {0} /\ messages[s] \in Seq(Message) /\ messages'[s] = Append(messages[s], m)
        /\ messages'[s][1].role # "tool" /\ Len(messages'[s]) = n + 1
        /\ messages'[s][n + 1] = m
        /\ \A i \in 1..n : messages'[s][i] = messages[s][i]
        /\ \A x \in Sockets \ {s} : messages'[x] = messages[x]
    BY <1>8, <2>1, <2>2, <2>7, ZenonT(40)
  <2>10. PICK p \in Own(s) : Open(s, p)
    BY <2>1, <2>2 DEF TurnSound
  <2>11. /\ messages[s][p].role = "assistant" /\ messages[s][p].calls = n - p + todo[s]
         /\ \A x \in (p + 1)..n : /\ messages[s][x].role = "tool"
                                  /\ messages[s][x].turn = messages[s][p].turn
                                  /\ messages[s][x].of = messages[s][p].at
         /\ \A i \in (1..n) \ {p} :
               messages[s][i].role = "assistant" /\ messages[s][i].turn \notin torn
                  => Answered(messages[s], i)
    BY <2>10 DEF Open
  <2>12. messages[s][p].turn = Turn(s) /\ p \in 1..n /\ sent[s] \in Nat /\ p >= sent[s] + 1
    <3>1. sent[s] \in Nat
      BY AgentTurnAssumption DEF TypeInv
    <3>2. p \in 1..n /\ p >= sent[s] + 1
      BY <2>9, <2>10, <3>1 DEF Own
    <3> QED
      BY <2>2, <2>10, <3>1, <3>2 DEF RunInv
  <2>13. CallAt(s) = messages[s][p].at
    <3>1. CASE p = n
      BY <2>11, <3>1 DEF CallAt, Last
    <3>2. CASE p # n
      <4>1. n \in (p + 1)..n
        BY <2>9, <2>12, <3>2
      <4> QED
        BY <2>11, <4>1 DEF CallAt, Last
    <3> QED
      BY <3>1, <3>2
  <2> HIDE DEF n
  <2>14. \A x \in (p + 1)..(n + 1) : /\ messages'[s][x].role = "tool"
                                    /\ messages'[s][x].turn = messages'[s][p].turn
                                    /\ messages'[s][x].of = messages'[s][p].at
    <3>1. messages'[s][p] = messages[s][p]
      BY <2>9, <2>12
    <3> TAKE x \in (p + 1)..(n + 1)
    <3>2. CASE x = n + 1
      BY <2>8, <2>9, <2>12, <2>13, <3>1, <3>2
    <3>3. CASE x # n + 1
      <4>1. x \in (p + 1)..n /\ x \in 1..n
        BY <2>9, <2>12, <3>3
      <4> QED
        BY <2>9, <2>11, <3>1, <4>1
    <3> QED
      BY <3>2, <3>3
  <2>15. /\ messages'[s][p] = messages[s][p] /\ p \in 1..(n + 1)
         /\ messages'[s][p].calls = (n + 1) - p + todo'[s]
    <3>1. n \in Nat /\ p \in Nat /\ p \in 1..n /\ p \in 1..(n + 1)
      BY <2>9, <2>12
    <3>2. n - p + todo[s] = (n + 1) - p + todo'[s]
      BY <2>4, <3>1
    <3> QED
      BY <2>9, <2>11, <3>1, <3>2
  <2>16. ResultsOwned(messages'[s])
    <3>1. HasCall(messages'[s], n + 1)
      <4>1. p \in 1..((n + 1) - 1) /\ (n + 1) - p <= messages'[s][p].calls
        <5>1. n \in Nat /\ p \in Nat /\ todo'[s] \in Nat
          BY <2>4, <2>9, <2>12
        <5> QED
          BY <2>12, <2>15, <5>1
      <4> QED
        BY <2>11, <2>14, <2>15, <4>1 DEF HasCall
    <3> QED
      BY <2>2, <2>7, <2>9, <3>1, AppendSound DEF TurnSound, n
  <2>17. \A i \in (1..(n + 1)) \ {p} :
            messages'[s][i].role = "assistant" /\ messages'[s][i].turn \notin torn
               => Answered(messages'[s], i)
    <3> SUFFICES ASSUME NEW i \in (1..(n + 1)) \ {p}, messages'[s][i].role = "assistant",
                        messages'[s][i].turn \notin torn
                 PROVE  Answered(messages'[s], i)
      OBVIOUS
    <3>1. i \in 1..n
      <4>1. i # n + 1
        BY <2>8, <2>9
      <4> QED
        BY <2>9, <4>1
    <3>2. Answered(messages[s], i)
      BY <2>9, <2>11, <3>1
    <3>3. \A k \in 1..Len(messages[s]) : Answered(messages[s], k) => Answered(messages'[s], k)
      BY <2>7, <2>9, AppendSound
    <3> QED
      BY <3>1, <3>2, <3>3 DEF n
  <2>18. CASE todo[s] > 1 /\ conn'[s] = "tool"
    <3>1. p \in Own(s)'
      BY <2>1, <2>9, <2>12 DEF Own
    <3>2. Open(s, p)'
      BY <2>1, <2>9, <2>11, <2>14, <2>15, <2>17 DEF Open
    <3>3. TurnSound(s)'
      BY <2>9, <2>16, <2>18, <3>1, <3>2 DEF TurnSound
    <3> QED
      BY <1>7, <2>1, <2>3, <2>9, <3>3
  <2>19. CASE todo[s] = 1 /\ conn'[s] = "calling"
    <3>1. Answered(messages'[s], p)
      <4> SUFFICES ASSUME NEW k \in 1..messages'[s][p].calls
                   PROVE  /\ p + k <= n + 1 /\ messages'[s][p + k].role = "tool"
                          /\ messages'[s][p + k].turn = messages'[s][p].turn
                          /\ messages'[s][p + k].of = messages'[s][p].at
        BY <2>9 DEF Answered
      <4>1. messages'[s][p].calls = (n + 1) - p
        BY <2>4, <2>9, <2>12, <2>15, <2>19
      <4>2. p + k \in (p + 1)..(n + 1)
        BY <2>9, <2>12, <4>1, SMTT(30)
      <4>3. p + k <= n + 1
        BY <2>9, <2>12, <4>2
      <4> QED
        BY <2>14, <4>2, <4>3
    <3>2. CallsAnswered(messages'[s], torn')
      BY <2>1, <2>9, <2>17, <3>1 DEF CallsAnswered
    <3>3. TurnSound(s)'
      BY <2>9, <2>16, <2>19, <3>2 DEF TurnSound
    <3> QED
      BY <1>7, <2>1, <2>3, <2>9, <3>3
  <2> QED
    BY <2>5, <2>18, <2>19
<1>13. ASSUME NEW s \in Sockets, Vanish(s) PROVE SoundInv'
  <2>1. /\ EndTurn(s) /\ UNCHANGED <<store, torn>> /\ memory'[s] = <<>>
        /\ \A x \in Sockets \ {s} : conn'[x] = conn[x] /\ memory'[x] = memory[x]
    BY <1>13 DEF Vanish, TypeInv
  <2>2. ASSUME NEW x \in Sockets, InTurn(x)' PROVE TurnSound(x)'
    <3>1. x # s /\ InTurn(x)
      BY <2>1, <2>2, EndTurnType DEF InTurn
    <3> QED
      BY <2>1, <3>1, EndTurnType, TurnKept DEF SoundInv
  <2> QED
    BY <1>1, <2>1, <2>2, EmptySound
<1>14. ASSUME NEW s \in Sockets, Save(s) PROVE SoundInv'
  <2>1. /\ EndTurn(s) /\ UNCHANGED torn /\ memory'[s] = messages[s] /\ conn[s] = "returned"
        /\ \A x \in Sockets \ {s} : conn'[x] = conn[x] /\ memory'[x] = memory[x]
        /\ store' = store \/ store' = store \o Delta(s)
    BY <1>14 DEF Save, Goto, TypeInv
  <2>2. InTurn(s)
    BY <2>1 DEF HandlerInv
  <2>3. /\ CallsAnswered(messages[s], torn) /\ ResultsOwned(messages[s])
        /\ messages[s][1].role # "tool"
    BY <2>1, <2>2 DEF SoundInv, TurnSound
  <2>4. Sound(store', torn')
    <3>1. Sound(store, torn)
      BY DEF SoundInv
    <3>2. Sound(store \o Delta(s), torn)
      BY <2>2, <2>3, <3>1, StoreSound
    <3> QED
      BY <2>1, <3>1, <3>2
  <2>5. \A x \in Sockets : Sound(memory'[x], torn')
    BY <2>1, <2>3 DEF SoundInv, Sound
  <2>6. ASSUME NEW x \in Sockets, InTurn(x)' PROVE TurnSound(x)'
    <3>1. x # s /\ InTurn(x)
      BY <2>1, <2>6, EndTurnType DEF InTurn
    <3> QED
      BY <2>1, <3>1, EndTurnType, TurnKept DEF SoundInv
  <2> QED
    BY <2>4, <2>5, <2>6 DEF SoundInv
<1>15. CASE Restart
  <2>1. /\ UNCHANGED <<store, torn>> /\ \A x \in Sockets : memory'[x] = <<>> /\ messages'[x] = <<>>
    BY <1>15 DEF Restart
  <2>2. \A x \in Sockets : ~ InTurn(x)'
    BY <2>1 DEF InTurn
  <2> QED
    BY <1>1, <2>1, <2>2, EmptySound
<1>16. CASE UNCHANGED vars
  BY <1>2, <1>16 DEF vars, turn, history
<1> QED
  BY <1>3, <1>4, <1>5, <1>6, <1>9, <1>10, <1>11, <1>12, <1>13, <1>14, <1>15, <1>16
  DEF Next, TurnStep

-----------------------------------------------------------------------------
(* Conversations without some turns *)

\* What the first n messages leave, for every n.
Kept(ms, T, f) ==
    /\ f \in [0..Len(ms) -> Seq(Message)] /\ f[0] = <<>>
    /\ \A n \in 1..Len(ms) :
         f[n] = IF ms[n].turn \in T THEN f[n - 1] ELSE Append(f[n - 1], ms[n])

\* Without is the last value of such a function.
LEMMA WithoutKept ==
  ASSUME NEW ms \in Seq(Message), NEW T
  PROVE  \E f : Kept(ms, T, f) /\ Without(ms, T) = f[Len(ms)]
<1> DEFINE Step(f, i) == IF i = 0 THEN <<>>
                         ELSE IF ms[i].turn \in T THEN f[i - 1] ELSE Append(f[i - 1], ms[i])
           Upto(n, f) == f \in [0..n -> Seq(Message)] /\ f = [i \in 0..n |-> Step(f, i)]
           Reached == { n \in 0..Len(ms) : \E f : Upto(n, f) }
           whole == CHOOSE f : f = [i \in 0..Len(ms) |-> Step(f, i)]
<1>1. Len(ms) \in Nat /\ <<>> \in Seq(Message) /\ \A n \in 1..Len(ms) : ms[n] \in Message
  BY LenProperties, EmptySeq, ElementOfSeq
<1>2. 0..Len(ms) \subseteq Reached
  <2>1. 0 \in Reached
    <3> DEFINE g == [i \in 0..0 |-> <<>>]
    <3>1. g \in [0..0 -> Seq(Message)] /\ g = [i \in 0..0 |-> Step(g, i)]
      BY <1>1
    <3>2. Upto(0, g) /\ 0 \in 0..Len(ms)
      BY <1>1, <3>1
    <3> HIDE DEF Upto, g
    <3> QED
      BY <3>2
  <2>2. ASSUME NEW n \in 1..Len(ms), n - 1 \in Reached PROVE n \in Reached
    <3>1. n \in Int /\ n # 0 /\ n \in 0..Len(ms) /\ n - 1 \in 0..(n - 1)
      BY <1>1
    <3>2. PICK f : Upto(n - 1, f)
      BY <2>2
    <3> DEFINE g == [i \in 0..n |-> IF i = n THEN Step(f, n) ELSE f[i]]
    <3>3. f[n - 1] \in Seq(Message) /\ ms[n] \in Message
      BY <1>1, <3>1, <3>2
    <3>4. Step(f, n) \in Seq(Message)
      BY <3>1, <3>3, AppendProperties
    <3>5. \A i \in 0..n : i # n => i \in 0..(n - 1)
      BY <3>1
    <3>6. g \in [0..n -> Seq(Message)]
      BY <3>2, <3>4, <3>5
    <3>7. \A i \in 0..n : g[i] = Step(g, i)
      <4> TAKE i \in 0..n
      <4>1. i # 0 => i - 1 \in 0..n /\ i - 1 # n
        BY <3>1
      <4>2. i # 0 => g[i - 1] = f[i - 1]
        BY <4>1
      <4>3. CASE i = n
        BY <3>1, <4>2, <4>3
      <4>4. CASE i # n
        <5>1. i \in 0..(n - 1)
          BY <3>5, <4>4
        <5>2. f[i] = Step(f, i)
          <6> DEFINE F == [x \in 0..(n - 1) |-> Step(f, x)]
          <6>1. f = F
            BY <3>2
          <6>2. F[i] = Step(f, i)
            BY <5>1
          <6> HIDE DEF F
          <6> QED
            BY <6>1, <6>2
        <5>3. g[i] = f[i]
          BY <4>4
        <5> QED
          BY <4>2, <5>2, <5>3
      <4> QED
        BY <4>3, <4>4
    <3>8. g = [i \in 0..n |-> Step(g, i)]
      BY <3>7
    <3>9. Upto(n, g)
      BY <3>6, <3>8
    <3> QED
      BY <3>1, <3>9
  <2> HIDE DEF Reached
  <2> QED
    BY <1>1, <2>1, <2>2, CountUp
<1>3. PICK f : Upto(Len(ms), f)
  <2>1. Len(ms) \in 0..Len(ms)
    BY <1>1
  <2> HIDE DEF Upto
  <2> QED
    BY <1>2, <2>1
<1>4. whole = [i \in 0..Len(ms) |-> Step(whole, i)]
  BY <1>3
<1>5. Without(ms, T) = whole[Len(ms)]
  BY DEF Without
<1> HIDE DEF whole
<1>6. \A i \in 0..Len(ms) : whole[i] = Step(whole, i) /\ f[i] = Step(f, i)
  <2> TAKE i \in 0..Len(ms)
  <2> DEFINE W == [x \in 0..Len(ms) |-> Step(whole, x)]
             F == [x \in 0..Len(ms) |-> Step(f, x)]
  <2>1. whole = W /\ f = F
    BY <1>3, <1>4
  <2>2. W[i] = Step(whole, i) /\ F[i] = Step(f, i)
    OBVIOUS
  <2> HIDE DEF W, F
  <2> QED
    BY <2>1, <2>2
<1>7. Kept(ms, T, f)
  <2>1. f \in [0..Len(ms) -> Seq(Message)]
    BY <1>3
  <2>2. 0 \in 0..Len(ms) /\ \A n \in 1..Len(ms) : n \in 0..Len(ms) /\ n # 0
    BY <1>1
  <2>3. \A i \in 0..Len(ms) : f[i] = Step(f, i)
    BY <1>6
  <2> QED
    BY <2>1, <2>2, <2>3 DEF Kept
<1>8. whole[Len(ms)] = f[Len(ms)]
  <2> DEFINE Same == { n \in 0..Len(ms) : whole[n] = f[n] }
  <2>1. 0 \in Same
    BY <1>1, <1>6
  <2>2. ASSUME NEW n \in 1..Len(ms), n - 1 \in Same PROVE n \in Same
    <3>1. n \in 0..Len(ms) /\ n # 0 /\ whole[n - 1] = f[n - 1]
      BY <1>1, <2>2
    <3> QED
      BY <1>6, <3>1
  <2>3. 0..Len(ms) \subseteq Same
    <3> HIDE DEF Same
    <3> QED
      BY <1>1, <2>1, <2>2, CountUp
  <2> QED
    BY <1>1, <2>3
<1> QED
  BY <1>5, <1>7, <1>8

\* It is a conversation, and empty if there is none.
LEMMA WithoutType ==
  ASSUME NEW ms \in Seq(Message), NEW T
  PROVE  Without(ms, T) \in Seq(Message) /\ Without(<<>>, T) = <<>>
<1>1. PICK f : Kept(ms, T, f) /\ Without(ms, T) = f[Len(ms)]
  BY WithoutKept
<1>2. PICK g : Kept(<<>>, T, g) /\ Without(<<>>, T) = g[Len(<<>>)]
  BY WithoutKept, EmptySeq
<1>3. Len(ms) \in 0..Len(ms) /\ Len(<<>>) = 0
  BY LenProperties, EmptySeq
<1> QED
  BY <1>1, <1>2, <1>3 DEF Kept

\* Appending to the second of two appends to both.
LEMMA ConcatAppend ==
  ASSUME NEW a \in Seq(Message), NEW b \in Seq(Message), NEW m \in Message
  PROVE  Append(a \o b, m) = a \o Append(b, m)
<1>1. a \o b \in Seq(Message) /\ <<m>> \in Seq(Message)
  BY ConcatProperties
<1>2. Append(a \o b, m) = (a \o b) \o <<m>>
  BY <1>1, AppendIsConcat
<1>3. Append(b, m) = b \o <<m>>
  BY AppendIsConcat
<1>4. (a \o b) \o <<m>> = a \o (b \o <<m>>)
  BY <1>1, ConcatAssociative
<1> QED
  BY <1>2, <1>3, <1>4, Zenon

\* Of two conversations in a row it is what it is of each.
LEMMA WithoutConcat ==
  ASSUME NEW s \in Seq(Message), NEW t \in Seq(Message), NEW T
  PROVE  Without(s \o t, T) = Without(s, T) \o Without(t, T)
<1> DEFINE c == s \o t
           n == Len(s)
           m == Len(t)
<1>1. /\ c \in Seq(Message) /\ n \in Nat /\ m \in Nat /\ Len(c) = n + m
      /\ Len(s) = n /\ Len(t) = m
      /\ \A i \in 1..n : c[i] = s[i]
      /\ \A i \in 1..m : c[n + i] = t[i] /\ t[i] \in Message
  <2>1. /\ c \in Seq(Message) /\ n \in Nat /\ m \in Nat /\ Len(c) = n + m
        /\ \A i \in 1..(n + m) : c[i] = IF i <= n THEN s[i] ELSE t[i - n]
    BY ConcatProperties, LenProperties
  <2>2. \A i \in 1..n : i \in 1..(n + m) /\ i <= n
    BY <2>1
  <2>3. \A i \in 1..m : n + i \in 1..(n + m) /\ ~ (n + i <= n) /\ (n + i) - n = i
    BY <2>1
  <2>4. \A i \in 1..m : t[i] \in Message
    BY ElementOfSeq
  <2>5. Len(s) = n /\ Len(t) = m
    OBVIOUS
  <2> HIDE DEF c, n, m
  <2> QED
    BY <2>1, <2>2, <2>3, <2>4, <2>5
<1>2. PICK f : Kept(s, T, f) /\ Without(s, T) = f[n]
  BY WithoutKept
<1>3. PICK g : Kept(t, T, g) /\ Without(t, T) = g[m]
  BY WithoutKept
<1>4. PICK h : Kept(c, T, h) /\ Without(c, T) = h[Len(c)]
  BY <1>1, WithoutKept
<1> HIDE DEF c, n, m
<1>5. h[n] = f[n]
  <2> DEFINE Same == { i \in 0..n : h[i] = f[i] }
  <2>1. 0 \in Same
    BY <1>1, <1>2, <1>4 DEF Kept
  <2>2. ASSUME NEW i \in 1..n, i - 1 \in Same PROVE i \in Same
    <3>1. i \in 1..Len(c) /\ i \in 0..n /\ h[i - 1] = f[i - 1] /\ c[i] = s[i]
      BY <1>1, <2>2
    <3> QED
      BY <1>1, <1>2, <1>4, <3>1, ZenonT(40) DEF Kept
  <2>3. 0..n \subseteq Same
    <3> HIDE DEF Same
    <3> QED
      BY <1>1, <2>1, <2>2, CountUp
  <2> QED
    BY <1>1, <2>3
<1>6. h[n + m] = f[n] \o g[m]
  <2> DEFINE Same == { i \in 0..m : h[n + i] = f[n] \o g[i] }
  <2>1. f[n] \in Seq(Message) /\ \A i \in 0..m : g[i] \in Seq(Message)
    BY <1>1, <1>2, <1>3, SMTT(30) DEF Kept
  <2>2. 0 \in Same
    <3>1. f[n] \o <<>> = f[n]
      BY <2>1, ConcatEmptySeq
    <3>2. g[0] = <<>> /\ n + 0 = n /\ 0 \in 0..m
      BY <1>1, <1>3 DEF Kept
    <3> QED
      BY <1>5, <3>1, <3>2
  <2>3. ASSUME NEW i \in 1..m, i - 1 \in Same PROVE i \in Same
    <3>1. /\ n + i \in 1..Len(c) /\ (n + i) - 1 = n + (i - 1)
          /\ i \in 0..m /\ i - 1 \in 0..m /\ c[n + i] = t[i] /\ t[i] \in Message
      BY <1>1
    <3>2. h[n + (i - 1)] = f[n] \o g[i - 1]
      BY <2>3
    <3>3. h[n + i] = IF t[i].turn \in T THEN f[n] \o g[i - 1]
                     ELSE Append(f[n] \o g[i - 1], t[i])
      BY <1>4, <3>1, <3>2 DEF Kept
    <3>4. g[i] = IF t[i].turn \in T THEN g[i - 1] ELSE Append(g[i - 1], t[i])
      BY <1>1, <1>3 DEF Kept
    <3>5. Append(f[n] \o g[i - 1], t[i]) = f[n] \o Append(g[i - 1], t[i])
      BY <2>1, <3>1, ConcatAppend
    <3> QED
      BY <3>1, <3>3, <3>4, <3>5
  <2>4. 0..m \subseteq Same
    <3> HIDE DEF Same
    <3> QED
      BY <1>1, <2>2, <2>3, CountUp
  <2>5. m \in Same
    <3> HIDE DEF Same
    <3> QED
      BY <1>1, <2>4
  <2> QED
    BY <2>5
<1> QED
  BY <1>1, <1>2, <1>3, <1>4, <1>6 DEF c

\* Only the turns that are in the conversation matter.
LEMMA WithoutSame ==
  ASSUME NEW ms \in Seq(Message), NEW T, NEW U,
         \A i \in 1..Len(ms) : ms[i].turn \in T <=> ms[i].turn \in U
  PROVE  Without(ms, T) = Without(ms, U)
<1>1. Len(ms) \in Nat
  BY LenProperties
<1>2. PICK f : Kept(ms, T, f) /\ Without(ms, T) = f[Len(ms)]
  BY WithoutKept
<1>3. PICK g : Kept(ms, U, g) /\ Without(ms, U) = g[Len(ms)]
  BY WithoutKept
<1> DEFINE Same == { i \in 0..Len(ms) : f[i] = g[i] }
<1>4. 0 \in Same
  BY <1>1, <1>2, <1>3 DEF Kept
<1>5. ASSUME NEW i \in 1..Len(ms), i - 1 \in Same PROVE i \in Same
  <2>1. i \in 0..Len(ms) /\ f[i - 1] = g[i - 1]
    BY <1>1, <1>5
  <2> QED
    BY <1>2, <1>3, <2>1 DEF Kept
<1>6. 0..Len(ms) \subseteq Same
  <2> HIDE DEF Same
  <2> QED
    BY <1>1, <1>4, <1>5, CountUp
<1> QED
  BY <1>1, <1>2, <1>3, <1>6

\* Nothing is left of a conversation of such turns only.
LEMMA WithoutAll ==
  ASSUME NEW ms \in Seq(Message), NEW T, \A i \in 1..Len(ms) : ms[i].turn \in T
  PROVE  Without(ms, T) = <<>>
<1>1. Len(ms) \in Nat
  BY LenProperties
<1>2. PICK f : Kept(ms, T, f) /\ Without(ms, T) = f[Len(ms)]
  BY WithoutKept
<1> DEFINE Empty == { i \in 0..Len(ms) : f[i] = <<>> }
<1>3. 0 \in Empty
  BY <1>1, <1>2 DEF Kept
<1>4. ASSUME NEW i \in 1..Len(ms), i - 1 \in Empty PROVE i \in Empty
  <2>1. i \in 0..Len(ms) /\ f[i - 1] = <<>>
    BY <1>1, <1>4
  <2> QED
    BY <1>2, <2>1 DEF Kept
<1>5. 0..Len(ms) \subseteq Empty
  <2> HIDE DEF Empty
  <2> QED
    BY <1>1, <1>3, <1>4, CountUp
<1> QED
  BY <1>1, <1>2, <1>5

-----------------------------------------------------------------------------
(* The end of a conversation *)

Tails(s, t) == \E u \in Seq(Message) : t = u \o s

\* What is cut off in front can be put back, and nothing can be cut off.
LEMMA FromTails ==
  ASSUME NEW ms \in Seq(Message), NEW a \in 1..(Len(ms) + 1)
  PROVE  Tails(From(ms, a), ms) /\ Tails(<<>>, ms)
<1>1. Len(ms) \in Nat /\ \A i \in 1..Len(ms) : ms[i] \in Message
  BY LenProperties, ElementOfSeq
<1>2. /\ 1 \in 1..(Len(ms) + 1) /\ a - 1 \in (1 - 1)..Len(ms) /\ Len(ms) \in (a - 1)..Len(ms)
      /\ a - 1 \in Int /\ 1..(a - 1) \subseteq 1..Len(ms) /\ (a - 1) + 1 = a
  BY <1>1
<1>3. SubSeq(ms, 1, a - 1) \o SubSeq(ms, (a - 1) + 1, Len(ms)) = SubSeq(ms, 1, Len(ms))
  BY <1>2, ConcatAdjacentSubSeq
<1>4. SubSeq(ms, 1, Len(ms)) = ms
  BY SubSeqFull
<1>5. SubSeq(ms, 1, a - 1) \in Seq(Message)
  BY <1>1, <1>2, SubSeqProperties
<1>6. ms \o <<>> = ms
  BY ConcatEmptySeq
<1> QED
  BY <1>2, <1>3, <1>4, <1>5, <1>6 DEF Tails, From

\* The end of an end is an end.
LEMMA TailsTail ==
  ASSUME NEW s \in Seq(Message), NEW t \in Seq(Message), NEW ms \in Seq(Message),
         Tails(s, t), Tails(t, ms)
  PROVE  Tails(s, ms)
<1>1. PICK u \in Seq(Message) : t = u \o s
  BY DEF Tails
<1>2. PICK v \in Seq(Message) : ms = v \o t
  BY DEF Tails
<1>3. (v \o u) \o s = v \o (u \o s)
  BY ConcatAssociative
<1>4. v \o u \in Seq(Message)
  BY ConcatProperties
<1>5. ms = (v \o u) \o s
  BY <1>1, <1>2, <1>3, Zenon
<1> QED
  BY <1>4, <1>5, Zenon DEF Tails

\* The messages of an end are in the conversation.
LEMMA TailsMessages ==
  ASSUME NEW s \in Seq(Message), NEW t \in Seq(Message), Tails(s, t)
  PROVE  \A i \in 1..Len(s) : \E k \in 1..Len(t) : s[i] = t[k]
<1>1. PICK u \in Seq(Message) : t = u \o s
  BY DEF Tails
<1>2. /\ Len(u) \in Nat /\ Len(s) \in Nat /\ Len(t) = Len(u) + Len(s)
      /\ \A k \in 1..(Len(u) + Len(s)) : t[k] = IF k <= Len(u) THEN u[k] ELSE s[k - Len(u)]
  BY <1>1, ConcatProperties, LenProperties
<1>3. \A i \in 1..Len(s) :
        /\ Len(u) + i \in 1..(Len(u) + Len(s)) /\ ~ (Len(u) + i <= Len(u))
        /\ (Len(u) + i) - Len(u) = i
  BY <1>2
<1> QED
  BY <1>2, <1>3

\* The end without some turns is the end of what there is without them.
LEMMA TailsWithout ==
  ASSUME NEW s \in Seq(Message), NEW t \in Seq(Message), NEW T, Tails(s, t)
  PROVE  Tails(Without(s, T), Without(t, T))
<1>1. PICK u \in Seq(Message) : t = u \o s
  BY DEF Tails
<1>2. Without(t, T) = Without(u, T) \o Without(s, T)
  BY <1>1, WithoutConcat
<1> QED
  BY <1>2, WithoutType DEF Tails

\* What is put behind both keeps the one the end of the other.
LEMMA TailsConcat ==
  ASSUME NEW s \in Seq(Message), NEW t \in Seq(Message), NEW d \in Seq(Message), Tails(s, t)
  PROVE  Tails(s \o d, t \o d)
<1>1. \A u, a, b \in Seq(Message) : (u \o a) \o b = u \o (a \o b)
  BY ConcatAssociative, SMTT(30)
<1>2. PICK u \in Seq(Message) : t = u \o s
  BY DEF Tails
<1>3. t \o d = u \o (s \o d)
  BY <1>1, <1>2, Zenon
<1> QED
  BY <1>3, Zenon DEF Tails

\* load_history and trim_for_model cut off in front only.
LEMMA CutsTails ==
  ASSUME NEW ms \in Seq(Message), NEW n \in Nat
  PROVE  /\ Newest(ms, n) \in Seq(Message) /\ Tails(Newest(ms, n), ms)
         /\ TrimForModel(ms) \in Seq(Message) /\ Tails(TrimForModel(ms), ms)
<1>1. ASSUME NEW k \in Nat
      PROVE  Newest(ms, k) \in Seq(Message) /\ Tails(Newest(ms, k), ms)
  <2>1. PICK a \in 1..(Len(ms) + 1) : Newest(ms, k) = From(ms, a)
    BY NewestIsEnd
  <2> QED
    BY <2>1, FromProperties, FromTails
<1> DEFINE window == Newest(ms, MaxModel)
<1>2. window \in Seq(Message) /\ Tails(window, ms)
  BY <1>1, AgentTurnAssumption
<1>3. PICK roles : TrimForModel(ms) = FromFirst(window, roles)
  BY DEF TrimForModel, DropLeadingOrphans
<1> HIDE DEF window
<1>4. PICK a \in 1..(Len(window) + 1) : FromFirst(window, roles) = From(window, a)
  BY <1>2, FromFirstIsEnd
<1>5. From(window, a) \in Seq(Message) /\ Tails(From(window, a), window)
  BY <1>2, FromProperties, FromTails
<1>6. Tails(From(window, a), ms)
  BY <1>2, <1>5, TailsTail
<1> QED
  BY <1>1, <1>3, <1>4, <1>5, <1>6

\* An end is a suffix.
LEMMA TailsSuffix ==
  ASSUME NEW s \in Seq(Message), NEW t \in Seq(Message), Tails(s, t)
  PROVE  IsSuffix(s, t)
<1>1. PICK u \in Seq(Message) : t = u \o s
  BY DEF Tails
<1>2. /\ Len(u) \in Nat /\ Len(s) \in Nat /\ Len(t) = Len(u) + Len(s)
      /\ \A k \in 1..(Len(u) + Len(s)) : t[k] = IF k <= Len(u) THEN u[k] ELSE s[k - Len(u)]
      /\ \A k \in 1..Len(s) : s[k] \in Message
      /\ \A k \in 1..Len(t) : t[k] \in Message
  BY <1>1, ConcatProperties, LenProperties, ElementOfSeq
<1> DEFINE rs == [i \in 1..Len(s) |-> s[(Len(s) - i) + 1]]
           rt == [i \in 1..Len(t) |-> t[(Len(t) - i) + 1]]
<1>3. rs \in Seq(Message) /\ Len(rs) = Len(s)
  <2>1. \A i \in 1..Len(s) : (Len(s) - i) + 1 \in 1..Len(s)
    BY <1>2
  <2>2. rs \in [1..Len(s) -> Message]
    BY <1>2, <2>1
  <2> QED
    BY <1>2, <2>2
<1>4. rt \in Seq(Message) /\ Len(rt) = Len(t)
  <2>1. \A i \in 1..Len(t) : (Len(t) - i) + 1 \in 1..Len(t)
    BY <1>2
  <2>2. rt \in [1..Len(t) -> Message]
    BY <1>2, <2>1
  <2> QED
    BY <1>2, <2>2
<1>5. \A i \in 1..Len(s) : rs[i] = rt[i]
  <2> TAKE i \in 1..Len(s)
  <2> DEFINE k == (Len(t) - i) + 1
  <2>1. /\ k \in 1..(Len(u) + Len(s)) /\ ~ (k <= Len(u)) /\ k - Len(u) = (Len(s) - i) + 1
        /\ i \in 1..Len(t)
    BY <1>2
  <2>2. t[k] = s[(Len(s) - i) + 1]
    <3> HIDE DEF k
    <3> QED
      BY <1>2, <2>1
  <2> QED
    BY <2>1, <2>2
<1>6. Reverse(s) = rs /\ Reverse(t) = rt
  BY DEF Reverse
<1> HIDE DEF rs, rt
<1>7. Len(s) <= Len(t) /\ 1..Len(s) \subseteq 1..Len(rt)
  BY <1>2, <1>4
<1>8. SubSeq(rs, 1, Len(rs)) = SubSeq(rt, 1, Len(rs))
  <2>1. \A i \in 1..Len(s) : rs[i] \in Message /\ rt[i] \in Message
    BY <1>3, <1>5, ElementOfSeq
  <2>2. /\ SubSeq(rs, 1, Len(s)) \in Seq(Message) /\ SubSeq(rt, 1, Len(s)) \in Seq(Message)
        /\ Len(SubSeq(rs, 1, Len(s))) = IF 1 <= Len(s) THEN Len(s) - 1 + 1 ELSE 0
        /\ Len(SubSeq(rt, 1, Len(s))) = IF 1 <= Len(s) THEN Len(s) - 1 + 1 ELSE 0
        /\ \A i \in 1..(Len(s) - 1 + 1) : /\ SubSeq(rs, 1, Len(s))[i] = rs[1 + i - 1]
                                          /\ SubSeq(rt, 1, Len(s))[i] = rt[1 + i - 1]
    BY <1>2, <2>1, SubSeqProperties
  <2>3. /\ Len(SubSeq(rs, 1, Len(s))) = Len(s) /\ Len(SubSeq(rt, 1, Len(s))) = Len(s)
        /\ \A i \in 1..Len(s) : i \in 1..(Len(s) - 1 + 1) /\ 1 + i - 1 = i
    BY <1>2, <2>2
  <2>4. \A i \in 1..Len(s) : SubSeq(rs, 1, Len(s))[i] = SubSeq(rt, 1, Len(s))[i]
    BY <1>5, <2>2, <2>3
  <2>5. SubSeq(rs, 1, Len(s)) = SubSeq(rt, 1, Len(s))
    BY <2>2, <2>3, <2>4, SeqEqual
  <2> QED
    BY <1>3, <2>5
<1> QED
  BY <1>3, <1>4, <1>6, <1>7, <1>8 DEF IsSuffix, IsPrefix

-----------------------------------------------------------------------------
(* What a turn is shown *)

\* What was sent with the prompt of a turn.
Window(s) == SubSeq(messages[s], 1, sent[s])

\* Turns that have ended.
Past(t) == t \in 1..turns /\ \A s \in Sockets : InTurn(s) => Turn(s) # t

\* A socket that runs a turn has nothing but past turns in the window, and so have
\* the store, what the handlers remember and the two sets of turns.
PastInv ==
    /\ \A t \in unsaved : Past(t)
    /\ \A s \in Sockets : \A t \in missed[s] : Past(t)
    /\ \A i \in 1..Len(store) : Past(store[i].turn) /\ store[i].turn \notin unsaved
    /\ \A s \in Sockets : \A i \in 1..Len(memory[s]) : Past(memory[s][i].turn)
    /\ \A s \in Sockets : InTurn(s) => \A i \in 1..Len(Window(s)) : Past(Window(s)[i].turn)

\* What a handler remembers, and what it sent of it, is the end of what is stored,
\* apart from turns that it could not see and turns that were not saved.
Recent(ms, s) == Tails(Without(ms, unsaved), Without(store, missed[s]))
RecentInv ==
    \A s \in Sockets : Recent(memory[s], s) /\ (InTurn(s) => Recent(Window(s), s))

\* The beginning of a conversation.
LEMMA Beginning ==
  ASSUME NEW ms \in Seq(Message), NEW n \in 0..Len(ms)
  PROVE  /\ SubSeq(ms, 1, n) \in Seq(Message) /\ Len(SubSeq(ms, 1, n)) = n
         /\ \A i \in 1..n : SubSeq(ms, 1, n)[i] = ms[i]
         /\ ms = SubSeq(ms, 1, n) \o SubSeq(ms, n + 1, Len(ms))
<1>1. Len(ms) \in Nat /\ n \in Nat /\ \A i \in 1..Len(ms) : ms[i] \in Message
  BY LenProperties, ElementOfSeq
<1>2. \A i \in 1..n : ms[i] \in Message /\ i \in 1..(n - 1 + 1) /\ 1 + i - 1 = i
  BY <1>1
<1>3. /\ SubSeq(ms, 1, n) \in Seq(Message)
      /\ Len(SubSeq(ms, 1, n)) = IF 1 <= n THEN n - 1 + 1 ELSE 0
      /\ \A i \in 1..(n - 1 + 1) : SubSeq(ms, 1, n)[i] = ms[1 + i - 1]
  BY <1>1, <1>2, SubSeqProperties
<1>4. (IF 1 <= n THEN n - 1 + 1 ELSE 0) = n
  BY <1>1
<1>5. 1 \in 1..(Len(ms) + 1) /\ n \in (1 - 1)..Len(ms) /\ Len(ms) \in n..Len(ms)
  BY <1>1
<1>6. SubSeq(ms, 1, n) \o SubSeq(ms, n + 1, Len(ms)) = SubSeq(ms, 1, Len(ms))
  BY <1>5, ConcatAdjacentSubSeq
<1>7. SubSeq(ms, 1, Len(ms)) = ms
  BY SubSeqFull
<1>8. \A i \in 1..n : SubSeq(ms, 1, n)[i] = ms[i]
  BY <1>2, <1>3
<1>9. ms = SubSeq(ms, 1, n) \o SubSeq(ms, n + 1, Len(ms))
  BY <1>6, <1>7
<1>10. SubSeq(ms, 1, n) \in Seq(Message) /\ Len(SubSeq(ms, 1, n)) = n
  BY <1>3, <1>4
<1> QED
  BY <1>8, <1>9, <1>10

\* The window is the beginning of the messages.
LEMMA WindowProperties ==
  ASSUME TypeInv, RunInv, NEW s \in Sockets, InTurn(s)
  PROVE  /\ Window(s) \in Seq(Message) /\ Len(Window(s)) = sent[s] /\ sent[s] \in Nat
         /\ \A i \in 1..sent[s] : Window(s)[i] = messages[s][i]
         /\ messages[s] = Window(s) \o Delta(s)
<1>1. /\ messages[s] \in Seq(Message) /\ sent[s] \in Nat /\ sent[s] < Len(messages[s])
      /\ Len(messages[s]) \in Nat
  BY AgentTurnAssumption, LenProperties DEF TypeInv, RunInv
<1>2. sent[s] \in 0..Len(messages[s])
  BY <1>1
<1> QED
  BY <1>1, <1>2, Beginning DEF Window, Delta

\* A step that stores nothing, begins no turn and ends none.
Quiet ==
    /\ UNCHANGED <<store, missed, unsaved, turns>>
    /\ \A s \in Sockets :
         /\ memory'[s] \in {memory[s], <<>>}
         /\ InTurn(s)' <=> InTurn(s)
         /\ InTurn(s) => Turn(s)' = Turn(s) /\ Window(s)' = Window(s)

\* Turns that end without being saved, with their handlers.
Closes(S) ==
    /\ UNCHANGED <<store, missed, turns>>
    /\ unsaved' = unsaved \cup { Turn(s) : s \in { x \in S : InTurn(x) } }
    /\ \A s \in Sockets : IF s \in S THEN messages'[s] = <<>> /\ memory'[s] = <<>>
                          ELSE UNCHANGED <<messages[s], memory[s], sent[s]>>

\* Every step is one of these, connects, begins a turn or saves one.
LEMMA HistorySteps ==
  ASSUME TypeInv, HandlerInv, RunInv, [Next]_vars
  PROVE  \/ Quiet
         \/ \E s \in Sockets : Connect(s) \/ Prompt(s) \/ Save(s)
         \/ \E S \in SUBSET Sockets : Closes(S)
<1>1. ASSUME NEW s \in Sockets, NEW m \in Message, Says(s, m),
             UNCHANGED <<memory, missed, unsaved>>
      PROVE  Quiet
  <2>1. /\ Len(messages[s]) \in Nat \ {0} /\ Len(messages'[s]) = Len(messages[s]) + 1
        /\ \A i \in 1..Len(messages[s]) : messages'[s][i] = messages[s][i]
        /\ messages'[s] \in Seq(Message)
        /\ \A x \in Sockets \ {s} : messages'[x] = messages[x]
        /\ \A x \in Sockets : (InTurn(x)' <=> InTurn(x)) /\ (InTurn(x) => Turn(x)' = Turn(x))
    BY <1>1, SaysMessages
  <2>2. UNCHANGED <<sent, store, turns>> /\ InTurn(s)
    BY <1>1 DEF Says
  <2>3. Window(s)' = Window(s)
    <3>1. /\ Window(s) \in Seq(Message) /\ Len(Window(s)) = sent[s] /\ sent[s] \in Nat
          /\ \A i \in 1..sent[s] : Window(s)[i] = messages[s][i]
          /\ sent[s] < Len(messages[s])
      BY <2>2, WindowProperties DEF RunInv
    <3>2. sent[s] \in 0..Len(messages'[s]) /\ \A i \in 1..sent[s] : i \in 1..Len(messages[s])
      BY <2>1, <3>1
    <3>3. /\ SubSeq(messages'[s], 1, sent[s]) \in Seq(Message)
          /\ Len(SubSeq(messages'[s], 1, sent[s])) = sent[s]
          /\ \A i \in 1..sent[s] : SubSeq(messages'[s], 1, sent[s])[i] = messages'[s][i]
      BY <2>1, <3>2, Beginning
    <3>4. \A i \in 1..sent[s] : SubSeq(messages'[s], 1, sent[s])[i] = Window(s)[i]
      BY <2>1, <3>1, <3>2, <3>3
    <3>5. SubSeq(messages'[s], 1, sent[s]) = Window(s)
      BY <3>1, <3>3, <3>4, SeqEqual
    <3> QED
      BY <2>2, <3>5 DEF Window
  <2>4. \A x \in Sockets : InTurn(x) => Window(x)' = Window(x)
    BY <2>1, <2>2, <2>3 DEF Window
  <2> QED
    BY <1>1, <2>1, <2>2, <2>4 DEF Quiet
<1>2. ASSUME NEW s \in Sockets, NEW role \in Roles, NEW calls \in Nat, NEW of \in Nat, InTurn(s),
             messages' = [messages EXCEPT ![s] = Append(@, Said(s, role, calls, of))],
             UNCHANGED <<sent, store, turns, memory, missed, unsaved>>
      PROVE  Quiet
  <2> DEFINE m == Said(s, role, calls, of)
  <2>1. /\ m \in Message
        /\ m = [turn |-> Turn(s), at |-> Last(messages[s]).at + 1, role |-> role,
                calls |-> calls, of |-> of]
    BY <1>2, NextMessage
  <2>2. m.turn = Turn(s) /\ m.at = Last(messages[s]).at + 1
    BY <2>1
  <2>3. messages' = [messages EXCEPT ![s] = Append(@, m)]
    BY <1>2
  <2> HIDE DEF m
  <2>4. Says(s, m)
    BY <1>2, <2>1, <2>2, <2>3 DEF Says
  <2> QED
    BY <1>1, <1>2, <2>1, <2>4
<1>3. ASSUME NEW s \in Sockets, Answer(s) PROVE Quiet
  <2>1. InTurn(s) /\ "assistant" \in Roles /\ 0 \in Nat
    BY <1>3 DEF Answer, Goto, HandlerInv, Roles
  <2> QED
    BY <1>2, <1>3, <2>1 DEF Answer, history
<1>4. ASSUME NEW s \in Sockets, CallTools(s) PROVE Quiet
  <2>1. InTurn(s) /\ "assistant" \in Roles /\ 0 \in Nat
    BY <1>4 DEF CallTools, Goto, HandlerInv, Roles
  <2>2. PICK k \in 1..MaxCalls :
          messages' = [messages EXCEPT ![s] = Append(@, Said(s, "assistant", k, 0))]
    BY <1>4 DEF CallTools
  <2>3. k \in Nat
    BY <2>2, AgentTurnAssumption
  <2>4. UNCHANGED <<sent, store, turns, memory, missed, unsaved>>
    BY <1>4 DEF CallTools, history
  <2> QED
    BY <1>2, <2>1, <2>2, <2>3, <2>4
<1>5. ASSUME NEW s \in Sockets, Report(s) PROVE Quiet
  <2>1. InTurn(s) /\ "tool" \in Roles /\ 0 \in Nat
    BY <1>5 DEF Report, HandlerInv, Roles
  <2>2. CallAt(s) \in Nat
    BY <2>1, NextMessage
  <2> QED
    BY <1>2, <1>5, <2>1, <2>2 DEF Report, history
<1>6. ASSUME UNCHANGED <<messages, sent, store, missed, unsaved, turns>>,
             \A x \in Sockets : memory'[x] \in {memory[x], <<>>}
      PROVE  Quiet
  BY <1>6 DEF Quiet, InTurn, Turn, Window
<1>7. ASSUME NEW s \in Sockets,
             \/ SwitchTab(s) \/ ModelFails(s) \/ MalformedCall(s) \/ ReadOrRefuse(s)
             \/ DispatchWrite(s) \/ DispatchSwitch(s) \/ Drop(s)
      PROVE  Quiet
  <2>1. UNCHANGED <<messages, sent, store, missed, unsaved, turns, memory>>
    BY <1>7 DEF SwitchTab, ModelFails, MalformedCall, ReadOrRefuse, DispatchWrite,
                DispatchSwitch, Drop, turn, history
  <2> QED
    BY <1>6, <2>1
<1>8. ASSUME NEW s \in Sockets, Leave(s) \/ Touch(s) PROVE Quiet
  <2>1. UNCHANGED <<messages, sent, store, missed, unsaved, turns>>
    BY <1>8 DEF Leave, Touch, turn, history
  <2>2. \A x \in Sockets : memory'[x] \in {memory[x], <<>>}
    BY <1>8 DEF Leave, Touch, TypeInv
  <2> QED
    BY <1>6, <2>1, <2>2
<1>9. ASSUME NEW s \in Sockets, Vanish(s) PROVE \E S \in SUBSET Sockets : Closes(S)
  <2>1. /\ EndTurn(s) /\ UNCHANGED <<store, turns, missed>> /\ unsaved' = unsaved \cup {Turn(s)}
        /\ memory'[s] = <<>> /\ \A x \in Sockets \ {s} : memory'[x] = memory[x]
    BY <1>9 DEF Vanish, TypeInv
  <2>2. /\ messages'[s] = <<>>
        /\ \A x \in Sockets \ {s} : messages'[x] = messages[x] /\ sent'[x] = sent[x]
    BY <2>1, EndTurnType
  <2>3. InTurn(s)
    BY <1>9 DEF Vanish, HandlerInv
  <2>4. { Turn(x) : x \in { y \in {s} : InTurn(y) } } = {Turn(s)}
    BY <2>3
  <2>5. Closes({s})
    BY <2>1, <2>2, <2>4 DEF Closes
  <2> QED
    BY <2>5
<1>10. CASE Restart
  <2>1. /\ UNCHANGED <<store, turns, missed>>
        /\ \A x \in Sockets : messages'[x] = <<>> /\ memory'[x] = <<>>
        /\ unsaved' = unsaved \cup { Turn(s) : s \in { x \in Sockets : InTurn(x) } }
    BY <1>10 DEF Restart
  <2>2. Closes(Sockets)
    BY <2>1 DEF Closes
  <2> QED
    BY <2>2
<1>11. CASE UNCHANGED vars
  <2>1. UNCHANGED <<messages, sent, store, missed, unsaved, turns, memory>>
    BY <1>11 DEF vars, turn, history
  <2> QED
    BY <1>6, <2>1
<1> QED
  BY <1>3, <1>4, <1>5, <1>7, <1>8, <1>9, <1>10, <1>11 DEF Next, TurnStep

\* What a connection restores.
LEMMA ConnectHistory ==
  ASSUME TypeInv, NEW s \in Sockets, Connect(s)
  PROVE  /\ UNCHANGED <<store, unsaved, turns, messages, sent>>
         /\ missed'[s] = {} /\ \A x \in Sockets \ {s} : missed'[x] = missed[x]
         /\ memory'[s] \in Seq(Message) /\ Tails(memory'[s], store)
         /\ \A x \in Sockets \ {s} : memory'[x] = memory[x]
<1>1. /\ UNCHANGED <<store, unsaved, turns, messages, sent>>
      /\ missed'[s] = {} /\ \A x \in Sockets \ {s} : missed'[x] = missed[x] /\ memory'[x] = memory[x]
      /\ memory'[s] = Newest(store, MaxReplay) \/ memory'[s] = <<>>
  BY DEF Connect, TypeInv, turn
<1>2. /\ Newest(store, MaxReplay) \in Seq(Message) /\ Tails(Newest(store, MaxReplay), store)
      /\ <<>> \in Seq(Message) /\ Tails(<<>>, store)
  <2>1. store \in Seq(Message) /\ Len(store) \in Nat
    BY LenProperties DEF TypeInv
  <2>2. 1 \in 1..(Len(store) + 1)
    BY <2>1
  <2> QED
    BY <2>1, <2>2, CutsTails, FromTails, EmptySeq, AgentTurnAssumption
<1> QED
  BY <1>1, <1>2

\* What a prompt sends.
LEMMA PromptHistory ==
  ASSUME TypeInv, TypeInv', HandlerInv, RunInv', NEW s \in Sockets, Prompt(s)
  PROVE  /\ UNCHANGED <<store, unsaved, missed, memory>> /\ turns' = turns + 1 /\ turns \in Nat
         /\ ~ InTurn(s) /\ InTurn(s)' /\ Turn(s)' = turns + 1
         /\ Window(s)' \in Seq(Message) /\ Tails(Window(s)', memory[s])
         /\ \A x \in Sockets \ {s} : messages'[x] = messages[x] /\ sent'[x] = sent[x]
<1> DEFINE ms == TrimForModel(memory[s])
<1>1. /\ ms \in Seq(Message) /\ Len(ms) \in Nat
      /\ \lnot InTurn(s) /\ turns' = turns + 1 /\ turns \in Nat
      /\ \A x \in Sockets \ {s} : messages'[x] = messages[x] /\ sent'[x] = sent[x]
      /\ sent'[s] = Len(ms) /\ Len(messages'[s]) = Len(ms) + 1
      /\ messages'[s] # <<>> /\ messages'[s] \in Seq(Message)
      /\ Last(messages'[s]) = messages'[s][Len(ms) + 1]
      /\ messages'[s][Len(ms) + 1] =
           [turn |-> turns + 1, at |-> 1, role |-> "user", calls |-> 0, of |-> 0]
      /\ \A i \in 1..Len(ms) : messages'[s][i] = ms[i]
  BY PromptMessages
<1>2. ms \in Seq(Message) /\ Tails(ms, memory[s])
  <2>1. memory[s] \in Seq(Message)
    BY DEF TypeInv
  <2> QED
    BY <2>1, CutsTails, AgentTurnAssumption
<1> HIDE DEF ms
<1>3. InTurn(s)' /\ Turn(s)' = turns + 1
  BY <1>1 DEF InTurn, Turn
<1>4. /\ Window(s)' \in Seq(Message) /\ Len(Window(s)') = sent'[s]
      /\ \A i \in 1..sent'[s] : Window(s)'[i] = messages'[s][i]
  <2>1. sent'[s] \in 0..Len(messages'[s])
    BY <1>1
  <2> QED
    BY <1>1, <2>1, Beginning DEF Window
<1>5. Window(s)' = ms
  <2>1. \A i \in 1..Len(ms) : Window(s)'[i] = ms[i]
    BY <1>1, <1>4
  <2> QED
    BY <1>1, <1>2, <1>4, <2>1, SeqEqual
<1>6. UNCHANGED <<store, unsaved, missed, memory>>
  BY DEF Prompt, history
<1> QED
  BY <1>1, <1>2, <1>3, <1>5, <1>6

\* What the end of a turn makes of the history.
LEMMA SaveHistory ==
  ASSUME TypeInv, HandlerInv, NEW s \in Sockets, Save(s)
  PROVE  /\ InTurn(s) /\ UNCHANGED turns /\ ~ InTurn(s)'
         /\ memory'[s] = messages[s]
         /\ \A x \in Sockets \ {s} : /\ memory'[x] = memory[x]
                                     /\ messages'[x] = messages[x] /\ sent'[x] = sent[x]
         /\ \/ /\ store' = store \o Delta(s) /\ UNCHANGED unsaved /\ missed'[s] = missed[s]
               /\ \A x \in Sockets \ {s} : missed'[x] = missed[x] \cup {Turn(s)}
            \/ /\ unsaved' = unsaved \cup {Turn(s)} /\ UNCHANGED <<store, missed>>
<1>1. EndTurn(s) /\ UNCHANGED turns /\ memory' = [memory EXCEPT ![s] = messages[s]]
  BY DEF Save
<1>2. /\ messages'[s] = <<>>
      /\ \A x \in Sockets \ {s} : messages'[x] = messages[x] /\ sent'[x] = sent[x]
  BY <1>1, EndTurnType
<1>3. InTurn(s)
  BY DEF Save, Goto, HandlerInv
<1>4. memory'[s] = messages[s] /\ \A x \in Sockets \ {s} : memory'[x] = memory[x]
  BY <1>1 DEF TypeInv
<1>5. \/ /\ store' = store \o Delta(s) /\ UNCHANGED unsaved /\ missed'[s] = missed[s]
         /\ \A x \in Sockets \ {s} : missed'[x] = missed[x] \cup {Turn(s)}
      \/ /\ unsaved' = unsaved \cup {Turn(s)} /\ UNCHANGED <<store, missed>>
  BY DEF Save
<1> QED
  BY <1>1, <1>2, <1>3, <1>4, <1>5 DEF InTurn

\* Turns that have ended stay so, and those that end do not run again.
LEMMA PastStep ==
  ASSUME TypeInv, TypeInv', HandlerInv, RunInv, RunInv', FreshInv, PastInv, [Next]_vars
  PROVE  PastInv'
<1> DEFINE Ended(t) == t \in 1..turns' /\ \A x \in Sockets : InTurn(x)' => Turn(x)' # t
<1>0. ASSUME \A t \in unsaved' : Ended(t),
             \A x \in Sockets : \A t \in missed'[x] : Ended(t),
             \A i \in 1..Len(store') : Ended(store'[i].turn) /\ store'[i].turn \notin unsaved',
             \A x \in Sockets : \A i \in 1..Len(memory'[x]) : Ended(memory'[x][i].turn),
             \A x \in Sockets :
                 InTurn(x)' => \A i \in 1..Len(Window(x)') : Ended(Window(x)'[i].turn)
      PROVE  PastInv'
  BY <1>0 DEF PastInv, Past
<1> HIDE DEF Ended
<1>1. CASE Quiet
  <2>1. \A t : Past(t) => Ended(t)
    BY <1>1 DEF Quiet, Past, Ended
  <2>2. Len(<<>>) = 0 /\ 1..0 = {}
    BY EmptySeq
  <2>3. \A x \in Sockets : \A i \in 1..Len(memory'[x]) : Ended(memory'[x][i].turn)
    BY <1>1, <2>1, <2>2 DEF Quiet, PastInv
  <2>4. \A x \in Sockets : InTurn(x)' => \A i \in 1..Len(Window(x)') : Ended(Window(x)'[i].turn)
    BY <1>1, <2>1 DEF Quiet, PastInv
  <2>5. \A i \in 1..Len(store') : Ended(store'[i].turn) /\ store'[i].turn \notin unsaved'
    BY <1>1, <2>1 DEF Quiet, PastInv
  <2>6. /\ \A t \in unsaved' : Ended(t)
        /\ \A x \in Sockets : \A t \in missed'[x] : Ended(t)
    BY <1>1, <2>1 DEF Quiet, PastInv
  <2> QED
    BY <1>0, <2>3, <2>4, <2>5, <2>6
<1>2. ASSUME NEW s \in Sockets, Connect(s) PROVE PastInv'
  <2>1. /\ UNCHANGED <<store, unsaved, turns, messages, sent>>
        /\ missed'[s] = {} /\ \A x \in Sockets \ {s} : missed'[x] = missed[x]
        /\ memory'[s] \in Seq(Message) /\ Tails(memory'[s], store)
        /\ \A x \in Sockets \ {s} : memory'[x] = memory[x]
    BY <1>2, ConnectHistory
  <2>2. \A t : Past(t) => Ended(t)
    BY <2>1 DEF Past, InTurn, Turn, Ended
  <2>3. \A i \in 1..Len(memory'[s]) : Ended(memory'[s][i].turn)
    <3>1. \A i \in 1..Len(memory'[s]) : \E k \in 1..Len(store) : memory'[s][i] = store[k]
      BY <2>1, TailsMessages DEF TypeInv
    <3> QED
      BY <2>2, <3>1 DEF PastInv
  <2>4. \A x \in Sockets : \A i \in 1..Len(memory'[x]) : Ended(memory'[x][i].turn)
    BY <2>1, <2>2, <2>3 DEF PastInv
  <2>5. \A x \in Sockets : \A t \in missed'[x] : Ended(t)
    BY <2>1, <2>2 DEF PastInv
  <2>6. \A x \in Sockets : InTurn(x)' => \A i \in 1..Len(Window(x)') : Ended(Window(x)'[i].turn)
    <3>1. \A x \in Sockets : InTurn(x)' => InTurn(x) /\ Window(x)' = Window(x)
      BY <2>1 DEF InTurn, Window
    <3> QED
      BY <2>2, <3>1 DEF PastInv
  <2>7. /\ \A t \in unsaved' : Ended(t)
        /\ \A i \in 1..Len(store') : Ended(store'[i].turn) /\ store'[i].turn \notin unsaved'
    BY <2>1, <2>2 DEF PastInv
  <2> QED
    BY <1>0, <2>4, <2>5, <2>6, <2>7
<1>3. ASSUME NEW s \in Sockets, Prompt(s) PROVE PastInv'
  <2>1. /\ UNCHANGED <<store, unsaved, missed, memory>> /\ turns' = turns + 1 /\ turns \in Nat
        /\ ~ InTurn(s) /\ InTurn(s)' /\ Turn(s)' = turns + 1
        /\ Window(s)' \in Seq(Message) /\ Tails(Window(s)', memory[s])
        /\ \A x \in Sockets \ {s} : messages'[x] = messages[x] /\ sent'[x] = sent[x]
    BY <1>3, PromptHistory
  <2>2. \A t : Past(t) => Ended(t)
    <3>1. \A t \in 1..turns : t \in 1..(turns + 1) /\ t # turns + 1
      BY <2>1
    <3> QED
      BY <2>1, <3>1 DEF Past, InTurn, Turn, Ended
  <2>3. \A i \in 1..Len(Window(s)') : Ended(Window(s)'[i].turn)
    <3>1. \A i \in 1..Len(Window(s)') : \E k \in 1..Len(memory[s]) : Window(s)'[i] = memory[s][k]
      BY <2>1, TailsMessages, SMTT(30) DEF TypeInv
    <3> QED
      BY <2>2, <3>1 DEF PastInv
  <2>4. \A x \in Sockets : InTurn(x)' => \A i \in 1..Len(Window(x)') : Ended(Window(x)'[i].turn)
    <3>1. \A x \in Sockets \ {s} : InTurn(x)' => InTurn(x) /\ Window(x)' = Window(x)
      BY <2>1 DEF InTurn, Window
    <3> QED
      BY <2>2, <2>3, <3>1 DEF PastInv
  <2>5. /\ \A t \in unsaved' : Ended(t)
        /\ \A x \in Sockets : \A t \in missed'[x] : Ended(t)
        /\ \A x \in Sockets : \A i \in 1..Len(memory'[x]) : Ended(memory'[x][i].turn)
        /\ \A i \in 1..Len(store') : Ended(store'[i].turn) /\ store'[i].turn \notin unsaved'
    BY <2>1, <2>2 DEF PastInv
  <2> QED
    BY <1>0, <2>4, <2>5
<1>4. ASSUME NEW s \in Sockets, Save(s) PROVE PastInv'
  <2>1. /\ InTurn(s) /\ UNCHANGED turns /\ ~ InTurn(s)'
        /\ memory'[s] = messages[s]
        /\ \A x \in Sockets \ {s} : /\ memory'[x] = memory[x]
                                    /\ messages'[x] = messages[x] /\ sent'[x] = sent[x]
        /\ \/ /\ store' = store \o Delta(s) /\ UNCHANGED unsaved /\ missed'[s] = missed[s]
              /\ \A x \in Sockets \ {s} : missed'[x] = missed[x] \cup {Turn(s)}
           \/ /\ unsaved' = unsaved \cup {Turn(s)} /\ UNCHANGED <<store, missed>>
    BY <1>4, SaveHistory
  <2>2. \A t : Past(t) \/ t = Turn(s) => Ended(t)
    BY <2>1 DEF Past, InTurn, Turn, FreshInv, RunInv, Ended
  <2>3. ~ Past(Turn(s))
    BY <2>1 DEF Past
  <2>4. \A i \in 1..Len(memory'[s]) : Ended(memory'[s][i].turn)
    <3>1. /\ Len(Window(s)) = sent[s] /\ sent[s] \in Nat
          /\ \A i \in 1..sent[s] : Window(s)[i] = messages[s][i]
      BY <2>1, WindowProperties
    <3> TAKE i \in 1..Len(memory'[s])
    <3>2. CASE i <= sent[s]
      <4>1. i \in 1..Len(Window(s)) /\ messages[s][i] = Window(s)[i]
        BY <3>1, <3>2
      <4>2. Past(messages[s][i].turn)
        BY <2>1, <4>1 DEF PastInv
      <4> QED
        BY <2>1, <2>2, <4>2
    <3>3. CASE ~ (i <= sent[s])
      <4>1. i \in Own(s)
        <5>1. Len(messages[s]) \in Nat
          BY LenProperties DEF TypeInv
        <5> QED
          BY <2>1, <3>1, <3>3, <5>1 DEF Own
      <4>2. messages[s][i].turn = Turn(s)
        BY <2>1, <4>1 DEF RunInv
      <4> QED
        BY <2>1, <2>2, <4>2
    <3> QED
      BY <3>2, <3>3
  <2>5. \A x \in Sockets : \A i \in 1..Len(memory'[x]) : Ended(memory'[x][i].turn)
    BY <2>1, <2>2, <2>4 DEF PastInv
  <2>6. \A x \in Sockets : InTurn(x)' => \A i \in 1..Len(Window(x)') : Ended(Window(x)'[i].turn)
    <3>1. \A x \in Sockets : InTurn(x)' => InTurn(x) /\ Window(x)' = Window(x)
      BY <2>1 DEF InTurn, Window
    <3> QED
      BY <2>2, <3>1 DEF PastInv
  <2>7. \A i \in 1..Len(store') : Ended(store'[i].turn) /\ store'[i].turn \notin unsaved'
    <3>1. CASE store' = store /\ unsaved' = unsaved \cup {Turn(s)}
      BY <2>1, <2>2, <2>3, <3>1 DEF PastInv
    <3>2. CASE store' = store \o Delta(s) /\ UNCHANGED unsaved
      <4>1. /\ Len(store) \in Nat /\ Len(Delta(s)) \in Nat
            /\ \A j \in 1..Len(Delta(s)) : Delta(s)[j].turn = Turn(s)
            /\ Len(store \o Delta(s)) = Len(store) + Len(Delta(s))
            /\ \A i \in 1..Len(store \o Delta(s)) :
                  (store \o Delta(s))[i] = IF i <= Len(store) THEN store[i]
                                           ELSE Delta(s)[i - Len(store)]
        BY <2>1, DeltaProperties
      <4>2. Turn(s) \notin unsaved
        BY <2>3 DEF PastInv
      <4> TAKE i \in 1..Len(store')
      <4>3. CASE i <= Len(store)
        <5>1. i \in 1..Len(store) /\ store'[i] = store[i]
          BY <3>2, <4>1, <4>3
        <5> QED
          BY <2>2, <3>2, <5>1 DEF PastInv
      <4>4. CASE ~ (i <= Len(store))
        <5>1. i - Len(store) \in 1..Len(Delta(s)) /\ store'[i] = Delta(s)[i - Len(store)]
          BY <3>2, <4>1, <4>4
        <5>2. store'[i].turn = Turn(s)
          BY <4>1, <5>1
        <5> QED
          BY <2>2, <3>2, <4>2, <5>2
      <4> QED
        BY <4>3, <4>4
    <3> QED
      BY <2>1, <3>1, <3>2
  <2>8. \A t \in unsaved' : Ended(t)
    BY <2>1, <2>2 DEF PastInv
  <2>9. \A x \in Sockets : \A t \in missed'[x] : Ended(t)
    BY <2>1, <2>2 DEF PastInv
  <2> QED
    BY <1>0, <2>5, <2>6, <2>7, <2>8, <2>9
<1>5. ASSUME NEW S \in SUBSET Sockets, Closes(S) PROVE PastInv'
  <2>1. /\ UNCHANGED <<store, missed, turns>>
        /\ unsaved' = unsaved \cup { Turn(s) : s \in { x \in S : InTurn(x) } }
        /\ \A s \in S : messages'[s] = <<>> /\ memory'[s] = <<>>
        /\ \A s \in Sockets \ S : UNCHANGED <<messages[s], memory[s], sent[s]>>
    BY <1>5 DEF Closes
  <2>2. \A t : Past(t) => Ended(t)
    BY <2>1 DEF Past, InTurn, Turn, Ended
  <2>3. \A s \in S : InTurn(s) => Ended(Turn(s)) /\ ~ Past(Turn(s))
    <3> SUFFICES ASSUME NEW s \in S, InTurn(s) PROVE Ended(Turn(s)) /\ ~ Past(Turn(s))
      OBVIOUS
    <3> QED
      BY <2>1 DEF Past, InTurn, Turn, FreshInv, RunInv, Ended
  <2>4. Len(<<>>) = 0 /\ 1..0 = {}
    BY EmptySeq
  <2>5. \A x \in Sockets : \A i \in 1..Len(memory'[x]) : Ended(memory'[x][i].turn)
    BY <2>1, <2>2, <2>4 DEF PastInv
  <2>6. \A x \in Sockets : InTurn(x)' => \A i \in 1..Len(Window(x)') : Ended(Window(x)'[i].turn)
    <3>1. \A x \in Sockets : InTurn(x)' => InTurn(x) /\ Window(x)' = Window(x)
      BY <2>1 DEF InTurn, Window
    <3> QED
      BY <2>2, <3>1 DEF PastInv
  <2>7. /\ \A t \in unsaved' : Ended(t)
        /\ \A x \in Sockets : \A t \in missed'[x] : Ended(t)
    BY <2>1, <2>2, <2>3 DEF PastInv
  <2>8. \A i \in 1..Len(store') : Ended(store'[i].turn) /\ store'[i].turn \notin unsaved'
    BY <2>1, <2>2, <2>3 DEF PastInv
  <2> QED
    BY <1>0, <2>5, <2>6, <2>7, <2>8
<1> QED
  BY <1>1, <1>2, <1>3, <1>4, <1>5, HistorySteps

\* Whatever is stored behind a handler's back, it keeps the end of the rest.
LEMMA RecentStep ==
  ASSUME TypeInv, TypeInv', HandlerInv, RunInv, RunInv', FreshInv, PastInv, RecentInv,
         [Next]_vars
  PROVE  RecentInv'
<1>1. /\ store \in Seq(Message) /\ <<>> \in Seq(Message)
      /\ \A x \in Sockets : memory[x] \in Seq(Message)
      /\ \A ms \in Seq(Message) : \A T : Without(ms, T) \in Seq(Message)
      /\ \A T : Without(<<>>, T) = <<>>
  BY WithoutType, EmptySeq DEF TypeInv
<1>2. \A ms \in Seq(Message) : \A T : Tails(Without(<<>>, T), Without(ms, T))
  <2> SUFFICES ASSUME NEW ms \in Seq(Message), NEW T PROVE Tails(<<>>, Without(ms, T))
    BY <1>1
  <2> DEFINE rest == Without(ms, T)
  <2>1. rest \in Seq(Message)
    BY <1>1
  <2> HIDE DEF rest
  <2>2. 1 \in 1..(Len(rest) + 1)
    BY <2>1, LenProperties
  <2>3. Tails(<<>>, rest)
    BY <2>1, <2>2, FromTails
  <2> QED
    BY <2>3 DEF rest
<1>3. \A T, U, ms : ms \in Seq(Message) => Tails(Without(<<>>, T), Without(ms, U))
  BY <1>1, <1>2
<1>4. CASE Quiet
  BY <1>1, <1>3, <1>4 DEF Quiet, RecentInv, Recent
<1>5. ASSUME NEW s \in Sockets, Connect(s) PROVE RecentInv'
  <2>1. /\ UNCHANGED <<store, unsaved, turns, messages, sent>>
        /\ missed'[s] = {} /\ \A x \in Sockets \ {s} : missed'[x] = missed[x]
        /\ memory'[s] \in Seq(Message) /\ Tails(memory'[s], store)
        /\ \A x \in Sockets \ {s} : memory'[x] = memory[x]
    BY <1>5, ConnectHistory
  <2>2. Without(store, unsaved) = Without(store, {})
    BY <1>1, WithoutSame DEF PastInv
  <2>3. Tails(Without(memory'[s], unsaved), Without(store, unsaved))
    BY <1>1, <2>1, TailsWithout
  <2>4. ~ InTurn(s) /\ \A x \in Sockets : InTurn(x)' => InTurn(x) /\ Window(x)' = Window(x)
    BY <1>5, <2>1 DEF Connect, Goto, HandlerInv, InTurn, Window
  <2>5. Tails(Without(memory'[s], unsaved'), Without(store', missed'[s]))
    BY <2>1, <2>2, <2>3
  <2> QED
    BY <2>1, <2>4, <2>5 DEF RecentInv, Recent
<1>6. ASSUME NEW s \in Sockets, Prompt(s) PROVE RecentInv'
  <2>1. /\ UNCHANGED <<store, unsaved, missed, memory>>
        /\ Window(s)' \in Seq(Message) /\ Tails(Window(s)', memory[s])
        /\ \A x \in Sockets \ {s} : messages'[x] = messages[x] /\ sent'[x] = sent[x]
    BY <1>6, PromptHistory
  <2>2. Tails(Without(Window(s)', unsaved), Without(memory[s], unsaved))
    BY <1>1, <2>1, TailsWithout
  <2>3. Tails(Without(memory[s], unsaved), Without(store, missed[s]))
    BY DEF RecentInv, Recent
  <2>4. Tails(Without(Window(s)', unsaved), Without(store, missed[s]))
    <3>1. /\ Without(Window(s)', unsaved) \in Seq(Message)
          /\ Without(memory[s], unsaved) \in Seq(Message)
          /\ Without(store, missed[s]) \in Seq(Message)
      BY <1>1, <2>1
    <3> QED
      BY <2>2, <2>3, <3>1, TailsTail
  <2>5. \A x \in Sockets \ {s} : (InTurn(x)' <=> InTurn(x)) /\ Window(x)' = Window(x)
    BY <2>1 DEF InTurn, Window
  <2> QED
    BY <2>1, <2>4, <2>5 DEF RecentInv, Recent
<1>7. ASSUME NEW s \in Sockets, Save(s) PROVE RecentInv'
  <2> DEFINE d == Delta(s)
             t == Turn(s)
  <2>1. /\ InTurn(s) /\ UNCHANGED turns /\ ~ InTurn(s)'
        /\ memory'[s] = messages[s]
        /\ \A x \in Sockets \ {s} : /\ memory'[x] = memory[x]
                                    /\ messages'[x] = messages[x] /\ sent'[x] = sent[x]
        /\ \/ /\ store' = store \o d /\ UNCHANGED unsaved /\ missed'[s] = missed[s]
              /\ \A x \in Sockets \ {s} : missed'[x] = missed[x] \cup {t}
           \/ /\ unsaved' = unsaved \cup {t} /\ UNCHANGED <<store, missed>>
    BY <1>7, SaveHistory
  <2>2. /\ Window(s) \in Seq(Message) /\ messages[s] = Window(s) \o d
        /\ d \in Seq(Message) /\ \A i \in 1..Len(d) : d[i].turn = t
    BY <2>1, WindowProperties, DeltaProperties
  <2>3. \A x \in Sockets \ {s} : InTurn(x)' => InTurn(x) /\ Window(x)' = Window(x)
    BY <2>1 DEF InTurn, Window
  <2>4. \A i \in 1..Len(store) : store[i].turn # t
    BY <2>1 DEF FreshInv
  <2>5. t \notin unsaved /\ \A x \in Sockets : t \notin missed[x]
    BY <2>1 DEF PastInv, Past
  <2>6. \A x \in Sockets \ {s} : InTurn(x) => Window(x) \in Seq(Message)
    BY WindowProperties
  <2>7. /\ \A x \in Sockets, i \in Nat : i \in 1..Len(memory[x]) => memory[x][i].turn # t
        /\ \A x \in Sockets, i \in Nat :
              InTurn(x) /\ i \in 1..Len(Window(x)) => Window(x)[i].turn # t
    BY <2>1 DEF PastInv, Past
  <2>8. /\ Recent(memory[s], s) /\ Recent(Window(s), s)
        /\ \A x \in Sockets \ {s} : Recent(memory[x], x) /\ (InTurn(x) => Recent(Window(x), x))
    BY <2>1 DEF RecentInv
  <2> HIDE DEF d, t
  <2>9. CASE store' = store \o d /\ UNCHANGED unsaved /\ missed'[s] = missed[s]
             /\ \A x \in Sockets \ {s} : missed'[x] = missed[x] \cup {t}
    <3>1. Without(d, unsaved) = Without(d, missed[s])
      BY <2>2, <2>5, WithoutSame
    <3>2. /\ Without(messages[s], unsaved) = Without(Window(s), unsaved) \o Without(d, unsaved)
          /\ Without(store', missed[s]) = Without(store, missed[s]) \o Without(d, missed[s])
      <4>1. Without(Window(s) \o d, unsaved) = Without(Window(s), unsaved) \o Without(d, unsaved)
        BY <2>2, WithoutConcat
      <4>2. Without(store \o d, missed[s]) = Without(store, missed[s]) \o Without(d, missed[s])
        BY <1>1, <2>2, WithoutConcat, ZenonT(40)
      <4> QED
        BY <2>2, <2>9, <4>1, <4>2
    <3>3. Tails(Without(messages[s], unsaved), Without(store', missed[s]))
      <4>1. Tails(Without(Window(s), unsaved), Without(store, missed[s]))
        BY <2>8 DEF Recent
      <4>2. /\ Without(Window(s), unsaved) \in Seq(Message)
            /\ Without(store, missed[s]) \in Seq(Message)
            /\ Without(d, unsaved) \in Seq(Message)
        BY <1>1, <2>2
      <4>3. Tails(Without(Window(s), unsaved) \o Without(d, unsaved),
                  Without(store, missed[s]) \o Without(d, unsaved))
        BY <4>1, <4>2, TailsConcat
      <4> QED
        BY <3>1, <3>2, <4>3
    <3>4. ASSUME NEW x \in Sockets \ {s}
          PROVE  Without(store', missed'[x]) = Without(store, missed[x])
      <4>1. missed'[x] = missed[x] \cup {t}
        BY <2>9
      <4>2. \A T : Without(store \o d, T) = Without(store, T) \o Without(d, T)
        BY <1>1, <2>2, WithoutConcat
      <4>3. Without(d, missed'[x]) = <<>>
        BY <2>2, <4>1, WithoutAll
      <4>4. Without(store, missed'[x]) = Without(store, missed[x])
        BY <1>1, <2>4, <4>1, WithoutSame
      <4>5. Without(store, missed[x]) \o <<>> = Without(store, missed[x])
        BY <1>1, ConcatEmptySeq
      <4> QED
        BY <2>9, <4>2, <4>3, <4>4, <4>5
    <3>5. Recent(memory[s], s)' /\ ~ InTurn(s)'
      BY <2>1, <2>9, <3>3 DEF Recent
    <3>6. \A x \in Sockets \ {s} : Recent(memory[x], x)' /\ (InTurn(x)' => Recent(Window(x), x)')
      BY <2>1, <2>3, <2>8, <2>9, <3>4 DEF Recent
    <3> QED
      BY <3>5, <3>6 DEF RecentInv
  <2>10. CASE unsaved' = unsaved \cup {t} /\ UNCHANGED <<store, missed>>
    <3>1. \A ms \in Seq(Message) :
            (\A i \in 1..Len(ms) : ms[i].turn # t) => Without(ms, unsaved') = Without(ms, unsaved)
      BY <2>10, WithoutSame
    <3>2. Without(messages[s], unsaved') = Without(Window(s), unsaved)
      <4>1. Without(Window(s) \o d, unsaved') = Without(Window(s), unsaved') \o Without(d, unsaved')
        BY <2>2, WithoutConcat
      <4>2. Without(d, unsaved') = <<>>
        BY <2>2, <2>10, WithoutAll
      <4>3. Without(Window(s), unsaved') = Without(Window(s), unsaved)
        BY <2>1, <2>2, <2>7, <3>1
      <4>4. Without(Window(s), unsaved) \o <<>> = Without(Window(s), unsaved)
        BY <1>1, <2>2, ConcatEmptySeq
      <4> QED
        BY <2>2, <4>1, <4>2, <4>3, <4>4
    <3>3. Recent(memory[s], s)' /\ ~ InTurn(s)'
      BY <2>1, <2>8, <2>10, <3>2 DEF Recent
    <3>4. ASSUME NEW x \in Sockets \ {s} PROVE Recent(memory[x], x)'
      <4>1. Without(memory[x], unsaved') = Without(memory[x], unsaved)
        BY <1>1, <2>7, <3>1
      <4> QED
        BY <2>1, <2>8, <2>10, <4>1 DEF Recent
    <3>5. ASSUME NEW x \in Sockets \ {s}, InTurn(x)' PROVE Recent(Window(x), x)'
      <4>1. InTurn(x) /\ Window(x)' = Window(x)
        BY <2>3, <3>5
      <4>2. Without(Window(x), unsaved') = Without(Window(x), unsaved)
        BY <2>6, <2>7, <3>1, <4>1
      <4> QED
        BY <2>8, <2>10, <4>1, <4>2 DEF Recent
    <3> QED
      BY <3>3, <3>4, <3>5 DEF RecentInv
  <2> QED
    BY <2>1, <2>9, <2>10
<1>8. ASSUME NEW S \in SUBSET Sockets, Closes(S) PROVE RecentInv'
  <2>1. /\ UNCHANGED <<store, missed, turns>>
        /\ unsaved' = unsaved \cup { Turn(s) : s \in { x \in S : InTurn(x) } }
        /\ \A s \in S : messages'[s] = <<>> /\ memory'[s] = <<>>
        /\ \A s \in Sockets \ S : UNCHANGED <<messages[s], memory[s], sent[s]>>
    BY <1>8 DEF Closes
  <2>2. \A t : Past(t) => (t \in unsaved' <=> t \in unsaved)
    BY <2>1 DEF Past
  <2>3. ASSUME NEW x \in S PROVE Recent(memory[x], x)' /\ ~ InTurn(x)'
    BY <1>1, <1>3, <2>1, <2>3 DEF Recent, InTurn
  <2>4. ASSUME NEW x \in Sockets \ S PROVE Recent(memory[x], x)'
    <3>1. Without(memory[x], unsaved') = Without(memory[x], unsaved)
      BY <1>1, <2>2, WithoutSame DEF PastInv
    <3>2. Recent(memory[x], x)
      BY DEF RecentInv
    <3> QED
      BY <2>1, <3>1, <3>2 DEF Recent
  <2>5. ASSUME NEW x \in Sockets \ S, InTurn(x)' PROVE Recent(Window(x), x)'
    <3>1. InTurn(x) /\ Window(x)' = Window(x)
      BY <2>1, <2>5 DEF InTurn, Window
    <3>2. Window(x) \in Seq(Message)
      BY <3>1, WindowProperties
    <3>3. Without(Window(x), unsaved') = Without(Window(x), unsaved)
      BY <2>2, <3>1, <3>2, WithoutSame DEF PastInv
    <3>4. Recent(Window(x), x)
      BY <3>1 DEF RecentInv
    <3> QED
      BY <2>1, <3>1, <3>3, <3>4 DEF Recent
  <2> QED
    BY <2>3, <2>4, <2>5 DEF RecentInv
<1> QED
  BY <1>4, <1>5, <1>6, <1>7, <1>8, HistorySteps

-----------------------------------------------------------------------------
(* The theorems *)

\* The invariant holds of every behaviour.
LEMMA Invariance == Spec => []Inv
<1>1. Init => Inv
  <2> SUFFICES ASSUME Init PROVE Inv
    OBVIOUS
  <2>1. TypeInv /\ HandlerInv
    BY TypeInit
  <2>2. store = <<>> /\ writes = {} /\ \A s \in Sockets : ~ InTurn(s) /\ memory[s] = <<>>
    BY DEF Init, InTurn
  <2>3. Len(store) = 0 /\ 1..0 = {}
    BY <2>2, EmptySeq
  <2>4. RunInv /\ FreshInv /\ StoredOnce /\ WritesInv
    BY <2>2, <2>3 DEF RunInv, FreshInv, StoredOnce, WritesInv
  <2>5. SoundInv
    BY <2>2, EmptySound DEF SoundInv
  <2> QED
    BY <2>1, <2>4, <2>5 DEF Inv
<1>2. Inv /\ [Next]_vars => Inv'
  <2> SUFFICES ASSUME Inv, [Next]_vars PROVE Inv'
    OBVIOUS
  <2>1. TypeInv /\ HandlerInv /\ RunInv /\ FreshInv /\ StoredOnce /\ WritesInv /\ SoundInv
    BY DEF Inv
  <2>2. TypeInv' /\ HandlerInv'
    BY <2>1, TypeStep
  <2>3. RunInv' /\ FreshInv' /\ StoredOnce' /\ WritesInv' /\ SoundInv'
    BY <2>1, <2>2, RunStep, FreshStep, WritesStep, SoundStep
  <2> QED
    BY <2>2, <2>3 DEF Inv
<1> QED
  BY <1>1, <1>2, PTL DEF Spec

\* Handlers and the store are of their types, a handler has messages exactly while
\* it runs a turn, and results outstanding exactly while it answers calls.
THEOREM TypeCorrect == Spec => []TypeOK
<1>1. Inv => TypeOK
  BY DEF Inv, TypeInv, HandlerInv, RunInv, TypeOK
<1> QED
  BY <1>1, Invariance, PTL

\* save_turn never stores a message twice.
THEOREM NoDuplicates == Spec => []StoredOnce
<1>1. Inv => StoredOnce
  BY DEF Inv
<1> QED
  BY <1>1, Invariance, PTL

\* A write that was enqueued is on record in the conversation, or its turn still
\* runs, or could not be saved.
THEOREM WritesOnRecord == Spec => []WritesRemembered
<1>1. Inv => WritesRemembered
  BY DEF Inv, WritesInv, WritesRemembered, Stored, Held
<1> QED
  BY <1>1, Invariance, PTL

\* The model API refuses a context only if a turn in it was torn by an exception.
THEOREM RefusalsExplained == Spec => []RefusalsHaveCause
<1>1. Inv => RefusalsHaveCause
  <2> SUFFICES ASSUME Inv, NEW s \in Sockets, conn[s] = "calling",
                      \A i \in 1..Len(messages[s]) : messages[s][i].turn \notin torn
               PROVE  ApiAccepts(messages[s])
    BY DEF RefusalsHaveCause
  <2>1. TurnSound(s)
    BY DEF Inv, HandlerInv, SoundInv
  <2>2. /\ CallsAnswered(messages[s], torn) /\ ResultsOwned(messages[s])
        /\ messages[s][1].role # "tool"
    BY <2>1 DEF TurnSound
  <2>3. \A i \in 1..Len(messages[s]) : ~ Orphan(messages[s], i)
    BY <2>2 DEF Orphan
  <2> QED
    BY <2>2, <2>3 DEF ApiAccepts, CallsAnswered, ResultsOwned
<1> QED
  BY <1>1, Invariance, PTL

\* Every behaviour keeps what the handlers remember the end of what is stored.
LEMMA Remembering == Spec => [](PastInv /\ RecentInv)
<1>1. Init => PastInv /\ RecentInv
  <2> SUFFICES ASSUME Init PROVE PastInv /\ RecentInv
    OBVIOUS
  <2>1. /\ store = <<>> /\ unsaved = {} /\ \A s \in Sockets : missed[s] = {}
        /\ \A s \in Sockets : ~ InTurn(s) /\ memory[s] = <<>>
    BY DEF Init, InTurn
  <2>2. Len(<<>>) = 0 /\ 1..0 = {} /\ <<>> \in Seq(Message)
    BY EmptySeq
  <2>3. PastInv
    BY <2>1, <2>2 DEF PastInv
  <2>4. Without(<<>>, {}) = <<>>
    BY <2>2, WithoutType
  <2>5. Tails(<<>>, <<>>)
    <3>1. 1 \in 1..(Len(<<>>) + 1)
      BY <2>2
    <3> QED
      BY <2>2, <3>1, FromTails
  <2> QED
    BY <2>1, <2>3, <2>4, <2>5 DEF RecentInv, Recent
<1>2. Inv /\ Inv' /\ PastInv /\ RecentInv /\ [Next]_vars => PastInv' /\ RecentInv'
  BY PastStep, RecentStep DEF Inv
<1> QED
  BY <1>1, <1>2, Invariance, PTL DEF Spec

\* The model is shown the newest part of the stored conversation without a gap,
\* apart from turns that could not be saved and turns saved behind its back.
THEOREM ContextRecent == Spec => []ContextIsRecent
<1>1. Inv /\ PastInv /\ RecentInv => ContextIsRecent
  <2> SUFFICES ASSUME Inv, RecentInv, NEW s \in Sockets, InTurn(s)
               PROVE  IsSuffix(Without(Window(s), unsaved), Without(store, missed[s]))
    BY DEF ContextIsRecent, Window
  <2>1. Window(s) \in Seq(Message) /\ store \in Seq(Message)
    BY WindowProperties DEF Inv, TypeInv
  <2>2. /\ Without(Window(s), unsaved) \in Seq(Message)
        /\ Without(store, missed[s]) \in Seq(Message)
    BY <2>1, WithoutType
  <2>3. Tails(Without(Window(s), unsaved), Without(store, missed[s]))
    BY DEF RecentInv, Recent
  <2> QED
    BY <2>2, <2>3, TailsSuffix
<1> QED
  BY <1>1, Invariance, Remembering, PTL
=============================================================================
