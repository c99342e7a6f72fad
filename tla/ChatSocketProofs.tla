--------------------------- MODULE ChatSocketProofs ---------------------------
(***************************************************************************)
(* Proofs about ChatSocket, for any number of projects, sockets, drops and *)
(* moves.  The invariant says where the handlers of torn-down sockets may  *)
(* still be (on closed ones only), and which requests may be on their way  *)
(* to create a session.                                                    *)
(***************************************************************************)
EXTENDS ChatSocket, FiniteSetTheorems, TLAPS

-----------------------------------------------------------------------------
(* The invariant *)

\* The current socket is alive and heeded, and was made for the active project
\* by a page that is still there.
CurrentInv ==
    current # 0 => /\ current <= made
                   /\ Live(current) /\ attached[current]
                   /\ for[current] = project /\ visiting

\* Handlers are only left on the current socket and on closed ones.
HandlersInv == \A s \in Sockets : attached[s] => s = current \/ life[s] = "closed"

\* The last bubble waits for the current socket, once that was prompted.
BubbleInv ==
    /\ prompted \subseteq 1..made
    /\ current \in prompted => bubble = current

\* A request is on a socket that was made.
MadeInv == \A s \in Sockets : handler[s] # "none" => s <= made

ScreenInv ==
    TypeOK /\ OneLiveSocket /\ CurrentInv /\ HandlersInv /\ BubbleInv /\ ~strayed

\* In a project nobody raced for, no two sessions exist, no two are being
\* created, and one is only being created where there is none.
Creating(p, s) == handler[s] = "creating" /\ for[s] = p
SessionInv ==
    \A p \in Projects \ raced :
        /\ \A a, b \in sessions[p] : a = b
        /\ \A s, t \in Sockets : Creating(p, s) /\ Creating(p, t) => s = t
        /\ \A s \in Sockets : Creating(p, s) => sessions[p] = {}

Inv == ScreenInv /\ MadeInv /\ SessionInv

-----------------------------------------------------------------------------
(* The screen's half *)

\* The first page view: no socket, nothing written.
LEMMA ScreenInit == Init => ScreenInv
<1> SUFFICES ASSUME Init PROVE ScreenInv
  OBVIOUS
<1> USE SocketAssumption DEF Init, Sockets, Live
<1>1. TypeOK
  <2>1. /\ life \in [Sockets -> {"none", "connecting", "open", "closing", "closed"}]
        /\ attached \in [Sockets -> BOOLEAN]
        /\ session \in [Sockets -> 0..MaxSockets]
    OBVIOUS
  <2>2. /\ for \in [Sockets -> Projects]
        /\ handler \in [Sockets -> {"none", "accepted", "creating", "serving", "gone"}]
        /\ sessions \in [Projects -> SUBSET Sockets]
    OBVIOUS
  <2>3. /\ visiting \in BOOLEAN /\ connected \in BOOLEAN /\ retry \in BOOLEAN
        /\ strayed \in BOOLEAN /\ refused \in BOOLEAN
    OBVIOUS
  <2> QED
    BY <2>1, <2>2, <2>3 DEF TypeOK
<1>2. OneLiveSocket /\ CurrentInv /\ HandlersInv /\ BubbleInv
  BY DEF OneLiveSocket, CurrentInv, HandlersInv, BubbleInv
<1> QED
  BY <1>1, <1>2 DEF ScreenInv

\* connect() for a visible page: the new socket is current, the previous one is
\* closing and has lost its handlers.
LEMMA ConnectScreen ==
  ASSUME ScreenInv, NEW p \in Projects, Connect(p), project' = p, visiting',
         connected' = FALSE, visiting' \in BOOLEAN, moves' \in 0..MaxMoves,
         refused' \in BOOLEAN,
         UNCHANGED <<bubble, strayed, server, drops>>
  PROVE  ScreenInv'
<1> USE SocketAssumption DEF ScreenInv, server
<1>1. /\ made' = made + 1 /\ made' \in Sockets /\ current' = made'
      /\ made \in 0..MaxSockets /\ current \in 0..MaxSockets
  BY DEF Connect, TypeOK, Sockets
<1>2. /\ life' \in [Sockets -> {"none", "connecting", "open", "closing", "closed"}]
      /\ attached' \in [Sockets -> BOOLEAN] /\ for' \in [Sockets -> Projects]
  BY <1>1 DEF Connect, TypeOK, TornDown, Closing
<1>3. \A s \in Sockets :
        /\ s = made' => life'[s] = "connecting" /\ attached'[s] /\ for'[s] = project'
        /\ s # made' => /\ life'[s] = IF s = current /\ Live(s) THEN "closing" ELSE life[s]
                        /\ attached'[s] = (attached[s] /\ s # current)
                        /\ for'[s] = for[s]
  BY <1>1 DEF Connect, TypeOK, TornDown, Closing
<1>4. TypeOK'
  <2>1. \A s \in Sockets : s > made' <=> life'[s] = "none"
    <3> SUFFICES ASSUME NEW s \in Sockets PROVE s > made' <=> life'[s] = "none"
      OBVIOUS
    <3>1. s > made <=> life[s] = "none"
      BY DEF TypeOK
    <3>2. CASE s = made'
      BY <1>1, <1>3, <3>2 DEF Sockets
    <3>3. CASE s # made'
      <4>1. s > made' <=> s > made
        BY <1>1, <3>3 DEF Sockets
      <4>2. life'[s] = "none" <=> life[s] = "none"
        BY <1>3, <3>3 DEF Live
      <4> QED
        BY <3>1, <4>1, <4>2
    <3> QED
      BY <3>2, <3>3
  <2>2. /\ visiting' \in BOOLEAN /\ connected' \in BOOLEAN /\ retry' \in BOOLEAN
        /\ strayed' \in BOOLEAN
    BY DEF Connect, TypeOK
  <2>3. /\ current' \in 0..MaxSockets /\ ping' \in 0..MaxSockets /\ made' \in 0..MaxSockets
    BY <1>1 DEF Connect, TypeOK, Sockets
  <2>4. /\ handler' = handler /\ session' = session /\ sessions' = sessions
        /\ raced' = raced /\ prompted' = prompted /\ bubble' = bubble /\ drops' = drops
    OBVIOUS
  <2> QED
    BY <1>2, <2>1, <2>2, <2>3, <2>4 DEF TypeOK
<1>5. OneLiveSocket'
  <2>1. \A s \in Sockets : Live(s)' => s = current' /\ for'[s] = project'
    BY <1>1, <1>3 DEF OneLiveSocket, Live
  <2>2. life'[current'] = "connecting" /\ current' # 0
    BY <1>1, <1>3 DEF Sockets
  <2>3. connected' = FALSE /\ ping' = 0 /\ retry' = FALSE /\ visiting'
    BY DEF Connect
  <2> QED
    BY <2>1, <2>2, <2>3 DEF OneLiveSocket
<1>6. CurrentInv'
  BY <1>1, <1>3 DEF CurrentInv, Live, Sockets
<1>7. HandlersInv'
  BY <1>1, <1>3 DEF HandlersInv, Live
<1>8. BubbleInv'
  BY <1>1 DEF BubbleInv, Sockets
<1> QED
  BY <1>4, <1>5, <1>6, <1>7, <1>8

\* A page that hides away, or whose socket is closed for good by the hook.
LEMMA LeaveScreen ==
  ASSUME ScreenInv, Leave
  PROVE  ScreenInv'
<1> USE SocketAssumption DEF ScreenInv, server, screen, Leave, Cleanup
<1>1. /\ life' \in [Sockets -> {"none", "connecting", "open", "closing", "closed"}]
      /\ attached' \in [Sockets -> BOOLEAN]
  BY DEF TypeOK, TornDown, Closing
<1>2. \A s \in Sockets :
        /\ life'[s] = IF s = current /\ Live(s) THEN "closing" ELSE life[s]
        /\ attached'[s] = (attached[s] /\ s # current)
  BY DEF TypeOK, TornDown, Closing
<1>3. TypeOK'
  <2>1. \A s \in Sockets : s > made' <=> life'[s] = "none"
    BY <1>2 DEF TypeOK, Sockets, Live
  <2>2. /\ visiting' \in BOOLEAN /\ connected' \in BOOLEAN /\ retry' \in BOOLEAN
        /\ current' \in 0..MaxSockets /\ ping' \in 0..MaxSockets /\ moves' \in 0..MaxMoves
    <3>1. visiting' \in BOOLEAN /\ connected' \in BOOLEAN /\ retry' \in BOOLEAN
      OBVIOUS
    <3>2. current' \in 0..MaxSockets /\ ping' \in 0..MaxSockets /\ moves' \in 0..MaxMoves
      BY DEF TypeOK
    <3> QED
      BY <3>1, <3>2
  <2>3. /\ handler' = handler /\ session' = session /\ sessions' = sessions
        /\ raced' = raced /\ prompted' = prompted /\ bubble' = bubble /\ drops' = drops
        /\ project' = project /\ made' = made /\ for' = for /\ strayed' = strayed
        /\ refused' = refused
    OBVIOUS
  <2> QED
    BY <1>1, <2>1, <2>2, <2>3 DEF TypeOK
<1>4. OneLiveSocket'
  <2>1. \A s \in Sockets : ~ Live(s)'
    BY <1>2 DEF OneLiveSocket, Live
  <2> QED
    BY <2>1 DEF OneLiveSocket
<1>5. CurrentInv' /\ BubbleInv'
  BY DEF CurrentInv, BubbleInv, TypeOK, Sockets
<1>6. HandlersInv'
  BY <1>2 DEF HandlersInv, Live
<1> QED
  BY <1>3, <1>4, <1>5, <1>6

\* A socket that is alive or closing ends: if it was current the hook lets go
\* of it, and if it was not its handlers were off already.
LEMMA EndedScreen ==
  ASSUME ScreenInv, NEW s \in Sockets, NEW code, Ended(s, code),
         life[s] \in {"connecting", "open", "closing"},
         UNCHANGED <<session, sessions, raced, prompted, moves>>,
         handler' \in [Sockets -> {"none", "accepted", "creating", "serving", "gone"}],
         drops' \in 0..MaxDrops
  PROVE  ScreenInv'
<1> USE SocketAssumption DEF ScreenInv, Ended
<1>1. /\ life' \in [Sockets -> {"none", "connecting", "open", "closing", "closed"}]
      /\ \A t \in Sockets : life'[t] = IF t = s THEN "closed" ELSE life[t]
  BY DEF TypeOK
<1>2. /\ Heeded(s) <=> s = current
      /\ s # 0 /\ current \in 0..MaxSockets
  BY DEF Heeded, CurrentInv, TypeOK, Sockets
<1>3. /\ s = current => /\ current' = 0 /\ connected' = FALSE /\ ping' = 0
                        /\ retry' \in BOOLEAN /\ refused' \in BOOLEAN
      /\ s # current => UNCHANGED <<current, connected, ping, retry, refused>>
  BY <1>2 DEF OnClose
<1>4. TypeOK'
  <2>1. \A t \in Sockets : t > made' <=> life'[t] = "none"
    BY <1>1 DEF TypeOK, Sockets
  <2>2. /\ connected' \in BOOLEAN /\ retry' \in BOOLEAN /\ refused' \in BOOLEAN
        /\ current' \in 0..MaxSockets /\ ping' \in 0..MaxSockets
    <3>1. connected' \in BOOLEAN /\ retry' \in BOOLEAN /\ refused' \in BOOLEAN
      <4>1. connected \in BOOLEAN /\ retry \in BOOLEAN /\ refused \in BOOLEAN
        BY DEF TypeOK
      <4> QED
        BY <1>3, <4>1, Zenon
    <3>2. current' \in 0..MaxSockets /\ ping' \in 0..MaxSockets
      BY <1>3 DEF TypeOK
    <3> QED
      BY <3>1, <3>2
  <2>3. /\ visiting' = visiting /\ project' = project /\ made' = made /\ for' = for
        /\ attached' = attached /\ bubble' = bubble /\ strayed' = strayed
        /\ session' = session /\ sessions' = sessions
        /\ raced' = raced /\ prompted' = prompted /\ moves' = moves
    OBVIOUS
  <2> QED
    BY <1>1, <2>1, <2>2, <2>3 DEF TypeOK
<1>5. OneLiveSocket' /\ CurrentInv'
  <2>1. CASE s = current
    <3>1. visiting
      BY <1>2, <2>1 DEF CurrentInv
    <3>2. \A t \in Sockets : ~ Live(t)'
      BY <1>1, <2>1 DEF OneLiveSocket, Live
    <3> QED
      BY <1>3, <2>1, <3>1, <3>2 DEF OneLiveSocket, CurrentInv
  <2>2. CASE s # current
    <3>1. \A t \in Sockets : Live(t)' => Live(t)
      BY <1>1 DEF Live
    <3>2. current # 0 => life'[current] = life[current]
      BY <1>1, <2>2 DEF TypeOK, Sockets
    <3>3. OneLiveSocket'
      BY <1>3, <2>2, <3>1, <3>2 DEF OneLiveSocket
    <3> QED
      BY <1>3, <2>2, <3>2, <3>3 DEF CurrentInv, Live
  <2> QED
    BY <2>1, <2>2
<1>6. HandlersInv' /\ BubbleInv'
  BY <1>1, <1>2, <1>3 DEF HandlersInv, BubbleInv, TypeOK, Sockets
<1> QED
  BY <1>4, <1>5, <1>6

\* A step that leaves the hook, the sockets' lives and the screen alone.
LEMMA ServerOnlyScreen ==
  ASSUME ScreenInv, UNCHANGED <<hook, sockets, screen, prompted, drops, moves>>,
         handler' \in [Sockets -> {"none", "accepted", "creating", "serving", "gone"}],
         session' \in [Sockets -> 0..MaxSockets],
         sessions' \in [Projects -> SUBSET Sockets], raced' \in SUBSET Projects
  PROVE  ScreenInv'
<1> USE DEF hook, sockets, screen
<1>1. TypeOK'
  BY DEF ScreenInv, TypeOK
<1>2. OneLiveSocket' /\ CurrentInv' /\ HandlersInv' /\ BubbleInv'
  BY DEF ScreenInv, OneLiveSocket, CurrentInv, HandlersInv, BubbleInv, Live
<1> QED
  BY <1>1, <1>2 DEF ScreenInv

\* onopen: only the current socket can be connecting, so the hook hears of it.
LEMMA OpensScreen ==
  ASSUME ScreenInv, NEW s \in Sockets, Opens(s)
  PROVE  ScreenInv'
<1> USE SocketAssumption DEF ScreenInv, Opens, screen
<1>1. s = current /\ Heeded(s) /\ s # 0
  BY DEF OneLiveSocket, CurrentInv, Heeded, Live, Sockets
<1>2. connected' = TRUE /\ ping' = s
  BY <1>1
<1>3. /\ life' \in [Sockets -> {"none", "connecting", "open", "closing", "closed"}]
      /\ \A t \in Sockets : life'[t] = IF t = s THEN "open" ELSE life[t]
  BY DEF TypeOK
<1>4. TypeOK'
  <2>1. \A t \in Sockets : t > made' <=> life'[t] = "none"
    BY <1>3 DEF TypeOK, Sockets
  <2>2. ping' \in 0..MaxSockets
    BY <1>2 DEF Sockets
  <2>3. handler' \in [Sockets -> {"none", "accepted", "creating", "serving", "gone"}]
    BY DEF TypeOK
  <2>4. /\ visiting' = visiting /\ project' = project /\ current' = current
        /\ retry' = retry /\ made' = made /\ attached' = attached /\ for' = for
        /\ bubble' = bubble /\ strayed' = strayed /\ refused' = refused
        /\ session' = session /\ sessions' = sessions /\ raced' = raced
        /\ prompted' = prompted /\ drops' = drops /\ moves' = moves
    OBVIOUS
  <2> QED
    BY <1>2, <1>3, <2>1, <2>2, <2>3, <2>4 DEF TypeOK
<1>5. OneLiveSocket'
  <2>1. \A t \in Sockets : Live(t)' => Live(t)
    BY <1>3 DEF Live
  <2>2. current' # 0 /\ life'[current'] = "open" /\ visiting
    BY <1>1, <1>3 DEF CurrentInv
  <2> QED
    BY <1>1, <1>2, <2>1, <2>2 DEF OneLiveSocket
<1>6. CurrentInv' /\ HandlersInv' /\ BubbleInv'
  BY <1>1, <1>3 DEF CurrentInv, HandlersInv, BubbleInv, Live
<1> QED
  BY <1>4, <1>5, <1>6

\* Every step keeps the hook's bookkeeping true and answers apart.
LEMMA ScreenStep ==
  ASSUME ScreenInv, [Next]_vars
  PROVE  ScreenInv'
<1> USE SocketAssumption
<1>1. CASE Visit
  <2>1. connected' = FALSE /\ project' = project /\ project \in Projects /\ moves' = moves
    <3>1. ~ connected /\ connected \in BOOLEAN /\ project \in Projects
      BY <1>1 DEF Visit, ScreenInv, OneLiveSocket, TypeOK
    <3>2. connected' = connected /\ project' = project /\ moves' = moves
      BY <1>1 DEF Visit
    <3> QED
      BY <3>1, <3>2
  <2>2. moves' \in 0..MaxMoves /\ visiting' /\ refused' \in BOOLEAN /\ visiting' \in BOOLEAN
    BY <1>1, <2>1 DEF Visit, ScreenInv, TypeOK
  <2> QED
    BY <1>1, <2>1, <2>2, ConnectScreen DEF Visit
<1>2. CASE Leave
  BY <1>2, LeaveScreen
<1>3. CASE RetryFires
  <2>1. /\ connected' = FALSE /\ project' = project /\ project \in Projects /\ moves' = moves
        /\ visiting' = visiting /\ refused' = refused
    BY <1>3 DEF RetryFires, ScreenInv, OneLiveSocket, TypeOK, screen
  <2>2. moves' \in 0..MaxMoves /\ visiting' /\ refused' \in BOOLEAN /\ visiting' \in BOOLEAN
    BY <1>3, <2>1 DEF RetryFires, ScreenInv, OneLiveSocket, TypeOK
  <2> QED
    BY <1>3, <2>1, <2>2, ConnectScreen DEF RetryFires, screen
<1>4. CASE SendPrompt
  <2>1. current \in Sockets /\ current <= made
    BY <1>4 DEF SendPrompt, ScreenInv, TypeOK, CurrentInv, Sockets
  <2>2. TypeOK'
    BY <1>4, <2>1 DEF SendPrompt, ScreenInv, TypeOK, hook, sockets, Sockets
  <2>3. OneLiveSocket' /\ CurrentInv' /\ HandlersInv'
    BY <1>4 DEF SendPrompt, ScreenInv, OneLiveSocket, CurrentInv, HandlersInv, Live, hook, sockets
  <2>4. BubbleInv'
    BY <1>4, <2>1 DEF SendPrompt, ScreenInv, BubbleInv, hook, sockets, Sockets, TypeOK
  <2> QED
    BY <1>4, <2>2, <2>3, <2>4 DEF SendPrompt, ScreenInv
<1>5. ASSUME NEW p \in Projects, SwitchProject(p) PROVE ScreenInv'
  <2>1. moves' \in 0..MaxMoves
    BY <1>5 DEF SwitchProject, ScreenInv, TypeOK
  <2>2. /\ visiting' /\ visiting' \in BOOLEAN /\ connected' = FALSE /\ refused' \in BOOLEAN
    <3>1. visiting /\ visiting' = visiting /\ visiting \in BOOLEAN
      BY <1>5 DEF SwitchProject, ScreenInv, TypeOK
    <3>2. connected' = FALSE /\ refused' = FALSE
      BY <1>5 DEF SwitchProject
    <3> QED
      BY <3>1, <3>2
  <2> QED
    BY <1>5, <2>1, <2>2, ConnectScreen DEF SwitchProject
<1>6. ASSUME NEW s \in Sockets, SocketStep(s) PROVE ScreenInv'
  <2>1. CASE Opens(s)
    BY <2>1, OpensScreen
  <2>2. CASE Drops(s)
    <3>1. PICK code \in {"1000", "1006"} : Ended(s, code)
      BY <2>2 DEF Drops
    <3>2. /\ life[s] \in {"connecting", "open", "closing"} /\ drops' \in 0..MaxDrops
          /\ handler' \in [Sockets -> {"none", "accepted", "creating", "serving", "gone"}]
      BY <2>2 DEF Drops, Live, ScreenInv, TypeOK, server
    <3> QED
      BY <2>2, <3>1, <3>2, EndedScreen DEF Drops, server
  <2>3. CASE CloseEvent(s)
    <3>1. PICK code \in {"1000", "1006"} : Ended(s, code)
      BY <2>3 DEF CloseEvent
    <3>2. /\ life[s] \in {"connecting", "open", "closing"} /\ drops' \in 0..MaxDrops
          /\ handler' \in [Sockets -> {"none", "accepted", "creating", "serving", "gone"}]
      BY <2>3 DEF CloseEvent, ScreenInv, TypeOK, server
    <3> QED
      BY <2>3, <3>1, <3>2, EndedScreen DEF CloseEvent, server
  <2>4. CASE FrameArrives(s)
    <3>1. attached[s] => bubble = s
      BY <2>4 DEF FrameArrives, ScreenInv, HandlersInv, BubbleInv
    <3>2. ~ strayed'
      BY <2>4, <3>1 DEF FrameArrives, ScreenInv
    <3>3. TypeOK'
      BY <2>4, <3>2 DEF FrameArrives, ScreenInv, TypeOK, hook, sockets, server
    <3>4. OneLiveSocket' /\ CurrentInv' /\ HandlersInv' /\ BubbleInv'
      BY <2>4 DEF FrameArrives, ScreenInv, OneLiveSocket, CurrentInv, HandlersInv, BubbleInv,
                  Live, hook, sockets, server
    <3> QED
      BY <3>2, <3>3, <3>4 DEF ScreenInv
  <2> QED
    BY <1>6, <2>1, <2>2, <2>3, <2>4 DEF SocketStep
<1>7. ASSUME NEW s \in Sockets, ServerStep(s) PROVE ScreenInv'
  <2>1. CASE Reject(s)
    <3>1. /\ drops' \in 0..MaxDrops /\ life[s] \in {"connecting", "open", "closing"}
          /\ handler' \in [Sockets -> {"none", "accepted", "creating", "serving", "gone"}]
      BY <2>1 DEF Reject, ScreenInv, TypeOK
    <3> QED
      BY <2>1, <3>1, EndedScreen DEF Reject
  <2>2. CASE FindSession(s)
    <3>1. PICK k \in sessions[for[s]] : session' = [session EXCEPT ![s] = k]
      BY <2>2 DEF FindSession
    <3>2. k \in Sockets
      BY <3>1 DEF ScreenInv, TypeOK
    <3>3. session' \in [Sockets -> 0..MaxSockets]
      BY <3>1, <3>2 DEF ScreenInv, TypeOK, Sockets
    <3>4. handler' \in [Sockets -> {"none", "accepted", "creating", "serving", "gone"}]
      BY <2>2 DEF FindSession, ScreenInv, TypeOK
    <3>5. sessions' \in [Projects -> SUBSET Sockets] /\ raced' \in SUBSET Projects
      BY <2>2 DEF FindSession, ScreenInv, TypeOK
    <3> QED
      BY <2>2, <3>3, <3>4, <3>5, ServerOnlyScreen DEF FindSession
  <2>3. CASE FindNoSession(s)
    <3>1. handler' \in [Sockets -> {"none", "accepted", "creating", "serving", "gone"}]
      BY <2>3 DEF FindNoSession, ScreenInv, TypeOK
    <3>2. raced' \in SUBSET Projects
      BY <2>3 DEF FindNoSession, ScreenInv, TypeOK
    <3>3. session' \in [Sockets -> 0..MaxSockets] /\ sessions' \in [Projects -> SUBSET Sockets]
      BY <2>3 DEF FindNoSession, ScreenInv, TypeOK
    <3> QED
      BY <2>3, <3>1, <3>2, <3>3, ServerOnlyScreen DEF FindNoSession
  <2>4. CASE CreateSession(s)
    <3>1. handler' \in [Sockets -> {"none", "accepted", "creating", "serving", "gone"}]
      BY <2>4 DEF CreateSession, ScreenInv, TypeOK
    <3>2. session' \in [Sockets -> 0..MaxSockets]
      BY <2>4 DEF CreateSession, ScreenInv, TypeOK, Sockets
    <3>3. sessions' \in [Projects -> SUBSET Sockets] /\ raced' \in SUBSET Projects
      BY <2>4 DEF CreateSession, ScreenInv, TypeOK
    <3> QED
      BY <2>4, <3>1, <3>2, <3>3, ServerOnlyScreen DEF CreateSession
  <2>5. CASE HandlerEnds(s)
    <3>1. handler' \in [Sockets -> {"none", "accepted", "creating", "serving", "gone"}]
      BY <2>5 DEF HandlerEnds, ScreenInv, TypeOK
    <3>2. /\ session' \in [Sockets -> 0..MaxSockets] /\ sessions' \in [Projects -> SUBSET Sockets]
          /\ raced' \in SUBSET Projects
      BY <2>5 DEF HandlerEnds, ScreenInv, TypeOK
    <3> QED
      BY <2>5, <3>1, <3>2, ServerOnlyScreen DEF HandlerEnds
  <2> QED
    BY <1>7, <2>1, <2>2, <2>3, <2>4, <2>5 DEF ServerStep
<1>8. CASE UNCHANGED vars
  <2>1. UNCHANGED <<hook, sockets, screen, prompted, drops, moves, handler, session, sessions, raced>>
    BY <1>8 DEF vars, server
  <2> QED
    BY <2>1, ServerOnlyScreen DEF ScreenInv, TypeOK
<1> QED
  BY <1>1, <1>2, <1>3, <1>4, <1>5, <1>6, <1>7, <1>8 DEF Next

-----------------------------------------------------------------------------
(* The server's half *)

\* No step starts a request on a socket that was not made.
LEMMA MadeStep ==
  ASSUME ScreenInv, MadeInv, [Next]_vars
  PROVE  MadeInv'
<1> SUFFICES ASSUME NEW s \in Sockets, handler'[s] # "none" PROVE s <= made'
  BY DEF MadeInv
<1> USE SocketAssumption
<1>1. made' >= made /\ made \in Nat /\ s \in Nat
  BY DEF ScreenInv, TypeOK, Sockets, Next, vars, Visit, Leave, RetryFires, SendPrompt, SwitchProject,
         Connect, SocketStep, ServerStep, Opens, Drops, CloseEvent, FrameArrives, Reject,
         FindSession, FindNoSession, CreateSession, HandlerEnds, Ended, hook, sockets
<1>2. handler[s] # "none" \/ life[s] = "connecting"
  BY DEF ScreenInv, TypeOK, Next, vars, Visit, Leave, RetryFires, SendPrompt, SwitchProject,
         SocketStep, ServerStep, Opens, Drops, CloseEvent, FrameArrives, Reject,
         FindSession, FindNoSession, CreateSession, HandlerEnds, server
<1>3. s <= made
  BY <1>1, <1>2 DEF MadeInv, ScreenInv, TypeOK
<1>4. made' \in Nat
  BY ScreenStep DEF ScreenInv, TypeOK
<1> QED
  BY <1>1, <1>3, <1>4

\* A step that starts no creation and commits no session.
LEMMA SessionsKept ==
  ASSUME SessionInv, sessions' = sessions, raced' = raced,
         \A p \in Projects, s \in Sockets : Creating(p, s)' => Creating(p, s)
  PROVE  SessionInv'
BY DEF SessionInv

\* A new socket has no request yet, so connecting creates no session.
LEMMA ConnectSession ==
  ASSUME ScreenInv, MadeInv, SessionInv, NEW q \in Projects, Connect(q), UNCHANGED server
  PROVE  SessionInv'
<1>1. \A s \in Sockets : handler[s] # "none" => for'[s] = for[s]
  BY SocketAssumption DEF MadeInv, Connect, ScreenInv, TypeOK, Sockets
<1>2. \A p \in Projects, s \in Sockets : Creating(p, s)' => Creating(p, s)
  BY <1>1 DEF Creating, server
<1> QED
  BY <1>2, SessionsKept DEF server

\* A request starts to create where there is no session; where another one does
\* already, the project counts as raced for.
LEMMA FindNoSessionSession ==
  ASSUME ScreenInv, SessionInv, NEW s \in Sockets, FindNoSession(s)
  PROVE  SessionInv'
<1> SUFFICES ASSUME NEW p \in Projects, p \notin raced'
             PROVE  /\ \A a, b \in sessions'[p] : a = b
                    /\ \A t, u \in Sockets : Creating(p, t)' /\ Creating(p, u)' => t = u
                    /\ \A t \in Sockets : Creating(p, t)' => sessions'[p] = {}
  BY DEF SessionInv
<1>1. /\ sessions' = sessions /\ for' = for /\ p \notin raced
      /\ for[s] = p => ~ \E t \in Sockets : Creating(p, t)
      /\ sessions[for[s]] = {}
  BY DEF FindNoSession, sockets, Creating
<1>2. \A t \in Sockets : Creating(p, t)' => Creating(p, t) \/ (t = s /\ for[s] = p)
  BY <1>1 DEF FindNoSession, Creating, ScreenInv, TypeOK
<1>3. \A a, b \in sessions[p] : a = b
  BY <1>1 DEF SessionInv
<1>4. \A t, u \in Sockets : Creating(p, t)' /\ Creating(p, u)' => t = u
  BY <1>1, <1>2 DEF SessionInv
<1>5. \A t \in Sockets : Creating(p, t)' => sessions[p] = {}
  BY <1>1, <1>2 DEF SessionInv
<1> QED
  BY <1>1, <1>3, <1>4, <1>5

\* The one request that creates commits the first session.
LEMMA CreateSessionSession ==
  ASSUME ScreenInv, SessionInv, NEW s \in Sockets, CreateSession(s)
  PROVE  SessionInv'
<1> SUFFICES ASSUME NEW p \in Projects, p \notin raced'
             PROVE  /\ \A a, b \in sessions'[p] : a = b
                    /\ \A t, u \in Sockets : Creating(p, t)' /\ Creating(p, u)' => t = u
                    /\ \A t \in Sockets : Creating(p, t)' => sessions'[p] = {}
  BY DEF SessionInv
<1>1. /\ for' = for /\ p \notin raced
      /\ sessions'[p] = IF for[s] = p THEN sessions[p] \cup {s} ELSE sessions[p]
  BY DEF CreateSession, sockets, ScreenInv, TypeOK
<1>2. \A t \in Sockets : Creating(p, t)' => Creating(p, t) /\ t # s
  BY <1>1 DEF CreateSession, Creating, ScreenInv, TypeOK
<1>3. for[s] = p => Creating(p, s) /\ sessions[p] = {}
  BY <1>1 DEF CreateSession, Creating, SessionInv
<1>4. \A t \in Sockets : Creating(p, t)' => for[s] # p
  BY <1>1, <1>2, <1>3 DEF SessionInv
<1> QED
  BY <1>1, <1>2, <1>3, <1>4 DEF SessionInv

\* Every step keeps the sessions of unraced projects single.
LEMMA SessionStep ==
  ASSUME ScreenInv, MadeInv, SessionInv, [Next]_vars
  PROVE  SessionInv'
<1>1. ASSUME Visit \/ RetryFires \/ (\E p \in Projects : SwitchProject(p)) PROVE SessionInv'
  <2>1. UNCHANGED server /\ project \in Projects
    BY <1>1 DEF Visit, RetryFires, SwitchProject, ScreenInv, TypeOK
  <2>2. \E p \in Projects : Connect(p)
    BY <1>1, <2>1 DEF Visit, RetryFires, SwitchProject
  <2> QED
    BY <2>1, <2>2, ConnectSession
<1>2. ASSUME NEW s \in Sockets, FindNoSession(s) PROVE SessionInv'
  BY <1>2, FindNoSessionSession
<1>3. ASSUME NEW s \in Sockets, CreateSession(s) PROVE SessionInv'
  BY <1>3, CreateSessionSession
<1>4. ASSUME Leave \/ SendPrompt \/ UNCHANGED vars PROVE SessionInv'
  <2>1. UNCHANGED <<handler, sessions, raced, for>>
    BY <1>4 DEF Leave, SendPrompt, vars, server, sockets
  <2> QED
    BY <2>1, SessionsKept DEF Creating
<1>5. ASSUME NEW s \in Sockets, SocketStep(s) PROVE SessionInv'
  <2>1. UNCHANGED <<sessions, raced, for>>
    BY <1>5 DEF SocketStep, Opens, Drops, CloseEvent, FrameArrives, Ended, server, sockets
  <2>2. \A t \in Sockets : handler'[t] = "creating" => handler[t] = "creating"
    BY <1>5 DEF SocketStep, Opens, Drops, CloseEvent, FrameArrives, server, ScreenInv, TypeOK
  <2> QED
    BY <2>1, <2>2, SessionsKept DEF Creating
<1>6. ASSUME NEW s \in Sockets, Reject(s) \/ FindSession(s) \/ HandlerEnds(s) PROVE SessionInv'
  <2>1. UNCHANGED <<sessions, raced, for>>
    BY <1>6 DEF Reject, FindSession, HandlerEnds, Ended, sockets
  <2>2. \A t \in Sockets : handler'[t] = "creating" => handler[t] = "creating"
    BY <1>6 DEF Reject, FindSession, HandlerEnds, ScreenInv, TypeOK
  <2> QED
    BY <2>1, <2>2, SessionsKept DEF Creating
<1> QED
  BY <1>1, <1>2, <1>3, <1>4, <1>5, <1>6 DEF Next, ServerStep

-----------------------------------------------------------------------------
(* The theorems *)

\* Inv holds of every state the page and its server reach.
LEMMA Invariance == Spec => []Inv
<1>1. Init => Inv
  <2>1. Init => MadeInv
    BY DEF Init, MadeInv
  <2>2. Init => SessionInv
    BY DEF Init, SessionInv, Creating
  <2> QED
    BY <2>1, <2>2, ScreenInit DEF Inv
<1>2. Inv /\ [Next]_vars => Inv'
  BY ScreenStep, MadeStep, SessionStep DEF Inv
<1> QED
  BY <1>1, <1>2, PTL DEF Spec

\* The connection's state is well typed: useWebSocket.ts never confuses a socket
\* that was made with one that was not.
THEOREM TypeCorrect == Spec => []TypeOK
<1>1. Inv => TypeOK
  BY DEF Inv, ScreenInv
<1> QED
  BY <1>1, Invariance, PTL

\* However often projects are switched, the page is left and the network drops
\* sockets, the hook owns at most one live socket, and knows its state.
THEOREM SingleSocket == Spec => []OneLiveSocket
<1>1. Inv => OneLiveSocket
  BY DEF Inv, ScreenInv
<1> QED
  BY <1>1, Invariance, PTL

\* No frame is ever written into the bubble of a prompt of another connection:
\* teardownSocket takes the handlers off before a new prompt can be sent.
THEOREM AnswersApart == Spec => []AnswersKeepToTheirSocket
<1>1. Inv => AnswersKeepToTheirSocket
  BY DEF Inv, ScreenInv, AnswersKeepToTheirSocket
<1> QED
  BY <1>1, Invariance, PTL

\* The endpoint's look-up-then-insert gives a user a second session in a project
\* only when two requests were between the two at once.
THEOREM SingleSession == Spec => []OneSessionUnlessRaced
<1>1. Inv => OneSessionUnlessRaced
  <2> SUFFICES ASSUME Inv, NEW p \in Projects \ raced PROVE Cardinality(sessions[p]) <= 1
    BY DEF OneSessionUnlessRaced
  <2>1. \A a, b \in sessions[p] : a = b
    BY DEF Inv, SessionInv
  <2>2. CASE sessions[p] = {}
    BY <2>2, FS_EmptySet
  <2>3. CASE sessions[p] # {}
    <3>1. PICK a : sessions[p] = {a}
      BY <2>1, <2>3
    <3> QED
      BY <3>1, FS_Singleton
  <2> QED
    BY <2>2, <2>3
<1> QED
  BY <1>1, Invariance, PTL
=============================================================================
