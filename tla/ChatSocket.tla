----------------------------- MODULE ChatSocket -----------------------------
(***************************************************************************)
(* The chat page's connection: useWebSocket.ts with its one current socket,*)
(* reconnect timer and heartbeat, while projects are switched, the page is *)
(* left and entered again and the network drops sockets, and the beginning *)
(* of websocket_chat_endpoint, which finds or creates the user's session.  *)
(* What a turn does once it has a session is AgentTurn; here a turn only   *)
(* writes into the last bubble on screen.                                  *)
(*                                                                         *)
(* Sockets are numbered in the order they are created; 0 is no socket.     *)
(***************************************************************************)
EXTENDS Naturals, FiniteSets

CONSTANTS
    Projects,
    MaxSockets,  \* bound on the sockets ever created
    MaxDrops,    \* bound on sockets the network or the server ends
    MaxMoves     \* bound on project switches and visits to the page

ASSUME SocketAssumption ==
    MaxSockets \in Nat /\ MaxDrops \in Nat /\ MaxMoves \in Nat

VARIABLES
    \* the hook
    visiting,   \* the page is mounted
    project,    \* the active project
    current,    \* wsRef
    connected,  \* isConnected, and `ws' being set
    retry,      \* reconnectTimeoutRef is set
    ping,       \* the socket of the heartbeat in pingIntervalRef, or 0
    \* the browser's sockets
    made,       \* how many were created
    life,       \* readyState of each
    attached,   \* its handlers are in place
    for,        \* the project in its url
    bubble,     \* the socket the last assistant bubble waits for
    strayed,    \* a frame was written into the bubble of another socket
    refused,    \* the last socket to close under the hook said not to retry
    \* the server
    handler,    \* where each socket's websocket_chat_endpoint is
    session,    \* the session it works in, named by the socket that made it
    sessions,   \* the committed sessions of each project
    raced,      \* projects whose session was looked up by two first sockets
    prompted,   \* sockets that were sent a prompt
    drops, moves

hook    == <<visiting, project, current, connected, retry, ping>>
sockets == <<made, life, attached, for>>
screen  == <<bubble, strayed, refused>>
server  == <<handler, session, sessions, raced, prompted>>
vars    == <<hook, sockets, screen, server, drops, moves>>

Sockets == 1..MaxSockets
Codes   == {"1000", "1008", "1006"}

Init ==
    /\ visiting = FALSE /\ project \in Projects
    /\ current = 0 /\ connected = FALSE /\ retry = FALSE /\ ping = 0
    /\ made = 0
    /\ life = [s \in Sockets |-> "none"]
    /\ attached = [s \in Sockets |-> FALSE]
    /\ for = [s \in Sockets |-> project]
    /\ bubble = 0 /\ strayed = FALSE /\ refused = FALSE
    /\ handler = [s \in Sockets |-> "none"]
    /\ session = [s \in Sockets |-> 0]
    /\ sessions = [p \in Projects |-> {}]
    /\ raced = {} /\ prompted = {}
    /\ drops = 0 /\ moves = 0

-----------------------------------------------------------------------------
(* useWebSocket *)

Live(s) == life[s] \in {"connecting", "open"}

\* Mutant: the socket is closed, its handlers stay.
TornDownLoosely == attached

\* teardownSocket(wsRef.current): handlers off, then close(1000).
TornDown == [s \in Sockets |-> attached[s] /\ s # current]
Closing  == [s \in Sockets |->
                IF s = current /\ Live(s) THEN "closing" ELSE life[s]]

\* connect(): no timer survives it, the previous socket is torn down, and the
\* new one is current before any of its events.
Connect(p) ==
    /\ made < MaxSockets
    /\ made' = made + 1
    /\ retry' = FALSE /\ ping' = 0
    /\ attached' = [TornDown EXCEPT ![made + 1] = TRUE]
    /\ life' = [Closing EXCEPT ![made + 1] = "connecting"]
    /\ for' = [for EXCEPT ![made + 1] = p]
    /\ current' = made + 1

\* Mutant: the cleanup closes the socket and forgets the timer.
CleanupKeepsRetry ==
    /\ retry' = retry /\ ping' = 0
    /\ attached' = TornDown /\ life' = Closing
    /\ current' = 0 /\ connected' = FALSE

\* The effect's cleanup.
Cleanup ==
    /\ retry' = FALSE /\ ping' = 0
    /\ attached' = TornDown /\ life' = Closing
    /\ current' = 0 /\ connected' = FALSE

\* The page is entered: the effect runs.
Visit ==
    /\ ~visiting /\ visiting' = TRUE
    /\ Connect(project)
    /\ refused' = FALSE
    /\ UNCHANGED <<project, connected, bubble, strayed, server, drops, moves>>

Leave ==
    /\ visiting /\ visiting' = FALSE
    /\ moves < MaxMoves /\ moves' = moves + 1
    /\ Cleanup
    /\ UNCHANGED <<project, made, for, screen, server, drops>>

\* Another project (or token): connect is new, so the effect is cleaned up and
\* run again.
SwitchProject(p) ==
    /\ visiting /\ p # project
    /\ moves < MaxMoves /\ moves' = moves + 1
    /\ project' = p
    /\ Connect(p) /\ connected' = FALSE
    /\ refused' = FALSE
    /\ UNCHANGED <<visiting, bubble, strayed, server, drops>>

\* Three seconds after a drop.
RetryFires ==
    /\ retry
    /\ Connect(project)
    /\ UNCHANGED <<visiting, project, connected, screen, server, drops, moves>>

\* An event of s finds its handler, and the handler's wsRef guard lets it on.
Heeded(s) == attached[s] /\ current = s

\* onopen, once the server has accepted.
Opens(s) ==
    /\ life[s] = "connecting"
    /\ life' = [life EXCEPT ![s] = "open"]
    /\ handler' = [handler EXCEPT ![s] = "accepted"]
    /\ IF Heeded(s) THEN connected' = TRUE /\ ping' = s
                    ELSE UNCHANGED <<connected, ping>>
    /\ UNCHANGED <<visiting, project, current, retry, made, attached, for,
                   screen, session, sessions, raced,
                   prompted, drops, moves>>

\* Mutant: only a connection that had been open is tried again.
OnCloseWhenOpen(s, code) ==
    IF Heeded(s)
    THEN /\ current' = 0 /\ connected' = FALSE /\ ping' = 0
         /\ retry' = (connected /\ code = "1006")
         /\ refused' = (code # "1006")
    ELSE UNCHANGED <<current, connected, ping, retry, refused>>

\* onclose: 1000 and 1008 are not tried again.
OnClose(s, code) ==
    IF Heeded(s)
    THEN /\ current' = 0 /\ connected' = FALSE /\ ping' = 0
         /\ retry' = (code = "1006")
         /\ refused' = (code # "1006")
    ELSE UNCHANGED <<current, connected, ping, retry, refused>>

Ended(s, code) ==
    /\ life' = [life EXCEPT ![s] = "closed"]
    /\ OnClose(s, code)
    /\ UNCHANGED <<visiting, project, made, attached, for, bubble, strayed>>

\* The network fails, a proxy ends the connection, or the server's process or
\* handler does.
Drops(s) ==
    /\ Live(s) /\ drops < MaxDrops /\ drops' = drops + 1
    /\ \E code \in {"1000", "1006"} : Ended(s, code)
    /\ UNCHANGED <<server, moves>>

\* The close event of a socket the hook has closed; 1006 if the network took
\* the answer.
CloseEvent(s) ==
    /\ life[s] = "closing"
    /\ \E code \in {"1000", "1006"} : Ended(s, code)
    /\ UNCHANGED <<server, drops, moves>>

\* sendMessage: two messages on screen, the second waiting for this socket.
SendPrompt ==
    /\ connected /\ current # 0 /\ life[current] = "open"
    /\ bubble' = current
    /\ prompted' = prompted \cup {current}
    /\ UNCHANGED <<hook, sockets, strayed, refused, handler, session, sessions,
                   raced, drops, moves>>

\* onmessage of an "assistant", "tool_start" or "tool_result" frame writes into
\* the last assistant bubble; frames of a closing socket still come in.
FrameArrives(s) ==
    /\ s \in prompted /\ handler[s] = "serving"
    /\ life[s] \in {"open", "closing"}
    /\ strayed' = (strayed \/ (attached[s] /\ bubble # s))
    /\ UNCHANGED <<hook, sockets, bubble, refused, server, drops, moves>>

-----------------------------------------------------------------------------
(* websocket_chat_endpoint *)

Gone(s) == life[s] \in {"closing", "closed"}

\* authenticate_ws_user or the project fails: an error frame and close(1008).
Reject(s) ==
    /\ handler[s] = "accepted" /\ life[s] = "open"
    /\ drops < MaxDrops /\ drops' = drops + 1
    /\ handler' = [handler EXCEPT ![s] = "gone"]
    /\ Ended(s, "1008")
    /\ UNCHANGED <<session, sessions, raced, prompted, moves>>

\* scalar() takes any one of the rows.
FindSession(s) ==
    /\ handler[s] = "accepted"
    /\ \E k \in sessions[for[s]] : session' = [session EXCEPT ![s] = k]
    /\ handler' = [handler EXCEPT ![s] = "serving"]
    /\ UNCHANGED <<hook, sockets, screen, sessions, raced,
                   prompted, drops, moves>>

\* Mutant: the row found is not used.
FindNoSessionEver(s) ==
    /\ handler[s] = "accepted"
    /\ handler' = [handler EXCEPT ![s] = "creating"]
    /\ raced' = IF \E t \in Sockets : handler[t] = "creating" /\ for[t] = for[s]
                THEN raced \cup {for[s]} ELSE raced
    /\ UNCHANGED <<hook, sockets, screen, session, sessions, prompted,
                   drops, moves>>

FindNoSession(s) ==
    /\ handler[s] = "accepted" /\ sessions[for[s]] = {}
    /\ handler' = [handler EXCEPT ![s] = "creating"]
    /\ raced' = IF \E t \in Sockets : handler[t] = "creating" /\ for[t] = for[s]
                THEN raced \cup {for[s]} ELSE raced
    /\ UNCHANGED <<hook, sockets, screen, session, sessions, prompted,
                   drops, moves>>

CreateSession(s) ==
    /\ handler[s] = "creating"
    /\ sessions' = [sessions EXCEPT ![for[s]] = @ \cup {s}]
    /\ session' = [session EXCEPT ![s] = s]
    /\ handler' = [handler EXCEPT ![s] = "serving"]
    /\ UNCHANGED <<hook, sockets, screen, raced, prompted,
                   drops, moves>>

\* receive_text or a send finds the socket closed.
HandlerEnds(s) ==
    /\ handler[s] = "serving" /\ Gone(s)
    /\ handler' = [handler EXCEPT ![s] = "gone"]
    /\ UNCHANGED <<hook, sockets, screen, session, sessions, raced, prompted,
                   drops, moves>>

SocketStep(s) ==
    Opens(s) \/ Drops(s) \/ CloseEvent(s) \/ FrameArrives(s)
ServerStep(s) ==
    \/ Reject(s) \/ FindSession(s) \/ FindNoSession(s) \/ CreateSession(s)
    \/ HandlerEnds(s)

Next ==
    \/ Visit \/ Leave \/ RetryFires \/ SendPrompt
    \/ \E p \in Projects : SwitchProject(p)
    \/ \E s \in Sockets : SocketStep(s) \/ ServerStep(s)

Spec == Init /\ [][Next]_vars

\* The timer fires and a connection attempt ends one way or the other.
FairSpec ==
    /\ Spec
    /\ WF_vars(RetryFires)
    /\ \A s \in Sockets : WF_vars(Opens(s))

-----------------------------------------------------------------------------
(* Properties *)

\* Every component has its type, and a socket has a life once it was created.
TypeOK ==
    /\ visiting \in BOOLEAN /\ project \in Projects
    /\ current \in 0..MaxSockets /\ ping \in 0..MaxSockets
    /\ connected \in BOOLEAN /\ retry \in BOOLEAN
    /\ made \in 0..MaxSockets
    /\ life \in [Sockets -> {"none", "connecting", "open", "closing", "closed"}]
    /\ attached \in [Sockets -> BOOLEAN] /\ for \in [Sockets -> Projects]
    /\ bubble \in 0..MaxSockets /\ strayed \in BOOLEAN /\ refused \in BOOLEAN
    /\ handler \in [Sockets -> {"none", "accepted", "creating", "serving", "gone"}]
    /\ session \in [Sockets -> 0..MaxSockets]
    /\ sessions \in [Projects -> SUBSET Sockets]
    /\ raced \in SUBSET Projects /\ prompted \in SUBSET Sockets
    /\ drops \in 0..MaxDrops /\ moves \in 0..MaxMoves
    /\ \A s \in Sockets : s > made <=> life[s] = "none"

\* The hook owns at most one live socket and knows its state: every other one
\* was closed by it, the page says "live" exactly while the current one is
\* open, the heartbeat beats on that one, a retry waits only while there is
\* nothing to replace, and a page that was left holds neither.
OneLiveSocket ==
    /\ \A s \in Sockets : Live(s) => s = current /\ for[s] = project
    /\ connected <=> current # 0 /\ life[current] = "open"
    /\ ping = IF connected THEN current ELSE 0
    /\ retry => current = 0
    /\ ~visiting => current = 0 /\ ~retry

\* An answer is only ever written into the bubble of a prompt that went out on
\* its own connection, whatever was switched, left or dropped meanwhile.
AnswersKeepToTheirSocket == ~strayed

\* A user has one session per project, so one conversation, unless two first
\* connections looked for it at once.
OneSessionUnlessRaced ==
    \A p \in Projects \ raced : Cardinality(sessions[p]) <= 1

\* A page that is visited gets connected, unless it was turned away with a
\* code it does not retry, and as long as sockets can be made.
EventuallyConnected ==
    visiting ~> (connected \/ refused \/ ~visiting \/ made = MaxSockets)
=============================================================================
