----------------------------- MODULE AgentTurn ------------------------------
(***************************************************************************)
(* One session's conversation with the assistant: chat sockets of the      *)
(* session (api/chat.py) restore it from Postgres, run a turn of the tool  *)
(* loop for each prompt (core/agentic_loop.py, core/tool_dispatch.py) on a *)
(* trimmed window of it (core/history.py), and append what the turn added  *)
(* (db/message_store.py).                                                  *)
(*                                                                         *)
(* Every await at which another socket, or the client's departure, can     *)
(* come in between is the end of a step.  A message is its turn, its       *)
(* position in the turn, and how it is tied to others: the number of tool  *)
(* calls it makes, or the position of the message whose call it answers.   *)
(***************************************************************************)
EXTENDS Naturals, Sequences, SequencesExt

CONSTANTS
    Sockets,        \* connections of the session's user to the endpoint
    Tabs,           \* tabs of the spreadsheet
    None,           \* a value that is not a tab
    MaxIterations,  \* run_agentic_loop max_iterations
    MaxModel,       \* history.py MAX_MODEL_MESSAGES
    MaxReplay,      \* history.py MAX_REPLAY_MESSAGES
    MaxCalls,       \* bound: tool calls in one assistant message
    MaxTurns,       \* bound: prompts in a behaviour
    MaxFaults       \* bound: clients lost, restarts and failed database calls

ASSUME AgentTurnAssumption ==
    /\ Tabs # {} /\ None \notin Tabs
    /\ MaxIterations \in Nat \ {0} /\ MaxModel \in Nat \ {0}
    /\ MaxReplay \in Nat \ {0}
    /\ MaxCalls \in Nat /\ MaxTurns \in Nat /\ MaxFaults \in Nat

VARIABLES
    store,      \* the session's rows of the messages table, by id
    tab,        \* the session's active_tab
    conn,       \* where each socket's handler is
    alive,      \* is the client still at the other end?
    memory,     \* message_history of each handler
    messages,   \* messages of the turn in progress, without the system prompt
    sent,       \* how many of them are sent_history
    turnTab,    \* the active_tab the turn was started with
    chosen,     \* the tab the turn itself last switched to, or started with
    iteration,
    todo,       \* tool calls of the last assistant message not yet answered
    writes,     \* write jobs enqueued
    \* bookkeeping the properties speak about
    turns,      \* prompts received
    unsaved,    \* turns whose messages never reached the store
    missed,     \* turns other sockets saved since this one connected
    torn,       \* turns that an exception ended between a call and its result
    faults

turn    == <<messages, sent, turnTab, chosen, iteration, todo>>
history == <<turns, unsaved, missed, torn>>
vars    == <<store, tab, conn, alive, memory, turn, writes, history, faults>>

Roles   == {"user", "assistant", "tool"}
Message == [turn : Nat, at : Nat, role : Roles, calls : Nat, of : Nat]

\* The message a turn goes on with.
Said(s, role, calls, of) ==
    [turn |-> messages[s][Len(messages[s])].turn,
     at |-> messages[s][Len(messages[s])].at + 1,
     role |-> role, calls |-> calls, of |-> of]

\* Mutant: ordered ascending, the limit keeps the oldest.
Oldest(ms, n) == IF Len(ms) <= n THEN ms ELSE SubSeq(ms, 1, n)

\* The last n messages.
Newest(ms, n) == IF Len(ms) <= n THEN ms ELSE SubSeq(ms, Len(ms) - n + 1, Len(ms))

\* From the first message with one of these roles on.
FromFirst(ms, roles) ==
    LET starts == { i \in 1..Len(ms) : ms[i].role \in roles }
    IN  IF starts = {} THEN <<>>
        ELSE SubSeq(ms, CHOOSE i \in starts : \A k \in starts : i <= k, Len(ms))

DropLeadingOrphans(ms) == FromFirst(ms, Roles \ {"tool"})

\* Mutant: trimming is slicing.
TrimBySlicing(ms) == Newest(ms, MaxModel)

\* trim_for_model: a history that is too long is opened at the window's first
\* user message; one without, or short enough, after leading tool messages.
TrimForModel(ms) ==
    LET window == Newest(ms, MaxModel)
    IN  IF Len(ms) > MaxModel /\ \E i \in 1..Len(window) : window[i].role = "user"
        THEN FromFirst(window, {"user"})
        ELSE DropLeadingOrphans(window)

\* The results of the call message at i follow it, in order.
Answered(ms, i) ==
    \A k \in 1..ms[i].calls :
        /\ i + k <= Len(ms)
        /\ ms[i + k].role = "tool"
        /\ ms[i + k].turn = ms[i].turn /\ ms[i + k].of = ms[i].at

\* The tool message at i has its call before it, with only other results of
\* that call in between.
HasCall(ms, i) ==
    \E k \in 1..(i - 1) :
        /\ ms[k].role = "assistant" /\ i - k <= ms[k].calls
        /\ \A x \in (k + 1)..i : /\ ms[x].role = "tool"
                                 /\ ms[x].turn = ms[k].turn /\ ms[x].of = ms[k].at

\* The model API refuses a request with a call that is not answered or a result
\* without its call.
ApiAccepts(ms) ==
    \A i \in 1..Len(ms) :
        /\ ms[i].role = "assistant" => Answered(ms, i)
        /\ ms[i].role = "tool" => HasCall(ms, i)

Init ==
    /\ store = <<>> /\ tab \in Tabs
    /\ conn = [s \in Sockets |-> "closed"]
    /\ alive = [s \in Sockets |-> FALSE]
    /\ memory = [s \in Sockets |-> <<>>]
    /\ messages = [s \in Sockets |-> <<>>]
    /\ sent = [s \in Sockets |-> 0]
    /\ turnTab = [s \in Sockets |-> None] /\ chosen = [s \in Sockets |-> None]
    /\ iteration = [s \in Sockets |-> 0]
    /\ todo = [s \in Sockets |-> 0]
    /\ writes = {}
    /\ turns = 0 /\ unsaved = {} /\ torn = {}
    /\ missed = [s \in Sockets |-> {}]
    /\ faults = 0

Goto(s, from, to) == conn[s] = from /\ conn' = [conn EXCEPT ![s] = to]

Fault == faults < MaxFaults /\ faults' = faults + 1

\* The turn a socket is running.
Turn(s) == Last(messages[s]).turn

InTurn(s) == messages[s] # <<>>

\* The call the next tool message answers.
CallAt(s) ==
    IF Last(messages[s]).role = "tool" THEN Last(messages[s]).of ELSE Last(messages[s]).at

\* The variables of a turn go out of scope.
EndTurn(s) ==
    /\ messages' = [messages EXCEPT ![s] = <<>>]
    /\ sent' = [sent EXCEPT ![s] = 0]
    /\ turnTab' = [turnTab EXCEPT ![s] = None]
    /\ chosen' = [chosen EXCEPT ![s] = None]
    /\ iteration' = [iteration EXCEPT ![s] = 0]
    /\ todo' = [todo EXCEPT ![s] = 0]

-----------------------------------------------------------------------------
(* The endpoint, between turns *)

\* load_history restores the newest messages, or nothing if the query fails.
Connect(s) ==
    /\ Goto(s, "closed", "idle")
    /\ alive' = [alive EXCEPT ![s] = TRUE]
    /\ \/ memory' = [memory EXCEPT ![s] = Newest(store, MaxReplay)] /\ UNCHANGED faults
       \/ memory' = [memory EXCEPT ![s] = <<>>] /\ Fault
    /\ missed' = [missed EXCEPT ![s] = {}]
    /\ UNCHANGED <<store, tab, turn, writes, turns, unsaved, torn>>

\* The handler ends between turns: its client is gone, or a packet raised.
Leave(s) ==
    /\ Goto(s, "idle", "closed")
    /\ alive' = [alive EXCEPT ![s] = FALSE]
    /\ memory' = [memory EXCEPT ![s] = <<>>]
    /\ UNCHANGED <<store, tab, turn, writes, history, faults>>

\* A switch_tab packet.
SwitchTab(s) ==
    /\ conn[s] = "idle" /\ alive[s]
    /\ tab' \in Tabs
    /\ UNCHANGED <<store, conn, alive, memory, turn, writes, history, faults>>

\* A message packet: the session is reloaded and the turn begins.
Prompt(s) ==
    /\ Goto(s, "idle", "calling") /\ alive[s]
    /\ turns < MaxTurns /\ turns' = turns + 1
    /\ sent' = [sent EXCEPT ![s] = Len(TrimForModel(memory[s]))]
    /\ messages' = [messages EXCEPT ![s] = Append(TrimForModel(memory[s]),
                     [turn |-> turns', at |-> 1, role |-> "user", calls |-> 0, of |-> 0])]
    /\ turnTab' = [turnTab EXCEPT ![s] = tab]
    /\ chosen' = [chosen EXCEPT ![s] = tab]
    /\ UNCHANGED <<store, tab, alive, memory, iteration, todo, writes, unsaved,
                   missed, torn, faults>>

-----------------------------------------------------------------------------
(* The turn: run_agentic_loop *)

\* The model answers in words, which end the loop.
Answer(s) ==
    /\ Goto(s, "calling", "returned")
    /\ ApiAccepts(messages[s])
    /\ messages' = [messages EXCEPT ![s] = Append(@, Said(s, "assistant", 0, 0))]
    /\ UNCHANGED <<store, tab, alive, memory, sent, turnTab, chosen, iteration,
                   todo, writes, history, faults>>

\* Mutant: tools are still offered in the last iteration.
CallToolsToTheEnd(s) ==
    /\ Goto(s, "calling", "tool")
    /\ ApiAccepts(messages[s])
    /\ \E k \in 1..MaxCalls :
         /\ todo' = [todo EXCEPT ![s] = k]
         /\ messages' = [messages EXCEPT ![s] = Append(@, Said(s, "assistant", k, 0))]
    /\ UNCHANGED <<store, tab, alive, memory, sent, turnTab, chosen, iteration,
                   writes, history, faults>>

\* The model calls tools; in the last iteration it is offered none.
CallTools(s) ==
    /\ Goto(s, "calling", "tool")
    /\ ApiAccepts(messages[s])
    /\ iteration[s] < MaxIterations - 1
    /\ \E k \in 1..MaxCalls :
         /\ todo' = [todo EXCEPT ![s] = k]
         /\ messages' = [messages EXCEPT ![s] = Append(@, Said(s, "assistant", k, 0))]
    /\ UNCHANGED <<store, tab, alive, memory, sent, turnTab, chosen, iteration,
                   writes, history, faults>>

\* Mutant: the error is returned from the loop and the turn not persisted.
ModelFailsReturning(s) ==
    /\ Goto(s, "calling", "touching")
    /\ EndTurn(s)
    /\ UNCHANGED <<store, tab, alive, memory, writes, history, faults>>

\* Mutant: a failed call is tried again, and not counted.
ModelFailsRetrying(s) ==
    /\ Goto(s, "calling", "calling")
    /\ UNCHANGED <<store, tab, alive, memory, turn, writes, history, faults>>

\* The API refuses, times out or leaks its markup twice: the error is reported
\* and the loop left.
ModelFails(s) ==
    /\ Goto(s, "calling", "returned")
    /\ UNCHANGED <<store, tab, alive, memory, turn, writes, history, faults>>

\* can_execute raises on arguments of another shape than it expects, and the
\* loop is left with the call unanswered.
MalformedCall(s) ==
    /\ Goto(s, "tool", "returned")
    /\ torn' = torn \cup {Turn(s)}
    /\ UNCHANGED <<store, tab, alive, memory, turn, writes, turns, unsaved, missed,
                   faults>>

\* can_execute denies the tool, or dispatch_tool reads, or fails and makes the
\* failure a result.
ReadOrRefuse(s) ==
    /\ Goto(s, "tool", "reporting")
    /\ UNCHANGED <<store, tab, alive, memory, turn, writes, history, faults>>

\* A write is enqueued for the tab that the turn was started with.
DispatchWrite(s) ==
    /\ Goto(s, "tool", "reporting")
    /\ writes' = writes \cup {[turn |-> Turn(s), at |-> Last(messages[s]).at + 1,
                               tab |-> turnTab[s], chosen |-> chosen[s]]}
    /\ UNCHANGED <<store, tab, alive, memory, turn, history, faults>>

\* switch_module commits the session's new active_tab.
DispatchSwitch(s) ==
    /\ Goto(s, "tool", "reporting")
    /\ \E t \in Tabs : tab' = t /\ chosen' = [chosen EXCEPT ![s] = t]
    /\ UNCHANGED <<store, alive, memory, messages, sent, turnTab, iteration, todo,
                   writes, history, faults>>

\* The result goes to the client and into the context; after the last one the
\* model is called again.
Report(s) ==
    /\ conn[s] = "reporting"
    /\ messages' = [messages EXCEPT ![s] = Append(@, Said(s, "tool", 0, CallAt(s)))]
    /\ todo' = [todo EXCEPT ![s] = @ - 1]
    /\ \/ /\ todo[s] > 1
          /\ conn' = [conn EXCEPT ![s] = "tool"]
          /\ UNCHANGED iteration
       \/ /\ todo[s] = 1
          /\ conn' = [conn EXCEPT ![s] = "calling"]
          /\ iteration' = [iteration EXCEPT ![s] = @ + 1]
    /\ UNCHANGED <<store, tab, alive, memory, sent, turnTab, chosen, writes, history,
                   faults>>

\* A send on a socket whose client is gone raises, and so does the send of the
\* error: the handler ends and the turn is not persisted.
Vanish(s) ==
    /\ conn[s] \in {"calling", "tool", "reporting"} /\ ~alive[s]
    /\ conn' = [conn EXCEPT ![s] = "closed"]
    /\ memory' = [memory EXCEPT ![s] = <<>>]
    /\ unsaved' = unsaved \cup {Turn(s)}
    /\ EndTurn(s)
    /\ UNCHANGED <<store, tab, alive, writes, turns, missed, torn, faults>>

-----------------------------------------------------------------------------
(* After the turn *)

\* Mutant: the whole context is persisted.
DeltaOfAll(s) == messages[s]

\* What the turn added: save_turn is given the messages after sent_history.
Delta(s) == SubSeq(messages[s], sent[s] + 1, Len(messages[s]))

\* save_turn appends it in one transaction, or fails and is ignored; the
\* handler goes on with what the loop returned.
Save(s) ==
    /\ Goto(s, "returned", "touching")
    /\ memory' = [memory EXCEPT ![s] = messages[s]]
    /\ \/ /\ store' = store \o Delta(s)
          /\ missed' = [x \in Sockets |-> IF x = s THEN missed[x]
                                          ELSE missed[x] \cup {Turn(s)}]
          /\ UNCHANGED <<unsaved, faults>>
       \/ /\ unsaved' = unsaved \cup {Turn(s)} /\ Fault
          /\ UNCHANGED <<store, missed>>
    /\ EndTurn(s)
    /\ UNCHANGED <<tab, alive, writes, turns, torn>>

\* last_active is committed; if that fails the handler ends.
Touch(s) ==
    /\ \/ Goto(s, "touching", "idle") /\ UNCHANGED <<alive, memory, faults>>
       \/ /\ Goto(s, "touching", "closed") /\ Fault
          /\ alive' = [alive EXCEPT ![s] = FALSE]
          /\ memory' = [memory EXCEPT ![s] = <<>>]
    /\ UNCHANGED <<store, tab, turn, writes, history>>

-----------------------------------------------------------------------------
(* The client and the API process *)

\* The client departs, whatever its handler is doing.
Drop(s) ==
    /\ alive[s] /\ alive' = [alive EXCEPT ![s] = FALSE]
    /\ Fault
    /\ UNCHANGED <<store, tab, conn, memory, turn, writes, history>>

\* The API process is restarted.
Restart ==
    /\ Fault
    /\ conn' = [s \in Sockets |-> "closed"]
    /\ alive' = [s \in Sockets |-> FALSE]
    /\ memory' = [s \in Sockets |-> <<>>]
    /\ unsaved' = unsaved \cup { Turn(s) : s \in {x \in Sockets : InTurn(x)} }
    /\ messages' = [s \in Sockets |-> <<>>]
    /\ sent' = [s \in Sockets |-> 0]
    /\ turnTab' = [s \in Sockets |-> None] /\ chosen' = [s \in Sockets |-> None]
    /\ iteration' = [s \in Sockets |-> 0]
    /\ todo' = [s \in Sockets |-> 0]
    /\ UNCHANGED <<store, tab, writes, turns, missed, torn>>

TurnStep(s) ==
    \/ Answer(s) \/ CallTools(s) \/ ModelFails(s) \/ MalformedCall(s)
    \/ ReadOrRefuse(s) \/ DispatchWrite(s) \/ DispatchSwitch(s)
    \/ Report(s) \/ Vanish(s) \/ Save(s) \/ Touch(s)

Next ==
    \/ \E s \in Sockets :
         Connect(s) \/ Leave(s) \/ SwitchTab(s) \/ Prompt(s) \/ TurnStep(s) \/ Drop(s)
    \/ Restart

Spec == Init /\ [][Next]_vars

\* Calls of the model, of Google, Redis and Postgres return or time out; no
\* client has to connect, ask or stay.
FairSpec == Spec /\ \A s \in Sockets : WF_vars(TurnStep(s))

-----------------------------------------------------------------------------
(* Properties *)

\* Every variable has its type; a handler has messages exactly while it runs a
\* turn, and answers outstanding exactly between a call and its last result.
TypeOK ==
    /\ store \in Seq(Message) /\ tab \in Tabs
    /\ conn \in [Sockets -> {"closed", "idle", "calling", "tool", "reporting",
                             "returned", "touching"}]
    /\ alive \in [Sockets -> BOOLEAN]
    /\ memory \in [Sockets -> Seq(Message)]
    /\ messages \in [Sockets -> Seq(Message)]
    /\ sent \in [Sockets -> 0..MaxModel]
    /\ turnTab \in [Sockets -> Tabs \cup {None}]
    /\ chosen \in [Sockets -> Tabs \cup {None}]
    /\ iteration \in [Sockets -> 0..(MaxIterations - 1)]
    /\ todo \in [Sockets -> 0..MaxCalls]
    /\ writes \subseteq [turn : Nat, at : Nat, tab : Tabs, chosen : Tabs]
    /\ turns \in 0..MaxTurns
    /\ unsaved \subseteq 1..turns /\ torn \subseteq 1..turns
    /\ missed \in [Sockets -> SUBSET (1..turns)]
    /\ faults \in 0..MaxFaults
    /\ \A s \in Sockets :
         /\ InTurn(s) <=> conn[s] \notin {"closed", "idle", "touching"}
         /\ InTurn(s) => sent[s] < Len(messages[s])
         /\ conn[s] \in {"tool", "reporting"} => todo[s] > 0

\* No message is stored twice, although the loop returns the whole context
\* along with what the turn added to it.
StoredOnce ==
    \A i, k \in 1..Len(store) :
        store[i].turn = store[k].turn /\ store[i].at = store[k].at => i = k

\* A context the model API refuses holds a turn that an exception tore: neither
\* the two limits, which cut anywhere, nor sockets that save between each
\* other's turns part a result from its call or a call from its results.
RefusalsHaveCause ==
    \A s \in Sockets :
        conn[s] = "calling" /\ ~ApiAccepts(messages[s]) =>
            \E i \in 1..Len(messages[s]) : messages[s][i].turn \in torn

\* The messages of a conversation that are not of these turns.
Without(ms, T) ==
    LET kept[n \in 0..Len(ms)] ==
            IF n = 0 THEN <<>>
            ELSE IF ms[n].turn \in T THEN kept[n - 1] ELSE Append(kept[n - 1], ms[n])
    IN  kept[Len(ms)]

\* The model is shown the newest part of the stored conversation without a gap,
\* apart from turns that another socket saved since this one connected and
\* turns whose saving failed.
ContextIsRecent ==
    \A s \in Sockets : InTurn(s) =>
        LET shown == SubSeq(messages[s], 1, sent[s])
        IN  IsSuffix(Without(shown, unsaved), Without(store, missed[s]))

\* Every write that was enqueued is on record in the conversation with its
\* result, or will be, unless its turn could not be saved.
WritesRemembered ==
    \A w \in writes :
        \/ w.turn \in unsaved
        \/ \E s \in Sockets : InTurn(s) /\ Turn(s) = w.turn
        \/ \E i \in 1..Len(store) : /\ store[i].turn = w.turn /\ store[i].at = w.at
                                    /\ store[i].role = "tool"

\* Every turn ends: with an answer or an error, and the socket ready for the
\* next prompt or closed.
TurnsEnd ==
    \A s \in Sockets : conn[s] = "calling" ~> conn[s] \in {"idle", "closed"}

\* trim_for_model: "the most recent slice of a conversation that is still valid
\* to send".
ContextValid ==
    \A s \in Sockets : conn[s] = "calling" => ApiAccepts(messages[s])
=============================================================================
