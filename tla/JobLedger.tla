------------------------------ MODULE JobLedger ------------------------------
(***************************************************************************)
(* What the write queue promises, with its Redis lists, processes and      *)
(* crashes left out: every write the API accepts is open until it is       *)
(* finished, buried or lost, its mutation reaches the sheet only while it  *)
(* is open and has been started, it is started at most MaxStarts times,    *)
(* it is finished only after an outcome was reported for it and buried     *)
(* only when all its starts are used up.  WriteQueue implements it.        *)
(***************************************************************************)
EXTENDS Naturals

CONSTANTS Jobs, NoJob, Cells, Target, MaxStarts

VARIABLES
    phase,    \* where each job stands
    starts,   \* how often it was started
    shows,    \* the job whose value each cell shows
    verdict   \* the outcome last reported for it

vars == <<phase, starts, shows, verdict>>

Init ==
    /\ phase = [j \in Jobs |-> "new"]
    /\ starts = [j \in Jobs |-> 0]
    /\ shows = [c \in Cells |-> NoJob]
    /\ verdict = [j \in Jobs |-> "none"]

Started(j) == phase[j] = "open" /\ starts[j] > 0

Accept(j) ==
    /\ phase[j] = "new"
    /\ phase' = [phase EXCEPT ![j] = "open"]
    /\ UNCHANGED <<starts, shows, verdict>>

Begin(j) ==
    /\ phase[j] = "open" /\ starts[j] < MaxStarts
    /\ starts' = [starts EXCEPT ![j] = @ + 1]
    /\ UNCHANGED <<phase, shows, verdict>>

Land(j) ==
    /\ Started(j)
    /\ shows' = [shows EXCEPT ![Target[j]] = j]
    /\ UNCHANGED <<phase, starts, verdict>>

Judge(j) ==
    /\ Started(j)
    /\ \E v \in {"completed", "failed"} : verdict' = [verdict EXCEPT ![j] = v]
    /\ UNCHANGED <<phase, starts, shows>>

Finish(j) ==
    /\ Started(j) /\ verdict[j] # "none"
    /\ phase' = [phase EXCEPT ![j] = "finished"]
    /\ UNCHANGED <<starts, shows, verdict>>

Bury(j) ==
    /\ phase[j] = "open" /\ starts[j] = MaxStarts
    /\ phase' = [phase EXCEPT ![j] = "buried"]
    /\ UNCHANGED <<starts, shows, verdict>>

\* Only a job that was started can be lost: one that waits for its first
\* pickup survives everything.
Lose(j) ==
    /\ Started(j)
    /\ phase' = [phase EXCEPT ![j] = "lost"]
    /\ UNCHANGED <<starts, shows, verdict>>

Next == \E j \in Jobs :
    \/ Accept(j) \/ Begin(j) \/ Land(j) \/ Judge(j)
    \/ Finish(j) \/ Bury(j) \/ Lose(j)

Spec == Init /\ [][Next]_vars
=============================================================================
