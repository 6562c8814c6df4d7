----------------------------- MODULE MCIOLive -----------------------------
(***************************************************************************)
(* IOManager with one thread, for the properties that something happens:   *)
(* the constants describe an IOManager with one worker; C is one without   *)
(* workers, whose only thread is the caller inside stop().  A behaviour is *)
(* one of the two.                                                         *)
(***************************************************************************)
EXTENDS IOManager

CONSTANTS CallerDelays, CallerTimeout
VARIABLE mode

C == INSTANCE IOManager WITH
        Workers <- {}, UseCaller <- TRUE, Delays <- CallerDelays, MAX_TIMEOUT <- CallerTimeout

liveVars == <<vars, mode>>

In(m) == mode = m /\ mode' = m

LiveInit ==
    \/ mode = "worker" /\ Init
    \/ mode = "caller" /\ C!Init

LiveNext ==
    \/ In("worker") /\ Next
    \/ In("caller") /\ C!Next

\* The fairness of FairSpec for either; the caller, who runs what is handed
\* over, calls stop() in the end, as the destructor does.
LiveSpec ==
    /\ LiveInit /\ [][LiveNext]_liveVars
    /\ \A t \in Run : WF_liveVars(In("worker") /\ Thread_step(t))
    /\ WF_liveVars(In("caller") /\ C!Thread_step(Caller))
    /\ WF_liveVars(In("worker") /\ tickle(Caller))
    /\ WF_liveVars(In("caller") /\ C!tickle(Caller))
    /\ WF_liveVars(In("worker") /\ Stop_step)
    /\ WF_liveVars(In("caller") /\ (C!stop \/ C!Stop_step))
    /\ WF_liveVars(In("worker") /\ Tick)
    /\ WF_liveVars(In("caller") /\ C!Tick)
    /\ \A w \in Items : WF_liveVars(In("worker") /\ Arrive(w))
    /\ \A w \in Items : WF_liveVars(In("caller") /\ C!Arrive(w))

\* StopComplete for an IOManager that only its caller runs: stop() leaves no
\* task, timer or event behind (with a worker it may: see the README).
StopCompleteAlone == mode = "caller" => StopComplete
=============================================================================
