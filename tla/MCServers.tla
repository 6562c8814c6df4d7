----------------------------- MODULE MCServers -----------------------------
(***************************************************************************)
(* Small instances of the WebSocket protocol, the TCP server and the       *)
(* application for TLC.  `part' says which of them a behaviour is about;   *)
(* the others stay in one of their initial states.                         *)
(***************************************************************************)
EXTENDS WebSocket, TCPServer, Application

Frame(op, n, fin, from) == [opcode |-> op, data |-> [i \in 1..n |-> from + i], fin |-> fin]
MCMessages ==
    {<<Frame("TEXT", n, TRUE, 0)>> : n \in {0, 1, 2, 3, 4, 6}}
      \cup {<<Frame("PING", 0, TRUE, 0)>>,
            <<Frame("BIN", 1, FALSE, 0), Frame("CONTINUE", 3, TRUE, 1)>>}

VARIABLE part
allVars == <<part, wsVars, tcpVars, appVars>>

MCInit ==
    /\ part \in {"websocket", "server", "application"}
    /\ WSInit /\ (part # "websocket" => ~fromClient)
    /\ ServerInit
    /\ AppInit

WebSockets ==
    /\ part = "websocket" /\ WSNext
    /\ UNCHANGED <<part, tcpVars, appVars>>
Servers ==
    /\ part = "server" /\ ServerNext
    /\ UNCHANGED <<part, wsVars, appVars>>
Applications ==
    /\ part = "application" /\ AppNext
    /\ UNCHANGED <<part, wsVars, tcpVars>>

\* The fairness of WSSpec, of ServerSpec and of AppSpec, each for its own part.
MCSpec ==
    /\ MCInit
    /\ [][WebSockets \/ Servers \/ Applications]_allVars
    /\ WSFairness
    /\ WF_tcpVars(part = "server" /\ AcceptThread)
    /\ \A p \in Launches : WF_appVars(part = "application" /\ AppStep(p))
=============================================================================
