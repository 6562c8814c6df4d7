CONSTANTS
    \* WebSocket
    Writers = {"w1", "w2"}
    Messages <- MCMessages
    MaxSends = 2
    Len16 = 2
    Max16 = 4
    MaxMessage = 6
    \* TCPServer
    Addrs = {1, 2}
    Peers = {"p1", "p2"}
    ServerFds = {1, 2}
    Loops = 4
    MaxUses = 5
    \* Application
    Launches = {"a1", "a2"}
    MaxCrashes = 3
SPECIFICATION MCSpec
INVARIANTS
    MessagesIntact
    EndsForCause
    SocketsHeld
    ServerKnown
PROPERTIES
    MessageArrives
    StopEnds
    PeerServed
    ServesAgain
CHECK_DEADLOCK FALSE
