----------------------------- MODULE WebSocket -----------------------------
(***************************************************************************)
(* One direction of a WebSocket connection (http/ws_session.cpp): fibers   *)
(* of the sending side call WSSendMessage and WSPing, a fiber of the       *)
(* receiving side loops in WSRecvMessage, and a fiber of the sending side  *)
(* reads the answers. Either side may be the client, whose frames are      *)
(* masked. The handshake is over.                                          *)
(*                                                                         *)
(* The wire is a sequence of tokens: the head of a frame, a length, a      *)
(* mask, or a byte of data. The limits of the lengths are scaled down:     *)
(* Len16 stands for 126, Len16 + 1 for 127, Max16 for 65536.               *)
(***************************************************************************)
EXTENDS Integers, Sequences, FiniteSets

CONSTANTS Writers, Messages, MaxSends, Len16, Max16, MaxMessage

VARIABLES fromClient,  \* the sending side is the client
          frames,      \* frames[w]: the frames writer w has not begun
          writes,      \* writes[w]: the rest of its frame, a sequence per write
          wire, pongs, \* tokens under way; answers to pings under way
          rx,          \* WSRecvMessage: pc, head, length, opcode, data
          reader,      \* the fiber that reads the answers
          open,        \* open[s]: side s has not closed its stream
          stuck,       \* fibers in a loop that does not end
          killed,      \* the process got SIGPIPE
          begun,       \* the data frames begun, in order
          messages,    \* the messages received
          overlap,     \* two writers were inside one message
          sends

wsVars == <<fromClient, frames, writes, wire, pongs, rx, reader, open, stuck, killed,
            begun, messages, overlap, sends>>

Control(f) == f.opcode \in {"PING", "PONG"}
Idle == [pc |-> "head", head |-> [opcode |-> ""], length |-> 0, opcode |-> "", data |-> <<>>]

WSInit ==
    /\ fromClient \in BOOLEAN
    /\ frames = [w \in Writers |-> <<>>] /\ writes = [w \in Writers |-> <<>>]
    /\ wire = <<>> /\ pongs = 0
    /\ rx = Idle /\ reader = "reading"
    /\ open = [s \in {"sender", "receiver"} |-> TRUE]
    /\ stuck = {} /\ killed = FALSE
    /\ begun = <<>> /\ messages = <<>> /\ overlap = FALSE /\ sends = 0

-----------------------------------------------------------------------------
\* data[i] ^= mask[i % 4], done twice, gives data[i].
Mask(data) == [i \in 1..Len(data) |-> [byte |-> data[i], mask |-> i % 4]]
Plain(data) == [i \in 1..Len(data) |-> [byte |-> data[i], mask |-> -1]]

Payload(size) ==
    IF size < Len16 THEN size ELSE IF size < Max16 THEN Len16 ELSE Len16 + 1

WSSendMessage_AlwaysLength(f) ==
    LET size == Len(f.data)
        head == [opcode |-> f.opcode, fin |-> f.fin, mask |-> fromClient, payload |-> Payload(size)]
        rest == << <<[head |-> head]>> >>
                  \o << IF Payload(size) >= Len16 THEN <<[len |-> size]>> ELSE <<>> >>
                  \o (IF fromClient THEN << <<[mask |-> TRUE]>> >> ELSE <<>>)
                  \o << IF fromClient THEN Mask(f.data) ELSE Plain(f.data) >>
    IN  IF Control(f) THEN << <<[head |-> [head EXCEPT !.mask = FALSE]]>> >> ELSE rest

WSSendMessage_No16(f) ==
    LET size == Len(f.data)
        head == [opcode |-> f.opcode, fin |-> f.fin, mask |-> fromClient, payload |-> Payload(size)]
        rest == << <<[head |-> head]>> >>
                  \o (IF Payload(size) > Len16 THEN << <<[len |-> size]>> >> ELSE <<>>)
                  \o (IF fromClient THEN << <<[mask |-> TRUE]>> >> ELSE <<>>)
                  \o << IF fromClient THEN Mask(f.data) ELSE Plain(f.data) >>
    IN  IF Control(f) THEN << <<[head |-> [head EXCEPT !.mask = FALSE]]>> >> ELSE rest

\* The calls of writeFixSize that WSSendMessage (or WSPing) makes for a frame.
WSSendMessage(f) ==
    LET size == Len(f.data)
        head == [opcode |-> f.opcode, fin |-> f.fin, mask |-> fromClient, payload |-> Payload(size)]
        rest == << <<[head |-> head]>> >>
                  \o (IF Payload(size) >= Len16 THEN << <<[len |-> size]>> >> ELSE <<>>)
                  \o (IF fromClient THEN << <<[mask |-> TRUE]>> >> ELSE <<>>)
                  \o << IF fromClient THEN Mask(f.data) ELSE Plain(f.data) >>
    IN  IF Control(f) THEN << <<[head |-> [head EXCEPT !.mask = FALSE]]>> >> ELSE rest

\* A fiber starts to send a message, which may be in several frames.
Send(w) ==
    /\ w \notin stuck
    /\ frames[w] = <<>> /\ writes[w] = <<>>
    /\ sends < MaxSends
    /\ \E m \in Messages : frames' = [frames EXCEPT ![w] = m]
    /\ sends' = sends + 1
    /\ UNCHANGED <<fromClient, writes, wire, pongs, rx, reader, open, stuck, killed, begun, messages, overlap>>

\* Another writer is in the middle of a frame, or of a message of data.
Busy(w, f) ==
    \E v \in Writers \ {w} :
       \/ writes[v] # <<>>
       \/ ~Control(f) /\ frames[v] # <<>> /\ Head(frames[v]).opcode = "CONTINUE"

\* The next frame: its head is written with the first call.
Begin(w) ==
    /\ w \notin stuck
    /\ writes[w] = <<>> /\ frames[w] # <<>>
    /\ LET f == Head(frames[w]) IN
         /\ writes' = [writes EXCEPT ![w] = WSSendMessage(f)]
         /\ frames' = [frames EXCEPT ![w] = Tail(@)]
         /\ begun' = IF Control(f) THEN begun ELSE Append(begun, f)
         /\ overlap' = (overlap \/ Busy(w, f))
    /\ UNCHANGED <<fromClient, wire, pongs, rx, reader, open, stuck, killed, messages, sends>>

Abandon(w) == frames' = [frames EXCEPT ![w] = <<>>] /\ writes' = [writes EXCEPT ![w] = <<>>]

\* One write() of writeFixSize: some of the bytes. Nothing to write counts as
\* a failure, and the stream is closed; an error (the stream was closed
\* before) is the largest size_t, and the loop goes on for ever. The peer
\* having closed, the bytes are lost or SIGPIPE ends the process.
Write(w) ==
    /\ w \notin stuck
    /\ writes[w] # <<>>
    /\ overlap' = (overlap \/ \E v \in Writers \ {w} : writes[v] # <<>>)
    /\ \/ /\ Head(writes[w]) = <<>>
          /\ open' = [open EXCEPT !["sender"] = FALSE]
          /\ Abandon(w)
          /\ UNCHANGED <<wire, stuck, killed>>
       \/ /\ Head(writes[w]) # <<>> /\ ~open["sender"]
          /\ stuck' = stuck \cup {w}
          /\ UNCHANGED <<wire, open, frames, writes, killed>>
       \/ /\ Head(writes[w]) # <<>> /\ open["sender"] /\ ~open["receiver"]
          /\ killed' = TRUE
          /\ Abandon(w)
          /\ UNCHANGED <<wire, open, stuck>>
       \/ /\ Head(writes[w]) # <<>> /\ open["sender"]
          /\ \E k \in {1, Len(Head(writes[w]))} :
               LET rest == SubSeq(Head(writes[w]), k + 1, Len(Head(writes[w])))
               IN  /\ wire' = IF open["receiver"] THEN wire \o SubSeq(Head(writes[w]), 1, k)
                              ELSE wire
                   /\ writes' = [writes EXCEPT
                                   ![w] = IF rest = <<>> THEN Tail(@) ELSE <<rest>> \o Tail(@)]
          /\ UNCHANGED <<open, frames, stuck, killed>>
    /\ UNCHANGED <<fromClient, pongs, rx, reader, begun, messages, sends>>

-----------------------------------------------------------------------------
\* stream->close() at the end of WSRecvMessage, which returns nullptr.
Break ==
    /\ open' = [open EXCEPT !["receiver"] = FALSE]
    /\ rx' = [Idle EXCEPT !.pc = "ended"]
    /\ UNCHANGED <<wire, pongs, messages>>

\* readFixSize(n) returns 0: the peer has closed and less than n is left, or
\* n is 0.
Eof(n) == n = 0 \/ (~open["sender"] /\ Len(wire) < n)

\* What a token is read as. A head, a length or a mask read from bytes of
\* another kind is some value: the connection is lost.
As(kind, n) == n > 0 /\ Len(wire) >= n /\ \A i \in 1..n : kind \in DOMAIN wire[i]
Garbled(kind, n) == n > 0 /\ Len(wire) >= n /\ ~As(kind, n)
Rest(n) == SubSeq(wire, n + 1, Len(wire))
Receiving(pc) == rx.pc = pc /\ open["receiver"]
RxUnchanged == UNCHANGED <<fromClient, frames, writes, reader, stuck, killed, begun, overlap, sends>>

\* After the head: a ping is answered, a pong skipped, a data frame gets its
\* length; without a mask from the client it is refused.
RecvHead ==
    /\ Receiving("head")
    /\ \/ /\ As("head", 1)
          /\ LET h == wire[1].head IN
             CASE h.opcode = "PING" ->
                    /\ pongs' = pongs + 1 /\ wire' = Rest(1)
                    /\ UNCHANGED <<rx, open, messages>>
               [] h.opcode = "PONG" -> wire' = Rest(1) /\ UNCHANGED <<pongs, rx, open, messages>>
               [] ~Control(h) /\ fromClient /\ ~h.mask -> Break
               [] OTHER ->
                    /\ wire' = Rest(1)
                    /\ rx' = [rx EXCEPT !.head = h, !.length = h.payload,
                                        !.pc = IF h.payload >= Len16 THEN "len" ELSE "mask"]
                    /\ UNCHANGED <<pongs, open, messages>>
       \/ (Garbled("head", 1) \/ Eof(1)) /\ Break
    /\ RxUnchanged

RecvLen_WithHead ==
    /\ Receiving("len")
    /\ As("len", 1)
    /\ wire' = Rest(1)
    /\ rx' = [rx EXCEPT !.length = wire[1].len + 1, !.pc = "mask"]
    /\ UNCHANGED <<pongs, open, messages>>
    /\ RxUnchanged

RecvLen ==
    /\ Receiving("len")
    /\ \/ /\ As("len", 1)
          /\ wire' = Rest(1)
          /\ rx' = [rx EXCEPT !.length = wire[1].len, !.pc = "mask"]
          /\ UNCHANGED <<pongs, open, messages>>
       \/ (Garbled("len", 1) \/ Eof(1)) /\ Break
    /\ RxUnchanged

\* The limit of a message, then the mask.
RecvMask ==
    /\ Receiving("mask")
    /\ \/ Len(rx.data) + rx.length >= MaxMessage /\ Break
       \/ /\ Len(rx.data) + rx.length < MaxMessage
          /\ \/ /\ ~rx.head.mask
                /\ rx' = [rx EXCEPT !.pc = "data"]
                /\ UNCHANGED <<wire, pongs, open, messages>>
             \/ /\ rx.head.mask /\ As("mask", 1)
                /\ wire' = Rest(1)
                /\ rx' = [rx EXCEPT !.pc = "data"]
                /\ UNCHANGED <<pongs, open, messages>>
             \/ rx.head.mask /\ (Garbled("mask", 1) \/ Eof(1)) /\ Break
    /\ RxUnchanged

Unmasked_FromMessage(data, n) ==
    [i \in 1..n |-> IF wire[i].mask = (IF rx.head.mask THEN (Len(data) + i) % 4 ELSE -1)
                    THEN wire[i].byte ELSE 0]

\* The mask is applied from the start of each frame.
Unmasked(data, n) ==
    [i \in 1..n |-> IF wire[i].mask = (IF rx.head.mask THEN i % 4 ELSE -1)
                    THEN wire[i].byte ELSE 0]

\* The data; with fin the message is complete.
RecvData ==
    /\ Receiving("data")
    /\ \/ /\ As("byte", rx.length)
          /\ wire' = Rest(rx.length)
          /\ LET data == rx.data \o Unmasked(rx.data, rx.length)
                 op == IF rx.opcode = "" /\ rx.head.opcode # "CONTINUE"
                       THEN rx.head.opcode ELSE rx.opcode
             IN  IF rx.head.fin
                 THEN messages' = Append(messages, [opcode |-> op, data |-> data]) /\ rx' = Idle
                 ELSE /\ rx' = [rx EXCEPT !.pc = "head", !.opcode = op, !.data = data]
                      /\ UNCHANGED messages
          /\ UNCHANGED <<pongs, open>>
       \/ (Garbled("byte", rx.length) \/ Eof(rx.length)) /\ Break
    /\ RxUnchanged

\* The reading fiber of the sending side: skips pongs, closes at the end of
\* the stream. After its own side has closed read() fails for ever.
ReadAnswers ==
    /\ reader = "reading"
    /\ \/ /\ open["sender"] /\ pongs > 0
          /\ pongs' = pongs - 1
          /\ UNCHANGED <<reader, open, stuck>>
       \/ /\ open["sender"] /\ pongs = 0 /\ ~open["receiver"]
          /\ reader' = "ended"
          /\ open' = [open EXCEPT !["sender"] = FALSE]
          /\ UNCHANGED <<pongs, stuck>>
       \/ /\ ~open["sender"]
          /\ reader' = "stuck" /\ stuck' = stuck \cup {"reader"}
          /\ UNCHANGED <<pongs, open>>
    /\ UNCHANGED <<fromClient, frames, writes, wire, rx, killed, begun, messages, overlap, sends>>

Receive == RecvHead \/ RecvLen \/ RecvMask \/ RecvData

\* A killed process takes no step. Neither its peer nor a wire on which two
\* messages are mixed is followed further.
WSNext ==
    /\ ~killed /\ ~overlap
    /\ \/ \E w \in Writers : Send(w) \/ Begin(w) \/ Write(w)
       \/ RecvHead \/ RecvLen \/ RecvMask \/ RecvData \/ ReadAnswers

\* Fibers that can run do run, and bytes written arrive.
WSFairness ==
    /\ \A w \in Writers : WF_wsVars(~killed /\ ~overlap /\ (Begin(w) \/ Write(w)))
    /\ WF_wsVars(~killed /\ ~overlap /\ Receive)

WSSpec == WSInit /\ [][WSNext]_wsVars /\ WSFairness

-----------------------------------------------------------------------------
\* The messages that the frames make up, in order.
WholeMessages(fs) ==
    LET f[i \in 0..Len(fs)] ==
          IF i = 0 THEN [done |-> <<>>, op |-> "", data |-> <<>>]
          ELSE LET r == f[i - 1]
                   op == IF r.op = "" THEN fs[i].opcode ELSE r.op
                   data == r.data \o fs[i].data
               IN  IF fs[i].fin
                   THEN [done |-> Append(r.done, [opcode |-> op, data |-> data]),
                         op |-> "", data |-> <<>>]
                   ELSE [r EXCEPT !.op = op, !.data = data]
    IN  f[Len(fs)].done

\* What is received is what was sent, message by message, masked or not,
\* whatever the length, the frames and the pings between them, unless two
\* fibers wrote at the same time (ws_session.cpp 101-233).
MessagesIntact ==
    ~overlap => /\ Len(messages) <= Len(WholeMessages(begun))
                /\ messages = SubSeq(WholeMessages(begun), 1, Len(messages))

\* A connection is given up only for a reason: a frame without data, a
\* message of the maximal size, or two writers at once (ws_session.cpp 107,
\* 142, 156, 226).
ClosedForCause ==
    \A s \in DOMAIN open : ~open[s] =>
       \/ overlap
       \/ \E i \in 1..Len(begun) : begun[i].data = <<>>
       \/ \E i \in 1..Len(begun) : \E j \in i..Len(begun) :
            Len(WholeMessages(SubSeq(begun, i, j))) <= 1
              /\ LET n[k \in (i - 1)..j] == IF k < i THEN 0 ELSE n[k - 1] + Len(begun[k].data)
                 IN  n[j] >= MaxMessage

\* A fiber spins in readFixSize or writeFixSize (stream.cpp 12-13, 38-39: -1
\* as a size_t is not <= 0) only after a frame without data or after the
\* peer has gone: no other sequence of calls leads there.
SpinsForCause ==
    stuck # {} => ~open["receiver"] \/ \E i \in 1..Len(begun) : begun[i].data = <<>>

\* Every message whose last frame has been sent arrives, or there is a
\* reason: an endless wait for missing bytes does not happen.
MessageArrives ==
    \A n \in 1..MaxSends :
       (Len(WholeMessages(begun)) >= n) ~> (Len(messages) >= n \/ overlap \/ killed \/ \E s \in DOMAIN open : ~open[s])

\* Neither end gives up, or spins, without a cause in what was sent or in the
\* peer's leaving (ws_session.cpp 101-233, stream.cpp 8-58).
EndsForCause == ClosedForCause /\ SpinsForCause
=============================================================================
