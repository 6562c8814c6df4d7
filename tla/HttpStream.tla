----------------------------- MODULE HttpStream -----------------------------
(***************************************************************************)
(* A stream of bytes handed to http_parser_execute in pieces of any size,  *)
(* with callbacks that only write down what they are told. The end of the  *)
(* stream is the call with no bytes.                                       *)
(***************************************************************************)
EXTENDS HttpParser, HttpCallbacks

CONSTANT Streams     \* the streams: [type |-> "req" or "res", text |-> string]

VARIABLES stream,    \* the stream being read
          fed,       \* how many of its characters have been handed over
          ended,     \* the end has been handed over
          parser

streamVars == <<stream, fed, ended, parser>>

StreamInit ==
    /\ stream \in Streams
    /\ fed = 0
    /\ ended = FALSE
    /\ parser = http_parser_init(stream.type, HttpLog)

\* A parser that has failed, or that has found another protocol, gets no
\* more calls.
Usable == parser.http_errno = "OK" /\ ~parser.upgrade /\ ~ended

Feed ==
    /\ Usable
    /\ \E n \in 1..(Len(stream.text) - fed) :
         /\ parser' = Kept(http_parser_execute(parser, SubSeq(stream.text, fed + 1, fed + n)))
         /\ fed' = fed + n
    /\ UNCHANGED <<stream, ended>>

End ==
    /\ Usable
    /\ fed = Len(stream.text)
    /\ parser' = Kept(http_parser_execute(parser, ""))
    /\ ended' = TRUE
    /\ UNCHANGED <<stream, fed>>

StreamNext == Feed \/ End
StreamSpec == StreamInit /\ [][StreamNext]_streamVars

-----------------------------------------------------------------------------
\* The parser that got the same characters in one call.
Whole == http_parser_execute(http_parser_init(stream.type, HttpLog), SubSeq(stream.text, 1, fed))

SameAs(whole) ==
    IF parser.http_errno = "OK" THEN parser = whole ELSE parser.http_errno = whole.http_errno

\* The pieces do not matter: however the input is cut, http_parser_execute
\* ends in the state, with the callbacks, of one call with all of it
\* (http_parser.c 638-705, 2054-2076: the marks are set again at the start
\* of a call and flushed at its end). A stream with an error has the same
\* error wherever the cut was; a piece before it may have been handed on.
SplitInvariant ==
    fed > 0 /\ ~ended => SameAs(Kept(Whole))

\* No assertion of http_parser.c fails: nread is 1 at the start of every
\* chunk size, a length is given and positive where a body is read, and at
\* most one mark is left at the end of a call (1521, 1878, 1927, 2012, 2064).
NoAssertFails == parser.http_errno # "assertion"

\* The entries of the log since the last message_begin.
Current ==
    LET log == parser.user.log
        begins == {i \in 1..Len(log) : log[i][1] = "message_begin"}
    IN  SubSeq(log, CHOOSE i \in begins : \A j \in begins : j <= i, Len(log))

\* The digits of a value as a number, of any size.
NumberIn(s) ==
    LET f[i \in 0..Len(s)] == IF i = 0 THEN 0
                             ELSE LET r == f[i - 1] IN
                                  IF IS_NUM(Ch(s, i)) THEN r * 10 + Value(Ch(s, i)) ELSE r
    IN  f[Len(s)]

\* While a body with a length is read, what has been handed to on_body and
\* what is still expected add up to the number in the Content-Length header:
\* a number too large for content_length is refused, never cut to size
\* (http_parser.c 1544-1555), and no byte is counted twice over the calls
\* (1873-1905).
LengthRight ==
    parser.http_errno = "OK" /\ parser.state = "body_identity" =>
      \E i \in 1..Len(Current) :
         /\ Current[i][1] = "header_field" /\ Lowered(Current[i][2]) = "content-length"
         /\ NumberIn(Current[i + 1][2]) =
              parser.content_length
                + (IF Current[Len(Current)][1] = "body" THEN Len(Current[Len(Current)][2]) ELSE 0)

\* http_parser_execute reads a stream the same way however it is cut, with its
\* assertions kept and every body of the length that was announced.
StreamRight == SplitInvariant /\ NoAssertFails /\ LengthRight
=============================================================================
