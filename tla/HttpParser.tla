----------------------------- MODULE HttpParser -----------------------------
(***************************************************************************)
(* http_parser_execute() of http-parser/http_parser.c as a function from a *)
(* parser and a piece of input to a parser: one operator per group of      *)
(* states, applied to the character at p.pos. The settings of the caller   *)
(* are the operators OnNotify and OnData, which take the parser and return *)
(* it with http_errno set when the callback fails.                         *)
(*                                                                         *)
(* Characters are strings of length one. The loops over the characters of  *)
(* a header are taken one character at a time, which gives the same states *)
(* and the same count nread (1248-1382, 1469-1668).                        *)
(***************************************************************************)
EXTENDS HttpUrl, FiniteSets

CONSTANTS OnNotify(_, _),     \* on_message_begin, on_headers_complete...
          OnData(_, _, _),    \* on_url, on_header_field, on_body...
          MaxHeaderSize,      \* max_header_size
          ULLONG_MAX          \* the largest length

NoMark == -1
Unset == ULLONG_MAX    \* content_length: no length given

\* http_parser_init. `pos', `again' and `done' are the locals p, the jump to
\* reexecute and the return of http_parser_execute; `mark' are its marks;
\* `user' is parser->data.
http_parser_init(type, user) ==
    [type |-> type, state |-> IF type = "req" THEN "start_req" ELSE "start_res",
     flags |-> {}, content_length |-> 0, header_state |-> "general", index |-> 0,
     nread |-> 0, method |-> "DELETE", http_major |-> 0, http_minor |-> 0,
     status_code |-> 0, upgrade |-> FALSE, http_errno |-> "OK",
     pos |-> 0, again |-> FALSE, done |-> FALSE,
     mark |-> [k \in {"url", "status", "header_field", "header_value", "body"} |-> NoMark],
     user |-> user]

\* PARSING_HEADER: the states after s_headers_done are those of the body.
BodyStates == {"chunk_data", "chunk_data_almost_done", "chunk_data_done",
               "body_identity", "body_identity_eof", "message_done"}
PARSING_HEADER(s) == s \notin BodyStates

UrlStates == {"req_path", "req_schema", "req_schema_slash", "req_schema_slash_slash",
              "req_server_start", "req_server", "req_server_with_at",
              "req_query_string_start", "req_query_string",
              "req_fragment_start", "req_fragment"}

To(p, s) == [p EXCEPT !.state = s]
Flag(p, f) == [p EXCEPT !.flags = @ \cup {f}]
SET_ERRNO(p, e) == [p EXCEPT !.http_errno = e, !.done = TRUE]
Asserted(p, cond, q) == IF cond THEN q ELSE SET_ERRNO(p, "assertion")
REEXECUTE(p) == IF p.done THEN p ELSE [p EXCEPT !.again = TRUE]
MARK(p, k) == IF p.mark[k] = NoMark THEN [p EXCEPT !.mark[k] = p.pos] ELSE p

\* CALLBACK_NOTIFY and CALLBACK_DATA: a callback that fails ends the call,
\* which then returns `er'; the piece of a data callback goes from its mark
\* to `end'.
Failed(q, er) == [q EXCEPT !.done = TRUE, !.pos = er]
Notified(q, er) == IF q.http_errno = "OK" THEN q ELSE Failed(q, er)
CALLBACK_NOTIFY_(p, k, er) == Notified(OnNotify(p, k), er)

CALLBACK_NOTIFY(p, k) == CALLBACK_NOTIFY_(p, k, p.pos + 1)
CALLBACK_NOTIFY_NOADVANCE(p, k) == CALLBACK_NOTIFY_(p, k, p.pos)

Told(q, k, er) == IF q.http_errno = "OK" THEN [q EXCEPT !.mark[k] = NoMark] ELSE Failed(q, er)
CALLBACK_DATA_(p, k, data, end, er) ==
    IF p.mark[k] = NoMark \/ p.done THEN p
    ELSE Told(OnData(p, k, SubSeq(data, p.mark[k] + 1, end)), k, er)

CALLBACK_DATA(p, k, data) == CALLBACK_DATA_(p, k, data, p.pos, p.pos + 1)
CALLBACK_DATA_NOADVANCE(p, k, data) == CALLBACK_DATA_(p, k, data, p.pos, p.pos)

\* COUNT_HEADER_SIZE
COUNT_HEADER_SIZE(p) ==
    LET q == [p EXCEPT !.nread = @ + 1]
    IN  IF q.nread > MaxHeaderSize THEN SET_ERRNO(q, "HEADER_OVERFLOW") ELSE q

\* Does the parser need to see the end of the connection to find the end of
\* the message?
http_message_needs_eof(p) ==
    /\ p.type # "req"
    /\ ~(p.status_code \div 100 = 1 \/ p.status_code \in {204, 304}
           \/ "SKIPBODY" \in p.flags)
    /\ ~("CHUNKED" \in p.flags \/ p.content_length # Unset)

http_should_keep_alive(p) ==
    /\ IF p.http_major > 0 /\ p.http_minor > 0
       THEN "CONNECTION_CLOSE" \notin p.flags
       ELSE "CONNECTION_KEEP_ALIVE" \in p.flags
    /\ ~http_message_needs_eof(p)

NEW_MESSAGE(p) ==
    To(p, IF ~http_should_keep_alive(p) THEN "dead"
          ELSE IF p.type = "req" THEN "start_req" ELSE "start_res")

Complete(p) == CALLBACK_NOTIFY(NEW_MESSAGE(p), "message_complete")

-----------------------------------------------------------------------------
\* s_dead, s_start_res and s_start_req: CR and LF between messages are
\* skipped; a new message resets flags and content_length.
StartMessage(p, ch) ==
    LET q == [p EXCEPT !.flags = {}, !.content_length = Unset] IN
    IF ch \in {CR, LF} THEN p
    ELSE CASE p.state = "dead" -> SET_ERRNO(p, "CLOSED_CONNECTION")
           [] p.state = "start_res" ->
                IF ch = "H" THEN CALLBACK_NOTIFY(To(q, "res_H"), "message_begin")
                ELSE SET_ERRNO(q, "INVALID_CONSTANT")

\* One constant character, then the next state.
Expect(p, ch, c, next, errno) ==
    IF ch = c THEN To(p, next) ELSE SET_ERRNO(p, errno)

\* "HTTP/" digit "." digit of the request line and of the status line; the
\* prefix is "res" or "req_http".
Version(p, ch) ==
    CASE p.state \in {"res_H", "req_http_H"} ->
           Expect(p, ch, "T", IF p.state = "res_H" THEN "res_HT" ELSE "req_http_HT", "STRICT")
      [] p.state \in {"res_HT", "req_http_HT"} ->
           Expect(p, ch, "T", IF p.state = "res_HT" THEN "res_HTT" ELSE "req_http_HTT", "STRICT")
      [] p.state \in {"res_HTT", "req_http_HTT"} ->
           Expect(p, ch, "P", IF p.state = "res_HTT" THEN "res_HTTP" ELSE "req_http_HTTP", "STRICT")
      [] p.state \in {"res_HTTP", "req_http_HTTP"} ->
           Expect(p, ch, "/", IF p.state = "res_HTTP" THEN "res_http_major"
                              ELSE "req_http_major", "STRICT")
      [] p.state \in {"res_http_major", "req_http_major"} ->
           IF ~IS_NUM(ch) THEN SET_ERRNO(p, "INVALID_VERSION")
           ELSE To([p EXCEPT !.http_major = Value(ch)],
                   IF p.state = "res_http_major" THEN "res_http_dot" ELSE "req_http_dot")
      [] p.state \in {"res_http_dot", "req_http_dot"} ->
           Expect(p, ch, ".", IF p.state = "res_http_dot" THEN "res_http_minor"
                              ELSE "req_http_minor", "INVALID_VERSION")
      [] p.state \in {"res_http_minor", "req_http_minor"} ->
           IF ~IS_NUM(ch) THEN SET_ERRNO(p, "INVALID_VERSION")
           ELSE To([p EXCEPT !.http_minor = Value(ch)],
                   IF p.state = "res_http_minor" THEN "res_http_end" ELSE "req_http_end")

\* The rest of the status line: code, reason, line end.
StatusLine(p, ch, data) ==
    CASE p.state = "res_http_end" ->
           Expect(p, ch, " ", "res_first_status_code", "INVALID_VERSION")
      [] p.state = "res_first_status_code" ->
           IF IS_NUM(ch) THEN To([p EXCEPT !.status_code = Value(ch)], "res_status_code")
           ELSE IF ch = " " THEN p ELSE SET_ERRNO(p, "INVALID_STATUS")
      [] p.state = "res_status_code" ->
           IF IS_NUM(ch)
           THEN LET q == [p EXCEPT !.status_code = @ * 10 + Value(ch)]
                IN  IF q.status_code > 999 THEN SET_ERRNO(q, "INVALID_STATUS") ELSE q
           ELSE IF ch = " " THEN To(p, "res_status_start")
           ELSE IF ch \in {CR, LF} THEN REEXECUTE(To(p, "res_status_start"))
           ELSE SET_ERRNO(p, "INVALID_STATUS")
      [] p.state = "res_status_start" ->
           LET q == [To(MARK(p, "status"), "res_status") EXCEPT !.index = 0]
           IN  IF ch \in {CR, LF} THEN REEXECUTE(q) ELSE q
      [] p.state = "res_status" ->
           IF ch = CR THEN CALLBACK_DATA(To(p, "res_line_almost_done"), "status", data)
           ELSE IF ch = LF THEN CALLBACK_DATA(To(p, "header_field_start"), "status", data)
           ELSE p
      [] p.state = "res_line_almost_done" -> Expect(p, ch, LF, "header_field_start", "STRICT")

\* The methods by their first letter, and where one branches off another.
FirstMethod == [A |-> "ACL", B |-> "BIND", C |-> "CONNECT", D |-> "DELETE", G |-> "GET",
                H |-> "HEAD", L |-> "LOCK", M |-> "MKCOL", N |-> "NOTIFY", O |-> "OPTIONS",
                P |-> "POST", R |-> "REPORT", S |-> "SUBSCRIBE", T |-> "TRACE", U |-> "UNLOCK"]
Branch == {<<"POST", 1, "U", "PUT">>, <<"POST", 1, "A", "PATCH">>,
           <<"POST", 1, "R", "PROPFIND">>, <<"PUT", 2, "R", "PURGE">>,
           <<"CONNECT", 1, "H", "CHECKOUT">>, <<"CONNECT", 2, "P", "COPY">>,
           <<"MKCOL", 1, "O", "MOVE">>, <<"MKCOL", 1, "E", "MERGE">>,
           <<"MKCOL", 1, "-", "M-SEARCH">>, <<"MKCOL", 2, "A", "MKACTIVITY">>,
           <<"MKCOL", 3, "A", "MKCALENDAR">>, <<"SUBSCRIBE", 1, "E", "SEARCH">>,
           <<"SUBSCRIBE", 1, "O", "SOURCE">>, <<"REPORT", 2, "B", "REBIND">>,
           <<"PROPFIND", 4, "P", "PROPPATCH">>, <<"LOCK", 1, "I", "LINK">>,
           <<"UNLOCK", 2, "S", "UNSUBSCRIBE">>, <<"UNLOCK", 2, "B", "UNBIND">>,
           <<"UNLOCK", 3, "I", "UNLINK">>}

\* s_start_req and s_req_method.
Method(p, ch) ==
    IF p.state = "start_req"
    THEN LET q == [p EXCEPT !.flags = {}, !.content_length = Unset] IN
         IF ch \in {CR, LF} THEN p
         ELSE IF ch \notin DOMAIN FirstMethod THEN SET_ERRNO(q, "INVALID_METHOD")
         ELSE CALLBACK_NOTIFY(To([q EXCEPT !.method = FirstMethod[ch], !.index = 1],
                                 "req_method"), "message_begin")
    ELSE LET next == [p EXCEPT !.index = @ + 1]
             over == p.index >= Len(p.method)
             new  == {b \in Branch : b[1] = p.method /\ b[2] = p.index /\ b[3] = ch}
         IN  IF over /\ ch = " " THEN To(next, "req_spaces_before_url")
             ELSE IF ~over /\ ch = Ch(p.method, p.index + 1) THEN next
             ELSE IF new = {} THEN SET_ERRNO(p, "INVALID_METHOD")
             ELSE [next EXCEPT !.method = (CHOOSE b \in new : TRUE)[4]]

-----------------------------------------------------------------------------
\* The states of the request's URL.
Url(p, ch, data) ==
    LET from == IF p.state = "req_spaces_before_url" /\ p.method = "CONNECT"
                THEN "req_server_start" ELSE p.state
        s == parse_url_char(from, ch)
        q == IF p.state = "req_spaces_before_url" THEN MARK(p, "url") ELSE p
        old == [p EXCEPT !.http_major = 0, !.http_minor = 9]
        open == p.state \in {"req_spaces_before_url", "req_schema", "req_schema_slash",
                             "req_schema_slash_slash", "req_server_start"}
    IN  CASE p.state = "req_spaces_before_url" /\ ch = " " -> p
          [] ~open /\ ch = " " -> CALLBACK_DATA(To(p, "req_http_start"), "url", data)
          [] ~open /\ ch = CR -> CALLBACK_DATA(To(old, "req_line_almost_done"), "url", data)
          [] ~open /\ ch = LF -> CALLBACK_DATA(To(old, "header_field_start"), "url", data)
          [] OTHER -> IF s = "dead" THEN SET_ERRNO(q, "INVALID_URL") ELSE To(q, s)

\* The states around the version of the request line ("ICE" of a SOURCE
\* request stands for "HTTP").
RequestLine(p, ch) ==
    CASE p.state = "req_http_start" ->
           CASE ch = " " -> p
             [] ch = "H" -> To(p, "req_http_H")
             [] ch = "I" /\ p.method = "SOURCE" -> To(p, "req_http_I")
             [] OTHER -> SET_ERRNO(p, "INVALID_CONSTANT")
      [] p.state = "req_http_I" -> Expect(p, ch, "C", "req_http_IC", "STRICT")
      [] p.state = "req_http_IC" -> Expect(p, ch, "E", "req_http_HTTP", "STRICT")
      [] p.state = "req_http_end" ->
           CASE ch = CR -> To(p, "req_line_almost_done")
             [] ch = LF -> To(p, "header_field_start")
             [] OTHER -> SET_ERRNO(p, "INVALID_VERSION")
      [] p.state = "req_line_almost_done" ->
           Expect(p, ch, LF, "header_field_start", "LF_EXPECTED")

-----------------------------------------------------------------------------
\* The words of header names and values the parser looks for.
Word == [matching_connection |-> "connection",
         matching_proxy_connection |-> "proxy-connection",
         matching_content_length |-> "content-length",
         matching_transfer_encoding |-> "transfer-encoding",
         matching_upgrade |-> "upgrade",
         matching_transfer_encoding_chunked |-> "chunked",
         matching_connection_keep_alive |-> "keep-alive",
         matching_connection_close |-> "close",
         matching_connection_upgrade |-> "upgrade"]
Matched == [matching_connection |-> "connection",
            matching_proxy_connection |-> "connection",
            matching_content_length |-> "content_length",
            matching_transfer_encoding |-> "transfer_encoding",
            matching_upgrade |-> "upgrade",
            matching_transfer_encoding_chunked |-> "transfer_encoding_chunked",
            matching_connection_keep_alive |-> "connection_keep_alive",
            matching_connection_close |-> "connection_close",
            matching_connection_upgrade |-> "connection_upgrade"]

\* One more character of such a word: matched, still matching, or `other'.
Matching(p, c, other) ==
    LET w == Word[p.header_state]
        i == p.index + 1
    IN  [p EXCEPT !.index = i,
                  !.header_state = IF i >= Len(w) \/ c # Ch(w, i + 1) THEN other
                                   ELSE IF i = Len(w) - 1 THEN Matched[@] ELSE @]

\* s_header_field_start and s_header_field.
HeaderField(p, ch, data) ==
    LET c == TOKEN(ch)
        next == [p EXCEPT !.index = @ + 1]
        h == p.header_state
    IN  IF p.state = "header_field_start"
        THEN CASE ch = CR -> To(p, "headers_almost_done")
               [] ch = LF -> REEXECUTE(To(p, "headers_almost_done"))
               [] c = "" -> SET_ERRNO(p, "INVALID_HEADER_TOKEN")
               [] OTHER -> [To(MARK(p, "header_field"), "header_field") EXCEPT
                              !.index = 0,
                              !.header_state =
                                 CASE c = "c" -> "C"
                                   [] c = "p" -> "matching_proxy_connection"
                                   [] c = "t" -> "matching_transfer_encoding"
                                   [] c = "u" -> "matching_upgrade"
                                   [] OTHER -> "general"]
        ELSE CASE c = "" /\ ch = ":" ->
                    CALLBACK_DATA(To(p, "header_value_discard_ws"), "header_field", data)
               [] c = "" /\ ch # ":" -> SET_ERRNO(p, "INVALID_HEADER_TOKEN")
               [] c # "" /\ h = "C" ->
                    [next EXCEPT !.header_state = IF c = "o" THEN "CO" ELSE "general"]
               [] c # "" /\ h = "CO" ->
                    [next EXCEPT !.header_state = IF c = "n" THEN "CON" ELSE "general"]
               [] c # "" /\ h = "CON" ->
                    [next EXCEPT !.header_state =
                       CASE c = "n" -> "matching_connection"
                         [] c = "t" -> "matching_content_length"
                         [] OTHER -> "general"]
               [] c # "" /\ h \in DOMAIN Word -> Matching(p, c, "general")
               [] OTHER -> [p EXCEPT !.header_state = "general"]

\* The token of a Connection header that starts with this character.
ConnectionToken(c, other) ==
    CASE c = "k" -> "matching_connection_keep_alive"
      [] c = "c" -> "matching_connection_close"
      [] c = "u" -> "matching_connection_upgrade"
      [] OTHER -> other

\* s_header_value_discard_ws and s_header_value_start: the first character
\* of a value.
ValueStart(p, ch) ==
    LET c == LOWER(ch)
        q == [To(MARK(p, "header_value"), "header_value") EXCEPT !.index = 0]
        discard == p.state = "header_value_discard_ws"
    IN  CASE discard /\ ch \in {" ", "\t"} -> p
          [] discard /\ ch = CR -> To(p, "header_value_discard_ws_almost_done")
          [] discard /\ ch = LF -> To(p, "header_value_discard_lws")
          [] OTHER ->
             CASE p.header_state = "upgrade" ->
                    [Flag(q, "UPGRADE") EXCEPT !.header_state = "general"]
               [] p.header_state = "transfer_encoding" ->
                    [q EXCEPT !.header_state = IF c = "c" THEN "matching_transfer_encoding_chunked"
                                               ELSE "general"]
               [] p.header_state = "content_length" ->
                    CASE ~IS_NUM(ch) -> SET_ERRNO(q, "INVALID_CONTENT_LENGTH")
                      [] IS_NUM(ch) /\ "CONTENTLENGTH" \in p.flags ->
                           SET_ERRNO(q, "UNEXPECTED_CONTENT_LENGTH")
                      [] OTHER -> [Flag(q, "CONTENTLENGTH") EXCEPT
                                     !.content_length = Value(ch),
                                     !.header_state = "content_length_num"]
               [] p.header_state \in {"content_length_ws", "matching_connection_token_start"} -> q
               [] p.header_state = "connection" ->
                    [q EXCEPT !.header_state = ConnectionToken(c, "matching_connection_token")]
               [] OTHER -> [q EXCEPT !.header_state = "general"]

LengthDigit_Unchecked(p, b, digit) ==
    [p EXCEPT !.content_length = (@ * b + digit) % (ULLONG_MAX + 1)]

\* One more digit of a length in base b, refused before it can overflow.
LengthDigit(p, b, digit) ==
    IF (ULLONG_MAX - b) \div b < p.content_length THEN SET_ERRNO(p, "INVALID_CONTENT_LENGTH")
    ELSE [p EXCEPT !.content_length = (@ * b + digit) % (ULLONG_MAX + 1)]

\* A further character of a Content-Length value.
ContentLength(p, ch) ==
    CASE ch = " " -> IF p.header_state = "content_length_num"
                     THEN [p EXCEPT !.header_state = "content_length_ws"] ELSE p
      [] p.header_state = "content_length_ws" -> SET_ERRNO(p, "INVALID_CONTENT_LENGTH")
      [] OTHER -> LET q == [p EXCEPT !.header_state = "content_length_num"]
                  IN  IF IS_NUM(ch) THEN LengthDigit(q, 10, Value(ch))
                      ELSE SET_ERRNO(q, "INVALID_CONTENT_LENGTH")

\* The flag of a finished value.
ValueFlag(p) ==
    CASE p.header_state = "connection_keep_alive" -> Flag(p, "CONNECTION_KEEP_ALIVE")
      [] p.header_state = "connection_close" -> Flag(p, "CONNECTION_CLOSE")
      [] p.header_state = "connection_upgrade" -> Flag(p, "CONNECTION_UPGRADE")
      [] p.header_state = "transfer_encoding_chunked" -> Flag(p, "CHUNKED")
      [] OTHER -> p

\* A further character of a Transfer-Encoding or Connection value.
ValueToken(p, ch) ==
    LET c == LOWER(ch)
        h == p.header_state
        start(q) == [q EXCEPT !.header_state = "matching_connection_token_start", !.index = 0]
    IN  CASE h = "matching_transfer_encoding_chunked" -> Matching(p, c, "general")
          [] h \in DOMAIN Word \ {"matching_transfer_encoding_chunked"} ->
               Matching(p, c, "matching_connection_token")
          [] h = "matching_connection_token_start" ->
               [p EXCEPT !.header_state =
                  ConnectionToken(c, IF TOKEN(c) # "" THEN "matching_connection_token"
                                     ELSE IF c \in {" ", "\t"} THEN h ELSE "general")]
          [] h = "matching_connection_token" -> IF ch = "," THEN start(p) ELSE p
          [] h = "transfer_encoding_chunked" ->
               IF ch = " " THEN p ELSE [p EXCEPT !.header_state = "general"]
          [] h \in {"connection_keep_alive", "connection_close", "connection_upgrade"} ->
               IF ch = "," THEN start(ValueFlag(p))
               ELSE IF ch = " " THEN p
               ELSE [p EXCEPT !.header_state = "matching_connection_token"]
          [] OTHER -> [p EXCEPT !.header_state = "general"]

\* s_header_value.
HeaderValue(p, ch, data) ==
    CASE ch = CR -> CALLBACK_DATA(To(p, "header_almost_done"), "header_value", data)
      [] ch = LF -> REEXECUTE(CALLBACK_DATA_NOADVANCE(To(p, "header_almost_done"),
                                                      "header_value", data))
      [] ~IS_HEADER_CHAR(ch) -> SET_ERRNO(p, "INVALID_HEADER_TOKEN")
      [] p.header_state \in {"connection", "transfer_encoding"} -> SET_ERRNO(p, "assertion")
      [] p.header_state \in {"content_length", "content_length_num", "content_length_ws"} ->
           ContentLength(p, ch)
      [] OTHER -> ValueToken(p, ch)

\* The states after a value: its line end, and whether the next line goes on
\* with it.
ValueEnd(p, ch, data) ==
    LET blank == ch \in {" ", "\t"} IN
    CASE p.state = "header_almost_done" ->
           Expect(p, ch, LF, "header_value_lws", "LF_EXPECTED")
      [] p.state = "header_value_lws" /\ blank ->
           REEXECUTE(To(IF p.header_state = "content_length_num"
                        THEN [p EXCEPT !.header_state = "content_length_ws"] ELSE p,
                        "header_value_start"))
      [] p.state = "header_value_lws" /\ ~blank ->
           REEXECUTE(To(ValueFlag(p), "header_field_start"))
      [] p.state = "header_value_discard_ws_almost_done" ->
           Expect(p, ch, LF, "header_value_discard_lws", "STRICT")
      [] p.state = "header_value_discard_lws" /\ blank -> To(p, "header_value_discard_ws")
      [] p.state = "header_value_discard_lws" /\ ~blank ->
           IF p.header_state = "content_length" THEN SET_ERRNO(p, "INVALID_CONTENT_LENGTH")
           ELSE REEXECUTE(CALLBACK_DATA_NOADVANCE(
                  To(MARK(ValueFlag(p), "header_value"), "header_field_start"),
                  "header_value", data))

-----------------------------------------------------------------------------
\* s_headers_almost_done: the end of the headers, or of a chunked message.
HeadersAlmostDone(p, ch) ==
    LET q == To([p EXCEPT !.upgrade =
                   IF {"UPGRADE", "CONNECTION_UPGRADE"} \subseteq p.flags
                   THEN p.type = "req" \/ p.status_code = 101
                   ELSE p.method = "CONNECT"], "headers_done")
    IN  CASE ch # LF -> SET_ERRNO(p, "STRICT")
          [] ch = LF /\ "TRAILING" \in p.flags ->
               REEXECUTE(CALLBACK_NOTIFY_NOADVANCE(To(p, "message_done"), "chunk_complete"))
          [] ch = LF /\ "TRAILING" \notin p.flags ->
               IF {"CHUNKED", "CONTENTLENGTH"} \subseteq p.flags
               THEN SET_ERRNO(p, "UNEXPECTED_CONTENT_LENGTH")
               ELSE REEXECUTE(CALLBACK_NOTIFY_NOADVANCE(q, "headers_complete"))

\* The return of a call whose rest is in another protocol.
Upgraded(p) == IF p.done THEN p ELSE [p EXCEPT !.done = TRUE, !.pos = @ + 1]

HeadersDone_KeepsCount(p, ch) ==
    IF ch # LF THEN SET_ERRNO(p, "STRICT")
    ELSE IF "CHUNKED" \in p.flags THEN To(p, "chunk_size_start")
    ELSE Complete(p)

\* s_headers_done: which body follows.
HeadersDone(p, ch) ==
    LET q == [p EXCEPT !.nread = 0]
        hasBody == "CHUNKED" \in p.flags \/ p.content_length \notin {0, Unset}
    IN  CASE ch # LF -> SET_ERRNO(p, "STRICT")
          [] ch = LF /\ p.upgrade
               /\ (p.method = "CONNECT" \/ "SKIPBODY" \in p.flags \/ ~hasBody) ->
               Upgraded(Complete(q))
          [] OTHER ->
             CASE "SKIPBODY" \in p.flags -> Complete(q)
               [] "SKIPBODY" \notin p.flags /\ "CHUNKED" \in p.flags -> To(q, "chunk_size_start")
               [] OTHER -> CASE p.content_length = 0 -> Complete(q)
                             [] p.content_length \notin {0, Unset} -> To(q, "body_identity")
                             [] OTHER -> IF http_message_needs_eof(p) THEN To(q, "body_identity_eof")
                                         ELSE Complete(q)

\* The part of a body or chunk that this call holds.
Take(p, data) ==
    LET left == Len(data) - p.pos
        to_read == IF p.content_length < left THEN p.content_length ELSE left
    IN  [MARK(p, "body") EXCEPT !.content_length = @ - to_read, !.pos = @ + to_read - 1]

\* s_body_identity, s_body_identity_eof and s_message_done.
Body(p, data) ==
    CASE p.state = "body_identity" ->
           LET q == Take(p, data) IN
           Asserted(p, p.content_length \notin {0, Unset},
             IF q.content_length > 0 THEN q
             ELSE REEXECUTE(CALLBACK_DATA_(To(q, "message_done"), "body", data,
                                           q.pos + 1, q.pos)))
      [] p.state = "body_identity_eof" -> [MARK(p, "body") EXCEPT !.pos = Len(data) - 1]
      [] p.state = "message_done" ->
           LET q == Complete(p) IN IF p.upgrade THEN Upgraded(q) ELSE q

\* The states of a chunked body; each asserts F_CHUNKED.
Chunk(p, ch, data) ==
    CASE "CHUNKED" \notin p.flags -> SET_ERRNO(p, "assertion")
      [] OTHER ->
    CASE p.state = "chunk_size_start" ->
           Asserted(p, p.nread = 1,
             IF ~IS_HEX(ch) THEN SET_ERRNO(p, "INVALID_CHUNK_SIZE")
             ELSE To([p EXCEPT !.content_length = unhex(ch)], "chunk_size"))
      [] p.state = "chunk_size" ->
           CASE ch = CR -> To(p, "chunk_size_almost_done")
             [] IS_HEX(ch) -> LengthDigit(p, 16, unhex(ch))
             [] ch \in {";", " "} -> To(p, "chunk_parameters")
             [] OTHER -> SET_ERRNO(p, "INVALID_CHUNK_SIZE")
      [] p.state = "chunk_parameters" -> IF ch = CR THEN To(p, "chunk_size_almost_done") ELSE p
      [] p.state = "chunk_size_almost_done" ->
           IF ch # LF THEN SET_ERRNO(p, "STRICT")
           ELSE LET q == [p EXCEPT !.nread = 0]
                IN  CALLBACK_NOTIFY(IF p.content_length = 0
                                    THEN To(Flag(q, "TRAILING"), "header_field_start")
                                    ELSE To(q, "chunk_data"), "chunk_header")
      [] p.state = "chunk_data" ->
           LET q == Take(p, data) IN
           Asserted(p, p.content_length \notin {0, Unset},
                  IF q.content_length = 0 THEN To(q, "chunk_data_almost_done") ELSE q)
      [] p.state = "chunk_data_almost_done" ->
           Asserted(p, p.content_length = 0,
             IF ch # CR THEN SET_ERRNO(p, "STRICT")
             ELSE CALLBACK_DATA(To(p, "chunk_data_done"), "body", data))
      [] p.state = "chunk_data_done" ->
           IF ch # LF THEN SET_ERRNO(p, "STRICT")
           ELSE CALLBACK_NOTIFY(To([p EXCEPT !.nread = 0], "chunk_size_start"), "chunk_complete")

\* The switch of http_parser_execute.
Step(p, ch, data) ==
    CASE p.state \in {"dead", "start_res"} -> StartMessage(p, ch)
      [] p.state \in {"start_req", "req_method"} -> Method(p, ch)
      [] p.state \in {"res_H", "res_HT", "res_HTT", "res_HTTP", "res_http_major",
                      "res_http_dot", "res_http_minor", "req_http_H", "req_http_HT",
                      "req_http_HTT", "req_http_HTTP", "req_http_major", "req_http_dot",
                      "req_http_minor"} -> Version(p, ch)
      [] p.state \in {"res_http_end", "res_first_status_code", "res_status_code",
                      "res_status_start", "res_status", "res_line_almost_done"} ->
           StatusLine(p, ch, data)
      [] p.state \in UrlStates \cup {"req_spaces_before_url"} -> Url(p, ch, data)
      [] p.state \in {"req_http_start", "req_http_I", "req_http_IC", "req_http_end",
                      "req_line_almost_done"} -> RequestLine(p, ch)
      [] p.state \in {"header_field_start", "header_field"} -> HeaderField(p, ch, data)
      [] p.state \in {"header_value_discard_ws", "header_value_start"} -> ValueStart(p, ch)
      [] p.state = "header_value" -> HeaderValue(p, ch, data)
      [] p.state \in {"header_almost_done", "header_value_lws", "header_value_discard_lws",
                      "header_value_discard_ws_almost_done"} -> ValueEnd(p, ch, data)
      [] p.state = "headers_almost_done" -> HeadersAlmostDone(p, ch)
      [] p.state = "headers_done" -> HeadersDone(p, ch)
      [] p.state \in {"body_identity", "body_identity_eof", "message_done"} -> Body(p, data)
      [] OTHER -> Chunk(p, ch, data)

\* The loop over the input. A jump to reexecute looks at the same character
\* again and does not count it again.
\* One turn of the loop: the header is counted, the state handles the character.
Sized(p) == IF ~p.again /\ PARSING_HEADER(p.state) THEN COUNT_HEADER_SIZE(p) ELSE p
Turn(p, data) ==
    IF p.done THEN p ELSE Step([p EXCEPT !.again = FALSE], Ch(data, p.pos + 1), data)
Moved(p) == IF p.done \/ p.again THEN p ELSE [p EXCEPT !.pos = @ + 1]

RECURSIVE Loop(_, _)
Loop(p, data) ==
    IF p.done \/ p.pos >= Len(data) THEN p
    ELSE Loop(Moved(Turn(Sized(p), data)), data)

EntryMark_Forgotten(p) ==
    CASE p.state = "header_field" -> MARK(p, "header_field")
      [] p.state \in UrlStates -> MARK(p, "url")
      [] p.state = "res_status" -> MARK(p, "status")
      [] OTHER -> p

\* The mark with which a call starts: it goes on with what the last one left.
EntryMark(p) ==
    CASE p.state = "header_field" -> MARK(p, "header_field")
      [] p.state = "header_value" -> MARK(p, "header_value")
      [] p.state \in UrlStates -> MARK(p, "url")
      [] p.state = "res_status" -> MARK(p, "status")
      [] OTHER -> p

\* The callbacks for the marks left at the end of the input.
Flush(p, data) ==
    LET f(q, k) == CALLBACK_DATA_NOADVANCE(q, k, data) IN
    IF p.done THEN p
    ELSE IF Cardinality({k \in DOMAIN p.mark : p.mark[k] # NoMark}) > 1 THEN SET_ERRNO(p, "assertion")
    ELSE f(f(f(f(f(p, "header_field"), "header_value"), "url"), "body"), "status")

\* What a parser carries from one call to the next: the marks and the place
\* are locals of the call.
Kept(p) == [p EXCEPT !.pos = 0, !.done = FALSE, !.again = FALSE,
                     !.mark = [k \in DOMAIN @ |-> NoMark]]

http_parser_execute(parser, data) ==
    LET p == Kept(parser)
    IN  CASE p.http_errno # "OK" -> p
          [] p.http_errno = "OK" /\ data = "" ->
               CASE p.state = "body_identity_eof" -> CALLBACK_NOTIFY_NOADVANCE(p, "message_complete")
                 [] p.state \in {"dead", "start_res", "start_req"} -> p
                 [] OTHER -> [SET_ERRNO(p, "INVALID_EOF_STATE") EXCEPT !.pos = 1]
          [] OTHER -> Flush(Loop(EntryMark(p), data), data)
=============================================================================
