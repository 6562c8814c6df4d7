--------------------------- MODULE HttpCallbacks ---------------------------
(***************************************************************************)
(* The callbacks of http/http_parser.cpp, which turn what the parser finds *)
(* into a request or a response, and a third set that only writes down     *)
(* what it is told. `user' is the wrapper object: HttpRequestParser,       *)
(* HttpResponseParser, or the log.                                         *)
(*                                                                         *)
(* The log joins the pieces of one token, so that two logs can be compared *)
(* whatever pieces the input came in.                                      *)
(***************************************************************************)
EXTENDS HttpMessage

HttpRequestParser ==
    [kind |-> "request", data |-> HttpRequest(17, TRUE), filed |-> "",
     finished |-> FALSE, error |-> "OK"]

HttpResponseParser ==
    [kind |-> "response", data |-> HttpResponse(17, TRUE), filed |-> "",
     finished |-> FALSE, error |-> "OK"]

HttpLog == [kind |-> "log", log |-> <<>>]

\* The log's callbacks.
LogNotify(user, k) == [user EXCEPT !.log = Append(@, <<k, "">>)]
LogData(user, k, text) ==
    LET n == Len(user.log)
    IN  IF n > 0 /\ user.log[n][1] = k
        THEN [user EXCEPT !.log[n] = <<k, @[2] \o text>>]
        ELSE [user EXCEPT !.log = Append(@, <<k, text>>)]

\* on_request_headers_complete_cb and on_request_message_complete_cb; the
\* other notifications do nothing.
on_request_notified(p, k) ==
    CASE k = "headers_complete" ->
           [p.user EXCEPT !.data.version = p.http_major * 16 + p.http_minor,
                          !.data.method = p.method]
      [] k = "message_complete" -> [p.user EXCEPT !.finished = TRUE]
      [] OTHER -> p.user

\* The same of a response.
on_response_notified(p, k) ==
    CASE k = "headers_complete" ->
           [p.user EXCEPT !.data.version = p.http_major * 16 + p.http_minor,
                          !.data.status = p.status_code]
      [] k = "message_complete" -> [p.user EXCEPT !.finished = TRUE]
      [] OTHER -> p.user

\* on_request_url_cb: each field of the URL that is there.
on_request_url(user, text, u) ==
    LET set(k, old) == IF k \in DOMAIN u.fields THEN Text(text, u, k) ELSE old
    IN  [user EXCEPT !.data.path = set("PATH", @), !.data.query = set("QUERY", @),
                     !.data.fragment = set("FRAGMENT", @)]

\* Mutant: the body is its last piece.
on_data_KeepsLast(user, k, text) ==
    CASE k = "header_field" -> [user EXCEPT !.filed = text]
      [] k = "header_value" -> [user EXCEPT !.data = setHeader(@, user.filed, text)]
      [] k = "body" -> [user EXCEPT !.data.body = text]
      [] OTHER -> user

\* The callbacks for a header's name, its value and a piece of the body.
on_data(user, k, text) ==
    CASE k = "header_field" -> [user EXCEPT !.filed = text]
      [] k = "header_value" -> [user EXCEPT !.data = setHeader(@, user.filed, text)]
      [] k = "body" -> [user EXCEPT !.data.body = @ \o text]
      [] OTHER -> user

\* The same of a response, and on_response_status_cb.
on_response_data(p, k, text) ==
    IF k = "status" THEN [p.user EXCEPT !.data.status = p.status_code]
    ELSE on_data(p.user, k, text)

Notify(p, k) ==
    [p EXCEPT !.user = CASE p.user.kind = "log" -> LogNotify(p.user, k)
                         [] p.user.kind = "request" -> on_request_notified(p, k)
                         [] p.user.kind = "response" -> on_response_notified(p, k)]

\* on_request_url_cb, the one data callback that can fail.
on_request_url_cb(p, text, u) ==
    IF u.ok THEN [p EXCEPT !.user = on_request_url(@, text, u)] ELSE [p EXCEPT !.http_errno = "CB_url"]

Data(p, k, text) ==
    CASE p.user.kind = "log" -> [p EXCEPT !.user = LogData(p.user, k, text)]
      [] p.user.kind = "response" -> [p EXCEPT !.user = on_response_data(p, k, text)]
      [] p.user.kind = "request" /\ k # "url" -> [p EXCEPT !.user = on_data(@, k, text)]
      [] p.user.kind = "request" /\ k = "url" ->
           on_request_url_cb(p, text, http_parser_parse_url(text, FALSE))
=============================================================================
