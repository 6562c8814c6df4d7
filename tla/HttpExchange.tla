---------------------------- MODULE HttpExchange ----------------------------
(***************************************************************************)
(* One connection between an HTTP client (HttpConnection::DoRequest or     *)
(* HttpConnectionPool::doRequest) and an HttpServer: the client writes a   *)
(* request, HttpSession::recvRequest reads and parses it in pieces of any  *)
(* size, ServletDispatch finds the servlet, the response goes back and     *)
(* HttpConnection::recvResponse reads it in pieces. TCP is two strings in  *)
(* order; read errors (-1) and resets are not modelled.                    *)
(***************************************************************************)
EXTENDS HttpParser, HttpCallbacks

CONSTANTS Requests,     \* what the application asks for: [method, path, query, body]
          Paths,        \* the uris servlets are registered for
          MaxSent,      \* requests on the connection
          MaxReads,     \* pieces a message is read in
          MaxChanges    \* changes of the servlet table

VARIABLES m_keepalive,  \* of the server
          pooled,       \* the client is a HttpConnectionPool
          m_data, m_glob, \* ServletDispatch: exact uris, patterns in order
          changes,
          call,         \* the request being answered
          sent,         \* requests written
          toServer, toClient,    \* bytes under way
          server, client,        \* "recv", "closed"; the client also "idle"
          sParser, cParser,      \* the parsers of recvRequest and recvResponse
          reads,                 \* pieces read of the current message
          clean,                 \* no piece ended inside a url or a header
          got,                   \* the request the servlet got, and clean
          answer,                \* the response it gave
          result                 \* what the application got, and clean

serverVars == <<m_keepalive, m_data, m_glob, changes, toServer, server, sParser, got, answer>>
clientVars == <<pooled, call, sent, client, cParser, result>>
exchangeVars == <<serverVars, clientVars, toClient, reads, clean>>

None == [none |-> TRUE]
ReqParser == http_parser_init("req", HttpRequestParser)
ResParser == http_parser_init("res", HttpResponseParser)

ExchangeInit ==
    /\ m_keepalive \in BOOLEAN /\ pooled \in BOOLEAN
    /\ m_data = ("/e" :> "echo") /\ m_glob = << <<"/*", "redirect">> >>
    /\ changes \in 0..MaxChanges
    /\ call = None /\ sent = 0
    /\ toServer = "" /\ toClient = ""
    /\ server = "recv" /\ client = "idle"
    /\ sParser = ReqParser /\ cParser = ResParser
    /\ reads = 0 /\ clean = TRUE
    /\ got = None /\ answer = None /\ result = None

-----------------------------------------------------------------------------
\* fnmatch (external) for the two forms of patterns in use: "/*" matches
\* every path, another pattern only itself.
fnmatch(pattern, uri) == pattern = "/*" \/ pattern = uri

\* getMatchedServlet: the exact uri, then the first pattern, then the default.
getMatchedServlet(uri) ==
    LET at == {i \in 1..Len(m_glob) : fnmatch(m_glob[i][1], uri)}
    IN  IF uri \in DOMAIN m_data THEN m_data[uri]
        ELSE IF at # {} THEN m_glob[CHOOSE i \in at : \A j \in at : i <= j][2]
        ELSE "notfound"

\* Mutant: the old entry for the pattern stays in the list.
WithoutGlob_Missed(uri) == m_glob

\* The list of patterns without the first entry for uri.
WithoutGlob(uri) ==
    LET at == {i \in 1..Len(m_glob) : m_glob[i][1] = uri}
        i == CHOOSE i \in at : \A j \in at : i <= j
    IN  IF at = {} THEN m_glob
        ELSE SubSeq(m_glob, 1, i - 1) \o SubSeq(m_glob, i + 1, Len(m_glob))

\* The application changes the table. A change commutes with the reads of a
\* message, so it is taken before them only.
Change ==
    /\ changes < MaxChanges
    /\ reads = 0 /\ toClient = "" /\ result = None
    /\ changes' = changes + 1
    /\ UNCHANGED <<clientVars, m_keepalive, toServer, toClient, server, sParser, got, answer,
                   reads, clean>>

addServlet ==
    /\ Change
    /\ \E uri \in Paths, s \in {"echo", "redirect"} : m_data' = (uri :> s) @@ m_data
    /\ UNCHANGED m_glob

delServlet ==
    /\ Change
    /\ \E uri \in Paths : m_data' = [u \in DOMAIN m_data \ {uri} |-> m_data[u]]
    /\ UNCHANGED m_glob

addGlobServlet ==
    /\ Change
    /\ \E uri \in Paths \cup {"/*"}, s \in {"echo", "redirect"} :
         m_glob' = Append(WithoutGlob(uri), <<uri, s>>)
    /\ UNCHANGED m_data

delGlobServlet ==
    /\ Change
    /\ \E uri \in Paths \cup {"/*"} : m_glob' = WithoutGlob(uri)
    /\ UNCHANGED m_data

\* What the servlets do with the response: "echo" answers with the body or
\* the query, "redirect" sets no body, ServletNotFound has a page.
handle(req, rsp) ==
    LET s == getMatchedServlet(req.path) IN
    CASE s = "echo" -> [rsp EXCEPT !.body = req.query \o req.body]
      [] s = "redirect" -> setRedirect(rsp, "/e")
      [] s = "notfound" -> [setHeader(rsp, "Server", "luwu") EXCEPT
                              !.status = 404, !.body = "404"]

-----------------------------------------------------------------------------
\* A read ended inside a url, a header name or a header value.
Inside(p) == p.state \in UrlStates \cup {"header_field", "header_value"}

\* HttpRequestParser::execute and HttpResponseParser::execute.
WithError(q, error) == [q EXCEPT !.user.error = IF error THEN "UNKNOWN" ELSE q.http_errno]
Upgrades(q) == WithError(q, q.upgrade)
ExecuteRequest(p, data) == Upgrades(http_parser_execute(p, data))
ExecuteResponse(p, data) == WithError(http_parser_execute(p, data), FALSE)

\* HttpConnection::DoRequest and HttpConnectionPool::doRequest build the
\* request; the pool keeps the connection open.
Built(r) ==
    setHeader([HttpRequest(17, ~pooled) EXCEPT !.method = r.method, !.path = r.path,
                                               !.query = r.query, !.body = r.body],
              "Host", "h")

DoRequest ==
    /\ client = "idle"
    /\ sent < MaxSent
    /\ \E r \in Requests :
         /\ call' = Built(r)
         /\ toServer' = toServer \o DumpRequest(Built(r))
    /\ sent' = sent + 1
    /\ client' = "recv"
    /\ cParser' = ResParser
    /\ reads' = 0 /\ clean' = TRUE
    /\ got' = None /\ answer' = None /\ result' = None
    /\ UNCHANGED <<m_keepalive, pooled, m_data, m_glob, changes, toClient, server, sParser>>

\* HttpServer::handleClient with the request of a parser that has finished:
\* the servlet, the response, and the end of the loop or the next request.
Handled(q) ==
    \E req \in {init(q.user.data)} :
    \E rsp \in {handle(req, setHeader(HttpResponse(req.version, req.close \/ ~m_keepalive),
                                      "Server", "s"))} :
        /\ got' = [req |-> req, clean |-> clean]
        /\ answer' = rsp
        /\ toClient' = toClient \o DumpResponse(rsp)
        /\ server' = IF req.close \/ ~m_keepalive THEN "closed" ELSE "recv"
        /\ sParser' = ReqParser
        /\ reads' = 0
        /\ clean' = TRUE

\* HttpSession::recvRequest reads n bytes.
ServerRead(n) ==
    /\ server = "recv"
    /\ toServer # ""
    /\ toServer' = SubSeq(toServer, n + 1, Len(toServer))
    /\ \E q \in {Kept(ExecuteRequest(sParser, SubSeq(toServer, 1, n)))} :
       CASE q.user.error # "OK" ->
              /\ server' = "closed" /\ sParser' = ReqParser
              /\ UNCHANGED <<toClient, got, answer, reads, clean>>
         [] q.user.error = "OK" /\ q.user.finished -> Handled(q)
         [] OTHER ->
              /\ sParser' = q
              /\ reads' = reads + 1
              /\ clean' = (clean /\ ~Inside(q))
              /\ UNCHANGED <<toClient, server, got, answer>>
    /\ UNCHANGED <<clientVars, m_keepalive, m_data, m_glob, changes>>

\* At most MaxReads pieces: the last one is all there is.
ServerReads ==
    \E n \in 1..Len(toServer) :
       (reads < MaxReads - 1 \/ n = Len(toServer)) /\ ServerRead(n)

\* The peer has closed: read returns 0.
ServerEof ==
    /\ server = "recv"
    /\ toServer = "" /\ client = "closed"
    /\ server' = "closed"
    /\ UNCHANGED <<clientVars, m_keepalive, m_data, m_glob, changes, toServer, sParser, got,
                   answer, toClient, reads, clean>>

\* The end of DoRequest, which drops its connection, or of the pool's
\* doRequest, which keeps it (ReleasePtr) if it is still connected and has
\* not had m_maxRequest requests.
Finished(error, rsp, connected) ==
    /\ result' = [error |-> error, rsp |-> rsp, clean |-> clean]
    /\ client' = IF pooled /\ connected /\ sent < MaxSent THEN "idle" ELSE "closed"

\* HttpConnection::recvResponse reads n bytes.
ClientRead(n) ==
    /\ client = "recv"
    /\ toClient # ""
    /\ toClient' = SubSeq(toClient, n + 1, Len(toClient))
    /\ got' = None
    /\ reads' = reads + 1
    /\ \E q \in {Kept(ExecuteResponse(cParser, SubSeq(toClient, 1, n)))} :
       CASE q.user.error # "OK" -> Finished("TIMEOUT", None, FALSE) /\ UNCHANGED <<cParser, clean>>
         [] q.user.error = "OK" /\ q.user.finished ->
              Finished("OK", q.user.data, TRUE) /\ cParser' = ResParser /\ UNCHANGED clean
         [] OTHER -> /\ cParser' = q
                     /\ clean' = (clean /\ ~Inside(q))
                     /\ UNCHANGED <<client, result>>
    /\ UNCHANGED <<m_keepalive, pooled, m_data, m_glob, changes, call, sent, toServer, server,
                   sParser, answer>>

ClientReads ==
    \E n \in 1..Len(toClient) :
       (reads < MaxReads - 1 \/ n = Len(toClient)) /\ ClientRead(n)

ClientEof ==
    /\ client = "recv"
    /\ toClient = "" /\ server = "closed"
    /\ Finished("TIMEOUT", None, FALSE)
    /\ UNCHANGED <<serverVars, pooled, call, sent, cParser, toClient, reads, clean>>

ExchangeNext ==
    \/ addServlet \/ delServlet \/ addGlobServlet \/ delGlobServlet
    \/ DoRequest \/ ServerReads \/ ServerEof \/ ClientReads \/ ClientEof

ExchangeSpec == ExchangeInit /\ [][ExchangeNext]_exchangeVars

-----------------------------------------------------------------------------
\* The headers a message has on the wire.
OnWire(m) ==
    [m EXCEPT !.headers =
       ("connection" :> IF m.close THEN "close" ELSE "keep-alive")
         @@ (IF m.body = "" THEN <<>> ELSE "content-length" :> ToString(Len(m.body)))
         @@ @]

\* The request a servlet gets is the request that was made: what dump writes,
\* http_parser and the callbacks read back, method, path, query, headers and
\* body, in whatever pieces it comes (http.cpp 130-161, http_parser.cpp
\* 86-197), as long as no piece ends inside the url or a header.
RequestArrives == got # None /\ got.clean => got.req = OnWire(call)

\* The response the application gets is the one the servlet gave (http.cpp
\* 243-268, http_parser.cpp 247-330), with the same restriction.
ResponseArrives ==
    result # None /\ result.error = "OK" /\ result.clean =>
      result.rsp = [OnWire(answer) EXCEPT !.close = TRUE]

\* Client and server wait for each other only after a response without a
\* body on a connection that stays open: dump writes no content-length then,
\* and the client takes what follows, up to the end of the connection, for
\* the body (http.cpp 262-266, http_parser.c 1859-1866).
WaitsForCause ==
    client = "recv" /\ server = "recv" /\ toClient = "" /\ toServer = "" /\ sent > 0
      => answer # None /\ answer.body = "" /\ ~answer.close

\* The client reports a failure only when the server has closed; it gets its
\* answer otherwise (http_connection.cpp 131-138, 367-375).
FailsForCause ==
    result # None /\ result.error # "OK" => server = "closed" \/ ~result.clean

\* A pattern is registered once (servlet.cpp 74-83): an old servlet for a
\* pattern never answers after it was replaced.
OnePerPattern == \A i, j \in 1..Len(m_glob) : m_glob[i][1] = m_glob[j][1] => i = j

\* A request and its response arrive as they were made, and neither end waits
\* or fails without a cause; a pattern has one servlet (http_connection.cpp
\* 108-160, http_server.cpp 20-48, servlet.cpp 60-135).
ExchangeRight ==
    /\ RequestArrives /\ ResponseArrives
    /\ WaitsForCause /\ FailsForCause
    /\ OnePerPattern
=============================================================================
