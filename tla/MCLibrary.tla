----------------------------- MODULE MCLibrary -----------------------------
(***************************************************************************)
(* Small instances of HTTP, the library and the chat service for TLC.      *)
(* `part' says which of them a behaviour is about; the others stay in one *)
(* of their initial states.                                                *)
(***************************************************************************)
EXTENDS HttpStream, HttpExchange, ByteArray, Codec, HttpPool, Socket, Chat, Config,
        LogFile, ModuleManager

MCStreams ==
    {[type |-> "req", text |-> "GET /a?x=1#f HTTP/1.1\r\nHost: h\r\nX:\r\n y\r\n\r\n"],
     [type |-> "req", text |-> "POST /p HTTP/1.1\r\nContent-Length: 3\r\n\r\nabcGET / HTTP/1.0\r\n\r\n\r\n"],
     [type |-> "req", text |-> "PUT /p HTTP/1.1\r\ntransfer-encoding: Chunked\r\n\r\n2;e\r\nab\r\n0\r\nT: v\r\n\r\n"],
     [type |-> "req", text |-> "GET http://u@h:8/ HTTP/1.1\r\nUpgrade: w\r\nConnection: keep-alive, Upgrade\r\n\r\nzz"],
     [type |-> "req", text |-> "HEAD / HTTP/1.1\r\nContent-Length: 9999\r\n\r\n"],
     [type |-> "req", text |-> "COPY * HTTP/1.0\nConnection: keep-alive\nContent-Length: 1 \n\nxSOURCE /s ICE/1.0\r\n\r\n"],
     [type |-> "req", text |-> "GET / HTTP/1.1\r\nA: 01234567890123456789012345678901234567890123456789012345678901\r\n\r\n"],
     [type |-> "res", text |-> "HTTP/1.1 200 OK\r\nContent-Length: 2\r\n\r\nokHTTP/1.1 404\r\n\r\nto the end"],
     [type |-> "res", text |-> "HTTP/1.0 204 No\r\nProxy-Connection: close\r\n\r\nH"]}

MCRequests ==
    {[method |-> "GET", path |-> "/e", query |-> "q=1", body |-> ""],
     [method |-> "POST", path |-> "/r", query |-> "", body |-> "ab"]}

MCItems == {<<"fix", 6>>, <<"uint", 5>>, <<"int", -4>>, <<"string", <<>>>>,
            <<"string", <<3, 2, 1, 0>>>>, <<"vstring", <<2>>>>}

\* URLs with a fragment behind the host are refused by http_parser.
MCUrls ==
    {u \in [scheme : {"http", "wss", "ftp"}, userinfo : {"", "u:p"}, host : {"a.b"},
            port : {0, 80, 443, 8}, path : {"", "/", "/x"}, query : {"", "k=v"},
            fragment : {"", "f"}] :
       u.fragment = "" \/ u.path # "" \/ u.query # ""}
MCPairs == BoundedSeq({"a", "b&", "c="} \X {"", "x y", "1%2", "+;"}, 2) \ {<<>>}
MCParts == {[text |-> <<"x">>], [text |-> <<"{", "}">>], [item |-> "m"], [item |-> "%"],
            [date |-> <<"H">>], [date |-> <<"%", "d">>], [plain |-> TRUE]}
MCArgs == [dash : BOOLEAN, text : {"", "a", "b"}]

MCRemotes == {[family |-> 4, host |-> 1], [family |-> 6, host |-> 3]}
MCUsersOf == <<{"f1"}, {"f1", "f2"}>>

Appenders(t, f, p) == [type |-> t, file |-> f, pattern |-> p]
Entry(n, l, as) == [name |-> n, level |-> l, appenders |-> as]
MCContents ==
    {Broken,
     <<Entry("b", "WARN", <<Appenders("StdoutLogAppender", FALSE, "%p")>>)>>,
     <<Entry("a", "INFO", <<Appenders("StdoutLogAppender", FALSE, ""), Appenders("", FALSE, "")>>)>>,
     <<Entry("a", "ERROR", <<Appenders("FileLogAppender", TRUE, "%m")>>), Entry("b", "none", <<>>)>>,
     <<Entry("b", "WARN", <<Appenders("FileLogAppender", FALSE, "")>>)>>,
     <<Entry("b", "WARN", <<Appenders("Syslog", FALSE, "")>>)>>}

MCIdOf == [f \in Files |-> IF f = "m3" THEN "i2" ELSE "i1"]

VARIABLE part
netVars == <<poolVars, sockVars, chatVars>>
allVars == <<part, streamVars, exchangeVars, baVars, codecVars, netVars, configVars, logVars, modVars>>

MCInit ==
    /\ part \in {"stream", "exchange", "bytearray", "codec", "pool", "socket", "chat",
                  "config", "log", "modules"}
    /\ StreamInit /\ (part # "stream" => stream = CHOOSE s \in Streams : TRUE)
    /\ ExchangeInit
    /\ changes = IF part = "exchange" /\ pooled THEN MaxChanges ELSE 0
    /\ part # "exchange" => ~m_keepalive /\ ~pooled
    /\ BAInit /\ (part # "bytearray" => ~little /\ m_baseSize = CHOOSE b \in BaseSizes : TRUE)
    /\ CodecInit /\ PoolInit /\ SockInit /\ ChatInit /\ ConfigInit /\ LogFileInit /\ ModInit

Stream ==
    /\ part = "stream" /\ StreamNext
    /\ UNCHANGED <<part, exchangeVars, baVars, codecVars, netVars, configVars, logVars,
                   modVars>>
Exchange ==
    /\ part = "exchange" /\ ExchangeNext
    /\ UNCHANGED <<part, streamVars, baVars, codecVars, netVars, configVars, logVars, modVars>>
Bytes ==
    /\ part = "bytearray" /\ BANext
    /\ UNCHANGED <<part, streamVars, exchangeVars, codecVars, netVars, configVars,
                   logVars, modVars>>
Codecs ==
    /\ part = "codec" /\ CodecNext
    /\ UNCHANGED <<part, streamVars, exchangeVars, baVars, netVars, configVars, logVars,
                   modVars>>
Pool ==
    /\ part = "pool" /\ PoolNext
    /\ UNCHANGED <<part, streamVars, exchangeVars, baVars, codecVars, sockVars, chatVars,
                   configVars, logVars, modVars>>
Sockets ==
    /\ part = "socket" /\ SockNext
    /\ UNCHANGED <<part, streamVars, exchangeVars, baVars, codecVars, poolVars, chatVars,
                   configVars, logVars, modVars>>
Chats ==
    /\ part = "chat" /\ ChatNext
    /\ UNCHANGED <<part, streamVars, exchangeVars, baVars, codecVars, poolVars, sockVars,
                   configVars, logVars, modVars>>
Configs ==
    /\ part = "config" /\ ConfigNext
    /\ UNCHANGED <<part, streamVars, exchangeVars, baVars, codecVars, netVars, logVars,
                   modVars>>
Logs ==
    /\ part = "log" /\ LogFileNext
    /\ UNCHANGED <<part, streamVars, exchangeVars, baVars, codecVars, netVars,
                   configVars, modVars>>
Modules ==
    /\ part = "modules" /\ ModNext
    /\ UNCHANGED <<part, streamVars, exchangeVars, baVars, codecVars, netVars,
                   configVars, logVars>>

MCSpec ==
    /\ MCInit
    /\ [][\/ Stream \/ Exchange \/ Bytes \/ Codecs \/ Pool \/ Sockets
          \/ Chats \/ Configs \/ Logs \/ Modules]_allVars
=============================================================================
