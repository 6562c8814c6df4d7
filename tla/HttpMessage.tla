---------------------------- MODULE HttpMessage ----------------------------
(***************************************************************************)
(* The messages of http/http.cpp: HttpRequest and HttpResponse as records, *)
(* how they are written to the wire (dump), and the parameters and cookies *)
(* a request is asked for. A header map compares its keys without case, so *)
(* it is a function of the names in lower case; the order in which dump    *)
(* writes the headers is left open.                                        *)
(***************************************************************************)
EXTENDS HttpUrl, TLC, FiniteSets

LOCAL INSTANCE FiniteSetsExt

\* A string in lower case (strcasecmp compares these).
Lowered(s) ==
    LET f[i \in 0..Len(s)] == IF i = 0 THEN "" ELSE f[i - 1] \o LOWER(Ch(s, i)) IN f[Len(s)]

\* The first six methods have a name: HttpMethodToString compares the index
\* with the length of the first name, "DELETE".
HttpMethodToString(m) ==
    IF m \in {"DELETE", "GET", "HEAD", "POST", "PUT", "CONNECT"} THEN m ELSE "<unknown>"

HttpStatusToString(s) ==
    CASE s = 200 -> "OK" [] s = 302 -> "Found" [] s = 404 -> "Not Found" [] OTHER -> "<unknown>"

HttpRequest(version, close) ==
    [method |-> "GET", version |-> version, close |-> close, webSocket |-> FALSE,
     path |-> "/", query |-> "", fragment |-> "", body |-> "", headers |-> <<>>]

HttpResponse(version, close) ==
    [status |-> 200, version |-> version, close |-> close, webSocket |-> FALSE,
     reason |-> "", body |-> "", headers |-> <<>>]

setHeader(m, key, val) == [m EXCEPT !.headers = (Lowered(key) :> val) @@ @]
getHeader(m, key) == IF key \in DOMAIN m.headers THEN m.headers[key] ELSE ""

createResponse(req) == HttpResponse(req.version, req.close)
setRedirect(rsp, uri) == setHeader([rsp EXCEPT !.status = 302], "Location", uri)

Line(name, val) == name \o ": " \o val \o "\r\n"
With(s, sep) == IF s = "" THEN "" ELSE sep \o s

DumpRest_LengthShort(m, skip) ==
    FoldSet(LAMBDA k, s : Line(k, m.headers[k]) \o s, "", DOMAIN m.headers \ skip)
      \o IF m.body = "" THEN "\r\n"
         ELSE Line("content-length", ToString(Len(m.body) - 1)) \o "\r\n" \o m.body

DumpRest_LengthLong(m, skip) ==
    FoldSet(LAMBDA k, s : Line(k, m.headers[k]) \o s, "", DOMAIN m.headers \ skip)
      \o IF m.body = "" THEN "\r\n"
         ELSE Line("content-length", ToString(Len(m.body) + 1)) \o "\r\n" \o m.body

\* The header lines but those of `skip', then the body with its length or
\* the empty line.
DumpRest(m, skip) ==
    FoldSet(LAMBDA k, s : Line(k, m.headers[k]) \o s, "", DOMAIN m.headers \ skip)
      \o IF m.body = "" THEN "\r\n"
         ELSE Line("content-length", ToString(Len(m.body))) \o "\r\n" \o m.body

DumpVersion(m) == "HTTP/" \o ToString(m.version \div 16) \o "." \o ToString(m.version % 16)

DumpConnection(m) ==
    IF m.webSocket THEN "" ELSE Line("connection", IF m.close THEN "close" ELSE "keep-alive")

\* HttpRequest::dump.
DumpRequest(r) ==
    HttpMethodToString(r.method) \o " " \o r.path \o With(r.query, "?")
      \o With(r.fragment, "#") \o " " \o DumpVersion(r) \o "\r\n"
      \o DumpConnection(r)
      \o DumpRest(r, (IF r.webSocket THEN {} ELSE {"connection"})
                       \cup (IF r.body = "" THEN {} ELSE {"content-length"}))

\* HttpResponse::dump. It keeps a content-length header set by a servlet.
DumpResponse(r) ==
    DumpVersion(r) \o " " \o ToString(r.status) \o " "
      \o (IF r.reason = "" THEN HttpStatusToString(r.status) ELSE r.reason) \o "\r\n"
      \o DumpConnection(r)
      \o DumpRest(r, IF r.webSocket THEN {} ELSE {"connection"})

\* HttpRequest::init: whether the connection is to be closed.
init(r) ==
    LET conn == Lowered(getHeader(r, "connection"))
    IN  IF conn = "" THEN r ELSE [r EXCEPT !.close = conn # "keep-alive"]

-----------------------------------------------------------------------------
\* The place of the first c at or after i, Len(s) + 1 when there is none.
Find(s, c, i) ==
    LET at == {j \in i..Len(s) : Ch(s, j) = c} IN IF at = {} THEN Len(s) + 1 ELSE Min(at)

\* StringUtil::Trim for blanks.
Trim(s) ==
    LET at == {j \in 1..Len(s) : Ch(s, j) \notin {" ", "\t", "\r", "\n"}}
    IN  IF at = {} THEN "" ELSE SubSeq(s, Min(at), Max(at))

\* The characters UrlEncode and UrlDecode tell apart, with their codes; the
\* codes of the others are those of `Printable'.
Printable == " !\"#$%&'()*+,-./0123456789:;<=>?@ABCDEFGHIJKLMNOPQRSTUVWXYZ[\\]^_"
Code(c) == IF c \in Within(Printable) THEN Index(Printable, c) + 31
           ELSE IF c \in Within(Lower) THEN Index(Lower, c) + 96 ELSE 126
CharOf(n) == CHOOSE c \in Within(Printable) \cup Within(Lower) \cup {"~"} : Code(c) = n
HexDigits == "0123456789ABCDEF"

CHAR_IS_UNRESERVED_Plus(c) == IS_ALPHANUM(c) \/ c \in {"-", ".", "_", "~", "+"}
CHAR_IS_UNRESERVED(c) == IS_ALPHANUM(c) \/ c \in {"-", ".", "_", "~"}

\* StringUtil::UrlEncode with space_as_plus.
UrlEncode(s) ==
    LET one(c) == CASE CHAR_IS_UNRESERVED(c) -> c
                    [] c = " " -> "+"
                    [] OTHER -> "%" \o Ch(HexDigits, (Code(c) \div 16) + 1)
                                    \o Ch(HexDigits, (Code(c) % 16) + 1)
        f[i \in 0..Len(s)] == IF i = 0 THEN "" ELSE f[i - 1] \o one(Ch(s, i))
    IN  f[Len(s)]

\* StringUtil::UrlDecode with space_as_plus.
RECURSIVE UrlDecode(_)
UrlDecode(s) ==
    CASE s = "" -> ""
      [] s # "" /\ Ch(s, 1) = "+" -> " " \o UrlDecode(SubSeq(s, 2, Len(s)))
      [] Len(s) >= 3 /\ Ch(s, 1) = "%" /\ IS_HEX(Ch(s, 2)) /\ IS_HEX(Ch(s, 3)) ->
           CharOf(unhex(Ch(s, 2)) * 16 + unhex(Ch(s, 3))) \o UrlDecode(SubSeq(s, 4, Len(s)))
      [] OTHER -> Ch(s, 1) \o UrlDecode(SubSeq(s, 2, Len(s)))

\* PARSE_PARAM: the pairs key=value of s from place i on, separated by flag.
\* insert() keeps the first value of a key.
RECURSIVE PARSE_PARAM(_, _, _, _, _)
PARSE_PARAM(s, i, m, flag, trim) ==
    LET eq == Find(s, "=", i)
        end == Find(s, flag, eq)
        name == SubSeq(s, i, eq - 1)
        key == UrlDecode(IF trim THEN Trim(name) ELSE name)
        val == UrlDecode(SubSeq(s, eq + 1, end - 1))
        n == m @@ (key :> val)
    IN  IF eq > Len(s) THEN m
        ELSE IF end > Len(s) THEN n
        ELSE PARSE_PARAM(s, end + 1, n, flag, trim)

Form == "application/x-www-form-urlencoded"

\* initQueryParam and initBodyParam: the parameters of the query, then those
\* of a form in the body.
params(r) ==
    LET q == PARSE_PARAM(r.query, 1, <<>>, "&", FALSE)
    IN  IF getHeader(r, "content-type") = Form THEN PARSE_PARAM(r.body, 1, q, "&", FALSE) ELSE q

\* initCookies.
cookies(r) == PARSE_PARAM(getHeader(r, "cookie"), 1, <<>>, ";", TRUE)
=============================================================================
