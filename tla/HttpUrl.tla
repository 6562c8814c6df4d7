------------------------------ MODULE HttpUrl ------------------------------
(***************************************************************************)
(* The characters of http-parser/http_parser.c and its URL parser,         *)
(* http_parser_parse_url, a function from a string to the places of the    *)
(* fields of a URL. Characters are strings of length one, offsets count    *)
(* from 0 as in the code.                                                  *)
(***************************************************************************)
EXTENDS Integers, Sequences

Ch(s, i) == SubSeq(s, i, i)
Within(s) == {Ch(s, i) : i \in 1..Len(s)}
Index(s, c) == CHOOSE i \in 1..Len(s) : Ch(s, i) = c

CR == "\r"
LF == "\n"
Digits == "0123456789"
Upper == "ABCDEFGHIJKLMNOPQRSTUVWXYZ"
Lower == "abcdefghijklmnopqrstuvwxyz"
Hex == "0123456789abcdef"
ValueOf == [c \in Within(Digits) |-> Index(Digits, c) - 1]
LowerOf == [c \in Within(Upper) |-> Ch(Lower, Index(Upper, c))]
HexOf == [c \in Within(Hex) |-> Index(Hex, c) - 1]
Letters == Within(Upper) \cup Within(Lower)
AlphaNums == Letters \cup Within(Digits)
TokenChars == AlphaNums \cup Within("!#$%&'*+-.^_|~")
UrlChars == AlphaNums \cup Within("!\"$%&'()*+,-./:;<=>@[\\]^_{|}~")
UserinfoChars == AlphaNums \cup Within("-_.!~*'()") \cup Within("%;:&=+$,")

IS_NUM(c) == c \in DOMAIN ValueOf
IS_ALPHA(c) == c \in Letters
IS_ALPHANUM(c) == c \in AlphaNums
LOWER(c) == IF c \in DOMAIN LowerOf THEN LowerOf[c] ELSE c
Value(c) == ValueOf[c]

\* The table tokens: a character of a header name in lower case, or "" (the
\* back quote, which a TLA+ string cannot hold, is left out of both tables).
TOKEN(c) == IF c \in TokenChars THEN LOWER(c) ELSE ""

\* The table unhex: the value of a hexadecimal digit or -1.
unhex(c) == IF LOWER(c) \in DOMAIN HexOf THEN HexOf[LOWER(c)] ELSE -1
IS_HEX(c) == unhex(c) # -1

\* The table normal_url_char and the other classes of characters.
IS_URL_CHAR(c) == c \in UrlChars
IS_USERINFO_CHAR(c) == c \in UserinfoChars
IS_HOST_CHAR(c) == c \in AlphaNums \cup {".", "-"}
IS_HEADER_CHAR(c) == c # "\f"     \* of the control characters in use

\* The state of a URL after one more character, "dead" when it is wrong.
parse_url_char(s, ch) ==
    CASE ch \in {" ", CR, LF, "\t", "\f"} -> "dead"
      [] s = "req_spaces_before_url" /\ ch \in {"/", "*"} -> "req_path"
      [] s \in {"req_spaces_before_url", "req_schema"} /\ IS_ALPHA(ch) -> "req_schema"
      [] s = "req_schema" /\ ch = ":" -> "req_schema_slash"
      [] s = "req_schema_slash" /\ ch = "/" -> "req_schema_slash_slash"
      [] s = "req_schema_slash_slash" /\ ch = "/" -> "req_server_start"
      [] s \in {"req_server_start", "req_server", "req_server_with_at"} ->
           CASE ch = "/" -> "req_path"
             [] ch = "?" -> "req_query_string_start"
             [] ch = "@" -> IF s = "req_server_with_at" THEN "dead" ELSE "req_server_with_at"
             [] IS_USERINFO_CHAR(ch) \/ ch \in {"[", "]"} -> "req_server"
             [] OTHER -> "dead"
      [] s = "req_path" /\ IS_URL_CHAR(ch) -> s
      [] s = "req_path" /\ ch = "?" -> "req_query_string_start"
      [] s \in {"req_query_string_start", "req_query_string"} /\ (IS_URL_CHAR(ch) \/ ch = "?") ->
           "req_query_string"
      [] s \in {"req_path", "req_query_string_start", "req_query_string"} /\ ch = "#" ->
           "req_fragment_start"
      [] s \in {"req_fragment_start", "req_fragment"} /\ (IS_URL_CHAR(ch) \/ ch = "?") ->
           "req_fragment"
      [] s \in {"req_fragment_start", "req_fragment"} /\ ch = "#" -> s
      [] OTHER -> "dead"

-----------------------------------------------------------------------------
\* The state of a host ("user@[v6]:port") after one more character.
http_parse_host_char(s, ch) ==
    CASE s \in {"userinfo", "userinfo_start"} /\ ch = "@" -> "host_start"
      [] s \in {"userinfo", "userinfo_start"} /\ IS_USERINFO_CHAR(ch) -> "userinfo"
      [] s = "host_start" /\ ch = "[" -> "v6_start"
      [] s \in {"host_start", "host"} /\ IS_HOST_CHAR(ch) -> "host"
      [] s \in {"host", "v6_end"} /\ ch = ":" -> "port_start"
      [] s \in {"v6", "v6_zone"} /\ ch = "]" -> "v6_end"
      [] s \in {"v6", "v6_start"} /\ (IS_HEX(ch) \/ ch \in {":", "."}) -> "v6"
      [] s = "v6" /\ ch = "%" -> "v6_zone_start"
      [] s \in {"v6_zone", "v6_zone_start"}
           /\ (IS_ALPHANUM(ch) \/ ch \in Within("%.-_~")) -> "v6_zone"
      [] s \in {"port", "port_start"} /\ IS_NUM(ch) -> "port"
      [] OTHER -> "dead"

\* A field of a URL: [off, len]; the fields found are the domain of u.fields.
NoField == [off |-> 0, len |-> 0]
Field(u, k) == IF k \in DOMAIN u.fields THEN u.fields[k] ELSE NoField
SetField(u, k, f) ==
    [u EXCEPT !.fields = [j \in DOMAIN @ \cup {k} |-> IF j = k THEN f ELSE @[j]]]
Longer(u, k) == [u EXCEPT !.fields[k].len = @ + 1]

\* http_parse_host splits the host field into user, host and port.  Character i
\* takes it to state s; a change of the state begins a field.
HostField(r, s, i, k) ==
    IF s = r.s THEN Longer(r.u, k) ELSE SetField(r.u, k, [off |-> i - 1, len |-> 1])
HostChar(r, s, i) ==
    [s |-> s,
     u |-> CASE s \in {"host", "v6"} ->
                  SetField(r.u, "HOST", [off |-> IF s = r.s THEN Field(r.u, "HOST").off ELSE i - 1,
                                         len |-> Field(r.u, "HOST").len + 1])
             [] s \in {"v6_zone_start", "v6_zone"} -> Longer(r.u, "HOST")
             [] s = "port" -> HostField(r, s, i, "PORT")
             [] s = "userinfo" -> HostField(r, s, i, "USERINFO")
             [] OTHER -> r.u]
HostStep(r, buf, i) ==
    IF r.s = "dead" THEN r ELSE HostChar(r, http_parse_host_char(r.s, Ch(buf, i)), i)
HostDone(r) == [r.u EXCEPT !.ok = r.s \in {"host", "v6_end", "port"}]

http_parse_host(buf, u, found_at) ==
    LET from == Field(u, "HOST").off
        run[i \in 0..Field(u, "HOST").len] ==
            IF i = 0 THEN [s |-> IF found_at THEN "userinfo_start" ELSE "host_start",
                           u |-> SetField(u, "HOST", [off |-> from, len |-> 0])]
            ELSE HostStep(run[i - 1], buf, from + i)
    IN  HostDone(run[Field(u, "HOST").len])

\* The number in a field of digits.
Number(buf, f) ==
    LET v[i \in 0..f.len] == IF i = 0 THEN 0 ELSE v[i - 1] * 10 + Value(Ch(buf, f.off + i))
    IN  v[f.len]

\* The field a state of the URL belongs to, "" at a delimiter.
UrlField(s) ==
    CASE s = "req_schema" -> "SCHEMA"
      [] s \in {"req_server", "req_server_with_at"} -> "HOST"
      [] s = "req_path" -> "PATH"
      [] s = "req_query_string" -> "QUERY"
      [] s = "req_fragment" -> "FRAGMENT"
      [] OTHER -> ""

\* Character i takes the URL to state s.
UrlChar(r, s, i) ==
    LET uf == UrlField(s)
    IN  [s |-> s, at |-> r.at \/ s = "req_server_with_at",
         old |-> IF uf = "" THEN r.old ELSE uf,
         u |-> IF uf = "" THEN r.u
               ELSE IF uf = r.old THEN Longer(r.u, uf)
               ELSE SetField(r.u, uf, [off |-> i - 1, len |-> 1])]
UrlStep(r, buf, i) ==
    IF r.s = "dead" THEN r ELSE UrlChar(r, parse_url_char(r.s, Ch(buf, i)), i)

\* After the last character: the host is split, the port read.
NoUrl == [ok |-> TRUE, fields |-> <<>>, port |-> 0]
BadUrl == [NoUrl EXCEPT !.ok = FALSE]
UrlPort(buf, u, is_connect) ==
    IF ~u.ok \/ (is_connect /\ DOMAIN u.fields # {"HOST", "PORT"}) THEN BadUrl
    ELSE IF "PORT" \notin DOMAIN u.fields THEN u
    ELSE IF Number(buf, u.fields["PORT"]) > 65535 THEN BadUrl
    ELSE [u EXCEPT !.port = Number(buf, u.fields["PORT"])]
UrlHost(buf, r, is_connect) ==
    IF \/ buf = ""
       \/ r.s = "dead"
       \/ "SCHEMA" \in DOMAIN r.u.fields /\ "HOST" \notin DOMAIN r.u.fields
    THEN BadUrl
    ELSE UrlPort(buf, IF "HOST" \in DOMAIN r.u.fields THEN http_parse_host(buf, r.u, r.at) ELSE r.u,
                 is_connect)

http_parser_parse_url(buf, is_connect) ==
    LET run[i \in 0..Len(buf)] ==
            IF i = 0 THEN [s |-> IF is_connect THEN "req_server_start" ELSE "req_spaces_before_url",
                           old |-> "", at |-> FALSE, u |-> NoUrl]
            ELSE UrlStep(run[i - 1], buf, i)
    IN  UrlHost(buf, run[Len(buf)], is_connect)

\* The text of a field.
Text(buf, u, k) == SubSeq(buf, Field(u, k).off + 1, Field(u, k).off + Field(u, k).len)
=============================================================================
