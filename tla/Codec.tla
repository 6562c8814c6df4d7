------------------------------- MODULE Codec -------------------------------
(***************************************************************************)
(* The conversions of the library, each a function from one input to its   *)
(* result: base64 and hexadecimal (util/hash_util.cpp), the text and the   *)
(* subnets of IP addresses (address.cpp), URI (uri.cpp), the parameters of *)
(* a request (http.cpp, ext.cpp), log patterns (log.cpp) and the arguments *)
(* of the program (env.cpp).  A behaviour converts one input.              *)
(***************************************************************************)
EXTENDS HttpMessage, SequencesExt

CONSTANTS
    ByteValues, MaxBytes,     \* inputs of base64encode and the hex functions
    Sextets, MaxSextets,      \* inputs of base64decode
    AddrBits,                 \* bits of an IPv4 address (32 in the code)
    Addr6Bytes, Byte6Bits,    \* bytes of an IPv6 address (16), bits of a byte (8)
    Urls,                     \* fields of the URLs tried
    Pairs,                    \* parameters tried: sequences of <<name, value>>
    Parts, MaxParts,          \* pieces a log pattern is made of
    Args, MaxArgs             \* words of a command line

VARIABLE input
codecVars == <<input>>

Fails == [fails |-> TRUE]

-----------------------------------------------------------------------------
\* base64: a character is its place in the table base64, Pad is '=' and Bad
\* any other character.
Pad == 64
Bad == 65
Group(s, k, n) == SubSeq(s, (k - 1) * n + 1, IF k * n < Len(s) THEN k * n ELSE Len(s))
Groups(s, n) == [k \in 1..((Len(s) + n - 1) \div n) |-> Group(s, k, n)]

Padding_One(n) == IF n = 3 THEN 0 ELSE 1
Padding(n) == 3 - n

EncodeGroup(g) ==
    LET at(k) == IF k <= Len(g) THEN g[k] ELSE 0
        packed == at(1) * 65536 + at(2) * 256 + at(3)
        padding == Padding(Len(g))
        all == <<packed \div 262144, (packed \div 4096) % 64, (packed \div 64) % 64, packed % 64>>
    IN  SubSeq(all, 1, 4 - padding) \o [k \in 1..padding |-> Pad]

base64encode(data) == FlattenSeq([k \in DOMAIN Groups(data, 3) |-> EncodeGroup(Groups(data, 3)[k])])

DecodeGroup(g, last) ==
    LET padding == Len(SelectSeq(g, LAMBDA c : c = Pad))
        val(k) == IF g[k] = Pad THEN 0 ELSE g[k]
        packed == ((val(1) * 64 + val(2)) * 64 + val(3)) * 64 + val(4)
    IN  IF \/ Len(g) # 4
           \/ \E k \in 1..4 : g[k] = Bad
           \/ \E k \in 1..3 : g[k] = Pad /\ g[k + 1] # Pad
           \/ padding > 0 /\ ~last
           \/ padding > 2
        THEN Fails
        ELSE [bytes |-> SubSeq(<<packed \div 65536, (packed \div 256) % 256, packed % 256>>,
                               1, 3 - padding)]

\* The empty string stands for a failure as well.
base64decode(src) ==
    LET gs == Groups(src, 4)
        out == [k \in DOMAIN gs |-> DecodeGroup(gs[k], k = Len(gs))]
    IN  IF \E k \in DOMAIN gs : out[k] = Fails THEN <<>>
        ELSE FlattenSeq([k \in DOMAIN gs |-> out[k].bytes])

\* hexstring_from_data and data_from_hexstring.
hexstring_from_data(d) ==
    FlattenSeq([k \in DOMAIN d |-> <<Ch(Hex, (d[k] \div 16) + 1), Ch(Hex, (d[k] % 16) + 1)>>])

Nibbles_Swapped(a, b) == unhex(b) * 16 + unhex(a)
Nibbles(a, b) == unhex(a) * 16 + unhex(b)

data_from_hexstring(s) ==
    IF Len(s) % 2 # 0 \/ \E k \in DOMAIN s : ~IS_HEX(s[k]) THEN Fails
    ELSE [bytes |-> [k \in 1..(Len(s) \div 2) |-> Nibbles(s[2 * k - 1], s[2 * k])]]

-----------------------------------------------------------------------------
\* IPv4 subnets. An address is its bits, the highest first. A mask for 0 bits
\* is (1 << 32) - 1, which the build evaluates to 0.
CreateMask32(bits) == [k \in 1..AddrBits |-> bits > 0 /\ k > bits]
v4_broadcastAddress(a, p) == [k \in 1..AddrBits |-> a[k] \/ CreateMask32(p)[k]]
v4_networkAddress(a, p) == [k \in 1..AddrBits |-> a[k] /\ ~CreateMask32(p)[k]]
v4_subnetMask(p) == [k \in 1..AddrBits |-> ~CreateMask32(p)[k]]

\* IPv6 subnets: bytes 0 .. Addr6Bytes-1 and the byte behind them (the scope),
\* which a prefix as long as the address reaches.
CreateMask8_OneMore(bits) == [k \in 1..Byte6Bits |-> k >= bits]
CreateMask8(bits) == [k \in 1..Byte6Bits |-> k > bits]
Bytes6 == 0..Addr6Bytes
Full == [k \in 1..Byte6Bits |-> TRUE]
Zero == [k \in 1..Byte6Bits |-> FALSE]

v6_broadcastAddress(a, p) ==
    LET at == p \div Byte6Bits
    IN  [i \in Bytes6 |->
           IF i = at THEN [k \in 1..Byte6Bits |-> a[i][k] \/ CreateMask8(p % Byte6Bits)[k]]
           ELSE IF i > at /\ i < Addr6Bytes THEN Full ELSE a[i]]

v6_subnetMask(p) ==
    LET at == p \div Byte6Bits
    IN  [i \in Bytes6 |->
           IF i = at THEN [k \in 1..Byte6Bits |-> ~CreateMask8(p % Byte6Bits)[k]]
           ELSE IF i < at THEN Full ELSE Zero]

\* IPv6Address::dump without the brackets and the port: words and colons; w
\* is the sequence of the eight words.
UsedZeros_Forgets(used, gap) == used
UsedZeros(used, gap) == used \/ gap

Dump6(w) ==
    LET run[i \in 0..8] ==
          IF i = 0 THEN [out |-> <<>>, used |-> FALSE]
          ELSE LET r == run[i - 1]
                   gap == i > 1 /\ w[i - 1] = 0 /\ ~r.used
               IN  IF w[i] = 0 /\ ~r.used THEN r
                   ELSE [used |-> UsedZeros(r.used, gap),
                         out |-> r.out \o (IF gap THEN <<":">> ELSE <<>>)
                                       \o (IF i > 1 THEN <<":">> ELSE <<>>) \o <<ToString(w[i])>>]
    IN  run[8].out \o (IF ~run[8].used /\ w[8] = 0 THEN <<":", ":">> ELSE <<>>)

-----------------------------------------------------------------------------
\* URI::Create and URI::toString.
DefaultPort(scheme) ==
    CASE scheme \in {"http", "ws"} -> 80
      [] scheme \in {"https", "wss"} -> 443
      [] OTHER -> 0

CreateUri(url) ==
    LET u == http_parser_parse_url(url, FALSE)
        f(k) == Text(url, u, k)
    IN  IF ~u.ok THEN Fails
        ELSE [scheme |-> f("SCHEMA"), userinfo |-> f("USERINFO"), host |-> f("HOST"),
              port |-> IF "PORT" \in DOMAIN u.fields THEN u.port ELSE DefaultPort(f("SCHEMA")),
              path |-> f("PATH"), query |-> f("QUERY"), fragment |-> f("FRAGMENT")]

getPath(u) == IF u.path = "" THEN "/" ELSE u.path
getPort(u) == IF u.port # 0 THEN u.port ELSE DefaultPort(u.scheme)
isDefaultPort_AnyScheme(u) == u.port \in {80, 443}
isDefaultPort(u) == DefaultPort(u.scheme) # 0 /\ u.port = DefaultPort(u.scheme)

UriToString(u) ==
    u.scheme \o "://" \o u.userinfo \o (IF u.userinfo = "" THEN "" ELSE "@") \o u.host
      \o (IF isDefaultPort(u) THEN "" ELSE ":" \o ToString(getPort(u)))
      \o getPath(u) \o With(u.query, "?") \o With(u.fragment, "#")

-----------------------------------------------------------------------------
\* LogFormatter::init on a sequence of characters: the state of its loop, and
\* the items it makes.  m_pattern[i] behind the end (a pattern ending in %d)
\* may be any character: `lucky' says whether it is '}'.
FormatItems == {"m", "p", "c", "d", "r", "f", "l", "t", "b", "n", "N", "T"}

CloseAt(p, i) == SelectInSubSeq(p, i, Len(p), LAMBDA c : c = "}")

\* The text in front of a '%' becomes an item.
TakeText_Keeps(r) ==
    [r EXCEPT !.patterns = IF r.tmp = <<>> THEN @ ELSE Append(@, <<0, r.tmp>>)]
TakeText(r) ==
    [r EXCEPT !.tmp = <<>>, !.patterns = IF r.tmp = <<>> THEN @ ELSE Append(@, <<0, r.tmp>>)]

\* One iteration of the loop at i.
Scan(p, r, lucky) ==
    LET c == p[r.i]
        item == [r EXCEPT !.i = @ + 1, !.patterns = Append(@, <<1, c>>), !.string = TRUE]
        open == r.i + 1
        close == IF open > Len(p) \/ CloseAt(p, open + 1) = 0 THEN Len(p) + 1 ELSE CloseAt(p, open + 1)
    IN  CASE r.string /\ c = "%" -> [TakeText(r) EXCEPT !.i = @ + 1, !.string = FALSE]
          [] r.string /\ c # "%" -> [r EXCEPT !.i = @ + 1, !.tmp = Append(@, c)]
          [] ~r.string /\ c # "d" -> item
          [] ~r.string /\ c = "d" /\ open <= Len(p) /\ p[open] # "{" -> item
          [] OTHER -> [item EXCEPT !.i = close + 1,
                                   !.date = @ \o SubSeq(p, open + 1, close - 1),
                                   !.error = close > Len(p) /\ ~(open > Len(p) /\ lucky)]

LogFormatterInit(p, lucky) ==
    LET first == [i |-> 1, string |-> TRUE, tmp |-> <<>>, patterns |-> <<>>,
                  date |-> <<>>, error |-> FALSE]
        run[n \in 0..Len(p)] == IF n = 0 THEN first
                                ELSE LET r == run[n - 1]
                                     IN  IF r.error \/ r.i > Len(p) THEN r ELSE Scan(p, r, lucky)
        last == run[Len(p)]
        all == last.patterns \o (IF last.tmp = <<>> THEN <<>> ELSE <<(<<0, last.tmp>>)>>)
    IN  IF last.error \/ \E k \in DOMAIN all : all[k][1] = 1 /\ all[k][2] \notin FormatItems
        THEN Fails
        ELSE [items |-> [k \in DOMAIN all |->
                IF all[k][1] = 0 THEN [text |-> all[k][2]]
                ELSE IF all[k][2] = "d" THEN [date |-> last.date]
                ELSE [item |-> all[k][2]]]]

-----------------------------------------------------------------------------
\* Env::init: the map of the arguments.  A word with a leading '-' is a key.
FlagArg_Lost(r) == r
FlagArg(r) == IF r.key = <<>> THEN r ELSE [r EXCEPT !.args = (r.key[1] :> "") @@ @]

EnvStep(r, a) ==
    CASE ~r.ok -> r
      [] r.ok /\ a.dash /\ a.text # "" -> [FlagArg(r) EXCEPT !.key = <<a.text>>]
      [] r.ok /\ ~a.dash /\ r.key # <<>> ->
           [r EXCEPT !.key = <<>>, !.args = (r.key[1] :> a.text) @@ @]
      [] OTHER -> [r EXCEPT !.ok = FALSE]

EnvInit(argv) ==
    LET r == FoldLeft(EnvStep, [ok |-> TRUE, key |-> <<>>, args |-> <<>>], argv)
    IN  IF r.ok THEN FlagArg(r) ELSE r

-----------------------------------------------------------------------------
\* One action per conversion: the inputs it is tried with.
Unread == input = [fn |-> "none"]
Bits(n) == [1..n -> BOOLEAN]

CodecInit == Unread
Encode == Unread /\ \E d \in BoundedSeq(ByteValues, MaxBytes) : input' = [fn |-> "encode", data |-> d]
Decode == Unread /\ \E s \in BoundedSeq(Sextets, MaxSextets) : input' = [fn |-> "decode", src |-> s]
Subnet4 == Unread /\ \E a \in Bits(AddrBits), p \in 0..AddrBits :
             input' = [fn |-> "subnet4", addr |-> a, prefix |-> p]
Subnet6 == Unread /\ \E a \in [0..(Addr6Bytes - 1) -> Bits(Byte6Bits)], p \in 0..(Addr6Bytes * Byte6Bits) :
             input' = [fn |-> "subnet6", addr |-> a @@ (Addr6Bytes :> Zero), prefix |-> p]
Dump == Unread /\ \E w \in [1..8 -> {0, 1}] : input' = [fn |-> "dump", words |-> w]
Uri == Unread /\ \E u \in Urls : input' = [fn |-> "uri", fields |-> u]
Query == Unread /\ \E q \in Pairs : input' = [fn |-> "query", pairs |-> q]
Pattern == Unread /\ \E q \in BoundedSeq(Parts, MaxParts), lucky \in BOOLEAN :
             input' = [fn |-> "pattern", parts |-> q, lucky |-> lucky]
Environ == Unread /\ \E a \in BoundedSeq(Args, MaxArgs) : input' = [fn |-> "env", argv |-> a]

CodecNext == Encode \/ Decode \/ Subnet4 \/ Subnet6 \/ Dump \/ Uri \/ Query \/ Pattern \/ Environ
CodecSpec == CodecInit /\ [][CodecNext]_codecVars

-----------------------------------------------------------------------------
\* base64 and hex lose nothing, and base64decode accepts a string only when it
\* is the encoding of what it returns; it ignores the bits of the last
\* character that carry no data.
Base64Exact ==
    /\ input.fn = "encode" => base64decode(base64encode(input.data)) = input.data
    /\ input.fn = "decode" =>
         LET out == base64decode(input.src)
             again == base64encode(out)
         IN  out # <<>> =>
               /\ Len(again) = Len(input.src)
               /\ \A k \in DOMAIN again :
                    \/ again[k] = input.src[k]
                    \/ k < Len(again) /\ again[k] # Pad /\ again[k + 1] = Pad

\* data_from_hexstring inverts hexstring_from_data.
HexExact ==
    input.fn = "encode" =>
      data_from_hexstring(hexstring_from_data(input.data)) = [bytes |-> input.data]

\* A subnet of an address: the network address, the broadcast address and the
\* mask agree with the prefix (a prefix of 0 is left out for IPv4, as is the
\* network address for IPv6: see the README).
SubnetExact ==
    /\ input.fn = "subnet4" /\ input.prefix > 0 =>
         LET a == input.addr  p == input.prefix IN
         /\ v4_networkAddress(a, p) = [k \in 1..AddrBits |-> k <= p /\ a[k]]
         /\ v4_broadcastAddress(a, p) = [k \in 1..AddrBits |-> k <= p => a[k]]
         /\ v4_subnetMask(p) = [k \in 1..AddrBits |-> k <= p]
    /\ input.fn = "subnet6" =>
         \A i \in 0..(Addr6Bytes - 1), k \in 1..Byte6Bits :
           LET inside == i * Byte6Bits + k <= input.prefix IN
           /\ v6_broadcastAddress(input.addr, input.prefix)[i][k] = (inside => input.addr[i][k])
           /\ v6_subnetMask(input.prefix)[i][k] = inside

\* The text of an IPv6 address stands for that address: at most one "::", and
\* it replaces exactly the words left out.
AddressReadBack ==
    input.fn = "dump" =>
      LET t == Dump6(input.words)
          gaps == {i \in 1..(Len(t) - 1) : t[i] = ":" /\ t[i + 1] = ":"}
          words(s) == SelectSeq(s, LAMBDA x : x # ":")
          at == Min(gaps)
          left == words(SubSeq(t, 1, at))
          right == words(SubSeq(t, at, Len(t)))
          zeros == [k \in 1..(8 - Len(left) - Len(right)) |-> "0"]
      IN  /\ Cardinality(gaps) <= 1
          /\ (IF gaps = {} THEN words(t) ELSE left \o zeros \o right)
               = [k \in 1..8 |-> ToString(input.words[k])]

\* URI::Create finds the fields a URL was made of, and finds them again in the
\* text of the URI (for hosts that are no IPv6 literals: see the README).
UriReadBack ==
    input.fn = "uri" =>
      LET f == input.fields
          url == f.scheme \o "://" \o (IF f.userinfo = "" THEN "" ELSE f.userinfo \o "@") \o f.host
                   \o (IF f.port = 0 THEN "" ELSE ":" \o ToString(f.port))
                   \o f.path \o With(f.query, "?") \o With(f.fragment, "#")
          u == [f EXCEPT !.port = IF @ = 0 THEN DefaultPort(f.scheme) ELSE @]
      IN  /\ CreateUri(url) = u
          /\ CreateUri(UriToString(u)) = [u EXCEPT !.path = getPath(u)]

\* Parameters written with UrlEncode are read back by initQueryParam, by
\* initBodyParam from a form, and by initCookies; the first value of a name
\* stays.
ParamsReadBack ==
    input.fn = "query" =>
      LET q == input.pairs
          written(sep) == FoldLeft(LAMBDA t, x : t \o (IF t = "" THEN "" ELSE sep)
                                     \o UrlEncode(x[1]) \o "=" \o UrlEncode(x[2]), "", q)
          first(k) == q[Min({i \in DOMAIN q : q[i][1] = k})][2]
          map == [k \in {q[i][1] : i \in DOMAIN q} |-> first(k)]
          r == [query |-> "", body |-> "", headers |-> <<>>]
      IN  /\ params([r EXCEPT !.query = written("&")]) = map
          /\ params([r EXCEPT !.body = written("&"), !.headers = "content-type" :> Form]) = map
          /\ cookies([r EXCEPT !.headers = "cookie" :> written("; ")]) = map

\* A log pattern is read as the items it is made of: an unknown item makes it
\* an error, and so may %d at the end.  All dates have one format, the formats
\* of the pattern behind each other.
PatternRead ==
    input.fn = "pattern" =>
      LET q == input.parts
          text(x) == "text" \in DOMAIN x
          plain(x) == "plain" \in DOMAIN x
          written == FlattenSeq([k \in DOMAIN q |->
                       IF text(q[k]) THEN q[k].text
                       ELSE IF plain(q[k]) THEN <<"%", "d">>
                       ELSE IF "date" \in DOMAIN q[k] THEN <<"%", "d", "{">> \o q[k].date \o <<"}">>
                       ELSE <<"%", q[k].item>>])
          date == FlattenSeq([k \in DOMAIN q |-> IF "date" \in DOMAIN q[k] THEN q[k].date ELSE <<>>])
          clear == \A k \in 1..(Len(q) - 1) : text(q[k + 1]) =>
                     ~text(q[k]) /\ ~(plain(q[k]) /\ Head(q[k + 1].text) = "{")
          unknown == \E k \in DOMAIN q : "item" \in DOMAIN q[k] /\ q[k].item \notin FormatItems
          cut == q # <<>> /\ plain(Last(q)) /\ ~input.lucky
      IN  clear =>
            LogFormatterInit(written, input.lucky) =
              IF unknown \/ cut THEN Fails
              ELSE [items |-> [k \in DOMAIN q |->
                      IF plain(q[k]) \/ "date" \in DOMAIN q[k] THEN [date |-> date] ELSE q[k]]]

\* Env::init: a command line is accepted when every value follows a key; a key
\* has the value behind its last occurrence, or none.
ArgsRead ==
    input.fn = "env" =>
      LET a == input.argv
          key(k) == a[k].dash /\ a[k].text # ""
          ok == \A k \in DOMAIN a : key(k) \/ (~a[k].dash /\ k > 1 /\ key(k - 1))
          value(k) == IF k < Len(a) /\ ~a[k + 1].dash THEN a[k + 1].text ELSE ""
          keys == {k \in DOMAIN a : key(k)}
          last(t) == Max({k \in keys : a[k].text = t})
          r == EnvInit(a)
      IN  /\ r.ok <=> ok
          /\ ok => r.args = [t \in {a[k].text : k \in keys} |-> value(last(t))]

\* Each codec agrees with its reference: base64, hexadecimal text, subnets, the
\* text of an IPv6 address, URIs, parameters, log patterns and command lines.
CodecsExact ==
    /\ Base64Exact /\ HexExact /\ SubnetExact /\ AddressReadBack
    /\ UriReadBack /\ ParamsReadBack /\ PatternRead /\ ArgsRead
=============================================================================
