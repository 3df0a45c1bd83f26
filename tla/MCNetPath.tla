------------------------------ MODULE MCNetPath ------------------------------
(* Peers for NetPath: what servers and proxies say, in the forms that decide
   how the stream is read. *)
EXTENDS NetPath

(* What the peer says of its own accord, and what it says after a unit. *)
Plain(bytes, text) == [bytes |-> bytes, text |-> text, after |-> <<>>, urgent |-> FALSE]
After(unit, bytes, text) == [Plain(bytes, text) EXCEPT !.after = <<unit>>]

Hello == Plain(<<"a", "b", "IAC", "IAC", "c">>, <<"a", "b", "IAC", "c">>)
Line == Plain(<<"CR", "NUL", "a", "CR", "LF">>, <<"CR", "a", "CR", "LF">>)
Doubled == Plain(<<"IAC", "IAC", "CR", "NUL">>, <<"IAC", "CR">>)
GoAhead == Plain(<<"a", "IAC", "GA", "b">>, <<"a", "b">>)
SendType == Plain(<<"IAC", "DO", "ttype", "IAC", "SB", "ttype", "SEND", "IAC", "SE">>, <<>>)
TypeKnown == After(Is("ttype"), <<"b">>, <<"b">>)
WillBinary == Plain(<<"IAC", "WILL", "bin", "IAC", "DO", "bin">>, <<>>)
Binary == After(Command("they_bin", TRUE), <<"CR", "NUL", "b">>, <<"CR", "NUL", "b">>)
DataMark == [Plain(<<"a", "b", "IAC", "DM">>, <<"a", "b">>) EXCEPT !.urgent = TRUE]
Startup == Plain(StartupRequest, <<>>)
Started2 == After(ScreenNumber, <<"a">>, <<"a">>)

Scenario(kind, auth, addrs, granted, items) ==
    [kind |-> kind, auth |-> auth, addrs |-> addrs, granted |-> granted,
     items |-> items, synch |-> FALSE, resets |-> FALSE]
Good == <<"good">>
Synching(sc) == [sc EXCEPT !.synch = TRUE]
Resetting(sc) == [sc EXCEPT !.resets = TRUE]

(* Lists of addresses of which one between answers, or only the last, or the first
   cannot be used. *)
OtherLists ==
    {<<"refused", "unusable">>, <<"unusable", "good">>, <<"refused", "good", "refused">>,
     <<"refused", "refused", "good">>, <<"refused", "unusable", "good">>}

Direct ==
    {Scenario("none", FALSE, Good, 0, items) :
        items \in {<<Hello, Line, GoAhead>>, <<SendType, TypeKnown, Line>>,
                   <<WillBinary, Binary>>, <<Startup, Started2>>}}
    \union {Synching(Scenario("none", FALSE, Good, 0, <<GoAhead, DataMark, Line>>)),
            Resetting(Scenario("none", FALSE, Good, 0, <<Hello>>)),
            Scenario("none", FALSE, <<"refused", "good">>, 0, <<Hello>>)}
    \union {Scenario("none", FALSE, addrs, 0, <<GoAhead>>) : addrs \in OtherLists}

(* The proxies' replies. *)
HttpOk == After(Request("end"),
    <<"HTTP", "2xx", "CR", "LF", "h", "CR", "LF", " ", "h", "CR", "LF", "CR", "LF">>, <<>>)
HttpBare == After(Request("end"), <<"HTTP", "2xx", "CR", "LF", "CR", "LF">>, <<>>)
HttpNo == After(Request("end"), <<"HTTP", "4xx", "CR", "LF", "CR", "LF">>, <<>>)
Socks4(code) ==
    After(Request("connect"), <<"0", code, "0", "0", "0", "0", "0", "0">>, <<>>)
Method(m) == After(Request("methods"), <<"5", m>>, <<>>)
PasswordOk == After(Request("password"), <<"1", "0">>, <<>>)
Socks5 ==
    After(Request("connect"), <<"5", "0", "0", "1", "0", "0", "0", "0", "0", "0">>, <<>>)
Command2 == After(Request("command"), <<"a">>, <<"a">>)

Proxied ==
    {Scenario("http", FALSE, Good, 1, <<HttpOk, Doubled>>),
     Synching(Scenario("http", TRUE, Good, 1, <<HttpBare, Hello>>)),
     Scenario("http", FALSE, Good, 1, <<HttpNo>>),
     Scenario("socks4", FALSE, <<"refused", "good">>, 1, <<Socks4("90"), Doubled>>),
     Scenario("socks4", FALSE, Good, 1, <<Socks4("91")>>),
     Scenario("socks5", FALSE, Good, 2, <<Method("0"), Socks5, Hello>>),
     Scenario("socks5", TRUE, Good, 3, <<Method("2"), PasswordOk, Socks5, Doubled>>),
     Scenario("socks5", FALSE, Good, 2, <<Method("2"), Doubled>>),
     Scenario("telnet", FALSE, Good, 0, <<Command2, Doubled>>)}

AllScenarios == Direct \union Proxied

=============================================================================
