------------------------------- MODULE NetPath -------------------------------
(***************************************************************************)
(* A telnet session's way to its server: the backend's byte stream         *)
(* (TelnetStream), the proxy negotiation (Proxy) and the socket it goes    *)
(* through (WinSocket), composed with Windows' socket events, with the     *)
(* user who types from the first moment, and with a peer: the proxy and    *)
(* the server behind it, which send what a scenario says, cut into         *)
(* segments anywhere, and read what the client sends.                      *)
(***************************************************************************)
EXTENDS Proxy

CONSTANTS
    Scenarios,   \* what the peer is and sends: see ScenarioType
    Keys,        \* the characters the user types
    MaxTyped     \* bound: how many of them

(* A scenario: the proxy's kind, whether there are credentials for it, what
   comes of each of its addresses, whether the user may send a Synch and the
   peer reset the connection, what the peer says, and how many of its items
   it has said once the way through the proxy is open.  An item is its bytes,
   the text the terminal is to get from it, the units the peer waits for
   before it says it, and whether its last byte is urgent. *)
ScenarioType ==
    \A sc \in Scenarios :
        /\ sc.kind \in {"none", "http", "socks4", "socks5", "telnet"}
        /\ {sc.auth, sc.synch, sc.resets} \subseteq BOOLEAN
        /\ sc.items \in Seq(Range(sc.items)) /\ sc.granted \in 0 .. Len(sc.items)
        /\ \A item \in Range(sc.items) : item.bytes \in Seq(STRING) /\ item.urgent \in BOOLEAN
        /\ sc.addrs \in Seq(Addresses) \ {<<>>}

ASSUME ScenarioAssumption == ScenarioType

(* How many bytes the peer has said with its first items. *)
Heard(sc) ==
    LET bytes[n \in 0 .. Len(sc.items)] ==
          IF n = 0 THEN 0 ELSE bytes[n - 1] + Len(sc.items[n].bytes)
    IN  bytes

(* No proxy opens the way with less than its replies take: a byte, or the eight
   of SOCKS 4, or of SOCKS 5 two and the five that tell the length of the rest. *)
Shortest == [none |-> 0, http |-> 1, telnet |-> 1, socks4 |-> 8, socks5 |-> 7]

ASSUME GrantAssumption ==
    \A sc \in Scenarios : sc.granted > 0 => Heard(sc)[sc.granted - 1] < Shortest[sc.kind]

VARIABLES
    scenario,
    client,     \* the connection of module Proxy
    rx,         \* what has arrived and was not received yet
    mark,       \* where in it the urgent byte is, 0 if there is none
    said,       \* how many of its items the peer has said
    tx,         \* what the peer has read
    typed       \* what the user typed, split at each Synch

vars == <<scenario, client, rx, mark, said, tx, typed>>

Sock == client.sock
Live == client.up /\ Sock.connected

Init ==
    /\ scenario \in Scenarios
    /\ client = LET c == Started(NewConnection(scenario.addrs, scenario.kind,
                                               scenario.auth, "size"))
                IN  IF c.sock.error THEN plug_closing(c) ELSE c
    /\ rx = <<>> /\ mark = 0 /\ said = 0 /\ tx = <<>> /\ typed = <<<<>>>>

-----------------------------------------------------------------------------
(* Socket events: select_result(). *)

Connect ==
    /\ client.up /\ ~Sock.connected /\ Sock.addrs[Sock.addr] = "good"
    /\ client' = [client EXCEPT !.sock = Connected(@)]
    /\ UNCHANGED <<scenario, rx, mark, said, tx, typed>>

(* The error branch: another address, or the end. *)
ConnectFails ==
    /\ client.up /\ ~Sock.connected /\ Sock.addrs[Sock.addr] # "good"
    /\ client' = LET next == [client EXCEPT !.sock = FallBack(@)]
                 IN  IF ~HasNext(Sock) \/ AtOnce(next.sock) THEN plug_closing(next)
                     ELSE next
    /\ UNCHANGED <<scenario, rx, mark, said, tx, typed>>

(* FD_READ: the longest read that recv() allows ends before the urgent mark,
   and data before the mark is urgent.  The vendor's request comes whole: it
   is recognised in no other way. *)
Segment == 1 .. IF mark > 1 THEN mark - 1 ELSE Len(rx)
Receive ==
    /\ Live /\ rx # <<>>
    /\ \E n \in Segment :
          /\ rx = StartupRequest => n = Len(rx)
          /\ client' = plug_proxy_receive(client, mark > 1, SubSeq(rx, 1, n))
          /\ rx' = SubSeq(rx, n + 1, Len(rx))
          /\ mark' = IF mark > n THEN mark - n ELSE 0
    /\ UNCHANGED <<scenario, said, tx, typed>>

(* FD_WRITE comes when the connection is made, and when there is room again
   after a send that blocked. *)
Writable ==
    /\ Live /\ Sock.blocked /\ Room(Sock) > 0
    /\ client' = [client EXCEPT !.sock = MayWrite(@)]
    /\ UNCHANGED <<scenario, rx, mark, said, tx, typed>>

(* FD_CLOSE: what is still to be read is read first ... *)
Close ==
    /\ Live /\ ~Sock.reset /\ said = Len(scenario.items)
    /\ client' = plug_closing(IF rx = <<>> THEN client
                              ELSE plug_proxy_receive(client, FALSE, rx))
    /\ rx' = <<>> /\ mark' = 0
    /\ UNCHANGED <<scenario, said, tx, typed>>

(* ... and FD_CLOSE with an error. *)
CloseReset ==
    /\ Live /\ Sock.reset
    /\ client' = plug_closing(client)
    /\ UNCHANGED <<scenario, rx, mark, said, tx, typed>>

(* net_pending_errors(), at the end of each round of the message loop. *)
PendingError ==
    /\ client.up /\ Sock.pending_error
    /\ client' = plug_closing(client)
    /\ UNCHANGED <<scenario, rx, mark, said, tx, typed>>

-----------------------------------------------------------------------------
(* The user. *)

Count == FoldLeft(LAMBDA n, part : n + Len(part), 0, typed)

Type ==
    /\ client.up /\ Count < MaxTyped
    /\ \E key \in Keys :
          /\ client' = Written([client EXCEPT !.telnet = telnet_send(@, key)])
          /\ typed' = [typed EXCEPT ![Len(typed)] = Append(@, key)]
    /\ UNCHANGED <<scenario, rx, mark, said, tx>>

Synch ==
    /\ client.up /\ scenario.synch /\ Len(typed) = 1
    /\ client' = Written([client EXCEPT !.telnet = telnet_special(@, "SYNCH")])
    /\ typed' = Append(typed, <<>>)
    /\ UNCHANGED <<scenario, rx, mark, said, tx>>

-----------------------------------------------------------------------------
(* The peer. *)

PeerReads ==
    /\ Live /\ Sock.wire # <<>>
    /\ tx' = Append(tx, Head(Sock.wire))
    /\ client' = [client EXCEPT !.sock.wire = Tail(@)]
    /\ UNCHANGED <<scenario, rx, mark, said, typed>>

PeerSays ==
    /\ Live /\ ~Sock.reset /\ said < Len(scenario.items) /\ mark = 0
    /\ LET item == scenario.items[said + 1]
       IN  /\ Range(item.after) \subseteq Range(tx)
           /\ rx' = rx \o item.bytes
           /\ mark' = IF item.urgent THEN Len(rx') ELSE 0
    /\ said' = said + 1
    /\ UNCHANGED <<scenario, client, tx, typed>>

(* What is in flight is lost, either way. *)
PeerResets ==
    /\ Live /\ scenario.resets /\ ~Sock.reset
    /\ client' = [client EXCEPT !.sock.reset = TRUE, !.sock.wire = <<>>]
    /\ rx' = <<>> /\ mark' = 0
    /\ UNCHANGED <<scenario, said, tx, typed>>

Next ==
    \/ Connect \/ ConnectFails \/ Receive \/ Writable
    \/ Close \/ CloseReset \/ PendingError
    \/ Type \/ Synch
    \/ PeerReads \/ PeerSays \/ PeerResets

(* Windows posts each event once its condition holds and the message loop
   handles every message; the peer reads and goes on.  Nothing obliges the
   user to type or the peer to end the connection. *)
Spec ==
    /\ Init /\ [][Next]_vars
    /\ WF_vars(Connect) /\ WF_vars(ConnectFails) /\ WF_vars(Receive)
    /\ WF_vars(Writable) /\ WF_vars(CloseReset) /\ WF_vars(PendingError)
    /\ WF_vars(PeerReads) /\ WF_vars(PeerSays)

-----------------------------------------------------------------------------
Shown == client.telnet.shown
Said == SubSeq(scenario.items, 1, said)
TextOf(items) == FlattenSeq([i \in DOMAIN items |-> items[i].text])

(* The item that ends with an urgent byte, 0 if none has been said. *)
UrgentItem == SelectInSeq(Said, LAMBDA item : item.urgent)
TextBefore == TextOf(SubSeq(Said, 1, UrgentItem))
TextSince == TextOf(SubSeq(Said, UrgentItem + 1, said))

(* What a peer that follows the protocol makes of the units it has read since
   the urgent one: the text in them.  The bytes are binary once the client
   has said so. *)
Understood ==
    LET one(p, unit) ==
          IF unit = Urgent THEN [p EXCEPT !.text = <<>>, !.last = ""]
          ELSE IF IsCommand(unit, "we_bin") THEN [p EXCEPT !.binary = unit.on]
          ELSE IF "byte" \notin DOMAIN unit THEN p
          ELSE IF p.last = "IAC"
               THEN [p EXCEPT !.last = "",
                              !.text = IF unit.byte = "IAC" THEN Append(@, "IAC") ELSE @]
          ELSE IF \/ unit.byte = "IAC"
                  \/ p.last = "CR" /\ unit.byte = "NUL" /\ ~p.binary
               THEN [p EXCEPT !.last = unit.byte]
          ELSE [p EXCEPT !.text = Append(@, unit.byte), !.last = unit.byte]
    IN  FoldLeft(one, [text |-> <<>>, last |-> "", binary |-> FALSE], tx).text

(* Types; every handler writes what it has to say, and no more goes to
   Windows than it takes. *)
TypeOK ==
    /\ scenario \in Scenarios
    /\ said \in 0 .. Len(scenario.items) /\ mark \in 0 .. Len(rx)
    /\ client.telnet.out = <<>>
    /\ Len(Sock.wire) <= SendRoom /\ Len(Sock.oob) <= 1

(* The terminal gets the server's text, in order, once and unchanged, and
   nothing else: none of the proxy's replies, no command and no answer,
   wherever the stream is cut and however much comes with the reply that
   ends the negotiation (do_telnet_read, proxy_activate).  Of the text before
   an urgent byte the end may be hidden, of the text after it nothing. *)
TextArrives ==
    \E n \in 0 .. Len(Shown) :
        /\ IsPrefix(SubSeq(Shown, 1, n), TextBefore)
        /\ IsPrefix(SubSeq(Shown, n + 1, Len(Shown)), TextSince)

(* The server gets what the user typed, in order, once and unchanged, since
   the Synch if it has got one (telnet_send, sk_proxy_write, try_send). *)
TypedArrives ==
    IsPrefix(Understood, typed[IF Urgent \in Range(tx) THEN 2 ELSE 1])

(* Nothing of the session reaches the wire before the proxy has opened the
   way: it would be taken for part of the negotiation (proxy_activate). *)
NothingBeforeGrant ==
    \A unit \in Range(tx) \union Range(Sock.wire) :
        "request" \in DOMAIN unit \/ said >= scenario.granted

(* Two addresses are waited for, the first that can be used and the last: the
   loop at winnet.c:1325 begins an attempt at each of those between and abandons
   it, whether or not it would have been answered.  The session is given up for
   want of a connection only if neither of the two answers, or the very first
   address cannot be used, whose error stays (sk_new, telnet_init). *)
FirstUsable == SelectInSeq(Sock.addrs, LAMBDA a : a # "unusable")
GivesUpAfterLast ==
    Sock.addr # 0 =>
        /\ Sock.addr \in {FirstUsable, Len(Sock.addrs)}
        /\ ~client.up =>
              \/ Sock.addrs[1] = "unusable"
              \/ "good" \notin {Sock.addrs[1], Last(Sock.addrs)}

(* Types; and which addresses decide whether there is a connection. *)
ConnectSound == TypeOK /\ GivesUpAfterLast

(* A session that stays up gets everything through, both ways: no event that
   Windows posts once is missed, and no queue is left waiting for one. *)
EverythingArrives ==
    <>[](client.up =>
            /\ Sock.connected /\ said = Len(scenario.items) /\ ~Sock.reset
            /\ IsSuffix(TextSince, Shown)
            /\ Understood = typed[Len(typed)]
            /\ Len(typed) = 2 => Urgent \in Range(tx))

=============================================================================
