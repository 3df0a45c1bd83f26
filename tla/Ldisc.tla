--------------------------------- MODULE Ldisc ---------------------------------
(****************************************************************************)
(* The line discipline of ldisc.c: between the keyboard (and what the       *)
(* terminal itself answers) and the back end.  It edits a line and echoes,  *)
(* or does not, as the configuration and the host's options say at each     *)
(* call; the loop of a call takes one character in a step.                  *)
(*                                                                          *)
(* A character is named for what the code tells apart; which characters of  *)
(* a call are magic, the KCTRL() ones, is worked out as they are taken.     *)
(* out is what a step hands to the back end.  shown is how many columns of  *)
(* the line have been echoed and not erased again, and lost how many that   *)
(* are not the line's the backspaces of a step ran over, each wherever the  *)
(* code sends them; steady is FALSE from a change of the echo in mid-line   *)
(* until the next line.                                                     *)
(*                                                                          *)
(* An operator named Slip... is a plausible mistake in the one it           *)
(* precedes: no action uses it, the mutation runs of PROJECT.json put it    *)
(* in that operator's place.                                                *)
(****************************************************************************)
EXTENDS Integers, Sequences, SequencesExt

CONSTANTS
    Configs,    \* localecho, localedit, protocol, telnet_keyboard, telnet_newline
                \* and whether the line's character set is UTF-8
    Calls,      \* the strings passed, whether they are special strings (len < 0)
                \* and whether they are typed by the user
    MaxLine,    \* bound: the line's characters before the user ends it
    MaxShown    \* bound: its columns when the echo is switched over once more

Blank == "space"
Plain == {"a", Blank}
UTF == {"lead", "follow"}
Control == {"^C", "^D", "^H", "^J", "^M", "^R", "^U", "^V", "^W", "^Z", "^\\", "^?"}
Char == Plain \union UTF \union Control
Signal == {"EL", "IP", "SUSP", "ABORT", "EOF", "EOL", "EC"}

ASSUME LdiscAssumption ==
    /\ Configs \subseteq [localecho : {"FORCE_ON", "FORCE_OFF", "AUTO"},
                           localedit : {"FORCE_ON", "FORCE_OFF", "AUTO"},
                           protocol : {"RAW", "TELNET", "SERIAL"},
                           keyboard : BOOLEAN, newline : BOOLEAN, utf : BOOLEAN]
    /\ Calls \subseteq [text : Seq(Char) \ {<<>>}, special : BOOLEAN, interactive : BOOLEAN]
    /\ MaxLine \in Nat /\ MaxShown \in Nat

VARIABLES cfg, host, buf, quotenext, call, out, shown, lost, steady

vars == <<cfg, host, buf, quotenext, call, out, shown, lost, steady>>

NoCall == [text |-> <<>>, special |-> FALSE, interactive |-> FALSE]

(* LD_ECHO and LD_EDIT: asked of the back end and of the terminal. *)
Host == [echo : BOOLEAN, edit : BOOLEAN]

Wants(setting, asked) == setting = "FORCE_ON" \/ (setting = "AUTO" /\ asked)
ECHOING == Wants(cfg.localecho, host.echo)
EDITING == Wants(cfg.localedit, host.edit)

(* plen(): the columns of a character as pwrite() shows it, ^x for a control
   character, <xx> for one in the upper half that has no glyph. *)
plen(c, utf) ==
    CASE c \in Control              -> 2
      [] c = "follow" /\ utf        -> 0
      [] c = "follow" /\ ~utf       -> 4
      [] OTHER                      -> 1
ColumnsOf(s, utf) ==
    LET upto[n \in 0 .. Len(s)] == IF n = 0 THEN 0 ELSE upto[n - 1] + plen(s[n], utf)
    IN  upto[Len(s)]
Columns(s) == ColumnsOf(s, cfg.utf)

char_start(c) == cfg.utf => c # "follow"

-----------------------------------------------------------------------------
(* What is left of a line when its last character, or word, is erased: the part
   before the last byte that starts a character, the part up to the last blank
   with a word after it. *)

LastStarts(s) ==
    {i \in 1 .. Len(s) : /\ char_start(s[i])
                         /\ \A j \in i + 1 .. Len(s) : ~char_start(s[j])}
WithoutChar(s) ==
    IF LastStarts(s) = {} THEN <<>>
    ELSE SubSeq(s, 1, (CHOOSE i \in LastStarts(s) : TRUE) - 1)

isspace(chr) == chr \in {Blank, "^J", "^M"}
BeforeWord(s, i) == isspace(s[i]) /\ ~isspace(s[i + 1])
LastBlanks(s) ==
    {i \in 1 .. Len(s) - 1 : /\ BeforeWord(s, i)
                             /\ \A j \in i + 1 .. Len(s) - 1 : ~BeforeWord(s, j)}
WithoutWord(s) ==
    IF LastBlanks(s) = {} THEN <<>>
    ELSE SubSeq(s, 1, CHOOSE i \in LastBlanks(s) : TRUE)

(* The end of the line, as the back end is told of it. *)
Newline ==
    IF cfg.protocol = "RAW" THEN <<"^M", "^J">>
    ELSE IF cfg.protocol = "TELNET" /\ cfg.newline THEN <<"EOL">>
    ELSE <<"^M">>

-----------------------------------------------------------------------------
(* Steps of the loop of a call while editing, all on its next character c. *)

c == Head(call.text)
Magic == call.special \/ (~call.interactive /\ c = "^M")

Taken == call' = [call EXCEPT !.text = Tail(@)]

(* bsb(): n columns are erased, first of those the line has, then of others. *)
Past(n, m) == IF n > m THEN n - m ELSE 0
bsb(n, echoed) == shown' = Past(shown, n) + echoed /\ lost' = Past(n, shown)

(* if (ECHOING): so many columns are erased and then so many written. *)
IfEchoing(erased, echoed) ==
    IF ECHOING THEN bsb(erased, echoed) ELSE UNCHANGED shown /\ lost' = 0

(* The line is at its end: what is on the screen of it is not the next one's. *)
Cleared == buf' = <<>> /\ shown' = 0 /\ steady' = TRUE

SlipErases(left) ==
    /\ buf' = left
    /\ bsb(Columns(buf) - Columns(left), 0)
    /\ UNCHANGED steady
Erases(left) ==
    /\ buf' = left
    /\ IfEchoing(Columns(buf) - Columns(left), 0)
    /\ UNCHANGED steady

(* default_case: the character joins the line, after what has been kept of it. *)
Inserts(kept) ==
    /\ buf' = Append(kept, c)
    /\ IfEchoing(Columns(buf) - Columns(kept), plen(c, cfg.utf))
    /\ quotenext' = FALSE
    /\ UNCHANGED steady

EraseChar ==
    /\ Magic /\ c \in {"^H", "^?"}
    /\ Erases(WithoutChar(buf))
    /\ out' = <<>>
    /\ UNCHANGED quotenext

EraseWord ==
    /\ ~Magic /\ c = "^W"
    /\ Erases(WithoutWord(buf))
    /\ out' = <<>>
    /\ UNCHANGED quotenext

(* ^C, ^Z, ^\ and ^U also do as any other character if the configuration has
   the telnet keys off. *)
KillSignal ==
    CASE c = "^C" -> <<"EL", "IP">> [] c = "^Z" -> <<"EL", "SUSP">>
      [] c = "^\\" -> <<"EL", "ABORT">> [] OTHER -> <<"EL">>
KillLine ==
    /\ ~Magic /\ c \in {"^U", "^C", "^\\", "^Z"}
    /\ IF cfg.keyboard
       THEN out' = KillSignal /\ Erases(<<>>) /\ UNCHANGED quotenext
       ELSE out' = <<"EL">> /\ Inserts(<<>>)

(* ^R: the line once more, on a row of its own. *)
Redraw ==
    /\ ~Magic /\ c = "^R"
    /\ shown' = IF ECHOING THEN Columns(buf) ELSE shown
    /\ lost' = 0
    /\ out' = <<>>
    /\ UNCHANGED <<buf, quotenext, steady>>

Quote ==
    /\ ~Magic /\ c = "^V"
    /\ quotenext' = TRUE
    /\ out' = <<>> /\ lost' = 0
    /\ UNCHANGED <<buf, shown, steady>>

(* ^D: the line as it is, or the end of the file. *)
Logout ==
    /\ ~Magic /\ c = "^D"
    /\ out' = IF buf = <<>> THEN <<"EOF">> ELSE buf
    /\ Cleared /\ lost' = 0
    /\ UNCHANGED quotenext

Enter ==
    /\ Magic /\ c = "^M"
    /\ out' = buf \o Newline
    /\ Cleared /\ lost' = 0
    /\ UNCHANGED quotenext

(* An ordinary ^M^J does as Enter in a raw session. *)
RawNewline == cfg.protocol = "RAW" /\ buf # <<>> /\ Last(buf) = "^M"
LineFeed ==
    /\ ~Magic /\ c = "^J" /\ RawNewline
    /\ out' = Front(buf) \o Newline
    /\ Cleared
    /\ lost' = IF ECHOING THEN Past(plen("^M", cfg.utf), shown) ELSE 0
    /\ UNCHANGED quotenext

Editor == {"^W", "^U", "^C", "^\\", "^Z", "^R", "^V", "^D"}
Ordinary ==
    IF Magic THEN c \notin {"^H", "^?", "^M"}
             ELSE c \notin Editor /\ ~(c = "^J" /\ RawNewline)
Insert ==
    /\ quotenext \/ Ordinary
    /\ Inserts(buf)
    /\ out' = <<>>

Edit ==
    /\ call.text # <<>>
    /\ \/ /\ ~quotenext
          /\ \/ EraseChar \/ EraseWord \/ KillLine \/ Redraw
             \/ Quote \/ Logout \/ Enter \/ LineFeed
       \/ Insert
    /\ Taken
    /\ UNCHANGED <<cfg, host>>

-----------------------------------------------------------------------------
(* A call that does not edit sends the line, and the text after it; a special
   string of one character may be a telnet command instead. *)
Key(text) ==
    CASE text[1] = "^M" -> IF cfg.newline THEN <<"EOL">> ELSE <<"^M">>
      [] text[1] \in {"^H", "^?"} /\ cfg.keyboard -> <<"EC">>
      [] text[1] = "^C" /\ cfg.keyboard -> <<"IP">>
      [] text[1] = "^Z" /\ cfg.keyboard -> <<"SUSP">>
      [] OTHER -> text
Direct(k) ==
    buf \o (IF k.special /\ cfg.protocol = "TELNET" /\ Len(k.text) = 1
            THEN Key(k.text) ELSE k.text)

(* ldisc_send(): whether it edits is decided once for the whole string.  If it
   does not, what was kept of the line goes, and as many columns are erased as
   it takes to show it: nothing looks whether it was echoed. *)
SlipSend(k) ==
    /\ call.text = <<>>
    /\ IF EDITING
       THEN call' = k /\ out' = <<>> /\ lost' = 0 /\ UNCHANGED <<buf, shown, steady>>
       ELSE out' = Direct(k) /\ lost' = 0 /\ UNCHANGED <<call, buf, shown, steady>>
    /\ UNCHANGED <<cfg, host, quotenext>>
ldisc_send(k) ==
    /\ call.text = <<>>
    /\ IF EDITING
       THEN call' = k /\ out' = <<>> /\ lost' = 0 /\ UNCHANGED <<buf, shown, steady>>
       ELSE /\ out' = Direct(k) /\ UNCHANGED call
            /\ Cleared /\ lost' = Past(Columns(buf), shown)
    /\ UNCHANGED <<cfg, host, quotenext>>

(* ldisc_send_bin(): the keys that TranslateKey() has a string for.  What it does
   not edit it hands to the back end's send_bin, which adds nothing to it. *)
ldisc_send_bin(k) == k.interactive /\ ldisc_send(k)

(* The options of the host, and of the user, change between two calls. *)
Changed ==
    /\ call.text = <<>>
    /\ steady \/ shown <= MaxShown
    /\ steady' = (steady /\ (buf = <<>> \/ ECHOING' = ECHOING))
    /\ out' = <<>> /\ lost' = 0
    /\ UNCHANGED <<buf, quotenext, call, shown>>
SetOption == host' \in Host /\ UNCHANGED cfg /\ Changed
Reconfigure ==
    /\ cfg' \in {d \in Configs : d.protocol = cfg.protocol /\ d.utf = cfg.utf}
    /\ UNCHANGED host
    /\ Changed

(* ldisc_free() and ldisc_create(): another session, without what was typed. *)
Restart ==
    /\ call.text = <<>>
    /\ quotenext' = FALSE /\ Cleared /\ out' = <<>> /\ lost' = 0
    /\ UNCHANGED <<cfg, host, call>>

-----------------------------------------------------------------------------
Init ==
    /\ cfg \in Configs /\ host \in Host
    /\ buf = <<>> /\ quotenext = FALSE /\ call = NoCall /\ out = <<>>
    /\ shown = 0 /\ lost = 0 /\ steady = TRUE

Send ==
    \E k \in Calls :
       Len(buf) + Len(k.text) <= MaxLine /\ (ldisc_send(k) \/ ldisc_send_bin(k))

Next == Send \/ Edit \/ SetOption \/ Reconfigure \/ Restart

Spec == Init /\ [][Next]_vars

-----------------------------------------------------------------------------
(* Properties. *)

(* The types of the variables. *)
LineTypes ==
    /\ cfg \in Configs /\ host \in Host
    /\ buf \in Seq(Char) /\ quotenext \in BOOLEAN
    /\ call \in [text : Seq(Char), special : BOOLEAN, interactive : BOOLEAN]
    /\ out \in Seq(Char \union Signal)
TypeOK == LineTypes /\ shown \in Nat /\ lost \in Nat /\ steady \in BOOLEAN

(* While the echo is not switched over in the middle of a line, what the user
   sees of the line is the line, or nothing of it (ldisc_send()). *)
LineShown == steady => shown = IF ECHOING THEN Columns(buf) ELSE 0

(* Meanwhile no way to erase runs over text that is not the line's, with one
   exception: when the host has taken over the editing of a line that is not
   echoed, the next string sent erases as many columns as the line would have
   had (ldisc.c:291-297, where nothing asks for ECHOING). *)
ErasesOwn ==
    [][steady /\ lost' # 0 => ~ECHOING /\ ~EDITING /\ lost' = Columns(buf)]_vars

EchoIsLine == [](TypeOK /\ LineShown) /\ ErasesOwn

(* The line discipline is a line editor: what was typed and not erased goes to
   the host in the order it was typed, once, also when the host takes over the
   editing, or the user changes the settings, in the middle of the line. *)
LineKept == INSTANCE LineEditor WITH line <- buf
IsLineEditor == LineKept!Spec

=============================================================================
