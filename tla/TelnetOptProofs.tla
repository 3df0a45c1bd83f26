---------------------------- MODULE TelnetOptProofs ----------------------------
(***************************************************************************)
(* Proof that both ends of a telnet negotiation come to agree (TelnetSafe  *)
(* of TelnetOpt), for any options the server knows, any window sizes and   *)
(* any number of offers and resizes.                                       *)
(***************************************************************************)
EXTENDS TelnetOpt, SequenceTheorems, TLAPS

AllOptions == Minimum \union Others
Commands == [opt : Options, on : BOOLEAN]
Reports == [size : Sizes]
Messages == Commands \union Reports

Tags == [opt_states : [AllOptions -> OptStates], echoing : BOOLEAN, editing : BOOLEAN,
         activated : BOOLEAN, size : Sizes, out : Seq(Messages)]

(* What one direction of the connection holds about an option: no command,
   one, or two. *)
None(q, o) == \A i \in 1 .. Len(q) : ~IsCommand(q[i], o)
One(q, o, b) ==
    \E i \in 1 .. Len(q) :
        q[i] = Command(o, b) /\ \A j \in 1 .. Len(q) : IsCommand(q[j], o) => j = i
Two(q, o, b, c) ==
    \E i \in 1 .. Len(q) : \E k \in 1 .. Len(q) :
        /\ i < k /\ q[i] = Command(o, b) /\ q[k] = Command(o, c)
        /\ \A j \in 1 .. Len(q) : IsCommand(q[j], o) => j = i \/ j = k

(* The same by name, in the order of sending. *)
Contents == {"none", "on", "off", "on off", "off on"}
Holds(q, o, l) ==
    \/ l = "none" /\ None(q, o)
    \/ l = "on" /\ One(q, o, TRUE)
    \/ l = "off" /\ One(q, o, FALSE)
    \/ l = "on off" /\ Two(q, o, TRUE, FALSE)
    \/ l = "off on" /\ Two(q, o, FALSE, TRUE)

(* The options that are refused whatever their state. *)
NeverOn == {"tspeed", "nenv", "unknown"}
Idle(o, c) == c = "INACTIVE" \/ (c = "REALLY_INACTIVE" /\ o = "nenv")

(* The stages of the negotiation about option o: the client's state c of it,
   the server's state s, and what is on its way up to the server and down to
   the client.  No other combination occurs. *)
Stage(o, c, s, up, down) ==
    \/ Idle(o, c) /\ s = "NO" /\ up = "none" /\ down = "none"
    \/ Idle(o, c) /\ s = "WANTYES" /\ up = "none" /\ down = "on"
    \/ Idle(o, c) /\ o \in NeverOn /\ s = "WANTYES" /\ up = "off" /\ down = "none"
    \/ /\ o \notin NeverOn
       /\ \/ c = "INACTIVE" /\ s = "WANTNO" /\ up = "off" /\ down = "none"
          \/ c = "REQUESTED" /\ s = "NO" /\ up = "on" /\ down = "none"
          \/ c = "REQUESTED" /\ s = "NO" /\ up = "none" /\ down = "off"
          \/ c = "REQUESTED" /\ s = "YES" /\ up = "none" /\ down = "on"
          \/ c = "REQUESTED" /\ s = "WANTYES" /\ up = "on" /\ down = "on"
          \/ c = "REQUESTED" /\ s = "WANTYES" /\ up = "none" /\ down = "off on"
          \/ c = "REQUESTED" /\ s = "WANTNO" /\ up = "none" /\ down = "on off"
          \/ c = "REQUESTED" /\ s = "WANTNO" /\ up = "off on" /\ down = "none"
          \/ c = "ACTIVE" /\ s = "YES" /\ up = "none" /\ down = "none"
          \/ c = "ACTIVE" /\ s = "WANTYES" /\ up = "on" /\ down = "none"
          \/ c = "ACTIVE" /\ s = "WANTNO" /\ up = "none" /\ down = "off"

AtStage(o, c, s, up, down) ==
    \E l \in Contents : \E k \in Contents :
        Holds(up, o, l) /\ Holds(down, o, k) /\ Stage(o, c, s, l, k)

(* Every option is at some stage; one the server does not know is idle. *)
InStep(states, srv, up, down) ==
    /\ \A o \in Options : AtStage(o, states[o], srv[o], up, down)
    /\ \A o \in AllOptions \ Options : Idle(o, states[o])

(* The last report of a size on its way is of the window's, or there is none
   on its way and the server has it. *)
NoReport(q) == \A i \in 1 .. Len(q) : ~IsReport(q[i])
LastReport(q, size) ==
    \E i \in 1 .. Len(q) :
        q[i] = Naws(size) /\ \A j \in 1 .. Len(q) : IsReport(q[j]) => j <= i
Told(t, up, k) ==
    t.opt_states["naws"] = "ACTIVE" =>
        LastReport(up, t.size) \/ (NoReport(up) /\ k = <<t.size>>)

LocalBut(t, o) ==
    /\ o # "echo" => (t.echoing <=> t.opt_states["echo"] # "ACTIVE")
    /\ o # "they_sga" => (t.editing <=> t.opt_states["they_sga"] # "ACTIVE")

Types ==
    /\ telnet \in Tags /\ telnet.out = <<>> /\ telnet.size = window
    /\ connected \in BOOLEAN /\ server \in [Options -> ServerStates]
    /\ known \in {<<>>} \union {<<size>> : size \in Sizes}
    /\ toServer \in Seq(Messages) /\ toClient \in Seq(Commands)
    /\ offers \in 0 .. MaxOffers /\ resizes \in 0 .. MaxResizes
IInv ==
    /\ Types
    /\ LocalUnlessRemote
    /\ connected =>
          /\ InStep(telnet.opt_states, server, toServer, toClient)
          /\ Told(telnet, toServer, known)

-----------------------------------------------------------------------------
(* Messages and their kinds. *)
LEMMA KindOfCommand ==
    ASSUME NEW m \in Commands, NEW o
    PROVE  ~IsReport(m) /\ (IsCommand(m, o) <=> m.opt = o) /\ m = Command(m.opt, m.on)
BY DEF Commands, IsReport, IsCommand, Command

LEMMA KindOfReport ==
    ASSUME NEW m \in Reports, NEW o
    PROVE  IsReport(m) /\ ~IsCommand(m, o) /\ m = Naws(m.size)
BY DEF Reports, IsReport, IsCommand, Naws

LEMMA CommandType ==
    ASSUME NEW o \in Options, NEW b \in BOOLEAN
    PROVE  /\ Command(o, b) \in Commands
           /\ Command(o, b).opt = o /\ Command(o, b).on = b
BY DEF Commands, Command

LEMMA ReportType ==
    ASSUME NEW s \in Sizes
    PROVE  Naws(s) \in Reports
BY DEF Reports, Naws

LEMMA AppendFacts ==
    ASSUME NEW q \in Seq(Messages), NEW m \in Messages
    PROVE  /\ Append(q, m) \in Seq(Messages) /\ Len(Append(q, m)) = Len(q) + 1
           /\ Append(q, m)[Len(q) + 1] = m
           /\ \A i \in 1 .. Len(q) : Append(q, m)[i] = q[i]
           /\ \A i \in 1 .. Len(q) + 1 : i \in 1 .. Len(q) \/ i = Len(q) + 1
           /\ \A i \in 1 .. Len(q) : i \in 1 .. Len(q) + 1 /\ i < Len(q) + 1
           /\ Len(q) + 1 \in 1 .. Len(q) + 1
OBVIOUS

LEMMA TailFacts ==
    ASSUME NEW q \in Seq(Messages), q # <<>>
    PROVE  /\ Tail(q) \in Seq(Messages) /\ Len(Tail(q)) = Len(q) - 1 /\ Len(q) \in Nat \ {0}
           /\ Head(q) = q[1] /\ Head(q) \in Messages
           /\ \A i \in 1 .. Len(q) - 1 : Tail(q)[i] = q[i + 1]
OBVIOUS

-----------------------------------------------------------------------------
(* What a direction holds, as commands are put in and taken out. *)
LEMMA AppendOther ==
    ASSUME NEW q \in Seq(Messages), NEW m \in Messages, NEW o, ~IsCommand(m, o),
           NEW l \in Contents, Holds(q, o, l)
    PROVE  Holds(Append(q, m), o, l)
<1> DEFINE r == Append(q, m)
<1>1. /\ Len(q) \in Nat /\ Len(r) = Len(q) + 1 /\ r[Len(q) + 1] = m
      /\ \A i \in 1 .. Len(q) : r[i] = q[i]
      /\ \A i \in 1 .. Len(q) + 1 : i \in 1 .. Len(q) \/ i = Len(q) + 1
      /\ \A i \in 1 .. Len(q) : i \in 1 .. Len(q) + 1
  BY AppendFacts
<1> HIDE DEF r
<1>2. None(q, o) => None(r, o)
  BY <1>1 DEF None
<1>3. ASSUME NEW b, One(q, o, b) PROVE One(r, o, b)
  BY <1>1, <1>3 DEF One
<1>4. ASSUME NEW b, NEW c, Two(q, o, b, c) PROVE Two(r, o, b, c)
  <2>1. PICK i \in 1 .. Len(q), k \in 1 .. Len(q) :
            /\ i < k /\ q[i] = Command(o, b) /\ q[k] = Command(o, c)
            /\ \A j \in 1 .. Len(q) : IsCommand(q[j], o) => j = i \/ j = k
    BY <1>4 DEF Two
  <2>2. i \in 1 .. Len(r) /\ k \in 1 .. Len(r) /\ r[i] = q[i] /\ r[k] = q[k]
    BY <1>1
  <2>3. \A j \in 1 .. Len(r) : IsCommand(r[j], o) => j = i \/ j = k
    BY <1>1, <2>1
  <2> QED BY <2>1, <2>2, <2>3 DEF Two
<1> QED BY <1>2, <1>3, <1>4 DEF Holds, r

LEMMA AppendOwn ==
    ASSUME NEW q \in Seq(Messages), NEW o \in Options, NEW b \in BOOLEAN
    PROVE  /\ None(q, o) => One(Append(q, Command(o, b)), o, b)
           /\ \A c \in BOOLEAN : One(q, o, c) => Two(Append(q, Command(o, b)), o, c, b)
<1> PICK m \in Commands : m = Command(o, b)
  BY CommandType
<1> DEFINE r == Append(q, m)
<1>1. /\ Len(q) \in Nat /\ Len(r) = Len(q) + 1 /\ r[Len(q) + 1] = m
      /\ \A i \in 1 .. Len(q) : r[i] = q[i]
      /\ \A i \in 1 .. Len(q) + 1 : i \in 1 .. Len(q) \/ i = Len(q) + 1
      /\ \A i \in 1 .. Len(q) : i \in 1 .. Len(q) + 1 /\ i < Len(q) + 1
      /\ Len(q) + 1 \in 1 .. Len(q) + 1
  BY AppendFacts DEF Messages
<1> HIDE DEF r
<1>2. None(q, o) => One(r, o, b)
  BY <1>1 DEF None, One
<1>3. ASSUME NEW c \in BOOLEAN, One(q, o, c) PROVE Two(r, o, c, b)
  <2>1. PICK i \in 1 .. Len(q) :
            q[i] = Command(o, c) /\ \A j \in 1 .. Len(q) : IsCommand(q[j], o) => j = i
    BY <1>3 DEF One
  <2>2. PICK k \in 1 .. Len(r) : k = Len(q) + 1
    BY <1>1
  <2>3. i \in 1 .. Len(r) /\ i < k /\ r[i] = q[i] /\ r[k] = m
    BY <1>1, <2>2
  <2>4. \A j \in 1 .. Len(r) : IsCommand(r[j], o) => j = i \/ j = k
    BY <1>1, <2>1, <2>2
  <2> QED BY <2>1, <2>3, <2>4 DEF Two
<1> QED BY <1>2, <1>3 DEF r

(* Appending by the names of the contents. *)
LEMMA AppendNamed ==
    ASSUME NEW q \in Seq(Messages), NEW o \in Options
    PROVE  /\ Holds(q, o, "none") => Holds(Append(q, Command(o, TRUE)), o, "on")
           /\ Holds(q, o, "none") => Holds(Append(q, Command(o, FALSE)), o, "off")
           /\ Holds(q, o, "on") => Holds(Append(q, Command(o, FALSE)), o, "on off")
           /\ Holds(q, o, "off") => Holds(Append(q, Command(o, TRUE)), o, "off on")
<1>1. ASSUME NEW b \in BOOLEAN, None(q, o) PROVE One(Append(q, Command(o, b)), o, b)
  BY <1>1, AppendOwn
<1>2. ASSUME NEW b \in BOOLEAN, NEW c \in BOOLEAN, One(q, o, c)
      PROVE  Two(Append(q, Command(o, b)), o, c, b)
  BY <1>2, AppendOwn
<1> QED BY <1>1, <1>2 DEF Holds

LEMMA TailOther ==
    ASSUME NEW q \in Seq(Messages), q # <<>>, NEW o, ~IsCommand(Head(q), o),
           NEW l \in Contents, Holds(q, o, l)
    PROVE  Holds(Tail(q), o, l)
<1> DEFINE r == Tail(q)
<1>1. /\ Len(r) = Len(q) - 1 /\ Len(q) \in Nat \ {0} /\ Head(q) = q[1]
      /\ \A i \in 1 .. Len(q) - 1 : r[i] = q[i + 1]
  BY TailFacts
<1> HIDE DEF r
<1>2. \A i \in 1 .. Len(q) : IsCommand(q[i], o) => i > 1 /\ i - 1 \in 1 .. Len(r) /\ r[i - 1] = q[i]
  BY <1>1
<1>3. \A i \in 1 .. Len(r) : i + 1 \in 1 .. Len(q) /\ r[i] = q[i + 1]
  BY <1>1
<1>4. None(q, o) => None(r, o)
  BY <1>3 DEF None
<1>5. ASSUME NEW b, One(q, o, b) PROVE One(r, o, b)
  <2>1. PICK i \in 1 .. Len(q) :
            q[i] = Command(o, b) /\ \A j \in 1 .. Len(q) : IsCommand(q[j], o) => j = i
    BY <1>5 DEF One
  <2>2. IsCommand(q[i], o)
    BY <2>1 DEF IsCommand, Command
  <2>3. i - 1 \in 1 .. Len(r) /\ r[i - 1] = Command(o, b)
    BY <1>2, <2>1, <2>2
  <2>4. ASSUME NEW j \in 1 .. Len(r), IsCommand(r[j], o) PROVE j = i - 1
    BY <1>1, <1>3, <2>1, <2>4
  <2> QED BY <2>3, <2>4 DEF One
<1>6. ASSUME NEW b, NEW c, Two(q, o, b, c) PROVE Two(r, o, b, c)
  <2>1. PICK i \in 1 .. Len(q), k \in 1 .. Len(q) :
            /\ i < k /\ q[i] = Command(o, b) /\ q[k] = Command(o, c)
            /\ \A j \in 1 .. Len(q) : IsCommand(q[j], o) => j = i \/ j = k
    BY <1>6 DEF Two
  <2>2. IsCommand(q[i], o) /\ IsCommand(q[k], o)
    BY <2>1 DEF IsCommand, Command
  <2>3. /\ i - 1 \in 1 .. Len(r) /\ k - 1 \in 1 .. Len(r) /\ i - 1 < k - 1
        /\ r[i - 1] = Command(o, b) /\ r[k - 1] = Command(o, c)
    BY <1>1, <1>2, <2>1, <2>2
  <2>4. ASSUME NEW j \in 1 .. Len(r), IsCommand(r[j], o) PROVE j = i - 1 \/ j = k - 1
    BY <1>1, <1>3, <2>1, <2>4
  <2> QED BY <2>3, <2>4 DEF Two
<1> QED BY <1>4, <1>5, <1>6 DEF Holds, r

LEMMA TailOwn ==
    ASSUME NEW q \in Seq(Messages), q # <<>>, NEW o \in Options, NEW b \in BOOLEAN,
           Head(q) = Command(o, b)
    PROVE  /\ ~None(q, o)
           /\ \A c \in BOOLEAN : One(q, o, c) => c = b /\ None(Tail(q), o)
           /\ \A c, d \in BOOLEAN : Two(q, o, c, d) => c = b /\ One(Tail(q), o, d)
<1> DEFINE r == Tail(q)
<1>1. /\ Len(r) = Len(q) - 1 /\ Len(q) \in Nat \ {0} /\ q[1] = Command(o, b)
      /\ \A i \in 1 .. Len(q) - 1 : r[i] = q[i + 1]
  BY TailFacts
<1> HIDE DEF r
<1>2. 1 \in 1 .. Len(q) /\ IsCommand(q[1], o)
  BY <1>1 DEF IsCommand, Command
<1>3. \A i \in 1 .. Len(r) : i + 1 \in 1 .. Len(q) /\ r[i] = q[i + 1]
  BY <1>1
<1>4. ~None(q, o)
  BY <1>2 DEF None
<1>5. \A c \in BOOLEAN : Command(o, c) = Command(o, b) => c = b
  BY DEF Command
<1>6. ASSUME NEW c \in BOOLEAN, One(q, o, c) PROVE c = b /\ None(r, o)
  <2>1. PICK i \in 1 .. Len(q) :
            q[i] = Command(o, c) /\ \A j \in 1 .. Len(q) : IsCommand(q[j], o) => j = i
    BY <1>6 DEF One
  <2>2. i = 1
    BY <1>2, <2>1
  <2>3. \A j \in 1 .. Len(r) : ~IsCommand(r[j], o)
    BY <1>1, <1>3, <2>1, <2>2
  <2> QED BY <1>1, <1>5, <2>1, <2>2, <2>3 DEF None
<1>7. ASSUME NEW c \in BOOLEAN, NEW d \in BOOLEAN, Two(q, o, c, d)
      PROVE  c = b /\ One(r, o, d)
  <2>1. PICK i \in 1 .. Len(q), k \in 1 .. Len(q) :
            /\ i < k /\ q[i] = Command(o, c) /\ q[k] = Command(o, d)
            /\ \A j \in 1 .. Len(q) : IsCommand(q[j], o) => j = i \/ j = k
    BY <1>7 DEF Two
  <2>2. i = 1 /\ k > 1
    BY <1>1, <1>2, <2>1
  <2>3. k - 1 \in 1 .. Len(r) /\ r[k - 1] = Command(o, d)
    BY <1>1, <2>1, <2>2
  <2>4. ASSUME NEW j \in 1 .. Len(r), IsCommand(r[j], o) PROVE j = k - 1
    BY <1>1, <1>3, <2>1, <2>2, <2>4
  <2>5. One(r, o, d)
    BY <2>3, <2>4 DEF One
  <2> QED BY <1>1, <1>5, <2>1, <2>2, <2>5
<1> QED BY <1>4, <1>6, <1>7 DEF r

LEMMA TailNamed ==
    ASSUME NEW q \in Seq(Messages), q # <<>>, NEW o \in Options, NEW b \in BOOLEAN,
           Head(q) = Command(o, b), NEW l \in Contents, Holds(q, o, l)
    PROVE  \/ b /\ l = "on" /\ Holds(Tail(q), o, "none")
           \/ b /\ l = "on off" /\ Holds(Tail(q), o, "off")
           \/ ~b /\ l = "off" /\ Holds(Tail(q), o, "none")
           \/ ~b /\ l = "off on" /\ Holds(Tail(q), o, "on")
<1>1. ~None(q, o)
  BY TailOwn
<1>2. ASSUME NEW c \in BOOLEAN, One(q, o, c) PROVE c = b /\ None(Tail(q), o)
  BY <1>2, TailOwn
<1>3. ASSUME NEW c \in BOOLEAN, NEW d \in BOOLEAN, Two(q, o, c, d)
      PROVE  c = b /\ One(Tail(q), o, d)
  BY <1>3, TailOwn
<1> QED BY <1>1, <1>2, <1>3 DEF Holds

-----------------------------------------------------------------------------
(* From stage to stage. *)
LEMMA StageOfOther ==
    ASSUME NEW up \in Seq(Messages), NEW down \in Seq(Messages), NEW o, NEW c, NEW s,
           AtStage(o, c, s, up, down)
    PROVE  /\ \A m \in Messages : ~IsCommand(m, o) =>
                 AtStage(o, c, s, Append(up, m), down) /\ AtStage(o, c, s, up, Append(down, m))
           /\ up # <<>> /\ ~IsCommand(Head(up), o) => AtStage(o, c, s, Tail(up), down)
           /\ down # <<>> /\ ~IsCommand(Head(down), o) => AtStage(o, c, s, up, Tail(down))
<1> PICK l \in Contents, k \in Contents :
        Holds(up, o, l) /\ Holds(down, o, k) /\ Stage(o, c, s, l, k)
  BY DEF AtStage
<1>1. ASSUME NEW m \in Messages, ~IsCommand(m, o)
      PROVE  AtStage(o, c, s, Append(up, m), down) /\ AtStage(o, c, s, up, Append(down, m))
  <2>1. Holds(Append(up, m), o, l) /\ Holds(Append(down, m), o, k)
    BY <1>1, AppendOther
  <2> QED BY <2>1 DEF AtStage
<1>2. ASSUME up # <<>>, ~IsCommand(Head(up), o) PROVE AtStage(o, c, s, Tail(up), down)
  <2>1. Holds(Tail(up), o, l)
    BY <1>2, TailOther
  <2> QED BY <2>1 DEF AtStage
<1>3. ASSUME down # <<>>, ~IsCommand(Head(down), o) PROVE AtStage(o, c, s, up, Tail(down))
  <2>1. Holds(Tail(down), o, k)
    BY <1>3, TailOther
  <2> QED BY <2>1 DEF AtStage
<1> QED BY <1>1, <1>2, <1>3

(* The client asks for an option (option_side_effects). *)
LEMMA StageAsked ==
    ASSUME NEW up \in Seq(Messages), NEW down \in Seq(Messages), NEW o \in Options, NEW s,
           o \notin NeverOn, AtStage(o, "INACTIVE", s, up, down)
    PROVE  AtStage(o, "REQUESTED", s, Append(up, Command(o, TRUE)), down)
<1> PICK l \in Contents, k \in Contents :
        Holds(up, o, l) /\ Holds(down, o, k) /\ Stage(o, "INACTIVE", s, l, k)
  BY DEF AtStage
<1>1. CASE l = "none"
  <2>1. Holds(Append(up, Command(o, TRUE)), o, "on")
    BY <1>1, AppendNamed
  <2>2. Stage(o, "REQUESTED", s, "on", k)
    BY <1>1 DEF Stage
  <2> QED BY <2>1, <2>2 DEF AtStage, Contents
<1>2. CASE l = "off"
  <2>1. Holds(Append(up, Command(o, TRUE)), o, "off on")
    BY <1>2, AppendNamed
  <2>2. Stage(o, "REQUESTED", s, "off on", k)
    BY <1>2 DEF Stage
  <2> QED BY <2>1, <2>2 DEF AtStage, Contents
<1> QED BY <1>1, <1>2 DEF Stage

(* The client is told of an option: what it makes of it (proc_rec_opt). *)
LEMMA StageTold ==
    ASSUME NEW up \in Seq(Messages), NEW down \in Seq(Messages), down # <<>>,
           NEW o \in Options, NEW c, NEW s, NEW b \in BOOLEAN, Head(down) = Command(o, b),
           AtStage(o, c, s, up, down)
    PROVE  /\ b /\ o \in NeverOn =>
                 AtStage(o, c, s, Append(up, Command(o, FALSE)), Tail(down))
           /\ b /\ o \notin NeverOn =>
                 \/ c = "REQUESTED" /\ AtStage(o, "ACTIVE", s, up, Tail(down))
                 \/ /\ c = "INACTIVE"
                    /\ AtStage(o, "ACTIVE", s, Append(up, Command(o, TRUE)), Tail(down))
           /\ ~b => /\ o \notin NeverOn
                    /\ \/ c = "REQUESTED" /\ AtStage(o, "INACTIVE", s, up, Tail(down))
                       \/ /\ c = "ACTIVE"
                          /\ AtStage(o, "INACTIVE", s, Append(up, Command(o, FALSE)), Tail(down))
<1> PICK l \in Contents, k \in Contents :
        Holds(up, o, l) /\ Holds(down, o, k) /\ Stage(o, c, s, l, k)
  BY DEF AtStage
<1>1. \/ b /\ k = "on" /\ Holds(Tail(down), o, "none")
      \/ b /\ k = "on off" /\ Holds(Tail(down), o, "off")
      \/ ~b /\ k = "off" /\ Holds(Tail(down), o, "none")
      \/ ~b /\ k = "off on" /\ Holds(Tail(down), o, "on")
  BY TailNamed
<1>2. l = "none" => /\ Holds(Append(up, Command(o, TRUE)), o, "on")
                    /\ Holds(Append(up, Command(o, FALSE)), o, "off")
  BY AppendNamed
<1>3. CASE b /\ o \in NeverOn
  <2>1. k = "on" /\ l = "none" /\ Stage(o, c, s, "off", "none")
    BY <1>1, <1>3 DEF Stage
  <2> QED BY <1>1, <1>2, <1>3, <2>1 DEF AtStage, Contents
<1>4. CASE b /\ o \notin NeverOn
  <2>1. CASE k = "on"
    <3>1. \/ c = "REQUESTED" /\ Stage(o, "ACTIVE", s, l, "none")
          \/ c = "INACTIVE" /\ l = "none" /\ Stage(o, "ACTIVE", s, "on", "none")
      BY <1>4, <2>1 DEF Stage, Idle, NeverOn
    <3> QED BY <1>1, <1>2, <1>4, <2>1, <3>1 DEF AtStage, Contents
  <2>2. CASE k = "on off"
    <3>1. c = "REQUESTED" /\ Stage(o, "ACTIVE", s, l, "off")
      BY <1>4, <2>2 DEF Stage
    <3> QED BY <1>1, <1>4, <2>2, <3>1 DEF AtStage, Contents
  <2> QED BY <1>1, <1>4, <2>1, <2>2
<1>5. CASE ~b
  <2>1. CASE k = "off"
    <3>1. \/ c = "REQUESTED" /\ Stage(o, "INACTIVE", s, l, "none")
          \/ c = "ACTIVE" /\ l = "none" /\ Stage(o, "INACTIVE", s, "off", "none")
      BY <2>1 DEF Stage, Idle
    <3>2. o \notin NeverOn
      BY <2>1 DEF Stage
    <3> QED BY <1>1, <1>2, <1>5, <2>1, <3>1, <3>2 DEF AtStage, Contents
  <2>2. CASE k = "off on"
    <3>1. c = "REQUESTED" /\ Stage(o, "INACTIVE", s, l, "on") /\ o \notin NeverOn
      BY <2>2 DEF Stage, Idle
    <3> QED BY <1>1, <1>5, <2>2, <3>1 DEF AtStage, Contents
  <2> QED BY <1>1, <1>5, <2>1, <2>2
<1> QED BY <1>3, <1>4, <1>5

(* The server makes an offer, or withdraws one. *)
LEMMA StageOffered ==
    ASSUME NEW up \in Seq(Messages), NEW down \in Seq(Messages), NEW o \in Options, NEW c
    PROVE  /\ AtStage(o, c, "NO", up, down) =>
                 AtStage(o, c, "WANTYES", up, Append(down, Command(o, TRUE)))
           /\ AtStage(o, c, "YES", up, down) =>
                 AtStage(o, c, "WANTNO", up, Append(down, Command(o, FALSE)))
<1>1. /\ Holds(down, o, "none") => /\ Holds(Append(down, Command(o, TRUE)), o, "on")
                                   /\ Holds(Append(down, Command(o, FALSE)), o, "off")
      /\ Holds(down, o, "on") => Holds(Append(down, Command(o, FALSE)), o, "on off")
      /\ Holds(down, o, "off") => Holds(Append(down, Command(o, TRUE)), o, "off on")
  BY AppendNamed
<1>2. ASSUME AtStage(o, c, "NO", up, down)
      PROVE  AtStage(o, c, "WANTYES", up, Append(down, Command(o, TRUE)))
  <2>1. PICK l \in Contents, k \in Contents :
            Holds(up, o, l) /\ Holds(down, o, k) /\ Stage(o, c, "NO", l, k)
    BY <1>2 DEF AtStage
  <2>2. \/ k = "none" /\ Stage(o, c, "WANTYES", l, "on")
        \/ k = "off" /\ Stage(o, c, "WANTYES", l, "off on")
    BY <2>1 DEF Stage
  <2> QED BY <1>1, <2>1, <2>2 DEF AtStage, Contents
<1>3. ASSUME AtStage(o, c, "YES", up, down)
      PROVE  AtStage(o, c, "WANTNO", up, Append(down, Command(o, FALSE)))
  <2>1. PICK l \in Contents, k \in Contents :
            Holds(up, o, l) /\ Holds(down, o, k) /\ Stage(o, c, "YES", l, k)
    BY <1>3 DEF AtStage
  <2>2. \/ k = "none" /\ Stage(o, c, "WANTNO", l, "off")
        \/ k = "on" /\ Stage(o, c, "WANTNO", l, "on off")
    BY <2>1 DEF Stage
  <2> QED BY <1>1, <2>1, <2>2 DEF AtStage, Contents
<1> QED BY <1>2, <1>3

(* The server gets a command, and answers it or not. *)
LEMMA StageAnswered ==
    ASSUME NEW up \in Seq(Messages), NEW down \in Seq(Messages), up # <<>>,
           NEW o \in Options, NEW c, NEW s, NEW b \in BOOLEAN, Head(up) = Command(o, b),
           AtStage(o, c, s, up, down)
    PROVE  /\ b /\ s = "NO" => /\ AtStage(o, c, "YES", Tail(up), Append(down, Command(o, TRUE)))
                               /\ AtStage(o, c, "NO", Tail(up), Append(down, Command(o, FALSE)))
           /\ b /\ s = "WANTNO" => AtStage(o, c, "NO", Tail(up), down)
           /\ b /\ s \notin {"NO", "WANTNO"} => AtStage(o, c, "YES", Tail(up), down)
           /\ ~b /\ s = "YES" => AtStage(o, c, "NO", Tail(up), Append(down, Command(o, FALSE)))
           /\ ~b /\ s # "YES" => AtStage(o, c, "NO", Tail(up), down)
<1> PICK l \in Contents, k \in Contents :
        Holds(up, o, l) /\ Holds(down, o, k) /\ Stage(o, c, s, l, k)
  BY DEF AtStage
<1>1. \/ b /\ l = "on" /\ Holds(Tail(up), o, "none")
      \/ b /\ l = "on off" /\ Holds(Tail(up), o, "off")
      \/ ~b /\ l = "off" /\ Holds(Tail(up), o, "none")
      \/ ~b /\ l = "off on" /\ Holds(Tail(up), o, "on")
  BY TailNamed
<1>2. k = "none" => /\ Holds(Append(down, Command(o, TRUE)), o, "on")
                    /\ Holds(Append(down, Command(o, FALSE)), o, "off")
  BY AppendNamed
<1>3. CASE l = "on"
  <2>1. \/ /\ s = "NO" /\ k = "none"
           /\ Stage(o, c, "YES", "none", "on") /\ Stage(o, c, "NO", "none", "off")
        \/ s = "WANTYES" /\ Stage(o, c, "YES", "none", k)
    BY <1>3 DEF Stage
  <2> QED BY <1>1, <1>2, <1>3, <2>1 DEF AtStage, Contents
<1>4. CASE l = "off"
  <2>1. s \in {"WANTYES", "WANTNO"} /\ Stage(o, c, "NO", "none", k)
    BY <1>4 DEF Stage, Idle
  <2> QED BY <1>1, <1>4, <2>1 DEF AtStage, Contents
<1>5. CASE l = "off on"
  <2>1. s = "WANTNO" /\ Stage(o, c, "NO", "on", k)
    BY <1>5 DEF Stage
  <2> QED BY <1>1, <1>5, <2>1 DEF AtStage, Contents
<1>6. l \notin {"none", "on off"}
  BY <1>1 DEF Stage
<1> QED BY <1>3, <1>4, <1>5, <1>6 DEF Contents

-----------------------------------------------------------------------------
(* The operators on the client's record, field by field. *)
LEMMA ConcatFacts ==
    ASSUME NEW q \in Seq(Messages), NEW s \in Seq(Messages), NEW m \in Messages
    PROVE  /\ q \o s \in Seq(Messages)
           /\ q \o <<>> = q /\ q \o <<m>> = Append(q, m)
           /\ q \o Append(s, m) = Append(q \o s, m)
<1>1. q \o s \in Seq(Messages) /\ Append(s, m) \in Seq(Messages)
  OBVIOUS
<1>2. q \o <<>> = q
  OBVIOUS
<1>3. q \o <<m>> = Append(q, m)
  OBVIOUS
<1>4. q \o Append(s, m) = Append(q \o s, m)
  BY <1>1, AppendIsConcat, ConcatAssociative
<1> QED BY <1>1, <1>2, <1>3, <1>4

LEMMA WriteFields ==
    ASSUME NEW t \in Tags, NEW m \in Messages
    PROVE  /\ sk_write(t, m) \in Tags /\ sk_write(t, m).opt_states = t.opt_states
           /\ sk_write(t, m).echoing = t.echoing /\ sk_write(t, m).editing = t.editing
           /\ sk_write(t, m).activated = t.activated /\ sk_write(t, m).size = t.size
           /\ sk_write(t, m).out = Append(t.out, m)
<1>1. t.out \in Seq(Messages)
  BY DEF Tags
<1>2. PICK r \in Seq(Messages) : r = Append(t.out, m)
  BY <1>1, AppendFacts
<1>3. sk_write(t, m) = [t EXCEPT !.out = r]
  BY <1>2 DEF sk_write
<1> QED BY <1>2, <1>3 DEF Tags

(* The client's state of option o becomes c. *)
Put(t, o, c) == [t EXCEPT !.opt_states[o] = c]

LEMMA PutFields ==
    ASSUME NEW t \in Tags, NEW o \in AllOptions, NEW c \in OptStates
    PROVE  /\ Put(t, o, c) \in Tags /\ Put(t, o, c).opt_states[o] = c
           /\ \A p \in AllOptions : p # o => Put(t, o, c).opt_states[p] = t.opt_states[p]
           /\ Put(t, o, c).echoing = t.echoing /\ Put(t, o, c).editing = t.editing
           /\ Put(t, o, c).activated = t.activated /\ Put(t, o, c).size = t.size
           /\ Put(t, o, c).out = t.out
BY DEF Tags, Put

LEMMA OptionsKnown ==
    /\ Options \subseteq AllOptions /\ Minimum \subseteq Options
    /\ \A o \in Minimum : o \notin NeverOn
    /\ \A m \in Commands : m \in Messages
    /\ \A m \in Reports : m \in Messages
BY TelnetOptAssumption DEF AllOptions, Minimum, NeverOn, Messages

-----------------------------------------------------------------------------
(* The reports among the messages. *)
LEMMA ReportAppended ==
    ASSUME NEW q \in Seq(Messages), NEW m \in Messages
    PROVE  /\ ~IsReport(m) =>
                 /\ NoReport(q) => NoReport(Append(q, m))
                 /\ \A s \in Sizes : LastReport(q, s) => LastReport(Append(q, m), s)
           /\ \A s \in Sizes : m = Naws(s) => LastReport(Append(q, m), s)
<1> DEFINE r == Append(q, m)
<1>1. /\ Len(q) \in Nat /\ Len(r) = Len(q) + 1 /\ r[Len(q) + 1] = m
      /\ \A i \in 1 .. Len(q) : r[i] = q[i]
      /\ \A i \in 1 .. Len(q) + 1 : i \in 1 .. Len(q) \/ i = Len(q) + 1
      /\ \A i \in 1 .. Len(q) : i \in 1 .. Len(q) + 1
      /\ Len(q) + 1 \in 1 .. Len(q) + 1
  BY AppendFacts
<1> HIDE DEF r
<1>2. ASSUME ~IsReport(m), NoReport(q) PROVE NoReport(r)
  BY <1>1, <1>2 DEF NoReport
<1>3. ASSUME ~IsReport(m), NEW s \in Sizes, LastReport(q, s) PROVE LastReport(r, s)
  <2>1. PICK i \in 1 .. Len(q) :
            q[i] = Naws(s) /\ \A j \in 1 .. Len(q) : IsReport(q[j]) => j <= i
    BY <1>3 DEF LastReport
  <2>2. i \in 1 .. Len(r) /\ r[i] = Naws(s)
    BY <1>1, <2>1
  <2>3. \A j \in 1 .. Len(r) : IsReport(r[j]) => j <= i
    BY <1>1, <1>3, <2>1
  <2> QED BY <2>2, <2>3 DEF LastReport
<1>4. ASSUME NEW s \in Sizes, m = Naws(s) PROVE LastReport(r, s)
  <2>1. PICK i \in 1 .. Len(r) : i = Len(q) + 1
    BY <1>1
  <2>2. \A j \in 1 .. Len(r) : j <= i
    BY <1>1, <2>1
  <2> QED BY <1>1, <1>4, <2>1, <2>2 DEF LastReport
<1> QED BY <1>2, <1>3, <1>4 DEF r

LEMMA ReportTaken ==
    ASSUME NEW q \in Seq(Messages), q # <<>>
    PROVE  /\ NoReport(q) => NoReport(Tail(q)) /\ ~IsReport(Head(q))
           /\ \A s \in Sizes : LastReport(q, s) =>
                 \/ LastReport(Tail(q), s)
                 \/ NoReport(Tail(q)) /\ Head(q) = Naws(s)
<1> DEFINE r == Tail(q)
<1>1. /\ Len(r) = Len(q) - 1 /\ Len(q) \in Nat \ {0} /\ Head(q) = q[1]
      /\ \A i \in 1 .. Len(q) - 1 : r[i] = q[i + 1]
  BY TailFacts
<1> HIDE DEF r
<1>2. \A i \in 1 .. Len(r) : i + 1 \in 1 .. Len(q) /\ r[i] = q[i + 1]
  BY <1>1
<1>3. ASSUME NoReport(q) PROVE NoReport(r) /\ ~IsReport(Head(q))
  BY <1>1, <1>2, <1>3 DEF NoReport
<1>4. ASSUME NEW s \in Sizes, LastReport(q, s)
      PROVE  LastReport(r, s) \/ (NoReport(r) /\ Head(q) = Naws(s))
  <2>1. PICK i \in 1 .. Len(q) :
            q[i] = Naws(s) /\ \A j \in 1 .. Len(q) : IsReport(q[j]) => j <= i
    BY <1>4 DEF LastReport
  <2>2. CASE i = 1
    <3>1. NoReport(r)
      BY <1>1, <1>2, <2>1, <2>2 DEF NoReport
    <3> QED BY <1>1, <2>1, <2>2, <3>1
  <2>3. CASE i # 1
    <3>1. i - 1 \in 1 .. Len(r) /\ r[i - 1] = Naws(s)
      BY <1>1, <2>1, <2>3
    <3>2. \A j \in 1 .. Len(r) : IsReport(r[j]) => j <= i - 1
      BY <1>1, <1>2, <2>1, <2>3
    <3> QED BY <3>1, <3>2 DEF LastReport
  <2> QED BY <2>2, <2>3
<1> QED BY <1>3, <1>4 DEF r

(* What is put in that is not about an option leaves its stage alone. *)
LEMMA InStepReport ==
    ASSUME NEW st, NEW srv, NEW up \in Seq(Messages), NEW down \in Seq(Messages),
           InStep(st, srv, up, down), NEW m \in Reports
    PROVE  InStep(st, srv, Append(up, m), down)
<1>1. m \in Messages /\ \A o : ~IsCommand(m, o)
  BY KindOfReport, OptionsKnown
<1>2. ASSUME NEW o \in Options PROVE AtStage(o, st[o], srv[o], Append(up, m), down)
  <2>1. AtStage(o, st[o], srv[o], up, down)
    BY DEF InStep
  <2> QED BY <1>1, <2>1, StageOfOther
<1> QED BY <1>2 DEF InStep

(* A command about one option leaves the stages of the others alone. *)
LEMMA InStepCommand ==
    ASSUME NEW st, NEW srv, NEW up \in Seq(Messages), NEW down \in Seq(Messages),
           InStep(st, srv, up, down), NEW o \in Options, NEW b \in BOOLEAN,
           NEW p \in Options, p # o
    PROVE  /\ AtStage(p, st[p], srv[p], Append(up, Command(o, b)), down)
           /\ AtStage(p, st[p], srv[p], up, Append(down, Command(o, b)))
<1>1. PICK m \in Commands : m = Command(o, b) /\ m.opt = o
  BY CommandType
<1>2. m \in Messages /\ ~IsCommand(m, p)
  BY <1>1, KindOfCommand, OptionsKnown
<1>3. AtStage(p, st[p], srv[p], up, down)
  BY DEF InStep
<1> QED BY <1>1, <1>2, <1>3, StageOfOther

-----------------------------------------------------------------------------
(* The client's handlers, part by part.  q is on its way to the server when
   the handler begins, t.out is what it has written. *)
Fine(t, q, srv, down, k) ==
    /\ t \in Tags
    /\ InStep(t.opt_states, srv, q \o t.out, down)
    /\ LocalBut(t, "none")
    /\ Told(t, q \o t.out, k)

(* A command is written about option o, whose state changes in some way. *)
LEMMA ToldKept ==
    ASSUME NEW t \in Tags, NEW u \in Tags, NEW q \in Seq(Messages), NEW k,
           NEW o \in Options, NEW b \in BOOLEAN, Told(t, q \o t.out, k),
           u.opt_states["naws"] = "ACTIVE" => t.opt_states["naws"] = "ACTIVE",
           u.size = t.size, u.out = Append(t.out, Command(o, b))
    PROVE  Told(u, q \o u.out, k)
<1>1. PICK m \in Commands : m = Command(o, b) /\ m.opt = o
  BY CommandType
<1>2. m \in Messages /\ ~IsReport(m)
  BY KindOfCommand, OptionsKnown
<1>3. t.out \in Seq(Messages) /\ t.size \in Sizes
  BY DEF Tags
<1>4. q \o t.out \in Seq(Messages) /\ q \o u.out = Append(q \o t.out, m)
  BY <1>1, <1>2, <1>3, ConcatFacts
<1> QED BY <1>2, <1>3, <1>4, ReportAppended DEF Told

LEMMA RequestedFine ==
    ASSUME NEW t, NEW q \in Seq(Messages), NEW srv, NEW down \in Seq(Messages), NEW k,
           Fine(t, q, srv, down, k), NEW o \in Minimum
    PROVE  /\ Fine(Requested(t, o), q, srv, down, k)
           /\ Requested(t, o).size = t.size
<1>1. CASE t.opt_states[o] # "INACTIVE"
  BY <1>1 DEF Requested
<1>2. CASE t.opt_states[o] = "INACTIVE"
  <2>1. t \in Tags /\ o \in Options /\ o \in AllOptions /\ o \notin NeverOn
    BY OptionsKnown DEF Fine
  <2>2. PICK m \in Commands : m = Command(o, TRUE)
    BY <2>1, CommandType
  <2>3. PICK v \in Tags : v = sk_write(t, m)
    BY <2>1, <2>2, WriteFields, OptionsKnown
  <2>4. /\ v.opt_states = t.opt_states /\ v.echoing = t.echoing /\ v.editing = t.editing
        /\ v.size = t.size /\ v.out = Append(t.out, m)
    BY <2>1, <2>2, <2>3, WriteFields, OptionsKnown
  <2>0. PICK c \in OptStates : c = "REQUESTED"
    BY DEF OptStates
  <2>5. PICK u \in Tags : u = Put(v, o, c)
    BY <2>1, PutFields
  <2>6. Requested(t, o) = u
    BY <1>2, <2>2, <2>3, <2>0, <2>5 DEF Requested, send_opt, Put
  <2>7. /\ u.opt_states[o] = "REQUESTED"
        /\ \A p \in AllOptions : p # o => u.opt_states[p] = v.opt_states[p]
        /\ u.echoing = v.echoing /\ u.editing = v.editing /\ u.size = v.size /\ u.out = v.out
    BY <2>1, <2>0, <2>5, PutFields
  <2>8. PICK s \in Seq(Messages) : s = t.out
    BY <2>1 DEF Tags
  <2>9. q \o s \in Seq(Messages) /\ q \o Append(s, m) = Append(q \o s, m)
    BY ConcatFacts, OptionsKnown
  <2>10. /\ q \o t.out \in Seq(Messages) /\ q \o u.out = Append(q \o t.out, m)
         /\ \A p \in AllOptions \ {o} : u.opt_states[p] = t.opt_states[p]
    BY <2>4, <2>7, <2>8, <2>9
  <2>11. InStep(t.opt_states, srv, q \o t.out, down)
    BY DEF Fine
  <2>12. InStep(u.opt_states, srv, q \o u.out, down)
    <3>1. AtStage(o, u.opt_states[o], srv[o], q \o u.out, down)
      <4>1. AtStage(o, "INACTIVE", srv[o], q \o t.out, down)
        BY <1>2, <2>1, <2>11 DEF InStep
      <4> QED BY <2>1, <2>2, <2>7, <2>10, <4>1, StageAsked
    <3>2. ASSUME NEW p \in Options, p # o
          PROVE  AtStage(p, u.opt_states[p], srv[p], q \o u.out, down)
      <4>1. AtStage(p, t.opt_states[p], srv[p], Append(q \o t.out, Command(o, TRUE)), down)
        BY <2>1, <2>10, <2>11, <3>2, InStepCommand
      <4> QED BY <2>2, <2>10, <3>2, <4>1, OptionsKnown
    <3>3. \A p \in AllOptions \ Options : Idle(p, u.opt_states[p])
      BY <2>1, <2>10, <2>11 DEF InStep
    <3> QED BY <3>1, <3>2, <3>3 DEF InStep
  <2>13. \A p \in AllOptions : u.opt_states[p] = "ACTIVE" <=> t.opt_states[p] = "ACTIVE"
    BY <1>2, <2>7, <2>10
  <2>14. {"echo", "they_sga", "naws"} \subseteq AllOptions
    BY DEF AllOptions, Minimum, Others
  <2>15. LocalBut(u, "none")
    BY <2>4, <2>7, <2>13, <2>14 DEF Fine, LocalBut
  <2>16. Told(u, q \o u.out, k)
    BY <2>1, <2>2, <2>4, <2>7, <2>13, <2>14, ToldKept DEF Fine
  <2> QED BY <2>4, <2>6, <2>7, <2>12, <2>15, <2>16 DEF Fine
<1> QED BY <1>1, <1>2

(* All is fine but for the flag that goes with option o, which is yet to be set. *)
FineBut(t, q, srv, down, k, o) ==
    /\ t \in Tags
    /\ InStep(t.opt_states, srv, q \o t.out, down)
    /\ LocalBut(t, o)
    /\ Told(t, q \o t.out, k)

(* What option_side_effects() does after it has set the flags. *)
Activated(u) ==
    IF u.activated THEN u
    ELSE [Requested(Requested(Requested(u, "echo"), "we_sga"), "they_sga")
            EXCEPT !.activated = TRUE]

LEMMA RequestsFine ==
    ASSUME NEW u, NEW q \in Seq(Messages), NEW srv, NEW down \in Seq(Messages), NEW k,
           Fine(u, q, srv, down, k)
    PROVE  Fine(Activated(u), q, srv, down, k) /\ Activated(u).size = u.size
<1>1. CASE u.activated
  BY <1>1 DEF Activated
<1>2. CASE ~u.activated
  <2>1. "echo" \in Minimum /\ "we_sga" \in Minimum /\ "they_sga" \in Minimum
    BY DEF Minimum
  <2>2. PICK a : a = Requested(u, "echo")
    OBVIOUS
  <2>3. Fine(a, q, srv, down, k) /\ a.size = u.size
    BY <2>1, <2>2, RequestedFine
  <2>4. PICK b : b = Requested(a, "we_sga")
    OBVIOUS
  <2>5. Fine(b, q, srv, down, k) /\ b.size = u.size
    BY <2>1, <2>3, <2>4, RequestedFine
  <2>6. PICK c : c = Requested(b, "they_sga")
    OBVIOUS
  <2>7. Fine(c, q, srv, down, k) /\ c.size = u.size
    BY <2>1, <2>5, <2>6, RequestedFine
  <2>8. c \in Tags
    BY <2>7 DEF Fine
  <2>9. PICK d \in Tags : d = [c EXCEPT !.activated = TRUE]
    BY <2>8 DEF Tags
  <2>10. /\ d.opt_states = c.opt_states /\ d.out = c.out /\ d.size = c.size
         /\ d.echoing = c.echoing /\ d.editing = c.editing
    BY <2>8, <2>9 DEF Tags
  <2>11. Fine(d, q, srv, down, k) /\ d.size = u.size
    BY <2>7, <2>10 DEF Fine, Told, LocalBut
  <2>12. Activated(u) = d
    BY <1>2, <2>2, <2>4, <2>6, <2>9 DEF Activated
  <2> QED BY <2>11, <2>12
<1> QED BY <1>1, <1>2

(* The side effects of an option that is on now, ... *)
On(t, o) == t.opt_states[o] = "ACTIVE"
SwitchedOn(t, o) == option_side_effects(t, o, TRUE)
SwitchedOff(t, o) == option_side_effects(t, o, FALSE)

LEMMA OnFine ==
    ASSUME NEW t, NEW q \in Seq(Messages), NEW srv, NEW down \in Seq(Messages), NEW k,
           NEW o, FineBut(t, q, srv, down, k, o), On(t, o)
    PROVE  /\ Fine(SwitchedOn(t, o), q, srv, down, k)
           /\ SwitchedOn(t, o).size = t.size
<1> t \in Tags
  BY DEF FineBut
<1>1. PICK u \in Tags : u = OptionFlags(t, o, TRUE)
  BY DEF OptionFlags, Tags
<1>2. /\ u.opt_states = t.opt_states /\ u.out = t.out /\ u.size = t.size
      /\ u.echoing = (IF o = "echo" THEN FALSE ELSE t.echoing)
      /\ u.editing = (IF o = "they_sga" THEN FALSE ELSE t.editing)
      /\ u.activated = t.activated
  BY <1>1 DEF OptionFlags, Tags
<1>3. LocalBut(u, "none")
  BY <1>2 DEF FineBut, LocalBut, On
<1>4. Fine(u, q, srv, down, k)
  BY <1>2, <1>3 DEF FineBut, Fine, Told
<1>5. SwitchedOn(t, o) = Activated(u)
  BY <1>1, <1>2 DEF SwitchedOn, option_side_effects, Activated
<1> QED BY <1>2, <1>4, <1>5, RequestsFine

(* ... and of one that is off. *)
LEMMA OffFine ==
    ASSUME NEW t, NEW q \in Seq(Messages), NEW srv, NEW down \in Seq(Messages), NEW k,
           NEW o, FineBut(t, q, srv, down, k, o), ~On(t, o)
    PROVE  /\ Fine(SwitchedOff(t, o), q, srv, down, k)
           /\ SwitchedOff(t, o).size = t.size
<1> t \in Tags
  BY DEF FineBut
<1>1. PICK u \in Tags : u = OptionFlags(t, o, FALSE)
  BY DEF OptionFlags, Tags
<1>2. /\ u.opt_states = t.opt_states /\ u.out = t.out /\ u.size = t.size
      /\ u.echoing = (IF o = "echo" THEN TRUE ELSE t.echoing)
      /\ u.editing = (IF o = "they_sga" THEN TRUE ELSE t.editing)
      /\ u.activated = t.activated
  BY <1>1 DEF OptionFlags, Tags
<1>3. LocalBut(u, "none")
  BY <1>2 DEF FineBut, LocalBut, On
<1>4. Fine(u, q, srv, down, k)
  BY <1>2, <1>3 DEF FineBut, Fine, Told
<1>5. SwitchedOff(t, o) = Activated(u)
  BY <1>1, <1>2 DEF SwitchedOff, option_side_effects, Activated
<1> QED BY <1>2, <1>4, <1>5, RequestsFine

(* The only state that a handler gives up without a word is nenv's, which is
   never on. *)
LEMMA NenvIdle ==
    ASSUME NEW st, NEW srv, NEW up, NEW down, InStep(st, srv, up, down)
    PROVE  Idle("nenv", st["nenv"])
<1>1. "nenv" \in AllOptions /\ "nenv" \in NeverOn
  BY DEF AllOptions, Others, NeverOn
<1>2. CASE "nenv" \in Options
  BY <1>1, <1>2 DEF InStep, AtStage, Stage
<1> QED BY <1>1, <1>2 DEF InStep

LEMMA DeactivatedFine ==
    ASSUME NEW t \in Tags, NEW srv, NEW up, NEW down, InStep(t.opt_states, srv, up, down)
    PROVE  LET u == deactivate_option(t, "nenv")
           IN  /\ u \in Tags /\ u.out = t.out /\ u.size = t.size
               /\ u.echoing = t.echoing /\ u.editing = t.editing
               /\ InStep(u.opt_states, srv, up, down)
               /\ \A p \in AllOptions : p # "nenv" => u.opt_states[p] = t.opt_states[p]
<1>1. PICK n \in AllOptions : n = "nenv"
  BY DEF AllOptions, Others
<1>2. PICK c \in OptStates : c = "REALLY_INACTIVE"
  BY DEF OptStates
<1>3. Idle(n, t.opt_states[n]) /\ Idle(n, c) /\ n \in NeverOn
  BY <1>1, <1>2, NenvIdle DEF Idle, NeverOn
<1>4. PICK u \in Tags : u = Put(t, n, c)
  BY PutFields
<1>5. /\ u.opt_states[n] = c /\ \A p \in AllOptions : p # n => u.opt_states[p] = t.opt_states[p]
      /\ u.echoing = t.echoing /\ u.editing = t.editing /\ u.size = t.size /\ u.out = t.out
  BY <1>4, PutFields
<1>6. deactivate_option(t, "nenv") = u
  BY <1>1, <1>2, <1>3, <1>4 DEF deactivate_option, Idle, Put
<1>7. ASSUME NEW p \in Options PROVE AtStage(p, u.opt_states[p], srv[p], up, down)
  <2>1. AtStage(p, t.opt_states[p], srv[p], up, down)
    BY DEF InStep
  <2>2. CASE p = n
    <3>1. PICK l \in Contents, k \in Contents :
              Holds(up, p, l) /\ Holds(down, p, k) /\ Stage(p, t.opt_states[p], srv[p], l, k)
      BY <2>1 DEF AtStage
    <3>2. Stage(p, c, srv[p], l, k)
      BY <1>3, <2>2, <3>1 DEF Stage
    <3> QED BY <1>5, <2>2, <3>1, <3>2 DEF AtStage
  <2>3. CASE p # n
    BY <1>5, <2>1, <2>3, OptionsKnown
  <2> QED BY <2>2, <2>3
<1>8. ASSUME NEW p \in AllOptions \ Options PROVE Idle(p, u.opt_states[p])
  BY <1>3, <1>5 DEF InStep
<1> QED BY <1>1, <1>5, <1>6, <1>7, <1>8 DEF InStep

(* telnet_size() writes the size, when the server wants it. *)
Placed(t, q, srv, down) == t \in Tags /\ InStep(t.opt_states, srv, q \o t.out, down)

LEMMA SizeFine ==
    ASSUME NEW t, NEW q \in Seq(Messages), NEW srv, NEW down \in Seq(Messages), NEW k,
           Placed(t, q, srv, down), NEW size \in Sizes
    PROVE  LET u == telnet_size(t, size)
           IN  /\ u \in Tags /\ u.size = size /\ u.opt_states = t.opt_states
               /\ u.echoing = t.echoing /\ u.editing = t.editing
               /\ InStep(u.opt_states, srv, q \o u.out, down) /\ Told(u, q \o u.out, k)
<1> t \in Tags /\ InStep(t.opt_states, srv, q \o t.out, down)
  BY DEF Placed
<1>1. PICK v \in Tags : v = [t EXCEPT !.size = size]
  BY DEF Tags
<1>2. /\ v.size = size /\ v.opt_states = t.opt_states /\ v.out = t.out
      /\ v.echoing = t.echoing /\ v.editing = t.editing
  BY <1>1 DEF Tags
<1>3. CASE t.opt_states["naws"] # "ACTIVE"
  BY <1>1, <1>2, <1>3 DEF telnet_size, Told
<1>4. CASE t.opt_states["naws"] = "ACTIVE"
  <2>1. PICK m \in Reports : m = Naws(size)
    BY ReportType
  <2>2. m \in Messages
    BY OptionsKnown
  <2>3. PICK u \in Tags : u = sk_write(v, m)
    BY <2>2, WriteFields
  <2>4. /\ u.size = size /\ u.opt_states = t.opt_states /\ u.out = Append(t.out, m)
        /\ u.echoing = t.echoing /\ u.editing = t.editing
    <3>1. /\ u.size = v.size /\ u.opt_states = v.opt_states /\ u.out = Append(v.out, m)
          /\ u.echoing = v.echoing /\ u.editing = v.editing
      BY <2>2, <2>3, WriteFields
    <3> QED BY <1>2, <3>1
  <2>5. PICK s \in Seq(Messages) : s = t.out
    BY DEF Tags
  <2>6. PICK r \in Seq(Messages) : r = q \o s
    BY ConcatFacts, <2>2
  <2>7. q \o u.out = Append(r, m)
    BY <2>2, <2>4, <2>5, <2>6, ConcatFacts
  <2>8. InStep(u.opt_states, srv, q \o u.out, down)
    BY <2>4, <2>5, <2>6, <2>7, InStepReport
  <2>9. Told(u, q \o u.out, k)
    BY <2>1, <2>2, <2>4, <2>7, ReportAppended DEF Told
  <2>10. telnet_size(t, size) = u
    BY <1>1, <1>4, <2>1, <2>3 DEF telnet_size
  <2> QED BY <2>4, <2>8, <2>9, <2>10
<1> QED BY <1>3, <1>4

(* Option o has just become active, and its side effects are yet to come. *)
JustOn(t, q, srv, down, k, o) ==
    /\ t \in Tags
    /\ InStep(t.opt_states, srv, q \o t.out, down)
    /\ o \in AllOptions /\ o \notin NeverOn /\ On(t, o)
    /\ LocalBut(t, o)
    /\ o # "naws" => Told(t, q \o t.out, k)

LEMMA ActivatedFine ==
    ASSUME NEW t, NEW q \in Seq(Messages), NEW srv, NEW down \in Seq(Messages), NEW k,
           NEW o, JustOn(t, q, srv, down, k, o)
    PROVE  /\ Fine(activate_option(t, o), q, srv, down, k)
           /\ activate_option(t, o).size = t.size
<1> /\ t \in Tags /\ o \in AllOptions /\ o \notin NeverOn /\ t.opt_states[o] = "ACTIVE"
    /\ InStep(t.opt_states, srv, q \o t.out, down) /\ LocalBut(t, o)
    /\ o # "naws" => Told(t, q \o t.out, k)
  BY DEF JustOn, On
<1>1. CASE o = "naws"
  <2>1. PICK z \in Sizes : z = t.size
    BY DEF Tags
  <2>2. PICK u : u = telnet_size(t, z)
    OBVIOUS
  <2>3. /\ u \in Tags /\ u.size = z /\ u.opt_states = t.opt_states
        /\ u.echoing = t.echoing /\ u.editing = t.editing
        /\ InStep(u.opt_states, srv, q \o u.out, down) /\ Told(u, q \o u.out, k)
    <3>1. Placed(t, q, srv, down)
      BY DEF Placed
    <3> QED BY <2>2, <3>1, SizeFine
  <2>4. LocalBut(u, o)
    BY <2>3 DEF LocalBut
  <2>5. activate_option(t, o) = SwitchedOn(u, o)
    BY <1>1, <2>1, <2>2 DEF activate_option, SwitchedOn
  <2>6. FineBut(u, q, srv, down, k, o) /\ On(u, o)
    BY <1>1, <2>3, <2>4 DEF FineBut, On
  <2>7. /\ Fine(SwitchedOn(u, o), q, srv, down, k)
        /\ SwitchedOn(u, o).size = u.size
    BY <2>6, OnFine
  <2> QED BY <2>1, <2>3, <2>5, <2>7
<1>2. CASE o = "oenv"
  <2>1. PICK u : u = deactivate_option(t, "nenv")
    OBVIOUS
  <2>2. /\ u \in Tags /\ u.out = t.out /\ u.size = t.size
        /\ u.echoing = t.echoing /\ u.editing = t.editing
        /\ InStep(u.opt_states, srv, q \o t.out, down)
        /\ \A p \in AllOptions : p # "nenv" => u.opt_states[p] = t.opt_states[p]
    BY <2>1, DeactivatedFine
  <2>3. /\ u.opt_states["echo"] = t.opt_states["echo"]
        /\ u.opt_states["they_sga"] = t.opt_states["they_sga"]
        /\ u.opt_states["naws"] = t.opt_states["naws"]
    BY <2>2 DEF AllOptions, Minimum, Others
  <2>4. LocalBut(u, o) /\ Told(u, q \o u.out, k)
    BY <1>2, <2>2, <2>3 DEF LocalBut, Told
  <2>5. activate_option(t, o) = SwitchedOn(u, o)
    BY <1>2, <2>1 DEF activate_option, SwitchedOn
  <2>6. FineBut(u, q, srv, down, k, o) /\ On(u, o)
    BY <1>2, <2>2, <2>4 DEF FineBut, On
  <2>7. /\ Fine(SwitchedOn(u, o), q, srv, down, k)
        /\ SwitchedOn(u, o).size = u.size
    BY <2>6, OnFine
  <2> QED BY <2>2, <2>5, <2>7
<1>3. CASE o \notin {"naws", "oenv"}
  <2>1. activate_option(t, o) = SwitchedOn(t, o)
    BY <1>3 DEF activate_option, SwitchedOn, NeverOn
  <2>2. FineBut(t, q, srv, down, k, o) /\ On(t, o)
    BY <1>3 DEF FineBut, On
  <2>3. /\ Fine(SwitchedOn(t, o), q, srv, down, k)
        /\ SwitchedOn(t, o).size = t.size
    BY <2>2, OnFine
  <2> QED BY <2>1, <2>3
<1> QED BY <1>1, <1>2, <1>3

-----------------------------------------------------------------------------
(* A command of the server's. *)
Elsewhere(st, nst, o) == \A p \in AllOptions : p # o => nst[p] = st[p]

LEMMA InStepTold ==
    ASSUME NEW st, NEW nst, NEW srv, NEW up \in Seq(Messages), NEW down \in Seq(Messages),
           down # <<>>, NEW o \in Options, NEW b \in BOOLEAN, Head(down) = Command(o, b),
           InStep(st, srv, up, down), Elsewhere(st, nst, o)
    PROVE  /\ AtStage(o, nst[o], srv[o], up, Tail(down)) => InStep(nst, srv, up, Tail(down))
           /\ \A x \in BOOLEAN :
                 AtStage(o, nst[o], srv[o], Append(up, Command(o, x)), Tail(down))
                     => InStep(nst, srv, Append(up, Command(o, x)), Tail(down))
<1>1. Tail(down) \in Seq(Messages)
  BY TailFacts
<1>2. ASSUME NEW p \in Options, p # o
      PROVE  /\ AtStage(p, nst[p], srv[p], up, Tail(down))
             /\ \A x \in BOOLEAN :
                   AtStage(p, nst[p], srv[p], Append(up, Command(o, x)), Tail(down))
  <2>1. PICK m \in Commands : m = Command(o, b) /\ m.opt = o
    BY CommandType
  <2>2. ~IsCommand(Head(down), p)
    BY <1>2, <2>1, KindOfCommand
  <2>3. AtStage(p, st[p], srv[p], up, down) /\ nst[p] = st[p]
    BY <1>2, OptionsKnown DEF InStep, Elsewhere
  <2>4. AtStage(p, nst[p], srv[p], up, Tail(down))
    BY <2>2, <2>3, StageOfOther
  <2>5. ASSUME NEW x \in BOOLEAN
        PROVE  AtStage(p, nst[p], srv[p], Append(up, Command(o, x)), Tail(down))
    <3>1. PICK n \in Commands : n = Command(o, x) /\ n.opt = o
      BY CommandType
    <3>2. n \in Messages /\ ~IsCommand(n, p)
      BY <1>2, <3>1, KindOfCommand, OptionsKnown
    <3> QED BY <1>1, <2>4, <3>1, <3>2, StageOfOther
  <2> QED BY <2>4, <2>5
<1>3. \A p \in AllOptions \ Options : Idle(p, nst[p])
  BY DEF InStep, Elsewhere
<1> QED BY <1>2, <1>3 DEF InStep

LEMMA PutBut ==
    ASSUME NEW t \in Tags, NEW q, NEW k, LocalBut(t, "none"), Told(t, q, k),
           NEW o \in AllOptions, NEW c \in OptStates
    PROVE  /\ Put(t, o, c) \in Tags /\ LocalBut(Put(t, o, c), o)
           /\ o # "naws" \/ c # "ACTIVE" => Told(Put(t, o, c), q, k)
           /\ Elsewhere(t.opt_states, Put(t, o, c).opt_states, o)
           /\ Put(t, o, c).opt_states[o] = c
           /\ Put(t, o, c).out = t.out /\ Put(t, o, c).size = t.size
<1>1. PICK u \in Tags : u = Put(t, o, c)
  BY PutFields
<1>2. /\ u.opt_states[o] = c /\ \A p \in AllOptions : p # o => u.opt_states[p] = t.opt_states[p]
      /\ u.echoing = t.echoing /\ u.editing = t.editing /\ u.size = t.size /\ u.out = t.out
  BY <1>1, PutFields
<1>3. {"echo", "they_sga", "naws"} \subseteq AllOptions
  BY DEF AllOptions, Minimum, Others
<1>4. LocalBut(u, o)
  BY <1>2, <1>3 DEF LocalBut
<1>5. ASSUME o # "naws" \/ c # "ACTIVE" PROVE Told(u, q, k)
  <2>1. CASE o = "naws"
    BY <1>2, <1>5, <2>1 DEF Told
  <2>2. CASE o # "naws"
    BY <1>2, <1>3, <2>2 DEF Told
  <2> QED BY <2>1, <2>2
<1> QED BY <1>1, <1>2, <1>4, <1>5 DEF Elsewhere

LEMMA SendFields ==
    ASSUME NEW t \in Tags, NEW o \in Options, NEW x \in BOOLEAN
    PROVE  /\ send_opt(t, o, x) \in Tags /\ send_opt(t, o, x).opt_states = t.opt_states
           /\ send_opt(t, o, x).echoing = t.echoing /\ send_opt(t, o, x).editing = t.editing
           /\ send_opt(t, o, x).size = t.size
           /\ send_opt(t, o, x).out = Append(t.out, Command(o, x))
<1>1. PICK m \in Commands : m = Command(o, x)
  BY CommandType
<1>2. m \in Messages
  BY OptionsKnown
<1> QED BY <1>1, <1>2, WriteFields DEF send_opt

(* The queue to the server, with what a handler has written. *)
LEMMA SentQueue ==
    ASSUME NEW t \in Tags, NEW q \in Seq(Messages)
    PROVE  /\ q \o t.out \in Seq(Messages)
           /\ \A o \in Options, x \in BOOLEAN :
                 q \o Append(t.out, Command(o, x)) = Append(q \o t.out, Command(o, x))
<1>1. PICK s \in Seq(Messages) : s = t.out
  BY DEF Tags
<1>2. q \o s \in Seq(Messages)
  BY ConcatProperties
<1>3. ASSUME NEW o \in Options, NEW x \in BOOLEAN
      PROVE  q \o Append(s, Command(o, x)) = Append(q \o s, Command(o, x))
  <2>1. PICK m \in Commands : m = Command(o, x)
    BY CommandType
  <2> QED BY <2>1, OptionsKnown, ConcatFacts
<1> QED BY <1>1, <1>2, <1>3

(* A handler's start: all is fine, and a command is at the head of the queue. *)
Received(t, q, srv, down, k, o, b) ==
    /\ Fine(t, q, srv, down, k)
    /\ down # <<>> /\ Head(down) = Command(o, b)
Granted(t, q, srv, down, k, o, b) ==
    b /\ o \notin NeverOn /\ Received(t, q, srv, down, k, o, b)

LEMMA AcknowledgedFine ==
    ASSUME NEW t, NEW q \in Seq(Messages), NEW srv, NEW down \in Seq(Messages), NEW k,
           NEW o \in Options, NEW b \in BOOLEAN, Granted(t, q, srv, down, k, o, b)
    PROVE  /\ Fine(Acknowledged(t, o), q, srv, Tail(down), k)
           /\ Acknowledged(t, o).size = t.size
<1> b /\ o \notin NeverOn /\ Received(t, q, srv, down, k, o, b)
  BY DEF Granted
<1>0. t \in Tags /\ o \in AllOptions
  BY OptionsKnown DEF Received, Fine
<1>a. PICK rest \in Seq(Messages) : rest = Tail(down)
  BY TailFacts DEF Received
<1>1. PICK up \in Seq(Messages) : up = q \o t.out
  BY <1>0, SentQueue
<1>2. /\ InStep(t.opt_states, srv, up, down) /\ LocalBut(t, "none") /\ Told(t, up, k)
      /\ down # <<>> /\ Head(down) = Command(o, b)
  BY <1>1 DEF Received, Fine
<1>3. PICK d, s : d = t.opt_states[o] /\ s = srv[o]
  OBVIOUS
<1>b. AtStage(o, d, s, up, down)
  BY <1>2, <1>3 DEF InStep
<1>4. \/ d = "REQUESTED" /\ AtStage(o, "ACTIVE", s, up, Tail(down))
      \/ d = "INACTIVE" /\ AtStage(o, "ACTIVE", s, Append(up, Command(o, TRUE)), Tail(down))
  BY <1>2, <1>b, StageTold
<1>5. PICK c \in OptStates : c = "ACTIVE"
  BY DEF OptStates
<1>6. PICK v \in Tags : v = Put(t, o, c)
  BY <1>0, PutFields
<1>7. /\ LocalBut(v, o)
      /\ o # "naws" => Told(v, up, k)
      /\ Elsewhere(t.opt_states, v.opt_states, o)
      /\ v.opt_states[o] = "ACTIVE" /\ v.out = t.out /\ v.size = t.size
  BY <1>0, <1>2, <1>5, <1>6, PutBut
<1>8. CASE d = "REQUESTED"
  <2>1. InStep(v.opt_states, srv, up, Tail(down))
    BY <1>2, <1>3, <1>4, <1>7, <1>8, InStepTold
  <2>2. Acknowledged(t, o) = activate_option(v, o)
    BY <1>3, <1>5, <1>6, <1>8 DEF Acknowledged, Put
  <2>3. JustOn(v, q, srv, rest, k, o)
    BY <1>0, <1>a, <1>1, <1>7, <2>1 DEF JustOn, On
  <2>4. Fine(activate_option(v, o), q, srv, rest, k) /\ activate_option(v, o).size = v.size
    BY <2>3, ActivatedFine
  <2> QED BY <1>a, <1>7, <2>2, <2>4
<1>9. CASE d = "INACTIVE"
  <2>1. InStep(v.opt_states, srv, Append(up, Command(o, TRUE)), Tail(down))
    BY <1>2, <1>3, <1>4, <1>7, <1>9, InStepTold
  <2>2. PICK x \in BOOLEAN : x = TRUE
    OBVIOUS
  <2>3. PICK w \in Tags : w = send_opt(v, o, x)
    BY SendFields
  <2>4. /\ w.opt_states = v.opt_states /\ w.size = v.size
        /\ w.echoing = v.echoing /\ w.editing = v.editing
        /\ w.out = Append(v.out, Command(o, x))
    BY <2>3, SendFields
  <2>5. q \o v.out = up /\ q \o w.out = Append(up, Command(o, x))
    <3>1. q \o v.out = up
      BY <1>1, <1>7
    <3>2. q \o Append(v.out, Command(o, x)) = Append(q \o v.out, Command(o, x))
      BY SentQueue
    <3> QED BY <2>4, <3>1, <3>2
  <2>6. Acknowledged(t, o) = activate_option(w, o)
    BY <1>3, <1>5, <1>6, <1>9, <2>2, <2>3 DEF Acknowledged, Put
  <2>7. o # "naws" => Told(w, q \o w.out, k)
    BY <1>7, <2>4, <2>5, ToldKept
  <2>8. JustOn(w, q, srv, rest, k, o)
    BY <1>0, <1>a, <1>7, <2>1, <2>2, <2>4, <2>5, <2>7 DEF JustOn, On, LocalBut
  <2>9. Fine(activate_option(w, o), q, srv, rest, k) /\ activate_option(w, o).size = w.size
    BY <2>8, ActivatedFine
  <2> QED BY <1>a, <1>7, <2>4, <2>6, <2>9
<1> QED BY <1>4, <1>8, <1>9

LEMMA RefusedFine ==
    ASSUME NEW t, NEW q \in Seq(Messages), NEW srv, NEW down \in Seq(Messages), NEW k,
           NEW o \in Options, NEW b \in BOOLEAN, ~b, Received(t, q, srv, down, k, o, b)
    PROVE  /\ Fine(Refused(t, o), q, srv, Tail(down), k)
           /\ Refused(t, o).size = t.size /\ o \notin NeverOn
<1>0. t \in Tags /\ o \in AllOptions
  BY OptionsKnown DEF Received, Fine
<1>a. PICK rest \in Seq(Messages) : rest = Tail(down)
  BY TailFacts DEF Received
<1>1. PICK up \in Seq(Messages) : up = q \o t.out
  BY <1>0, SentQueue
<1>2. /\ InStep(t.opt_states, srv, up, down) /\ LocalBut(t, "none") /\ Told(t, up, k)
      /\ down # <<>> /\ Head(down) = Command(o, b)
  BY <1>1 DEF Received, Fine
<1>3. PICK d, s : d = t.opt_states[o] /\ s = srv[o]
  OBVIOUS
<1>b. AtStage(o, d, s, up, down)
  BY <1>2, <1>3 DEF InStep
<1>4. /\ o \notin NeverOn
      /\ \/ d = "REQUESTED" /\ AtStage(o, "INACTIVE", s, up, Tail(down))
         \/ d = "ACTIVE" /\ AtStage(o, "INACTIVE", s, Append(up, Command(o, FALSE)), Tail(down))
  BY <1>2, <1>b, StageTold
<1>5. PICK c \in OptStates : c = "INACTIVE"
  BY DEF OptStates
<1>6. PICK v \in Tags : v = Put(t, o, c)
  BY <1>0, PutFields
<1>7. /\ LocalBut(v, o) /\ Told(v, up, k)
      /\ Elsewhere(t.opt_states, v.opt_states, o)
      /\ v.opt_states[o] = "INACTIVE" /\ v.out = t.out /\ v.size = t.size
  BY <1>0, <1>2, <1>5, <1>6, PutBut
<1>8. CASE d = "REQUESTED"
  <2>1. InStep(v.opt_states, srv, up, Tail(down))
    BY <1>2, <1>3, <1>4, <1>7, <1>8, InStepTold
  <2>2. Refused(t, o) = SwitchedOff(v, o)
    BY <1>3, <1>4, <1>5, <1>6, <1>8 DEF Refused, refused_option, NeverOn, Put, SwitchedOff
  <2>3. FineBut(v, q, srv, rest, k, o) /\ ~On(v, o)
    BY <1>a, <1>1, <1>7, <2>1 DEF FineBut, On
  <2>4. Fine(SwitchedOff(v, o), q, srv, rest, k) /\ SwitchedOff(v, o).size = v.size
    BY <2>3, OffFine
  <2> QED BY <1>a, <1>4, <1>7, <2>2, <2>4
<1>9. CASE d = "ACTIVE"
  <2>1. InStep(v.opt_states, srv, Append(up, Command(o, FALSE)), Tail(down))
    BY <1>2, <1>3, <1>4, <1>7, <1>9, InStepTold
  <2>2. PICK x \in BOOLEAN : x = FALSE
    OBVIOUS
  <2>3. PICK w \in Tags : w = send_opt(v, o, x)
    BY SendFields
  <2>4. /\ w.opt_states = v.opt_states /\ w.size = v.size
        /\ w.echoing = v.echoing /\ w.editing = v.editing
        /\ w.out = Append(v.out, Command(o, x))
    BY <2>3, SendFields
  <2>5. q \o v.out = up /\ q \o w.out = Append(up, Command(o, x))
    <3>1. q \o v.out = up
      BY <1>1, <1>7
    <3>2. q \o Append(v.out, Command(o, x)) = Append(q \o v.out, Command(o, x))
      BY SentQueue
    <3> QED BY <2>4, <3>1, <3>2
  <2>6. Refused(t, o) = SwitchedOff(w, o)
    BY <1>3, <1>5, <1>6, <1>9, <2>2, <2>3 DEF Refused, Put, SwitchedOff
  <2>7. Told(w, q \o w.out, k)
    BY <1>7, <2>4, <2>5, ToldKept
  <2>8. FineBut(w, q, srv, rest, k, o) /\ ~On(w, o)
    BY <1>a, <1>7, <2>1, <2>2, <2>4, <2>5, <2>7 DEF FineBut, On, LocalBut
  <2>9. Fine(SwitchedOff(w, o), q, srv, rest, k) /\ SwitchedOff(w, o).size = w.size
    BY <2>8, OffFine
  <2> QED BY <1>a, <1>4, <1>7, <2>4, <2>6, <2>9
<1> QED BY <1>4, <1>8, <1>9

LEMMA ReceivedFine ==
    ASSUME NEW t, NEW q \in Seq(Messages), NEW srv, NEW down \in Seq(Messages), NEW k,
           NEW o \in Options, NEW b \in BOOLEAN, Received(t, q, srv, down, k, o, b)
    PROVE  /\ Fine(proc_rec_opt(t, o, b), q, srv, Tail(down), k)
           /\ proc_rec_opt(t, o, b).size = t.size
<1>1. CASE b /\ o \in NeverOn
  <2>1. t \in Tags /\ o \in AllOptions
    BY OptionsKnown DEF Received, Fine
  <2>2. PICK up \in Seq(Messages) : up = q \o t.out
    BY <2>1, SentQueue
  <2>3. /\ InStep(t.opt_states, srv, up, down) /\ LocalBut(t, "none") /\ Told(t, up, k)
        /\ down # <<>> /\ Head(down) = Command(o, b)
    BY <2>2 DEF Received, Fine
  <2>4. PICK d, s : d = t.opt_states[o] /\ s = srv[o]
    OBVIOUS
  <2>5. AtStage(o, d, s, up, down)
    BY <2>3, <2>4 DEF InStep
  <2>6. AtStage(o, d, s, Append(up, Command(o, FALSE)), Tail(down))
    BY <1>1, <2>3, <2>5, StageTold
  <2>7. PICK x \in BOOLEAN : x = FALSE
    OBVIOUS
  <2>8. PICK w \in Tags : w = send_opt(t, o, x)
    BY <2>1, SendFields
  <2>9. /\ w.opt_states = t.opt_states /\ w.size = t.size
        /\ w.echoing = t.echoing /\ w.editing = t.editing
        /\ w.out = Append(t.out, Command(o, x))
    BY <2>1, <2>8, SendFields
  <2>10. q \o w.out = Append(up, Command(o, x))
    <3>1. q \o Append(t.out, Command(o, x)) = Append(q \o t.out, Command(o, x))
      BY <2>1, SentQueue
    <3> QED BY <2>2, <2>9, <3>1
  <2>11. Elsewhere(t.opt_states, t.opt_states, o)
    BY DEF Elsewhere
  <2>12. InStep(t.opt_states, srv, Append(up, Command(o, FALSE)), Tail(down))
    BY <2>3, <2>4, <2>6, <2>11, InStepTold
  <2>13. Told(w, q \o w.out, k)
    BY <2>1, <2>2, <2>3, <2>9, ToldKept
  <2>14. proc_rec_opt(t, o, b) = w
    BY <1>1, <2>7, <2>8 DEF proc_rec_opt, NeverOn
  <2> QED BY <2>3, <2>7, <2>9, <2>10, <2>12, <2>13, <2>14 DEF Fine, LocalBut
<1>2. CASE b /\ o \notin NeverOn
  <2>1. proc_rec_opt(t, o, b) = Acknowledged(t, o)
    BY <1>2 DEF proc_rec_opt, NeverOn
  <2>2. Granted(t, q, srv, down, k, o, b)
    BY <1>2 DEF Granted
  <2> QED BY <2>1, <2>2, AcknowledgedFine
<1>3. CASE ~b
  <2>1. /\ Fine(Refused(t, o), q, srv, Tail(down), k)
        /\ Refused(t, o).size = t.size /\ o \notin NeverOn
    BY <1>3, RefusedFine
  <2>2. proc_rec_opt(t, o, b) = Refused(t, o)
    BY <1>3, <2>1 DEF proc_rec_opt, NeverOn
  <2> QED BY <2>1, <2>2
<1> QED BY <1>1, <1>2, <1>3

-----------------------------------------------------------------------------
(* The steps. *)
LEMMA ClientQueue ==
    ASSUME toClient \in Seq(Commands)
    PROVE  /\ toClient \in Seq(Messages)
           /\ toClient # <<>> =>
                 /\ Tail(toClient) \in Seq(Commands) /\ Head(toClient) \in Commands
                 /\ Head(toClient).opt \in Options /\ Head(toClient).on \in BOOLEAN
                 /\ Head(toClient) = Command(Head(toClient).opt, Head(toClient).on)
<1>1. Seq(Commands) \subseteq Seq(Messages)
  BY DEF Messages
<1>2. ASSUME toClient # <<>> PROVE Tail(toClient) \in Seq(Commands) /\ Head(toClient) \in Commands
  BY <1>2
<1>3. \A m \in Commands : m.opt \in Options /\ m.on \in BOOLEAN /\ m = Command(m.opt, m.on)
  BY DEF Commands, Command
<1> QED BY <1>1, <1>2, <1>3

(* Between two steps all is fine, ... *)
LEMMA FineNow ==
    ASSUME IInv, connected
    PROVE  Fine(telnet, toServer, server, toClient, known)
<1>1. telnet \in Tags /\ telnet.out = <<>> /\ toServer \in Seq(Messages)
  BY DEF IInv, Types
<1>2. toServer \o telnet.out = toServer
  BY <1>1
<1>3. LocalBut(telnet, "none")
  BY DEF IInv, LocalUnlessRemote, LocalBut
<1> QED BY <1>1, <1>2, <1>3 DEF IInv, Fine

(* ... and what a handler has written goes out at its end. *)
LEMMA HandledFine ==
    ASSUME NEW u, toServer \in Seq(Messages), NEW srv, NEW down, NEW k,
           Fine(u, toServer, srv, down, k), Handled(u)
    PROVE  /\ telnet' \in Tags /\ telnet'.out = <<>> /\ telnet'.size = u.size
           /\ toServer' \in Seq(Messages) /\ LocalUnlessRemote'
           /\ InStep(telnet'.opt_states, srv, toServer', down)
           /\ Told(telnet', toServer', k)
<1>1. u \in Tags
  BY DEF Fine
<1>2. PICK s \in Seq(Messages) : s = u.out
  BY <1>1 DEF Tags
<1>3. toServer' = toServer \o s /\ toServer' \in Seq(Messages)
  BY <1>2, ConcatProperties DEF Handled
<1>4. PICK e \in Seq(Messages) : e = <<>>
  <2>1. <<>> \in Seq(Messages)
    OBVIOUS
  <2> QED BY <2>1
<1>5. telnet' = [u EXCEPT !.out = e]
  BY <1>4 DEF Handled
<1>6. /\ telnet' \in Tags /\ telnet'.out = e /\ telnet'.size = u.size
      /\ telnet'.opt_states = u.opt_states
      /\ telnet'.echoing = u.echoing /\ telnet'.editing = u.editing
  BY <1>1, <1>5 DEF Tags
<1>7. LocalUnlessRemote'
  BY <1>6 DEF Fine, LocalBut, LocalUnlessRemote
<1>8. InStep(telnet'.opt_states, srv, toServer', down) /\ Told(telnet', toServer', k)
  BY <1>2, <1>3, <1>6 DEF Fine, Told
<1> QED BY <1>3, <1>4, <1>6, <1>7, <1>8

(* telnet_receive(). *)
LEMMA ClientReceiveKeeps ==
    ASSUME IInv, ClientReceive PROVE IInv'
<1>1. connected /\ toClient # <<>> /\ toClient' = Tail(toClient)
  BY DEF ClientReceive
<1>2. /\ toServer \in Seq(Messages) /\ toClient \in Seq(Messages)
      /\ toClient' \in Seq(Commands) /\ telnet.size = window
  BY <1>1, ClientQueue DEF IInv, Types
<1>3. PICK o \in Options, b \in BOOLEAN :
          o = Head(toClient).opt /\ b = Head(toClient).on /\ Head(toClient) = Command(o, b)
  BY <1>1, ClientQueue DEF IInv, Types
<1>4. Received(telnet, toServer, server, toClient, known, o, b)
  BY <1>1, <1>3, FineNow DEF Received
<1>5. PICK u : u = proc_rec_opt(telnet, o, b)
  OBVIOUS
<1>6. Fine(u, toServer, server, Tail(toClient), known) /\ u.size = telnet.size
  BY <1>2, <1>4, <1>5, ReceivedFine
<1>7. Handled(u)
  BY <1>3, <1>5 DEF ClientReceive
<1>8. /\ telnet' \in Tags /\ telnet'.out = <<>> /\ telnet'.size = u.size
      /\ toServer' \in Seq(Messages) /\ LocalUnlessRemote'
      /\ InStep(telnet'.opt_states, server, toServer', Tail(toClient))
      /\ Told(telnet', toServer', known)
  BY <1>2, <1>6, <1>7, HandledFine
<1>9. UNCHANGED <<connected, server, window, known, offers, resizes>>
  BY DEF ClientReceive
<1>10. Types'
  BY <1>2, <1>6, <1>8, <1>9 DEF IInv, Types
<1> QED BY <1>1, <1>8, <1>9, <1>10 DEF IInv

(* telnet_size(). *)
LEMMA ResizeKeeps ==
    ASSUME IInv, Resize PROVE IInv'
<1>1. PICK size \in Sizes :
          /\ window' = size
          /\ IF connected THEN Handled(telnet_size(telnet, size))
             ELSE telnet' = [telnet EXCEPT !.size = size] /\ UNCHANGED toServer
  BY DEF Resize
<1>2. /\ UNCHANGED <<connected, server, known, toClient, offers>>
      /\ resizes' \in 0 .. MaxResizes
  BY TelnetOptAssumption DEF Resize, IInv, Types
<1>3. CASE connected
  <2>1. Placed(telnet, toServer, server, toClient)
    BY <1>3, FineNow DEF Fine, Placed
  <2>2. PICK u : u = telnet_size(telnet, size)
    OBVIOUS
  <2>3. toServer \in Seq(Messages) /\ toClient \in Seq(Messages)
    BY ClientQueue DEF IInv, Types
  <2>4. /\ u \in Tags /\ u.size = size /\ u.opt_states = telnet.opt_states
        /\ u.echoing = telnet.echoing /\ u.editing = telnet.editing
        /\ InStep(u.opt_states, server, toServer \o u.out, toClient)
        /\ Told(u, toServer \o u.out, known)
    BY <2>1, <2>2, <2>3, SizeFine
  <2>5. LocalBut(u, "none")
    BY <2>4 DEF IInv, LocalUnlessRemote, LocalBut
  <2>6. Fine(u, toServer, server, toClient, known)
    BY <2>4, <2>5 DEF Fine
  <2>7. Handled(u)
    BY <1>1, <1>3, <2>2
  <2>8. /\ telnet' \in Tags /\ telnet'.out = <<>> /\ telnet'.size = u.size
        /\ toServer' \in Seq(Messages) /\ LocalUnlessRemote'
        /\ InStep(telnet'.opt_states, server, toServer', toClient)
        /\ Told(telnet', toServer', known)
    BY <2>3, <2>6, <2>7, HandledFine
  <2>9. Types'
    BY <1>1, <1>2, <2>4, <2>8 DEF IInv, Types
  <2> QED BY <1>2, <2>8, <2>9 DEF IInv
<1>4. CASE ~connected
  <2>1. telnet' = [telnet EXCEPT !.size = size] /\ toServer' = toServer
    BY <1>1, <1>4
  <2>2. /\ telnet' \in Tags /\ telnet'.size = size /\ telnet'.out = telnet.out
        /\ telnet'.opt_states = telnet.opt_states
        /\ telnet'.echoing = telnet.echoing /\ telnet'.editing = telnet.editing
    BY <2>1 DEF IInv, Types, Tags
  <2>3. Types'
    BY <1>1, <1>2, <2>1, <2>2 DEF IInv, Types
  <2>4. LocalUnlessRemote'
    BY <2>2 DEF IInv, LocalUnlessRemote
  <2> QED BY <1>2, <1>4, <2>3, <2>4 DEF IInv
<1> QED BY <1>3, <1>4

(* telnet_closing(). *)
LEMMA ClosingKeeps ==
    ASSUME IInv, Closing PROVE IInv'
<1>1. <<>> \in Seq(Messages) /\ <<>> \in Seq(Commands)
  OBVIOUS
<1> QED BY <1>1 DEF IInv, Closing, Types, LocalUnlessRemote

(* The server asks. *)
LEMMA OfferKeeps ==
    ASSUME IInv, ServerOffer PROVE IInv'
<1>1. PICK o \in Options :
          \/ /\ server[o] = "NO"
             /\ server' = [server EXCEPT ![o] = "WANTYES"]
             /\ toClient' = Append(toClient, Command(o, TRUE))
          \/ /\ server[o] = "YES"
             /\ server' = [server EXCEPT ![o] = "WANTNO"]
             /\ toClient' = Append(toClient, Command(o, FALSE))
  BY DEF ServerOffer
<1>2. /\ connected /\ UNCHANGED <<telnet, connected, window, known, toServer, resizes>>
      /\ offers' \in 0 .. MaxOffers
  BY TelnetOptAssumption DEF ServerOffer, IInv, Types
<1>3. PICK b \in BOOLEAN, s \in ServerStates :
          /\ server' = [server EXCEPT ![o] = s] /\ toClient' = Append(toClient, Command(o, b))
          /\ \/ b = TRUE /\ s = "WANTYES" /\ server[o] = "NO"
             \/ b = FALSE /\ s = "WANTNO" /\ server[o] = "YES"
  BY <1>1 DEF ServerStates
<1>4. PICK m \in Commands : m = Command(o, b)
  BY CommandType
<1>5. /\ toServer \in Seq(Messages) /\ toClient \in Seq(Messages) /\ toClient \in Seq(Commands)
      /\ server \in [Options -> ServerStates]
      /\ InStep(telnet.opt_states, server, toServer, toClient)
      /\ Told(telnet, toServer, known)
  BY <1>2, ClientQueue DEF IInv, Types
<1>6. toClient' \in Seq(Commands) /\ server' \in [Options -> ServerStates]
  BY <1>3, <1>4, <1>5
<1>7. server'[o] = s /\ \A p \in Options : p # o => server'[p] = server[p]
  BY <1>3, <1>5
<1>8. AtStage(o, telnet.opt_states[o], server'[o], toServer, toClient')
  <2>1. AtStage(o, telnet.opt_states[o], server[o], toServer, toClient)
    BY <1>5 DEF InStep
  <2> QED BY <1>3, <1>5, <1>7, <2>1, StageOffered, ZenonT(40)
<1>9. ASSUME NEW p \in Options, p # o
      PROVE  AtStage(p, telnet.opt_states[p], server'[p], toServer, toClient')
  <2>1. AtStage(p, telnet.opt_states[p], server[p], toServer, Append(toClient, Command(o, b)))
    BY <1>5, <1>9, InStepCommand
  <2> QED BY <1>3, <1>7, <1>9, <2>1
<1>10. InStep(telnet.opt_states, server', toServer, toClient')
  BY <1>5, <1>8, <1>9 DEF InStep
<1>11. Types'
  BY <1>2, <1>6 DEF IInv, Types
<1>12. LocalUnlessRemote'
  BY <1>2 DEF IInv, LocalUnlessRemote
<1> QED BY <1>2, <1>5, <1>10, <1>11, <1>12 DEF IInv

(* What is known of the size, as a message reaches the server. *)
LEMMA ToldTaken ==
    ASSUME NEW t \in Tags, NEW q \in Seq(Messages), q # <<>>, NEW k, Told(t, q, k)
    PROVE  /\ ~IsReport(Head(q)) => Told(t, Tail(q), k)
           /\ IsReport(Head(q)) => Told(t, Tail(q), <<Head(q).size>>)
<1>1. PICK s \in Sizes : s = t.size
  BY DEF Tags
<1>2. Naws(s).size = s /\ IsReport(Naws(s))
  BY DEF Naws, IsReport
<1>3. CASE NoReport(q)
  <2>1. NoReport(Tail(q)) /\ ~IsReport(Head(q))
    BY <1>3, ReportTaken
  <2>2. ~LastReport(q, s)
    BY <1>2, <1>3 DEF NoReport, LastReport
  <2> QED BY <1>1, <2>1, <2>2 DEF Told
<1>4. CASE LastReport(q, s)
  <2>1. LastReport(Tail(q), s) \/ (NoReport(Tail(q)) /\ Head(q) = Naws(s))
    BY <1>4, ReportTaken
  <2> QED BY <1>1, <1>2, <2>1 DEF Told
<1> QED BY <1>1, <1>3, <1>4 DEF Told

(* The server gets a command. *)
LEMMA AnswerKeeps ==
    ASSUME IInv, connected, toServer # <<>>, toServer' = Tail(toServer), ServerAnswer
    PROVE  /\ server' \in [Options -> ServerStates] /\ toClient' \in Seq(Commands)
           /\ InStep(telnet.opt_states, server', toServer', toClient')
           /\ Told(telnet, toServer', known')
<1>1. /\ toServer \in Seq(Messages) /\ toClient \in Seq(Messages) /\ toClient \in Seq(Commands)
      /\ server \in [Options -> ServerStates] /\ telnet \in Tags
      /\ InStep(telnet.opt_states, server, toServer, toClient)
      /\ Told(telnet, toServer, known)
  BY ClientQueue DEF IInv, Types
<1>2. PICK m : m = Head(toServer)
  OBVIOUS
<1>3. m \in Messages /\ ~IsReport(m)
  BY <1>1, <1>2, TailFacts DEF ServerAnswer
<1>4. m \in Commands
  BY <1>3, KindOfReport DEF Messages
<1>5. PICK o \in Options, b \in BOOLEAN : o = m.opt /\ b = m.on /\ m = Command(o, b)
  BY <1>4 DEF Commands, Command
<1>6. PICK r \in ServerReplies(server[o], o, b) :
          server' = [server EXCEPT ![o] = r[1]] /\ toClient' = toClient \o r[2]
  BY <1>2, <1>5 DEF ServerAnswer
<1>7. PICK s : s = server[o]
  OBVIOUS
<1>8. PICK n, l :
          /\ n \in ServerStates /\ r = <<n, l>>
          /\ \/ b /\ s = "NO" /\ n = "YES" /\ l = <<Command(o, TRUE)>>
             \/ b /\ s = "NO" /\ n = "NO" /\ l = <<Command(o, FALSE)>>
             \/ b /\ s = "WANTNO" /\ n = "NO" /\ l = <<>>
             \/ b /\ s \notin {"NO", "WANTNO"} /\ n = "YES" /\ l = <<>>
             \/ ~b /\ s = "YES" /\ n = "NO" /\ l = <<Command(o, FALSE)>>
             \/ ~b /\ s # "YES" /\ n = "NO" /\ l = <<>>
  BY <1>6, <1>7 DEF ServerReplies, ServerStates
<1>9. server' = [server EXCEPT ![o] = n] /\ toClient' = toClient \o l
  BY <1>6, <1>8
<1>10. AtStage(o, telnet.opt_states[o], s, toServer, toClient)
  BY <1>1, <1>7 DEF InStep
<1>11. /\ b /\ s = "NO" =>
             /\ AtStage(o, telnet.opt_states[o], "YES", Tail(toServer),
                        Append(toClient, Command(o, TRUE)))
             /\ AtStage(o, telnet.opt_states[o], "NO", Tail(toServer),
                        Append(toClient, Command(o, FALSE)))
       /\ b /\ s = "WANTNO" => AtStage(o, telnet.opt_states[o], "NO", Tail(toServer), toClient)
       /\ b /\ s \notin {"NO", "WANTNO"} =>
             AtStage(o, telnet.opt_states[o], "YES", Tail(toServer), toClient)
       /\ ~b /\ s = "YES" => AtStage(o, telnet.opt_states[o], "NO", Tail(toServer),
                                     Append(toClient, Command(o, FALSE)))
       /\ ~b /\ s # "YES" => AtStage(o, telnet.opt_states[o], "NO", Tail(toServer), toClient)
  BY <1>1, <1>2, <1>5, <1>10, StageAnswered
<1>12. server' \in [Options -> ServerStates] /\ server'[o] = n
       /\ \A p \in Options : p # o => server'[p] = server[p]
  BY <1>1, <1>8, <1>9
<1>13. /\ l = <<>> => toClient' = toClient
       /\ l = <<Command(o, TRUE)>> => toClient' = Append(toClient, Command(o, TRUE))
       /\ l = <<Command(o, FALSE)>> => toClient' = Append(toClient, Command(o, FALSE))
  <2>1. ASSUME NEW x \in BOOLEAN
        PROVE  toClient \o <<Command(o, x)>> = Append(toClient, Command(o, x))
    <3>1. PICK c \in Messages : c = Command(o, x)
      BY CommandType, OptionsKnown
    <3> QED BY <1>1, <3>1, ConcatFacts
  <2>2. toClient \o <<>> = toClient
    BY <1>1
  <2> QED BY <1>9, <2>1, <2>2
<1>14. /\ AtStage(o, telnet.opt_states[o], n, Tail(toServer), toClient')
       /\ toClient' = toClient \/ \E x \in BOOLEAN : toClient' = Append(toClient, Command(o, x))
  BY <1>8, <1>11, <1>13
<1>15. ASSUME NEW p \in Options, p # o
       PROVE  AtStage(p, telnet.opt_states[p], server'[p], toServer', toClient')
  <2>1. ~IsCommand(m, p)
    BY <1>4, <1>5, <1>15, KindOfCommand
  <2>2. AtStage(p, telnet.opt_states[p], server[p], toServer, toClient)
    BY <1>1 DEF InStep
  <2>3. AtStage(p, telnet.opt_states[p], server[p], Tail(toServer), toClient)
    BY <1>1, <1>2, <2>1, <2>2, StageOfOther
  <2>4. PICK up \in Seq(Messages) : up = Tail(toServer)
    BY <1>1, TailFacts
  <2>5. ASSUME NEW x \in BOOLEAN
        PROVE  AtStage(p, telnet.opt_states[p], server[p], up, Append(toClient, Command(o, x)))
    <3>1. PICK c \in Commands : c = Command(o, x) /\ c.opt = o
      BY CommandType
    <3>2. c \in Messages /\ ~IsCommand(c, p)
      BY <1>15, <3>1, KindOfCommand, OptionsKnown
    <3> QED BY <1>1, <2>3, <2>4, <3>1, <3>2, StageOfOther
  <2> QED BY <1>12, <1>14, <1>15, <2>3, <2>4, <2>5
<1>16. InStep(telnet.opt_states, server', toServer', toClient')
  BY <1>1, <1>12, <1>14, <1>15 DEF InStep
<1>17. toClient' \in Seq(Commands)
  <2>1. ASSUME NEW x \in BOOLEAN PROVE Append(toClient, Command(o, x)) \in Seq(Commands)
    <3>1. PICK c \in Commands : c = Command(o, x)
      BY CommandType
    <3> QED BY <1>1, <3>1
  <2> QED BY <1>1, <1>14, <2>1
<1>18. Told(telnet, toServer', known')
  BY <1>1, <1>2, <1>3, ToldTaken DEF ServerAnswer
<1> QED BY <1>12, <1>16, <1>17, <1>18

(* The server gets the size of the window. *)
LEMMA LearnsKeeps ==
    ASSUME IInv, connected, toServer # <<>>, toServer' = Tail(toServer), ServerLearns
    PROVE  /\ InStep(telnet.opt_states, server, toServer', toClient)
           /\ Told(telnet, toServer', known')
           /\ known' \in {<<size>> : size \in Sizes}
<1>1. /\ toServer \in Seq(Messages) /\ toClient \in Seq(Messages) /\ telnet \in Tags
      /\ InStep(telnet.opt_states, server, toServer, toClient)
      /\ Told(telnet, toServer, known)
  BY ClientQueue DEF IInv, Types
<1>2. PICK m : m = Head(toServer)
  OBVIOUS
<1>3. m \in Messages /\ IsReport(m)
  BY <1>1, <1>2, TailFacts DEF ServerLearns
<1>4. m \in Reports
  BY <1>3, KindOfCommand DEF Messages
<1>5. \A o : ~IsCommand(m, o)
  BY <1>4, KindOfReport
<1>6. m.size \in Sizes
  BY <1>4 DEF Reports
<1>7. Told(telnet, toServer', known')
  BY <1>1, <1>2, <1>3, ToldTaken DEF ServerLearns
<1>8. ASSUME NEW o \in Options
      PROVE  AtStage(o, telnet.opt_states[o], server[o], toServer', toClient)
  <2>1. AtStage(o, telnet.opt_states[o], server[o], toServer, toClient)
    BY <1>1 DEF InStep
  <2> QED BY <1>1, <1>2, <1>5, <2>1, StageOfOther
<1> QED BY <1>1, <1>2, <1>6, <1>7, <1>8 DEF InStep, ServerLearns

LEMMA ServerReceiveKeeps ==
    ASSUME IInv, ServerReceive PROVE IInv'
<1>1. /\ connected /\ toServer # <<>> /\ toServer' = Tail(toServer)
      /\ UNCHANGED <<telnet, connected, window, offers, resizes>>
  BY DEF ServerReceive
<1>2. toServer' \in Seq(Messages)
  BY <1>1 DEF IInv, Types
<1>3. LocalUnlessRemote'
  BY <1>1 DEF IInv, LocalUnlessRemote
<1>4. CASE ServerAnswer
  <2>1. /\ server' \in [Options -> ServerStates] /\ toClient' \in Seq(Commands)
        /\ InStep(telnet.opt_states, server', toServer', toClient')
        /\ Told(telnet, toServer', known')
    BY <1>1, <1>4, AnswerKeeps
  <2>2. known' = known
    BY <1>4 DEF ServerAnswer
  <2> QED BY <1>1, <1>2, <1>3, <2>1, <2>2 DEF IInv, Types
<1>5. CASE ServerLearns
  <2>1. /\ InStep(telnet.opt_states, server, toServer', toClient)
        /\ Told(telnet, toServer', known')
        /\ known' \in {<<size>> : size \in Sizes}
    BY <1>1, <1>5, LearnsKeeps
  <2>2. server' = server /\ toClient' = toClient
    BY <1>5 DEF ServerLearns
  <2> QED BY <1>1, <1>2, <1>3, <2>1, <2>2 DEF IInv, Types
<1> QED BY <1>4, <1>5 DEF ServerReceive

-----------------------------------------------------------------------------
(* The start: nothing on, nothing in flight. *)
LEMMA InitStarts == Init => IInv
<1> SUFFICES ASSUME Init PROVE IInv
  OBVIOUS
<1>1. PICK size \in Sizes : telnet = TelnetInit(size) /\ window = size /\ known = <<>>
  BY DEF Init
<1>2. /\ telnet.opt_states = [o \in AllOptions |-> "INACTIVE"] /\ telnet.out = <<>>
      /\ telnet.echoing = TRUE /\ telnet.editing = TRUE /\ telnet.activated = FALSE
      /\ telnet.size = size
  BY <1>1 DEF TelnetInit, AllOptions
<1>3. <<>> \in Seq(Messages) /\ <<>> \in Seq(Commands)
  OBVIOUS
<1>4. telnet \in Tags
  BY <1>1, <1>3 DEF TelnetInit, Tags, AllOptions, OptStates
<1>5. \A o \in AllOptions : telnet.opt_states[o] = "INACTIVE"
  BY <1>2
<1>6. Types
  BY <1>1, <1>2, <1>3, <1>4, TelnetOptAssumption DEF Init, Types, ServerStates
<1>7. LocalUnlessRemote
  BY <1>2, <1>5 DEF LocalUnlessRemote, AllOptions, Minimum, Others
<1>8. Told(telnet, toServer, known)
  BY <1>5 DEF Told, AllOptions, Others
<1>9. ASSUME NEW o \in Options
      PROVE  AtStage(o, telnet.opt_states[o], server[o], toServer, toClient)
  <2>1. Holds(toServer, o, "none") /\ Holds(toClient, o, "none")
    BY DEF Init, Holds, None
  <2>2. telnet.opt_states[o] = "INACTIVE" /\ server[o] = "NO"
    BY <1>5, OptionsKnown DEF Init
  <2> QED BY <2>1, <2>2 DEF AtStage, Contents, Stage, Idle
<1>10. InStep(telnet.opt_states, server, toServer, toClient)
  BY <1>5, <1>9 DEF InStep, Idle
<1> QED BY <1>6, <1>7, <1>8, <1>10 DEF IInv

(* No step ends it. *)
LEMMA StepKeeps == IInv /\ [Next]_vars => IInv'
<1> SUFFICES ASSUME IInv, [Next]_vars PROVE IInv'
  OBVIOUS
<1>1. CASE ClientReceive
  BY <1>1, ClientReceiveKeeps
<1>2. CASE Resize
  BY <1>2, ResizeKeeps
<1>3. CASE Closing
  BY <1>3, ClosingKeeps
<1>4. CASE ServerOffer
  BY <1>4, OfferKeeps
<1>5. CASE ServerReceive
  BY <1>5, ServerReceiveKeeps
<1>6. CASE UNCHANGED vars
  BY <1>6 DEF vars, IInv, Types, LocalUnlessRemote
<1> QED BY <1>1, <1>2, <1>3, <1>4, <1>5, <1>6 DEF Next

(* Where both directions hold nothing about an option there are two stages
   left: it is on at both ends, or at neither. *)
LEMMA InvSafe == IInv => TelnetSafe
<1> SUFFICES ASSUME IInv PROVE TelnetSafe
  OBVIOUS
<1>1. TypeOK
  BY DEF IInv, Types, TypeOK, Tags, AllOptions
<1>2. LocalUnlessRemote
  BY DEF IInv
<1>3. /\ toServer \in Seq(Messages) /\ toClient \in Seq(Messages)
      /\ DOMAIN toServer = 1 .. Len(toServer) /\ DOMAIN toClient = 1 .. Len(toClient)
  BY ClientQueue DEF IInv, Types
<1>4. ASSUME NEW o \in Options, connected, ~InFlight(o)
      PROVE  /\ server[o] \in {"YES", "NO"}
             /\ (server[o] = "YES") <=> (telnet.opt_states[o] = "ACTIVE")
             /\ telnet.opt_states[o] # "REQUESTED"
  <2>1. None(toServer, o) /\ None(toClient, o)
    BY <1>3, <1>4 DEF InFlight, None
  <2>2. ASSUME NEW q, NEW b, None(q, o) PROVE ~One(q, o, b)
    BY <2>2 DEF None, One, IsCommand, Command
  <2>3. ASSUME NEW q, NEW b, NEW c, None(q, o) PROVE ~Two(q, o, b, c)
    BY <2>3 DEF None, Two, IsCommand, Command
  <2>4. \A q, l : None(q, o) /\ Holds(q, o, l) => l = "none"
    BY <2>2, <2>3 DEF Holds
  <2>5. AtStage(o, telnet.opt_states[o], server[o], toServer, toClient)
    BY <1>4 DEF IInv, InStep
  <2>6. Stage(o, telnet.opt_states[o], server[o], "none", "none")
    BY <2>1, <2>4, <2>5 DEF AtStage
  <2> QED BY <2>6 DEF Stage, Idle
<1>5. Agreement
  BY <1>4 DEF Agreement
<1>6. SizeReported
  <2>1. SUFFICES ASSUME connected, telnet.opt_states["naws"] = "ACTIVE", ~ReportInFlight
                 PROVE  known = <<window>>
    BY DEF SizeReported
  <2>2. ~LastReport(toServer, telnet.size)
    BY <1>3, <2>1 DEF ReportInFlight, LastReport, IsReport, Naws
  <2> QED BY <2>1, <2>2 DEF IInv, Types, Told
<1> QED BY <1>1, <1>2, <1>5, <1>6 DEF TelnetSafe

(* The two ends of a telnet connection agree on every option about which
   nothing is in flight, the line discipline does locally exactly what the
   server does not, and the server knows the size it has asked for, whatever
   crosses on the way (proc_rec_opt, activate_option, telnet_size). *)
THEOREM NegotiationAgrees == Spec => []TelnetSafe
<1>1. Spec => []IInv
  BY InitStarts, StepKeeps, PTL DEF Spec
<1> QED BY <1>1, InvSafe, PTL
=============================================================================
