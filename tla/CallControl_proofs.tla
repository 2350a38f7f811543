------------------------- MODULE CallControl_proofs -------------------------
(***************************************************************************)
(* Theorems about Call Control: a call neither hangs nor stays half open,   *)
(* an active call from the portable part keeps no timer of its setup, and   *)
(* the U-plane does not outlive a call that carries no in-band information. *)
(*                                                                          *)
(* The inductive invariant IInv says what the application's view of a call  *)
(* implies for its state and timers (SideOK), what the two sides do and     *)
(* which messages can be on their way to each (Roles, Channels), what the   *)
(* calling side may conclude from a CONNECT it has read (Connection), and   *)
(* that as long as the link stands whatever one side waits for is on its    *)
(* way or timed (Proceeds).                                                 *)
(*                                                                          *)
(* A step is summarised by Moves, Gives and Takes, what it does to the      *)
(* call, and to the messages of the two sides; lemmas about these summaries *)
(* stand for the actions that have the same effect on the invariant.        *)
(***************************************************************************)
EXTENDS CallControl, SequenceTheorems, TLAPS

-----------------------------------------------------------------------------
(* Operators on a call *)

TimerName == SetupTimers \cup {"release"}

\* Each operator takes a call to a call, and changes the fields named here.
LEMMA StartCall ==
    ASSUME NEW c \in Call, NEW t \in TimerName
    PROVE  /\ Start(c, t) \in Call
           /\ Start(c, t).state = c.state /\ Start(c, t).timers = c.timers \cup {t}
           /\ Start(c, t).lu_sap = c.lu_sap
BY DEF Start, Call, TimerName

LEMMA StopCall ==
    ASSUME NEW c \in Call, NEW t \in TimerName
    PROVE  /\ Stop(c, t) \in Call
           /\ Stop(c, t).state = c.state /\ Stop(c, t).timers = c.timers \ {t}
           /\ Stop(c, t).lu_sap = c.lu_sap
BY DEF Stop, Call, TimerName

LEMMA StopIfRunningCall ==
    ASSUME NEW c \in Call, NEW ts \in SUBSET TimerName
    PROVE  /\ StopIfRunning(c, ts) \in Call
           /\ StopIfRunning(c, ts).state = c.state
           /\ StopIfRunning(c, ts).timers = c.timers \ ts
           /\ StopIfRunning(c, ts).lu_sap = c.lu_sap
BY DEF StopIfRunning, Call, TimerName

LEMMA StopTimersCall ==
    ASSUME NEW c \in Call
    PROVE  /\ StopTimers(c) \in Call
           /\ StopTimers(c).state = c.state
           /\ StopTimers(c).timers = c.timers \cap {"release"}
           /\ StopTimers(c).lu_sap = c.lu_sap
<1>1. SetupTimers \in SUBSET TimerName
  BY DEF TimerName
<1>2. c.timers \ SetupTimers = c.timers \cap {"release"}
  BY DEF Call, SetupTimers
<1> QED
  BY <1>1, <1>2, StopIfRunningCall DEF StopTimers

LEMMA InStateCall ==
    ASSUME NEW c \in Call, NEW state \in CallState
    PROVE  /\ InState(c, state) \in Call
           /\ InState(c, state).state = state /\ InState(c, state).timers = c.timers
           /\ InState(c, state).lu_sap = c.lu_sap
BY DEF InState, Call

LEMMA ConnectedCall ==
    ASSUME NEW c \in Call, NEW available \in BOOLEAN
    PROVE  /\ Connected(c, available) \in Call
           /\ Connected(c, available).state = c.state
           /\ Connected(c, available).timers = c.timers
           /\ Connected(c, available).lu_sap = (c.lu_sap \/ available)
BY DEF Connected, Call

LEMMA NotConnectedCall ==
    ASSUME NEW c \in Call
    PROVE  Connected(c, FALSE) = c
<1>1. c.lu_sap \in BOOLEAN
  BY DEF Call
<1>2. (c.lu_sap \/ FALSE) = c.lu_sap
  BY <1>1
<1> QED
  BY <1>2 DEF Connected, Call

LEMMA DestroyCall ==
    ASSUME NEW c \in Call
    PROVE  /\ Destroy(c) \in Call /\ Destroy(c).state = "DESTROYED"
           /\ Destroy(c).timers = {} /\ Destroy(c).lu_sap = c.lu_sap
BY DEF Destroy, Call, CallState

LEMMA DisconnectedCall ==
    ASSUME NEW c \in Call
    PROVE  /\ [c EXCEPT !.lu_sap = FALSE] \in Call
           /\ [c EXCEPT !.lu_sap = FALSE].state = c.state
           /\ [c EXCEPT !.lu_sap = FALSE].timers = c.timers
           /\ ~ [c EXCEPT !.lu_sap = FALSE].lu_sap
BY DEF Call

LEMMA ShutdownCall ==
    ASSUME NEW c \in Call
    PROVE  /\ Shutdown(c) \in Call /\ Shutdown(c).state = "DESTROYED"
           /\ Shutdown(c).timers = {} /\ ~ Shutdown(c).lu_sap
BY DisconnectedCall, DestroyCall DEF Shutdown

LEMMA NoCallCall == NoCall \in Call /\ NoCall.state = "NULL" /\ NoCall.timers = {} /\ ~ NoCall.lu_sap
BY DEF NoCall, Call, CallState

LEMMA EndOverlapCall ==
    ASSUME NEW s \in Side, NEW c \in Call
    PROVE  /\ EndOverlap(s, c) \in Call
           /\ EndOverlap(s, c).state = c.state
           /\ EndOverlap(s, c).timers =
                IF s = "FP" /\ c.state = "OVERLAP_SENDING" THEN c.timers \ {"overlap_sending"} ELSE c.timers
           /\ EndOverlap(s, c).lu_sap = c.lu_sap
<1>1. "overlap_sending" \in TimerName
  BY DEF TimerName, SetupTimers
<1> QED
  BY <1>1, StopCall DEF EndOverlap

-----------------------------------------------------------------------------
(* Channels *)

LEMMA OtherSide ==
    ASSUME NEW s \in Side
    PROVE  Other(s) \in Side /\ Other(s) # s /\ Other(Other(s)) = s
           /\ \A r \in Side : r = s \/ r = Other(s)
BY DEF Side, Other

Types(q) == {q[i].type : i \in DOMAIN q}

\* A SETUP can only be the first message.
SetupFirst(q) == \A i \in DOMAIN q : q[i].type = "SETUP" => i = 1

Early == {"SETUP_ACK", "CALL_PROC", "ALERTING"}

\* What comes before a CONNECT does not come after it.
EarlyFirst(q) ==
    \A i, j \in DOMAIN q : i < j /\ q[i].type = "CONNECT" => q[j].type \notin Early

LEMMA AppendTypes ==
    ASSUME NEW q \in Seq(Message), NEW m \in Message
    PROVE  /\ Append(q, m) \in Seq(Message) /\ Append(q, m) # <<>>
           /\ Types(Append(q, m)) = Types(q) \cup {m.type}
           /\ q = <<>> => Head(Append(q, m)) = m
           /\ q # <<>> => Head(Append(q, m)) = Head(q)
           /\ SetupFirst(q) /\ (m.type # "SETUP" \/ q = <<>>) => SetupFirst(Append(q, m))
           /\ EarlyFirst(q) /\ (m.type \notin Early \/ "CONNECT" \notin Types(q))
                => EarlyFirst(Append(q, m))
<1> DEFINE r == Append(q, m)
<1>1. /\ r \in Seq(Message) /\ Len(r) = Len(q) + 1 /\ DOMAIN r = 1 .. Len(q) + 1
      /\ DOMAIN q = 1 .. Len(q) /\ Len(q) \in Nat
      /\ \A i \in 1 .. Len(q) : r[i] = q[i]
      /\ r[Len(q) + 1] = m
  OBVIOUS
<1>2. r # <<>> /\ Head(r) = r[1]
  BY <1>1
<1>3. q # <<>> => Len(q) >= 1 /\ Head(q) = q[1]
  OBVIOUS
<1>4. q = <<>> => Len(q) = 0
  OBVIOUS
<1> HIDE DEF r
<1>5. Types(r) = Types(q) \cup {m.type}
  BY <1>1 DEF Types
<1>6. q = <<>> => Head(r) = m
  BY <1>1, <1>2, <1>4
<1>7. q # <<>> => Head(r) = Head(q)
  BY <1>1, <1>2, <1>3
<1>8. SetupFirst(q) /\ (m.type # "SETUP" \/ q = <<>>) => SetupFirst(r)
  BY <1>1, <1>4 DEF SetupFirst
<1>9. ASSUME EarlyFirst(q), m.type \notin Early \/ "CONNECT" \notin Types(q)
      PROVE  EarlyFirst(r)
  <2> SUFFICES ASSUME NEW i \in DOMAIN r, NEW j \in DOMAIN r, i < j, r[i].type = "CONNECT"
               PROVE  r[j].type \notin Early
    BY DEF EarlyFirst
  <2>1. i \in DOMAIN q /\ q[i].type = "CONNECT"
    BY <1>1
  <2>2. CASE j \in DOMAIN q
    BY <1>1, <1>9, <2>1, <2>2 DEF EarlyFirst
  <2>3. CASE j = Len(q) + 1
    BY <1>1, <1>9, <2>1, <2>3 DEF Types
  <2> QED
    BY <1>1, <2>2, <2>3
<1> QED
  BY <1>1, <1>2, <1>5, <1>6, <1>7, <1>8, <1>9 DEF r

LEMMA TailTypes ==
    ASSUME NEW q \in Seq(Message), q # <<>>
    PROVE  /\ Tail(q) \in Seq(Message)
           /\ Head(q) \in Message
           /\ Types(q) = Types(Tail(q)) \cup {Head(q).type}
           /\ SetupFirst(q) => "SETUP" \notin Types(Tail(q)) /\ SetupFirst(Tail(q))
           /\ EarlyFirst(q) => EarlyFirst(Tail(q))
           /\ EarlyFirst(q) /\ Head(q).type = "CONNECT" => Types(Tail(q)) \cap Early = {}
<1> DEFINE r == Tail(q)
<1>1. /\ r \in Seq(Message) /\ Len(q) \in Nat \ {0} /\ Len(r) = Len(q) - 1
      /\ DOMAIN r = 1 .. Len(q) - 1 /\ DOMAIN q = 1 .. Len(q)
      /\ \A i \in 1 .. Len(q) - 1 : r[i] = q[i + 1]
      /\ Head(q) = q[1] /\ Head(q) \in Message
  OBVIOUS
<1> HIDE DEF r
<1>2. \A i \in DOMAIN r : i \in Nat /\ i + 1 \in DOMAIN q /\ r[i] = q[i + 1] /\ i + 1 # 1
  BY <1>1
<1>3. \A i \in DOMAIN q : i = 1 \/ \E k \in DOMAIN r : q[i] = r[k]
  <2>1. \A i \in DOMAIN q : i = 1 \/ (i - 1 \in DOMAIN r /\ q[i] = r[i - 1])
    BY <1>1
  <2> QED
    BY <2>1
<1>4. 1 \in DOMAIN q
  BY <1>1
<1>5. Types(q) = Types(r) \cup {Head(q).type}
  <2>1. Types(q) \subseteq Types(r) \cup {Head(q).type}
    BY <1>1, <1>3 DEF Types
  <2>2. Types(r) \subseteq Types(q)
    BY <1>2 DEF Types
  <2>3. Head(q).type \in Types(q)
    BY <1>1, <1>4 DEF Types
  <2> QED
    BY <2>1, <2>2, <2>3
<1>6. SetupFirst(q) => "SETUP" \notin Types(r)
  BY <1>2 DEF SetupFirst, Types
<1>7. "SETUP" \notin Types(r) => SetupFirst(r)
  BY DEF SetupFirst, Types
<1>8. EarlyFirst(q) => EarlyFirst(r)
  <2> SUFFICES ASSUME EarlyFirst(q), NEW i \in DOMAIN r, NEW k \in DOMAIN r,
                      i < k, r[i].type = "CONNECT"
               PROVE  r[k].type \notin Early
    BY DEF EarlyFirst
  <2>1. i + 1 < k + 1
    BY <1>2
  <2> QED
    BY <1>2, <2>1 DEF EarlyFirst
<1>9. EarlyFirst(q) /\ Head(q).type = "CONNECT" => Types(r) \cap Early = {}
  <2> SUFFICES ASSUME EarlyFirst(q), q[1].type = "CONNECT", NEW k \in DOMAIN r
               PROVE  r[k].type \notin Early
    BY <1>1 DEF Types
  <2>1. 1 < k + 1
    BY <1>1
  <2> QED
    BY <1>2, <1>4, <2>1 DEF EarlyFirst
<1> QED
  BY <1>1, <1>5, <1>6, <1>7, <1>8, <1>9 DEF r

-----------------------------------------------------------------------------
(* The parts of a step *)

LEMMA SetEffect ==
    ASSUME call \in [Side -> Call], NEW s \in Side, NEW c \in Call, Set(s, c)
    PROVE  /\ call' \in [Side -> Call]
           /\ call'[s] = c /\ call'[Other(s)] = call[Other(s)]
BY OtherSide DEF Set

LEMMA SeeEffect ==
    ASSUME view \in [Side -> View], NEW s \in Side, NEW v \in View, See(s, v)
    PROVE  /\ view' \in [Side -> View]
           /\ view'[s] = v /\ view'[Other(s)] = view[Other(s)]
BY OtherSide DEF See

Indications == {"none", "setup_ack", "call_proc", "alert", "info"}

LEMMA IndicateEffect ==
    ASSUME indication \in [Side -> Indications], NEW s \in Side,
           NEW what \in Indications, Indicate(s, what)
    PROVE  /\ indication' \in [Side -> Indications]
           /\ indication'[s] = what /\ indication'[Other(s)] = indication[Other(s)]
BY OtherSide DEF Indicate

LEMMA SendsEffect ==
    ASSUME net \in [Side -> Seq(Message)], NEW s \in Side, NEW type \in MessageType,
           NEW inband \in BOOLEAN, Sends(s, type, inband)
    PROVE  /\ net' \in [Side -> Seq(Message)]
           /\ net'[s] = net[s]
           /\ [type |-> type, inband |-> inband] \in Message
           /\ net'[Other(s)] = IF up[Other(s)]
                               THEN Append(net[Other(s)], [type |-> type, inband |-> inband])
                               ELSE net[Other(s)]
<1>1. [type |-> type, inband |-> inband] \in Message
  BY DEF Message
<1> QED
  BY <1>1, OtherSide DEF Sends

LEMMA EmptyTypes == Types(<<>>) = {}
BY DEF Types

-----------------------------------------------------------------------------
(* The view of the application *)

Undecided == {"called", "overlap", "proceeding", "alerting"}

LEMMA ViewIs ==
    View = Undecided \cup {"connecting", "none", "calling", "answered", "active", "releasing",
                           "released", "gone"}
<1>1. DOMAIN Answers = 1 .. 5
  BY DEF Answers
<1>2. {Answers[i] : i \in DOMAIN Answers} = Undecided \cup {"connecting"}
  <2>1. Answers[1] = "called" /\ Answers[2] = "overlap" /\ Answers[3] = "proceeding"
        /\ Answers[4] = "alerting" /\ Answers[5] = "connecting"
    BY DEF Answers
  <2>2. 1 .. 5 = {1, 2, 3, 4, 5}
    OBVIOUS
  <2> QED
    BY <1>1, <2>1, <2>2 DEF Undecided
<1> QED
  BY <1>2 DEF View

LEMMA BeforeViews ==
    ASSUME NEW v
    PROVE  /\ Before(v, "overlap") => v = "called"
           /\ Before(v, "proceeding") => v \in {"called", "overlap"}
           /\ Before(v, "alerting") => v \in {"called", "overlap", "proceeding"}
           /\ Before(v, "connecting") => v \in Undecided
<1>1. DOMAIN Answers = 1 .. 5
  BY DEF Answers
<1>2. Answers[1] = "called" /\ Answers[2] = "overlap" /\ Answers[3] = "proceeding"
        /\ Answers[4] = "alerting" /\ Answers[5] = "connecting"
  BY DEF Answers
<1> QED
  BY <1>1, <1>2 DEF Before, Undecided

-----------------------------------------------------------------------------
(* The invariant *)

End == {"RELEASE", "RELEASE_COM"}

Over == {"releasing", "released", "gone"}

Coming(s) == Types(net[s])

\* One side: what the application believes follows the state and the timers.
SideOK(s) ==
    /\ view[s] = "none" <=> call[s].state = "NULL"
    /\ view[s] = "gone" <=> call[s].state = "DESTROYED"
    /\ call[s].state = "RELEASE_PENDING" => view[s] = "releasing"
    /\ "release" \in call[s].timers => view[s] \in {"releasing", "released"}
    /\ view[s] = "releasing" => "release" \in call[s].timers
    /\ call[s].timers # {} => Open(s)
    /\ ~ up[s] => net[s] = <<>>

\* What the calling side o and the called side t do and send.
Roles(o, t) ==
    /\ view[o] \in Over \cup {"none", "calling", "answered", "active"}
    /\ view[t] \in Over \cup Undecided \cup {"none", "connecting", "active"}
    /\ Coming(o) \subseteq Early \cup End \cup {"CONNECT", "INFO"}
    /\ Coming(t) \subseteq End \cup {"SETUP", "CONNECT_ACK", "INFO"}
    /\ indication[t] \in {"none", "info"}
    /\ view[o] = "none" => view[t] = "none" /\ net[t] = <<>>
    /\ view[t] = "none" => net[o] = <<>>

\* The order of the messages of a call.
Channels(o, t) ==
    /\ SetupFirst(net[t])
    /\ view[t] # "none" => "SETUP" \notin Coming(t)
    /\ view[t] = "none" /\ net[t] # <<>> => Head(net[t]).type = "SETUP"
    /\ EarlyFirst(net[o])
    /\ "CONNECT" \in Coming(o) => view[t] \notin Undecided
    /\ view[t] = "called" => Coming(o) \cap Early = {}

\* The called side has decided, and the calling side has seen what came before.
Decided(o, t) ==
    /\ Coming(o) \cap Early = {}
    /\ indication[o] \in {"none", "info"}
    /\ view[t] \notin Undecided \cup {"none"}

Connection(o, t) ==
    /\ view[o] \in {"answered", "active"} => Decided(o, t)
    /\ o = "PP" /\ call[o].state = "ACTIVE" => Decided(o, t)

\* A call from the portable part.
PortableCalls(o, t) ==
    /\ "overlap_sending" \in call[t].timers => call[t].state = "OVERLAP_SENDING"
    /\ call[t].timers \cap {"setup", "connect"} = {}
    /\ call[t].state = "ACTIVE" => "completion" \notin call[t].timers /\ view[t] \notin Undecided
    /\ view[t] \in {"connecting", "active"} => call[t].state = "ACTIVE"
    /\ call[o].timers \cap {"overlap_sending", "connect"} = {}
    /\ call[o].state = "ACTIVE" => call[o].timers \cap {"setup", "completion"} = {}
    /\ view[o] \in {"answered", "active"} => call[o].state = "ACTIVE"

\* A call from the fixed part.
FixedCalls(o, t) ==
    /\ view[o] = "active" => call[o].state = "ACTIVE"
    /\ view[t] = "active" => call[t].state = "ACTIVE"
    /\ view[t] = "connecting" => "connect" \in call[t].timers
    /\ view[t] = "active" \/ "CONNECT_ACK" \in Coming(t)
         => view[o] \notin {"none", "calling", "answered"}

\* As long as the link stands, what one side waits for is on its way or timed.
Proceeds(o, t) ==
    /\ view[o] \in {"releasing", "gone"} => Coming(t) \cap End # {} \/ view[t] \in Over
    /\ view[t] \in {"releasing", "gone"} => Coming(o) \cap End # {} \/ view[o] \in Over
    /\ view[o] # "none" /\ view[t] = "none" => "SETUP" \in Coming(t)
    /\ view[t] \in Undecided \ {"called"}
         => call[t].timers \cap {"overlap_sending", "completion"} # {}
    /\ view[o] = "calling"
         => "setup" \in call[o].timers \/ view[t] \notin {"none", "called"}
    /\ view[o] = "calling" /\ view[t] \in {"connecting", "active"} => "CONNECT" \in Coming(o)

Between(o, t) ==
    /\ Roles(o, t) /\ Channels(o, t) /\ Connection(o, t)
    /\ o = "PP" => PortableCalls(o, t)
    /\ o = "FP" => FixedCalls(o, t)
    /\ up[o] /\ up[t] => Proceeds(o, t)

IInv == /\ TypeOK
        /\ \A s \in Side : SideOK(s)
        /\ Between(caller, Other(caller))

-----------------------------------------------------------------------------
(* Steps *)

LEMMA ProgressType == \A s \in Side : Progress(s) \subseteq BOOLEAN
BY DEF Progress

LEMMA TypesOf ==
    /\ TimerName = {"setup", "overlap_sending", "completion", "connect", "release"}
    /\ CallState = {"NULL", "CALL_INITIATED", "OVERLAP_SENDING", "CALL_PROCEEDING",
                    "CALL_DELIVERED", "CALL_PRESENT", "CALL_RECEIVED", "CONNECT_PENDING",
                    "ACTIVE", "RELEASE_PENDING", "DESTROYED"}
    /\ MessageType = {"SETUP", "SETUP_ACK", "CALL_PROC", "ALERTING", "CONNECT", "CONNECT_ACK",
                      "INFO", "RELEASE", "RELEASE_COM"}
BY DEF TimerName, SetupTimers, CallState, MessageType

\* Only side s moves, to call d and view v.
Moves(s, d, v) ==
    /\ call' \in [Side -> Call] /\ call'[s] = d /\ call'[Other(s)] = call[Other(s)]
    /\ view' \in [Side -> View] /\ view'[s] = v /\ view'[Other(s)] = view[Other(s)]

\* Side s sends nothing, or a message of this type, and receives none.
Gives(s, type) ==
    /\ net' \in [Side -> Seq(Message)]
    /\ net'[s] = net[s] /\ Coming(s)' = Coming(s)
    /\ up[Other(s)] =>
         /\ Coming(Other(s))' = Coming(Other(s)) \cup {type}
         /\ net'[Other(s)] # <<>>
         /\ net[Other(s)] = <<>> => Head(net'[Other(s)]).type = type
         /\ net[Other(s)] # <<>> => Head(net'[Other(s)]) = Head(net[Other(s)])
         /\ SetupFirst(net[Other(s)]) /\ (type # "SETUP" \/ net[Other(s)] = <<>>)
              => SetupFirst(net'[Other(s)])
         /\ EarlyFirst(net[Other(s)]) /\ (type \notin Early \/ "CONNECT" \notin Coming(Other(s)))
              => EarlyFirst(net'[Other(s)])
    /\ ~ up[Other(s)] =>
         net'[Other(s)] = net[Other(s)] /\ Coming(Other(s))' = Coming(Other(s))

\* Side s takes its next message, which is of this type.
Takes(s, type) ==
    /\ net' \in [Side -> Seq(Message)]
    /\ net'[Other(s)] = net[Other(s)] /\ Coming(Other(s))' = Coming(Other(s))
    /\ net[s] # <<>> /\ Head(net[s]).type = type
    /\ Coming(s) = Coming(s)' \cup {type}
    /\ SetupFirst(net[s]) => "SETUP" \notin Coming(s)' /\ SetupFirst(net'[s])
    /\ EarlyFirst(net[s]) => EarlyFirst(net'[s])
    /\ EarlyFirst(net[s]) /\ type = "CONNECT" => Coming(s)' \cap Early = {}

LEMMA MovesEffect ==
    ASSUME TypeOK, NEW s \in Side, NEW d \in Call, NEW v \in View, Set(s, d), See(s, v)
    PROVE  Moves(s, d, v)
BY SetEffect, SeeEffect DEF Moves, TypeOK

LEMMA GivesEffect ==
    ASSUME TypeOK, NEW s \in Side, NEW type \in MessageType, NEW inband \in BOOLEAN,
           Sends(s, type, inband)
    PROVE  Gives(s, type)
<1> DEFINE m == [type |-> type, inband |-> inband]
           q == net[Other(s)]
<1>1. net \in [Side -> Seq(Message)] /\ Other(s) \in Side /\ q \in Seq(Message)
  BY OtherSide DEF TypeOK
<1>2. /\ net' \in [Side -> Seq(Message)] /\ net'[s] = net[s] /\ m \in Message
      /\ net'[Other(s)] = IF up[Other(s)] THEN Append(q, m) ELSE q
  BY <1>1, SendsEffect
<1>3. m.type = type
  OBVIOUS
<1> HIDE DEF m
<1> QED
  BY <1>1, <1>2, <1>3, AppendTypes DEF Gives, Coming

LEMMA TakesEffect ==
    ASSUME TypeOK, NEW s \in Side, net[s] # <<>>, net' = [net EXCEPT ![s] = Tail(@)]
    PROVE  Takes(s, Head(net[s]).type)
<1>1. net[s] \in Seq(Message) /\ net \in [Side -> Seq(Message)]
  BY DEF TypeOK
<1>2. /\ net' \in [Side -> Seq(Message)]
      /\ net'[s] = Tail(net[s]) /\ net'[Other(s)] = net[Other(s)]
  BY <1>1, OtherSide
<1> QED
  BY <1>1, <1>2, TailTypes DEF Takes, Coming

LEMMA ReceivesEffect ==
    ASSUME TypeOK, NEW s \in Side, NEW type, Receives(s, type)
    PROVE  /\ Takes(s, type) /\ type \in Coming(s)
           /\ UNCHANGED <<up, infos>> /\ up[s] /\ Open(s)
           /\ indication[s] = "none" /\ Inband(s) \in BOOLEAN
<1>1. net[s] \in Seq(Message) /\ net[s] # <<>> /\ Head(net[s]) \in Message
  BY DEF TypeOK, Receives
<1>2. Inband(s) \in BOOLEAN
  BY <1>1 DEF Inband, Message
<1>3. Takes(s, type)
  BY TakesEffect DEF Receives
<1> QED
  BY <1>2, <1>3 DEF Receives, Handles, Takes

-----------------------------------------------------------------------------
\* The sides of a step.
LEMMA Sides ==
    ASSUME IInv, NEW s \in Side
    PROVE  /\ Other(s) \in Side /\ Other(s) # s /\ \A r \in Side : r = s \/ r = Other(s)
           /\ s # caller => caller = Other(s) /\ Other(caller) = s
           /\ (s = "FP" <=> Other(s) = "PP") /\ (s = "PP" <=> Other(s) = "FP")
           /\ call[s] \in Call /\ view[s] \in View
<1>1. caller \in Side
  BY CallControlAssumption DEF IInv, TypeOK
<1> QED
  BY <1>1, OtherSide DEF IInv, TypeOK, Side

LEMMA StutterKeeps == IInv /\ UNCHANGED vars => IInv'
BY DEF vars, IInv, Between, SideOK, Roles, Channels, Connection, Decided, PortableCalls,
       FixedCalls, Proceeds, TypeOK, Open, Coming

\* A request that is not sent leaves the channels as they are.
LEMMA FailsEffect ==
    ASSUME TypeOK, NEW s \in Side, NEW type, SendFails(s)
    PROVE  Gives(s, type) /\ ~ up[Other(s)]
<1>1. net' = net /\ ~ up[Other(s)] /\ net \in [Side -> Seq(Message)]
  BY DEF SendFails, TypeOK
<1>2. \A r \in Side : Coming(r)' = Coming(r)
  BY <1>1 DEF Coming
<1> QED
  BY <1>1, <1>2, OtherSide DEF Gives

LEMMA MovesCall ==
    ASSUME TypeOK, NEW s \in Side, NEW d \in Call, Set(s, d), UNCHANGED view
    PROVE  Moves(s, d, view[s])
<1>1. call \in [Side -> Call] /\ view \in [Side -> View]
  BY DEF TypeOK
<1>2. call' \in [Side -> Call] /\ call'[s] = d /\ call'[Other(s)] = call[Other(s)]
  BY <1>1, SetEffect
<1> QED
  BY <1>1, <1>2 DEF Moves

LEMMA MovesView ==
    ASSUME TypeOK, NEW s \in Side, NEW v \in View, See(s, v), UNCHANGED call
    PROVE  Moves(s, call[s], v)
<1>1. call \in [Side -> Call] /\ view \in [Side -> View]
  BY DEF TypeOK
<1>2. view' \in [Side -> View] /\ view'[s] = v /\ view'[Other(s)] = view[Other(s)]
  BY <1>1, SeeEffect
<1> QED
  BY <1>1, <1>2 DEF Moves

-----------------------------------------------------------------------------
(* Requests and responses *)

LEMMA SetupReqKeeps ==
    ASSUME IInv, NEW s \in Side, SetupReq(s), UNCHANGED caller
    PROVE  IInv'
<1> DEFINE d == Start(InState(NoCall, IF s = "FP" THEN "CALL_PRESENT" ELSE "CALL_INITIATED"), "setup")
<1>1. d \in Call /\ d.state \in {"CALL_PRESENT", "CALL_INITIATED"} /\ d.timers = {"setup"}
  BY NoCallCall, InStateCall, StartCall, TypesOf
<1>2. Moves(s, d, "calling") /\ Gives(s, "SETUP")
  BY <1>1, MovesEffect, GivesEffect, ViewIs, TypesOf DEF SetupReq, IInv
<1>3. UNCHANGED <<caller, indication, up, infos>> /\ s = caller /\ view[s] = "none" /\ up[s]
  BY DEF SetupReq, Requests
<1> HIDE DEF d
<1>4. Other(s) \in Side /\ Other(s) # s /\ \A r \in Side : r = s \/ r = Other(s)
  BY Sides
<1>5. TypeOK'
  BY <1>1, <1>2, <1>3, <1>4 DEF IInv, TypeOK, Moves, Gives, Indications
<1>6. \A r \in Side : SideOK(r)'
  BY <1>1, <1>2, <1>3, <1>4 DEF IInv, SideOK, Moves, Gives, Open, Undecided, Over
<1>7. Between(s, Other(s))'
  BY <1>1, <1>2, <1>3, <1>4 DEF IInv, Between, SideOK, Roles, Channels, Connection, Decided, PortableCalls,
         FixedCalls, Proceeds, Early, End, Over, Undecided, Moves, Gives, Open
<1> QED
  BY <1>1, <1>2, <1>3, <1>4, <1>5, <1>6, <1>7 DEF IInv

\* The called side requests something: it goes on to view v, or fails.
LEMMA AnswerKeeps ==
    ASSUME IInv, UNCHANGED <<caller, indication, up, infos>>, NEW s \in Side, s # caller, up[s],
           view[s] \in Undecided,
           NEW type \in Early \cup {"CONNECT"}, Gives(s, type),
           NEW d \in Call, NEW v \in View, Moves(s, d, v),
           d.state \notin {"NULL", "DESTROYED", "RELEASE_PENDING"},
           \/ v \in Undecided \ {"called"} /\ type \in Early
           \/ v = "connecting" /\ type = "CONNECT"
           \/ v = view[s] /\ ~ up[Other(s)],
           "release" \notin d.timers,
           v \in Undecided /\ up[Other(s)] => d.timers \cap {"overlap_sending", "completion"} # {},
           s = "PP" /\ v = "connecting" => "connect" \in d.timers,
           s = "FP" => /\ d.timers \cap {"setup", "connect"} = {}
                       /\ "overlap_sending" \in d.timers => d.state = "OVERLAP_SENDING"
                       /\ d.state = "ACTIVE" => v = "connecting" /\ "completion" \notin d.timers
                       /\ v = "connecting" => d.state = "ACTIVE"
    PROVE  IInv'
<1>1. /\ Other(s) \in Side /\ Other(s) # s /\ \A r \in Side : r = s \/ r = Other(s)
      /\ caller = Other(s) /\ Other(caller) = s
  BY Sides
<1>2. s \in {"FP", "PP"} /\ (s = "FP" <=> Other(s) = "PP") /\ (s = "PP" <=> Other(s) = "FP")
  BY DEF Side, Other
<1>3. TypeOK'
  BY <1>1, <1>2 DEF IInv, TypeOK, Moves, Gives, Indications
<1>4. \A r \in Side : SideOK(r)'
  BY <1>1, <1>2 DEF IInv, SideOK, Moves, Gives, Open, Undecided, Over
<1>5. Between(Other(s), s)'
  <2>1. Roles(Other(s), s)'
    BY <1>1, <1>2 DEF IInv, Between, SideOK, Roles, Early, End, Over, Undecided, Moves, Gives, Open
  <2>2. Channels(Other(s), s)'
    BY <1>1, <1>2 DEF IInv, Between, SideOK, Roles, Channels, Early, End, Over, Undecided, Moves, Gives,
           Open
  <2>3. Connection(Other(s), s)'
    BY <1>1, <1>2 DEF IInv, Between, SideOK, Roles, Connection, Decided, Channels, Early, End, Over,
           Undecided, Moves, Gives, Open
  <2>4. Other(s) = "PP" => PortableCalls(Other(s), s)'
    BY <1>1, <1>2 DEF IInv, Between, SideOK, Roles, PortableCalls, Decided, Connection, Early, End,
           Over, Undecided, Moves, Gives, Open
  <2>5. Other(s) = "FP" => FixedCalls(Other(s), s)'
    BY <1>1, <1>2 DEF IInv, Between, SideOK, Roles, FixedCalls, Decided, Connection, Early, End, Over,
           Undecided, Moves, Gives, Open
  <2>6. up[Other(s)]' /\ up[s]' => Proceeds(Other(s), s)'
    BY <1>1, <1>2 DEF IInv, Between, SideOK, Roles, Proceeds, Early, End, Over, Undecided, Moves, Gives,
           Open
  <2> QED
    BY <1>1, <1>2, <2>1, <2>2, <2>3, <2>4, <2>5, <2>6 DEF Between
<1> QED
  BY <1>1, <1>2, <1>3, <1>4, <1>5 DEF IInv

LEMMA Answering ==
    ASSUME IInv, NEW s \in Side, view[s] \in Undecided
    PROVE  /\ s # caller /\ call[s] \in Call /\ view[s] \in View
           /\ call[s].state \notin {"NULL", "DESTROYED", "RELEASE_PENDING"}
           /\ "release" \notin call[s].timers
           /\ s = "FP" => /\ call[s].timers \cap {"setup", "connect"} = {}
                          /\ "overlap_sending" \in call[s].timers
                               => call[s].state = "OVERLAP_SENDING"
                          /\ call[s].state # "ACTIVE"
<1>1. s # caller
  BY DEF IInv, Between, Roles, Over, Undecided
<1>2. caller = Other(s) /\ Other(caller) = s /\ (s = "FP" => caller = "PP")
  BY <1>1, Sides
<1> QED
  BY <1>1, <1>2, Sides DEF IInv, Between, PortableCalls, SideOK, Undecided

LEMMA SetupAckReqKeeps ==
    ASSUME IInv, NEW s \in Side, SetupAckReq(s), UNCHANGED caller
    PROVE  IInv'
<1>1. UNCHANGED <<caller, indication, up, infos>> /\ up[s] /\ view[s] \in {"called"}
  BY BeforeViews DEF SetupAckReq, Requests
<1>2. view[s] \in Undecided
  BY <1>1 DEF Undecided
<1> DEFINE d == InState(Start(call[s], "overlap_sending"), "OVERLAP_SENDING")
<1>3. d \in Call /\ d.state = "OVERLAP_SENDING" /\ d.timers = call[s].timers \cup {"overlap_sending"}
  BY <1>2, Answering, InStateCall, StartCall, TypesOf
<1>4. CASE Sends(s, "SETUP_ACK", FALSE) /\ Set(s, d) /\ See(s, "overlap")
  <2>1. Moves(s, d, "overlap") /\ Gives(s, "SETUP_ACK")
    BY <1>3, <1>4, MovesEffect, GivesEffect, ViewIs, TypesOf DEF IInv, Undecided
  <2> HIDE DEF d
  <2> QED
    BY <1>1, <1>2, <1>3, <2>1, AnswerKeeps, Answering, ViewIs DEF Undecided, Early
<1>5. CASE SendFails(s) /\ UNCHANGED <<call, view>>
  BY <1>1, <1>5, StutterKeeps DEF SendFails, vars
<1> QED
  BY <1>4, <1>5 DEF SetupAckReq

LEMMA CallProcReqKeeps ==
    ASSUME IInv, NEW s \in Side, CallProcReq(s), UNCHANGED caller
    PROVE  IInv'
<1>1. UNCHANGED <<caller, indication, up, infos>> /\ up[s] /\ view[s] \in {"called", "overlap"}
  BY BeforeViews DEF CallProcReq, Requests
<1>2. view[s] \in Undecided
  BY <1>1 DEF Undecided
<1>3. PICK inband \in BOOLEAN :
        \/ /\ Sends(s, "CALL_PROC", inband) /\ See(s, "proceeding")
           /\ Set(s, Start(InState(Connected(EndOverlap(s, call[s]), inband), "CALL_PROCEEDING"), "completion"))
        \/ /\ SendFails(s) /\ UNCHANGED view
           /\ Set(s, InState(Connected(EndOverlap(s, call[s]), inband), "CALL_PROCEEDING"))
  BY ProgressType DEF CallProcReq
<1> DEFINE f == InState(Connected(EndOverlap(s, call[s]), inband), "CALL_PROCEEDING")
           d == Start(f, "completion")
<1>4. /\ EndOverlap(s, call[s]) \in Call
      /\ EndOverlap(s, call[s]).state = call[s].state
      /\ EndOverlap(s, call[s]).timers =
             IF s = "FP" /\ call[s].state = "OVERLAP_SENDING"
             THEN call[s].timers \ {"overlap_sending"} ELSE call[s].timers
      /\ Connected(EndOverlap(s, call[s]), inband) \in Call
      /\ Connected(EndOverlap(s, call[s]), inband).timers = EndOverlap(s, call[s]).timers
      /\ f \in Call
      /\ f.state = "CALL_PROCEEDING"
      /\ f.timers = EndOverlap(s, call[s]).timers
      /\ d \in Call
      /\ d.state = "CALL_PROCEEDING"
      /\ d.timers = f.timers \cup {"completion"}
  <2>1. /\ EndOverlap(s, call[s]) \in Call
        /\ EndOverlap(s, call[s]).state = call[s].state
        /\ EndOverlap(s, call[s]).timers =
             IF s = "FP" /\ call[s].state = "OVERLAP_SENDING"
             THEN call[s].timers \ {"overlap_sending"} ELSE call[s].timers
    BY <1>2, EndOverlapCall, Answering, TypesOf
  <2>2. /\ Connected(EndOverlap(s, call[s]), inband) \in Call
        /\ Connected(EndOverlap(s, call[s]), inband).timers = EndOverlap(s, call[s]).timers
    BY <1>2, <2>1, <1>3, ConnectedCall, TypesOf
  <2>3. /\ f \in Call
        /\ f.state = "CALL_PROCEEDING"
        /\ f.timers = EndOverlap(s, call[s]).timers
    BY <1>2, <2>2, InStateCall, TypesOf
  <2>4. /\ d \in Call
        /\ d.state = "CALL_PROCEEDING"
        /\ d.timers = f.timers \cup {"completion"}
    BY <1>2, <2>3, StartCall, TypesOf
  <2> QED
    BY <2>1, <2>2, <2>3, <2>4
<1>5. CASE Sends(s, "CALL_PROC", inband) /\ Set(s, d) /\ See(s, "proceeding")
  <2>1. Moves(s, d, "proceeding") /\ Gives(s, "CALL_PROC")
    BY <1>4, <1>5, MovesEffect, GivesEffect, ViewIs, TypesOf DEF IInv, Undecided
  <2> HIDE DEF d
  <2> QED
    BY <1>1, <1>2, <1>4, <2>1, AnswerKeeps, Answering, ViewIs DEF Undecided, Early
<1>6. CASE SendFails(s) /\ Set(s, f) /\ UNCHANGED view
  <2>1. Moves(s, f, view[s]) /\ Gives(s, "CALL_PROC") /\ ~ up[Other(s)]
    BY <1>4, <1>6, MovesCall, FailsEffect DEF IInv
  <2> HIDE DEF f
  <2> QED
    BY <1>1, <1>2, <1>4, <2>1, AnswerKeeps, Answering, ViewIs DEF Undecided, Early
<1> QED
  BY <1>3, <1>5, <1>6

LEMMA AlertReqKeeps ==
    ASSUME IInv, NEW s \in Side, AlertReq(s), UNCHANGED caller
    PROVE  IInv'
<1>1. UNCHANGED <<caller, indication, up, infos>> /\ up[s]
      /\ view[s] \in {"called", "overlap", "proceeding"}
  BY BeforeViews DEF AlertReq, Requests
<1>2. view[s] \in Undecided
  BY <1>1 DEF Undecided
<1> DEFINE d(inband) ==
             Start(IF s = "FP"
                   THEN InState(EndOverlap(s, Connected(call[s], inband)), "CALL_DELIVERED")
                   ELSE InState(call[s], "CALL_RECEIVED"), "completion")
<1>3. CASE \E inband \in Progress(s) : Sends(s, "ALERTING", inband) /\ Set(s, d(inband)) /\ See(s, "alerting")
  <2>1. PICK inband \in BOOLEAN : Sends(s, "ALERTING", inband) /\ Set(s, d(inband)) /\ See(s, "alerting")
    BY <1>3, ProgressType
  <2>2. /\ d(inband) \in Call /\ d(inband).state \in {"CALL_DELIVERED", "CALL_RECEIVED"}
        /\ d(inband).timers = {"completion"} \cup
             (IF s = "FP" /\ call[s].state = "OVERLAP_SENDING"
              THEN call[s].timers \ {"overlap_sending"} ELSE call[s].timers)
    <3> DEFINE c == EndOverlap(s, Connected(call[s], inband))
    <3>1. /\ c \in Call
          /\ c.timers = IF s = "FP" /\ call[s].state = "OVERLAP_SENDING"
                        THEN call[s].timers \ {"overlap_sending"} ELSE call[s].timers
      BY <1>2, Answering DEF EndOverlap, Stop, Connected, Call
    <3> HIDE DEF c
    <3>2. d(inband) = Start(InState(IF s = "FP" THEN c ELSE call[s],
                                    IF s = "FP" THEN "CALL_DELIVERED" ELSE "CALL_RECEIVED"), "completion")
      BY DEF c
    <3>3. CASE s = "FP"
      <4>1. d(inband) = Start(InState(c, "CALL_DELIVERED"), "completion")
        BY <3>2, <3>3
      <4>2. /\ InState(c, "CALL_DELIVERED") \in Call
            /\ InState(c, "CALL_DELIVERED").state = "CALL_DELIVERED"
            /\ InState(c, "CALL_DELIVERED").timers = c.timers
        BY <3>1, InStateCall, TypesOf
      <4>3. /\ d(inband) \in Call /\ d(inband).state = "CALL_DELIVERED"
            /\ d(inband).timers = c.timers \cup {"completion"}
        BY <4>1, <4>2, StartCall, TypesOf
      <4> QED
        BY <3>1, <3>3, <4>3
    <3>4. CASE s # "FP"
      BY <1>2, <3>2, <3>4, Answering DEF Start, InState, Call, CallState, SetupTimers
    <3> QED
      BY <3>3, <3>4
  <2>3. Moves(s, d(inband), "alerting") /\ Gives(s, "ALERTING")
    BY <2>1, <2>2, MovesEffect, GivesEffect, ViewIs, TypesOf DEF IInv, Undecided
  <2> HIDE DEF d
  <2> QED
    BY <1>1, <1>2, <2>2, <2>3, AnswerKeeps, Answering, ViewIs DEF Undecided, Early
<1>4. CASE SendFails(s) /\ UNCHANGED <<call, view>>
  BY <1>1, <1>4, StutterKeeps DEF SendFails, vars
<1> QED
  BY <1>3, <1>4 DEF AlertReq

LEMMA ConnectReqKeeps ==
    ASSUME IInv, NEW s \in Side, ConnectReq(s), UNCHANGED caller
    PROVE  IInv'
<1>1. UNCHANGED <<caller, indication, up, infos>> /\ up[s] /\ view[s] \in Undecided
  BY BeforeViews DEF ConnectReq, Requests
<1> DEFINE c == EndOverlap(s, Connected(call[s], TRUE))
           d == IF s = "FP" THEN InState(StopIfRunning(c, {"completion"}), "ACTIVE")
                            ELSE InState(Start(c, "connect"), "CONNECT_PENDING")
           f == [c EXCEPT !.lu_sap = FALSE]
<1>2. /\ c \in Call /\ c.state = call[s].state
      /\ c.timers = IF s = "FP" /\ call[s].state = "OVERLAP_SENDING"
                    THEN call[s].timers \ {"overlap_sending"} ELSE call[s].timers
  BY <1>1, Answering DEF EndOverlap, Stop, Connected, Call
<1>3. CASE Sends(s, "CONNECT", FALSE) /\ Set(s, d) /\ See(s, "connecting")
  <2> HIDE DEF c
  <2>1. /\ d \in Call
        /\ s = "FP" => d.state = "ACTIVE" /\ d.timers = c.timers \ {"completion"}
        /\ s # "FP" => d.state = "CONNECT_PENDING" /\ d.timers = c.timers \cup {"connect"}
    BY <1>2 DEF InState, StopIfRunning, Start, Call, CallState, SetupTimers
  <2> HIDE DEF d
  <2>2. Moves(s, d, "connecting") /\ Gives(s, "CONNECT")
    BY <1>3, <2>1, MovesEffect, GivesEffect, ViewIs, TypesOf DEF IInv
  <2> QED
    BY <1>1, <1>2, <2>1, <2>2, AnswerKeeps, Answering, ViewIs DEF Undecided, Early, Side
<1>4. CASE SendFails(s) /\ Set(s, f) /\ UNCHANGED view
  <2> HIDE DEF c
  <2>1. f \in Call /\ f.state = c.state /\ f.timers = c.timers
    BY <1>2, DisconnectedCall
  <2> HIDE DEF f
  <2>2. Moves(s, f, view[s]) /\ Gives(s, "CONNECT") /\ ~ up[Other(s)]
    BY <1>4, <2>1, MovesCall, FailsEffect DEF IInv
  <2> QED
    BY <1>1, <1>2, <2>1, <2>2, AnswerKeeps, Answering, ViewIs DEF Undecided, Early
<1> QED
  BY <1>3, <1>4 DEF ConnectReq

LEMMA ConnectResKeeps ==
    ASSUME IInv, NEW s \in Side, ConnectRes(s), UNCHANGED caller
    PROVE  IInv'
<1>1. UNCHANGED <<caller, indication, up, infos>> /\ up[s] /\ view[s] = "answered"
  BY DEF ConnectRes, Requests
<1>2. s = caller /\ call[s] \in Call /\ call[s].state \notin {"NULL", "DESTROYED", "RELEASE_PENDING"}
  BY <1>1, Sides DEF IInv, Between, Roles, Over, Undecided, SideOK
<1>3. /\ Other(s) \in Side /\ Other(s) # s /\ \A r \in Side : r = s \/ r = Other(s)
      /\ s \in {"FP", "PP"}
  BY Sides DEF Side
<1> DEFINE d == InState(Connected(call[s], TRUE), "ACTIVE")
           f == [call[s] EXCEPT !.lu_sap = FALSE]
<1>4. PICK e \in Call, v \in View :
         /\ Moves(s, e, v) /\ Gives(s, "CONNECT_ACK") /\ e.timers = call[s].timers
         /\ \/ v = "active" /\ e.state = "ACTIVE"
            \/ v = "answered" /\ e.state = call[s].state /\ ~ up[Other(s)]
  <2>1. CASE Sends(s, "CONNECT_ACK", FALSE) /\ Set(s, d) /\ See(s, "active")
    <3>1. d \in Call /\ d.state = "ACTIVE" /\ d.timers = call[s].timers
      BY <1>2 DEF InState, Connected, Call, CallState
    <3> HIDE DEF d
    <3> QED
      BY <2>1, <3>1, MovesEffect, GivesEffect, ViewIs, TypesOf DEF IInv
  <2>2. CASE SendFails(s) /\ Set(s, f) /\ UNCHANGED view
    <3>1. f \in Call /\ f.state = call[s].state /\ f.timers = call[s].timers
      BY <1>2, DisconnectedCall
    <3> HIDE DEF f
    <3> QED
      BY <1>1, <2>2, <3>1, MovesCall, FailsEffect, ViewIs DEF IInv
  <2> QED
    BY <2>1, <2>2 DEF ConnectRes
<1>5. TypeOK'
  BY <1>1, <1>2, <1>3, <1>4 DEF IInv, TypeOK, Moves, Gives
<1>6. \A r \in Side : SideOK(r)'
  BY <1>1, <1>2, <1>3, <1>4 DEF IInv, SideOK, Moves, Gives, Open
<1>7. Between(s, Other(s))'
  BY <1>1, <1>2, <1>3, <1>4
     DEF IInv, Between, SideOK, Roles, Channels, Connection, Decided, PortableCalls,
         FixedCalls, Proceeds, Early, End, Over, Undecided, Moves, Gives
<1> QED
  BY <1>1, <1>2, <1>5, <1>6, <1>7 DEF IInv

\* Information changes nothing that a call waits for.
LEMMA InformKeeps ==
    ASSUME IInv, UNCHANGED <<caller, up>>, NEW s \in Side, up[s],
           indication' \in [Side -> Indications], infos' \in [Side -> 0 .. MaxInfo],
           view[s] \notin {"none", "gone"},
           NEW d \in Call, Moves(s, d, view[s]),
           d.state = call[s].state, d.timers = call[s].timers,
           Gives(s, "INFO") \/ Takes(s, "INFO"),
           indication'[s] \in {indication[s], "info"},
           indication'[Other(s)] = indication[Other(s)]
    PROVE  IInv'
<1>1. /\ Other(s) \in Side /\ Other(s) # s /\ \A r \in Side : r = s \/ r = Other(s)
      /\ s # caller => caller = Other(s) /\ Other(caller) = s
      /\ s \in {"FP", "PP"} /\ (s = "FP" <=> Other(s) = "PP")
  BY Sides DEF Side
<1>2. \A r \in Side : net[r] = <<>> => Coming(r) = {}
  BY EmptyTypes DEF Coming
<1>0. TypeOK'
  BY DEF IInv, TypeOK, Moves, Gives, Takes, Indications
<1>3. \A r \in Side : SideOK(r)'
  BY <1>1, <1>2 DEF IInv, SideOK, Moves, Gives, Takes, Open
<1>4. CASE s = caller
  <2>1. Between(s, Other(s))'
    <3>1. Roles(s, Other(s))'
      BY <1>1, <1>2, <1>4
         DEF IInv, Between, SideOK, Roles, Early, End, Over, Undecided, Moves, Gives, Takes,
             Open
    <3>2. Channels(s, Other(s))'
      BY <1>1, <1>2, <1>4
         DEF IInv, Between, SideOK, Roles, Channels, Proceeds, Early, End, Over, Undecided, Moves,
             Gives, Takes, Open
    <3>3. Connection(s, Other(s))'
      BY <1>1, <1>2, <1>4
         DEF IInv, Between, SideOK, Roles, Connection, Decided, Channels, Early, End, Over,
             Undecided, Moves, Gives, Takes, Open
    <3>4. s = "PP" => PortableCalls(s, Other(s))'
      BY <1>1, <1>2, <1>4
         DEF IInv, Between, SideOK, Roles, PortableCalls, Connection, Decided, Early, End,
             Over, Undecided, Moves, Gives, Takes, Open
    <3>5. s = "FP" => FixedCalls(s, Other(s))'
      BY <1>1, <1>2, <1>4
         DEF IInv, Between, SideOK, Roles, FixedCalls, Connection, Decided, Early, End, Over,
             Undecided, Moves, Gives, Takes, Open
    <3>6. up[s]' /\ up[Other(s)]' => Proceeds(s, Other(s))'
      BY <1>1, <1>2, <1>4
         DEF IInv, Between, SideOK, Roles, Channels, Proceeds, Early, End, Over, Undecided,
             Moves, Gives, Takes, Open
    <3> QED
      BY <3>1, <3>2, <3>3, <3>4, <3>5, <3>6 DEF Between
  <2> QED
    BY <1>0, <1>3, <1>4, <2>1 DEF IInv
<1>5. CASE s # caller
  <2>1. Between(Other(s), s)'
    BY <1>1, <1>2, <1>5
       DEF IInv, Between, SideOK, Roles, Channels, Connection, Decided, PortableCalls,
           FixedCalls, Proceeds, Early, End, Over, Undecided, Moves, Gives, Takes
  <2> QED
    BY <1>0, <1>1, <1>3, <1>5, <2>1 DEF IInv
<1> QED
  BY <1>4, <1>5

\* A side that ends the call tells the other, and one that is told has to answer.
LEMMA EndingKeeps ==
    ASSUME IInv, UNCHANGED <<caller, up, indication, infos>>, NEW s \in Side, up[s],
           view[s] \notin {"none", "gone"},
           NEW d \in Call, NEW v \in Over, Moves(s, d, v),
           \/ v = "gone" /\ d.state = "DESTROYED" /\ d.timers = {}
           \/ v = "releasing" /\ d.state = "RELEASE_PENDING" /\ d.timers = {"release"}
           \/ /\ v = "released" /\ d.state = call[s].state /\ d.state # "RELEASE_PENDING"
              /\ d.timers \in {call[s].timers, call[s].timers \cap {"release"}},
           NEW type \in End,
           \/ Gives(s, type)
           \/ Takes(s, type) /\ (v = "released" \/ view[s] = "releasing")
    PROVE  IInv'
<1>1. /\ Other(s) \in Side /\ Other(s) # s /\ \A r \in Side : r = s \/ r = Other(s)
      /\ s # caller => caller = Other(s) /\ Other(caller) = s
      /\ s \in {"FP", "PP"} /\ (s = "FP" <=> Other(s) = "PP")
  BY Sides DEF Side
<1>2. \A r \in Side : net[r] = <<>> => Coming(r) = {}
  BY EmptyTypes DEF Coming
<1>0. TypeOK'
  BY DEF IInv, TypeOK, Moves, Gives, Takes, Indications
<1>3. \A r \in Side : SideOK(r)'
  BY <1>1, <1>2 DEF IInv, SideOK, Moves, Gives, Takes, Open, Over
<1>4. CASE s = caller
  <2>1. Between(s, Other(s))'
    <3>1. Roles(s, Other(s))'
      BY <1>1, <1>2, <1>4
         DEF IInv, Between, SideOK, Roles, Early, End, Over, Undecided, Moves, Gives, Takes,
             Open
    <3>2. Channels(s, Other(s))'
      BY <1>1, <1>2, <1>4
         DEF IInv, Between, SideOK, Roles, Channels, Proceeds, Early, End, Over, Undecided, Moves,
             Gives, Takes, Open
    <3>3. Connection(s, Other(s))'
      BY <1>1, <1>2, <1>4
         DEF IInv, Between, SideOK, Roles, Connection, Decided, Channels, Early, End, Over,
             Undecided, Moves, Gives, Takes, Open
    <3>4. s = "PP" => PortableCalls(s, Other(s))'
      BY <1>1, <1>2, <1>4
         DEF IInv, Between, SideOK, Roles, PortableCalls, Connection, Decided, Early, End,
             Over, Undecided, Moves, Gives, Takes, Open
    <3>5. s = "FP" => FixedCalls(s, Other(s))'
      BY <1>1, <1>2, <1>4
         DEF IInv, Between, SideOK, Roles, FixedCalls, Connection, Decided, Early, End, Over,
             Undecided, Moves, Gives, Takes, Open
    <3>6. up[s]' /\ up[Other(s)]' => Proceeds(s, Other(s))'
      BY <1>1, <1>2, <1>4
         DEF IInv, Between, SideOK, Roles, Channels, Proceeds, Early, End, Over, Undecided,
             Moves, Gives, Takes, Open
    <3> QED
      BY <3>1, <3>2, <3>3, <3>4, <3>5, <3>6 DEF Between
  <2> QED
    BY <1>0, <1>3, <1>4, <2>1 DEF IInv
<1>5. CASE s # caller
  <2>1. Between(Other(s), s)'
    <3>1. Roles(Other(s), s)'
      BY <1>1, <1>2, <1>5
         DEF IInv, Between, SideOK, Roles, Early, End, Over, Undecided, Moves, Gives, Takes,
             Open
    <3>2. Channels(Other(s), s)'
      BY <1>1, <1>2, <1>5
         DEF IInv, Between, SideOK, Roles, Channels, Early, End, Over, Undecided, Moves,
             Gives, Takes, Open
    <3>3. Connection(Other(s), s)'
      BY <1>1, <1>2, <1>5
         DEF IInv, Between, SideOK, Roles, Connection, Decided, Channels, Early, End, Over,
             Undecided, Moves, Gives, Takes, Open
    <3>4. Other(s) = "PP" => PortableCalls(Other(s), s)'
      BY <1>1, <1>2, <1>5
         DEF IInv, Between, SideOK, Roles, PortableCalls, Connection, Decided, Early, End,
             Over, Undecided, Moves, Gives, Takes, Open
    <3>5. Other(s) = "FP" => FixedCalls(Other(s), s)'
      BY <1>1, <1>2, <1>5
         DEF IInv, Between, SideOK, Roles, FixedCalls, Connection, Decided, Early, End, Over,
             Undecided, Moves, Gives, Takes, Open
    <3>6. up[Other(s)]' /\ up[s]' => Proceeds(Other(s), s)'
      <4>1. CASE v = "released"
        BY <1>1, <1>2, <1>5, <4>1
           DEF IInv, Between, SideOK, Roles, Channels, Proceeds, Early, End, Over, Undecided,
               Moves, Gives, Takes, Open
      <4>2. CASE v # "released" /\ Gives(s, type)
        BY <1>1, <1>2, <1>5, <4>2
           DEF IInv, Between, SideOK, Roles, Channels, Proceeds, Early, End, Over, Undecided,
               Moves, Gives, Open
      <4>3. CASE view[s] = "releasing" /\ Takes(s, type)
        <5>1. up[Other(s)] => Coming(Other(s)) \cap End # {} \/ view[Other(s)] \in Over
          BY <1>1, <1>5, <4>3 DEF IInv, Between, Proceeds
        <5>2. /\ view'[s] \in Over /\ view'[Other(s)] = view[Other(s)]
              /\ Coming(Other(s))' = Coming(Other(s))
          BY <4>3 DEF Moves, Takes, Over
        <5> QED
          BY <5>1, <5>2 DEF Proceeds, Over, Undecided
      <4> QED
        BY <4>1, <4>2, <4>3
    <3> QED
      BY <3>1, <3>2, <3>3, <3>4, <3>5, <3>6 DEF Between
  <2> QED
    BY <1>0, <1>1, <1>3, <1>5, <2>1 DEF IInv
<1> QED
  BY <1>4, <1>5

LEMMA InfoReqKeeps ==
    ASSUME IInv, NEW s \in Side, InfoReq(s), UNCHANGED caller
    PROVE  IInv'
<1>1. /\ UNCHANGED <<caller, indication, up>> /\ up[s] /\ UNCHANGED view
      /\ view[s] \notin {"none", "gone"} /\ infos' = [infos EXCEPT ![s] = @ + 1] /\ infos[s] < MaxInfo
  BY DEF InfoReq, Requests
<1>2. infos' \in [Side -> 0 .. MaxInfo] /\ indication' \in [Side -> Indications]
  BY <1>1, CallControlAssumption DEF IInv, TypeOK, Indications
<1>3. PICK inband \in BOOLEAN : Sends(s, "INFO", inband) /\ Set(s, Connected(call[s], inband))
  BY ProgressType DEF InfoReq
<1> DEFINE d == Connected(call[s], inband)
<1>4. d \in Call /\ d.state = call[s].state /\ d.timers = call[s].timers
  BY Sides, ConnectedCall
<1>5. Moves(s, d, view[s]) /\ Gives(s, "INFO")
  BY <1>1, <1>3, <1>4, MovesCall, GivesEffect, TypesOf DEF IInv
<1> HIDE DEF d
<1> QED
  BY <1>1, <1>2, <1>4, <1>5, InformKeeps

LEMMA RcvInfoKeeps ==
    ASSUME IInv, NEW s \in Side, RcvInfo(s), UNCHANGED caller
    PROVE  IInv'
<1>1. /\ Takes(s, "INFO") /\ UNCHANGED <<caller, up, infos, view>> /\ up[s]
      /\ Open(s) /\ Inband(s) \in BOOLEAN
  BY ReceivesEffect DEF RcvInfo, IInv
<1>2. view[s] \notin {"none", "gone"} /\ infos' \in [Side -> 0 .. MaxInfo]
  BY <1>1 DEF IInv, SideOK, Open, TypeOK
<1>3. /\ indication' \in [Side -> Indications] /\ indication'[s] = "info"
      /\ indication'[Other(s)] = indication[Other(s)]
  BY IndicateEffect DEF RcvInfo, IInv, TypeOK, Indications
<1> DEFINE d == Connected(call[s], Inband(s))
<1>4. d \in Call /\ d.state = call[s].state /\ d.timers = call[s].timers
  BY <1>1, Sides, ConnectedCall
<1>5. Moves(s, d, view[s])
  BY <1>1, <1>4, MovesCall DEF IInv, RcvInfo
<1> HIDE DEF d
<1> QED
  BY <1>1, <1>2, <1>3, <1>4, <1>5, InformKeeps

-----------------------------------------------------------------------------
(* The end of a call *)

\* The ways to end: with a message of one's own, or on that of the other.
LEMMA EndsWithMessage ==
    ASSUME IInv, UNCHANGED <<caller, up, indication, infos>>, NEW s \in Side, up[s],
           view[s] \notin {"none", "gone"},
           NEW type \in End, Sends(s, type, FALSE),
           NEW d \in Call, NEW v \in Over, Set(s, d), See(s, v),
           \/ v = "gone" /\ d.state = "DESTROYED" /\ d.timers = {}
           \/ v = "releasing" /\ d.state = "RELEASE_PENDING" /\ d.timers = {"release"}
    PROVE  IInv'
<1>1. type \in MessageType /\ v \in View
  BY TypesOf, ViewIs DEF End, Over
<1>2. Moves(s, d, v) /\ Gives(s, type)
  BY <1>1, MovesEffect, GivesEffect DEF IInv
<1> QED
  BY <1>2, EndingKeeps

LEMMA Releasing ==
    ASSUME NEW c \in Call, c.timers \subseteq TimerName
    PROVE  LET d == InState(Start(StopTimers(c), "release"), "RELEASE_PENDING")
           IN  d \in Call /\ d.state = "RELEASE_PENDING" /\ d.timers = {"release"}
<1>1. /\ Start(StopTimers(c), "release") \in Call
      /\ Start(StopTimers(c), "release").timers = (c.timers \cap {"release"}) \cup {"release"}
  BY StopTimersCall, StartCall, TypesOf
<1>2. (c.timers \cap {"release"}) \cup {"release"} = {"release"}
  OBVIOUS
<1> QED
  BY <1>1, <1>2, InStateCall, TypesOf

LEMMA ReleaseReqKeeps ==
    ASSUME IInv, NEW s \in Side, ReleaseReq(s), UNCHANGED caller
    PROVE  IInv'
<1>1. /\ UNCHANGED <<caller, up, indication, infos>> /\ up[s]
      /\ view[s] \notin {"none", "gone"} /\ call[s] \in Call
  BY Sides DEF ReleaseReq, Requests
<1> DEFINE d == InState(Start(StopTimers(call[s]), "release"), "RELEASE_PENDING")
<1>2. d \in Call /\ d.state = "RELEASE_PENDING" /\ d.timers = {"release"}
  BY <1>1, Releasing DEF Call, TimerName
<1>3. CASE Sends(s, "RELEASE", FALSE) /\ Set(s, d) /\ See(s, "releasing")
  BY <1>1, <1>2, <1>3, EndsWithMessage DEF End, Over
<1>4. CASE SendFails(s) /\ UNCHANGED <<call, view>>
  BY <1>1, <1>4, StutterKeeps DEF SendFails, vars
<1> QED
  BY <1>3, <1>4 DEF ReleaseReq

LEMMA TimerReleaseKeeps ==
    ASSUME IInv, NEW s \in Side, NEW t, TimerRelease(s, t), UNCHANGED caller
    PROVE  IInv'
<1>1. UNCHANGED <<caller, up, indication, infos>> /\ up[s] /\ Open(s) /\ call[s] \in Call
  BY Sides DEF TimerRelease, Expires, Handles, NoIndication
<1>2. view[s] \notin {"none", "gone"}
  BY <1>1 DEF IInv, SideOK, Open
<1> DEFINE d == InState(Start(StopTimers(call[s]), "release"), "RELEASE_PENDING")
<1>3. d \in Call /\ d.state = "RELEASE_PENDING" /\ d.timers = {"release"}
  BY <1>1, Releasing DEF Call, TimerName
<1>4. Sends(s, "RELEASE", FALSE) /\ Set(s, d) /\ See(s, "releasing")
  BY DEF TimerRelease
<1> HIDE DEF d
<1> QED
  BY <1>1, <1>2, <1>3, <1>4, EndsWithMessage DEF End, Over

LEMMA RejectReqKeeps ==
    ASSUME IInv, NEW s \in Side, RejectReq(s), UNCHANGED caller
    PROVE  IInv'
<1>1. /\ UNCHANGED <<caller, up, indication, infos>> /\ up[s]
      /\ view[s] \notin {"none", "gone"} /\ call[s] \in Call
  BY Sides, BeforeViews DEF RejectReq, Requests, Undecided
<1>2. Sends(s, "RELEASE_COM", FALSE) /\ Set(s, Destroy(call[s])) /\ See(s, "gone")
  BY DEF RejectReq
<1> QED
  BY <1>1, <1>2, DestroyCall, EndsWithMessage DEF End, Over

LEMMA ReleaseResKeeps ==
    ASSUME IInv, NEW s \in Side, ReleaseRes(s), UNCHANGED caller
    PROVE  IInv'
<1>1. /\ UNCHANGED <<caller, up, indication, infos>> /\ up[s]
      /\ view[s] \notin {"none", "gone"} /\ call[s] \in Call
  BY Sides DEF ReleaseRes, Requests
<1>2. Sends(s, "RELEASE_COM", FALSE) /\ Set(s, Shutdown(call[s])) /\ See(s, "gone")
  BY DEF ReleaseRes
<1> QED
  BY <1>1, <1>2, ShutdownCall, EndsWithMessage DEF End, Over

LEMMA TimeoutKeeps ==
    ASSUME IInv, NEW s \in Side, SetupTimeout(s) \/ ReleaseTimeout(s), UNCHANGED caller
    PROVE  IInv'
<1>1. UNCHANGED <<caller, up, indication, infos>> /\ up[s] /\ Open(s) /\ call[s] \in Call
  BY Sides DEF SetupTimeout, ReleaseTimeout, Expires, Handles, NoIndication
<1>2. view[s] \notin {"none", "gone"}
  BY <1>1 DEF IInv, SideOK, Open
<1>3. /\ Sends(s, "RELEASE_COM", FALSE) /\ See(s, "gone")
      /\ Set(s, Destroy(call[s])) \/ Set(s, Shutdown(call[s]))
  BY DEF SetupTimeout, ReleaseTimeout
<1> QED
  BY <1>1, <1>2, <1>3, ShutdownCall, DestroyCall, EndsWithMessage DEF End, Over

LEMMA RcvReleaseKeeps ==
    ASSUME IInv, NEW s \in Side, RcvRelease(s) \/ RcvReleaseCom(s), UNCHANGED caller
    PROVE  IInv'
<1>1. PICK type \in End : Receives(s, type)
  BY DEF RcvRelease, RcvReleaseCom, End
<1>2. /\ Takes(s, type) /\ UNCHANGED <<caller, up, infos, indication>> /\ up[s] /\ Open(s)
      /\ call[s] \in Call
  BY <1>1, ReceivesEffect, Sides DEF RcvRelease, RcvReleaseCom, NoIndication, IInv
<1>3. view[s] \notin {"none", "gone"} /\ TypeOK
  BY <1>2 DEF IInv, SideOK, Open
<1>4. CASE call[s].state = "RELEASE_PENDING"
  <2>1. view[s] = "releasing"
    BY <1>4 DEF IInv, SideOK
  <2>2. Stop(call[s], "release") \in Call /\ Stop(StopTimers(call[s]), "release") \in Call
    BY <1>2, StopCall, StopTimersCall, TypesOf
  <2>3. PICK d \in Call : d.state = "DESTROYED" /\ d.timers = {} /\ Set(s, d) /\ See(s, "gone")
    BY <1>4, <2>2, ShutdownCall DEF RcvRelease, RcvReleaseCom
  <2>4. Moves(s, d, "gone")
    BY <1>3, <2>3, MovesEffect, ViewIs
  <2> QED
    BY <1>2, <1>3, <2>1, <2>3, <2>4, EndingKeeps DEF Over
<1>5. CASE call[s].state # "RELEASE_PENDING"
  <2>1. PICK d \in Call : /\ Moves(s, d, "released") /\ d.state = call[s].state
                          /\ d.timers \in {call[s].timers, call[s].timers \cap {"release"}}
    <3>1. CASE UNCHANGED call /\ See(s, "released")
      BY <1>2, <1>3, <3>1, MovesView, ViewIs
    <3>2. CASE Set(s, StopTimers(call[s])) /\ See(s, "released")
      BY <1>2, <1>3, <3>2, StopTimersCall, MovesEffect, ViewIs
    <3> QED
      BY <1>5, <3>1, <3>2 DEF RcvRelease, RcvReleaseCom
  <2> QED
    BY <1>2, <1>3, <1>5, <2>1, EndingKeeps DEF Over
<1> QED
  BY <1>4, <1>5

LEMMA LinkFailsKeeps ==
    ASSUME IInv, NEW s \in Side, LinkFails(s), UNCHANGED caller
    PROVE  IInv'
<1>1. /\ UNCHANGED <<caller, indication, infos>> /\ up' = [up EXCEPT ![s] = FALSE]
      /\ net' = [net EXCEPT ![s] = <<>>]
  BY DEF LinkFails
<1>2. /\ up' \in [Side -> BOOLEAN] /\ ~ up'[s] /\ up'[Other(s)] = up[Other(s)]
      /\ net' \in [Side -> Seq(Message)] /\ net'[s] = <<>> /\ net'[Other(s)] = net[Other(s)]
      /\ Coming(s)' = {} /\ Coming(Other(s))' = Coming(Other(s))
      /\ SetupFirst(<<>>) /\ EarlyFirst(<<>>)
  <2>1. Other(s) \in Side /\ Other(s) # s
    BY Sides
  <2>2. up \in [Side -> BOOLEAN] /\ net \in [Side -> Seq(Message)] /\ <<>> \in Seq(Message)
    BY DEF IInv, TypeOK
  <2>3. /\ up' \in [Side -> BOOLEAN] /\ ~ up'[s] /\ up'[Other(s)] = up[Other(s)]
        /\ net' \in [Side -> Seq(Message)] /\ net'[s] = <<>> /\ net'[Other(s)] = net[Other(s)]
    BY <1>1, <2>1, <2>2
  <2>4. SetupFirst(<<>>) /\ EarlyFirst(<<>>)
    BY DEF SetupFirst, EarlyFirst
  <2> QED
    BY <2>3, <2>4, EmptyTypes DEF Coming
<1>3. /\ Other(s) \in Side /\ Other(s) # s /\ \A r \in Side : r = s \/ r = Other(s)
      /\ s # caller => caller = Other(s) /\ Other(caller) = s
      /\ s \in {"FP", "PP"} /\ (s = "FP" <=> Other(s) = "PP")
  BY Sides DEF Side
<1>4. PICK d \in Call, v \in View :
         /\ Moves(s, d, v)
         /\ \/ v = "gone" /\ d.state = "DESTROYED" /\ d.timers = {} /\ Open(s)
            \/ v = view[s] /\ d = call[s] /\ ~ Open(s)
  <2>1. CASE Open(s)
    <3>1. StopTimers(call[s]) \in Call
      BY Sides, StopTimersCall
    <3>2. Set(s, Shutdown(StopTimers(call[s]))) /\ See(s, "gone")
      BY <2>1 DEF LinkFails
    <3> QED
      BY <2>1, <3>1, <3>2, ShutdownCall, MovesEffect, ViewIs DEF IInv
  <2>2. CASE ~ Open(s)
    BY <2>2, Sides DEF LinkFails, Moves, IInv, TypeOK
  <2> QED
    BY <2>1, <2>2
<1>5. TypeOK'
  BY <1>1, <1>2, <1>4 DEF IInv, TypeOK, Moves
<1>6. \A r \in Side : SideOK(r)'
  BY <1>1, <1>2, <1>3, <1>4 DEF IInv, SideOK, Moves, Open
<1>7. CASE s = caller
  <2>1. Between(s, Other(s))'
    BY <1>1, <1>2, <1>3, <1>4, <1>7
       DEF IInv, Between, SideOK, Roles, Channels, Connection, Decided, PortableCalls,
           FixedCalls, Proceeds, Early, End, Over, Undecided, Moves, Takes, Open
  <2> QED
    BY <1>1, <1>5, <1>6, <1>7, <2>1 DEF IInv
<1>8. CASE s # caller
  <2>1. Between(Other(s), s)'
    BY <1>1, <1>2, <1>3, <1>4, <1>8
       DEF IInv, Between, SideOK, Roles, Channels, Connection, Decided, PortableCalls,
           FixedCalls, Proceeds, Early, End, Over, Undecided, Moves, Takes, Open
  <2> QED
    BY <1>1, <1>3, <1>5, <1>6, <1>8, <2>1 DEF IInv
<1> QED
  BY <1>7, <1>8

-----------------------------------------------------------------------------
(* Messages of the setup *)

LEMMA RcvSetupKeeps ==
    ASSUME IInv, NEW s \in Side, RcvSetup(s), UNCHANGED caller
    PROVE  IInv'
<1>1. UNCHANGED <<caller, indication, up, infos>> /\ up[s] /\ indication[s] = "none"
  BY DEF RcvSetup, Handles, NoIndication
<1>2. Takes(s, "SETUP") /\ "SETUP" \in Coming(s)
  BY TakesEffect DEF IInv, Takes, RcvSetup
<1>3. /\ Other(s) \in Side /\ Other(s) # s /\ \A r \in Side : r = s \/ r = Other(s)
      /\ s # caller /\ caller = Other(s) /\ Other(caller) = s
      /\ s \in {"FP", "PP"} /\ (s = "FP" <=> Other(s) = "PP")
  BY <1>2, Sides DEF Side, IInv, Between, Roles, Early, End
<1>4. view[s] = "none"
  BY <1>2, <1>3 DEF IInv, Between, Channels
<1> DEFINE d == InState(NoCall, IF s = "FP" THEN "CALL_INITIATED" ELSE "CALL_PRESENT")
<1>5. d \in Call /\ d.state \in {"CALL_INITIATED", "CALL_PRESENT"} /\ d.timers = {}
  BY NoCallCall, InStateCall, TypesOf
<1>6. Moves(s, d, "called")
  BY <1>5, MovesEffect, ViewIs DEF RcvSetup, IInv, Undecided
<1> HIDE DEF d
<1>7. TypeOK'
  BY <1>1, <1>2, <1>6 DEF IInv, TypeOK, Moves, Takes
<1>8. \A r \in Side : SideOK(r)'
  <2>1. SideOK(s)'
    BY <1>1, <1>5, <1>6 DEF SideOK, Moves, Open
  <2>2. SideOK(Other(s))'
    <3>1. /\ call'[Other(s)] = call[Other(s)] /\ view'[Other(s)] = view[Other(s)]
          /\ net'[Other(s)] = net[Other(s)] /\ up'[Other(s)] = up[Other(s)]
      BY <1>1, <1>2, <1>6 DEF Moves, Takes
    <3>2. SideOK(Other(s))
      BY <1>3 DEF IInv
    <3> QED
      BY <3>1, <3>2 DEF SideOK, Open
  <2> QED
    BY <1>3, <2>1, <2>2
<1>9. \A r \in Side : net[r] = <<>> => Coming(r) = {}
  BY EmptyTypes DEF Coming
<1>10. Between(Other(s), s)'
  <2>1. Roles(Other(s), s)'
    BY <1>1, <1>2, <1>3, <1>4, <1>5, <1>6, <1>9
       DEF IInv, Between, SideOK, Roles, Early, End, Over, Undecided, Moves, Takes, Open
  <2>2. Channels(Other(s), s)'
    <3>1. SetupFirst(net'[s]) /\ "SETUP" \notin Coming(s)' /\ EarlyFirst(net'[Other(s)])
      BY <1>2, <1>3 DEF IInv, Between, Channels, Takes
    <3>2. Coming(Other(s))' = {}
      BY <1>2, <1>3, <1>4, <1>9 DEF IInv, Between, Roles, Takes
    <3>3. view'[s] = "called"
      BY <1>6 DEF Moves
    <3> QED
      BY <3>1, <3>2, <3>3 DEF Channels
  <2>3. Connection(Other(s), s)'
    BY <1>1, <1>2, <1>3, <1>4, <1>5, <1>6, <1>9
       DEF IInv, Between, SideOK, Roles, Connection, Decided, Channels, Early, End, Over,
           Undecided, Moves, Takes, Open
  <2>4. Other(s) = "PP" => PortableCalls(Other(s), s)'
    BY <1>1, <1>2, <1>3, <1>4, <1>5, <1>6, <1>9
       DEF IInv, Between, SideOK, Roles, PortableCalls, Connection, Decided, Early, End,
           Over, Undecided, Moves, Takes, Open
  <2>5. Other(s) = "FP" => FixedCalls(Other(s), s)'
    BY <1>1, <1>2, <1>3, <1>4, <1>5, <1>6, <1>9
       DEF IInv, Between, SideOK, Roles, FixedCalls, Connection, Decided, Early, End, Over,
           Undecided, Moves, Takes, Open
  <2>6. up[Other(s)]' /\ up[s]' => Proceeds(Other(s), s)'
    BY <1>1, <1>2, <1>3, <1>4, <1>5, <1>6, <1>9
       DEF IInv, Between, SideOK, Roles, Channels, Proceeds, Early, End, Over, Undecided,
           Moves, Takes, Open
  <2> QED
    BY <2>1, <2>2, <2>3, <2>4, <2>5, <2>6 DEF Between
<1> QED
  BY <1>1, <1>3, <1>7, <1>8, <1>10 DEF IInv

\* What comes before a CONNECT, up to the indication.
LEMMA EarlyKeeps ==
    ASSUME IInv, UNCHANGED <<caller, up, infos>>, NEW s \in Side, up[s], Open(s),
           NEW type \in Early, Takes(s, type), type \in Coming(s),
           NEW d \in Call, Moves(s, d, view[s]), d.state = call[s].state,
           d.timers \ {"completion"} = call[s].timers \ {"setup", "completion"},
           NEW what \in Indications, Indicate(s, what)
    PROVE  IInv'
<1>1. /\ Other(s) \in Side /\ Other(s) # s /\ \A r \in Side : r = s \/ r = Other(s)
      /\ s \in {"FP", "PP"} /\ (s = "FP" <=> Other(s) = "PP")
  BY Sides DEF Side
<1>2. s = caller
  BY Sides DEF IInv, Between, Roles, Early, End
<1>3. /\ indication' \in [Side -> Indications] /\ indication'[s] = what
      /\ indication'[Other(s)] = indication[Other(s)]
  BY IndicateEffect DEF IInv, TypeOK, Indications
<1>4. \A r \in Side : net[r] = <<>> => Coming(r) = {}
  BY EmptyTypes DEF Coming
<1>5. /\ view[s] \notin {"answered", "active", "none", "gone"}
      /\ view[Other(s)] \notin {"none", "called"}
      /\ s = "PP" => call[s].state # "ACTIVE"
  BY <1>1, <1>2, <1>4 DEF IInv, Between, Connection, Decided, Channels, Roles, SideOK, Open
<1>6. TypeOK'
  BY <1>3 DEF IInv, TypeOK, Moves, Takes, Indications
<1>7. \A r \in Side : SideOK(r)'
  <2>1. /\ d.state \notin {"NULL", "DESTROYED"}
        /\ "release" \in d.timers <=> "release" \in call[s].timers
    BY DEF Open
  <2>2. SideOK(s)'
    BY <2>1 DEF IInv, SideOK, Moves, Open
  <2>3. SideOK(Other(s))'
    BY <1>1 DEF IInv, SideOK, Moves, Takes, Open
  <2> QED
    BY <1>1, <2>2, <2>3
<1>8. Between(s, Other(s))'
  BY <1>1, <1>2, <1>3, <1>4, <1>5
     DEF IInv, Between, SideOK, Roles, Channels, Connection, Decided, PortableCalls,
           FixedCalls, Proceeds, Early, End, Over, Undecided, Moves, Takes, Open
<1> QED
  BY <1>2, <1>6, <1>7, <1>8 DEF IInv

LEMMA RcvEarlyKeeps ==
    ASSUME IInv, NEW s \in Side, RcvSetupAck(s) \/ RcvCallProc(s) \/ RcvAlerting(s), UNCHANGED caller
    PROVE  IInv'
<1>1. UNCHANGED view /\ call[s] \in Call /\ TypeOK
  BY Sides DEF RcvSetupAck, RcvCallProc, RcvAlerting, IInv
<1> DEFINE c == StopIfRunning(call[s], {"setup"})
<1>2. c \in Call /\ c.state = call[s].state /\ c.timers = call[s].timers \ {"setup"}
  BY <1>1, StopIfRunningCall, TypesOf
<1> HIDE DEF c
<1>3. CASE RcvSetupAck(s)
  <2>1. Receives(s, "SETUP_ACK") /\ Indicate(s, "setup_ack") /\ Set(s, c)
    BY <1>3 DEF RcvSetupAck, c
  <2>2. Moves(s, c, view[s])
    BY <1>1, <1>2, <2>1, MovesCall
  <2> QED
    BY <1>1, <1>2, <2>1, <2>2, ReceivesEffect, EarlyKeeps DEF Early, Indications
<1>4. CASE RcvCallProc(s)
  <2> DEFINE d == Connected(Start(c, "completion"), Inband(s))
  <2>1. Receives(s, "CALL_PROC") /\ Indicate(s, "call_proc") /\ Set(s, d)
    BY <1>4 DEF RcvCallProc, c
  <2>2. Start(c, "completion") \in Call /\ Inband(s) \in BOOLEAN
    BY <1>1, <1>2, <2>1, StartCall, ReceivesEffect, TypesOf
  <2>3. d \in Call /\ d.state = call[s].state /\ d.timers = c.timers \cup {"completion"}
    BY <1>2, <2>2, StartCall, ConnectedCall, TypesOf
  <2> HIDE DEF d
  <2>4. Moves(s, d, view[s])
    BY <1>1, <2>1, <2>3, MovesCall
  <2> QED
    BY <1>1, <1>2, <2>1, <2>3, <2>4, ReceivesEffect, EarlyKeeps DEF Early, Indications
<1>5. CASE RcvAlerting(s)
  <2> DEFINE d == IF s = "FP" THEN Start(c, "completion") ELSE Connected(c, Inband(s))
  <2>1. Receives(s, "ALERTING") /\ Indicate(s, "alert") /\ Set(s, d)
    BY <1>5 DEF RcvAlerting, c
  <2>2. Inband(s) \in BOOLEAN
    BY <1>1, <2>1, ReceivesEffect
  <2>3. d \in Call /\ d.state = call[s].state /\ d.timers \ {"completion"} = c.timers \ {"completion"}
    BY <1>2, <2>2, StartCall, ConnectedCall, TypesOf
  <2> HIDE DEF d
  <2>4. Moves(s, d, view[s])
    BY <1>1, <2>1, <2>3, MovesCall
  <2> QED
    BY <1>1, <1>2, <2>1, <2>3, <2>4, ReceivesEffect, EarlyKeeps DEF Early, Indications
<1> QED
  BY <1>3, <1>4, <1>5

LEMMA RcvConnectKeeps ==
    ASSUME IInv, NEW s \in Side, RcvConnect(s), UNCHANGED caller
    PROVE  IInv'
<1>1. /\ Takes(s, "CONNECT") /\ "CONNECT" \in Coming(s) /\ UNCHANGED <<caller, up, infos, indication>>
      /\ up[s] /\ Open(s) /\ indication[s] = "none" /\ TypeOK
  BY ReceivesEffect DEF RcvConnect, IInv, NoIndication
<1>2. /\ Other(s) \in Side /\ Other(s) # s /\ \A r \in Side : r = s \/ r = Other(s)
      /\ s \in {"FP", "PP"} /\ (s = "FP" <=> Other(s) = "PP") /\ call[s] \in Call /\ view[s] \in View
  BY Sides DEF Side
<1>3. s = caller
  BY <1>1, Sides DEF IInv, Between, Roles, End
<1>4. \A r \in Side : net[r] = <<>> => Coming(r) = {}
  BY EmptyTypes DEF Coming
<1> DEFINE c == StopIfRunning(call[s], {"setup", "completion"})
           d == IF s = "PP" THEN InState(c, "ACTIVE") ELSE c
           v == IF view[s] = "calling" THEN "answered" ELSE view[s]
<1>5. c \in Call /\ c.state = call[s].state /\ c.timers = call[s].timers \ {"setup", "completion"}
  BY <1>2, StopIfRunningCall, TypesOf
<1>6. Set(s, d) /\ See(s, v)
  BY DEF RcvConnect
<1> HIDE DEF c
<1>7. /\ d \in Call /\ d.timers = call[s].timers \ {"setup", "completion"}
      /\ d.state = IF s = "PP" THEN "ACTIVE" ELSE call[s].state
  BY <1>5, InStateCall, TypesOf
<1> HIDE DEF d
<1>8. Moves(s, d, v)
  BY <1>1, <1>2, <1>6, <1>7, MovesEffect, ViewIs
<1>9. TypeOK'
  BY <1>1, <1>8 DEF IInv, TypeOK, Moves, Takes
<1>10. \A r \in Side : SideOK(r)'
  BY <1>1, <1>2, <1>7, <1>8 DEF IInv, SideOK, Moves, Takes, Open
<1>11. Between(s, Other(s))'
  BY <1>1, <1>2, <1>3, <1>4, <1>7, <1>8
     DEF IInv, Between, SideOK, Roles, Channels, Connection, Decided, PortableCalls,
           FixedCalls, Proceeds, Early, End, Over, Undecided, Moves, Takes, Open
<1> QED
  BY <1>1, <1>3, <1>9, <1>10, <1>11 DEF IInv

LEMMA RcvConnectAckKeeps ==
    ASSUME IInv, NEW s \in Side, RcvConnectAck(s), UNCHANGED caller
    PROVE  IInv'
<1>1. /\ Takes(s, "CONNECT_ACK") /\ "CONNECT_ACK" \in Coming(s)
      /\ UNCHANGED <<caller, up, infos, indication>> /\ up[s] /\ Open(s) /\ TypeOK
  BY ReceivesEffect DEF RcvConnectAck, IInv, NoIndication
<1>2. /\ Other(s) \in Side /\ Other(s) # s /\ \A r \in Side : r = s \/ r = Other(s)
      /\ s \in {"FP", "PP"} /\ (s = "FP" <=> Other(s) = "PP") /\ (s = "PP" <=> Other(s) = "FP")
      /\ call[s] \in Call /\ view[s] \in View
  BY Sides DEF Side
<1>3. s # caller /\ caller = Other(s) /\ Other(caller) = s
  BY <1>1, Sides DEF IInv, Between, Roles, Early, End
<1>4. \A r \in Side : net[r] = <<>> => Coming(r) = {}
  BY EmptyTypes DEF Coming
<1> DEFINE c == Stop(call[s], "connect")
           d == IF s = "PP" THEN InState(c, "ACTIVE") ELSE call[s]
           v == IF view[s] = "connecting" THEN "active" ELSE view[s]
<1>5. c \in Call /\ c.timers = call[s].timers \ {"connect"}
  BY <1>2, StopCall, TypesOf
<1>6. Set(s, d) /\ See(s, v)
  BY DEF RcvConnectAck
<1> HIDE DEF c
<1>7. /\ d \in Call
      /\ s = "PP" => d.state = "ACTIVE" /\ d.timers = call[s].timers \ {"connect"}
      /\ s = "FP" => d = call[s]
  BY <1>2, <1>5, InStateCall, TypesOf
<1> HIDE DEF d
<1>8. Moves(s, d, v)
  BY <1>1, <1>2, <1>6, <1>7, MovesEffect, ViewIs
<1>9. TypeOK'
  BY <1>1, <1>8 DEF IInv, TypeOK, Moves, Takes
<1>10. \A r \in Side : SideOK(r)'
  BY <1>1, <1>2, <1>7, <1>8 DEF IInv, SideOK, Moves, Takes, Open
<1>11. Between(Other(s), s)'
  BY <1>1, <1>2, <1>3, <1>4, <1>7, <1>8
     DEF IInv, Between, SideOK, Roles, Channels, Connection, Decided, PortableCalls,
           FixedCalls, Proceeds, Early, End, Over, Undecided, Moves, Takes, Open
<1> QED
  BY <1>1, <1>3, <1>9, <1>10, <1>11 DEF IInv

-----------------------------------------------------------------------------
(* The application returns, and messages for no call *)

LEMMA ReturnKeeps ==
    ASSUME IInv, NEW s \in Side, Return(s), UNCHANGED caller
    PROVE  IInv'
<1>1. /\ UNCHANGED <<caller, net, view, up, infos>> /\ indication[s] # "none"
      /\ Indicate(s, "none") /\ TypeOK /\ indication[s] \in Indications
  BY DEF Return, IInv, TypeOK, Indications
<1>2. /\ Other(s) \in Side /\ Other(s) # s /\ \A r \in Side : r = s \/ r = Other(s)
      /\ s # caller => caller = Other(s) /\ Other(caller) = s
      /\ s \in {"FP", "PP"} /\ (s = "FP" <=> Other(s) = "PP") /\ (s = "PP" <=> Other(s) = "FP")
      /\ call[s] \in Call
  BY Sides DEF Side
<1>3. /\ indication' \in [Side -> Indications] /\ indication'[s] = "none"
      /\ indication'[Other(s)] = indication[Other(s)]
  BY <1>1, IndicateEffect DEF TypeOK, Indications
<1>4. Coming(s)' = Coming(s) /\ Coming(Other(s))' = Coming(Other(s))
  BY <1>1 DEF Coming
<1>5. PICK d \in Call :
         /\ Set(s, d)
         /\ d.state = "NULL" <=> call[s].state = "NULL"
         /\ d.state = "DESTROYED" <=> call[s].state = "DESTROYED"
         /\ d.state # call[s].state =>
              Open(s) /\ indication[s] # "info" /\ d.state \notin {"RELEASE_PENDING", "ACTIVE"}
         /\ \/ d.timers = call[s].timers
            \/ /\ s = "FP" /\ d.state = "OVERLAP_SENDING" /\ Open(s)
               /\ d.timers = call[s].timers \cup {"overlap_sending"}
  <2>1. CASE Open(s)
    <3>1. Set(s, Continued(s, call[s]))
      BY <2>1 DEF Return
    <3>2. indication[s] \in {"setup_ack", "call_proc", "alert", "info"}
      BY <1>1 DEF Indications
    <3>3. CASE indication[s] = "info"
      <4>1. Continued(s, call[s]) = IF s = "FP" /\ call[s].state = "OVERLAP_SENDING"
                                    THEN Start(call[s], "overlap_sending") ELSE call[s]
        BY <3>3 DEF Continued
      <4> QED
        BY <1>2, <2>1, <3>1, <3>3, <4>1, StartCall, TypesOf DEF Open
    <3>4. CASE indication[s] # "info"
      <4>1. PICK state \in {"OVERLAP_SENDING", "CALL_PROCEEDING", "CALL_RECEIVED", "CALL_DELIVERED"} :
               Continued(s, call[s]) = InState(call[s], state)
        BY <3>2, <3>4 DEF Continued
      <4>2. state \in CallState
        BY TypesOf
      <4> QED
        BY <1>2, <2>1, <3>1, <3>4, <4>1, <4>2, InStateCall DEF Open
    <3> QED
      BY <3>3, <3>4
  <2>2. CASE ~ Open(s)
    <3> DEFINE e == [call[s] EXCEPT !.crash = "stale"]
    <3>1. e \in Call /\ e.state = call[s].state /\ e.timers = call[s].timers
      BY <1>2 DEF Call
    <3>2. Set(s, call[s]) \/ Set(s, e)
      BY <2>2 DEF Return
    <3> HIDE DEF e
    <3> QED
      BY <1>2, <3>1, <3>2
  <2> QED
    BY <2>1, <2>2
<1>6. Moves(s, d, view[s])
  BY <1>1, <1>5, MovesCall
<1>7. TypeOK'
  BY <1>1, <1>3, <1>6 DEF TypeOK, Moves, Indications
<1>8. \A r \in Side : SideOK(r)'
  BY <1>1, <1>2, <1>5, <1>6 DEF IInv, SideOK, Moves, Open
<1>9. CASE s = caller
  <2>1. Between(s, Other(s))'
    BY <1>1, <1>2, <1>3, <1>4, <1>5, <1>6, <1>9
       DEF IInv, Between, Roles, Channels, Connection, Decided, PortableCalls,
           FixedCalls, Proceeds, Moves
  <2> QED
    BY <1>1, <1>7, <1>8, <1>9, <2>1 DEF IInv
<1>10. CASE s # caller
  <2>1. Between(Other(s), s)'
    BY <1>1, <1>2, <1>3, <1>4, <1>5, <1>6, <1>10
       DEF IInv, Between, Roles, Channels, Connection, Decided, PortableCalls,
           FixedCalls, Proceeds, Moves
  <2> QED
    BY <1>1, <1>2, <1>7, <1>8, <1>10, <2>1 DEF IInv
<1> QED
  BY <1>9, <1>10

\* A message for a call that is gone: one side reads it, and may answer.
LEMMA RcvUnknownKeeps ==
    ASSUME IInv, NEW s \in Side, RcvUnknown(s), UNCHANGED caller
    PROVE  IInv'
<1>1. /\ UNCHANGED <<caller, call, view, indication, up, infos>> /\ up[s] /\ ~ Open(s)
      /\ net[s] # <<>> /\ Head(net[s]).type # "SETUP" /\ TypeOK
  BY DEF RcvUnknown, Handles, NoIndication, IInv
<1>2. /\ Other(s) \in Side /\ Other(s) # s /\ \A r \in Side : r = s \/ r = Other(s)
      /\ s # caller => caller = Other(s) /\ Other(caller) = s
      /\ s \in {"FP", "PP"} /\ (s = "FP" <=> Other(s) = "PP") /\ (s = "PP" <=> Other(s) = "FP")
  BY Sides DEF Side
<1>3. net[s] \in Seq(Message) /\ net[Other(s)] \in Seq(Message) /\ net \in [Side -> Seq(Message)]
  BY <1>1, <1>2 DEF TypeOK
<1> DEFINE m == [type |-> "RELEASE_COM", inband |-> FALSE]
           answer == IF Head(net[s]).type \notin {"RELEASE", "RELEASE_COM"} /\ up[Other(s)]
                     THEN <<m>> ELSE <<>>
<1>4. m \in Message /\ m.type = "RELEASE_COM"
  BY TypesOf DEF Message
<1>5. net' = [net EXCEPT ![s] = Tail(@), ![Other(s)] = @ \o answer]
  BY DEF RcvUnknown
<1>6. net' \in [Side -> Seq(Message)] /\ net'[s] = Tail(net[s])
  <2>1. answer \in Seq(Message)
    BY <1>4
  <2>2. Tail(net[s]) \in Seq(Message) /\ net[Other(s)] \o answer \in Seq(Message)
    BY <1>1, <1>3, <2>1
  <2> HIDE DEF answer
  <2> QED
    BY <1>2, <1>3, <1>5, <2>2
<1>7. \/ net'[Other(s)] = net[Other(s)]
      \/ up[Other(s)] /\ net'[Other(s)] = Append(net[Other(s)], m)
  <2>1. net'[Other(s)] = net[Other(s)] \o answer
    <3> HIDE DEF answer
    <3> QED
      BY <1>2, <1>3, <1>5
  <2>2. net[Other(s)] \o <<>> = net[Other(s)] /\ net[Other(s)] \o <<m>> = Append(net[Other(s)], m)
    <3> HIDE DEF m
    <3> QED
      BY <1>3, <1>4
  <2> QED
    BY <2>1, <2>2
<1> HIDE DEF m, answer
<1>8. /\ Coming(Other(s))' = Coming(Other(s)) \/ Coming(Other(s))' = Coming(Other(s)) \cup {"RELEASE_COM"}
      /\ ~ up[Other(s)] => net'[Other(s)] = net[Other(s)]
      /\ net[Other(s)] # <<>> => Head(net'[Other(s)]) = Head(net[Other(s)]) /\ net'[Other(s)] # <<>>
      /\ SetupFirst(net[Other(s)]) => SetupFirst(net'[Other(s)])
      /\ EarlyFirst(net[Other(s)]) => EarlyFirst(net'[Other(s)])
  BY <1>3, <1>4, <1>7, AppendTypes DEF Coming, Early
<1>9. /\ Coming(s)' \subseteq Coming(s)
      /\ SetupFirst(net[s]) => "SETUP" \notin Coming(s)' /\ SetupFirst(net'[s])
      /\ EarlyFirst(net[s]) => EarlyFirst(net'[s])
  BY <1>1, <1>3, <1>6, TailTypes DEF Coming
<1>10. \A r \in Side : net[r] = <<>> => Coming(r) = {}
  BY EmptyTypes DEF Coming
<1>11. view[s] = "gone" /\ view[Other(s)] # "none"
  <2>1. view[s] \in {"none", "gone"}
    BY <1>1 DEF IInv, SideOK, Open
  <2>2. CASE s = caller
    BY <1>1, <1>2, <2>1, <2>2 DEF IInv, Between, Roles
  <2>3. CASE s # caller
    <3>1. view[s] # "none"
      BY <1>1, <1>2, <2>3 DEF IInv, Between, Channels
    <3> QED
      BY <1>2, <2>1, <2>3, <3>1 DEF IInv, Between, Roles
  <2> QED
    BY <2>2, <2>3
<1>12. TypeOK'
  BY <1>1, <1>6 DEF TypeOK
<1>13. \A r \in Side : SideOK(r)'
  <2>1. SideOK(s) /\ SideOK(Other(s))
    BY <1>2 DEF IInv
  <2>2. SideOK(s)' /\ SideOK(Other(s))'
    BY <1>1, <1>8, <2>1 DEF SideOK, Open
  <2> QED
    BY <1>2, <2>2
<1>14. CASE s = caller
  <2>1. Between(s, Other(s))'
    BY <1>1, <1>2, <1>8, <1>9, <1>10, <1>11, <1>14
       DEF IInv, Between, Roles, Channels, Connection, Decided, PortableCalls,
           FixedCalls, Proceeds, Early, End, Over, Undecided
  <2> QED
    BY <1>1, <1>12, <1>13, <1>14, <2>1 DEF IInv
<1>15. CASE s # caller
  <2>1. Between(Other(s), s)'
    BY <1>1, <1>2, <1>8, <1>9, <1>10, <1>11, <1>15
       DEF IInv, Between, Roles, Channels, Connection, Decided, PortableCalls,
           FixedCalls, Proceeds, Early, End, Over, Undecided
  <2> QED
    BY <1>1, <1>2, <1>12, <1>13, <1>15, <2>1 DEF IInv
<1> QED
  BY <1>14, <1>15

-----------------------------------------------------------------------------
(* The invariant holds *)

LEMMA InitInv == Init => IInv
<1> SUFFICES ASSUME Init PROVE IInv
  OBVIOUS
<1>1. caller \in Side /\ Other(caller) \in Side
  BY CallControlAssumption, OtherSide DEF Init
<1>2. /\ \A s \in Side : /\ call[s] = NoCall /\ net[s] = <<>> /\ view[s] = "none"
                         /\ indication[s] = "none" /\ up[s]
      /\ \A s \in Side : Coming(s) = {}
  BY EmptyTypes DEF Init, Coming
<1>3. TypeOK
  BY CallControlAssumption, NoCallCall, ViewIs DEF Init, TypeOK
<1>4. SetupFirst(<<>>) /\ EarlyFirst(<<>>)
  BY DEF SetupFirst, EarlyFirst
<1>5. \A s \in Side : SideOK(s)
  BY <1>2, NoCallCall DEF SideOK
<1>6. Between(caller, Other(caller))
  BY <1>1, <1>2, <1>4, NoCallCall
     DEF Between, Roles, Channels, Connection, Decided, PortableCalls, FixedCalls, Proceeds, Undecided
<1> QED
  BY <1>3, <1>5, <1>6 DEF IInv

LEMMA StepInv == IInv /\ [Next]_vars => IInv'
<1> SUFFICES ASSUME IInv, [Next]_vars PROVE IInv'
  OBVIOUS
<1>1. CASE UNCHANGED vars
  BY <1>1, StutterKeeps
<1>2. CASE Next
  <2>1. UNCHANGED caller
    BY <1>2 DEF Next
  <2>2. PICK s \in Side : Request(s) \/ Receive(s) \/ Return(s) \/ Timeout(s) \/ LinkFails(s)
    BY <1>2 DEF Next
  <2>3. CASE Request(s)
    BY <2>1, <2>3, SetupReqKeeps, SetupAckReqKeeps, CallProcReqKeeps, AlertReqKeeps,
       ConnectReqKeeps, ConnectResKeeps, InfoReqKeeps, RejectReqKeeps, ReleaseReqKeeps,
       ReleaseResKeeps DEF Request
  <2>4. CASE Receive(s)
    BY <2>1, <2>4, RcvSetupKeeps, RcvUnknownKeeps, RcvEarlyKeeps, RcvConnectKeeps,
       RcvConnectAckKeeps, RcvInfoKeeps, RcvReleaseKeeps DEF Receive
  <2>5. CASE Timeout(s)
    BY <2>1, <2>5, TimerReleaseKeeps, TimeoutKeeps DEF Timeout
  <2> QED
    BY <2>1, <2>2, <2>3, <2>4, <2>5, ReturnKeeps, LinkFailsKeeps
<1> QED
  BY <1>1, <1>2

\* The inductive invariant holds for all choices of the calling side, of the
\* requests the applications use, and of the link failures.
THEOREM Invariance == Spec => []IInv
BY InitInv, StepInv, PTL DEF Spec

\* Types of the two ends of a call and of what is between them.
THEOREM TypeCorrect == Spec => []TypeOK
<1>1. IInv => TypeOK
  BY DEF IInv
<1> QED
  BY <1>1, Invariance, PTL

-----------------------------------------------------------------------------
(* Calls neither hang nor stay half open *)

\* When nothing is on its way and a side still has its call, one of the two has
\* to act or both are active.
LEMMA Resting ==
    ASSUME IInv, Quiet, NEW s \in Side, Open(s)
    PROVE  \/ Awaited(s) \/ Awaited(Other(s))
           \/ call[s].state = "ACTIVE" /\ call[Other(s)].state = "ACTIVE"
<1> DEFINE o == caller
           t == Other(caller)
<1>1. /\ o \in Side /\ t \in Side /\ ((s = o /\ Other(s) = t) \/ (s = t /\ Other(s) = o))
      /\ (o = "PP" \/ o = "FP")
  <2>1. caller \in Side /\ \A r \in Side : r = "PP" \/ r = "FP"
    BY CallControlAssumption DEF IInv, TypeOK, Side
  <2>2. /\ t \in Side /\ Other(t) = o
        /\ s = o \/ s = t
    BY <2>1, OtherSide
  <2> QED
    BY <2>1, <2>2
<1>2. /\ Between(o, t) /\ Proceeds(o, t) /\ SideOK(o) /\ SideOK(t)
      /\ Coming(o) = {} /\ Coming(t) = {}
      /\ view[s] \notin {"none", "gone"}
  BY <1>1, EmptyTypes DEF IInv, Quiet, Between, Coming, SideOK, Open
<1>3. \A r \in Side : view[r] \notin {"none", "gone"} => Open(r)
  BY DEF IInv, SideOK, Open
<1> HIDE DEF o, t
<1>4. view[o] # "none" /\ view[t] # "none"
  BY <1>1, <1>2 DEF Between, Roles, Proceeds
<1>5. CASE view[o] \in Over \/ view[t] \in Over
  \* One must answer, or both are over and the one not gone waits for RELEASE-COM.
  <2>1. CASE view[o] = "released" \/ view[t] = "released"
    BY <1>1, <1>3, <2>1 DEF Awaited
  <2>2. CASE view[o] # "released" /\ view[t] # "released"
    <3>1. view[o] \in Over /\ view[t] \in Over
      BY <1>2, <1>5, <2>2 DEF Proceeds, Over
    <3> QED
      BY <1>1, <1>2, <1>3, <2>2, <3>1 DEF SideOK, Awaited, Over
  <2> QED
    BY <2>1, <2>2
<1>6. CASE view[o] \notin Over /\ view[t] \notin Over
  <2>1. Open(o) /\ Open(t)
    BY <1>1, <1>3, <1>4, <1>6 DEF Over
  <2>2. view[o] \in {"calling", "answered", "active"} /\ view[t] \in Undecided \cup {"connecting", "active"}
    BY <1>2, <1>4, <1>6 DEF Between, Roles
  <2>3. CASE view[o] = "calling"
    BY <1>1, <1>2, <2>1, <2>2, <2>3 DEF Proceeds, Awaited, Undecided
  <2>4. CASE view[o] \in {"answered", "active"}
    <3>1. view[t] \in {"connecting", "active"}
      BY <1>2, <2>2, <2>4 DEF Between, Connection, Decided
    <3>2. CASE o = "PP"
      BY <1>1, <1>2, <2>1, <2>4, <3>1, <3>2 DEF Between, PortableCalls
    <3>3. CASE o = "FP"
      BY <1>1, <1>2, <2>1, <2>4, <3>1, <3>3 DEF Between, FixedCalls, Awaited
    <3> QED
      BY <1>1, <3>2, <3>3
  <2> QED
    BY <2>2, <2>3, <2>4
<1> QED
  BY <1>5, <1>6

\* A call that is not active on both sides never rests with no timer running and
\* nobody obliged to act.
THEOREM NoHangCorrect == Spec => []NoHang
<1>1. IInv => NoHang
  BY Resting, OtherSide DEF NoHang
<1> QED
  BY <1>1, Invariance, PTL

\* There is no half-open call: an active side with nothing on its way faces an
\* active one, or one of them is about to release.
THEOREM NoHalfOpenCorrect == Spec => []NoHalfOpen
<1>1. IInv => NoHalfOpen
  <2> SUFFICES ASSUME IInv, Quiet, NEW s \in Side, call[s].state = "ACTIVE"
               PROVE  call[Other(s)].state = "ACTIVE" \/ Awaited(s) \/ Awaited(Other(s))
    BY DEF NoHalfOpen
  <2> QED
    BY Resting DEF Open
<1> QED
  BY <1>1, Invariance, PTL

\* In a call from the portable part no timer of the setup outlives the setup.
THEOREM ActiveCallLastsCorrect == Spec => []ActiveCallLasts
<1>1. IInv => ActiveCallLasts
  <2> SUFFICES ASSUME IInv, caller = "PP", NEW s \in Side, call[s].state = "ACTIVE"
               PROVE  call[s].timers \subseteq {"release"}
    BY DEF ActiveCallLasts
  <2>1. "PP" \in Side /\ Other("PP") = "FP" /\ s \in {"PP", "FP"}
    BY DEF Side, Other
  <2>2. call[s].timers \subseteq TimerName
    BY DEF IInv, TypeOK, Call, TimerName
  <2>3. PortableCalls("PP", "FP")
    BY <2>1 DEF IInv, Between
  <2> QED
    BY <2>1, <2>2, <2>3, TypesOf DEF PortableCalls
<1> QED
  BY <1>1, Invariance, PTL

-----------------------------------------------------------------------------
(* The U-plane of calls that carry no in-band information *)

\* No message says that in-band information is available.
Silent == \A s \in Side : \A i \in DOMAIN net[s] : ~ net[s][i].inband

\* The U-plane is connected for the connection only, and then CC.03, which
\* destroys the call as it is, does not run any more.
Fits(c, v) ==
    /\ c.lu_sap => /\ v \in {"connecting", "active", "answered", "releasing", "released"}
                   /\ "setup" \notin c.timers
    /\ "setup" \in c.timers => v \in {"calling", "released"}
    /\ c.state = "DESTROYED" => ~ c.lu_sap

Uplane == Silent /\ \A s \in Side : Fits(call[s], view[s])

LEMMA SilentSends ==
    ASSUME TypeOK, Silent, NEW s \in Side, NEW type \in MessageType, Sends(s, type, FALSE)
    PROVE  Silent'
<1> DEFINE m == [type |-> type, inband |-> FALSE]
<1>1. /\ net \in [Side -> Seq(Message)] /\ Other(s) \in Side
      /\ \A r \in Side : r = s \/ r = Other(s)
  BY OtherSide DEF TypeOK
<1>2. /\ net'[s] = net[s] /\ m \in Message
      /\ net'[Other(s)] = IF up[Other(s)] THEN Append(net[Other(s)], m) ELSE net[Other(s)]
  BY <1>1, SendsEffect
<1>3. ~ m.inband
  OBVIOUS
<1> HIDE DEF m
<1>4. \A i \in DOMAIN Append(net[Other(s)], m) : ~ Append(net[Other(s)], m)[i].inband
  BY <1>1, <1>2, <1>3 DEF Silent
<1> QED
  BY <1>1, <1>2, <1>4 DEF Silent

LEMMA SilentTail ==
    ASSUME TypeOK, Silent, NEW s \in Side, net[s] # <<>>
    PROVE  /\ net' = [net EXCEPT ![s] = Tail(@)] => Silent'
           /\ ~ Inband(s)
<1>1. net \in [Side -> Seq(Message)] /\ net[s] \in Seq(Message)
  BY DEF TypeOK
<1>2. \A i \in DOMAIN Tail(net[s]) : i + 1 \in DOMAIN net[s] /\ Tail(net[s])[i] = net[s][i + 1]
  BY <1>1
<1>3. 1 \in DOMAIN net[s] /\ Head(net[s]) = net[s][1]
  BY <1>1
<1>4. \A i \in DOMAIN Tail(net[s]) : ~ Tail(net[s])[i].inband
  BY <1>2 DEF Silent
<1>5. ASSUME net' = [net EXCEPT ![s] = Tail(@)]
      PROVE  Silent'
  <2>1. \A r \in Side : net'[r] = IF r = s THEN Tail(net[s]) ELSE net[r]
    BY <1>1, <1>5
  <2> QED
    BY <1>4, <2>1 DEF Silent
<1> QED
  BY <1>3, <1>5 DEF Silent, Inband

\* Side s moves to a call and a view that fit.
Fitting(s) == \E d \in Call, v \in View : Moves(s, d, v) /\ Fits(d, v)

LEMMA FittingKeeps ==
    ASSUME TypeOK, NEW s \in Side, Fitting(s), \A r \in Side : Fits(call[r], view[r])
    PROVE  \A r \in Side : Fits(call'[r], view'[r])
BY OtherSide DEF Fitting, Moves

\* What is set and seen in a step, or left alone, fits.
LEMMA FittingSet ==
    ASSUME TypeOK, NEW s \in Side, NEW d \in Call, Set(s, d)
    PROVE  /\ \A v \in View : See(s, v) /\ Fits(d, v) => Fitting(s)
           /\ UNCHANGED view /\ Fits(d, view[s]) => Fitting(s)
<1>1. view[s] \in View
  BY DEF TypeOK
<1> QED
  BY <1>1, MovesEffect, MovesCall DEF Fitting

LEMMA FittingUnchanged ==
    ASSUME TypeOK, NEW s \in Side, UNCHANGED call, Fits(call[s], view[s])
    PROVE  /\ UNCHANGED view => Fitting(s)
           /\ See(s, "released") => Fitting(s)
<1>1. call[s] \in Call /\ view[s] \in View /\ "released" \in View
  BY ViewIs DEF TypeOK
<1>2. call \in [Side -> Call] /\ view \in [Side -> View]
  BY DEF TypeOK
<1>3. ASSUME UNCHANGED view PROVE Fitting(s)
  BY <1>1, <1>2, <1>3 DEF Fitting, Moves
<1>4. ASSUME See(s, "released") PROVE Fitting(s)
  <2>1. Moves(s, call[s], "released")
    BY <1>1, <1>4, MovesView
  <2>2. Fits(call[s], "released")
    BY DEF Fits
  <2> QED
    BY <1>1, <2>1, <2>2 DEF Fitting
<1> QED
  BY <1>3, <1>4

\* MNCC_RELEASE-req and dect_cc_timer_release leave no timer but CC.02.
LEMMA ReleasingFits ==
    ASSUME TypeOK, Silent, NEW s \in Side, Sends(s, "RELEASE", FALSE), See(s, "releasing"),
           Set(s, InState(Start(StopTimers(call[s]), "release"), "RELEASE_PENDING"))
    PROVE  Fitting(s) /\ Silent'
<1> DEFINE f == StopTimers(call[s])
           g == Start(f, "release")
           d == InState(g, "RELEASE_PENDING")
<1>1. f \in Call /\ f.timers \subseteq {"release"}
  BY StopTimersCall DEF TypeOK
<1>2. g \in Call /\ g.timers \subseteq {"release"}
  BY <1>1, StartCall, TypesOf
<1>3. d \in Call /\ d.state # "DESTROYED" /\ d.timers \subseteq {"release"}
  BY <1>2, InStateCall, TypesOf
<1>4. Set(s, d)
  OBVIOUS
<1> HIDE DEF d
<1>5. Fits(d, "releasing")
  BY <1>3 DEF Fits
<1> QED
  BY <1>3, <1>4, <1>5, FittingSet, SilentSends, ViewIs, TypesOf

LEMMA RequestFits ==
    ASSUME IInv, Uplane, ~ InBand, NEW s \in Side, Request(s)
    PROVE  Fitting(s) /\ Silent'
<1> DEFINE c == call[s]
<1>1. /\ TypeOK /\ Silent /\ Fits(c, view[s]) /\ c \in Call /\ view[s] \in View
      /\ SideOK(s) /\ Progress(s) = {FALSE} /\ Connected(c, FALSE) = c
  BY Sides, NotConnectedCall DEF IInv, Uplane, Progress
<1>2. /\ EndOverlap(s, c) \in Call /\ EndOverlap(s, c).state = c.state
      /\ EndOverlap(s, c).lu_sap = c.lu_sap /\ EndOverlap(s, c).timers \subseteq c.timers
  BY <1>1, EndOverlapCall
<1>3. CASE SetupReq(s)
  <2> DEFINE f == InState(NoCall, IF s = "FP" THEN "CALL_PRESENT" ELSE "CALL_INITIATED")
             d == Start(f, "setup")
  <2>1. f \in Call /\ f.state # "DESTROYED" /\ ~ f.lu_sap
    BY NoCallCall, InStateCall, TypesOf
  <2>2. d \in Call /\ d.state # "DESTROYED" /\ ~ d.lu_sap
    BY <2>1, StartCall, TypesOf
  <2>3. Sends(s, "SETUP", FALSE) /\ Set(s, d) /\ See(s, "calling")
    BY <1>3 DEF SetupReq
  <2> HIDE DEF d
  <2> QED
    BY <1>1, <2>2, <2>3, FittingSet, SilentSends, ViewIs, TypesOf DEF Fits
<1>4. CASE SetupAckReq(s)
  <2>1. CASE SendFails(s) /\ UNCHANGED <<call, view>>
    BY <1>1, <2>1, FittingUnchanged DEF SendFails, Silent
  <2> DEFINE f == Start(c, "overlap_sending")
             d == InState(f, "OVERLAP_SENDING")
  <2>2. CASE Sends(s, "SETUP_ACK", FALSE) /\ Set(s, d) /\ See(s, "overlap")
    <3>1. f \in Call /\ f.lu_sap = c.lu_sap /\ f.timers = c.timers \cup {"overlap_sending"}
      BY <1>1, StartCall, TypesOf
    <3>2. d \in Call /\ d.state # "DESTROYED" /\ d.lu_sap = c.lu_sap
          /\ d.timers = c.timers \cup {"overlap_sending"}
      BY <3>1, InStateCall, TypesOf
    <3>3. view[s] = "called"
      BY <1>4, BeforeViews DEF SetupAckReq
    <3> HIDE DEF d
    <3>4. Fits(d, "overlap")
      BY <1>1, <3>2, <3>3 DEF Fits
    <3> QED
      BY <1>1, <2>2, <3>2, <3>4, FittingSet, SilentSends, ViewIs, TypesOf DEF Undecided
  <2> QED
    BY <1>4, <2>1, <2>2 DEF SetupAckReq
<1>5. CASE CallProcReq(s)
  <2> DEFINE g == Connected(EndOverlap(s, c), FALSE)
             d == InState(g, "CALL_PROCEEDING")
             e == Start(d, "completion")
  <2>1. g \in Call /\ g.lu_sap = c.lu_sap /\ g.timers \subseteq c.timers
    BY <1>2, NotConnectedCall
  <2>2. d \in Call /\ d.state # "DESTROYED" /\ d.lu_sap = c.lu_sap /\ d.timers \subseteq c.timers
    BY <2>1, InStateCall, TypesOf
  <2>3. e \in Call /\ e.state # "DESTROYED" /\ e.lu_sap = c.lu_sap
        /\ e.timers \subseteq c.timers \cup {"completion"}
    BY <2>2, StartCall, TypesOf
  <2>4. view[s] \in {"called", "overlap"}
    BY <1>5, BeforeViews DEF CallProcReq
  <2>5. \/ Sends(s, "CALL_PROC", FALSE) /\ Set(s, e) /\ See(s, "proceeding")
        \/ SendFails(s) /\ Set(s, d) /\ UNCHANGED view
    BY <1>1, <1>5 DEF CallProcReq
  <2> HIDE DEF d, e
  <2>6. Fits(d, view[s]) /\ Fits(e, "proceeding")
    BY <1>1, <2>2, <2>3, <2>4 DEF Fits
  <2>7. CASE Sends(s, "CALL_PROC", FALSE) /\ Set(s, e) /\ See(s, "proceeding")
    BY <1>1, <2>3, <2>6, <2>7, FittingSet, SilentSends, ViewIs, TypesOf DEF Undecided
  <2>8. CASE SendFails(s) /\ Set(s, d) /\ UNCHANGED view
    BY <1>1, <2>2, <2>6, <2>8, FittingSet DEF SendFails, Silent
  <2> QED
    BY <2>5, <2>7, <2>8
<1>6. CASE AlertReq(s)
  <2>1. CASE SendFails(s) /\ UNCHANGED <<call, view>>
    BY <1>1, <2>1, FittingUnchanged DEF SendFails, Silent
  <2> DEFINE f == IF s = "FP"
                  THEN InState(EndOverlap(s, Connected(c, FALSE)), "CALL_DELIVERED")
                  ELSE InState(c, "CALL_RECEIVED")
             d == Start(f, "completion")
  <2>2. CASE Sends(s, "ALERTING", FALSE) /\ Set(s, d) /\ See(s, "alerting")
    <3>1. f = InState(EndOverlap(s, c), "CALL_DELIVERED") \/ f = InState(c, "CALL_RECEIVED")
      BY <1>1
    <3> HIDE DEF f
    <3>2. f \in Call /\ f.state # "DESTROYED" /\ f.lu_sap = c.lu_sap /\ f.timers \subseteq c.timers
      BY <1>1, <1>2, <3>1, InStateCall, TypesOf
    <3>3. d \in Call /\ d.state # "DESTROYED" /\ d.lu_sap = c.lu_sap
          /\ d.timers \subseteq c.timers \cup {"completion"}
      BY <3>2, StartCall, TypesOf
    <3> HIDE DEF d
    <3>4. view[s] \in {"called", "overlap", "proceeding"}
      BY <1>6, BeforeViews DEF AlertReq
    <3>5. Fits(d, "alerting")
      BY <1>1, <3>3, <3>4 DEF Fits
    <3> QED
      BY <1>1, <2>2, <3>3, <3>5, FittingSet, SilentSends, ViewIs, TypesOf DEF Undecided
  <2> QED
    BY <1>1, <1>6, <2>1, <2>2 DEF AlertReq
<1>7. CASE ConnectReq(s)
  <2> DEFINE f == EndOverlap(s, Connected(c, TRUE))
             d == IF s = "FP" THEN InState(StopIfRunning(f, {"completion"}), "ACTIVE")
                              ELSE InState(Start(f, "connect"), "CONNECT_PENDING")
             e == [f EXCEPT !.lu_sap = FALSE]
  <2>1. view[s] \in Undecided
    BY <1>7, BeforeViews DEF ConnectReq
  <2>2. Connected(c, TRUE) \in Call /\ Connected(c, TRUE).timers = c.timers
        /\ Connected(c, TRUE).state = c.state
    BY <1>1, ConnectedCall
  <2>3. f \in Call /\ f.timers \subseteq c.timers /\ f.state = c.state
    BY <2>2, EndOverlapCall
  <2>4. \/ Sends(s, "CONNECT", FALSE) /\ Set(s, d) /\ See(s, "connecting")
        \/ SendFails(s) /\ Set(s, e) /\ UNCHANGED view
    BY <1>7 DEF ConnectReq
  <2>5. e \in Call /\ ~ e.lu_sap /\ e.timers \subseteq c.timers
    BY <2>3, DisconnectedCall
  <2> HIDE DEF f, e
  <2>6. d \in Call /\ d.state # "DESTROYED" /\ d.timers \subseteq c.timers \cup {"connect"}
    <3>1. {"completion"} \in SUBSET TimerName /\ "connect" \in TimerName
      BY TypesOf
    <3>2. /\ StopIfRunning(f, {"completion"}) \in Call
          /\ StopIfRunning(f, {"completion"}).timers \subseteq c.timers
          /\ Start(f, "connect") \in Call
          /\ Start(f, "connect").timers \subseteq c.timers \cup {"connect"}
      BY <2>3, <3>1, StopIfRunningCall, StartCall
    <3> QED
      BY <3>2, InStateCall, TypesOf
  <2> HIDE DEF d
  <2>7. Fits(d, "connecting") /\ Fits(e, view[s])
    BY <1>1, <2>1, <2>5, <2>6 DEF Fits, Undecided
  <2>8. CASE Sends(s, "CONNECT", FALSE) /\ Set(s, d) /\ See(s, "connecting")
    BY <1>1, <2>6, <2>7, <2>8, FittingSet, SilentSends, ViewIs, TypesOf
  <2>9. CASE SendFails(s) /\ Set(s, e) /\ UNCHANGED view
    BY <1>1, <2>5, <2>7, <2>9, FittingSet DEF SendFails, Silent
  <2> QED
    BY <2>4, <2>8, <2>9
<1>8. CASE ConnectRes(s)
  <2> DEFINE f == Connected(c, TRUE)
             d == InState(f, "ACTIVE")
             e == [c EXCEPT !.lu_sap = FALSE]
  <2>1. view[s] = "answered"
    BY <1>8 DEF ConnectRes
  <2>2. f \in Call /\ f.timers = c.timers
    BY <1>1, ConnectedCall
  <2>3. d \in Call /\ d.state # "DESTROYED" /\ d.timers = c.timers
    BY <2>2, InStateCall, TypesOf
  <2>4. e \in Call /\ ~ e.lu_sap /\ e.timers = c.timers
    BY <1>1, DisconnectedCall
  <2>5. \/ Sends(s, "CONNECT_ACK", FALSE) /\ Set(s, d) /\ See(s, "active")
        \/ SendFails(s) /\ Set(s, e) /\ UNCHANGED view
    BY <1>8 DEF ConnectRes
  <2> HIDE DEF d, e
  <2>6. Fits(d, "active") /\ Fits(e, view[s])
    BY <1>1, <2>1, <2>3, <2>4 DEF Fits
  <2>7. CASE Sends(s, "CONNECT_ACK", FALSE) /\ Set(s, d) /\ See(s, "active")
    BY <1>1, <2>3, <2>6, <2>7, FittingSet, SilentSends, ViewIs, TypesOf
  <2>8. CASE SendFails(s) /\ Set(s, e) /\ UNCHANGED view
    BY <1>1, <2>4, <2>6, <2>8, FittingSet DEF SendFails, Silent
  <2> QED
    BY <2>5, <2>7, <2>8
<1>9. CASE InfoReq(s)
  <2>1. Sends(s, "INFO", FALSE) /\ Set(s, c) /\ UNCHANGED view
    BY <1>1, <1>9 DEF InfoReq
  <2> QED
    BY <1>1, <2>1, FittingSet, SilentSends, TypesOf
<1>10. CASE RejectReq(s)
  <2>1. view[s] \in Undecided
    BY <1>10, BeforeViews DEF RejectReq
  <2>2. Destroy(c) \in Call /\ Destroy(c).timers = {} /\ Destroy(c).lu_sap = c.lu_sap
    BY <1>1, DestroyCall
  <2>3. Fits(Destroy(c), "gone")
    BY <1>1, <2>1, <2>2 DEF Fits, Undecided
  <2> QED
    BY <1>1, <1>10, <2>2, <2>3, FittingSet, SilentSends, ViewIs, TypesOf DEF RejectReq
<1>11. CASE ReleaseReq(s)
  <2>1. CASE SendFails(s) /\ UNCHANGED <<call, view>>
    BY <1>1, <2>1, FittingUnchanged DEF SendFails, Silent
  <2>2. CASE /\ Sends(s, "RELEASE", FALSE) /\ See(s, "releasing")
             /\ Set(s, InState(Start(StopTimers(c), "release"), "RELEASE_PENDING"))
    BY <1>1, <2>2, ReleasingFits
  <2> QED
    BY <1>11, <2>1, <2>2 DEF ReleaseReq
<1>12. CASE ReleaseRes(s)
  <2>1. Fits(Shutdown(c), "gone") /\ Shutdown(c) \in Call
    BY <1>1, ShutdownCall DEF Fits
  <2> QED
    BY <1>1, <1>12, <2>1, FittingSet, SilentSends, ViewIs, TypesOf DEF ReleaseRes
<1> QED
  BY <1>3, <1>4, <1>5, <1>6, <1>7, <1>8, <1>9, <1>10, <1>11, <1>12 DEF Request

LEMMA ReceiveFits ==
    ASSUME IInv, Uplane, NEW s \in Side, Receive(s)
    PROVE  Fitting(s) /\ Silent'
<1> DEFINE c == call[s]
<1>1. TypeOK /\ Silent /\ Fits(c, view[s]) /\ c \in Call /\ view[s] \in View /\ SideOK(s)
  BY Sides DEF IInv, Uplane
<1>2. ASSUME NEW type, Receives(s, type)
      PROVE  Silent' /\ ~ Inband(s) /\ c.state # "DESTROYED"
  BY <1>1, <1>2, SilentTail DEF Receives, Open
<1>3. CASE RcvSetup(s)
  <2> DEFINE d == InState(NoCall, IF s = "FP" THEN "CALL_INITIATED" ELSE "CALL_PRESENT")
  <2>1. d \in Call /\ d.state # "DESTROYED" /\ d.timers = {} /\ ~ d.lu_sap
    BY NoCallCall, InStateCall, TypesOf
  <2>2. Set(s, d) /\ See(s, "called") /\ Silent'
    BY <1>1, <1>3, SilentTail DEF RcvSetup
  <2> HIDE DEF d
  <2>3. Fits(d, "called")
    BY <2>1 DEF Fits
  <2> QED
    BY <1>1, <2>1, <2>2, <2>3, FittingSet, ViewIs DEF Undecided
<1>4. CASE RcvUnknown(s)
  <2>1. Fitting(s)
    BY <1>1, <1>4, FittingUnchanged DEF RcvUnknown
  <2> DEFINE m == [type |-> "RELEASE_COM", inband |-> FALSE]
  <2>2. /\ net[s] # <<>> /\ net \in [Side -> Seq(Message)]
        /\ Other(s) \in Side /\ Other(s) # s /\ \A r \in Side : r = s \/ r = Other(s)
    BY <1>1, <1>4, OtherSide DEF RcvUnknown, TypeOK
  <2>3. PICK answer \in {<<>>, <<m>>} :
           net' = [net EXCEPT ![s] = Tail(@), ![Other(s)] = @ \o answer]
    BY <1>4 DEF RcvUnknown
  <2>4. net'[s] = Tail(net[s]) /\ net'[Other(s)] = net[Other(s)] \o answer
    BY <2>2, <2>3
  <2>5. \A i \in DOMAIN net'[s] : i + 1 \in DOMAIN net[s] /\ net'[s][i] = net[s][i + 1]
    BY <2>2, <2>4
  <2>6. \A i \in DOMAIN net'[Other(s)] :
           \/ i \in DOMAIN net[Other(s)] /\ net'[Other(s)][i] = net[Other(s)][i]
           \/ net'[Other(s)][i] = m
    <3>1. m \in Message /\ net[Other(s)] \in Seq(Message)
      BY <2>2, TypesOf DEF Message
    <3> HIDE DEF m
    <3>2. net[Other(s)] \o <<>> = net[Other(s)] /\ net[Other(s)] \o <<m>> = Append(net[Other(s)], m)
      BY <3>1
    <3>3. CASE answer = <<>>
      BY <2>4, <3>2, <3>3
    <3>4. CASE answer = <<m>>
      <4>1. net'[Other(s)] = Append(net[Other(s)], m)
        BY <2>4, <3>2, <3>4
      <4> QED
        BY <3>1, <4>1
    <3> QED
      BY <2>3, <3>3, <3>4
  <2>7. Silent'
    BY <1>1, <2>2, <2>5, <2>6 DEF Silent
  <2> QED
    BY <2>1, <2>7
<1> DEFINE f == StopIfRunning(c, {"setup"})
<1>5. /\ f \in Call /\ f.state = c.state /\ f.timers \subseteq c.timers
      /\ "setup" \notin f.timers /\ f.lu_sap = c.lu_sap
  BY <1>1, StopIfRunningCall, TypesOf
<1>6. Start(f, "completion") \in Call /\ Fits(Start(f, "completion"), view[s]) /\ Fits(f, view[s])
  <2> HIDE DEF f
  <2>1. /\ Start(f, "completion") \in Call /\ Start(f, "completion").state = f.state
        /\ Start(f, "completion").timers = f.timers \cup {"completion"}
        /\ Start(f, "completion").lu_sap = f.lu_sap
    BY <1>5, StartCall, TypesOf
  <2> QED
    BY <1>1, <1>5, <2>1 DEF Fits
<1>7. CASE RcvSetupAck(s) \/ RcvCallProc(s) \/ RcvAlerting(s)
  <2>1. Silent' /\ Inband(s) = FALSE
    BY <1>2, <1>7 DEF RcvSetupAck, RcvCallProc, RcvAlerting, Inband
  <2>2. Connected(f, FALSE) = f /\ Connected(Start(f, "completion"), FALSE) = Start(f, "completion")
    BY <1>5, <1>6, NotConnectedCall
  <2>3. UNCHANGED view /\ (Set(s, f) \/ Set(s, Start(f, "completion")))
    BY <1>7, <2>1, <2>2 DEF RcvSetupAck, RcvCallProc, RcvAlerting
  <2> HIDE DEF f
  <2> QED
    BY <1>1, <1>5, <1>6, <2>1, <2>3, FittingSet
<1>8. CASE RcvConnect(s)
  <2> DEFINE g == StopIfRunning(c, {"setup", "completion"})
             d == IF s = "PP" THEN InState(g, "ACTIVE") ELSE g
             v == IF view[s] = "calling" THEN "answered" ELSE view[s]
  <2>1. g \in Call /\ g.state = c.state /\ "setup" \notin g.timers /\ g.lu_sap = c.lu_sap
    BY <1>1, StopIfRunningCall, TypesOf
  <2>2. Set(s, d) /\ See(s, v) /\ Silent' /\ c.state # "DESTROYED"
    BY <1>2, <1>8 DEF RcvConnect
  <2> HIDE DEF g
  <2>3. d \in Call /\ d.state # "DESTROYED" /\ "setup" \notin d.timers /\ d.lu_sap = c.lu_sap
    BY <2>1, <2>2, InStateCall, TypesOf
  <2> HIDE DEF d
  <2>4. v \in View /\ Fits(d, v)
    BY <1>1, <2>3, ViewIs DEF Fits
  <2> HIDE DEF v
  <2> QED
    BY <1>1, <2>2, <2>3, <2>4, FittingSet
<1>9. CASE RcvConnectAck(s)
  <2> DEFINE g == Stop(c, "connect")
             d == IF s = "PP" THEN InState(g, "ACTIVE") ELSE c
             v == IF view[s] = "connecting" THEN "active" ELSE view[s]
  <2>1. g \in Call /\ g.timers \subseteq c.timers /\ g.lu_sap = c.lu_sap
    BY <1>1, StopCall, TypesOf
  <2>2. Set(s, d) /\ See(s, v) /\ Silent' /\ c.state # "DESTROYED"
    BY <1>2, <1>9 DEF RcvConnectAck
  <2> HIDE DEF g
  <2>3. d \in Call /\ d.state # "DESTROYED" /\ d.timers \subseteq c.timers /\ d.lu_sap = c.lu_sap
    BY <1>1, <2>1, <2>2, InStateCall, TypesOf
  <2> HIDE DEF d
  <2>4. v \in View /\ Fits(d, v)
    BY <1>1, <2>3, ViewIs DEF Fits
  <2> HIDE DEF v
  <2> QED
    BY <1>1, <2>2, <2>3, <2>4, FittingSet
<1>10. CASE RcvInfo(s)
  <2>1. Silent' /\ Inband(s) = FALSE
    BY <1>2, <1>10 DEF RcvInfo, Inband
  <2>2. UNCHANGED view /\ Set(s, c)
    BY <1>1, <1>10, <2>1, NotConnectedCall DEF RcvInfo
  <2> QED
    BY <1>1, <2>1, <2>2, FittingSet
<1>11. CASE RcvRelease(s) \/ RcvReleaseCom(s)
  <2>1. Silent' /\ c.state # "DESTROYED"
    BY <1>2, <1>11 DEF RcvRelease, RcvReleaseCom
  <2>2. /\ Stop(c, "release") \in Call /\ StopTimers(c) \in Call
        /\ Stop(StopTimers(c), "release") \in Call
        /\ StopTimers(c).state = c.state /\ StopTimers(c).timers \subseteq c.timers
        /\ StopTimers(c).lu_sap = c.lu_sap
    BY <1>1, StopCall, StopTimersCall, TypesOf
  <2>3. CASE UNCHANGED call /\ See(s, "released")
    BY <1>1, <2>1, <2>3, FittingUnchanged
  <2>4. CASE Set(s, StopTimers(c)) /\ See(s, "released")
    <3>1. Fits(StopTimers(c), "released")
      BY <1>1, <2>1, <2>2 DEF Fits
    <3> QED
      BY <1>1, <2>1, <2>2, <2>4, <3>1, FittingSet, ViewIs
  <2>5. ASSUME NEW e \in Call, Set(s, Shutdown(e)), See(s, "gone")
        PROVE  Fitting(s)
    <3>1. Shutdown(e) \in Call /\ Fits(Shutdown(e), "gone")
      BY <2>5, ShutdownCall DEF Fits
    <3> QED
      BY <1>1, <2>5, <3>1, FittingSet, ViewIs
  <2> QED
    BY <1>11, <2>1, <2>2, <2>3, <2>4, <2>5 DEF RcvRelease, RcvReleaseCom
<1> QED
  BY <1>3, <1>4, <1>7, <1>8, <1>9, <1>10, <1>11 DEF Receive

LEMMA ReturnFits ==
    ASSUME IInv, Uplane, NEW s \in Side, Return(s)
    PROVE  Fitting(s) /\ Silent'
<1> DEFINE c == call[s]
<1>1. /\ TypeOK /\ Silent /\ Fits(c, view[s]) /\ c \in Call /\ view[s] \in View
      /\ UNCHANGED <<net, view>> /\ indication[s] \in Indications /\ indication[s] # "none"
  BY Sides DEF IInv, Uplane, TypeOK, Return, Indications
<1>2. Silent'
  BY <1>1 DEF Silent
<1>3. CASE Open(s)
  <2>1. Set(s, Continued(s, c))
    BY <1>3 DEF Return
  <2>2. \/ Continued(s, c) = c \/ Continued(s, c) = Start(c, "overlap_sending")
        \/ \E state \in CallState \ {"DESTROYED"} : Continued(s, c) = InState(c, state)
    BY <1>1, TypesOf DEF Continued, Indications
  <2>3. Fits(Continued(s, c), view[s]) /\ Continued(s, c) \in Call
    <3>1. CASE Continued(s, c) = c
      BY <1>1, <3>1
    <3>2. CASE Continued(s, c) = Start(c, "overlap_sending")
      BY <1>1, <3>2, StartCall, TypesOf DEF Fits
    <3>3. CASE \E state \in CallState \ {"DESTROYED"} : Continued(s, c) = InState(c, state)
      BY <1>1, <3>3, InStateCall DEF Fits
    <3> QED
      BY <2>2, <3>1, <3>2, <3>3
  <2> QED
    BY <1>1, <1>2, <2>1, <2>3, FittingSet
<1>4. CASE ~ Open(s)
  <2> DEFINE e == [c EXCEPT !.crash = "stale"]
  <2>1. /\ e \in Call /\ e.state = c.state /\ e.timers = c.timers
        /\ e.lu_sap = c.lu_sap
    BY <1>1 DEF Call
  <2>2. Set(s, c) \/ Set(s, e)
    BY <1>4 DEF Return
  <2> HIDE DEF e
  <2>3. Fits(e, view[s])
    BY <1>1, <2>1 DEF Fits
  <2> QED
    BY <1>1, <1>2, <2>1, <2>2, <2>3, FittingSet
<1> QED
  BY <1>3, <1>4

LEMMA TimeoutFits ==
    ASSUME IInv, Uplane, NEW s \in Side, Timeout(s)
    PROVE  Fitting(s) /\ Silent'
<1> DEFINE c == call[s]
<1>1. TypeOK /\ Silent /\ Fits(c, view[s]) /\ c \in Call /\ view[s] \in View
  BY Sides DEF IInv, Uplane
<1>2. CASE \E t \in {"overlap_sending", "completion", "connect"} : TimerRelease(s, t)
  BY <1>1, <1>2, ReleasingFits DEF TimerRelease
<1>3. CASE SetupTimeout(s)
  <2>1. Destroy(c) \in Call /\ Destroy(c).timers = {} /\ Destroy(c).lu_sap = c.lu_sap
    BY <1>1, DestroyCall
  <2>2. "setup" \in c.timers
    BY <1>3 DEF SetupTimeout, Expires
  <2>3. Fits(Destroy(c), "gone")
    BY <1>1, <2>1, <2>2 DEF Fits
  <2> QED
    BY <1>1, <1>3, <2>1, <2>3, FittingSet, SilentSends, ViewIs, TypesOf DEF SetupTimeout
<1>4. CASE ReleaseTimeout(s)
  <2>1. Shutdown(c) \in Call /\ Fits(Shutdown(c), "gone")
    BY <1>1, ShutdownCall DEF Fits
  <2> QED
    BY <1>1, <1>4, <2>1, FittingSet, SilentSends, ViewIs, TypesOf DEF ReleaseTimeout
<1> QED
  BY <1>2, <1>3, <1>4 DEF Timeout

LEMMA LinkFailsFits ==
    ASSUME IInv, Uplane, NEW s \in Side, LinkFails(s)
    PROVE  Fitting(s) /\ Silent'
<1> DEFINE c == call[s]
<1>1. TypeOK /\ Silent /\ Fits(c, view[s]) /\ c \in Call /\ view[s] \in View
  BY Sides DEF IInv, Uplane
<1>2. Silent'
  <2>1. net \in [Side -> Seq(Message)] /\ net' = [net EXCEPT ![s] = <<>>]
    BY <1>1 DEF TypeOK, LinkFails
  <2>2. \A r \in Side : net'[r] = IF r = s THEN <<>> ELSE net[r]
    BY <2>1
  <2> QED
    BY <1>1, <2>2 DEF Silent
<1>3. CASE Open(s)
  <2>1. StopTimers(c) \in Call
    BY <1>1, StopTimersCall
  <2>2. Shutdown(StopTimers(c)) \in Call /\ Fits(Shutdown(StopTimers(c)), "gone")
    BY <2>1, ShutdownCall DEF Fits
  <2> QED
    BY <1>1, <1>2, <1>3, <2>2, FittingSet, ViewIs DEF LinkFails
<1>4. CASE ~ Open(s)
  BY <1>1, <1>2, <1>4, FittingUnchanged DEF LinkFails
<1> QED
  BY <1>3, <1>4

\* When the applications of the fixed part announce no in-band information, the
\* U-plane does not outlive a call: neither MNCC_REJECT-req nor the expiry of
\* CC.03, which destroy the call without dect_call_shutdown, finds it connected.
THEOREM UplaneClosedCorrect == ASSUME ~ InBand PROVE Spec => []UplaneClosed
<1>1. Init => Uplane
  BY NoCallCall DEF Init, Uplane, Silent, Fits
<1>2. IInv /\ Uplane /\ [Next]_vars => Uplane'
  <2> SUFFICES ASSUME IInv, Uplane, [Next]_vars PROVE Uplane'
    OBVIOUS
  <2>1. CASE UNCHANGED vars
    BY <2>1 DEF vars, Uplane, Silent
  <2>2. CASE Next
    <3>1. PICK s \in Side : Request(s) \/ Receive(s) \/ Return(s) \/ Timeout(s) \/ LinkFails(s)
      BY <2>2 DEF Next
    <3>2. Fitting(s) /\ Silent'
      BY <3>1, RequestFits, ReceiveFits, ReturnFits, TimeoutFits, LinkFailsFits
    <3> QED
      BY <3>2, FittingKeeps DEF IInv, Uplane
  <2> QED
    BY <2>1, <2>2
<1>3. Uplane => UplaneClosed
  BY DEF Uplane, Fits, UplaneClosed
<1> QED
  BY <1>1, <1>2, <1>3, Invariance, PTL DEF Spec
=============================================================================
