---------------------------- MODULE CallControl ----------------------------
(***************************************************************************)
(* Call Control of libdect (src/src/cc.c): one call between the fixed part  *)
(* "FP" and the portable part "PP", each an instance of the library with an *)
(* application on top, connected by a data link that neither loses nor      *)
(* reorders messages until it fails.                                        *)
(*                                                                          *)
(* cc.c checks the state of a call almost nowhere: messages that cross, and *)
(* timers that expire while an answer is on its way, act on whatever state  *)
(* the call has by then.  The application's own view of the call, built     *)
(* from the primitives exchanged with it, decides what it may request.      *)
(***************************************************************************)
EXTENDS Naturals, Sequences, FiniteSets

CONSTANTS
    Callers,    \* the sides that may call MNCC_SETUP-req
    Optional,   \* [Side -> set of optional requests its application uses]
    InBand,     \* may FP requests carry "in-band information now available"?
    MayFail,    \* may the data link fail?
    MaxInfo     \* bound: CC-INFO messages of each side

Side == {"FP", "PP"}

ASSUME CallControlAssumption ==
    /\ Callers \subseteq Side
    /\ Optional \in [Side -> SUBSET {"setup_ack", "call_proc", "alert", "info"}]
    /\ InBand \in BOOLEAN /\ MayFail \in BOOLEAN
    /\ MaxInfo \in Nat

VARIABLES
    caller,    \* the side that does
    call,      \* [Side -> the struct dect_call and what becomes of it]
    net,       \* [Side -> messages on their way to it]
    view,      \* [Side -> the call as its application sees it]
    indication,\* [Side -> indication whose handler continues when it returns]
    up,        \* [Side -> has the LCE not reported a link failure?]
    infos      \* [Side -> CC-INFO messages sent]

vars == <<caller, call, net, view, indication, up, infos>>

Other(s) == IF s = "FP" THEN "PP" ELSE "FP"

\* CC.01, CC.03, CC.04 and CC.05, which dect_cc_stop_timers stops, and CC.02
SetupTimers == {"overlap_sending", "setup", "completion", "connect"}

CallState ==
    {"NULL", "CALL_INITIATED", "OVERLAP_SENDING", "CALL_PROCEEDING",
     "CALL_DELIVERED", "CALL_PRESENT", "CALL_RECEIVED", "CONNECT_PENDING",
     "ACTIVE", "RELEASE_PENDING", "DESTROYED"}

Call ==
    [state  : CallState,
     timers : SUBSET (SetupTimers \cup {"release"}),   \* those running
     lu_sap : BOOLEAN,                                 \* U-plane connected
     crash  : {"no", "timer", "stale"}]   \* failed assertion, freed call used

MessageType ==
    {"SETUP", "SETUP_ACK", "CALL_PROC", "ALERTING", "CONNECT", "CONNECT_ACK",
     "INFO", "RELEASE", "RELEASE_COM"}

Message == [type : MessageType, inband : BOOLEAN]

\* How far a called application has gone; what it requests lies further.
Answers == <<"called", "overlap", "proceeding", "alerting", "connecting">>

Before(v, w) ==
    \E i, j \in DOMAIN Answers : i < j /\ Answers[i] = v /\ Answers[j] = w

View ==
    {Answers[i] : i \in DOMAIN Answers}
      \cup {"none", "calling", "answered", "active", "releasing", "released", "gone"}

NoCall == [state |-> "NULL", timers |-> {}, lu_sap |-> FALSE, crash |-> "no"]

Open(s) == call[s].state \notin {"NULL", "DESTROYED"}

Running == \A s \in Side : call[s].crash = "no"

-----------------------------------------------------------------------------
(* Operations on a call *)

Start(c, t) == [c EXCEPT !.timers = @ \cup {t}]

\* dect_timer_stop asserts that the timer runs.
Stop(c, t) == [c EXCEPT !.timers = @ \ {t},
                        !.crash  = IF t \in c.timers THEN @ ELSE "timer"]

StopIfRunning(c, ts) == [c EXCEPT !.timers = @ \ ts]

\* dect_cc_stop_timers
StopTimers(c) == StopIfRunning(c, SetupTimers)

InState(c, state) == [c EXCEPT !.state = state]

\* dect_call_update_progress and dect_call_connect_uplane
Connected(c, available) == [c EXCEPT !.lu_sap = @ \/ available]

\* dect_call_destroy: the U-plane descriptor, if any, is left registered.
Destroy(c) == [c EXCEPT !.state = "DESTROYED", !.timers = {}]

\* Mutant: the U-plane is not disconnected.
ShutdownKeepsUplane(c) == Destroy(c)

\* dect_call_shutdown
Shutdown(c) == Destroy([c EXCEPT !.lu_sap = FALSE])

\* dect_cc_send_msg: the message is on its way, or lost when the peer has seen
\* the link fail; then the send may fail as well.
Sends(s, type, inband) ==
    net' = IF up[Other(s)]
           THEN [net EXCEPT ![Other(s)] = Append(@, [type |-> type, inband |-> inband])]
           ELSE net

SendFails(s) == ~ up[Other(s)] /\ UNCHANGED net

Set(s, c) == call' = [call EXCEPT ![s] = c]

See(s, v) == view' = [view EXCEPT ![s] = v]

\* what the application may say is available in-band: FP requests only
Progress(s) == IF s = "FP" /\ InBand THEN BOOLEAN ELSE {FALSE}

Init ==
    /\ caller \in Callers
    /\ call = [s \in Side |-> NoCall]
    /\ net = [s \in Side |-> <<>>]
    /\ view = [s \in Side |-> "none"]
    /\ indication = [s \in Side |-> "none"]
    /\ up = [s \in Side |-> TRUE]
    /\ infos = [s \in Side |-> 0]

-----------------------------------------------------------------------------
(* Requests and responses of the application, between events or from inside  *)
(* an indication                                                             *)

Requests(s) == Running /\ up[s] /\ UNCHANGED <<indication, up>>

\* Mutant: CC.03 is not started.
SetupReqNoTimer(s) ==
    /\ Requests(s) /\ UNCHANGED infos
    /\ s = caller /\ view[s] = "none"
    /\ Sends(s, "SETUP", FALSE)
    /\ Set(s, InState(NoCall, IF s = "FP" THEN "CALL_PRESENT" ELSE "CALL_INITIATED"))
    /\ See(s, "calling")

\* MNCC_SETUP-req
SetupReq(s) ==
    /\ Requests(s) /\ UNCHANGED infos
    /\ s = caller /\ view[s] = "none"
    /\ Sends(s, "SETUP", FALSE)
    /\ Set(s, Start(InState(NoCall, IF s = "FP" THEN "CALL_PRESENT" ELSE "CALL_INITIATED"), "setup"))
    /\ See(s, "calling")

\* Mutant: CC.01 is not started.
SetupAckReqNoTimer(s) ==
    /\ Requests(s) /\ UNCHANGED infos
    /\ "setup_ack" \in Optional[s] /\ Before(view[s], "overlap")
    /\ Sends(s, "SETUP_ACK", FALSE)
    /\ Set(s, InState(call[s], "OVERLAP_SENDING"))
    /\ See(s, "overlap")

\* Mutant: the state of the peer is entered.
SetupAckReqReceiving(s) ==
    /\ Requests(s) /\ UNCHANGED infos
    /\ "setup_ack" \in Optional[s] /\ Before(view[s], "overlap")
    /\ Sends(s, "SETUP_ACK", FALSE)
    /\ Set(s, InState(Start(call[s], "overlap_sending"), "OVERLAP_RECEIVING"))
    /\ See(s, "overlap")

\* MNCC_SETUP_ACK-req
SetupAckReq(s) ==
    /\ Requests(s) /\ UNCHANGED infos
    /\ "setup_ack" \in Optional[s] /\ Before(view[s], "overlap")
    /\ \/ /\ Sends(s, "SETUP_ACK", FALSE)
          /\ Set(s, InState(Start(call[s], "overlap_sending"), "OVERLAP_SENDING"))
          /\ See(s, "overlap")
       \/ SendFails(s) /\ UNCHANGED <<call, view>>

\* the FP leaves OVERLAP SENDING
EndOverlap(s, c) ==
    IF s = "FP" /\ c.state = "OVERLAP_SENDING" THEN Stop(c, "overlap_sending") ELSE c

\* MNCC_CALL_PROC-req: timer and state change before the message is sent.
CallProcReq(s) ==
    /\ Requests(s) /\ UNCHANGED infos
    /\ "call_proc" \in Optional[s] /\ Before(view[s], "proceeding")
    /\ \E inband \in Progress(s) :
        LET c == InState(Connected(EndOverlap(s, call[s]), inband), "CALL_PROCEEDING") IN
        \/ Sends(s, "CALL_PROC", inband) /\ Set(s, Start(c, "completion")) /\ See(s, "proceeding")
        \/ SendFails(s) /\ Set(s, c) /\ UNCHANGED view

\* MNCC_ALERT-req
AlertReq(s) ==
    /\ Requests(s) /\ UNCHANGED infos
    /\ "alert" \in Optional[s] /\ Before(view[s], "alerting")
    /\ \E inband \in Progress(s) :
        \/ /\ Sends(s, "ALERTING", inband)
           /\ Set(s, Start(IF s = "FP"
                           THEN InState(EndOverlap(s, Connected(call[s], inband)), "CALL_DELIVERED")
                           ELSE InState(call[s], "CALL_RECEIVED"), "completion"))
           /\ See(s, "alerting")
        \/ SendFails(s) /\ UNCHANGED <<call, view>>

\* MNCC_CONNECT-req; a PP waits for the acknowledgement.
ConnectReq(s) ==
    /\ Requests(s) /\ UNCHANGED infos
    /\ Before(view[s], "connecting")
    /\ LET c == EndOverlap(s, Connected(call[s], TRUE)) IN
       \/ /\ Sends(s, "CONNECT", FALSE)
          /\ Set(s, IF s = "FP" THEN InState(StopIfRunning(c, {"completion"}), "ACTIVE")
                                ELSE InState(Start(c, "connect"), "CONNECT_PENDING"))
          /\ See(s, "connecting")
       \/ SendFails(s) /\ Set(s, [c EXCEPT !.lu_sap = FALSE]) /\ UNCHANGED view

\* MNCC_CONNECT-res
ConnectRes(s) ==
    /\ Requests(s) /\ UNCHANGED infos
    /\ view[s] = "answered"
    /\ \/ /\ Sends(s, "CONNECT_ACK", FALSE)
          /\ Set(s, InState(Connected(call[s], TRUE), "ACTIVE"))
          /\ See(s, "active")
       \/ SendFails(s) /\ Set(s, [call[s] EXCEPT !.lu_sap = FALSE]) /\ UNCHANGED view

\* MNCC_INFO-req
InfoReq(s) ==
    /\ Requests(s)
    /\ "info" \in Optional[s] /\ infos[s] < MaxInfo
    /\ view[s] \notin {"none", "releasing", "released", "gone"}
    /\ infos' = [infos EXCEPT ![s] = @ + 1]
    /\ \E inband \in Progress(s) :
        Sends(s, "INFO", inband) /\ Set(s, Connected(call[s], inband)) /\ UNCHANGED view

\* MNCC_REJECT-req: the call is destroyed without dect_call_shutdown.
RejectReq(s) ==
    /\ Requests(s) /\ UNCHANGED infos
    /\ Before(view[s], "connecting")
    /\ Sends(s, "RELEASE_COM", FALSE)
    /\ Set(s, Destroy(call[s])) /\ See(s, "gone")

\* MNCC_RELEASE-req
ReleaseReq(s) ==
    /\ Requests(s) /\ UNCHANGED infos
    /\ view[s] \notin {"none", "releasing", "released", "gone"}
    /\ \/ /\ Sends(s, "RELEASE", FALSE)
          /\ Set(s, InState(Start(StopTimers(call[s]), "release"), "RELEASE_PENDING"))
          /\ See(s, "releasing")
       \/ SendFails(s) /\ UNCHANGED <<call, view>>

\* MNCC_RELEASE-res
ReleaseRes(s) ==
    /\ Requests(s) /\ UNCHANGED infos
    /\ view[s] = "released"
    /\ Sends(s, "RELEASE_COM", FALSE)
    /\ Set(s, Shutdown(call[s])) /\ See(s, "gone")

-----------------------------------------------------------------------------
(* Messages *)

\* The event loop of s runs a handler: none is waiting for the application.
Handles(s) == Running /\ up[s] /\ indication[s] = "none" /\ UNCHANGED <<up, infos>>

Receives(s, type) ==
    /\ Handles(s) /\ Open(s)
    /\ net[s] # <<>> /\ Head(net[s]).type = type
    /\ net' = [net EXCEPT ![s] = Tail(@)]

\* what a PP takes from the progress indicator of the message
Inband(s) == s = "PP" /\ Head(net[s]).inband

\* The handler continues when the application returns from the indication.
Indicate(s, what) == indication' = [indication EXCEPT ![s] = what]

NoIndication == UNCHANGED indication

\* dect_cc_rcv_setup
RcvSetup(s) ==
    /\ Handles(s) /\ NoIndication
    /\ net[s] # <<>> /\ Head(net[s]).type = "SETUP"
    /\ net' = [net EXCEPT ![s] = Tail(@)]
    /\ Set(s, InState(NoCall, IF s = "FP" THEN "CALL_INITIATED" ELSE "CALL_PRESENT"))
    /\ See(s, "called")

\* dect_cc_open for other messages
RcvUnknown(s) ==
    /\ Handles(s) /\ NoIndication /\ UNCHANGED <<call, view>>
    /\ net[s] # <<>> /\ Head(net[s]).type # "SETUP" /\ ~ Open(s)
    /\ LET answer == IF Head(net[s]).type \notin {"RELEASE", "RELEASE_COM"} /\ up[Other(s)]
                     THEN <<[type |-> "RELEASE_COM", inband |-> FALSE]>> ELSE <<>> IN
       net' = [net EXCEPT ![s] = Tail(@), ![Other(s)] = @ \o answer]

\* dect_cc_rcv_setup_ack up to the indication
RcvSetupAck(s) ==
    /\ Receives(s, "SETUP_ACK") /\ Indicate(s, "setup_ack") /\ UNCHANGED view
    /\ Set(s, StopIfRunning(call[s], {"setup"}))

\* dect_cc_rcv_call_proc up to the indication
RcvCallProc(s) ==
    /\ Receives(s, "CALL_PROC") /\ Indicate(s, "call_proc") /\ UNCHANGED view
    /\ Set(s, Connected(Start(StopIfRunning(call[s], {"setup"}), "completion"), Inband(s)))

\* dect_cc_rcv_alerting up to the indication
RcvAlerting(s) ==
    /\ Receives(s, "ALERTING") /\ Indicate(s, "alert") /\ UNCHANGED view
    /\ LET c == StopIfRunning(call[s], {"setup"}) IN
       Set(s, IF s = "FP" THEN Start(c, "completion") ELSE Connected(c, Inband(s)))

\* Mutant: a PP waits for an acknowledgement that no one sends.
RcvConnectNotActive(s) ==
    /\ Receives(s, "CONNECT") /\ NoIndication
    /\ Set(s, StopIfRunning(call[s], {"setup", "completion"}))
    /\ See(s, IF view[s] = "calling" THEN "answered" ELSE view[s])

\* Mutant: only CC.03 is stopped.
RcvConnectKeepsCompletion(s) ==
    /\ Receives(s, "CONNECT") /\ NoIndication
    /\ LET c == StopIfRunning(call[s], {"setup"}) IN
       Set(s, IF s = "PP" THEN InState(c, "ACTIVE") ELSE c)
    /\ See(s, IF view[s] = "calling" THEN "answered" ELSE view[s])

\* dect_cc_rcv_connect
RcvConnect(s) ==
    /\ Receives(s, "CONNECT") /\ NoIndication
    /\ LET c == StopIfRunning(call[s], {"setup", "completion"}) IN
       Set(s, IF s = "PP" THEN InState(c, "ACTIVE") ELSE c)
    /\ See(s, IF view[s] = "calling" THEN "answered" ELSE view[s])

\* dect_cc_rcv_connect_ack
RcvConnectAck(s) ==
    /\ Receives(s, "CONNECT_ACK") /\ NoIndication
    /\ Set(s, IF s = "PP" THEN InState(Stop(call[s], "connect"), "ACTIVE") ELSE call[s])
    /\ See(s, IF view[s] = "connecting" THEN "active" ELSE view[s])

\* dect_cc_rcv_info up to the indication
RcvInfo(s) ==
    /\ Receives(s, "INFO") /\ Indicate(s, "info") /\ UNCHANGED view
    /\ Set(s, Connected(call[s], Inband(s)))

\* The rest of these handlers, when the application has returned: they write or
\* read the state of the call without asking whether it still exists.
Continued(s, c) ==
    CASE indication[s] = "setup_ack" -> InState(c, "OVERLAP_SENDING")
      [] indication[s] = "call_proc" -> InState(c, "CALL_PROCEEDING")
      [] indication[s] = "alert"     -> InState(c, IF s = "FP" THEN "CALL_RECEIVED" ELSE "CALL_DELIVERED")
      [] indication[s] = "info"      -> IF s = "FP" /\ c.state = "OVERLAP_SENDING"
                                        THEN Start(c, "overlap_sending") ELSE c

Return(s) ==
    /\ Running /\ UNCHANGED <<net, view, up, infos>>
    /\ indication[s] # "none" /\ Indicate(s, "none")
    /\ Set(s, IF Open(s) THEN Continued(s, call[s])
              ELSE IF indication[s] = "info" /\ s = "PP" THEN call[s]
              ELSE [call[s] EXCEPT !.crash = "stale"])

\* Mutant: a collision is confirmed, but the call not shut down.
RcvReleaseNoShutdown(s) ==
    /\ Receives(s, "RELEASE") /\ NoIndication
    /\ IF call[s].state = "RELEASE_PENDING"
       THEN Set(s, Stop(call[s], "release")) /\ See(s, "gone")
       ELSE UNCHANGED call /\ See(s, "released")

\* dect_cc_rcv_release: a release collision ends the call, otherwise the
\* application is asked to answer.
RcvRelease(s) ==
    /\ Receives(s, "RELEASE") /\ NoIndication
    /\ IF call[s].state = "RELEASE_PENDING"
       THEN Set(s, Shutdown(Stop(call[s], "release"))) /\ See(s, "gone")
       ELSE UNCHANGED call /\ See(s, "released")

\* dect_cc_rcv_release_com
RcvReleaseCom(s) ==
    /\ Receives(s, "RELEASE_COM") /\ NoIndication
    /\ IF call[s].state = "RELEASE_PENDING"
       THEN Set(s, Shutdown(Stop(StopTimers(call[s]), "release"))) /\ See(s, "gone")
       ELSE Set(s, StopTimers(call[s])) /\ See(s, "released")

-----------------------------------------------------------------------------
(* Timers and the link *)

Expires(s, t) ==
    Handles(s) /\ NoIndication /\ Open(s) /\ t \in call[s].timers

\* CC.01, CC.04, CC.05: dect_cc_timer_release
TimerRelease(s, t) ==
    /\ Expires(s, t)
    /\ Sends(s, "RELEASE", FALSE)
    /\ Set(s, InState(Start(StopTimers(call[s]), "release"), "RELEASE_PENDING"))
    /\ See(s, "releasing")

\* CC.03
SetupTimeout(s) ==
    /\ Expires(s, "setup")
    /\ Sends(s, "RELEASE_COM", FALSE)
    /\ Set(s, Destroy(call[s])) /\ See(s, "gone")

\* CC.02
ReleaseTimeout(s) ==
    /\ Expires(s, "release")
    /\ Sends(s, "RELEASE_COM", FALSE)
    /\ Set(s, Shutdown(call[s])) /\ See(s, "gone")

\* The LCE shuts the transactions of a failed link down: dect_cc_shutdown.
LinkFails(s) ==
    /\ Running /\ MayFail /\ up[s] /\ indication[s] = "none"
    /\ up' = [up EXCEPT ![s] = FALSE]
    /\ net' = [net EXCEPT ![s] = <<>>]
    /\ IF Open(s) THEN Set(s, Shutdown(StopTimers(call[s]))) /\ See(s, "gone")
                  ELSE UNCHANGED <<call, view>>
    /\ UNCHANGED <<indication, infos>>

-----------------------------------------------------------------------------
Request(s) ==
    \/ SetupReq(s) \/ SetupAckReq(s) \/ CallProcReq(s) \/ AlertReq(s)
    \/ ConnectReq(s) \/ ConnectRes(s) \/ InfoReq(s)
    \/ RejectReq(s) \/ ReleaseReq(s) \/ ReleaseRes(s)

Receive(s) ==
    \/ RcvSetup(s) \/ RcvUnknown(s) \/ RcvSetupAck(s) \/ RcvCallProc(s)
    \/ RcvAlerting(s) \/ RcvConnect(s) \/ RcvConnectAck(s) \/ RcvInfo(s)
    \/ RcvRelease(s) \/ RcvReleaseCom(s)

Timeout(s) ==
    \/ \E t \in {"overlap_sending", "completion", "connect"} : TimerRelease(s, t)
    \/ SetupTimeout(s)
    \/ ReleaseTimeout(s)

Next ==
    /\ UNCHANGED caller
    /\ \E s \in Side : Request(s) \/ Receive(s) \/ Return(s) \/ Timeout(s) \/ LinkFails(s)

Spec == Init /\ [][Next]_vars

\* Messages are read, applications return, timers expire, and a failed link is
\* reported on both sides; an application answers MNCC_RELEASE-ind, which it
\* must, as no timer runs for it.
Fairness ==
    \A s \in Side :
        /\ WF_vars(Receive(s) /\ UNCHANGED caller)
        /\ WF_vars(Return(s) /\ UNCHANGED caller)
        /\ WF_vars(ReleaseRes(s) /\ UNCHANGED caller)
        /\ \A t \in {"overlap_sending", "completion", "connect"} :
                WF_vars(TimerRelease(s, t) /\ UNCHANGED caller)
        /\ WF_vars(SetupTimeout(s) /\ UNCHANGED caller)
        /\ WF_vars(ReleaseTimeout(s) /\ UNCHANGED caller)
        /\ WF_vars(LinkFails(s) /\ ~ up[Other(s)] /\ UNCHANGED caller)

FairSpec == Spec /\ Fairness

-----------------------------------------------------------------------------
(* Properties *)

\* Types of the two ends of a call and of what is between them.
TypeOK ==
    /\ caller \in Callers
    /\ call \in [Side -> Call]
    /\ net \in [Side -> Seq(Message)]
    /\ view \in [Side -> View]
    /\ indication \in [Side -> {"none", "setup_ack", "call_proc", "alert", "info"}]
    /\ up \in [Side -> BOOLEAN]
    /\ infos \in [Side -> 0 .. MaxInfo]

\* Nothing is on its way and no handler or link failure is outstanding.
Quiet == Running /\ \A s \in Side : net[s] = <<>> /\ indication[s] = "none" /\ up[s]

\* Something will still happen to the call of s without its application: a
\* timer runs, or MNCC_RELEASE-ind has to be answered.
Awaited(s) == Open(s) /\ (call[s].timers # {} \/ view[s] = "released")

\* A call that is not active on both sides never rests with no timer running on
\* either side and nobody obliged to act: every state of cc.c that waits for
\* the peer is covered by a timer here or there, whatever crossed before.
NoHang ==
    Quiet /\ (\E s \in Side : Open(s) /\ call[s].state # "ACTIVE") =>
        \E s \in Side : Awaited(s)

\* There is no half-open call: when one side is ACTIVE and nothing is on its
\* way, the other side is ACTIVE as well, or one of them is about to release.
NoHalfOpen ==
    Quiet =>
        \A s \in Side : call[s].state = "ACTIVE" =>
            call[Other(s)].state = "ACTIVE" \/ Awaited(s) \/ Awaited(Other(s))

\* No timer of the setup is left running in an active call, where it would
\* release it later.  This is so for calls from the PP: RcvConnect and ConnectReq
\* of the FP stop what was started.  A called PP that has sent CALL-PROC or
\* ALERTING keeps CC.04 in the active call, which is released when it expires.
ActiveCallLasts ==
    caller = "PP" /\ Running =>
        \A s \in Side : call[s].state = "ACTIVE" => call[s].timers \subseteq {"release"}

\* The U-plane does not outlive the call, whose memory its events refer to.
UplaneClosed ==
    \A s \in Side : call[s].state = "DESTROYED" => ~ call[s].lu_sap

\* An MNCC_RELEASE-req, or the expiry of a CC timer, ends the call on this side
\* whatever the peer and the link do (CC.02).
ReleaseEnds ==
    \A s \in Side : "release" \in call[s].timers ~> (call[s].state = "DESTROYED" \/ ~ Running)

\* A call that one side has set up is eventually active or gone, on both sides.
Settled(s) == call[s].state \in {"NULL", "ACTIVE", "DESTROYED"} \/ ~ Running

SetupEnds == \A s \in Side : ~ Settled(s) ~> Settled(s)

-----------------------------------------------------------------------------
(* What comments and assertions say, and the code does not do *)

\* "dect_assert(timer->state == DECT_TIMER_RUNNING)" in dect_timer_stop
TimerAssertion == \A s \in Side : call[s].crash # "timer"
=============================================================================
