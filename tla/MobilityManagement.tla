------------------------- MODULE MobilityManagement -------------------------
(***************************************************************************)
(* Mobility Management of libdect (src/src/mm.c): the MM endpoints of the    *)
(* fixed part "FP" and of the portable part "PP" on one data link, each an   *)
(* instance of the library with an application on top.                       *)
(*                                                                           *)
(* An endpoint runs one procedure that it initiated and one that it answers; *)
(* the more urgent of them is the current one.  Nearly every handler works   *)
(* on the current procedure, whichever procedure the event was for: timers,  *)
(* answers and the failure of the link may reach the endpoint while the      *)
(* other one is current, or none.                                            *)
(***************************************************************************)
EXTENDS Naturals, Sequences

CONSTANTS
    Requests,     \* [Side -> procedures its application requests]
    Assigns,      \* identities an accepted location registration may assign
    Faulty,       \* sides whose application fills messages wrongly
    MayFail,      \* may the data link fail?
    MaxRequests   \* bound: requests of the two applications

Side == {"FP", "PP"}

Role == {"INITIATOR", "RESPONDER"}

Procedure ==
    {"ACCESS_RIGHTS", "ACCESS_RIGHTS_TERMINATE", "AUTHENTICATE", "KEY_ALLOCATION",
     "LOCATION_REGISTRATION", "TEMPORARY_IDENTITY_ASSIGNMENT", "IDENTIFICATION",
     "CIPHER", "PARAMETER_RETRIEVAL", "DETACH", "IWU"}

\* the new identity in a LOCATE-ACCEPT: none, a TPUI, or a network assigned one
Assignment == {"none", "tpui", "nwk"}

ASSUME MobilityManagementAssumption ==
    /\ Requests \in [Side -> SUBSET Procedure]
    /\ Assigns \subseteq Assignment /\ Faulty \subseteq Side
    /\ MayFail \in BOOLEAN /\ MaxRequests \in Nat

VARIABLES
    mme,   \* [Side -> its MM endpoint]
    net,   \* [Side -> messages on their way to it]
    app,   \* [Side -> what its application waits for and owes]
    up     \* [Side -> has the LCE not reported a link failure?]

vars == <<mme, net, app, up>>

Other(s) == IF s = "FP" THEN "PP" ELSE "FP"

Opposite(r) == IF r = "INITIATOR" THEN "RESPONDER" ELSE "INITIATOR"

\* dect_mm_proc: the priority of a procedure initiated by a side, 0 if it may
\* not initiate it; a lower number is more urgent.
FixedOnly == {"KEY_ALLOCATION", "TEMPORARY_IDENTITY_ASSIGNMENT", "IDENTIFICATION"}
PortableOnly == {"ACCESS_RIGHTS", "LOCATION_REGISTRATION", "DETACH"}

Priority(s, p) ==
    CASE p = "IWU" -> 0
      [] s = "FP" -> IF p \in PortableOnly THEN 0 ELSE 2
      [] s = "PP" /\ p \in FixedOnly -> 0
      [] s = "PP" /\ p = "AUTHENTICATE" -> 1
      [] OTHER -> 3

Message ==
    [kind : {"request", "accept", "reject", "encrypted"}, proc : Procedure,
     role : Role,              \* of the sender, by the F flag
     assign : Assignment, valid : BOOLEAN]

NoMessage == [kind |-> "none"]

\* struct dect_mm_procedure; iec is the request or the assignment it keeps.
Slot ==
    [type : Procedure \cup {"NONE"}, priority : 0 .. 3,
     iec : {"none", "request", "tpui", "nwk"}]

FreeSlot == [type |-> "NONE", priority |-> 0, iec |-> "none"]

\* A transaction is on the list of the link at most once.
Transactions ==
    {<<>>, <<"INITIATOR", "RESPONDER">>, <<"RESPONDER", "INITIATOR">>}
        \cup {<<r>> : r \in Role}

\* struct dect_mm_endpoint.  Only the initiated procedure has a timer and
\* something to retransmit.  retransmitted is never reset.
Endpoint ==
    [slot : [Role -> Slot],
     current : Role \cup {"NONE"},
     open : Transactions,                     \* of the link, in its order
     timer : BOOLEAN, retransmitted : BOOLEAN,
     mb : Message \cup {NoMessage},
     crash : {"no", "null", "list", "closed", "assert"}]

NewEndpoint ==
    [slot |-> [r \in Role |-> FreeSlot], current |-> "NONE", open |-> <<>>,
     timer |-> FALSE, retransmitted |-> FALSE, mb |-> NoMessage, crash |-> "no"]

\* The process dies: by a NULL pointer, a list entry deleted or inserted twice,
\* a message on a closed transaction, or an assertion.
Crash(why) == [NewEndpoint EXCEPT !.crash = why]

Running == \A s \in Side : mme[s].crash = "no"

Busy(e, r) == e.slot[r].type # "NONE"

IsOpen(e, r) == \E i \in DOMAIN e.open : e.open[i] = r

-----------------------------------------------------------------------------
(* Procedures of an endpoint *)

\* Mutant: priorities are not compared.
AdmitsAny(e, priority) == priority > 0

\* "Higher priority procedure active"
Admits(e, priority) ==
    /\ priority > 0
    /\ e.current \in Role => e.slot[e.current].priority > priority

\* dect_mm_procedure_initiate, in its conditions
MayInitiate(s, e, p) ==
    /\ Admits(e, Priority(s, p))
    /\ Busy(e, "INITIATOR") \/ ~ IsOpen(e, "INITIATOR")

\* Mutant: a transaction is opened although a busy slot has one.
InitiateOpens(s, e, p) ==
    [e EXCEPT !.slot["INITIATOR"] = [type |-> p, priority |-> Priority(s, p), iec |-> "none"],
              !.open    = <<"INITIATOR">> \o @,
              !.timer   = p # "DETACH",
              !.current = "INITIATOR"]

\* dect_mm_procedure_initiate: a busy slot is taken over with its transaction.
Initiate(s, e, p) ==
    [e EXCEPT !.slot["INITIATOR"] = [type |-> p, priority |-> Priority(s, p), iec |-> "none"],
              !.open    = IF Busy(e, "INITIATOR") THEN @ ELSE <<"INITIATOR">> \o @,
              !.timer   = p # "DETACH",
              !.current = "INITIATOR"]

\* dect_mm_procedure_respond, in its conditions, at side s
MayRespond(s, e, p) == Admits(e, Priority(Other(s), p)) /\ ~ Busy(e, "RESPONDER")

\* Mutant: the procedure does not become the current one.
RespondNotCurrent(s, e, p) ==
    [e EXCEPT !.slot["RESPONDER"] = [type |-> p, priority |-> Priority(Other(s), p), iec |-> "none"]]

Respond(s, e, p) ==
    [e EXCEPT !.slot["RESPONDER"] = [type |-> p, priority |-> Priority(Other(s), p), iec |-> "none"],
              !.current = "RESPONDER"]

\* Mutant: the transaction is left on the link.
CompleteLeavesOpen(e) ==
    LET r == e.current IN
    IF e.crash # "no" THEN e
    ELSE IF r = "NONE" THEN Crash("null")
    ELSE [e EXCEPT !.slot[r] = FreeSlot,
                   !.timer   = @ /\ r # "INITIATOR",
                   !.current = IF Busy(e, Opposite(r)) THEN Opposite(r) ELSE "NONE"]

\* dect_mm_procedure_complete, with dect_transaction_close
Complete(e) ==
    LET r == e.current IN
    IF e.crash # "no" THEN e
    ELSE IF r = "NONE" THEN Crash("null")
    ELSE IF ~ IsOpen(e, r) THEN Crash("list")
    ELSE [e EXCEPT !.slot[r] = FreeSlot,
                   !.open    = IF IsOpen(e, Opposite(r)) THEN <<Opposite(r)>> ELSE <<>>,
                   !.timer   = @ /\ r # "INITIATOR",
                   !.mb      = IF r = "INITIATOR" THEN NoMessage ELSE @,
                   !.current = IF Busy(e, Opposite(r)) THEN Opposite(r) ELSE "NONE"]

\* dect_mm_send_msg: the endpoint after sending m on the current transaction
Sent(e, m) ==
    IF e.current = "NONE" THEN Crash("null")
    ELSE IF ~ IsOpen(e, e.current) THEN Crash("closed")
    ELSE [e EXCEPT !.mb = IF e.current = "INITIATOR" THEN m ELSE @]

Msg(e, kind, p, assign, valid) ==
    [kind |-> kind, proc |-> p, role |-> e.current, assign |-> assign, valid |-> valid]

\* the network after s has put m on the link
Delivered(s, m) ==
    IF up[Other(s)] THEN [net EXCEPT ![Other(s)] = Append(@, m)] ELSE net

\* what may be wrong with a message of s
Validity(s) == IF s \in Faulty THEN BOOLEAN ELSE {TRUE}

-----------------------------------------------------------------------------
(* The application's account: what it has asked for and not been told the     *)
(* end of (by the name of the confirmation), which indications it has yet to  *)
(* answer, and whether it was told the end of something it never asked.       *)

Account ==
    [asked : SUBSET Procedure, owes : SUBSET Procedure,
     stray : BOOLEAN, requests : Nat]

\* Key allocation is confirmed by MM_AUTHENTICATE-cfm.
Confirmation(p) == IF p = "KEY_ALLOCATION" THEN "AUTHENTICATE" ELSE p

Asks(a, p) == [a EXCEPT !.asked = @ \cup {Confirmation(p)}]

Confirmed(a, p) ==
    [a EXCEPT !.asked = @ \ {Confirmation(p)},
              !.stray = @ \/ Confirmation(p) \notin a.asked]

Indicated(a, p) == [a EXCEPT !.owes = @ \cup {p}]

Answered(a, p) == [a EXCEPT !.owes = @ \ {p}]

Set(s, e, a) == mme' = [mme EXCEPT ![s] = e] /\ app' = [app EXCEPT ![s] = a]

Init ==
    /\ mme = [s \in Side |-> NewEndpoint]
    /\ net = [s \in Side |-> <<>>]
    /\ app = [s \in Side |-> [asked |-> {}, owes |-> {}, stray |-> FALSE, requests |-> 0]]
    /\ up = [s \in Side |-> TRUE]

-----------------------------------------------------------------------------
(* Requests of the application *)

\* A refused request changes nothing, so only those accepted are steps.
Wishes(s, p) ==
    /\ Running /\ up[s] /\ UNCHANGED up
    /\ p \in Requests[s]
    /\ app["FP"].requests + app["PP"].requests < MaxRequests

Counted(a) == [a EXCEPT !.requests = @ + 1]

\* the account after dect_mm_procedure_initiate has aborted what was running
Aborted(s) ==
    LET e == mme[s] IN
    IF Busy(e, "INITIATOR") THEN Confirmed(Counted(app[s]), e.slot["INITIATOR"].type)
    ELSE Counted(app[s])

\* Procedure p is initiated, its message sent, and the procedure ended or not.
Initiates(s, p, ended, a) ==
    /\ MayInitiate(s, mme[s], p)
    /\ LET e == Initiate(s, mme[s], p) IN
       \E valid \in Validity(s) :
          LET m == Msg(e, "request", p, "none", valid) IN
          net' = Delivered(s, m) /\ Set(s, IF ended THEN Complete(Sent(e, m)) ELSE Sent(e, m), a)

\* A message that cannot be built cancels the procedure.
Cancels(s, p) ==
    /\ s \in Faulty /\ MayInitiate(s, mme[s], p)
    /\ Set(s, Complete(Initiate(s, mme[s], p)), Aborted(s)) /\ UNCHANGED net

\* a request that the peer answers
Request(s, p) ==
    /\ Wishes(s, p)
    /\ Initiates(s, p, FALSE, Asks(Aborted(s), p)) \/ Cancels(s, p)

\* a request whose procedure ends with its message
Notice(s, p) ==
    /\ Wishes(s, p)
    /\ Initiates(s, p, TRUE, Aborted(s)) \/ Cancels(s, p)

KeyAllocateReq(s)        == Request(s, "KEY_ALLOCATION")
CipherReq(s)             == Request(s, "CIPHER")
AccessRightsReq(s)       == Request(s, "ACCESS_RIGHTS")
AccessRightsTerminateReq(s) == Request(s, "ACCESS_RIGHTS_TERMINATE")
LocateReq(s)             == Request(s, "LOCATION_REGISTRATION")
DetachReq(s)             == Notice(s, "DETACH")
IdentityReq(s)           == Request(s, "IDENTIFICATION")
IdentityAssignReq(s)     == Request(s, "TEMPORARY_IDENTITY_ASSIGNMENT")

\* MM_INFO-req: the base station only suggests, to which there is no answer.
InfoReq(s) ==
    /\ ~ Busy(mme[s], "INITIATOR")
    /\ IF s = "FP" THEN Notice(s, "PARAMETER_RETRIEVAL") ELSE Request(s, "PARAMETER_RETRIEVAL")

\* MM_AUTHENTICATE-req; in answer to a key allocation no procedure is initiated.
AuthenticateReq(s) ==
    \/ /\ mme[s].slot["RESPONDER"].type # "KEY_ALLOCATION"
       /\ Request(s, "AUTHENTICATE")
    \/ /\ Running /\ up[s] /\ UNCHANGED up
       /\ "KEY_ALLOCATION" \in app[s].owes /\ app[s].asked = {}
       /\ mme[s].slot["RESPONDER"].type = "KEY_ALLOCATION"
       /\ LET m == Msg(mme[s], "request", "AUTHENTICATE", "none", TRUE)
              a == Answered(app[s], "KEY_ALLOCATION") IN
          \/ net' = Delivered(s, m) /\ Set(s, Sent(mme[s], m), Asks(a, "AUTHENTICATE"))
          \/ s \in Faulty /\ UNCHANGED net /\ Set(s, Complete(mme[s]), a)

\* MM_IWU-req: a transaction of its own, but the message goes to the current
\* one.  No side accepts the message.
IwuReq(s) ==
    /\ Wishes(s, "IWU") /\ UNCHANGED net
    /\ ~ Busy(mme[s], "INITIATOR") /\ ~ IsOpen(mme[s], "INITIATOR")
    /\ Set(s, IF mme[s].current = "NONE" THEN Crash("null") ELSE mme[s], Counted(app[s]))

-----------------------------------------------------------------------------
(* Responses of the application, which answers when its own requests have     *)
(* ended, like example/fp-mm.c, and does not learn that the link has failed.  *)

Answers(s, p) ==
    /\ Running /\ UNCHANGED up
    /\ p \in app[s].owes /\ app[s].asked = {}

\* the response is one to the current procedure
Fits(e, types) == e.current \in Role /\ e.slot[e.current].type \in types

\* the answer of a faulty application may fail to be built
SendsAnswer(s, m) ==
    \/ net' = Delivered(s, m)
    \/ s \in Faulty /\ UNCHANGED net

\* "if (mp->type != ...) return", with mp the current procedure
Ignores(s, p, types) ==
    /\ Answers(s, p) /\ ~ Fits(mme[s], types) /\ UNCHANGED net
    /\ Set(s, IF mme[s].current = "NONE" THEN Crash("null") ELSE mme[s], Answered(app[s], p))

Rejects(s, p, types) ==
    /\ Answers(s, p) /\ Fits(mme[s], types)
    /\ LET m == Msg(mme[s], "reject", p, "none", TRUE) IN
       SendsAnswer(s, m) /\ Set(s, Complete(Sent(mme[s], m)), Answered(app[s], p))

Accepts(s, p, types) ==
    /\ Answers(s, p) /\ Fits(mme[s], types)
    /\ \E valid \in Validity(s) :
         LET m == Msg(mme[s], "accept", p, "none", valid) IN
         SendsAnswer(s, m) /\ Set(s, Complete(Sent(mme[s], m)), Answered(app[s], p))

Response(s, p, types) == Accepts(s, p, types) \/ Rejects(s, p, types) \/ Ignores(s, p, types)

AuthenticateRes(s)  == Response(s, "AUTHENTICATE", {"AUTHENTICATE", "KEY_ALLOCATION"})
AccessRightsRes(s)  == Response(s, "ACCESS_RIGHTS", {"ACCESS_RIGHTS"})
AccessRightsTerminateRes(s) == Response(s, "ACCESS_RIGHTS_TERMINATE", {"ACCESS_RIGHTS_TERMINATE"})

\* There is no rejection of an identity request.
IdentityRes(s) ==
    Accepts(s, "IDENTIFICATION", {"IDENTIFICATION"}) \/ Ignores(s, "IDENTIFICATION", {"IDENTIFICATION"})

\* MM_INFO-res is the one that asks whether there is a current procedure.
InfoRes(s) ==
    LET p == "PARAMETER_RETRIEVAL" IN
    \/ Accepts(s, p, {p}) \/ Rejects(s, p, {p})
    \/ /\ Answers(s, p) /\ ~ Fits(mme[s], {p}) /\ UNCHANGED net
       /\ Set(s, mme[s], Answered(app[s], p))

\* MM_CIPHER-res: the MAC layer enables ciphering, which the peer is told.
CipherRes(s) ==
    LET p == "CIPHER" IN
    \/ Rejects(s, p, {p}) \/ Ignores(s, p, {p})
    \/ /\ Answers(s, p) /\ Fits(mme[s], {p})
       /\ SendsAnswer(s, Msg(mme[s], "encrypted", p, "none", TRUE))
       /\ Set(s, Complete(mme[s]), Answered(app[s], p))

\* MM_LOCATE-res: assigning an identity turns the procedure into an assignment.
LocateRes(s) ==
    LET p == "LOCATION_REGISTRATION"
        e == mme[s]
        a == Answered(app[s], p) IN
    \/ Rejects(s, p, {p}) \/ Ignores(s, p, {p})
    \/ /\ Answers(s, p) /\ Fits(e, {p})
       /\ \E assign \in Assigns :
            LET m == Msg(e, "accept", p, assign, TRUE) IN
            /\ net' = Delivered(s, m)
            /\ IF assign = "none" THEN Set(s, Complete(Sent(e, m)), a)
               ELSE Set(s, [Sent(e, m) EXCEPT
                              !.slot[e.current].type = "TEMPORARY_IDENTITY_ASSIGNMENT"],
                        Asks(a, "TEMPORARY_IDENTITY_ASSIGNMENT"))
    \/ /\ Answers(s, p) /\ Fits(e, {p}) /\ s \in Faulty
       /\ Set(s, Complete(e), a) /\ UNCHANGED net

\* MM_IDENTITY_ASSIGN-res: the identity is taken from the LOCATE-ACCEPT.
IdentityAssignRes(s) ==
    LET p == "TEMPORARY_IDENTITY_ASSIGNMENT"
        e == mme[s] IN
    \/ Rejects(s, p, {p}) \/ Ignores(s, p, {p})
    \/ Fits(e, {p}) /\ e.slot[e.current].iec = "tpui" /\ Accepts(s, p, {p})
    \/ /\ Answers(s, p) /\ Fits(e, {p}) /\ e.slot[e.current].iec # "tpui"
       /\ Set(s, Crash(IF e.slot[e.current].iec = "nwk" THEN "assert" ELSE "null"), app[s])
       /\ UNCHANGED net

-----------------------------------------------------------------------------
(* Messages that request something *)

Handles(s) == Running /\ up[s] /\ UNCHANGED up

Receives(s) == Handles(s) /\ net[s] # <<>>

Consumed(s) == net' = [net EXCEPT ![s] = Tail(@)]

\* dect_ddl_transaction_lookup: is the transaction of the message known?
Known(s) == IsOpen(mme[s], Opposite(Head(net[s]).role))

\* Mutant: the transaction is not confirmed.
OpenedUnconfirmed(s) == mme[s]

\* dect_mm_open confirms an unknown transaction of any request as the one of the
\* responder, before the procedure is accepted.
Opened(s) ==
    IF Known(s) THEN mme[s]
    ELSE IF IsOpen(mme[s], "RESPONDER") THEN Crash("list")
    ELSE [mme[s] EXCEPT !.open = <<"RESPONDER">> \o @]

\* requests that dect_mm_rcv takes on a known transaction
OnKnown == {"AUTHENTICATE", "CIPHER"}

\* The head of net[s] requests procedure p and is dispatched to its handler.
ReceivesRequest(s, p) ==
    /\ Receives(s) /\ Head(net[s]).kind = "request" /\ Head(net[s]).proc = p
    /\ Known(s) => p \in OnKnown

\* The procedure is not taken, but its transaction stays.
Refused(s, p) ==
    /\ ReceivesRequest(s, p) /\ Opened(s).crash = "no" /\ ~ MayRespond(s, Opened(s), p)
    /\ Consumed(s) /\ Set(s, Opened(s), app[s])

\* The procedure is taken if the message is (in)valid.
Taken(s, p, valid) ==
    /\ ReceivesRequest(s, p) /\ Opened(s).crash = "no" /\ MayRespond(s, Opened(s), p)
    /\ Head(net[s]).valid = valid

\* taken and indicated, with the contents kept until the procedure ends or not
Indicates(s, p, iec) ==
    /\ Taken(s, p, TRUE) /\ Consumed(s)
    /\ Set(s, [Respond(s, Opened(s), p) EXCEPT !.slot["RESPONDER"].iec = iec], Indicated(app[s], p))

\* A message that cannot be parsed is rejected.
RejectsRequest(s, p) ==
    /\ Taken(s, p, FALSE)
    /\ LET e == Respond(s, Opened(s), p)
           m == Msg(e, "reject", p, "none", TRUE) IN
       /\ net' = [Delivered(s, m) EXCEPT ![s] = Tail(@)]
       /\ Set(s, Complete(Sent(e, m)), app[s])

\* Others, and contents that cannot be used, end the procedure in silence.
DropsRequest(s, p) ==
    /\ Taken(s, p, FALSE) /\ Consumed(s)
    /\ Set(s, Complete(Respond(s, Opened(s), p)), app[s])

RcvRequest(s, p, iec) == Refused(s, p) \/ Indicates(s, p, iec)

RcvKeyAllocate(s) ==
    RcvRequest(s, "KEY_ALLOCATION", "none") \/ DropsRequest(s, "KEY_ALLOCATION")

RcvIdentityRequest(s) ==
    RcvRequest(s, "IDENTIFICATION", "none") \/ DropsRequest(s, "IDENTIFICATION")

RcvCipherSuggest(s) ==
    s = "FP" /\ (RcvRequest(s, "CIPHER", "none") \/ DropsRequest(s, "CIPHER"))

RcvCipherRequest(s) ==
    s = "PP" /\ (RcvRequest(s, "CIPHER", "none") \/ RejectsRequest(s, "CIPHER"))

\* a request that can be unparsable or carry another identity than an IPUI
RcvIdentifiedRequest(s, p, iec) ==
    RcvRequest(s, p, iec) \/ RejectsRequest(s, p) \/ DropsRequest(s, p)

RcvAccessRightsRequest(s) == RcvIdentifiedRequest(s, "ACCESS_RIGHTS", "request")
RcvAccessRightsTerminateRequest(s) == RcvIdentifiedRequest(s, "ACCESS_RIGHTS_TERMINATE", "none")
RcvLocateRequest(s) == RcvIdentifiedRequest(s, "LOCATION_REGISTRATION", "request")
RcvTemporaryIdentityAssign(s) == RcvIdentifiedRequest(s, "TEMPORARY_IDENTITY_ASSIGNMENT", "none")
RcvInfoRequest(s) == s = "FP" /\ RcvIdentifiedRequest(s, "PARAMETER_RETRIEVAL", "none")

\* An AUTHENTICATION-REQUEST that answers a key allocation ends the wait for it
\* and starts no procedure; a rejection does not end the procedure.  If that of
\* the key allocation is over, its transaction is opened as one of the responder,
\* which may be on the list already.
RcvAuthenticationRequest(s) ==
    LET p == "AUTHENTICATE"
        own == Opened(s).slot["INITIATOR"].type = "KEY_ALLOCATION"
        e == IF own THEN Opened(s) ELSE Respond(s, Opened(s), p)
        m == Msg(e, "reject", p, "none", TRUE) IN
    /\ ReceivesRequest(s, p)
    /\ \/ Opened(s).crash # "no" /\ Consumed(s) /\ Set(s, Opened(s), app[s])
       \/ ~ own /\ Refused(s, p)
       \/ ~ own /\ Indicates(s, p, "none")
       \/ /\ own /\ Opened(s).crash = "no" /\ Head(net[s]).valid /\ Consumed(s)
          /\ Set(s, e, Indicated([app[s] EXCEPT !.asked = @ \ {p}], p))
       \/ /\ own \/ Taken(s, p, FALSE)
          /\ ~ Head(net[s]).valid
          /\ net' = [Delivered(s, m) EXCEPT ![s] = Tail(@)]
          /\ Set(s, Sent(e, m), app[s])

\* dect_mm_rcv_detach completes the procedure twice.
RcvDetach(s) ==
    \/ Refused(s, "DETACH") \/ DropsRequest(s, "DETACH")
    \/ /\ Taken(s, "DETACH", TRUE) /\ Consumed(s)
       /\ Set(s, Complete(Complete(Respond(s, Opened(s), "DETACH"))), app[s])

\* dect_mm_rcv_info_suggest: no procedure is entered, and the current one ends.
RcvInfoSuggest(s) ==
    /\ s = "PP" /\ ReceivesRequest(s, "PARAMETER_RETRIEVAL") /\ Consumed(s)
    /\ LET e == Opened(s) IN
       IF e.crash = "no" /\ ~ Busy(e, "RESPONDER") /\ Head(net[s]).valid /\ e.current # "NONE"
       THEN Set(s, Complete(e), app[s])
       ELSE Set(s, e, app[s])

\* messages that dect_mm_rcv or dect_mm_open do not dispatch
RcvIgnored(s) ==
    /\ Receives(s) /\ Consumed(s) /\ UNCHANGED <<mme, app>>
    /\ \/ Head(net[s]).kind = "request" /\ Known(s) /\ Head(net[s]).proc \notin OnKnown
       \/ Head(net[s]).kind \in {"accept", "reject"} /\ ~ Known(s)

-----------------------------------------------------------------------------
(* Messages that answer *)

ReceivesAnswer(s, p) ==
    /\ Receives(s) /\ Known(s)
    /\ Head(net[s]).kind \in {"accept", "reject"} /\ Head(net[s]).proc = p

\* If it is expected, the current procedure is completed, whichever that is.
RcvAnswer(s, p, expected) ==
    /\ ReceivesAnswer(s, p) /\ Consumed(s)
    /\ IF Head(net[s]).valid /\ expected
       THEN Set(s, Complete(mme[s]), Confirmed(app[s], p))
       ELSE UNCHANGED <<mme, app>>

Runs(s, r, p) == mme[s].slot[r].type = p

RcvAuthenticationAnswer(s) ==
    RcvAnswer(s, "AUTHENTICATE",
              Runs(s, "RESPONDER", "KEY_ALLOCATION") \/ Runs(s, "INITIATOR", "AUTHENTICATE"))

\* CIPHER-REJECT and ACCESS-RIGHTS-... do not look at the procedure.
RcvCipherReject(s) == RcvAnswer(s, "CIPHER", TRUE)
RcvAccessRightsAnswer(s) == RcvAnswer(s, "ACCESS_RIGHTS", TRUE)

RcvAccessRightsTerminateAnswer(s) ==
    RcvAnswer(s, "ACCESS_RIGHTS_TERMINATE", Runs(s, "INITIATOR", "ACCESS_RIGHTS_TERMINATE"))

\* Mutant: IDENTITY-REPLY does not look at the procedure either.
RcvIdentityReplyUnchecked(s) == RcvAnswer(s, "IDENTIFICATION", TRUE)

RcvIdentityReply(s) == RcvAnswer(s, "IDENTIFICATION", Runs(s, "INITIATOR", "IDENTIFICATION"))

RcvTemporaryIdentityAssignAnswer(s) ==
    RcvAnswer(s, "TEMPORARY_IDENTITY_ASSIGNMENT",
              Runs(s, "RESPONDER", "TEMPORARY_IDENTITY_ASSIGNMENT"))

RcvInfoAnswer(s) ==
    RcvAnswer(s, "PARAMETER_RETRIEVAL", Runs(s, "INITIATOR", "PARAMETER_RETRIEVAL"))

\* A new identity in LOCATE-ACCEPT has to be acknowledged.
RcvLocateAnswer(s) ==
    LET p == "LOCATION_REGISTRATION"
        assigned == Head(net[s]).assign # "none" IN
    \/ RcvAnswer(s, p, Runs(s, "INITIATOR", p)) /\ ~ (assigned /\ Runs(s, "INITIATOR", p))
    \/ /\ ReceivesAnswer(s, p) /\ Consumed(s)
       /\ assigned /\ Runs(s, "INITIATOR", p)
       /\ Set(s, [mme[s] EXCEPT !.slot["INITIATOR"].type = "TEMPORARY_IDENTITY_ASSIGNMENT",
                                !.slot["INITIATOR"].iec  = Head(net[s]).assign],
              Indicated(Confirmed(app[s], p), "TEMPORARY_IDENTITY_ASSIGNMENT"))

\* dect_mm_encrypt_ind for each transaction of the link.  Completing the
\* procedure of another one than that being visited breaks the walk of the list.
Encrypted(e, r) ==
    IF e.slot[r].type # "CIPHER" THEN e
    ELSE IF e.current # r /\ r = Head(e.open) THEN Crash("list")
    ELSE Complete(e)

AllEncrypted(e) ==
    CASE Len(e.open) = 0 -> e
      [] Len(e.open) = 1 -> Encrypted(e, e.open[1])
      [] Len(e.open) = 2 -> Encrypted(Encrypted(e, e.open[1]), e.open[2])

RcvEncrypted(s) ==
    /\ Receives(s) /\ Head(net[s]).kind = "encrypted" /\ Consumed(s)
    /\ LET e == AllEncrypted(mme[s]) IN
       Set(s, e, IF e = mme[s] THEN app[s] ELSE Confirmed(app[s], "CIPHER"))

-----------------------------------------------------------------------------
(* Timers and the link *)

\* Mutant: the timer is not started again.
RetransmitStops(s) ==
    /\ Handles(s) /\ mme[s].timer /\ ~ mme[s].retransmitted /\ UNCHANGED app
    /\ mme' = [mme EXCEPT ![s].retransmitted = TRUE, ![s].timer = FALSE]
    /\ net' = IF mme[s].mb = NoMessage THEN net ELSE Delivered(s, mme[s].mb)

\* Mutant: the application is not told.
GiveUpSilently(s) ==
    /\ Handles(s) /\ mme[s].timer /\ mme[s].retransmitted /\ UNCHANGED net
    /\ Set(s, Complete([mme[s] EXCEPT !.timer = FALSE]), app[s])

\* dect_mm_procedure_timeout: the first time in the life of the endpoint the
\* last message is sent again; otherwise the current procedure is completed, and
\* the one whose timer it was reported as ended.
Retransmit(s) ==
    /\ Handles(s) /\ mme[s].timer /\ ~ mme[s].retransmitted /\ UNCHANGED app
    /\ mme' = [mme EXCEPT ![s].retransmitted = TRUE]
    /\ net' = IF mme[s].mb = NoMessage THEN net ELSE Delivered(s, mme[s].mb)

GiveUp(s) ==
    /\ Handles(s) /\ mme[s].timer /\ mme[s].retransmitted /\ UNCHANGED net
    /\ Set(s, Complete([mme[s] EXCEPT !.timer = FALSE]),
           Confirmed(app[s], mme[s].slot["INITIATOR"].type))

\* dect_mm_shutdown for a transaction in the walk of dect_ddl_shutdown: what is
\* completed is the current procedure; only an initiated one is reported.
ShutdownOne(e, r) ==
    IF e.crash # "no" THEN e
    ELSE IF e.current = "NONE" THEN Crash("null")
    ELSE IF e.current # r THEN Crash("list")
    ELSE Complete(e)

ShutdownAll(e) ==
    CASE Len(e.open) = 0 -> e
      [] Len(e.open) = 1 -> ShutdownOne(e, e.open[1])
      [] Len(e.open) = 2 -> ShutdownOne(ShutdownOne(e, e.open[1]), e.open[2])

\* The LCE shuts the transactions of a failed link down, one by one.
LinkFails(s) ==
    /\ Running /\ MayFail /\ up[s]
    /\ up' = [up EXCEPT ![s] = FALSE]
    /\ net' = [net EXCEPT ![s] = <<>>]
    /\ LET e == ShutdownAll(mme[s]) IN
       Set(s, e, IF e.crash = "no" /\ Busy(mme[s], "INITIATOR")
                 THEN Confirmed(app[s], mme[s].slot["INITIATOR"].type) ELSE app[s])

-----------------------------------------------------------------------------
Requesting(s) ==
    \/ KeyAllocateReq(s) \/ AuthenticateReq(s) \/ CipherReq(s)
    \/ AccessRightsReq(s) \/ AccessRightsTerminateReq(s) \/ LocateReq(s) \/ DetachReq(s)
    \/ IdentityReq(s) \/ IdentityAssignReq(s) \/ InfoReq(s) \/ IwuReq(s)

Responding(s) ==
    \/ AuthenticateRes(s) \/ CipherRes(s) \/ AccessRightsRes(s) \/ AccessRightsTerminateRes(s)
    \/ LocateRes(s) \/ IdentityRes(s) \/ IdentityAssignRes(s) \/ InfoRes(s)

Receive(s) ==
    \/ RcvKeyAllocate(s) \/ RcvAuthenticationRequest(s) \/ RcvAuthenticationAnswer(s)
    \/ RcvCipherRequest(s) \/ RcvCipherSuggest(s) \/ RcvCipherReject(s) \/ RcvEncrypted(s)
    \/ RcvAccessRightsRequest(s) \/ RcvAccessRightsAnswer(s)
    \/ RcvAccessRightsTerminateRequest(s) \/ RcvAccessRightsTerminateAnswer(s)
    \/ RcvLocateRequest(s) \/ RcvLocateAnswer(s) \/ RcvDetach(s)
    \/ RcvIdentityRequest(s) \/ RcvIdentityReply(s)
    \/ RcvTemporaryIdentityAssign(s) \/ RcvTemporaryIdentityAssignAnswer(s)
    \/ RcvInfoRequest(s) \/ RcvInfoAnswer(s) \/ RcvInfoSuggest(s) \/ RcvIgnored(s)

Timeout(s) == Retransmit(s) \/ GiveUp(s)

Next ==
    \E s \in Side :
        Requesting(s) \/ Responding(s) \/ Receive(s) \/ Timeout(s) \/ LinkFails(s)

Spec == Init /\ [][Next]_vars

\* Messages are read and timers expire.  A link failure reaches both sides.
\* Applications need not answer.
Fairness ==
    \A s \in Side :
        /\ WF_vars(Receive(s)) /\ WF_vars(Timeout(s))
        /\ WF_vars(LinkFails(s) /\ ~ up[Other(s)])

FairSpec == Spec /\ Fairness

-----------------------------------------------------------------------------
(* Properties *)

\* Types of the endpoints, of what is between them, and of the accounts.
TypeOK ==
    /\ mme \in [Side -> Endpoint]
    /\ net \in [Side -> Seq(Message)]
    /\ app \in [Side -> Account]
    /\ up \in [Side -> BOOLEAN]

\* The current procedure is the more urgent one, and there is a current procedure
\* whenever there is one: dect_mm_procedure_initiate, _respond and _complete agree
\* whatever interrupts whatever, also where a handler completes another procedure
\* than its own.
CurrentMostUrgent ==
    \A s \in Side : LET e == mme[s] IN
        IF e.current = "NONE" THEN \A r \in Role : ~ Busy(e, r)
        ELSE /\ Busy(e, e.current)
             /\ Busy(e, Opposite(e.current)) =>
                    e.slot[e.current].priority < e.slot[Opposite(e.current)].priority

\* An initiated procedure has a transaction on the link, also when it has taken
\* over that of a cancelled one, and none is left behind when it ends.
InitiatorHasTransaction ==
    \A s \in Side : Busy(mme[s], "INITIATOR") <=> IsOpen(mme[s], "INITIATOR")

\* A request that is being answered has its transaction on the link, unless it is
\* one that is also taken on a transaction that this side has opened.
ResponderHasTransaction ==
    \A s \in Side : mme[s].slot["RESPONDER"].type \notin OnKnown \cup {"NONE"}
                      => IsOpen(mme[s], "RESPONDER")

\* No message, timeout or answer, however late, makes a handler work on a
\* procedure that does not exist.
NoCrash == Running

\* The application is told once of the end of each thing it has asked for, and of
\* the end of nothing else: an answer that comes after the timeout does not end it
\* a second time, and is not taken for the end of a procedure of another kind.  (It
\* does end the next procedure of its own kind: a side has one MM transaction value,
\* so that nothing tells the answers to two such requests apart.)
ConfirmedOnce == \A s \in Side : ~ app[s].stray

\* While a request has not been confirmed its timer runs, and no timer runs for
\* a procedure that has ended.
RequestTimed ==
    \A s \in Side : app[s].asked # {} <=> mme[s].timer

\* The confirmation of every request comes ("the ... callback will be invoked"),
\* unless the process ends.
RequestEnds == \A s \in Side : app[s].asked # {} ~> (app[s].asked = {} \/ ~ Running)
=============================================================================
