--------------------- MODULE MobilityManagement_proofs ---------------------
(***************************************************************************)
(* Proofs about MobilityManagement.  Part 1, for any requests, any faults    *)
(* and any number of requests: its types, and the invariants                 *)
(* CurrentMostUrgent, InitiatorHasTransaction and ResponderHasTransaction.   *)
(* Part 2, for a base station that keeps its parts (BaseStation), with any   *)
(* faults and any number of requests: NoCrash, ConfirmedOnce, RequestTimed.  *)
(*                                                                           *)
(* The invariants of part 1 speak of one endpoint at a time, and a handler   *)
(* is a composition of Initiate, Respond, Complete, Sent and Opened.  Each   *)
(* of them is shown to make a good endpoint (EndpointOK) of a good one; a    *)
(* handler that sets one endpoint to such a result keeps the invariant by    *)
(* one common lemma (SetKeeps).                                              *)
(***************************************************************************)
EXTENDS MobilityManagement, SequenceTheorems, TLAPS

Urgent(e) ==
    IF e.current = "NONE" THEN \A r \in Role : ~ Busy(e, r)
    ELSE /\ Busy(e, e.current)
         /\ Busy(e, Opposite(e.current)) =>
                e.slot[e.current].priority < e.slot[Opposite(e.current)].priority

\* The endpoint answers a request that cannot have come on a known transaction.
Answering(e) == e.slot["RESPONDER"].type \notin OnKnown \cup {"NONE"}

EndpointOK(e) ==
    /\ e \in Endpoint
    /\ Urgent(e)
    /\ Busy(e, "INITIATOR") <=> IsOpen(e, "INITIATOR")
    /\ Answering(e) => IsOpen(e, "RESPONDER")

IndInv == TypeOK /\ \A s \in Side : EndpointOK(mme[s])

Networks == [Side -> Seq(Message)]

-----------------------------------------------------------------------------
(* Priorities and lists of transactions *)

\* dect_mm_proc has priorities 1 to 3, or 0 where a side may not initiate.
LEMMA PriorityType ==
    ASSUME NEW s \in Side, NEW p \in Procedure
    PROVE  Priority(s, p) \in 0 .. 3
  BY DEF Priority, Side

\* The transactions of the link, one kind of list at a time.
LEMMA OpenCases ==
    ASSUME NEW e, e.open \in Transactions
    PROVE  \/ /\ e.open = <<>>
              /\ ~ IsOpen(e, "INITIATOR") /\ ~ IsOpen(e, "RESPONDER")
           \/ /\ e.open = <<"INITIATOR">>
              /\ IsOpen(e, "INITIATOR") /\ ~ IsOpen(e, "RESPONDER")
           \/ /\ e.open = <<"RESPONDER">>
              /\ ~ IsOpen(e, "INITIATOR") /\ IsOpen(e, "RESPONDER")
           \/ /\ e.open \in {<<"INITIATOR", "RESPONDER">>, <<"RESPONDER", "INITIATOR">>}
              /\ IsOpen(e, "INITIATOR") /\ IsOpen(e, "RESPONDER")
<1>1. CASE e.open = <<>>
  BY <1>1 DEF IsOpen
<1>2. CASE e.open = <<"INITIATOR">>
  BY <1>2 DEF IsOpen
<1>3. CASE e.open = <<"RESPONDER">>
  BY <1>3 DEF IsOpen
<1>4. CASE e.open = <<"INITIATOR", "RESPONDER">>
  BY <1>4 DEF IsOpen
<1>5. CASE e.open = <<"RESPONDER", "INITIATOR">>
  BY <1>5 DEF IsOpen
<1> QED
  BY <1>1, <1>2, <1>3, <1>4, <1>5 DEF Transactions, Role

\* list_add of a transaction that is not on the list
LEMMA OpenAdded ==
    ASSUME NEW e, NEW f, NEW r \in Role, e.open \in Transactions, ~ IsOpen(e, r),
           f.open = <<r>> \o e.open
    PROVE  /\ f.open \in Transactions /\ IsOpen(f, r)
           /\ IsOpen(f, Opposite(r)) <=> IsOpen(e, Opposite(r))
<1>1. CASE e.open = <<>>
  <2>1. f.open = <<r>>
    BY <1>1, ConcatEmptySeq, <<r>> \in Seq(Role)
  <2>2. ~ IsOpen(e, Opposite(r))
    BY <1>1 DEF IsOpen
  <2>3. IsOpen(f, r) /\ ~ IsOpen(f, Opposite(r))
    BY <2>1 DEF IsOpen, Opposite, Role
  <2> QED BY <2>1, <2>2, <2>3 DEF Transactions
<1>2. CASE e.open = <<Opposite(r)>>
  <2>1. Opposite(r) \in Role
    BY DEF Opposite, Role
  <2>2. f.open = <<r, Opposite(r)>>
    <3>1. <<r>> \o <<Opposite(r)>> \in Seq(Role) /\ Len(<<r>> \o <<Opposite(r)>>) = 2
      BY <2>1
    <3>2. <<r, Opposite(r)>> \in Seq(Role) /\ Len(<<r, Opposite(r)>>) = 2
      BY <2>1
    <3>3. \A i \in 1 .. 2 : (<<r>> \o <<Opposite(r)>>)[i] = <<r, Opposite(r)>>[i]
      BY <2>1
    <3> QED BY <1>2, <3>1, <3>2, <3>3, SeqEqual
  <2>3. IsOpen(e, Opposite(r))
    BY <1>2 DEF IsOpen
  <2>4. IsOpen(f, r) /\ IsOpen(f, Opposite(r))
    <3>1. DOMAIN f.open = 1 .. 2
      BY <2>2
    <3>2. f.open[1] = r
      BY <2>2
    <3>3. f.open[2] = Opposite(r)
      <4>1. \A q : <<r, q>>[2] = q
        OBVIOUS
      <4> QED BY <2>2, <4>1
    <3> QED BY <3>1, <3>2, <3>3 DEF IsOpen
  <2>5. f.open \in Transactions
    BY <2>2 DEF Transactions, Role, Opposite
  <2> QED BY <2>3, <2>4, <2>5
<1> QED
  BY <1>1, <1>2, OpenCases DEF Role, Opposite

-----------------------------------------------------------------------------
(* Endpoints *)

\* A new endpoint is good.
LEMMA NewOK == EndpointOK(NewEndpoint)
<1>1. ~ IsOpen(NewEndpoint, "INITIATOR")
  BY DEF IsOpen, NewEndpoint
<1>2. NewEndpoint \in Endpoint
  BY DEF NewEndpoint, Endpoint, FreeSlot, Slot, Transactions, Role
<1>3. ~ Answering(NewEndpoint)
  BY DEF Answering, NewEndpoint, FreeSlot, Role
<1> QED
  BY <1>1, <1>2, <1>3 DEF EndpointOK, Urgent, Busy, NewEndpoint, FreeSlot, Role

\* A dead process in any way of dying.
LEMMA CrashOK ==
    ASSUME NEW why \in {"null", "list", "closed", "assert"}
    PROVE  EndpointOK(Crash(why))
<1>1. ~ IsOpen(Crash(why), "INITIATOR")
  BY DEF IsOpen, Crash, NewEndpoint
<1>2. Crash(why) \in Endpoint
  <2>1. NewEndpoint \in Endpoint
    BY NewOK DEF EndpointOK
  <2> QED BY <2>1 DEF Crash, Endpoint
<1>3. Crash(why).slot = [r \in Role |-> FreeSlot] /\ Crash(why).current = "NONE"
  BY DEF Crash, NewEndpoint
<1>4. Urgent(Crash(why)) /\ ~ Busy(Crash(why), "INITIATOR") /\ ~ Answering(Crash(why))
  BY <1>3 DEF Urgent, Busy, Answering, FreeSlot, Role
<1> QED
  BY <1>1, <1>2, <1>4 DEF EndpointOK

\* dect_mm_procedure_initiate: only a more urgent procedure interrupts another.
LEMMA InitiateOK ==
    ASSUME NEW s \in Side, NEW p \in Procedure, NEW e, EndpointOK(e), MayInitiate(s, e, p)
    PROVE  EndpointOK(Initiate(s, e, p)) /\ Initiate(s, e, p).current = "INITIATOR"
<1> DEFINE f == Initiate(s, e, p)
<1>1. Priority(s, p) \in 0 .. 3 /\ p # "NONE"
  BY PriorityType DEF Procedure
<1>2. e \in Endpoint
  BY DEF EndpointOK
<1>3. /\ f.open \in Transactions /\ IsOpen(f, "INITIATOR")
      /\ IsOpen(f, "RESPONDER") <=> IsOpen(e, "RESPONDER")
  <2>1. CASE Busy(e, "INITIATOR")
    <3>1. f.open = e.open /\ IsOpen(e, "INITIATOR")
      BY <1>2, <2>1 DEF Initiate, EndpointOK, Endpoint
    <3> QED BY <1>2, <3>1 DEF Endpoint, IsOpen
  <2>2. CASE ~ Busy(e, "INITIATOR")
    <3>1. f.open = <<"INITIATOR">> \o e.open /\ ~ IsOpen(e, "INITIATOR")
      BY <1>2, <2>2 DEF Initiate, EndpointOK, Endpoint
    <3>2. Opposite("INITIATOR") = "RESPONDER" /\ "INITIATOR" \in Role /\ e.open \in Transactions
      BY <1>2 DEF Opposite, Role, Endpoint
    <3> QED BY <3>1, <3>2, OpenAdded
  <2> QED BY <2>1, <2>2
<1>4. f.slot = [e.slot EXCEPT !["INITIATOR"] =
                  [type |-> p, priority |-> Priority(s, p), iec |-> "none"]]
        /\ f.current = "INITIATOR" /\ f.timer \in BOOLEAN /\ f.retransmitted = e.retransmitted
        /\ f.mb = e.mb /\ f.crash = e.crash
  BY <1>2 DEF Initiate, Endpoint
<1>5. f \in Endpoint
  <2>1. f.slot \in [Role -> Slot]
    BY <1>1, <1>2, <1>4 DEF Endpoint, Slot, Role
  <2> QED BY <1>2, <1>3, <1>4, <2>1 DEF Initiate, Endpoint, Role
<1>6. Urgent(f) /\ Busy(f, "INITIATOR") /\ (Answering(f) <=> Answering(e))
  <2>1. Busy(f, "INITIATOR") /\ f.slot["INITIATOR"].priority = Priority(s, p)
          /\ f.slot["RESPONDER"] = e.slot["RESPONDER"]
    BY <1>1, <1>2, <1>4 DEF Busy, Endpoint, Role
  <2>2. Busy(e, "RESPONDER") => Priority(s, p) < e.slot["RESPONDER"].priority
    <3>1. e.current \in Role \cup {"NONE"} /\ e.slot["INITIATOR"].priority \in 0 .. 3
            /\ e.slot["RESPONDER"].priority \in 0 .. 3
      BY <1>2 DEF Endpoint, Slot, Role
    <3> QED BY <1>1, <3>1 DEF MayInitiate, Admits, EndpointOK, Urgent, Opposite, Role
  <2>3. Answering(f) <=> Answering(e)
    BY <2>1 DEF Answering
  <2> QED BY <1>4, <2>1, <2>2, <2>3 DEF Urgent, Opposite, Busy
<1> QED
  BY <1>3, <1>4, <1>5, <1>6 DEF EndpointOK

\* dect_mm_procedure_respond, likewise; contents may be kept.
LEMMA RespondOK ==
    ASSUME NEW s \in Side, NEW p \in Procedure, NEW e, EndpointOK(e), MayRespond(s, e, p),
           p \in OnKnown \/ IsOpen(e, "RESPONDER"), NEW iec \in {"none", "request"}
    PROVE  /\ EndpointOK(Respond(s, e, p)) /\ Respond(s, e, p).current = "RESPONDER"
           /\ EndpointOK([Respond(s, e, p) EXCEPT !.slot["RESPONDER"].iec = iec])
<1> DEFINE f == Respond(s, e, p)
           g == [f EXCEPT !.slot["RESPONDER"].iec = iec]
<1>1. Priority(Other(s), p) \in 0 .. 3 /\ p # "NONE"
  BY PriorityType DEF Procedure, Other, Side
<1>2. e \in Endpoint
  BY DEF EndpointOK
<1>3. f.slot = [e.slot EXCEPT !["RESPONDER"] =
                  [type |-> p, priority |-> Priority(Other(s), p), iec |-> "none"]]
        /\ f.current = "RESPONDER" /\ f.open = e.open
  BY <1>2 DEF Respond, Endpoint
<1>4. f \in Endpoint
  <2>1. f.slot \in [Role -> Slot]
    BY <1>1, <1>2, <1>3 DEF Endpoint, Slot, Role
  <2> QED BY <1>2, <1>3, <2>1 DEF Respond, Endpoint, Role
<1>5. g.slot = [f.slot EXCEPT !["RESPONDER"].iec = iec]
        /\ g.current = "RESPONDER" /\ g.open = e.open
  BY <1>3, <1>4 DEF Endpoint
<1>6. g \in Endpoint
  <2>1. g.slot \in [Role -> Slot]
    BY <1>4, <1>5 DEF Endpoint, Slot, Role
  <2> QED BY <1>4, <2>1 DEF Endpoint, Role
<1>7. ASSUME NEW h \in {f, g}
      PROVE  /\ Urgent(h) /\ (Busy(h, "INITIATOR") <=> IsOpen(h, "INITIATOR"))
             /\ Answering(h) => IsOpen(h, "RESPONDER")
  <2>1. h.slot["RESPONDER"].type = p /\ h.slot["RESPONDER"].priority = Priority(Other(s), p)
          /\ h.slot["INITIATOR"] = e.slot["INITIATOR"] /\ h.current = "RESPONDER" /\ h.open = e.open
    BY <1>1, <1>2, <1>3, <1>4, <1>5 DEF Endpoint, Slot, Role
  <2>2. Busy(e, "INITIATOR") => Priority(Other(s), p) < e.slot["INITIATOR"].priority
    <3>1. e.current \in Role \cup {"NONE"} /\ ~ Busy(e, "RESPONDER")
            /\ (e.current \in Role => e.slot[e.current].priority > Priority(Other(s), p))
      BY <1>2 DEF Endpoint, MayRespond, Admits
    <3>2. e.current # "RESPONDER"
      BY <3>1 DEF EndpointOK, Urgent
    <3>3. e.slot["INITIATOR"].priority \in 0 .. 3
      BY <1>2 DEF Endpoint, Slot, Role
    <3> QED BY <1>1, <3>1, <3>2, <3>3 DEF EndpointOK, Urgent, Role
  <2>3. Urgent(h)
    BY <1>1, <2>1, <2>2 DEF Urgent, Busy, Opposite
  <2>4. (Busy(h, "INITIATOR") <=> Busy(e, "INITIATOR")) /\ (IsOpen(h, "INITIATOR") <=> IsOpen(e, "INITIATOR"))
    BY <2>1 DEF Busy, IsOpen
  <2>5. Answering(h) => IsOpen(h, "RESPONDER")
    BY <2>1 DEF Answering, IsOpen
  <2> QED BY <2>3, <2>4, <2>5 DEF EndpointOK
<1> QED
  BY <1>3, <1>4, <1>6, <1>7 DEF EndpointOK

\* dect_mm_procedure_complete: the other procedure becomes the current one again.
LEMMA CompleteOK ==
    ASSUME NEW e, EndpointOK(e)
    PROVE  EndpointOK(Complete(e))
<1> DEFINE r == e.current
           f == Complete(e)
<1>1. e \in Endpoint
  BY DEF EndpointOK
<1>2. CASE e.crash # "no"
  BY <1>2 DEF Complete
<1>3. CASE e.crash = "no" /\ (r = "NONE" \/ ~ IsOpen(e, r))
  BY <1>3, CrashOK DEF Complete
<1>4. CASE e.crash = "no" /\ r # "NONE" /\ IsOpen(e, r)
  <2>1. r \in Role /\ Opposite(r) \in Role /\ r # Opposite(r)
    BY <1>1, <1>4 DEF Endpoint, Role, Opposite
  <2>2. /\ f.slot = [e.slot EXCEPT ![r] = FreeSlot]
        /\ f.open = IF IsOpen(e, Opposite(r)) THEN <<Opposite(r)>> ELSE <<>>
        /\ f.timer = (e.timer /\ r # "INITIATOR")
        /\ f.mb = IF r = "INITIATOR" THEN NoMessage ELSE e.mb
        /\ f.current = IF Busy(e, Opposite(r)) THEN Opposite(r) ELSE "NONE"
    BY <1>1, <1>4 DEF Complete, Endpoint
  <2>3. f.slot[r] = FreeSlot /\ f.slot[Opposite(r)] = e.slot[Opposite(r)]
    BY <1>1, <2>1, <2>2 DEF Endpoint
  <2>4. f \in Endpoint
    <3>1. f.slot \in [Role -> Slot]
      BY <1>1, <2>1, <2>2 DEF Endpoint, Slot, FreeSlot
    <3>2. f.open \in Transactions
      BY <2>1, <2>2 DEF Transactions
    <3>3. f.timer \in BOOLEAN /\ f.mb \in Message \cup {NoMessage} /\ f.current \in Role \cup {"NONE"}
      BY <1>1, <2>1, <2>2 DEF Endpoint
    <3> QED BY <1>1, <1>4, <3>1, <3>2, <3>3 DEF Complete, Endpoint
  <2>5. ~ Busy(f, r) /\ (Busy(f, Opposite(r)) <=> Busy(e, Opposite(r)))
    BY <2>3 DEF Busy, FreeSlot
  <2>6. Urgent(f)
    <3>1. CASE Busy(e, Opposite(r))
      <4>1. f.current = Opposite(r) /\ Opposite(Opposite(r)) = r /\ f.current # "NONE"
        BY <2>1, <2>2, <3>1 DEF Opposite, Role
      <4> QED BY <2>5, <3>1, <4>1 DEF Urgent
    <3>2. CASE ~ Busy(e, Opposite(r))
      <4>1. \A q \in Role : q = r \/ q = Opposite(r)
        BY <2>1 DEF Role, Opposite
      <4> QED BY <2>2, <2>5, <3>2, <4>1 DEF Urgent
    <3> QED BY <3>1, <3>2
  <2>7. ~ IsOpen(f, r) /\ (IsOpen(f, Opposite(r)) <=> IsOpen(e, Opposite(r)))
    <3>1. CASE IsOpen(e, Opposite(r))
      BY <2>1, <2>2, <3>1 DEF IsOpen
    <3>2. CASE ~ IsOpen(e, Opposite(r))
      BY <2>2, <3>2 DEF IsOpen
    <3> QED BY <3>1, <3>2
  <2>8. Busy(f, "INITIATOR") <=> IsOpen(f, "INITIATOR")
    <3>1. r = "INITIATOR" \/ Opposite(r) = "INITIATOR"
      BY <2>1 DEF Role, Opposite
    <3> QED BY <2>5, <2>7, <3>1 DEF EndpointOK
  <2>9. Answering(f) => IsOpen(f, "RESPONDER")
    <3>1. r = "RESPONDER" \/ Opposite(r) = "RESPONDER"
      BY <2>1 DEF Role, Opposite
    <3> QED BY <2>3, <2>7, <3>1 DEF Answering, EndpointOK, FreeSlot
  <2> QED BY <2>4, <2>6, <2>8, <2>9 DEF EndpointOK
<1> QED
  BY <1>2, <1>3, <1>4

\* dect_mm_send_msg changes what can be retransmitted, at most.
LEMMA SentOK ==
    ASSUME NEW e, EndpointOK(e), NEW m, e.current \in Role => m \in Message
    PROVE  EndpointOK(Sent(e, m))
<1>1. e \in Endpoint
  BY DEF EndpointOK
<1>2. CASE e.current = "NONE" \/ ~ IsOpen(e, e.current)
  BY <1>2, CrashOK DEF Sent
<1>3. CASE e.current # "NONE" /\ IsOpen(e, e.current)
  <2>1. Sent(e, m) = [e EXCEPT !.mb = IF e.current = "INITIATOR" THEN m ELSE @]
    BY <1>3 DEF Sent
  <2>2. Sent(e, m) \in Endpoint
    BY <1>1, <1>3, <2>1 DEF Endpoint
  <2>3. Sent(e, m).slot = e.slot /\ Sent(e, m).open = e.open /\ Sent(e, m).current = e.current
    BY <1>1, <2>1 DEF Endpoint
  <2> QED BY <2>2, <2>3 DEF EndpointOK, Urgent, Busy, Answering, IsOpen
<1> QED
  BY <1>2, <1>3

\* dect_mm_open confirms a transaction that the link does not have yet.
LEMMA OpenedOK ==
    ASSUME NEW s \in Side, IndInv
    PROVE  /\ EndpointOK(Opened(s))
           /\ Running /\ ~ Known(s) /\ Opened(s).crash = "no" => IsOpen(Opened(s), "RESPONDER")
<1> DEFINE e == mme[s]
           f == [e EXCEPT !.open = <<"RESPONDER">> \o @]
<1>1. EndpointOK(e) /\ e \in Endpoint
  BY DEF IndInv, EndpointOK
<1>2. CASE Known(s) \/ IsOpen(e, "RESPONDER")
  <2>1. Crash("list").crash # "no"
    BY DEF Crash, NewEndpoint
  <2> QED BY <1>1, <1>2, <2>1, CrashOK DEF Opened
<1>3. CASE ~ Known(s) /\ ~ IsOpen(e, "RESPONDER")
  <2>1. Opened(s) = f
    BY <1>3 DEF Opened
  <2>2. f.open = <<"RESPONDER">> \o e.open /\ f.slot = e.slot /\ f.current = e.current
    BY <1>1 DEF Endpoint
  <2>3. /\ f.open \in Transactions /\ (IsOpen(f, "INITIATOR") <=> IsOpen(e, "INITIATOR"))
        /\ IsOpen(f, "RESPONDER")
    <3>1. e.open \in Transactions /\ "RESPONDER" \in Role /\ Opposite("RESPONDER") = "INITIATOR"
      BY <1>1 DEF Endpoint, Role, Opposite
    <3> QED BY <1>3, <2>2, <3>1, OpenAdded
  <2>4. f \in Endpoint
    BY <1>1, <2>2, <2>3 DEF Endpoint
  <2> QED BY <1>1, <2>1, <2>2, <2>3, <2>4 DEF EndpointOK, Urgent, Busy, Answering
<1> QED
  BY <1>2, <1>3

\* dect_mm_encrypt_ind and dect_mm_shutdown, for one transaction and for all.
LEMMA EncryptedOK ==
    ASSUME NEW e, EndpointOK(e), NEW r
    PROVE  EndpointOK(Encrypted(e, r))
  BY CrashOK, CompleteOK DEF Encrypted

LEMMA ShutdownOneOK ==
    ASSUME NEW e, EndpointOK(e), NEW r
    PROVE  EndpointOK(ShutdownOne(e, r))
  BY CrashOK, CompleteOK DEF ShutdownOne

LEMMA AllOK ==
    ASSUME NEW e, EndpointOK(e)
    PROVE  EndpointOK(AllEncrypted(e)) /\ EndpointOK(ShutdownAll(e))
<1>1. Len(e.open) \in {0, 1, 2}
  <2>1. e.open \in Transactions
    BY DEF EndpointOK, Endpoint
  <2> QED BY <2>1 DEF Transactions
<1>2. EndpointOK(AllEncrypted(e))
  <2>1. EndpointOK(Encrypted(e, e.open[1])) /\ EndpointOK(Encrypted(Encrypted(e, e.open[1]), e.open[2]))
    BY EncryptedOK
  <2> QED BY <1>1, <2>1 DEF AllEncrypted
<1>3. EndpointOK(ShutdownAll(e))
  <2>1. EndpointOK(ShutdownOne(e, e.open[1])) /\ EndpointOK(ShutdownOne(ShutdownOne(e, e.open[1]), e.open[2]))
    BY ShutdownOneOK
  <2> QED BY <1>1, <2>1 DEF ShutdownAll
<1> QED
  BY <1>2, <1>3

-----------------------------------------------------------------------------
(* Messages and accounts *)

\* A message has the role of a procedure that exists.
LEMMA MsgType ==
    ASSUME NEW e, NEW kind \in {"request", "accept", "reject", "encrypted"}, NEW p \in Procedure,
           NEW assign \in Assignment, NEW valid \in BOOLEAN, e.current \in Role
    PROVE  Msg(e, kind, p, assign, valid) \in Message
  BY DEF Msg, Message

LEMMA DeliveredType ==
    ASSUME net \in Networks, NEW s \in Side, NEW m \in Message
    PROVE  Delivered(s, m) \in Networks
<1>1. Other(s) \in Side /\ net[Other(s)] \in Seq(Message)
  BY DEF Networks, Other, Side
<1>2. Append(net[Other(s)], m) \in Seq(Message)
  BY <1>1
<1> QED
  BY <1>1, <1>2 DEF Delivered, Networks

\* What follows from receiving: the head of the channel is a message.
LEMMA ReceivedType ==
    ASSUME net \in Networks, NEW s \in Side, net[s] # <<>>
    PROVE  /\ Head(net[s]) \in Message /\ [net EXCEPT ![s] = Tail(@)] \in Networks
           /\ \A m \in Message : [Delivered(s, m) EXCEPT ![s] = Tail(@)] \in Networks
<1>1. net[s] \in Seq(Message)
  BY DEF Networks
<1>2. Head(net[s]) \in Message /\ Tail(net[s]) \in Seq(Message)
  BY <1>1, HeadTailProperties
<1>3. [net EXCEPT ![s] = Tail(@)] \in Networks
  BY <1>2 DEF Networks
<1>4. ASSUME NEW m \in Message
      PROVE  [Delivered(s, m) EXCEPT ![s] = Tail(@)] \in Networks
  <2>1. Delivered(s, m) \in Networks
    BY DeliveredType
  <2>2. Delivered(s, m)[s] = net[s]
    BY DEF Delivered, Networks, Other, Side
  <2> QED BY <1>2, <2>1, <2>2 DEF Networks
<1> QED
  BY <1>2, <1>3, <1>4

\* The account stays one, whatever is asked, confirmed, indicated or answered.
LEMMA AccountType ==
    ASSUME NEW a \in Account, NEW p
    PROVE  /\ Confirmed(a, p) \in Account /\ Answered(a, p) \in Account
           /\ [a EXCEPT !.asked = @ \ {p}] \in Account
           /\ p \in Procedure => Asks(a, p) \in Account /\ Indicated(a, p) \in Account
           /\ Counted(a) \in Account
<1>1. Confirmed(a, p) \in Account
  BY DEF Confirmed, Account
<1>2. Answered(a, p) \in Account
  BY DEF Answered, Account
<1>3. [a EXCEPT !.asked = @ \ {p}] \in Account
  BY DEF Account
<1>4. p \in Procedure => Asks(a, p) \in Account
  BY DEF Asks, Account, Confirmation, Procedure
<1>5. p \in Procedure => Indicated(a, p) \in Account
  BY DEF Indicated, Account
<1>6. Counted(a) \in Account
  BY DEF Counted, Account
<1> QED
  BY <1>1, <1>2, <1>3, <1>4, <1>5, <1>6

\* A step that sets one endpoint and one account keeps the invariant.
LEMMA SetKeeps ==
    ASSUME IndInv, NEW s \in Side, NEW e, NEW a, Set(s, e, a), EndpointOK(e), a \in Account,
           net' \in Networks, up' \in [Side -> BOOLEAN]
    PROVE  IndInv'
<1>1. mme' = [mme EXCEPT ![s] = e] /\ app' = [app EXCEPT ![s] = a] /\ e \in Endpoint
  BY DEF Set, EndpointOK
<1>2. TypeOK'
  BY <1>1 DEF IndInv, TypeOK, Networks
<1>3. ASSUME NEW t \in Side
      PROVE  EndpointOK(mme'[t])
  <2>1. mme'[t] = IF t = s THEN e ELSE mme[t]
    BY <1>1 DEF IndInv, TypeOK
  <2> QED BY <2>1 DEF IndInv
<1> QED
  BY <1>2, <1>3 DEF IndInv

\* A step that sets neither.
LEMMA SameKeeps ==
    ASSUME IndInv, UNCHANGED <<mme, app>>, net' \in Networks, up' \in [Side -> BOOLEAN]
    PROVE  IndInv'
  BY DEF IndInv, TypeOK, Networks

\* What the invariant says of one side.
LEMMA SideFacts ==
    ASSUME IndInv, NEW s \in Side
    PROVE  /\ EndpointOK(mme[s]) /\ mme[s] \in Endpoint /\ app[s] \in Account
           /\ net \in Networks /\ up \in [Side -> BOOLEAN]
           /\ \A r \in Role : Busy(mme[s], r) => mme[s].current \in Role
<1>1. EndpointOK(mme[s]) /\ mme[s] \in Endpoint /\ app[s] \in Account
  BY DEF IndInv, TypeOK, EndpointOK
<1>2. net \in Networks /\ up \in [Side -> BOOLEAN]
  BY DEF IndInv, TypeOK, Networks
<1>3. \A r \in Role : Busy(mme[s], r) => mme[s].current \in Role
  BY <1>1 DEF EndpointOK, Urgent, Endpoint
<1> QED
  BY <1>1, <1>2, <1>3

-----------------------------------------------------------------------------
(* Requests of the application *)

LEMMA AbortedType ==
    ASSUME IndInv, NEW s \in Side
    PROVE  Aborted(s) \in Account
<1>1. app[s] \in Account
  BY SideFacts
<1>2. Counted(app[s]) \in Account
  BY <1>1, AccountType
<1> QED
  BY <1>2, AccountType DEF Aborted

\* dect_mm_procedure_initiate, the message, and for some the end.
LEMMA InitiatesKeeps ==
    ASSUME IndInv, NEW s \in Side, NEW p \in Procedure, NEW ended \in BOOLEAN, NEW a \in Account,
           Initiates(s, p, ended, a), UNCHANGED up
    PROVE  IndInv'
<1> DEFINE e == Initiate(s, mme[s], p)
           m(valid) == Msg(e, "request", p, "none", valid)
<1>1. /\ EndpointOK(mme[s]) /\ MayInitiate(s, mme[s], p)
      /\ net \in Networks /\ up \in [Side -> BOOLEAN]
  BY SideFacts DEF Initiates
<1>2. EndpointOK(e) /\ e.current \in Role
  BY <1>1, InitiateOK DEF Role
<1>3. PICK valid \in Validity(s) :
        net' = Delivered(s, m(valid)) /\ Set(s, IF ended THEN Complete(Sent(e, m(valid))) ELSE Sent(e, m(valid)), a)
  BY DEF Initiates
<1>4. m(valid) \in Message
  <2>1. valid \in BOOLEAN /\ "none" \in Assignment
    BY DEF Validity, Assignment
  <2> QED BY <1>2, <2>1, MsgType
<1>5. EndpointOK(Sent(e, m(valid))) /\ EndpointOK(Complete(Sent(e, m(valid))))
  BY <1>2, <1>4, SentOK, CompleteOK
<1>6. net' \in Networks
  BY <1>1, <1>3, <1>4, DeliveredType
<1> HIDE DEF e, m
<1> QED
  BY <1>1, <1>3, <1>5, <1>6, SetKeeps

\* A request whose message cannot be built, or in other words the end of a
\* procedure without a message.
LEMMA CancelsKeeps ==
    ASSUME IndInv, NEW s \in Side, NEW p \in Procedure, Cancels(s, p), UNCHANGED up
    PROVE  IndInv'
<1>1. /\ EndpointOK(mme[s]) /\ MayInitiate(s, mme[s], p)
      /\ net \in Networks /\ up \in [Side -> BOOLEAN]
  BY SideFacts DEF Cancels
<1>2. EndpointOK(Complete(Initiate(s, mme[s], p)))
  BY <1>1, InitiateOK, CompleteOK
<1>3. Set(s, Complete(Initiate(s, mme[s], p)), Aborted(s)) /\ net' = net
  BY DEF Cancels
<1> QED
  BY <1>1, <1>2, <1>3, SetKeeps, AbortedType

LEMMA RequestKeeps ==
    ASSUME IndInv, NEW s \in Side, NEW p \in Procedure, Request(s, p)
    PROVE  IndInv'
<1>1. UNCHANGED up
  BY DEF Request, Wishes
<1>2. Asks(Aborted(s), p) \in Account
  BY AbortedType, AccountType
<1>3. CASE Initiates(s, p, FALSE, Asks(Aborted(s), p))
  BY <1>1, <1>2, <1>3, InitiatesKeeps
<1>4. CASE Cancels(s, p)
  BY <1>1, <1>4, CancelsKeeps
<1> QED
  BY <1>3, <1>4 DEF Request

LEMMA NoticeKeeps ==
    ASSUME IndInv, NEW s \in Side, NEW p \in Procedure, Notice(s, p)
    PROVE  IndInv'
<1>1. UNCHANGED up
  BY DEF Notice, Wishes
<1>2. CASE Initiates(s, p, TRUE, Aborted(s))
  BY <1>1, <1>2, AbortedType, InitiatesKeeps
<1>3. CASE Cancels(s, p)
  BY <1>1, <1>3, CancelsKeeps
<1> QED
  BY <1>2, <1>3 DEF Notice

\* MM_AUTHENTICATE-req in answer to a key allocation goes to the current procedure.
LEMMA AuthenticateReqKeeps ==
    ASSUME IndInv, NEW s \in Side, AuthenticateReq(s)
    PROVE  IndInv'
<1> DEFINE m == Msg(mme[s], "request", "AUTHENTICATE", "none", TRUE)
           a == Answered(app[s], "KEY_ALLOCATION")
<1>1. CASE Request(s, "AUTHENTICATE")
  BY <1>1, RequestKeeps DEF Procedure
<1>2. CASE /\ mme[s].slot["RESPONDER"].type = "KEY_ALLOCATION" /\ UNCHANGED up
           /\ \/ net' = Delivered(s, m) /\ Set(s, Sent(mme[s], m), Asks(a, "AUTHENTICATE"))
              \/ UNCHANGED net /\ Set(s, Complete(mme[s]), a)
  <2>1. /\ EndpointOK(mme[s]) /\ net \in Networks /\ up \in [Side -> BOOLEAN]
        /\ app[s] \in Account /\ mme[s].current \in Role
    BY <1>2, SideFacts DEF Busy, Role
  <2>2. m \in Message
    BY <2>1, MsgType DEF Procedure, Assignment
  <2>3. a \in Account /\ Asks(a, "AUTHENTICATE") \in Account
    BY <2>1, AccountType DEF Procedure
  <2>4. EndpointOK(Sent(mme[s], m)) /\ EndpointOK(Complete(mme[s])) /\ Delivered(s, m) \in Networks
    BY <2>1, <2>2, SentOK, CompleteOK, DeliveredType
  <2> HIDE DEF m, a
  <2> QED BY <1>2, <2>1, <2>3, <2>4, SetKeeps
<1> QED
  BY <1>1, <1>2 DEF AuthenticateReq

\* MM_IWU-req has no procedure.
LEMMA IwuReqKeeps ==
    ASSUME IndInv, NEW s \in Side, IwuReq(s)
    PROVE  IndInv'
<1> DEFINE e == IF mme[s].current = "NONE" THEN Crash("null") ELSE mme[s]
<1>1. /\ EndpointOK(mme[s]) /\ net \in Networks /\ up \in [Side -> BOOLEAN] /\ app[s] \in Account
  BY SideFacts
<1>2. EndpointOK(e)
  BY <1>1, CrashOK
<1>3. Set(s, e, Counted(app[s])) /\ UNCHANGED <<net, up>> /\ Counted(app[s]) \in Account
  BY <1>1, AccountType DEF IwuReq, Wishes
<1> HIDE DEF e
<1> QED
  BY <1>1, <1>2, <1>3, SetKeeps

\* Every request of the application.
LEMMA RequestingKeeps ==
    ASSUME IndInv, NEW s \in Side, Requesting(s)
    PROVE  IndInv'
<1> USE DEF Procedure
<1>1. CASE KeyAllocateReq(s)
  BY <1>1, RequestKeeps DEF KeyAllocateReq
<1>2. CASE CipherReq(s)
  BY <1>2, RequestKeeps DEF CipherReq
<1>3. CASE AccessRightsReq(s)
  BY <1>3, RequestKeeps DEF AccessRightsReq
<1>4. CASE AccessRightsTerminateReq(s)
  BY <1>4, RequestKeeps DEF AccessRightsTerminateReq
<1>5. CASE LocateReq(s)
  BY <1>5, RequestKeeps DEF LocateReq
<1>6. CASE DetachReq(s)
  BY <1>6, NoticeKeeps DEF DetachReq
<1>7. CASE IdentityReq(s)
  BY <1>7, RequestKeeps DEF IdentityReq
<1>8. CASE IdentityAssignReq(s)
  BY <1>8, RequestKeeps DEF IdentityAssignReq
<1>9. CASE InfoReq(s)
  BY <1>9, RequestKeeps, NoticeKeeps DEF InfoReq
<1> QED
  BY <1>1, <1>2, <1>3, <1>4, <1>5, <1>6, <1>7, <1>8, <1>9, AuthenticateReqKeeps, IwuReqKeeps
  DEF Requesting

-----------------------------------------------------------------------------
(* Responses of the application *)

LEMMA IgnoresKeeps ==
    ASSUME IndInv, NEW s \in Side, NEW p \in Procedure, NEW types, Ignores(s, p, types)
    PROVE  IndInv'
<1> DEFINE e == IF mme[s].current = "NONE" THEN Crash("null") ELSE mme[s]
<1>1. /\ EndpointOK(mme[s]) /\ net \in Networks /\ up \in [Side -> BOOLEAN] /\ app[s] \in Account
  BY SideFacts
<1>2. EndpointOK(e)
  BY <1>1, CrashOK
<1>3. Set(s, e, Answered(app[s], p)) /\ UNCHANGED <<net, up>> /\ Answered(app[s], p) \in Account
  BY <1>1, AccountType DEF Ignores, Answers
<1> HIDE DEF e
<1> QED
  BY <1>1, <1>2, <1>3, SetKeeps

\* An answer on the current procedure, and the end of it.
LEMMA AnswerKeeps ==
    ASSUME IndInv, NEW s \in Side, NEW p \in Procedure, NEW types, Answers(s, p), Fits(mme[s], types),
           NEW m \in Message, SendsAnswer(s, m),
           \/ Set(s, Complete(Sent(mme[s], m)), Answered(app[s], p))
           \/ Set(s, Complete(mme[s]), Answered(app[s], p))
    PROVE  IndInv'
<1>1. /\ EndpointOK(mme[s]) /\ net \in Networks /\ up \in [Side -> BOOLEAN] /\ app[s] \in Account
  BY SideFacts
<1>2. EndpointOK(Complete(Sent(mme[s], m))) /\ EndpointOK(Complete(mme[s]))
  BY <1>1, SentOK, CompleteOK
<1>3. net' \in Networks /\ UNCHANGED up
  BY <1>1, DeliveredType DEF SendsAnswer, Answers
<1>4. Answered(app[s], p) \in Account
  BY <1>1, AccountType
<1> QED
  BY <1>1, <1>2, <1>3, <1>4, SetKeeps

LEMMA RejectsKeeps ==
    ASSUME IndInv, NEW s \in Side, NEW p \in Procedure, NEW types, Rejects(s, p, types)
    PROVE  IndInv'
<1> DEFINE m == Msg(mme[s], "reject", p, "none", TRUE)
<1>1. m \in Message
  BY MsgType DEF Rejects, Fits, Assignment
<1>2. /\ Answers(s, p) /\ Fits(mme[s], types)
      /\ SendsAnswer(s, m) /\ Set(s, Complete(Sent(mme[s], m)), Answered(app[s], p))
  BY DEF Rejects
<1> HIDE DEF m
<1> QED
  BY <1>1, <1>2, AnswerKeeps

LEMMA AcceptsKeeps ==
    ASSUME IndInv, NEW s \in Side, NEW p \in Procedure, NEW types, Accepts(s, p, types)
    PROVE  IndInv'
<1> DEFINE m(valid) == Msg(mme[s], "accept", p, "none", valid)
<1>1. PICK valid \in Validity(s) :
        SendsAnswer(s, m(valid)) /\ Set(s, Complete(Sent(mme[s], m(valid))), Answered(app[s], p))
  BY DEF Accepts
<1>2. valid \in BOOLEAN /\ "none" \in Assignment
  BY DEF Validity, Assignment
<1>3. m(valid) \in Message
  BY <1>2, MsgType DEF Accepts, Fits
<1>4. Answers(s, p) /\ Fits(mme[s], types)
  BY DEF Accepts
<1> HIDE DEF m
<1> QED
  BY <1>1, <1>3, <1>4, AnswerKeeps

LEMMA ResponseKeeps ==
    ASSUME IndInv, NEW s \in Side, NEW p \in Procedure, NEW types, Response(s, p, types)
    PROVE  IndInv'
  BY IgnoresKeeps, RejectsKeeps, AcceptsKeeps DEF Response

\* MM_INFO-res may come when there is no current procedure.
LEMMA InfoResKeeps ==
    ASSUME IndInv, NEW s \in Side, InfoRes(s)
    PROVE  IndInv'
<1> DEFINE p == "PARAMETER_RETRIEVAL"
<1>1. p \in Procedure
  BY DEF Procedure
<1>2. CASE Accepts(s, p, {p}) \/ Rejects(s, p, {p})
  BY <1>1, <1>2, RejectsKeeps, AcceptsKeeps
<1>3. CASE Answers(s, p) /\ UNCHANGED net /\ Set(s, mme[s], Answered(app[s], p))
  <2>1. /\ EndpointOK(mme[s]) /\ net \in Networks /\ up \in [Side -> BOOLEAN]
        /\ Answered(app[s], p) \in Account /\ UNCHANGED up
    BY <1>3, SideFacts, AccountType DEF Answers
  <2> QED BY <1>3, <2>1, SetKeeps
<1> QED
  BY <1>2, <1>3 DEF InfoRes

\* MM_CIPHER-res
LEMMA CipherResKeeps ==
    ASSUME IndInv, NEW s \in Side, CipherRes(s)
    PROVE  IndInv'
<1> DEFINE p == "CIPHER"
           m == Msg(mme[s], "encrypted", p, "none", TRUE)
<1>1. p \in Procedure
  BY DEF Procedure
<1>2. CASE Rejects(s, p, {p}) \/ Ignores(s, p, {p})
  BY <1>1, <1>2, RejectsKeeps, IgnoresKeeps
<1>3. CASE /\ Answers(s, p) /\ Fits(mme[s], {p}) /\ SendsAnswer(s, m)
           /\ Set(s, Complete(mme[s]), Answered(app[s], p))
  <2>1. m \in Message
    BY <1>1, <1>3, MsgType DEF Fits, Assignment
  <2> HIDE DEF m
  <2> QED BY <1>1, <1>3, <2>1, AnswerKeeps
<1> QED
  BY <1>2, <1>3 DEF CipherRes

\* The current procedure, a location registration, becomes an assignment: what
\* has its transaction keeps it.
LEMMA ReassignedOK ==
    ASSUME NEW e, EndpointOK(e), NEW m \in Message, Fits(e, {"LOCATION_REGISTRATION"})
    PROVE  EndpointOK([Sent(e, m) EXCEPT !.slot[e.current].type = "TEMPORARY_IDENTITY_ASSIGNMENT"])
<1> DEFINE r == e.current
           t == "TEMPORARY_IDENTITY_ASSIGNMENT"
           d == Sent(e, m)
           f == [d EXCEPT !.slot[r].type = t]
<1>1. e \in Endpoint /\ r \in Role /\ e.slot[r].type = "LOCATION_REGISTRATION" /\ r # "NONE"
  BY DEF EndpointOK, Fits, Role
<1>2. IsOpen(e, r)
  BY <1>1 DEF EndpointOK, Role, Busy, Answering, OnKnown
<1>3. d \in Endpoint /\ d.slot = e.slot /\ d.open = e.open /\ d.current = r
  <2>1. d = [e EXCEPT !.mb = IF e.current = "INITIATOR" THEN m ELSE @]
    BY <1>1, <1>2 DEF Sent
  <2>2. d \in Endpoint
    BY SentOK DEF EndpointOK
  <2> QED BY <1>1, <2>1, <2>2 DEF Endpoint
<1>4. f.slot = [e.slot EXCEPT ![r].type = t] /\ f.open = e.open /\ f.current = r
  BY <1>3 DEF Endpoint
<1>5. f \in Endpoint
  <2>1. f.slot \in [Role -> Slot]
    <3>1. e.slot \in [Role -> Slot] /\ e.slot[r] \in Slot /\ t \in Procedure
      BY <1>1 DEF Endpoint, Procedure
    <3>2. [e.slot[r] EXCEPT !.type = t] \in Slot
      BY <3>1 DEF Slot
    <3> QED BY <1>4, <3>1, <3>2
  <2> QED BY <1>3, <2>1 DEF Endpoint
<1>6. \A q \in Role : /\ f.slot[q].priority = e.slot[q].priority
                      /\ f.slot[q].type = IF q = r THEN t ELSE e.slot[q].type
  BY <1>1, <1>4 DEF Endpoint, Slot
<1>7. \A q \in Role : Busy(f, q) <=> Busy(e, q)
  BY <1>1, <1>6 DEF Busy
<1>8. Urgent(f)
  <2>1. Opposite(r) \in Role
    BY DEF Opposite, Role
  <2> QED BY <1>1, <1>4, <1>6, <1>7, <2>1 DEF EndpointOK, Urgent
<1>9. (Busy(f, "INITIATOR") <=> IsOpen(f, "INITIATOR")) /\ (Answering(f) => IsOpen(f, "RESPONDER"))
  <2>1. \A q : IsOpen(f, q) <=> IsOpen(e, q)
    BY <1>4 DEF IsOpen
  <2>2. CASE r = "RESPONDER"
    BY <1>2, <1>7, <2>1, <2>2 DEF EndpointOK, Role
  <2>3. CASE r = "INITIATOR"
    <3>1. Answering(f) <=> Answering(e)
      BY <1>6, <2>3 DEF Answering, Role
    <3> QED BY <1>7, <2>1, <3>1 DEF EndpointOK, Role
  <2> QED BY <1>1, <2>2, <2>3 DEF Role
<1> HIDE DEF f
<1> QED
  BY <1>5, <1>8, <1>9 DEF EndpointOK, f

\* MM_LOCATE-res
LEMMA LocateResKeeps ==
    ASSUME IndInv, NEW s \in Side, LocateRes(s)
    PROVE  IndInv'
<1> DEFINE p == "LOCATION_REGISTRATION"
           t == "TEMPORARY_IDENTITY_ASSIGNMENT"
           e == mme[s]
           a == Answered(app[s], p)
           m(assign) == Msg(e, "accept", p, assign, TRUE)
<1>1. p \in Procedure /\ t \in Procedure
  BY DEF Procedure
<1>2. /\ EndpointOK(e) /\ net \in Networks /\ up \in [Side -> BOOLEAN]
      /\ a \in Account /\ Asks(a, t) \in Account
  BY <1>1, SideFacts, AccountType
<1>3. CASE Rejects(s, p, {p}) \/ Ignores(s, p, {p})
  BY <1>1, <1>3, RejectsKeeps, IgnoresKeeps
<1>4. CASE /\ Answers(s, p) /\ Fits(e, {p})
           /\ \E assign \in Assigns :
                /\ net' = Delivered(s, m(assign))
                /\ IF assign = "none" THEN Set(s, Complete(Sent(e, m(assign))), a)
                   ELSE Set(s, [Sent(e, m(assign)) EXCEPT !.slot[e.current].type = t], Asks(a, t))
  <2>1. PICK assign \in Assigns :
                /\ net' = Delivered(s, m(assign))
                /\ IF assign = "none" THEN Set(s, Complete(Sent(e, m(assign))), a)
                   ELSE Set(s, [Sent(e, m(assign)) EXCEPT !.slot[e.current].type = t], Asks(a, t))
    BY <1>4
  <2>2. m(assign) \in Message
    <3>1. assign \in Assignment /\ e.current \in Role
      BY <1>4, MobilityManagementAssumption DEF Fits
    <3> QED BY <1>1, <3>1, MsgType
  <2>3. EndpointOK(Complete(Sent(e, m(assign))))
    BY <1>2, <2>2, SentOK, CompleteOK
  <2>4. EndpointOK([Sent(e, m(assign)) EXCEPT !.slot[e.current].type = t])
    BY <1>2, <1>4, <2>2, ReassignedOK
  <2>5. net' \in Networks /\ UNCHANGED up
    BY <1>2, <1>4, <2>1, <2>2, DeliveredType DEF Answers
  <2> HIDE DEF m, a, e
  <2> QED BY <1>2, <2>1, <2>3, <2>4, <2>5, SetKeeps
<1>5. CASE Answers(s, p) /\ Set(s, Complete(e), a) /\ UNCHANGED net
  <2>1. EndpointOK(Complete(e)) /\ UNCHANGED up
    BY <1>2, <1>5, CompleteOK DEF Answers
  <2> QED BY <1>2, <1>5, <2>1, SetKeeps
<1> QED
  BY <1>3, <1>4, <1>5 DEF LocateRes

\* MM_IDENTITY_ASSIGN-res
LEMMA IdentityAssignResKeeps ==
    ASSUME IndInv, NEW s \in Side, IdentityAssignRes(s)
    PROVE  IndInv'
<1> DEFINE p == "TEMPORARY_IDENTITY_ASSIGNMENT"
           why == IF mme[s].slot[mme[s].current].iec = "nwk" THEN "assert" ELSE "null"
<1>1. p \in Procedure
  BY DEF Procedure
<1>2. CASE Rejects(s, p, {p}) \/ Ignores(s, p, {p}) \/ Accepts(s, p, {p})
  BY <1>1, <1>2, RejectsKeeps, IgnoresKeeps, AcceptsKeeps
<1>3. CASE Answers(s, p) /\ Set(s, Crash(why), app[s]) /\ UNCHANGED net
  <2>1. EndpointOK(Crash(why))
    BY CrashOK
  <2>2. net \in Networks /\ up \in [Side -> BOOLEAN] /\ app[s] \in Account /\ UNCHANGED up
    BY <1>3, SideFacts DEF Answers
  <2> HIDE DEF why
  <2> QED BY <1>3, <2>1, <2>2, SetKeeps
<1> QED
  BY <1>2, <1>3 DEF IdentityAssignRes

\* Every response of the application.
LEMMA RespondingKeeps ==
    ASSUME IndInv, NEW s \in Side, Responding(s)
    PROVE  IndInv'
<1>1. CASE AuthenticateRes(s) \/ AccessRightsRes(s) \/ AccessRightsTerminateRes(s)
  BY <1>1, ResponseKeeps DEF AuthenticateRes, AccessRightsRes, AccessRightsTerminateRes, Procedure
<1>2. CASE IdentityRes(s)
  BY <1>2, AcceptsKeeps, IgnoresKeeps DEF IdentityRes, Procedure
<1> QED
  BY <1>1, <1>2, InfoResKeeps, CipherResKeeps, LocateResKeeps, IdentityAssignResKeeps DEF Responding

-----------------------------------------------------------------------------
(* Messages that request something *)

\* What a handler of a request may rely on.
LEMMA RequestFacts ==
    ASSUME IndInv, NEW s \in Side, NEW p \in Procedure, ReceivesRequest(s, p)
    PROVE  /\ EndpointOK(Opened(s)) /\ app[s] \in Account
           /\ up' \in [Side -> BOOLEAN] /\ [net EXCEPT ![s] = Tail(@)] \in Networks
           /\ \A m \in Message : [Delivered(s, m) EXCEPT ![s] = Tail(@)] \in Networks
           /\ Opened(s).crash = "no" => p \in OnKnown \/ IsOpen(Opened(s), "RESPONDER")
<1>1. Running /\ net[s] # <<>> /\ UNCHANGED up /\ (Known(s) => p \in OnKnown)
  BY DEF ReceivesRequest, Receives, Handles
<1> QED
  BY <1>1, OpenedOK, ReceivedType, SideFacts

\* The procedure is entered.
LEMMA TakenFacts ==
    ASSUME IndInv, NEW s \in Side, NEW p \in Procedure, NEW valid, Taken(s, p, valid),
           NEW iec \in {"none", "request"}
    PROVE  /\ ReceivesRequest(s, p)
           /\ EndpointOK(Respond(s, Opened(s), p))
           /\ EndpointOK([Respond(s, Opened(s), p) EXCEPT !.slot["RESPONDER"].iec = iec])
           /\ Msg(Respond(s, Opened(s), p), "reject", p, "none", TRUE) \in Message
<1>1. ReceivesRequest(s, p) /\ Opened(s).crash = "no" /\ MayRespond(s, Opened(s), p)
  BY DEF Taken
<1>2. EndpointOK(Opened(s)) /\ (p \in OnKnown \/ IsOpen(Opened(s), "RESPONDER"))
  BY <1>1, RequestFacts
<1>3. /\ EndpointOK(Respond(s, Opened(s), p)) /\ Respond(s, Opened(s), p).current = "RESPONDER"
      /\ EndpointOK([Respond(s, Opened(s), p) EXCEPT !.slot["RESPONDER"].iec = iec])
  BY <1>1, <1>2, RespondOK
<1>4. "none" \in Assignment /\ "RESPONDER" \in Role
  BY DEF Assignment, Role
<1> QED
  BY <1>1, <1>3, <1>4, MsgType

LEMMA RefusedKeeps ==
    ASSUME IndInv, NEW s \in Side, NEW p \in Procedure, Refused(s, p)
    PROVE  IndInv'
  BY RequestFacts, SetKeeps DEF Refused, Consumed

LEMMA IndicatesKeeps ==
    ASSUME IndInv, NEW s \in Side, NEW p \in Procedure, NEW iec \in {"none", "request"}, Indicates(s, p, iec)
    PROVE  IndInv'
<1>1. Taken(s, p, TRUE)
  BY DEF Indicates
<1>2. Indicated(app[s], p) \in Account
  BY SideFacts, AccountType
<1>3. EndpointOK([Respond(s, Opened(s), p) EXCEPT !.slot["RESPONDER"].iec = iec]) /\ ReceivesRequest(s, p)
  BY <1>1, TakenFacts
<1>4. net' \in Networks /\ up' \in [Side -> BOOLEAN]
  BY <1>3, RequestFacts DEF Indicates, Consumed
<1> QED
  BY <1>2, <1>3, <1>4, SetKeeps DEF Indicates

LEMMA DropsRequestKeeps ==
    ASSUME IndInv, NEW s \in Side, NEW p \in Procedure, DropsRequest(s, p)
    PROVE  IndInv'
<1>1. Taken(s, p, FALSE)
  BY DEF DropsRequest
<1>2. EndpointOK(Complete(Respond(s, Opened(s), p))) /\ ReceivesRequest(s, p)
  BY <1>1, TakenFacts, CompleteOK
<1>3. net' \in Networks /\ up' \in [Side -> BOOLEAN] /\ app[s] \in Account
  BY <1>2, RequestFacts DEF DropsRequest, Consumed
<1> QED
  BY <1>2, <1>3, SetKeeps DEF DropsRequest

LEMMA RejectsRequestKeeps ==
    ASSUME IndInv, NEW s \in Side, NEW p \in Procedure, RejectsRequest(s, p)
    PROVE  IndInv'
<1> DEFINE e == Respond(s, Opened(s), p)
           m == Msg(e, "reject", p, "none", TRUE)
<1>1. Taken(s, p, FALSE)
  BY DEF RejectsRequest
<1>2. EndpointOK(e) /\ m \in Message /\ ReceivesRequest(s, p)
  BY <1>1, TakenFacts
<1>3. EndpointOK(Complete(Sent(e, m)))
  BY <1>2, SentOK, CompleteOK
<1>4. /\ net' = [Delivered(s, m) EXCEPT ![s] = Tail(@)]
      /\ Set(s, Complete(Sent(e, m)), app[s])
  BY DEF RejectsRequest
<1>5. net' \in Networks /\ up' \in [Side -> BOOLEAN] /\ app[s] \in Account
  BY <1>2, <1>4, RequestFacts
<1> HIDE DEF e, m
<1> QED
  BY <1>3, <1>4, <1>5, SetKeeps

LEMMA RcvRequestKeeps ==
    ASSUME IndInv, NEW s \in Side, NEW p \in Procedure, NEW iec \in {"none", "request"},
           RcvRequest(s, p, iec) \/ RcvIdentifiedRequest(s, p, iec)
    PROVE  IndInv'
  BY RefusedKeeps, IndicatesKeeps, DropsRequestKeeps, RejectsRequestKeeps
  DEF RcvRequest, RcvIdentifiedRequest

\* dect_mm_rcv_authentication_request
LEMMA RcvAuthenticationRequestKeeps ==
    ASSUME IndInv, NEW s \in Side, RcvAuthenticationRequest(s)
    PROVE  IndInv'
<1> DEFINE p == "AUTHENTICATE"
           own == Opened(s).slot["INITIATOR"].type = "KEY_ALLOCATION"
           e == IF own THEN Opened(s) ELSE Respond(s, Opened(s), p)
           m == Msg(e, "reject", p, "none", TRUE)
<1>1. p \in Procedure /\ ReceivesRequest(s, p)
  BY DEF RcvAuthenticationRequest, Procedure
<1>2. /\ EndpointOK(Opened(s)) /\ app[s] \in Account
      /\ up' \in [Side -> BOOLEAN] /\ [net EXCEPT ![s] = Tail(@)] \in Networks
      /\ \A x \in Message : [Delivered(s, x) EXCEPT ![s] = Tail(@)] \in Networks
  BY <1>1, RequestFacts
<1>3. CASE Consumed(s) /\ Set(s, Opened(s), app[s])
  BY <1>2, <1>3, SetKeeps DEF Consumed
<1>4. CASE Refused(s, p) \/ Indicates(s, p, "none")
  BY <1>1, <1>4, RefusedKeeps, IndicatesKeeps
<1>5. CASE own /\ Consumed(s) /\ Set(s, e, Indicated([app[s] EXCEPT !.asked = @ \ {p}], p))
  <2>1. Indicated([app[s] EXCEPT !.asked = @ \ {p}], p) \in Account
    BY <1>1, <1>2, AccountType
  <2>2. EndpointOK(e)
    BY <1>2, <1>5
  <2> HIDE DEF e
  <2> QED BY <1>2, <1>5, <2>1, <2>2, SetKeeps DEF Consumed
<1>6. CASE /\ own \/ Taken(s, p, FALSE)
           /\ net' = [Delivered(s, m) EXCEPT ![s] = Tail(@)]
           /\ Set(s, Sent(e, m), app[s])
  <2>1. EndpointOK(e) /\ m \in Message
    <3>1. CASE own
      <4>1. EndpointOK(e) /\ e.current \in Role
        BY <1>2, <3>1 DEF EndpointOK, Urgent, Busy, Endpoint, Role
      <4> QED BY <1>1, <4>1, MsgType DEF Assignment
    <3>2. CASE ~ own
      BY <1>1, <1>6, <3>2, TakenFacts
    <3> QED BY <3>1, <3>2
  <2>2. EndpointOK(Sent(e, m)) /\ net' \in Networks
    BY <1>2, <1>6, <2>1, SentOK
  <2> HIDE DEF e, m
  <2> QED BY <1>2, <1>6, <2>2, SetKeeps
<1> QED
  BY <1>3, <1>4, <1>5, <1>6 DEF RcvAuthenticationRequest

\* dect_mm_rcv_detach
LEMMA RcvDetachKeeps ==
    ASSUME IndInv, NEW s \in Side, RcvDetach(s)
    PROVE  IndInv'
<1>1. "DETACH" \in Procedure
  BY DEF Procedure
<1>2. CASE Refused(s, "DETACH") \/ DropsRequest(s, "DETACH")
  BY <1>1, <1>2, RefusedKeeps, DropsRequestKeeps
<1>3. CASE /\ Taken(s, "DETACH", TRUE) /\ Consumed(s)
           /\ Set(s, Complete(Complete(Respond(s, Opened(s), "DETACH"))), app[s])
  <2>1. EndpointOK(Complete(Complete(Respond(s, Opened(s), "DETACH")))) /\ ReceivesRequest(s, "DETACH")
    BY <1>1, <1>3, TakenFacts, CompleteOK
  <2>2. net' \in Networks /\ up' \in [Side -> BOOLEAN] /\ app[s] \in Account
    BY <1>1, <1>3, <2>1, RequestFacts DEF Consumed
  <2> QED BY <1>3, <2>1, <2>2, SetKeeps
<1> QED
  BY <1>2, <1>3 DEF RcvDetach

\* dect_mm_rcv_info_suggest
LEMMA RcvInfoSuggestKeeps ==
    ASSUME IndInv, NEW s \in Side, RcvInfoSuggest(s)
    PROVE  IndInv'
<1>1. /\ ReceivesRequest(s, "PARAMETER_RETRIEVAL") /\ Consumed(s)
      /\ Set(s, Complete(Opened(s)), app[s]) \/ Set(s, Opened(s), app[s])
  BY DEF RcvInfoSuggest
<1>2. /\ EndpointOK(Opened(s)) /\ app[s] \in Account
      /\ up' \in [Side -> BOOLEAN] /\ net' \in Networks
  BY <1>1, RequestFacts DEF Consumed, Procedure
<1> QED
  BY <1>1, <1>2, CompleteOK, SetKeeps

-----------------------------------------------------------------------------
(* Messages that answer *)

\* What a handler of any message may rely on.
LEMMA ReceivesFacts ==
    ASSUME IndInv, NEW s \in Side, Receives(s), Consumed(s)
    PROVE  /\ EndpointOK(mme[s]) /\ app[s] \in Account /\ Head(net[s]) \in Message
           /\ up' \in [Side -> BOOLEAN] /\ net' \in Networks
<1>1. net[s] # <<>> /\ UNCHANGED up
  BY DEF Receives, Handles
<1> QED
  BY <1>1, SideFacts, ReceivedType DEF Consumed

LEMMA RcvIgnoredKeeps ==
    ASSUME IndInv, NEW s \in Side, RcvIgnored(s)
    PROVE  IndInv'
  BY ReceivesFacts, SameKeeps DEF RcvIgnored

LEMMA RcvAnswerKeeps ==
    ASSUME IndInv, NEW s \in Side, NEW p, NEW expected, RcvAnswer(s, p, expected)
    PROVE  IndInv'
<1>1. Receives(s) /\ Consumed(s)
  BY DEF RcvAnswer, ReceivesAnswer
<1>2. /\ EndpointOK(Complete(mme[s])) /\ Confirmed(app[s], p) \in Account
      /\ up' \in [Side -> BOOLEAN] /\ net' \in Networks
  BY <1>1, ReceivesFacts, CompleteOK, AccountType
<1> QED
  BY <1>2, SetKeeps, SameKeeps DEF RcvAnswer

\* dect_mm_rcv_locate_accept with an identity: the procedure becomes an assignment.
LEMMA AssignedOK ==
    ASSUME NEW e, EndpointOK(e), Busy(e, "INITIATOR"), NEW iec \in {"tpui", "nwk"}
    PROVE  EndpointOK([e EXCEPT !.slot["INITIATOR"].type = "TEMPORARY_IDENTITY_ASSIGNMENT",
                                !.slot["INITIATOR"].iec  = iec])
<1> DEFINE t == "TEMPORARY_IDENTITY_ASSIGNMENT"
           f == [e EXCEPT !.slot["INITIATOR"].type = t, !.slot["INITIATOR"].iec = iec]
           slot == [e.slot["INITIATOR"] EXCEPT !.type = t, !.iec = iec]
<1>1. e \in Endpoint /\ e.slot \in [Role -> Slot] /\ e.slot["INITIATOR"] \in Slot
  BY DEF EndpointOK, Endpoint, Role
<1>2. slot \in Slot /\ slot.type = t /\ slot.priority = e.slot["INITIATOR"].priority
  BY <1>1 DEF Slot, Procedure
<1>3. f.slot = [e.slot EXCEPT !["INITIATOR"] = slot] /\ f.open = e.open /\ f.current = e.current
  BY <1>1 DEF Endpoint
<1>4. f \in Endpoint
  <2>1. f.slot \in [Role -> Slot]
    BY <1>1, <1>2, <1>3
  <2> QED BY <1>1, <2>1 DEF Endpoint
<1>5. f.slot["INITIATOR"] = slot /\ f.slot["RESPONDER"] = e.slot["RESPONDER"]
  BY <1>1, <1>3 DEF Role
<1>6. \A q \in Role : (Busy(f, q) <=> Busy(e, q)) /\ f.slot[q].priority = e.slot[q].priority
  BY <1>2, <1>5 DEF Busy, Role
<1>7. (Answering(f) <=> Answering(e)) /\ (\A q : IsOpen(f, q) <=> IsOpen(e, q))
  BY <1>3, <1>5 DEF Answering, IsOpen
<1>8. Urgent(f)
  <2>1. f.current \in Role \cup {"NONE"} /\ Opposite(f.current) \in Role
    BY <1>4 DEF Endpoint, Opposite, Role
  <2> QED BY <1>3, <1>6, <2>1 DEF EndpointOK, Urgent
<1> HIDE DEF f
<1>9. EndpointOK(f)
  BY <1>4, <1>6, <1>7, <1>8 DEF EndpointOK, Role
<1> QED
  BY <1>9 DEF f

LEMMA RcvLocateAnswerKeeps ==
    ASSUME IndInv, NEW s \in Side, RcvLocateAnswer(s)
    PROVE  IndInv'
<1> DEFINE p == "LOCATION_REGISTRATION"
           t == "TEMPORARY_IDENTITY_ASSIGNMENT"
           e == [mme[s] EXCEPT !.slot["INITIATOR"].type = t,
                               !.slot["INITIATOR"].iec  = Head(net[s]).assign]
           a == Indicated(Confirmed(app[s], p), t)
<1>1. CASE RcvAnswer(s, p, Runs(s, "INITIATOR", p))
  BY <1>1, RcvAnswerKeeps
<1>2. CASE /\ ReceivesAnswer(s, p) /\ Consumed(s)
           /\ Head(net[s]).assign # "none" /\ Runs(s, "INITIATOR", p) /\ Set(s, e, a)
  <2>1. /\ EndpointOK(mme[s]) /\ app[s] \in Account /\ Head(net[s]) \in Message
        /\ up' \in [Side -> BOOLEAN] /\ net' \in Networks
    BY <1>2, ReceivesFacts DEF ReceivesAnswer
  <2>2. Head(net[s]).assign \in {"tpui", "nwk"} /\ Busy(mme[s], "INITIATOR")
    BY <1>2, <2>1 DEF Message, Assignment, Runs, Busy
  <2>3. EndpointOK(e)
    BY <2>1, <2>2, AssignedOK
  <2>4. a \in Account
    BY <2>1, AccountType DEF Procedure
  <2> HIDE DEF e, a
  <2> QED BY <1>2, <2>1, <2>3, <2>4, SetKeeps
<1> QED
  BY <1>1, <1>2 DEF RcvLocateAnswer

LEMMA RcvEncryptedKeeps ==
    ASSUME IndInv, NEW s \in Side, RcvEncrypted(s)
    PROVE  IndInv'
<1> DEFINE e == AllEncrypted(mme[s])
           a == IF e = mme[s] THEN app[s] ELSE Confirmed(app[s], "CIPHER")
<1>1. Receives(s) /\ Consumed(s) /\ Set(s, e, a)
  BY DEF RcvEncrypted
<1>2. /\ EndpointOK(mme[s]) /\ app[s] \in Account
      /\ up' \in [Side -> BOOLEAN] /\ net' \in Networks
  BY <1>1, ReceivesFacts
<1>3. EndpointOK(e) /\ a \in Account
  BY <1>2, AllOK, AccountType
<1> HIDE DEF e, a
<1> QED
  BY <1>1, <1>2, <1>3, SetKeeps

\* Every message.
LEMMA ReceiveKeeps ==
    ASSUME IndInv, NEW s \in Side, Receive(s)
    PROVE  IndInv'
<1> USE DEF Procedure
<1>1. CASE RcvKeyAllocate(s) \/ RcvIdentityRequest(s) \/ RcvCipherSuggest(s) \/ RcvCipherRequest(s)
  BY <1>1, RcvRequestKeeps, DropsRequestKeeps, RejectsRequestKeeps
  DEF RcvKeyAllocate, RcvIdentityRequest, RcvCipherSuggest, RcvCipherRequest
<1>2. CASE \/ RcvAccessRightsRequest(s) \/ RcvAccessRightsTerminateRequest(s) \/ RcvLocateRequest(s)
           \/ RcvTemporaryIdentityAssign(s) \/ RcvInfoRequest(s)
  BY <1>2, RcvRequestKeeps
  DEF RcvAccessRightsRequest, RcvAccessRightsTerminateRequest, RcvLocateRequest,
      RcvTemporaryIdentityAssign, RcvInfoRequest
<1>3. CASE \/ RcvAuthenticationAnswer(s) \/ RcvCipherReject(s) \/ RcvAccessRightsAnswer(s)
           \/ RcvAccessRightsTerminateAnswer(s) \/ RcvIdentityReply(s)
           \/ RcvTemporaryIdentityAssignAnswer(s) \/ RcvInfoAnswer(s)
  BY <1>3, RcvAnswerKeeps
  DEF RcvAuthenticationAnswer, RcvCipherReject, RcvAccessRightsAnswer,
      RcvAccessRightsTerminateAnswer, RcvIdentityReply, RcvTemporaryIdentityAssignAnswer, RcvInfoAnswer
<1> QED
  BY <1>1, <1>2, <1>3, RcvAuthenticationRequestKeeps, RcvDetachKeeps, RcvInfoSuggestKeeps,
     RcvIgnoredKeeps, RcvLocateAnswerKeeps, RcvEncryptedKeeps
  DEF Receive

-----------------------------------------------------------------------------
(* Timers and the link *)

\* dect_mm_procedure_timeout
LEMMA TimeoutKeeps ==
    ASSUME IndInv, NEW s \in Side, Timeout(s)
    PROVE  IndInv'
<1>1. /\ EndpointOK(mme[s]) /\ mme[s] \in Endpoint /\ net \in Networks
      /\ up \in [Side -> BOOLEAN] /\ app[s] \in Account
  BY SideFacts
<1>2. CASE Retransmit(s)
  <2> DEFINE e == [mme[s] EXCEPT !.retransmitted = TRUE]
  <2>1. EndpointOK(e)
    <3>1. e \in Endpoint /\ e.slot = mme[s].slot /\ e.open = mme[s].open /\ e.current = mme[s].current
      BY <1>1 DEF Endpoint
    <3> QED BY <1>1, <3>1 DEF EndpointOK, Urgent, Busy, Answering, IsOpen
  <2>2. net' \in Networks /\ UNCHANGED up
    <3>1. mme[s].mb # NoMessage => mme[s].mb \in Message
      BY <1>1 DEF Endpoint
    <3> QED BY <1>1, <1>2, <3>1, DeliveredType DEF Retransmit, Handles
  <2>3. Set(s, e, app[s])
    <3>1. app' = app /\ [app EXCEPT ![s] = app[s]] = app
      BY <1>2 DEF Retransmit, IndInv, TypeOK
    <3>2. mme' = [mme EXCEPT ![s].retransmitted = TRUE]
      BY <1>2 DEF Retransmit
    <3> QED BY <3>1, <3>2 DEF Set
  <2> HIDE DEF e
  <2> QED BY <1>1, <2>1, <2>2, <2>3, SetKeeps
<1>3. CASE GiveUp(s)
  <2> DEFINE e == [mme[s] EXCEPT !.timer = FALSE]
             a == Confirmed(app[s], mme[s].slot["INITIATOR"].type)
  <2>1. EndpointOK(e)
    <3>1. e \in Endpoint /\ e.slot = mme[s].slot /\ e.open = mme[s].open /\ e.current = mme[s].current
      BY <1>1 DEF Endpoint
    <3> QED BY <1>1, <3>1 DEF EndpointOK, Urgent, Busy, Answering, IsOpen
  <2>2. EndpointOK(Complete(e)) /\ a \in Account
    BY <1>1, <2>1, CompleteOK, AccountType
  <2>3. Set(s, Complete(e), a) /\ UNCHANGED <<net, up>>
    BY <1>3 DEF GiveUp, Handles
  <2> HIDE DEF e, a
  <2> QED BY <1>1, <2>2, <2>3, SetKeeps
<1> QED
  BY <1>2, <1>3 DEF Timeout

\* The failure of the link shuts every transaction down.
LEMMA LinkFailsKeeps ==
    ASSUME IndInv, NEW s \in Side, LinkFails(s)
    PROVE  IndInv'
<1> DEFINE e == ShutdownAll(mme[s])
           a == IF e.crash = "no" /\ Busy(mme[s], "INITIATOR")
                THEN Confirmed(app[s], mme[s].slot["INITIATOR"].type) ELSE app[s]
<1>1. EndpointOK(mme[s]) /\ net \in Networks /\ up \in [Side -> BOOLEAN] /\ app[s] \in Account
  BY SideFacts
<1>2. EndpointOK(e) /\ a \in Account
  BY <1>1, AllOK, AccountType
<1>3. /\ Set(s, e, a) /\ up' = [up EXCEPT ![s] = FALSE] /\ net' = [net EXCEPT ![s] = <<>>]
  BY DEF LinkFails
<1>4. net' \in Networks /\ up' \in [Side -> BOOLEAN]
  BY <1>1, <1>3 DEF Networks
<1> HIDE DEF e, a
<1> QED
  BY <1>2, <1>3, <1>4, SetKeeps

-----------------------------------------------------------------------------
(* The invariant, and what follows from it *)

LEMMA InitIndInv == Init => IndInv
<1> SUFFICES ASSUME Init PROVE IndInv
  OBVIOUS
<1>1. \A s \in Side : mme[s] = NewEndpoint
  BY DEF Init
<1>2. \A s \in Side : EndpointOK(mme[s])
  BY <1>1, NewOK
<1>3. mme \in [Side -> Endpoint]
  BY NewOK DEF Init, EndpointOK
<1>4. app \in [Side -> Account]
  BY DEF Init, Account
<1>5. net \in [Side -> Seq(Message)] /\ up \in [Side -> BOOLEAN]
  BY DEF Init
<1> QED
  BY <1>2, <1>3, <1>4, <1>5 DEF IndInv, TypeOK

LEMMA NextIndInv == IndInv /\ [Next]_vars => IndInv'
<1> SUFFICES ASSUME IndInv, [Next]_vars PROVE IndInv'
  OBVIOUS
<1>1. ASSUME NEW s \in Side, Requesting(s) \/ Responding(s) \/ Receive(s) \/ Timeout(s) \/ LinkFails(s)
      PROVE  IndInv'
  BY <1>1, RequestingKeeps, RespondingKeeps, ReceiveKeeps, TimeoutKeeps, LinkFailsKeeps
<1>2. CASE UNCHANGED vars
  BY <1>2 DEF vars, IndInv, TypeOK
<1> QED
  BY <1>1, <1>2 DEF Next

\* The inductive invariant of the endpoints.
THEOREM Invariance == Spec => []IndInv
  BY InitIndInv, NextIndInv, PTL DEF Spec

\* The state of mm.c keeps its types.
THEOREM TypeCorrect == Spec => []TypeOK
<1>1. IndInv => TypeOK
  BY DEF IndInv
<1> QED
  BY <1>1, Invariance, PTL

\* Whatever interrupts, ends or answers whatever, the current procedure of an
\* endpoint is its most urgent one, and there is one if there is any.
THEOREM CurrentIsMostUrgent == Spec => []CurrentMostUrgent
<1>1. IndInv => CurrentMostUrgent
  BY DEF IndInv, EndpointOK, Urgent, CurrentMostUrgent
<1> QED
  BY <1>1, Invariance, PTL

\* An initiated procedure and its transaction on the link come and go together.
THEOREM InitiatorTransaction == Spec => []InitiatorHasTransaction
<1>1. IndInv => InitiatorHasTransaction
  BY DEF IndInv, EndpointOK, InitiatorHasTransaction
<1> QED
  BY <1>1, Invariance, PTL

\* A request that is being answered has a transaction to answer on.
THEOREM ResponderTransaction == Spec => []ResponderHasTransaction
<1>1. IndInv => ResponderHasTransaction
  BY DEF IndInv, EndpointOK, Answering, ResponderHasTransaction
<1> QED
  BY <1>1, Invariance, PTL

-----------------------------------------------------------------------------
(***************************************************************************)
(* Part 2: a base station.  The fixed part authenticates, identifies,        *)
(* informs and terminates, and the portable part only answers.               *)
(*                                                                           *)
(* The invariant gives each side its part.  The fixed part runs one initiated *)
(* procedure or none (AskerOK), and exactly while it does, its timer runs    *)
(* and its application waits for the one confirmation.  The portable part    *)
(* answers one procedure or none (AnswererOK), and its application owes no   *)
(* other answer while the link stands.  Questions travel one way and replies *)
(* the other (Traffic), so that no handler takes an event of one procedure   *)
(* for the current one, which is another.                                    *)
(***************************************************************************)

\* procedures that are begun by a request and whose answers are checked
Checked == {"AUTHENTICATE", "IDENTIFICATION", "PARAMETER_RETRIEVAL", "ACCESS_RIGHTS_TERMINATE"}

BaseStation == Requests["FP"] \subseteq Checked /\ Requests["PP"] = {}

Questions == {m \in Message : m.kind = "request" /\ m.proc \in Checked /\ m.role = "INITIATOR"}

Replies == {m \in Message : m.kind \in {"accept", "reject"} /\ m.proc \in Checked /\ m.role = "RESPONDER"}

\* the endpoint of the fixed part, and its account
Asker(e) ==
    /\ e.crash = "no"
    /\ ~ Busy(e, "RESPONDER") /\ ~ IsOpen(e, "RESPONDER")
    /\ Busy(e, "INITIATOR") => e.slot["INITIATOR"].type \in Checked
    /\ e.timer <=> Busy(e, "INITIATOR")
    /\ e.mb \in Questions \cup {NoMessage}

Awaits(e, a) ==
    /\ a.asked = IF Busy(e, "INITIATOR") THEN {e.slot["INITIATOR"].type} ELSE {}
    /\ a.owes = {} /\ ~ a.stray

\* the endpoint of the portable part, and its account, with the link up or not
Answerer(e, link) ==
    /\ e.crash = "no" \/ (MayFail /\ e.crash = "null")
    /\ ~ Busy(e, "INITIATOR") /\ ~ e.timer
    /\ Busy(e, "RESPONDER") => /\ e.slot["RESPONDER"].type \in Checked
                               /\ IsOpen(e, "RESPONDER") /\ link
    /\ link \/ MayFail

Owes(e, a, link) ==
    /\ a.asked = {} /\ ~ a.stray
    /\ link /\ e.crash = "no" => a.owes \subseteq {e.slot["RESPONDER"].type}

Traffic == net["PP"] \in Seq(Questions) /\ net["FP"] \in Seq(Replies)

Parts ==
    /\ Asker(mme["FP"]) /\ Awaits(mme["FP"], app["FP"])
    /\ Answerer(mme["PP"], up["PP"]) /\ Owes(mme["PP"], app["PP"], up["PP"])
    /\ Traffic

PartsInv == IndInv /\ Parts

-----------------------------------------------------------------------------
(* The endpoint of the fixed part *)

\* What is current, and what is open, of a side that only asks.
LEMMA AskerFacts ==
    ASSUME NEW e, EndpointOK(e), Asker(e)
    PROVE  /\ e \in Endpoint
           /\ e.current = IF Busy(e, "INITIATOR") THEN "INITIATOR" ELSE "NONE"
           /\ e.open = IF Busy(e, "INITIATOR") THEN <<"INITIATOR">> ELSE <<>>
<1>1. e \in Endpoint /\ e.open \in Transactions /\ e.current \in {"INITIATOR", "RESPONDER", "NONE"}
  BY DEF EndpointOK, Endpoint, Role
<1>2. e.current = IF Busy(e, "INITIATOR") THEN "INITIATOR" ELSE "NONE"
  BY <1>1 DEF EndpointOK, Urgent, Asker, Role
<1>3. e.open = IF Busy(e, "INITIATOR") THEN <<"INITIATOR">> ELSE <<>>
  BY <1>1, OpenCases DEF EndpointOK, Asker
<1> QED
  BY <1>1, <1>2, <1>3

\* dect_mm_procedure_initiate
LEMMA AskerInitiates ==
    ASSUME NEW e, EndpointOK(e), Asker(e), NEW p \in Checked, MayInitiate("FP", e, p)
    PROVE  LET f == Initiate("FP", e, p) IN
           EndpointOK(f) /\ Asker(f) /\ f.slot["INITIATOR"].type = p
<1> DEFINE f == Initiate("FP", e, p)
<1>1. EndpointOK(f) /\ e \in Endpoint /\ f \in Endpoint
  BY AskerFacts, InitiateOK DEF Side, Checked, Procedure, EndpointOK
<1>2. /\ f.slot = [e.slot EXCEPT !["INITIATOR"] =
                     [type |-> p, priority |-> Priority("FP", p), iec |-> "none"]]
      /\ f.open = IF Busy(e, "INITIATOR") THEN e.open ELSE <<"INITIATOR">> \o e.open
      /\ f.timer = TRUE /\ f.mb = e.mb /\ f.crash = e.crash
  BY <1>1 DEF Initiate, Endpoint, Checked
<1>3. f.slot["INITIATOR"].type = p /\ f.slot["RESPONDER"] = e.slot["RESPONDER"]
  BY <1>1, <1>2 DEF Endpoint, Role
<1>4. Busy(f, "INITIATOR") /\ ~ Busy(f, "RESPONDER")
  BY <1>3 DEF Busy, Asker, Checked
<1>5. ~ IsOpen(f, "RESPONDER")
  <2>1. f.open = <<"INITIATOR">>
    <3>1. <<"INITIATOR">> \in Seq(Role)
      BY DEF Role
    <3> QED BY <1>2, <3>1, AskerFacts, ConcatEmptySeq
  <2> QED BY <2>1 DEF IsOpen
<1> QED
  BY <1>1, <1>2, <1>3, <1>4, <1>5 DEF Asker

\* dect_mm_send_msg, of a question
LEMMA AskerSends ==
    ASSUME NEW e, EndpointOK(e), Asker(e), Busy(e, "INITIATOR"), NEW m \in Questions
    PROVE  LET f == Sent(e, m) IN
           EndpointOK(f) /\ Asker(f) /\ f.slot = e.slot
<1> DEFINE f == Sent(e, m)
<1>1. e \in Endpoint /\ e.current = "INITIATOR" /\ IsOpen(e, "INITIATOR") /\ m \in Message
  BY AskerFacts DEF EndpointOK, Questions
<1>2. EndpointOK(f)
  BY <1>1, SentOK
<1>3. f = [e EXCEPT !.mb = m]
  BY <1>1 DEF Sent
<1>4. /\ f.slot = e.slot /\ f.open = e.open /\ f.timer = e.timer
      /\ f.mb = m /\ f.crash = e.crash
  BY <1>1, <1>3 DEF Endpoint
<1> QED
  BY <1>2, <1>4 DEF Asker, Busy, IsOpen

\* dect_mm_procedure_complete: what was asked is over, whether its timer has
\* been stopped before or not.
LEMMA AskerCompletes ==
    ASSUME NEW e, EndpointOK(e), Asker(e), Busy(e, "INITIATOR"), NEW t \in BOOLEAN
    PROVE  LET f == Complete([e EXCEPT !.timer = t]) IN
           EndpointOK(f) /\ Asker(f) /\ ~ Busy(f, "INITIATOR")
<1> DEFINE d == [e EXCEPT !.timer = t]
           f == Complete(d)
<1>1. e \in Endpoint /\ e.current = "INITIATOR" /\ IsOpen(e, "INITIATOR")
  BY AskerFacts DEF EndpointOK
<1>2. /\ d \in Endpoint /\ d.slot = e.slot /\ d.open = e.open /\ d.current = "INITIATOR"
      /\ d.crash = "no"
  BY <1>1 DEF Endpoint, Asker
<1>3. EndpointOK(d) /\ (\A r : (Busy(d, r) <=> Busy(e, r)) /\ (IsOpen(d, r) <=> IsOpen(e, r)))
  BY <1>1, <1>2 DEF EndpointOK, Urgent, Busy, Answering, IsOpen
<1>4. EndpointOK(f) /\ f \in Endpoint
  BY <1>3, CompleteOK DEF EndpointOK
<1>5. /\ f.slot = [d.slot EXCEPT !["INITIATOR"] = FreeSlot] /\ f.open = <<>>
      /\ f.timer = FALSE /\ f.mb = NoMessage /\ f.crash = "no"
  <2>1. Opposite("INITIATOR") = "RESPONDER" /\ ~ IsOpen(d, "RESPONDER")
    BY <1>3 DEF Opposite, Asker
  <2> HIDE DEF d
  <2> QED BY <1>1, <1>2, <1>3, <2>1 DEF Complete, Endpoint
<1>6. ~ Busy(f, "INITIATOR") /\ ~ Busy(f, "RESPONDER")
  <2>1. f.slot["INITIATOR"] = FreeSlot /\ f.slot["RESPONDER"] = e.slot["RESPONDER"]
    BY <1>1, <1>2, <1>5 DEF Endpoint, Role
  <2> QED BY <2>1 DEF Busy, FreeSlot, Asker
<1>7. ~ IsOpen(f, "RESPONDER")
  BY <1>5 DEF IsOpen
<1> HIDE DEF f
<1>8. Asker(f)
  BY <1>5, <1>6, <1>7 DEF Asker
<1> QED
  BY <1>4, <1>6, <1>8 DEF f

-----------------------------------------------------------------------------
(* The endpoint of the portable part *)

LEMMA AnswererFacts ==
    ASSUME NEW e, EndpointOK(e), NEW link \in BOOLEAN, Answerer(e, link)
    PROVE  /\ e \in Endpoint
           /\ e.current = IF Busy(e, "RESPONDER") THEN "RESPONDER" ELSE "NONE"
           /\ e.open = IF IsOpen(e, "RESPONDER") THEN <<"RESPONDER">> ELSE <<>>
<1>1. e \in Endpoint /\ e.open \in Transactions /\ e.current \in {"INITIATOR", "RESPONDER", "NONE"}
  BY DEF EndpointOK, Endpoint, Role
<1>2. e.current = IF Busy(e, "RESPONDER") THEN "RESPONDER" ELSE "NONE"
  BY <1>1 DEF EndpointOK, Urgent, Answerer, Role
<1>3. e.open = IF IsOpen(e, "RESPONDER") THEN <<"RESPONDER">> ELSE <<>>
  BY <1>1, OpenCases DEF EndpointOK, Answerer
<1> QED
  BY <1>1, <1>2, <1>3

\* A process that has died of a missing procedure, after a failure of the link
LEMMA AnswererDies ==
    ASSUME MayFail, NEW link \in BOOLEAN
    PROVE  Answerer(Crash("null"), link)
<1>1. /\ Crash("null").slot = [r \in Role |-> FreeSlot] /\ Crash("null").timer = FALSE
      /\ Crash("null").crash = "null"
  BY DEF Crash, NewEndpoint
<1>2. ~ Busy(Crash("null"), "INITIATOR") /\ ~ Busy(Crash("null"), "RESPONDER")
  BY <1>1 DEF Busy, FreeSlot, Role
<1> QED
  BY <1>1, <1>2 DEF Answerer

\* dect_mm_procedure_respond, with the contents kept
LEMMA AnswererResponds ==
    ASSUME NEW e, EndpointOK(e), Answerer(e, TRUE), e.crash = "no", IsOpen(e, "RESPONDER"),
           NEW p \in Checked, MayRespond("PP", e, p)
    PROVE  LET f == Respond("PP", e, p) IN
           /\ EndpointOK(f) /\ Answerer(f, TRUE) /\ f.crash = "no" /\ f.slot["RESPONDER"].type = p
           /\ f.current = "RESPONDER" /\ IsOpen(f, "RESPONDER")
           /\ [f EXCEPT !.slot["RESPONDER"].iec = "none"] = f
<1> DEFINE f == Respond("PP", e, p)
<1>1. EndpointOK(f) /\ e \in Endpoint /\ f \in Endpoint /\ f.current = "RESPONDER"
  <2>1. "PP" \in Side /\ p \in Procedure /\ "none" \in {"none", "request"}
    BY DEF Side, Checked, Procedure
  <2>2. EndpointOK(f) /\ f.current = "RESPONDER"
    BY <2>1, RespondOK
  <2> QED BY <2>2 DEF EndpointOK
<1>2. /\ f.slot = [e.slot EXCEPT !["RESPONDER"] =
                     [type |-> p, priority |-> Priority(Other("PP"), p), iec |-> "none"]]
      /\ f.open = e.open /\ f.timer = e.timer /\ f.crash = e.crash
  BY <1>1 DEF Respond, Endpoint
<1>3. f.slot["RESPONDER"] = [type |-> p, priority |-> Priority(Other("PP"), p), iec |-> "none"]
        /\ f.slot["INITIATOR"] = e.slot["INITIATOR"]
  BY <1>1, <1>2 DEF Endpoint, Role
<1>4. ~ Busy(f, "INITIATOR") /\ IsOpen(f, "RESPONDER") /\ f.slot["RESPONDER"].type = p
  BY <1>2, <1>3 DEF Busy, IsOpen, Answerer
<1>5. Answerer(f, TRUE)
  BY <1>2, <1>4 DEF Answerer
<1>6. [f EXCEPT !.slot["RESPONDER"].iec = "none"] = f
  <2>1. [f.slot["RESPONDER"] EXCEPT !.iec = "none"] = f.slot["RESPONDER"]
    BY <1>3
  <2>2. [f.slot EXCEPT !["RESPONDER"].iec = "none"] = f.slot
    BY <1>1, <2>1 DEF Endpoint
  <2> HIDE DEF f
  <2> QED BY <1>1, <2>2 DEF Endpoint
<1> QED
  BY <1>1, <1>2, <1>4, <1>5, <1>6

\* dect_mm_send_msg: an answer is not kept.
LEMMA AnswererSends ==
    ASSUME NEW e, EndpointOK(e), NEW link \in BOOLEAN, Answerer(e, link), Busy(e, "RESPONDER"), NEW m
    PROVE  Sent(e, m) = e
<1>1. e \in Endpoint /\ e.current = "RESPONDER" /\ IsOpen(e, "RESPONDER")
  BY AnswererFacts DEF Answerer
<1>2. [e EXCEPT !.mb = e.mb] = e
  BY <1>1 DEF Endpoint
<1> QED
  BY <1>1, <1>2 DEF Sent

\* dect_mm_procedure_complete
LEMMA AnswererCompletes ==
    ASSUME NEW e, EndpointOK(e), NEW link \in BOOLEAN, Answerer(e, link), e.crash = "no",
           Busy(e, "RESPONDER"), NEW later \in BOOLEAN, later \/ MayFail
    PROVE  LET f == Complete(e) IN
           EndpointOK(f) /\ Answerer(f, later) /\ f.crash = "no" /\ ~ Busy(f, "RESPONDER")
<1> DEFINE f == Complete(e)
<1>1. e \in Endpoint /\ e.current = "RESPONDER" /\ IsOpen(e, "RESPONDER") /\ EndpointOK(f)
  BY AnswererFacts, CompleteOK DEF Answerer
<1>2. f.slot = [e.slot EXCEPT !["RESPONDER"] = FreeSlot] /\ f.timer = e.timer /\ f.crash = "no"
  BY <1>1 DEF Complete, Endpoint
<1>3. ~ Busy(f, "INITIATOR") /\ ~ Busy(f, "RESPONDER")
  <2>1. f.slot["RESPONDER"] = FreeSlot /\ f.slot["INITIATOR"] = e.slot["INITIATOR"]
    BY <1>1, <1>2 DEF Endpoint, Role
  <2> QED BY <2>1 DEF Busy, FreeSlot, Answerer
<1> QED
  BY <1>1, <1>2, <1>3 DEF Answerer

-----------------------------------------------------------------------------
(* Steps of the two parts *)

LEMMA PartsFacts ==
    ASSUME PartsInv
    PROVE  /\ \A s \in Side : /\ EndpointOK(mme[s]) /\ app[s] \in Account
           /\ mme \in [Side -> Endpoint] /\ app \in [Side -> Account]
           /\ net \in Networks /\ up \in [Side -> BOOLEAN]
           /\ Asker(mme["FP"]) /\ Awaits(mme["FP"], app["FP"])
           /\ Answerer(mme["PP"], up["PP"]) /\ Owes(mme["PP"], app["PP"], up["PP"])
           /\ net["PP"] \in Seq(Questions) /\ net["FP"] \in Seq(Replies)
<1>1. \A s \in Side : EndpointOK(mme[s]) /\ app[s] \in Account
  BY SideFacts DEF PartsInv
<1> QED
  BY <1>1 DEF PartsInv, Parts, IndInv, TypeOK, Networks, Traffic

\* A step of the fixed part
LEMMA FixedKeeps ==
    ASSUME PartsInv, NEW e, NEW a, Set("FP", e, a), Asker(e), Awaits(e, a),
           up'["PP"] = up["PP"], Traffic'
    PROVE  Parts'
<1>1. /\ mme' = [mme EXCEPT !["FP"] = e] /\ app' = [app EXCEPT !["FP"] = a]
      /\ mme \in [Side -> Endpoint] /\ app \in [Side -> Account]
  BY PartsFacts DEF Set
<1>2. mme'["FP"] = e /\ app'["FP"] = a /\ mme'["PP"] = mme["PP"] /\ app'["PP"] = app["PP"]
  BY <1>1 DEF Side
<1>3. Answerer(mme'["PP"], up'["PP"]) /\ Owes(mme'["PP"], app'["PP"], up'["PP"])
  BY <1>2, PartsFacts
<1>4. Asker(mme'["FP"]) /\ Awaits(mme'["FP"], app'["FP"])
  BY <1>2
<1> QED
  BY <1>3, <1>4 DEF Parts

\* A step of the portable part
LEMMA PortableKeeps ==
    ASSUME PartsInv, NEW e, NEW a, Set("PP", e, a), Answerer(e, up'["PP"]), Owes(e, a, up'["PP"]),
           Traffic'
    PROVE  Parts'
<1>1. /\ mme' = [mme EXCEPT !["PP"] = e] /\ app' = [app EXCEPT !["PP"] = a]
      /\ mme \in [Side -> Endpoint] /\ app \in [Side -> Account]
  BY PartsFacts DEF Set
<1>2. mme'["PP"] = e /\ app'["PP"] = a /\ mme'["FP"] = mme["FP"] /\ app'["FP"] = app["FP"]
  BY <1>1 DEF Side
<1>3. Asker(mme'["FP"]) /\ Awaits(mme'["FP"], app'["FP"])
  BY <1>2, PartsFacts
<1>4. Answerer(mme'["PP"], up'["PP"]) /\ Owes(mme'["PP"], app'["PP"], up'["PP"])
  BY <1>2
<1> QED
  BY <1>3, <1>4 DEF Parts

\* What is sent, and what is read, goes the right way.
LEMMA TrafficKeeps ==
    ASSUME PartsInv
    PROVE  /\ net' = net => Traffic'
           /\ \A m \in Questions : net' = Delivered("FP", m) => Traffic'
           /\ \A m \in Replies : net' = Delivered("PP", m) => Traffic'
           /\ \A s \in Side : net[s] # <<>> /\ net' = [net EXCEPT ![s] = Tail(@)] => Traffic'
           /\ net["PP"] # <<>> => \A m \in Replies :
                net' = [Delivered("PP", m) EXCEPT !["PP"] = Tail(@)] => Traffic'
           /\ \A s \in Side : net' = [net EXCEPT ![s] = <<>>] => Traffic'
<1>1. net \in Networks /\ net["PP"] \in Seq(Questions) /\ net["FP"] \in Seq(Replies)
  BY PartsFacts
<1>2. net' = net => Traffic'
  BY <1>1 DEF Traffic
<1>3. ASSUME NEW m \in Questions, net' = Delivered("FP", m)
      PROVE  Traffic'
  <2>1. net'["FP"] = net["FP"] /\ net'["PP"] \in {net["PP"], Append(net["PP"], m)}
    BY <1>1, <1>3 DEF Delivered, Other, Networks, Side
  <2>2. Append(net["PP"], m) \in Seq(Questions)
    BY <1>1
  <2> QED BY <1>1, <2>1, <2>2 DEF Traffic
<1>4. ASSUME NEW m \in Replies
      PROVE  /\ Delivered("PP", m)["PP"] = net["PP"] /\ Delivered("PP", m)["FP"] \in Seq(Replies)
             /\ Delivered("PP", m) \in [Side -> Seq(Message)]
  <2>1. Append(net["FP"], m) \in Seq(Replies)
    BY <1>1
  <2>2. m \in Message /\ "PP" \in Side
    BY DEF Replies, Side
  <2>3. Delivered("PP", m) \in [Side -> Seq(Message)]
    BY <1>1, <2>2, DeliveredType DEF Networks
  <2> QED BY <1>1, <2>1, <2>3 DEF Delivered, Other, Networks, Side
<1>5. ASSUME NEW m \in Replies, net' = Delivered("PP", m)
      PROVE  Traffic'
  BY <1>1, <1>4, <1>5 DEF Traffic
<1>6. ASSUME NEW s \in Side, net[s] # <<>>, net' = [net EXCEPT ![s] = Tail(@)]
      PROVE  Traffic'
  <2>1. CASE s = "PP"
    <3>1. net'["FP"] = net["FP"] /\ net'["PP"] = Tail(net["PP"])
      BY <1>1, <1>6, <2>1 DEF Networks, Side
    <3>2. Tail(net["PP"]) \in Seq(Questions)
      BY <1>1, <1>6, <2>1, HeadTailProperties
    <3> QED BY <1>1, <3>1, <3>2 DEF Traffic
  <2>2. CASE s = "FP"
    <3>1. net'["PP"] = net["PP"] /\ net'["FP"] = Tail(net["FP"])
      BY <1>1, <1>6, <2>2 DEF Networks, Side
    <3>2. Tail(net["FP"]) \in Seq(Replies)
      BY <1>1, <1>6, <2>2, HeadTailProperties
    <3> QED BY <1>1, <3>1, <3>2 DEF Traffic
  <2> QED BY <2>1, <2>2 DEF Side
<1>7. ASSUME net["PP"] # <<>>, NEW m \in Replies, net' = [Delivered("PP", m) EXCEPT !["PP"] = Tail(@)]
      PROVE  Traffic'
  <2>1. net'["PP"] = Tail(net["PP"]) /\ net'["FP"] \in Seq(Replies)
    BY <1>4, <1>7 DEF Side
  <2>2. Tail(net["PP"]) \in Seq(Questions)
    BY <1>1, <1>7, HeadTailProperties
  <2> QED BY <2>1, <2>2 DEF Traffic
<1>8. ASSUME NEW s \in Side, net' = [net EXCEPT ![s] = <<>>]
      PROVE  Traffic'
  <2>1. <<>> \in Seq(Questions) /\ <<>> \in Seq(Replies)
    OBVIOUS
  <2>2. \A t \in Side : net'[t] \in {net[t], <<>>}
    BY <1>1, <1>8 DEF Networks
  <2>3. net'["PP"] \in {net["PP"], <<>>} /\ net'["FP"] \in {net["FP"], <<>>}
    BY <2>2 DEF Side
  <2> QED BY <1>1, <2>1, <2>3 DEF Traffic
<1> QED
  BY <1>2, <1>3, <1>5, <1>6, <1>7, <1>8

-----------------------------------------------------------------------------
(* The fixed part *)

\* A request ends the one it takes over, which its application is told first.
LEMMA AbortedAwaits ==
    ASSUME PartsInv
    PROVE  Aborted("FP").asked = {} /\ Aborted("FP").owes = {} /\ ~ Aborted("FP").stray
             /\ Aborted("FP") \in Account
<1>1. app["FP"] \in Account /\ Asker(mme["FP"]) /\ Awaits(mme["FP"], app["FP"])
  BY PartsFacts DEF Side
<1>2. mme["FP"].slot["INITIATOR"].type = "KEY_ALLOCATION" => ~ Busy(mme["FP"], "INITIATOR")
  BY <1>1 DEF Asker, Checked
<1>3. Aborted("FP") \in Account
  BY AbortedType DEF PartsInv, Side
<1>4. Counted(app["FP"]) = [app["FP"] EXCEPT !.requests = @ + 1]
  BY DEF Counted
<1>5. /\ Counted(app["FP"]).asked = app["FP"].asked /\ Counted(app["FP"]).owes = {}
      /\ ~ Counted(app["FP"]).stray /\ Counted(app["FP"]) \in Account
  BY <1>1, AccountType, <1>4 DEF Account, Awaits
<1> DEFINE c == Counted(app["FP"])
           t == mme["FP"].slot["INITIATOR"].type
<1>6. CASE ~ Busy(mme["FP"], "INITIATOR")
  BY <1>1, <1>3, <1>5, <1>6 DEF Aborted, Awaits
<1>7. CASE Busy(mme["FP"], "INITIATOR")
  <2>1. Aborted("FP") = Confirmed(c, t) /\ Confirmation(t) = t /\ c.asked = {t}
    BY <1>1, <1>2, <1>5, <1>7 DEF Aborted, Awaits, Confirmation
  <2> HIDE DEF c, t
  <2>2. Confirmed(c, t).asked = {} /\ Confirmed(c, t).owes = c.owes /\ Confirmed(c, t).stray = c.stray
    BY <1>5, <2>1 DEF Confirmed, Account, c
  <2> QED BY <1>3, <1>5, <2>1, <2>2 DEF c
<1> QED
  BY <1>6, <1>7

\* The confirmation of what runs
LEMMA ConfirmedAwaits ==
    ASSUME PartsInv, Busy(mme["FP"], "INITIATOR")
    PROVE  LET a == Confirmed(app["FP"], mme["FP"].slot["INITIATOR"].type) IN
           a.asked = {} /\ a.owes = {} /\ ~ a.stray
<1> DEFINE t == mme["FP"].slot["INITIATOR"].type
<1>1. app["FP"] \in Account /\ Asker(mme["FP"]) /\ Awaits(mme["FP"], app["FP"])
  BY PartsFacts DEF Side
<1>2. Confirmation(t) = t /\ app["FP"].asked = {t}
  BY <1>1 DEF Asker, Checked, Confirmation, Awaits
<1> HIDE DEF t
<1>3. /\ Confirmed(app["FP"], t).asked = {} /\ Confirmed(app["FP"], t).owes = app["FP"].owes
      /\ Confirmed(app["FP"], t).stray = app["FP"].stray
  BY <1>1, <1>2 DEF Confirmed, Account
<1> QED
  BY <1>1, <1>3 DEF t, Awaits

LEMMA FixedInitiates ==
    ASSUME PartsInv, NEW p \in Checked, NEW ended \in BOOLEAN, NEW a,
           Initiates("FP", p, ended, a), UNCHANGED up,
           a = IF ended THEN Aborted("FP") ELSE Asks(Aborted("FP"), p)
    PROVE  Parts'
<1> DEFINE e == Initiate("FP", mme["FP"], p)
           m(valid) == Msg(e, "request", p, "none", valid)
<1>1. EndpointOK(mme["FP"]) /\ Asker(mme["FP"]) /\ MayInitiate("FP", mme["FP"], p)
  BY PartsFacts DEF Side, Initiates
<1>2. EndpointOK(e) /\ Asker(e) /\ e.slot["INITIATOR"].type = p
  BY <1>1, AskerInitiates
<1>3. Busy(e, "INITIATOR") /\ e.current = "INITIATOR"
  BY <1>2, AskerFacts DEF Busy, Checked
<1>4. PICK valid \in Validity("FP") :
        net' = Delivered("FP", m(valid)) /\ Set("FP", IF ended THEN Complete(Sent(e, m(valid))) ELSE Sent(e, m(valid)), a)
  BY DEF Initiates
<1>5. m(valid) \in Questions
  <2>1. valid \in BOOLEAN /\ "none" \in Assignment /\ p \in Procedure
    BY DEF Validity, Assignment, Checked, Procedure
  <2>2. m(valid) \in Message
    BY <1>3, <2>1, MsgType DEF Role
  <2>3. m(valid).kind = "request" /\ m(valid).proc = p /\ m(valid).role = "INITIATOR"
    BY <1>3 DEF Msg
  <2> QED BY <2>2, <2>3 DEF Questions
<1> DEFINE f == Sent(e, m(valid))
<1>6. EndpointOK(f) /\ Asker(f) /\ Busy(f, "INITIATOR") /\ f.slot["INITIATOR"].type = p
  BY <1>2, <1>3, <1>5, AskerSends DEF Busy
<1>7. Traffic' /\ up'["PP"] = up["PP"]
  BY <1>4, <1>5, TrafficKeeps
<1>8. CASE ended
  <2>1. Asker(Complete(f)) /\ ~ Busy(Complete(f), "INITIATOR")
    <3>1. f = [f EXCEPT !.timer = f.timer] /\ f.timer \in BOOLEAN
      BY <1>6 DEF EndpointOK, Endpoint
    <3> HIDE DEF f
    <3> QED BY <1>6, <3>1, AskerCompletes
  <2>2. Awaits(Complete(f), a)
    BY <1>8, <2>1, AbortedAwaits DEF Awaits
  <2> HIDE DEF f
  <2> QED BY <1>4, <1>7, <1>8, <2>1, <2>2, FixedKeeps DEF f
<1>9. CASE ~ ended
  <2>1. Awaits(f, a)
    <3>1. Confirmation(p) = p
      BY DEF Confirmation, Checked
    <3>2. a.asked = {p} /\ a.owes = {} /\ ~ a.stray
      BY <1>9, <3>1, AbortedAwaits DEF Asks, Account
    <3> HIDE DEF f
    <3> QED BY <1>6, <3>2 DEF Awaits
  <2> HIDE DEF f
  <2> QED BY <1>4, <1>6, <1>7, <1>9, <2>1, FixedKeeps DEF f
<1> QED
  BY <1>8, <1>9

LEMMA FixedCancels ==
    ASSUME PartsInv, NEW p \in Checked, Cancels("FP", p), UNCHANGED up
    PROVE  Parts'
<1> DEFINE e == Initiate("FP", mme["FP"], p)
<1>1. EndpointOK(mme["FP"]) /\ Asker(mme["FP"]) /\ MayInitiate("FP", mme["FP"], p)
  BY PartsFacts DEF Side, Cancels
<1>2. EndpointOK(e) /\ Asker(e) /\ Busy(e, "INITIATOR")
  BY <1>1, AskerInitiates DEF Busy, Checked
<1>3. Asker(Complete(e)) /\ ~ Busy(Complete(e), "INITIATOR")
  <2>1. e = [e EXCEPT !.timer = e.timer] /\ e.timer \in BOOLEAN
    BY <1>2 DEF EndpointOK, Endpoint
  <2> HIDE DEF e
  <2> QED BY <1>2, <2>1, AskerCompletes
<1>4. Awaits(Complete(e), Aborted("FP"))
  BY <1>3, AbortedAwaits DEF Awaits
<1>5. Set("FP", Complete(e), Aborted("FP")) /\ Traffic' /\ up'["PP"] = up["PP"]
  BY TrafficKeeps DEF Cancels
<1> HIDE DEF e
<1> QED
  BY <1>3, <1>4, <1>5, FixedKeeps

\* Every request is one of the fixed part.
LEMMA RequestingParts ==
    ASSUME BaseStation, PartsInv, NEW s \in Side, Requesting(s)
    PROVE  Parts'
<1>1. ASSUME NEW p, Request(s, p) \/ Notice(s, p)
      PROVE  Parts'
  <2>1. p \in Requests[s] /\ UNCHANGED up
    BY <1>1 DEF Request, Notice, Wishes
  <2>2. s = "FP" /\ p \in Checked
    BY <2>1 DEF BaseStation, Side
  <2>3. \/ Initiates("FP", p, FALSE, Asks(Aborted("FP"), p))
        \/ Initiates("FP", p, TRUE, Aborted("FP"))
        \/ Cancels("FP", p)
    BY <1>1, <2>2 DEF Request, Notice
  <2> QED BY <2>1, <2>2, <2>3, FixedInitiates, FixedCancels
<1>2. ASSUME IwuReq(s)
      PROVE  FALSE
  BY <1>2 DEF IwuReq, Wishes, BaseStation, Checked, Side
<1>3. ASSUME mme[s].slot["RESPONDER"].type = "KEY_ALLOCATION"
      PROVE  FALSE
  <2>1. Busy(mme[s], "RESPONDER") /\ mme[s].slot["RESPONDER"].type \notin Checked
    BY <1>3 DEF Busy, Checked
  <2> QED BY <2>1, PartsFacts DEF Asker, Answerer, Side
<1>4. AuthenticateReq(s) => Request(s, "AUTHENTICATE")
  BY <1>3 DEF AuthenticateReq
<1> QED
  BY <1>1, <1>2, <1>4
  DEF Requesting, KeyAllocateReq, CipherReq, AccessRightsReq, AccessRightsTerminateReq, LocateReq,
      DetachReq, IdentityReq, IdentityAssignReq, InfoReq

\* An answer is read: only that to the procedure that runs has an effect.
LEMMA FixedReceives ==
    ASSUME PartsInv, Receive("FP")
    PROVE  Parts'
<1>1. /\ EndpointOK(mme["FP"]) /\ Asker(mme["FP"]) /\ mme["FP"] \in Endpoint
      /\ net["FP"] \in Seq(Replies)
  BY PartsFacts, AskerFacts DEF Side
<1>2. ASSUME net["FP"] # <<>>
      PROVE  Head(net["FP"]) \in Replies
  BY <1>1, <1>2, HeadTailProperties
<1>3. ASSUME NEW p, NEW iec, ReceivesRequest("FP", p)
      PROVE  FALSE
  BY <1>2, <1>3 DEF ReceivesRequest, Receives, Replies
<1>4. ASSUME NEW p, ReceivesAnswer("FP", p)
      PROVE  p \in Checked
  BY <1>2, <1>4 DEF ReceivesAnswer, Receives, Replies
<1>5. ASSUME NEW p, NEW expected, RcvAnswer("FP", p, expected),
             expected => Busy(mme["FP"], "INITIATOR") /\ mme["FP"].slot["INITIATOR"].type = p
      PROVE  Parts'
  <2>1. Traffic' /\ up'["PP"] = up["PP"]
    BY <1>5, TrafficKeeps DEF RcvAnswer, ReceivesAnswer, Receives, Handles, Consumed, Side
  <2>2. CASE UNCHANGED <<mme, app>>
    BY <2>1, <2>2 DEF PartsInv, Parts
  <2>3. CASE expected /\ Set("FP", Complete(mme["FP"]), Confirmed(app["FP"], p))
    <3> DEFINE e == mme["FP"]
    <3>1. Asker(Complete(e)) /\ ~ Busy(Complete(e), "INITIATOR")
      <4>1. e = [e EXCEPT !.timer = e.timer] /\ e.timer \in BOOLEAN
        BY <1>1 DEF Endpoint
      <4> QED BY <1>1, <1>5, <2>3, <4>1, AskerCompletes
    <3>2. Awaits(Complete(e), Confirmed(app["FP"], p))
      BY <1>5, <2>3, <3>1, ConfirmedAwaits DEF Awaits
    <3> QED BY <2>1, <2>3, <3>1, <3>2, FixedKeeps
  <2> QED BY <1>5, <2>2, <2>3 DEF RcvAnswer
<1>6. ~ Runs("FP", "RESPONDER", "KEY_ALLOCATION") /\ ~ Runs("FP", "RESPONDER", "TEMPORARY_IDENTITY_ASSIGNMENT")
  BY <1>1 DEF Runs, Asker, Busy
<1>7. ASSUME NEW p \in Checked, Runs("FP", "INITIATOR", p)
      PROVE  Busy(mme["FP"], "INITIATOR") /\ mme["FP"].slot["INITIATOR"].type = p
  BY <1>7 DEF Runs, Busy, Checked
<1>8. CASE \/ RcvAuthenticationAnswer("FP") \/ RcvAccessRightsTerminateAnswer("FP")
           \/ RcvIdentityReply("FP") \/ RcvInfoAnswer("FP")
  BY <1>5, <1>6, <1>7, <1>8
  DEF RcvAuthenticationAnswer, RcvAccessRightsTerminateAnswer, RcvIdentityReply, RcvInfoAnswer, Checked
<1>9. ~ \/ RcvCipherReject("FP") \/ RcvAccessRightsAnswer("FP") \/ RcvLocateAnswer("FP")
        \/ RcvTemporaryIdentityAssignAnswer("FP")
  <2>1. \A p : ReceivesAnswer("FP", p) => p \in Checked
    BY <1>4
  <2> QED
    BY <2>1
    DEF RcvCipherReject, RcvAccessRightsAnswer, RcvLocateAnswer, RcvTemporaryIdentityAssignAnswer,
        RcvAnswer, Checked
<1>10. CASE RcvIgnored("FP")
  <2>1. Traffic' /\ UNCHANGED <<mme, app, up>>
    BY <1>10, TrafficKeeps DEF RcvIgnored, Receives, Handles, Consumed, Side
  <2> QED BY <2>1 DEF PartsInv, Parts
<1>11. ~ RcvEncrypted("FP")
  BY <1>2 DEF RcvEncrypted, Receives, Replies
<1>12. ~ \/ RcvKeyAllocate("FP") \/ RcvAuthenticationRequest("FP") \/ RcvCipherRequest("FP")
         \/ RcvCipherSuggest("FP") \/ RcvAccessRightsRequest("FP")
         \/ RcvAccessRightsTerminateRequest("FP") \/ RcvLocateRequest("FP") \/ RcvDetach("FP")
         \/ RcvIdentityRequest("FP") \/ RcvTemporaryIdentityAssign("FP") \/ RcvInfoRequest("FP")
         \/ RcvInfoSuggest("FP")
  <2>1. \A p : ~ ReceivesRequest("FP", p)
    BY <1>3
  <2> QED
    BY <2>1
    DEF RcvKeyAllocate, RcvAuthenticationRequest, RcvCipherRequest, RcvCipherSuggest,
        RcvAccessRightsRequest, RcvAccessRightsTerminateRequest, RcvLocateRequest, RcvDetach,
        RcvIdentityRequest, RcvTemporaryIdentityAssign, RcvInfoRequest, RcvInfoSuggest,
        RcvIdentifiedRequest, RcvRequest, Refused, Indicates, RejectsRequest, DropsRequest, Taken
<1> QED
  BY <1>8, <1>9, <1>10, <1>11, <1>12 DEF Receive

\* dect_mm_procedure_timeout: only the fixed part has a timer.
LEMMA TimeoutParts ==
    ASSUME PartsInv, NEW s \in Side, Timeout(s)
    PROVE  Parts'
<1>1. mme[s].timer
  BY DEF Timeout, Retransmit, GiveUp
<1>2. s = "FP"
  BY <1>1, PartsFacts DEF Answerer, Side
<1> DEFINE e == mme["FP"]
<1>3. EndpointOK(e) /\ Asker(e) /\ e \in Endpoint /\ Busy(e, "INITIATOR") /\ Awaits(e, app["FP"])
  BY <1>1, <1>2, PartsFacts, AskerFacts DEF Asker, Side
<1>4. CASE Retransmit("FP")
  <2> DEFINE f == [e EXCEPT !.retransmitted = TRUE]
  <2>1. /\ f.slot = e.slot /\ f.open = e.open /\ f.timer = e.timer /\ f.mb = e.mb /\ f.crash = e.crash
    BY <1>3 DEF Endpoint
  <2>2. Asker(f) /\ Awaits(f, app["FP"])
    BY <1>3, <2>1 DEF Asker, Awaits, Busy, IsOpen
  <2>3. Set("FP", f, app["FP"])
    <3>1. app' = app /\ [app EXCEPT !["FP"] = app["FP"]] = app
      BY <1>4, PartsFacts DEF Retransmit
    <3>2. mme' = [mme EXCEPT !["FP"].retransmitted = TRUE]
      BY <1>4 DEF Retransmit
    <3> QED BY <3>1, <3>2 DEF Set
  <2>4. Traffic' /\ up'["PP"] = up["PP"]
    <3>1. up' = up /\ net' = IF e.mb = NoMessage THEN net ELSE Delivered("FP", e.mb)
      BY <1>4 DEF Retransmit, Handles
    <3> QED BY <1>3, <3>1, TrafficKeeps DEF Asker
  <2> HIDE DEF f
  <2> QED BY <2>2, <2>3, <2>4, FixedKeeps
<1>5. CASE GiveUp("FP")
  <2> DEFINE f == Complete([e EXCEPT !.timer = FALSE])
             a == Confirmed(app["FP"], e.slot["INITIATOR"].type)
  <2>1. Asker(f) /\ ~ Busy(f, "INITIATOR")
    BY <1>3, AskerCompletes
  <2>2. Awaits(f, a)
    BY <1>3, <2>1, ConfirmedAwaits DEF Awaits
  <2>3. Set("FP", f, a) /\ Traffic' /\ up'["PP"] = up["PP"]
    BY <1>5, TrafficKeeps DEF GiveUp, Handles
  <2> HIDE DEF f, a
  <2> QED BY <2>1, <2>2, <2>3, FixedKeeps
<1> QED
  BY <1>2, <1>4, <1>5 DEF Timeout

-----------------------------------------------------------------------------
(* The portable part *)

\* An answer of the application is one to the procedure that runs, or comes
\* when the link has failed and there is none.
LEMMA PortableAnswers ==
    ASSUME PartsInv, NEW p, Answers("PP", p)
    PROVE  /\ mme["PP"].crash = "no" /\ UNCHANGED up /\ p \in Procedure
           /\ up["PP"] => /\ Busy(mme["PP"], "RESPONDER") /\ mme["PP"].slot["RESPONDER"].type = p
                          /\ mme["PP"].current = "RESPONDER" /\ p \in Checked
           /\ ~ up["PP"] => MayFail /\ mme["PP"].current = "NONE"
<1>1. /\ EndpointOK(mme["PP"]) /\ Answerer(mme["PP"], up["PP"]) /\ Owes(mme["PP"], app["PP"], up["PP"])
      /\ up["PP"] \in BOOLEAN /\ app["PP"] \in Account
  BY PartsFacts DEF Side
<1>2. mme["PP"].crash = "no" /\ UNCHANGED up /\ p \in app["PP"].owes /\ p \in Procedure /\ p # "NONE"
  BY <1>1 DEF Answers, Running, Side, Account, Procedure
<1>3. mme["PP"].current = IF Busy(mme["PP"], "RESPONDER") THEN "RESPONDER" ELSE "NONE"
  BY <1>1, AnswererFacts
<1>4. ASSUME up["PP"]
      PROVE  mme["PP"].slot["RESPONDER"].type = p /\ Busy(mme["PP"], "RESPONDER") /\ p \in Checked
  <2>1. mme["PP"].slot["RESPONDER"].type = p
    BY <1>1, <1>2, <1>4 DEF Owes
  <2>2. Busy(mme["PP"], "RESPONDER")
    BY <1>2, <2>1 DEF Busy
  <2> QED BY <1>1, <2>1, <2>2 DEF Answerer
<1>5. ASSUME ~ up["PP"]
      PROVE  MayFail /\ ~ Busy(mme["PP"], "RESPONDER")
  BY <1>1, <1>5 DEF Answerer
<1> QED
  BY <1>2, <1>3, <1>4, <1>5

\* An answer sent ends the procedure.
LEMMA PortableSends ==
    ASSUME PartsInv, NEW p, Answers("PP", p), up["PP"], NEW m, SendsAnswer("PP", m),
           m = Msg(mme["PP"], "accept", p, "none", m.valid) \/ m = Msg(mme["PP"], "reject", p, "none", m.valid),
           m.valid \in BOOLEAN,
           Set("PP", Complete(Sent(mme["PP"], m)), Answered(app["PP"], p))
    PROVE  Parts'
<1> DEFINE e == mme["PP"]
           a == Answered(app["PP"], p)
<1>1. /\ EndpointOK(e) /\ Answerer(e, up["PP"]) /\ Owes(e, app["PP"], up["PP"])
      /\ up["PP"] \in BOOLEAN /\ app["PP"] \in Account
  BY PartsFacts DEF Side
<1>2. /\ e.crash = "no" /\ UNCHANGED up /\ p \in Procedure /\ Busy(e, "RESPONDER")
      /\ e.slot["RESPONDER"].type = p /\ e.current = "RESPONDER" /\ p \in Checked
  BY PortableAnswers
<1>3. m \in Replies
  <2>1. m \in Message
    BY <1>2, MsgType DEF Role, Assignment
  <2> QED BY <1>2, <2>1 DEF Replies, Msg
<1>4. Sent(e, m) = e
  BY <1>1, <1>2, AnswererSends
<1>5. Answerer(Complete(e), TRUE)
  BY <1>1, <1>2, AnswererCompletes
<1>6. Owes(Complete(e), a, TRUE)
  BY <1>1, <1>2 DEF Owes, Answered, Account
<1>7. Traffic'
  BY <1>3, TrafficKeeps DEF SendsAnswer
<1>8. Set("PP", Complete(e), a) /\ up'["PP"] = TRUE
  BY <1>2, <1>4
<1> HIDE DEF e, a
<1> QED
  BY <1>5, <1>6, <1>7, <1>8, PortableKeeps

LEMMA RejectsParts ==
    ASSUME PartsInv, NEW p, NEW types, Rejects("PP", p, types)
    PROVE  Parts'
<1> DEFINE m == Msg(mme["PP"], "reject", p, "none", TRUE)
<1>1. Answers("PP", p) /\ Fits(mme["PP"], types)
  BY DEF Rejects
<1>2. up["PP"]
  BY <1>1, PortableAnswers DEF Fits, Role
<1>3. m.valid = TRUE
  BY DEF Msg
<1>4. SendsAnswer("PP", m) /\ Set("PP", Complete(Sent(mme["PP"], m)), Answered(app["PP"], p))
  BY DEF Rejects
<1>5. m = Msg(mme["PP"], "reject", p, "none", m.valid)
  BY <1>3
<1> HIDE DEF m
<1> QED
  BY <1>1, <1>2, <1>3, <1>4, <1>5, PortableSends

LEMMA AcceptsParts ==
    ASSUME PartsInv, NEW p, NEW types, Accepts("PP", p, types)
    PROVE  Parts'
<1> DEFINE m(valid) == Msg(mme["PP"], "accept", p, "none", valid)
<1>1. Answers("PP", p) /\ Fits(mme["PP"], types)
  BY DEF Accepts
<1>2. up["PP"]
  BY <1>1, PortableAnswers DEF Fits, Role
<1>3. PICK valid \in Validity("PP") :
        SendsAnswer("PP", m(valid)) /\ Set("PP", Complete(Sent(mme["PP"], m(valid))), Answered(app["PP"], p))
  BY DEF Accepts
<1>4. m(valid).valid = valid /\ valid \in BOOLEAN
  BY DEF Msg, Validity
<1>5. m(valid) = Msg(mme["PP"], "accept", p, "none", m(valid).valid)
  BY <1>4
<1> HIDE DEF m
<1> QED
  BY <1>1, <1>2, <1>3, <1>4, <1>5, PortableSends

\* An answer to a procedure that is over: there is none on a link that stands.
LEMMA IgnoresParts ==
    ASSUME PartsInv, NEW p, NEW types, p \in types, Ignores("PP", p, types)
    PROVE  Parts'
<1>1. Answers("PP", p) /\ ~ Fits(mme["PP"], types)
  BY DEF Ignores
<1>2. ~ up["PP"] /\ MayFail /\ mme["PP"].current = "NONE" /\ UNCHANGED up
  BY <1>1, PortableAnswers DEF Fits, Role
<1>3. Set("PP", Crash("null"), Answered(app["PP"], p)) /\ net' = net
  BY <1>2 DEF Ignores
<1>4. Answerer(Crash("null"), up'["PP"])
  <2>1. up'["PP"] = FALSE
    BY <1>2, PartsFacts DEF Side
  <2> QED BY <1>2, <2>1, AnswererDies
<1>5. Owes(Crash("null"), Answered(app["PP"], p), up'["PP"])
  <2>1. Owes(mme["PP"], app["PP"], up["PP"]) /\ app["PP"] \in Account
    BY PartsFacts DEF Side
  <2>2. Answered(app["PP"], p).asked = app["PP"].asked /\ Answered(app["PP"], p).stray = app["PP"].stray
    BY <2>1 DEF Answered, Account
  <2> QED BY <1>2, <2>1, <2>2 DEF Owes
<1> QED
  BY <1>3, <1>4, <1>5, TrafficKeeps, PortableKeeps

\* Every response is one of the portable part.
LEMMA RespondingParts ==
    ASSUME PartsInv, NEW s \in Side, Responding(s)
    PROVE  Parts'
<1> USE DEF Response, AuthenticateRes, CipherRes, AccessRightsRes, AccessRightsTerminateRes,
            LocateRes, IdentityRes, IdentityAssignRes, InfoRes
<1>1. \E p : Answers(s, p)
  BY DEF Responding, Accepts, Rejects, Ignores
<1>2. s = "PP"
  BY <1>1, PartsFacts DEF Answers, Awaits, Side
<1>3. ASSUME NEW p, NEW types, p \in types, Rejects("PP", p, types) \/ Accepts("PP", p, types) \/ Ignores("PP", p, types)
      PROVE  Parts'
  BY <1>3, RejectsParts, AcceptsParts, IgnoresParts
<1>4. ASSUME NEW p, p \notin Checked, Answers("PP", p), Fits(mme["PP"], {p})
      PROVE  FALSE
  BY <1>4, PortableAnswers DEF Fits, Role
<1>5. CASE AuthenticateRes("PP") \/ AccessRightsRes("PP") \/ AccessRightsTerminateRes("PP") \/ IdentityRes("PP")
  BY <1>3, <1>5
<1>6. CASE CipherRes("PP")
  BY <1>3, <1>4, <1>6 DEF Checked
<1>7. CASE LocateRes("PP")
  BY <1>3, <1>4, <1>7 DEF Checked
<1>8. CASE IdentityAssignRes("PP")
  BY <1>3, <1>4, <1>8 DEF Checked
<1>9. CASE InfoRes("PP")
  <2> DEFINE p == "PARAMETER_RETRIEVAL"
             a == Answered(app["PP"], p)
  <2>1. CASE Accepts("PP", p, {p}) \/ Rejects("PP", p, {p})
    BY <1>3, <2>1
  <2>2. CASE Answers("PP", p) /\ UNCHANGED net /\ Set("PP", mme["PP"], a)
    <3>1. /\ Answerer(mme["PP"], up["PP"]) /\ Owes(mme["PP"], app["PP"], up["PP"]) /\ UNCHANGED up
          /\ app["PP"] \in Account
      BY <2>2, PartsFacts, PortableAnswers DEF Side
    <3>2. Owes(mme["PP"], a, up["PP"])
      <4>1. a.asked = app["PP"].asked /\ a.stray = app["PP"].stray /\ a.owes \subseteq app["PP"].owes
        BY <3>1 DEF Answered, Account
      <4> QED BY <3>1, <4>1 DEF Owes
    <3> HIDE DEF a
    <3> QED BY <2>2, <3>1, <3>2, TrafficKeeps, PortableKeeps
  <2> QED BY <1>9, <2>1, <2>2
<1> QED
  BY <1>2, <1>5, <1>6, <1>7, <1>8, <1>9 DEF Responding

\* What a handler of the portable part may rely on.
LEMMA PortableReceives ==
    ASSUME PartsInv, Receives("PP")
    PROVE  /\ Head(net["PP"]) \in Questions /\ UNCHANGED up /\ up["PP"] = TRUE
           /\ EndpointOK(Opened("PP")) /\ Answerer(Opened("PP"), TRUE)
           /\ Opened("PP").crash = "no" /\ IsOpen(Opened("PP"), "RESPONDER")
           /\ Opened("PP").slot = mme["PP"].slot
           /\ Owes(Opened("PP"), app["PP"], TRUE)
<1> DEFINE e == mme["PP"]
           f == Opened("PP")
<1>1. /\ EndpointOK(e) /\ Answerer(e, up["PP"]) /\ Owes(e, app["PP"], up["PP"])
      /\ net["PP"] \in Seq(Questions) /\ net["PP"] # <<>>
      /\ up["PP"] = TRUE /\ UNCHANGED up /\ e.crash = "no" /\ e \in Endpoint
  BY PartsFacts DEF Receives, Handles, Running, Side
<1>2. Head(net["PP"]) \in Questions
  BY <1>1, HeadTailProperties
<1>3. Known("PP") <=> IsOpen(e, "RESPONDER")
  BY <1>2 DEF Known, Questions, Opposite
<1>4. EndpointOK(f)
  BY OpenedOK DEF PartsInv, Side, Receives, Handles
<1>5. f = IF IsOpen(e, "RESPONDER") THEN e ELSE [e EXCEPT !.open = <<"RESPONDER">> \o @]
  BY <1>3 DEF Opened
<1>6. f.slot = e.slot /\ f.timer = e.timer /\ f.crash = e.crash
  BY <1>1, <1>5 DEF Endpoint
<1>7. IsOpen(f, "RESPONDER")
  <2>1. CASE ~ IsOpen(e, "RESPONDER")
    <3>1. f.open = <<"RESPONDER">> \o e.open /\ e.open \in Transactions /\ "RESPONDER" \in Role
      BY <1>1, <1>5, <2>1 DEF Endpoint, Role
    <3> HIDE DEF e, f
    <3> QED BY <2>1, <3>1, OpenAdded
  <2> QED BY <1>5, <2>1
<1>8. Answerer(f, TRUE) /\ Owes(f, app["PP"], TRUE)
  BY <1>1, <1>6, <1>7 DEF Answerer, Owes, Busy
<1> QED
  BY <1>1, <1>2, <1>4, <1>6, <1>7, <1>8

\* A procedure that is taken is the only one that is owed an answer, or none.
LEMMA PortableTakes ==
    ASSUME PartsInv, NEW p, NEW valid, Taken("PP", p, valid)
    PROVE  /\ Receives("PP") /\ p \in Checked /\ app["PP"].owes = {}
           /\ LET f == Respond("PP", Opened("PP"), p) IN
              /\ EndpointOK(f) /\ Answerer(f, TRUE) /\ f.crash = "no" /\ f.slot["RESPONDER"].type = p
              /\ f.current = "RESPONDER" /\ Busy(f, "RESPONDER")
              /\ [f EXCEPT !.slot["RESPONDER"].iec = "none"] = f
<1>1. /\ Receives("PP") /\ Head(net["PP"]).proc = p /\ MayRespond("PP", Opened("PP"), p)
  BY DEF Taken, ReceivesRequest
<1>2. /\ Head(net["PP"]) \in Questions /\ EndpointOK(Opened("PP")) /\ Answerer(Opened("PP"), TRUE)
      /\ Opened("PP").crash = "no" /\ IsOpen(Opened("PP"), "RESPONDER")
      /\ Owes(Opened("PP"), app["PP"], TRUE)
  BY <1>1, PortableReceives
<1>3. p \in Checked /\ p # "NONE"
  BY <1>1, <1>2 DEF Questions, Checked
<1>4. app["PP"].owes = {}
  <2>1. app["PP"].owes \subseteq Procedure /\ "NONE" \notin Procedure
    BY PartsFacts DEF Side, Account, Procedure
  <2>2. app["PP"].owes \subseteq {"NONE"}
    BY <1>1, <1>2 DEF Owes, MayRespond, Busy
  <2> QED BY <2>1, <2>2
<1> HIDE DEF Opened
<1>5. LET f == Respond("PP", Opened("PP"), p) IN
      /\ EndpointOK(f) /\ Answerer(f, TRUE) /\ f.crash = "no" /\ f.slot["RESPONDER"].type = p
      /\ f.current = "RESPONDER" /\ [f EXCEPT !.slot["RESPONDER"].iec = "none"] = f
  BY <1>1, <1>2, <1>3, AnswererResponds
<1> QED
  BY <1>1, <1>3, <1>4, <1>5 DEF Busy

LEMMA RefusedParts ==
    ASSUME PartsInv, NEW p, Refused("PP", p)
    PROVE  Parts'
<1>1. Receives("PP") /\ Consumed("PP") /\ Set("PP", Opened("PP"), app["PP"])
  BY DEF Refused, ReceivesRequest
<1>2. /\ Answerer(Opened("PP"), up'["PP"]) /\ Owes(Opened("PP"), app["PP"], up'["PP"])
  BY <1>1, PortableReceives
<1>3. Traffic'
  BY <1>1, TrafficKeeps DEF Consumed, Receives, Side
<1> QED
  BY <1>1, <1>2, <1>3, PortableKeeps

LEMMA IndicatesParts ==
    ASSUME PartsInv, NEW p, Indicates("PP", p, "none")
    PROVE  Parts'
<1> DEFINE f == Respond("PP", Opened("PP"), p)
           a == Indicated(app["PP"], p)
<1>1. /\ Taken("PP", p, TRUE) /\ Consumed("PP")
      /\ Set("PP", [f EXCEPT !.slot["RESPONDER"].iec = "none"], a)
  BY DEF Indicates
<1>2. /\ Receives("PP") /\ app["PP"].owes = {} /\ Answerer(f, TRUE) /\ f.slot["RESPONDER"].type = p
      /\ [f EXCEPT !.slot["RESPONDER"].iec = "none"] = f
  BY <1>1, PortableTakes
<1>3. up'["PP"] = TRUE /\ Traffic'
  BY <1>1, <1>2, PortableReceives, TrafficKeeps DEF Consumed, Receives, Side
<1>4. Owes(f, a, TRUE)
  <2>1. app["PP"] \in Account /\ app["PP"].asked = {} /\ ~ app["PP"].stray
    BY PartsFacts DEF Side, Owes
  <2>2. a.asked = {} /\ ~ a.stray /\ a.owes = {p}
    BY <1>2, <2>1 DEF Indicated, Account
  <2> QED BY <1>2, <2>2 DEF Owes
<1> HIDE DEF f, a
<1> QED
  BY <1>1, <1>2, <1>3, <1>4, PortableKeeps

\* The end of a procedure that was not indicated
LEMMA DropsParts ==
    ASSUME PartsInv, NEW p, DropsRequest("PP", p) \/ RejectsRequest("PP", p)
    PROVE  Parts'
<1> DEFINE f == Respond("PP", Opened("PP"), p)
           m == Msg(f, "reject", p, "none", TRUE)
<1>1. /\ Taken("PP", p, FALSE)
      /\ \/ Consumed("PP") /\ Set("PP", Complete(f), app["PP"])
         \/ /\ net' = [Delivered("PP", m) EXCEPT !["PP"] = Tail(@)]
            /\ Set("PP", Complete(Sent(f, m)), app["PP"])
  BY DEF DropsRequest, RejectsRequest
<1>2. /\ Receives("PP") /\ p \in Checked /\ app["PP"].owes = {} /\ EndpointOK(f) /\ Answerer(f, TRUE)
      /\ f.crash = "no" /\ f.current = "RESPONDER" /\ Busy(f, "RESPONDER")
  BY <1>1, PortableTakes
<1>3. m \in Replies
  <2>1. m \in Message /\ m.kind = "reject" /\ m.proc = p /\ m.role = "RESPONDER"
    BY <1>2, MsgType DEF Role, Assignment, Checked, Procedure, Msg
  <2> QED BY <1>2, <2>1 DEF Replies
<1>4. up'["PP"] = TRUE /\ net["PP"] # <<>>
  BY <1>2, PortableReceives DEF Receives
<1>5. Traffic'
  BY <1>1, <1>3, <1>4, TrafficKeeps DEF Consumed, Side
<1> HIDE DEF f, m
<1>6. Sent(f, m) = f
  BY <1>2, AnswererSends
<1>7. Answerer(Complete(f), TRUE)
  BY <1>2, AnswererCompletes
<1>8. Owes(Complete(f), app["PP"], TRUE)
  BY <1>2, PartsFacts DEF Owes, Side
<1> QED
  BY <1>1, <1>4, <1>5, <1>6, <1>7, <1>8, PortableKeeps

\* dect_mm_rcv_authentication_request: without a key allocation of its own, the
\* portable part rejects what it cannot parse and stays in the procedure.
LEMMA RcvAuthenticationRequestParts ==
    ASSUME PartsInv, RcvAuthenticationRequest("PP")
    PROVE  Parts'
<1> DEFINE p == "AUTHENTICATE"
           f == Respond("PP", Opened("PP"), p)
           m == Msg(f, "reject", p, "none", TRUE)
<1>1. Receives("PP")
  BY DEF RcvAuthenticationRequest, ReceivesRequest
<1>2. Opened("PP").slot["INITIATOR"].type # "KEY_ALLOCATION" /\ Opened("PP").crash = "no"
  BY <1>1, PortableReceives DEF Answerer, Busy
<1>3. \/ Refused("PP", p)
      \/ Indicates("PP", p, "none")
      \/ /\ Taken("PP", p, FALSE) /\ net' = [Delivered("PP", m) EXCEPT !["PP"] = Tail(@)]
         /\ Set("PP", Sent(f, m), app["PP"])
  BY <1>2 DEF RcvAuthenticationRequest
<1>4. CASE /\ Taken("PP", p, FALSE) /\ net' = [Delivered("PP", m) EXCEPT !["PP"] = Tail(@)]
           /\ Set("PP", Sent(f, m), app["PP"])
  <2>1. /\ app["PP"].owes = {} /\ EndpointOK(f) /\ Answerer(f, TRUE)
        /\ f.current = "RESPONDER" /\ Busy(f, "RESPONDER")
    BY <1>4, PortableTakes
  <2>2. m \in Replies
    <3>1. m \in Message /\ m.kind = "reject" /\ m.proc = p /\ m.role = "RESPONDER"
      BY <2>1, MsgType DEF Role, Assignment, Procedure, Msg
    <3> QED BY <3>1 DEF Replies, Checked
  <2>3. up'["PP"] = TRUE /\ Traffic'
    BY <1>1, <1>4, <2>2, PortableReceives, TrafficKeeps DEF Receives
  <2> HIDE DEF f, m
  <2>4. Sent(f, m) = f
    BY <2>1, AnswererSends
  <2>5. Owes(f, app["PP"], TRUE)
    BY <2>1, PartsFacts DEF Owes, Side
  <2> QED BY <1>4, <2>1, <2>3, <2>4, <2>5, PortableKeeps
<1> HIDE DEF f, m
<1> QED
  BY <1>3, <1>4, RefusedParts, IndicatesParts

\* dect_mm_rcv_info_suggest ends no procedure: there is no other that is current.
LEMMA RcvInfoSuggestParts ==
    ASSUME PartsInv, RcvInfoSuggest("PP")
    PROVE  Parts'
<1>1. Receives("PP") /\ Consumed("PP")
  BY DEF RcvInfoSuggest, ReceivesRequest
<1>2. /\ EndpointOK(Opened("PP")) /\ Answerer(Opened("PP"), TRUE) /\ Owes(Opened("PP"), app["PP"], TRUE)
      /\ up'["PP"] = TRUE
  BY <1>1, PortableReceives
<1>3. ~ Busy(Opened("PP"), "RESPONDER") => Opened("PP").current = "NONE"
  BY <1>2, AnswererFacts
<1>4. Set("PP", Opened("PP"), app["PP"])
  BY <1>3 DEF RcvInfoSuggest
<1>5. Traffic'
  BY <1>1, TrafficKeeps DEF Consumed, Receives, Side
<1> QED
  BY <1>2, <1>4, <1>5, PortableKeeps

\* A question is read.
LEMMA ReceivingParts ==
    ASSUME PartsInv, Receive("PP")
    PROVE  Parts'
<1>1. ASSUME Receives("PP")
      PROVE  Head(net["PP"]).kind = "request" /\ Head(net["PP"]).proc \in Checked
  BY <1>1, PortableReceives DEF Questions
<1>2. ASSUME NEW p, ReceivesRequest("PP", p)
      PROVE  p \in Checked
  BY <1>1, <1>2 DEF ReceivesRequest
<1>3. ASSUME NEW p, \/ Refused("PP", p) \/ Indicates("PP", p, "none")
                    \/ RejectsRequest("PP", p) \/ DropsRequest("PP", p)
      PROVE  Parts'
  BY <1>3, RefusedParts, IndicatesParts, DropsParts
<1>4. CASE RcvIdentityRequest("PP") \/ RcvAccessRightsTerminateRequest("PP")
  BY <1>3, <1>4 DEF RcvIdentityRequest, RcvAccessRightsTerminateRequest, RcvIdentifiedRequest, RcvRequest
<1>5. ~ \/ RcvKeyAllocate("PP") \/ RcvCipherRequest("PP")
        \/ RcvCipherSuggest("PP") \/ RcvAccessRightsRequest("PP") \/ RcvLocateRequest("PP")
        \/ RcvDetach("PP") \/ RcvTemporaryIdentityAssign("PP") \/ RcvInfoRequest("PP")
  <2>1. ASSUME NEW p, p \notin Checked, NEW iec
        PROVE  /\ ~ Refused("PP", p) /\ ~ Indicates("PP", p, iec) /\ ~ Taken("PP", p, TRUE)
               /\ ~ RejectsRequest("PP", p) /\ ~ DropsRequest("PP", p)
    BY <1>2, <2>1 DEF Refused, Indicates, RejectsRequest, DropsRequest, Taken
  <2>2. ~ RcvKeyAllocate("PP") /\ ~ RcvCipherRequest("PP")
    BY <2>1 DEF RcvKeyAllocate, RcvCipherRequest, RcvRequest, Checked
  <2>3. /\ ~ RcvAccessRightsRequest("PP") /\ ~ RcvLocateRequest("PP")
        /\ ~ RcvTemporaryIdentityAssign("PP")
    BY <2>1
    DEF RcvAccessRightsRequest, RcvLocateRequest, RcvTemporaryIdentityAssign, RcvIdentifiedRequest,
        RcvRequest, Checked
  <2>4. ~ RcvDetach("PP")
    BY <2>1 DEF RcvDetach, Checked
  <2> QED BY <2>2, <2>3, <2>4 DEF RcvCipherSuggest, RcvInfoRequest
<1>6. ~ \/ RcvAuthenticationAnswer("PP") \/ RcvCipherReject("PP") \/ RcvAccessRightsAnswer("PP")
        \/ RcvAccessRightsTerminateAnswer("PP") \/ RcvLocateAnswer("PP") \/ RcvIdentityReply("PP")
        \/ RcvTemporaryIdentityAssignAnswer("PP") \/ RcvInfoAnswer("PP") \/ RcvEncrypted("PP")
  <2>1. \A p : ~ ReceivesAnswer("PP", p)
    BY <1>1 DEF ReceivesAnswer
  <2>2. ~ RcvEncrypted("PP")
    BY <1>1 DEF RcvEncrypted
  <2> QED
    BY <2>1, <2>2
    DEF RcvAuthenticationAnswer, RcvCipherReject, RcvAccessRightsAnswer, RcvAccessRightsTerminateAnswer,
        RcvLocateAnswer, RcvIdentityReply, RcvTemporaryIdentityAssignAnswer, RcvInfoAnswer, RcvAnswer
<1>7. CASE RcvIgnored("PP")
  <2>1. Traffic' /\ UNCHANGED <<mme, app, up>>
    BY <1>7, TrafficKeeps DEF RcvIgnored, Receives, Handles, Consumed, Side
  <2> QED BY <2>1 DEF PartsInv, Parts
<1> QED
  BY <1>4, <1>5, <1>6, <1>7, RcvAuthenticationRequestParts, RcvInfoSuggestParts DEF Receive

-----------------------------------------------------------------------------
(* The link, and the theorems *)

\* A failure of the link ends what runs on it; the portable part dies of it if
\* a transaction is open that has no procedure.
LEMMA LinkFailsParts ==
    ASSUME PartsInv, NEW s \in Side, LinkFails(s)
    PROVE  Parts'
<1>1. /\ MayFail /\ up' = [up EXCEPT ![s] = FALSE] /\ Traffic' /\ mme[s].crash = "no"
      /\ up \in [Side -> BOOLEAN]
  BY TrafficKeeps, PartsFacts DEF LinkFails, Running
<1>2. CASE s = "FP"
  <2> DEFINE e == mme["FP"]
             f == ShutdownAll(e)
             a == IF f.crash = "no" /\ Busy(e, "INITIATOR")
                  THEN Confirmed(app["FP"], e.slot["INITIATOR"].type) ELSE app["FP"]
  <2>1. EndpointOK(e) /\ Asker(e) /\ Awaits(e, app["FP"])
    BY PartsFacts DEF Side
  <2>2. Set("FP", f, a) /\ up'["PP"] = up["PP"]
    BY <1>1, <1>2 DEF LinkFails, Side
  <2>3. CASE Busy(e, "INITIATOR")
    <3>1. e.open = <<"INITIATOR">> /\ e.current = "INITIATOR" /\ e \in Endpoint
      BY <2>1, <2>3, AskerFacts
    <3>2. f = Complete(e)
      BY <1>1, <1>2, <3>1 DEF ShutdownAll, ShutdownOne
    <3>3. e = [e EXCEPT !.timer = e.timer] /\ e.timer \in BOOLEAN
      BY <3>1 DEF Endpoint
    <3>4. Asker(f) /\ ~ Busy(f, "INITIATOR")
      <4> HIDE DEF f
      <4> QED BY <2>1, <2>3, <3>2, <3>3, AskerCompletes
    <3>5. Awaits(f, a)
      BY <2>3, <3>4, ConfirmedAwaits DEF Awaits, Asker
    <3> HIDE DEF f, a
    <3> QED BY <1>1, <2>2, <3>4, <3>5, FixedKeeps
  <2>4. CASE ~ Busy(e, "INITIATOR")
    <3>1. f = e /\ a = app["FP"]
      BY <2>1, <2>4, AskerFacts DEF ShutdownAll
    <3> HIDE DEF f, a
    <3> QED BY <1>1, <2>1, <2>2, <3>1, FixedKeeps
  <2> QED BY <2>3, <2>4
<1>3. CASE s = "PP"
  <2> DEFINE e == mme["PP"]
             f == ShutdownAll(e)
  <2>1. /\ EndpointOK(e) /\ Answerer(e, up["PP"]) /\ Owes(e, app["PP"], up["PP"])
        /\ up["PP"] \in BOOLEAN /\ e.crash = "no"
    BY <1>1, <1>3, PartsFacts DEF Side
  <2>2. Set("PP", f, app["PP"]) /\ up'["PP"] = FALSE
    BY <1>1, <1>3, <2>1 DEF LinkFails, Answerer, Side
  <2>3. /\ e.open = IF IsOpen(e, "RESPONDER") THEN <<"RESPONDER">> ELSE <<>>
        /\ e.current = IF Busy(e, "RESPONDER") THEN "RESPONDER" ELSE "NONE"
    BY <2>1, AnswererFacts
  <2>4. Answerer(f, FALSE)
    <3>1. CASE ~ IsOpen(e, "RESPONDER")
      <4>1. f = e /\ ~ Busy(e, "RESPONDER")
        BY <2>1, <2>3, <3>1 DEF ShutdownAll, Answerer
      <4> HIDE DEF f
      <4> QED BY <1>1, <2>1, <4>1 DEF Answerer
    <3>2. CASE IsOpen(e, "RESPONDER") /\ ~ Busy(e, "RESPONDER")
      <4>1. f = Crash("null")
        BY <2>1, <2>3, <3>2 DEF ShutdownAll, ShutdownOne
      <4> QED BY <1>1, <4>1, AnswererDies
    <3>3. CASE IsOpen(e, "RESPONDER") /\ Busy(e, "RESPONDER")
      <4>1. f = Complete(e)
        BY <2>1, <2>3, <3>3 DEF ShutdownAll, ShutdownOne
      <4> HIDE DEF f
      <4> QED BY <1>1, <2>1, <3>3, <4>1, AnswererCompletes
    <3> QED BY <3>1, <3>2, <3>3
  <2>5. Owes(f, app["PP"], FALSE)
    BY <2>1 DEF Owes
  <2> HIDE DEF f
  <2> QED BY <1>1, <2>2, <2>4, <2>5, PortableKeeps
<1> QED
  BY <1>2, <1>3 DEF Side

LEMMA InitParts == Init => Parts
<1> SUFFICES ASSUME Init PROVE Parts
  OBVIOUS
<1>1. \A s \in Side : mme[s] = NewEndpoint /\ up[s] = TRUE /\ net[s] = <<>>
                      /\ app[s].asked = {} /\ app[s].owes = {} /\ app[s].stray = FALSE
  BY DEF Init
<1>2. /\ mme["FP"] = NewEndpoint /\ mme["PP"] = NewEndpoint
      /\ net["FP"] = <<>> /\ net["PP"] = <<>> /\ up["PP"] = TRUE
  BY <1>1 DEF Side
<1>3. /\ ~ Busy(NewEndpoint, "INITIATOR") /\ ~ Busy(NewEndpoint, "RESPONDER")
      /\ ~ IsOpen(NewEndpoint, "RESPONDER")
      /\ NewEndpoint.timer = FALSE /\ NewEndpoint.mb = NoMessage /\ NewEndpoint.crash = "no"
  BY DEF Busy, IsOpen, NewEndpoint, FreeSlot, Role
<1>4. Asker(mme["FP"]) /\ Answerer(mme["PP"], up["PP"])
  BY <1>2, <1>3 DEF Asker, Answerer
<1>5. Awaits(mme["FP"], app["FP"]) /\ Owes(mme["PP"], app["PP"], up["PP"])
  BY <1>1, <1>2, <1>3 DEF Awaits, Owes, Side
<1>6. Traffic
  BY <1>2 DEF Traffic
<1> QED
  BY <1>4, <1>5, <1>6 DEF Parts

LEMMA NextParts == ASSUME BaseStation PROVE PartsInv /\ [Next]_vars => PartsInv'
<1> SUFFICES ASSUME PartsInv, [Next]_vars PROVE PartsInv'
  OBVIOUS
<1>1. IndInv'
  BY NextIndInv DEF PartsInv
<1>2. CASE UNCHANGED vars
  BY <1>1, <1>2 DEF vars, PartsInv, Parts, Traffic
<1>3. CASE Next
  <2>1. PICK s \in Side : Requesting(s) \/ Responding(s) \/ Receive(s) \/ Timeout(s) \/ LinkFails(s)
    BY <1>3 DEF Next
  <2>2. s = "FP" \/ s = "PP"
    BY DEF Side
  <2>3. Parts'
    BY <2>1, <2>2, RequestingParts, RespondingParts, FixedReceives, ReceivingParts, TimeoutParts,
       LinkFailsParts
  <2> QED BY <1>1, <2>3 DEF PartsInv
<1> QED
  BY <1>2, <1>3

\* Each side of a base station that keeps its parts plays its own.
THEOREM PartsKept == ASSUME BaseStation PROVE Spec => []PartsInv
<1>1. Init => PartsInv
  BY InitIndInv, InitParts DEF PartsInv
<1>2. PartsInv /\ [Next]_vars => PartsInv'
  BY NextParts
<1> QED
  BY <1>1, <1>2, PTL DEF Spec

\* As long as the link stands no handler of such a system works on a procedure
\* that does not exist: whatever is retransmitted, refused, late or invalid.
THEOREM NoCrashCorrect == ASSUME BaseStation, ~ MayFail PROVE Spec => []NoCrash
<1>1. PartsInv => NoCrash
  BY DEF PartsInv, Parts, Asker, Answerer, NoCrash, Running, Side
<1> QED
  BY <1>1, PartsKept, PTL

\* Its applications are told once of the end of each thing they asked for, and of
\* nothing else, also when the link fails.  (Which of two requests of one kind an
\* answer is for, nobody can tell: see ConfirmedOnce.)
THEOREM ConfirmedOnceCorrect == ASSUME BaseStation PROVE Spec => []ConfirmedOnce
<1>1. PartsInv => ConfirmedOnce
  BY DEF PartsInv, Parts, Awaits, Owes, ConfirmedOnce, Side
<1> QED
  BY <1>1, PartsKept, PTL

\* And while they wait for it, and only then, the timer of the procedure runs.
THEOREM RequestTimedCorrect == ASSUME BaseStation PROVE Spec => []RequestTimed
<1>1. PartsInv => RequestTimed
  <2> SUFFICES ASSUME PartsInv, NEW s \in Side PROVE app[s].asked # {} <=> mme[s].timer
    BY DEF RequestTimed
  <2>1. CASE s = "FP"
    BY <2>1 DEF PartsInv, Parts, Asker, Awaits
  <2>2. CASE s = "PP"
    BY <2>2 DEF PartsInv, Parts, Answerer, Owes
  <2> QED BY <2>1, <2>2 DEF Side
<1> QED
  BY <1>1, PartsKept, PTL

=============================================================================
