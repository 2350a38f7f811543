------------------------------ MODULE DataLink ------------------------------
(***************************************************************************)
(* The Link Control Entity of libdect (src/src/lce.c): data links, the      *)
(* transactions multiplexed on them, the message queue of a pending link,   *)
(* the timers LCE.01 (release), LCE.02 (maintain), LCE.03 (page) and LCE.05 *)
(* (SDU), indirect establishment by paging, and the synchronous callbacks   *)
(* from which the application may re-enter the library.                     *)
(*                                                                          *)
(* Protocols above the LCE are abstracted to what they do to a link: open,  *)
(* send on and close transactions.  A link is a record; a handler is an     *)
(* operator from the record before to the record (or the set of possible    *)
(* records) after.  A failed assertion, BUG() or access to freed memory     *)
(* puts the link in a state of Crashed, after which the process is dead.    *)
(***************************************************************************)
EXTENDS Naturals, Sequences, SequencesExt

CONSTANTS
    Link,      \* link objects; a destroyed object may be allocated again
    Peer,      \* IPUIs
    NoPeer,    \* link without DECT_DATA_LINK_IPUI_VALID
    NoLink,    \* value of cur outside callbacks
    Mode,      \* "FP" or "PP"
    Paged,     \* peers that dect_setup_capability reports without fast setup
    Protocol,  \* subset of {"CC", "CISS", "MM"} in use
    MaxTv,     \* max_transactions of each protocol
    PageMax,   \* DECT_DDL_PAGE_RETRANS_MAX
    CfmSends,  \* does the application send from inside dl_establish_cfm?
    MaxTrans,  \* bound: open transactions on one link
    MaxSend,   \* bound: messages accepted by one link in its lifetime
    MaxLeak    \* bound: release timers leaked by one link

ASSUME DataLinkAssumption ==
    /\ NoPeer \notin Peer
    /\ NoLink \notin Link
    /\ Mode \in {"FP", "PP"}
    /\ Paged \subseteq Peer
    /\ Protocol \subseteq {"CC", "CISS", "MM"}
    /\ MaxTv \in [Protocol \cup {"LCE"} -> Nat \ {0}]
    /\ PageMax \in Nat \ {0}
    /\ CfmSends \in BOOLEAN
    /\ MaxTrans \in Nat /\ MaxSend \in Nat /\ MaxLeak \in Nat

VARIABLES
    link,      \* [Link -> link record]
    links,     \* dh->links: the live links in list order
    callback,  \* the library call that is waiting for the application
    cur,       \* the link that call works on
    walk       \* ta and next of dect_ddl_shutdown, <<>> outside its loop

vars == <<link, links, callback, cur, walk>>

Crashed == {"BUG_SEND", "ASSERT_TRANSACTIONS", "NULL_TIMER", "STALE", "LIST"}

Usable == {"ESTABLISH_PENDING", "ESTABLISHED"}

LinkState == {"FREE", "FREED", "RELEASED", "RELEASE_PENDING"} \cup Usable \cup Crashed

Role == {"I", "R"}

Transaction == [pd : Protocol \cup {"LCE"}, tv : Nat, role : Role]

LinkRecord ==
    [state  : LinkState,
     peer   : Peer \cup {NoPeer},
     socket : BOOLEAN,                \* ddl->dfd # NULL
     trans  : Seq(Transaction),       \* ddl->transactions
     queue  : Seq(Nat),               \* ddl->msg_queue, messages by number
     nsent  : Nat,                    \* messages accepted so far
     tx     : Seq(Nat),               \* messages written to the socket
     sdu    : {"off", "sdu", "partial"},   \* sdu_timer and its callback
     page   : BOOLEAN,                \* page_timer is running
     pages  : Nat,                    \* page_count
     rel    : BOOLEAN,                \* release_timer is running
     leaked : Nat]                    \* older release timers still running

Unused ==
    [state |-> "FREE", peer |-> NoPeer, socket |-> FALSE, trans |-> <<>>,
     queue |-> <<>>, nsent |-> 0, tx |-> <<>>, sdu |-> "off",
     page |-> FALSE, pages |-> 0, rel |-> FALSE, leaked |-> 0]

Live(d) == d.state \notin {"FREE", "FREED"}

Running == \A l \in Link : link[l].state \notin Crashed

-----------------------------------------------------------------------------
(* Operations on one link *)

\* The process is dead: nothing but the cause is kept.
Crash(d, why) == [Unused EXCEPT !.state = why]

\* The memory is freed with the timers that dect_ddl_destroy stops; the page
\* timer and the leaked release timers keep running ("FREED").
Freed(d) ==
    [Unused EXCEPT !.state  = IF d.page \/ d.leaked > 0 THEN "FREED" ELSE "FREE",
                   !.page   = d.page,
                   !.leaked = d.leaked]

Destroyed(d) ==
    IF d.trans # <<>> THEN Crash(d, "ASSERT_TRANSACTIONS") ELSE Freed(d)

\* Mutant: the release timer is not started.
ReleaseOutcomesNoTimer(d) == {Destroyed(d), [d EXCEPT !.state = "RELEASE_PENDING"]}

\* dect_ddl_release: shutdown(SHUT_WR) fails or the release timer is started.
\* A release timer that already runs is overwritten, not stopped.
ReleaseOutcomes(d) ==
    { Destroyed(d),
      [d EXCEPT !.state  = "RELEASE_PENDING",
                !.rel    = TRUE,
                !.leaked = IF d.rel THEN @ + 1 ELSE @] }

PartialReleased(d) == [d EXCEPT !.sdu = "partial"]

\* Mutant: sending on a link that is down fails instead of reaching BUG().
AcceptedFails(d) ==
    LET m == d.nsent + 1 IN
    CASE d.state = "ESTABLISHED"       -> [d EXCEPT !.nsent = m, !.tx = Append(@, m)]
      [] d.state = "ESTABLISH_PENDING" -> [d EXCEPT !.nsent = m, !.queue = Append(@, m)]
      [] OTHER                         -> d

\* dect_lce_send and dect_lce_send_cl, which share the switch on the state.
Accepted(d) ==
    LET m == d.nsent + 1 IN
    CASE d.state = "ESTABLISHED"       -> [d EXCEPT !.nsent = m, !.tx = Append(@, m)]
      [] d.state = "ESTABLISH_PENDING" -> [d EXCEPT !.nsent = m, !.queue = Append(@, m)]
      [] OTHER                         -> Crash(d, "BUG_SEND")

\* Mutant: a received message does not stop LCE.05.
SduStoppedNever(d) == d

SduStopped(d) == [d EXCEPT !.sdu = "off"]

Sent(d) == Accepted(SduStopped(d))

CanSend(d) == d.nsent < MaxSend

\* dect_ddl_set_ipui: an IPUI that is known stays.
Identified(d, p) == [d EXCEPT !.peer = IF @ = NoPeer THEN p ELSE @]

\* dect_transaction_link: MM before a trailing MM, else at the tail; the other
\* protocols at the head.
Linked(s, t) ==
    IF t.pd # "MM" THEN <<t>> \o s
    ELSE IF s # <<>> /\ Last(s).pd = "MM" THEN Front(s) \o <<t, Last(s)>>
    ELSE Append(s, t)

Opened(d, t) == [d EXCEPT !.trans = Linked(@, t)]

\* Mutant: the search starts behind the head of the list.
FreeTvSkipsHead(d, pd) ==
    { tv \in 0 .. MaxTv[pd] - 1 :
        ~ \E i \in 2 .. Len(d.trans) : d.trans[i] = [pd |-> pd, tv |-> tv, role |-> "I"] }

\* dect_transaction_alloc_tv
FreeTv(d, pd) ==
    { tv \in 0 .. MaxTv[pd] - 1 :
        ~ \E i \in 1 .. Len(d.trans) : d.trans[i] = [pd |-> pd, tv |-> tv, role |-> "I"] }

IsLeast(tv, S) == tv \in S /\ \A x \in S : tv <= x

\* dect_transaction_close
CloseOutcomes(d, i, mode) ==
    LET e == [d EXCEPT !.trans = RemoveAt(@, i)] IN
    IF \/ d.state = "ESTABLISH_PENDING"
       \/ d.state = "RELEASED" /\ e.trans = <<>>
    THEN IF d.trans[i].pd = "CC" THEN {Destroyed(e)} ELSE {e}
    ELSE IF mode = "PARTIAL" THEN {PartialReleased(e)}
    ELSE IF e.trans # <<>> THEN {e}
    ELSE ReleaseOutcomes(e)

\* The release mode with which a protocol closes a transaction on its own; the
\* release of the link uses NORMAL for CISS as well.
OwnMode(pd) == IF pd \in {"MM", "CISS"} THEN "PARTIAL" ELSE "NORMAL"

OwnClose(d, i) == CloseOutcomes(d, i, OwnMode(d.trans[i].pd))

-----------------------------------------------------------------------------
(* The link table *)

\* What list_del of all elements but those in S leaves of s
Survivors(s, S) ==
    LET kept[n \in 0 .. Len(s)] ==
          IF n = 0 THEN <<>>
          ELSE IF s[n] \in S THEN Append(kept[n - 1], s[n])
          ELSE kept[n - 1]
    IN  kept[Len(s)]

\* The links that a step destroys, each by list_del.
Update(lk) ==
    /\ link'  = lk
    /\ links' = Survivors(links, { l \in Link : Live(link[l]) => Live(lk[l]) })

SetLink(l, d) == Update([link EXCEPT ![l] = d])

\* dect_ddl_alloc and list_add_tail to dh->links.  Memory freed in a callback is
\* not allocated again before the callback returns, so that its use shows.
Add(l, d) ==
    /\ link[l].state = "FREE" /\ l # cur
    /\ link'  = [link EXCEPT ![l] = d]
    /\ links' = Append(links, l)

\* l is the first link of dh->links in S
IsFirst(l, S) ==
    \E i \in DOMAIN links :
        /\ links[i] = l
        /\ l \in S
        /\ \A j \in 1 .. i - 1 : links[j] \notin S

\* dect_ddl_get_by_ipui
ByIpui(p) == { l \in Link : Live(link[l]) /\ link[l].peer = p }

\* dect_ddl_establish: page the peer (the first page is sent and the page timer
\* started at once), or connect a socket.
Establishing(p) ==
    IF Mode = "FP" /\ p \in Paged
    THEN [Unused EXCEPT !.state = "ESTABLISH_PENDING", !.peer = p,
                        !.page = TRUE, !.pages = 1]
    ELSE [Unused EXCEPT !.state = "ESTABLISH_PENDING", !.peer = p,
                        !.socket = TRUE]

NoCallback == callback = "none"

Return == callback' = "none" /\ cur' = NoLink /\ walk' = <<>>

CallBack(why, l) == callback' = why /\ cur' = l /\ walk' = <<>>

InCallback == UNCHANGED <<callback, cur, walk>>

\* A transaction of s and the one behind it, which list_for_each_entry_safe reads
\* before the body of the loop
Saved(s, i) == IF i < Len(s) THEN <<s[i], s[i + 1]>> ELSE <<s[i]>>

\* The loop of dect_ddl_shutdown begins: the first transaction is shut down.
BeginWalk(why, l) == callback' = why /\ cur' = l /\ walk' = Saved(link[l].trans, 1)

\* The application may call the library between events and in callbacks.  CC and
\* MM tell it of a shutdown, CISS and the LCE do not.
AppMayRun ==
    /\ Running
    /\ callback = "establish_cfm" => CfmSends
    /\ walk # <<>> => walk[1].pd \in {"CC", "MM"}

Init ==
    /\ link = [l \in Link |-> Unused]
    /\ links = <<>>
    /\ callback = "none"
    /\ cur = NoLink
    /\ walk = <<>>

-----------------------------------------------------------------------------
(* The application and the timers of the protocols above the LCE *)

\* dect_transaction_open followed by the first dect_lce_send: MNCC_SETUP-req and
\* MNSS_SETUP-req.  The first link with the IPUI is used whatever its state is.
OpenByIpui(p, pd) ==
    /\ AppMayRun /\ InCallback
    /\ pd # "MM"
    /\ \E l \in Link, tv \in 0 .. MaxTv[pd] - 1 :
        \/ /\ IsFirst(l, ByIpui(p))
           /\ CanSend(link[l]) /\ Len(link[l].trans) < MaxTrans
           /\ IsLeast(tv, FreeTv(link[l], pd))
           /\ SetLink(l, Sent(Opened(link[l], [pd |-> pd, tv |-> tv, role |-> "I"])))
        \/ /\ ByIpui(p) = {}
           /\ tv = 0
           /\ Add(l, Sent(Opened(Establishing(p), [pd |-> pd, tv |-> tv, role |-> "I"])))

\* An MM procedure of an endpoint bound to a link: dect_ddl_transaction_open and
\* dect_lce_send.  The application knows a link from DL_ESTABLISH-cfm, from a
\* page response or from an MM message; all of them leave "sdu" off.
OpenOnLink(l) ==
    /\ AppMayRun /\ InCallback
    /\ "MM" \in Protocol
    /\ link[l].state \in {"ESTABLISHED", "RELEASE_PENDING"} /\ link[l].sdu # "sdu"
    /\ CanSend(link[l]) /\ Len(link[l].trans) < MaxTrans
    /\ \E tv \in 0 .. MaxTv["MM"] - 1 :
        /\ IsLeast(tv, FreeTv(link[l], "MM"))
        /\ SetLink(l, Sent(Opened(link[l], [pd |-> "MM", tv |-> tv, role |-> "I"])))

\* A primitive that sends one message of an open transaction
Request(l, i) ==
    /\ AppMayRun /\ InCallback
    /\ i \in DOMAIN link[l].trans /\ link[l].trans[i].pd # "LCE"
    /\ CanSend(link[l])
    /\ SetLink(l, Sent(link[l]))

\* A primitive or timer that sends a last message and closes the transaction:
\* MNCC_REJECT-req, CC.02, CC.03, the responses of MM.
RequestClose(l, i) ==
    /\ AppMayRun /\ InCallback
    /\ i \in DOMAIN link[l].trans /\ link[l].trans[i].pd \in {"CC", "MM"}
    /\ CanSend(link[l])
    /\ LET d == Sent(link[l]) IN
       \E e \in IF d.state \in Crashed THEN {d} ELSE OwnClose(d, i) : SetLink(l, e)

\* The second timeout of an MM procedure closes its transaction in silence.
TimeoutClose(l, i) ==
    /\ Running /\ NoCallback /\ InCallback
    /\ i \in DOMAIN link[l].trans /\ link[l].trans[i].pd = "MM"
    /\ \E e \in OwnClose(link[l], i) : SetLink(l, e)

\* dect_lce_send_cl, which only the connectionless service of CISS calls
SendConnectionless(p) ==
    /\ AppMayRun /\ InCallback
    /\ \E l \in Link :
        \/ /\ IsFirst(l, ByIpui(p))
           /\ CanSend(link[l])
           /\ SetLink(l, Accepted(link[l]))
        \/ /\ ByIpui(p) = {}
           /\ Add(l, Accepted(Establishing(p)))

\* dect_dl_establish_req: a new link even when one to the peer exists
EstablishReq(p) ==
    /\ AppMayRun /\ InCallback
    /\ \E l \in Link : Add(l, Establishing(p))

-----------------------------------------------------------------------------
(* Release of a link with its transactions *)

\* dect_ddl_shutdown: destroy at once, or start to shut the transactions down.
Shutdown(d) ==
    LET e == [d EXCEPT !.state = "RELEASED"] IN
    IF e.trans = <<>> THEN Destroyed(e) ELSE e

\* The page transaction of a PP is in the list of the link it was opened on.
PageTransactions(lk) ==
    { x \in Link \X (1 .. MaxTrans + 1) :
        /\ x[2] \in DOMAIN lk[x[1]].trans
        /\ lk[x[1]].trans[x[2]].pd = "LCE" }

\* End of a READ event in dect_lce_data_link_event: an open page transaction is
\* closed, whichever link it is on.
AfterRead(lk) ==
    IF PageTransactions(lk) = {} \/ \E l \in Link : lk[l].state \in Crashed
    THEN {lk}
    ELSE UNION { { [lk EXCEPT ![x[1]] = e] : e \in CloseOutcomes(lk[x[1]], x[2], "NORMAL") } :
                 x \in PageTransactions(lk) }

\* a READ event that leaves link l as d
Read(l, d) == \E lk \in AfterRead([link EXCEPT ![l] = d]) : Update(lk)

\* t is transaction i of s, found as on the list.  (After an indirect establishment
\* two may be equal; the model does not tell them apart.)
IsAt(i, s, t) == i \in DOMAIN s /\ s[i] = t /\ \A j \in 1 .. i - 1 : s[j] # t

\* dect_cc_shutdown, dect_ciss_shutdown and dect_lce_shutdown close with NORMAL.
ShutdownMode(pd) == IF pd = "MM" THEN "PARTIAL" ELSE "NORMAL"

\* The loop works on a transaction that is no longer on the list.
WalkBreaks == SetLink(cur, Crash(link[cur], "LIST")) /\ Return

\* One turn of the loop in dect_ddl_shutdown: the application has been told, the
\* protocol closes the transaction, and the loop goes on with the one it has
\* saved, or ends.  MM completes its current procedure, which need not be that of
\* the transaction (ShutdownOne in MobilityManagement).
ShutdownNext ==
    /\ Running
    /\ callback \in {"shutdown", "shutdown_read"}
    /\ LET s == link[cur].trans IN
       \/ /\ walk[1].pd = "MM" \/ \A i \in DOMAIN s : ~ IsAt(i, s, walk[1])
          /\ WalkBreaks
       \/ \E i \in DOMAIN s : \E d \in CloseOutcomes(link[cur], i, ShutdownMode(s[i].pd)) :
            /\ IsAt(i, s, walk[1])
            /\ \/ /\ Len(walk) = 1
                  /\ IF callback = "shutdown_read" THEN Read(cur, d) ELSE SetLink(cur, d)
                  /\ Return
               \/ /\ Len(walk) = 2
                  /\ \A j \in DOMAIN d.trans : ~ IsAt(j, d.trans, walk[2])
                  /\ WalkBreaks
               \/ /\ Len(walk) = 2
                  /\ SetLink(cur, d)
                  /\ UNCHANGED <<callback, cur>>
                  /\ \E j \in DOMAIN d.trans :
                       /\ IsAt(j, d.trans, walk[2])
                       /\ walk' = Saved(d.trans, j)

-----------------------------------------------------------------------------
(* Establishment *)

\* dect_lce_ssap_listener_event: a link accepted from a portable part
Accept(l) ==
    /\ Running /\ NoCallback /\ InCallback
    /\ Mode = "FP"
    /\ Add(l, [Unused EXCEPT !.state = "ESTABLISHED", !.socket = TRUE, !.sdu = "sdu"])

\* Mutant: the completion does not look at the state of the link.
ConnectDoneAnyState(l) ==
    /\ Running /\ NoCallback
    /\ Live(link[l]) /\ link[l].socket
    /\ SetLink(l, [link[l] EXCEPT !.state = "ESTABLISHED"])
    /\ CallBack("establish_cfm", l)

\* dect_ddl_complete_direct_establish up to DL_ESTABLISH-cfm
ConnectDone(l) ==
    /\ Running /\ NoCallback
    /\ link[l].state = "ESTABLISH_PENDING" /\ link[l].socket
    /\ SetLink(l, [link[l] EXCEPT !.state = "ESTABLISHED"])
    /\ CallBack("establish_cfm", l)

\* The rest of it: the queue is sent.  After SHUT_WR the messages are lost; a
\* link that the callback has freed is used again.
DrainQueue ==
    /\ Running
    /\ callback = "establish_cfm"
    /\ Return
    /\ LET d == link[cur] IN
       SetLink(cur,
           CASE ~ Live(d)                -> Crash(d, "STALE")
             [] d.state = "ESTABLISHED"  -> [d EXCEPT !.tx = @ \o d.queue, !.queue = <<>>]
             [] OTHER                    -> [d EXCEPT !.queue = <<>>])

\* Its error path: the connection could not be established
ConnectFailed(l) ==
    /\ Running /\ NoCallback
    /\ link[l].state = "ESTABLISH_PENDING" /\ link[l].socket
    /\ SetLink(l, Shutdown(link[l]))
    /\ IF link[l].trans = <<>> THEN InCallback ELSE BeginWalk("shutdown", l)

\* Mutant: the pages are not counted.
PageTimeoutUncounted(l) ==
    /\ Running /\ NoCallback /\ InCallback
    /\ Live(link[l]) /\ link[l].page
    /\ SetLink(l, link[l])

\* dect_ddl_page_timer: page again, or give up and tell the application
PageTimeout(l) ==
    /\ Running /\ NoCallback
    /\ link[l].page
    /\ LET d == link[l] IN
       \/ /\ ~ Live(d)
          /\ SetLink(l, Crash(d, "STALE")) /\ InCallback
       \/ /\ Live(d) /\ d.pages # PageMax
          /\ SetLink(l, [d EXCEPT !.pages = @ + 1]) /\ InCallback
       \/ /\ Live(d) /\ d.pages = PageMax
          /\ SetLink(l, [d EXCEPT !.pages = @ + 1, !.page = FALSE])
          /\ CallBack("page_failed", l)

PageFailed ==
    /\ Running
    /\ callback = "page_failed"
    /\ LET d == link[cur] IN
       IF ~ Live(d) THEN SetLink(cur, Crash(d, "STALE")) /\ Return
       ELSE /\ SetLink(cur, Shutdown(d))
            /\ IF d.trans = <<>> THEN Return ELSE BeginWalk("shutdown", cur)

\* Mutant: the queue of the pending link is sent in reverse.
TransferredReversed(d, req) ==
    [d EXCEPT !.peer  = IF @ = NoPeer THEN req.peer ELSE @,
              !.trans = @ \o req.trans,
              !.nsent = @ + req.nsent,
              !.tx    = @ \o [j \in 1 .. Len(req.queue) |-> d.nsent + Reverse(req.queue)[j]]]

\* Mutant: the queue of the pending link is forgotten.
TransferredNoQueue(d, req) ==
    [d EXCEPT !.peer  = IF @ = NoPeer THEN req.peer ELSE @,
              !.trans = @ \o req.trans,
              !.nsent = @ + req.nsent]

\* dect_ddl_complete_indirect_establish up to DL_ESTABLISH-cfm: link l takes the
\* place of the pending link req.
Transferred(d, req) ==
    [d EXCEPT !.peer  = IF @ = NoPeer THEN req.peer ELSE @,
              !.trans = @ \o req.trans,
              !.nsent = @ + req.nsent,
              !.tx    = IF d.state = "ESTABLISHED"
                        THEN @ \o [j \in 1 .. Len(req.queue) |-> d.nsent + req.queue[j]]
                        ELSE @]

Pending(p) == { r \in Link : link[r].state = "ESTABLISH_PENDING" /\ link[r].peer = p }

Readable(l) ==
    /\ Running /\ NoCallback
    /\ link[l].socket /\ link[l].state \in {"ESTABLISHED", "RELEASE_PENDING"}

\* dect_lce_rcv_page_response for a peer with a pending link
PageResponse(l, p) ==
    /\ Mode = "FP"
    /\ Readable(l)
    /\ \E r \in Link \ {l} :
        /\ IsFirst(r, Pending(p))
        /\ IF ~ link[r].page
           THEN SetLink(r, Crash(link[r], "NULL_TIMER")) /\ InCallback
           ELSE /\ Update([link EXCEPT
                     ![l] = Transferred(SduStopped(link[l]), link[r]),
                     ![r] = Freed([link[r] EXCEPT !.page = FALSE])])
                /\ CallBack("indirect_cfm", l)

\* ... and after the callback
IndirectDone ==
    /\ Running
    /\ callback = "indirect_cfm"
    /\ Return
    /\ LET d == link[cur] IN
       SetLink(cur, IF ~ Live(d) THEN Crash(d, "STALE")
                    ELSE IF d.trans = <<>> THEN PartialReleased(d) ELSE d)

\* dect_lce_send_page_reject and dect_ddl_release
Rejected(d) ==
    LET s == Sent(d) IN IF s.state \in Crashed THEN {s} ELSE ReleaseOutcomes(s)

\* dect_lce_rcv_page_response: a message that does not parse is rejected; one
\* without pending link is offered to the application and rejected if refused.
UnexpectedPageResponse(l, p) ==
    /\ Mode = "FP"
    /\ Readable(l) /\ InCallback
    /\ CanSend(link[l])
    /\ LET d == SduStopped(link[l])
           n == Identified(d, p) IN
       \/ \E e \in Rejected(d) : SetLink(l, e)
       \/ Pending(p) = {} /\ \E e \in {n} \cup Rejected(n) : SetLink(l, e)

\* dect_lce_send_page_response: a PP answers a page on a new link
RcvPage(p) ==
    /\ Mode = "PP"
    /\ Running /\ NoCallback /\ InCallback
    /\ LET ta == [pd |-> "LCE", tv |-> 0, role |-> "I"]
           d  == Sent(Opened(Establishing(p), ta)) IN
       \E l \in Link :
           Add(l, IF PageTransactions(link) = {} THEN d ELSE Crash(d, "LIST"))

-----------------------------------------------------------------------------
(* Messages and errors read from the socket *)

\* dect_ddl_rcv_msg for a message of an unknown transaction: it is ignored,
\* answered without a transaction (CC-RELEASE-COM), tells the IPUI and no more
\* (CLMS-VARIABLE), or it opens one with the peer as RESPONDER.  An MM message need
\* not carry the IPUI.
RcvOpen(d, t, p) ==
    LET s == SduStopped(d)
        o == Opened(s, t)
        n == Identified(o, p) IN
    { e \in {s, Identified(s, p), Sent(s), o, n} :
        \/ e = s \/ e = Identified(s, p)
        \/ e = Sent(s) /\ t.pd = "CC" /\ CanSend(s)
        \/ e = o /\ t.pd = "MM" /\ Len(s.trans) < MaxTrans
        \/ e = n /\ s.peer \in {NoPeer, p} /\ Len(s.trans) < MaxTrans }

\* The same for a known transaction: its protocol may answer and may close it
\* (CISS closes only when the peer does, and does not answer that).
RcvKnown(d, i) ==
    LET s == SduStopped(d)
        a == Sent(s) IN
    IF s.trans[i].pd = "LCE" THEN {s}
    ELSE {s} \cup OwnClose(s, i)
             \cup (IF ~ CanSend(s) THEN {}
                   ELSE {a} \cup (IF a.state \in Crashed \/ s.trans[i].pd = "CISS" THEN {}
                                ELSE OwnClose(a, i)))

Rcv(l, pd, tv, role) ==
    /\ Readable(l) /\ InCallback
    /\ link[l].leaked < MaxLeak
    /\ LET t    == [pd |-> pd, tv |-> tv, role |-> role]
           here == { i \in DOMAIN link[l].trans : link[l].trans[i] = t } IN
       IF here = {}
       THEN /\ pd \in Protocol
            /\ \E p \in Peer : \E d \in RcvOpen(link[l], [t EXCEPT !.role = "R"], p) : Read(l, d)
       ELSE \E i \in here : IsLeast(i, here) /\ \E d \in RcvKnown(link[l], i) : Read(l, d)

\* dect_ddl_rcv_msg, ENOTCONN on a link whose release is pending:
\* dect_ddl_release_complete.
ReleaseComplete(l) ==
    /\ Readable(l) /\ InCallback
    /\ link[l].state = "RELEASE_PENDING"
    /\ Read(l, Destroyed([link[l] EXCEPT !.state = "RELEASED", !.rel = FALSE]))

\* dect_ddl_rcv_msg, any other error: dect_ddl_shutdown.  The socket of a link
\* that is RELEASED already stays registered and reports the error again.
RcvError(l) ==
    /\ Running /\ NoCallback
    /\ link[l].socket
    /\ link[l].state \in {"ESTABLISHED", "RELEASE_PENDING", "RELEASED"}
    /\ IF link[l].trans = <<>>
       THEN InCallback /\ Read(l, Shutdown(link[l]))
       ELSE SetLink(l, Shutdown(link[l])) /\ BeginWalk("shutdown_read", l)

-----------------------------------------------------------------------------
(* Timers of the link *)

\* dect_ddl_sdu_timer, LCE.05
SduTimeout(l) ==
    /\ Running /\ NoCallback /\ InCallback
    /\ link[l].sdu = "sdu"
    /\ SetLink(l, Destroyed(SduStopped(link[l])))

\* dect_ddl_partial_release_timer, LCE.02
PartialReleaseTimeout(l) ==
    /\ Running /\ NoCallback /\ InCallback
    /\ link[l].sdu = "partial"
    /\ LET d == SduStopped(link[l]) IN
       SetLink(l, IF d.trans = <<>> THEN Destroyed(d) ELSE d)

\* Mutant: the timer of a live link is taken for a leaked one.
ReleaseTimeoutLeaked(l) ==
    /\ Running /\ NoCallback /\ InCallback
    /\ link[l].rel
    /\ SetLink(l, [link[l] EXCEPT !.leaked = @ - 1])

\* dect_ddl_release_timer, LCE.01; the oldest timer fires first
ReleaseTimeout(l) ==
    /\ Running /\ NoCallback /\ InCallback
    /\ LET d == link[l] IN
       \/ d.leaked > 0 /\ SetLink(l, IF Live(d) THEN Destroyed([d EXCEPT !.leaked = @ - 1])
                                                ELSE Crash(d, "STALE"))
       \/ d.leaked = 0 /\ d.rel /\ SetLink(l, Destroyed([d EXCEPT !.rel = FALSE]))

-----------------------------------------------------------------------------
App ==
    \/ \E p \in Peer : \/ \E pd \in Protocol : OpenByIpui(p, pd)
                       \/ SendConnectionless(p)
                       \/ EstablishReq(p)
    \/ \E l \in Link : \/ OpenOnLink(l)
                       \/ \E i \in 1 .. MaxTrans : \/ Request(l, i)
                                                   \/ RequestClose(l, i)
                                                   \/ TimeoutClose(l, i)

Network ==
    \/ \E l \in Link :
        \/ Accept(l)
        \/ ConnectDone(l)
        \/ ConnectFailed(l)
        \/ \E pd \in Protocol \cup {"LCE"}, role \in Role :
             \E tv \in 0 .. MaxTv[pd] - 1 : Rcv(l, pd, tv, role)
        \/ ReleaseComplete(l)
        \/ RcvError(l)
        \/ \E p \in Peer : PageResponse(l, p) \/ UnexpectedPageResponse(l, p)
    \/ \E p \in Peer : RcvPage(p)

Timer ==
    \E l \in Link : \/ SduTimeout(l)
                    \/ PartialReleaseTimeout(l)
                    \/ ReleaseTimeout(l)
                    \/ PageTimeout(l)

Continue == ShutdownNext \/ DrainQueue \/ PageFailed \/ IndirectDone

Next == App \/ Network \/ Timer \/ Continue

Spec == Init /\ [][Next]_vars

\* The event loop runs every expired timer and reports every finished connection
\* attempt, and callbacks return.  Each of these is disabled during a callback
\* for another link, hence strong fairness.  Nothing makes a peer or the
\* application act.
Fairness ==
    /\ \A l \in Link : /\ SF_vars(ReleaseTimeout(l))
                       /\ SF_vars(PageTimeout(l))
                       /\ SF_vars(ConnectDone(l) \/ ConnectFailed(l))
    /\ WF_vars(Continue)

FairSpec == Spec /\ Fairness

-----------------------------------------------------------------------------
(* Properties *)

\* Types of the state of lce.c.
TypeOK ==
    /\ link \in [Link -> LinkRecord]
    /\ callback \in {"none", "establish_cfm", "indirect_cfm", "page_failed",
                     "shutdown", "shutdown_read"}
    /\ cur \in Link \cup {NoLink}
    /\ walk \in Seq(Transaction)

\* dect_ddl_sdu_timer destroys the link without looking at its transactions.
\* While LCE.05 runs there are none, and no lookup by IPUI can reach the link.
SduTimeoutSafe ==
    \A l \in Link : link[l].sdu = "sdu" =>
        /\ link[l].state = "ESTABLISHED"
        /\ link[l].trans = <<>>
        /\ link[l].peer = NoPeer

\* A link that waits for something is waited for by an event: a pending link by
\* its page timer or the connecting socket, a releasing one by LCE.01.  A link
\* that is up has the socket that sending and releasing dereference.
WayOut(l) ==
    LET d == link[l] IN
    /\ d.state = "ESTABLISH_PENDING" =>
         d.page \/ d.socket \/ (callback = "page_failed" /\ cur = l)
    /\ d.state = "RELEASE_PENDING" => d.rel
    /\ d.state \in {"ESTABLISHED", "RELEASE_PENDING"} => d.socket

NothingStuck == \A l \in Link : WayOut(l)

\* Every message accepted while the link was pending, by it or by the pending
\* link whose transactions it took over, and every later one is on the socket
\* exactly once, in the order of acceptance.
Ids(n) == [i \in 1 .. n |-> i]

InOrder ==
    \A l \in Link :
        LET d == link[l] IN
        /\ d.state = "ESTABLISH_PENDING" => d.tx = <<>> /\ d.queue = Ids(d.nsent)
        /\ d.state = "ESTABLISHED" /\ ~ (callback = "establish_cfm" /\ cur = l) =>
             d.queue = <<>> /\ (~ CfmSends => d.tx = Ids(d.nsent))

\* While dect_ddl_shutdown waits for the application, which may open, send on and
\* close transactions of any link, the transaction it shuts down stays the first of
\* the list, and the pointer it has saved the one behind it: a call on that link
\* ends in BUG() before it changes the list.
WalkIntact == callback \in {"shutdown", "shutdown_read"} /\ Running =>
    /\ link[cur].state = "RELEASED"
    /\ link[cur].trans # <<>>
    /\ walk = Saved(link[cur].trans, 1)

\* Two open transactions that this side initiated on a link never share a
\* transaction value: the answers to one would be given to the other.  (After
\* an indirect establishment they can, see the hazards: a run without paging.)
OwnTvUnique ==
    \A l \in Link : \A i, j \in DOMAIN link[l].trans :
        link[l].trans[i] = link[l].trans[j] /\ link[l].trans[i].role = "I" => i = j

\* A link whose release has begun is never used again, and the IPUI of a link is
\* never exchanged for another one.
LifeStep ==
    \A l \in Link :
        LET d == link[l] IN
        /\ d.state \in {"RELEASED", "RELEASE_PENDING"} => link'[l].state \notin Usable
        /\ d.peer # NoPeer /\ Live(link'[l]) /\ Running' => link'[l].peer = d.peer

LifeCycle == [][LifeStep]_vars

\* Establishment ends: by the connection, by a page response, or after the last
\* page.  (A crash of the process ends it too.)
EstablishmentEnds ==
    \A l \in Link : link[l].state = "ESTABLISH_PENDING" ~>
                      (link[l].state # "ESTABLISH_PENDING" \/ ~ Running)

\* LCE.01 ends a release whatever the peer does.
ReleaseEnds ==
    \A l \in Link : link[l].state = "RELEASE_PENDING" ~>
                      (link[l].state # "RELEASE_PENDING" \/ ~ Running)

\* The inductive invariant behind SduTimeoutSafe, NothingStuck and InOrder: an
\* object that is not a link holds nothing, a callback has its link, and while
\* the application is told of an establishment the queue is still complete.
Vacant(d) == d.state \in {"FREE", "FREED"} \cup Crashed => d.trans = <<>> /\ d.peer = NoPeer

BeforeDrain ==
    callback = "establish_cfm" =>
        /\ link[cur].state # "ESTABLISH_PENDING"
        /\ ~ CfmSends => /\ link[cur].state = "ESTABLISHED"
                         /\ link[cur].tx = <<>>
                         /\ link[cur].queue = Ids(link[cur].nsent)

IndInv ==
    /\ TypeOK
    /\ callback = "none" <=> cur = NoLink
    /\ \A l \in Link : Vacant(link[l])
    /\ SduTimeoutSafe
    /\ NothingStuck
    /\ InOrder
    /\ BeforeDrain

-----------------------------------------------------------------------------
(* The service a fixed part provides.  A link is seen as up when its queue    *)
(* has been sent, after the callback that tells the application; one whose    *)
(* release has begun carries nothing.                                         *)

BeingConfirmed(l) == callback = "establish_cfm" /\ cur = l

ServedLink(l) ==
    LET d == link[l]
        Carrying(phase) == [phase |-> phase, accepted |-> d.nsent, written |-> d.tx]
        Empty(phase)    == [phase |-> phase, accepted |-> 0, written |-> <<>>]
    IN  IF d.state = "ESTABLISH_PENDING" \/ BeingConfirmed(l) THEN Carrying("establishing")
        ELSE IF d.state = "ESTABLISHED"                        THEN Carrying("up")
        ELSE IF d.state \in {"RELEASED", "RELEASE_PENDING"}    THEN Empty("leaving")
        ELSE Empty("idle")

Service == INSTANCE LinkService WITH service <- [l \in Link |-> ServedLink(l)],
                                     alive   <- Running

\* Whatever the interleaving of connections, pages, timers and callbacks, a
\* fixed part whose application does not send from inside DL_ESTABLISH-cfm
\* provides the service of LinkService.
ServiceProvided == Service!Spec

-----------------------------------------------------------------------------
(* What assertions and comments of lce.c say, and the code does not do *)

\* "dect_assert(list_empty(&ddl->transactions))" in dect_ddl_destroy.
DestroyOnlyIdle == \A l \in Link : link[l].state # "ASSERT_TRANSACTIONS"

\* The BUG() of dect_lce_send and dect_lce_send_cl: no message is sent on a link
\* that is neither established nor being established.
SendOnlyUsable == \A l \in Link : link[l].state # "BUG_SEND"
=============================================================================
