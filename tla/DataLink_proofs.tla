-------------------------- MODULE DataLink_proofs --------------------------
(***************************************************************************)
(* Proofs about DataLink for every set of links and peers, every number of  *)
(* pages and every bound: its types, the safety invariants SduTimeoutSafe,   *)
(* NothingStuck, InOrder and WalkIntact, the action property LifeCycle, and   *)
(* OwnTvUnique where nobody is paged.                                        *)
(*                                                                          *)
(* The argument is one record at a time.  RecordOK is the part of the       *)
(* inductive invariant that speaks of one link, and Evolves(d, e) says what  *)
(* a handler may make of a link d that it neither establishes nor replaces.  *)
(* Each handler is shown to be such a step; an action whose effect is one    *)
(* such step then preserves the invariant by one common lemma, and only the  *)
(* actions of establishment are treated by themselves.  The transactions of   *)
(* a link and the loop that shuts them down follow.                          *)
(***************************************************************************)
EXTENDS DataLink, SequenceTheorems, WellFoundedInduction, TLAPS

RecordOK(d) ==
    /\ d \in LinkRecord
    /\ Vacant(d)
    /\ d.sdu = "sdu" => d.state = "ESTABLISHED" /\ d.trans = <<>> /\ d.peer = NoPeer
    /\ d.state = "RELEASE_PENDING" => d.rel
    /\ d.state \in {"ESTABLISHED", "RELEASE_PENDING"} => d.socket
    /\ d.state = "ESTABLISH_PENDING" => d.tx = <<>> /\ d.queue = Ids(d.nsent)

Evolves(d, e) ==
    /\ RecordOK(e)
    /\ e.state = "ESTABLISH_PENDING" =>
         d.state = "ESTABLISH_PENDING" /\ e.page = d.page /\ e.socket = d.socket
    /\ e.state = "ESTABLISHED" =>
         /\ d.state = "ESTABLISHED"
         /\ d.queue = <<>> => e.queue = <<>>
         /\ d.tx = Ids(d.nsent) => e.tx = Ids(e.nsent)
    /\ d.peer # NoPeer /\ Live(e) /\ e.state \notin Crashed => e.peer = d.peer

-----------------------------------------------------------------------------
(* Sequences *)

\* The messages 1 .. n followed by the next one.
LEMMA IdsAppend ==
    ASSUME NEW n \in Nat
    PROVE  Ids(n) \in Seq(Nat) /\ Len(Ids(n)) = n /\ Append(Ids(n), n + 1) = Ids(n + 1)
<1>1. Ids(n) \in Seq(Nat) /\ Len(Ids(n)) = n
  BY DEF Ids
<1>2. Ids(n + 1) \in Seq(Nat) /\ Len(Ids(n + 1)) = n + 1
  BY DEF Ids
<1>3. Append(Ids(n), n + 1) \in Seq(Nat) /\ Len(Append(Ids(n), n + 1)) = n + 1
  BY <1>1
<1>4. \A i \in 1 .. n + 1 : Append(Ids(n), n + 1)[i] = Ids(n + 1)[i]
  BY <1>1 DEF Ids
<1>5. Append(Ids(n), n + 1) = Ids(n + 1)
  BY <1>2, <1>3, <1>4, SeqEqual, Zenon
<1> QED
  BY <1>1, <1>5

\* No message at all.
LEMMA IdsZero == Ids(0) = <<>>
  BY DEF Ids

\* The messages 1 .. n followed by a queue of m messages renumbered after them.
LEMMA IdsConcat ==
    ASSUME NEW n \in Nat, NEW m \in Nat
    PROVE  Ids(n) \o [j \in 1 .. Len(Ids(m)) |-> n + Ids(m)[j]] = Ids(n + m)
<1> DEFINE r == [j \in 1 .. Len(Ids(m)) |-> n + Ids(m)[j]]
<1>1. Ids(n) \in Seq(Nat) /\ Len(Ids(n)) = n /\ Len(Ids(m)) = m /\ Ids(n + m) \in Seq(Nat)
        /\ Len(Ids(n + m)) = n + m
  BY IdsAppend
<1>2. r = [j \in 1 .. m |-> n + j]
  BY <1>1 DEF Ids
<1>3. r \in Seq(Nat) /\ Len(r) = m
  BY <1>2
<1>4. Ids(n) \o r \in Seq(Nat) /\ Len(Ids(n) \o r) = n + m
  BY <1>1, <1>3
<1>5. \A i \in 1 .. n + m : (Ids(n) \o r)[i] = Ids(n + m)[i]
  BY <1>1, <1>2, <1>3 DEF Ids
<1> QED
  BY <1>1, <1>4, <1>5, SeqEqual, Zenon

\* list_del of one transaction
LEMMA RemoveAtType ==
    ASSUME NEW S, NEW s \in Seq(S), NEW i \in DOMAIN s
    PROVE  RemoveAt(s, i) \in Seq(S)
<1>1. i \in 1 .. Len(s) /\ Len(s) \in Nat /\ i - 1 \in Int /\ i + 1 \in Int
  OBVIOUS
<1>2. SubSeq(s, 1, i - 1) \in Seq(S)
  <2>1. \A k \in 1 .. i - 1 : s[k] \in S
    BY <1>1
  <2> QED BY <1>1, <2>1, SubSeqProperties
<1>3. SubSeq(s, i + 1, Len(s)) \in Seq(S)
  <2>1. \A k \in i + 1 .. Len(s) : s[k] \in S
    BY <1>1
  <2> QED BY <1>1, <2>1, SubSeqProperties
<1> QED
  BY <1>2, <1>3, ConcatProperties DEF RemoveAt

\* dect_transaction_link keeps a list of transactions.
LEMMA LinkedType ==
    ASSUME NEW S, NEW s \in Seq(S), NEW t \in S
    PROVE  Linked(s, t) \in Seq(S) /\ Linked(s, t) # <<>>
<1>1. <<t>> \o s \in Seq(S) /\ <<t>> \o s # <<>>
  OBVIOUS
<1>2. Append(s, t) \in Seq(S) /\ Append(s, t) # <<>>
  BY AppendProperties
<1>3. ASSUME s # <<>>
      PROVE  Front(s) \o <<t, Last(s)>> \in Seq(S) /\ Front(s) \o <<t, Last(s)>> # <<>>
  <2>1. Len(s) \in Nat /\ Len(s) >= 1 /\ Last(s) \in S
    BY <1>3 DEF Last
  <2>2. Front(s) \in Seq(S)
    <3>1. \A k \in 1 .. Len(s) - 1 : s[k] \in S
      BY <2>1
    <3> QED BY <2>1, <3>1, SubSeqProperties DEF Front
  <2>3. <<t, Last(s)>> \in Seq(S) /\ Len(<<t, Last(s)>>) = 2
    BY <2>1
  <2>4. Front(s) \o <<t, Last(s)>> \in Seq(S)
          /\ Len(Front(s) \o <<t, Last(s)>>) = Len(Front(s)) + 2
    BY <2>2, <2>3
  <2>5. Front(s) \o <<t, Last(s)>> # <<>>
    BY <2>2, <2>4, EmptySeq
  <2> QED BY <2>4, <2>5
<1> QED
  BY <1>1, <1>2, <1>3 DEF Linked

-----------------------------------------------------------------------------
(* Handlers of one link *)

\* Two handlers in a row
LEMMA EvolvesTransitive ==
    ASSUME NEW d, NEW e, NEW f, Evolves(d, e), Evolves(e, f), d \in LinkRecord,
           e.state \notin Crashed \/ f.state \in Crashed,
           Live(e) \/ ~ Live(f) \/ f.state \in Crashed
    PROVE  Evolves(d, f)
  BY DEF Evolves

\* A handler that does nothing
LEMMA EvolvesReflexive ==
    ASSUME NEW d, RecordOK(d)
    PROVE  Evolves(d, d)
  BY DEF Evolves

\* The fields of an object that is not in use
LEMMA UnusedFields ==
    /\ Unused \in LinkRecord
    /\ Unused.state = "FREE" /\ Unused.peer = NoPeer /\ ~ Unused.socket
    /\ Unused.trans = <<>> /\ Unused.queue = <<>> /\ Unused.tx = <<>>
    /\ Unused.nsent = 0 /\ Unused.sdu = "off" /\ ~ Unused.page
<1>1. <<>> \in Seq(Transaction) /\ <<>> \in Seq(Nat)
  OBVIOUS
<1> QED
  BY <1>1 DEF LinkRecord, LinkState, Usable, Crashed, Unused

\* The process dies.
LEMMA EvolvesCrash ==
    ASSUME NEW d, NEW why \in Crashed
    PROVE  Evolves(d, Crash(d, why)) /\ Crash(d, why).state \in Crashed
<1>1. Crash(d, why).state = why /\ Crash(d, why).trans = <<>> /\ Crash(d, why).peer = NoPeer
        /\ Crash(d, why).sdu = "off" /\ Crash(d, why) \in LinkRecord
  BY UnusedFields DEF Crash, LinkRecord, LinkState
<1>2. why \notin {"FREE", "FREED", "RELEASED", "RELEASE_PENDING", "ESTABLISH_PENDING",
                   "ESTABLISHED"}
  BY DEF Crashed
<1> QED
  BY <1>1, <1>2 DEF Evolves, RecordOK, Vacant

\* dect_ddl_destroy
LEMMA EvolvesDestroyed ==
    ASSUME NEW d, d \in LinkRecord
    PROVE  /\ Evolves(d, Freed(d)) /\ Evolves(d, Destroyed(d))
           /\ Freed(d).state \in {"FREE", "FREED"}
           /\ Destroyed(d).state \in {"FREE", "FREED"} \cup Crashed
<1> DEFINE f == Freed(d)
<1>1. d.page \in BOOLEAN /\ d.leaked \in Nat
  BY DEF LinkRecord
<1>2. /\ f \in LinkRecord /\ f.state \in {"FREE", "FREED"}
      /\ f.trans = <<>> /\ f.peer = NoPeer /\ f.sdu = "off"
  BY <1>1, UnusedFields DEF Freed, LinkRecord, LinkState
<1>3. Evolves(d, f)
  BY <1>2 DEF Evolves, RecordOK, Vacant, Live, Crashed
<1>4. "ASSERT_TRANSACTIONS" \in Crashed
  BY DEF Crashed
<1> QED
  BY <1>2, <1>3, <1>4, EvolvesCrash DEF Destroyed

\* dect_ddl_release of a link that is up
LEMMA EvolvesRelease ==
    ASSUME NEW d, RecordOK(d), d.state \in {"ESTABLISHED", "RELEASE_PENDING"},
           d.sdu # "sdu", NEW e \in ReleaseOutcomes(d)
    PROVE  Evolves(d, e)
<1> DEFINE k == IF d.rel THEN d.leaked + 1 ELSE d.leaked
           r == [d EXCEPT !.state = "RELEASE_PENDING", !.rel = TRUE, !.leaked = k]
<1>1. d \in LinkRecord /\ k \in Nat
  BY DEF RecordOK, LinkRecord
<1>2. r \in LinkRecord /\ r.state = "RELEASE_PENDING" /\ r.rel /\ r.sdu = d.sdu
        /\ r.peer = d.peer /\ r.socket = d.socket
  <2> HIDE DEF k
  <2> QED BY <1>1 DEF LinkRecord, LinkState
<1>3. ReleaseOutcomes(d) = {Destroyed(d), r}
  BY Zenon DEF ReleaseOutcomes
<1>4. Evolves(d, r)
  BY <1>2 DEF Evolves, RecordOK, Vacant, Crashed
<1> QED
  BY <1>1, <1>3, <1>4, EvolvesDestroyed

\* The switch of dect_lce_send and dect_lce_send_cl: a message is sent, queued,
\* or the process dies.
LEMMA EvolvesAccepted ==
    ASSUME NEW d, RecordOK(d), d.sdu # "sdu"
    PROVE  /\ Evolves(d, Accepted(d))
           /\ Accepted(d).state \notin Crashed =>
                /\ Accepted(d).state = d.state /\ d.state \in Usable
                /\ Accepted(d).trans = d.trans /\ Accepted(d).sdu = d.sdu
                /\ Accepted(d).peer = d.peer
<1> DEFINE m == d.nsent + 1
<1>1. d \in LinkRecord /\ d.nsent \in Nat /\ m \in Nat /\ d.tx \in Seq(Nat)
        /\ d.queue \in Seq(Nat)
  BY DEF RecordOK, LinkRecord
<1>2. Append(d.tx, m) \in Seq(Nat) /\ Append(d.queue, m) \in Seq(Nat)
  BY <1>1, AppendProperties
<1>3. Append(Ids(d.nsent), m) = Ids(m)
  BY <1>1, IdsAppend
<1>4. CASE d.state = "ESTABLISHED"
  <2> DEFINE e == [d EXCEPT !.nsent = m, !.tx = Append(d.tx, m)]
  <2>1. e \in LinkRecord /\ e.state = d.state /\ e.trans = d.trans /\ e.sdu = d.sdu
          /\ e.peer = d.peer /\ e.socket = d.socket /\ e.queue = d.queue
          /\ e.nsent = m /\ e.tx = Append(d.tx, m)
    BY <1>1, <1>2 DEF LinkRecord
  <2>2. Accepted(d) = e
    BY <1>4, Zenon DEF Accepted
  <2>3. Evolves(d, e)
    BY <1>3, <1>4, <2>1 DEF Evolves, RecordOK, Vacant, Crashed
  <2> QED BY <1>4, <2>1, <2>2, <2>3 DEF Usable
<1>5. CASE d.state = "ESTABLISH_PENDING"
  <2> DEFINE e == [d EXCEPT !.nsent = m, !.queue = Append(d.queue, m)]
  <2>1. e \in LinkRecord /\ e.state = d.state /\ e.trans = d.trans /\ e.sdu = d.sdu
          /\ e.peer = d.peer /\ e.socket = d.socket /\ e.page = d.page /\ e.tx = d.tx
          /\ e.nsent = m /\ e.queue = Append(d.queue, m)
    BY <1>1, <1>2 DEF LinkRecord
  <2>2. Accepted(d) = e
    BY <1>5 DEF Accepted
  <2>3. d.tx = <<>> /\ d.queue = Ids(d.nsent)
    BY <1>5 DEF RecordOK
  <2>4. Evolves(d, e)
    BY <1>3, <1>5, <2>1, <2>3 DEF Evolves, RecordOK, Vacant, Crashed
  <2> QED BY <1>5, <2>1, <2>2, <2>4 DEF Usable
<1>6. CASE d.state \notin Usable
  <2>1. Accepted(d) = Crash(d, "BUG_SEND") /\ "BUG_SEND" \in Crashed
    BY <1>6 DEF Accepted, Usable, Crashed
  <2> QED BY <2>1, EvolvesCrash
<1> QED
  BY <1>4, <1>5, <1>6 DEF Usable

\* Stopping LCE.05 or LCE.02
LEMMA EvolvesSduStopped ==
    ASSUME NEW d, RecordOK(d)
    PROVE  /\ Evolves(d, SduStopped(d))
           /\ SduStopped(d).state = d.state /\ SduStopped(d).trans = d.trans
           /\ SduStopped(d).peer = d.peer /\ SduStopped(d).sdu = "off"
<1> DEFINE e == [d EXCEPT !.sdu = "off"]
<1>1. e \in LinkRecord /\ e.state = d.state /\ e.trans = d.trans /\ e.sdu = "off"
        /\ e.peer = d.peer /\ e.socket = d.socket /\ e.page = d.page /\ e.tx = d.tx
        /\ e.nsent = d.nsent /\ e.queue = d.queue /\ e.rel = d.rel
  BY DEF LinkRecord, RecordOK
<1> QED
  BY <1>1 DEF SduStopped, Evolves, RecordOK, Vacant, Crashed

\* dect_lce_send
LEMMA EvolvesSent ==
    ASSUME NEW d, RecordOK(d)
    PROVE  /\ Evolves(d, Sent(d))
           /\ Sent(d).state \notin Crashed =>
                /\ Sent(d).state = d.state /\ d.state \in Usable
                /\ Sent(d).trans = d.trans /\ Sent(d).sdu = "off"
                /\ Sent(d).peer = d.peer
<1> DEFINE s == SduStopped(d)
<1>1. Evolves(d, s) /\ s.state = d.state /\ s.trans = d.trans /\ s.peer = d.peer /\ s.sdu = "off"
  BY EvolvesSduStopped
<1>2. RecordOK(s)
  BY <1>1 DEF Evolves
<1>3. Evolves(s, Accepted(s))
  BY <1>1, <1>2, EvolvesAccepted
<1>4. Accepted(s).state \notin Crashed =>
        /\ Accepted(s).state = s.state /\ s.state \in Usable
        /\ Accepted(s).trans = s.trans /\ Accepted(s).sdu = s.sdu /\ Accepted(s).peer = s.peer
  BY <1>1, <1>2, EvolvesAccepted
<1>5. s.state \notin Crashed \/ Accepted(s).state \in Crashed
  BY <1>4
<1>6. Evolves(d, Accepted(s))
  BY <1>1, <1>3, <1>4 DEF Evolves, Live
<1> QED
  BY <1>1, <1>4, <1>6 DEF Sent

\* dect_transaction_link on a link that is in use
LEMMA EvolvesOpened ==
    ASSUME NEW d, RecordOK(d), d.sdu # "sdu", Live(d), d.state \notin Crashed,
           NEW t \in Transaction
    PROVE  /\ Evolves(d, Opened(d, t))
           /\ Opened(d, t).state = d.state /\ Opened(d, t).sdu = d.sdu
           /\ Opened(d, t).peer = d.peer
<1> DEFINE s == Linked(d.trans, t)
           e == [d EXCEPT !.trans = s]
<1>1. d \in LinkRecord /\ d.trans \in Seq(Transaction)
  BY DEF RecordOK, LinkRecord
<1>2. s \in Seq(Transaction)
  BY <1>1, LinkedType
<1>3. e \in LinkRecord /\ e.state = d.state /\ e.sdu = d.sdu /\ e.peer = d.peer
        /\ e.socket = d.socket /\ e.page = d.page /\ e.tx = d.tx
        /\ e.nsent = d.nsent /\ e.queue = d.queue /\ e.rel = d.rel
  <2> HIDE DEF s
  <2> QED BY <1>1, <1>2 DEF LinkRecord
<1>4. Opened(d, t) = e
  BY Zenon DEF Opened
<1>5. Evolves(d, e)
  BY <1>3 DEF Evolves, RecordOK, Vacant, Live
<1> QED
  BY <1>3, <1>4, <1>5

\* dect_ddl_partial_release of a link that is not being established
LEMMA EvolvesPartialReleased ==
    ASSUME NEW d, RecordOK(d)
    PROVE  Evolves(d, PartialReleased(d))
<1> DEFINE e == [d EXCEPT !.sdu = "partial"]
<1>1. e \in LinkRecord /\ e.state = d.state /\ e.trans = d.trans /\ e.sdu = "partial"
        /\ e.peer = d.peer /\ e.socket = d.socket /\ e.page = d.page /\ e.tx = d.tx
        /\ e.nsent = d.nsent /\ e.queue = d.queue /\ e.rel = d.rel
  BY DEF LinkRecord, RecordOK
<1> QED
  BY <1>1 DEF PartialReleased, Evolves, RecordOK, Vacant, Crashed

\* dect_transaction_close
LEMMA EvolvesClose ==
    ASSUME NEW d, RecordOK(d), NEW i \in DOMAIN d.trans, NEW mode,
           NEW f \in CloseOutcomes(d, i, mode)
    PROVE  Evolves(d, f)
<1> DEFINE s == RemoveAt(d.trans, i)
           e == [d EXCEPT !.trans = s]
<1>1. d \in LinkRecord /\ d.trans \in Seq(Transaction) /\ d.trans # <<>>
  BY DEF RecordOK, LinkRecord
<1>2. Live(d) /\ d.state \notin Crashed /\ d.sdu # "sdu"
  BY <1>1 DEF RecordOK, Vacant, Live
<1>3. s \in Seq(Transaction)
  BY <1>1, RemoveAtType
<1>4. e \in LinkRecord /\ e.state = d.state /\ e.sdu = d.sdu /\ e.peer = d.peer
        /\ e.socket = d.socket /\ e.page = d.page /\ e.tx = d.tx
        /\ e.nsent = d.nsent /\ e.queue = d.queue /\ e.rel = d.rel /\ e.trans = s
  <2> HIDE DEF s
  <2> QED BY <1>1, <1>3 DEF LinkRecord
<1>5. Evolves(d, e)
  BY <1>2, <1>4 DEF Evolves, RecordOK, Vacant, Live
<1>6. RecordOK(e)
  BY <1>5 DEF Evolves
<1> HIDE DEF e
<1>7. SUFFICES Evolves(e, f)
  BY <1>1, <1>2, <1>4, <1>5, <1>7, EvolvesTransitive DEF Live
<1>8. Evolves(e, e) /\ Evolves(e, Destroyed(e)) /\ Evolves(e, PartialReleased(e))
  BY <1>4, <1>6, EvolvesReflexive, EvolvesDestroyed, EvolvesPartialReleased
<1>9. \/ f \in {e, Destroyed(e), PartialReleased(e)}
      \/ /\ d.state # "ESTABLISH_PENDING"
         /\ ~ (d.state = "RELEASED" /\ e.trans = <<>>)
         /\ e.trans = <<>>
         /\ f \in ReleaseOutcomes(e)
  BY Zenon DEF CloseOutcomes, e
<1>10. ASSUME f \in ReleaseOutcomes(e), d.state # "ESTABLISH_PENDING", d.state # "RELEASED"
       PROVE  Evolves(e, f)
  <2>1. d.state \in LinkState
    BY <1>1 DEF LinkRecord
  <2>2. e.state \in {"ESTABLISHED", "RELEASE_PENDING"}
    BY <1>2, <1>4, <1>10, <2>1 DEF LinkState, Usable, Live
  <2> QED BY <1>2, <1>4, <1>6, <1>10, <2>2, EvolvesRelease
<1> QED
  BY <1>8, <1>9, <1>10

\* A transaction is closed in the way of its protocol.
LEMMA EvolvesOwnClose ==
    ASSUME NEW d, RecordOK(d), NEW i \in DOMAIN d.trans, NEW f \in OwnClose(d, i)
    PROVE  Evolves(d, f)
  BY EvolvesClose DEF OwnClose

\* A message is sent and then the transaction is closed, unless the process died.
LEMMA EvolvesSentClosed ==
    ASSUME NEW d, RecordOK(d), NEW i \in DOMAIN d.trans,
           Sent(d).state \notin Crashed, NEW f \in OwnClose(Sent(d), i)
    PROVE  Evolves(d, f)
<1>1. Evolves(d, Sent(d)) /\ Sent(d).trans = d.trans /\ Sent(d).state = d.state
        /\ d.state \in Usable
  BY EvolvesSent
<1>2. Evolves(Sent(d), f)
  BY <1>1, EvolvesOwnClose DEF Evolves
<1> QED
  BY <1>1, <1>2, EvolvesTransitive DEF RecordOK, Live, Usable

\* dect_ddl_shutdown up to the first transaction
LEMMA EvolvesShutdown ==
    ASSUME NEW d, RecordOK(d), Live(d), d.state \notin Crashed
    PROVE  Evolves(d, Shutdown(d))
<1> DEFINE e == [d EXCEPT !.state = "RELEASED"]
<1>1. d \in LinkRecord
  BY DEF RecordOK
<1>2. e \in LinkRecord /\ e.state = "RELEASED" /\ e.trans = d.trans /\ e.peer = d.peer
        /\ e.sdu = d.sdu
  BY <1>1 DEF LinkRecord, LinkState
<1>3. CASE d.trans = <<>>
  <2>1. Shutdown(d) = Destroyed(e) /\ Evolves(e, Destroyed(e))
          /\ Destroyed(e).state \in {"FREE", "FREED"} \cup Crashed
    <3> HIDE DEF e
    <3>1. e.trans = <<>>
      BY <1>2, <1>3
    <3> QED BY <1>2, <3>1, EvolvesDestroyed, Zenon DEF Shutdown, e
  <2> QED BY <2>1 DEF Evolves, Live, Crashed
<1>4. CASE d.trans # <<>>
  <2>1. Shutdown(d) = e
    BY <1>2, <1>4 DEF Shutdown
  <2>2. e.sdu # "sdu"
    BY <1>2, <1>4 DEF RecordOK
  <2>3. Evolves(d, e)
    BY <1>2, <2>2 DEF Evolves, RecordOK, Vacant, Crashed
  <2> QED BY <2>1, <2>3
<1> QED
  BY <1>3, <1>4

\* A transaction is opened and its first message sent.
LEMMA EvolvesOpenedSent ==
    ASSUME NEW d, RecordOK(d), d.sdu # "sdu", Live(d), d.state \notin Crashed,
           NEW t \in Transaction
    PROVE  Evolves(d, Sent(Opened(d, t)))
<1>1. Evolves(d, Opened(d, t)) /\ Opened(d, t).state = d.state
  BY EvolvesOpened
<1>2. Evolves(Opened(d, t), Sent(Opened(d, t)))
  BY <1>1, EvolvesSent DEF Evolves
<1> QED
  BY <1>1, <1>2, EvolvesTransitive DEF RecordOK, Live

\* dect_lce_send_page_reject and dect_ddl_release
LEMMA EvolvesRejected ==
    ASSUME NEW d, RecordOK(d), d.state \in {"ESTABLISHED", "RELEASE_PENDING"},
           NEW f \in Rejected(d)
    PROVE  Evolves(d, f)
<1>1. Evolves(d, Sent(d)) /\ RecordOK(Sent(d))
  BY EvolvesSent DEF Evolves
<1>2. CASE Sent(d).state \in Crashed
  BY <1>1, <1>2 DEF Rejected
<1>3. CASE Sent(d).state \notin Crashed
  <2>1. Sent(d).state = d.state /\ Sent(d).sdu = "off"
    BY <1>3, EvolvesSent
  <2>2. f \in ReleaseOutcomes(Sent(d))
    BY <1>3 DEF Rejected
  <2>3. Evolves(Sent(d), f)
    BY <1>1, <2>1, <2>2, EvolvesRelease
  <2> QED BY <1>1, <1>3, <2>1, <2>3, EvolvesTransitive DEF RecordOK, Live
<1> QED
  BY <1>2, <1>3

\* The first message or reject on a link may tell its IPUI.
LEMMA EvolvesIdentified ==
    ASSUME NEW d, RecordOK(d), d.sdu # "sdu", Live(d), d.state \notin Crashed,
           NEW p \in Peer
    PROVE  /\ Evolves(d, Identified(d, p))
           /\ Identified(d, p).state = d.state /\ Identified(d, p).sdu = d.sdu
<1> DEFINE q == IF d.peer = NoPeer THEN p ELSE d.peer
           n == [d EXCEPT !.peer = q]
<1>1. d \in LinkRecord /\ q \in Peer \cup {NoPeer}
  BY DEF RecordOK, LinkRecord
<1>2. n \in LinkRecord /\ n.state = d.state /\ n.sdu = d.sdu /\ n.peer = q
        /\ n.socket = d.socket /\ n.page = d.page /\ n.tx = d.tx /\ n.trans = d.trans
        /\ n.nsent = d.nsent /\ n.queue = d.queue /\ n.rel = d.rel
  <2> HIDE DEF q
  <2> QED BY <1>1 DEF LinkRecord
<1>3. Evolves(d, n)
  BY <1>2 DEF Evolves, RecordOK, Vacant, Live
<1>4. Identified(d, p) = n
  BY Zenon DEF Identified
<1> QED
  BY <1>2, <1>3, <1>4

\* A message of an unknown transaction
LEMMA EvolvesRcvOpen ==
    ASSUME NEW d, RecordOK(d), d.state \in {"ESTABLISHED", "RELEASE_PENDING"},
           NEW t \in Transaction, NEW p \in Peer, NEW f \in RcvOpen(d, t, p)
    PROVE  Evolves(d, f)
<1> DEFINE s == SduStopped(d)
           o == Opened(s, t)
           n == Identified(o, p)
<1>1. Evolves(d, s) /\ RecordOK(s) /\ s.state = d.state /\ s.sdu = "off"
  BY EvolvesSduStopped DEF Evolves
<1>2. Live(s) /\ s.state \notin Crashed /\ d.state \notin Crashed /\ d \in LinkRecord
  BY <1>1 DEF Live, Crashed, RecordOK
<1>3. Evolves(s, Sent(s))
  BY <1>1, EvolvesSent
<1>4. Evolves(s, o) /\ o.state = s.state /\ o.sdu = s.sdu /\ RecordOK(o)
  BY <1>1, <1>2, EvolvesOpened DEF Evolves
<1>5. Evolves(o, n)
  <2> HIDE DEF o
  <2> QED BY <1>1, <1>2, <1>4, EvolvesIdentified, Zenon DEF Live
<1>6. Evolves(s, n)
  <2> HIDE DEF o, n, s
  <2> QED BY <1>1, <1>2, <1>4, <1>5, EvolvesTransitive DEF RecordOK, Live
<1>7. f \in {s, Identified(s, p), Sent(s), o, n}
  BY Zenon DEF RcvOpen
<1>8. Evolves(s, s) /\ Evolves(s, Identified(s, p))
  <2> HIDE DEF s
  <2> QED BY <1>1, <1>2, EvolvesReflexive, EvolvesIdentified
<1>9. Evolves(s, f)
  <2> HIDE DEF o, n, s
  <2> QED BY <1>3, <1>4, <1>6, <1>7, <1>8
<1> QED
  BY <1>1, <1>2, <1>9, EvolvesTransitive

\* A message of a known transaction
LEMMA EvolvesRcvKnown ==
    ASSUME NEW d, RecordOK(d), NEW i \in DOMAIN d.trans, NEW f \in RcvKnown(d, i)
    PROVE  Evolves(d, f)
<1> DEFINE s == SduStopped(d)
<1>1. Evolves(d, s) /\ RecordOK(s) /\ s.state = d.state /\ s.trans = d.trans
  BY EvolvesSduStopped DEF Evolves
<1>2. Live(s) /\ s.state \notin Crashed /\ d \in LinkRecord
  <2>1. d.trans # <<>>
    OBVIOUS
  <2> QED BY <1>1, <2>1 DEF RecordOK, Vacant, Live
<1> HIDE DEF s
<1>3. Evolves(s, s) /\ Evolves(s, Sent(s))
  BY <1>1, EvolvesReflexive, EvolvesSent
<1>4. \/ f = s
      \/ f \in OwnClose(s, i)
      \/ f = Sent(s)
      \/ Sent(s).state \notin Crashed /\ f \in OwnClose(Sent(s), i)
  <2>1. \/ f \in {s}
        \/ f \in OwnClose(s, i)
        \/ f \in IF ~ CanSend(s) THEN {}
                  ELSE {Sent(s)} \cup (IF Sent(s).state \in Crashed THEN {}
                                       ELSE OwnClose(Sent(s), i))
    BY Zenon DEF RcvKnown, s
  <2> QED BY <2>1
<1>5. Evolves(s, f)
  BY <1>1, <1>3, <1>4, EvolvesOwnClose, EvolvesSentClosed
<1> QED
  BY <1>1, <1>2, <1>5, EvolvesTransitive

\* A link that dect_ddl_establish creates
LEMMA EstablishingOK ==
    ASSUME NEW p \in Peer
    PROVE  /\ RecordOK(Establishing(p))
           /\ Establishing(p).state = "ESTABLISH_PENDING" /\ Establishing(p).sdu = "off"
           /\ Establishing(p).page \/ Establishing(p).socket
<1> DEFINE e == Establishing(p)
<1>1. CASE Mode = "FP" /\ p \in Paged
  <2>1. e = [Unused EXCEPT !.state = "ESTABLISH_PENDING", !.peer = p, !.page = TRUE, !.pages = 1]
    BY <1>1 DEF Establishing
  <2>2. e \in LinkRecord /\ e.state = "ESTABLISH_PENDING" /\ e.sdu = "off"
          /\ e.page = TRUE /\ e.tx = <<>> /\ e.queue = <<>> /\ e.nsent = 0
    <3> HIDE DEF e
    <3> QED BY <2>1, UnusedFields DEF LinkRecord, LinkState, Usable
  <2>3. e.queue = Ids(e.nsent)
    BY <2>2, IdsZero
  <2> QED BY <2>2, <2>3 DEF RecordOK, Vacant, Crashed
<1>2. CASE ~ (Mode = "FP" /\ p \in Paged)
  <2>1. e = [Unused EXCEPT !.state = "ESTABLISH_PENDING", !.peer = p, !.socket = TRUE]
    BY <1>2 DEF Establishing
  <2>2. e \in LinkRecord /\ e.state = "ESTABLISH_PENDING" /\ e.sdu = "off" /\ e.socket
          /\ e.tx = <<>> /\ e.queue = <<>> /\ e.nsent = 0
    BY <2>1, UnusedFields DEF LinkRecord, LinkState, Usable
  <2>3. e.queue = Ids(e.nsent)
    BY <2>2, IdsZero
  <2> QED BY <2>2, <2>3 DEF RecordOK, Vacant, Crashed
<1> QED
  BY <1>1, <1>2

-----------------------------------------------------------------------------
(* The invariant *)

Callbacks == {"none", "establish_cfm", "indirect_cfm", "page_failed",
              "shutdown", "shutdown_read"}

CallbackOK ==
    /\ callback \in Callbacks
    /\ cur \in Link \cup {NoLink}
    /\ callback = "none" <=> cur = NoLink
    /\ walk \in Seq(Transaction)

Waits(l) ==
    link[l].state = "ESTABLISH_PENDING" =>
      link[l].page \/ link[l].socket \/ (callback = "page_failed" /\ cur = l)

Drained(l) ==
    link[l].state = "ESTABLISHED" /\ ~ (callback = "establish_cfm" /\ cur = l) =>
      link[l].queue = <<>> /\ (~ CfmSends => link[l].tx = Ids(link[l].nsent))

\* IndInv says of each link that its record is sound, that it is waited for, and
\* that it is drained.
LEMMA IndInvByLink ==
    IndInv <=> /\ link \in [Link -> LinkRecord]
               /\ CallbackOK
               /\ \A l \in Link : RecordOK(link[l]) /\ Waits(l) /\ Drained(l)
               /\ BeforeDrain
<1>1. ASSUME IndInv
      PROVE  /\ link \in [Link -> LinkRecord]
             /\ CallbackOK
             /\ \A l \in Link : RecordOK(link[l]) /\ Waits(l) /\ Drained(l)
             /\ BeforeDrain
  <2>1. link \in [Link -> LinkRecord] /\ CallbackOK /\ BeforeDrain
    BY <1>1 DEF IndInv, TypeOK, CallbackOK, Callbacks
  <2>2. ASSUME NEW l \in Link
        PROVE  RecordOK(link[l]) /\ Waits(l) /\ Drained(l)
    <3>1. RecordOK(link[l])
      BY <1>1, <2>1 DEF IndInv, SduTimeoutSafe, NothingStuck, WayOut, InOrder, RecordOK
    <3>2. Waits(l)
      BY <1>1 DEF IndInv, NothingStuck, WayOut, Waits
    <3>3. Drained(l)
      BY <1>1 DEF IndInv, InOrder, Drained
    <3> QED BY <3>1, <3>2, <3>3
  <2> QED BY <2>1, <2>2
<1>2. ASSUME link \in [Link -> LinkRecord], CallbackOK, BeforeDrain,
             \A l \in Link : RecordOK(link[l]) /\ Waits(l) /\ Drained(l)
      PROVE  IndInv
  <2>1. TypeOK /\ (callback = "none" <=> cur = NoLink)
    BY <1>2 DEF TypeOK, CallbackOK, Callbacks
  <2>2. SduTimeoutSafe /\ \A l \in Link : Vacant(link[l])
    BY <1>2 DEF RecordOK, SduTimeoutSafe
  <2>3. NothingStuck
    BY <1>2 DEF RecordOK, Waits, NothingStuck, WayOut
  <2>4. InOrder
    BY <1>2 DEF RecordOK, Drained, InOrder
  <2> QED BY <1>2, <2>1, <2>2, <2>3, <2>4 DEF IndInv
<1> QED
  BY <1>1, <1>2

\* The same in the next state
LEMMA IndInvByLinkNext ==
    ASSUME link' \in [Link -> LinkRecord], CallbackOK',
           \A l \in Link : RecordOK(link'[l]) /\ Waits(l)' /\ Drained(l)',
           BeforeDrain'
    PROVE  IndInv'
<1>1. TypeOK' /\ (callback' = "none" <=> cur' = NoLink)
  BY DEF TypeOK, CallbackOK, Callbacks
<1>2. SduTimeoutSafe' /\ \A l \in Link : Vacant(link'[l])
  BY DEF RecordOK, SduTimeoutSafe
<1>3. NothingStuck'
  BY DEF RecordOK, Waits, NothingStuck, WayOut
<1>4. InOrder'
  BY DEF RecordOK, Drained, InOrder
<1> QED
  BY <1>1, <1>2, <1>3, <1>4 DEF IndInv

\* The step that most actions are: every link evolves, and no establishment is
\* confirmed or goes on after its confirmation.
LEMMA AllEvolve ==
    ASSUME IndInv,
           link' \in [Link -> LinkRecord],
           \A l \in Link : Evolves(link[l], link'[l]),
           CallbackOK',
           \/ UNCHANGED <<callback, cur>> /\ (callback = "establish_cfm" => CfmSends)
           \/ callback \in {"none", "indirect_cfm", "shutdown", "shutdown_read"}
              /\ callback' # "establish_cfm"
    PROVE  IndInv' /\ LifeStep
<1>1. /\ link \in [Link -> LinkRecord] /\ CallbackOK
      /\ \A l \in Link : RecordOK(link[l]) /\ Waits(l) /\ Drained(l)
  BY IndInvByLink
<1>2. BeforeDrain'
  BY <1>1, IndInvByLink DEF BeforeDrain, CallbackOK, Evolves
<1>3. ASSUME NEW l \in Link
      PROVE  RecordOK(link'[l]) /\ Waits(l)' /\ Drained(l)'
  <2>1. Evolves(link[l], link'[l]) /\ Waits(l) /\ Drained(l)
    BY <1>1, <1>3
  <2>2. RecordOK(link'[l])
    BY <2>1 DEF Evolves
  <2>3. Waits(l)'
    BY <2>1 DEF Evolves, Waits
  <2>4. Drained(l)'
    BY <2>1 DEF Evolves, Drained
  <2> QED BY <2>2, <2>3, <2>4
<1>4. LifeStep
  BY <1>3 DEF LifeStep, Evolves, Usable, Running
<1> QED
  BY <1>2, <1>3, <1>4, IndInvByLinkNext

\* The same when one link is changed
LEMMA OneEvolves ==
    ASSUME IndInv, NEW l \in Link, NEW e, Evolves(link[l], e),
           link' = [link EXCEPT ![l] = e],
           CallbackOK',
           \/ UNCHANGED <<callback, cur>> /\ (callback = "establish_cfm" => CfmSends)
           \/ callback \in {"none", "indirect_cfm", "shutdown", "shutdown_read"}
              /\ callback' # "establish_cfm"
    PROVE  IndInv' /\ LifeStep
<1>1. link \in [Link -> LinkRecord] /\ \A k \in Link : RecordOK(link[k])
  BY IndInvByLink
<1>2. e \in LinkRecord
  BY DEF Evolves, RecordOK
<1>3. link' \in [Link -> LinkRecord]
  BY <1>1, <1>2
<1>4. ASSUME NEW k \in Link PROVE Evolves(link[k], link'[k])
  <2>1. CASE k = l
    BY <1>1, <2>1
  <2>2. CASE k # l
    BY <1>1, <2>2, EvolvesReflexive
  <2> QED BY <2>1, <2>2
<1> QED
  BY <1>3, <1>4, AllEvolve

\* A new link
LEMMA AddKeeps ==
    ASSUME IndInv, NEW l \in Link, NEW e, Add(l, e),
           UNCHANGED <<callback, cur, walk>>, callback = "establish_cfm" => CfmSends,
           RecordOK(e),
           e.state = "ESTABLISH_PENDING" => e.page \/ e.socket,
           e.state = "ESTABLISHED" => e.queue = <<>> /\ e.tx = Ids(e.nsent)
    PROVE  IndInv' /\ LifeStep
<1>1. /\ link \in [Link -> LinkRecord] /\ CallbackOK /\ BeforeDrain
      /\ \A k \in Link : RecordOK(link[k]) /\ Waits(k) /\ Drained(k)
  BY IndInvByLink
<1>2. link' = [link EXCEPT ![l] = e] /\ e \in LinkRecord /\ l # cur
  BY DEF Add, RecordOK
<1>3. link' \in [Link -> LinkRecord] /\ CallbackOK' /\ BeforeDrain'
  BY <1>1, <1>2 DEF CallbackOK, BeforeDrain
<1>4. ASSUME NEW k \in Link
      PROVE  RecordOK(link'[k]) /\ Waits(k)' /\ Drained(k)'
  <2>1. CASE k = l
    <3>1. link'[k] = e
      BY <1>1, <1>2, <2>1
    <3> QED BY <3>1 DEF Waits, Drained
  <2>2. CASE k # l
    <3>1. link'[k] = link[k]
      BY <1>1, <1>2, <2>2
    <3> QED BY <1>1, <1>4, <3>1 DEF Waits, Drained
  <2> QED BY <2>1, <2>2
<1>5. link[l].state = "FREE" /\ link[l].peer = NoPeer
  BY <1>1 DEF Add, RecordOK, Vacant
<1>6. LifeStep
  BY <1>1, <1>2, <1>5 DEF LifeStep, Usable
<1> QED
  BY <1>3, <1>4, <1>6, IndInvByLinkNext

\* The transaction values that the code allocates or accepts
LEMMA TransactionType ==
    ASSUME NEW pd \in Protocol \cup {"LCE"}, NEW tv \in 0 .. MaxTv[pd] - 1, NEW role \in Role
    PROVE  [pd |-> pd, tv |-> tv, role |-> role] \in Transaction
<1>1. MaxTv[pd] \in Nat
  BY DataLinkAssumption
<1>2. tv \in Nat
  BY <1>1
<1> QED
  BY <1>2 DEF Transaction

\* Opening a transaction by IPUI and sending its first message: on the first link
\* with that IPUI the message is accepted or the process dies; a new link is pending.
LEMMA OpenByIpuiKeeps ==
    ASSUME IndInv, NEW p \in Peer, NEW pd \in Protocol, OpenByIpui(p, pd)
    PROVE  IndInv' /\ LifeStep
<1>1. UNCHANGED <<callback, cur, walk>> /\ (callback = "establish_cfm" => CfmSends) /\ Running
  BY DEF OpenByIpui, AppMayRun, InCallback
<1>2. CallbackOK' /\ \A k \in Link : RecordOK(link[k])
  BY <1>1, IndInvByLink DEF CallbackOK
<1>3. PICK l \in Link, tv \in 0 .. MaxTv[pd] - 1 :
        LET t == [pd |-> pd, tv |-> tv, role |-> "I"] IN
        \/ IsFirst(l, ByIpui(p)) /\ SetLink(l, Sent(Opened(link[l], t)))
        \/ tv = 0 /\ Add(l, Sent(Opened(Establishing(p), t)))
  BY DEF OpenByIpui
<1> DEFINE t == [pd |-> pd, tv |-> tv, role |-> "I"]
<1>4. t \in Transaction
  BY TransactionType DEF Role
<1> HIDE DEF t
<1>5. CASE IsFirst(l, ByIpui(p)) /\ SetLink(l, Sent(Opened(link[l], t)))
  <2>1. Live(link[l]) /\ link[l].peer = p
    BY <1>5 DEF IsFirst, ByIpui
  <2>2. link[l].state \notin Crashed /\ link[l].sdu # "sdu"
    BY <1>1, <1>2, <2>1, DataLinkAssumption DEF Running, RecordOK
  <2>3. Evolves(link[l], Sent(Opened(link[l], t)))
    BY <1>2, <1>4, <2>1, <2>2, EvolvesOpenedSent
  <2>4. link' = [link EXCEPT ![l] = Sent(Opened(link[l], t))]
    BY <1>5 DEF SetLink, Update
  <2> QED BY <1>1, <1>2, <2>3, <2>4, OneEvolves
<1>6. CASE Add(l, Sent(Opened(Establishing(p), t)))
  <2> DEFINE d == Establishing(p)
             e == Sent(Opened(d, t))
  <2>1. RecordOK(d) /\ d.state = "ESTABLISH_PENDING" /\ d.sdu = "off" /\ (d.page \/ d.socket)
    BY EstablishingOK
  <2>2. Evolves(d, e)
    <3> HIDE DEF d
    <3> QED BY <1>4, <2>1, EvolvesOpenedSent DEF Live, Crashed
  <2>3. RecordOK(e) /\ (e.state = "ESTABLISH_PENDING" => e.page \/ e.socket)
          /\ e.state # "ESTABLISHED"
    BY <2>1, <2>2 DEF Evolves
  <2> QED BY <1>1, <1>6, <2>3, AddKeeps
<1> QED
  BY <1>3, <1>5, <1>6 DEF t

\* The first message of an MM procedure opens a transaction on a link without LCE.05.
LEMMA OpenOnLinkKeeps ==
    ASSUME IndInv, NEW l \in Link, OpenOnLink(l)
    PROVE  IndInv' /\ LifeStep
<1>1. UNCHANGED <<callback, cur, walk>> /\ (callback = "establish_cfm" => CfmSends) /\ Running
  BY DEF OpenOnLink, AppMayRun, InCallback
<1>2. CallbackOK' /\ RecordOK(link[l])
  BY <1>1, IndInvByLink DEF CallbackOK
<1>3. "MM" \in Protocol /\ link[l].state \in {"ESTABLISHED", "RELEASE_PENDING"}
        /\ link[l].sdu # "sdu"
  BY DEF OpenOnLink
<1>4. PICK tv \in 0 .. MaxTv["MM"] - 1 :
        SetLink(l, Sent(Opened(link[l], [pd |-> "MM", tv |-> tv, role |-> "I"])))
  BY DEF OpenOnLink
<1> DEFINE t == [pd |-> "MM", tv |-> tv, role |-> "I"]
<1>5. t \in Transaction
  BY <1>3, TransactionType DEF Role
<1>6. link' = [link EXCEPT ![l] = Sent(Opened(link[l], t))]
  BY <1>4 DEF SetLink, Update
<1> HIDE DEF t
<1>7. Evolves(link[l], Sent(Opened(link[l], t)))
  BY <1>2, <1>3, <1>5, EvolvesOpenedSent DEF Live, Crashed
<1> QED
  BY <1>1, <1>2, <1>6, <1>7, OneEvolves

\* A primitive of an open transaction sends, and may then close it.
LEMMA RequestKeeps ==
    ASSUME IndInv, NEW l \in Link, NEW i, Request(l, i) \/ RequestClose(l, i) \/ TimeoutClose(l, i)
    PROVE  IndInv' /\ LifeStep
<1>1. UNCHANGED <<callback, cur, walk>> /\ (callback = "establish_cfm" => CfmSends)
        /\ i \in DOMAIN link[l].trans
  BY DEF Request, RequestClose, TimeoutClose, AppMayRun, InCallback, NoCallback
<1>2. CallbackOK' /\ RecordOK(link[l])
  BY <1>1, IndInvByLink DEF CallbackOK
<1>3. \E e : Evolves(link[l], e) /\ SetLink(l, e)
  <2>1. CASE Request(l, i)
    BY <1>2, <2>1, EvolvesSent DEF Request
  <2>2. CASE RequestClose(l, i)
    <3> DEFINE d == Sent(link[l])
    <3>1. PICK e \in IF d.state \in Crashed THEN {d} ELSE OwnClose(d, i) : SetLink(l, e)
      BY <2>2 DEF RequestClose
    <3>2. CASE d.state \in Crashed
      BY <1>2, <3>1, <3>2, EvolvesSent
    <3>3. CASE d.state \notin Crashed
      BY <1>1, <1>2, <3>1, <3>3, EvolvesSentClosed
    <3> QED BY <3>2, <3>3
  <2>3. CASE TimeoutClose(l, i)
    <3>1. PICK e \in OwnClose(link[l], i) : SetLink(l, e)
      BY <2>3 DEF TimeoutClose
    <3> QED BY <1>1, <1>2, <3>1, EvolvesOwnClose
  <2> QED BY <2>1, <2>2, <2>3
<1>4. PICK e : Evolves(link[l], e) /\ link' = [link EXCEPT ![l] = e]
  BY <1>3 DEF SetLink, Update
<1> QED
  BY <1>1, <1>2, <1>4, OneEvolves

\* Connectionless sending and DL_ESTABLISH-req: an existing link accepts, or a new
\* pending link is added.
LEMMA SendConnectionlessKeeps ==
    ASSUME IndInv, NEW p \in Peer, SendConnectionless(p) \/ EstablishReq(p)
    PROVE  IndInv' /\ LifeStep
<1>1. UNCHANGED <<callback, cur, walk>> /\ (callback = "establish_cfm" => CfmSends) /\ Running
  BY DEF SendConnectionless, EstablishReq, AppMayRun, InCallback
<1>2. CallbackOK' /\ \A k \in Link : RecordOK(link[k])
  BY <1>1, IndInvByLink DEF CallbackOK
<1> DEFINE d == Establishing(p)
           e == Accepted(d)
<1>3. RecordOK(d) /\ d.state = "ESTABLISH_PENDING" /\ d.sdu = "off" /\ (d.page \/ d.socket)
  BY EstablishingOK
<1>4. Evolves(d, e)
  <2> HIDE DEF d
  <2> QED BY <1>3, EvolvesAccepted
<1>5. RecordOK(e) /\ (e.state = "ESTABLISH_PENDING" => e.page \/ e.socket)
        /\ e.state # "ESTABLISHED"
  BY <1>3, <1>4 DEF Evolves
<1>6. PICK l \in Link : \/ IsFirst(l, ByIpui(p)) /\ SetLink(l, Accepted(link[l]))
                       \/ Add(l, e)
                       \/ Add(l, d)
  BY DEF SendConnectionless, EstablishReq
<1>7. CASE IsFirst(l, ByIpui(p)) /\ SetLink(l, Accepted(link[l]))
  <2>1. Live(link[l]) /\ link[l].peer = p
    BY <1>7 DEF IsFirst, ByIpui
  <2>2. link[l].sdu # "sdu"
    BY <1>2, <2>1, DataLinkAssumption DEF RecordOK
  <2>3. Evolves(link[l], Accepted(link[l]))
    BY <1>2, <2>2, EvolvesAccepted
  <2>4. link' = [link EXCEPT ![l] = Accepted(link[l])]
    BY <1>7 DEF SetLink, Update
  <2> QED BY <1>1, <1>2, <2>3, <2>4, OneEvolves
<1>8. CASE Add(l, e)
  BY <1>1, <1>5, <1>8, AddKeeps
<1>9. CASE Add(l, d)
  <2> HIDE DEF d
  <2> QED BY <1>1, <1>3, <1>9, AddKeeps
<1> QED
  BY <1>6, <1>7, <1>8, <1>9

\* The end of a READ event: some link may lose its page transaction.
LEMMA EvolvesAfterRead ==
    ASSUME IndInv, NEW lk \in [Link -> LinkRecord],
           \A k \in Link : Evolves(link[k], lk[k]),
           NEW r \in AfterRead(lk)
    PROVE  r \in [Link -> LinkRecord] /\ \A k \in Link : Evolves(link[k], r[k])
<1>1. link \in [Link -> LinkRecord]
  BY IndInvByLink
<1>2. CASE r = lk
  BY <1>2
<1>3. ASSUME NEW x \in PageTransactions(lk),
             r \in { [lk EXCEPT ![x[1]] = e] : e \in CloseOutcomes(lk[x[1]], x[2], "NORMAL") }
      PROVE  r \in [Link -> LinkRecord] /\ \A k \in Link : Evolves(link[k], r[k])
  <2>1. x[1] \in Link /\ x[2] \in DOMAIN lk[x[1]].trans
    BY DEF PageTransactions
  <2>2. PICK e \in CloseOutcomes(lk[x[1]], x[2], "NORMAL") : r = [lk EXCEPT ![x[1]] = e]
    BY <1>3
  <2>3. Evolves(link[x[1]], lk[x[1]]) /\ RecordOK(lk[x[1]])
    BY <2>1 DEF Evolves
  <2>4. Evolves(lk[x[1]], e)
    BY <2>1, <2>2, <2>3, EvolvesClose
  <2>5. lk[x[1]].trans # <<>>
    BY <2>1
  <2>6. Live(lk[x[1]]) /\ lk[x[1]].state \notin Crashed
    BY <2>3, <2>5 DEF RecordOK, Vacant, Live
  <2>7. Evolves(link[x[1]], e)
    BY <1>1, <2>1, <2>3, <2>4, <2>6, EvolvesTransitive
  <2>8. e \in LinkRecord
    BY <2>4 DEF Evolves, RecordOK
  <2>9. ASSUME NEW k \in Link PROVE Evolves(link[k], r[k])
    <3>1. CASE k = x[1]
      BY <2>1, <2>2, <2>7, <3>1
    <3>2. CASE k # x[1]
      BY <2>1, <2>2, <3>2
    <3> QED BY <3>1, <3>2
  <2> QED BY <2>1, <2>2, <2>8, <2>9
<1> QED
  BY <1>2, <1>3 DEF AfterRead

\* Closing an open page transaction at the end of a READ event only evolves records,
\* whichever link the transaction is on.
LEMMA EvolvesRead ==
    ASSUME IndInv, NEW l \in Link, NEW d, Evolves(link[l], d), Read(l, d)
    PROVE  link' \in [Link -> LinkRecord] /\ \A k \in Link : Evolves(link[k], link'[k])
<1> DEFINE lk == [link EXCEPT ![l] = d]
<1>1. link \in [Link -> LinkRecord] /\ \A k \in Link : RecordOK(link[k])
  BY IndInvByLink
<1>2. lk \in [Link -> LinkRecord]
  BY <1>1 DEF Evolves, RecordOK
<1>3. ASSUME NEW k \in Link PROVE Evolves(link[k], lk[k])
  <2>1. CASE k = l
    BY <1>1, <2>1
  <2>2. CASE k # l
    BY <1>1, <2>2, EvolvesReflexive
  <2> QED BY <2>1, <2>2
<1>4. link' \in AfterRead(lk)
  BY DEF Read, Update
<1> QED
  BY <1>2, <1>3, <1>4, EvolvesAfterRead

\* The transactions that the shutdown loop holds are transactions.
LEMMA SavedType ==
    ASSUME NEW s \in Seq(Transaction), NEW i \in DOMAIN s
    PROVE  Saved(s, i) \in Seq(Transaction)
<1>1. s[i] \in Transaction /\ (i < Len(s) => s[i + 1] \in Transaction)
  OBVIOUS
<1> QED
  BY <1>1 DEF Saved

\* What a turn of the shutdown loop may make of the link: a transaction of it is
\* closed, or the process dies on a transaction that is not on the list.
ShutdownTurn(d) ==
    /\ \/ d = Crash(link[cur], "LIST")
       \/ \E i \in DOMAIN link[cur].trans :
            \E mode \in {"NORMAL", "PARTIAL"} : d \in CloseOutcomes(link[cur], i, mode)
    /\ SetLink(cur, d) \/ Read(cur, d)
    /\ \/ UNCHANGED <<callback, cur>>
       \/ callback' = "none" /\ cur' = NoLink
    /\ walk' \in Seq(Transaction)

LEMMA ShutdownNextTurn ==
    ASSUME IndInv, ShutdownNext
    PROVE  \E d : ShutdownTurn(d)
<1>1. cur \in Link /\ RecordOK(link[cur])
  BY IndInvByLink DEF ShutdownNext, CallbackOK
<1>2. CASE WalkBreaks
  BY <1>2 DEF WalkBreaks, Return, ShutdownTurn
<1>3. ASSUME NEW i \in DOMAIN link[cur].trans,
             NEW d \in CloseOutcomes(link[cur], i, ShutdownMode(link[cur].trans[i].pd)),
             \/ (IF callback = "shutdown_read" THEN Read(cur, d) ELSE SetLink(cur, d)) /\ Return
             \/ /\ SetLink(cur, d)
                /\ UNCHANGED <<callback, cur>>
                /\ \E j \in DOMAIN d.trans : walk' = Saved(d.trans, j)
      PROVE  \E e : ShutdownTurn(e)
  <2>1. \E mode \in {"NORMAL", "PARTIAL"} : d \in CloseOutcomes(link[cur], i, mode)
    BY <1>3 DEF ShutdownMode
  <2>2. d.trans \in Seq(Transaction)
    BY <1>1, <1>3, EvolvesClose DEF Evolves, RecordOK, LinkRecord
  <2>3. walk' \in Seq(Transaction)
    <3>1. CASE Return
      BY <3>1 DEF Return
    <3>2. CASE \E j \in DOMAIN d.trans : walk' = Saved(d.trans, j)
      BY <2>2, <3>2, SavedType
    <3> QED BY <1>3, <3>1, <3>2
  <2>4. SetLink(cur, d) \/ Read(cur, d)
    BY <1>3, Zenon
  <2>5. \/ UNCHANGED <<callback, cur>>
        \/ callback' = "none" /\ cur' = NoLink
    BY <1>3 DEF Return
  <2> QED BY <1>3, <2>1, <2>3, <2>4, <2>5, Zenon DEF ShutdownTurn
<1> QED
  BY <1>2, <1>3, Zenon DEF ShutdownNext

\* A turn of the shutdown loop, the last one returning from the callback.
LEMMA ShutdownNextKeeps ==
    ASSUME IndInv, ShutdownNext
    PROVE  IndInv' /\ LifeStep
<1>1. /\ callback \in {"shutdown", "shutdown_read"}
      /\ cur \in Link /\ CallbackOK /\ RecordOK(link[cur])
  BY IndInvByLink DEF ShutdownNext, CallbackOK
<1>2. PICK d : ShutdownTurn(d)
  BY ShutdownNextTurn
<1>3. Evolves(link[cur], d)
  BY <1>1, <1>2, EvolvesClose, EvolvesCrash DEF ShutdownTurn, Crashed
<1>4. CallbackOK' /\ (UNCHANGED <<callback, cur>> \/ callback' # "establish_cfm")
  BY <1>1, <1>2 DEF CallbackOK, Callbacks, ShutdownTurn
<1>5. CASE SetLink(cur, d)
  <2>1. link' = [link EXCEPT ![cur] = d]
    BY <1>5 DEF SetLink, Update
  <2> QED BY <1>1, <1>3, <1>4, <2>1, OneEvolves
<1>6. CASE Read(cur, d)
  <2>1. link' \in [Link -> LinkRecord] /\ \A k \in Link : Evolves(link[k], link'[k])
    BY <1>1, <1>3, <1>6, EvolvesRead
  <2> QED BY <1>1, <1>4, <2>1, AllEvolve
<1> QED
  BY <1>2, <1>5, <1>6 DEF ShutdownTurn

\* A link accepted from a portable part starts with LCE.05 and nothing else.
LEMMA AcceptKeeps ==
    ASSUME IndInv, NEW l \in Link, Accept(l)
    PROVE  IndInv' /\ LifeStep
<1> DEFINE e == [Unused EXCEPT !.state = "ESTABLISHED", !.socket = TRUE, !.sdu = "sdu"]
<1>1. UNCHANGED <<callback, cur, walk>> /\ callback = "none" /\ Add(l, e)
  BY DEF Accept, NoCallback, InCallback
<1>2. e \in LinkRecord /\ e.state = "ESTABLISHED" /\ e.socket = TRUE /\ e.sdu = "sdu"
        /\ e.trans = <<>> /\ e.queue = <<>> /\ e.tx = <<>> /\ e.nsent = 0 /\ e.peer = NoPeer
  BY UnusedFields DEF LinkRecord, LinkState, Usable
<1> HIDE DEF e
<1>3. e.tx = Ids(e.nsent)
  BY <1>2, IdsZero
<1>4. RecordOK(e)
  BY <1>2 DEF RecordOK, Vacant, Crashed
<1> QED
  BY <1>1, <1>2, <1>3, <1>4, AddKeeps

\* The loop begins with a link that has transactions.
LEMMA BeginWalkType ==
    ASSUME IndInv, NEW l \in Link, NEW why \in {"shutdown", "shutdown_read"},
           link[l].trans # <<>>, BeginWalk(why, l)
    PROVE  CallbackOK'
<1>1. link[l].trans \in Seq(Transaction) /\ l # NoLink
  BY IndInvByLink, DataLinkAssumption DEF LinkRecord
<1>2. 1 \in DOMAIN link[l].trans
  BY <1>1, EmptySeq
<1>3. walk' \in Seq(Transaction)
  BY <1>1, <1>2, SavedType DEF BeginWalk
<1> QED
  BY <1>1, <1>3 DEF BeginWalk, CallbackOK, Callbacks

\* A failed connection destroys the link or starts the shutdown of its transactions.
LEMMA ConnectFailedKeeps ==
    ASSUME IndInv, NEW l \in Link, ConnectFailed(l)
    PROVE  IndInv' /\ LifeStep
<1>1. callback = "none" /\ Running /\ link[l].state = "ESTABLISH_PENDING"
  BY DEF ConnectFailed, NoCallback
<1>2. RecordOK(link[l]) /\ CallbackOK
  BY IndInvByLink
<1>3. Evolves(link[l], Shutdown(link[l]))
  BY <1>1, <1>2, EvolvesShutdown DEF Running, Live
<1>4. link' = [link EXCEPT ![l] = Shutdown(link[l])]
  BY DEF ConnectFailed, SetLink, Update
<1>5. CallbackOK' /\ callback' # "establish_cfm"
  <2>1. CASE link[l].trans = <<>>
    BY <1>1, <1>2, <2>1 DEF ConnectFailed, InCallback, CallbackOK
  <2>2. CASE link[l].trans # <<>>
    <3>1. BeginWalk("shutdown", l)
      BY <2>2 DEF ConnectFailed
    <3> QED BY <2>2, <3>1, BeginWalkType DEF BeginWalk
  <2> QED BY <2>1, <2>2
<1> QED
  BY <1>1, <1>3, <1>4, <1>5, OneEvolves

\* After the callback of an indirect establishment the link is left or partially
\* released.
LEMMA IndirectDoneKeeps ==
    ASSUME IndInv, IndirectDone
    PROVE  IndInv' /\ LifeStep
<1>1. callback = "indirect_cfm" /\ callback' = "none" /\ cur' = NoLink /\ walk' = <<>>
  BY DEF IndirectDone, Return
<1>2. cur \in Link /\ RecordOK(link[cur]) /\ CallbackOK'
  BY <1>1, IndInvByLink DEF CallbackOK, Callbacks
<1> DEFINE d == link[cur]
           e == IF ~ Live(d) THEN Crash(d, "STALE")
                ELSE IF d.trans = <<>> THEN PartialReleased(d) ELSE d
<1>3. link' = [link EXCEPT ![cur] = e]
  BY DEF IndirectDone, SetLink, Update
<1>4. e \in {Crash(d, "STALE"), PartialReleased(d), d}
  OBVIOUS
<1>5. Evolves(d, e)
  <2> HIDE DEF e
  <2> QED BY <1>2, <1>4, EvolvesCrash, EvolvesPartialReleased, EvolvesReflexive DEF Crashed
<1> HIDE DEF e
<1> QED
  BY <1>1, <1>2, <1>3, <1>5, OneEvolves

\* A page response without pending link stops LCE.05 before the link gets an IPUI.
LEMMA UnexpectedPageResponseKeeps ==
    ASSUME IndInv, NEW l \in Link, NEW p \in Peer, UnexpectedPageResponse(l, p)
    PROVE  IndInv' /\ LifeStep
<1>1. callback = "none" /\ UNCHANGED <<callback, cur, walk>>
        /\ link[l].state \in {"ESTABLISHED", "RELEASE_PENDING"}
  BY DEF UnexpectedPageResponse, Readable, NoCallback, InCallback
<1>2. RecordOK(link[l]) /\ CallbackOK'
  BY <1>1, IndInvByLink DEF CallbackOK
<1> DEFINE d == SduStopped(link[l])
           n == Identified(d, p)
<1>3. Evolves(link[l], d) /\ RecordOK(d) /\ d.state = link[l].state /\ d.sdu = "off"
  BY <1>2, EvolvesSduStopped DEF Evolves
<1>4. Live(d) /\ d.state \notin Crashed /\ link[l].state \notin Crashed
  BY <1>1, <1>3 DEF Live, Crashed
<1>5. PICK e \in {n} \cup Rejected(n) \cup Rejected(d) : SetLink(l, e)
  BY DEF UnexpectedPageResponse
<1> HIDE DEF d
<1>6. Evolves(d, n) /\ n.state = d.state /\ RecordOK(n)
  BY <1>3, <1>4, EvolvesIdentified DEF Evolves
<1> HIDE DEF n
<1>7. Live(n) /\ n.state \notin Crashed
  BY <1>4, <1>6 DEF Live
<1>8. Evolves(n, e) \/ Evolves(d, e)
  BY <1>1, <1>3, <1>5, <1>6, EvolvesRejected, EvolvesReflexive
<1>9. Evolves(d, e)
  BY <1>3, <1>6, <1>7, <1>8, EvolvesTransitive DEF RecordOK
<1>10. Evolves(link[l], e)
  BY <1>2, <1>3, <1>4, <1>9, EvolvesTransitive DEF RecordOK
<1>11. link' = [link EXCEPT ![l] = e]
  BY <1>5 DEF SetLink, Update
<1> QED
  BY <1>1, <1>2, <1>10, <1>11, OneEvolves

\* A link that ends, whatever was done to it before
LEMMA EvolvesEnded ==
    ASSUME NEW d, NEW x \in LinkRecord
    PROVE  Evolves(d, Destroyed(x)) /\ Evolves(d, Freed(x))
<1>1. RecordOK(Destroyed(x)) /\ RecordOK(Freed(x))
        /\ Destroyed(x).state \in {"FREE", "FREED"} \cup Crashed
        /\ Freed(x).state \in {"FREE", "FREED"}
  BY EvolvesDestroyed DEF Evolves
<1> QED
  BY <1>1 DEF Evolves, Live, Crashed

\* The answer of a PP to a page is queued on a new pending link.
LEMMA RcvPageKeeps ==
    ASSUME IndInv, NEW p \in Peer, RcvPage(p)
    PROVE  IndInv' /\ LifeStep
<1> DEFINE t == [pd |-> "LCE", tv |-> 0, role |-> "I"]
           d == Establishing(p)
           e == Sent(Opened(d, t))
           x == Crash(e, "LIST")
<1>1. UNCHANGED <<callback, cur, walk>> /\ callback = "none"
  BY DEF RcvPage, NoCallback, InCallback
<1>2. PICK l \in Link : Add(l, e) \/ Add(l, x)
  BY DEF RcvPage
<1>3. t \in Transaction
  BY DEF Transaction, Role
<1>4. RecordOK(d) /\ d.state = "ESTABLISH_PENDING" /\ d.sdu = "off" /\ (d.page \/ d.socket)
  BY EstablishingOK
<1> HIDE DEF t, d
<1>5. Evolves(d, e)
  BY <1>3, <1>4, EvolvesOpenedSent DEF Live, Crashed
<1>6. RecordOK(e) /\ (e.state = "ESTABLISH_PENDING" => e.page \/ e.socket)
        /\ e.state # "ESTABLISHED"
  BY <1>4, <1>5 DEF Evolves
<1>7. RecordOK(x) /\ x.state \in Crashed
  BY EvolvesCrash DEF Crashed, Evolves
<1>8. x.state # "ESTABLISH_PENDING" /\ x.state # "ESTABLISHED"
  BY <1>7 DEF Crashed
<1> HIDE DEF e, x
<1> QED
  BY <1>1, <1>2, <1>6, <1>7, <1>8, AddKeeps

\* A received message stops LCE.05 before a transaction or an IPUI is added.
LEMMA RcvKeeps ==
    ASSUME IndInv, NEW l \in Link, NEW pd \in Protocol \cup {"LCE"},
           NEW tv \in 0 .. MaxTv[pd] - 1, NEW role \in Role, Rcv(l, pd, tv, role)
    PROVE  IndInv' /\ LifeStep
<1>1. callback = "none" /\ UNCHANGED <<callback, cur, walk>>
        /\ link[l].state \in {"ESTABLISHED", "RELEASE_PENDING"}
  BY DEF Rcv, Readable, NoCallback, InCallback
<1>2. RecordOK(link[l]) /\ CallbackOK'
  BY <1>1, IndInvByLink DEF CallbackOK
<1> DEFINE t == [pd |-> pd, tv |-> tv, role |-> role]
           r == [pd |-> pd, tv |-> tv, role |-> "R"]
<1>3. r \in Transaction /\ [t EXCEPT !.role = "R"] = r
  <2>1. "R" \in Role
    BY DEF Role
  <2>2. r \in Transaction
    BY <2>1, TransactionType
  <2> QED BY <2>2
<1>4. \/ \E p \in Peer : \E d \in RcvOpen(link[l], r, p) : Read(l, d)
      \/ \E i \in DOMAIN link[l].trans : \E d \in RcvKnown(link[l], i) : Read(l, d)
  BY <1>3 DEF Rcv
<1> HIDE DEF r
<1>5. PICK d : Evolves(link[l], d) /\ Read(l, d)
  <2>1. CASE \E p \in Peer : \E d \in RcvOpen(link[l], r, p) : Read(l, d)
    BY <1>1, <1>2, <1>3, <2>1, EvolvesRcvOpen
  <2>2. CASE \E i \in DOMAIN link[l].trans : \E d \in RcvKnown(link[l], i) : Read(l, d)
    BY <1>2, <2>2, EvolvesRcvKnown
  <2> QED BY <1>4, <2>1, <2>2
<1>6. link' \in [Link -> LinkRecord] /\ \A k \in Link : Evolves(link[k], link'[k])
  BY <1>5, EvolvesRead
<1> QED
  BY <1>1, <1>2, <1>6, AllEvolve

\* The end of a release destroys the link.
LEMMA ReleaseCompleteKeeps ==
    ASSUME IndInv, NEW l \in Link, ReleaseComplete(l)
    PROVE  IndInv' /\ LifeStep
<1> DEFINE d == [link[l] EXCEPT !.state = "RELEASED", !.rel = FALSE]
<1>1. callback = "none" /\ UNCHANGED <<callback, cur, walk>> /\ Read(l, Destroyed(d))
  BY DEF ReleaseComplete, Readable, NoCallback, InCallback
<1>2. link[l] \in LinkRecord /\ CallbackOK'
  BY <1>1, IndInvByLink DEF CallbackOK
<1>3. d \in LinkRecord
  BY <1>2 DEF LinkRecord, LinkState
<1>4. Evolves(link[l], Destroyed(d))
  BY <1>3, EvolvesEnded
<1>5. link' \in [Link -> LinkRecord] /\ \A k \in Link : Evolves(link[k], link'[k])
  BY <1>1, <1>4, EvolvesRead
<1> QED
  BY <1>1, <1>2, <1>5, AllEvolve

\* An error of the socket shuts the link down.
LEMMA RcvErrorKeeps ==
    ASSUME IndInv, NEW l \in Link, RcvError(l)
    PROVE  IndInv' /\ LifeStep
<1>1. callback = "none" /\ link[l].state \in {"ESTABLISHED", "RELEASE_PENDING", "RELEASED"}
  BY DEF RcvError, NoCallback
<1>2. RecordOK(link[l]) /\ CallbackOK
  BY IndInvByLink
<1>3. Evolves(link[l], Shutdown(link[l]))
  BY <1>1, <1>2, EvolvesShutdown DEF Live, Crashed
<1>4. CallbackOK' /\ callback' # "establish_cfm"
  <2>1. CASE link[l].trans = <<>>
    BY <1>1, <1>2, <2>1 DEF RcvError, InCallback, CallbackOK
  <2>2. CASE link[l].trans # <<>>
    <3>1. BeginWalk("shutdown_read", l)
      BY <2>2 DEF RcvError
    <3> QED BY <2>2, <3>1, BeginWalkType DEF BeginWalk
  <2> QED BY <2>1, <2>2
<1>5. Read(l, Shutdown(link[l])) \/ SetLink(l, Shutdown(link[l]))
  BY DEF RcvError
<1>6. CASE Read(l, Shutdown(link[l]))
  <2>1. link' \in [Link -> LinkRecord] /\ \A k \in Link : Evolves(link[k], link'[k])
    BY <1>3, <1>6, EvolvesRead
  <2> QED BY <1>1, <1>4, <2>1, AllEvolve
<1>7. CASE SetLink(l, Shutdown(link[l]))
  <2>1. link' = [link EXCEPT ![l] = Shutdown(link[l])]
    BY <1>7 DEF SetLink, Update
  <2> QED BY <1>1, <1>3, <1>4, <2>1, OneEvolves
<1> QED
  BY <1>5, <1>6, <1>7

\* LCE.01, LCE.02 and LCE.05: each destroys a link, leaves it, or stops the process.
LEMMA TimeoutKeeps ==
    ASSUME IndInv, NEW l \in Link,
           SduTimeout(l) \/ PartialReleaseTimeout(l) \/ ReleaseTimeout(l)
    PROVE  IndInv' /\ LifeStep
<1> DEFINE d == link[l]
           s == SduStopped(d)
<1>1. callback = "none" /\ UNCHANGED <<callback, cur, walk>>
  BY DEF SduTimeout, PartialReleaseTimeout, ReleaseTimeout, NoCallback, InCallback
<1>2. RecordOK(d) /\ d \in LinkRecord /\ CallbackOK'
  BY <1>1, IndInvByLink DEF CallbackOK, RecordOK
<1>3. Evolves(d, s) /\ s \in LinkRecord
  BY <1>2, EvolvesSduStopped DEF Evolves, RecordOK
<1>4. PICK e : SetLink(l, e) /\ Evolves(d, e)
  <2>1. CASE SduTimeout(l)
    <3>1. SetLink(l, Destroyed(s))
      BY <2>1 DEF SduTimeout
    <3> QED BY <1>3, <3>1, EvolvesEnded
  <2>2. CASE PartialReleaseTimeout(l)
    <3>1. SetLink(l, Destroyed(s)) \/ SetLink(l, s)
      BY <2>2 DEF PartialReleaseTimeout
    <3> HIDE DEF s
    <3> QED BY <1>3, <3>1, EvolvesEnded
  <2>3. CASE ReleaseTimeout(l)
    <3>1. \/ d.leaked > 0 /\ SetLink(l, Destroyed([d EXCEPT !.leaked = @ - 1]))
          \/ SetLink(l, Crash(d, "STALE"))
          \/ SetLink(l, Destroyed([d EXCEPT !.rel = FALSE]))
      BY <2>3 DEF ReleaseTimeout
    <3>2. CASE d.leaked > 0 /\ SetLink(l, Destroyed([d EXCEPT !.leaked = @ - 1]))
      <4>1. d.leaked - 1 \in Nat
        BY <1>2, <3>2 DEF LinkRecord
      <4>2. [d EXCEPT !.leaked = @ - 1] \in LinkRecord
        BY <1>2, <4>1 DEF LinkRecord
      <4> QED BY <3>2, <4>2, EvolvesEnded
    <3>3. CASE SetLink(l, Crash(d, "STALE"))
      BY <3>3, EvolvesCrash DEF Crashed
    <3>4. CASE SetLink(l, Destroyed([d EXCEPT !.rel = FALSE]))
      <4>1. [d EXCEPT !.rel = FALSE] \in LinkRecord
        BY <1>2 DEF LinkRecord
      <4> QED BY <3>4, <4>1, EvolvesEnded
    <3> QED BY <3>1, <3>2, <3>3, <3>4
  <2> QED BY <2>1, <2>2, <2>3
<1>5. link' = [link EXCEPT ![l] = e]
  BY <1>4 DEF SetLink, Update
<1> QED
  BY <1>1, <1>2, <1>4, <1>5, OneEvolves

-----------------------------------------------------------------------------
(* The steps of establishment *)

\* DL_ESTABLISH-cfm begins: the queue of the link is complete and nothing is sent.
LEMMA ConnectDoneKeeps ==
    ASSUME IndInv, NEW l \in Link, ConnectDone(l)
    PROVE  IndInv' /\ LifeStep
<1> DEFINE d == link[l]
           e == [d EXCEPT !.state = "ESTABLISHED"]
<1>1. /\ link \in [Link -> LinkRecord] /\ CallbackOK
      /\ \A k \in Link : RecordOK(link[k]) /\ Waits(k) /\ Drained(k)
  BY IndInvByLink
<1>2. callback = "none" /\ callback' = "establish_cfm" /\ cur' = l /\ walk' = <<>>
        /\ d.state = "ESTABLISH_PENDING" /\ d.socket /\ link' = [link EXCEPT ![l] = e]
  BY DEF ConnectDone, NoCallback, CallBack, SetLink, Update
<1>3. d \in LinkRecord /\ d.tx = <<>> /\ d.queue = Ids(d.nsent) /\ d.sdu # "sdu"
  BY <1>1, <1>2 DEF RecordOK
<1>4. e \in LinkRecord /\ e.state = "ESTABLISHED" /\ e.socket = d.socket /\ e.sdu = d.sdu
        /\ e.tx = d.tx /\ e.queue = d.queue /\ e.nsent = d.nsent
  BY <1>3 DEF LinkRecord, LinkState, Usable
<1> HIDE DEF e
<1>5. RecordOK(e)
  BY <1>2, <1>3, <1>4 DEF RecordOK, Vacant, Crashed
<1>6. link'[l] = e /\ link' \in [Link -> LinkRecord]
  BY <1>1, <1>2, <1>4
<1>7. CallbackOK' /\ BeforeDrain'
  BY <1>2, <1>3, <1>4, <1>6, DataLinkAssumption DEF CallbackOK, Callbacks, BeforeDrain
<1>8. ASSUME NEW k \in Link
      PROVE  RecordOK(link'[k]) /\ Waits(k)' /\ Drained(k)'
  <2>1. CASE k = l
    BY <1>2, <1>4, <1>5, <1>6, <2>1 DEF Waits, Drained
  <2>2. CASE k # l
    <3>1. link'[k] = link[k]
      BY <1>1, <1>2, <2>2
    <3> QED BY <1>1, <1>2, <1>8, <3>1 DEF Waits, Drained
  <2> QED BY <2>1, <2>2
<1>9. e.peer = d.peer
  BY <1>3 DEF e, LinkRecord
<1>10. LifeStep
  BY <1>1, <1>2, <1>6, <1>9 DEF LifeStep, Usable
<1> QED
  BY <1>6, <1>7, <1>8, <1>10, IndInvByLinkNext

\* What is left of the confirmed link once its queue is emptied: in the link that
\* nobody touched since, the queue is sent and every message is in order.
LEMMA DrainQueueKeeps ==
    ASSUME IndInv, DrainQueue
    PROVE  IndInv' /\ LifeStep
<1> DEFINE d == link[cur]
           e == CASE ~ Live(d)               -> Crash(d, "STALE")
                  [] d.state = "ESTABLISHED" -> [d EXCEPT !.tx = @ \o d.queue, !.queue = <<>>]
                  [] OTHER                   -> [d EXCEPT !.queue = <<>>]
<1>1. /\ link \in [Link -> LinkRecord] /\ CallbackOK /\ BeforeDrain
      /\ \A k \in Link : RecordOK(link[k]) /\ Waits(k) /\ Drained(k)
  BY IndInvByLink
<1>2. callback = "establish_cfm" /\ callback' = "none" /\ cur' = NoLink /\ walk' = <<>>
        /\ link' = [link EXCEPT ![cur] = e]
  BY DEF DrainQueue, Return, SetLink, Update
<1>3. cur \in Link /\ RecordOK(d) /\ d \in LinkRecord /\ Waits(cur)
  BY <1>1, <1>2 DEF CallbackOK, RecordOK
<1>4. d.tx \in Seq(Nat) /\ d.queue \in Seq(Nat) /\ <<>> \in Seq(Nat) /\ d.nsent \in Nat
  BY <1>3 DEF LinkRecord
<1>5. RecordOK(e) /\ (e.state = "ESTABLISH_PENDING" => e.page \/ e.socket)
        /\ (e.state = "ESTABLISHED" => e.queue = <<>> /\ (~ CfmSends => e.tx = Ids(e.nsent)))
        /\ (e.state \in Usable => d.state \in Usable)
        /\ (e.state \in Crashed \/ e.peer = d.peer)
  <2>1. CASE ~ Live(d)
    <3>1. e = Crash(d, "STALE") /\ "STALE" \in Crashed
      BY <2>1 DEF Crashed, Live
    <3> HIDE DEF e
    <3>2. RecordOK(e) /\ e.state \in Crashed
      BY <3>1, EvolvesCrash DEF Evolves
    <3> QED BY <3>2 DEF Crashed, Usable
  <2>2. CASE d.state = "ESTABLISHED"
    <3> DEFINE f == [d EXCEPT !.tx = d.tx \o d.queue, !.queue = <<>>]
    <3>1. e = f
      BY <2>2 DEF Live
    <3>2. d.tx \o d.queue \in Seq(Nat)
      BY <1>4
    <3>3. f \in LinkRecord /\ f.state = "ESTABLISHED" /\ f.socket = d.socket /\ f.sdu = d.sdu
            /\ f.peer = d.peer /\ f.trans = d.trans /\ f.nsent = d.nsent /\ f.queue = <<>>
            /\ f.tx = d.tx \o d.queue
      BY <1>3, <1>4, <2>2, <3>2 DEF LinkRecord
    <3>4. ~ CfmSends => f.tx = Ids(f.nsent)
      <4>1. ~ CfmSends => d.tx = <<>> /\ d.queue = Ids(d.nsent)
        BY <1>1, <1>2 DEF BeforeDrain
      <4>2. ~ CfmSends => d.tx \o d.queue = Ids(d.nsent)
        BY <1>4, <4>1, ConcatEmptySeq
      <4> QED BY <3>3, <4>2
    <3> HIDE DEF f
    <3>5. RecordOK(f)
      BY <1>3, <2>2, <3>3 DEF RecordOK, Vacant, Crashed
    <3> QED BY <2>2, <3>1, <3>3, <3>4, <3>5 DEF Usable
  <2>3. CASE Live(d) /\ d.state # "ESTABLISHED"
    <3> DEFINE f == [d EXCEPT !.queue = <<>>]
    <3>1. e = f
      BY <2>3
    <3>2. f \in LinkRecord /\ f.state = d.state /\ f.socket = d.socket /\ f.sdu = d.sdu
            /\ f.peer = d.peer /\ f.trans = d.trans /\ f.nsent = d.nsent /\ f.queue = <<>>
            /\ f.tx = d.tx /\ f.rel = d.rel /\ f.page = d.page
      BY <1>3, <1>4 DEF LinkRecord
    <3> HIDE DEF f
    <3>3. d.state # "ESTABLISH_PENDING"
      BY <1>1, <1>2 DEF BeforeDrain
    <3>4. RecordOK(f)
      BY <1>3, <2>3, <3>2, <3>3 DEF RecordOK, Vacant
    <3> QED BY <2>3, <3>1, <3>2, <3>3, <3>4
  <2> QED BY <2>1, <2>2, <2>3
<1> HIDE DEF e
<1>6. link'[cur] = e /\ link' \in [Link -> LinkRecord]
  BY <1>1, <1>2, <1>3, <1>5 DEF RecordOK
<1>7. CallbackOK' /\ BeforeDrain'
  BY <1>2 DEF CallbackOK, Callbacks, BeforeDrain
<1>8. ASSUME NEW k \in Link
      PROVE  RecordOK(link'[k]) /\ Waits(k)' /\ Drained(k)'
  <2>1. CASE k = cur
    BY <1>5, <1>6, <2>1 DEF Waits, Drained
  <2>2. CASE k # cur
    <3>1. link'[k] = link[k]
      BY <1>1, <1>2, <2>2
    <3> QED BY <1>1, <1>2, <1>8, <2>2, <3>1 DEF Waits, Drained
  <2> QED BY <2>1, <2>2
<1>9. LifeStep
  BY <1>1, <1>2, <1>3, <1>5, <1>6 DEF LifeStep, Usable, Running
<1> QED
  BY <1>6, <1>7, <1>8, <1>9, IndInvByLinkNext

\* A page is sent again, or given up.
LEMMA PageTimeoutKeeps ==
    ASSUME IndInv, NEW l \in Link, PageTimeout(l)
    PROVE  IndInv' /\ LifeStep
<1> DEFINE d == link[l]
           n == d.pages + 1
           again == [d EXCEPT !.pages = n]
           e == [d EXCEPT !.pages = n, !.page = FALSE]
<1>1. /\ link \in [Link -> LinkRecord] /\ CallbackOK /\ callback = "none"
      /\ \A k \in Link : RecordOK(link[k]) /\ Waits(k) /\ Drained(k)
  BY IndInvByLink DEF PageTimeout, NoCallback
<1>2. d \in LinkRecord /\ RecordOK(d) /\ n \in Nat
  BY <1>1 DEF LinkRecord
<1>3. \/ SetLink(l, Crash(d, "STALE")) /\ InCallback
      \/ SetLink(l, again) /\ InCallback
      \/ SetLink(l, e) /\ CallBack("page_failed", l)
  BY DEF PageTimeout
<1> HIDE DEF n
<1>4. CASE SetLink(l, Crash(d, "STALE")) /\ InCallback
  <2>1. Evolves(d, Crash(d, "STALE"))
    BY EvolvesCrash DEF Crashed
  <2>2. link' = [link EXCEPT ![l] = Crash(d, "STALE")] /\ UNCHANGED <<callback, cur, walk>>
    BY <1>4 DEF SetLink, Update, InCallback
  <2>3. CallbackOK'
    BY <1>1, <2>2 DEF CallbackOK
  <2> QED BY <1>1, <2>1, <2>2, <2>3, OneEvolves
<1>5. CASE SetLink(l, again) /\ InCallback
  <2>1. again \in LinkRecord /\ again.state = d.state /\ again.socket = d.socket
          /\ again.sdu = d.sdu /\ again.peer = d.peer /\ again.trans = d.trans
          /\ again.nsent = d.nsent /\ again.queue = d.queue /\ again.tx = d.tx
          /\ again.rel = d.rel /\ again.page = d.page
    BY <1>2 DEF LinkRecord
  <2>2. link' = [link EXCEPT ![l] = again] /\ UNCHANGED <<callback, cur, walk>>
    BY <1>5 DEF SetLink, Update, InCallback
  <2> HIDE DEF again
  <2>3. Evolves(d, again)
    BY <1>2, <2>1 DEF Evolves, RecordOK, Vacant
  <2>4. CallbackOK'
    BY <1>1, <2>2 DEF CallbackOK
  <2> QED BY <1>1, <2>2, <2>3, <2>4, OneEvolves
<1>6. CASE SetLink(l, e) /\ CallBack("page_failed", l)
  <2>1. e \in LinkRecord /\ e.state = d.state /\ e.socket = d.socket
          /\ e.sdu = d.sdu /\ e.peer = d.peer /\ e.trans = d.trans
          /\ e.nsent = d.nsent /\ e.queue = d.queue /\ e.tx = d.tx /\ e.rel = d.rel
    BY <1>2 DEF LinkRecord
  <2>2. link' = [link EXCEPT ![l] = e] /\ callback' = "page_failed" /\ cur' = l /\ walk' = <<>>
    BY <1>6 DEF SetLink, Update, CallBack
  <2> HIDE DEF e
  <2>3. RecordOK(e)
    BY <1>2, <2>1 DEF RecordOK, Vacant
  <2>4. link'[l] = e /\ link' \in [Link -> LinkRecord]
    BY <1>1, <2>1, <2>2
  <2>5. CallbackOK' /\ BeforeDrain'
    BY <2>2, DataLinkAssumption DEF CallbackOK, Callbacks, BeforeDrain
  <2>6. ASSUME NEW k \in Link
        PROVE  RecordOK(link'[k]) /\ Waits(k)' /\ Drained(k)'
    <3>1. CASE k = l
      BY <1>1, <2>1, <2>2, <2>3, <2>4, <3>1 DEF Waits, Drained
    <3>2. CASE k # l
      <4>1. link'[k] = link[k]
        BY <1>1, <2>2, <3>2
      <4> QED BY <1>1, <2>2, <2>6, <4>1 DEF Waits, Drained
    <3> QED BY <3>1, <3>2
  <2>7. LifeStep
    BY <1>1, <2>1, <2>2, <2>4 DEF LifeStep, Usable
  <2> QED BY <2>4, <2>5, <2>6, <2>7, IndInvByLinkNext
<1> QED
  BY <1>3, <1>4, <1>5, <1>6

\* After the last page the link is not pending any more, so that nothing needs
\* the callback to wait for it.
LEMMA PageFailedKeeps ==
    ASSUME IndInv, PageFailed
    PROVE  IndInv' /\ LifeStep
<1> DEFINE d == link[cur]
           e == IF ~ Live(d) THEN Crash(d, "STALE") ELSE Shutdown(d)
<1>1. /\ link \in [Link -> LinkRecord] /\ CallbackOK /\ callback = "page_failed" /\ Running
      /\ \A k \in Link : RecordOK(link[k]) /\ Waits(k) /\ Drained(k)
  BY IndInvByLink DEF PageFailed
<1>2. cur \in Link /\ RecordOK(d) /\ d \in LinkRecord /\ d.state \notin Crashed
  BY <1>1 DEF CallbackOK, Running
<1>3. /\ link' = [link EXCEPT ![cur] = e]
      /\ \/ callback' = "none" /\ cur' = NoLink
         \/ callback' = "shutdown" /\ cur' = cur
  BY DEF PageFailed, SetLink, Update, Return, BeginWalk
<1>4. Evolves(d, e) /\ e.state # "ESTABLISH_PENDING"
  <2>1. CASE ~ Live(d)
    <3>1. e = Crash(d, "STALE") /\ "STALE" \in Crashed
      BY <2>1 DEF Crashed
    <3>2. Evolves(d, e) /\ e.state \in Crashed
      BY <3>1, EvolvesCrash
    <3> QED BY <3>2 DEF Crashed
  <2>2. CASE Live(d)
    <3>1. e = Shutdown(d)
      BY <2>2
    <3> HIDE DEF e
    <3>2. Evolves(d, e)
      BY <1>2, <2>2, <3>1, EvolvesShutdown
    <3> DEFINE r == [d EXCEPT !.state = "RELEASED"]
    <3>3. r \in LinkRecord /\ r.state = "RELEASED"
      BY <1>2 DEF LinkRecord, LinkState
    <3>4. e = r \/ e = Destroyed(r)
      BY <3>1, Zenon DEF Shutdown
    <3> HIDE DEF r
    <3>5. e.state # "ESTABLISH_PENDING"
      BY <3>3, <3>4, EvolvesDestroyed DEF Crashed
    <3> QED BY <3>2, <3>5
  <2> QED BY <2>1, <2>2
<1> HIDE DEF e
<1>5. link'[cur] = e /\ link' \in [Link -> LinkRecord] /\ RecordOK(e)
  BY <1>1, <1>2, <1>3, <1>4 DEF Evolves, RecordOK
<1>6. CallbackOK' /\ BeforeDrain'
  <2>1. CASE Return
    BY <2>1 DEF Return, CallbackOK, Callbacks, BeforeDrain
  <2>2. CASE d.trans # <<>> /\ BeginWalk("shutdown", cur)
    BY <1>2, <2>2, BeginWalkType DEF BeginWalk, BeforeDrain
  <2> QED BY <2>1, <2>2 DEF PageFailed
<1>7. ASSUME NEW k \in Link
      PROVE  RecordOK(link'[k]) /\ Waits(k)' /\ Drained(k)'
  <2>1. CASE k = cur
    <3>1. e.state = "ESTABLISHED" => d.state = "ESTABLISHED"
            /\ (d.queue = <<>> => e.queue = <<>>) /\ (d.tx = Ids(d.nsent) => e.tx = Ids(e.nsent))
      BY <1>4 DEF Evolves
    <3> QED BY <1>1, <1>4, <1>5, <1>7, <2>1, <3>1 DEF Waits, Drained
  <2>2. CASE k # cur
    <3>1. link'[k] = link[k]
      BY <1>1, <1>3, <2>2
    <3> QED BY <1>1, <1>3, <1>7, <2>2, <3>1 DEF Waits, Drained
  <2> QED BY <2>1, <2>2
<1>8. LifeStep
  BY <1>1, <1>2, <1>3, <1>4, <1>5 DEF LifeStep, Evolves, Usable, Running
<1> QED
  BY <1>5, <1>6, <1>7, <1>8, IndInvByLinkNext

\* The link that a paged peer came up on takes over transactions and queue.
LEMMA EvolvesTransferred ==
    ASSUME NEW d, RecordOK(d), d.state \in {"ESTABLISHED", "RELEASE_PENDING"}, d.sdu = "off",
           NEW q, RecordOK(q), q.state = "ESTABLISH_PENDING"
    PROVE  Evolves(d, Transferred(d, q))
<1> DEFINE peer == IF d.peer = NoPeer THEN q.peer ELSE d.peer
           trans == d.trans \o q.trans
           n == d.nsent + q.nsent
           tx == IF d.state = "ESTABLISHED"
                 THEN d.tx \o [j \in 1 .. Len(q.queue) |-> d.nsent + q.queue[j]]
                 ELSE d.tx
           e == [d EXCEPT !.peer = peer, !.trans = trans, !.nsent = n, !.tx = tx]
<1>1. d \in LinkRecord /\ q \in LinkRecord /\ q.queue = Ids(q.nsent)
        /\ d.nsent \in Nat /\ q.nsent \in Nat /\ d.tx \in Seq(Nat) /\ q.queue \in Seq(Nat)
        /\ d.trans \in Seq(Transaction) /\ q.trans \in Seq(Transaction)
  BY DEF RecordOK, LinkRecord
<1>2. peer \in Peer \cup {NoPeer} /\ n \in Nat
  BY <1>1 DEF LinkRecord
<1>3. trans \in Seq(Transaction)
  BY <1>1
<1>4. tx \in Seq(Nat)
  <2> DEFINE m == [j \in 1 .. Len(q.queue) |-> d.nsent + q.queue[j]]
  <2>1. m \in Seq(Nat)
    BY <1>1
  <2>2. d.tx \o m \in Seq(Nat)
    BY <1>1, <2>1, ConcatProperties
  <2> QED BY <1>1, <2>2
<1>5. d.state = "ESTABLISHED" /\ d.tx = Ids(d.nsent) => tx = Ids(n)
  BY <1>1, IdsConcat
<1>6. Transferred(d, q) = e
  BY Zenon DEF Transferred
<1> HIDE DEF peer, trans, n, tx
<1>7. e \in LinkRecord /\ e.state = d.state /\ e.socket = d.socket /\ e.sdu = d.sdu
        /\ e.queue = d.queue /\ e.rel = d.rel /\ e.tx = tx /\ e.nsent = n /\ e.peer = peer
  BY <1>1, <1>2, <1>3, <1>4 DEF LinkRecord
<1> HIDE DEF e
<1>8. RecordOK(e)
  BY <1>7 DEF RecordOK, Vacant, Crashed
<1>9. d.peer # NoPeer => e.peer = d.peer
  BY <1>7 DEF peer
<1>10. e.state = "ESTABLISHED" =>
         /\ d.state = "ESTABLISHED" /\ e.queue = d.queue
         /\ d.tx = Ids(d.nsent) => e.tx = Ids(e.nsent)
  BY <1>5, <1>7
<1>11. e.state # "ESTABLISH_PENDING"
  BY <1>7
<1> QED
  BY <1>6, <1>8, <1>9, <1>10, <1>11 DEF Evolves

\* The link of the page response takes over the transactions and the queue of the
\* pending link, behind what it has sent itself.
LEMMA PageResponseKeeps ==
    ASSUME IndInv, NEW l \in Link, NEW p \in Peer, PageResponse(l, p)
    PROVE  IndInv' /\ LifeStep
<1>1. link \in [Link -> LinkRecord] /\ CallbackOK /\ \A k \in Link : RecordOK(link[k])
  BY IndInvByLink
<1>2. callback = "none" /\ link[l].state \in {"ESTABLISHED", "RELEASE_PENDING"}
  BY DEF PageResponse, Readable, NoCallback
<1>3. PICK r \in Link \ {l} :
        /\ IsFirst(r, Pending(p))
        /\ \/ SetLink(r, Crash(link[r], "NULL_TIMER")) /\ InCallback
           \/ /\ Update([link EXCEPT
                    ![l] = Transferred(SduStopped(link[l]), link[r]),
                    ![r] = Freed([link[r] EXCEPT !.page = FALSE])])
              /\ CallBack("indirect_cfm", l)
  BY DEF PageResponse
<1>4. CASE SetLink(r, Crash(link[r], "NULL_TIMER")) /\ InCallback
  <2>1. link' = [link EXCEPT ![r] = Crash(link[r], "NULL_TIMER")] /\ UNCHANGED <<callback, cur, walk>>
    BY <1>4 DEF SetLink, Update, InCallback
  <2>2. Evolves(link[r], Crash(link[r], "NULL_TIMER")) /\ CallbackOK'
    BY <1>1, <2>1, EvolvesCrash DEF Crashed, CallbackOK
  <2> QED BY <1>2, <2>1, <2>2, OneEvolves
<1>5. ASSUME Update([link EXCEPT
                ![l] = Transferred(SduStopped(link[l]), link[r]),
                ![r] = Freed([link[r] EXCEPT !.page = FALSE])]),
             CallBack("indirect_cfm", l)
      PROVE  IndInv' /\ LifeStep
  <2> DEFINE s == SduStopped(link[l])
             d == Transferred(s, link[r])
             x == [link[r] EXCEPT !.page = FALSE]
             f == Freed(x)
  <2>1. link[r].state = "ESTABLISH_PENDING"
    BY <1>3 DEF IsFirst, Pending
  <2>2. Evolves(link[l], s) /\ RecordOK(s) /\ s.state = link[l].state /\ s.sdu = "off"
    BY <1>1, EvolvesSduStopped DEF Evolves
  <2>3. Evolves(s, d)
    BY <1>1, <1>2, <2>1, <2>2, EvolvesTransferred
  <2>4. Live(s) /\ s.state \notin Crashed
    BY <1>2, <2>2 DEF Live, Crashed
  <2>5. x \in LinkRecord
    BY <1>1 DEF LinkRecord
  <2>6. Evolves(link[r], f)
    BY <2>5, EvolvesEnded
  <2>7. link' = [link EXCEPT ![l] = d, ![r] = f]
          /\ callback' = "indirect_cfm" /\ cur' = l /\ walk' = <<>>
    BY <1>5 DEF Update, CallBack
  <2> HIDE DEF s, d, x, f
  <2>8. Evolves(link[l], d)
    BY <1>1, <2>2, <2>3, <2>4, EvolvesTransitive
  <2>9. d \in LinkRecord /\ f \in LinkRecord
    BY <2>6, <2>8 DEF Evolves, RecordOK
  <2>10. link' \in [Link -> LinkRecord] /\ link'[l] = d /\ link'[r] = f
           /\ \A k \in Link \ {l, r} : link'[k] = link[k]
    BY <1>1, <1>3, <2>7, <2>9
  <2>11. \A k \in Link : Evolves(link[k], link'[k])
    BY <1>1, <2>6, <2>8, <2>10, EvolvesReflexive
  <2>12. CallbackOK' /\ callback' # "establish_cfm"
    BY <2>7, DataLinkAssumption DEF CallbackOK, Callbacks
  <2> QED BY <1>2, <2>10, <2>11, <2>12, AllEvolve
<1> QED
  BY <1>3, <1>4, <1>5

-----------------------------------------------------------------------------
(* Theorems *)

\* A freshly initialised handle satisfies the invariant.
LEMMA InitIndInv == Init => IndInv
<1> SUFFICES ASSUME Init PROVE IndInv
  OBVIOUS
<1>1. link = [l \in Link |-> Unused] /\ callback = "none" /\ cur = NoLink /\ walk = <<>>
  BY DEF Init
<1>2. RecordOK(Unused)
  BY UnusedFields DEF RecordOK, Vacant
<1>3. link \in [Link -> LinkRecord] /\ CallbackOK /\ BeforeDrain
  BY <1>1, UnusedFields DEF CallbackOK, Callbacks, BeforeDrain
<1>4. ASSUME NEW l \in Link PROVE RecordOK(link[l]) /\ Waits(l) /\ Drained(l)
  BY <1>1, <1>2, UnusedFields DEF Waits, Drained
<1> QED
  BY <1>3, <1>4, IndInvByLink

\* Every action of the application, of the network and of the timers preserves it.
LEMMA NextIndInv == IndInv /\ Next => IndInv' /\ LifeStep
<1> SUFFICES ASSUME IndInv, Next PROVE IndInv' /\ LifeStep
  OBVIOUS
<1>1. CASE App
  BY <1>1, OpenByIpuiKeeps, SendConnectionlessKeeps, OpenOnLinkKeeps, RequestKeeps DEF App
<1>2. CASE Network
  BY <1>2, AcceptKeeps, ConnectDoneKeeps, ConnectFailedKeeps, RcvKeeps, ReleaseCompleteKeeps,
     RcvErrorKeeps, PageResponseKeeps, UnexpectedPageResponseKeeps, RcvPageKeeps DEF Network
<1>3. CASE Timer
  BY <1>3, TimeoutKeeps, PageTimeoutKeeps DEF Timer
<1>4. CASE Continue
  BY <1>4, ShutdownNextKeeps, DrainQueueKeeps, PageFailedKeeps, IndirectDoneKeeps DEF Continue
<1> QED
  BY <1>1, <1>2, <1>3, <1>4 DEF Next

\* A stuttering step keeps the invariant.
LEMMA StutterIndInv == IndInv /\ UNCHANGED vars => IndInv'
  BY DEF vars, IndInv, TypeOK, Vacant, SduTimeoutSafe, NothingStuck, WayOut, InOrder, BeforeDrain

\* The inductive invariant of the data links.
THEOREM Invariance == Spec => []IndInv
<1>1. IndInv /\ [Next]_vars => IndInv'
  BY NextIndInv, StutterIndInv
<1> QED
  BY InitIndInv, <1>1, PTL DEF Spec

\* The state of lce.c keeps its types.
THEOREM TypeCorrect == Spec => []TypeOK
<1>1. IndInv => TypeOK
  BY DEF IndInv
<1> QED
  BY <1>1, Invariance, PTL

\* LCE.05 never destroys a link that has a transaction or that is known by its IPUI.
THEOREM SduTimeoutIsSafe == Spec => []SduTimeoutSafe
<1>1. IndInv => SduTimeoutSafe
  BY DEF IndInv
<1> QED
  BY <1>1, Invariance, PTL

\* No link is left waiting for something that nothing reports.
THEOREM NoLinkStuck == Spec => []NothingStuck
<1>1. IndInv => NothingStuck
  BY DEF IndInv
<1> QED
  BY <1>1, Invariance, PTL

\* No message of a link is lost, duplicated or overtaken by its establishment.
THEOREM MessagesInOrder == Spec => []InOrder
<1>1. IndInv => InOrder
  BY DEF IndInv
<1> QED
  BY <1>1, Invariance, PTL

\* A link whose release has begun is not used again, and no IPUI is exchanged.
THEOREM LifeCycleHolds == Spec => LifeCycle
<1>1. IndInv /\ [Next]_vars => [LifeStep]_vars
  BY NextIndInv
<1> QED
  BY <1>1, Invariance, PTL DEF Spec, LifeCycle

-----------------------------------------------------------------------------
(* Own transactions.  Where no link takes over the transactions of another,   *)
(* dect_transaction_alloc_tv keeps them apart.                               *)

\* No two transactions that this side has opened are the same.
OwnApart(s) ==
    \A i, j \in DOMAIN s : s[i] = s[j] /\ s[i].role = "I" => i = j

\* No page is outstanding on the link, so none can be answered on another.
Tidy(d) == ~ d.page /\ OwnApart(d.trans)

Tidies(d, e) == Tidy(d) => Tidy(e)

\* The link keeps its transactions and its page timer.
LEMMA TidySame ==
    ASSUME NEW d, NEW e, e.page = d.page, e.trans = d.trans
    PROVE  Tidies(d, e)
  BY DEF Tidies, Tidy

\* list_del of one transaction leaves the others as they are.
LEMMA RemoveAtApart ==
    ASSUME NEW s \in Seq(Transaction), NEW i \in DOMAIN s, OwnApart(s)
    PROVE  OwnApart(RemoveAt(s, i))
<1> DEFINE a == SubSeq(s, 1, i - 1)
           b == SubSeq(s, i + 1, Len(s))
           r == a \o b
<1>1. i \in 1 .. Len(s) /\ Len(s) \in Nat
  OBVIOUS
<1>2. /\ a \in Seq(Transaction) /\ Len(a) = i - 1
      /\ \A k \in 1 .. i - 1 : a[k] = s[k]
  BY <1>1
<1>3. /\ b \in Seq(Transaction) /\ Len(b) = Len(s) - i
      /\ \A k \in 1 .. Len(s) - i : b[k] = s[i + k]
  BY <1>1
<1> HIDE DEF a, b
<1>4. DOMAIN r = 1 .. Len(s) - 1
  BY <1>1, <1>2, <1>3
<1>5. ASSUME NEW k \in 1 .. Len(s) - 1
      PROVE  r[k] = IF k < i THEN s[k] ELSE s[k + 1]
  BY <1>1, <1>2, <1>3
<1>6. RemoveAt(s, i) = r
  BY DEF RemoveAt, a, b
<1> HIDE DEF r
<1>7. ASSUME NEW k \in DOMAIN r, NEW m \in DOMAIN r, r[k] = r[m], r[k].role = "I"
      PROVE  k = m
  <2> DEFINE x == IF k < i THEN k ELSE k + 1
             y == IF m < i THEN m ELSE m + 1
  <2>1. x \in DOMAIN s /\ y \in DOMAIN s /\ r[k] = s[x] /\ r[m] = s[y]
    BY <1>1, <1>4, <1>5
  <2>2. x = y
    <3> HIDE DEF x, y
    <3> QED BY <1>7, <2>1 DEF OwnApart
  <2> QED BY <1>1, <1>4, <2>2
<1> QED
  BY <1>6, <1>7 DEF OwnApart

\* A transaction put before the last one, or at the end, stays apart if it is new.
LEMMA InsertedApart ==
    ASSUME NEW s \in Seq(Transaction), NEW t, NEW r, OwnApart(s),
           t.role = "I" => \A k \in DOMAIN s : s[k] # t,
           NEW n \in 1 .. Len(s) + 1,
           DOMAIN r = 1 .. Len(s) + 1, r[n] = t,
           \A k \in 1 .. Len(s) + 1 : /\ k < n => r[k] = s[k]
                                      /\ k > n => r[k] = s[k - 1]
    PROVE  OwnApart(r)
<1>1. DOMAIN s = 1 .. Len(s) /\ Len(s) \in Nat
  OBVIOUS
<1>2. ASSUME NEW k \in DOMAIN r, NEW m \in DOMAIN r, r[k] = r[m], r[k].role = "I"
      PROVE  k = m
  <2> DEFINE x == IF k < n THEN k ELSE k - 1
             y == IF m < n THEN m ELSE m - 1
  <2>1. k # n => x \in DOMAIN s /\ r[k] = s[x]
    BY <1>1
  <2>2. m # n => y \in DOMAIN s /\ r[m] = s[y]
    BY <1>1
  <2>3. k = n <=> m = n
    <3> HIDE DEF x, y
    <3> QED BY <1>2, <2>1, <2>2
  <2>4. k # n => x = y
    <3> HIDE DEF x, y
    <3> QED BY <1>2, <2>1, <2>2, <2>3 DEF OwnApart
  <2> QED BY <1>1, <2>3, <2>4
<1> QED
  BY <1>2 DEF OwnApart

\* A transaction that is new, or that the peer has opened, is linked apart.
LEMMA LinkedApart ==
    ASSUME NEW s \in Seq(Transaction), NEW t \in Transaction, OwnApart(s),
           t.role = "I" => \A k \in DOMAIN s : s[k] # t
    PROVE  OwnApart(Linked(s, t))
<1>1. DOMAIN s = 1 .. Len(s) /\ Len(s) \in Nat
  OBVIOUS
<1>2. OwnApart(<<t>> \o s)
  <2> DEFINE r == <<t>> \o s
  <2>1. DOMAIN r = 1 .. Len(s) + 1 /\ r[1] = t /\ \A k \in 2 .. Len(s) + 1 : r[k] = s[k - 1]
    BY <1>1
  <2> HIDE DEF r
  <2>2. /\ 1 \in 1 .. Len(s) + 1
        /\ \A k \in 1 .. Len(s) + 1 : /\ k < 1 => r[k] = s[k]
                                      /\ k > 1 => r[k] = s[k - 1]
    BY <1>1, <2>1
  <2>3. OwnApart(r)
    BY <2>1, <2>2, InsertedApart
  <2> QED BY <2>3 DEF r
<1>3. OwnApart(Append(s, t))
  <2> DEFINE r == Append(s, t)
  <2>1. DOMAIN r = 1 .. Len(s) + 1 /\ r[Len(s) + 1] = t /\ \A k \in 1 .. Len(s) : r[k] = s[k]
    BY <1>1
  <2> HIDE DEF r
  <2>2. /\ Len(s) + 1 \in 1 .. Len(s) + 1
        /\ \A k \in 1 .. Len(s) + 1 : /\ k < Len(s) + 1 => r[k] = s[k]
                                      /\ k > Len(s) + 1 => r[k] = s[k - 1]
    BY <1>1, <2>1
  <2>3. OwnApart(r)
    BY <2>1, <2>2, InsertedApart
  <2> QED BY <2>3 DEF r
<1>4. ASSUME s # <<>>
      PROVE  OwnApart(Front(s) \o <<t, Last(s)>>)
  <2> DEFINE f == Front(s)
             g == <<t, Last(s)>>
             r == f \o g
  <2>1. Len(s) \in Nat /\ Len(s) >= 1 /\ Last(s) = s[Len(s)] /\ Last(s) \in Transaction
    BY <1>4 DEF Last
  <2>2. /\ f \in Seq(Transaction) /\ Len(f) = Len(s) - 1
        /\ \A k \in 1 .. Len(s) - 1 : f[k] = s[k]
    <3>1. f = SubSeq(s, 1, Len(s) - 1)
      BY DEF Front
    <3>2. ASSUME NEW i \in 1 .. Len(s)
          PROVE  /\ SubSeq(s, 1, i - 1) \in Seq(Transaction)
                 /\ Len(SubSeq(s, 1, i - 1)) = i - 1
                 /\ \A k \in 1 .. i - 1 : SubSeq(s, 1, i - 1)[k] = s[k]
      BY <2>1
    <3>3. Len(s) \in 1 .. Len(s)
      BY <2>1
    <3> HIDE DEF f
    <3> QED BY <3>1, <3>2, <3>3, Zenon
  <2>3. g \in Seq(Transaction) /\ Len(g) = 2 /\ g[1] = t /\ g[2] = s[Len(s)]
    BY <2>1
  <2> HIDE DEF f, g
  <2>4. /\ r \in Seq(Transaction) /\ Len(r) = Len(s) + 1
        /\ \A k \in 1 .. Len(s) + 1 :
             r[k] = IF k <= Len(s) - 1 THEN f[k] ELSE g[k - (Len(s) - 1)]
    <3>1. /\ r \in Seq(Transaction) /\ Len(r) = Len(f) + Len(g)
          /\ \A k \in 1 .. Len(f) + Len(g) :
               r[k] = IF k <= Len(f) THEN f[k] ELSE g[k - Len(f)]
      BY <2>2, <2>3, ConcatProperties
    <3>2. Len(f) + Len(g) = Len(s) + 1
      BY <2>1, <2>2, <2>3
    <3> QED BY <2>2, <3>1, <3>2
  <2> HIDE DEF r
  <2>5. DOMAIN r = 1 .. Len(s) + 1 /\ r[Len(s)] = t /\ r[Len(s) + 1] = s[Len(s)]
    BY <2>1, <2>3, <2>4
  <2>6. \A k \in 1 .. Len(s) - 1 : r[k] = s[k]
    BY <2>1, <2>2, <2>4
  <2>7. \A k \in 1 .. Len(s) + 1 : /\ k < Len(s) => r[k] = s[k]
                                   /\ k > Len(s) => r[k] = s[k - 1]
    BY <2>1, <2>5, <2>6
  <2>8. OwnApart(r)
    BY <2>1, <2>5, <2>7, InsertedApart
  <2> QED BY <2>8 DEF r, f, g
<1> QED
  BY <1>2, <1>3, <1>4 DEF Linked

\* The process dies, or the link is freed: there are no transactions any more.
LEMMA TidyOver ==
    ASSUME NEW d \in LinkRecord
    PROVE  /\ \A why \in Crashed : Tidies(d, Crash(d, why))
           /\ Tidies(d, Freed(d)) /\ Tidies(d, Destroyed(d))
<1>1. OwnApart(<<>>)
  BY DEF OwnApart
<1>2. ASSUME NEW why \in Crashed
      PROVE  Tidies(d, Crash(d, why))
  <2>1. Crash(d, why).trans = <<>> /\ ~ Crash(d, why).page
    BY UnusedFields DEF Crash, LinkRecord
  <2> QED BY <1>1, <2>1 DEF Tidies, Tidy
<1>3. Tidies(d, Freed(d))
  <2>1. Freed(d).trans = <<>> /\ Freed(d).page = d.page
    BY UnusedFields DEF Freed, LinkRecord
  <2> QED BY <1>1, <2>1 DEF Tidies, Tidy
<1>4. "ASSERT_TRANSACTIONS" \in Crashed
  BY DEF Crashed
<1> QED
  BY <1>2, <1>3, <1>4 DEF Destroyed

\* dect_ddl_release
LEMMA TidyRelease ==
    ASSUME NEW d \in LinkRecord, NEW e \in ReleaseOutcomes(d)
    PROVE  Tidies(d, e)
<1> DEFINE k == IF d.rel THEN d.leaked + 1 ELSE d.leaked
           r == [d EXCEPT !.state = "RELEASE_PENDING", !.rel = TRUE, !.leaked = k]
<1>1. r.page = d.page /\ r.trans = d.trans
  <2> HIDE DEF k
  <2> QED BY DEF LinkRecord
<1>2. ReleaseOutcomes(d) = {Destroyed(d), r}
  BY Zenon DEF ReleaseOutcomes
<1> HIDE DEF r
<1> QED
  BY <1>1, <1>2, TidyOver, TidySame

\* Stopping LCE.05 or LCE.02, dect_ddl_partial_release and dect_ddl_set_ipui
LEMMA TidyAssignments ==
    ASSUME NEW d \in LinkRecord
    PROVE  /\ Tidies(d, SduStopped(d)) /\ Tidies(d, PartialReleased(d))
           /\ \A p : Tidies(d, Identified(d, p))
<1>1. SduStopped(d).page = d.page /\ SduStopped(d).trans = d.trans
  BY DEF SduStopped, LinkRecord
<1>2. PartialReleased(d).page = d.page /\ PartialReleased(d).trans = d.trans
  BY DEF PartialReleased, LinkRecord
<1>3. ASSUME NEW p
      PROVE  Identified(d, p).page = d.page /\ Identified(d, p).trans = d.trans
  BY DEF Identified, LinkRecord
<1> QED
  BY <1>1, <1>2, <1>3, TidySame

\* dect_lce_send_cl
LEMMA TidyAccepted ==
    ASSUME NEW d \in LinkRecord
    PROVE  Tidies(d, Accepted(d))
<1> DEFINE m == d.nsent + 1
<1>1. CASE d.state = "ESTABLISHED"
  <2> DEFINE e == [d EXCEPT !.nsent = m, !.tx = Append(d.tx, m)]
  <2>1. e.page = d.page /\ e.trans = d.trans
    BY DEF LinkRecord
  <2>2. Accepted(d) = e
    BY <1>1, Zenon DEF Accepted
  <2> QED BY <2>1, <2>2, TidySame
<1>2. CASE d.state = "ESTABLISH_PENDING"
  <2> DEFINE e == [d EXCEPT !.nsent = m, !.queue = Append(d.queue, m)]
  <2>1. e.page = d.page /\ e.trans = d.trans
    BY DEF LinkRecord
  <2>2. Accepted(d) = e
    BY <1>2 DEF Accepted
  <2> QED BY <2>1, <2>2, TidySame
<1>3. CASE d.state \notin Usable
  <2>1. Accepted(d) = Crash(d, "BUG_SEND") /\ "BUG_SEND" \in Crashed
    BY <1>3 DEF Accepted, Usable, Crashed
  <2> QED BY <2>1, TidyOver
<1> QED
  BY <1>1, <1>2, <1>3 DEF Usable

\* dect_lce_send
LEMMA TidySent ==
    ASSUME NEW d, RecordOK(d)
    PROVE  Tidies(d, Sent(d))
<1>1. d \in LinkRecord /\ SduStopped(d) \in LinkRecord
  BY EvolvesSduStopped DEF Evolves, RecordOK
<1> QED
  BY <1>1, TidyAssignments, TidyAccepted DEF Sent, Tidies

\* A transaction is new when dect_transaction_alloc_tv has found its value free.
New(d, t) == t.role = "I" => \A k \in DOMAIN d.trans : d.trans[k] # t

LEMMA TidyOpened ==
    ASSUME NEW d \in LinkRecord, NEW t \in Transaction, New(d, t)
    PROVE  Tidies(d, Opened(d, t))
<1> DEFINE s == Linked(d.trans, t)
           e == [d EXCEPT !.trans = s]
<1>1. d.trans \in Seq(Transaction)
  BY DEF LinkRecord
<1>2. OwnApart(d.trans) => OwnApart(s)
  BY <1>1, LinkedApart DEF New
<1>3. e.page = d.page /\ e.trans = s
  <2> HIDE DEF s
  <2> QED BY DEF LinkRecord
<1>4. Opened(d, t) = e
  BY Zenon DEF Opened
<1> HIDE DEF s, e
<1> QED
  BY <1>2, <1>3, <1>4 DEF Tidies, Tidy

\* A transaction is opened and its first message sent.
LEMMA TidyOpenedSent ==
    ASSUME NEW d, RecordOK(d), d.sdu # "sdu", Live(d), d.state \notin Crashed,
           NEW t \in Transaction, New(d, t)
    PROVE  Tidies(d, Sent(Opened(d, t)))
<1>1. RecordOK(Opened(d, t)) /\ d \in LinkRecord
  BY EvolvesOpened DEF Evolves, RecordOK
<1> QED
  BY <1>1, TidyOpened, TidySent DEF Tidies

\* dect_transaction_close
LEMMA TidyClose ==
    ASSUME NEW d \in LinkRecord, NEW i \in DOMAIN d.trans, NEW mode,
           NEW f \in CloseOutcomes(d, i, mode)
    PROVE  Tidies(d, f)
<1> DEFINE s == RemoveAt(d.trans, i)
           e == [d EXCEPT !.trans = s]
<1>1. d.trans \in Seq(Transaction)
  BY DEF LinkRecord
<1>2. s \in Seq(Transaction) /\ (OwnApart(d.trans) => OwnApart(s))
  BY <1>1, RemoveAtType, RemoveAtApart
<1>3. e \in LinkRecord /\ e.page = d.page /\ e.trans = s
  <2> HIDE DEF s
  <2> QED BY <1>1, <1>2 DEF LinkRecord
<1>4. f \in {e, Destroyed(e), PartialReleased(e)} \/ f \in ReleaseOutcomes(e)
  BY Zenon DEF CloseOutcomes
<1> HIDE DEF s, e
<1>5. Tidies(d, e)
  BY <1>2, <1>3 DEF Tidies, Tidy
<1>6. Tidies(e, f)
  BY <1>3, <1>4, TidySame, TidyOver, TidyAssignments, TidyRelease
<1> QED
  BY <1>5, <1>6 DEF Tidies

\* A message is sent, and the transaction closed after it.
LEMMA TidySentClosed ==
    ASSUME NEW d, RecordOK(d), NEW i \in DOMAIN d.trans,
           Sent(d).state \notin Crashed, NEW f \in OwnClose(Sent(d), i)
    PROVE  Tidies(d, f)
<1>1. Sent(d) \in LinkRecord /\ Sent(d).trans = d.trans
  BY EvolvesSent DEF Evolves, RecordOK
<1>2. Tidies(Sent(d), f)
  BY <1>1, TidyClose DEF OwnClose
<1> QED
  BY <1>2, TidySent DEF Tidies

\* dect_ddl_shutdown
LEMMA TidyShutdown ==
    ASSUME NEW d \in LinkRecord
    PROVE  Tidies(d, Shutdown(d))
<1> DEFINE e == [d EXCEPT !.state = "RELEASED"]
<1>1. e \in LinkRecord /\ e.page = d.page /\ e.trans = d.trans
  BY DEF LinkRecord, LinkState
<1>2. Shutdown(d) = Destroyed(e) \/ Shutdown(d) = e
  BY Zenon DEF Shutdown
<1> HIDE DEF e
<1> QED
  BY <1>1, <1>2, TidySame, TidyOver DEF Tidies

\* dect_lce_send_page_reject and dect_ddl_release
LEMMA TidyRejected ==
    ASSUME NEW d, RecordOK(d), NEW f \in Rejected(d)
    PROVE  Tidies(d, f)
<1>1. Sent(d) \in LinkRecord /\ Tidies(d, Sent(d))
  BY EvolvesSent, TidySent DEF Evolves, RecordOK
<1>2. f = Sent(d) \/ f \in ReleaseOutcomes(Sent(d))
  BY DEF Rejected
<1> QED
  BY <1>1, <1>2, TidyRelease DEF Tidies

\* A message of an unknown transaction: the transaction it opens is the peer's.
LEMMA TidyRcvOpen ==
    ASSUME NEW d, RecordOK(d), d.state \in {"ESTABLISHED", "RELEASE_PENDING"},
           NEW t \in Transaction, t.role = "R", NEW p \in Peer,
           NEW f \in RcvOpen(d, t, p)
    PROVE  Tidies(d, f)
<1> DEFINE s == SduStopped(d)
           o == Opened(s, t)
           n == Identified(o, p)
<1>1. RecordOK(s) /\ s.state = d.state /\ s.sdu = "off" /\ s \in LinkRecord /\ d \in LinkRecord
  BY EvolvesSduStopped DEF Evolves, RecordOK
<1>2. Live(s) /\ s.state \notin Crashed
  BY <1>1 DEF Live, Crashed
<1>3. o \in LinkRecord
  BY <1>1, <1>2, EvolvesOpened DEF Evolves, RecordOK
<1>4. f \in {s, Identified(s, p), Sent(s), o, n}
  BY Zenon DEF RcvOpen
<1>5. Tidies(d, s) /\ Tidies(s, Identified(s, p))
  <2>1. Tidies(d, s)
    BY <1>1, TidyAssignments
  <2> HIDE DEF s
  <2> QED BY <1>1, <2>1, TidyAssignments
<1>6. Tidies(s, o)
  BY <1>1, TidyOpened DEF New
<1>7. Tidies(s, Sent(s))
  BY <1>1, TidySent
<1>8. Tidies(o, n)
  <2> HIDE DEF o
  <2> QED BY <1>3, TidyAssignments
<1> HIDE DEF s, o, n
<1> QED
  BY <1>4, <1>5, <1>6, <1>7, <1>8 DEF Tidies

\* A message of a known transaction
LEMMA TidyRcvKnown ==
    ASSUME NEW d, RecordOK(d), NEW i \in DOMAIN d.trans, NEW f \in RcvKnown(d, i)
    PROVE  Tidies(d, f)
<1> DEFINE s == SduStopped(d)
<1>1. RecordOK(s) /\ s.trans = d.trans /\ d \in LinkRecord /\ s \in LinkRecord
  BY EvolvesSduStopped DEF Evolves, RecordOK
<1>2. Tidies(d, s)
  BY <1>1, TidyAssignments
<1>3. \/ f = s
      \/ f \in OwnClose(s, i)
      \/ f = Sent(s)
      \/ Sent(s).state \notin Crashed /\ f \in OwnClose(Sent(s), i)
  <2>1. \/ f \in {s}
        \/ f \in OwnClose(s, i)
        \/ f \in IF ~ CanSend(s) THEN {}
                  ELSE {Sent(s)} \cup (IF Sent(s).state \in Crashed THEN {}
                                       ELSE OwnClose(Sent(s), i))
    BY Zenon DEF RcvKnown
  <2> QED BY <2>1
<1> HIDE DEF s
<1>4. f \in OwnClose(s, i) => Tidies(s, f)
  BY <1>1, TidyClose DEF OwnClose
<1>5. Tidies(s, f) \/ f = s
  BY <1>1, <1>3, <1>4, TidySent, TidySentClosed
<1> QED
  BY <1>2, <1>5 DEF Tidies

-----------------------------------------------------------------------------
(* The table stays tidy. *)

\* What rules out an indirect establishment: a portable part, or a fixed part that
\* pages nobody.
NoPaging == Mode = "PP" \/ Paged = {}

AllTidy == \A l \in Link : Tidy(link[l])

LEMMA SetTidy ==
    ASSUME IndInv, AllTidy, NEW l \in Link, NEW e, Tidies(link[l], e),
           link' = [link EXCEPT ![l] = e]
    PROVE  AllTidy'
<1>1. link \in [Link -> LinkRecord]
  BY IndInvByLink
<1> QED
  BY <1>1 DEF AllTidy, Tidies

LEMMA AddTidy ==
    ASSUME IndInv, AllTidy, NEW l \in Link, NEW e, Tidy(e), Add(l, e)
    PROVE  AllTidy'
<1>1. link \in [Link -> LinkRecord]
  BY IndInvByLink
<1> QED
  BY <1>1 DEF AllTidy, Add

\* A READ event, and the page transaction that it closes
LEMMA ReadTidy ==
    ASSUME IndInv, AllTidy, NEW l \in Link, NEW e, Evolves(link[l], e),
           Tidies(link[l], e), Read(l, e)
    PROVE  AllTidy'
<1> DEFINE lk == [link EXCEPT ![l] = e]
<1>1. link \in [Link -> LinkRecord] /\ e \in LinkRecord
  BY IndInvByLink DEF Evolves, RecordOK
<1>2. lk \in [Link -> LinkRecord] /\ \A k \in Link : Tidy(lk[k])
  BY <1>1 DEF AllTidy, Tidies
<1>3. link' \in AfterRead(lk)
  BY DEF Read, Update
<1> HIDE DEF lk
<1>4. CASE link' = lk
  BY <1>2, <1>4 DEF AllTidy
<1>5. ASSUME NEW x \in PageTransactions(lk),
             NEW f \in CloseOutcomes(lk[x[1]], x[2], "NORMAL"),
             link' = [lk EXCEPT ![x[1]] = f]
      PROVE  AllTidy'
  <2>1. x[1] \in Link /\ x[2] \in DOMAIN lk[x[1]].trans
    BY DEF PageTransactions
  <2>2. Tidies(lk[x[1]], f)
    BY <1>2, <2>1, TidyClose
  <2> QED BY <1>2, <1>5, <2>1, <2>2 DEF AllTidy, Tidies
<1> QED
  BY <1>3, <1>4, <1>5 DEF AfterRead

\* dect_transaction_alloc_tv returns a value that no transaction of this side has.
LEMMA AllocatedNew ==
    ASSUME NEW d \in LinkRecord, NEW pd, NEW tv \in FreeTv(d, pd)
    PROVE  New(d, [pd |-> pd, tv |-> tv, role |-> "I"])
<1>1. DOMAIN d.trans = 1 .. Len(d.trans)
  BY DEF LinkRecord
<1> QED
  BY <1>1 DEF New, FreeTv

\* A link that is asked for has no transaction, and no page where nobody is paged.
LEMMA EstablishingTidy ==
    ASSUME NoPaging, NEW p \in Peer
    PROVE  /\ RecordOK(Establishing(p)) /\ Tidy(Establishing(p))
           /\ Establishing(p).trans = <<>>
           /\ Establishing(p).state = "ESTABLISH_PENDING" /\ Establishing(p).sdu = "off"
<1> DEFINE e == [Unused EXCEPT !.state = "ESTABLISH_PENDING", !.peer = p, !.socket = TRUE]
<1>1. ~ e.page /\ e.trans = <<>>
  BY UnusedFields DEF LinkRecord
<1>2. Establishing(p) = e
  BY DEF Establishing, NoPaging
<1> HIDE DEF e
<1>3. OwnApart(<<>>)
  BY DEF OwnApart
<1> QED
  BY <1>1, <1>2, <1>3, EstablishingOK DEF Tidy

\* The first transaction of a link that is asked for, and its first message
LEMMA FirstTidy ==
    ASSUME NoPaging, NEW p \in Peer, NEW t \in Transaction
    PROVE  Tidy(Sent(Opened(Establishing(p), t)))
<1> DEFINE d == Establishing(p)
<1>1. RecordOK(d) /\ Tidy(d) /\ d.trans = <<>> /\ d.state = "ESTABLISH_PENDING" /\ d.sdu = "off"
  BY EstablishingTidy
<1> HIDE DEF d
<1>2. New(d, t) /\ Live(d) /\ d.state \notin Crashed /\ d.sdu # "sdu"
  BY <1>1 DEF New, Live, Crashed
<1> QED
  BY <1>1, <1>2, TidyOpenedSent DEF Tidies, d

-----------------------------------------------------------------------------
(* Actions *)

\* MNCC_SETUP-req or MNSS_SETUP-req opens a transaction with a value of its own.
LEMMA OpenByIpuiTidy ==
    ASSUME IndInv, AllTidy, NoPaging, NEW p \in Peer, NEW pd \in Protocol, OpenByIpui(p, pd)
    PROVE  AllTidy'
<1>1. Running /\ \A k \in Link : RecordOK(link[k]) /\ link[k] \in LinkRecord
  BY IndInvByLink DEF OpenByIpui, AppMayRun
<1>2. PICK l \in Link, tv \in 0 .. MaxTv[pd] - 1 :
        LET t == [pd |-> pd, tv |-> tv, role |-> "I"] IN
        \/ /\ IsFirst(l, ByIpui(p)) /\ tv \in FreeTv(link[l], pd)
           /\ SetLink(l, Sent(Opened(link[l], t)))
        \/ Add(l, Sent(Opened(Establishing(p), t)))
  BY DEF OpenByIpui, IsLeast
<1> DEFINE t == [pd |-> pd, tv |-> tv, role |-> "I"]
<1>3. t \in Transaction
  <2>1. MaxTv[pd] \in Nat
    BY DataLinkAssumption
  <2> QED BY <2>1, TransactionType DEF Role
<1>4. CASE IsFirst(l, ByIpui(p)) /\ tv \in FreeTv(link[l], pd)
             /\ SetLink(l, Sent(Opened(link[l], t)))
  <2>1. New(link[l], t)
    BY <1>1, <1>4, AllocatedNew
  <2> HIDE DEF t
  <2>2. Live(link[l]) /\ link[l].peer = p
    BY <1>4 DEF IsFirst, ByIpui
  <2>3. link[l].state \notin Crashed /\ link[l].sdu # "sdu"
    BY <1>1, <2>2, DataLinkAssumption DEF Running, RecordOK
  <2>4. Tidies(link[l], Sent(Opened(link[l], t)))
    BY <1>1, <1>3, <2>1, <2>2, <2>3, TidyOpenedSent
  <2>5. link' = [link EXCEPT ![l] = Sent(Opened(link[l], t))]
    BY <1>4 DEF SetLink, Update
  <2> QED BY <2>4, <2>5, SetTidy
<1>5. CASE Add(l, Sent(Opened(Establishing(p), t)))
  <2> HIDE DEF t
  <2> QED BY <1>3, <1>5, FirstTidy, AddTidy
<1> QED
  BY <1>2, <1>4, <1>5

\* An MM procedure opens a transaction with a value of its own.
LEMMA OpenOnLinkTidy ==
    ASSUME IndInv, AllTidy, NEW l \in Link, OpenOnLink(l)
    PROVE  AllTidy'
<1>1. RecordOK(link[l]) /\ link[l] \in LinkRecord
  BY IndInvByLink
<1>2. "MM" \in Protocol /\ link[l].state \in {"ESTABLISHED", "RELEASE_PENDING"}
        /\ link[l].sdu # "sdu"
  BY DEF OpenOnLink
<1>3. PICK tv \in 0 .. MaxTv["MM"] - 1 :
        /\ tv \in FreeTv(link[l], "MM")
        /\ SetLink(l, Sent(Opened(link[l], [pd |-> "MM", tv |-> tv, role |-> "I"])))
  BY DEF OpenOnLink, IsLeast
<1> DEFINE t == [pd |-> "MM", tv |-> tv, role |-> "I"]
<1>4. t \in Transaction
  <2>1. MaxTv["MM"] \in Nat
    BY <1>2, DataLinkAssumption
  <2> QED BY <1>2, <2>1, TransactionType DEF Role
<1>5. New(link[l], t)
  BY <1>1, <1>3, AllocatedNew
<1>6. link' = [link EXCEPT ![l] = Sent(Opened(link[l], t))]
  BY <1>3 DEF SetLink, Update
<1> HIDE DEF t
<1>7. Tidies(link[l], Sent(Opened(link[l], t)))
  BY <1>1, <1>2, <1>4, <1>5, TidyOpenedSent DEF Live, Crashed
<1> QED
  BY <1>6, <1>7, SetTidy

\* A primitive of an open transaction opens none.
LEMMA RequestTidy ==
    ASSUME IndInv, AllTidy, NEW l \in Link, NEW i,
           Request(l, i) \/ RequestClose(l, i) \/ TimeoutClose(l, i)
    PROVE  AllTidy'
<1>1. i \in DOMAIN link[l].trans /\ RecordOK(link[l]) /\ link[l] \in LinkRecord
  BY IndInvByLink DEF Request, RequestClose, TimeoutClose
<1>2. PICK e : Tidies(link[l], e) /\ SetLink(l, e)
  <2>1. CASE Request(l, i)
    BY <1>1, <2>1, TidySent DEF Request
  <2>2. CASE RequestClose(l, i)
    <3> DEFINE d == Sent(link[l])
    <3>1. PICK e \in IF d.state \in Crashed THEN {d} ELSE OwnClose(d, i) : SetLink(l, e)
      BY <2>2 DEF RequestClose
    <3>2. CASE d.state \in Crashed
      BY <1>1, <3>1, <3>2, TidySent
    <3>3. CASE d.state \notin Crashed
      BY <1>1, <3>1, <3>3, TidySentClosed
    <3> QED BY <3>2, <3>3
  <2>3. CASE TimeoutClose(l, i)
    <3>1. PICK e \in OwnClose(link[l], i) : SetLink(l, e)
      BY <2>3 DEF TimeoutClose
    <3> QED BY <1>1, <3>1, TidyClose DEF OwnClose
  <2> QED BY <2>1, <2>2, <2>3
<1>3. link' = [link EXCEPT ![l] = e]
  BY <1>2 DEF SetLink, Update
<1> QED
  BY <1>2, <1>3, SetTidy

\* Connectionless sending and DL_ESTABLISH-req open no transaction.
LEMMA SendConnectionlessTidy ==
    ASSUME IndInv, AllTidy, NoPaging, NEW p \in Peer,
           SendConnectionless(p) \/ EstablishReq(p)
    PROVE  AllTidy'
<1>1. \A k \in Link : link[k] \in LinkRecord
  BY IndInvByLink
<1> DEFINE d == Establishing(p)
           e == Accepted(d)
<1>2. Tidy(d) /\ d \in LinkRecord
  BY EstablishingTidy DEF RecordOK
<1>3. Tidy(e)
  <2> HIDE DEF d
  <2> QED BY <1>2, TidyAccepted DEF Tidies
<1>4. PICK l \in Link : SetLink(l, Accepted(link[l])) \/ Add(l, e) \/ Add(l, d)
  BY DEF SendConnectionless, EstablishReq
<1> HIDE DEF d, e
<1>5. CASE SetLink(l, Accepted(link[l]))
  <2>1. link' = [link EXCEPT ![l] = Accepted(link[l])]
    BY <1>5 DEF SetLink, Update
  <2> QED BY <1>1, <2>1, TidyAccepted, SetTidy
<1> QED
  BY <1>2, <1>3, <1>4, <1>5, AddTidy

\* A turn of the shutdown loop closes a transaction.
LEMMA ShutdownNextTidy ==
    ASSUME IndInv, AllTidy, ShutdownNext
    PROVE  AllTidy'
<1>1. cur \in Link /\ RecordOK(link[cur]) /\ link[cur] \in LinkRecord
  BY IndInvByLink DEF ShutdownNext, CallbackOK
<1>2. PICK d : ShutdownTurn(d)
  BY ShutdownNextTurn
<1>3. Tidies(link[cur], d) /\ Evolves(link[cur], d)
  BY <1>1, <1>2, TidyClose, TidyOver, EvolvesClose, EvolvesCrash DEF ShutdownTurn, Crashed
<1>4. SetLink(cur, d) => link' = [link EXCEPT ![cur] = d]
  BY DEF SetLink, Update
<1> QED
  BY <1>1, <1>2, <1>3, <1>4, SetTidy, ReadTidy DEF ShutdownTurn

\* A link that a portable opens has no transaction yet.
LEMMA AcceptTidy ==
    ASSUME IndInv, AllTidy, NEW l \in Link, Accept(l)
    PROVE  AllTidy'
<1> DEFINE e == [Unused EXCEPT !.state = "ESTABLISHED", !.socket = TRUE, !.sdu = "sdu"]
<1>1. Add(l, e)
  BY DEF Accept
<1>2. ~ e.page /\ e.trans = <<>>
  BY UnusedFields DEF LinkRecord
<1> HIDE DEF e
<1>3. Tidy(e)
  BY <1>2 DEF Tidy, OwnApart
<1> QED
  BY <1>1, <1>3, AddTidy

\* The end of a direct establishment, well or badly, leaves the transactions.
LEMMA ConnectTidy ==
    ASSUME IndInv, AllTidy, NEW l \in Link, ConnectDone(l) \/ ConnectFailed(l)
    PROVE  AllTidy'
<1> DEFINE d == link[l]
           u == [d EXCEPT !.state = "ESTABLISHED"]
<1>1. d \in LinkRecord
  BY IndInvByLink
<1>2. PICK e \in {u, Shutdown(d)} : link' = [link EXCEPT ![l] = e]
  BY DEF ConnectDone, ConnectFailed, SetLink, Update
<1>3. u.page = d.page /\ u.trans = d.trans
  BY <1>1 DEF LinkRecord
<1> HIDE DEF u
<1>4. Tidies(d, u) /\ Tidies(d, Shutdown(d))
  BY <1>1, <1>3, TidySame, TidyShutdown
<1> QED
  BY <1>2, <1>4, SetTidy

\* What follows a callback: the queue is sent, or LCE.02 is started.
LEMMA ReturnTidy ==
    ASSUME IndInv, AllTidy, DrainQueue \/ IndirectDone
    PROVE  AllTidy'
<1> DEFINE d == link[cur]
           q == [d EXCEPT !.tx = @ \o d.queue, !.queue = <<>>]
           n == [d EXCEPT !.queue = <<>>]
<1>1. cur \in Link /\ d \in LinkRecord
  BY IndInvByLink DEF DrainQueue, IndirectDone, CallbackOK
<1>2. PICK e \in {Crash(d, "STALE"), q, n, PartialReleased(d), d} :
        link' = [link EXCEPT ![cur] = e]
  BY DEF DrainQueue, IndirectDone, SetLink, Update
<1>3. q.page = d.page /\ q.trans = d.trans /\ n.page = d.page /\ n.trans = d.trans
  BY <1>1 DEF LinkRecord
<1> HIDE DEF q, n
<1>4. Tidies(d, e)
  BY <1>1, <1>2, <1>3, TidySame, TidyOver, TidyAssignments DEF Crashed
<1> QED
  BY <1>1, <1>2, <1>4, SetTidy

\* A page response that nobody waits for opens no transaction.
LEMMA UnexpectedPageResponseTidy ==
    ASSUME IndInv, AllTidy, NEW l \in Link, NEW p \in Peer, UnexpectedPageResponse(l, p)
    PROVE  AllTidy'
<1>1. link[l].state \in {"ESTABLISHED", "RELEASE_PENDING"} /\ RecordOK(link[l])
  BY IndInvByLink DEF UnexpectedPageResponse, Readable
<1> DEFINE d == SduStopped(link[l])
           n == Identified(d, p)
<1>2. RecordOK(d) /\ d.state = link[l].state /\ d.sdu = "off" /\ d \in LinkRecord
        /\ Tidies(link[l], d)
  BY <1>1, TidyAssignments, EvolvesSduStopped DEF Evolves, RecordOK
<1>3. Live(d) /\ d.state \notin Crashed
  BY <1>1, <1>2 DEF Live, Crashed
<1>4. PICK e \in {n} \cup Rejected(n) \cup Rejected(d) : SetLink(l, e)
  BY DEF UnexpectedPageResponse
<1> HIDE DEF d
<1>5. Tidies(d, n) /\ RecordOK(n)
  BY <1>2, <1>3, EvolvesIdentified, TidyAssignments DEF Evolves
<1> HIDE DEF n
<1>6. Tidies(link[l], e)
  BY <1>2, <1>4, <1>5, TidyRejected DEF Tidies
<1>7. link' = [link EXCEPT ![l] = e]
  BY <1>4 DEF SetLink, Update
<1> QED
  BY <1>6, <1>7, SetTidy

\* Where nobody is paged a page response finds no pending link with a page timer:
\* it takes over nothing, or the process dies of the missing timer.
LEMMA PageResponseTidy ==
    ASSUME IndInv, AllTidy, NEW l \in Link, NEW p \in Peer, PageResponse(l, p)
    PROVE  AllTidy'
<1>1. PICK r \in Link : ~ link[r].page => link' = [link EXCEPT ![r] = Crash(link[r], "NULL_TIMER")]
  BY DEF PageResponse, SetLink, Update
<1>2. ~ link[r].page /\ link[r] \in LinkRecord
  BY IndInvByLink DEF AllTidy, Tidy
<1>3. Tidies(link[r], Crash(link[r], "NULL_TIMER"))
  BY <1>2, TidyOver DEF Crashed
<1> QED
  BY <1>1, <1>2, <1>3, SetTidy

\* A portable answers a page with a transaction on a new link.
LEMMA RcvPageTidy ==
    ASSUME IndInv, AllTidy, NoPaging, NEW p \in Peer, RcvPage(p)
    PROVE  AllTidy'
<1> DEFINE t == [pd |-> "LCE", tv |-> 0, role |-> "I"]
           d == Sent(Opened(Establishing(p), t))
<1>1. PICK l \in Link : Add(l, d) \/ Add(l, Crash(d, "LIST"))
  BY DEF RcvPage
<1>2. t \in Transaction
  BY DEF Transaction, Role
<1>3. Tidy(d)
  <2> HIDE DEF t
  <2> QED BY <1>2, FirstTidy
<1> HIDE DEF d
<1>4. Tidy(Crash(d, "LIST"))
  <2>1. Crash(d, "LIST").trans = <<>> /\ ~ Crash(d, "LIST").page
    BY UnusedFields DEF Crash, LinkRecord
  <2> QED BY <2>1 DEF Tidy, OwnApart
<1> QED
  BY <1>1, <1>3, <1>4, AddTidy

\* A received message opens a transaction of the peer's, or answers and closes one.
LEMMA RcvTidy ==
    ASSUME IndInv, AllTidy, NEW l \in Link, NEW pd \in Protocol \cup {"LCE"},
           NEW tv \in 0 .. MaxTv[pd] - 1, NEW role \in Role, Rcv(l, pd, tv, role)
    PROVE  AllTidy'
<1>1. Running /\ link[l].state \in {"ESTABLISHED", "RELEASE_PENDING"} /\ RecordOK(link[l])
  BY IndInvByLink DEF Rcv, Readable
<1> DEFINE t == [pd |-> pd, tv |-> tv, role |-> role]
           r == [pd |-> pd, tv |-> tv, role |-> "R"]
<1>2. [t EXCEPT !.role = "R"] = r /\ r.role = "R"
  OBVIOUS
<1>3. \/ \E p \in Peer : \E d \in RcvOpen(link[l], r, p) : Read(l, d)
      \/ \E i \in DOMAIN link[l].trans : \E d \in RcvKnown(link[l], i) : Read(l, d)
  BY <1>2 DEF Rcv
<1>4. r \in Transaction
  <2>1. MaxTv[pd] \in Nat
    BY DataLinkAssumption
  <2> QED BY <2>1, TransactionType DEF Role
<1> HIDE DEF r
<1>5. PICK d : Tidies(link[l], d) /\ Evolves(link[l], d) /\ Read(l, d)
  <2>1. CASE \E p \in Peer : \E d \in RcvOpen(link[l], r, p) : Read(l, d)
    BY <1>1, <1>2, <1>4, <2>1, TidyRcvOpen, EvolvesRcvOpen
  <2>2. CASE \E i \in DOMAIN link[l].trans : \E d \in RcvKnown(link[l], i) : Read(l, d)
    BY <1>1, <2>2, TidyRcvKnown, EvolvesRcvKnown
  <2> QED BY <1>3, <2>1, <2>2
<1> QED
  BY <1>5, ReadTidy

\* The end of a release ends the link.
LEMMA ReleaseCompleteTidy ==
    ASSUME IndInv, AllTidy, NEW l \in Link, ReleaseComplete(l)
    PROVE  AllTidy'
<1> DEFINE d == [link[l] EXCEPT !.state = "RELEASED", !.rel = FALSE]
<1>1. Read(l, Destroyed(d)) /\ link[l] \in LinkRecord
  BY IndInvByLink DEF ReleaseComplete
<1>2. d \in LinkRecord /\ d.page = link[l].page /\ d.trans = link[l].trans
  BY <1>1 DEF LinkRecord, LinkState
<1> HIDE DEF d
<1>3. Evolves(link[l], Destroyed(d)) /\ Tidies(link[l], Destroyed(d))
  BY <1>2, EvolvesEnded, TidySame, TidyOver DEF Tidies
<1> QED
  BY <1>1, <1>3, ReadTidy

\* An error of the socket leaves the transactions to the shutdown loop.
LEMMA RcvErrorTidy ==
    ASSUME IndInv, AllTidy, NEW l \in Link, RcvError(l)
    PROVE  AllTidy'
<1>1. link[l].state \in {"ESTABLISHED", "RELEASE_PENDING", "RELEASED"}
        /\ RecordOK(link[l]) /\ link[l] \in LinkRecord
  BY IndInvByLink DEF RcvError
<1>2. Evolves(link[l], Shutdown(link[l])) /\ Tidies(link[l], Shutdown(link[l]))
  BY <1>1, EvolvesShutdown, TidyShutdown DEF Live, Crashed
<1>3. Read(l, Shutdown(link[l])) \/ link' = [link EXCEPT ![l] = Shutdown(link[l])]
  BY DEF RcvError, SetLink, Update
<1> QED
  BY <1>2, <1>3, SetTidy, ReadTidy

\* LCE.01, LCE.02 and LCE.05 destroy a link or leave it its transactions.
LEMMA TimeoutTidy ==
    ASSUME IndInv, AllTidy, NEW l \in Link,
           SduTimeout(l) \/ PartialReleaseTimeout(l) \/ ReleaseTimeout(l)
    PROVE  AllTidy'
<1> DEFINE d == link[l]
           s == SduStopped(d)
           k == d.leaked - 1
           a == [d EXCEPT !.leaked = k]
           b == [d EXCEPT !.rel = FALSE]
<1>1. d \in LinkRecord /\ RecordOK(d)
  BY IndInvByLink DEF RecordOK
<1>2. s \in LinkRecord /\ Tidies(d, s)
  BY <1>1, EvolvesSduStopped, TidyAssignments DEF Evolves, RecordOK
<1>3. d.leaked > 0 => k \in Nat
  BY <1>1 DEF LinkRecord
<1>4. /\ d.leaked > 0 => a \in LinkRecord
      /\ b \in LinkRecord
      /\ a.page = d.page /\ a.trans = d.trans /\ b.page = d.page /\ b.trans = d.trans
  <2> HIDE DEF k
  <2> QED BY <1>1, <1>3 DEF LinkRecord
<1>5. PICK e : /\ link' = [link EXCEPT ![l] = e]
               /\ \/ e \in {Destroyed(s), s, Crash(d, "STALE"), Destroyed(b)}
                  \/ d.leaked > 0 /\ e = Destroyed(a)
  BY DEF SduTimeout, PartialReleaseTimeout, ReleaseTimeout, SetLink, Update
<1> HIDE DEF s, k, a, b
<1>6. Tidies(d, e)
  <2>1. Tidies(d, Destroyed(s)) /\ Tidies(d, s) /\ Tidies(d, Crash(d, "STALE"))
    BY <1>1, <1>2, TidyOver DEF Tidies, Crashed
  <2>2. Tidies(d, Destroyed(b))
    BY <1>4, TidySame, TidyOver DEF Tidies
  <2>3. d.leaked > 0 => Tidies(d, Destroyed(a))
    BY <1>4, TidySame, TidyOver DEF Tidies
  <2> QED BY <1>5, <2>1, <2>2, <2>3
<1> QED
  BY <1>5, <1>6, SetTidy

\* Without a page timer there is no page to time out and none that has failed.
LEMMA PageTimeoutTidy ==
    ASSUME AllTidy, NEW l \in Link, PageTimeout(l)
    PROVE  FALSE
  BY DEF AllTidy, Tidy, PageTimeout

\* Giving up a page leaves the transactions to the shutdown loop.
LEMMA PageFailedTidy ==
    ASSUME IndInv, AllTidy, PageFailed
    PROVE  AllTidy'
<1> DEFINE d == link[cur]
<1>1. cur \in Link /\ d \in LinkRecord
  BY IndInvByLink DEF PageFailed, CallbackOK
<1>2. PICK e \in {Crash(d, "STALE"), Shutdown(d)} : link' = [link EXCEPT ![cur] = e]
  BY DEF PageFailed, SetLink, Update
<1>3. Tidies(d, e)
  BY <1>1, <1>2, TidyOver, TidyShutdown DEF Crashed
<1> QED
  BY <1>1, <1>2, <1>3, SetTidy

\* No step makes two transactions of this side the same.
LEMMA NextTidy ==
    ASSUME IndInv, AllTidy, NoPaging, Next
    PROVE  AllTidy'
<1>1. CASE App
  BY <1>1, OpenByIpuiTidy, SendConnectionlessTidy, OpenOnLinkTidy, RequestTidy DEF App
<1>2. CASE Network
  BY <1>2, AcceptTidy, ConnectTidy, RcvTidy, ReleaseCompleteTidy, RcvErrorTidy,
     PageResponseTidy, UnexpectedPageResponseTidy, RcvPageTidy DEF Network
<1>3. CASE Timer
  BY <1>3, TimeoutTidy, PageTimeoutTidy DEF Timer
<1>4. CASE Continue
  BY <1>4, ShutdownNextTidy, ReturnTidy, PageFailedTidy DEF Continue
<1> QED
  BY <1>1, <1>2, <1>3, <1>4 DEF Next

\* Two open transactions that this side has initiated on a link never share a value:
\* dect_transaction_alloc_tv gives each its own, whatever protocols, shutdowns and
\* peers do.  Where peers are paged, links take over each other's transactions and
\* the property is lost (see the hazards).
THEOREM OwnTvUniqueCorrect ==
    ASSUME NoPaging
    PROVE  Spec => []OwnTvUnique
<1>1. Init => AllTidy
  BY UnusedFields DEF Init, AllTidy, Tidy, OwnApart
<1>2. IndInv /\ AllTidy /\ [Next]_vars => AllTidy'
  <2>1. UNCHANGED vars /\ AllTidy => AllTidy'
    BY DEF vars, AllTidy
  <2> QED BY <2>1, NextTidy
<1>3. AllTidy => OwnTvUnique
  BY DEF AllTidy, Tidy, OwnApart, OwnTvUnique
<1> QED
  BY <1>1, <1>2, <1>3, Invariance, PTL DEF Spec

-----------------------------------------------------------------------------
(* The loop of dect_ddl_shutdown.  While it waits for the application, the link *)
(* is RELEASED: whatever is sent on it reaches BUG() before its list of          *)
(* transactions changes, and what happens to other links does not matter.       *)

Walking == callback \in {"shutdown", "shutdown_read"}

\* dect_lce_send on a link that is released
LEMMA ReleasedSent ==
    ASSUME NEW d, RecordOK(d), d.state = "RELEASED"
    PROVE  Sent(d).state \in Crashed /\ \A t \in Transaction : Sent(Opened(d, t)).state \in Crashed
<1>1. d.state \notin Usable \cup Crashed /\ Live(d) /\ d.sdu # "sdu"
  BY DEF Usable, Crashed, Live, RecordOK
<1>2. Sent(d).state \in Crashed
  BY <1>1, EvolvesSent
<1>3. ASSUME NEW t \in Transaction
      PROVE  Sent(Opened(d, t)).state \in Crashed
  <2>1. RecordOK(Opened(d, t)) /\ Opened(d, t).state = d.state
    BY <1>1, EvolvesOpened DEF Evolves
  <2> QED BY <1>1, <2>1, EvolvesSent
<1> QED
  BY <1>2, <1>3

\* A call from the callback leaves the link of the loop alone, or ends the process.
LEMMA WalkKept ==
    ASSUME IndInv, WalkIntact, Running, UNCHANGED <<callback, cur, walk>>,
           Walking => link'[cur] = link[cur] \/ link'[cur].state \in Crashed
    PROVE  WalkIntact'
<1>1. Walking => cur \in Link
  BY IndInvByLink DEF CallbackOK, Walking
<1>2. Walking /\ Running' => link'[cur] = link[cur]
  BY <1>1 DEF Running
<1> QED
  BY <1>2 DEF WalkIntact, Walking

\* One link is changed from the callback: another one, or the process dies.
LEMMA SetKept ==
    ASSUME IndInv, WalkIntact, Running, UNCHANGED <<callback, cur, walk>>,
           NEW l \in Link, NEW e, SetLink(l, e),
           link[l].state = "RELEASED" => e.state \in Crashed
    PROVE  WalkIntact'
<1>1. link' = [link EXCEPT ![l] = e] /\ link \in [Link -> LinkRecord]
  BY IndInvByLink DEF SetLink, Update
<1>2. Walking => cur \in Link /\ link[cur].state = "RELEASED"
  BY IndInvByLink DEF CallbackOK, Walking, WalkIntact
<1>3. ASSUME Walking
      PROVE  link'[cur] = link[cur] \/ link'[cur].state \in Crashed
  <2>1. CASE cur = l
    BY <1>1, <1>2, <1>3, <2>1
  <2>2. CASE cur # l
    BY <1>1, <1>2, <1>3, <2>2
  <2> QED BY <2>1, <2>2
<1> QED
  BY <1>3, WalkKept

\* A link is created from the callback: it is not the one of the loop.
LEMMA AddKept ==
    ASSUME IndInv, WalkIntact, Running, UNCHANGED <<callback, cur, walk>>,
           NEW l \in Link, NEW e, Add(l, e)
    PROVE  WalkIntact'
<1>1. link' = [link EXCEPT ![l] = e] /\ l # cur /\ link \in [Link -> LinkRecord]
  BY IndInvByLink DEF Add
<1>2. Walking => cur \in Link
  BY IndInvByLink DEF CallbackOK, Walking
<1>3. Walking => link'[cur] = link[cur]
  BY <1>1, <1>2
<1> QED
  BY <1>3, WalkKept

\* The calls of the application
LEMMA AppWalk ==
    ASSUME IndInv, WalkIntact, App
    PROVE  WalkIntact'
<1>1. \A l \in Link : RecordOK(link[l])
  BY IndInvByLink
<1>2. ASSUME NEW p \in Peer, NEW pd \in Protocol, OpenByIpui(p, pd)
      PROVE  WalkIntact'
  <2>1. Running /\ UNCHANGED <<callback, cur, walk>>
    BY <1>2 DEF OpenByIpui, AppMayRun, InCallback
  <2>2. PICK l \in Link : \E tv \in 0 .. MaxTv[pd] - 1 :
          \/ SetLink(l, Sent(Opened(link[l], [pd |-> pd, tv |-> tv, role |-> "I"])))
          \/ \E e : Add(l, e)
    BY <1>2 DEF OpenByIpui
  <2>3. PICK tv \in 0 .. MaxTv[pd] - 1 :
          \/ SetLink(l, Sent(Opened(link[l], [pd |-> pd, tv |-> tv, role |-> "I"])))
          \/ \E e : Add(l, e)
    BY <2>2
  <2>4. [pd |-> pd, tv |-> tv, role |-> "I"] \in Transaction
    BY TransactionType DEF Role
  <2> QED BY <1>1, <2>1, <2>3, <2>4, ReleasedSent, SetKept, AddKept
<1>3. ASSUME NEW p \in Peer, SendConnectionless(p)
      PROVE  WalkIntact'
  <2>1. Running /\ UNCHANGED <<callback, cur, walk>>
    BY <1>3 DEF SendConnectionless, AppMayRun, InCallback
  <2>2. PICK l \in Link : SetLink(l, Accepted(link[l])) \/ \E e : Add(l, e)
    BY <1>3 DEF SendConnectionless
  <2>3. link[l].state = "RELEASED" => Accepted(link[l]).state \in Crashed
    <3>1. link[l].state = "RELEASED" => link[l].state \notin Usable /\ link[l].sdu # "sdu"
      BY <1>1 DEF Usable, RecordOK
    <3> QED BY <1>1, <3>1, EvolvesAccepted
  <2> QED BY <2>1, <2>2, <2>3, SetKept, AddKept
<1>4. ASSUME NEW p \in Peer, EstablishReq(p)
      PROVE  WalkIntact'
  <2>1. Running /\ UNCHANGED <<callback, cur, walk>>
    BY <1>4 DEF EstablishReq, AppMayRun, InCallback
  <2>2. PICK l \in Link : Add(l, Establishing(p))
    BY <1>4 DEF EstablishReq
  <2> QED BY <2>1, <2>2, AddKept
<1>5. ASSUME NEW l \in Link, OpenOnLink(l)
      PROVE  WalkIntact'
  <2>1. Running /\ UNCHANGED <<callback, cur, walk>> /\ link[l].state # "RELEASED"
    BY <1>5 DEF OpenOnLink, AppMayRun, InCallback
  <2>2. \E e : SetLink(l, e)
    BY <1>5 DEF OpenOnLink
  <2> QED BY <2>1, <2>2, SetKept
<1>6. ASSUME NEW l \in Link, NEW i \in 1 .. MaxTrans, Request(l, i) \/ RequestClose(l, i)
      PROVE  WalkIntact'
  <2>1. Running /\ UNCHANGED <<callback, cur, walk>>
    BY <1>6 DEF Request, RequestClose, AppMayRun, InCallback
  <2>2. PICK e : SetLink(l, e) /\ (Sent(link[l]).state \in Crashed => e = Sent(link[l]))
    BY <1>6 DEF Request, RequestClose
  <2>3. link[l].state = "RELEASED" => e.state \in Crashed
    BY <1>1, <2>2, ReleasedSent
  <2> QED BY <2>1, <2>2, <2>3, SetKept
<1>7. ASSUME NEW l \in Link, NEW i \in 1 .. MaxTrans, TimeoutClose(l, i)
      PROVE  WalkIntact'
  BY <1>7 DEF TimeoutClose, NoCallback, InCallback, WalkIntact
<1> QED
  BY <1>2, <1>3, <1>4, <1>5, <1>6, <1>7 DEF App

\* The loop begins with the link released and its transactions as they were.
LEMMA BeginWalkIntact ==
    ASSUME NEW l \in Link, link[l] \in LinkRecord, link \in [Link -> LinkRecord],
           link[l].trans # <<>>, NEW why, BeginWalk(why, l),
           link' = [link EXCEPT ![l] = Shutdown(link[l])]
    PROVE  WalkIntact'
<1> DEFINE d == link[l]
           e == [d EXCEPT !.state = "RELEASED"]
<1>1. e.state = "RELEASED" /\ e.trans = d.trans
  BY DEF LinkRecord
<1>2. Shutdown(d) = e
  BY <1>1 DEF Shutdown
<1> HIDE DEF e
<1>3. link'[l] = e /\ cur' = l /\ walk' = Saved(d.trans, 1)
  BY <1>2 DEF BeginWalk
<1> QED
  BY <1>1, <1>3 DEF WalkIntact

\* Between callbacks there is no loop; an error of the socket, a failed connection
\* and the last page begin one.
LEMMA EventWalk ==
    ASSUME IndInv, Network \/ Timer \/ PageFailed
    PROVE  WalkIntact'
<1>1. link \in [Link -> LinkRecord]
  BY IndInvByLink
<1>2. CASE callback' \notin {"shutdown", "shutdown_read"}
  BY <1>2 DEF WalkIntact
<1>3. CASE callback' \in {"shutdown", "shutdown_read"}
  <2>1. CASE PageFailed
    <3>1. cur \in Link
      BY <2>1, IndInvByLink DEF PageFailed, CallbackOK
    <3>2. /\ link[cur].trans # <<>> /\ BeginWalk("shutdown", cur)
          /\ link' = [link EXCEPT ![cur] = Shutdown(link[cur])]
      BY <1>3, <2>1 DEF PageFailed, Return, SetLink, Update
    <3> QED BY <1>1, <3>1, <3>2, BeginWalkIntact
  <2>2. ASSUME NEW l \in Link, ConnectFailed(l) \/ RcvError(l)
        PROVE  WalkIntact'
    <3>1. /\ link[l].trans # <<>> /\ (BeginWalk("shutdown", l) \/ BeginWalk("shutdown_read", l))
          /\ link' = [link EXCEPT ![l] = Shutdown(link[l])]
      BY <1>3, <2>2 DEF ConnectFailed, RcvError, NoCallback, InCallback, SetLink, Update
    <3> QED BY <1>1, <2>2, <3>1, BeginWalkIntact
  <2>3. CASE Timer
    BY <1>3, <2>3 DEF Timer, SduTimeout, PartialReleaseTimeout, ReleaseTimeout, PageTimeout,
       NoCallback, InCallback, CallBack
  <2>4. ASSUME NEW l \in Link,
               \/ Accept(l) \/ ConnectDone(l) \/ ReleaseComplete(l)
               \/ \E p \in Peer : PageResponse(l, p) \/ UnexpectedPageResponse(l, p) \/ RcvPage(p)
        PROVE  FALSE
    BY <1>3, <2>4 DEF Accept, ConnectDone, ReleaseComplete, PageResponse, UnexpectedPageResponse,
       RcvPage, Readable, NoCallback, InCallback, CallBack
  <2>5. ASSUME NEW l \in Link, NEW pd \in Protocol \cup {"LCE"}, NEW role \in Role,
               NEW tv \in 0 .. MaxTv[pd] - 1, Rcv(l, pd, tv, role)
        PROVE  FALSE
    BY <1>3, <2>5 DEF Rcv, Readable, NoCallback, InCallback
  <2>6. ASSUME NEW p \in Peer, RcvPage(p)
        PROVE  FALSE
    BY <1>3, <2>6 DEF RcvPage, NoCallback, InCallback
  <2> QED BY <2>1, <2>2, <2>3, <2>4, <2>5, <2>6 DEF Network
<1> QED
  BY <1>2, <1>3

\* Closing the first of at least two transactions of a released link leaves the
\* others, and the link released.
LEMMA ReleasedClose ==
    ASSUME NEW d, RecordOK(d), d.state = "RELEASED", NEW mode,
           1 < Len(d.trans), NEW e \in CloseOutcomes(d, 1, mode)
    PROVE  /\ e.state = "RELEASED" /\ e.trans \in Seq(Transaction) /\ e.trans # <<>>
           /\ e.trans[1] = d.trans[2]
<1> DEFINE s == RemoveAt(d.trans, 1)
           r == [d EXCEPT !.trans = s]
<1>1. d \in LinkRecord /\ d.trans \in Seq(Transaction) /\ 1 \in DOMAIN d.trans
  BY DEF RecordOK, LinkRecord
<1>2. s \in Seq(Transaction)
  BY <1>1, RemoveAtType
<1>3. s[1] = d.trans[2] /\ s # <<>>
  <2>1. s = SubSeq(d.trans, 1, 0) \o SubSeq(d.trans, 2, Len(d.trans))
    BY DEF RemoveAt
  <2> QED BY <1>1, <2>1
<1> HIDE DEF s
<1>4. r \in LinkRecord /\ r.state = "RELEASED" /\ r.trans = s
  BY <1>1, <1>2 DEF LinkRecord
<1>5. PartialReleased(r).state = "RELEASED" /\ PartialReleased(r).trans = s
  BY <1>4 DEF PartialReleased, LinkRecord
<1>6. e \in {r, PartialReleased(r)}
  BY <1>3, <1>4, Zenon DEF CloseOutcomes, s
<1> QED
  BY <1>2, <1>3, <1>4, <1>5, <1>6

\* A turn of the loop: the transaction is the first one, and so is the next.
LEMMA ShutdownNextWalk ==
    ASSUME IndInv, WalkIntact, ShutdownNext
    PROVE  WalkIntact'
<1> DEFINE s == link[cur].trans
<1>1. cur \in Link /\ RecordOK(link[cur]) /\ link \in [Link -> LinkRecord]
  BY IndInvByLink DEF ShutdownNext, CallbackOK
<1>2. link[cur].state = "RELEASED" /\ s # <<>> /\ walk = Saved(s, 1)
  BY DEF ShutdownNext, WalkIntact
<1>3. s \in Seq(Transaction) /\ 1 \in DOMAIN s
  BY <1>1, <1>2, EmptySeq DEF RecordOK, LinkRecord
<1>4. walk[1] = s[1] /\ (Len(walk) = 2 => 1 < Len(s) /\ walk[2] = s[2])
  BY <1>2, <1>3 DEF Saved
<1>5. CASE Return
  BY <1>5 DEF Return, WalkIntact
<1>6. ASSUME NEW i \in DOMAIN s, NEW d \in CloseOutcomes(link[cur], i, ShutdownMode(s[i].pd)),
             IsAt(i, s, walk[1]), Len(walk) = 2, SetLink(cur, d), UNCHANGED <<callback, cur>>,
             NEW j \in DOMAIN d.trans, IsAt(j, d.trans, walk[2]), walk' = Saved(d.trans, j)
      PROVE  WalkIntact'
  <2>1. i = 1
    BY <1>3, <1>4, <1>6 DEF IsAt
  <2>2. /\ d.state = "RELEASED" /\ d.trans \in Seq(Transaction) /\ d.trans # <<>>
        /\ d.trans[1] = s[2]
    BY <1>1, <1>2, <1>4, <1>6, <2>1, ReleasedClose
  <2>3. j = 1
    BY <1>4, <1>6, <2>2 DEF IsAt
  <2>4. link'[cur] = d
    BY <1>1, <1>6 DEF SetLink, Update
  <2> QED BY <1>6, <2>2, <2>3, <2>4 DEF WalkIntact
<1>7. \/ Return
      \/ \E i \in DOMAIN s : \E d \in CloseOutcomes(link[cur], i, ShutdownMode(s[i].pd)) :
           /\ IsAt(i, s, walk[1]) /\ Len(walk) = 2 /\ SetLink(cur, d) /\ UNCHANGED <<callback, cur>>
           /\ \E j \in DOMAIN d.trans : IsAt(j, d.trans, walk[2]) /\ walk' = Saved(d.trans, j)
  BY Zenon DEF ShutdownNext, WalkBreaks
<1> QED
  BY <1>5, <1>6, <1>7

\* While dect_ddl_shutdown waits for the application, which may open, send on and
\* close transactions of any link, the transaction it works on stays the first of the
\* list and the one it has saved stays behind it.  (The shutdown of an MM transaction,
\* which is not a call of the application, is in MobilityManagement.)
THEOREM WalkIntactCorrect == Spec => []WalkIntact
<1>1. Init => WalkIntact
  BY DEF Init, WalkIntact
<1>2. IndInv /\ WalkIntact /\ [Next]_vars => WalkIntact'
  <2>1. UNCHANGED vars /\ WalkIntact => WalkIntact'
    BY DEF vars, WalkIntact, Running
  <2>2. ASSUME IndInv, WalkIntact, Next
        PROVE  WalkIntact'
    <3>1. CASE DrainQueue \/ IndirectDone
      BY <3>1 DEF DrainQueue, IndirectDone, Return, WalkIntact
    <3> QED BY <2>2, <3>1, AppWalk, EventWalk, ShutdownNextWalk DEF Next, Continue
  <2> QED BY <2>1, <2>2
<1> QED
  BY <1>1, <1>2, Invariance, PTL DEF Spec

-----------------------------------------------------------------------------
(***************************************************************************)
(* Part 2: the Link Control Entity of a fixed part provides the service of *)
(* LinkService, for every set of links and peers, every choice of paged    *)
(* peers and every bound: ServiceProvided.                                 *)
(*                                                                         *)
(* The invariant of part 1 says what every link record looks like before   *)
(* and after a step.  What is left to show is how far one handler can take *)
(* a link: Serves(d, e) speaks of the phase of the link and the number of  *)
(* its messages only.  Since a fixed part never has a page transaction     *)
(* (Owned), the end of a READ event does not touch another link, and a     *)
(* step changes one link, except when one link takes the place of another. *)
(***************************************************************************)

\* What the theorem is about, and what the run with paging instantiates: a fixed
\* part whose application does not send from inside DL_ESTABLISH-cfm.
FixedPart == Mode = "FP" /\ ~ CfmSends

OwnTransaction == [pd : Protocol, tv : Nat, role : Role]

Own(d) == d.trans \in Seq(OwnTransaction)

\* No page transaction is on any link.
Owned == \A l \in Link : Own(link[l])

Over == {"FREE", "FREED"} \cup Crashed

Releasing == {"RELEASED", "RELEASE_PENDING"}

\* A handler that accepts no message: the link stays in its phase, its release
\* begins, or it is gone.
Quiet(d, e) ==
    /\ Own(d) => Own(e)
    /\ \/ e.state \in Over
       \/ e.state \in Releasing /\ d.state \in Usable \cup Releasing
       \/ e.state = d.state /\ e.nsent = d.nsent

\* A handler that accepts at most one
Serves(d, e) ==
    \/ Quiet(d, e)
    \/ /\ Own(d) => Own(e)
       /\ e.state = d.state /\ d.state \in Usable /\ e.nsent = d.nsent + 1

-----------------------------------------------------------------------------
(* Handlers of one link *)

\* Handlers in a row, of which one accepts a message
LEMMA QuietTransitive ==
    ASSUME NEW d, NEW e, NEW f
    PROVE  /\ Quiet(d, e) /\ Quiet(e, f) => Quiet(d, f)
           /\ Quiet(d, e) /\ Serves(e, f) => Serves(d, f)
           /\ Serves(d, e) /\ Quiet(e, f) => Serves(d, f)
<1>1. /\ \A s : s \in Over => s \notin Usable \cup Releasing
      /\ \A s : s \in Releasing => s \notin Usable
  BY DEF Over, Usable, Releasing, Crashed
<1> QED
  BY <1>1 DEF Quiet, Serves

\* No phase and no number of messages changes.
LEMMA QuietSame ==
    ASSUME NEW d, NEW e, e.state = d.state, e.nsent = d.nsent, Own(d) => Own(e)
    PROVE  Quiet(d, e) /\ Serves(d, e)
  BY DEF Quiet, Serves

\* The process dies, or the link is freed.
LEMMA QuietOver ==
    ASSUME NEW d
    PROVE  /\ \A why \in Crashed : Quiet(d, Crash(d, why))
           /\ \A x \in LinkRecord : Quiet(d, Freed(x)) /\ Quiet(d, Destroyed(x))
<1>1. <<>> \in Seq(OwnTransaction)
  OBVIOUS
<1>2. ASSUME NEW x, NEW why \in Crashed
      PROVE  Crash(x, why).state \in Over /\ Own(Crash(x, why))
  BY <1>1, <1>2, UnusedFields DEF Crash, LinkRecord, Own, Over
<1>3. ASSUME NEW x \in LinkRecord
      PROVE  Freed(x).state \in Over /\ Own(Freed(x))
  BY <1>1, <1>3, UnusedFields DEF Freed, LinkRecord, Own, Over
<1>4. ASSUME NEW x \in LinkRecord
      PROVE  Destroyed(x).state \in Over /\ Own(Destroyed(x))
  <2>1. "ASSERT_TRANSACTIONS" \in Crashed
    BY DEF Crashed
  <2> QED BY <1>2, <1>3, <2>1 DEF Destroyed
<1> QED
  BY <1>2, <1>3, <1>4 DEF Quiet

\* dect_ddl_release
LEMMA QuietRelease ==
    ASSUME NEW d \in LinkRecord, d.state \in Usable \cup Releasing,
           NEW e \in ReleaseOutcomes(d)
    PROVE  Quiet(d, e)
<1> DEFINE k == IF d.rel THEN d.leaked + 1 ELSE d.leaked
           r == [d EXCEPT !.state = "RELEASE_PENDING", !.rel = TRUE, !.leaked = k]
<1>1. r.state = "RELEASE_PENDING" /\ r.trans = d.trans
  <2> HIDE DEF k
  <2> QED BY DEF LinkRecord
<1>2. ReleaseOutcomes(d) = {Destroyed(d), r}
  BY Zenon DEF ReleaseOutcomes
<1> HIDE DEF r
<1> QED
  BY <1>1, <1>2, QuietOver DEF Quiet, Own, Releasing

\* The switch of dect_lce_send and dect_lce_send_cl
LEMMA ServesAccepted ==
    ASSUME NEW d \in LinkRecord
    PROVE  Serves(d, Accepted(d))
<1> DEFINE m == d.nsent + 1
<1>1. CASE d.state = "ESTABLISHED"
  <2> DEFINE e == [d EXCEPT !.nsent = m, !.tx = Append(d.tx, m)]
  <2>1. e.state = d.state /\ e.trans = d.trans /\ e.nsent = m
    BY DEF LinkRecord
  <2>2. Accepted(d) = e
    BY <1>1, Zenon DEF Accepted
  <2> QED BY <1>1, <2>1, <2>2 DEF Serves, Own, Usable
<1>2. CASE d.state = "ESTABLISH_PENDING"
  <2> DEFINE e == [d EXCEPT !.nsent = m, !.queue = Append(d.queue, m)]
  <2>1. e.state = d.state /\ e.trans = d.trans /\ e.nsent = m
    BY DEF LinkRecord
  <2>2. Accepted(d) = e
    BY <1>2 DEF Accepted
  <2> QED BY <1>2, <2>1, <2>2 DEF Serves, Own, Usable
<1>3. CASE d.state \notin Usable
  <2>1. Accepted(d) = Crash(d, "BUG_SEND") /\ "BUG_SEND" \in Crashed
    BY <1>3 DEF Accepted, Usable, Crashed
  <2> QED BY <2>1, QuietOver DEF Serves
<1> QED
  BY <1>1, <1>2, <1>3 DEF Usable

\* Stopping LCE.05 or LCE.02, dect_ddl_partial_release and dect_ddl_set_ipui
LEMMA QuietAssignments ==
    ASSUME NEW d \in LinkRecord
    PROVE  /\ Quiet(d, SduStopped(d)) /\ Quiet(d, PartialReleased(d))
           /\ \A p : Quiet(d, Identified(d, p))
<1>1. SduStopped(d).state = d.state /\ SduStopped(d).nsent = d.nsent
        /\ SduStopped(d).trans = d.trans
  BY DEF SduStopped, LinkRecord
<1>2. PartialReleased(d).state = d.state /\ PartialReleased(d).nsent = d.nsent
        /\ PartialReleased(d).trans = d.trans
  BY DEF PartialReleased, LinkRecord
<1>3. ASSUME NEW p
      PROVE  Identified(d, p).state = d.state /\ Identified(d, p).nsent = d.nsent
               /\ Identified(d, p).trans = d.trans
  BY DEF Identified, LinkRecord
<1> QED
  BY <1>1, <1>2, <1>3 DEF Quiet, Own

\* dect_lce_send
LEMMA ServesSent ==
    ASSUME NEW d, RecordOK(d)
    PROVE  Serves(d, Sent(d))
<1>1. d \in LinkRecord /\ SduStopped(d) \in LinkRecord
  BY EvolvesSduStopped DEF Evolves, RecordOK
<1> QED
  BY <1>1, QuietAssignments, ServesAccepted, QuietTransitive DEF Sent

\* A transaction of one of the protocols is opened.
LEMMA QuietOpened ==
    ASSUME NEW d \in LinkRecord, NEW t \in OwnTransaction
    PROVE  Quiet(d, Opened(d, t))
<1> DEFINE s == Linked(d.trans, t)
           e == [d EXCEPT !.trans = s]
<1>1. Own(d) => s \in Seq(OwnTransaction)
  BY LinkedType DEF Own
<1>2. e.state = d.state /\ e.nsent = d.nsent /\ e.trans = s
  <2> HIDE DEF s
  <2> QED BY DEF LinkRecord
<1>3. Opened(d, t) = e
  BY Zenon DEF Opened
<1> HIDE DEF s, e
<1> QED
  BY <1>1, <1>2, <1>3, QuietSame DEF Own

\* ... and its first message sent.
LEMMA ServesOpenedSent ==
    ASSUME NEW d, RecordOK(d), d.sdu # "sdu", Live(d), d.state \notin Crashed,
           NEW t \in OwnTransaction, t \in Transaction
    PROVE  Serves(d, Sent(Opened(d, t)))
<1>1. RecordOK(Opened(d, t)) /\ d \in LinkRecord
  BY EvolvesOpened DEF Evolves, RecordOK
<1> QED
  BY <1>1, QuietOpened, ServesSent, QuietTransitive

\* dect_transaction_close
LEMMA QuietClose ==
    ASSUME NEW d, RecordOK(d), NEW i \in DOMAIN d.trans, NEW mode,
           NEW f \in CloseOutcomes(d, i, mode)
    PROVE  Quiet(d, f)
<1> DEFINE s == RemoveAt(d.trans, i)
           e == [d EXCEPT !.trans = s]
<1>1. d \in LinkRecord /\ d.trans \in Seq(Transaction) /\ d.trans # <<>>
  BY DEF RecordOK, LinkRecord
<1>2. s \in Seq(Transaction) /\ (Own(d) => s \in Seq(OwnTransaction))
  BY <1>1, RemoveAtType DEF Own
<1>3. e \in LinkRecord /\ e.state = d.state /\ e.nsent = d.nsent /\ e.trans = s
  <2> HIDE DEF s
  <2> QED BY <1>1, <1>2 DEF LinkRecord
<1>4. d.state \in Usable \cup Releasing
  BY <1>1 DEF RecordOK, Vacant, LinkRecord, LinkState, Releasing
<1>5. f \in {e, Destroyed(e), PartialReleased(e)} \/ f \in ReleaseOutcomes(e)
  BY Zenon DEF CloseOutcomes
<1> HIDE DEF s, e
<1>6. Quiet(d, e)
  BY <1>2, <1>3, QuietSame DEF Own
<1>7. Quiet(e, e) /\ Quiet(e, Destroyed(e)) /\ Quiet(e, PartialReleased(e))
  BY <1>3, QuietSame, QuietOver, QuietAssignments
<1>8. f \in ReleaseOutcomes(e) => Quiet(e, f)
  BY <1>3, <1>4, QuietRelease
<1> QED
  BY <1>5, <1>6, <1>7, <1>8, QuietTransitive

\* The same with the mode of the protocol
LEMMA QuietOwnClose ==
    ASSUME NEW d, RecordOK(d), NEW i \in DOMAIN d.trans, NEW f \in OwnClose(d, i)
    PROVE  Quiet(d, f)
  BY QuietClose DEF OwnClose

\* A last message is sent and its transaction closed.
LEMMA ServesSentClosed ==
    ASSUME NEW d, RecordOK(d), NEW i \in DOMAIN d.trans,
           Sent(d).state \notin Crashed, NEW f \in OwnClose(Sent(d), i)
    PROVE  Serves(d, f)
<1>1. RecordOK(Sent(d)) /\ Sent(d).trans = d.trans
  BY EvolvesSent DEF Evolves
<1>2. Quiet(Sent(d), f)
  BY <1>1, QuietOwnClose
<1> QED
  BY <1>2, ServesSent, QuietTransitive

\* dect_ddl_shutdown
LEMMA QuietShutdown ==
    ASSUME NEW d \in LinkRecord, d.state \in Usable \cup Releasing
    PROVE  Quiet(d, Shutdown(d))
<1> DEFINE e == [d EXCEPT !.state = "RELEASED"]
<1>1. e \in LinkRecord /\ e.state = "RELEASED" /\ e.trans = d.trans
  BY DEF LinkRecord, LinkState
<1>2. Shutdown(d) = Destroyed(e) \/ Shutdown(d) = e
  BY Zenon DEF Shutdown
<1> HIDE DEF e
<1> QED
  BY <1>1, <1>2, QuietOver DEF Quiet, Own, Releasing

\* dect_lce_send_page_reject and dect_ddl_release
LEMMA ServesRejected ==
    ASSUME NEW d, RecordOK(d), NEW f \in Rejected(d)
    PROVE  Serves(d, f)
<1>1. RecordOK(Sent(d)) /\ Serves(d, Sent(d))
  BY EvolvesSent, ServesSent DEF Evolves
<1>2. CASE Sent(d).state \in Crashed
  BY <1>1, <1>2 DEF Rejected
<1>3. CASE Sent(d).state \notin Crashed
  <2>1. Sent(d).state \in Usable /\ f \in ReleaseOutcomes(Sent(d))
    BY <1>3, EvolvesSent DEF Rejected
  <2>2. Quiet(Sent(d), f)
    BY <1>1, <2>1, QuietRelease DEF RecordOK
  <2> QED BY <1>1, <2>2, QuietTransitive
<1> QED
  BY <1>2, <1>3

\* A message of an unknown transaction
LEMMA ServesRcvOpen ==
    ASSUME NEW d, RecordOK(d), d.state \in {"ESTABLISHED", "RELEASE_PENDING"},
           NEW t \in OwnTransaction, t \in Transaction, NEW p \in Peer,
           NEW f \in RcvOpen(d, t, p)
    PROVE  Serves(d, f)
<1> DEFINE s == SduStopped(d)
           o == Opened(s, t)
           n == Identified(o, p)
<1>1. RecordOK(s) /\ s.state = d.state /\ s.sdu = "off" /\ s \in LinkRecord /\ d \in LinkRecord
  BY EvolvesSduStopped DEF Evolves, RecordOK
<1>2. Live(s) /\ s.state \notin Crashed
  BY <1>1 DEF Live, Crashed
<1>3. RecordOK(o) /\ o \in LinkRecord
  BY <1>1, <1>2, EvolvesOpened DEF Evolves, RecordOK
<1>4. f \in {s, Identified(s, p), Sent(s), o, n}
  BY Zenon DEF RcvOpen
<1>5. Quiet(d, s) /\ Quiet(s, Identified(s, p))
  <2>1. Quiet(d, s)
    BY <1>1, QuietAssignments
  <2> HIDE DEF s
  <2> QED BY <1>1, <2>1, QuietAssignments
<1>6. Quiet(s, o)
  BY <1>1, QuietOpened
<1>7. Serves(s, Sent(s))
  BY <1>1, ServesSent
<1>8. Quiet(o, n)
  <2> HIDE DEF o
  <2> QED BY <1>3, QuietAssignments
<1> HIDE DEF s, o, n
<1> QED
  BY <1>4, <1>5, <1>6, <1>7, <1>8, QuietTransitive DEF Serves

\* A message of a known transaction
LEMMA ServesRcvKnown ==
    ASSUME NEW d, RecordOK(d), NEW i \in DOMAIN d.trans, NEW f \in RcvKnown(d, i)
    PROVE  Serves(d, f)
<1> DEFINE s == SduStopped(d)
<1>1. RecordOK(s) /\ s.trans = d.trans /\ d \in LinkRecord
  BY EvolvesSduStopped DEF Evolves, RecordOK
<1>2. Quiet(d, s)
  BY <1>1, QuietAssignments
<1>3. \/ f = s
      \/ f \in OwnClose(s, i)
      \/ f = Sent(s)
      \/ Sent(s).state \notin Crashed /\ f \in OwnClose(Sent(s), i)
  <2>1. \/ f \in {s}
        \/ f \in OwnClose(s, i)
        \/ f \in IF ~ CanSend(s) THEN {}
                  ELSE {Sent(s)} \cup (IF Sent(s).state \in Crashed THEN {}
                                       ELSE OwnClose(Sent(s), i))
    BY Zenon DEF RcvKnown
  <2> QED BY <2>1
<1> HIDE DEF s
<1>4. Serves(s, f) \/ f = s
  BY <1>1, <1>3, QuietOwnClose, ServesSent, ServesSentClosed DEF Serves
<1> QED
  BY <1>2, <1>4, QuietTransitive DEF Serves

-----------------------------------------------------------------------------
(* What the abstract specification sees of a link *)

\* ServedLink as a function of the record of the link and of whether its
\* establishment is just being told to the application
Seen(d, confirmed) ==
    IF d.state = "ESTABLISH_PENDING" \/ confirmed
    THEN [phase |-> "establishing", accepted |-> d.nsent, written |-> d.tx]
    ELSE IF d.state = "ESTABLISHED"
    THEN [phase |-> "up", accepted |-> d.nsent, written |-> d.tx]
    ELSE IF d.state \in Releasing
    THEN [phase |-> "leaving", accepted |-> 0, written |-> <<>>]
    ELSE [phase |-> "idle", accepted |-> 0, written |-> <<>>]

\* A record that IndInv allows outside DL_ESTABLISH-cfm: what is up is written.
Settled(d) == RecordOK(d) /\ (d.state = "ESTABLISHED" => d.tx = Ids(d.nsent))

\* What Seen says is what ServedLink says.
LEMMA SeenServed ==
    \A l : /\ ~ BeingConfirmed(l)  => ServedLink(l) = Seen(link[l], FALSE)
           /\ ~ BeingConfirmed(l)' => ServedLink(l)' = Seen(link'[l], FALSE)
           /\ BeingConfirmed(l)    => ServedLink(l) = Seen(link[l], TRUE)
           /\ BeingConfirmed(l)'   => ServedLink(l)' = Seen(link'[l], TRUE)
  BY DEF ServedLink, Seen, Releasing

\* The phases of settled links
LEMMA SeenPhase ==
    ASSUME NEW d, Settled(d)
    PROVE  /\ d.state = "ESTABLISH_PENDING" => Seen(d, FALSE) = Service!Establishing(d.nsent)
           /\ d.state = "ESTABLISHED" => Seen(d, FALSE) = Service!Up(d.nsent)
           /\ d.state \in Releasing => Seen(d, FALSE) = Service!Leaving
           /\ d.state \in Over => Seen(d, FALSE) = Service!Idle
<1>1. d.state \in Over => d.state \notin Usable \cup Releasing
  BY DEF Over, Usable, Releasing, Crashed
<1>2. Service!Leaving = [phase |-> "leaving", accepted |-> 0, written |-> <<>>]
  BY DEF Service!Leaving, Service!Idle
<1>3. d.state = "ESTABLISH_PENDING" => Seen(d, FALSE) = Service!Establishing(d.nsent)
  BY DEF Seen, Settled, RecordOK, Service!Establishing
<1>4. d.state = "ESTABLISHED" => Seen(d, FALSE) = Service!Up(d.nsent)
  BY DEF Seen, Settled, Ids, Service!Up, Service!UpTo
<1>5. d.state \in Releasing => Seen(d, FALSE) = Service!Leaving
  BY <1>2 DEF Seen, Releasing
<1>6. d.state \in Over => Seen(d, FALSE) = Service!Idle
  BY <1>1 DEF Seen, Service!Idle, Usable
<1> QED
  BY <1>3, <1>4, <1>5, <1>6

\* The invariant makes every link settled, but for the one being confirmed.
LEMMA AllSettled ==
    ASSUME IndInv, FixedPart, callback # "establish_cfm"
    PROVE  \A l \in Link : Settled(link[l]) /\ ~ BeingConfirmed(l)
<1>1. \A l \in Link : RecordOK(link[l]) /\ Drained(l)
  BY IndInvByLink
<1> QED
  BY <1>1 DEF Settled, Drained, FixedPart, BeingConfirmed

\* The same in the next state
LEMMA AllSettledNext ==
    ASSUME IndInv', FixedPart, callback' # "establish_cfm"
    PROVE  \A l \in Link : Settled(link'[l]) /\ ~ BeingConfirmed(l)'
<1>1. link' \in [Link -> LinkRecord]
  BY DEF IndInv, TypeOK
<1>2. ASSUME NEW l \in Link
      PROVE  RecordOK(link'[l]) /\ (link'[l].state = "ESTABLISHED" => link'[l].tx = Ids(link'[l].nsent))
  <2>1. RecordOK(link'[l])
    BY <1>1 DEF IndInv, SduTimeoutSafe, NothingStuck, WayOut, InOrder, RecordOK
  <2>2. link'[l].state = "ESTABLISHED" => link'[l].tx = Ids(link'[l].nsent)
    BY DEF IndInv, InOrder, FixedPart
  <2> QED BY <2>1, <2>2
<1> QED
  BY <1>2 DEF Settled, BeingConfirmed

-----------------------------------------------------------------------------
(* Steps of the abstract specification *)

\* One link is seen to change.
LEMMA ServedBecomes ==
    ASSUME NEW l \in Link, NEW s, ServedLink(l)' = s, Running, Running',
           \A k \in Link \ {l} : ServedLink(k)' = ServedLink(k)
    PROVE  Service!Becomes(l, s)
<1>1. [k \in Link |-> ServedLink(k)]' = [[k \in Link |-> ServedLink(k)] EXCEPT ![l] = s]
  OBVIOUS
<1>2. Running' = Running
  BY DEF Running
<1> QED
  BY <1>1, <1>2 DEF Service!Becomes

\* Nothing is seen to change.
LEMMA ServedUnchanged ==
    ASSUME Running, Running', \A k \in Link : ServedLink(k)' = ServedLink(k)
    PROVE  UNCHANGED Service!vars
<1>1. Running' = Running
  BY DEF Running
<1> QED
  BY <1>1 DEF Service!vars

\* The process dies in the work on a link.
LEMMA ServedDies ==
    ASSUME NEW l \in Link, ServedLink(l)' = Service!Idle, Running, ~ Running',
           \A k \in Link \ {l} : ServedLink(k)' = ServedLink(k)
    PROVE  Service!Next
<1>1. [k \in Link |-> ServedLink(k)]'
        = [[k \in Link |-> ServedLink(k)] EXCEPT ![l] = Service!Idle]
  OBVIOUS
<1>2. Service!Die(l)
  BY <1>1 DEF Service!Die
<1> QED
  BY <1>2 DEF Service!Next

\* The next state serves its links, without a page transaction.
Provided == Owned' /\ (Service!Next \/ UNCHANGED Service!vars)

\* A handler works on one link.
LEMMA OneServes ==
    ASSUME IndInv, IndInv', FixedPart, Owned, Running, NEW l \in Link,
           Serves(link[l], link'[l]), \A k \in Link \ {l} : link'[k] = link[k],
           callback # "establish_cfm", callback' # "establish_cfm"
    PROVE  Provided
<1> DEFINE d == link[l]
           e == link'[l]
<1>1. /\ \A k \in Link : Settled(link[k]) /\ ~ BeingConfirmed(k)
      /\ \A k \in Link : Settled(link'[k]) /\ ~ BeingConfirmed(k)'
  BY AllSettled, AllSettledNext
<1>2. \A k \in Link : ServedLink(k) = Seen(link[k], FALSE)
                        /\ ServedLink(k)' = Seen(link'[k], FALSE)
  BY <1>1, SeenServed
<1>3. \A k \in Link \ {l} : ServedLink(k)' = ServedLink(k)
  BY <1>2
<1>4. Owned'
  BY DEF Owned, Serves, Quiet
<1>5. d.state \notin Crashed /\ d \in LinkRecord /\ d.nsent \in Nat
  BY <1>1 DEF Running, Settled, RecordOK, LinkRecord
<1>6. (Running' <=> e.state \notin Crashed)
  BY DEF Running
<1>7. CASE e.state \in Crashed
  <2>1. ServedLink(l)' = Service!Idle
    BY <1>1, <1>2, <1>7, SeenPhase DEF Over
  <2> QED BY <1>3, <1>4, <1>6, <1>7, <2>1, ServedDies DEF Provided
<1>8. CASE ServedLink(l)' = ServedLink(l) /\ e.state \notin Crashed
  BY <1>3, <1>4, <1>6, <1>8, ServedUnchanged DEF Provided
<1>9. CASE e.state \in {"FREE", "FREED"} /\ ServedLink(l)' # ServedLink(l)
  <2>1. e.state \in Over /\ Running'
    BY <1>6, <1>9 DEF Over, Crashed
  <2>2. ServedLink(l)' = Service!Idle
    BY <1>1, <1>2, <2>1, SeenPhase
  <2>3. d.state \in Usable \cup Releasing
    BY <1>1, <1>2, <1>5, <1>9, <2>2, SeenPhase DEF LinkRecord, LinkState, Releasing, Over
  <2>4. ServedLink(l).phase # "idle"
    BY <1>2, <2>3 DEF Seen, Usable
  <2>5. Service!Gone(l)
    BY <1>3, <2>1, <2>2, <2>4, ServedBecomes DEF Service!Gone
  <2> QED BY <1>4, <2>5 DEF Service!Next, Provided
<1>10. CASE e.state \in Releasing /\ ServedLink(l)' # ServedLink(l)
  <2>1. Running'
    BY <1>6, <1>10 DEF Releasing, Crashed
  <2>2. ServedLink(l)' = Service!Leaving
    BY <1>1, <1>2, <1>10, SeenPhase
  <2>3. d.state \in Usable
    <3>1. d.state \in Usable \cup Releasing
      BY <1>10 DEF Serves, Quiet, Releasing, Usable, Over, Crashed
    <3>2. d.state \notin Releasing
      BY <1>1, <1>2, <1>10, <2>2, SeenPhase
    <3> QED BY <3>1, <3>2
  <2>4. ServedLink(l).phase \in {"establishing", "up"}
    BY <1>2, <2>3 DEF Seen, Usable
  <2>5. Service!Release(l)
    BY <1>3, <2>1, <2>2, <2>4, ServedBecomes DEF Service!Release
  <2> QED BY <1>4, <2>5 DEF Service!Next, Provided
<1>11. CASE e.state \in Usable /\ ServedLink(l)' # ServedLink(l)
  <2>1. Running' /\ e.state \notin Over /\ e.state \notin Releasing
    BY <1>6, <1>11 DEF Usable, Crashed, Over, Releasing
  <2>2. e.state = d.state /\ (e.nsent = d.nsent \/ e.nsent = d.nsent + 1)
    BY <2>1 DEF Serves, Quiet
  <2>3. CASE d.state = "ESTABLISH_PENDING"
    <3>1. ServedLink(l) = Service!Establishing(d.nsent)
            /\ ServedLink(l)' = Service!Establishing(e.nsent)
      BY <1>1, <1>2, <2>2, <2>3, SeenPhase
    <3>2. e.nsent = d.nsent + 1
      BY <1>11, <2>2, <3>1
    <3>3. ServedLink(l).accepted = d.nsent /\ ServedLink(l).phase = "establishing"
      BY <3>1 DEF Service!Establishing
    <3>4. Service!Becomes(l, Service!Establishing(ServedLink(l).accepted + 1))
      BY <1>3, <2>1, <3>1, <3>2, <3>3, ServedBecomes
    <3>5. Service!Send(l)
      BY <3>3, <3>4 DEF Service!Send
    <3> QED BY <1>4, <3>5 DEF Service!Next, Provided
  <2>4. CASE d.state = "ESTABLISHED"
    <3>1. ServedLink(l) = Service!Up(d.nsent) /\ ServedLink(l)' = Service!Up(e.nsent)
      BY <1>1, <1>2, <2>2, <2>4, SeenPhase
    <3>2. e.nsent = d.nsent + 1
      BY <1>11, <2>2, <3>1
    <3>3. ServedLink(l).accepted = d.nsent /\ ServedLink(l).phase = "up"
      BY <3>1 DEF Service!Up
    <3>4. Service!Becomes(l, Service!Up(ServedLink(l).accepted + 1))
      BY <1>3, <2>1, <3>1, <3>2, <3>3, ServedBecomes
    <3>5. Service!Send(l)
      BY <3>3, <3>4 DEF Service!Send
    <3> QED BY <1>4, <3>5 DEF Service!Next, Provided
  <2> QED BY <1>11, <2>2, <2>3, <2>4 DEF Usable
<1>12. e.state \in {"FREE", "FREED"} \cup Crashed \cup Releasing \cup Usable
  BY <1>1 DEF Settled, RecordOK, LinkRecord, LinkState, Releasing
<1> QED
  BY <1>7, <1>8, <1>9, <1>10, <1>11, <1>12

\* The same for a handler in an action that sets one link
LEMMA SetServes ==
    ASSUME IndInv, IndInv', FixedPart, Owned, Running, NEW l \in Link,
           NEW e, Serves(link[l], e), link' = [link EXCEPT ![l] = e],
           callback # "establish_cfm", callback' # "establish_cfm"
    PROVE  Provided
<1>1. link \in [Link -> LinkRecord]
  BY IndInvByLink
<1>2. link'[l] = e /\ \A k \in Link \ {l} : link'[k] = link[k]
  BY <1>1
<1> QED
  BY <1>2, OneServes

\* ... and in a READ event, after which there is no page transaction to close.
LEMMA ReadServes ==
    ASSUME IndInv, IndInv', FixedPart, Owned, Running, NEW l \in Link,
           NEW e, Serves(link[l], e), Read(l, e),
           callback # "establish_cfm", callback' # "establish_cfm"
    PROVE  Provided
<1> DEFINE lk == [link EXCEPT ![l] = e]
<1>1. link \in [Link -> LinkRecord]
  BY IndInvByLink
<1>2. \A k \in Link : Own(lk[k])
  BY <1>1 DEF Owned, Serves, Quiet
<1>3. link' \in AfterRead(lk)
  BY DEF Read, Update
<1> HIDE DEF lk
<1>4. PageTransactions(lk) = {}
  <2>1. ASSUME NEW x \in PageTransactions(lk) PROVE FALSE
    <3>1. x[1] \in Link /\ x[2] \in DOMAIN lk[x[1]].trans /\ lk[x[1]].trans[x[2]].pd = "LCE"
      BY DEF PageTransactions
    <3>2. lk[x[1]].trans[x[2]] \in OwnTransaction
      BY <1>2, <3>1 DEF Own
    <3>3. "LCE" \in Protocol
      BY <3>1, <3>2 DEF OwnTransaction
    <3> QED BY <3>3, DataLinkAssumption
  <2> QED BY <2>1
<1>5. link' = lk
  BY <1>3, <1>4 DEF AfterRead
<1> QED
  BY <1>5, SetServes DEF lk

\* A new link is seen as asked for, or as opened by a portable.
LEMMA AddServes ==
    ASSUME IndInv, IndInv', FixedPart, Owned, Running, NEW l \in Link, NEW e, Add(l, e),
           UNCHANGED callback, callback # "establish_cfm", Own(e),
           \/ e.state \in Crashed
           \/ e.state = "ESTABLISH_PENDING" /\ e.nsent \in {0, 1}
           \/ e.state = "ESTABLISHED" /\ e.nsent = 0
    PROVE  Provided
<1>1. link \in [Link -> LinkRecord]
  BY IndInvByLink
<1>2. /\ \A k \in Link : Settled(link[k]) /\ ~ BeingConfirmed(k)
      /\ \A k \in Link : Settled(link'[k]) /\ ~ BeingConfirmed(k)'
  BY AllSettled, AllSettledNext
<1>3. \A k \in Link : ServedLink(k) = Seen(link[k], FALSE)
                        /\ ServedLink(k)' = Seen(link'[k], FALSE)
  BY <1>2, SeenServed
<1>4. link[l].state = "FREE" /\ link'[l] = e /\ \A k \in Link \ {l} : link'[k] = link[k]
  BY <1>1 DEF Add
<1>5. Owned'
  BY <1>4 DEF Owned
<1>6. \A k \in Link \ {l} : ServedLink(k)' = ServedLink(k)
  BY <1>3, <1>4
<1>7. Running' <=> e.state \notin Crashed
  BY <1>4 DEF Running
<1>8. ServedLink(l) = Service!Idle
  BY <1>2, <1>3, <1>4, SeenPhase DEF Over
<1>9. CASE e.state \in Crashed
  <2>1. ServedLink(l)' = Service!Idle
    BY <1>2, <1>3, <1>4, <1>9, SeenPhase DEF Over
  <2> QED BY <1>5, <1>6, <1>7, <1>9, <2>1, ServedDies DEF Provided
<1>10. CASE e.state = "ESTABLISH_PENDING" /\ e.nsent \in {0, 1}
  <2>1. Running'
    BY <1>7, <1>10 DEF Crashed
  <2>2. ServedLink(l)' = Service!Establishing(e.nsent)
    BY <1>2, <1>3, <1>4, <1>10, SeenPhase
  <2>3. Service!Becomes(l, Service!Establishing(e.nsent))
    BY <1>6, <2>1, <2>2, ServedBecomes
  <2>4. e.nsent \in 0 .. 1
    BY <1>10
  <2>5. Service!Establish(l)
    BY <1>8, <2>3, <2>4 DEF Service!Establish
  <2> QED BY <1>5, <2>5 DEF Service!Next, Provided
<1>11. CASE e.state = "ESTABLISHED" /\ e.nsent = 0
  <2>1. Running'
    BY <1>7, <1>11 DEF Crashed
  <2>2. ServedLink(l)' = Service!Up(0)
    BY <1>2, <1>3, <1>4, <1>11, SeenPhase
  <2>3. Service!Becomes(l, Service!Up(0))
    BY <1>6, <2>1, <2>2, ServedBecomes
  <2>4. Service!Accept(l)
    BY <1>8, <2>3 DEF Service!Accept
  <2> QED BY <1>5, <2>4 DEF Service!Next, Provided
<1> QED
  BY <1>9, <1>10, <1>11

-----------------------------------------------------------------------------
(* Actions *)

\* A transaction of a protocol, as the LCE allocates or receives it
LEMMA OwnTransactionType ==
    ASSUME NEW pd \in Protocol, NEW tv \in 0 .. MaxTv[pd] - 1, NEW role \in Role
    PROVE  /\ [pd |-> pd, tv |-> tv, role |-> role] \in OwnTransaction
           /\ [pd |-> pd, tv |-> tv, role |-> role] \in Transaction
<1>1. MaxTv[pd] \in Nat
  BY DataLinkAssumption
<1> QED
  BY <1>1, TransactionType DEF OwnTransaction

\* A link that is asked for has no message yet.
LEMMA EstablishingFields ==
    ASSUME NEW p \in Peer
    PROVE  /\ RecordOK(Establishing(p)) /\ Own(Establishing(p))
           /\ Establishing(p).state = "ESTABLISH_PENDING" /\ Establishing(p).sdu = "off"
           /\ Establishing(p).nsent = 0
<1>1. Establishing(p).trans = <<>> /\ Establishing(p).nsent = 0
  BY UnusedFields DEF Establishing, LinkRecord
<1> QED
  BY <1>1, EstablishingOK DEF Own

\* On a new link the first message is queued, or the process dies.
LEMMA FirstMessage ==
    ASSUME NEW d, NEW e, Own(d), d.state = "ESTABLISH_PENDING", d.nsent = 0,
           Serves(d, e), e.state \in {"ESTABLISH_PENDING"} \cup Crashed
    PROVE  /\ Own(e)
           /\ \/ e.state \in Crashed
              \/ e.state = "ESTABLISH_PENDING" /\ e.nsent \in {0, 1}
<1>1. "ESTABLISH_PENDING" \notin Over \cup Releasing
  BY DEF Over, Releasing, Crashed
<1> QED
  BY <1>1 DEF Serves, Quiet

\* MNCC_SETUP-req or MNSS_SETUP-req sends on a link, or asks for one with a first
\* message.
LEMMA OpenByIpuiServes ==
    ASSUME IndInv, IndInv', FixedPart, Owned,
           NEW p \in Peer, NEW pd \in Protocol, OpenByIpui(p, pd)
    PROVE  Provided
<1>1. UNCHANGED callback /\ callback # "establish_cfm" /\ Running
  BY DEF OpenByIpui, AppMayRun, InCallback, FixedPart
<1>2. \A k \in Link : RecordOK(link[k])
  BY IndInvByLink
<1>3. PICK l \in Link, tv \in 0 .. MaxTv[pd] - 1 :
        LET t == [pd |-> pd, tv |-> tv, role |-> "I"] IN
        \/ IsFirst(l, ByIpui(p)) /\ SetLink(l, Sent(Opened(link[l], t)))
        \/ Add(l, Sent(Opened(Establishing(p), t)))
  BY DEF OpenByIpui
<1> DEFINE t == [pd |-> pd, tv |-> tv, role |-> "I"]
<1>4. t \in OwnTransaction /\ t \in Transaction
  BY OwnTransactionType DEF Role
<1> HIDE DEF t
<1>5. CASE IsFirst(l, ByIpui(p)) /\ SetLink(l, Sent(Opened(link[l], t)))
  <2>1. Live(link[l]) /\ link[l].peer = p
    BY <1>5 DEF IsFirst, ByIpui
  <2>2. link[l].state \notin Crashed /\ link[l].sdu # "sdu"
    BY <1>1, <1>2, <2>1, DataLinkAssumption DEF Running, RecordOK
  <2>3. Serves(link[l], Sent(Opened(link[l], t)))
    BY <1>2, <1>4, <2>1, <2>2, ServesOpenedSent
  <2>4. link' = [link EXCEPT ![l] = Sent(Opened(link[l], t))]
    BY <1>5 DEF SetLink, Update
  <2> QED BY <1>1, <2>3, <2>4, SetServes
<1>6. CASE Add(l, Sent(Opened(Establishing(p), t)))
  <2> DEFINE d == Establishing(p)
             o == Opened(d, t)
             e == Sent(o)
  <2>1. RecordOK(d) /\ d.state = "ESTABLISH_PENDING" /\ d.nsent = 0 /\ Own(d) /\ d.sdu = "off"
    BY EstablishingFields
  <2>2. Live(d) /\ d.state \notin Crashed
    BY <2>1 DEF Live, Crashed
  <2>3. Serves(d, e)
    <3> HIDE DEF d
    <3> QED BY <1>4, <2>1, <2>2, ServesOpenedSent
  <2>4. RecordOK(o) /\ o.state = "ESTABLISH_PENDING"
    <3> HIDE DEF d
    <3> QED BY <1>4, <2>1, <2>2, EvolvesOpened DEF Evolves
  <2>5. e.state \in {"ESTABLISH_PENDING"} \cup Crashed
    <3> HIDE DEF o
    <3> QED BY <2>4, EvolvesSent
  <2> HIDE DEF d, o, e
  <2>6. Own(e) /\ (e.state \in Crashed \/ (e.state = "ESTABLISH_PENDING" /\ e.nsent \in {0, 1}))
    BY <2>1, <2>3, <2>5, FirstMessage
  <2>7. Add(l, e)
    BY <1>6 DEF e, o, d
  <2> QED BY <1>1, <2>6, <2>7, AddServes
<1> QED
  BY <1>3, <1>5, <1>6 DEF t

\* The first message of an MM procedure is sent on a link that is up; on one that is
\* being released the process dies.
LEMMA OpenOnLinkServes ==
    ASSUME IndInv, IndInv', FixedPart, Owned, NEW l \in Link, OpenOnLink(l)
    PROVE  Provided
<1>1. UNCHANGED callback /\ callback # "establish_cfm" /\ Running
  BY DEF OpenOnLink, AppMayRun, InCallback, FixedPart
<1>2. RecordOK(link[l])
  BY IndInvByLink
<1>3. "MM" \in Protocol /\ link[l].state \in {"ESTABLISHED", "RELEASE_PENDING"}
        /\ link[l].sdu # "sdu"
  BY DEF OpenOnLink
<1>4. PICK tv \in 0 .. MaxTv["MM"] - 1 :
        SetLink(l, Sent(Opened(link[l], [pd |-> "MM", tv |-> tv, role |-> "I"])))
  BY DEF OpenOnLink
<1> DEFINE t == [pd |-> "MM", tv |-> tv, role |-> "I"]
<1>5. t \in OwnTransaction /\ t \in Transaction
  BY <1>3, OwnTransactionType DEF Role
<1>6. link' = [link EXCEPT ![l] = Sent(Opened(link[l], t))]
  BY <1>4 DEF SetLink, Update
<1> HIDE DEF t
<1>7. Serves(link[l], Sent(Opened(link[l], t)))
  BY <1>2, <1>3, <1>5, ServesOpenedSent DEF Live, Crashed
<1> QED
  BY <1>1, <1>6, <1>7, SetServes

\* A primitive of an open transaction sends at most one message.
LEMMA RequestServes ==
    ASSUME IndInv, IndInv', FixedPart, Owned, NEW l \in Link, NEW i,
           Request(l, i) \/ RequestClose(l, i) \/ TimeoutClose(l, i)
    PROVE  Provided
<1>1. UNCHANGED callback /\ callback # "establish_cfm" /\ Running /\ i \in DOMAIN link[l].trans
  BY DEF Request, RequestClose, TimeoutClose, AppMayRun, InCallback, NoCallback, FixedPart
<1>2. RecordOK(link[l])
  BY IndInvByLink
<1>3. PICK e : Serves(link[l], e) /\ SetLink(l, e)
  <2>1. CASE Request(l, i)
    BY <1>2, <2>1, ServesSent DEF Request
  <2>2. CASE RequestClose(l, i)
    <3> DEFINE d == Sent(link[l])
    <3>1. PICK e \in IF d.state \in Crashed THEN {d} ELSE OwnClose(d, i) : SetLink(l, e)
      BY <2>2 DEF RequestClose
    <3>2. CASE d.state \in Crashed
      BY <1>2, <3>1, <3>2, ServesSent
    <3>3. CASE d.state \notin Crashed
      BY <1>1, <1>2, <3>1, <3>3, ServesSentClosed
    <3> QED BY <3>2, <3>3
  <2>3. CASE TimeoutClose(l, i)
    <3>1. PICK e \in OwnClose(link[l], i) : SetLink(l, e)
      BY <2>3 DEF TimeoutClose
    <3> QED BY <1>1, <1>2, <3>1, QuietOwnClose DEF Serves
  <2> QED BY <2>1, <2>2, <2>3
<1>4. link' = [link EXCEPT ![l] = e]
  BY <1>3 DEF SetLink, Update
<1> QED
  BY <1>1, <1>3, <1>4, SetServes

\* Connectionless sending and DL_ESTABLISH-req send on a link or ask for one.
LEMMA SendConnectionlessServes ==
    ASSUME IndInv, IndInv', FixedPart, Owned, NEW p \in Peer,
           SendConnectionless(p) \/ EstablishReq(p)
    PROVE  Provided
<1>1. UNCHANGED callback /\ callback # "establish_cfm" /\ Running
  BY DEF SendConnectionless, EstablishReq, AppMayRun, InCallback, FixedPart
<1>2. \A k \in Link : link[k] \in LinkRecord
  BY IndInvByLink
<1> DEFINE d == Establishing(p)
           e == Accepted(d)
<1>3. RecordOK(d) /\ d.state = "ESTABLISH_PENDING" /\ d.nsent = 0 /\ Own(d) /\ d.sdu = "off"
  BY EstablishingFields
<1>4. Serves(d, e) /\ e.state \in {"ESTABLISH_PENDING"} \cup Crashed
  <2> HIDE DEF d
  <2> QED BY <1>3, ServesAccepted, EvolvesAccepted DEF RecordOK
<1>5. PICK l \in Link : SetLink(l, Accepted(link[l])) \/ Add(l, e) \/ Add(l, d)
  BY DEF SendConnectionless, EstablishReq
<1>6. CASE SetLink(l, Accepted(link[l]))
  <2>1. link' = [link EXCEPT ![l] = Accepted(link[l])]
    BY <1>6 DEF SetLink, Update
  <2> QED BY <1>1, <1>2, <2>1, ServesAccepted, SetServes
<1>7. CASE Add(l, e)
  <2> HIDE DEF d, e
  <2>1. Own(e) /\ (e.state \in Crashed \/ (e.state = "ESTABLISH_PENDING" /\ e.nsent \in {0, 1}))
    BY <1>3, <1>4, FirstMessage
  <2> QED BY <1>1, <1>7, <2>1, AddServes
<1>8. CASE Add(l, d)
  <2> HIDE DEF d
  <2> QED BY <1>1, <1>3, <1>8, AddServes
<1> QED
  BY <1>5, <1>6, <1>7, <1>8

\* A turn of the shutdown loop ends a link or leaves it in its release.
LEMMA ShutdownNextServes ==
    ASSUME IndInv, IndInv', FixedPart, Owned, ShutdownNext
    PROVE  Provided
<1>1. callback \in {"shutdown", "shutdown_read"} /\ Running
  BY DEF ShutdownNext
<1>2. cur \in Link /\ RecordOK(link[cur])
  BY <1>1, IndInvByLink DEF CallbackOK
<1>3. PICK d : ShutdownTurn(d)
  BY ShutdownNextTurn
<1>4. Serves(link[cur], d)
  BY <1>2, <1>3, QuietClose, QuietOver DEF ShutdownTurn, Serves, Crashed
<1>5. callback' # "establish_cfm"
  BY <1>1, <1>3 DEF ShutdownTurn
<1>6. SetLink(cur, d) => link' = [link EXCEPT ![cur] = d]
  BY DEF SetLink, Update
<1> QED
  BY <1>1, <1>2, <1>3, <1>4, <1>5, <1>6, SetServes, ReadServes DEF ShutdownTurn

\* A portable opens a link, which is up at once.
LEMMA AcceptServes ==
    ASSUME IndInv, IndInv', FixedPart, Owned, NEW l \in Link, Accept(l)
    PROVE  Provided
<1> DEFINE e == [Unused EXCEPT !.state = "ESTABLISHED", !.socket = TRUE, !.sdu = "sdu"]
<1>1. UNCHANGED callback /\ callback = "none" /\ Running /\ Add(l, e)
  BY DEF Accept, NoCallback, InCallback
<1>2. e.state = "ESTABLISHED" /\ e.trans = <<>> /\ e.nsent = 0
  BY UnusedFields DEF LinkRecord
<1> HIDE DEF e
<1>3. Own(e)
  BY <1>2 DEF Own
<1> QED
  BY <1>1, <1>2, <1>3, AddServes

\* A connection that fails begins or ends the release.
LEMMA ConnectFailedServes ==
    ASSUME IndInv, IndInv', FixedPart, Owned, NEW l \in Link, ConnectFailed(l)
    PROVE  Provided
<1>1. callback = "none" /\ Running /\ link[l].state \in Usable /\ callback' # "establish_cfm"
  BY DEF ConnectFailed, NoCallback, Usable, InCallback, BeginWalk
<1>2. link[l] \in LinkRecord
  BY IndInvByLink
<1>3. Serves(link[l], Shutdown(link[l]))
  BY <1>1, <1>2, QuietShutdown DEF Serves
<1>4. link' = [link EXCEPT ![l] = Shutdown(link[l])]
  BY DEF ConnectFailed, SetLink, Update
<1> QED
  BY <1>1, <1>3, <1>4, SetServes

\* Returning from the callback of an indirect establishment changes no phase.
LEMMA IndirectDoneServes ==
    ASSUME IndInv, IndInv', FixedPart, Owned, IndirectDone
    PROVE  Provided
<1>1. callback = "indirect_cfm" /\ callback' = "none" /\ Running
  BY DEF IndirectDone, Return
<1>2. cur \in Link /\ link[cur] \in LinkRecord
  BY <1>1, IndInvByLink DEF CallbackOK
<1> DEFINE d == link[cur]
           e == IF ~ Live(d) THEN Crash(d, "STALE")
                ELSE IF d.trans = <<>> THEN PartialReleased(d) ELSE d
<1>3. link' = [link EXCEPT ![cur] = e]
  BY DEF IndirectDone, SetLink, Update
<1>4. e \in {Crash(d, "STALE"), PartialReleased(d), d} /\ "STALE" \in Crashed
  BY DEF Crashed
<1>5. Serves(d, e)
  <2> HIDE DEF e
  <2> QED BY <1>2, <1>4, QuietOver, QuietAssignments, QuietSame DEF Serves
<1> HIDE DEF e
<1> QED
  BY <1>1, <1>2, <1>3, <1>5, SetServes

\* A page response that nobody waits for is rejected with one message at most.
LEMMA UnexpectedPageResponseServes ==
    ASSUME IndInv, IndInv', FixedPart, Owned, NEW l \in Link, NEW p \in Peer,
           UnexpectedPageResponse(l, p)
    PROVE  Provided
<1>1. callback = "none" /\ UNCHANGED callback /\ Running
        /\ link[l].state \in {"ESTABLISHED", "RELEASE_PENDING"}
  BY DEF UnexpectedPageResponse, Readable, NoCallback, InCallback
<1>2. RecordOK(link[l]) /\ link[l] \in LinkRecord
  BY IndInvByLink
<1> DEFINE d == SduStopped(link[l])
           n == Identified(d, p)
<1>3. Quiet(link[l], d) /\ RecordOK(d) /\ d.state = link[l].state /\ d.sdu = "off"
        /\ d \in LinkRecord
  BY <1>2, QuietAssignments, EvolvesSduStopped DEF Evolves, RecordOK
<1>4. Live(d) /\ d.state \notin Crashed
  BY <1>1, <1>3 DEF Live, Crashed
<1>5. PICK e \in {n} \cup Rejected(n) \cup Rejected(d) : SetLink(l, e)
  BY DEF UnexpectedPageResponse
<1> HIDE DEF d
<1>6. Quiet(d, n) /\ RecordOK(n)
  BY <1>3, <1>4, EvolvesIdentified, QuietAssignments DEF Evolves
<1> HIDE DEF n
<1>7. e = n \/ Serves(n, e) \/ Serves(d, e)
  BY <1>3, <1>5, <1>6, ServesRejected
<1>8. Serves(link[l], e)
  BY <1>3, <1>6, <1>7, QuietTransitive DEF Serves
<1>9. link' = [link EXCEPT ![l] = e]
  BY <1>5 DEF SetLink, Update
<1> QED
  BY <1>1, <1>8, <1>9, SetServes

\* A received message is answered with one message at most, and may end its link.
LEMMA RcvServes ==
    ASSUME IndInv, IndInv', FixedPart, Owned, NEW l \in Link, NEW pd \in Protocol \cup {"LCE"},
           NEW tv \in 0 .. MaxTv[pd] - 1, NEW role \in Role, Rcv(l, pd, tv, role)
    PROVE  Provided
<1>1. callback = "none" /\ UNCHANGED callback /\ Running
        /\ link[l].state \in {"ESTABLISHED", "RELEASE_PENDING"}
  BY DEF Rcv, Readable, NoCallback, InCallback
<1>2. RecordOK(link[l])
  BY IndInvByLink
<1> DEFINE t == [pd |-> pd, tv |-> tv, role |-> role]
           r == [pd |-> pd, tv |-> tv, role |-> "R"]
<1>3. [t EXCEPT !.role = "R"] = r
  OBVIOUS
<1>4. \/ pd \in Protocol /\ \E p \in Peer : \E d \in RcvOpen(link[l], r, p) : Read(l, d)
      \/ \E i \in DOMAIN link[l].trans : \E d \in RcvKnown(link[l], i) : Read(l, d)
  BY <1>3 DEF Rcv
<1> HIDE DEF r
<1>5. PICK d : Serves(link[l], d) /\ Read(l, d)
  <2>1. CASE pd \in Protocol /\ \E p \in Peer : \E d \in RcvOpen(link[l], r, p) : Read(l, d)
    <3>1. r \in OwnTransaction /\ r \in Transaction
      BY <2>1, OwnTransactionType DEF r, Role
    <3> QED BY <1>1, <1>2, <2>1, <3>1, ServesRcvOpen
  <2>2. CASE \E i \in DOMAIN link[l].trans : \E d \in RcvKnown(link[l], i) : Read(l, d)
    BY <1>2, <2>2, ServesRcvKnown
  <2> QED BY <1>4, <2>1, <2>2
<1> QED
  BY <1>1, <1>5, ReadServes

\* The end of a release ends the link.
LEMMA ReleaseCompleteServes ==
    ASSUME IndInv, IndInv', FixedPart, Owned, NEW l \in Link, ReleaseComplete(l)
    PROVE  Provided
<1> DEFINE d == [link[l] EXCEPT !.state = "RELEASED", !.rel = FALSE]
<1>1. callback = "none" /\ UNCHANGED callback /\ Running /\ Read(l, Destroyed(d))
  BY DEF ReleaseComplete, Readable, NoCallback, InCallback
<1>2. link[l] \in LinkRecord
  BY IndInvByLink
<1>3. d \in LinkRecord
  BY <1>2 DEF LinkRecord, LinkState
<1>4. Serves(link[l], Destroyed(d))
  BY <1>3, QuietOver DEF Serves
<1> HIDE DEF d
<1> QED
  BY <1>1, <1>4, ReadServes

\* An error of the socket begins the release, or ends the link.
LEMMA RcvErrorServes ==
    ASSUME IndInv, IndInv', FixedPart, Owned, NEW l \in Link, RcvError(l)
    PROVE  Provided
<1>1. callback = "none" /\ Running /\ link[l].state \in Usable \cup Releasing
        /\ callback' # "establish_cfm"
  BY DEF RcvError, NoCallback, Usable, Releasing, InCallback, BeginWalk
<1>2. link[l] \in LinkRecord
  BY IndInvByLink
<1>3. Serves(link[l], Shutdown(link[l]))
  BY <1>1, <1>2, QuietShutdown DEF Serves
<1>4. Read(l, Shutdown(link[l])) \/ link' = [link EXCEPT ![l] = Shutdown(link[l])]
  BY DEF RcvError, SetLink, Update
<1> QED
  BY <1>1, <1>3, <1>4, SetServes, ReadServes

\* LCE.01, LCE.02 and LCE.05 end a link or change nothing of it that is seen.
LEMMA TimeoutServes ==
    ASSUME IndInv, IndInv', FixedPart, Owned, NEW l \in Link,
           SduTimeout(l) \/ PartialReleaseTimeout(l) \/ ReleaseTimeout(l)
    PROVE  Provided
<1> DEFINE d == link[l]
           s == SduStopped(d)
<1>1. callback = "none" /\ UNCHANGED callback /\ Running
  BY DEF SduTimeout, PartialReleaseTimeout, ReleaseTimeout, NoCallback, InCallback
<1>2. RecordOK(d) /\ d \in LinkRecord
  BY IndInvByLink DEF RecordOK
<1>3. Quiet(d, s) /\ s \in LinkRecord
  BY <1>2, QuietAssignments, EvolvesSduStopped DEF Evolves, RecordOK
<1>4. PICK e : SetLink(l, e) /\ Quiet(d, e)
  <2>1. CASE SduTimeout(l)
    <3>1. SetLink(l, Destroyed(s))
      BY <2>1 DEF SduTimeout
    <3> QED BY <1>3, <3>1, QuietOver
  <2>2. CASE PartialReleaseTimeout(l)
    <3>1. SetLink(l, Destroyed(s)) \/ SetLink(l, s)
      BY <2>2 DEF PartialReleaseTimeout
    <3> HIDE DEF s
    <3> QED BY <1>3, <3>1, QuietOver
  <2>3. CASE ReleaseTimeout(l)
    <3>1. \/ d.leaked > 0 /\ SetLink(l, Destroyed([d EXCEPT !.leaked = @ - 1]))
          \/ SetLink(l, Crash(d, "STALE"))
          \/ SetLink(l, Destroyed([d EXCEPT !.rel = FALSE]))
      BY <2>3 DEF ReleaseTimeout
    <3>2. CASE d.leaked > 0 /\ SetLink(l, Destroyed([d EXCEPT !.leaked = @ - 1]))
      <4>1. d.leaked - 1 \in Nat
        BY <1>2, <3>2 DEF LinkRecord
      <4>2. [d EXCEPT !.leaked = @ - 1] \in LinkRecord
        BY <1>2, <4>1 DEF LinkRecord
      <4> QED BY <3>2, <4>2, QuietOver
    <3>3. CASE SetLink(l, Crash(d, "STALE"))
      BY <3>3, QuietOver DEF Crashed
    <3>4. CASE SetLink(l, Destroyed([d EXCEPT !.rel = FALSE]))
      <4>1. [d EXCEPT !.rel = FALSE] \in LinkRecord
        BY <1>2 DEF LinkRecord
      <4> QED BY <3>4, <4>1, QuietOver
    <3> QED BY <3>1, <3>2, <3>3, <3>4
  <2> QED BY <2>1, <2>2, <2>3
<1>5. link' = [link EXCEPT ![l] = e]
  BY <1>4 DEF SetLink, Update
<1> QED
  BY <1>1, <1>4, <1>5, SetServes DEF Serves

\* Paging again, and giving up, change nothing that is seen.
LEMMA PageTimeoutServes ==
    ASSUME IndInv, IndInv', FixedPart, Owned, NEW l \in Link, PageTimeout(l)
    PROVE  Provided
<1> DEFINE d == link[l]
           n == d.pages + 1
           again == [d EXCEPT !.pages = n]
           over == [d EXCEPT !.pages = n, !.page = FALSE]
<1>1. callback = "none" /\ Running /\ callback' # "establish_cfm"
  BY DEF PageTimeout, NoCallback, InCallback, CallBack
<1>2. d \in LinkRecord
  BY IndInvByLink
<1>3. PICK e \in {Crash(d, "STALE"), again, over} : link' = [link EXCEPT ![l] = e]
  BY DEF PageTimeout, SetLink, Update
<1> HIDE DEF n
<1>4. /\ again.state = d.state /\ again.nsent = d.nsent /\ again.trans = d.trans
      /\ over.state = d.state /\ over.nsent = d.nsent /\ over.trans = d.trans
  BY <1>2 DEF LinkRecord
<1> HIDE DEF again, over
<1>5. Serves(d, again) /\ Serves(d, over) /\ Serves(d, Crash(d, "STALE"))
  BY <1>4, QuietSame, QuietOver DEF Own, Serves, Crashed
<1> QED
  BY <1>1, <1>3, <1>5, SetServes

\* After the last page the link that was asked for is released.
LEMMA PageFailedServes ==
    ASSUME IndInv, IndInv', FixedPart, Owned, PageFailed
    PROVE  Provided
<1> DEFINE d == link[cur]
           e == IF ~ Live(d) THEN Crash(d, "STALE") ELSE Shutdown(d)
<1>1. callback = "page_failed" /\ Running /\ callback' # "establish_cfm"
  BY DEF PageFailed, Return, BeginWalk
<1>2. cur \in Link /\ d \in LinkRecord
  BY <1>1, IndInvByLink DEF CallbackOK
<1>3. link' = [link EXCEPT ![cur] = e]
  BY DEF PageFailed, SetLink, Update
<1>4. Serves(d, e)
  <2>1. CASE ~ Live(d)
    BY <2>1, QuietOver DEF Serves, Crashed
  <2>2. CASE Live(d)
    <3>1. d.state \in Usable \cup Releasing
      BY <1>1, <1>2, <2>2 DEF Running, Live, LinkRecord, LinkState, Releasing
    <3> QED BY <1>2, <2>2, <3>1, QuietShutdown DEF Serves
  <2> QED BY <2>1, <2>2
<1> HIDE DEF e
<1> QED
  BY <1>1, <1>2, <1>3, <1>4, SetServes

\* During DL_ESTABLISH-cfm the link is still seen as being established.
LEMMA ConnectDoneServes ==
    ASSUME IndInv, IndInv', FixedPart, Owned, NEW l \in Link, ConnectDone(l)
    PROVE  Provided
<1> DEFINE d == link[l]
           e == [d EXCEPT !.state = "ESTABLISHED"]
<1>1. /\ callback = "none" /\ Running /\ d.state = "ESTABLISH_PENDING"
      /\ link' = [link EXCEPT ![l] = e] /\ callback' = "establish_cfm" /\ cur' = l
  BY DEF ConnectDone, NoCallback, SetLink, Update, CallBack
<1>2. link \in [Link -> LinkRecord] /\ d \in LinkRecord
  BY IndInvByLink
<1>3. e.state = "ESTABLISHED" /\ e.nsent = d.nsent /\ e.tx = d.tx /\ e.trans = d.trans
  BY <1>2 DEF LinkRecord
<1>4. link'[l] = e /\ \A k \in Link \ {l} : link'[k] = link[k]
  BY <1>1, <1>2
<1> HIDE DEF e
<1>5. Running'
  BY <1>1, <1>3, <1>4 DEF Running, Crashed
<1>6. Owned'
  BY <1>3, <1>4 DEF Owned, Own
<1>7. ASSUME NEW k \in Link
      PROVE  ServedLink(k)' = ServedLink(k)
  <2>1. ServedLink(k) = Seen(link[k], FALSE)
    BY <1>1, SeenServed DEF BeingConfirmed
  <2>2. CASE k = l
    <3>1. ServedLink(k)' = Seen(e, TRUE)
      BY <1>1, <1>4, <2>2, SeenServed DEF BeingConfirmed
    <3> QED BY <1>1, <1>3, <2>1, <2>2, <3>1 DEF Seen
  <2>3. CASE k # l
    <3>1. ServedLink(k)' = Seen(link[k], FALSE)
      BY <1>1, <1>4, <2>3, SeenServed DEF BeingConfirmed
    <3> QED BY <2>1, <3>1
  <2> QED BY <2>2, <2>3
<1> QED
  BY <1>1, <1>5, <1>6, <1>7, ServedUnchanged DEF Provided

\* Sending the queue makes the link come up with all it has accepted.
LEMMA DrainQueueServes ==
    ASSUME IndInv, IndInv', FixedPart, Owned, DrainQueue
    PROVE  Provided
<1>1. callback = "establish_cfm" /\ Running /\ callback' = "none" /\ cur' = NoLink
  BY DEF DrainQueue, Return
<1>2. PICK l \in Link : l = cur
  BY <1>1, IndInvByLink DEF CallbackOK
<1> DEFINE d == link[l]
           e == [d EXCEPT !.tx = d.tx \o d.queue, !.queue = <<>>]
<1>3. /\ link \in [Link -> LinkRecord] /\ d \in LinkRecord
      /\ d.state = "ESTABLISHED" /\ d.tx = <<>>
  BY <1>1, <1>2, IndInvByLink DEF BeforeDrain, FixedPart
<1>4. link' = [link EXCEPT ![l] = e]
  BY <1>2, <1>3 DEF DrainQueue, SetLink, Update, Live
<1>5. e.state = "ESTABLISHED" /\ e.nsent = d.nsent /\ e.trans = d.trans
  BY <1>3 DEF LinkRecord
<1> HIDE DEF e
<1>6. link'[l] = e /\ \A k \in Link \ {l} : link'[k] = link[k]
  BY <1>3, <1>4
<1>7. Running'
  BY <1>1, <1>5, <1>6 DEF Running, Crashed
<1>8. Owned'
  BY <1>5, <1>6 DEF Owned, Own
<1>9. ServedLink(l) = [phase |-> "establishing", accepted |-> d.nsent, written |-> d.tx]
  BY <1>1, <1>2, SeenServed DEF BeingConfirmed, Seen
<1>10. ServedLink(l)' = Service!Up(d.nsent)
  <2>1. Settled(link'[l]) /\ ~ BeingConfirmed(l)'
    BY <1>1, AllSettledNext
  <2>2. Seen(e, FALSE) = Service!Up(d.nsent)
    BY <1>5, <1>6, <2>1, SeenPhase
  <2> QED BY <1>6, <2>1, <2>2, SeenServed
<1>11. ASSUME NEW k \in Link \ {l}
       PROVE  ServedLink(k)' = ServedLink(k)
  BY <1>1, <1>2, <1>6, SeenServed DEF BeingConfirmed
<1>12. Service!Confirm(l)
  BY <1>1, <1>7, <1>9, <1>10, <1>11, ServedBecomes DEF Service!Confirm
<1> QED
  BY <1>8, <1>12 DEF Service!Next, Provided

\* What the link of a page response becomes
LEMMA TransferredFields ==
    ASSUME NEW d \in LinkRecord, NEW q \in LinkRecord
    PROVE  LET e == Transferred(SduStopped(d), q)
           IN  /\ e.state = d.state /\ e.nsent = d.nsent + q.nsent
               /\ Own(d) /\ Own(q) => Own(e)
<1> DEFINE s == SduStopped(d)
           e == Transferred(s, q)
<1>1. /\ s \in LinkRecord
      /\ s.state = d.state /\ s.nsent = d.nsent /\ s.trans = d.trans
  BY DEF SduStopped, LinkRecord
<1> HIDE DEF s
<1>2. e.state = s.state /\ e.nsent = s.nsent + q.nsent /\ e.trans = s.trans \o q.trans
  <2> DEFINE peer == IF s.peer = NoPeer THEN q.peer ELSE s.peer
             trans == s.trans \o q.trans
             n == s.nsent + q.nsent
             tx == IF s.state = "ESTABLISHED"
                   THEN s.tx \o [j \in 1 .. Len(q.queue) |-> s.nsent + q.queue[j]]
                   ELSE s.tx
             f == [s EXCEPT !.peer = peer, !.trans = trans, !.nsent = n, !.tx = tx]
  <2>1. e = f
    BY Zenon DEF Transferred
  <2> HIDE DEF peer, trans, n, tx, e
  <2>2. f.state = s.state /\ f.nsent = n /\ f.trans = trans
    BY <1>1 DEF LinkRecord
  <2> QED BY <2>1, <2>2 DEF n, trans
<1> HIDE DEF e
<1>3. Own(d) /\ Own(q) => d.trans \o q.trans \in Seq(OwnTransaction)
  BY ConcatProperties DEF Own
<1> QED
  BY <1>1, <1>2, <1>3 DEF Own, e, s

\* A page response puts one link in the place of another.  On a link that is being
\* released, the messages of the pending link are lost with it.
LEMMA PageResponseServes ==
    ASSUME IndInv, IndInv', FixedPart, Owned, NEW l \in Link, NEW p \in Peer,
           PageResponse(l, p)
    PROVE  Provided
<1>1. /\ callback = "none" /\ Running /\ link[l].state \in {"ESTABLISHED", "RELEASE_PENDING"}
      /\ link \in [Link -> LinkRecord]
  BY IndInvByLink DEF PageResponse, Readable, NoCallback
<1>2. PICK r \in Link \ {l} :
        /\ IsFirst(r, Pending(p))
        /\ \/ SetLink(r, Crash(link[r], "NULL_TIMER")) /\ InCallback
           \/ /\ Update([link EXCEPT
                    ![l] = Transferred(SduStopped(link[l]), link[r]),
                    ![r] = Freed([link[r] EXCEPT !.page = FALSE])])
              /\ CallBack("indirect_cfm", l)
  BY DEF PageResponse
<1>3. CASE SetLink(r, Crash(link[r], "NULL_TIMER")) /\ InCallback
  <2>1. link' = [link EXCEPT ![r] = Crash(link[r], "NULL_TIMER")] /\ callback' # "establish_cfm"
    BY <1>1, <1>3 DEF SetLink, Update, InCallback
  <2>2. Serves(link[r], Crash(link[r], "NULL_TIMER"))
    BY QuietOver DEF Crashed, Serves
  <2> QED BY <1>1, <2>1, <2>2, SetServes
<1>4. ASSUME Update([link EXCEPT
                ![l] = Transferred(SduStopped(link[l]), link[r]),
                ![r] = Freed([link[r] EXCEPT !.page = FALSE])]),
             CallBack("indirect_cfm", l)
      PROVE  Provided
  <2> DEFINE d == link[l]
             q == link[r]
             e == Transferred(SduStopped(d), q)
             x == [q EXCEPT !.page = FALSE]
             f == Freed(x)
  <2>1. d \in LinkRecord /\ q \in LinkRecord /\ q.state = "ESTABLISH_PENDING"
    BY <1>1, <1>2 DEF IsFirst, Pending
  <2>2. e.state = d.state /\ e.nsent = d.nsent + q.nsent /\ Own(e)
    BY <2>1, TransferredFields DEF Owned
  <2>3. x \in LinkRecord
    BY <2>1 DEF LinkRecord
  <2>4. f.state \in {"FREE", "FREED"} /\ Own(f)
    <3>1. f.state \in {"FREE", "FREED"} /\ f.trans = <<>>
      BY <2>3, UnusedFields DEF Freed, LinkRecord
    <3>2. <<>> \in Seq(OwnTransaction)
      OBVIOUS
    <3> QED BY <3>1, <3>2 DEF Own
  <2>5. link' = [link EXCEPT ![l] = e, ![r] = f] /\ callback' = "indirect_cfm"
    BY <1>4 DEF Update, CallBack
  <2> HIDE DEF e, x, f
  <2>6. link'[l] = e /\ link'[r] = f /\ \A k \in Link \ {l, r} : link'[k] = link[k]
    BY <1>1, <1>2, <2>5
  <2>7. Running' /\ Owned'
    BY <1>1, <2>2, <2>4, <2>6 DEF Running, Crashed, Owned
  <2>8. /\ \A k \in Link : Settled(link[k]) /\ ~ BeingConfirmed(k)
        /\ \A k \in Link : Settled(link'[k]) /\ ~ BeingConfirmed(k)'
    BY <1>1, <2>5, AllSettled, AllSettledNext
  <2>9. \A k \in Link : ServedLink(k) = Seen(link[k], FALSE)
                          /\ ServedLink(k)' = Seen(link'[k], FALSE)
    BY <2>8, SeenServed
  <2>10. ServedLink(r) = Service!Establishing(q.nsent) /\ ServedLink(r)' = Service!Idle
    BY <1>2, <2>1, <2>4, <2>6, <2>8, <2>9, SeenPhase DEF Over
  <2>11. \A k \in Link \ {l, r} : ServedLink(k)' = ServedLink(k)
    BY <2>6, <2>9
  <2>12. ServedLink(r).phase = "establishing" /\ ServedLink(r).accepted = q.nsent
    BY <2>10 DEF Service!Establishing
  <2>13. CASE d.state = "ESTABLISHED"
    <3>1. ServedLink(l) = Service!Up(d.nsent) /\ ServedLink(l)' = Service!Up(d.nsent + q.nsent)
      BY <2>2, <2>6, <2>8, <2>9, <2>13, SeenPhase
    <3>2. ServedLink(l).phase = "up" /\ ServedLink(l).accepted = d.nsent
      BY <3>1 DEF Service!Up
    <3>3. ServedLink(l)' = Service!Up(ServedLink(l).accepted + ServedLink(r).accepted)
      BY <2>12, <3>1, <3>2
    <3>4. [k \in Link |-> ServedLink(k)]'
            = [[k \in Link |-> ServedLink(k)]
                 EXCEPT ![l] = Service!Up(ServedLink(l).accepted + ServedLink(r).accepted),
                        ![r] = Service!Idle]
      <4> DEFINE u == Service!Up(ServedLink(l).accepted + ServedLink(r).accepted)
      <4>1. ServedLink(l)' = u
        BY <3>3
      <4> HIDE DEF u
      <4>2. [k \in Link |-> ServedLink(k)]'
              = [[k \in Link |-> ServedLink(k)] EXCEPT ![l] = u, ![r] = Service!Idle]
        BY <1>2, <2>10, <2>11, <4>1
      <4> QED BY <4>2 DEF u
    <3>5. Running' = Running
      BY <1>1, <2>7 DEF Running
    <3>6. Service!TakeOver(l, r)
      BY <1>1, <1>2, <2>12, <3>2, <3>4, <3>5 DEF Service!TakeOver
    <3> QED BY <2>7, <3>6 DEF Service!Next, Provided
  <2>14. CASE d.state = "RELEASE_PENDING"
    <3>1. link[l].state \in Releasing /\ link'[l].state \in Releasing
      BY <2>2, <2>6, <2>14 DEF Releasing
    <3>2. ServedLink(l)' = ServedLink(l)
      BY <2>8, <2>9, <3>1, SeenPhase
    <3>3. Service!Gone(r)
      BY <1>1, <1>2, <2>7, <2>10, <2>11, <2>12, <3>2, ServedBecomes DEF Service!Gone
    <3> QED BY <1>2, <2>7, <3>3 DEF Service!Next, Provided
  <2> QED BY <1>1, <2>13, <2>14
<1> QED
  BY <1>2, <1>3, <1>4

-----------------------------------------------------------------------------
(* Theorems *)

\* Every step of a fixed part is a step of the service, or none.
LEMMA NextServes ==
    ASSUME IndInv, IndInv', FixedPart, Owned, Next
    PROVE  Provided
<1>1. CASE App
  BY <1>1, OpenByIpuiServes, SendConnectionlessServes, OpenOnLinkServes, RequestServes DEF App
<1>2. CASE Network
  <2>1. ~ \E p \in Peer : RcvPage(p)
    BY DEF RcvPage, FixedPart
  <2> QED BY <1>2, <2>1, AcceptServes, ConnectDoneServes, ConnectFailedServes, RcvServes,
             ReleaseCompleteServes, RcvErrorServes, PageResponseServes,
             UnexpectedPageResponseServes DEF Network
<1>3. CASE Timer
  BY <1>3, TimeoutServes, PageTimeoutServes DEF Timer
<1>4. CASE Continue
  BY <1>4, ShutdownNextServes, DrainQueueServes, PageFailedServes, IndirectDoneServes DEF Continue
<1> QED
  BY <1>1, <1>2, <1>3, <1>4 DEF Next

\* A stuttering step is one of the service too.
LEMMA StutterServes ==
    ASSUME Owned, UNCHANGED vars
    PROVE  Provided
<1>1. Owned' /\ Running' = Running
  BY DEF vars, Owned, Running
<1>2. \A k \in Link : ServedLink(k)' = ServedLink(k)
  BY DEF vars, ServedLink, BeingConfirmed
<1> QED
  BY <1>1, <1>2 DEF Service!vars, Provided

\* A new handle serves no link.
LEMMA InitServes == Init => Owned /\ Service!Init
<1> SUFFICES ASSUME Init PROVE Owned /\ Service!Init
  OBVIOUS
<1>1. link = [l \in Link |-> Unused] /\ callback = "none"
  BY DEF Init
<1>2. Owned
  <2>1. <<>> \in Seq(OwnTransaction)
    OBVIOUS
  <2> QED BY <1>1, <2>1, UnusedFields DEF Owned, Own
<1>3. Running
  BY <1>1, UnusedFields DEF Running, Crashed
<1>4. ASSUME NEW l \in Link PROVE ServedLink(l) = Service!Idle
  BY <1>1, UnusedFields DEF ServedLink, BeingConfirmed, Service!Idle
<1> QED
  BY <1>2, <1>3, <1>4 DEF Service!Init

\* A fixed part never has a page transaction, so that a READ event closes nothing
\* on another link.
LEMMA OwnedInvariant ==
    ASSUME FixedPart
    PROVE  Spec => [](IndInv /\ Owned)
<1>1. Init => IndInv /\ Owned
  BY InitIndInv, InitServes
<1>2. IndInv /\ Owned /\ [Next]_vars => (IndInv /\ Owned)'
  BY NextIndInv, StutterIndInv, NextServes, StutterServes DEF Provided
<1> QED
  BY <1>1, <1>2, PTL DEF Spec

\* The Link Control Entity of a fixed part implements LinkService: dect_lce_send and
\* everything that establishes, replaces, releases and destroys a link in lce.c.
THEOREM ServiceProvidedCorrect ==
    ASSUME FixedPart
    PROVE  Spec => ServiceProvided
<1>1. Init => Service!Init
  BY InitServes
<1>2. IndInv /\ Owned /\ [Next]_vars => [Service!Next]_(Service!vars)
  BY NextIndInv, NextServes, StutterServes DEF Provided
<1> QED
  BY <1>1, <1>2, OwnedInvariant, PTL DEF Spec, ServiceProvided, Service!Spec

=============================================================================
