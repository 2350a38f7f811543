---------------------------- MODULE Paging_proofs ----------------------------
(***************************************************************************)
(* Proofs about Paging for any portables and identities: its types, that    *)
(* the location table and the portables agree (TableAgrees), and who answers *)
(* a page (PagedAnswers, OthersSilent).                                     *)
(*                                                                         *)
(* The two learn of an identity one after the other.  In between, the      *)
(* invariant has to say that what is acknowledged is what the portable      *)
(* holds (Taken), or the receipt of the acknowledgement could not           *)
(* establish the agreement.                                                *)
(***************************************************************************)
EXTENDS Paging, TLAPS

\* A portable that has acknowledged a TPUI holds it.
Taken ==
    \A p \in Foreign :
        assignment[p].phase = "acknowledged" /\ assignment[p].carries = "tpui"
            => tpui[p] = assignment[p].tpui

IInv == TypeOK /\ TableAgrees /\ Taken

-----------------------------------------------------------------------------

LEMMA ForeignPortables == Foreign \subseteq Portable
BY PagingAssumption

\* The phase tells the forms of an assignment apart.
LEMMA Phases ==
    ASSUME NEW a \in Assignment
    PROVE  /\ a.phase \in {"none", "accepted", "acknowledged"}
           /\ a = NoAssignment <=> a.phase = "none"
           /\ a # NoAssignment => a \in [phase : {"accepted", "acknowledged"},
                                         carries : {"tpui", "nwk"}, tpui : Identity]
BY DEF Assignment, NoAssignment

LEMMA InitInv == Init => IInv
<1> SUFFICES ASSUME Init PROVE IInv
  OBVIOUS
<1>1. Blank \in Identity
  BY DEF Identity
<1>2. TypeOK
  BY <1>1 DEF Init, TypeOK, NoEntry, Assignment, NoAssignment
<1>3. \A p \in Foreign : ~ldb[p].valid /\ assignment[p].phase = "none"
  BY ForeignPortables DEF Init, NoEntry, NoAssignment
<1> QED
  BY <1>2, <1>3 DEF IInv, TableAgrees, Agree, Taken

\* The entry of a portable in the table survives a registration.
LEMMA UpdateKeeps ==
    ASSUME TypeOK, NEW p \in Portable
    PROVE  /\ LteUpdate(ldb, p) \in [Portable -> [known : BOOLEAN, valid : BOOLEAN, tpui : Identity]]
           /\ \A q \in Portable : /\ LteUpdate(ldb, p)[q].valid = ldb[q].valid
                                  /\ LteUpdate(ldb, p)[q].tpui = ldb[q].tpui
                                  /\ ldb[q].known => LteUpdate(ldb, p)[q].known
           /\ LteUpdate(ldb, p)[p].known
BY DEF TypeOK, LteUpdate

LEMMA RegisterKeeps == ASSUME IInv, NEW p \in Portable, Register(p) PROVE IInv'
<1>1. TypeOK'
  BY UpdateKeeps DEF IInv, Register, TypeOK
<1>2. TableAgrees' /\ Taken'
  BY UpdateKeeps, ForeignPortables DEF IInv, Register, TableAgrees, Agree, Taken
<1> QED
  BY <1>1, <1>2 DEF IInv

LEMMA LocateKeeps ==
    ASSUME IInv, NEW p \in Portable, NEW carries \in {"tpui", "nwk"}, NEW t \in Identity,
           LocateRes(p, carries, t)
    PROVE  IInv'
<1> DEFINE a == [phase |-> "accepted", carries |-> carries, tpui |-> t]
<1>1. a \in Assignment /\ a # NoAssignment /\ a.phase = "accepted"
  BY DEF Assignment, NoAssignment
<1>2. assignment \in [Portable -> Assignment]
  BY DEF IInv, TypeOK
<1>3. assignment' = [assignment EXCEPT ![p] = a]
  BY DEF LocateRes
<1> HIDE DEF a
<1>4. assignment' \in [Portable -> Assignment]
  BY <1>1, <1>2, <1>3
<1>5. assignment'[p] = a /\ \A q \in Portable \ {p} : assignment'[q] = assignment[q]
  BY <1>2, <1>3
<1>6. TypeOK'
  BY <1>4, <1>5, UpdateKeeps DEF IInv, LocateRes, TypeOK, Up
<1>7. assignment[p].phase = "none"
  BY DEF LocateRes, NoAssignment
<1>8. TableAgrees' /\ Taken'
  <2>1. /\ ldb' = LteUpdate(ldb, p)
        /\ tpui' = tpui /\ astray' = astray
    BY DEF LocateRes
  <2>2. \A q \in Foreign : ldb'[q].valid = ldb[q].valid /\ ldb'[q].tpui = ldb[q].tpui
    BY <2>1, UpdateKeeps, ForeignPortables DEF IInv
  <2>3. ASSUME NEW q \in Foreign, assignment[q].phase = "acknowledged" \/ assignment'[q].phase = "acknowledged"
        PROVE  assignment'[q] = assignment[q]
    BY <1>1, <1>5, <1>7, <2>3, ForeignPortables
  <2>4. ASSUME NEW q \in Foreign PROVE Agree(q)'
    <3>1. Agree(q)
      BY DEF IInv, TableAgrees
    <3>2. assignment'[q].phase = "acknowledged" <=> assignment[q].phase = "acknowledged"
      BY <2>3
    <3> QED
      BY <2>1, <2>2, <3>1, <3>2 DEF Agree
  <2>5. Taken'
    BY <2>1, <2>3 DEF IInv, Taken
  <2> QED
    BY <2>4, <2>5 DEF TableAgrees
<1> QED
  BY <1>6, <1>8 DEF IInv

LEMMA AcceptKeeps == ASSUME IInv, NEW p \in Portable, IdentityAssignRes(p) PROVE IInv'
<1>1. assignment \in [Portable -> Assignment] /\ tpui \in [Portable -> Identity]
  BY DEF IInv, TypeOK
<1>2. assignment[p] # NoAssignment /\ assignment[p].phase = "accepted"
  BY DEF IdentityAssignRes, NoAssignment
<1>3. CASE p \notin Foreign /\ assignment[p].carries = "nwk"
  <2>1. /\ assignment' = [assignment EXCEPT ![p] = NoAssignment]
        /\ down' = down \cup {p}
        /\ UNCHANGED <<ldb, tpui, unheard, astray>>
    BY <1>3 DEF IdentityAssignRes
  <2>2. TypeOK'
    BY <2>1, <1>1 DEF IInv, TypeOK, Assignment
  <2>3. \A q \in Foreign : assignment'[q] = assignment[q]
    BY <1>1, <1>3, <2>1, ForeignPortables
  <2> QED
    BY <2>1, <2>2, <2>3 DEF IInv, TableAgrees, Agree, Taken
<1>4. CASE ~(p \notin Foreign /\ assignment[p].carries = "nwk")
  <2> DEFINE a == [assignment[p] EXCEPT !.phase = "acknowledged"]
  <2>1. /\ assignment' = [assignment EXCEPT ![p] = a]
        /\ UNCHANGED <<ldb, down, unheard, astray>>
    BY <1>4 DEF IdentityAssignRes
  <2>2. assignment[p] \in [phase : {"accepted", "acknowledged"},
                           carries : {"tpui", "nwk"}, tpui : Identity]
    BY <1>1, <1>2, Phases
  <2>3. /\ a \in Assignment /\ a.phase = "acknowledged"
        /\ a.carries = assignment[p].carries /\ a.tpui = assignment[p].tpui
    BY <2>2 DEF Assignment
  <2> HIDE DEF a
  <2>4. assignment'[p] = a /\ \A q \in Portable \ {p} : assignment'[q] = assignment[q]
    BY <1>1, <2>1
  <2>5. Blank \in Identity /\ assignment[p].tpui \in Identity
    BY <2>2 DEF Identity
  <2>6. tpui' = IF assignment[p].carries = "nwk" THEN tpui
                ELSE [tpui EXCEPT ![p] = IF p \in Foreign THEN assignment[p].tpui ELSE Blank]
    BY <1>4 DEF IdentityAssignRes
  <2>7. assignment[p].carries \in {"tpui", "nwk"}
    BY <2>2
  <2>8. /\ tpui' \in [Portable -> Identity]
        /\ \A q \in Portable \ {p} : tpui'[q] = tpui[q]
        /\ p \in Foreign /\ assignment[p].carries = "tpui" => tpui'[p] = assignment[p].tpui
    <3>1. CASE assignment[p].carries = "nwk"
      <4>1. tpui' = tpui
        BY <2>6, <3>1
      <4> QED
        BY <1>1, <3>1, <4>1
    <3>2. CASE assignment[p].carries = "tpui" /\ p \in Foreign
      <4>1. tpui' = [tpui EXCEPT ![p] = assignment[p].tpui]
        BY <2>6, <3>2
      <4> QED
        BY <1>1, <2>5, <4>1
    <3>3. CASE assignment[p].carries = "tpui" /\ p \notin Foreign
      <4>1. tpui' = [tpui EXCEPT ![p] = Blank]
        BY <2>6, <3>3
      <4> QED
        BY <1>1, <2>5, <3>3, <4>1
    <3> QED
      BY <2>7, <3>1, <3>2, <3>3
  <2>9. assignment' \in [Portable -> Assignment]
    BY <1>1, <2>1, <2>3
  <2>10. TypeOK'
    BY <1>2, <2>1, <2>3, <2>4, <2>8, <2>9 DEF IInv, TypeOK
  <2>11. TableAgrees'
    BY <2>1, <2>3, <2>4, <2>8, ForeignPortables DEF IInv, TableAgrees, Agree
  <2>12. Taken'
    BY <2>3, <2>4, <2>8, ForeignPortables DEF IInv, Taken
  <2> QED
    BY <2>10, <2>11, <2>12 DEF IInv
<1> QED
  BY <1>3, <1>4

LEMMA RejectKeeps == ASSUME IInv, NEW p \in Portable, IdentityAssignRej(p) PROVE IInv'
<1>1. assignment \in [Portable -> Assignment] /\ NoAssignment \in Assignment
  BY DEF IInv, TypeOK, Assignment
<1>2. /\ assignment' \in [Portable -> Assignment]
      /\ assignment'[p] = NoAssignment
      /\ \A q \in Portable \ {p} : assignment'[q] = assignment[q]
  BY <1>1 DEF IdentityAssignRej
<1>3. TypeOK'
  BY <1>2 DEF IInv, IdentityAssignRej, TypeOK
<1>4. assignment[p].phase = "accepted" /\ assignment'[p].phase = "none"
  BY <1>2 DEF IdentityAssignRej, NoAssignment
<1>5. TableAgrees' /\ Taken'
  BY <1>2, <1>4, ForeignPortables DEF IInv, IdentityAssignRej, TableAgrees, Agree, Taken
<1> QED
  BY <1>3, <1>5 DEF IInv

LEMMA AckKeeps == ASSUME IInv, NEW p \in Portable, RcvIdentityAssignAck(p) PROVE IInv'
<1> DEFINE Entry == [known : BOOLEAN, valid : BOOLEAN, tpui : Identity]
<1>1. /\ assignment \in [Portable -> Assignment] /\ NoAssignment \in Assignment
      /\ ldb \in [Portable -> Entry]
  BY DEF IInv, TypeOK, Assignment
<1>2. /\ assignment' \in [Portable -> Assignment]
      /\ assignment'[p] = NoAssignment
      /\ \A q \in Portable \ {p} : assignment'[q] = assignment[q]
  BY <1>1 DEF RcvIdentityAssignAck
<1>3. assignment[p].phase = "acknowledged" /\ assignment[p] # NoAssignment
  BY DEF RcvIdentityAssignAck, NoAssignment
<1>4. /\ assignment[p].tpui \in Identity /\ assignment[p].carries \in {"tpui", "nwk"}
      /\ ldb[p].known
  BY <1>1, <1>3, Phases DEF IInv, TypeOK
<1>5. ldb' = [ldb EXCEPT ![p] = [@ EXCEPT !.tpui = assignment[p].tpui, !.valid = TRUE]]
  BY <1>4 DEF RcvIdentityAssignAck, LteUpdateTpui
<1>6. /\ ldb' \in [Portable -> Entry]
      /\ ldb'[p].tpui = assignment[p].tpui /\ ldb'[p].known
      /\ \A q \in Portable \ {p} : ldb'[q] = ldb[q]
  BY <1>1, <1>4, <1>5
<1>7. UNCHANGED <<tpui, down, unheard>>
  BY DEF RcvIdentityAssignAck
<1>8. /\ astray' \subseteq Portable
      /\ \A q \in Portable \ {p} : q \in astray' <=> q \in astray
      /\ assignment[p].carries = "nwk" => p \in astray'
  BY DEF IInv, TypeOK, RcvIdentityAssignAck
<1>9. TypeOK'
  BY <1>2, <1>3, <1>6, <1>7, <1>8 DEF IInv, TypeOK
<1>10. TableAgrees'
  <2> SUFFICES ASSUME NEW q \in Foreign PROVE Agree(q)'
    BY DEF TableAgrees
  <2>1. CASE q = p
    BY <1>3, <1>4, <1>6, <1>7, <1>8, <2>1 DEF IInv, Taken, Agree
  <2>2. CASE q # p
    BY <1>2, <1>6, <1>7, <1>8, <2>2, ForeignPortables DEF IInv, TableAgrees, Agree
  <2> QED
    BY <2>1, <2>2
<1>11. assignment'[p].phase = "none"
  BY <1>2 DEF NoAssignment
<1>12. Taken'
  BY <1>2, <1>7, <1>11, ForeignPortables DEF IInv, Taken
<1> QED
  BY <1>9, <1>10, <1>12 DEF IInv

LEMMA FailKeeps == ASSUME IInv, NEW p \in Portable, AssignmentFails(p) PROVE IInv'
<1>1. assignment \in [Portable -> Assignment] /\ NoAssignment \in Assignment
  BY DEF IInv, TypeOK, Assignment
<1>2. /\ assignment' \in [Portable -> Assignment]
      /\ assignment'[p] = NoAssignment /\ assignment'[p].phase = "none"
      /\ \A q \in Portable \ {p} : assignment'[q] = assignment[q]
  BY <1>1 DEF AssignmentFails, NoAssignment
<1>3. /\ astray \subseteq astray' /\ astray' \subseteq Portable
      /\ assignment[p].phase = "acknowledged" => p \in astray'
      /\ UNCHANGED <<ldb, tpui, down, unheard>>
  BY DEF IInv, TypeOK, AssignmentFails
<1>4. TypeOK'
  BY <1>2, <1>3 DEF IInv, TypeOK
<1>5. TableAgrees' /\ Taken'
  BY <1>2, <1>3, ForeignPortables DEF IInv, TableAgrees, Agree, Taken
<1> QED
  BY <1>4, <1>5 DEF IInv

LEMMA RestartPortableKeeps == ASSUME IInv, NEW p \in Portable, RestartPortable(p) PROVE IInv'
<1>1. /\ assignment \in [Portable -> Assignment] /\ NoAssignment \in Assignment
      /\ tpui \in [Portable -> Identity] /\ Blank \in Identity
  BY DEF IInv, TypeOK, Assignment, Identity
<1>2. /\ assignment' \in [Portable -> Assignment] /\ tpui' \in [Portable -> Identity]
      /\ assignment'[p] = NoAssignment /\ assignment'[p].phase = "none"
      /\ \A q \in Portable \ {p} : assignment'[q] = assignment[q] /\ tpui'[q] = tpui[q]
  BY <1>1 DEF RestartPortable, NoAssignment
<1>3. astray' = astray \cup {p} /\ down' = down \ {p} /\ UNCHANGED <<ldb, unheard>>
  BY DEF RestartPortable
<1>4. TypeOK'
  BY <1>2, <1>3 DEF IInv, TypeOK
<1>5. TableAgrees' /\ Taken'
  BY <1>2, <1>3, ForeignPortables DEF IInv, TableAgrees, Agree, Taken
<1> QED
  BY <1>4, <1>5 DEF IInv

LEMMA RestartBaseKeeps == IInv /\ RestartBase => IInv'
<1> SUFFICES ASSUME IInv, RestartBase PROVE IInv'
  OBVIOUS
<1>1. TypeOK'
  BY DEF IInv, TypeOK, RestartBase, NoEntry, Assignment, Identity
<1>2. \A p \in Foreign : ~ldb'[p].valid /\ assignment'[p].phase = "none"
  BY ForeignPortables DEF RestartBase, NoEntry, NoAssignment
<1> QED
  BY <1>1, <1>2 DEF IInv, TableAgrees, Agree, Taken

LEMMA BroadcastKeeps == ASSUME IInv, NEW what, Broadcast(what) PROVE IInv'
BY DEF IInv, Broadcast, TypeOK, TableAgrees, Agree, Taken

LEMMA HearKeeps == ASSUME IInv, NEW p \in Portable, Hear(p) PROVE IInv'
<1>1. assignment \in [Portable -> Assignment] /\ NoAssignment \in Assignment
  BY DEF IInv, TypeOK, Assignment
<1>2. UNCHANGED <<ldb, tpui>> /\ unheard' = unheard \ {p}
  BY DEF Hear
<1>3. CASE answer'.did = Dead
  <2>1. /\ down' = down \cup {p} /\ astray' = astray \cup {p}
        /\ assignment' = [assignment EXCEPT ![p] = NoAssignment]
    BY <1>3 DEF Hear
  <2>2. /\ assignment' \in [Portable -> Assignment]
        /\ assignment'[p] = NoAssignment /\ assignment'[p].phase = "none"
        /\ \A q \in Portable \ {p} : assignment'[q] = assignment[q]
    BY <1>1, <2>1 DEF NoAssignment
  <2>3. TypeOK'
    BY <1>2, <2>1, <2>2 DEF IInv, TypeOK
  <2>4. TableAgrees' /\ Taken'
    BY <1>2, <2>1, <2>2, ForeignPortables DEF IInv, TableAgrees, Agree, Taken
  <2> QED
    BY <2>3, <2>4 DEF IInv
<1>4. CASE answer'.did # Dead
  <2>1. UNCHANGED <<down, astray, assignment>>
    BY <1>4 DEF Hear
  <2> QED
    BY <1>2, <2>1 DEF IInv, TypeOK, TableAgrees, Agree, Taken
<1> QED
  BY <1>3, <1>4

LEMMA StepInv == IInv /\ [Next]_vars => IInv'
<1> SUFFICES ASSUME IInv, [Next]_vars PROVE IInv'
  OBVIOUS
<1>1. ASSUME NEW p \in Portable, Register(p) PROVE IInv'
  BY <1>1, RegisterKeeps
<1>2. ASSUME NEW p \in Portable, NEW t \in Assignable, LocateRes(p, "tpui", t) PROVE IInv'
  BY <1>2, LocateKeeps DEF Identity
<1>3. ASSUME NEW p \in Portable, LocateRes(p, "nwk", Leftover) PROVE IInv'
  BY <1>3, LocateKeeps DEF Identity
<1>4. ASSUME NEW p \in Portable, IdentityAssignRes(p) PROVE IInv'
  BY <1>4, AcceptKeeps
<1>5. ASSUME NEW p \in Portable, IdentityAssignRej(p) PROVE IInv'
  BY <1>5, RejectKeeps
<1>6. ASSUME NEW p \in Portable, RcvIdentityAssignAck(p) PROVE IInv'
  BY <1>6, AckKeeps
<1>7. ASSUME NEW p \in Portable, AssignmentFails(p) PROVE IInv'
  BY <1>7, FailKeeps
<1>8. ASSUME NEW p \in Portable, RestartPortable(p) PROVE IInv'
  BY <1>8, RestartPortableKeeps
<1>9. CASE RestartBase
  BY <1>9, RestartBaseKeeps
<1>10. ASSUME NEW p \in Portable, NEW mcp \in Asked, Page(p, mcp) PROVE IInv'
  BY <1>10, BroadcastKeeps DEF Page
<1>11. CASE GroupRing
  BY <1>11, BroadcastKeeps DEF GroupRing
<1>12. ASSUME NEW f \in ForeignFrame, ForeignPage(f) PROVE IInv'
  BY <1>12, BroadcastKeeps DEF ForeignPage
<1>13. ASSUME NEW p \in Portable, Hear(p) PROVE IInv'
  BY <1>13, HearKeeps
<1>14. CASE UNCHANGED vars
  BY <1>14 DEF vars, IInv, TypeOK, TableAgrees, Agree, Taken
<1> QED
  BY <1>1, <1>2, <1>3, <1>4, <1>5, <1>6, <1>7, <1>8, <1>9, <1>10, <1>11, <1>12, <1>13, <1>14 DEF Next

LEMMA Invariant == Spec => []IInv
BY InitInv, StepInv, PTL DEF Spec

\* The state keeps its types: in particular nobody has an identity in the
\* table without having been registered, in whatever order links fail and
\* either side restarts (dect_lte_update_tpui finds an entry).
THEOREM TypeCorrect == Spec => []TypeOK
<1>1. IInv => TypeOK
  BY DEF IInv
<1> QED
  BY Invariant, <1>1, PTL

\* The base station pages a portable by the identity it holds, for any
\* number of portables and identities (mm.c:2492, mm.c:2589).
THEOREM AgreementCorrect == Spec => []TableAgrees
<1>1. IInv => TableAgrees
  BY DEF IInv
<1> QED
  BY Invariant, <1>1, PTL

-----------------------------------------------------------------------------
(***************************************************************************)
(* Who answers.  The invariant says what was broadcast, as the table may   *)
(* have changed when the page is heard: a page marked W has an identity    *)
(* of the table, another one the default identity of the portable.         *)
(***************************************************************************)

Frame(mcp, w, as) ==
    IF mcp = DefaultMcp THEN ShortPage(ServiceToHdr(mcp.service), w, Short(as))
    ELSE FullPage(ServiceToHdr(mcp.service), TRUE, BuildTpui(as), SlotCode[mcp.slot])

PageOK ==
    page.kind = "page" =>
        /\ page.to \in Portable /\ page.mcp \in Asked
        /\ \/ page.as \in Identity /\ page.frame = Frame(page.mcp, TRUE, page.as)
           \/ /\ page.as = DefaultTpui(IpuiOf[page.to], 0)
              /\ page.frame = Frame(page.mcp, FALSE, page.as)

LEMMA PageInit == Init => PageOK
BY DEF Init, PageOK, NoPage

LEMMA PageStep == IInv /\ PageOK /\ [Next]_vars => PageOK'
<1> SUFFICES ASSUME IInv, PageOK, [Next]_vars PROVE PageOK'
  OBVIOUS
<1>1. ASSUME NEW p \in Portable, NEW mcp \in Asked, Page(p, mcp) PROVE PageOK'
  <2>1. /\ page' = [kind |-> "page", to |-> p, as |-> PageTpui(ldb, p), mcp |-> mcp,
                    frame |-> LcePage(p, mcp)]
    BY <1>1 DEF Page, Broadcast
  <2>2. LcePage(p, mcp) = Frame(mcp, ldb[p].valid, PageTpui(ldb, p))
    BY DEF LcePage, Frame, SendShortPage, SendFullPage
  <2>3. ldb[p].valid \in BOOLEAN /\ ldb[p].tpui \in Identity
    BY DEF IInv, TypeOK
  <2>4. CASE ldb[p].valid = TRUE
    <3>1. PageTpui(ldb, p) = ldb[p].tpui
      BY <2>4 DEF PageTpui
    <3> QED
      BY <2>1, <2>2, <2>3, <2>4, <3>1 DEF PageOK
  <2>5. CASE ldb[p].valid = FALSE
    <3>1. PageTpui(ldb, p) = DefaultTpui(IpuiOf[p], 0)
      BY <2>5 DEF PageTpui
    <3> QED
      BY <2>1, <2>2, <2>5, <3>1 DEF PageOK
  <2> QED
    BY <2>3, <2>4, <2>5
<1>2. CASE GroupRing \/ \E f \in ForeignFrame : ForeignPage(f)
  BY <1>2 DEF GroupRing, ForeignPage, Broadcast, PageOK
<1>3. CASE page' = page
  BY <1>3 DEF PageOK
<1>4. ASSUME NEW p \in Portable,
             \/ Register(p) \/ (\E t \in Assignable : LocateRes(p, "tpui", t))
             \/ LocateRes(p, "nwk", Leftover) \/ IdentityAssignRes(p) \/ IdentityAssignRej(p)
             \/ RcvIdentityAssignAck(p) \/ AssignmentFails(p) \/ RestartPortable(p) \/ Hear(p)
      PROVE  page' = page
  BY <1>4 DEF Register, LocateRes, IdentityAssignRes, IdentityAssignRej, RcvIdentityAssignAck,
              AssignmentFails, RestartPortable, Hear
<1>5. RestartBase \/ UNCHANGED vars => page' = page
  BY DEF RestartBase, vars
<1> QED
  BY <1>1, <1>2, <1>3, <1>4, <1>5 DEF Next

\* Only by the event of its descriptor does a portable hear a page.
LEMMA OnlyHear ==
    ASSUME IInv, [Next]_vars, NEW p \in Portable, p \in unheard, p \notin unheard'
    PROVE  Hear(p)
<1>1. ASSUME NEW q \in Portable, Hear(q) PROVE q = p
  BY <1>1 DEF Hear
<1>2. ASSUME NEW q \in Portable,
             \/ Register(q) \/ (\E t \in Assignable : LocateRes(q, "tpui", t))
             \/ LocateRes(q, "nwk", Leftover) \/ IdentityAssignRes(q) \/ IdentityAssignRej(q)
             \/ RcvIdentityAssignAck(q) \/ AssignmentFails(q) \/ RestartPortable(q)
      PROVE  FALSE
  BY <1>2 DEF Register, LocateRes, IdentityAssignRes, IdentityAssignRej, RcvIdentityAssignAck,
              AssignmentFails, RestartPortable
<1>3. ~ (GroupRing \/ (\E f \in ForeignFrame : ForeignPage(f))
           \/ \E q \in Portable, mcp \in Asked : Page(q, mcp))
  BY DEF GroupRing, ForeignPage, Page, Broadcast
<1>4. ~ (RestartBase \/ UNCHANGED vars)
  BY DEF RestartBase, vars
<1> QED
  BY <1>1, <1>2, <1>3, <1>4 DEF Next

\* No assigned identity is a default one.
LEMMA Kinds ==
    /\ \A t \in Identity : t.type = "assigned" /\ Short(t) # Cbi
    /\ \A ipui : DefaultTpui(ipui, 0).type = "default"
BY IdentityAssumption DEF Identity, DefaultTpui

\* The codes of the slots are different.
LEMMA SlotKnown ==
    ASSUME NEW slot \in Slot
    PROVE  InfoToSlot(SlotCode[slot]) = {slot}
BY DEF InfoToSlot, Slot, SlotCode

\* What a page says of a connection is what it can say.
LEMMA Understood ==
    ASSUME NEW mcp \in Mcp, mcp.service # "unknown"
    PROVE  LET hdr == ServiceToHdr(mcp.service)
           IN  /\ hdr \in KnownHdr /\ hdr # "unknown_ringing"
               /\ [service |-> HdrToService(hdr), slot |-> mcp.slot] = AsAsked(mcp)
<1> DEFINE hdr == ServiceToHdr(mcp.service)
<1>1. mcp = [service |-> mcp.service, slot |-> mcp.slot] /\ mcp.service \in Service
  BY DEF Mcp
<1>2. AsAsked(mcp) = [service |-> IF mcp.service \in {"in_min_delay", "in_normal_delay", "c_channel_only"}
                                  THEN mcp.service ELSE "unknown",
                      slot |-> mcp.slot]
  BY <1>1 DEF AsAsked
<1>3. /\ hdr \in KnownHdr /\ hdr # "unknown_ringing"
      /\ HdrToService(hdr) = IF mcp.service \in {"in_min_delay", "in_normal_delay", "c_channel_only"}
                             THEN mcp.service ELSE "unknown"
  BY <1>1 DEF Service, ServiceToHdr, HdrToService, KnownHdr
<1> QED
  BY <1>2, <1>3

\* A short page has the header of an ordinary call.
LEMMA ShortFrame ==
    ASSUME NEW mcp \in Mcp, NEW w \in BOOLEAN, NEW as
    PROVE  /\ Frame(mcp, w, as).form = "short" <=> mcp = DefaultMcp
           /\ mcp = DefaultMcp =>
                Frame(mcp, w, as) = [form |-> "short", hdr |-> "general_voice", w |-> w, info |-> Short(as)]
           /\ mcp # DefaultMcp =>
                Frame(mcp, w, as) = [form |-> "full", hdr |-> ServiceToHdr(mcp.service), w |-> TRUE,
                                     id |-> BuildTpui(as), slot |-> SlotCode[mcp.slot]]
<1>1. ServiceToHdr(DefaultMcp.service) = "general_voice"
  BY DEF ServiceToHdr, DefaultMcp
<1>2. CASE mcp = DefaultMcp
  <2>1. Frame(mcp, w, as) = [form |-> "short", hdr |-> "general_voice", w |-> w, info |-> Short(as)]
    BY <1>1, <1>2 DEF Frame, ShortPage
  <2> QED
    BY <1>2, <2>1
<1>3. CASE mcp # DefaultMcp
  <2>1. Frame(mcp, w, as) = [form |-> "full", hdr |-> ServiceToHdr(mcp.service), w |-> TRUE,
                             id |-> BuildTpui(as), slot |-> SlotCode[mcp.slot]]
    BY <1>3 DEF Frame, FullPage
  <2>2. Frame(mcp, w, as).form = "full"
    BY <2>1
  <2> QED
    BY <1>3, <2>1, <2>2
<1> QED
  BY <1>2, <1>3

\* A portable answers a page made for its identity, with what was asked for.
LEMMA OwnAnswer ==
    ASSUME IInv, PageOK, NEW p \in Portable, page.kind = "page", page.to = p,
           page.mcp.service # "unknown",
           page.as \in {tpui[p], DefaultTpui(IpuiOf[p], 0)}
    PROVE  RcvPage(p, page.frame) = Connect(AsAsked(page.mcp))
<1> DEFINE mcp == page.mcp
           f == page.frame
<1>1. mcp \in Mcp
  BY AskedAssumption DEF PageOK
<1>2. tpui[p] \in Identity
  BY DEF IInv, TypeOK
<1>3. PICK w \in BOOLEAN :
         /\ f = Frame(mcp, w, page.as)
         /\ w = TRUE => page.as = tpui[p]
         /\ w = FALSE => page.as = DefaultTpui(IpuiOf[p], 0)
  BY <1>2, Kinds DEF PageOK
<1>4. CASE mcp = DefaultMcp
  <2>1. f = [form |-> "short", hdr |-> "general_voice", w |-> w, info |-> Short(page.as)]
    BY <1>1, <1>3, <1>4, ShortFrame
  <2>2. RcvShortPage(p, f) = Connect(DefaultMcp)
    BY <1>3, <2>1 DEF RcvShortPage
  <2>3. AsAsked(mcp) = DefaultMcp
    BY <1>4 DEF AsAsked, DefaultMcp
  <2> QED
    BY <2>1, <2>2, <2>3 DEF RcvPage
<1>5. CASE mcp # DefaultMcp
  <2>1. f = [form |-> "full", hdr |-> ServiceToHdr(mcp.service), w |-> TRUE,
             id |-> BuildTpui(page.as), slot |-> SlotCode[mcp.slot]]
    BY <1>1, <1>3, <1>5, ShortFrame
  <2>2. f.form = "full" /\ f.hdr = ServiceToHdr(mcp.service) /\ f.w = TRUE /\ f.slot = SlotCode[mcp.slot]
    BY <2>1
  <2>3. mcp.slot \in Slot
    BY <1>1 DEF Mcp
  <2>4. InfoToSlot(f.slot) = {mcp.slot} /\ (CHOOSE slot \in InfoToSlot(f.slot) : TRUE) = mcp.slot
    <3>1. InfoToSlot(f.slot) = {mcp.slot}
      BY <2>2, <2>3, SlotKnown
    <3> QED
      BY <3>1
  <2>5. f.hdr \in KnownHdr /\ f.hdr # "unknown_ringing"
        /\ [service |-> HdrToService(f.hdr), slot |-> mcp.slot] = AsAsked(mcp)
    BY <1>1, <2>2, Understood
  <2> HIDE DEF f, mcp
  <2>6. RcvFullPage(p, f) = Connect(AsAsked(mcp))
    BY <2>2, <2>4, <2>5 DEF RcvFullPage
  <2> QED
    BY <2>2, <2>6 DEF RcvPage, f, mcp
<1> QED
  BY <1>4, <1>5

\* Another portable stays silent, if the page can tell the two apart.
LEMMA OthersAnswer ==
    ASSUME IInv, PageOK, NEW p \in Portable, page.kind = "page",
           page.frame.form = "short", ~Namesake(p)
    PROVE  RcvPage(p, page.frame) = Silent
<1>1. page.mcp \in Mcp
  BY AskedAssumption DEF PageOK
<1>2. PICK w \in BOOLEAN :
         /\ page.frame = Frame(page.mcp, w, page.as)
         /\ w = TRUE => page.as \in Identity
         /\ w = FALSE => page.as.type = "default"
  BY Kinds DEF PageOK
<1>3. page.frame = [form |-> "short", hdr |-> "general_voice", w |-> w, info |-> Short(page.as)]
  BY <1>1, <1>2, ShortFrame
<1>4. CASE w = TRUE
  <2>1. page.as.type = "assigned" /\ Short(page.as) # Cbi
    BY <1>2, <1>4, Kinds
  <2>2. Short(page.as) \notin {Short(tpui[p]), Cbi}
    BY <2>1 DEF Namesake
  <2> QED
    BY <1>3, <1>4, <2>2 DEF RcvPage, RcvShortPage
<1>5. CASE w = FALSE
  <2>1. Short(page.as) # Short(DefaultTpui(IpuiOf[p], 0))
    BY <1>2, <1>5 DEF Namesake
  <2> QED
    BY <1>3, <1>5, <2>1 DEF RcvPage, RcvShortPage
<1> QED
  BY <1>4, <1>5

LEMMA PageInvariant == Spec => [](IInv /\ PageOK)
<1>1. Init => PageOK
  BY PageInit
<1>2. PageOK /\ IInv /\ [Next]_vars => PageOK'
  BY PageStep
<1> QED
  BY <1>1, <1>2, Invariant, PTL DEF Spec

\* Whatever was assigned, lost and paged before, a portable that hears a page for
\* the identity it holds opens a link with the parameters that were asked for.
THEOREM PagedAnswersCorrect == Spec => PagedAnswers
<1> DEFINE A == \A p \in Portable :
         Hears(p, p) /\ page.mcp.service # "unknown" /\ page.as \in {tpui[p], DefaultTpui(IpuiOf[p], 0)}
            => answer'.did = Connect(AsAsked(page.mcp))
<1>1. IInv /\ PageOK /\ [Next]_vars => A
  <2> SUFFICES ASSUME IInv, PageOK, [Next]_vars, NEW p \in Portable, Hears(p, p),
                      page.mcp.service # "unknown",
                      page.as \in {tpui[p], DefaultTpui(IpuiOf[p], 0)}
               PROVE  answer'.did = Connect(AsAsked(page.mcp))
    OBVIOUS
  <2>1. Hear(p)
    BY OnlyHear DEF Hears
  <2>2. answer' = [who |-> p, did |-> RcvPage(p, page.frame)]
    BY <2>1 DEF Hear
  <2>3. RcvPage(p, page.frame) = Connect(AsAsked(page.mcp))
    BY OwnAnswer DEF Hears
  <2> QED
    BY <2>2, <2>3
<1>2. [](IInv /\ PageOK) /\ [][Next]_vars => [][A]_vars
  BY <1>1, PTL
<1> QED
  BY <1>2, PageInvariant, PTL DEF Spec, PagedAnswers

\* For any number of portables, no portable answers a short page for another from
\* which it can be told apart, whichever identities are assigned.
THEOREM OthersSilentCorrect == Spec => OthersSilent
<1> DEFINE A == \A p, q \in Portable :
         Hears(p, q) /\ p # q /\ page.frame.form = "short" /\ ~Namesake(p)
            => answer'.did = Silent
<1>1. IInv /\ PageOK /\ [Next]_vars => A
  <2> SUFFICES ASSUME IInv, PageOK, [Next]_vars, NEW p \in Portable, NEW q \in Portable,
                      Hears(p, q), page.frame.form = "short", ~Namesake(p)
               PROVE  answer'.did = Silent
    OBVIOUS
  <2>1. Hear(p)
    BY OnlyHear DEF Hears
  <2>2. answer' = [who |-> p, did |-> RcvPage(p, page.frame)]
    BY <2>1 DEF Hear
  <2>3. RcvPage(p, page.frame) = Silent
    BY OthersAnswer DEF Hears
  <2> QED
    BY <2>2, <2>3
<1>2. [](IInv /\ PageOK) /\ [][Next]_vars => [][A]_vars
  BY <1>1, PTL
<1> QED
  BY <1>2, PageInvariant, PTL DEF Spec, OthersSilent

=============================================================================
