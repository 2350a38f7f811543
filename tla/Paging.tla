------------------------------- MODULE Paging -------------------------------
(***************************************************************************)
(* Pages of a base station and the temporary identities they are addressed *)
(* to: the location table of the base station, the identity each portable  *)
(* holds, the assignment that crosses between the two (mm.c), and what is   *)
(* broadcast and understood (lce.c).                                       *)
(*                                                                         *)
(* A location registration carries an identity in LOCATE-ACCEPT.  The      *)
(* portable takes it and acknowledges; only then does the base station     *)
(* page by it.  The link may fail between the two and either side may      *)
(* restart, which empties the table or the identity.  Pages are lost for   *)
(* some portables and not for others.                                      *)
(*                                                                         *)
(* DataLink has the other half: who waits for the answer to a page, the    *)
(* page timer, and the link that a portable opens.                         *)
(***************************************************************************)
EXTENDS Naturals, FiniteSets, Identities

CONSTANTS Portable,
          Foreign,      \* those of another make, which read an assigned TPUI
          IpuiOf,       \* the IPUI of each portable
          Assignable,   \* the TPUIs that the application assigns
          Leftover,     \* what the union of an IPUI holds as a TPUI: any value
          Asked,        \* the connections that the application asks for
          ForeignFrame, \* pages of a base station of another make
          MaxUnderWay   \* bound on the assignments under way at one time

ASSUME PagingAssumption ==
    /\ Foreign \subseteq Portable
    /\ \A p \in Portable : IpuiOf[p].put = PutN

VARIABLES ldb,          \* base station: dh->ldb, the entry of each portable
          tpui,         \* portables: dh->tpui
          assignment,   \* the location registration with an identity under way
          down,         \* portables whose process has died
          page,         \* the page last broadcast, and for whom
          unheard,      \* the portables it has not reached
          answer,       \* what the portable did that heard it last
          astray        \* history: portables that may be paged by another identity
                        \* than theirs, since one of the two has not learnt of it

vars == <<ldb, tpui, assignment, down, page, unheard, answer, astray>>

-----------------------------------------------------------------------------
(* The parameters of a connection and the request page messages, b_fmt.h   *)

Service == {"in_min_delay", "in_normal_delay", "unknown", "c_channel_only",
            "ip_error_detection", "ipq_error_detection"}

SlotCode == [half |-> 0, long640 |-> 1, long672 |-> 2, full |-> 4, double |-> 5]

Slot == DOMAIN SlotCode

Mcp == [service : Service, slot : Slot]

ASSUME AskedAssumption == Asked \subseteq Mcp

\* A page by IPUI says nothing of them, and they are left zero.
ZeroMcp == [service |-> "zero", slot |-> "zero"]

DefaultMcp == [service |-> "in_min_delay", slot |-> "full"]

ServiceToHdr(service) ==
    CASE service = "in_min_delay" -> "general_voice"
      [] service = "in_normal_delay" -> "auxiliary"
      [] service = "unknown" -> "unknown_ringing"
      [] service = "c_channel_only" -> "u_plane_none"
      [] OTHER -> "general_purpose"

\* The other headers (escape, DPRS) are a BUG().
KnownHdr == {"u_plane_none", "unknown_ringing", "general_purpose", "general_voice", "auxiliary"}

HdrToService(hdr) ==
    CASE hdr = "u_plane_none" -> "c_channel_only"
      [] hdr = "general_voice" -> "in_min_delay"
      [] hdr = "auxiliary" -> "in_normal_delay"
      [] OTHER -> "unknown"

\* Codes that no slot has are a BUG() too.
InfoToSlot(code) == {slot \in Slot : SlotCode[slot] = code}

ShortPage(hdr, w, info) == [form |-> "short", hdr |-> hdr, w |-> w, info |-> info]
FullPage(hdr, w, id, slot) ==
    [form |-> "full", hdr |-> hdr, w |-> w, id |-> id, slot |-> slot]

\* Collective broadcast identifier
Cbi == 53247     \* 0xcfff

\* What fits into a short page
Short(t) == BuildTpui(t) % 65536

\* The identity of a portable that has none: dh->tpui of a new handle.
Blank == [type |-> "assigned", digits |-> [i \in 1..5 |-> 0]]

\* The identities that are assigned are individual ones, whose type is 0 and so is
\* that of an IPUI of type N, and none ends like the broadcast identifier.
ASSUME IdentityAssumption ==
    \A t \in Assignable \cup {Leftover, Blank} : t.type = "assigned" /\ Short(t) # Cbi

\* What a full page may have of an IPUI of type N
IpuiInfo(ipui) == (ipui.ipei.emc % 256) * 1048576 + ipui.ipei.psn

-----------------------------------------------------------------------------
(* The location table *)

NoEntry == [known |-> FALSE, valid |-> FALSE, tpui |-> Blank]

LteUpdate(table, p) == [table EXCEPT ![p].known = TRUE]

\* Mutant: the first identity stays.
LteUpdateTpuiOnce(table, p, t) ==
    IF table[p].known /\ ~table[p].valid
    THEN [table EXCEPT ![p] = [@ EXCEPT !.tpui = t, !.valid = TRUE]]
    ELSE table

LteUpdateTpui(table, p, t) ==
    IF table[p].known THEN [table EXCEPT ![p] = [@ EXCEPT !.tpui = t, !.valid = TRUE]]
    ELSE table

\* dect_tpui, and the default identity where it finds none
PageTpui(table, p) == IF table[p].valid THEN table[p].tpui ELSE DefaultTpui(IpuiOf[p], 0)

-----------------------------------------------------------------------------
(* Pages sent.  The set-up information of a full page is not looked at, and *)
(* nor is the flag for fast paging by sendmsg.                              *)

\* Mutant: the W flag is set for every page.
SendShortPageMarked(p, mcp) ==
    ShortPage(ServiceToHdr(mcp.service), TRUE, Short(PageTpui(ldb, p)))

SendShortPage(p, mcp) ==
    ShortPage(ServiceToHdr(mcp.service), ldb[p].valid, Short(PageTpui(ldb, p)))

SendFullPage(p, mcp) ==
    FullPage(ServiceToHdr(mcp.service), TRUE, BuildTpui(PageTpui(ldb, p)), SlotCode[mcp.slot])

LcePage(p, mcp) == IF mcp = DefaultMcp THEN SendShortPage(p, mcp) ELSE SendFullPage(p, mcp)

\* dect_lce_group_ring_req: the ring pattern is overwritten, and the header is
\* that of a page.
GroupRingPage == ShortPage("general_voice", TRUE, Cbi)

-----------------------------------------------------------------------------
(* Pages received: what portable q does about a page *)

Silent == [act |-> "silent"]
Ring == [act |-> "ring"]       \* LCE_GROUP_RING-ind
Dead == [act |-> "dead"]
\* dect_lce_send_page_response opens a link with these parameters.
Connect(mcp) == [act |-> "connect", mcp |-> mcp]

\* Mutant: the identity of the portable has its 20 bits, as in a full page.
RcvShortPageWide(q, f) ==
    LET t == IF f.w THEN tpui[q] ELSE DefaultTpui(IpuiOf[q], 0) IN
    IF f.hdr = "unknown_ringing"
    THEN IF ~f.w /\ f.info % 4096 = Cbi % 4096 THEN Ring ELSE Silent
    ELSE IF f.info = BuildTpui(t) \/ (f.w /\ f.info = Cbi) THEN Connect(DefaultMcp) ELSE Silent

RcvShortPage(q, f) ==
    CASE f.hdr = "unknown_ringing" ->
            IF ~f.w /\ f.info % 4096 = Cbi % 4096 THEN Ring ELSE Silent
      [] f.hdr # "unknown_ringing" /\ ~f.w ->
            IF f.info = Short(DefaultTpui(IpuiOf[q], 0)) THEN Connect(DefaultMcp) ELSE Silent
      [] OTHER ->
            IF f.info \in {Short(tpui[q]), Cbi} THEN Connect(DefaultMcp) ELSE Silent

\* The identity of a full page is compared in a condition that is never true,
\* so every portable answers.
RcvFullPage(q, f) ==
    CASE f.hdr = "unknown_ringing" -> IF ~f.w /\ f.id = Cbi THEN Ring ELSE Silent
      [] f.hdr # "unknown_ringing" /\ ~f.w ->
            IF f.id = IpuiInfo(IpuiOf[q]) THEN Connect(ZeroMcp) ELSE Silent
      [] OTHER ->
            IF f.hdr \in KnownHdr /\ InfoToSlot(f.slot) # {}
            THEN Connect([service |-> HdrToService(f.hdr),
                          slot |-> CHOOSE slot \in InfoToSlot(f.slot) : TRUE])
            ELSE Dead

RcvPage(q, f) == IF f.form = "short" THEN RcvShortPage(q, f) ELSE RcvFullPage(q, f)

-----------------------------------------------------------------------------
(* Location registration and identity assignment, mm.c.  A portable has at  *)
(* most one under way.                                                      *)

NoAssignment == [phase |-> "none"]

Up(p) == p \notin down

UnderWay == {p \in Portable : assignment[p] # NoAssignment}

\* MM_LOCATE-res or MM_ACCESS_RIGHTS-res that accepts, without an identity
Register(p) ==
    /\ Up(p) /\ assignment[p] = NoAssignment
    /\ ldb' = LteUpdate(ldb, p)
    /\ UNCHANGED <<tpui, assignment, down, page, unheard, answer, astray>>

\* MM_LOCATE-res that accepts with an identity, a TPUI or one of the network.
\* mp->tpui is set from the portable identity whatever its type.
LocateRes(p, carries, t) ==
    /\ Up(p) /\ assignment[p] = NoAssignment
    /\ Cardinality(UnderWay) < MaxUnderWay
    /\ ldb' = LteUpdate(ldb, p)
    /\ assignment' = [assignment EXCEPT ![p] = [phase |-> "accepted", carries |-> carries, tpui |-> t]]
    /\ UNCHANGED <<tpui, down, page, unheard, answer, astray>>

\* LOCATE-ACCEPT, and MM_IDENTITY_ASSIGN-res that accepts it.  This library's
\* parser leaves a TPUI zero, and it asserts that there is one.
IdentityAssignRes(p) ==
    /\ assignment[p].phase = "accepted"
    /\ IF p \notin Foreign /\ assignment[p].carries = "nwk"
       THEN /\ down' = down \cup {p}
            /\ assignment' = [assignment EXCEPT ![p] = NoAssignment]
            /\ UNCHANGED tpui
       ELSE /\ assignment' = [assignment EXCEPT ![p].phase = "acknowledged"]
            /\ tpui' = IF assignment[p].carries = "nwk" THEN tpui
                       ELSE [tpui EXCEPT ![p] = IF p \in Foreign THEN assignment[p].tpui ELSE Blank]
            /\ UNCHANGED down
    /\ UNCHANGED <<ldb, page, unheard, answer, astray>>

\* MM_IDENTITY_ASSIGN-res that rejects it: TEMPORARY-IDENTITY-ASSIGN-REJ
IdentityAssignRej(p) ==
    /\ assignment[p].phase = "accepted"
    /\ assignment' = [assignment EXCEPT ![p] = NoAssignment]
    /\ UNCHANGED <<ldb, tpui, down, page, unheard, answer, astray>>

\* TEMPORARY-IDENTITY-ASSIGN-ACK at the base station
RcvIdentityAssignAck(p) ==
    /\ assignment[p].phase = "acknowledged"
    /\ ldb' = LteUpdateTpui(ldb, p, assignment[p].tpui)
    /\ assignment' = [assignment EXCEPT ![p] = NoAssignment]
    /\ astray' = IF assignment[p].carries = "tpui" THEN astray \ {p} ELSE astray \cup {p}
    /\ UNCHANGED <<tpui, down, page, unheard, answer>>

\* The link fails, or the procedure of the base station times out.
AssignmentFails(p) ==
    /\ assignment[p] # NoAssignment
    /\ assignment' = [assignment EXCEPT ![p] = NoAssignment]
    /\ astray' = IF assignment[p].phase = "acknowledged" THEN astray \cup {p} ELSE astray
    /\ UNCHANGED <<ldb, tpui, down, page, unheard, answer>>

\* A new handle has its IPUI from the application, and no TPUI.
RestartPortable(p) ==
    /\ tpui' = [tpui EXCEPT ![p] = Blank]
    /\ assignment' = [assignment EXCEPT ![p] = NoAssignment]
    /\ down' = down \ {p}
    /\ astray' = astray \cup {p}
    /\ UNCHANGED <<ldb, page, unheard, answer>>

\* dect_lce_exit releases the entries of the table.
RestartBase ==
    /\ ldb' = [p \in Portable |-> NoEntry]
    /\ assignment' = [p \in Portable |-> NoAssignment]
    /\ astray' = {}
    /\ UNCHANGED <<tpui, down, page, unheard, answer>>

-----------------------------------------------------------------------------
(* Broadcasts.  A page that comes before the last one was heard by all is   *)
(* the loss of the last one for the others.                                 *)

NoPage == [kind |-> "none"]
NoAnswer == [who |-> "nobody", did |-> Silent]

Broadcast(what) ==
    /\ page' = what
    /\ unheard' = Portable
    /\ answer' = NoAnswer
    /\ UNCHANGED <<ldb, tpui, assignment, down, astray>>

\* The page timer, and the first page of dect_ddl_establish
Page(p, mcp) ==
    Broadcast([kind |-> "page", to |-> p, as |-> PageTpui(ldb, p), mcp |-> mcp,
               frame |-> LcePage(p, mcp)])

GroupRing == Broadcast([kind |-> "ring", frame |-> GroupRingPage])

ForeignPage(f) == Broadcast([kind |-> "foreign", frame |-> f])

\* dect_lce_bsap_event at portable q
Hear(q) ==
    /\ q \in unheard /\ Up(q)
    /\ unheard' = unheard \ {q}
    /\ answer' = [who |-> q, did |-> RcvPage(q, page.frame)]
    /\ down' = IF answer'.did = Dead THEN down \cup {q} ELSE down
    /\ assignment' = IF answer'.did = Dead THEN [assignment EXCEPT ![q] = NoAssignment]
                     ELSE assignment
    /\ astray' = IF answer'.did = Dead THEN astray \cup {q} ELSE astray
    /\ UNCHANGED <<ldb, tpui, page>>

-----------------------------------------------------------------------------

Init == /\ ldb = [p \in Portable |-> NoEntry]
        /\ tpui = [p \in Portable |-> Blank]
        /\ assignment = [p \in Portable |-> NoAssignment]
        /\ down = {}
        /\ page = NoPage
        /\ unheard = {}
        /\ answer = NoAnswer
        /\ astray = {}

Next == \/ \E p \in Portable : \/ Register(p)
                               \/ \E t \in Assignable : LocateRes(p, "tpui", t)
                               \/ LocateRes(p, "nwk", Leftover)
                               \/ IdentityAssignRes(p)
                               \/ IdentityAssignRej(p)
                               \/ RcvIdentityAssignAck(p)
                               \/ AssignmentFails(p)
                               \/ RestartPortable(p)
                               \/ \E mcp \in Asked : Page(p, mcp)
                               \/ Hear(p)
        \/ RestartBase
        \/ GroupRing
        \/ \E f \in ForeignFrame : ForeignPage(f)

Spec == Init /\ [][Next]_vars

-----------------------------------------------------------------------------
(* Properties                                                              *)

Identity == Assignable \cup {Leftover, Blank}

Assignment == {NoAssignment}
    \cup [phase : {"accepted", "acknowledged"}, carries : {"tpui", "nwk"}, tpui : Identity]

\* Types of the variables; only a portable that was registered has a TPUI in
\* the table, and only one that is up an assignment under way.
TypeOK ==
    /\ ldb \in [Portable -> [known : BOOLEAN, valid : BOOLEAN, tpui : Identity]]
    /\ tpui \in [Portable -> Identity]
    /\ assignment \in [Portable -> Assignment]
    /\ down \subseteq Portable /\ unheard \subseteq Portable /\ astray \subseteq Portable
    /\ \A p \in Portable : /\ ldb[p].valid \/ assignment[p] # NoAssignment => ldb[p].known
                           /\ p \in down => assignment[p] = NoAssignment

\* The TPUI by which the base station pages a portable is the one the portable
\* holds, but between its acknowledgement and the receipt of it (mm.c:2492,
\* mm.c:2589): an assignment that is rejected, fails half-way or is overtaken by
\* a restart of the base station leaves the two in agreement, unless the portable
\* alone has taken or lost its identity.  A portable with this library takes
\* the identity 00000 whatever it is assigned (s_msg.c:527), and is not meant.
Agree(p) ==
    ldb[p].valid /\ p \notin astray /\ assignment[p].phase # "acknowledged"
        => ldb[p].tpui = tpui[p]

TableAgrees == \A p \in Foreign : Agree(p)

\* Portable p hears a page for q.
Hears(p, q) ==
    /\ page.kind = "page" /\ page.to = q
    /\ p \in unheard /\ p \notin unheard' /\ page' = page

\* What a page can say of the parameters: three services have no header of
\* their own.
AsAsked(mcp) ==
    [mcp EXCEPT !.service = IF @ \in {"in_min_delay", "in_normal_delay", "c_channel_only"}
                            THEN @ ELSE "unknown"]

\* A portable that hears a page made for the identity it holds, assigned or
\* default, opens a link with the slot and the service that the base station
\* asked for, whether the page was short or full (lce.c:1268-1351 against
\* lce.c:1492-1605).  Not so for a connection of unknown service, whose header
\* says "ringing".
PagedAnswers ==
    [][\A p \in Portable :
         Hears(p, p) /\ page.mcp.service # "unknown" /\ page.as \in {tpui[p], DefaultTpui(IpuiOf[p], 0)}
            => answer'.did = Connect(AsAsked(page.mcp))]_vars

\* Two portables that a short page cannot tell apart: it has no room for the
\* first digit of a TPUI.
Namesake(p) == Short(page.as) = Short(IF page.as.type = "default" THEN DefaultTpui(IpuiOf[p], 0)
                                      ELSE tpui[p])

\* A portable answers no short page for another, neither by its assigned nor by
\* its default identity, but for those that end alike.  (Every portable answers
\* every full page, see lce.c:1595.)
OthersSilent ==
    [][\A p, q \in Portable :
         Hears(p, q) /\ p # q /\ page.frame.form = "short" /\ ~Namesake(p)
            => answer'.did = Silent]_vars

=============================================================================
