# libdect in TLA+

libdect implements the network layer of DECT, for base stations (FP) and
handsets (PP).  This directory models its protocol state machines in TLA+,
checks them with TLC and proves the central invariants with TLAPS.  Paths are
relative to the repository's directory `src/`.

The library is single-threaded and event driven: the application passes it
readable sockets and expired timers, calls its primitives (`MNCC_...-req`), and
is called back (`MNCC_...-ind`) from inside the handlers.  What is hard about it
is therefore not threads but *re-entrance* (an indication from which the
application requests something that changes or frees what the handler works on),
*crossing messages and timeouts*, and *shared links*: every protocol multiplexes
its transactions on data links, whose life the Link Control Entity decides from
what happens to the transactions.  Besides, every message passes through tables and
coders that are joined by position only, and some of what the two sides agree on (who
is paged by which identity) crosses links that may fail.  `BUG()` and `dect_assert`
abort the process.

## Inventory

| Component | State it keeps | Operations | Must be right | Modelled |
|---|---|---|---|---|
| Link Control Entity, `src/lce.c` | `dh->links`; per link: state, IPUI, socket, open transactions, message queue, SDU/page/release timers; `dh->page_transaction`; location table | open, send on, close transactions; connectionless send; establish directly or by paging; accept; receive and dispatch; release (normal, partial); shutdown | links are found, used, released and freed at the right moment; no message lost or reordered by the queue; nobody waits for ever; who is paged answers | `DataLink`, `LinkService`, `Paging` |
| Call Control, `src/cc.c` | per call: state, CC.01-CC.05, U-plane descriptor, transaction | nine requests and responses, one handler for every message, five timers, link shutdown | calls do not hang, are not half open, end on both sides | `CallControl` |
| Mobility Management, `src/mm.c` | per endpoint: link, two procedure slots (initiator, responder), current procedure | eleven procedures by priority, timeouts with one retransmission, cancellation, rebinding to another link | the more urgent procedure is current, the application is told of the end of what it asked for, once, and of nothing else, nothing works on a procedure that is gone | `MobilityManagement` |
| CISS, `src/ss.c` | endpoint with one transaction | set-up, facility, release | as for CC | its effect on links, in `DataLink` |
| CLMS, `src/clms.c` | none | segment, reassemble | a message arrives whole or not at all | `ConnectionlessService` |
| S-format messages, `src/s_msg.c` and the tables and structures of the protocols | none | build, parse and free by description | mandatory and repeated elements, direction, unknown and corrupt elements, what is freed | `SFormat`, `MessageDescriptions`, `MessageStructs`, `ElementCoding` |
| Information elements, `src/ie.c`, `dect/ie.h` | reference counts | hold, put, collections | what is built is what is parsed; freed once | `InformationElements`, `ElementCoding`, lists and freeing in `SFormat` |
| Identities, `src/identities.c` | none | pack, print, convert | what is packed is what is unpacked, mistakes are noticed | `Identities`, `ElementCoding` |
| Timers, `src/timer.c` | running or stopped | start, stop, run | stop only what runs | inside their owners |
| Keys and DSAA, `src/auth.c`, `src/dsaa.c` | none | algorithms | | no: a bit-level cipher |
| Handle, I/O, netlink, raw, keypad, utilities, debug | descriptors | wrappers and formatting | | no: no protocol state |
| ADPCM codec, examples | | | | no: third party, applications |

Interactions: CC, MM, CISS call `dect_transaction_open`, `dect_lce_send`,
`dect_transaction_close`; the LCE calls `open`, `rcv`, `shutdown`, `rebind` of
the protocol and `dl_establish_cfm`, `lce_page_response` of the application; CC and
CISS call the application, which calls them back.

`PROJECT.json` lists the hazards of the code at their lines, each with the
properties that watch it, or with the reason why none does yet.

## Modules

| Module | What it is |
|---|---|
| `LinkService` | what a fixed part's LCE promises to the protocols, abstractly |
| `DataLink` | the LCE: links, transactions, queue, timers, establishment, release, shutdown, callbacks; implements `LinkService` |
| `MCDataLink` | its instances for TLC |
| `DataLink_proofs` | theorems about `DataLink`, among them that it implements `LinkService` |
| `Paging` | location table, identity assignment, pages and who answers them |
| `MCPaging`, `Paging_proofs` | its instance, theorems about it |
| `CallControl` | one call between the two sides |
| `MCCallControl`, `CallControl_proofs` | its instances for TLC, theorems about it |
| `MobilityManagement` | the MM endpoints of the two sides of a link |
| `MCMobilityManagement` | its instances for TLC |
| `MobilityManagement_proofs` | theorems about `MobilityManagement`, for any requests and for those of a base station alone |
| `Identities` | ARI, IPEI, IPUI, TPUI, PMID and their packed and printed forms |
| `InformationElements` | structures and handlers of all information elements |
| `ElementCoding` | builders and parsers of elements |
| `MCElementCoding` | its samples |
| `ElementCodes_proofs`, `ElementCoding_proofs` | lemmas about each kind of element, theorems about `ElementCoding` |
| `MessageDescriptions`, `MessageStructs` | the tables and the C structures of all messages |
| `SFormat` | the engine that builds, parses and frees messages by those tables |
| `MCSFormat`, `SFormat_proofs` | its instance, theorems about it |
| `ConnectionlessService` | the fixed service of CLMS |
| `MCConnectionlessService`, `ConnectionlessService_proofs` | its instance, theorems about it |

### DataLink

`link` maps every link object to a record with the fields of
`struct dect_data_link`; `links` is the list `dh->links`; `callback` and `cur` name
the library call that waits for the application and the link it works on; `walk` has the
transaction that `dect_ddl_shutdown` is shutting down and the next one, which its loop has
read before (`Saved`).
Handlers are operators from record to record (or to the set of possible ones):
`CloseOutcomes` is `dect_transaction_close` with its fall-through,
`ReleaseOutcomes` is `dect_ddl_release`, `Accepted` the switch of
`dect_lce_send`, `Transferred` the core of `dect_ddl_complete_indirect_establish`.
A function that calls the application in its middle is two actions, one up to the
callback and one for the rest (`ConnectDone`/`DrainQueue`,
`PageResponse`/`IndirectDone`, `PageTimeout`/`PageFailed`, and one turn of the
loop of `dect_ddl_shutdown` for each `ShutdownNext`), between which the actions of
the application are enabled; all other events are not, since the library has one
thread.  In the loop of `dect_ddl_shutdown` the application runs while a transaction of CC
or MM is shut down; CISS and the LCE tell it nothing (`AppMayRun`).  The loop goes on with
what it has saved, and a transaction that is no longer on the list then is a crash
(`WalkBreaks`).  `dect_mm_shutdown` may complete another procedure than that of its
transaction, so a turn for MM may end in that crash; when it does is the matter of
`MobilityManagement`, which has the procedures.

Memory is part of the model: a destroyed link becomes `FREE` and may be allocated
again, or `FREED` while a timer that `dect_ddl_destroy` does not stop (page timer, an
overwritten release timer) still runs.  A failed assertion, a `BUG()`, the use of
freed memory or a corrupted list puts the record in a state of `Crashed`; the process
is dead from there on.  So crashes are behaviours of the model, not errors of it,
and the invariants say what holds in every other state, *including* the states on the
way to a crash.

Protocols above are abstracted to what they do to a link.  CC, CISS and MM differ in
the way they open (by IPUI or on a known link), in whether they send and close at
once (CC and MM), in their timers (only MM closes in silence) and in their
release mode.  Messages are numbered in the order in which a link accepts them.

Left out: retransmission, encryption indications, `dect_lce_exit`, failure of allocation and of `socket`/`connect`
before the link is in the list, and the rebinding of MM endpoints.

### LinkService

A link of the service is idle, establishing, up or leaving, with the messages it has
accepted and written.  While it is establishing it accepts messages; when it is up it has
written all of them in their order; `TakeOver` is the page response, by which a link the
portable opened takes the place of the one that was asked for.
`Service == INSTANCE LinkService WITH service <- ..., alive <- Running` in `DataLink` maps
each link object: `ESTABLISH_PENDING`, and `ESTABLISHED` until the callback that announces it
has returned and the queue is sent, are "establishing"; `RELEASED` and `RELEASE_PENDING` are
"leaving"; free and freed objects are "idle".  The mapping hides timers, pages,
transactions, sockets and callbacks.  It holds for a base station whose application does not
send from inside DL_ESTABLISH-cfm; with such a one the queue is overtaken.

### Paging

`ldb` is the location table of a base station, `tpui` the identity each portable holds,
`assignment` the location registration that carries a new identity: LOCATE-ACCEPT
(`LocateRes`) is answered by the application of the portable (`IdentityAssignRes`,
`IdentityAssignRej`), and the acknowledgement updates the table (`RcvIdentityAssignAck`).
In between the link may fail (`AssignmentFails`), and at any time either side may restart,
which empties `ldb` or `tpui`, as neither is kept.  A page is a short or a full message
(`LcePage`), heard by each portable at a time of its own or never; `RcvPage` is what
`dect_lce_rcv_short_page` and `dect_lce_rcv_full_page` do about it: silence, a ring, a
link with some parameters, or a `BUG()`.  Pages of other base stations have the forms
this library does not send.

Portables are of another make (`Foreign`), which read the TPUI in LOCATE-ACCEPT, or run
this library, whose parser leaves it zero (`s_msg.c:527`).  `astray` is a history variable:
the portables that took or lost an identity when the base station could not learn of it.
`DataLink` has the other half of paging, the pending link and the page timer.
Abstractions: the identity of a portable is of type N; an
assignment is over before the next one of the same portable begins; set-up information and
fast paging are not looked at by any receiver.

### CallControl

Both sides run the library.  For each side: the `struct dect_call` (state, set of
running timers, U-plane descriptor, and `crash` when an assertion fails or a
destroyed call is used), the messages on their way to it, the application's `view`
of the call, and the `indication` whose handler continues when the application
returns.  The LCE below is the link of `DataLink` seen from one transaction: reliable
and ordered until it fails; a failure is reported on the two sides separately, and
what was on its way is lost.

`cc.c` does not check the order of requests, so the model must say what an
application does: `view` follows from the primitives exchanged, `Answers` orders
the answers to a call as `example/fp-cc.c` and `example/pp-cc.c` use them, and a
request is enabled only where its application may believe the call to be.  `Optional`
says which optional requests each application uses, `Callers` who may call; `caller` is
who did.  Requests from inside an
indication are possible, which is how a handler comes to write to a call that is gone
(`Return`).

Abstractions: a send fails only after the peer's link is down; messages carry their
type and one bit, "in-band information available"; the opposite progress
indication is not sent; there is one call, so a transaction value is not used
again; messages that change nothing (NOTIFY, IWU-INFO, CRSS, SERVICE-CHANGE) are
left out.

### MobilityManagement

Both sides run the library on one link.  An endpoint (`struct dect_mm_endpoint`) has a
slot for the procedure it initiated and one for the procedure it answers; `current`
is the more urgent of them, and the code works on `current` nearly everywhere.
Priorities are the table `dect_mm_proc`.  `open` is the endpoint's part of the link's
list of transactions, in its order, because messages are dispatched by it and
`dect_ddl_shutdown` and `dect_ddl_encrypt_ind` walk along it.  `Initiate`, `Respond`
and `Complete` are `dect_mm_procedure_initiate`, `_respond` and `_complete`; one action
stands for each request, response and handler of a message, the handlers of an
accepting and a rejecting answer being one action where they agree.  As in
`CallControl` a crash is a state: a NULL current procedure, a list entry linked or
unlinked twice, a message on a closed transaction, the assertion in
`dect_mm_identity_assign_res`.

`app` is the account of what the application has been told: what it has asked for
without having been told the end, which indications it owes an answer, and whether it
was told of an end it had not asked for (`stray`).  The application of the model
answers when its own requests have ended, as `example/fp-mm.c` does; it may answer
long after the library has given up, and after the link has failed.  `Requests` says
what each side requests, `Faulty` which side fills messages in such a way that they
cannot be built or are rejected by the receiver.

Abstractions: a message is its procedure, whether it requests, accepts or rejects, the
role of its sender, whether it is valid, and the new identity of a LOCATE-ACCEPT;
the result of the ciphering of the MAC layer is a message to the initiator of the
procedure; the timer of a procedure may expire at any moment; the application acts
between handlers, not inside indications.  Left out: the release of the link after
the last transaction, its destruction and rebinding with the endpoint (the link of
the model lasts until it fails), and an identity assigned without a portable
identity.

### SFormat, MessageDescriptions, MessageStructs

`MessageDescriptions` has the 48 tables of `DECT_SFMT_MSG_DESC` and `MessageStructs` the
pointers of the structures the tables are walked along with; nothing in C joins the two
but their order.  `SFormat` takes a message and a side: `BuildElements` and `BuildEnd`
are `dect_build_sfmt_msg`; `Disturb` makes of the message one that another stack would
send (an element corrupt, truncated, empty, missing, moved or foreign); `Truncated`,
`PastEnd`, `Refused`, `ParseElement` and `Finish` are the outcomes of one turn of
`dect_parse_sfmt_msg`; `Free` is `dect_msg_free`.  Contents are abstracted to the name of
the element and its form (`ok`, a text of several characters, without contents, not
buildable), since the engine tells no more apart.  `Address` counts structure fields in
words, lists having four, because `dect_next_ie` and `dect_msg_free` step through memory; a
handler that frees with the table of another message (`FreedAs`; `cc.c:1544`) reads at
the addresses of that.

### InformationElements, ElementCoding, Identities

`InformationElements` has the structure of every element as a set of records, and
`dect_ie_handlers`.  `ElementCoding` has a builder and a parser for each as operators on
sequences of octets, the headers, and a run in which an application's element is built,
parsed by the peer and relayed (built and parsed again), or octets of another stack are
parsed.  `Identities` has the packed and printed forms; the 40 to 100 bits of an identity
are sequences of bits.  The bit operators of C are arithmetic: `Ended` sets bit 8 of an
octet, `HasBit` tests a bit, `Either` joins two nibbles, and what the code joins with `|` from
fields that do not overlap is a sum.  The number that digits stand for, in any base, is the
recursive function in `Positional`.

### ConnectionlessService

A message is a sequence of octets, on the way a sequence of sections.  `SendFixed` and
`ReceiveFixed` are `dect_clms_send_fixed` and `dect_clms_rcv_fixed`; sections are lost, the
reception ends early, or neighbours are exchanged (`Lose`, `Cut`, `Swap`, at most `MaxFault`
times); other stacks use other header codes, discriminators and lengths.  The address in a
section is left out, as the receiver does not look at it.

## Runs

Sizes are distinct states.

| Run | Instance | Shows |
|---|---|---|
| `link_paging` (28,821) | FP, one paged peer, CC, two links | `TypeOK`, `NothingStuck`, `InOrder`, `SduTimeoutSafe`, `LifeCycle`, under fairness `EstablishmentEnds` and `ReleaseEnds`, and the refinement `ServiceProvided` |
| `link_portable` (115,739) | PP, CC, CISS and MM, pages received, application sends in callbacks | `WalkIntact`, `OwnTvUnique` with re-entrance |
| `paging` (303,623) | two portables, of another make and with this library; four kinds of connection, identities that end alike, foreign pages | `TableAgrees`, `PagedAnswers`, `OthersSilent` with lost acknowledgements, lost pages and restarts |
| `call` (66,131) | calls from either side, FP uses every answer, PP rings before it answers, link may fail | `NoHang`, `NoHalfOpen`, `ActiveCallLasts`, `UplaneClosed`, and under fairness `ReleaseEnds`, `SetupEnds` |
| `mm_any` (201,307) | any two requests of the two sides, faulty messages, link may fail | `CurrentMostUrgent`, `InitiatorHasTransaction`, `ResponderHasTransaction` |
| `mm_fixed` (24,785) | FP requests three times among four procedures, late answers, faulty messages | `NoCrash`, `ConfirmedOnce`, `RequestTimed`, and under fairness `RequestEnds` |
| `sfmt_messages` (139,966) | all 48 messages in both directions, full, minimal and wrong structures, one disturbance of six kinds | `FieldTypesMatch`, `DeliveredAsSent`, `MandatoryDelivered`, `OnlyListsLeak` |
| `sfmt_elements` (65,894) | elements at the ends and in the middle of their fields, all combinations of flags, foreign octets of every length | `ElementFramed`, `ElementSurvives`, `LossHappensOnce`, `WithinArrays`, `IdentityForms` |
| `clms_fixed` (125,418) | lengths around every limit, foreign codings, two disturbances | `WholeOrNothing`, `FiveSections` |

Bounds.  Two link objects are the least with which one link stands for another
(page response), a second link to the same peer exists, and memory is reused.  One
peer suffices for these, since peers only meet in lookups by IPUI.  Two transactions
and two messages per link give the queue an order and the list of transactions a
neighbour; `PageMax = 3` is the constant of the code.  `MaxLeak = 1` allows one
overwritten release timer; the process crashes on it when it fires late.
`MaxTv` is 1 or 2 instead of the 7 of CC and CISS, so that values run out.  For calls
`MaxInfo = 1`: one CC-INFO of each side may cross everything else.  In `mm_any` there
are two requests (`MaxRequests = 2`) of any kind, of one side or of both, besides the
answers that are requests themselves: enough for one procedure inside another, of the
peer or of the same side, and for every handler to run; `mm_fixed` has three, the
least with which a procedure meets the late answer of an earlier one after the only
retransmission has been used up.  `link_assert` has two calls and three messages for them, a
set-up each and one that ends a call; `link_bugsend` has two messages, of the call that fails
and of the one made when it is reported.  Deadlock is not
checked, as the process may be dead, the bounds may be reached, and a call that is
over has no successor.

`paging` has one assignment under way at a time (`MaxUnderWay = 1`), as assignments of two
portables share nothing but their table entries; two portables are the least with which
one can answer for another, and their identities are chosen so that a default identity, an
assigned one and the identity 00000 meet in the 16 bits of a short page.  In
`sfmt_messages` a structure differs from the minimal one in one or two fields, or has all:
the parser's state is its place in the table, so two elements give every distance between
an element and the next; one disturbance suffices for the same reason.  `sfmt_elements`
takes each field at both ends and in between rather than every value; builders are
field-wise but for the flags, which are combined.  `clms_fixed` has lengths at 0, 1, around
one section (4), two (8), five (20), eight (32, where the number and the length wrap) and
beyond, with `MaxFault = 2`.

Fairness.  The application supplies the event loop, which must run every expired
timer and report every readable or connected socket; `dect_timer_run` and
`dect_fd_process` have no other way to work.  In `DataLink` a timer action is
disabled while a callback for another link is pending, so it is enabled again and
again rather than continuously, hence strong fairness for it.  Nothing makes a peer or
the application of `DataLink` act.  In `CallControl` the only obligation of an
application is to answer `MNCC_RELEASE-ind`, as both examples do at once; a failed
link is reported to the second side eventually.  In `MobilityManagement` messages are
read and timers expire; applications need not answer.

`UplaneClosed` is checked without in-band progress (`InBand = FALSE`).  With it a
base station that has sent "in-band information" and then rejects the call destroys
the call with its U-plane descriptor still registered (`cc.c:879`); the same
happens on CC.03.  `OwnTvUnique` is checked without paging: after an indirect
establishment two transactions may share a value, as theirs were chosen on two
links.  `ActiveCallLasts` speaks of calls from the PP: a called
PP that alerts or proceeds keeps CC.04 (`cc.c:978`) in the active call, and will release it.
`PagedAnswers` leaves out connections of unknown service and `OthersSilent` full pages, for
the reasons listed below; `TableAgrees` speaks of portables of another make, as those of
this library take the identity 00000.  The properties of
`mm_fixed` hold for procedures whose answers are checked by their handlers at an
endpoint that does not answer at the same time.  With key allocation, ciphering,
access rights or requests from both sides they fail, for the reasons listed below.

### What the code does otherwise

Each of these runs finds a state that a comment or an assertion of the code excludes.

| Run | Found |
|---|---|
| `link_assert` | A handset with two calls on a link that is being established ends one of them.  `dect_transaction_close` destroys the link under the other: `dect_assert` in `dect_ddl_destroy` fails |
| `link_bugsend` | The link of a call cannot be established, `dect_ddl_shutdown` reports the end of the call, and the application calls again from inside the indication.  The lookup by IPUI finds the link, which is `RELEASED`: `BUG()` |
| `call_ack` | CONNECT-ACK arriving after the PP has answered and hung up stops a timer that does not run |

The models reach more that no run states, since nothing in the code says the
opposite.  The hazards in `PROJECT.json` have the lines.

- `DataLink`: a page timer that fires for a freed link; a page response that matches a
  link being connected directly (no page timer to stop); a message on any link that
  closes the transaction for the page response; a link that stays up without
  transaction and timer after a connectionless message; a link that is down and not
  destroyed when its last transaction is not one of CC; an MM transaction that is no
  longer last after a transfer.
- `CallControl`: a call rejected inside `MNCC_INFO-ind`; a message that crosses RELEASE
  and starts a set-up timer again.
- `Paging`: a portable with this library takes 00000 for whatever TPUI it is assigned, and
  the base station pages it by another, so that a short page never reaches it
  (`s_msg.c:527`); after a lost acknowledgement or a restart of the portable neither
  does one of another make, until the next assignment.  Every portable answers every full
  page (`lce.c:1591`).  A connection of unknown service is paged with the header for
  ringing, to which no portable opens a link (`lce.c:1160`); a group ring has the header of
  a page and no pattern, so that portables answer it instead of ringing (`lce.c:1246`).
  Two portables whose TPUIs differ in the first digit answer the same short page.  The
  assignment of a network identity alone makes a TPUI of the octets of an IPUI
  (`mm.c:1975`), and lets a portable with this library assert (`mm.c:2491`).
- `SFormat`: elements of lists are parsed, never attached and never freed
  (`s_msg.c:2542`); a list of several elements makes the parser pass over elements that
  follow; an empty mandatory list is built without error and always rejected; a repeat
  indicator with a wrong type makes the parser free a static variable; a failing parse
  leaks what it has built; a mandatory element of variable length without contents is
  accepted with a NULL field; `-1` is both a general error and
  `DECT_SFMT_MANDATORY_IE_MISSING`; CC-SERVICE-CHANGE and CC-SERVICE-REJECT are freed with
  the table of CC-CONNECT-ACK.
- `ElementCoding`: values that builder and parser disagree about (`Exact` lists them): the
  lock of a duration, the type of a proprietary authentication, which grows with each
  relay, the mask of a terminal's last profile octets (`s_msg.c:1605`), presentation
  indicators, the routing of codecs, TPUIs, an IPUI of type O that is no whole number of
  octets.  An assigned PMID that has the leading bits of a default or an emergency one is
  packed without a mark of its type and read as that one (`identities.c:436`).
- `ConnectionlessService`: a message without octets arrives as one octet; from 21 octets on
  nothing undisturbed arrives; from 33 octets on the length has wrapped, and a reception
  that ends early can pass for a short message.
- `MobilityManagement`: MM-INFO-SUGGEST ends the request that a portable part is waiting
  for, whose confirmation never comes (`mm.c:2939`); DETACH completes its procedure twice
  when it is received, and the second time there may be none; a refused request leaves its
  transaction on the link (`mm.c:3234`), and when the link fails, shutting it down
  completes the current procedure, whose transaction the loop of `dect_ddl_shutdown` has
  saved as the next; an MM_IWU request is sent on `current`, which may be none; answers
  that are late, CIPHER-REJECT and ACCESS-RIGHTS among them, end another procedure than
  their own, and so does a timeout; a request that cannot be built leaves its transaction
  on the link.

## Proofs

Every safety property that a run checks is a theorem too, for all values of the constants that
the assumptions named below allow.
What the runs leave to the prover is the size: any numbers of links, peers, portables,
transactions, requests and messages in flight, tables other than those there are, and
all values of all fields of an element.

### DataLink

`DataLink_proofs` proves, for any sets of links and peers, any bounds and either
mode:

| Theorem | Statement |
|---|---|
| `Invariance` | `Spec => []IndInv` |
| `TypeCorrect` | `Spec => []TypeOK` |
| `SduTimeoutIsSafe` | `Spec => []SduTimeoutSafe` |
| `NoLinkStuck` | `Spec => []NothingStuck` |
| `MessagesInOrder` | `Spec => []InOrder` |
| `LifeCycleHolds` | `Spec => LifeCycle` |
| `WalkIntactCorrect` | `Spec => []WalkIntact` |
| `OwnTvUniqueCorrect` | `NoPaging` implies `Spec => []OwnTvUnique` |

The only assumption is `DataLinkAssumption` on the constants, evaluated by every run.
`NoPaging` (a portable, or a base station that pages nobody) is the hypothesis under which
the run checks `OwnTvUnique`; without it the property is false (see the hazards).

*Argument.*  None of the invariants is inductive alone.  `SduTimeoutSafe` needs that a
free object has no peer and no transactions, or an allocation could inherit them
(`Vacant`).  `InOrder` speaks of pending and established links but is broken between
the two: during DL_ESTABLISH-cfm the link is established and its queue not yet sent,
so the invariant carries that the queue is still complete and nothing has been
written (`BeforeDrain`), for which the application must not send from the
callback (`~ CfmSends`); with `CfmSends` the queue itself stays ordered, the socket
does not.  `NothingStuck` needs that a link in `callback = "page_failed"` is the one
`cur` names.  `IndInv` is their conjunction.

*Layout.*  `RecordOK` is the part of `IndInv` that speaks of one record, and
`Evolves(d, e)` says that a handler takes a good record to a good one that respects the
life cycle.  One lemma for each operator (`EvolvesClose`, `EvolvesRelease`, ...)
shows that it evolves; three generic lemmas (`OneEvolves`, `AllEvolve`, `AddKeeps`)
lift that to a step of the whole table; one lemma for each action puts the two
together, and only those in which a link changes its role together with the
callback (`ConnectDone`, `DrainQueue`, `PageTimeout`, `PageFailed`,
`PageResponse`) have an argument of their own.  Each lemma about an action concludes
`IndInv' /\ LifeStep`, so `LifeCycle` follows from the same case split.

`OwnTvUnique` is inductive together with "no page timer runs" (`Tidy`), since then no
link takes over the transactions of another one; a new value is unlike the others by
`dect_transaction_alloc_tv`, and what is removed or appended keeps the rest apart.

`WalkIntact` says that the pointer which the loop of `dect_ddl_shutdown` has saved stays good
while the application runs.  It is inductive with `IndInv`.  The link in the loop is
`RELEASED`: a message on it ends the process, so that what the application does to it leaves
no state with a loop in it, and every other call of the application leaves the link as it was
(`AppWalk`); no event but the return of the callback is handled meanwhile.  A turn closes the
first transaction, after which the saved one is the first (`ReleasedClose`,
`ShutdownNextWalk`).

### LinkService

The second part of `DataLink_proofs` proves that the detailed LCE implements the abstract one, step by step:

| Theorem | Statement |
|---|---|
| `ServiceProvidedCorrect` | `FixedPart` implies `Spec => ServiceProvided` |

`FixedPart` (mode FP, no sending from inside DL_ESTABLISH-cfm) is what the run `link_paging`
instantiates; a portable, or an application that sends from the callback, has another
service, in which the queue is overtaken.

*Argument.*  The refinement mapping reads the accepted messages of a link from a counter and
the written ones from its socket, so that `InOrder` and `BeforeDrain` of `IndInv`, before and
after the step, give what the service has written.  `Serves(d, e)` says that a handler leaves
a link in its phase with at most one message more, begins its release, or ends it; `Quiet` is
the same without the message.  One lemma for each operator shows which it is; `OneServes`,
`SetServes`, `ReadServes` and `AddServes` make of that a step of the service (`Send`,
`Release`, `Gone`, `Die`, `Establish` or `Accept`) or a stutter.  Three steps are proved for
themselves: `DrainQueue` is `Confirm`, the first half of `ConnectDone` a stutter, and
`PageResponse` is `TakeOver`, which touches two links.  A received message touches one link
only because the page transaction is on none (`Owned`).

### MobilityManagement

`MobilityManagement_proofs` proves, for any requests of the two applications, any
faults and any number of requests:

| Theorem | Statement |
|---|---|
| `Invariance` | `Spec => []IndInv` |
| `TypeCorrect` | `Spec => []TypeOK` |
| `CurrentIsMostUrgent` | `Spec => []CurrentMostUrgent` |
| `InitiatorTransaction` | `Spec => []InitiatorHasTransaction` |
| `ResponderTransaction` | `Spec => []ResponderHasTransaction` |

The only assumption is `MobilityManagementAssumption`.

*Argument.*  `IndInv` says of each endpoint that it is well typed, that its current
procedure is the more urgent one, and which transactions it has (`EndpointOK`).
The parts need each other.  A message carries the role of the current procedure, so
`net` is well typed only because a handler that sends has one, by `CurrentMostUrgent`.
`dect_mm_procedure_initiate` links a transaction only where there is none, by
`InitiatorHasTransaction`.  `MM_LOCATE-res` relabels its procedure after it has sent
the answer, which leaves a consistent endpoint only because a location registration
has a transaction to send on, by `ResponderHasTransaction`; a request taken on a known
transaction, AUTHENTICATION or CIPHER, may have none, hence the exception there.

*Layout.*  One lemma for each of `Initiate`, `Respond`, `Complete`, `Sent`,
`Opened`, the walks `AllEncrypted` and `ShutdownAll` and the two relabellings shows
that it keeps `EndpointOK`; the endpoint of a dead process satisfies it too, so crashes
need no case of their own.  `SetKeeps` lifts that to a step; one lemma for each kind
of handler applies it, and the handlers that are instances of a kind follow.

The second part of the module proves, for any number of requests and any faults, what holds
when only the base station requests, and only procedures whose answers their handlers check
(`BaseStation`, which the run `mm_fixed` instantiates):

| Theorem | Statement |
|---|---|
| `NoCrashCorrect` | `BaseStation`, `~ MayFail` imply `Spec => []NoCrash` |
| `ConfirmedOnceCorrect` | `BaseStation` implies `Spec => []ConfirmedOnce` |
| `RequestTimedCorrect` | `BaseStation` implies `Spec => []RequestTimed` |

`ConfirmedOnce` counts what the application has asked for by its kind, as the code does: the
transaction value of MM is always 0, so that a late answer to an identity request that has
timed out confirms the next identity request, in the model as in the code.

*Argument.*  The two sides play different parts (`Parts`).  The one that asks has never a
procedure to answer, and its timer runs exactly while its procedure lasts (`Asker`); its
application waits for that procedure and no other (`Awaits`).  The one that answers never
starts a procedure, and one it answers has a transaction and a link (`Answerer`); its
application owes at most that answer (`Owes`).  Only questions travel one way and replies the
other (`Traffic`): thus a late reply meets an endpoint that either works on the procedure of
the reply or ignores it.  When the link fails, the application of the portable still owes its
answer and giving it uses a procedure that is gone, which is the crash that `~ MayFail`
excludes.

### CallControl

`CallControl_proofs` proves, for either caller, any optional requests of the applications,
any number of CC-INFO messages and links that fail or not, with `CallControlAssumption`:

| Theorem | Statement |
|---|---|
| `Invariance` | `Spec => []IInv` |
| `TypeCorrect` | `Spec => []TypeOK` |
| `NoHangCorrect` | `Spec => []NoHang` |
| `NoHalfOpenCorrect` | `Spec => []NoHalfOpen` |
| `ActiveCallLastsCorrect` | `Spec => []ActiveCallLasts` |
| `UplaneClosedCorrect` | `~ InBand` implies `Spec => []UplaneClosed` |

*Argument.*  `NoHang` and `NoHalfOpen` compare the two sides when nothing is under way
between them, so the invariant must say what is under way at all other times.  `SideOK` ties
the state of a call to what its application believes; `Roles` says what the calling and the
called side may send; `Channels` gives the order of what is on the way (a SETUP comes first,
the early answers before CONNECT); `Connection` says that a caller that takes itself for
connected faces a side that has decided.  `Proceeds` is the heart: while the link stands, a
side that has left is followed by a message that ends the call, or the other side is over as
well; a side that waits has a timer or a message coming.  `PortableCalls` and `FixedCalls`
have what depends on who calls, the timers above all.  The U-plane needs another invariant
(`Uplane`): without in-band information on the way (`Silent`) it is connected for a
connection only, when CC.03 does not run (`Fits`).

*Layout.*  `Moves`, `Gives` and `Takes` say what a step does to one side, to the messages it
sends and to those it receives; the lemmas `AnswerKeeps`, `InformKeeps`, `EarlyKeeps` and
`EndingKeeps` show for each kind of step that it keeps what is between the sides, and one
lemma for each action says of which kind it is.

### SFormat

`SFormat_proofs` proves, for any messages, tables, structures, elements and disturbances:

| Theorem | Statement |
|---|---|
| `TypeCorrect` | `Spec => []TypeOK` |
| `DirectionCorrect` | `Spec => []DirectionRespected` |
| `MandatoryCorrect` | `Spec => []MandatoryDelivered` |
| `InitialisedCorrect` | `Spec => []FieldsInitialised` |
| `OnlyListsLeakCorrect` | `Spec => []OnlyListsLeak` |
| `FieldTypesCorrect` | `Spec => []FieldTypesMatch` |
| `DeliveryCorrect` | `Spec => []DeliveredAsSent` |

The assumptions are what the engine takes for granted of the tables and structures it is
given; nothing in the code checks them, and the run evaluates them for the real ones.
`DescAssumption`: a repeat indicator comes before each repeated entry, and no table ends with
either.  `FormsAssumption`: only optional entries that are no list have a second name.
`DistinctAssumption`: an element that is sent is not taken for one that comes earlier in the
table, unless a mandatory one is between them.  `StructAssumption`: the structure has a
pointer of the right C type for every entry.  `FreedAssumption`: the table a structure is
freed with has all its pointers, but for the two messages named above.  `NameAssumption` and
`SourceAssumption` say what names and structures are.  So a table that is added is right if
it has these properties, whatever its messages.

*Argument.*  The parser passes the table once, so `IInv` says of the entries before `pos`
what the properties say of all: their fields are initialised, and the mandatory ones hold
an element (`Passed`).  A step of the parser ends in one of two ways, `GoOn` and `Fail`;
each action is an instance of what these keep, and `Finish` closes the gap to the end of
the table.  That a message without an empty element stays without one (`Sending`) is
needed because such an element counts as found.

For leaks and types the invariant is `Kept`: a field holds only what its own entry allows,
and only elements of repeated types have got lost.  For delivery it is `Faithful`: the
message is in the order of the table (`Carries`) and has, while it is parsed, exactly the
elements of the entries from `pos` on, so that the parser never passes over one.  The run has
structures that differ from the minimal one in one or two fields, the theorem has all.

### Paging

`Paging_proofs` proves, for any portables, identities and pages, with `PagingAssumption`,
`AskedAssumption` (the parameters of a connection are ones there are) and
`IdentityAssumption` (the TPUIs that are assigned are individual ones, and none ends like the
broadcast identifier, which `lce.c` does not check):

| Theorem | Statement |
|---|---|
| `TypeCorrect` | `Spec => []TypeOK` |
| `AgreementCorrect` | `Spec => []TableAgrees` |
| `PagedAnswersCorrect` | `Spec => PagedAnswers` |
| `OthersSilentCorrect` | `Spec => OthersSilent` |

*Argument.*  `TableAgrees` is not inductive: the base station writes what the
acknowledgement stands for, so the invariant must say that a portable that has acknowledged
a TPUI holds it (`Taken`), and that no entry has a TPUI without having been made
(`TypeOK`).  `UpdateKeeps` is the one lemma about the table.

The table may change between a page and the moment it is heard, so the invariant (`PageOK`)
is about what is on the air: a page marked W has an identity of the table, another one the
default identity of its portable, and the parameters are those that were asked for.
`OwnAnswer` and `OthersAnswer` follow from the form of the page alone (`ShortFrame`): the
type keeps assigned and default identities apart, and each header and slot code is read as
what it was written for (`Understood`).

### ConnectionlessService

`ConnectionlessService_proofs` proves, for any set of lengths the message buffer holds
(`LengthAssumption`) and any number of disturbances (`FaultAssumption`):

| Theorem | Statement |
|---|---|
| `WholeOrNothingCorrect` | `Spec => []WholeOrNothing` |
| `FiveSectionsCorrect` | `Spec => []FiveSections` |

*Argument.*  `WholeOrNothing` speaks of what was delivered; the invariant must say that the
wire holds nothing but sections of the message (`IInv`), because losing, cutting and swapping
change no section.  Each section bears its number, so sections accepted in the order of
their numbers are the first groups of the message, and up to 32 octets the length that the
address section gives has not wrapped (`Reassembled`).  For `FiveSections` the invariant is
that a message to which nothing has happened is on the wire as it was sent (`Untouched`).

### ElementCoding

`ElementCoding_proofs`, with the lemmas of `ElementCodes_proofs`, proves, for any elements and identities of their types that the
application gives (`GivenAssumption`) and any octets that the peer sends, up to the length
that an octet can give (`ReceivedAssumption`):

| Theorem | Statement |
|---|---|
| `InductiveInvariant` | `Spec => []IInv` |
| `EveryElementIsFramed` | `Spec => []ElementFramed` |
| `ElementsSurvive` | `Spec => []ElementSurvives` |
| `LossesHappenOnce` | `Spec => []LossHappensOnce` |
| `ParsersKeepWithinArrays` | `Spec => []WithinArrays` |
| `FormsAreRead` | `Spec => []IdentityForms` |

The run has samples, the theorems have all values.  `ElementsSurvive` is an
equivalence: what `Exact` says an element loses is all that it loses, for all values of all
its fields.

*Argument.*  The state machine is simple, and the work is in the pairs of builder and parser.
For each kind of element a lemma (`...Coded`) says that the contents fit into an element and
which value `p` is parsed from them.  For a terminal capability it has to know where three
groups of octets end that the peer determines by bit 8 (`GroupsOK`); for an identity, that
the bits that are put into octets are those that are read (`ReadBack`), and how many of a
number's bits are lost (`LostIs`).  `Sent` then says of every element the same: its octets are
framed, and the value that arrives is the one that was sent exactly if it is `Exact`
(`Arrives`).  The value that arrives is in `Settled`, whose values arrive without a change;
this is why losses happen once.  Durations, terminal capabilities and proprietary authentication
types do not settle, as `LossHappensOnce` says, and the values they grow to are outside their
types, so that `IInv` must allow what was parsed after a relay (`Values`).  `IInv` says that
the octets on the way are those of the element that was given, and that what was parsed is
what the parser makes of them.

`ParsersKeepWithinArrays` does not depend on the builders: every parser bounds what it reads,
or refuses the element, whatever the octets are (`ParsedWithin`).

For `FormsAreRead` the check digit is a weighted sum modulo eleven (`CheckDigitIs`), so that
changing the digit at place `k` by `d` changes it by `k * d`, and exchanging neighbours by
their difference.  Eleven is prime: neither is a multiple of it, except for `k = 11`
(`ChangeSeen`).

*Layout.*  A function that is defined recursively is given by a choice, and what it returns for
every input would take an induction.  None is needed: all numbers here have a bounded count of
digits (8 bits, 5, 7 or 12 digits), and the function is unfolded that many times, after
`ValueExists` has shown that it exists.  Powers of two are known to the provers for numerals only;
`Double` goes through them one by one.

### What the proofs changed

Two operators had a `CASE` whose guards overlap (`BuildResult` of `SFormat`, the headers of
`ElementCoding`).  In TLA+ that is a free choice, which TLC resolves in the order of writing
and the prover does not: `BuildResult` could not be shown to reject what the code rejects.
They are nested `IF`s now, as in the code.

Proving `ElementSurvives` and `IdentityForms` found two places where they said too little or
too much, and TLC had no sample that showed it.  `Exact` excluded every terminal capability
with a display memory whose low octet has bit 8; it does arrive, if all fields behind the
memory are zero, because the parser reads a group that has ended as zeros.  A packed PMID is
not always read as it was packed (`Ambiguous`).  The samples have both cases now.  `Word` and
the ranges of a TPUI have names, and the elements are built without `Bitwise`, which the
provers cannot use.

### Only model-checked

Liveness (`EstablishmentEnds`, `ReleaseEnds`, `SetupEnds`, `RequestEnds`), which is outside
the prover.

## Not modelled

Authentication and ciphering keys (`auth.c`, `dsaa.c`) are a cipher on bits, whose model
would be its transliteration.  The library handle, descriptors, netlink, raw sockets,
keypad, debugging and utilities keep no protocol state; their effects (a link has a socket, an
assertion ends the process) are in the modules of their users.  The ADPCM codec is third
party.  The examples are applications, and the source of what applications do in
`CallControl` and `MobilityManagement`.

## Plan

1. Done: `DataLink` with the refinement of `LinkService`, `MobilityManagement`, `SFormat`,
   `Paging`, `ConnectionlessService`, `CallControl` and `ElementCoding`, checked and proved.
2. Next: an abstract call refined by `CallControl`; the CISS endpoint; the reference counts
   of the elements that collections hold.
3. Proofs: the abstract call and its refinement.
