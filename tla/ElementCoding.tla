---------------------------- MODULE ElementCoding ----------------------------
(***************************************************************************)
(* Building and parsing information elements (s_msg.c), and the printed    *)
(* and packed forms of identities (identities.c).                          *)
(*                                                                         *)
(* An application's element is built into octets and the octets are parsed *)
(* by the peer, or octets arrive that another implementation built.  A     *)
(* builder yields the octets after the header: from data[2] for an element *)
(* of variable length, data[1] for one of two octets, the value in data[0] *)
(* for one of a single octet.  A parser reads the whole element; beyond    *)
(* its end the message buffer holds zeros.                                 *)
(***************************************************************************)
EXTENDS InformationElements

GroupEnd == 128        \* DECT_OCTET_GROUP_END

Ends(octet) == octet >= GroupEnd
Value(octet) == octet % GroupEnd
Ended(octet) == GroupEnd + (octet % GroupEnd)      \* octet | DECT_OCTET_GROUP_END
HasBit(octet, mask) == (octet \div mask) % 2 = 1
Flag(condition, mask) == IF condition THEN mask ELSE 0
High(octet) == (octet \div 16) % 8      \* bits 5 to 7
Low(octet) == octet % 16                \* bits 1 to 4

\* a | b of four bits
Either(a, b) ==
    LET bit(mask) == Flag(HasBit(a, mask) \/ HasBit(b, mask), mask)
    IN  bit(8) + bit(4) + bit(2) + bit(1)

\* data[n]
At(octets, n) == IF n < Len(octets) THEN octets[n + 1] ELSE 0

\* What builders and parsers return instead of octets and elements on errors
NotBuilt == <<-1>>
Invalid == [invalid |-> TRUE]

\* The rest of the element from data[n], with an array of the given size; lengths
\* have eight bits.
Rest(octets, n) == SubSeq(octets, n + 1, Len(octets))

\* Mutant: the length is not compared with the size of the array.
FitsAlways(octets, n, size) == TRUE

Fits(octets, n, size) == (Len(octets) - n) % 256 <= size

\* The number of octets of the group that starts at data[n], and octet i of it
GroupLen(octets, n, max) ==
    CHOOSE k \in 1..max : /\ \A i \in 1..(k - 1) : ~Ends(At(octets, n + i - 1))
                          /\ k = max \/ Ends(At(octets, n + k - 1))
InGroup(octets, n, len, i) == IF i <= len THEN At(octets, n + i - 1) ELSE 0

\* The parts of a list, with three octets each
InThrees(list, Octets(_)) ==
    [i \in 1..(3 * Len(list)) |-> Octets(list[(i + 2) \div 3])[((i - 1) % 3) + 1]]

\* The last octet gets the bit that ends a group.
Finish(octets) ==
    [i \in DOMAIN octets |-> IF i = Len(octets) THEN Ended(octets[i]) ELSE octets[i]]

-----------------------------------------------------------------------------
(***************************************************************************)
(* Elements of one or two octets.                                          *)
(***************************************************************************)

ParseRepeatIndicator(o) ==
    IF Low(At(o, 0)) \in IeListType THEN [type |-> Low(At(o, 0))] ELSE Invalid
BuildRepeatIndicator(e) == <<e.type>>

ParseEmptySingleOctet(o) == Nothing
BuildEmptySingleOctet(e) == <<0>>

ParseBasicService(o) == [class |-> At(o, 1) \div 16, service |-> Low(At(o, 1))]
BuildBasicService(e) == <<16 * e.class + e.service>>

ParseReleaseReason(o) == [reason |-> At(o, 1)]
BuildReleaseReason(e) == <<e.reason>>

ParseSignal(o) == [code |-> At(o, 1)]
BuildSignal(e) == <<e.code>>

ParseTimerRestart(o) == IF At(o, 1) \in {0, 1} THEN [code |-> At(o, 1)] ELSE Invalid

\* Display and keypad: a text of no characters is sent as one.
ParseSingleText(o) == [info |-> <<At(o, 1)>>]
BuildSingleText(e) == IF e.info = <<>> THEN <<0>> ELSE <<e.info[1]>>

-----------------------------------------------------------------------------
(***************************************************************************)
(* Identities.                                                             *)
(***************************************************************************)

BuildInfoType(e) == Finish(e.type)
ParseInfoType(o) ==
    LET body == Rest(o, 2)
        end == SelectInSeq(body, Ends)
        num == IF end = 0 THEN Len(body) ELSE end
    IN  [type |-> [i \in 1..(IF num < 8 THEN num ELSE 8) |-> Value(body[i])]]

\* Mutant: the octets are in the wrong order.
BuildIdentityTypeSwapped(e) == <<Ended(e.type), Ended(e.group)>>

BuildIdentityType(e) == <<Ended(e.group), Ended(e.type)>>
ParseIdentityType(o) == [group |-> Value(At(o, 2)), type |-> Value(At(o, 3))]

\* What the parser leaves alone is zero, the memory of an element being cleared.
ClearedIpui == [put |-> PutN, ipei |-> [emc |-> 0, psn |-> 0]]
ClearedTpui == [type |-> "assigned", digits |-> [i \in 1..5 |-> 0]]
ClearedAri == [arc |-> 0, code |-> 0, fpn |-> 0, fps |-> 0]

BuildPortableIdentity(e) ==
    LET ipui == BuildIpui(e.ipui)
        tpui == BuildTpui(e.tpui)
    IN  CASE e.type # IdTypeTpui /\ ipui.len = 0 -> NotBuilt
          [] e.type # IdTypeTpui /\ ipui.len # 0 ->
                <<Ended(e.type), Ended(ipui.len)>> \o ipui.octets
          [] e.type = IdTypeTpui ->
                <<Ended(e.type), Ended(20), tpui \div 65536, (tpui \div 256) % 256,
                  tpui % 256>>

\* An identity that cannot be parsed is no error.
ParsePortableIdentity(o) ==
    LET type == Value(At(o, 2))
        len == Value(At(o, 3))
    IN  CASE Len(o) = 2 -> [type |-> IdTypeIpui, ipui |-> ClearedIpui]
          [] Len(o) # 2 /\ (~Ends(At(o, 2)) \/ ~Ends(At(o, 3))) -> Invalid
          [] OTHER ->
                IF type \in {IdTypeIpui, IdTypeIpei}
                THEN [type |-> type, ipui |-> ParseIpui(Rest(o, 4), len)]
                ELSE IF type = IdTypeTpui THEN [type |-> type, tpui |-> ClearedTpui]
                ELSE Invalid

BuildFixedIdentity(e) ==
    <<Ended(e.type), Ended(AriLen(0) + 1)>>
        \o ToOctets(SubSeq(<<0>> \o BuildAri(e.ari) \o Zeros(40), 1, 40))

\* The length is compared, but the result of the comparison is no error.
ParseFixedIdentity(o) ==
    LET ari == ParseAri(Tail(ToBits([i \in 1..8 |-> At(o, i + 3)])))
    IN  IF /\ Ends(At(o, 2)) /\ Ends(At(o, 3))
           /\ ari.len # 0
           /\ Value(At(o, 2)) \in FixedIdentityType
        THEN [type |-> Value(At(o, 2)), ari |-> ari.ari, rpn |-> 0]
        ELSE Invalid

BuildLocationArea(e) == <<64 * e.type + e.level>>
ParseLocationArea(o) == [type |-> At(o, 2) \div 64, level |-> At(o, 2) % 64]

-----------------------------------------------------------------------------
(***************************************************************************)
(* Authentication and ciphering.                                           *)
(***************************************************************************)

BuildAllocationType(e) == <<e.auth_id, 16 * e.auth_key_num + e.auth_code_num>>
ParseAllocationType(o) ==
    [auth_id |-> At(o, 2), auth_key_num |-> At(o, 3) \div 16, auth_code_num |-> Low(At(o, 3))]

IsDef(flags) == HasBit(flags, FlagDef)

BuildAuthType(e) ==
    <<e.auth_id>>
        \o (IF e.auth_id = AuthProprietary THEN <<0>> ELSE <<>>)
        \o <<16 * e.auth_key_type + e.auth_key_num, e.flags + e.cipher_key_num>>
        \o (IF IsDef(e.flags) THEN <<e.defck_index \div 256, e.defck_index % 256>> ELSE <<>>)

\* The octet of a proprietary algorithm is read with src->data[n]++, which
\* increments the octet and not n, so that it is read again as the key.
ParseAuthType(o) ==
    LET proprietary == At(o, 2) = AuthProprietary
        key == IF proprietary THEN (At(o, 3) + 1) % 256 ELSE At(o, 3)
        flags == 16 * (At(o, 4) \div 16)
    IN  [auth_id |-> At(o, 2), proprietary_auth_id |-> IF proprietary THEN At(o, 3) ELSE 0,
         auth_key_type |-> key \div 16, auth_key_num |-> Low(key),
         flags |-> flags, cipher_key_num |-> Low(At(o, 4)),
         defck_index |-> IF IsDef(flags) THEN 256 * At(o, 5) + At(o, 6) ELSE 0]

BuildAuthValue(e) == e.value
ParseAuthValue(o) == IF Len(o) = 10 THEN [value |-> Rest(o, 2)] ELSE Invalid

BuildAuthRes(e) == e.value
ParseAuthRes(o) == IF Len(o) = 6 THEN [value |-> Rest(o, 2)] ELSE Invalid

BuildCipherInfo(e) ==
    <<Flag(e.enable, 128) + e.cipher_alg_id,
      16 * e.cipher_key_type + Either(e.cipher_key_num, 8)>>
ParseCipherInfo(o) ==
    IF Len(o) = 4
    THEN [enable |-> At(o, 2) >= 128, cipher_alg_id |-> At(o, 2) % 128,
          cipher_key_type |-> At(o, 3) \div 16, cipher_key_num |-> Low(At(o, 3))]
    ELSE Invalid

-----------------------------------------------------------------------------
(***************************************************************************)
(* Services and features.                                                  *)
(***************************************************************************)

ParseServiceChangeInfo(o) == [master |-> HasBit(At(o, 2), 64), mode |-> Low(At(o, 2))]

ParseFacility(o) ==
    IF Fits(o, 3, 64) THEN [service |-> At(o, 2) % 32, components |-> Rest(o, 3)] ELSE Invalid

BuildProgressIndicator(e) == <<Ended(e.location), Ended(e.progress)>>
ParseProgressIndicator(o) == [location |-> Low(At(o, 2)), progress |-> Value(At(o, 3))]

HasDate(coding) == HasBit(coding, 2)
HasTime(coding) == HasBit(coding, 1)

BuildTimeDate(e) ==
    <<64 * e.coding + e.interpretation>>
        \o (IF HasDate(e.coding) THEN <<e.year, e.month, e.day>> ELSE <<>>)
        \o (IF HasTime(e.coding) THEN <<e.hour, e.minute, e.second, e.timezone>> ELSE <<>>)
ParseTimeDate(o) ==
    LET coding == At(o, 2) \div 64
        Date(n) == IF HasDate(coding) THEN At(o, n) ELSE 0
        Time(n) == IF HasTime(coding) THEN At(o, n + Flag(HasDate(coding), 3)) ELSE 0
    IN  [coding |-> coding, interpretation |-> At(o, 2) % 64,
         year |-> Date(3), month |-> Date(4), day |-> Date(5),
         hour |-> Time(3), minute |-> Time(4), second |-> Time(5), timezone |-> Time(6)]

BuildMultiText(e) == e.info
ParseMultiText(o) == IF Fits(o, 2, 256) THEN [info |-> Rest(o, 2)] ELSE Invalid

BuildFeatureActivate(e) == <<Ended(e.feature)>>
ParseFeatureActivate(o) == [feature |-> Value(At(o, 2))]
ParseFeatureIndicate(o) == [feature |-> Value(At(o, 2)), status |-> At(o, 3)]

BuildNetworkParameter(e) == <<e.discriminator>> \o e.data
ParseNetworkParameter(o) ==
    IF Fits(o, 3, 64) THEN [discriminator |-> At(o, 2), data |-> Rest(o, 3)] ELSE Invalid

BuildRejectReason(e) == <<e.reason>>
ParseRejectReason(o) == [reason |-> At(o, 2)]

-----------------------------------------------------------------------------
(***************************************************************************)
(* Capabilities of a terminal.                                             *)
(***************************************************************************)

BuildSetupCapability(e) == <<e.page_capability + 4 * e.setup_capability + GroupEnd>>
ParseSetupCapability(o) ==
    [page_capability |-> At(o, 2) % 4, setup_capability |-> (At(o, 2) \div 4) % 4]

\* Octet i of the profile is the last one if no bit is left in the LAST i octets
\* (the mask is counted from the wrong end).
ProfileOctets(profile) ==
    LET last == {i \in 1..ProfileLen :
                    \A j \in (ProfileLen + 1 - i)..ProfileLen : profile[j] = 0}
    IN  IF last = {} THEN profile
        ELSE Finish(SubSeq(profile, 1, CHOOSE i \in last : \A j \in last : i <= j))

BuildTerminalCapability(e) ==
    <<e.display + 16 * e.tone, 16 * e.echo + 4 * e.noise_rejection + e.volume_ctrl, e.slot,
      (e.display_memory \div 128) % 256, e.display_memory % 256, e.display_lines,
      e.display_columns, Ended(e.scrolling)>>
        \o ProfileOctets(e.profile_indicator)
        \o <<e.display_control, Ended(e.display_charsets)>>

ParseTerminalCapability(o) ==
    LET len3 == GroupLen(o, 2, 8)
        len4 == GroupLen(o, 2 + len3, ProfileLen)
        group5 == 2 + len3 + len4
        group6 == group5 + GroupLen(o, group5, 2)
        Group3(i) == InGroup(o, 2, len3, i)
        more == IF len3 >= 5 THEN 128 ELSE 1      \* a second octet follows
    IN  IF group6 # Len(o) /\ ~Ends(At(o, group6)) /\ ~Ends(At(o, group6 + 1))
        THEN Invalid
        ELSE [display |-> Low(Group3(1)), tone |-> High(Group3(1)),
              echo |-> High(Group3(2)), noise_rejection |-> (Group3(2) \div 4) % 4,
              volume_ctrl |-> Group3(2) % 4, slot |-> Value(Group3(3)),
              display_memory |-> more * Value(Group3(4)) + Value(Group3(5)),
              display_lines |-> Value(Group3(6)), display_columns |-> Value(Group3(7)),
              scrolling |-> Value(Group3(8)),
              profile_indicator |->
                  [i \in 1..ProfileLen |-> Value(InGroup(o, 2 + len3, len4, i))],
              display_control |-> At(o, group5) % 8,
              display_charsets |->
                  IF group6 = group5 + 2 THEN Value(At(o, group5 + 1)) ELSE 0]

-----------------------------------------------------------------------------
(***************************************************************************)
(* Calls.                                                                  *)
(***************************************************************************)

BuildCallingPartyNumber(e) ==
    LET number == 16 * e.type + e.npi
    IN  (IF e.presentation \in {Restricted, NotAvailable}
         THEN <<Ended(number)>>
         ELSE <<number, Ended(32 * e.presentation + e.screening)>>) \o e.address

\* The presentation is (data[n] & 0x3) >> 5.
ParseCallingPartyNumber(o) ==
    LET short == Ends(At(o, 2))
        address == IF short THEN 3 ELSE 4
    IN  IF (short \/ Ends(At(o, 3))) /\ Fits(o, address, 64)
        THEN [type |-> High(At(o, 2)), npi |-> Low(At(o, 2)), presentation |-> 0,
              screening |-> IF short THEN 0 ELSE At(o, 3) % 4, address |-> Rest(o, address)]
        ELSE Invalid

BuildCallingPartyName(e) ==
    <<32 * e.presentation + 4 * e.alphabet + e.screening>> \o e.name
ParseCallingPartyName(o) ==
    IF Fits(o, 3, 64)
    THEN [presentation |-> 0, alphabet |-> (At(o, 2) % 8) \div 4, screening |-> At(o, 2) % 4,
          name |-> Rest(o, 3)]
    ELSE Invalid

BuildCalledPartyNumber(e) == <<Ended(16 * e.type + e.npi)>> \o e.address

\* Mutant: the address begins an octet too late.
ParseCalledPartyNumberLate(o) ==
    IF Fits(o, 3, 64)
    THEN [type |-> High(At(o, 2)), npi |-> Low(At(o, 2)), address |-> Rest(o, 4)]
    ELSE Invalid

ParseCalledPartyNumber(o) ==
    IF Fits(o, 3, 64)
    THEN [type |-> High(At(o, 2)), npi |-> Low(At(o, 2)), address |-> Rest(o, 3)]
    ELSE Invalid

BuildDuration(e) ==
    LET limits == (16 * e.lock + e.time) % 256
    IN  IF e.time \in DefinedTimeLimit THEN <<limits, e.duration>> ELSE <<Ended(limits)>>
\* The lock is masked, but not shifted.
ParseDuration(o) ==
    [lock |-> 16 * High(At(o, 2)), time |-> Low(At(o, 2)),
     duration |-> IF Ends(At(o, 2)) THEN 0 ELSE At(o, 3)]

BuildIwuToIwu(e) == <<Ended(Flag(e.sr, 64) + e.pd)>> \o e.data
ParseIwuToIwu(o) ==
    IF Ends(At(o, 2)) /\ Fits(o, 3, 256)
    THEN [sr |-> HasBit(At(o, 2), 64), pd |-> At(o, 2) % 64, data |-> Rest(o, 3)]
    ELSE Invalid

DescriptionEmc == 1       \* DECT_ESC_TO_PROPRIETARY_IE_DESC_EMC
BuildEscapeToProprietary(e) ==
    <<Ended(DescriptionEmc), e.emc \div 256, e.emc % 256>> \o e.content
ParseEscapeToProprietary(o) ==
    IF Value(At(o, 2)) = DescriptionEmc /\ Fits(o, 5, 64)
    THEN [emc |-> 256 * At(o, 3) + At(o, 4), content |-> Rest(o, 5)]
    ELSE Invalid

\* The routing of the C-plane is written where the slot is and read above it.
BuildCodecList(e) ==
    LET entry(c) == <<c.codec, c.service, Either(c.cplane, c.slot)>>
    IN  Finish(<<Ended(16 * e.negotiation)>> \o InThrees(e.entry, entry))
ParseCodecList(o) ==
    LET num == (Len(o) - 3) \div 3
        Entry(i) == [codec |-> At(o, 3 * i), service |-> Low(At(o, 3 * i + 1)),
                     cplane |-> High(At(o, 3 * i + 2)), slot |-> Low(At(o, 3 * i + 2))]
    IN  [negotiation |-> High(At(o, 2)), entry |-> [i \in 1..(IF num < 8 THEN num ELSE 8) |-> Entry(i)]]

BuildEventsNotification(e) ==
    LET octets(event) == <<event.type, Ended(event.subtype), Ended(event.multiplicity)>>
    IN  InThrees(e.events, octets)

-----------------------------------------------------------------------------
(***************************************************************************)
(* The table of builders and parsers, and the headers.                     *)
(***************************************************************************)

BuildFixedLength(ie, e) ==
    CASE ie = "REPEAT_INDICATOR" -> BuildRepeatIndicator(e)
      [] ie \in DOMAIN ExtendedId -> BuildEmptySingleOctet(e)
      [] ie = "BASIC_SERVICE" -> BuildBasicService(e)
      [] ie = "RELEASE_REASON" -> BuildReleaseReason(e)
      [] ie = "SIGNAL" -> BuildSignal(e)
      [] ie \in {"SINGLE_DISPLAY", "SINGLE_KEYPAD"} -> BuildSingleText(e)

BuildElement(ie, e) ==
    CASE ie = "INFO_TYPE" -> BuildInfoType(e)
      [] ie = "IDENTITY_TYPE" -> BuildIdentityType(e)
      [] ie = "PORTABLE_IDENTITY" -> BuildPortableIdentity(e)
      [] ie = "FIXED_IDENTITY" -> BuildFixedIdentity(e)
      [] ie = "LOCATION_AREA" -> BuildLocationArea(e)
      [] ie = "AUTH_TYPE" -> BuildAuthType(e)
      [] ie = "ALLOCATION_TYPE" -> BuildAllocationType(e)
      [] ie \in {"RAND", "RS"} -> BuildAuthValue(e)
      [] ie = "RES" -> BuildAuthRes(e)
      [] ie = "CIPHER_INFO" -> BuildCipherInfo(e)
      [] ie = "PROGRESS_INDICATOR" -> BuildProgressIndicator(e)
      [] ie = "TIME_DATE" -> BuildTimeDate(e)
      [] ie \in {"MULTI_DISPLAY", "MULTI_KEYPAD"} -> BuildMultiText(e)
      [] ie = "FEATURE_ACTIVATE" -> BuildFeatureActivate(e)
      [] ie = "NETWORK_PARAMETER" -> BuildNetworkParameter(e)
      [] ie = "REJECT_REASON" -> BuildRejectReason(e)
      [] ie = "SETUP_CAPABILITY" -> BuildSetupCapability(e)
      [] ie = "TERMINAL_CAPABILITY" -> BuildTerminalCapability(e)
      [] ie = "CALLING_PARTY_NUMBER" -> BuildCallingPartyNumber(e)
      [] ie = "CALLING_PARTY_NAME" -> BuildCallingPartyName(e)
      [] ie = "CALLED_PARTY_NUMBER" -> BuildCalledPartyNumber(e)
      [] ie = "DURATION" -> BuildDuration(e)
      [] ie = "IWU_TO_IWU" -> BuildIwuToIwu(e)
      [] ie = "ESCAPE_TO_PROPRIETARY" -> BuildEscapeToProprietary(e)
      [] ie = "CODEC_LIST" -> BuildCodecList(e)
      [] ie = "EVENTS_NOTIFICATION" -> BuildEventsNotification(e)
      [] OTHER -> BuildFixedLength(ie, e)

ParseFixedLength(ie, o) ==
    CASE ie = "REPEAT_INDICATOR" -> ParseRepeatIndicator(o)
      [] ie \in DOMAIN ExtendedId -> ParseEmptySingleOctet(o)
      [] ie = "BASIC_SERVICE" -> ParseBasicService(o)
      [] ie = "RELEASE_REASON" -> ParseReleaseReason(o)
      [] ie = "SIGNAL" -> ParseSignal(o)
      [] ie = "TIMER_RESTART" -> ParseTimerRestart(o)
      [] ie \in {"SINGLE_DISPLAY", "SINGLE_KEYPAD"} -> ParseSingleText(o)

ParseElement(ie, o) ==
    CASE ie = "INFO_TYPE" -> ParseInfoType(o)
      [] ie = "IDENTITY_TYPE" -> ParseIdentityType(o)
      [] ie = "PORTABLE_IDENTITY" -> ParsePortableIdentity(o)
      [] ie = "FIXED_IDENTITY" -> ParseFixedIdentity(o)
      [] ie = "LOCATION_AREA" -> ParseLocationArea(o)
      [] ie = "AUTH_TYPE" -> ParseAuthType(o)
      [] ie = "ALLOCATION_TYPE" -> ParseAllocationType(o)
      [] ie \in {"RAND", "RS"} -> ParseAuthValue(o)
      [] ie = "RES" -> ParseAuthRes(o)
      [] ie = "SERVICE_CHANGE_INFO" -> ParseServiceChangeInfo(o)
      [] ie = "CIPHER_INFO" -> ParseCipherInfo(o)
      [] ie = "FACILITY" -> ParseFacility(o)
      [] ie = "PROGRESS_INDICATOR" -> ParseProgressIndicator(o)
      [] ie = "TIME_DATE" -> ParseTimeDate(o)
      [] ie \in {"MULTI_DISPLAY", "MULTI_KEYPAD"} -> ParseMultiText(o)
      [] ie = "FEATURE_ACTIVATE" -> ParseFeatureActivate(o)
      [] ie = "FEATURE_INDICATE" -> ParseFeatureIndicate(o)
      [] ie = "NETWORK_PARAMETER" -> ParseNetworkParameter(o)
      [] ie = "REJECT_REASON" -> ParseRejectReason(o)
      [] ie = "SETUP_CAPABILITY" -> ParseSetupCapability(o)
      [] ie = "TERMINAL_CAPABILITY" -> ParseTerminalCapability(o)
      [] ie = "CALLING_PARTY_NUMBER" -> ParseCallingPartyNumber(o)
      [] ie = "CALLING_PARTY_NAME" -> ParseCallingPartyName(o)
      [] ie = "CALLED_PARTY_NUMBER" -> ParseCalledPartyNumber(o)
      [] ie = "DURATION" -> ParseDuration(o)
      [] ie = "IWU_TO_IWU" -> ParseIwuToIwu(o)
      [] ie = "ESCAPE_TO_PROPRIETARY" -> ParseEscapeToProprietary(o)
      [] ie = "CODEC_LIST" -> ParseCodecList(o)
      [] OTHER -> ParseFixedLength(ie, o)

\* A text of several characters is sent as the element that can hold them.
SentAs(ie, e) ==
    IF ie \in DOMAIN MultiOf /\ Len(e.info) > 1 THEN MultiOf[ie] ELSE ie

\* Mutant: the length counts the header.
AddHeaderWholeLength(ie, body) ==
    IF body = NotBuilt THEN NotBuilt
    ELSE IF ie \in DOMAIN SingleOctetId \cup DOMAIN ExtendedId THEN <<Id[ie] + body[1]>>
    ELSE IF ie \in DOMAIN DoubleOctetId THEN <<Id[ie]>> \o body
    ELSE IF body = <<>> THEN <<>> ELSE <<Id[ie], Len(body) + 2>> \o body

\* An element of variable length without contents is not sent.
AddHeader(ie, body) ==
    IF body = NotBuilt THEN NotBuilt
    ELSE IF ie \in DOMAIN SingleOctetId \cup DOMAIN ExtendedId THEN <<Id[ie] + body[1]>>
    ELSE IF ie \in DOMAIN DoubleOctetId THEN <<Id[ie]>> \o body
    ELSE IF body = <<>> THEN <<>> ELSE <<Id[ie], Len(body)>> \o body

NoHeader == [id |-> -1, len |-> 0]
ParseHeader(o) ==
    LET first == At(o, 0)
        prefix == 16 * (first \div 16)
    IN  CASE Len(o) < 1 -> NoHeader
          [] Len(o) >= 1 /\ first >= 128 /\ prefix # Id["DOUBLE_OCTET_ELEMENT"] ->
                [id |-> IF prefix = Id["EXT_PREFIX"] THEN first ELSE prefix, len |-> 1]
          [] Len(o) >= 1 /\ prefix = Id["DOUBLE_OCTET_ELEMENT"] ->
                IF Len(o) < 2 THEN NoHeader ELSE [id |-> first, len |-> 2]
          [] OTHER ->
                IF Len(o) < 2 \/ Len(o) < 2 + At(o, 1) THEN NoHeader
                ELSE [id |-> first, len |-> 2 + At(o, 1)]

-----------------------------------------------------------------------------
(***************************************************************************)
(* The forms of identities that are not elements, and the coding of an     *)
(* element or an identity.                                                 *)
(***************************************************************************)
CONSTANTS
    Given,       \* the elements and identities the application builds, by name
    Received     \* the octets other implementations have built, by element

Form == {"IPEI_STRING", "PMID"}
FormValue == [IPEI_STRING |-> Ipei, PMID |-> Pmid]

ASSUME GivenAssumption ==
    \A i \in DOMAIN Given :
        \/ i \in Form /\ Given[i] \subseteq FormValue[i]
        \/ i \in IE /\ Given[i] \subseteq Element(i)

\* The length of an element has eight bits.
ASSUME ReceivedAssumption ==
    \A i \in DOMAIN Received :
        i \in IE /\ \A o \in Received[i] : o \in Seq(Octet) /\ Len(o) <= 2 + 255

BuildForm(form, e) ==
    CASE form = "IPEI_STRING" -> FormatIpei(e)
      [] form = "PMID" -> <<BuildPmid(e)>>

ParseForm(form, o) ==
    CASE form = "IPEI_STRING" -> ParseIpeiString(o)
      [] form = "PMID" -> ParsePmid(o[1])

VARIABLES
    ie,          \* the element or the form, after Build the one that is sent
    given,       \* what the application built, Nothing if it was not this one
    octets,
    parsed,      \* what the peer reads
    relayed,     \* the peer builds what it has read
    pc           \* "build", "parse", "done"

vars == <<ie, given, octets, parsed, relayed, pc>>

Init ==
    /\ parsed = Invalid
    /\ relayed = FALSE
    /\ \/ \E i \in DOMAIN Given : \E e \in Given[i] :
            /\ ie = i
            /\ given = e
            /\ octets = <<>>
            /\ pc = "build"
       \/ \E i \in DOMAIN Received : \E o \in Received[i] :
            /\ ie = i
            /\ given = Nothing
            /\ octets = o
            /\ pc = "parse"

\* dect_build_sfmt_ie
Build ==
    /\ pc = "build"
    /\ ie \in IE
    /\ LET sent == SentAs(ie, given)
           built == AddHeader(sent, BuildElement(sent, given))
       IN  /\ Handler[sent].build
           /\ ie' = sent
           /\ octets' = built
           /\ pc' = IF built \in {<<>>, NotBuilt} THEN "done" ELSE "parse"
    /\ UNCHANGED <<given, parsed, relayed>>

\* dect_parse_sfmt_ie_header and dect_parse_sfmt_ie
Parse ==
    /\ pc = "parse"
    /\ ie \in IE
    /\ parsed' = IF Handler[ie].parse /\ ParseHeader(octets).id = Id[ie]
                 THEN ParseElement(ie, octets) ELSE Invalid
    /\ pc' = "done"
    /\ UNCHANGED <<ie, given, octets, relayed>>

\* An application hands an element it was given to the library again, as a
\* switching system does with the elements of two parts that talk to each other.
Relay ==
    /\ pc = "done"
    /\ ~relayed
    /\ given # Nothing
    /\ parsed # Invalid
    /\ ie \in IE /\ Handler[ie].build
    /\ relayed' = TRUE
    /\ given' = parsed
    /\ octets' = <<>>
    /\ parsed' = Invalid
    /\ pc' = "build"
    /\ UNCHANGED ie

\* dect_format_ipei_string, dect_build_pmid
Format ==
    /\ pc = "build"
    /\ ie \in Form
    /\ octets' = BuildForm(ie, given)
    /\ pc' = "parse"
    /\ UNCHANGED <<ie, given, parsed, relayed>>

\* Somebody types the printed identity and makes one mistake: a wrong digit or
\* two digits in the wrong order.
Mistype ==
    /\ pc = "parse"
    /\ ie = "IPEI_STRING"
    /\ octets = FormatIpei(given)
    /\ \/ \E i \in 1..12, d \in 0..9 : octets' = [octets EXCEPT ![i] = d]
       \/ \E i \in 1..11 :
            octets' = [octets EXCEPT ![i] = octets[i + 1], ![i + 1] = octets[i]]
    /\ octets' # octets
    /\ UNCHANGED <<ie, given, parsed, relayed, pc>>

\* dect_parse_ipei_string, dect_parse_pmid
ParseIdentity ==
    /\ pc = "parse"
    /\ ie \in Form
    /\ parsed' = ParseForm(ie, octets)
    /\ pc' = "done"
    /\ UNCHANGED <<ie, given, octets, relayed>>

Next == Build \/ Parse \/ Relay \/ Format \/ Mistype \/ ParseIdentity

Spec == Init /\ [][Next]_vars

-----------------------------------------------------------------------------
(***************************************************************************)
(* Properties.                                                             *)
(***************************************************************************)

Done == pc = "done" /\ given # Nothing /\ ie \in IE

\* Everything the library builds is framed so that its parser finds the element it
\* belongs to and the start of the next one, and is accepted if there is a
\* parser; only elements without contents are left out.
ElementFramed ==
    Done =>
        CASE octets = NotBuilt -> ie = "PORTABLE_IDENTITY" /\ given.ipui.put \in OtherPut
          [] octets = <<>> -> given \in {[info |-> <<>>], [type |-> <<>>], [events |-> <<>>]}
          [] OTHER -> /\ ParseHeader(octets) = [id |-> Id[ie], len |-> Len(octets)]
                      /\ Handler[ie].parse => parsed # Invalid

\* Which elements arrive as they were sent, as the pairs of builder and parser are
ExactIpui(ipui) ==
    ipui.put = PutO => LET len == BitLength(ipui.number)
                           lost == (len - 4) % 8
                       IN  len <= 4 \/ ipui.number % 2^lost = 0

Exact(element, e) ==
    CASE element = "SINGLE_DISPLAY" \/ element = "SINGLE_KEYPAD" -> e.info # <<>>
      [] element = "PORTABLE_IDENTITY" ->
            IF e.type = IdTypeTpui THEN e.tpui = ClearedTpui ELSE ExactIpui(e.ipui)
      [] element = "FIXED_IDENTITY" -> e.rpn = 0
      [] element = "AUTH_TYPE" ->
            /\ e.auth_id # AuthProprietary
            /\ e.proprietary_auth_id = 0
            /\ IsDef(e.flags) \/ e.defck_index = 0
      [] element = "CIPHER_INFO" -> e.cipher_key_num >= 8
      [] element = "TIME_DATE" ->
            /\ HasDate(e.coding) \/ <<e.year, e.month, e.day>> = <<0, 0, 0>>
            /\ HasTime(e.coding) \/ <<e.hour, e.minute, e.second, e.timezone>> = <<0, 0, 0, 0>>
      [] element = "TERMINAL_CAPABILITY" ->
            /\ e.display_memory < 128^2 /\ e.display_lines < 128 /\ e.display_columns < 128
            /\ \A i \in 2..ProfileLen : e.profile_indicator[i] = 0
            \* an octet of the memory that ends the group, unless nothing follows
            /\ \/ e.display_memory % 256 < 128
               \/ {e.display_lines, e.display_columns, e.scrolling, e.display_control,
                   e.display_charsets, e.profile_indicator[1]} = {0}
      [] element = "CALLING_PARTY_NUMBER" -> e.presentation = 0
      [] element = "CALLING_PARTY_NAME" -> e.presentation = 0 /\ e.alphabet \in {0, 1}
      [] element = "DURATION" -> FALSE
      [] element = "CODEC_LIST" -> \A i \in DOMAIN e.entry : e.entry[i].cplane = 0
      [] OTHER -> TRUE

\* An element with a builder and a parser arrives as it was sent if, and only if,
\* it avoids the values on which the two disagree.
ElementSurvives ==
    Done /\ ~relayed /\ Len(octets) > 0 /\ octets # NotBuilt /\ Handler[ie].parse =>
        (parsed = given <=> Exact(ie, given))

\* What is lost is lost at once: an element that was built and parsed is not changed
\* by being built and parsed again, however often it is relayed.  A duration, the
\* type of a proprietary authentication and a terminal capability whose groups
\* end too early are different each time.
LossHappensOnce ==
    Done /\ relayed /\ Len(octets) > 0 =>
        \/ parsed = given
        \/ ie \in {"DURATION", "TERMINAL_CAPABILITY"}
        \/ ie = "AUTH_TYPE" /\ given.auth_id = AuthProprietary

\* Whatever the length of an element that arrives, and however many parts it
\* has, the parser keeps to the arrays of the structure.
ArraySize(element, field) ==
    CASE field \in {"type", "entry"} -> 8
      [] field = "info" \/ (field = "data" /\ element = "IWU_TO_IWU") -> 256
      [] OTHER -> 64

WithinArrays ==
    pc = "done" /\ parsed # Invalid =>
        LET Array == {"entry", "info", "data", "components", "address", "name", "content"}
                        \cup (IF ie = "INFO_TYPE" THEN {"type"} ELSE {})
        IN  \A field \in Array \cap DOMAIN parsed : Len(parsed[field]) <= ArraySize(ie, field)

\* The identity of a part that has the bits of another type
Ambiguous(form, e) ==
    form = "PMID" /\ e.type = "assigned" /\ (e.tpui \div 65536 = 14 \/ e.tpui \div 4096 = 241)

\* A printed identity is read as it was printed, a packed one as it was packed,
\* unless it is an assigned one with the bits of another type.
\* The check digit finds every mistake in a single digit and every exchange of
\* neighbours, except in the eleventh digit, whose weight is a multiple of 11.
IdentityForms ==
    pc = "done" /\ ie \in Form =>
        LET wrong == {i \in DOMAIN octets : octets[i] # BuildForm(ie, given)[i]}
        IN  IF wrong = {} THEN parsed = given <=> ~Ambiguous(ie, given)
            ELSE parsed = NotAnIpei <=> wrong # {11}
=============================================================================
