------------------------ MODULE InformationElements ------------------------
(***************************************************************************)
(* The information elements of S-format messages (dect/s_fmt.h, dect/ie.h) *)
(* and the table of their handlers (s_msg.c).                              *)
(*                                                                         *)
(* An element is named as in the code without its prefix DECT_IE_, the C   *)
(* structure that holds it without its prefix struct dect_ie_.  A structure*)
(* is a record of its fields, a value of an enumeration the number the     *)
(* code gives it (it is what goes into the octets), an array with a length *)
(* a sequence of octets, a 64 bit value a sequence of 8 octets.  The types *)
(* below are what an application can put into the structures; structures   *)
(* without fields have nothing to say and are left out.                    *)
(***************************************************************************)
EXTENDS SequencesExt, Identities

Octet == 0..255

(***************************************************************************)
(* Identifiers: the first octet of an element, or the id it is given when  *)
(* parts of that octet are a value.                                        *)
(***************************************************************************)

\* One octet: the id in bits 5 to 7, a value in the others
SingleOctetId ==
    [SHIFT |-> 144, EXT_PREFIX |-> 160, REPEAT_INDICATOR |-> 208,
     DOUBLE_OCTET_ELEMENT |-> 224]

\* One octet without a value
ExtendedId ==
    [SENDING_COMPLETE |-> 161, DELIMITER_REQUEST |-> 162, USE_TPUI |-> 163]

\* Two octets: the second is the value
DoubleOctetId ==
    [BASIC_SERVICE |-> 224, RELEASE_REASON |-> 226, SIGNAL |-> 228,
     TIMER_RESTART |-> 229, TEST_HOOK_CONTROL |-> 230, SINGLE_DISPLAY |-> 232,
     SINGLE_KEYPAD |-> 233]

\* The second octet is the length of what follows
VariableLengthId ==
    [INFO_TYPE |-> 1, IDENTITY_TYPE |-> 2, PORTABLE_IDENTITY |-> 5,
     FIXED_IDENTITY |-> 6, LOCATION_AREA |-> 7, NWK_ASSIGNED_IDENTITY |-> 9,
     AUTH_TYPE |-> 10, ALLOCATION_TYPE |-> 11, RAND |-> 12, RES |-> 13, RS |-> 14,
     IWU_ATTRIBUTES |-> 18, CALL_ATTRIBUTES |-> 19, SERVICE_CHANGE_INFO |-> 22,
     CONNECTION_ATTRIBUTES |-> 23, CIPHER_INFO |-> 25, CALL_IDENTITY |-> 26,
     CONNECTION_IDENTITY |-> 27, FACILITY |-> 28, PROGRESS_INDICATOR |-> 30,
     MMS_GENERIC_HEADER |-> 32, MMS_OBJECT_HEADER |-> 33, MMS_EXTENDED_HEADER |-> 34,
     TIME_DATE |-> 35, MULTI_DISPLAY |-> 40, MULTI_KEYPAD |-> 44,
     FEATURE_ACTIVATE |-> 56, FEATURE_INDICATE |-> 57, NETWORK_PARAMETER |-> 65,
     EXT_HO_INDICATOR |-> 66, ZAP_FIELD |-> 82, SERVICE_CLASS |-> 84, KEY |-> 86,
     REJECT_REASON |-> 96, SETUP_CAPABILITY |-> 98, TERMINAL_CAPABILITY |-> 99,
     END_TO_END_COMPATIBILITY |-> 100, RATE_PARAMETERS |-> 101, TRANSIT_DELAY |-> 102,
     WINDOW_SIZE |-> 103, CALLING_PARTY_NUMBER |-> 108, CALLING_PARTY_NAME |-> 109,
     CALLED_PARTY_NUMBER |-> 112, CALLED_PARTY_SUBADDR |-> 113, DURATION |-> 114,
     SEGMENTED_INFO |-> 117, ALPHANUMERIC |-> 118, IWU_TO_IWU |-> 119,
     MODEL_IDENTIFIER |-> 120, IWU_PACKET |-> 122, ESCAPE_TO_PROPRIETARY |-> 123,
     CODEC_LIST |-> 124, EVENTS_NOTIFICATION |-> 125, CALL_INFORMATION |-> 126,
     ESCAPE_FOR_EXTENSION |-> 127]

IE == UNION {DOMAIN SingleOctetId, DOMAIN ExtendedId, DOMAIN DoubleOctetId,
             DOMAIN VariableLengthId}

VariableLength == DOMAIN VariableLengthId

Id == [ie \in IE |->
          CASE ie \in DOMAIN SingleOctetId -> SingleOctetId[ie]
            [] ie \in DOMAIN ExtendedId -> ExtendedId[ie]
            [] ie \in DOMAIN DoubleOctetId -> DoubleOctetId[ie]
            [] OTHER -> VariableLengthId[ie]]

(***************************************************************************)
(* Handlers: the structure an element is parsed into ("" if none is        *)
(* allocated) and whether there are a parser and a builder.                *)
(***************************************************************************)
Coded(struct) == [struct |-> struct, parse |-> TRUE, build |-> TRUE]
ParseOnly(struct) == [struct |-> struct, parse |-> TRUE, build |-> FALSE]
BuildOnly(struct) == [struct |-> struct, parse |-> FALSE, build |-> TRUE]
Opaque(struct) == [struct |-> struct, parse |-> FALSE, build |-> FALSE]

\* Elements of one or two octets
FixedLengthHandler ==
    [REPEAT_INDICATOR |-> Coded(""), SENDING_COMPLETE |-> Coded("sending_complete"),
     DELIMITER_REQUEST |-> Coded("delimiter_request"), USE_TPUI |-> Coded("use_tpui"),
     BASIC_SERVICE |-> Coded("basic_service"),
     RELEASE_REASON |-> Coded("release_reason"), SIGNAL |-> Coded("signal"),
     TIMER_RESTART |-> ParseOnly("timer_restart"), TEST_HOOK_CONTROL |-> Opaque(""),
     SINGLE_DISPLAY |-> Coded("display"), SINGLE_KEYPAD |-> Coded("keypad")]

\* Elements of variable length up to the keypad
VariableLengthHandler ==
    [INFO_TYPE |-> Coded("info_type"), IDENTITY_TYPE |-> Coded("identity_type"),
     PORTABLE_IDENTITY |-> Coded("portable_identity"),
     FIXED_IDENTITY |-> Coded("fixed_identity"),
     LOCATION_AREA |-> Coded("location_area"),
     NWK_ASSIGNED_IDENTITY |-> Opaque("nwk_assigned_identity"),
     ALLOCATION_TYPE |-> Coded("allocation_type"), AUTH_TYPE |-> Coded("auth_type"),
     RAND |-> Coded("auth_value"), RES |-> Coded("auth_res"),
     RS |-> Coded("auth_value"), IWU_ATTRIBUTES |-> Opaque("iwu_attributes"),
     CALL_ATTRIBUTES |-> Opaque("call_attributes"),
     SERVICE_CHANGE_INFO |-> ParseOnly("service_change_info"),
     CONNECTION_ATTRIBUTES |-> Opaque("connection_attributes"),
     CIPHER_INFO |-> Coded("cipher_info"), CALL_IDENTITY |-> Opaque("call_identity"),
     CONNECTION_IDENTITY |-> Opaque("connection_identity"),
     FACILITY |-> ParseOnly("facility"),
     PROGRESS_INDICATOR |-> Coded("progress_indicator"),
     MMS_GENERIC_HEADER |-> Opaque("mms_generic_header"),
     MMS_OBJECT_HEADER |-> Opaque("mms_object_header"),
     MMS_EXTENDED_HEADER |-> Opaque("mms_extended_header"),
     TIME_DATE |-> Coded("time_date"), MULTI_DISPLAY |-> Coded("display"),
     MULTI_KEYPAD |-> Coded("keypad")]

\* and after it
MoreVariableLengthHandler ==
    [FEATURE_ACTIVATE |-> Coded("feature_activate"),
     FEATURE_INDICATE |-> ParseOnly("feature_indicate"),
     NETWORK_PARAMETER |-> Coded("network_parameter"),
     EXT_HO_INDICATOR |-> Opaque("ext_ho_indicator"),
     ZAP_FIELD |-> Opaque("zap_field"), SERVICE_CLASS |-> Opaque("service_class"),
     KEY |-> Opaque("key"), REJECT_REASON |-> Coded("reject_reason"),
     SETUP_CAPABILITY |-> Coded("setup_capability"),
     TERMINAL_CAPABILITY |-> Coded("terminal_capability"),
     END_TO_END_COMPATIBILITY |-> Opaque("end_to_end_compatibility"),
     RATE_PARAMETERS |-> Opaque("rate_parameters"),
     TRANSIT_DELAY |-> Opaque("transit_delay"), WINDOW_SIZE |-> Opaque("window_size"),
     CALLING_PARTY_NUMBER |-> Coded("calling_party_number"),
     CALLING_PARTY_NAME |-> Coded("calling_party_name"),
     CALLED_PARTY_NUMBER |-> Coded("called_party_number"),
     CALLED_PARTY_SUBADDR |-> Opaque("called_party_subaddress"),
     DURATION |-> Coded("duration"), SEGMENTED_INFO |-> Opaque("segmented_info"),
     ALPHANUMERIC |-> Opaque("alphanumeric"), IWU_TO_IWU |-> Coded("iwu_to_iwu"),
     MODEL_IDENTIFIER |-> Opaque("model_identifier"),
     IWU_PACKET |-> Opaque("iwu_packet"),
     ESCAPE_TO_PROPRIETARY |-> Coded("escape_to_proprietary"),
     CODEC_LIST |-> Coded("codec_list"),
     EVENTS_NOTIFICATION |-> BuildOnly("events_notification"),
     CALL_INFORMATION |-> Opaque("call_information"),
     ESCAPE_FOR_EXTENSION |-> Opaque("")]

\* dect_ie_handlers; an element that is not in the table has no handler
Handler ==
    [ie \in IE |->
        CASE ie \in DOMAIN FixedLengthHandler -> FixedLengthHandler[ie]
          [] ie \in DOMAIN VariableLengthHandler -> VariableLengthHandler[ie]
          [] ie \in DOMAIN MoreVariableLengthHandler -> MoreVariableLengthHandler[ie]
          [] OTHER -> Opaque("")]

\* dect_build_sfmt_ie turns texts of more than one character into these.
MultiOf == [SINGLE_DISPLAY |-> "MULTI_DISPLAY", SINGLE_KEYPAD |-> "MULTI_KEYPAD"]
(***************************************************************************)
(* Structures, in the order of ie.h.                                       *)
(***************************************************************************)
IeListType == {1, 2}        \* normal, prioritised

AtMost(n, S) == {s \in Seq(S) : Len(s) <= n}
Text(n) == AtMost(n, Octet)

CallClass == {2, 4} \cup 7..14
Service == {0} \cup 4..6 \cup 8..10 \cup {15}
BasicService == [class : CallClass, service : Service]

ReleaseReason ==
    [reason : 0..11 \cup 13..22 \cup 33..35 \cup 49..52 \cup 64..66]

\* The structures have room for 256 characters, a message for fewer.
MaxText == 124
Display == [info : Text(MaxText)]
Keypad == [info : Text(MaxText)]

AlertingPattern == 0..8 \cup {10, 11, 15}
AlertingBase == 64
Signal == [code : 0..9 \cup {63} \cup {AlertingBase + p : p \in AlertingPattern}]

TimerRestart == [code : {0, 1}]

Nibble == 0..15
AllocationType == [auth_id : Octet, auth_key_num : Nibble, auth_code_num : Nibble]

AuthProprietary == 127
AuthId == {1, 32, 64, AuthProprietary}
FlagDef == 64
AuthFlags == {16 * f : f \in Nibble}
AuthType ==
    [auth_id : AuthId, proprietary_auth_id : Octet, auth_key_type : {1, 3, 4},
     auth_key_num : Nibble, flags : AuthFlags, cipher_key_num : Nibble,
     defck_index : Word]

NumberType == 0..4 \cup {6, 7}
NumberingPlan == {0, 1, 3} \cup 7..15
Presentation == 0..3
Restricted == 1
NotAvailable == 2
Alphabet == {0, 1, 7}
Screening == 0..3

CalledPartyNumber == [type : NumberType, npi : NumberingPlan, address : Text(64)]
CallingPartyNumber ==
    [type : NumberType, npi : NumberingPlan, presentation : Presentation,
     screening : Screening, address : Text(64)]
CallingPartyName ==
    [presentation : Presentation, alphabet : Alphabet, screening : Screening,
     name : Text(64)]

\* Key numbers have three bits next to bit 3, which the builder sets.
CipherInfo ==
    [enable : BOOLEAN, cipher_alg_id : {1, 127} \cup 40..47, cipher_key_type : {9, 10},
     cipher_key_num : Nibble]

DefinedTimeLimit == {1, 2}
Duration == [lock : 5..7, time : {0, 4, 15} \cup DefinedTimeLimit, duration : Octet]

Facility == [service : {17}, components : Text(64)]

Feature == {1, 15, 32, 48, 66, 68, 71, 72, 96}
FeatureActivate == [feature : Feature]
FeatureIndicate == [feature : Feature, status : {128, 129, 131, 132, 134}]

FixedIdentityType == {0, 1, 2, 32}
FixedIdentity == [type : FixedIdentityType, ari : Ari, rpn : Octet]

IdTypeIpui == 0
IdTypeIpei == 16
IdTypeTpui == 32
PortableIdentity ==
    [type : {IdTypeIpui, IdTypeIpei}, ipui : Ipui] \cup [type : {IdTypeTpui}, tpui : Tpui]

IdentityType == [group : {0, 1, 4, 8, 15}, type : 0..127]

InfoParameter == {0, 1, 4, 6} \cup 8..19 \cup 32..37 \cup 48..52
InfoType == [type : AtMost(8, InfoParameter)]

IwuDiscriminator == 0..4 \cup 6..10 \cup 16..22 \cup 32..37 \cup {63}
IwuToIwu == [sr : BOOLEAN, pd : IwuDiscriminator, data : Text(MaxText - 1)]

LocationArea == [type : 0..3, level : 0..63]

NetworkParameter ==
    [discriminator : {8, 16, 127} \cup 104..107 \cup 234..236, data : Text(64)]

ProgressIndicator ==
    [location : {0, 1, 2, 4, 5, 7, 10, 15}, progress : {0, 64} \cup 2..5 \cup {8, 9}]

AuthValue == [value : [1..8 -> Octet]]
AuthRes == [value : [1..4 -> Octet]]

RejectReason ==
    [reason : {1, 2, 3, 5, 6} \cup 16..20 \cup 23..25 \cup 32..36 \cup 47..48 \cup 64..67
                \cup {95, 96, 100, 112, 118, 128, 129}]

ServiceChangeInfo == [master : BOOLEAN, mode : 0..14]

SetupCapability == [page_capability : {1, 2}, setup_capability : 0..3]

\* The profile is a mask of 64 bits, of which the code defines none whose octet
\* has bit 7 and none in the last octet.
ProfileLen == 8
TerminalCapability ==
    [tone : 0..4, echo : 0..3, noise_rejection : 0..2, volume_ctrl : 0..3, slot : 0..31,
     display : 0..5, display_memory : Word, display_lines : Octet,
     display_columns : Octet, display_control : 0..4, display_charsets : Nibble,
     scrolling : 0..2, profile_indicator : {p \in [1..ProfileLen -> 0..127] : p[ProfileLen] = 0}]

EscapeToProprietary == [emc : Word, content : Text(64)]

\* Octets as they are written, in binary coded decimals
TimeDate ==
    [coding : 1..3, interpretation : {0, 1}, year : Octet, month : Octet, day : Octet,
     hour : Octet, minute : Octet, second : Octet, timezone : Octet]

Codec == [codec : 1..9, service : 0..5, slot : {0, 1, 2, 4, 5}, cplane : {0, 1, 2, 4}]
CodecList == [negotiation : {0, 1}, entry : AtMost(8, Codec)]

Event == [type : 0..3, subtype : 0..3, multiplicity : 0..127]
EventsNotification == [events : AtMost(8, Event)]

\* The values of an element.  The elements without fields and those the code can
\* neither build nor parse have one value.
Nothing == [present |-> TRUE]

FixedLengthElement(ie) ==
    CASE ie = "REPEAT_INDICATOR" -> [type : IeListType]
      [] ie = "BASIC_SERVICE" -> BasicService
      [] ie = "RELEASE_REASON" -> ReleaseReason
      [] ie = "SIGNAL" -> Signal
      [] ie = "TIMER_RESTART" -> TimerRestart
      [] ie = "SINGLE_DISPLAY" -> Display
      [] ie = "SINGLE_KEYPAD" -> Keypad
      [] OTHER -> {Nothing}

Element(ie) ==
    CASE ie = "INFO_TYPE" -> InfoType
      [] ie = "IDENTITY_TYPE" -> IdentityType
      [] ie = "PORTABLE_IDENTITY" -> PortableIdentity
      [] ie = "FIXED_IDENTITY" -> FixedIdentity
      [] ie = "LOCATION_AREA" -> LocationArea
      [] ie = "AUTH_TYPE" -> AuthType
      [] ie = "ALLOCATION_TYPE" -> AllocationType
      [] ie \in {"RAND", "RS"} -> AuthValue
      [] ie = "RES" -> AuthRes
      [] ie = "SERVICE_CHANGE_INFO" -> ServiceChangeInfo
      [] ie = "CIPHER_INFO" -> CipherInfo
      [] ie = "FACILITY" -> Facility
      [] ie = "PROGRESS_INDICATOR" -> ProgressIndicator
      [] ie = "TIME_DATE" -> TimeDate
      [] ie = "MULTI_DISPLAY" -> Display
      [] ie = "MULTI_KEYPAD" -> Keypad
      [] ie = "FEATURE_ACTIVATE" -> FeatureActivate
      [] ie = "FEATURE_INDICATE" -> FeatureIndicate
      [] ie = "NETWORK_PARAMETER" -> NetworkParameter
      [] ie = "REJECT_REASON" -> RejectReason
      [] ie = "SETUP_CAPABILITY" -> SetupCapability
      [] ie = "TERMINAL_CAPABILITY" -> TerminalCapability
      [] ie = "CALLING_PARTY_NUMBER" -> CallingPartyNumber
      [] ie = "CALLING_PARTY_NAME" -> CallingPartyName
      [] ie = "CALLED_PARTY_NUMBER" -> CalledPartyNumber
      [] ie = "DURATION" -> Duration
      [] ie = "IWU_TO_IWU" -> IwuToIwu
      [] ie = "ESCAPE_TO_PROPRIETARY" -> EscapeToProprietary
      [] ie = "CODEC_LIST" -> CodecList
      [] ie = "EVENTS_NOTIFICATION" -> EventsNotification
      [] OTHER -> FixedLengthElement(ie)
=============================================================================
