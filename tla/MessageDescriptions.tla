------------------------ MODULE MessageDescriptions ------------------------
(***************************************************************************)
(* The elements of every S-format message, in the order they are sent: the *)
(* tables of DECT_SFMT_MSG_DESC in the protocol entities.                  *)
(*                                                                         *)
(* A definition has the name of its table.  An entry says whether the      *)
(* element is mandatory (M), optional (O) or not allowed (N), first in     *)
(* messages of the fixed part and then in those of the portable part.      *)
(***************************************************************************)
EXTENDS Integers

LOCAL Entry(ie, fp_pp, pp_fp) == [ie |-> ie, FP |-> fp_pp, PP |-> pp_fp, repeat |-> FALSE]

\* DECT_SFMT_IE_REPEAT: the entry after a repeat indicator
LOCAL Rep(entry) == [entry EXCEPT !.repeat = TRUE]

LOCAL MM(ie) == Entry(ie, "MANDATORY", "MANDATORY")
LOCAL MN(ie) == Entry(ie, "MANDATORY", "NONE")
LOCAL NM(ie) == Entry(ie, "NONE", "MANDATORY")
LOCAL NO(ie) == Entry(ie, "NONE", "OPTIONAL")
LOCAL OM(ie) == Entry(ie, "OPTIONAL", "MANDATORY")
LOCAL ON(ie) == Entry(ie, "OPTIONAL", "NONE")
LOCAL OO(ie) == Entry(ie, "OPTIONAL", "OPTIONAL")

-----------------------------------------------------------------------------
\* Call Control (cc.c)

cc_setup_msg_desc ==
    <<MM("PORTABLE_IDENTITY"), MM("FIXED_IDENTITY"), NO("NWK_ASSIGNED_IDENTITY"),
      MM("BASIC_SERVICE"), OO("REPEAT_INDICATOR"), Rep(OO("IWU_ATTRIBUTES")),
      OO("REPEAT_INDICATOR"), Rep(OO("CALL_ATTRIBUTES")), OO("REPEAT_INDICATOR"),
      Rep(OO("CONNECTION_ATTRIBUTES")), OO("CIPHER_INFO"), OO("CONNECTION_IDENTITY"),
      OO("REPEAT_INDICATOR"), Rep(OO("FACILITY")), ON("REPEAT_INDICATOR"),
      Rep(ON("PROGRESS_INDICATOR")), ON("SINGLE_DISPLAY"), NO("SINGLE_KEYPAD"),
      ON("SIGNAL"), NO("FEATURE_ACTIVATE"), ON("FEATURE_INDICATE"),
      OO("NETWORK_PARAMETER"), ON("EXT_HO_INDICATOR"), NO("TERMINAL_CAPABILITY"),
      OO("END_TO_END_COMPATIBILITY"), OO("RATE_PARAMETERS"), OO("TRANSIT_DELAY"),
      OO("WINDOW_SIZE"), OO("CALLING_PARTY_NUMBER"), OO("CALLED_PARTY_NUMBER"),
      OO("CALLED_PARTY_SUBADDR"), OO("SENDING_COMPLETE"), OO("REPEAT_INDICATOR"),
      Rep(OO("SEGMENTED_INFO")), OO("IWU_TO_IWU"), OO("IWU_PACKET"),
      OO("CALLING_PARTY_NAME"), OO("ESCAPE_TO_PROPRIETARY"), OO("CODEC_LIST"),
      OO("CALL_INFORMATION")>>

cc_info_msg_desc ==
    <<NO("LOCATION_AREA"), NO("NWK_ASSIGNED_IDENTITY"), OO("REPEAT_INDICATOR"),
      Rep(OO("FACILITY")), OO("REPEAT_INDICATOR"), Rep(ON("PROGRESS_INDICATOR")),
      ON("SINGLE_DISPLAY"), OO("SINGLE_KEYPAD"), ON("SIGNAL"), NO("FEATURE_ACTIVATE"),
      ON("FEATURE_INDICATE"), OO("NETWORK_PARAMETER"), ON("EXT_HO_INDICATOR"),
      OO("CALLING_PARTY_NUMBER"), OO("CALLED_PARTY_NUMBER"), OO("CALLED_PARTY_SUBADDR"),
      OO("SENDING_COMPLETE"), ON("TEST_HOOK_CONTROL"), OO("REPEAT_INDICATOR"),
      Rep(OO("IWU_TO_IWU")), OO("IWU_PACKET"), OO("CALLING_PARTY_NAME"),
      OO("ESCAPE_TO_PROPRIETARY"), OO("CODEC_LIST"), OO("CALL_INFORMATION")>>

cc_setup_ack_msg_desc ==
    <<ON("INFO_TYPE"), ON("PORTABLE_IDENTITY"), ON("FIXED_IDENTITY"), ON("LOCATION_AREA"),
      ON("IWU_ATTRIBUTES"), ON("CALL_ATTRIBUTES"), ON("CONNECTION_ATTRIBUTES"),
      ON("CONNECTION_IDENTITY"), ON("REPEAT_INDICATOR"), Rep(ON("FACILITY")),
      ON("REPEAT_INDICATOR"), Rep(ON("PROGRESS_INDICATOR")), ON("SINGLE_DISPLAY"),
      ON("SIGNAL"), ON("FEATURE_INDICATE"), ON("NETWORK_PARAMETER"),
      ON("EXT_HO_INDICATOR"), ON("TRANSIT_DELAY"), ON("WINDOW_SIZE"),
      ON("DELIMITER_REQUEST"), ON("REPEAT_INDICATOR"), Rep(ON("IWU_TO_IWU")),
      ON("IWU_PACKET"), ON("ESCAPE_TO_PROPRIETARY"), ON("CODEC_LIST")>>

cc_call_proc_msg_desc ==
    <<ON("IWU_ATTRIBUTES"), ON("CALL_ATTRIBUTES"), ON("CONNECTION_ATTRIBUTES"),
      ON("CONNECTION_IDENTITY"), ON("REPEAT_INDICATOR"), Rep(ON("FACILITY")),
      ON("REPEAT_INDICATOR"), Rep(ON("PROGRESS_INDICATOR")), ON("SINGLE_DISPLAY"),
      ON("SIGNAL"), ON("FEATURE_INDICATE"), ON("TRANSIT_DELAY"), ON("WINDOW_SIZE"),
      ON("REPEAT_INDICATOR"), Rep(ON("IWU_TO_IWU")), ON("IWU_PACKET"),
      ON("ESCAPE_TO_PROPRIETARY"), ON("CODEC_LIST")>>

cc_alerting_msg_desc ==
    <<OO("IWU_ATTRIBUTES"), OO("CALL_ATTRIBUTES"), OO("CONNECTION_ATTRIBUTES"),
      OO("CONNECTION_IDENTITY"), OO("REPEAT_INDICATOR"), Rep(OO("FACILITY")),
      ON("REPEAT_INDICATOR"), Rep(ON("PROGRESS_INDICATOR")), ON("SINGLE_DISPLAY"),
      ON("SIGNAL"), ON("FEATURE_INDICATE"), NO("TERMINAL_CAPABILITY"),
      OO("TRANSIT_DELAY"), OO("WINDOW_SIZE"), OO("REPEAT_INDICATOR"),
      Rep(OO("IWU_TO_IWU")), OO("IWU_PACKET"), OO("ESCAPE_TO_PROPRIETARY"),
      OO("CODEC_LIST")>>

cc_connect_msg_desc ==
    <<OO("IWU_ATTRIBUTES"), OO("CALL_ATTRIBUTES"), OO("CONNECTION_ATTRIBUTES"),
      OO("CONNECTION_IDENTITY"), OO("REPEAT_INDICATOR"), Rep(OO("FACILITY")),
      ON("REPEAT_INDICATOR"), Rep(ON("PROGRESS_INDICATOR")), ON("SINGLE_DISPLAY"),
      ON("SIGNAL"), ON("FEATURE_INDICATE"), ON("NETWORK_PARAMETER"),
      ON("EXT_HO_INDICATOR"), NO("TERMINAL_CAPABILITY"), OO("TRANSIT_DELAY"),
      OO("WINDOW_SIZE"), OO("REPEAT_INDICATOR"), Rep(OO("SEGMENTED_INFO")),
      OO("IWU_TO_IWU"), OO("IWU_PACKET"), OO("ESCAPE_TO_PROPRIETARY"), OO("CODEC_LIST")>>

cc_connect_ack_msg_desc ==
    <<ON("SINGLE_DISPLAY"), ON("FEATURE_INDICATE"), OO("REPEAT_INDICATOR"),
      Rep(OO("IWU_TO_IWU")), OO("IWU_PACKET"), OO("ESCAPE_TO_PROPRIETARY")>>

cc_release_msg_desc ==
    <<OO("RELEASE_REASON"), OO("REPEAT_INDICATOR"), Rep(OO("FACILITY")),
      ON("REPEAT_INDICATOR"), Rep(ON("PROGRESS_INDICATOR")), ON("SINGLE_DISPLAY"),
      ON("FEATURE_INDICATE"), ON("REPEAT_INDICATOR"), Rep(OO("SEGMENTED_INFO")),
      OO("IWU_TO_IWU"), OO("IWU_PACKET"), OO("ESCAPE_TO_PROPRIETARY")>>

cc_release_com_msg_desc ==
    <<OO("RELEASE_REASON"), ON("IDENTITY_TYPE"), ON("LOCATION_AREA"),
      OO("IWU_ATTRIBUTES"), OO("CONNECTION_ATTRIBUTES"), OO("REPEAT_INDICATOR"),
      Rep(OO("FACILITY")), ON("SINGLE_DISPLAY"), ON("FEATURE_INDICATE"),
      ON("NETWORK_PARAMETER"), OO("REPEAT_INDICATOR"), Rep(OO("SEGMENTED_INFO")),
      OO("IWU_TO_IWU"), OO("IWU_PACKET"), OO("ESCAPE_TO_PROPRIETARY")>>

cc_service_change_msg_desc ==
    <<MM("PORTABLE_IDENTITY"), OO("IWU_ATTRIBUTES"), MM("SERVICE_CHANGE_INFO"),
      OO("CALL_ATTRIBUTES"), OO("REPEAT_INDICATOR"), Rep(OO("CONNECTION_ATTRIBUTES")),
      OO("CONNECTION_IDENTITY"), OO("REPEAT_INDICATOR"), Rep(OO("SEGMENTED_INFO")),
      OO("IWU_TO_IWU"), OO("CODEC_LIST"), OO("ESCAPE_TO_PROPRIETARY")>>

cc_service_accept_msg_desc ==
    <<OO("IWU_ATTRIBUTES"), OO("CONNECTION_IDENTITY"), OO("REPEAT_INDICATOR"),
      Rep(OO("SEGMENTED_INFO")), OO("IWU_TO_IWU"), OO("ESCAPE_TO_PROPRIETARY")>>

cc_service_reject_msg_desc ==
    <<OO("RELEASE_REASON"), OO("IWU_ATTRIBUTES"), OO("CONNECTION_ATTRIBUTES"),
      OO("REPEAT_INDICATOR"), Rep(OO("SEGMENTED_INFO")), OO("IWU_TO_IWU"),
      OO("ESCAPE_TO_PROPRIETARY")>>

cc_notify_msg_desc ==
    <<OO("TIMER_RESTART"), OO("ESCAPE_TO_PROPRIETARY")>>

cc_iwu_info_msg_desc ==
    <<OO("PORTABLE_IDENTITY"), OO("MMS_GENERIC_HEADER"), OO("MMS_OBJECT_HEADER"),
      OO("REPEAT_INDICATOR"), Rep(OO("MMS_EXTENDED_HEADER")), OO("REPEAT_INDICATOR"),
      Rep(OO("TIME_DATE")), OO("REPEAT_INDICATOR"), Rep(OO("CALLING_PARTY_NUMBER")),
      OO("CALLING_PARTY_NAME"), OO("REPEAT_INDICATOR"), Rep(OO("CALLED_PARTY_NUMBER")),
      OO("CALLED_PARTY_SUBADDR"), OO("SEGMENTED_INFO"), OO("ALPHANUMERIC"),
      OO("REPEAT_INDICATOR"), Rep(OO("SEGMENTED_INFO")), OO("IWU_TO_IWU"),
      OO("SEGMENTED_INFO"), OO("IWU_PACKET"), OO("ESCAPE_TO_PROPRIETARY"),
      OO("CODEC_LIST")>>

crss_hold_msg_desc ==
    <<ON("SINGLE_DISPLAY"), OO("ESCAPE_TO_PROPRIETARY")>>

-----------------------------------------------------------------------------
\* Mobility Management (mm.c)

mm_access_rights_accept_msg_desc ==
    <<MN("PORTABLE_IDENTITY"), ON("REPEAT_INDICATOR"), Rep(MN("FIXED_IDENTITY")),
      ON("LOCATION_AREA"), ON("AUTH_TYPE"), ON("CIPHER_INFO"), ON("ZAP_FIELD"),
      ON("SERVICE_CLASS"), ON("SETUP_CAPABILITY"), ON("IWU_TO_IWU"),
      ON("MODEL_IDENTIFIER"), ON("ESCAPE_TO_PROPRIETARY"), ON("CODEC_LIST")>>

mm_access_rights_request_msg_desc ==
    <<NM("PORTABLE_IDENTITY"), NO("AUTH_TYPE"), NO("CIPHER_INFO"), NO("SETUP_CAPABILITY"),
      NO("TERMINAL_CAPABILITY"), NO("IWU_TO_IWU"), NO("MODEL_IDENTIFIER"),
      NO("ESCAPE_TO_PROPRIETARY"), NO("CODEC_LIST")>>

mm_access_rights_reject_msg_desc ==
    <<ON("REJECT_REASON"), ON("DURATION"), NO("IWU_TO_IWU"), NO("ESCAPE_TO_PROPRIETARY")>>

mm_access_rights_terminate_accept_msg_desc ==
    <<OO("ESCAPE_TO_PROPRIETARY")>>

mm_access_rights_terminate_reject_msg_desc ==
    <<OO("REJECT_REASON"), ON("DURATION"), OO("ESCAPE_TO_PROPRIETARY")>>

mm_access_rights_terminate_request_msg_desc ==
    <<MM("PORTABLE_IDENTITY"), OO("REPEAT_INDICATOR"), Rep(OO("FIXED_IDENTITY")),
      OO("IWU_TO_IWU"), OO("ESCAPE_TO_PROPRIETARY")>>

mm_authentication_reject_msg_desc ==
    <<OO("REPEAT_INDICATOR"), Rep(OO("AUTH_TYPE")), OO("REJECT_REASON"),
      OO("REPEAT_INDICATOR"), Rep(OO("IWU_TO_IWU")), OO("ESCAPE_TO_PROPRIETARY")>>

mm_authentication_reply_msg_desc ==
    <<MM("RES"), ON("RS"), NO("ZAP_FIELD"), NO("SERVICE_CLASS"), NO("KEY"),
      OO("REPEAT_INDICATOR"), Rep(OO("IWU_TO_IWU")), OO("ESCAPE_TO_PROPRIETARY")>>

mm_authentication_request_msg_desc ==
    <<MM("AUTH_TYPE"), MM("RAND"), NO("RES"), ON("RS"), OO("CIPHER_INFO"),
      OO("REPEAT_INDICATOR"), Rep(OO("IWU_TO_IWU")), OO("ESCAPE_TO_PROPRIETARY")>>

mm_cipher_suggest_msg_desc ==
    <<NM("CIPHER_INFO"), NO("CALL_IDENTITY"), NO("CONNECTION_IDENTITY"), NO("IWU_TO_IWU"),
      NO("ESCAPE_TO_PROPRIETARY")>>

mm_cipher_request_msg_desc ==
    <<MN("CIPHER_INFO"), ON("CALL_IDENTITY"), ON("CONNECTION_IDENTITY"), ON("IWU_TO_IWU"),
      ON("ESCAPE_TO_PROPRIETARY")>>

mm_cipher_reject_msg_desc ==
    <<OO("REPEAT_INDICATOR"), Rep(OO("CIPHER_INFO")), OO("REJECT_REASON"),
      OO("ESCAPE_TO_PROPRIETARY")>>

mm_detach_msg_desc ==
    <<NM("PORTABLE_IDENTITY"), NO("NWK_ASSIGNED_IDENTITY"), NO("NETWORK_PARAMETER"),
      NO("REPEAT_INDICATOR"), Rep(OO("SEGMENTED_INFO")), NO("IWU_TO_IWU"),
      NO("ESCAPE_TO_PROPRIETARY")>>

mm_identity_reply_msg_desc ==
    <<NO("REPEAT_INDICATOR"), Rep(NO("PORTABLE_IDENTITY")), NO("REPEAT_INDICATOR"),
      Rep(NO("FIXED_IDENTITY")), NO("REPEAT_INDICATOR"), Rep(NO("NWK_ASSIGNED_IDENTITY")),
      NO("REPEAT_INDICATOR"), Rep(NO("IWU_TO_IWU")), NO("MODEL_IDENTIFIER"),
      NO("ESCAPE_TO_PROPRIETARY")>>

mm_identity_request_msg_desc ==
    <<ON("REPEAT_INDICATOR"), Rep(MN("IDENTITY_TYPE")), ON("NETWORK_PARAMETER"),
      ON("IWU_TO_IWU"), ON("ESCAPE_TO_PROPRIETARY")>>

mm_key_allocate_msg_desc ==
    <<MN("ALLOCATION_TYPE"), MN("RAND"), MN("RS"), ON("ESCAPE_TO_PROPRIETARY")>>

mm_locate_accept_msg_desc ==
    <<MN("PORTABLE_IDENTITY"), MN("LOCATION_AREA"), ON("USE_TPUI"),
      ON("NWK_ASSIGNED_IDENTITY"), ON("EXT_HO_INDICATOR"), ON("SETUP_CAPABILITY"),
      ON("DURATION"), OO("REPEAT_INDICATOR"), Rep(OO("SEGMENTED_INFO")), ON("IWU_TO_IWU"),
      ON("MODEL_IDENTIFIER"), ON("ESCAPE_TO_PROPRIETARY"), ON("CODEC_LIST")>>

mm_locate_reject_msg_desc ==
    <<ON("REJECT_REASON"), ON("DURATION"), OO("REPEAT_INDICATOR"),
      Rep(OO("SEGMENTED_INFO")), ON("IWU_TO_IWU"), ON("ESCAPE_TO_PROPRIETARY")>>

mm_locate_request_msg_desc ==
    <<NM("PORTABLE_IDENTITY"), NO("FIXED_IDENTITY"), NO("LOCATION_AREA"),
      NO("NWK_ASSIGNED_IDENTITY"), NO("CIPHER_INFO"), NO("SETUP_CAPABILITY"),
      NO("TERMINAL_CAPABILITY"), NO("NETWORK_PARAMETER"), OO("REPEAT_INDICATOR"),
      Rep(OO("SEGMENTED_INFO")), NO("IWU_TO_IWU"), NO("MODEL_IDENTIFIER"),
      NO("ESCAPE_TO_PROPRIETARY"), NO("CODEC_LIST")>>

mm_info_accept_msg_desc ==
    <<MN("INFO_TYPE"), ON("CALL_IDENTITY"), ON("REPEAT_INDICATOR"),
      Rep(ON("FIXED_IDENTITY")), ON("LOCATION_AREA"), ON("NWK_ASSIGNED_IDENTITY"),
      ON("NETWORK_PARAMETER"), ON("DURATION"), OO("SEGMENTED_INFO"), ON("IWU_TO_IWU"),
      ON("ESCAPE_TO_PROPRIETARY")>>

mm_info_reject_msg_desc ==
    <<ON("CALL_IDENTITY"), ON("REJECT_REASON"), OO("SEGMENTED_INFO"), ON("IWU_TO_IWU"),
      ON("ESCAPE_TO_PROPRIETARY")>>

mm_info_request_msg_desc ==
    <<MM("INFO_TYPE"), NO("CALL_IDENTITY"), NO("PORTABLE_IDENTITY"),
      NO("REPEAT_INDICATOR"), Rep(NO("FIXED_IDENTITY")), NO("LOCATION_AREA"),
      NO("NWK_ASSIGNED_IDENTITY"), NO("NETWORK_PARAMETER"), OO("SEGMENTED_INFO"),
      NO("IWU_TO_IWU"), NO("ESCAPE_TO_PROPRIETARY")>>

mm_info_suggest_msg_desc ==
    <<MN("INFO_TYPE"), ON("CALL_IDENTITY"), ON("FIXED_IDENTITY"), ON("LOCATION_AREA"),
      ON("NWK_ASSIGNED_IDENTITY"), ON("NETWORK_PARAMETER"), ON("EXT_HO_INDICATOR"),
      ON("KEY"), ON("SETUP_CAPABILITY"), OO("SEGMENTED_INFO"), ON("IWU_TO_IWU"),
      ON("ESCAPE_TO_PROPRIETARY")>>

mm_temporary_identity_assign_msg_desc ==
    <<ON("PORTABLE_IDENTITY"), ON("LOCATION_AREA"), ON("NWK_ASSIGNED_IDENTITY"),
      ON("DURATION"), ON("NETWORK_PARAMETER"), ON("REPEAT_INDICATOR"),
      Rep(ON("IWU_TO_IWU")), ON("ESCAPE_TO_PROPRIETARY")>>

mm_temporary_identity_assign_ack_msg_desc ==
    <<NO("SEGMENTED_INFO"), NO("IWU_TO_IWU"), NO("ESCAPE_TO_PROPRIETARY")>>

mm_temporary_identity_assign_rej_msg_desc ==
    <<NO("REJECT_REASON"), NO("ESCAPE_TO_PROPRIETARY")>>

mm_iwu_msg_desc ==
    <<ON("REPEAT_INDICATOR"), Rep(OO("SEGMENTED_INFO")), OO("IWU_TO_IWU"),
      OO("IWU_PACKET"), OO("ESCAPE_TO_PROPRIETARY")>>

mm_notify_msg_msg_desc ==
    <<ON("TIMER_RESTART"), ON("ESCAPE_TO_PROPRIETARY")>>

-----------------------------------------------------------------------------
\* Link Control Entity (lce.c)

lce_page_response_msg_desc ==
    <<NM("PORTABLE_IDENTITY"), NO("FIXED_IDENTITY"), NO("NWK_ASSIGNED_IDENTITY"),
      NO("CIPHER_INFO"), NO("ESCAPE_TO_PROPRIETARY")>>

lce_page_reject_msg_desc ==
    <<MN("PORTABLE_IDENTITY"), ON("FIXED_IDENTITY"), ON("REJECT_REASON"),
      ON("ESCAPE_TO_PROPRIETARY")>>

-----------------------------------------------------------------------------
\* Supplementary Services (ss.c)

ciss_register_msg_desc ==
    <<OM("PORTABLE_IDENTITY"), OO("REPEAT_INDICATOR"), Rep(OO("FACILITY")),
      ON("SINGLE_DISPLAY"), NO("SINGLE_KEYPAD"), NO("FEATURE_ACTIVATE"),
      ON("FEATURE_INDICATE"), OO("ESCAPE_TO_PROPRIETARY")>>

ciss_release_com_msg_desc ==
    <<OO("RELEASE_REASON"), OO("REPEAT_INDICATOR"), Rep(OO("FACILITY")),
      ON("SINGLE_DISPLAY"), NO("SINGLE_KEYPAD"), NO("FEATURE_ACTIVATE"),
      ON("FEATURE_INDICATE"), OO("ESCAPE_TO_PROPRIETARY")>>

ciss_facility_msg_desc ==
    <<OO("REPEAT_INDICATOR"), Rep(OO("FACILITY")), ON("SINGLE_DISPLAY"),
      NO("SINGLE_KEYPAD"), NO("FEATURE_ACTIVATE"), ON("FEATURE_INDICATE"),
      OO("REPEAT_INDICATOR"), Rep(OO("IWU_TO_IWU")), OO("ESCAPE_TO_PROPRIETARY"),
      OO("TIME_DATE"), OO("EVENTS_NOTIFICATION"), OO("CALL_INFORMATION")>>

-----------------------------------------------------------------------------
\* Connectionless Message Service (clms.c)

clms_variable_msg_desc ==
    <<MM("PORTABLE_IDENTITY"), OO("MMS_GENERIC_HEADER"), OO("MMS_OBJECT_HEADER"),
      OO("REPEAT_INDICATOR"), Rep(OO("MMS_EXTENDED_HEADER")), OO("REPEAT_INDICATOR"),
      Rep(OO("TIME_DATE")), OO("REPEAT_INDICATOR"), Rep(OO("CALLING_PARTY_NUMBER")),
      OO("CALLING_PARTY_NAME"), OO("REPEAT_INDICATOR"), Rep(OO("CALLED_PARTY_NUMBER")),
      OO("CALLED_PARTY_SUBADDR"), OO("SEGMENTED_INFO"), OO("ALPHANUMERIC"),
      OO("IWU_TO_IWU"), OO("IWU_PACKET"), OO("ESCAPE_TO_PROPRIETARY")>>

-----------------------------------------------------------------------------
\* The tables by message
MessageDesc ==
    [cc_setup |-> cc_setup_msg_desc, cc_info |-> cc_info_msg_desc,
     cc_setup_ack |-> cc_setup_ack_msg_desc, cc_call_proc |-> cc_call_proc_msg_desc,
     cc_alerting |-> cc_alerting_msg_desc, cc_connect |-> cc_connect_msg_desc,
     cc_connect_ack |-> cc_connect_ack_msg_desc, cc_release |-> cc_release_msg_desc,
     cc_release_com |-> cc_release_com_msg_desc,
     cc_service_change |-> cc_service_change_msg_desc,
     cc_service_accept |-> cc_service_accept_msg_desc,
     cc_service_reject |-> cc_service_reject_msg_desc, cc_notify |-> cc_notify_msg_desc,
     cc_iwu_info |-> cc_iwu_info_msg_desc, crss_hold |-> crss_hold_msg_desc,
     mm_access_rights_accept |-> mm_access_rights_accept_msg_desc,
     mm_access_rights_request |-> mm_access_rights_request_msg_desc,
     mm_access_rights_reject |-> mm_access_rights_reject_msg_desc,
     mm_access_rights_terminate_accept |-> mm_access_rights_terminate_accept_msg_desc,
     mm_access_rights_terminate_reject |-> mm_access_rights_terminate_reject_msg_desc,
     mm_access_rights_terminate_request |-> mm_access_rights_terminate_request_msg_desc,
     mm_authentication_reject |-> mm_authentication_reject_msg_desc,
     mm_authentication_reply |-> mm_authentication_reply_msg_desc,
     mm_authentication_request |-> mm_authentication_request_msg_desc,
     mm_cipher_suggest |-> mm_cipher_suggest_msg_desc,
     mm_cipher_request |-> mm_cipher_request_msg_desc,
     mm_cipher_reject |-> mm_cipher_reject_msg_desc, mm_detach |-> mm_detach_msg_desc,
     mm_identity_reply |-> mm_identity_reply_msg_desc,
     mm_identity_request |-> mm_identity_request_msg_desc,
     mm_key_allocate |-> mm_key_allocate_msg_desc,
     mm_locate_accept |-> mm_locate_accept_msg_desc,
     mm_locate_reject |-> mm_locate_reject_msg_desc,
     mm_locate_request |-> mm_locate_request_msg_desc,
     mm_info_accept |-> mm_info_accept_msg_desc,
     mm_info_reject |-> mm_info_reject_msg_desc,
     mm_info_request |-> mm_info_request_msg_desc,
     mm_info_suggest |-> mm_info_suggest_msg_desc,
     mm_temporary_identity_assign |-> mm_temporary_identity_assign_msg_desc,
     mm_temporary_identity_assign_ack |-> mm_temporary_identity_assign_ack_msg_desc,
     mm_temporary_identity_assign_rej |-> mm_temporary_identity_assign_rej_msg_desc,
     mm_iwu |-> mm_iwu_msg_desc, mm_notify_msg |-> mm_notify_msg_msg_desc,
     lce_page_response |-> lce_page_response_msg_desc,
     lce_page_reject |-> lce_page_reject_msg_desc,
     ciss_register |-> ciss_register_msg_desc,
     ciss_release_com |-> ciss_release_com_msg_desc,
     ciss_facility |-> ciss_facility_msg_desc, clms_variable |-> clms_variable_msg_desc]

\* The table a message is freed with by its handler: three handlers name another.
MessageFreedAs ==
    [m \in DOMAIN MessageDesc |->
        IF m \in {"cc_service_change", "cc_service_accept", "cc_service_reject"}
        THEN "cc_connect_ack" ELSE m]
=============================================================================
