--------------------------- MODULE MessageStructs ---------------------------
(***************************************************************************)
(* The fields of the structures that hold S-format messages (cc.h, mm.h,   *)
(* lce.h, ss.h, clms.h), in their order: the C type of each pointer to an  *)
(* element without its prefix dect_ie_, or "list".  A definition has the   *)
(* name of its structure.                                                  *)
(***************************************************************************)

-----------------------------------------------------------------------------

dect_cc_setup_msg ==
    <<"portable_identity", "fixed_identity", "nwk_assigned_identity", "basic_service",
      "list", "list", "list", "cipher_info", "connection_identity", "list", "list",
      "display", "keypad", "signal", "feature_activate", "feature_indicate",
      "network_parameter", "ext_ho_indicator", "terminal_capability",
      "end_to_end_compatibility", "rate_parameters", "transit_delay", "window_size",
      "calling_party_number", "called_party_number", "called_party_subaddress",
      "sending_complete", "list", "iwu_to_iwu", "iwu_packet", "calling_party_name",
      "escape_to_proprietary", "codec_list", "call_information">>

dect_cc_info_msg ==
    <<"location_area", "nwk_assigned_identity", "list", "list", "display", "keypad",
      "signal", "feature_activate", "feature_indicate", "network_parameter",
      "ext_ho_indicator", "calling_party_number", "called_party_number",
      "called_party_subaddress", "sending_complete", "test_hook_control", "list",
      "iwu_packet", "calling_party_name", "escape_to_proprietary", "codec_list",
      "call_information">>

dect_cc_setup_ack_msg ==
    <<"info_type", "portable_identity", "fixed_identity", "location_area",
      "iwu_attributes", "call_attributes", "connection_attributes", "connection_identity",
      "list", "list", "display", "signal", "feature_indicate", "network_parameter",
      "ext_ho_indicator", "transit_delay", "window_size", "delimiter_request", "list",
      "iwu_packet", "escape_to_proprietary", "codec_list">>

dect_cc_call_proc_msg ==
    <<"iwu_attributes", "call_attributes", "connection_attributes", "connection_identity",
      "list", "list", "display", "signal", "feature_indicate", "transit_delay",
      "window_size", "list", "iwu_packet", "escape_to_proprietary", "codec_list">>

dect_cc_alerting_msg ==
    <<"iwu_attributes", "call_attributes", "connection_attributes", "connection_identity",
      "list", "list", "display", "signal", "feature_indicate", "terminal_capability",
      "transit_delay", "window_size", "list", "iwu_packet", "escape_to_proprietary",
      "codec_list">>

dect_cc_connect_msg ==
    <<"iwu_attributes", "call_attributes", "connection_attributes", "connection_identity",
      "list", "list", "display", "signal", "feature_indicate", "network_parameter",
      "ext_ho_indicator", "terminal_capability", "transit_delay", "window_size", "list",
      "iwu_to_iwu", "iwu_packet", "escape_to_proprietary", "codec_list">>

dect_cc_connect_ack_msg ==
    <<"display", "feature_indicate", "list", "iwu_packet", "escape_to_proprietary">>

dect_cc_release_msg ==
    <<"release_reason", "list", "list", "display", "feature_indicate", "list",
      "iwu_to_iwu", "iwu_packet", "escape_to_proprietary">>

dect_cc_release_com_msg ==
    <<"release_reason", "identity_type", "location_area", "iwu_attributes",
      "connection_attributes", "list", "display", "feature_indicate", "network_parameter",
      "list", "iwu_to_iwu", "iwu_packet", "escape_to_proprietary">>

dect_cc_service_change_msg ==
    <<"portable_identity", "iwu_attributes", "service_change_info", "call_attributes",
      "list", "connection_identity", "list", "iwu_to_iwu", "codec_list",
      "escape_to_proprietary">>

dect_cc_service_accept_msg ==
    <<"iwu_attributes", "connection_identity", "list", "iwu_to_iwu",
      "escape_to_proprietary">>

dect_cc_service_reject_msg ==
    <<"release_reason", "iwu_attributes", "connection_attributes", "list", "iwu_to_iwu",
      "escape_to_proprietary">>

dect_cc_notify_msg ==
    <<"timer_restart", "escape_to_proprietary">>

dect_cc_iwu_info_msg ==
    <<"portable_identity", "mms_generic_header", "mms_object_header", "list", "list",
      "list", "calling_party_name", "list", "called_party_subaddress", "segmented_info",
      "alphanumeric", "list", "iwu_to_iwu", "segmented_info", "iwu_packet",
      "escape_to_proprietary", "codec_list">>

dect_crss_hold_msg ==
    <<"display", "escape_to_proprietary">>

-----------------------------------------------------------------------------

dect_mm_access_rights_accept_msg ==
    <<"portable_identity", "list", "location_area", "auth_type", "cipher_info",
      "zap_field", "service_class", "setup_capability", "iwu_to_iwu", "model_identifier",
      "escape_to_proprietary", "codec_list">>

dect_mm_access_rights_request_msg ==
    <<"portable_identity", "auth_type", "cipher_info", "setup_capability",
      "terminal_capability", "iwu_to_iwu", "model_identifier", "escape_to_proprietary",
      "codec_list">>

dect_mm_access_rights_reject_msg ==
    <<"reject_reason", "duration", "iwu_to_iwu", "escape_to_proprietary">>

dect_mm_access_rights_terminate_accept_msg ==
    <<"escape_to_proprietary">>

dect_mm_access_rights_terminate_reject_msg ==
    <<"reject_reason", "duration", "escape_to_proprietary">>

dect_mm_access_rights_terminate_request_msg ==
    <<"portable_identity", "list", "iwu_to_iwu", "escape_to_proprietary">>

dect_mm_authentication_reject_msg ==
    <<"list", "reject_reason", "list", "escape_to_proprietary">>

dect_mm_authentication_reply_msg ==
    <<"auth_res", "auth_value", "zap_field", "service_class", "key", "list",
      "escape_to_proprietary">>

dect_mm_authentication_request_msg ==
    <<"auth_type", "auth_value", "auth_res", "auth_value", "cipher_info", "list",
      "escape_to_proprietary">>

dect_mm_cipher_suggest_msg ==
    <<"cipher_info", "call_identity", "connection_identity", "iwu_to_iwu",
      "escape_to_proprietary">>

dect_mm_cipher_request_msg ==
    <<"cipher_info", "call_identity", "connection_identity", "iwu_to_iwu",
      "escape_to_proprietary">>

dect_mm_cipher_reject_msg ==
    <<"list", "reject_reason", "escape_to_proprietary">>

dect_mm_detach_msg ==
    <<"portable_identity", "nwk_assigned_identity", "network_parameter", "list",
      "iwu_to_iwu", "escape_to_proprietary">>

dect_mm_identity_reply_msg ==
    <<"list", "list", "list", "list", "model_identifier", "escape_to_proprietary">>

dect_mm_identity_request_msg ==
    <<"list", "network_parameter", "iwu_to_iwu", "escape_to_proprietary">>

dect_mm_key_allocate_msg ==
    <<"allocation_type", "auth_value", "auth_value", "escape_to_proprietary">>

dect_mm_locate_accept_msg ==
    <<"portable_identity", "location_area", "use_tpui", "nwk_assigned_identity",
      "ext_ho_indicator", "setup_capability", "duration", "list", "iwu_to_iwu",
      "model_identifier", "escape_to_proprietary", "codec_list">>

dect_mm_locate_reject_msg ==
    <<"reject_reason", "duration", "list", "iwu_to_iwu", "escape_to_proprietary">>

dect_mm_locate_request_msg ==
    <<"portable_identity", "fixed_identity", "location_area", "nwk_assigned_identity",
      "cipher_info", "setup_capability", "terminal_capability", "network_parameter",
      "list", "iwu_to_iwu", "model_identifier", "escape_to_proprietary", "codec_list">>

dect_mm_info_accept_msg ==
    <<"info_type", "call_identity", "list", "location_area", "nwk_assigned_identity",
      "network_parameter", "duration", "segmented_info", "iwu_to_iwu",
      "escape_to_proprietary">>

dect_mm_info_reject_msg ==
    <<"call_identity", "reject_reason", "segmented_info", "iwu_to_iwu",
      "escape_to_proprietary">>

dect_mm_info_request_msg ==
    <<"info_type", "call_identity", "portable_identity", "list", "location_area",
      "nwk_assigned_identity", "network_parameter", "segmented_info", "iwu_to_iwu",
      "escape_to_proprietary">>

dect_mm_info_suggest_msg ==
    <<"info_type", "call_identity", "fixed_identity", "location_area",
      "nwk_assigned_identity", "network_parameter", "ext_ho_indicator", "key",
      "setup_capability", "segmented_info", "iwu_to_iwu", "escape_to_proprietary">>

dect_mm_temporary_identity_assign_msg ==
    <<"portable_identity", "location_area", "nwk_assigned_identity", "duration",
      "network_parameter", "list", "escape_to_proprietary">>

dect_mm_temporary_identity_assign_ack_msg ==
    <<"segmented_info", "iwu_to_iwu", "escape_to_proprietary">>

dect_mm_temporary_identity_assign_rej_msg ==
    <<"reject_reason", "escape_to_proprietary">>

dect_mm_iwu_msg ==
    <<"list", "iwu_to_iwu", "iwu_packet", "escape_to_proprietary">>

dect_mm_notify_msg ==
    <<"timer_restart", "escape_to_proprietary">>

-----------------------------------------------------------------------------

dect_lce_page_response_msg ==
    <<"portable_identity", "fixed_identity", "nwk_assigned_identity", "cipher_info",
      "escape_to_proprietary">>

dect_lce_page_reject_msg ==
    <<"portable_identity", "fixed_identity", "reject_reason", "escape_to_proprietary">>

-----------------------------------------------------------------------------

dect_ciss_register_msg ==
    <<"portable_identity", "list", "display", "keypad", "feature_activate",
      "feature_indicate", "escape_to_proprietary">>

dect_ciss_release_com_msg ==
    <<"release_reason", "list", "display", "keypad", "feature_activate",
      "feature_indicate", "escape_to_proprietary">>

dect_ciss_facility_msg ==
    <<"list", "display", "keypad", "feature_activate", "feature_indicate", "list",
      "escape_to_proprietary", "time_date", "events_notification", "call_information">>

-----------------------------------------------------------------------------

dect_clms_variable_msg ==
    <<"portable_identity", "mms_generic_header", "mms_object_header", "list", "list",
      "list", "calling_party_name", "list", "called_party_subaddr", "segmented_info",
      "alphanumeric", "iwu_to_iwu", "iwu_packet", "escape_to_proprietary">>

-----------------------------------------------------------------------------
\* The structures by message
MessageStruct ==
    [cc_setup |-> dect_cc_setup_msg, cc_info |-> dect_cc_info_msg,
     cc_setup_ack |-> dect_cc_setup_ack_msg, cc_call_proc |-> dect_cc_call_proc_msg,
     cc_alerting |-> dect_cc_alerting_msg, cc_connect |-> dect_cc_connect_msg,
     cc_connect_ack |-> dect_cc_connect_ack_msg, cc_release |-> dect_cc_release_msg,
     cc_release_com |-> dect_cc_release_com_msg,
     cc_service_change |-> dect_cc_service_change_msg,
     cc_service_accept |-> dect_cc_service_accept_msg,
     cc_service_reject |-> dect_cc_service_reject_msg, cc_notify |-> dect_cc_notify_msg,
     cc_iwu_info |-> dect_cc_iwu_info_msg, crss_hold |-> dect_crss_hold_msg,
     mm_access_rights_accept |-> dect_mm_access_rights_accept_msg,
     mm_access_rights_request |-> dect_mm_access_rights_request_msg,
     mm_access_rights_reject |-> dect_mm_access_rights_reject_msg,
     mm_access_rights_terminate_accept |-> dect_mm_access_rights_terminate_accept_msg,
     mm_access_rights_terminate_reject |-> dect_mm_access_rights_terminate_reject_msg,
     mm_access_rights_terminate_request |-> dect_mm_access_rights_terminate_request_msg,
     mm_authentication_reject |-> dect_mm_authentication_reject_msg,
     mm_authentication_reply |-> dect_mm_authentication_reply_msg,
     mm_authentication_request |-> dect_mm_authentication_request_msg,
     mm_cipher_suggest |-> dect_mm_cipher_suggest_msg,
     mm_cipher_request |-> dect_mm_cipher_request_msg,
     mm_cipher_reject |-> dect_mm_cipher_reject_msg, mm_detach |-> dect_mm_detach_msg,
     mm_identity_reply |-> dect_mm_identity_reply_msg,
     mm_identity_request |-> dect_mm_identity_request_msg,
     mm_key_allocate |-> dect_mm_key_allocate_msg,
     mm_locate_accept |-> dect_mm_locate_accept_msg,
     mm_locate_reject |-> dect_mm_locate_reject_msg,
     mm_locate_request |-> dect_mm_locate_request_msg,
     mm_info_accept |-> dect_mm_info_accept_msg,
     mm_info_reject |-> dect_mm_info_reject_msg,
     mm_info_request |-> dect_mm_info_request_msg,
     mm_info_suggest |-> dect_mm_info_suggest_msg,
     mm_temporary_identity_assign |-> dect_mm_temporary_identity_assign_msg,
     mm_temporary_identity_assign_ack |-> dect_mm_temporary_identity_assign_ack_msg,
     mm_temporary_identity_assign_rej |-> dect_mm_temporary_identity_assign_rej_msg,
     mm_iwu |-> dect_mm_iwu_msg, mm_notify_msg |-> dect_mm_notify_msg,
     lce_page_response |-> dect_lce_page_response_msg,
     lce_page_reject |-> dect_lce_page_reject_msg,
     ciss_register |-> dect_ciss_register_msg,
     ciss_release_com |-> dect_ciss_release_com_msg,
     ciss_facility |-> dect_ciss_facility_msg, clms_variable |-> dect_clms_variable_msg]
=============================================================================
