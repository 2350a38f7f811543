-------------------------- MODULE MCElementCoding --------------------------
(* Samples of elements for TLC: for every element the values its coding treats *)
(* differently, the ends of each field, and all combinations of flags.         *)
EXTENDS ElementCoding

Texts == {<<>>, <<65>>, <<65, 200>>, [i \in 1..64 |-> i]}
Ends4 == {0, 1, 8, 15}

SampleAri ==
    {[arc |-> 0, code |-> 4660, fpn |-> 74565, fps |-> 0],
     [arc |-> 1, code |-> 65535, fpn |-> 1, fps |-> 9],
     [arc |-> 2, code |-> 0, fpn |-> 255, fps |-> 15],
     [arc |-> 3, code |-> 1048575, fpn |-> 128, fps |-> 0],
     [arc |-> 4, code |-> 32769, fpn |-> 4095, fps |-> 0]}

SampleIpei == {[emc |-> 0, psn |-> 0], [emc |-> 65535, psn |-> 1048575], [emc |-> 4660, psn |-> 74565]}

SampleIpui ==
    {[put |-> PutN, ipei |-> ipei] : ipei \in SampleIpei}
        \cup {[put |-> PutO, number |-> n] : n \in {0, 1, 9, 15, 16, 255, 256, 4095, 123456789}}
        \cup {[put |-> 4]}

SampleTpui ==
    {[type |-> "assigned", digits |-> <<1, 2, 3, 4, 11>>], [type |-> "emergency"], ClearedTpui,
     [type |-> "call_group"], [type |-> "connectionless_group"],
     DefaultTpui([put |-> PutN, ipei |-> [emc |-> 1, psn |-> 74565]], 0),
     DefaultTpui([put |-> PutO, number |-> 7], 0)}

SampleTerminal ==
    [tone : {0, 4}, echo : {3}, noise_rejection : {2}, volume_ctrl : {1}, slot : {0, 31},
     display : {5}, display_memory : {0, 127, 128, 300, 16383, 16384},
     display_lines : {2, 130}, display_columns : {16}, display_control : {0, 4},
     display_charsets : {0, 5}, scrolling : {1},
     profile_indicator : {[i \in 1..8 |-> 0], <<5, 0, 0, 0, 0, 0, 0, 0>>,
                          <<5, 0, 2, 0, 0, 0, 0, 0>>}]
        \* an octet of the memory ends the group, and nothing follows
        \cup [tone : {0}, echo : {3}, noise_rejection : {2}, volume_ctrl : {1}, slot : {0},
              display : {5}, display_memory : {128, 300, 16256}, display_lines : {0},
              display_columns : {0}, display_control : {0}, display_charsets : {0, 1},
              scrolling : {0}, profile_indicator : {[i \in 1..8 |-> 0]}]

SampleCodec == {[codec |-> c, service |-> 5, slot |-> s, cplane |-> p] :
                    c \in {2, 9}, s \in {0, 4}, p \in {0, 1}}

SampleElement(i) ==
        CASE ~Handler[i].build -> {}
          [] i = "TERMINAL_CAPABILITY" -> SampleTerminal
          [] i \in {"REPEAT_INDICATOR", "BASIC_SERVICE", "RELEASE_REASON", "SIGNAL", "PROGRESS_INDICATOR",
                    "FEATURE_ACTIVATE", "REJECT_REASON", "SETUP_CAPABILITY", "LOCATION_AREA"}
                \cup DOMAIN ExtendedId -> Element(i)
          [] i \in {"SINGLE_DISPLAY", "SINGLE_KEYPAD", "MULTI_DISPLAY", "MULTI_KEYPAD"} ->
                [info : Texts \cup {[k \in 1..MaxText |-> k]}]
          [] i = "INFO_TYPE" -> [type : {<<>>, <<0>>, <<18, 52>>, [k \in 1..8 |-> 32]}]
          [] i = "IDENTITY_TYPE" -> [group : {0, 1, 4, 8, 15}, type : {0, 16, 32, 116, 127}]
          [] i = "PORTABLE_IDENTITY" ->
                [type : {IdTypeIpui, IdTypeIpei}, ipui : SampleIpui]
                    \cup [type : {IdTypeTpui}, tpui : SampleTpui]
          [] i = "FIXED_IDENTITY" -> [type : FixedIdentityType, ari : SampleAri, rpn : {0, 7}]
          [] i = "ALLOCATION_TYPE" -> [auth_id : {1, 127}, auth_key_num : Ends4, auth_code_num : Ends4]
          [] i = "AUTH_TYPE" ->
                [auth_id : AuthId, proprietary_auth_id : {0, 5}, auth_key_type : {1, 3, 4},
                 auth_key_num : Ends4, flags : {0, 64, 160}, cipher_key_num : {0, 9},
                 defck_index : {0, 513}]
          [] i \in {"RAND", "RS"} -> [value : {<<1, 2, 3, 4, 5, 6, 7, 255>>}]
          [] i = "RES" -> [value : {<<1, 2, 3, 255>>}]
          [] i = "CIPHER_INFO" ->
                [enable : BOOLEAN, cipher_alg_id : {1, 40, 127}, cipher_key_type : {9, 10},
                 cipher_key_num : Nibble]
          [] i = "TIME_DATE" ->
                [coding : 1..3, interpretation : {0, 1}, year : {0, 17}, month : {0, 18},
                 day : {0, 49}, hour : {0, 35}, minute : {0, 89}, second : {0, 1}, timezone : {0, 132}]
          [] i = "NETWORK_PARAMETER" -> [discriminator : {8, 127, 236}, data : Texts]
          [] i = "CALLING_PARTY_NUMBER" ->
                [type : {0, 7}, npi : {0, 15}, presentation : Presentation, screening : Screening,
                 address : Texts]
          [] i = "CALLING_PARTY_NAME" ->
                [presentation : Presentation, alphabet : Alphabet, screening : Screening, name : Texts]
          [] i = "CALLED_PARTY_NUMBER" -> [type : NumberType, npi : NumberingPlan, address : Texts]
          [] i = "DURATION" -> [lock : 5..7, time : {0, 1, 2, 4, 15}, duration : {0, 9}]
          [] i = "IWU_TO_IWU" -> [sr : BOOLEAN, pd : {0, 22, 63}, data : Texts]
          [] i = "ESCAPE_TO_PROPRIETARY" -> [emc : {0, 4660, 65535}, content : Texts]
          [] i = "CODEC_LIST" ->
                [negotiation : {0, 1},
                 entry : {<<>>, [k \in 1..8 |-> [codec |-> k, service |-> 0, slot |-> 1, cplane |-> 0]]}
                             \cup {<<c>> : c \in SampleCodec}
                             \cup {<<c, d>> : c, d \in SampleCodec}]
          [] i = "EVENTS_NOTIFICATION" ->
                [events : {<<>>, <<[type |-> 3, subtype |-> 1, multiplicity |-> 127]>>,
                           <<[type |-> 0, subtype |-> 0, multiplicity |-> 1],
                             [type |-> 2, subtype |-> 3, multiplicity |-> 0]>>}]

FormSample == [IPEI_STRING |-> SampleIpei,
               PMID |-> {PmidOfTpui(t) : t \in {u \in SampleTpui : HasPmid(u)}}
                            \cup {[type |-> "default", num |-> n] : n \in {0, 65535}}
                            \cup {[type |-> "assigned", tpui |-> n] : n \in {922164, 987141}}]

Samples ==
    [i \in (IE \cup Form) |-> IF i \in Form THEN FormSample[i] ELSE SampleElement(i)]

\* What other implementations send: contents from too short to too long for the
\* arrays, groups that end in the first octet, in none, or in each
ForeignLength == {1, 2, 3, 4, 8, 10, 26, 27, 28, 40} \cup 64..70 \cup {124}
ForeignElements ==
    [i \in (VariableLength \cup DOMAIN DoubleOctetId) |->
        IF i \in VariableLength
        THEN {<<Id[i], n>> \o <<first>> \o [k \in 1..(n - 1) |-> other] :
                 n \in ForeignLength, first \in {0, 1, 127, 129, 144, 255},
                 other \in {0, 127, 144, 165}}
        ELSE {<<Id[i], value>> : value \in {0, 1, 2, 255}}]
=============================================================================
