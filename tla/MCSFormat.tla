----------------------------- MODULE MCSFormat -----------------------------
(* The messages of the library for TLC, and the structures to send: with all *)
(* mandatory elements, with one or two fields different from that, and with   *)
(* all elements the direction allows.                                         *)
EXTENDS SFormat, InformationElements, MessageDescriptions, MessageStructs

\* The parsers of ElementCoding that can reject an element
Checking ==
    {"REPEAT_INDICATOR", "TIMER_RESTART", "PORTABLE_IDENTITY", "FIXED_IDENTITY", "RAND", "RS",
     "RES", "CIPHER_INFO", "FACILITY", "MULTI_DISPLAY", "MULTI_KEYPAD", "NETWORK_PARAMETER",
     "TERMINAL_CAPABILITY", "CALLING_PARTY_NUMBER", "CALLING_PARTY_NAME",
     "CALLED_PARTY_NUMBER", "IWU_TO_IWU", "ESCAPE_TO_PROPRIETARY"}

Misplaced == {"REPEAT_INDICATOR", "PORTABLE_IDENTITY", "MULTI_DISPLAY", "ESCAPE_FOR_EXTENSION"}

Contents(m, p) ==
    IF p \in Lists[m] THEN {<<>>, <<"ok">>, <<"ok", "ok">>}
    ELSE LET ie == Desc[m][p].ie
         IN  {<<>>, <<"ok">>}
                \cup (IF ie \in VariableLen THEN {<<"empty">>} ELSE {})
                \cup (IF ie \in DOMAIN Multi THEN {<<"long">>} ELSE {})
                \cup (IF ie = "PORTABLE_IDENTITY" THEN {<<"bad">>} ELSE {})

Minimal(m, side) ==
    [p \in Fields[m] |-> IF Desc[m][p][side] = "MANDATORY" THEN <<"ok">> ELSE <<>>]
Maximal(m, side) ==
    [p \in Fields[m] |-> IF Desc[m][p][side] # "NONE" THEN <<"ok">> ELSE <<>>]

Structures ==
    [m \in Message |->
        [side \in Side |->
            LET minimal == Minimal(m, side)
            IN  {minimal, Maximal(m, side)}
                  \cup UNION {{[minimal EXCEPT ![p] = c] : c \in Contents(m, p)} : p \in Fields[m]}
                  \cup {[minimal EXCEPT ![p] = <<"ok">>, ![q] = <<"ok">>] :
                          p \in {r \in Fields[m] : r < 9}, q \in {r \in Fields[m] : r >= 9}}]]

Messages == DOMAIN MessageDesc
=============================================================================
