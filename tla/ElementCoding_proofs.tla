------------------------- MODULE ElementCoding_proofs -------------------------
(***************************************************************************)
(* Proofs about ElementCoding for any values the application gives and any *)
(* octets the peer sends: every element that is built is framed so that    *)
(* its parser finds it (ElementFramed), arrives as it was given but for    *)
(* what the code is known to lose (ElementSurvives), loses it only once    *)
(* (LossHappensOnce); a parser never fills more than the arrays of its     *)
(* structure hold (WithinArrays); and the forms of an identity are read as *)
(* they were written, and a digit that was mistyped is seen                *)
(* (IdentityForms).                                                        *)
(*                                                                         *)
(* What the state of ElementCoding needs of the coding of an element is    *)
(* the same for all kinds:                                                 *)
(*   Arrives(element, e, p)  p is what arrives of the element e,           *)
(*   Sent(element, e)        the octets of e are framed and its parser     *)
(*                           reads what arrives,                           *)
(*   Outcome(element, e)     e is sent, or is not built, or is empty.      *)
(* With Outcome for every element the six actions keep IInv: the octets    *)
(* on the way are those of the element that was given, and the peer holds  *)
(* what arrives of it, also after it has passed it on.                     *)
(***************************************************************************)
EXTENDS ElementCodes_proofs

-----------------------------------------------------------------------------
(* What arrives of an element, and that it is sent *)

\* The elements that are parsed: what is lost is lost then.
Varies == {"DURATION", "TERMINAL_CAPABILITY"}

Settled(element) ==
    CASE element = "AUTH_TYPE" ->
            {e \in AnyAuthType : e.auth_id = AuthProprietary \/ Exact("AUTH_TYPE", e)}
      [] element = "CODEC_LIST" -> {e \in AnyCodecList : Exact("CODEC_LIST", e)}
      [] element = "DURATION" -> AnyDuration
      [] element = "TERMINAL_CAPABILITY" -> AnyTerminal
      [] OTHER -> {e \in Element(element) : Exact(element, e)}

Unsettled(element, e) ==
    element \in Varies \/ (element = "AUTH_TYPE" /\ e.auth_id = AuthProprietary)

\* p is what arrives of the element e.
Arrives(element, e, p) ==
    /\ p # Invalid
    /\ p \in Settled(element)
    /\ e \in Element(element) => (p = e <=> Exact(element, e))
    /\ e \in Settled(element) => p = e \/ Unsettled(element, e)

Framed(element, o) ==
    /\ o \in Seq(Octet) /\ Len(o) \in 1 .. 257
    /\ ParseHeader(o) = [id |-> Id[element], len |-> Len(o)]

Sent(element, e) ==
    LET o == AddHeader(element, BuildElement(element, e)) IN
    /\ Framed(element, o)
    /\ Handler[element].parse => Arrives(element, e, ParseElement(element, o))

\* No octets are the mark of an element that was not built.
LEMMA NotBuiltIs ==
    ASSUME NEW o \in Seq(Octet)
    PROVE  o # NotBuilt
<1>1. NotBuilt \notin Seq(Octet)
  <2>1. NotBuilt[1] = -1 /\ Len(NotBuilt) = 1 /\ 1 \in 1 .. 1
    BY DEF NotBuilt
  <2>2. -1 \notin Octet
    BY DEF Octet
  <2>3. ASSUME NotBuilt \in Seq(Octet)
        PROVE  FALSE
    <3>1. \A i \in 1 .. Len(NotBuilt) : NotBuilt[i] \in Octet
      BY <2>3
    <3> QED BY Zenon, <2>1, <2>2, <3>1
  <2> QED BY <2>3
<1> QED BY <1>1

\* The element of variable length with some contents
LEMMA WrapFramed ==
    ASSUME NEW element, element \in VariableLength, NEW id, id = Id[element], id \in 1 .. 127,
           NEW body, Contents(body)
    PROVE  AddHeader(element, body) = Wrap(id, body) /\ Framed(element, Wrap(id, body))
<1> DEFINE o == Wrap(id, body)
<1>1. body \in Seq(Octet) /\ Len(body) \in 1 .. 255
  BY DEF Contents
<1>2. body # NotBuilt /\ body # <<>>
  <2>0. body \in Seq(Octet)
    BY Zenon, <1>1
  <2>1. body # NotBuilt
    BY ONLY <2>0, NotBuiltIs
  <2>4. \A m \in 1 .. 255 : m # 0
    OBVIOUS
  <2>2. Len(body) # 0
    BY Zenon, <1>1, <2>4
  <2>3. body # <<>>
    BY ONLY <2>2
  <2> QED BY <2>1, <2>3
<1>3. VariableLength \cap (DOMAIN SingleOctetId \cup DOMAIN ExtendedId) = {}
      /\ VariableLength \cap DOMAIN DoubleOctetId = {}
  BY DEF VariableLength, VariableLengthId, SingleOctetId, ExtendedId, DoubleOctetId
<1>4. AddHeader(element, body) = o
  BY Zenon, <1>2, <1>3 DEF AddHeader, Wrap
<1>5. o \in Seq(Octet) /\ Len(o) \in 3 .. 257 /\ At(o, 0) = id /\ At(o, 1) = Len(body)
      /\ Len(o) = 2 + Len(body)
  <2> DEFINE s == <<id, Len(body)>>
  <2>1. id \in Octet /\ Len(body) \in Octet
    BY <1>1 DEF Octet
  <2>2. s \in Seq(Octet) /\ Len(s) = 2 /\ s[1] = id /\ s[2] = Len(body)
    BY <2>1
  <2> HIDE DEF s
  <2>3. s \in Seq(Octet) /\ body \in Seq(Octet)
    BY <1>1, <2>2
  <2>4. /\ s \o body \in Seq(Octet) /\ Len(s \o body) = Len(s) + Len(body)
        /\ \A i \in 1 .. Len(s) : (s \o body)[i] = s[i]
    BY <2>3, Joined
  <2>10. 1 \in 1 .. 2 /\ 2 \in 1 .. 2
    OBVIOUS
  <2>5. (s \o body)[1] = id /\ (s \o body)[2] = Len(body)
    BY Zenon, <2>2, <2>4, <2>10
  <2>6. o = s \o body
    BY DEF s, Wrap
  <2> HIDE DEF o
  <2>7. Len(o) \in 3 .. 257 /\ Len(o) = 2 + Len(body) /\ o \in Seq(Octet)
    <3>1. Len(o) = 2 + Len(body) /\ o \in Seq(Octet)
      BY Zenon, <2>2, <2>4, <2>6
    <3>2. \A m \in 1 .. 255 : 2 + m \in 3 .. 257
      OBVIOUS
    <3>3. 2 + Len(body) \in 3 .. 257
      BY Zenon, <1>1, <3>2
    <3> DEFINE n == 2 + Len(body)
    <3>4. n \in 3 .. 257 /\ Len(o) = n
      BY Zenon, <3>1, <3>3
    <3> HIDE DEF n
    <3>5. Len(o) \in 3 .. 257
      BY <3>4
    <3> QED BY <3>1, <3>5
  <2>8. 0 < Len(o) /\ 1 < Len(o) /\ 0 + 1 = 1 /\ 1 + 1 = 2
    BY <2>7
  <2>9. At(o, 0) = id /\ At(o, 1) = Len(body)
    BY Zenon, <2>5, <2>6, <2>8 DEF At
  <2> QED BY <2>7, <2>9
<1> HIDE DEF o
<1>6. ParseHeader(o) = [id |-> id, len |-> Len(o)]
  <2> DEFINE first == At(o, 0)
             prefix == 16 * (first \div 16)
             ca == Len(o) < 1
             cb == Len(o) >= 1 /\ first >= 128 /\ prefix # Id["DOUBLE_OCTET_ELEMENT"]
             cc == Len(o) >= 1 /\ prefix = Id["DOUBLE_OCTET_ELEMENT"]
             b == [id |-> IF prefix = Id["EXT_PREFIX"] THEN first ELSE prefix, len |-> 1]
             c == IF Len(o) < 2 THEN NoHeader ELSE [id |-> first, len |-> 2]
             d == IF Len(o) < 2 \/ Len(o) < 2 + At(o, 1) THEN NoHeader
                  ELSE [id |-> first, len |-> 2 + At(o, 1)]
  <2>1. ParseHeader(o) = CASE ca -> NoHeader [] cb -> b [] cc -> c [] OTHER -> d
    BY DEF ParseHeader
  <2>2. Id["DOUBLE_OCTET_ELEMENT"] = 224
    BY DEF Id, IE, SingleOctetId, ExtendedId, DoubleOctetId
  <2>3. ~ ca /\ ~ cb /\ ~ cc
    <3>0. first = id /\ id \in 1 .. 127 /\ Len(o) \in 3 .. 257
      BY Zenon, <1>5
    <3>1. first < 128 /\ prefix \in 0 .. 112
      <4> HIDE DEF first
      <4> QED BY <3>0
    <3> HIDE DEF first, prefix
    <3>3. ~ (first >= 128) /\ prefix # 224
      BY <3>0, <3>1
    <3>4. \A m \in 3 .. 257 : ~ (m < 1)
      OBVIOUS
    <3>2. ~ (first >= 128) /\ prefix # 224 /\ ~ (Len(o) < 1)
      BY Zenon, <3>0, <3>3, <3>4
    <3> QED BY Zenon, <2>2, <3>2
  <2>4. d = [id |-> id, len |-> Len(o)]
    BY <1>5
  <2> HIDE DEF ca, cb, cc, b, c, d
  <2> QED BY <2>1, <2>3, <2>4
<1>7. Framed(element, o)
  BY <1>5, <1>6 DEF Framed
<1> QED BY Zenon, <1>4, <1>7 DEF o

\* An element of two octets
LEMMA DoubleFramed ==
    ASSUME NEW element, element \in DOMAIN DoubleOctetId, NEW id, id = Id[element],
           id \in 224 .. 233, NEW value \in Octet
    PROVE  /\ AddHeader(element, <<value>>) = <<id, value>> /\ Framed(element, <<id, value>>)
           /\ At(<<id, value>>, 1) = value
<1> DEFINE o == <<id, value>>
           body == <<value>>
<1>1. body \in Seq(Octet)
  OBVIOUS
<1>2. body # NotBuilt
  BY <1>1, NotBuiltIs
<1>3. DOMAIN DoubleOctetId \cap (DOMAIN SingleOctetId \cup DOMAIN ExtendedId) = {}
  BY DEF SingleOctetId, ExtendedId, DoubleOctetId
<1>4. <<id>> \o body = o
  <2> DEFINE s == <<id>>
             t == s \o body
  <2>0. id \in Octet
    BY DEF Octet
  <2>1. s \in Seq(Octet) /\ Len(s) = 1 /\ s[1] = id /\ Len(body) = 1 /\ body[1] = value
        /\ o \in Seq(Octet) /\ Len(o) = 2 /\ o[1] = id /\ o[2] = value
    BY <2>0
  <2> HIDE DEF s, o, body
  <2>2. s \in Seq(Octet) /\ body \in Seq(Octet)
    BY <1>1, <2>1
  <2>3. /\ t \in Seq(Octet) /\ Len(t) = Len(s) + Len(body)
        /\ \A i \in 1 .. Len(s) : t[i] = s[i]
        /\ \A i \in 1 .. Len(body) : t[Len(s) + i] = body[i]
    BY <2>2, Joined
  <2>4. 1 \in 1 .. 1 /\ 1 + 1 = 2
    OBVIOUS
  <2>5. Len(t) = 2 /\ t[1] = id /\ t[2] = value
    BY ZenonT(40), <2>1, <2>3, <2>4
  <2>6. \A i \in 1 .. 2 : t[i] = o[i]
    <3>1. \A i \in 1 .. 2 : i = 1 \/ i = 2
      OBVIOUS
    <3> QED BY ZenonT(40), <2>1, <2>5, <3>1
  <2> HIDE DEF t
  <2>7. t = o
    BY <2>1, <2>3, <2>5, <2>6, SeqEqual
  <2> QED BY Zenon, <2>7 DEF t, s
<1>5. AddHeader(element, body) = o
  <2> HIDE DEF body, o
  <2> QED BY Zenon, <1>2, <1>3, <1>4 DEF AddHeader
<1>6. o \in Seq(Octet) /\ Len(o) = 2 /\ At(o, 0) = id /\ At(o, 1) = value
  <2>1. id \in Octet
    BY DEF Octet
  <2> QED BY <2>1 DEF At
<1> HIDE DEF o, body
<1>7. ParseHeader(o) = [id |-> id, len |-> Len(o)]
  <2> DEFINE first == At(o, 0)
             prefix == 16 * (first \div 16)
             ca == Len(o) < 1
             cb == Len(o) >= 1 /\ first >= 128 /\ prefix # Id["DOUBLE_OCTET_ELEMENT"]
             cc == Len(o) >= 1 /\ prefix = Id["DOUBLE_OCTET_ELEMENT"]
             b == [id |-> IF prefix = Id["EXT_PREFIX"] THEN first ELSE prefix, len |-> 1]
             c == IF Len(o) < 2 THEN NoHeader ELSE [id |-> first, len |-> 2]
             d == IF Len(o) < 2 \/ Len(o) < 2 + At(o, 1) THEN NoHeader
                  ELSE [id |-> first, len |-> 2 + At(o, 1)]
  <2>1. ParseHeader(o) = CASE ca -> NoHeader [] cb -> b [] cc -> c [] OTHER -> d
    BY DEF ParseHeader
  <2>2. Id["DOUBLE_OCTET_ELEMENT"] = 224
    BY DEF Id, IE, SingleOctetId, ExtendedId, DoubleOctetId
  <2>3. ~ ca /\ ~ cb /\ cc
    BY SMTT(30), <1>6, <2>2
  <2>4. c = [id |-> id, len |-> Len(o)]
    BY <1>6
  <2> HIDE DEF ca, cb, cc, b, c, d
  <2> QED BY <2>1, <2>3, <2>4
<1>8. Framed(element, o)
  BY <1>6, <1>7 DEF Framed
<1> QED BY Zenon, <1>5, <1>6, <1>8 DEF o, body

\* An element of one octet
LEMMA SingleFramed ==
    ASSUME NEW element, element \in DOMAIN SingleOctetId \cup DOMAIN ExtendedId, NEW id,
           id = Id[element], NEW value \in 0 .. 15,
           (id = 208) \/ (id \in 161 .. 163 /\ value = 0), NEW first, first = id + value
    PROVE  /\ AddHeader(element, <<value>>) = <<first>> /\ Framed(element, <<first>>)
           /\ At(<<first>>, 0) = first
<1> DEFINE o == <<first>>
           body == <<value>>
<1>1. body \in Seq(Octet)
  <2>1. value \in Octet
    BY DEF Octet
  <2> QED BY <2>1
<1>2. body # NotBuilt
  BY <1>1, NotBuiltIs
<1>3. body[1] = value
  OBVIOUS
<1>4. AddHeader(element, body) = o
  <2> HIDE DEF body
  <2> QED BY Zenon, <1>2, <1>3 DEF AddHeader
<1>5. o \in Seq(Octet) /\ Len(o) = 1 /\ At(o, 0) = first
  <2>1. first \in Octet
    BY DEF Octet
  <2> QED BY <2>1 DEF At
<1> HIDE DEF o, body
<1>6. ParseHeader(o) = [id |-> id, len |-> Len(o)]
  <2> DEFINE x == At(o, 0)
             prefix == 16 * (x \div 16)
             ca == Len(o) < 1
             cb == Len(o) >= 1 /\ x >= 128 /\ prefix # Id["DOUBLE_OCTET_ELEMENT"]
             cc == Len(o) >= 1 /\ prefix = Id["DOUBLE_OCTET_ELEMENT"]
             b == [id |-> IF prefix = Id["EXT_PREFIX"] THEN x ELSE prefix, len |-> 1]
             c == IF Len(o) < 2 THEN NoHeader ELSE [id |-> x, len |-> 2]
             d == IF Len(o) < 2 \/ Len(o) < 2 + At(o, 1) THEN NoHeader
                  ELSE [id |-> x, len |-> 2 + At(o, 1)]
  <2>1. ParseHeader(o) = CASE ca -> NoHeader [] cb -> b [] cc -> c [] OTHER -> d
    BY DEF ParseHeader
  <2>2. Id["DOUBLE_OCTET_ELEMENT"] = 224 /\ Id["EXT_PREFIX"] = 160
    BY DEF Id, IE, SingleOctetId, ExtendedId, DoubleOctetId
  <2>3. ~ ca /\ cb /\ ~ cc
    BY <1>5, <2>2
  <2>4. b = [id |-> id, len |-> Len(o)]
    BY <1>5, <2>2
  <2> HIDE DEF ca, cb, cc, b, c, d
  <2> QED BY <2>1, <2>3, <2>4
<1>7. Framed(element, o)
  BY <1>5, <1>6 DEF Framed
<1> QED BY Zenon, <1>4, <1>5, <1>7 DEF o, body

-----------------------------------------------------------------------------
(* The elements that always arrive as they were sent *)

Special == Varies \cup {"AUTH_TYPE", "CODEC_LIST"}

\* The elements of variable length, by their identifiers
LEMMA VariableIds ==
    ASSUME NEW element \in VariableLength
    PROVE  element \in IE /\ Id[element] \in 1 .. 127
<1>1. element \in DOMAIN VariableLengthId
  BY DEF VariableLength
<1>2. VariableLengthId[element] \in 1 .. 127
  BY <1>1 DEF VariableLengthId
<1>3. /\ element \in IE /\ element \notin DOMAIN SingleOctetId /\ element \notin DOMAIN ExtendedId
      /\ element \notin DOMAIN DoubleOctetId
  BY <1>1 DEF IE, VariableLengthId, SingleOctetId, ExtendedId, DoubleOctetId
<1>4. Id[element] = VariableLengthId[element]
  BY <1>3 DEF Id
<1> QED BY Zenon, <1>2, <1>3, <1>4

\* To arrive is to be exact, where the type is kept.
LEMMA ExactArrives ==
    ASSUME NEW element, element \notin Special, NEW e, NEW p \in Element(element), p # Invalid,
           Exact(element, p), Exact(element, e) => p = e
    PROVE  Arrives(element, e, p)
<1>1. Settled(element) = {x \in Element(element) : Exact(element, x)}
  BY Zenon DEF Settled, Special, Varies
<1> QED BY Zenon, <1>1 DEF Arrives

\* What is left to show of an element of variable length
LEMMA VariableSent ==
    ASSUME NEW element \in VariableLength, NEW e, NEW body, body = BuildElement(element, e),
           Contents(body),
           Handler[element].parse =>
               Arrives(element, e, ParseElement(element, Wrap(Id[element], body)))
    PROVE  Sent(element, e)
<1> DEFINE id == Id[element]
<1>1. id \in 1 .. 127
  BY VariableIds
<1> HIDE DEF id
<1>2. AddHeader(element, body) = Wrap(id, body) /\ Framed(element, Wrap(id, body))
  BY <1>1, WrapFramed DEF id
<1> QED BY Zenon, <1>2 DEF Sent, id

\* The elements that always arrive as they were sent
LEMMA PlainSent ==
    ASSUME NEW element \in VariableLength, element \notin Special, NEW e \in Element(element),
           Exact(element, e), e # Invalid, NEW body, body = BuildElement(element, e),
           Contents(body), ParseElement(element, Wrap(Id[element], body)) = e
    PROVE  Sent(element, e)
<1>1. Arrives(element, e, ParseElement(element, Wrap(Id[element], body)))
  BY Zenon, ExactArrives
<1> QED BY <1>1, VariableSent

\* Each of these follows from its lemma of coding.
LEMMA IdentityTypeSent ==
    ASSUME NEW e \in Element("IDENTITY_TYPE")
    PROVE  Sent("IDENTITY_TYPE", e)
<1> DEFINE id == Id["IDENTITY_TYPE"]
           body == BuildIdentityType(e)
<1>1. e \in IdentityType
  BY DEF Element
<1>2. Contents(body) /\ ParseIdentityType(Wrap(id, body)) = e
  BY <1>1, IdentityTypeCoded
<1>3. body = BuildElement("IDENTITY_TYPE", e)
  BY DEF BuildElement
<1>4. ParseElement("IDENTITY_TYPE", Wrap(id, body)) = ParseIdentityType(Wrap(id, body))
  BY DEF ParseElement
<1>5. Exact("IDENTITY_TYPE", e)
  BY DEF Exact
<1>6. e # Invalid
  BY <1>1 DEF IdentityType, Invalid
<1>7. "IDENTITY_TYPE" \in VariableLength /\ "IDENTITY_TYPE" \notin Special
  BY DEF VariableLength, VariableLengthId, Special, Varies
<1> HIDE DEF body
<1> QED BY Zenon, <1>2, <1>3, <1>4, <1>5, <1>6, <1>7, PlainSent DEF id

LEMMA LocationAreaSent ==
    ASSUME NEW e \in Element("LOCATION_AREA")
    PROVE  Sent("LOCATION_AREA", e)
<1> DEFINE id == Id["LOCATION_AREA"]
           body == BuildLocationArea(e)
<1>1. e \in LocationArea
  BY DEF Element
<1>2. Contents(body) /\ ParseLocationArea(Wrap(id, body)) = e
  BY <1>1, LocationAreaCoded
<1>3. body = BuildElement("LOCATION_AREA", e)
  BY DEF BuildElement
<1>4. ParseElement("LOCATION_AREA", Wrap(id, body)) = ParseLocationArea(Wrap(id, body))
  BY DEF ParseElement
<1>5. Exact("LOCATION_AREA", e)
  BY DEF Exact
<1>6. e # Invalid
  BY <1>1 DEF LocationArea, Invalid
<1>7. "LOCATION_AREA" \in VariableLength /\ "LOCATION_AREA" \notin Special
  BY DEF VariableLength, VariableLengthId, Special, Varies
<1> HIDE DEF body
<1> QED BY Zenon, <1>2, <1>3, <1>4, <1>5, <1>6, <1>7, PlainSent DEF id

LEMMA AllocationTypeSent ==
    ASSUME NEW e \in Element("ALLOCATION_TYPE")
    PROVE  Sent("ALLOCATION_TYPE", e)
<1> DEFINE id == Id["ALLOCATION_TYPE"]
           body == BuildAllocationType(e)
<1>1. e \in AllocationType
  BY DEF Element
<1>2. Contents(body) /\ ParseAllocationType(Wrap(id, body)) = e
  BY <1>1, AllocationTypeCoded
<1>3. body = BuildElement("ALLOCATION_TYPE", e)
  BY DEF BuildElement
<1>4. ParseElement("ALLOCATION_TYPE", Wrap(id, body)) = ParseAllocationType(Wrap(id, body))
  BY DEF ParseElement
<1>5. Exact("ALLOCATION_TYPE", e)
  BY DEF Exact
<1>6. e # Invalid
  BY <1>1 DEF AllocationType, Invalid
<1>7. "ALLOCATION_TYPE" \in VariableLength /\ "ALLOCATION_TYPE" \notin Special
  BY DEF VariableLength, VariableLengthId, Special, Varies
<1> HIDE DEF body
<1> QED BY Zenon, <1>2, <1>3, <1>4, <1>5, <1>6, <1>7, PlainSent DEF id

LEMMA ProgressIndicatorSent ==
    ASSUME NEW e \in Element("PROGRESS_INDICATOR")
    PROVE  Sent("PROGRESS_INDICATOR", e)
<1> DEFINE id == Id["PROGRESS_INDICATOR"]
           body == BuildProgressIndicator(e)
<1>1. e \in ProgressIndicator
  BY DEF Element
<1>2. Contents(body) /\ ParseProgressIndicator(Wrap(id, body)) = e
  BY <1>1, ProgressIndicatorCoded
<1>3. body = BuildElement("PROGRESS_INDICATOR", e)
  BY DEF BuildElement
<1>4. ParseElement("PROGRESS_INDICATOR", Wrap(id, body)) = ParseProgressIndicator(Wrap(id, body))
  BY DEF ParseElement
<1>5. Exact("PROGRESS_INDICATOR", e)
  BY DEF Exact
<1>6. e # Invalid
  BY <1>1 DEF ProgressIndicator, Invalid
<1>7. "PROGRESS_INDICATOR" \in VariableLength /\ "PROGRESS_INDICATOR" \notin Special
  BY DEF VariableLength, VariableLengthId, Special, Varies
<1> HIDE DEF body
<1> QED BY Zenon, <1>2, <1>3, <1>4, <1>5, <1>6, <1>7, PlainSent DEF id

LEMMA FeatureActivateSent ==
    ASSUME NEW e \in Element("FEATURE_ACTIVATE")
    PROVE  Sent("FEATURE_ACTIVATE", e)
<1> DEFINE id == Id["FEATURE_ACTIVATE"]
           body == BuildFeatureActivate(e)
<1>1. e \in FeatureActivate
  BY DEF Element
<1>2. Contents(body) /\ ParseFeatureActivate(Wrap(id, body)) = e
  BY <1>1, FeatureActivateCoded
<1>3. body = BuildElement("FEATURE_ACTIVATE", e)
  BY DEF BuildElement
<1>4. ParseElement("FEATURE_ACTIVATE", Wrap(id, body)) = ParseFeatureActivate(Wrap(id, body))
  BY DEF ParseElement
<1>5. Exact("FEATURE_ACTIVATE", e)
  BY DEF Exact
<1>6. e # Invalid
  BY <1>1 DEF FeatureActivate, Invalid
<1>7. "FEATURE_ACTIVATE" \in VariableLength /\ "FEATURE_ACTIVATE" \notin Special
  BY DEF VariableLength, VariableLengthId, Special, Varies
<1> HIDE DEF body
<1> QED BY Zenon, <1>2, <1>3, <1>4, <1>5, <1>6, <1>7, PlainSent DEF id

LEMMA RejectReasonSent ==
    ASSUME NEW e \in Element("REJECT_REASON")
    PROVE  Sent("REJECT_REASON", e)
<1> DEFINE id == Id["REJECT_REASON"]
           body == BuildRejectReason(e)
<1>1. e \in RejectReason
  BY DEF Element
<1>2. Contents(body) /\ ParseRejectReason(Wrap(id, body)) = e
  BY <1>1, RejectReasonCoded
<1>3. body = BuildElement("REJECT_REASON", e)
  BY DEF BuildElement
<1>4. ParseElement("REJECT_REASON", Wrap(id, body)) = ParseRejectReason(Wrap(id, body))
  BY DEF ParseElement
<1>5. Exact("REJECT_REASON", e)
  BY DEF Exact
<1>6. e # Invalid
  BY <1>1 DEF RejectReason, Invalid
<1>7. "REJECT_REASON" \in VariableLength /\ "REJECT_REASON" \notin Special
  BY DEF VariableLength, VariableLengthId, Special, Varies
<1> HIDE DEF body
<1> QED BY Zenon, <1>2, <1>3, <1>4, <1>5, <1>6, <1>7, PlainSent DEF id

LEMMA SetupCapabilitySent ==
    ASSUME NEW e \in Element("SETUP_CAPABILITY")
    PROVE  Sent("SETUP_CAPABILITY", e)
<1> DEFINE id == Id["SETUP_CAPABILITY"]
           body == BuildSetupCapability(e)
<1>1. e \in SetupCapability
  BY DEF Element
<1>2. Contents(body) /\ ParseSetupCapability(Wrap(id, body)) = e
  BY <1>1, SetupCapabilityCoded
<1>3. body = BuildElement("SETUP_CAPABILITY", e)
  BY DEF BuildElement
<1>4. ParseElement("SETUP_CAPABILITY", Wrap(id, body)) = ParseSetupCapability(Wrap(id, body))
  BY DEF ParseElement
<1>5. Exact("SETUP_CAPABILITY", e)
  BY DEF Exact
<1>6. e # Invalid
  BY <1>1 DEF SetupCapability, Invalid
<1>7. "SETUP_CAPABILITY" \in VariableLength /\ "SETUP_CAPABILITY" \notin Special
  BY DEF VariableLength, VariableLengthId, Special, Varies
<1> HIDE DEF body
<1> QED BY Zenon, <1>2, <1>3, <1>4, <1>5, <1>6, <1>7, PlainSent DEF id

LEMMA AuthValueSent ==
    ASSUME NEW e \in Element("RAND")
    PROVE  Sent("RAND", e)
<1> DEFINE id == Id["RAND"]
           body == BuildAuthValue(e)
<1>1. e \in AuthValue
  BY DEF Element
<1>2. Contents(body) /\ ParseAuthValue(Wrap(id, body)) = e
  BY <1>1, AuthValueCoded
<1>3. body = BuildElement("RAND", e)
  BY DEF BuildElement
<1>4. ParseElement("RAND", Wrap(id, body)) = ParseAuthValue(Wrap(id, body))
  BY DEF ParseElement
<1>5. Exact("RAND", e)
  BY DEF Exact
<1>6. e # Invalid
  BY <1>1 DEF AuthValue, Invalid
<1>7. "RAND" \in VariableLength /\ "RAND" \notin Special
  BY DEF VariableLength, VariableLengthId, Special, Varies
<1> HIDE DEF body
<1> QED BY Zenon, <1>2, <1>3, <1>4, <1>5, <1>6, <1>7, PlainSent DEF id

LEMMA RsSent ==
    ASSUME NEW e \in Element("RS")
    PROVE  Sent("RS", e)
<1> DEFINE id == Id["RS"]
           body == BuildAuthValue(e)
<1>1. e \in AuthValue
  BY DEF Element
<1>2. Contents(body) /\ ParseAuthValue(Wrap(id, body)) = e
  BY <1>1, AuthValueCoded
<1>3. body = BuildElement("RS", e)
  BY DEF BuildElement
<1>4. ParseElement("RS", Wrap(id, body)) = ParseAuthValue(Wrap(id, body))
  BY DEF ParseElement
<1>5. Exact("RS", e)
  BY DEF Exact
<1>6. e # Invalid
  BY <1>1 DEF AuthValue, Invalid
<1>7. "RS" \in VariableLength /\ "RS" \notin Special
  BY DEF VariableLength, VariableLengthId, Special, Varies
<1> HIDE DEF body
<1> QED BY Zenon, <1>2, <1>3, <1>4, <1>5, <1>6, <1>7, PlainSent DEF id

LEMMA AuthResSent ==
    ASSUME NEW e \in Element("RES")
    PROVE  Sent("RES", e)
<1> DEFINE id == Id["RES"]
           body == BuildAuthRes(e)
<1>1. e \in AuthRes
  BY DEF Element
<1>2. Contents(body) /\ ParseAuthRes(Wrap(id, body)) = e
  BY <1>1, AuthResCoded
<1>3. body = BuildElement("RES", e)
  BY DEF BuildElement
<1>4. ParseElement("RES", Wrap(id, body)) = ParseAuthRes(Wrap(id, body))
  BY DEF ParseElement
<1>5. Exact("RES", e)
  BY DEF Exact
<1>6. e # Invalid
  BY <1>1 DEF AuthRes, Invalid
<1>7. "RES" \in VariableLength /\ "RES" \notin Special
  BY DEF VariableLength, VariableLengthId, Special, Varies
<1> HIDE DEF body
<1> QED BY Zenon, <1>2, <1>3, <1>4, <1>5, <1>6, <1>7, PlainSent DEF id

LEMMA NetworkParameterSent ==
    ASSUME NEW e \in Element("NETWORK_PARAMETER")
    PROVE  Sent("NETWORK_PARAMETER", e)
<1> DEFINE id == Id["NETWORK_PARAMETER"]
           body == BuildNetworkParameter(e)
<1>1. e \in NetworkParameter
  BY DEF Element
<1>2. Contents(body) /\ ParseNetworkParameter(Wrap(id, body)) = e
  BY <1>1, NetworkParameterCoded
<1>3. body = BuildElement("NETWORK_PARAMETER", e)
  BY DEF BuildElement
<1>4. ParseElement("NETWORK_PARAMETER", Wrap(id, body)) = ParseNetworkParameter(Wrap(id, body))
  BY DEF ParseElement
<1>5. Exact("NETWORK_PARAMETER", e)
  BY DEF Exact
<1>6. e # Invalid
  BY <1>1 DEF NetworkParameter, Invalid
<1>7. "NETWORK_PARAMETER" \in VariableLength /\ "NETWORK_PARAMETER" \notin Special
  BY DEF VariableLength, VariableLengthId, Special, Varies
<1> HIDE DEF body
<1> QED BY Zenon, <1>2, <1>3, <1>4, <1>5, <1>6, <1>7, PlainSent DEF id

LEMMA CalledPartyNumberSent ==
    ASSUME NEW e \in Element("CALLED_PARTY_NUMBER")
    PROVE  Sent("CALLED_PARTY_NUMBER", e)
<1> DEFINE id == Id["CALLED_PARTY_NUMBER"]
           body == BuildCalledPartyNumber(e)
<1>1. e \in CalledPartyNumber
  BY DEF Element
<1>2. Contents(body) /\ ParseCalledPartyNumber(Wrap(id, body)) = e
  BY <1>1, CalledPartyNumberCoded
<1>3. body = BuildElement("CALLED_PARTY_NUMBER", e)
  BY DEF BuildElement
<1>4. ParseElement("CALLED_PARTY_NUMBER", Wrap(id, body)) = ParseCalledPartyNumber(Wrap(id, body))
  BY DEF ParseElement
<1>5. Exact("CALLED_PARTY_NUMBER", e)
  BY DEF Exact
<1>6. e # Invalid
  BY <1>1 DEF CalledPartyNumber, Invalid
<1>7. "CALLED_PARTY_NUMBER" \in VariableLength /\ "CALLED_PARTY_NUMBER" \notin Special
  BY DEF VariableLength, VariableLengthId, Special, Varies
<1> HIDE DEF body
<1> QED BY Zenon, <1>2, <1>3, <1>4, <1>5, <1>6, <1>7, PlainSent DEF id

LEMMA IwuToIwuSent ==
    ASSUME NEW e \in Element("IWU_TO_IWU")
    PROVE  Sent("IWU_TO_IWU", e)
<1> DEFINE id == Id["IWU_TO_IWU"]
           body == BuildIwuToIwu(e)
<1>1. e \in IwuToIwu
  BY DEF Element
<1>2. Contents(body) /\ ParseIwuToIwu(Wrap(id, body)) = e
  BY <1>1, IwuToIwuCoded
<1>3. body = BuildElement("IWU_TO_IWU", e)
  BY DEF BuildElement
<1>4. ParseElement("IWU_TO_IWU", Wrap(id, body)) = ParseIwuToIwu(Wrap(id, body))
  BY DEF ParseElement
<1>5. Exact("IWU_TO_IWU", e)
  BY DEF Exact
<1>6. e # Invalid
  BY <1>1 DEF IwuToIwu, Invalid
<1>7. "IWU_TO_IWU" \in VariableLength /\ "IWU_TO_IWU" \notin Special
  BY DEF VariableLength, VariableLengthId, Special, Varies
<1> HIDE DEF body
<1> QED BY Zenon, <1>2, <1>3, <1>4, <1>5, <1>6, <1>7, PlainSent DEF id

LEMMA EscapeToProprietarySent ==
    ASSUME NEW e \in Element("ESCAPE_TO_PROPRIETARY")
    PROVE  Sent("ESCAPE_TO_PROPRIETARY", e)
<1> DEFINE id == Id["ESCAPE_TO_PROPRIETARY"]
           body == BuildEscapeToProprietary(e)
<1>1. e \in EscapeToProprietary
  BY DEF Element
<1>2. Contents(body) /\ ParseEscapeToProprietary(Wrap(id, body)) = e
  BY <1>1, EscapeToProprietaryCoded
<1>3. body = BuildElement("ESCAPE_TO_PROPRIETARY", e)
  BY DEF BuildElement
<1>4. ParseElement("ESCAPE_TO_PROPRIETARY", Wrap(id, body)) = ParseEscapeToProprietary(Wrap(id, body))
  BY DEF ParseElement
<1>5. Exact("ESCAPE_TO_PROPRIETARY", e)
  BY DEF Exact
<1>6. e # Invalid
  BY <1>1 DEF EscapeToProprietary, Invalid
<1>7. "ESCAPE_TO_PROPRIETARY" \in VariableLength /\ "ESCAPE_TO_PROPRIETARY" \notin Special
  BY DEF VariableLength, VariableLengthId, Special, Varies
<1> HIDE DEF body
<1> QED BY Zenon, <1>2, <1>3, <1>4, <1>5, <1>6, <1>7, PlainSent DEF id

-----------------------------------------------------------------------------
(* The elements that arrive changed, and the lists *)

\* The elements that lose a field when they are parsed, and the lists
LEMMA CallingPartyNumberSent ==
    ASSUME NEW e \in Element("CALLING_PARTY_NUMBER")
    PROVE  Sent("CALLING_PARTY_NUMBER", e)
<1> DEFINE id == Id["CALLING_PARTY_NUMBER"]
           body == BuildCallingPartyNumber(e)
           p == ParseCallingPartyNumber(Wrap(id, body))
<1>1. e \in CallingPartyNumber /\ Element("CALLING_PARTY_NUMBER") = CallingPartyNumber
  BY DEF Element
<1>2. Contents(body) /\ p \in CallingPartyNumber /\ p.presentation = 0 /\ (e.presentation = 0 => p = e)
  BY <1>1, CallingPartyNumberCoded
<1>3. Exact("CALLING_PARTY_NUMBER", p) /\ (Exact("CALLING_PARTY_NUMBER", e) => p = e)
  <2> HIDE DEF p
  <2>1. Exact("CALLING_PARTY_NUMBER", p) <=> p.presentation = 0
    BY DEF Exact
  <2>2. Exact("CALLING_PARTY_NUMBER", e) <=> e.presentation = 0
    BY DEF Exact
  <2> QED BY <1>2, <2>1, <2>2
<1>4. body = BuildElement("CALLING_PARTY_NUMBER", e)
  BY DEF BuildElement
<1>5. ParseElement("CALLING_PARTY_NUMBER", Wrap(id, body)) = p
  BY DEF ParseElement
<1>6. p # Invalid
  <2> HIDE DEF p
  <2> QED BY <1>2 DEF CallingPartyNumber, Invalid
<1>7. "CALLING_PARTY_NUMBER" \in VariableLength /\ "CALLING_PARTY_NUMBER" \notin Special
  BY DEF VariableLength, VariableLengthId, Special, Varies
<1> HIDE DEF body, p
<1>8. Arrives("CALLING_PARTY_NUMBER", e, p)
  BY Zenon, <1>1, <1>2, <1>3, <1>6, <1>7, ExactArrives
<1> QED BY Zenon, <1>2, <1>4, <1>5, <1>7, <1>8, VariableSent DEF id

LEMMA CallingPartyNameSent ==
    ASSUME NEW e \in Element("CALLING_PARTY_NAME")
    PROVE  Sent("CALLING_PARTY_NAME", e)
<1> DEFINE id == Id["CALLING_PARTY_NAME"]
           body == BuildCallingPartyName(e)
           p == ParseCallingPartyName(Wrap(id, body))
<1>1. e \in CallingPartyName /\ Element("CALLING_PARTY_NAME") = CallingPartyName
  BY DEF Element
<1>2. Contents(body) /\ p \in CallingPartyName /\ p.presentation = 0 /\ p.alphabet \in {0, 1} /\ (e.presentation = 0 /\ e.alphabet \in {0, 1} => p = e)
  BY <1>1, CallingPartyNameCoded
<1>3. Exact("CALLING_PARTY_NAME", p) /\ (Exact("CALLING_PARTY_NAME", e) => p = e)
  <2> HIDE DEF p
  <2>1. Exact("CALLING_PARTY_NAME", p) <=> p.presentation = 0 /\ p.alphabet \in {0, 1}
    BY DEF Exact
  <2>2. Exact("CALLING_PARTY_NAME", e) <=> e.presentation = 0 /\ e.alphabet \in {0, 1}
    BY DEF Exact
  <2> QED BY <1>2, <2>1, <2>2
<1>4. body = BuildElement("CALLING_PARTY_NAME", e)
  BY DEF BuildElement
<1>5. ParseElement("CALLING_PARTY_NAME", Wrap(id, body)) = p
  BY DEF ParseElement
<1>6. p # Invalid
  <2> HIDE DEF p
  <2> QED BY <1>2 DEF CallingPartyName, Invalid
<1>7. "CALLING_PARTY_NAME" \in VariableLength /\ "CALLING_PARTY_NAME" \notin Special
  BY DEF VariableLength, VariableLengthId, Special, Varies
<1> HIDE DEF body, p
<1>8. Arrives("CALLING_PARTY_NAME", e, p)
  BY Zenon, <1>1, <1>2, <1>3, <1>6, <1>7, ExactArrives
<1> QED BY Zenon, <1>2, <1>4, <1>5, <1>7, <1>8, VariableSent DEF id

LEMMA CipherInfoSent ==
    ASSUME NEW e \in Element("CIPHER_INFO")
    PROVE  Sent("CIPHER_INFO", e)
<1> DEFINE id == Id["CIPHER_INFO"]
           body == BuildCipherInfo(e)
           p == ParseCipherInfo(Wrap(id, body))
<1>1. e \in CipherInfo /\ Element("CIPHER_INFO") = CipherInfo
  BY DEF Element
<1>2. Contents(body) /\ p \in CipherInfo /\ p.cipher_key_num >= 8 /\ (e.cipher_key_num >= 8 => p = e)
  BY <1>1, CipherInfoCoded
<1>3. Exact("CIPHER_INFO", p) /\ (Exact("CIPHER_INFO", e) => p = e)
  <2> HIDE DEF p
  <2>1. Exact("CIPHER_INFO", p) <=> p.cipher_key_num >= 8
    BY DEF Exact
  <2>2. Exact("CIPHER_INFO", e) <=> e.cipher_key_num >= 8
    BY DEF Exact
  <2> QED BY <1>2, <2>1, <2>2
<1>4. body = BuildElement("CIPHER_INFO", e)
  BY DEF BuildElement
<1>5. ParseElement("CIPHER_INFO", Wrap(id, body)) = p
  BY DEF ParseElement
<1>6. p # Invalid
  <2> HIDE DEF p
  <2> QED BY <1>2 DEF CipherInfo, Invalid
<1>7. "CIPHER_INFO" \in VariableLength /\ "CIPHER_INFO" \notin Special
  BY DEF VariableLength, VariableLengthId, Special, Varies
<1> HIDE DEF body, p
<1>8. Arrives("CIPHER_INFO", e, p)
  BY Zenon, <1>1, <1>2, <1>3, <1>6, <1>7, ExactArrives
<1> QED BY Zenon, <1>2, <1>4, <1>5, <1>7, <1>8, VariableSent DEF id

LEMMA FixedIdentitySent ==
    ASSUME NEW e \in Element("FIXED_IDENTITY")
    PROVE  Sent("FIXED_IDENTITY", e)
<1> DEFINE id == Id["FIXED_IDENTITY"]
           body == BuildFixedIdentity(e)
           p == ParseFixedIdentity(Wrap(id, body))
<1>1. e \in FixedIdentity /\ Element("FIXED_IDENTITY") = FixedIdentity
  BY DEF Element
<1>2. Contents(body) /\ p \in FixedIdentity /\ p.rpn = 0 /\ (e.rpn = 0 => p = e)
  BY <1>1, FixedIdentityCoded
<1>3. Exact("FIXED_IDENTITY", p) /\ (Exact("FIXED_IDENTITY", e) => p = e)
  <2> HIDE DEF p
  <2>1. Exact("FIXED_IDENTITY", p) <=> p.rpn = 0
    BY DEF Exact
  <2>2. Exact("FIXED_IDENTITY", e) <=> e.rpn = 0
    BY DEF Exact
  <2> QED BY <1>2, <2>1, <2>2
<1>4. body = BuildElement("FIXED_IDENTITY", e)
  BY DEF BuildElement
<1>5. ParseElement("FIXED_IDENTITY", Wrap(id, body)) = p
  BY DEF ParseElement
<1>6. p # Invalid
  <2> HIDE DEF p
  <2> QED BY <1>2 DEF FixedIdentity, Invalid
<1>7. "FIXED_IDENTITY" \in VariableLength /\ "FIXED_IDENTITY" \notin Special
  BY DEF VariableLength, VariableLengthId, Special, Varies
<1> HIDE DEF body, p
<1>8. Arrives("FIXED_IDENTITY", e, p)
  BY Zenon, <1>1, <1>2, <1>3, <1>6, <1>7, ExactArrives
<1> QED BY Zenon, <1>2, <1>4, <1>5, <1>7, <1>8, VariableSent DEF id

LEMMA TimeDateSent ==
    ASSUME NEW e \in Element("TIME_DATE")
    PROVE  Sent("TIME_DATE", e)
<1> DEFINE id == Id["TIME_DATE"]
           body == BuildTimeDate(e)
           p == ParseTimeDate(Wrap(id, body))
<1>1. e \in TimeDate /\ Element("TIME_DATE") = TimeDate
  BY DEF Element
<1>2. Contents(body) /\ p \in TimeDate /\ Exact("TIME_DATE", p) /\ (Exact("TIME_DATE", e) => p = e)
  BY <1>1, TimeDateCoded
<1>3. Exact("TIME_DATE", p) /\ (Exact("TIME_DATE", e) => p = e)
  BY <1>2
<1>4. body = BuildElement("TIME_DATE", e)
  BY DEF BuildElement
<1>5. ParseElement("TIME_DATE", Wrap(id, body)) = p
  BY DEF ParseElement
<1>6. p # Invalid
  <2> HIDE DEF p
  <2> QED BY <1>2 DEF TimeDate, Invalid
<1>7. "TIME_DATE" \in VariableLength /\ "TIME_DATE" \notin Special
  BY DEF VariableLength, VariableLengthId, Special, Varies
<1> HIDE DEF body, p
<1>8. Arrives("TIME_DATE", e, p)
  BY Zenon, <1>1, <1>2, <1>3, <1>6, <1>7, ExactArrives
<1> QED BY Zenon, <1>2, <1>4, <1>5, <1>7, <1>8, VariableSent DEF id

LEMMA MultiDisplaySent ==
    ASSUME NEW e \in Element("MULTI_DISPLAY"), e.info # <<>>
    PROVE  Sent("MULTI_DISPLAY", e)
<1> DEFINE id == Id["MULTI_DISPLAY"]
           body == BuildMultiText(e)
<1>1. e \in Display
  BY DEF Element
<1>2. Contents(body) /\ ParseMultiText(Wrap(id, body)) = e
  BY <1>1, MultiTextCoded DEF Display
<1>3. body = BuildElement("MULTI_DISPLAY", e)
  BY DEF BuildElement
<1>4. ParseElement("MULTI_DISPLAY", Wrap(id, body)) = ParseMultiText(Wrap(id, body))
  BY DEF ParseElement
<1>5. Exact("MULTI_DISPLAY", e)
  BY DEF Exact
<1>6. e # Invalid
  BY <1>1 DEF Display, Invalid
<1>7. "MULTI_DISPLAY" \in VariableLength /\ "MULTI_DISPLAY" \notin Special
  BY DEF VariableLength, VariableLengthId, Special, Varies
<1> HIDE DEF body
<1> QED BY Zenon, <1>2, <1>3, <1>4, <1>5, <1>6, <1>7, PlainSent DEF id

LEMMA MultiKeypadSent ==
    ASSUME NEW e \in Element("MULTI_KEYPAD"), e.info # <<>>
    PROVE  Sent("MULTI_KEYPAD", e)
<1> DEFINE id == Id["MULTI_KEYPAD"]
           body == BuildMultiText(e)
<1>1. e \in Keypad
  BY DEF Element
<1>2. Contents(body) /\ ParseMultiText(Wrap(id, body)) = e
  BY <1>1, MultiTextCoded DEF Keypad
<1>3. body = BuildElement("MULTI_KEYPAD", e)
  BY DEF BuildElement
<1>4. ParseElement("MULTI_KEYPAD", Wrap(id, body)) = ParseMultiText(Wrap(id, body))
  BY DEF ParseElement
<1>5. Exact("MULTI_KEYPAD", e)
  BY DEF Exact
<1>6. e # Invalid
  BY <1>1 DEF Keypad, Invalid
<1>7. "MULTI_KEYPAD" \in VariableLength /\ "MULTI_KEYPAD" \notin Special
  BY DEF VariableLength, VariableLengthId, Special, Varies
<1> HIDE DEF body
<1> QED BY Zenon, <1>2, <1>3, <1>4, <1>5, <1>6, <1>7, PlainSent DEF id

LEMMA InfoTypeSent ==
    ASSUME NEW e \in Element("INFO_TYPE"), e.type # <<>>
    PROVE  Sent("INFO_TYPE", e)
<1> DEFINE id == Id["INFO_TYPE"]
           body == BuildInfoType(e)
<1>1. e \in InfoType
  BY DEF Element
<1>2. Contents(body) /\ ParseInfoType(Wrap(id, body)) = e
  BY <1>1, InfoTypeCoded DEF InfoType
<1>3. body = BuildElement("INFO_TYPE", e)
  BY DEF BuildElement
<1>4. ParseElement("INFO_TYPE", Wrap(id, body)) = ParseInfoType(Wrap(id, body))
  BY DEF ParseElement
<1>5. Exact("INFO_TYPE", e)
  BY DEF Exact
<1>6. e # Invalid
  BY <1>1 DEF InfoType, Invalid
<1>7. "INFO_TYPE" \in VariableLength /\ "INFO_TYPE" \notin Special
  BY DEF VariableLength, VariableLengthId, Special, Varies
<1> HIDE DEF body
<1> QED BY Zenon, <1>2, <1>3, <1>4, <1>5, <1>6, <1>7, PlainSent DEF id

\* A portable identity that can be built
Buildable(e) == e.type = IdTypeTpui \/ e.ipui.put \notin OtherPut

LEMMA PortableIdentitySent ==
    ASSUME NEW e \in Element("PORTABLE_IDENTITY"), Buildable(e)
    PROVE  LET o == AddHeader("PORTABLE_IDENTITY", BuildElement("PORTABLE_IDENTITY", e))
           IN  /\ Sent("PORTABLE_IDENTITY", e)
               /\ Buildable(ParseElement("PORTABLE_IDENTITY", o))
<1> DEFINE id == Id["PORTABLE_IDENTITY"]
           body == BuildPortableIdentity(e)
           p == ParsePortableIdentity(Wrap(id, body))
<1>1. e \in PortableIdentity /\ Element("PORTABLE_IDENTITY") = PortableIdentity
  BY DEF Element
<1>2. /\ Contents(body) /\ p \in PortableIdentity /\ Exact("PORTABLE_IDENTITY", p)
      /\ (Exact("PORTABLE_IDENTITY", e) => p = e)
      /\ Buildable(p)
  <2>1. CASE e.type = IdTypeTpui
    BY Zenon, <1>1, <2>1, TemporaryCoded DEF Buildable
  <2>2. CASE e.type # IdTypeTpui
    BY Zenon, <1>1, <2>2, PortableUserCoded DEF Buildable
  <2> QED BY <2>1, <2>2
<1>4. body = BuildElement("PORTABLE_IDENTITY", e)
  BY DEF BuildElement
<1>5. ParseElement("PORTABLE_IDENTITY", Wrap(id, body)) = p
  BY DEF ParseElement
<1>6. p # Invalid
  <2> HIDE DEF p
  <2> QED BY <1>2 DEF PortableIdentity, Invalid
<1>7. "PORTABLE_IDENTITY" \in VariableLength /\ "PORTABLE_IDENTITY" \notin Special
  BY DEF VariableLength, VariableLengthId, Special, Varies
<1> HIDE DEF body, p
<1>8. Arrives("PORTABLE_IDENTITY", e, p)
  BY Zenon, <1>1, <1>2, <1>6, <1>7, ExactArrives
<1>9. id \in 1 .. 127
  BY Zenon, <1>7, VariableIds
<1>10. AddHeader("PORTABLE_IDENTITY", body) = Wrap(id, body)
  BY Zenon, <1>2, <1>7, <1>9, WrapFramed
<1>11. Sent("PORTABLE_IDENTITY", e)
  BY Zenon, <1>2, <1>4, <1>5, <1>7, <1>8, VariableSent DEF id
<1> QED BY Zenon, <1>2, <1>4, <1>5, <1>10, <1>11

LEMMA EventsNotificationSent ==
    ASSUME NEW e \in Element("EVENTS_NOTIFICATION"), e.events # <<>>
    PROVE  Sent("EVENTS_NOTIFICATION", e)
<1> DEFINE body == BuildEventsNotification(e)
<1>1. e \in EventsNotification
  BY DEF Element
<1>2. Contents(body)
  BY <1>1, EventsNotificationBuilt
<1>3. body = BuildElement("EVENTS_NOTIFICATION", e)
  BY DEF BuildElement
<1>4. ~ Handler["EVENTS_NOTIFICATION"].parse
  BY DEF Handler, IE, SingleOctetId, ExtendedId, DoubleOctetId, VariableLengthId,
         FixedLengthHandler, VariableLengthHandler, MoreVariableLengthHandler, BuildOnly
<1>5. "EVENTS_NOTIFICATION" \in VariableLength
  BY DEF VariableLength, VariableLengthId
<1> HIDE DEF body
<1> QED BY Zenon, <1>2, <1>3, <1>4, <1>5, VariableSent

-----------------------------------------------------------------------------
(* The elements whose parsed values are others than those of the type *)

\* Also a value that was parsed is sent again.
LEMMA AuthTypeSent ==
    ASSUME NEW e \in Element("AUTH_TYPE") \cup Settled("AUTH_TYPE")
    PROVE  Sent("AUTH_TYPE", e)
<1> DEFINE id == Id["AUTH_TYPE"]
           body == BuildAuthType(e)
           p == ParseAuthType(Wrap(id, body))
<1>1. Element("AUTH_TYPE") = AuthType
  BY DEF Element
<1>2. Settled("AUTH_TYPE") =
        {x \in AnyAuthType : x.auth_id = AuthProprietary \/ Exact("AUTH_TYPE", x)}
  BY DEF Settled
<1>3. AuthType \subseteq AnyAuthType
  BY DEF AuthType, AnyAuthType, Nibble
<1>4. e \in AnyAuthType
  BY Zenon, <1>1, <1>2, <1>3
<1>5. /\ Contents(body) /\ p \in AnyAuthType
      /\ e.auth_id # AuthProprietary => Exact("AUTH_TYPE", p)
      /\ e.auth_id = AuthProprietary => p.auth_id = AuthProprietary /\ p.auth_key_type = 0
      /\ Exact("AUTH_TYPE", e) => p = e
  BY <1>4, AuthTypeCoded
<1>6. body = BuildElement("AUTH_TYPE", e)
  BY DEF BuildElement
<1>7. ParseElement("AUTH_TYPE", Wrap(id, body)) = p
  BY DEF ParseElement
<1> HIDE DEF body, p
<1>8. p # Invalid
  BY <1>5 DEF AnyAuthType, Invalid
<1>9. p \in Settled("AUTH_TYPE")
  BY Zenon, <1>2, <1>5
<1>10. ASSUME e \in AuthType, p = e
       PROVE  Exact("AUTH_TYPE", e)
  <2>1. e.auth_key_type # 0
    BY <1>10 DEF AuthType
  <2> QED BY Zenon, <1>5, <1>10, <2>1
<1>11. ASSUME e \in Settled("AUTH_TYPE")
       PROVE  p = e \/ Unsettled("AUTH_TYPE", e)
  BY Zenon, <1>2, <1>5, <1>11 DEF Unsettled
<1>12. Arrives("AUTH_TYPE", e, p)
  BY Zenon, <1>1, <1>5, <1>8, <1>9, <1>10, <1>11 DEF Arrives
<1>13. "AUTH_TYPE" \in VariableLength
  BY DEF VariableLength, VariableLengthId
<1> QED BY Zenon, <1>5, <1>6, <1>7, <1>12, <1>13, VariableSent DEF id

LEMMA CodecListSent ==
    ASSUME NEW e \in Element("CODEC_LIST") \cup Settled("CODEC_LIST")
    PROVE  Sent("CODEC_LIST", e)
<1> DEFINE id == Id["CODEC_LIST"]
           body == BuildCodecList(e)
           p == ParseCodecList(Wrap(id, body))
<1>1. Element("CODEC_LIST") = CodecList
  BY DEF Element
<1>2. Settled("CODEC_LIST") = {x \in AnyCodecList : Exact("CODEC_LIST", x)}
  BY DEF Settled
<1>3. CodecList \subseteq AnyCodecList
  <2>1. Codec \subseteq AnyCodec
    BY DEF Codec, AnyCodec, Nibble
  <2>2. Seq(Codec) \subseteq Seq(AnyCodec)
    BY <2>1
  <2>3. AtMost(8, Codec) \subseteq AtMost(8, AnyCodec)
    BY Zenon, <2>2 DEF AtMost
  <2> QED BY <2>3 DEF CodecList, AnyCodecList
<1>4. e \in AnyCodecList
  BY Zenon, <1>1, <1>2, <1>3
<1>5. /\ Contents(body) /\ p \in AnyCodecList /\ Exact("CODEC_LIST", p)
      /\ Exact("CODEC_LIST", e) => p = e
  BY <1>4, CodecListCoded
<1>6. body = BuildElement("CODEC_LIST", e)
  BY DEF BuildElement
<1>7. ParseElement("CODEC_LIST", Wrap(id, body)) = p
  BY DEF ParseElement
<1> HIDE DEF body, p
<1>8. p # Invalid
  BY <1>5 DEF AnyCodecList, Invalid
<1>9. p \in Settled("CODEC_LIST")
  BY Zenon, <1>2, <1>5
<1>10. Arrives("CODEC_LIST", e, p)
  BY Zenon, <1>1, <1>2, <1>5, <1>8, <1>9 DEF Arrives
<1>11. "CODEC_LIST" \in VariableLength
  BY DEF VariableLength, VariableLengthId
<1> QED BY Zenon, <1>5, <1>6, <1>7, <1>10, <1>11, VariableSent DEF id

LEMMA DurationSent ==
    ASSUME NEW e \in Element("DURATION") \cup Settled("DURATION")
    PROVE  Sent("DURATION", e)
<1> DEFINE id == Id["DURATION"]
           body == BuildDuration(e)
           p == ParseDuration(Wrap(id, body))
<1>1. Element("DURATION") = Duration
  BY DEF Element
<1>2. Settled("DURATION") = AnyDuration
  BY DEF Settled
<1>3. Duration \subseteq AnyDuration
  BY DEF Duration, AnyDuration
<1>4. e \in AnyDuration
  BY Zenon, <1>1, <1>2, <1>3
<1>5. Contents(body) /\ p \in AnyDuration /\ p.lock \notin 5 .. 7
  BY <1>4, DurationCoded
<1>6. body = BuildElement("DURATION", e)
  BY DEF BuildElement
<1>7. ParseElement("DURATION", Wrap(id, body)) = p
  BY DEF ParseElement
<1> HIDE DEF body, p
<1>8. p # Invalid
  BY <1>5 DEF AnyDuration, Invalid
<1>9. ASSUME e \in Duration
      PROVE  p = e <=> Exact("DURATION", e)
  <2>1. e.lock \in 5 .. 7
    BY <1>9 DEF Duration
  <2>2. ~ Exact("DURATION", e)
    BY DEF Exact
  <2> QED BY Zenon, <1>5, <2>1, <2>2
<1>10. Unsettled("DURATION", e)
  BY DEF Unsettled, Varies
<1>11. Arrives("DURATION", e, p)
  BY Zenon, <1>1, <1>2, <1>5, <1>8, <1>9, <1>10 DEF Arrives
<1>12. "DURATION" \in VariableLength
  BY DEF VariableLength, VariableLengthId
<1> QED BY Zenon, <1>5, <1>6, <1>7, <1>11, <1>12, VariableSent DEF id

LEMMA TerminalCapabilitySent ==
    ASSUME NEW e \in Element("TERMINAL_CAPABILITY") \cup Settled("TERMINAL_CAPABILITY")
    PROVE  Sent("TERMINAL_CAPABILITY", e)
<1> DEFINE id == Id["TERMINAL_CAPABILITY"]
           body == BuildTerminalCapability(e)
           p == ParseTerminalCapability(Wrap(id, body))
<1>1. Element("TERMINAL_CAPABILITY") = TerminalCapability
  BY DEF Element
<1>2. Settled("TERMINAL_CAPABILITY") = AnyTerminal
  BY DEF Settled
<1>3. TerminalCapability \subseteq AnyTerminal
  <2> SUFFICES ASSUME NEW x \in TerminalCapability PROVE x \in AnyTerminal
    OBVIOUS
  <2>1. /\ x.tone \in 0 .. 4 /\ x.echo \in 0 .. 3 /\ x.noise_rejection \in 0 .. 2
        /\ x.volume_ctrl \in 0 .. 3 /\ x.slot \in 0 .. 31 /\ x.display \in 0 .. 5
        /\ x.display_memory \in Word /\ x.display_lines \in Octet /\ x.display_columns \in Octet
        /\ x.display_control \in 0 .. 4 /\ x.display_charsets \in Nibble /\ x.scrolling \in 0 .. 2
        /\ x.profile_indicator \in {p0 \in [1 .. ProfileLen -> 0 .. 127] : p0[ProfileLen] = 0}
    BY DEF TerminalCapability
  <2>2. x = [tone |-> x.tone, echo |-> x.echo, noise_rejection |-> x.noise_rejection,
             volume_ctrl |-> x.volume_ctrl, slot |-> x.slot, display |-> x.display,
             display_memory |-> x.display_memory, display_lines |-> x.display_lines,
             display_columns |-> x.display_columns, display_control |-> x.display_control,
             display_charsets |-> x.display_charsets, scrolling |-> x.scrolling,
             profile_indicator |-> x.profile_indicator]
    BY DEF TerminalCapability
  <2>3. /\ \A n \in 0 .. 4 : n \in 0 .. 7
        /\ \A n \in 0 .. 3 : n \in 0 .. 7
        /\ \A n \in 0 .. 2 : n \in 0 .. 3 /\ n \in 0 .. 127
        /\ \A n \in 0 .. 31 : n \in 0 .. 127
        /\ \A n \in 0 .. 5 : n \in 0 .. 15
        /\ \A n \in Nibble : n \in 0 .. 127
    BY DEF Nibble
  <2>4. x.tone \in 0 .. 7 /\ x.echo \in 0 .. 7 /\ x.display_control \in 0 .. 7
    BY ZenonT(40), <2>1, <2>3
  <2>5. x.noise_rejection \in 0 .. 3 /\ x.display \in 0 .. 15
    BY Zenon, <2>1, <2>3
  <2>6. x.slot \in 0 .. 127
    BY ZenonT(40), <2>1, <2>3
  <2>7. x.display_charsets \in 0 .. 127 /\ x.scrolling \in 0 .. 127
    BY ZenonT(40), <2>1, <2>3
  <2> QED BY Zenon, <2>1, <2>2, <2>4, <2>5, <2>6, <2>7 DEF AnyTerminal
<1>4. e \in AnyTerminal
  BY Zenon, <1>1, <1>2, <1>3
<1>0. "TERMINAL_CAPABILITY" \in VariableLength
  BY DEF VariableLength, VariableLengthId
<1>5. /\ Contents(body) /\ p \in AnyTerminal /\ p # Invalid
      /\ p = e <=> Exact("TERMINAL_CAPABILITY", e)
  <2>1. id \in Octet
    <3>1. id \in 1 .. 127
      BY <1>0, VariableIds
    <3> HIDE DEF id
    <3> QED BY <3>1 DEF Octet
  <2> HIDE DEF id
  <2> QED BY <1>4, <2>1, TerminalCoded
<1>6. body = BuildElement("TERMINAL_CAPABILITY", e)
  BY DEF BuildElement
<1>7. ParseElement("TERMINAL_CAPABILITY", Wrap(id, body)) = p
  BY DEF ParseElement
<1> HIDE DEF body, p
<1>8. Unsettled("TERMINAL_CAPABILITY", e)
  BY DEF Unsettled, Varies
<1>9. Arrives("TERMINAL_CAPABILITY", e, p)
  BY Zenon, <1>1, <1>2, <1>5, <1>8 DEF Arrives
<1> QED BY Zenon, <1>0, <1>5, <1>6, <1>7, <1>9, VariableSent DEF id

-----------------------------------------------------------------------------
(* Double octet elements *)

\* What is left to show of a double octet element
LEMMA DoubleSent ==
    ASSUME NEW element \in DOMAIN DoubleOctetId, NEW e, NEW value \in Octet,
           BuildElement(element, e) = <<value>>, NEW p \in Element(element), p # Invalid,
           \A o : At(o, 1) = value => ParseElement(element, o) = p,
           Exact(element, p), Exact(element, e) => p = e
    PROVE  Sent(element, e)
<1> DEFINE id == Id[element]
           o == <<id, value>>
<1>1. id \in 224 .. 233
  <2>1. DoubleOctetId[element] \in 224 .. 233
    BY DEF DoubleOctetId
  <2>2. /\ element \notin DOMAIN SingleOctetId /\ element \notin DOMAIN ExtendedId
    BY DEF IE, SingleOctetId, ExtendedId, DoubleOctetId
  <2>3. element \in IE
    BY DEF IE
  <2>4. id = DoubleOctetId[element]
    BY <2>2, <2>3 DEF Id
  <2> HIDE DEF id
  <2> QED BY Zenon, <2>1, <2>4
<1> HIDE DEF id
<1>2. AddHeader(element, <<value>>) = o /\ Framed(element, o) /\ At(o, 1) = value
  BY <1>1, DoubleFramed DEF id
<1> HIDE DEF o
<1>3. ParseElement(element, o) = p
  BY Zenon, <1>2
<1>4. element \notin Special
  BY DEF DoubleOctetId, Special, Varies
<1>5. Arrives(element, e, p)
  BY Zenon, <1>4, ExactArrives
<1> QED BY Zenon, <1>2, <1>3, <1>5 DEF Sent

LEMMA BasicServiceSent ==
    ASSUME NEW e \in Element("BASIC_SERVICE")
    PROVE  Sent("BASIC_SERVICE", e)
<1> DEFINE ie0 == "BASIC_SERVICE"
           v == 16 * e.class + e.service
<1>1. e \in BasicService
  BY DEF Element, FixedLengthElement
<1>2. e.class \in Nibble /\ e.service \in Nibble /\ e = [class |-> e.class, service |-> e.service]
  <2>1. e.class \in CallClass /\ e.service \in Service
        /\ e = [class |-> e.class, service |-> e.service]
    BY <1>1 DEF BasicService
  <2>2. \A n : (n \in CallClass => n \in Nibble) /\ (n \in Service => n \in Nibble)
    BY DEF CallClass, Service, Nibble
  <2> QED BY Zenon, <2>1, <2>2
<1>3. v \in Octet /\ v \div 16 = e.class /\ Low(v) = e.service
  BY <1>2, NibblesOK
<1>4. BuildElement(ie0, e) = <<v>>
  BY DEF BuildElement, BuildFixedLength, BuildBasicService, ExtendedId
<1> HIDE DEF v
<1>5. ASSUME NEW o, At(o, 1) = v
      PROVE  ParseElement(ie0, o) = e
  <2>1. ParseElement(ie0, o) = [class |-> At(o, 1) \div 16, service |-> Low(At(o, 1))]
    BY DEF ParseElement, ParseFixedLength, ParseBasicService, ExtendedId
  <2> QED BY Zenon, <1>2, <1>3, <1>5, <2>1
<1>6. e # Invalid
  BY <1>1 DEF BasicService, Invalid
<1>7. ie0 \in DOMAIN DoubleOctetId
  BY DEF DoubleOctetId
<1>8. Exact(ie0, e)
  BY DEF Exact
<1> HIDE DEF ie0
<1>9. e \in Element(ie0)
  BY DEF ie0
<1>10. Sent(ie0, e)
  BY Zenon, <1>3, <1>4, <1>5, <1>6, <1>7, <1>8, <1>9, DoubleSent
<1> QED BY Zenon, <1>10 DEF ie0

LEMMA ReleaseReasonSent ==
    ASSUME NEW e \in Element("RELEASE_REASON")
    PROVE  Sent("RELEASE_REASON", e)
<1> DEFINE ie0 == "RELEASE_REASON"
           v == e.reason
<1>1. e \in ReleaseReason
  BY DEF Element, FixedLengthElement
<1>2. v \in Octet /\ e = [reason |-> v]
  BY <1>1 DEF ReleaseReason, Octet
<1>4. BuildElement(ie0, e) = <<v>>
  BY DEF BuildElement, BuildFixedLength, BuildReleaseReason, ExtendedId
<1> HIDE DEF v
<1>5. ASSUME NEW o, At(o, 1) = v
      PROVE  ParseElement(ie0, o) = e
  <2>1. ParseElement(ie0, o) = [reason |-> At(o, 1)]
    BY DEF ParseElement, ParseFixedLength, ParseReleaseReason, ExtendedId
  <2> QED BY Zenon, <1>2, <1>5, <2>1
<1>6. e # Invalid
  BY <1>1 DEF ReleaseReason, Invalid
<1>7. ie0 \in DOMAIN DoubleOctetId
  BY DEF DoubleOctetId
<1>8. Exact(ie0, e)
  BY DEF Exact
<1> HIDE DEF ie0
<1>9. e \in Element(ie0)
  BY DEF ie0
<1>10. Sent(ie0, e)
  BY Zenon, <1>2, <1>4, <1>5, <1>6, <1>7, <1>8, <1>9, DoubleSent
<1> QED BY Zenon, <1>10 DEF ie0

LEMMA SignalSent ==
    ASSUME NEW e \in Element("SIGNAL")
    PROVE  Sent("SIGNAL", e)
<1> DEFINE ie0 == "SIGNAL"
           v == e.code
<1>1. e \in Signal
  BY DEF Element, FixedLengthElement
<1>2. v \in Octet /\ e = [code |-> v]
  <2>1. e = [code |-> v] /\ v \in 0 .. 9 \cup {63} \cup {AlertingBase + x : x \in AlertingPattern}
    BY <1>1 DEF Signal
  <2> HIDE DEF v
  <2>2. v \in Octet
    BY <2>1 DEF AlertingBase, AlertingPattern, Octet
  <2> QED BY <2>1, <2>2
<1>4. BuildElement(ie0, e) = <<v>>
  BY DEF BuildElement, BuildFixedLength, BuildSignal, ExtendedId
<1> HIDE DEF v
<1>5. ASSUME NEW o, At(o, 1) = v
      PROVE  ParseElement(ie0, o) = e
  <2>1. ParseElement(ie0, o) = [code |-> At(o, 1)]
    BY DEF ParseElement, ParseFixedLength, ParseSignal, ExtendedId
  <2> QED BY Zenon, <1>2, <1>5, <2>1
<1>6. e # Invalid
  BY <1>1 DEF Signal, Invalid
<1>7. ie0 \in DOMAIN DoubleOctetId
  BY DEF DoubleOctetId
<1>8. Exact(ie0, e)
  BY DEF Exact
<1> HIDE DEF ie0
<1>9. e \in Element(ie0)
  BY DEF ie0
<1>10. Sent(ie0, e)
  BY Zenon, <1>2, <1>4, <1>5, <1>6, <1>7, <1>8, <1>9, DoubleSent
<1> QED BY Zenon, <1>10 DEF ie0

\* A text of at most one character
LEMMA SingleTextSent ==
    ASSUME NEW element \in DOMAIN MultiOf, NEW e \in Element(element), ~ (Len(e.info) > 1)
    PROVE  Sent(element, e)
<1> DEFINE v == IF e.info = <<>> THEN 0 ELSE e.info[1]
           p == [info |-> <<v>>]
<1>0. element = "SINGLE_DISPLAY" \/ element = "SINGLE_KEYPAD"
  BY DEF MultiOf
<1>1. Element(element) = [info : Text(MaxText)]
  BY <1>0 DEF Element, FixedLengthElement, Display, Keypad
<1>2. e.info \in Seq(Octet) /\ e = [info |-> e.info]
  BY <1>1 DEF Text, AtMost
<1>3. v \in Octet /\ (e.info # <<>> => e.info = <<v>>)
  <2>1. CASE e.info = <<>>
    BY <2>1 DEF Octet
  <2>2. CASE e.info # <<>>
    <3> DEFINE s == e.info
    <3>1. s \in Seq(Octet) /\ s # <<>> /\ ~ (Len(s) > 1)
      BY <1>2, <2>2
    <3> HIDE DEF s
    <3>4. Len(s) \in Nat /\ Len(s) # 0
      BY <3>1, EmptySeq
    <3>5. Len(s) = 1
      <4>1. \A n \in Nat : n # 0 /\ ~ (n > 1) => n = 1
        OBVIOUS
      <4> QED BY Zenon, <3>1, <3>4, <4>1
    <3>6. s[1] \in Octet
      BY ONLY <3>1, <3>5
    <3>2. Len(s) = 1 /\ s[1] \in Octet
      BY <3>5, <3>6
    <3>3. s = <<s[1]>>
      BY <3>1, <3>2
    <3> QED BY Zenon, <2>2, <3>2, <3>3 DEF s
  <2> QED BY Zenon, <2>1, <2>2
<1>4. BuildElement(element, e) = <<v>>
  BY <1>0 DEF BuildElement, BuildFixedLength, BuildSingleText, ExtendedId
<1> HIDE DEF v
<1>5. ASSUME NEW o, At(o, 1) = v
      PROVE  ParseElement(element, o) = p
  <2>1. ParseElement(element, o) = [info |-> <<At(o, 1)>>]
    BY <1>0 DEF ParseElement, ParseFixedLength, ParseSingleText, ExtendedId
  <2> QED BY Zenon, <1>5, <2>1
<1>6. p \in Element(element) /\ p # Invalid /\ p.info # <<>>
  <2>1. <<v>> \in Seq(Octet) /\ Len(<<v>>) = 1 /\ 1 <= MaxText
    BY <1>3 DEF MaxText
  <2>2. <<v>> \in Text(MaxText)
    BY Zenon, <2>1 DEF Text, AtMost
  <2>3. <<v>> # <<>>
    OBVIOUS
  <2> QED BY <1>1, <2>2, <2>3 DEF Invalid
<1>7. element \in DOMAIN DoubleOctetId
  BY <1>0 DEF DoubleOctetId
<1>8. Exact(element, p) /\ (Exact(element, e) => p = e)
  <2>1. \A x : Exact(element, x) <=> x.info # <<>>
    BY <1>0 DEF Exact
  <2>2. e.info # <<>> => p = e
    BY Zenon, <1>2, <1>3
  <2> QED BY Zenon, <1>6, <2>1, <2>2
<1> HIDE DEF p
<1> QED BY Zenon, <1>3, <1>4, <1>5, <1>6, <1>7, <1>8, DoubleSent

LEMMA RepeatIndicatorSent ==
    ASSUME NEW e \in Element("REPEAT_INDICATOR")
    PROVE  Sent("REPEAT_INDICATOR", e)
<1> DEFINE ie0 == "REPEAT_INDICATOR"
           v == e.type
           first == 208 + v
           o == <<first>>
<1>1. e \in [type : IeListType]
  BY DEF Element, FixedLengthElement
<1>2. v \in 0 .. 15 /\ v \in IeListType /\ e = [type |-> v] /\ Low(first) = v
  <2>1. v \in IeListType /\ e = [type |-> v]
    BY <1>1
  <2> HIDE DEF v
  <2> QED BY <2>1 DEF IeListType, Low
<1>4. BuildElement(ie0, e) = <<v>>
  BY DEF BuildElement, BuildFixedLength, BuildRepeatIndicator, ExtendedId
<1>5. Id[ie0] = 208 /\ ie0 \in DOMAIN SingleOctetId \cup DOMAIN ExtendedId /\ ie0 \notin Special
  BY DEF Id, IE, SingleOctetId, ExtendedId, DoubleOctetId, Special, Varies
<1>6. \A x : Exact(ie0, x)
  BY DEF Exact
<1>7. e # Invalid
  BY <1>1 DEF Invalid
<1>8. ParseElement(ie0, o) = IF Low(At(o, 0)) \in IeListType THEN [type |-> Low(At(o, 0))] ELSE Invalid
  BY DEF ParseElement, ParseFixedLength, ParseRepeatIndicator, ExtendedId
<1>9. e \in Element(ie0)
  OBVIOUS
<1> HIDE DEF ie0, v, o
<1>10. AddHeader(ie0, <<v>>) = o /\ Framed(ie0, o) /\ At(o, 0) = first
  BY SMTT(30), <1>2, <1>5, SingleFramed DEF o
<1> HIDE DEF first
<1>11. ParseElement(ie0, o) = e
  BY Zenon, <1>2, <1>8, <1>10
<1>12. Arrives(ie0, e, e)
  BY Zenon, <1>5, <1>6, <1>7, <1>9, ExactArrives
<1> QED BY Zenon, <1>4, <1>10, <1>11, <1>12 DEF Sent, ie0

\* The elements that say nothing
LEMMA ExtendedSent ==
    ASSUME NEW element \in DOMAIN ExtendedId, NEW e \in Element(element)
    PROVE  Sent(element, e)
<1> DEFINE id == Id[element]
           o == <<id>>
<1>0. element \in {"SENDING_COMPLETE", "DELIMITER_REQUEST", "USE_TPUI"}
  BY DEF ExtendedId
<1>1. Element(element) = {Nothing}
  BY <1>0 DEF Element, FixedLengthElement
<1>2. BuildElement(element, e) = <<0>>
  BY <1>0 DEF BuildElement, BuildFixedLength, BuildEmptySingleOctet, ExtendedId
<1>3. id \in 161 .. 163 /\ element \notin Special
  BY <1>0 DEF Id, IE, SingleOctetId, ExtendedId, DoubleOctetId, Special, Varies
<1>4. ParseElement(element, o) = Nothing
  BY <1>0 DEF ParseElement, ParseFixedLength, ParseEmptySingleOctet, ExtendedId
<1>5. Nothing # Invalid /\ Exact(element, Nothing) /\ e = Nothing
  <2>1. Exact(element, Nothing)
    BY <1>0 DEF Exact
  <2>2. Nothing # Invalid
    BY DEF Nothing, Invalid
  <2> QED BY <1>1, <2>1, <2>2
<1> HIDE DEF o
<1>6. AddHeader(element, <<0>>) = o /\ Framed(element, o)
  <2> DEFINE first == id + 0
  <2>1. AddHeader(element, <<0>>) = <<first>> /\ Framed(element, <<first>>)
    <3> HIDE DEF id
    <3>1. 0 \in 0 .. 15 /\ element \in DOMAIN SingleOctetId \cup DOMAIN ExtendedId
      OBVIOUS
    <3> QED BY <1>3, <3>1, SingleFramed DEF id
  <2>2. first = id
    BY <1>3
  <2> HIDE DEF first
  <2> QED BY Zenon, <2>1, <2>2 DEF o
<1>7. Arrives(element, e, Nothing)
  BY Zenon, <1>1, <1>3, <1>5, ExactArrives
<1> QED BY Zenon, <1>2, <1>4, <1>6, <1>7 DEF Sent

-----------------------------------------------------------------------------
(* What comes of every element *)

\* The elements with a builder
Plain ==
    {"IDENTITY_TYPE", "LOCATION_AREA", "ALLOCATION_TYPE", "PROGRESS_INDICATOR",
     "FEATURE_ACTIVATE", "REJECT_REASON", "SETUP_CAPABILITY", "RAND", "RS", "RES",
     "NETWORK_PARAMETER", "CALLED_PARTY_NUMBER", "IWU_TO_IWU", "ESCAPE_TO_PROPRIETARY"}
Changed ==
    {"CALLING_PARTY_NUMBER", "CALLING_PARTY_NAME", "CIPHER_INFO", "FIXED_IDENTITY", "TIME_DATE"}
Listing == {"MULTI_DISPLAY", "MULTI_KEYPAD", "INFO_TYPE", "EVENTS_NOTIFICATION"}
DoubleOctets == {"BASIC_SERVICE", "RELEASE_REASON", "SIGNAL", "REPEAT_INDICATOR"}

\* Every element with a builder is of one of these kinds.
LEMMA Builders ==
    ASSUME NEW element \in IE, Handler[element].build
    PROVE  \/ element \in Plain \/ element \in Changed \/ element \in Listing
           \/ element \in DoubleOctets \/ element \in Special \/ element = "PORTABLE_IDENTITY"
           \/ element \in DOMAIN MultiOf \/ element \in DOMAIN ExtendedId
<1> DEFINE a == element \in DOMAIN FixedLengthHandler
           b == element \in DOMAIN VariableLengthHandler
           c == element \in DOMAIN MoreVariableLengthHandler
           h == Handler[element]
           x == FixedLengthHandler[element]
           y == VariableLengthHandler[element]
           z == MoreVariableLengthHandler[element]
<1>0. /\ a => h = x
      /\ ~ a /\ b => h = y
      /\ ~ a /\ ~ b /\ c => h = z
      /\ ~ a /\ ~ b /\ ~ c => h = Opaque("")
  <2>1. h = CASE a -> x [] b -> y [] c -> z [] OTHER -> Opaque("")
    BY Zenon DEF Handler
  <2> HIDE DEF a, b, c, h, x, y, z
  <2>2. DOMAIN FixedLengthHandler \cap DOMAIN VariableLengthHandler = {}
        /\ DOMAIN FixedLengthHandler \cap DOMAIN MoreVariableLengthHandler = {}
        /\ DOMAIN VariableLengthHandler \cap DOMAIN MoreVariableLengthHandler = {}
    BY DEF FixedLengthHandler, VariableLengthHandler, MoreVariableLengthHandler
  <2>3. ~ (a /\ b) /\ ~ (a /\ c) /\ ~ (b /\ c)
    BY Zenon, <2>2 DEF a, b, c
  <2> QED BY Zenon, <2>1, <2>3
<1>1. CASE element \in DOMAIN FixedLengthHandler
  <2>1. FixedLengthHandler[element].build
    <3>1. Handler[element] = FixedLengthHandler[element]
      BY Zenon, <1>1, <1>0
    <3> QED BY Zenon, <1>1, <3>1
  <2>2. element \in
            {"REPEAT_INDICATOR", "SENDING_COMPLETE", "DELIMITER_REQUEST", "USE_TPUI",
             "BASIC_SERVICE", "RELEASE_REASON", "SIGNAL", "SINGLE_DISPLAY", "SINGLE_KEYPAD"}
    <3>1. DOMAIN FixedLengthHandler =
            {"REPEAT_INDICATOR", "SENDING_COMPLETE", "DELIMITER_REQUEST", "USE_TPUI",
             "BASIC_SERVICE", "RELEASE_REASON", "SIGNAL", "SINGLE_DISPLAY", "SINGLE_KEYPAD"}
            \cup {"TIMER_RESTART", "TEST_HOOK_CONTROL"}
      BY DEF FixedLengthHandler
    <3>2. /\ ~ FixedLengthHandler["TIMER_RESTART"].build
          /\ ~ FixedLengthHandler["TEST_HOOK_CONTROL"].build
      BY DEF FixedLengthHandler, Opaque, ParseOnly
    <3> QED BY Zenon, <1>1, <2>1, <3>1, <3>2
  <2>3. DOMAIN MultiOf = {"SINGLE_DISPLAY", "SINGLE_KEYPAD"}
        /\ DOMAIN ExtendedId = {"SENDING_COMPLETE", "DELIMITER_REQUEST", "USE_TPUI"}
    BY DEF MultiOf, ExtendedId
  <2> QED BY Zenon, <2>2, <2>3 DEF DoubleOctets
<1>2. CASE element \notin DOMAIN FixedLengthHandler /\ element \in DOMAIN VariableLengthHandler
  <2>1. VariableLengthHandler[element].build
    <3>1. Handler[element] = VariableLengthHandler[element]
      BY Zenon, <1>2, <1>0
    <3> QED BY Zenon, <1>2, <3>1
  <2> QED BY <1>2, <2>1 DEF VariableLengthHandler, Opaque, ParseOnly, Plain, Changed, Listing,
             Special, Varies
<1>3. CASE element \notin DOMAIN FixedLengthHandler /\ element \notin DOMAIN VariableLengthHandler
           /\ element \in DOMAIN MoreVariableLengthHandler
  <2>1. MoreVariableLengthHandler[element].build
    <3>1. Handler[element] = MoreVariableLengthHandler[element]
      BY Zenon, <1>3, <1>0
    <3> QED BY Zenon, <1>3, <3>1
  <2>2. element \in
            {"FEATURE_ACTIVATE", "NETWORK_PARAMETER", "REJECT_REASON", "SETUP_CAPABILITY",
             "TERMINAL_CAPABILITY", "CALLING_PARTY_NUMBER", "CALLING_PARTY_NAME",
             "CALLED_PARTY_NUMBER", "DURATION", "IWU_TO_IWU", "ESCAPE_TO_PROPRIETARY",
             "CODEC_LIST", "EVENTS_NOTIFICATION"}
    <3>1. DOMAIN MoreVariableLengthHandler =
            {"FEATURE_ACTIVATE", "NETWORK_PARAMETER", "REJECT_REASON", "SETUP_CAPABILITY",
             "TERMINAL_CAPABILITY", "CALLING_PARTY_NUMBER", "CALLING_PARTY_NAME",
             "CALLED_PARTY_NUMBER", "DURATION", "IWU_TO_IWU", "ESCAPE_TO_PROPRIETARY",
             "CODEC_LIST", "EVENTS_NOTIFICATION"}
            \cup {"FEATURE_INDICATE", "EXT_HO_INDICATOR", "ZAP_FIELD", "SERVICE_CLASS", "KEY",
                  "END_TO_END_COMPATIBILITY", "RATE_PARAMETERS", "TRANSIT_DELAY",
                  "WINDOW_SIZE", "CALLED_PARTY_SUBADDR", "SEGMENTED_INFO", "ALPHANUMERIC",
                  "MODEL_IDENTIFIER", "IWU_PACKET", "CALL_INFORMATION", "ESCAPE_FOR_EXTENSION"}
      BY DEF MoreVariableLengthHandler
    <3>2. /\ ~ MoreVariableLengthHandler["FEATURE_INDICATE"].build
          /\ ~ MoreVariableLengthHandler["EXT_HO_INDICATOR"].build
          /\ ~ MoreVariableLengthHandler["ZAP_FIELD"].build
          /\ ~ MoreVariableLengthHandler["SERVICE_CLASS"].build
          /\ ~ MoreVariableLengthHandler["KEY"].build
          /\ ~ MoreVariableLengthHandler["END_TO_END_COMPATIBILITY"].build
          /\ ~ MoreVariableLengthHandler["RATE_PARAMETERS"].build
          /\ ~ MoreVariableLengthHandler["TRANSIT_DELAY"].build
          /\ ~ MoreVariableLengthHandler["WINDOW_SIZE"].build
          /\ ~ MoreVariableLengthHandler["CALLED_PARTY_SUBADDR"].build
          /\ ~ MoreVariableLengthHandler["SEGMENTED_INFO"].build
          /\ ~ MoreVariableLengthHandler["ALPHANUMERIC"].build
          /\ ~ MoreVariableLengthHandler["MODEL_IDENTIFIER"].build
          /\ ~ MoreVariableLengthHandler["IWU_PACKET"].build
          /\ ~ MoreVariableLengthHandler["CALL_INFORMATION"].build
          /\ ~ MoreVariableLengthHandler["ESCAPE_FOR_EXTENSION"].build
      BY DEF MoreVariableLengthHandler, Opaque, ParseOnly
    <3> QED BY Zenon, <1>3, <2>1, <3>1, <3>2
  <2> QED BY Zenon, <2>2 DEF Plain, Changed, Listing, Special, Varies
<1>4. CASE element \notin DOMAIN FixedLengthHandler /\ element \notin DOMAIN VariableLengthHandler
           /\ element \notin DOMAIN MoreVariableLengthHandler
  <2>1. ~ Opaque("").build
    BY DEF Opaque
  <2>2. Handler[element] = Opaque("")
    BY Zenon, <1>0, <1>4
  <2> QED BY Zenon, <2>1, <2>2
<1> QED BY Zenon, <1>1, <1>2, <1>3, <1>4

\* What Build leaves in octets for the element e of the values it can meet
Outcome(element, e) ==
    LET o == AddHeader(element, BuildElement(element, e)) IN
    \/ o = NotBuilt /\ element = "PORTABLE_IDENTITY" /\ e.ipui.put \in OtherPut
    \/ o = <<>> /\ e \in {[info |-> <<>>], [type |-> <<>>], [events |-> <<>>]}
    \/ Sent(element, e)

\* An empty list makes no element.
LEMMA NothingSent ==
    ASSUME NEW element \in Listing, NEW e, BuildElement(element, e) = <<>>
    PROVE  AddHeader(element, BuildElement(element, e)) = <<>>
<1>1. <<>> # NotBuilt
  <2>1. <<>> \in Seq(Octet)
    OBVIOUS
  <2> QED BY <2>1, NotBuiltIs
<1>2. element \notin DOMAIN SingleOctetId \cup DOMAIN ExtendedId /\ element \notin DOMAIN DoubleOctetId
  BY DEF Listing, SingleOctetId, ExtendedId, DoubleOctetId
<1> QED BY Zenon, <1>1, <1>2 DEF AddHeader

\* A list is sent, or is empty.
LEMMA ListingOutcome ==
    ASSUME NEW element \in Listing, NEW e \in Element(element)
    PROVE  Outcome(element, e)
<1>1. CASE element = "MULTI_DISPLAY"
  <2>1. e \in [info : Text(MaxText)]
    BY <1>1 DEF Element, Display
  <2>2. CASE e.info = <<>>
    <3>1. e = [info |-> <<>>]
      BY <2>1, <2>2
    <3>2. BuildElement(element, e) = <<>>
      BY <1>1, <2>2 DEF BuildElement, BuildMultiText
    <3> QED BY Zenon, <3>1, <3>2, NothingSent DEF Outcome
  <2>3. CASE e.info # <<>>
    BY Zenon, <1>1, <2>3, MultiDisplaySent DEF Outcome
  <2> QED BY <2>2, <2>3
<1>2. CASE element = "MULTI_KEYPAD"
  <2>1. e \in [info : Text(MaxText)]
    BY <1>2 DEF Element, Keypad
  <2>2. CASE e.info = <<>>
    <3>1. e = [info |-> <<>>]
      BY <2>1, <2>2
    <3>2. BuildElement(element, e) = <<>>
      BY <1>2, <2>2 DEF BuildElement, BuildMultiText
    <3> QED BY Zenon, <3>1, <3>2, NothingSent DEF Outcome
  <2>3. CASE e.info # <<>>
    BY Zenon, <1>2, <2>3, MultiKeypadSent DEF Outcome
  <2> QED BY <2>2, <2>3
<1>3. CASE element = "INFO_TYPE"
  <2>1. e \in [type : AtMost(8, InfoParameter)]
    BY <1>3 DEF Element, InfoType
  <2>2. CASE e.type = <<>>
    <3>1. e = [type |-> <<>>]
      BY <2>1, <2>2
    <3>2. BuildElement(element, e) = Finish(<<>>)
      BY <1>3, <2>2 DEF BuildElement, BuildInfoType
    <3>3. Finish(<<>>) = <<>>
      BY DEF Finish
    <3>4. BuildElement(element, e) = <<>>
      BY Zenon, <3>2, <3>3
    <3> QED BY Zenon, <3>1, <3>4, NothingSent DEF Outcome
  <2>3. CASE e.type # <<>>
    BY Zenon, <1>3, <2>3, InfoTypeSent DEF Outcome
  <2> QED BY <2>2, <2>3
<1>4. CASE element = "EVENTS_NOTIFICATION"
  <2>1. e \in [events : AtMost(8, Event)]
    BY <1>4 DEF Element, EventsNotification
  <2>2. CASE e.events = <<>>
    <3>1. e = [events |-> <<>>]
      BY <2>1, <2>2
    <3>2. BuildElement(element, e) = BuildEventsNotification(e)
      BY <1>4 DEF BuildElement
    <3>3. BuildEventsNotification(e) = <<>>
      BY <2>2 DEF BuildEventsNotification, InThrees
    <3>4. BuildElement(element, e) = <<>>
      BY Zenon, <3>2, <3>3
    <3> QED BY Zenon, <3>1, <3>4, NothingSent DEF Outcome
  <2>3. CASE e.events # <<>>
    BY Zenon, <1>4, <2>3, EventsNotificationSent DEF Outcome
  <2> QED BY <2>2, <2>3
<1> QED BY Zenon, <1>1, <1>2, <1>3, <1>4 DEF Listing

\* An identity of a portable part is sent, or is not built.
LEMMA PortableOutcome ==
    ASSUME NEW e \in Element("PORTABLE_IDENTITY")
    PROVE  Outcome("PORTABLE_IDENTITY", e)
<1>1. e \in PortableIdentity
  BY DEF Element
<1>2. CASE e.type = IdTypeTpui \/ e.ipui.put \notin OtherPut
  BY Zenon, <1>2, PortableIdentitySent DEF Outcome, Buildable
<1>3. CASE e.type # IdTypeTpui /\ e.ipui.put \in OtherPut
  <2>1. BuildPortableIdentity(e) = NotBuilt
    BY Zenon, <1>1, <1>3, PortableIdentityNotBuilt
  <2>2. BuildElement("PORTABLE_IDENTITY", e) = BuildPortableIdentity(e)
    BY DEF BuildElement
  <2>3. AddHeader("PORTABLE_IDENTITY", NotBuilt) = NotBuilt
    BY Zenon DEF AddHeader
  <2> QED BY Zenon, <1>3, <2>1, <2>2, <2>3 DEF Outcome
<1> QED BY Zenon, <1>2, <1>3

\* ... and so is every element that is not written as another one.
LEMMA Others ==
    ASSUME NEW element \in IE, Handler[element].build, element \notin DOMAIN MultiOf,
           NEW e \in Element(element) \cup Settled(element)
    PROVE  Outcome(element, e)
<1>1. element \notin Special => e \in Element(element)
  BY Zenon DEF Settled, Special, Varies
<1>2. CASE element \in Plain
  <2>1. element \notin Special
    BY <1>2 DEF Plain, Special, Varies
  <2>2. Sent(element, e)
    BY Zenon, <1>1, <1>2, <2>1, IdentityTypeSent, LocationAreaSent, AllocationTypeSent,
       ProgressIndicatorSent, FeatureActivateSent, RejectReasonSent, SetupCapabilitySent,
       AuthValueSent, RsSent, AuthResSent, NetworkParameterSent, CalledPartyNumberSent,
       IwuToIwuSent, EscapeToProprietarySent DEF Plain
  <2> QED BY Zenon, <2>2 DEF Outcome
<1>3. CASE element \in Changed
  <2>1. element \notin Special
    BY <1>3 DEF Changed, Special, Varies
  <2>2. Sent(element, e)
    BY Zenon, <1>1, <1>3, <2>1, CallingPartyNumberSent, CallingPartyNameSent, CipherInfoSent,
       FixedIdentitySent, TimeDateSent DEF Changed
  <2> QED BY Zenon, <2>2 DEF Outcome
<1>4. CASE element \in Listing
  <2>1. element \notin Special
    BY <1>4 DEF Listing, Special, Varies
  <2> QED BY Zenon, <1>1, <1>4, <2>1, ListingOutcome
<1>5. CASE element \in DoubleOctets
  <2>1. element \notin Special
    BY <1>5 DEF DoubleOctets, Special, Varies
  <2>2. Sent(element, e)
    BY Zenon, <1>1, <1>5, <2>1, BasicServiceSent, ReleaseReasonSent, SignalSent,
       RepeatIndicatorSent DEF DoubleOctets
  <2> QED BY Zenon, <2>2 DEF Outcome
<1>6. CASE element \in Special
  <2>2. Sent(element, e)
    BY Zenon, <1>6, AuthTypeSent, CodecListSent, DurationSent, TerminalCapabilitySent
       DEF Special, Varies
  <2> QED BY Zenon, <2>2 DEF Outcome
<1>7. CASE element = "PORTABLE_IDENTITY"
  <2>1. element \notin Special
    BY <1>7 DEF Special, Varies
  <2> QED BY Zenon, <1>1, <1>7, <2>1, PortableOutcome
<1>8. CASE element \in DOMAIN ExtendedId
  <2>1. element \notin Special
    BY <1>8 DEF ExtendedId, Special, Varies
  <2> QED BY Zenon, <1>1, <1>8, <2>1, ExtendedSent DEF Outcome
<1> QED BY Zenon, <1>2, <1>3, <1>4, <1>5, <1>6, <1>7, <1>8, Builders

\* The core of the proofs: what dect_build_sfmt_ie makes of an element
LEMMA BuildOutcome ==
    ASSUME NEW element \in IE, NEW e \in Element(element) \cup Settled(element), NEW s,
           s = SentAs(element, e), Handler[s].build
    PROVE  /\ s \in IE /\ Outcome(s, e)
           /\ e \in Element(element) => e \in Element(s)
           /\ e \in Settled(element) => e \in Settled(s)
<1>1. CASE element \notin DOMAIN MultiOf
  <2>1. s = element
    BY Zenon, <1>1 DEF SentAs
  <2> QED BY Zenon, <1>1, <2>1, Others
<1>2. CASE element \in DOMAIN MultiOf
  <2>0. element = "SINGLE_DISPLAY" \/ element = "SINGLE_KEYPAD"
    BY <1>2 DEF MultiOf
  <2>1. Settled(element) = {x \in Element(element) : Exact(element, x)}
    BY <2>0 DEF Settled
  <2>2. CASE ~ (Len(e.info) > 1)
    <3>1. s = element
      BY Zenon, <2>2 DEF SentAs
    <3> QED BY Zenon, <1>2, <2>1, <2>2, <3>1, SingleTextSent DEF Outcome
  <2>3. CASE Len(e.info) > 1
    <3>1. s = MultiOf[element]
      BY Zenon, <1>2, <2>3 DEF SentAs
    <3>2. s \in {"MULTI_DISPLAY", "MULTI_KEYPAD"}
      BY <2>0, <3>1 DEF MultiOf
    <3>3. Element(s) = Element(element)
      BY <2>0, <3>1 DEF MultiOf, Element, FixedLengthElement
    <3>4. Settled(s) = {x \in Element(s) : Exact(s, x)} /\ \A x : Exact(s, x)
      BY <3>2 DEF Settled, Exact
    <3>5. s \in IE /\ s \in Listing
      BY <3>2 DEF IE, VariableLengthId, Listing
    <3> QED BY Zenon, <2>1, <3>3, <3>4, <3>5, ListingOutcome
  <2> QED BY <2>2, <2>3
<1> QED BY <1>1, <1>2

-----------------------------------------------------------------------------
(* No parser fills more than the arrays of its structure hold *)

\* The elements with a parser: with an array in their structure, or without
WithArray ==
    {"SINGLE_DISPLAY", "SINGLE_KEYPAD", "INFO_TYPE", "FACILITY", "MULTI_DISPLAY",
     "MULTI_KEYPAD", "NETWORK_PARAMETER", "CALLING_PARTY_NUMBER", "CALLING_PARTY_NAME",
     "CALLED_PARTY_NUMBER", "IWU_TO_IWU", "ESCAPE_TO_PROPRIETARY", "CODEC_LIST"}
Without ==
    {"REPEAT_INDICATOR", "BASIC_SERVICE", "RELEASE_REASON", "SIGNAL", "TIMER_RESTART",
     "IDENTITY_TYPE", "PORTABLE_IDENTITY", "FIXED_IDENTITY", "LOCATION_AREA",
     "ALLOCATION_TYPE", "AUTH_TYPE", "RAND", "RES", "RS", "SERVICE_CHANGE_INFO", "CIPHER_INFO",
     "PROGRESS_INDICATOR", "TIME_DATE", "FEATURE_ACTIVATE", "FEATURE_INDICATE",
     "REJECT_REASON", "SETUP_CAPABILITY", "TERMINAL_CAPABILITY", "DURATION"}

\* Every element with a parser is of one of these kinds.
LEMMA Parsers ==
    ASSUME NEW element \in IE, Handler[element].parse
    PROVE  element \in WithArray \/ element \in Without \/ element \in DOMAIN ExtendedId
<1> DEFINE a == element \in DOMAIN FixedLengthHandler
           b == element \in DOMAIN VariableLengthHandler
           c == element \in DOMAIN MoreVariableLengthHandler
           h == Handler[element]
           x == FixedLengthHandler[element]
           y == VariableLengthHandler[element]
           z == MoreVariableLengthHandler[element]
<1>0. /\ a => h = x
      /\ ~ a /\ b => h = y
      /\ ~ a /\ ~ b /\ c => h = z
      /\ ~ a /\ ~ b /\ ~ c => h = Opaque("")
  <2>1. h = CASE a -> x [] b -> y [] c -> z [] OTHER -> Opaque("")
    BY Zenon DEF Handler
  <2> HIDE DEF a, b, c, h, x, y, z
  <2>2. DOMAIN FixedLengthHandler \cap DOMAIN VariableLengthHandler = {}
        /\ DOMAIN FixedLengthHandler \cap DOMAIN MoreVariableLengthHandler = {}
        /\ DOMAIN VariableLengthHandler \cap DOMAIN MoreVariableLengthHandler = {}
    BY DEF FixedLengthHandler, VariableLengthHandler, MoreVariableLengthHandler
  <2>3. ~ (a /\ b) /\ ~ (a /\ c) /\ ~ (b /\ c)
    BY Zenon, <2>2 DEF a, b, c
  <2> QED BY Zenon, <2>1, <2>3
<1>1. CASE element \in DOMAIN FixedLengthHandler
  <2>1. FixedLengthHandler[element].parse
    <3>1. Handler[element] = FixedLengthHandler[element]
      BY Zenon, <1>1, <1>0
    <3> QED BY Zenon, <1>1, <3>1
  <2>2. element \in
            {"REPEAT_INDICATOR", "SENDING_COMPLETE", "DELIMITER_REQUEST", "USE_TPUI",
             "BASIC_SERVICE", "RELEASE_REASON", "SIGNAL", "TIMER_RESTART", "SINGLE_DISPLAY",
             "SINGLE_KEYPAD"}
    <3>1. DOMAIN FixedLengthHandler =
            {"REPEAT_INDICATOR", "SENDING_COMPLETE", "DELIMITER_REQUEST", "USE_TPUI",
             "BASIC_SERVICE", "RELEASE_REASON", "SIGNAL", "TIMER_RESTART", "SINGLE_DISPLAY",
             "SINGLE_KEYPAD"}
            \cup {"TEST_HOOK_CONTROL"}
      BY DEF FixedLengthHandler, Opaque
    <3>2. /\ ~ FixedLengthHandler["TEST_HOOK_CONTROL"].parse
      BY DEF FixedLengthHandler, Opaque
    <3> QED BY Zenon, <1>1, <2>1, <3>1, <3>2
  <2>3. DOMAIN ExtendedId = {"SENDING_COMPLETE", "DELIMITER_REQUEST", "USE_TPUI"}
    BY DEF ExtendedId
  <2> QED BY Zenon, <2>2, <2>3 DEF WithArray, Without
<1>2. CASE element \notin DOMAIN FixedLengthHandler /\ element \in DOMAIN VariableLengthHandler
  <2>1. VariableLengthHandler[element].parse
    <3>1. Handler[element] = VariableLengthHandler[element]
      BY Zenon, <1>2, <1>0
    <3> QED BY Zenon, <1>2, <3>1
  <2>2. element \in
            {"INFO_TYPE", "IDENTITY_TYPE", "PORTABLE_IDENTITY", "FIXED_IDENTITY",
             "LOCATION_AREA", "ALLOCATION_TYPE", "AUTH_TYPE", "RAND", "RES", "RS",
             "SERVICE_CHANGE_INFO", "CIPHER_INFO", "FACILITY", "PROGRESS_INDICATOR",
             "TIME_DATE", "MULTI_DISPLAY", "MULTI_KEYPAD"}
    <3>1. DOMAIN VariableLengthHandler =
            {"INFO_TYPE", "IDENTITY_TYPE", "PORTABLE_IDENTITY", "FIXED_IDENTITY",
             "LOCATION_AREA", "ALLOCATION_TYPE", "AUTH_TYPE", "RAND", "RES", "RS",
             "SERVICE_CHANGE_INFO", "CIPHER_INFO", "FACILITY", "PROGRESS_INDICATOR",
             "TIME_DATE", "MULTI_DISPLAY", "MULTI_KEYPAD"}
            \cup {"NWK_ASSIGNED_IDENTITY", "IWU_ATTRIBUTES", "CALL_ATTRIBUTES",
                  "CONNECTION_ATTRIBUTES", "CALL_IDENTITY", "CONNECTION_IDENTITY",
                  "MMS_GENERIC_HEADER", "MMS_OBJECT_HEADER", "MMS_EXTENDED_HEADER"}
      BY DEF VariableLengthHandler, Opaque
    <3>2. /\ ~ VariableLengthHandler["NWK_ASSIGNED_IDENTITY"].parse
          /\ ~ VariableLengthHandler["IWU_ATTRIBUTES"].parse
          /\ ~ VariableLengthHandler["CALL_ATTRIBUTES"].parse
          /\ ~ VariableLengthHandler["CONNECTION_ATTRIBUTES"].parse
          /\ ~ VariableLengthHandler["CALL_IDENTITY"].parse
          /\ ~ VariableLengthHandler["CONNECTION_IDENTITY"].parse
          /\ ~ VariableLengthHandler["MMS_GENERIC_HEADER"].parse
          /\ ~ VariableLengthHandler["MMS_OBJECT_HEADER"].parse
          /\ ~ VariableLengthHandler["MMS_EXTENDED_HEADER"].parse
      BY DEF VariableLengthHandler, Opaque
    <3> QED BY Zenon, <1>2, <2>1, <3>1, <3>2
  <2> QED BY Zenon, <2>2 DEF WithArray, Without
<1>3. CASE element \notin DOMAIN FixedLengthHandler /\ element \notin DOMAIN VariableLengthHandler
           /\ element \in DOMAIN MoreVariableLengthHandler
  <2>1. MoreVariableLengthHandler[element].parse
    <3>1. Handler[element] = MoreVariableLengthHandler[element]
      BY Zenon, <1>3, <1>0
    <3> QED BY Zenon, <1>3, <3>1
  <2>2. element \in
            {"FEATURE_ACTIVATE", "FEATURE_INDICATE", "NETWORK_PARAMETER", "REJECT_REASON",
             "SETUP_CAPABILITY", "TERMINAL_CAPABILITY", "CALLING_PARTY_NUMBER",
             "CALLING_PARTY_NAME", "CALLED_PARTY_NUMBER", "DURATION", "IWU_TO_IWU",
             "ESCAPE_TO_PROPRIETARY", "CODEC_LIST"}
    <3>1. DOMAIN MoreVariableLengthHandler =
            {"FEATURE_ACTIVATE", "FEATURE_INDICATE", "NETWORK_PARAMETER", "REJECT_REASON",
             "SETUP_CAPABILITY", "TERMINAL_CAPABILITY", "CALLING_PARTY_NUMBER",
             "CALLING_PARTY_NAME", "CALLED_PARTY_NUMBER", "DURATION", "IWU_TO_IWU",
             "ESCAPE_TO_PROPRIETARY", "CODEC_LIST"}
            \cup {"EXT_HO_INDICATOR", "ZAP_FIELD", "SERVICE_CLASS", "KEY",
                  "END_TO_END_COMPATIBILITY", "RATE_PARAMETERS", "TRANSIT_DELAY",
                  "WINDOW_SIZE", "CALLED_PARTY_SUBADDR", "SEGMENTED_INFO", "ALPHANUMERIC",
                  "MODEL_IDENTIFIER", "IWU_PACKET", "EVENTS_NOTIFICATION", "CALL_INFORMATION",
                  "ESCAPE_FOR_EXTENSION"}
      BY DEF MoreVariableLengthHandler, Opaque, BuildOnly
    <3>2. /\ ~ MoreVariableLengthHandler["EXT_HO_INDICATOR"].parse
          /\ ~ MoreVariableLengthHandler["ZAP_FIELD"].parse
          /\ ~ MoreVariableLengthHandler["SERVICE_CLASS"].parse
          /\ ~ MoreVariableLengthHandler["KEY"].parse
          /\ ~ MoreVariableLengthHandler["END_TO_END_COMPATIBILITY"].parse
          /\ ~ MoreVariableLengthHandler["RATE_PARAMETERS"].parse
          /\ ~ MoreVariableLengthHandler["TRANSIT_DELAY"].parse
          /\ ~ MoreVariableLengthHandler["WINDOW_SIZE"].parse
          /\ ~ MoreVariableLengthHandler["CALLED_PARTY_SUBADDR"].parse
          /\ ~ MoreVariableLengthHandler["SEGMENTED_INFO"].parse
          /\ ~ MoreVariableLengthHandler["ALPHANUMERIC"].parse
          /\ ~ MoreVariableLengthHandler["MODEL_IDENTIFIER"].parse
          /\ ~ MoreVariableLengthHandler["IWU_PACKET"].parse
          /\ ~ MoreVariableLengthHandler["EVENTS_NOTIFICATION"].parse
          /\ ~ MoreVariableLengthHandler["CALL_INFORMATION"].parse
          /\ ~ MoreVariableLengthHandler["ESCAPE_FOR_EXTENSION"].parse
      BY DEF MoreVariableLengthHandler, Opaque, BuildOnly
    <3> QED BY Zenon, <1>3, <2>1, <3>1, <3>2
  <2> QED BY Zenon, <2>2 DEF WithArray, Without
<1>4. CASE element \notin DOMAIN FixedLengthHandler /\ element \notin DOMAIN VariableLengthHandler
           /\ element \notin DOMAIN MoreVariableLengthHandler
  <2>1. ~ Opaque("").parse
    BY DEF Opaque
  <2>2. Handler[element] = Opaque("")
    BY Zenon, <1>0, <1>4
  <2> QED BY Zenon, <2>1, <2>2
<1> QED BY Zenon, <1>1, <1>2, <1>3, <1>4

\* The fields of the structures that are arrays with a length
Arrays(element) ==
    {"entry", "info", "data", "components", "address", "name", "content"}
        \cup (IF element = "INFO_TYPE" THEN {"type"} ELSE {})

Within(element, p) ==
    \A field \in Arrays(element) \cap DOMAIN p : Len(p[field]) <= ArraySize(element, field)

\* A structure without arrays, an invalid one, and one with one array
LEMMA NoneWithin ==
    ASSUME NEW element, element # "INFO_TYPE", NEW p,
           DOMAIN p \cap {"entry", "info", "data", "components", "address", "name", "content"} = {}
    PROVE  Within(element, p)
  BY DEF Within, Arrays

LEMMA InvalidWithin ==
    ASSUME NEW element
    PROVE  Within(element, Invalid)
  BY DEF Within, Arrays, Invalid

LEMMA OneWithin ==
    ASSUME NEW element, NEW p, NEW field, DOMAIN p \cap Arrays(element) \subseteq {field},
           Len(p[field]) <= ArraySize(element, field)
    PROVE  Within(element, p)
  BY Zenon DEF Within

\* A comparison of lengths modulo 256 is one of the lengths, as elements are no longer.
LEMMA FitsOK ==
    ASSUME NEW o \in Seq(Octet), Len(o) <= 257, NEW n \in 2 .. 5, NEW size, size = 64 \/ size = 256,
           Fits(o, n, size)
    PROVE  Len(Rest(o, n)) <= size
<1> DEFINE l == Len(o)
<1>1. l \in Nat /\ l <= 257 /\ (l - n) % 256 <= size
  BY DEF Fits
<1>2. Len(Rest(o, n)) = IF n + 1 <= l THEN l - n ELSE 0
  <2>1. n + 1 \in Nat /\ l \in Nat
    BY <1>1
  <2>2. Len(SubSeq(o, n + 1, l)) = IF n + 1 <= l THEN l - n ELSE 0
    BY <2>1
  <2> QED BY Zenon, <2>2 DEF Rest
<1> HIDE DEF l
<1>3. n + 1 <= l => (l - n) % 256 = l - n
  BY <1>1
<1> QED BY <1>1, <1>2, <1>3

NoArray(x) ==
    DOMAIN x \cap {"entry", "info", "data", "components", "address", "name", "content"} = {}

\* The parsers of elements without an array
LEMMA WithoutArray ==
    ASSUME NEW element, NEW o, element \in Without \/ element \in DOMAIN ExtendedId
    PROVE  Within(element, ParseElement(element, o))
<1> DEFINE p == ParseElement(element, o)
<1>1. NoArray(Invalid)
  BY DEF NoArray, Invalid
<1>2. ASSUME element = "REPEAT_INDICATOR"
      PROVE  NoArray(p)
  <2>1. p = ParseRepeatIndicator(o)
    BY <1>2 DEF ParseElement, ParseFixedLength, ExtendedId
  <2>2. NoArray(ParseRepeatIndicator(o))
    BY <1>1 DEF NoArray, ParseRepeatIndicator
  <2> QED BY Zenon, <2>1, <2>2
<1>3. ASSUME element = "BASIC_SERVICE"
      PROVE  NoArray(p)
  <2>1. p = ParseBasicService(o)
    BY <1>3 DEF ParseElement, ParseFixedLength, ExtendedId
  <2>2. NoArray(ParseBasicService(o))
    BY <1>1 DEF NoArray, ParseBasicService
  <2> QED BY Zenon, <2>1, <2>2
<1>4. ASSUME element = "RELEASE_REASON"
      PROVE  NoArray(p)
  <2>1. p = ParseReleaseReason(o)
    BY <1>4 DEF ParseElement, ParseFixedLength, ExtendedId
  <2>2. NoArray(ParseReleaseReason(o))
    BY <1>1 DEF NoArray, ParseReleaseReason
  <2> QED BY Zenon, <2>1, <2>2
<1>5. ASSUME element = "SIGNAL"
      PROVE  NoArray(p)
  <2>1. p = ParseSignal(o)
    BY <1>5 DEF ParseElement, ParseFixedLength, ExtendedId
  <2>2. NoArray(ParseSignal(o))
    BY <1>1 DEF NoArray, ParseSignal
  <2> QED BY Zenon, <2>1, <2>2
<1>6. ASSUME element = "TIMER_RESTART"
      PROVE  NoArray(p)
  <2>1. p = ParseTimerRestart(o)
    BY <1>6 DEF ParseElement, ParseFixedLength, ExtendedId
  <2>2. NoArray(ParseTimerRestart(o))
    BY <1>1 DEF NoArray, ParseTimerRestart
  <2> QED BY Zenon, <2>1, <2>2
<1>7. ASSUME element = "IDENTITY_TYPE"
      PROVE  NoArray(p)
  <2>1. p = ParseIdentityType(o)
    BY <1>7 DEF ParseElement
  <2>2. NoArray(ParseIdentityType(o))
    BY <1>1 DEF NoArray, ParseIdentityType
  <2> QED BY Zenon, <2>1, <2>2
<1>8. ASSUME element = "PORTABLE_IDENTITY"
      PROVE  NoArray(p)
  <2>1. p = ParsePortableIdentity(o)
    BY <1>8 DEF ParseElement
  <2>2. NoArray(ParsePortableIdentity(o))
    BY <1>1 DEF NoArray, ParsePortableIdentity
  <2> QED BY Zenon, <2>1, <2>2
<1>9. ASSUME element = "FIXED_IDENTITY"
      PROVE  NoArray(p)
  <2>1. p = ParseFixedIdentity(o)
    BY <1>9 DEF ParseElement
  <2>2. NoArray(ParseFixedIdentity(o))
    BY <1>1 DEF NoArray, ParseFixedIdentity
  <2> QED BY Zenon, <2>1, <2>2
<1>10. ASSUME element = "LOCATION_AREA"
      PROVE  NoArray(p)
  <2>1. p = ParseLocationArea(o)
    BY <1>10 DEF ParseElement
  <2>2. NoArray(ParseLocationArea(o))
    BY <1>1 DEF NoArray, ParseLocationArea
  <2> QED BY Zenon, <2>1, <2>2
<1>11. ASSUME element = "AUTH_TYPE"
      PROVE  NoArray(p)
  <2>1. p = ParseAuthType(o)
    BY <1>11 DEF ParseElement
  <2>2. NoArray(ParseAuthType(o))
    BY <1>1 DEF NoArray, ParseAuthType
  <2> QED BY Zenon, <2>1, <2>2
<1>12. ASSUME element = "ALLOCATION_TYPE"
      PROVE  NoArray(p)
  <2>1. p = ParseAllocationType(o)
    BY <1>12 DEF ParseElement
  <2>2. NoArray(ParseAllocationType(o))
    BY <1>1 DEF NoArray, ParseAllocationType
  <2> QED BY Zenon, <2>1, <2>2
<1>13. ASSUME element = "RAND"
      PROVE  NoArray(p)
  <2>1. p = ParseAuthValue(o)
    BY <1>13 DEF ParseElement
  <2>2. NoArray(ParseAuthValue(o))
    BY <1>1 DEF NoArray, ParseAuthValue
  <2> QED BY Zenon, <2>1, <2>2
<1>14. ASSUME element = "RS"
      PROVE  NoArray(p)
  <2>1. p = ParseAuthValue(o)
    BY <1>14 DEF ParseElement
  <2>2. NoArray(ParseAuthValue(o))
    BY <1>1 DEF NoArray, ParseAuthValue
  <2> QED BY Zenon, <2>1, <2>2
<1>15. ASSUME element = "RES"
      PROVE  NoArray(p)
  <2>1. p = ParseAuthRes(o)
    BY <1>15 DEF ParseElement
  <2>2. NoArray(ParseAuthRes(o))
    BY <1>1 DEF NoArray, ParseAuthRes
  <2> QED BY Zenon, <2>1, <2>2
<1>16. ASSUME element = "SERVICE_CHANGE_INFO"
      PROVE  NoArray(p)
  <2>1. p = ParseServiceChangeInfo(o)
    BY <1>16 DEF ParseElement
  <2>2. NoArray(ParseServiceChangeInfo(o))
    BY <1>1 DEF NoArray, ParseServiceChangeInfo
  <2> QED BY Zenon, <2>1, <2>2
<1>17. ASSUME element = "CIPHER_INFO"
      PROVE  NoArray(p)
  <2>1. p = ParseCipherInfo(o)
    BY <1>17 DEF ParseElement
  <2>2. NoArray(ParseCipherInfo(o))
    BY <1>1 DEF NoArray, ParseCipherInfo
  <2> QED BY Zenon, <2>1, <2>2
<1>18. ASSUME element = "PROGRESS_INDICATOR"
      PROVE  NoArray(p)
  <2>1. p = ParseProgressIndicator(o)
    BY <1>18 DEF ParseElement
  <2>2. NoArray(ParseProgressIndicator(o))
    BY <1>1 DEF NoArray, ParseProgressIndicator
  <2> QED BY Zenon, <2>1, <2>2
<1>19. ASSUME element = "TIME_DATE"
      PROVE  NoArray(p)
  <2>1. p = ParseTimeDate(o)
    BY <1>19 DEF ParseElement
  <2>2. NoArray(ParseTimeDate(o))
    BY <1>1 DEF NoArray, ParseTimeDate
  <2> QED BY Zenon, <2>1, <2>2
<1>20. ASSUME element = "FEATURE_ACTIVATE"
      PROVE  NoArray(p)
  <2>1. p = ParseFeatureActivate(o)
    BY <1>20 DEF ParseElement
  <2>2. NoArray(ParseFeatureActivate(o))
    BY <1>1 DEF NoArray, ParseFeatureActivate
  <2> QED BY Zenon, <2>1, <2>2
<1>21. ASSUME element = "FEATURE_INDICATE"
      PROVE  NoArray(p)
  <2>1. p = ParseFeatureIndicate(o)
    BY <1>21 DEF ParseElement
  <2>2. NoArray(ParseFeatureIndicate(o))
    BY <1>1 DEF NoArray, ParseFeatureIndicate
  <2> QED BY Zenon, <2>1, <2>2
<1>22. ASSUME element = "REJECT_REASON"
      PROVE  NoArray(p)
  <2>1. p = ParseRejectReason(o)
    BY <1>22 DEF ParseElement
  <2>2. NoArray(ParseRejectReason(o))
    BY <1>1 DEF NoArray, ParseRejectReason
  <2> QED BY Zenon, <2>1, <2>2
<1>23. ASSUME element = "SETUP_CAPABILITY"
      PROVE  NoArray(p)
  <2>1. p = ParseSetupCapability(o)
    BY <1>23 DEF ParseElement
  <2>2. NoArray(ParseSetupCapability(o))
    BY <1>1 DEF NoArray, ParseSetupCapability
  <2> QED BY Zenon, <2>1, <2>2
<1>24. ASSUME element = "TERMINAL_CAPABILITY"
      PROVE  NoArray(p)
  <2>1. p = ParseTerminalCapability(o)
    BY <1>24 DEF ParseElement
  <2>2. NoArray(ParseTerminalCapability(o))
    BY <1>1 DEF NoArray, ParseTerminalCapability
  <2> QED BY Zenon, <2>1, <2>2
<1>25. ASSUME element = "DURATION"
      PROVE  NoArray(p)
  <2>1. p = ParseDuration(o)
    BY <1>25 DEF ParseElement
  <2>2. NoArray(ParseDuration(o))
    BY <1>1 DEF NoArray, ParseDuration
  <2> QED BY Zenon, <2>1, <2>2
<1>26. ASSUME element \in DOMAIN ExtendedId
      PROVE  NoArray(p)
  <2>1. p = Nothing
    BY <1>26 DEF ParseElement, ParseFixedLength, ParseEmptySingleOctet, ExtendedId
  <2>2. NoArray(Nothing)
    BY DEF NoArray, Nothing
  <2> QED BY Zenon, <2>1, <2>2
<1>27. NoArray(p)
  BY Zenon, <1>2, <1>3, <1>4, <1>5, <1>6, <1>7, <1>8, <1>9, <1>10, <1>11, <1>12,
     <1>13, <1>14, <1>15, <1>16, <1>17, <1>18, <1>19, <1>20, <1>21, <1>22,
     <1>23, <1>24, <1>25, <1>26 DEF Without
<1>28. element # "INFO_TYPE"
  BY DEF Without, ExtendedId
<1> QED BY Zenon, <1>27, <1>28, NoneWithin DEF NoArray

\* SelectInSeq finds a place or none.
LEMMA Selected ==
    ASSUME NEW s \in Seq(Octet)
    PROVE  SelectInSeq(s, Ends) \in Nat
<1> DEFINE I == {i \in 1 .. Len(s) : Ends(s[i])}
           m == CHOOSE x \in I : \A y \in I : x <= y
<1>1. SelectInSeq(s, Ends) = IF I # {} THEN m ELSE 0
  BY DEF SelectInSeq, Min
<1>2. I \subseteq Nat
  OBVIOUS
<1> HIDE DEF I
<1>3. I # {} => m \in I
  <2> SUFFICES ASSUME I # {} PROVE m \in I
    OBVIOUS
  <2>1. \E x \in I : \A y \in I : x <= y
    BY <1>2, LeastNat
  <2> QED BY Zenon, <2>1
<1> DEFINE r == SelectInSeq(s, Ends)
<1> HIDE DEF m, r
<1>4. m \in I => m \in Nat
  BY Zenon, <1>2
<1>5. r \in Nat
  <2>1. 0 \in Nat
    OBVIOUS
  <2>2. CASE I = {}
    BY Zenon, <1>1, <2>1, <2>2 DEF r
  <2>3. CASE I # {}
    BY Zenon, <1>1, <1>3, <1>4, <2>3 DEF r
  <2> QED BY <2>2, <2>3
<1> QED BY Zenon, <1>5 DEF r

LEMMA LenIs ==
    ASSUME NEW k \in Int, NEW f, f = [i \in 1 .. k |-> f[i]], k <= 8
    PROVE  Len(f) <= 8
<1> DEFINE m == IF k < 0 THEN 0 ELSE k
<1>1. m \in Nat /\ 1 .. k = 1 .. m /\ m <= 8
  OBVIOUS
<1> HIDE DEF m
<1>2. f = [i \in 1 .. m |-> f[i]]
  BY Zenon, <1>1
<1>3. DOMAIN f = 1 .. m
  BY Zenon, <1>2
<1>4. Len(f) = m
  <2> DEFINE S == {f[i] : i \in 1 .. m}
  <2>1. f \in [1 .. m -> S]
    BY Zenon, <1>2
  <2>2. m \in Nat
    BY <1>1
  <2> HIDE DEF S
  <2> QED BY ONLY <2>1, <2>2, ArrayIsSeq
<1> QED BY Zenon, <1>1, <1>4

\* At most eight types and eight codecs are read, whatever the peer sent.
LEMMA InfoTypeWithin ==
    ASSUME NEW o \in Seq(Octet)
    PROVE  Len(ParseInfoType(o).type) <= 8 /\ DOMAIN ParseInfoType(o) = {"type"}
<1> DEFINE body == Rest(o, 2)
           end == SelectInSeq(body, Ends)
           num == IF end = 0 THEN Len(body) ELSE end
           k == IF num < 8 THEN num ELSE 8
           f == [i \in 1 .. k |-> Value(body[i])]
<1>1. ParseInfoType(o) = [type |-> f]
  BY Zenon DEF ParseInfoType
<1>2. body \in Seq(Octet)
  <2>1. Len(o) \in Nat /\ 2 + 1 \in Nat
    OBVIOUS
  <2> QED BY <2>1 DEF Rest
<1> HIDE DEF body
<1>3. end \in Nat /\ Len(body) \in Nat
  BY <1>2, Selected
<1> HIDE DEF end
<1>4. k \in Int /\ k <= 8
  BY <1>3
<1> HIDE DEF k
<1>5. f = [i \in 1 .. k |-> f[i]]
  OBVIOUS
<1> HIDE DEF f
<1>6. Len(f) <= 8
  BY <1>4, <1>5, LenIs
<1> QED BY <1>1, <1>6

LEMMA CodecListWithin ==
    ASSUME NEW o \in Seq(Octet)
    PROVE  Len(ParseCodecList(o).entry) <= 8 /\ DOMAIN ParseCodecList(o) = {"negotiation", "entry"}
<1> DEFINE num == (Len(o) - 3) \div 3
           k == IF num < 8 THEN num ELSE 8
           f == [i \in 1 .. k |->
                   [codec |-> At(o, 3 * i), service |-> Low(At(o, 3 * i + 1)),
                    cplane |-> High(At(o, 3 * i + 2)), slot |-> Low(At(o, 3 * i + 2))]]
<1>1. ParseCodecList(o) = [negotiation |-> High(At(o, 2)), entry |-> f]
  BY Zenon DEF ParseCodecList
<1>2. num \in Int
  BY LenProperties
<1> HIDE DEF num
<1>4. k \in Int /\ k <= 8
  BY <1>2
<1> HIDE DEF k
<1>5. f = [i \in 1 .. k |-> f[i]]
  OBVIOUS
<1> HIDE DEF f
<1>6. Len(f) <= 8
  BY <1>4, <1>5, LenIs
<1> QED BY <1>1, <1>6

\* No parser fills more than its arrays hold, whatever the peer sent.
LEMMA ParsedWithin ==
    ASSUME NEW element \in IE, Handler[element].parse, NEW o \in Seq(Octet), Len(o) <= 257
    PROVE  Within(element, ParseElement(element, o))
<1> DEFINE p == ParseElement(element, o)
<1>1. CASE element \in Without \/ element \in DOMAIN ExtendedId
  BY Zenon, <1>1, WithoutArray
<1>2. CASE element = "SINGLE_DISPLAY"
  <2> DEFINE q == ParseSingleText(o)
  <2>1. p = q
    BY <1>2 DEF ParseElement, ParseFixedLength, ExtendedId
  <2>2. DOMAIN q = {"info"} /\ Len(q.info) = 1
    BY DEF ParseSingleText
  <2>3. ArraySize(element, "info") = 256
    BY DEF ArraySize
  <2>4. DOMAIN q \cap Arrays(element) \subseteq {"info"} /\ Len(q["info"]) <= ArraySize(element, "info")
    BY <2>2, <2>3
  <2> HIDE DEF p, q
  <2> QED BY Zenon, <2>1, <2>4, OneWithin DEF p
<1>3. CASE element = "SINGLE_KEYPAD"
  <2> DEFINE q == ParseSingleText(o)
  <2>1. p = q
    BY <1>3 DEF ParseElement, ParseFixedLength, ExtendedId
  <2>2. DOMAIN q = {"info"} /\ Len(q.info) = 1
    BY DEF ParseSingleText
  <2>3. ArraySize(element, "info") = 256
    BY DEF ArraySize
  <2>4. DOMAIN q \cap Arrays(element) \subseteq {"info"} /\ Len(q["info"]) <= ArraySize(element, "info")
    BY <2>2, <2>3
  <2> HIDE DEF p, q
  <2> QED BY Zenon, <2>1, <2>4, OneWithin DEF p
<1>4. CASE element = "FACILITY"
  <2> DEFINE q == ParseFacility(o)
  <2>1. p = q
    BY <1>4 DEF ParseElement
  <2>2. q = Invalid \/ (Fits(o, 3, 64) /\ q.components = Rest(o, 3)
                        /\ DOMAIN q \cap Arrays(element) \subseteq {"components"})
    BY <1>4 DEF ParseFacility, Arrays
  <2>3. ArraySize(element, "components") = 64
    BY <1>4 DEF ArraySize
  <2>4. 3 \in 2 .. 5 /\ (64 = 64 \/ 64 = 256)
    OBVIOUS
  <2> HIDE DEF p, q
  <2>5. CASE q = Invalid
    BY Zenon, <2>1, <2>5, InvalidWithin DEF p
  <2>6. CASE q # Invalid
    <3>1. Len(q.components) <= 64
      BY <2>2, <2>4, <2>6, FitsOK
    <3>2. Len(q["components"]) <= ArraySize(element, "components")
      BY <2>3, <3>1
    <3> QED BY Zenon, <2>1, <2>2, <2>6, <3>2, OneWithin DEF p
  <2> QED BY Zenon, <2>5, <2>6
<1>5. CASE element = "MULTI_DISPLAY"
  <2> DEFINE q == ParseMultiText(o)
  <2>1. p = q
    BY <1>5 DEF ParseElement
  <2>2. q = Invalid \/ (Fits(o, 2, 256) /\ q.info = Rest(o, 2)
                        /\ DOMAIN q \cap Arrays(element) \subseteq {"info"})
    BY <1>5 DEF ParseMultiText, Arrays
  <2>3. ArraySize(element, "info") = 256
    BY <1>5 DEF ArraySize
  <2>4. 2 \in 2 .. 5 /\ (256 = 64 \/ 256 = 256)
    OBVIOUS
  <2> HIDE DEF p, q
  <2>5. CASE q = Invalid
    BY Zenon, <2>1, <2>5, InvalidWithin DEF p
  <2>6. CASE q # Invalid
    <3>1. Len(q.info) <= 256
      BY <2>2, <2>4, <2>6, FitsOK
    <3>2. Len(q["info"]) <= ArraySize(element, "info")
      BY <2>3, <3>1
    <3> QED BY Zenon, <2>1, <2>2, <2>6, <3>2, OneWithin DEF p
  <2> QED BY Zenon, <2>5, <2>6
<1>6. CASE element = "MULTI_KEYPAD"
  <2> DEFINE q == ParseMultiText(o)
  <2>1. p = q
    BY <1>6 DEF ParseElement
  <2>2. q = Invalid \/ (Fits(o, 2, 256) /\ q.info = Rest(o, 2)
                        /\ DOMAIN q \cap Arrays(element) \subseteq {"info"})
    BY <1>6 DEF ParseMultiText, Arrays
  <2>3. ArraySize(element, "info") = 256
    BY <1>6 DEF ArraySize
  <2>4. 2 \in 2 .. 5 /\ (256 = 64 \/ 256 = 256)
    OBVIOUS
  <2> HIDE DEF p, q
  <2>5. CASE q = Invalid
    BY Zenon, <2>1, <2>5, InvalidWithin DEF p
  <2>6. CASE q # Invalid
    <3>1. Len(q.info) <= 256
      BY <2>2, <2>4, <2>6, FitsOK
    <3>2. Len(q["info"]) <= ArraySize(element, "info")
      BY <2>3, <3>1
    <3> QED BY Zenon, <2>1, <2>2, <2>6, <3>2, OneWithin DEF p
  <2> QED BY Zenon, <2>5, <2>6
<1>7. CASE element = "NETWORK_PARAMETER"
  <2> DEFINE q == ParseNetworkParameter(o)
  <2>1. p = q
    BY <1>7 DEF ParseElement
  <2>2. q = Invalid \/ (Fits(o, 3, 64) /\ q.data = Rest(o, 3)
                        /\ DOMAIN q \cap Arrays(element) \subseteq {"data"})
    BY <1>7 DEF ParseNetworkParameter, Arrays
  <2>3. ArraySize(element, "data") = 64
    BY <1>7 DEF ArraySize
  <2>4. 3 \in 2 .. 5 /\ (64 = 64 \/ 64 = 256)
    OBVIOUS
  <2> HIDE DEF p, q
  <2>5. CASE q = Invalid
    BY Zenon, <2>1, <2>5, InvalidWithin DEF p
  <2>6. CASE q # Invalid
    <3>1. Len(q.data) <= 64
      BY <2>2, <2>4, <2>6, FitsOK
    <3>2. Len(q["data"]) <= ArraySize(element, "data")
      BY <2>3, <3>1
    <3> QED BY Zenon, <2>1, <2>2, <2>6, <3>2, OneWithin DEF p
  <2> QED BY Zenon, <2>5, <2>6
<1>8. CASE element = "CALLING_PARTY_NAME"
  <2> DEFINE q == ParseCallingPartyName(o)
  <2>1. p = q
    BY <1>8 DEF ParseElement
  <2>2. q = Invalid \/ (Fits(o, 3, 64) /\ q.name = Rest(o, 3)
                        /\ DOMAIN q \cap Arrays(element) \subseteq {"name"})
    BY <1>8 DEF ParseCallingPartyName, Arrays
  <2>3. ArraySize(element, "name") = 64
    BY <1>8 DEF ArraySize
  <2>4. 3 \in 2 .. 5 /\ (64 = 64 \/ 64 = 256)
    OBVIOUS
  <2> HIDE DEF p, q
  <2>5. CASE q = Invalid
    BY Zenon, <2>1, <2>5, InvalidWithin DEF p
  <2>6. CASE q # Invalid
    <3>1. Len(q.name) <= 64
      BY <2>2, <2>4, <2>6, FitsOK
    <3>2. Len(q["name"]) <= ArraySize(element, "name")
      BY <2>3, <3>1
    <3> QED BY Zenon, <2>1, <2>2, <2>6, <3>2, OneWithin DEF p
  <2> QED BY Zenon, <2>5, <2>6
<1>9. CASE element = "CALLED_PARTY_NUMBER"
  <2> DEFINE q == ParseCalledPartyNumber(o)
  <2>1. p = q
    BY <1>9 DEF ParseElement
  <2>2. q = Invalid \/ (Fits(o, 3, 64) /\ q.address = Rest(o, 3)
                        /\ DOMAIN q \cap Arrays(element) \subseteq {"address"})
    BY <1>9 DEF ParseCalledPartyNumber, Arrays
  <2>3. ArraySize(element, "address") = 64
    BY <1>9 DEF ArraySize
  <2>4. 3 \in 2 .. 5 /\ (64 = 64 \/ 64 = 256)
    OBVIOUS
  <2> HIDE DEF p, q
  <2>5. CASE q = Invalid
    BY Zenon, <2>1, <2>5, InvalidWithin DEF p
  <2>6. CASE q # Invalid
    <3>1. Len(q.address) <= 64
      BY <2>2, <2>4, <2>6, FitsOK
    <3>2. Len(q["address"]) <= ArraySize(element, "address")
      BY <2>3, <3>1
    <3> QED BY Zenon, <2>1, <2>2, <2>6, <3>2, OneWithin DEF p
  <2> QED BY Zenon, <2>5, <2>6
<1>10. CASE element = "IWU_TO_IWU"
  <2> DEFINE q == ParseIwuToIwu(o)
  <2>1. p = q
    BY <1>10 DEF ParseElement
  <2>2. q = Invalid \/ (Fits(o, 3, 256) /\ q.data = Rest(o, 3)
                        /\ DOMAIN q \cap Arrays(element) \subseteq {"data"})
    BY <1>10 DEF ParseIwuToIwu, Arrays
  <2>3. ArraySize(element, "data") = 256
    BY <1>10 DEF ArraySize
  <2>4. 3 \in 2 .. 5 /\ (256 = 64 \/ 256 = 256)
    OBVIOUS
  <2> HIDE DEF p, q
  <2>5. CASE q = Invalid
    BY Zenon, <2>1, <2>5, InvalidWithin DEF p
  <2>6. CASE q # Invalid
    <3>1. Len(q.data) <= 256
      BY <2>2, <2>4, <2>6, FitsOK
    <3>2. Len(q["data"]) <= ArraySize(element, "data")
      BY <2>3, <3>1
    <3> QED BY Zenon, <2>1, <2>2, <2>6, <3>2, OneWithin DEF p
  <2> QED BY Zenon, <2>5, <2>6
<1>11. CASE element = "ESCAPE_TO_PROPRIETARY"
  <2> DEFINE q == ParseEscapeToProprietary(o)
  <2>1. p = q
    BY <1>11 DEF ParseElement
  <2>2. q = Invalid \/ (Fits(o, 5, 64) /\ q.content = Rest(o, 5)
                        /\ DOMAIN q \cap Arrays(element) \subseteq {"content"})
    BY <1>11 DEF ParseEscapeToProprietary, Arrays
  <2>3. ArraySize(element, "content") = 64
    BY <1>11 DEF ArraySize
  <2>4. 5 \in 2 .. 5 /\ (64 = 64 \/ 64 = 256)
    OBVIOUS
  <2> HIDE DEF p, q
  <2>5. CASE q = Invalid
    BY Zenon, <2>1, <2>5, InvalidWithin DEF p
  <2>6. CASE q # Invalid
    <3>1. Len(q.content) <= 64
      BY <2>2, <2>4, <2>6, FitsOK
    <3>2. Len(q["content"]) <= ArraySize(element, "content")
      BY <2>3, <3>1
    <3> QED BY Zenon, <2>1, <2>2, <2>6, <3>2, OneWithin DEF p
  <2> QED BY Zenon, <2>5, <2>6
<1>12. CASE element = "CALLING_PARTY_NUMBER"
  <2> DEFINE q == ParseCallingPartyNumber(o)
             n == IF Ends(At(o, 2)) THEN 3 ELSE 4
  <2>1. p = q
    BY <1>12 DEF ParseElement
  <2>2. q = Invalid \/ (Fits(o, n, 64) /\ q.address = Rest(o, n)
                        /\ DOMAIN q \cap Arrays(element) \subseteq {"address"})
    BY <1>12 DEF ParseCallingPartyNumber, Arrays
  <2>3. ArraySize(element, "address") = 64
    BY <1>12 DEF ArraySize
  <2>4. n \in 2 .. 5 /\ (64 = 64 \/ 64 = 256)
    OBVIOUS
  <2> HIDE DEF p, q, n
  <2>5. CASE q = Invalid
    BY Zenon, <2>1, <2>5, InvalidWithin DEF p
  <2>6. CASE q # Invalid
    <3>1. Len(q.address) <= 64
      BY <2>2, <2>4, <2>6, FitsOK
    <3>2. Len(q["address"]) <= ArraySize(element, "address")
      BY <2>3, <3>1
    <3> QED BY Zenon, <2>1, <2>2, <2>6, <3>2, OneWithin DEF p
  <2> QED BY Zenon, <2>5, <2>6
<1>13. CASE element = "INFO_TYPE"
  <2> DEFINE q == ParseInfoType(o)
  <2>1. p = q
    BY <1>13 DEF ParseElement
  <2>2. Len(q.type) <= 8 /\ DOMAIN q = {"type"}
    BY InfoTypeWithin
  <2>3. ArraySize(element, "type") = 8
    BY DEF ArraySize
  <2> HIDE DEF p, q
  <2>4. Len(q["type"]) <= ArraySize(element, "type") /\ DOMAIN q \cap Arrays(element) \subseteq {"type"}
    BY <2>2, <2>3
  <2> QED BY Zenon, <2>1, <2>4, OneWithin DEF p
<1>14. CASE element = "CODEC_LIST"
  <2> DEFINE q == ParseCodecList(o)
  <2>1. p = q
    BY <1>14 DEF ParseElement
  <2>2. Len(q.entry) <= 8 /\ DOMAIN q = {"negotiation", "entry"}
    BY CodecListWithin
  <2>3. ArraySize(element, "entry") = 8 /\ {"negotiation", "entry"} \cap Arrays(element) \subseteq {"entry"}
    BY <1>14 DEF ArraySize, Arrays
  <2> HIDE DEF p, q
  <2>4. Len(q["entry"]) <= ArraySize(element, "entry") /\ DOMAIN q \cap Arrays(element) \subseteq {"entry"}
    BY <2>2, <2>3
  <2> QED BY Zenon, <2>1, <2>4, OneWithin DEF p
<1> QED BY Zenon, <1>1, <1>2, <1>3, <1>4, <1>5, <1>6, <1>7, <1>8, <1>9, <1>10, <1>11, <1>12, <1>13, <1>14, Parsers DEF WithArray

-----------------------------------------------------------------------------
(* The check digit of a printed equipment identity *)

\* The values of the first digits of seven
LEMMA SevenDigits ==
    ASSUME NEW base \in Nat, NEW d, Len(d) = 7, \A i \in 1 .. 7 : d[i] \in Nat
    PROVE  \E v1, v2, v3, v4, v5, v6 \in Nat :
              /\ v1 = d[1]
              /\ v2 = base * v1 + d[2]
              /\ v3 = base * v2 + d[3]
              /\ v4 = base * v3 + d[4]
              /\ v5 = base * v4 + d[5]
              /\ v6 = base * v5 + d[6]
              /\ Positional(base, d) = base * v6 + d[7]
<1>1. Len(d) \in Nat
  OBVIOUS
<1>2. PICK f : Value0(base, d, f) /\ Positional(base, d) = f[Len(d)]
  BY <1>1, PositionalOK
<1>3. f[0] = 0 /\ \A k \in 1 .. 7 : f[k] = base * f[k - 1] + d[k]
  BY <1>2 DEF Value0
<1>4. /\ f[1] = base * f[0] + d[1]
      /\ f[2] = base * f[1] + d[2]
      /\ f[3] = base * f[2] + d[3]
      /\ f[4] = base * f[3] + d[4]
      /\ f[5] = base * f[4] + d[5]
      /\ f[6] = base * f[5] + d[6]
      /\ f[7] = base * f[6] + d[7]
  <2>1. /\ 1 - 1 = 0 /\ 1 \in 1 .. 7
        /\ 2 - 1 = 1 /\ 2 \in 1 .. 7
        /\ 3 - 1 = 2 /\ 3 \in 1 .. 7
        /\ 4 - 1 = 3 /\ 4 \in 1 .. 7
        /\ 5 - 1 = 4 /\ 5 \in 1 .. 7
        /\ 6 - 1 = 5 /\ 6 \in 1 .. 7
        /\ 7 - 1 = 6 /\ 7 \in 1 .. 7
    OBVIOUS
  <2> QED BY Zenon, <1>3, <2>1
<1>5. /\ d[1] \in Nat
      /\ d[2] \in Nat
      /\ d[3] \in Nat
      /\ d[4] \in Nat
      /\ d[5] \in Nat
      /\ d[6] \in Nat
      /\ d[7] \in Nat
  OBVIOUS
<1>6. base * f[0] = 0
  BY <1>3
<1>7. f[1] = d[1] /\ f[1] \in Nat
  BY <1>4, <1>5, <1>6
<1>8. ASSUME NEW x \in Nat, NEW y \in Nat
      PROVE  base * x + y \in Nat
  OBVIOUS
<1>9. f[2] \in Nat
  BY Zenon, <1>4, <1>5, <1>7, <1>8
<1>10. f[3] \in Nat
  BY Zenon, <1>4, <1>5, <1>9, <1>8
<1>11. f[4] \in Nat
  BY Zenon, <1>4, <1>5, <1>10, <1>8
<1>12. f[5] \in Nat
  BY Zenon, <1>4, <1>5, <1>11, <1>8
<1>13. f[6] \in Nat
  BY Zenon, <1>4, <1>5, <1>12, <1>8
<1> QED
  BY ZenonT(40), <1>2, <1>4, <1>7, <1>9, <1>10, <1>11, <1>12, <1>13

\* The digits of a printed identity, weighted by their places
Weighed(a, b, c, d, e, f, g, h, i, j, k, l) ==
    a + 2 * b + 3 * c + 4 * d + 5 * e + 6 * f + 7 * g + 8 * h + 9 * i + 10 * j + 11 * k + 12 * l
Weight(g) ==
    Weighed(g[1], g[2], g[3], g[4], g[5], g[6], g[7], g[8], g[9], g[10], g[11], g[12])

\* The check digit is the weighted sum of the digits, modulo eleven.
LEMMA CheckDigitIs ==
    ASSUME NEW g, \A i \in 1 .. 12 : g[i] \in Nat
    PROVE  CheckDigit(g) = Weight(g) % 11 /\ Weight(g) \in Nat
<1> DEFINE d == [i \in 1 .. 12 |-> i * g[i]]
<1>1. Len(d) = 12 /\ Len(d) \in Nat
  OBVIOUS
<1>2. /\ d[1] = 1 * g[1]
      /\ d[2] = 2 * g[2]
      /\ d[3] = 3 * g[3]
      /\ d[4] = 4 * g[4]
      /\ d[5] = 5 * g[5]
      /\ d[6] = 6 * g[6]
      /\ d[7] = 7 * g[7]
      /\ d[8] = 8 * g[8]
      /\ d[9] = 9 * g[9]
      /\ d[10] = 10 * g[10]
      /\ d[11] = 11 * g[11]
      /\ d[12] = 12 * g[12]
  OBVIOUS
<1>3. CheckDigit(g) = Positional(1, d) % 11
  BY Zenon DEF CheckDigit, Total
<1>0. /\ g[1] \in Nat
      /\ g[2] \in Nat
      /\ g[3] \in Nat
      /\ g[4] \in Nat
      /\ g[5] \in Nat
      /\ g[6] \in Nat
      /\ g[7] \in Nat
      /\ g[8] \in Nat
      /\ g[9] \in Nat
      /\ g[10] \in Nat
      /\ g[11] \in Nat
      /\ g[12] \in Nat
  OBVIOUS
<1> HIDE DEF d
<1>4. PICK f : Value0(1, d, f) /\ Positional(1, d) = f[Len(d)]
  BY <1>1, PositionalOK
<1>5. f[0] = 0 /\ \A k \in 1 .. 12 : f[k] = 1 * f[k - 1] + d[k]
  BY <1>1, <1>4 DEF Value0
<1>6. f[1] = f[0] + 1 * g[1] /\ f[1] \in Nat
  <2>1. 1 - 1 = 0 /\ 1 \in 1 .. 12
    OBVIOUS
  <2>2. f[1] = 1 * f[0] + d[1]
    BY Zenon, <1>5, <2>1
  <2> QED BY SMT, <1>0, <1>2, <2>2, <1>5
<1>7. f[2] = f[1] + 2 * g[2] /\ f[2] \in Nat
  <2>1. 2 - 1 = 1 /\ 2 \in 1 .. 12
    OBVIOUS
  <2>2. f[2] = 1 * f[1] + d[2]
    BY Zenon, <1>5, <2>1
  <2> QED BY SMT, <1>0, <1>2, <2>2, <1>6
<1>8. f[3] = f[2] + 3 * g[3] /\ f[3] \in Nat
  <2>1. 3 - 1 = 2 /\ 3 \in 1 .. 12
    OBVIOUS
  <2>2. f[3] = 1 * f[2] + d[3]
    BY Zenon, <1>5, <2>1
  <2> QED BY SMT, <1>0, <1>2, <2>2, <1>7
<1>9. f[4] = f[3] + 4 * g[4] /\ f[4] \in Nat
  <2>1. 4 - 1 = 3 /\ 4 \in 1 .. 12
    OBVIOUS
  <2>2. f[4] = 1 * f[3] + d[4]
    BY Zenon, <1>5, <2>1
  <2> QED BY SMT, <1>0, <1>2, <2>2, <1>8
<1>10. f[5] = f[4] + 5 * g[5] /\ f[5] \in Nat
  <2>1. 5 - 1 = 4 /\ 5 \in 1 .. 12
    OBVIOUS
  <2>2. f[5] = 1 * f[4] + d[5]
    BY Zenon, <1>5, <2>1
  <2> QED BY SMT, <1>0, <1>2, <2>2, <1>9
<1>11. f[6] = f[5] + 6 * g[6] /\ f[6] \in Nat
  <2>1. 6 - 1 = 5 /\ 6 \in 1 .. 12
    OBVIOUS
  <2>2. f[6] = 1 * f[5] + d[6]
    BY Zenon, <1>5, <2>1
  <2> QED BY SMT, <1>0, <1>2, <2>2, <1>10
<1>12. f[7] = f[6] + 7 * g[7] /\ f[7] \in Nat
  <2>1. 7 - 1 = 6 /\ 7 \in 1 .. 12
    OBVIOUS
  <2>2. f[7] = 1 * f[6] + d[7]
    BY Zenon, <1>5, <2>1
  <2> QED BY SMT, <1>0, <1>2, <2>2, <1>11
<1>13. f[8] = f[7] + 8 * g[8] /\ f[8] \in Nat
  <2>1. 8 - 1 = 7 /\ 8 \in 1 .. 12
    OBVIOUS
  <2>2. f[8] = 1 * f[7] + d[8]
    BY Zenon, <1>5, <2>1
  <2> QED BY SMT, <1>0, <1>2, <2>2, <1>12
<1>14. f[9] = f[8] + 9 * g[9] /\ f[9] \in Nat
  <2>1. 9 - 1 = 8 /\ 9 \in 1 .. 12
    OBVIOUS
  <2>2. f[9] = 1 * f[8] + d[9]
    BY Zenon, <1>5, <2>1
  <2> QED BY SMT, <1>0, <1>2, <2>2, <1>13
<1>15. f[10] = f[9] + 10 * g[10] /\ f[10] \in Nat
  <2>1. 10 - 1 = 9 /\ 10 \in 1 .. 12
    OBVIOUS
  <2>2. f[10] = 1 * f[9] + d[10]
    BY Zenon, <1>5, <2>1
  <2> QED BY SMT, <1>0, <1>2, <2>2, <1>14
<1>16. f[11] = f[10] + 11 * g[11] /\ f[11] \in Nat
  <2>1. 11 - 1 = 10 /\ 11 \in 1 .. 12
    OBVIOUS
  <2>2. f[11] = 1 * f[10] + d[11]
    BY Zenon, <1>5, <2>1
  <2> QED BY SMT, <1>0, <1>2, <2>2, <1>15
<1>17. f[12] = f[11] + 12 * g[12] /\ f[12] \in Nat
  <2>1. 12 - 1 = 11 /\ 12 \in 1 .. 12
    OBVIOUS
  <2>2. f[12] = 1 * f[11] + d[12]
    BY Zenon, <1>5, <2>1
  <2> QED BY SMT, <1>0, <1>2, <2>2, <1>16
<1>18. f[12] = Weight(g)
  BY SMT, <1>0, <1>5, <1>6, <1>7, <1>8, <1>9, <1>10, <1>11, <1>12, <1>13, <1>14, <1>15, <1>16, <1>17 DEF Weight, Weighed
<1> QED BY Zenon, <1>1, <1>3, <1>4, <1>17, <1>18

\* Dividing by ten again and again
LEMMA Tens ==
    ASSUME NEW n \in Nat
    PROVE  /\ n \div 10 \in Nat /\ (n \div 10) \div 10 = n \div 100
           /\ (n \div 100) \div 10 = n \div 1000 /\ (n \div 1000) \div 10 = n \div 10000
           /\ (n \div 10000) \div 10 = n \div 100000 /\ (n \div 100000) \div 10 = n \div 1000000
           /\ 10 * (n \div 10) + (n % 10) = n
<1>1. n \div 10 \in Nat /\ 10 * (n \div 10) + (n % 10) = n
  BY SMT
<1>2. (n \div 10) \div 10 = n \div 100
  BY SMT
<1>3. (n \div 100) \div 10 = n \div 1000
  BY SMT
<1>4. (n \div 1000) \div 10 = n \div 10000
  BY SMT
<1>5. (n \div 10000) \div 10 = n \div 100000
  BY SMT
<1>6. (n \div 100000) \div 10 = n \div 1000000
  BY SMT
<1> QED BY SMT, <1>1, <1>2, <1>3, <1>4, <1>5, <1>6

-----------------------------------------------------------------------------
(* Decimal digits *)

\* The places of decimal digits
LEMMA PowersOfTen ==
    /\ 10 ^ 0 = 1 /\ 10 ^ 1 = 10 /\ 10 ^ 2 = 100 /\ 10 ^ 3 = 1000
    /\ 10 ^ 4 = 10000 /\ 10 ^ 5 = 100000 /\ 10 ^ 6 = 1000000
<1>1. 10 ^ 0 = 1
  BY SMT
<1>2. 10 ^ 1 = 10
  BY SMT
<1>3. 10 ^ 2 = 100
  BY SMT
<1>4. 10 ^ 3 = 1000
  BY SMT
<1>5. 10 ^ 4 = 10000
  BY SMT
<1>6. 10 ^ 5 = 100000
  BY SMT
<1>7. 10 ^ 6 = 1000000
  BY SMT
<1> QED BY SMT, <1>1, <1>2, <1>3, <1>4, <1>5, <1>6, <1>7

\* The decimal digits of a number stand for it.
LEMMA FiveStandFor ==
    ASSUME NEW n \in Nat, NEW d, Len(d) = 5, \A i \in 1 .. 5 : d[i] \in Nat
    PROVE  /\ n < 100000
           /\ d[1] = (n \div 10000) % 10 /\ d[2] = (n \div 1000) % 10
           /\ d[3] = (n \div 100) % 10 /\ d[4] = (n \div 10) % 10 /\ d[5] = n % 10
           => Decimal(d) = n
<1>0. 10 \in Nat
  OBVIOUS
<1>1. PICK v1, v2, v3, v4 \in Nat :
         /\ v1 = d[1] /\ v2 = 10 * v1 + d[2] /\ v3 = 10 * v2 + d[3]
         /\ v4 = 10 * v3 + d[4] /\ Positional(10, d) = 10 * v4 + d[5]
  BY Zenon, <1>0, FiveDigits
<1>2. HAVE
         /\ n < 100000
         /\ d[1] = (n \div 10000) % 10 /\ d[2] = (n \div 1000) % 10
         /\ d[3] = (n \div 100) % 10 /\ d[4] = (n \div 10) % 10 /\ d[5] = n % 10
<1>3. v1 = n \div 10000
  BY SMT, <1>1, <1>2
<1>4. v2 = n \div 1000
  BY SMT, <1>1, <1>2, <1>3
<1>5. v3 = n \div 100
  BY SMT, <1>1, <1>2, <1>4
<1>6. v4 = n \div 10
  BY SMT, <1>1, <1>2, <1>5
<1> QED BY SMT, <1>1, <1>2, <1>6 DEF Decimal

\* Seven decimal digits stand for the number.
LEMMA SevenStandFor ==
    ASSUME NEW n \in Nat, NEW d, Len(d) = 7, \A i \in 1 .. 7 : d[i] \in Nat
    PROVE
         /\ n < 10000000
         /\ d[1] = (n \div 1000000) % 10 /\ d[2] = (n \div 100000) % 10
         /\ d[3] = (n \div 10000) % 10 /\ d[4] = (n \div 1000) % 10
         /\ d[5] = (n \div 100) % 10 /\ d[6] = (n \div 10) % 10 /\ d[7] = n % 10
         => Decimal(d) = n
<1>0. 10 \in Nat
  OBVIOUS
<1>1. PICK v1, v2, v3, v4, v5, v6 \in Nat :
         /\ v1 = d[1]
         /\ v2 = 10 * v1 + d[2]
         /\ v3 = 10 * v2 + d[3]
         /\ v4 = 10 * v3 + d[4]
         /\ v5 = 10 * v4 + d[5]
         /\ v6 = 10 * v5 + d[6]
         /\ Positional(10, d) = 10 * v6 + d[7]
  BY Zenon, <1>0, SevenDigits
<1>2. HAVE
         /\ n < 10000000
         /\ d[1] = (n \div 1000000) % 10 /\ d[2] = (n \div 100000) % 10
         /\ d[3] = (n \div 10000) % 10 /\ d[4] = (n \div 1000) % 10
         /\ d[5] = (n \div 100) % 10 /\ d[6] = (n \div 10) % 10 /\ d[7] = n % 10
<1>3. v1 = n \div 1000000
  BY SMT, <1>1, <1>2
<1>4. v2 = n \div 100000
  BY SMT, <1>1, <1>2, <1>3
<1>5. v3 = n \div 10000
  BY SMT, <1>1, <1>2, <1>4
<1>6. v4 = n \div 1000
  BY SMT, <1>1, <1>2, <1>5
<1>7. v5 = n \div 100
  BY SMT, <1>1, <1>2, <1>6
<1>8. v6 = n \div 10
  BY SMT, <1>1, <1>2, <1>7
<1> QED BY SMT, <1>1, <1>2, <1>8 DEF Decimal

\* A printed identity: twelve digits and the check digit
Printed(string, e) ==
    /\ string \in Seq(Nat) /\ Len(string) = 13
    /\ string[1] = (e.emc \div 10000) % 10
    /\ string[2] = (e.emc \div 1000) % 10
    /\ string[3] = (e.emc \div 100) % 10
    /\ string[4] = (e.emc \div 10) % 10
    /\ string[5] = e.emc % 10
    /\ string[6] = (e.psn \div 1000000) % 10
    /\ string[7] = (e.psn \div 100000) % 10
    /\ string[8] = (e.psn \div 10000) % 10
    /\ string[9] = (e.psn \div 1000) % 10
    /\ string[10] = (e.psn \div 100) % 10
    /\ string[11] = (e.psn \div 10) % 10
    /\ string[12] = e.psn % 10
    /\ string[13] = Weight(string) % 11

\* The fields of an equipment identity, in numbers
LEMMA IpeiIs ==
    ASSUME NEW e \in Ipei
    PROVE  /\ e = [emc |-> e.emc, psn |-> e.psn]
           /\ e.emc \in Nat /\ e.emc < 65536 /\ e.psn \in Nat /\ e.psn < 1048576
<1>1. 2 ^ 20 = 1048576
  BY SMT
<1>2. e.emc \in Word /\ e.psn \in 0 .. (2 ^ PsnWidth - 1)
  BY SMT DEF Ipei
<1>3. e.emc \in Nat /\ e.emc < 65536
  BY SMT, <1>2, WordIs
<1>4. e.psn \in Nat /\ e.psn < 1048576
  BY SMT, <1>1, <1>2 DEF PsnWidth
<1>5. e = [emc |-> e.emc, psn |-> e.psn]
  BY SMT DEF Ipei
<1> QED BY SMT, <1>3, <1>4, <1>5

\* Appending a digit
LEMMA Appended ==
    ASSUME NEW S, NEW q \in Seq(S), NEW x \in S
    PROVE  /\ Append(q, x) \in Seq(S) /\ Len(Append(q, x)) = Len(q) + 1
           /\ Append(q, x)[Len(q) + 1] = x
  OBVIOUS

LEMMA AppendedAt ==
    ASSUME NEW S, NEW q \in Seq(S), NEW x \in S
    PROVE  \A i \in 1 .. Len(q) : Append(q, x)[i] = q[i]
  OBVIOUS

\* What is printed is five digits, seven digits and the check digit.
LEMMA FormatPrints ==
    ASSUME NEW e \in Ipei
    PROVE  Printed(FormatIpei(e), e)
<1> DEFINE a == Digits(e.emc, 5)
           b == Digits(e.psn, 7)
           g == a \o b
           c == CheckDigit(g)
           s == Append(g, c)
<1>1. e.emc \in Nat /\ e.psn \in Nat
  BY SMT, IpeiIs
<1>2. /\ Len(a) = 5
      /\ a[1] = (e.emc \div 10 ^ 4) % 10 /\ a[2] = (e.emc \div 10 ^ 3) % 10
      /\ a[3] = (e.emc \div 10 ^ 2) % 10 /\ a[4] = (e.emc \div 10 ^ 1) % 10
      /\ a[5] = (e.emc \div 10 ^ 0) % 10
  BY SMT DEF Digits
<1>3. /\ Len(b) = 7
      /\ b[1] = (e.psn \div 10 ^ 6) % 10 /\ b[2] = (e.psn \div 10 ^ 5) % 10
      /\ b[3] = (e.psn \div 10 ^ 4) % 10 /\ b[4] = (e.psn \div 10 ^ 3) % 10
      /\ b[5] = (e.psn \div 10 ^ 2) % 10 /\ b[6] = (e.psn \div 10 ^ 1) % 10
      /\ b[7] = (e.psn \div 10 ^ 0) % 10
  BY SMT DEF Digits
<1>4. a \in Seq(Nat) /\ b \in Seq(Nat)
  <2>1. /\ a[1] \in Nat /\ a[2] \in Nat /\ a[3] \in Nat /\ a[4] \in Nat /\ a[5] \in Nat
    BY SMT, <1>1, <1>2, PowersOfTen
  <2>2. /\ b[1] \in Nat /\ b[2] \in Nat /\ b[3] \in Nat /\ b[4] \in Nat /\ b[5] \in Nat
        /\ b[6] \in Nat /\ b[7] \in Nat
    BY SMT, <1>1, <1>3, PowersOfTen
  <2>3. a = [i \in 1 .. 5 |-> a[i]] /\ b = [i \in 1 .. 7 |-> b[i]]
    BY SMT DEF Digits
  <2> HIDE DEF a, b
  <2>4. \A i \in 1 .. 5 : a[i] \in Nat
    BY <2>1
  <2>5. \A i \in 1 .. 7 : b[i] \in Nat
    BY <2>2
  <2>6. a \in [1 .. 5 -> Nat] /\ b \in [1 .. 7 -> Nat]
    BY Zenon, <2>3, <2>4, <2>5
  <2> QED BY <2>6, ArrayIsSeq
<1>5. FormatIpei(e) = s
  BY Zenon DEF FormatIpei
<1> HIDE DEF a, b
<1>6. g \in Seq(Nat) /\ Len(g) = 12
  <2>1. g \in Seq(Nat) /\ Len(g) = Len(a) + Len(b)
    BY Zenon, <1>4, Joined
  <2> QED BY <2>1, <1>2, <1>3
<1>7. /\ g[1] = a[1] /\ g[2] = a[2] /\ g[3] = a[3] /\ g[4] = a[4] /\ g[5] = a[5]
      /\ g[6] = b[1] /\ g[7] = b[2] /\ g[8] = b[3] /\ g[9] = b[4] /\ g[10] = b[5]
      /\ g[11] = b[6] /\ g[12] = b[7]
  <2>1. /\ \A i \in 1 .. Len(a) : g[i] = a[i]
        /\ \A i \in 1 .. Len(b) : g[Len(a) + i] = b[i]
    BY <1>4, Joined
  <2> HIDE DEF g
  <2>2. /\ \A i \in 1 .. 5 : g[i] = a[i]
        /\ \A i \in 1 .. 7 : g[5 + i] = b[i]
    BY Zenon, <1>2, <1>3, <2>1
  <2> QED BY <2>2
<1> HIDE DEF g
<1>8. \A i \in 1 .. 12 : g[i] \in Nat
  <2>1. \A i \in 1 .. Len(g) : g[i] \in Nat
    BY Zenon, <1>6, ElementOfSeq
  <2> QED BY Zenon, <1>6, <2>1
<1>9. c = Weight(g) % 11 /\ c \in Nat
  <2>1. c = Weight(g) % 11 /\ Weight(g) \in Nat
    BY Zenon, <1>8, CheckDigitIs
  <2> QED BY SMT, <2>1
<1> HIDE DEF c
<1>10. s \in Seq(Nat) /\ Len(s) = 13 /\ s[13] = c
  <2>0. g \in Seq(Nat) /\ c \in Nat
    BY Zenon, <1>6, <1>9
  <2>1. /\ s \in Seq(Nat) /\ Len(s) = Len(g) + 1 /\ s[Len(g) + 1] = c
    BY Zenon, <2>0, Appended
  <2> HIDE DEF s
  <2>2. 12 + 1 = 13
    OBVIOUS
  <2> QED BY Zenon, <1>6, <2>1, <2>2
<1>11. /\ s[1] = g[1] /\ s[2] = g[2] /\ s[3] = g[3] /\ s[4] = g[4] /\ s[5] = g[5]
       /\ s[6] = g[6] /\ s[7] = g[7] /\ s[8] = g[8] /\ s[9] = g[9] /\ s[10] = g[10]
       /\ s[11] = g[11] /\ s[12] = g[12]
  <2>0. g \in Seq(Nat) /\ c \in Nat
    BY Zenon, <1>6, <1>9
  <2>1. \A i \in 1 .. Len(g) : s[i] = g[i]
    BY Zenon, <2>0, AppendedAt
  <2> HIDE DEF s
  <2>2. \A i \in 1 .. 12 : s[i] = g[i]
    BY Zenon, <1>6, <2>1
  <2> QED BY <2>2
<1> HIDE DEF s
<1>12. Weight(s) = Weight(g)
  BY Zenon, <1>11 DEF Weight
<1>13. /\ s[1] = (e.emc \div 10000) % 10 /\ s[2] = (e.emc \div 1000) % 10
       /\ s[3] = (e.emc \div 100) % 10 /\ s[4] = (e.emc \div 10) % 10
  BY SMT, <1>2, <1>7, <1>11, PowersOfTen
<1>14. /\ s[6] = (e.psn \div 1000000) % 10 /\ s[7] = (e.psn \div 100000) % 10
       /\ s[8] = (e.psn \div 10000) % 10 /\ s[9] = (e.psn \div 1000) % 10
       /\ s[10] = (e.psn \div 100) % 10 /\ s[11] = (e.psn \div 10) % 10
  BY SMT, <1>3, <1>7, <1>11, PowersOfTen
<1>15. s[5] = e.emc % 10
  BY SMT, <1>1, <1>2, <1>7, <1>11, PowersOfTen
<1>16. s[12] = e.psn % 10
  BY SMT, <1>1, <1>3, <1>7, <1>11, PowersOfTen
<1>17. s[13] = Weight(s) % 11
  BY Zenon, <1>9, <1>10, <1>12
<1> QED BY SMT, <1>5, <1>10, <1>13, <1>14, <1>15, <1>16, <1>17 DEF Printed

-----------------------------------------------------------------------------
(* What is printed is read *)

\* A string of thirteen numbers is refused if, and only if, the check digit is wrong.
LEMMA DecimalNat ==
    ASSUME NEW d, \A i \in 1 .. Len(d) : d[i] \in Nat, Len(d) \in {5, 7}
    PROVE  Decimal(d) \in Nat
<1>0. 10 \in Nat
  OBVIOUS
<1>1. CASE Len(d) = 5
  <2>1. \A i \in 1 .. 5 : d[i] \in Nat
    BY <1>1
  <2>2. PICK v1, v2, v3, v4 \in Nat :
         /\ v1 = d[1] /\ v2 = 10 * v1 + d[2] /\ v3 = 10 * v2 + d[3]
         /\ v4 = 10 * v3 + d[4] /\ Positional(10, d) = 10 * v4 + d[5]
    BY Zenon, <1>0, <1>1, <2>1, FiveDigits
  <2>3. d[5] \in Nat
    BY <2>1
  <2>4. 10 * v4 + d[5] \in Nat
    BY SMT, <2>3
  <2>5. Decimal(d) = 10 * v4 + d[5]
    BY Zenon, <2>2 DEF Decimal
  <2> QED BY Zenon, <2>4, <2>5
<1>2. CASE Len(d) = 7
  <2>1. \A i \in 1 .. 7 : d[i] \in Nat
    BY <1>2
  <2>2. PICK v1, v2, v3, v4, v5, v6 \in Nat :
         /\ v1 = d[1]
         /\ v2 = 10 * v1 + d[2]
         /\ v3 = 10 * v2 + d[3]
         /\ v4 = 10 * v3 + d[4]
         /\ v5 = 10 * v4 + d[5]
         /\ v6 = 10 * v5 + d[6]
         /\ Positional(10, d) = 10 * v6 + d[7]
    BY Zenon, <1>0, <1>2, <2>1, SevenDigits
  <2>3. d[7] \in Nat
    BY <2>1
  <2>4. 10 * v6 + d[7] \in Nat
    BY SMT, <2>3
  <2>5. Decimal(d) = 10 * v6 + d[7]
    BY Zenon, <2>2 DEF Decimal
  <2> QED BY Zenon, <2>4, <2>5
<1> QED BY <1>1, <1>2

\* The parts of a printed identity
LEMMA PartsOf ==
    ASSUME NEW s \in Seq(Nat), Len(s) = 13
    PROVE  LET a == SubSeq(s, 1, 5)
               b == SubSeq(s, 6, 12)
           IN  /\ Len(a) = 5 /\ \A i \in 1 .. 5 : a[i] = s[i] /\ a[i] \in Nat
               /\ Len(b) = 7 /\ \A i \in 1 .. 7 : b[i] = s[5 + i] /\ b[i] \in Nat
<1> DEFINE a == SubSeq(s, 1, 5)
           b == SubSeq(s, 6, 12)
<1>0. \A i \in 1 .. 13 : s[i] \in Nat
  BY Zenon, ElementOfSeq
<1>1. Len(a) = 5 /\ \A i \in 1 .. 5 : a[i] = s[i] /\ a[i] \in Nat
  <2>1. /\ 1 \in 1 .. 13 + 1 /\ 5 \in 1 - 1 .. 13 /\ 5 - 1 + 1 = 5 /\ 1 <= 5
    OBVIOUS
  <2>2. Len(a) = 5
    BY <2>1, SubSeqProperties
  <2>3. \A i \in 1 .. 5 : a[i] = s[1 + i - 1]
    BY <2>1, SubSeqProperties
  <2>4. \A i \in 1 .. 5 : 1 + i - 1 = i /\ i \in 1 .. 13
    OBVIOUS
  <2> HIDE DEF a
  <2> QED BY Zenon, <1>0, <2>2, <2>3, <2>4
<1>2. Len(b) = 7 /\ \A i \in 1 .. 7 : b[i] = s[5 + i] /\ b[i] \in Nat
  <2>1. /\ 6 \in 1 .. 13 + 1 /\ 12 \in 6 - 1 .. 13 /\ 12 - 6 + 1 = 7 /\ 6 <= 12
    OBVIOUS
  <2>2. Len(b) = 7
    BY <2>1, SubSeqProperties
  <2>3. \A i \in 1 .. 7 : b[i] = s[6 + i - 1]
    BY <2>1, SubSeqProperties
  <2>4. \A i \in 1 .. 7 : 6 + i - 1 = 5 + i /\ 5 + i \in 1 .. 13
    OBVIOUS
  <2> HIDE DEF b
  <2> QED BY Zenon, <1>0, <2>2, <2>3, <2>4
<1> QED BY Zenon, <1>1, <1>2

\* A printed identity is refused if the check digit is wrong.
LEMMA ReadIs ==
    ASSUME NEW s \in Seq(Nat), Len(s) = 13
    PROVE  /\ Weight(s) \in Nat
           /\ Weight(s) % 11 = s[13] =>
                 ParseIpeiString(s) = [emc |-> Decimal(SubSeq(s, 1, 5)) % 65536,
                                       psn |-> Decimal(SubSeq(s, 6, 12))]
           /\ ParseIpeiString(s) = NotAnIpei <=> Weight(s) % 11 # s[13]
<1>1. \A i \in 1 .. 12 : s[i] \in Nat
  <2>1. \A i \in 1 .. 13 : s[i] \in Nat
    BY Zenon, ElementOfSeq
  <2>2. \A i \in 1 .. 12 : i \in 1 .. 13
    OBVIOUS
  <2> QED BY Zenon, <2>1, <2>2
<1>2. CheckDigit(s) = Weight(s) % 11 /\ Weight(s) \in Nat
  BY Zenon, <1>1, CheckDigitIs
<1> DEFINE a == SubSeq(s, 1, 5)
           b == SubSeq(s, 6, 12)
<1>3. Decimal(a) \in Nat /\ Decimal(b) \in Nat
  <2>1. /\ Len(a) = 5 /\ \A i \in 1 .. 5 : a[i] = s[i] /\ a[i] \in Nat
        /\ Len(b) = 7 /\ \A i \in 1 .. 7 : b[i] = s[5 + i] /\ b[i] \in Nat
    BY Zenon, PartsOf
  <2> HIDE DEF a, b
  <2>2. Len(a) \in {5, 7} /\ \A i \in 1 .. Len(a) : a[i] \in Nat
    BY Zenon, <2>1
  <2>3. Len(b) \in {5, 7} /\ \A i \in 1 .. Len(b) : b[i] \in Nat
    BY Zenon, <2>1
  <2> QED BY Zenon, <2>2, <2>3, DecimalNat
<1> DEFINE p == ParseIpeiString(s)
<1>4. p = IF Len(s) = 13 /\ CheckDigit(s) = s[13]
          THEN [emc |-> Decimal(a) % 65536, psn |-> Decimal(b)] ELSE NotAnIpei
  BY SMT DEF ParseIpeiString
<1> HIDE DEF p, a, b
<1>5. Weight(s) % 11 = s[13] => p = [emc |-> Decimal(a) % 65536, psn |-> Decimal(b)]
  BY SMT, <1>2, <1>4
<1>6. Weight(s) % 11 # s[13] => p = NotAnIpei
  BY SMT, <1>2, <1>4
<1>7. Weight(s) % 11 = s[13] => p # NotAnIpei
  <2>1. Decimal(b) # -1
    BY SMT, <1>3
  <2> QED BY SMT, <1>5, <2>1 DEF NotAnIpei
<1>8. Weight(s) % 11 = s[13]
        => p = [emc |-> Decimal(SubSeq(s, 1, 5)) % 65536, psn |-> Decimal(SubSeq(s, 6, 12))]
  BY SMT, <1>5 DEF a, b
<1>9. Weight(s) \in Nat
  BY Zenon, <1>2
<1>10. p = NotAnIpei <=> Weight(s) % 11 # s[13]
  BY Zenon, <1>6, <1>7
<1> HIDE DEF p
<1> QED BY SMT, <1>8, <1>9, <1>10 DEF p

\* What is printed is read.
LEMMA PrintedRead ==
    ASSUME NEW e \in Ipei, NEW s, Printed(s, e)
    PROVE  ParseIpeiString(s) = e
<1>1. s \in Seq(Nat) /\ Len(s) = 13 /\ Weight(s) % 11 = s[13]
  BY SMT DEF Printed
<1> DEFINE a == SubSeq(s, 1, 5)
           b == SubSeq(s, 6, 12)
<1>2. ParseIpeiString(s) = [emc |-> Decimal(a) % 65536, psn |-> Decimal(b)]
  BY SMT, <1>1, ReadIs
<1>3. /\ Len(a) = 5 /\ \A i \in 1 .. 5 : a[i] = s[i] /\ a[i] \in Nat
      /\ Len(b) = 7 /\ \A i \in 1 .. 7 : b[i] = s[5 + i] /\ b[i] \in Nat
  BY Zenon, <1>1, PartsOf
<1> HIDE DEF a, b
<1>4. /\ e.emc \in Nat /\ e.emc < 65536 /\ e.psn \in Nat /\ e.psn < 1048576
  BY SMT, IpeiIs
<1>5. /\ a[1] = s[1] /\ a[2] = s[2] /\ a[3] = s[3] /\ a[4] = s[4] /\ a[5] = s[5]
      /\ b[1] = s[6] /\ b[2] = s[7] /\ b[3] = s[8] /\ b[4] = s[9] /\ b[5] = s[10]
      /\ b[6] = s[11] /\ b[7] = s[12]
  <2>1. /\ 5 + 1 = 6 /\ 5 + 2 = 7 /\ 5 + 3 = 8 /\ 5 + 4 = 9 /\ 5 + 5 = 10 /\ 5 + 6 = 11
        /\ 5 + 7 = 12
    OBVIOUS
  <2>2. /\ b[1] = s[5 + 1] /\ b[2] = s[5 + 2] /\ b[3] = s[5 + 3] /\ b[4] = s[5 + 4]
        /\ b[5] = s[5 + 5] /\ b[6] = s[5 + 6] /\ b[7] = s[5 + 7]
    BY <1>3
  <2>3. /\ a[1] = s[1] /\ a[2] = s[2] /\ a[3] = s[3] /\ a[4] = s[4] /\ a[5] = s[5]
    BY <1>3
  <2> QED BY Zenon, <2>1, <2>2, <2>3
<1>6. Decimal(a) = e.emc
  <2>1. /\ e.emc < 100000
        /\ a[1] = (e.emc \div 10000) % 10 /\ a[2] = (e.emc \div 1000) % 10
        /\ a[3] = (e.emc \div 100) % 10 /\ a[4] = (e.emc \div 10) % 10 /\ a[5] = e.emc % 10
    <3>1. e.emc < 100000
      BY SMT, <1>4
    <3>2. /\ a[1] = (e.emc \div 10000) % 10 /\ a[2] = (e.emc \div 1000) % 10
          /\ a[3] = (e.emc \div 100) % 10
      BY SMT, <1>5 DEF Printed
    <3>3. /\ a[4] = (e.emc \div 10) % 10 /\ a[5] = e.emc % 10
      BY SMT, <1>5 DEF Printed
    <3> QED BY SMT, <3>1, <3>2, <3>3
  <2>2. \A i \in 1 .. 5 : a[i] \in Nat
    BY <1>3
  <2> QED BY SMT, <1>3, <1>4, <2>1, <2>2, FiveStandFor
<1>7. Decimal(b) = e.psn
  <2>1. /\ e.psn < 10000000
        /\ b[1] = (e.psn \div 1000000) % 10 /\ b[2] = (e.psn \div 100000) % 10
        /\ b[3] = (e.psn \div 10000) % 10 /\ b[4] = (e.psn \div 1000) % 10
        /\ b[5] = (e.psn \div 100) % 10 /\ b[6] = (e.psn \div 10) % 10
        /\ b[7] = e.psn % 10
    <3>1. e.psn < 10000000
      BY SMT, <1>4
    <3>2. /\ b[1] = (e.psn \div 1000000) % 10 /\ b[2] = (e.psn \div 100000) % 10
          /\ b[3] = (e.psn \div 10000) % 10 /\ b[4] = (e.psn \div 1000) % 10
      BY SMT, <1>5 DEF Printed
    <3>3. /\ b[5] = (e.psn \div 100) % 10 /\ b[6] = (e.psn \div 10) % 10
          /\ b[7] = e.psn % 10
      BY SMT, <1>5 DEF Printed
    <3> QED BY SMT, <3>1, <3>2, <3>3
  <2>2. \A i \in 1 .. 7 : b[i] \in Nat
    BY <1>3
  <2> QED BY SMT, <1>3, <1>4, <2>1, <2>2, SevenStandFor
<1>8. e.emc % 65536 = e.emc
  BY SMT, <1>4
<1>9. e = [emc |-> e.emc, psn |-> e.psn]
  BY SMT, IpeiIs
<1> QED BY SMT, <1>2, <1>6, <1>7, <1>8, <1>9

-----------------------------------------------------------------------------
(* A mistyped digit changes the weight of the digits *)

\* The digits of a printed identity
LEMMA PrintedDigits ==
    ASSUME NEW e \in Ipei, NEW s, Printed(s, e)
    PROVE  \A i \in 1 .. 12 : s[i] \in Nat /\ s[i] <= 9
<1>1. /\ e.emc \in Nat /\ e.psn \in Nat
  BY SMT, IpeiIs
<1>2. s[1] \in Nat /\ s[1] <= 9
  <2>1. s[1] = (e.emc \div 10000) % 10
    BY SMT DEF Printed
  <2> QED BY SMT, <1>1, <2>1
<1>3. s[2] \in Nat /\ s[2] <= 9
  <2>1. s[2] = (e.emc \div 1000) % 10
    BY SMT DEF Printed
  <2> QED BY SMT, <1>1, <2>1
<1>4. s[3] \in Nat /\ s[3] <= 9
  <2>1. s[3] = (e.emc \div 100) % 10
    BY SMT DEF Printed
  <2> QED BY SMT, <1>1, <2>1
<1>5. s[4] \in Nat /\ s[4] <= 9
  <2>1. s[4] = (e.emc \div 10) % 10
    BY SMT DEF Printed
  <2> QED BY SMT, <1>1, <2>1
<1>6. s[5] \in Nat /\ s[5] <= 9
  <2>1. s[5] = e.emc % 10
    BY SMT DEF Printed
  <2> QED BY SMT, <1>1, <2>1
<1>7. s[6] \in Nat /\ s[6] <= 9
  <2>1. s[6] = (e.psn \div 1000000) % 10
    BY SMT DEF Printed
  <2> QED BY SMT, <1>1, <2>1
<1>8. s[7] \in Nat /\ s[7] <= 9
  <2>1. s[7] = (e.psn \div 100000) % 10
    BY SMT DEF Printed
  <2> QED BY SMT, <1>1, <2>1
<1>9. s[8] \in Nat /\ s[8] <= 9
  <2>1. s[8] = (e.psn \div 10000) % 10
    BY SMT DEF Printed
  <2> QED BY SMT, <1>1, <2>1
<1>10. s[9] \in Nat /\ s[9] <= 9
  <2>1. s[9] = (e.psn \div 1000) % 10
    BY SMT DEF Printed
  <2> QED BY SMT, <1>1, <2>1
<1>11. s[10] \in Nat /\ s[10] <= 9
  <2>1. s[10] = (e.psn \div 100) % 10
    BY SMT DEF Printed
  <2> QED BY SMT, <1>1, <2>1
<1>12. s[11] \in Nat /\ s[11] <= 9
  <2>1. s[11] = (e.psn \div 10) % 10
    BY SMT DEF Printed
  <2> QED BY SMT, <1>1, <2>1
<1>13. s[12] \in Nat /\ s[12] <= 9
  <2>1. s[12] = e.psn % 10
    BY SMT DEF Printed
  <2> QED BY SMT, <1>1, <2>1
<1> QED BY SMT, <1>2, <1>3, <1>4, <1>5, <1>6, <1>7, <1>8, <1>9, <1>10, <1>11, <1>12, <1>13

\* A weighted change is seen, except that of the eleventh digit.
Seen(w, k, x, y) == (w + k * (y - x)) % 11 = w % 11 <=> k = 11

\* A digit weighs its place: modulo eleven a change is seen, but that of
\* place eleven.
LEMMA ChangeSeen ==
    ASSUME NEW w \in Nat, NEW x \in Nat, NEW y \in Nat, x <= 9, y <= 9, x # y
    PROVE  \A k \in 1 .. 12 : Seen(w, k, x, y)
<1> DEFINE u == y - x
<1>1. u \in Int /\ u # 0 /\ u <= 9 /\ -9 <= u
  BY SMT
<1> HIDE DEF u
<1>2. (w + 1 * u) % 11 = w % 11 <=> 1 = 11
  BY SMT, <1>1
<1>3. (w + 2 * u) % 11 = w % 11 <=> 2 = 11
  BY SMT, <1>1
<1>4. (w + 3 * u) % 11 = w % 11 <=> 3 = 11
  BY SMT, <1>1
<1>5. (w + 4 * u) % 11 = w % 11 <=> 4 = 11
  BY SMT, <1>1
<1>6. (w + 5 * u) % 11 = w % 11 <=> 5 = 11
  BY SMT, <1>1
<1>7. (w + 6 * u) % 11 = w % 11 <=> 6 = 11
  BY SMT, <1>1
<1>8. (w + 7 * u) % 11 = w % 11 <=> 7 = 11
  BY SMT, <1>1
<1>9. (w + 8 * u) % 11 = w % 11 <=> 8 = 11
  BY SMT, <1>1
<1>10. (w + 9 * u) % 11 = w % 11 <=> 9 = 11
  BY SMT, <1>1
<1>11. (w + 10 * u) % 11 = w % 11 <=> 10 = 11
  BY SMT, <1>1
<1>12. (w + 11 * u) % 11 = w % 11 <=> 11 = 11
  BY SMT, <1>1
<1>13. (w + 12 * u) % 11 = w % 11 <=> 12 = 11
  BY SMT, <1>1
<1>14. Seen(w, 1, x, y)
  BY Zenon, <1>2 DEF Seen, u
<1>15. Seen(w, 2, x, y)
  BY Zenon, <1>3 DEF Seen, u
<1>16. Seen(w, 3, x, y)
  BY Zenon, <1>4 DEF Seen, u
<1>17. Seen(w, 4, x, y)
  BY Zenon, <1>5 DEF Seen, u
<1>18. Seen(w, 5, x, y)
  BY Zenon, <1>6 DEF Seen, u
<1>19. Seen(w, 6, x, y)
  BY Zenon, <1>7 DEF Seen, u
<1>20. Seen(w, 7, x, y)
  BY Zenon, <1>8 DEF Seen, u
<1>21. Seen(w, 8, x, y)
  BY Zenon, <1>9 DEF Seen, u
<1>22. Seen(w, 9, x, y)
  BY Zenon, <1>10 DEF Seen, u
<1>23. Seen(w, 10, x, y)
  BY Zenon, <1>11 DEF Seen, u
<1>24. Seen(w, 11, x, y)
  BY Zenon, <1>12 DEF Seen, u
<1>25. Seen(w, 12, x, y)
  BY Zenon, <1>13 DEF Seen, u
<1> QED BY SMT, <1>14, <1>15, <1>16, <1>17, <1>18, <1>19, <1>20, <1>21, <1>22, <1>23, <1>24, <1>25

\* One digit, or two neighbours, in a weighted sum
OneWeighed(a, b, c, d, e, f, g, h, i, j, k, l) ==
    \A y \in Nat :
        /\ Weighed(y, b, c, d, e, f, g, h, i, j, k, l)
              = Weighed(a, b, c, d, e, f, g, h, i, j, k, l) + 1 * (y - a)
        /\ Weighed(a, y, c, d, e, f, g, h, i, j, k, l)
              = Weighed(a, b, c, d, e, f, g, h, i, j, k, l) + 2 * (y - b)
        /\ Weighed(a, b, y, d, e, f, g, h, i, j, k, l)
              = Weighed(a, b, c, d, e, f, g, h, i, j, k, l) + 3 * (y - c)
        /\ Weighed(a, b, c, y, e, f, g, h, i, j, k, l)
              = Weighed(a, b, c, d, e, f, g, h, i, j, k, l) + 4 * (y - d)
        /\ Weighed(a, b, c, d, y, f, g, h, i, j, k, l)
              = Weighed(a, b, c, d, e, f, g, h, i, j, k, l) + 5 * (y - e)
        /\ Weighed(a, b, c, d, e, y, g, h, i, j, k, l)
              = Weighed(a, b, c, d, e, f, g, h, i, j, k, l) + 6 * (y - f)
        /\ Weighed(a, b, c, d, e, f, y, h, i, j, k, l)
              = Weighed(a, b, c, d, e, f, g, h, i, j, k, l) + 7 * (y - g)
        /\ Weighed(a, b, c, d, e, f, g, y, i, j, k, l)
              = Weighed(a, b, c, d, e, f, g, h, i, j, k, l) + 8 * (y - h)
        /\ Weighed(a, b, c, d, e, f, g, h, y, j, k, l)
              = Weighed(a, b, c, d, e, f, g, h, i, j, k, l) + 9 * (y - i)
        /\ Weighed(a, b, c, d, e, f, g, h, i, y, k, l)
              = Weighed(a, b, c, d, e, f, g, h, i, j, k, l) + 10 * (y - j)
        /\ Weighed(a, b, c, d, e, f, g, h, i, j, y, l)
              = Weighed(a, b, c, d, e, f, g, h, i, j, k, l) + 11 * (y - k)
        /\ Weighed(a, b, c, d, e, f, g, h, i, j, k, y)
              = Weighed(a, b, c, d, e, f, g, h, i, j, k, l) + 12 * (y - l)
TwoWeighed(a, b, c, d, e, f, g, h, i, j, k, l) ==
    /\ Weighed(b, a, c, d, e, f, g, h, i, j, k, l)
          = Weighed(a, b, c, d, e, f, g, h, i, j, k, l) + 1 * (a - b)
    /\ Weighed(a, c, b, d, e, f, g, h, i, j, k, l)
          = Weighed(a, b, c, d, e, f, g, h, i, j, k, l) + 1 * (b - c)
    /\ Weighed(a, b, d, c, e, f, g, h, i, j, k, l)
          = Weighed(a, b, c, d, e, f, g, h, i, j, k, l) + 1 * (c - d)
    /\ Weighed(a, b, c, e, d, f, g, h, i, j, k, l)
          = Weighed(a, b, c, d, e, f, g, h, i, j, k, l) + 1 * (d - e)
    /\ Weighed(a, b, c, d, f, e, g, h, i, j, k, l)
          = Weighed(a, b, c, d, e, f, g, h, i, j, k, l) + 1 * (e - f)
    /\ Weighed(a, b, c, d, e, g, f, h, i, j, k, l)
          = Weighed(a, b, c, d, e, f, g, h, i, j, k, l) + 1 * (f - g)
    /\ Weighed(a, b, c, d, e, f, h, g, i, j, k, l)
          = Weighed(a, b, c, d, e, f, g, h, i, j, k, l) + 1 * (g - h)
    /\ Weighed(a, b, c, d, e, f, g, i, h, j, k, l)
          = Weighed(a, b, c, d, e, f, g, h, i, j, k, l) + 1 * (h - i)
    /\ Weighed(a, b, c, d, e, f, g, h, j, i, k, l)
          = Weighed(a, b, c, d, e, f, g, h, i, j, k, l) + 1 * (i - j)
    /\ Weighed(a, b, c, d, e, f, g, h, i, k, j, l)
          = Weighed(a, b, c, d, e, f, g, h, i, j, k, l) + 1 * (j - k)
    /\ Weighed(a, b, c, d, e, f, g, h, i, j, l, k)
          = Weighed(a, b, c, d, e, f, g, h, i, j, k, l) + 1 * (k - l)

\* One digit changed, or two neighbours exchanged, among twelve numbers ...
LEMMA OneWeighs ==
    ASSUME NEW a \in Nat, NEW b \in Nat, NEW c \in Nat, NEW d \in Nat, NEW e \in Nat,
           NEW f \in Nat, NEW g \in Nat, NEW h \in Nat, NEW i \in Nat, NEW j \in Nat,
           NEW k \in Nat, NEW l \in Nat
    PROVE  OneWeighed(a, b, c, d, e, f, g, h, i, j, k, l)
<1> SUFFICES ASSUME NEW y \in Nat PROVE
      /\ Weighed(y, b, c, d, e, f, g, h, i, j, k, l)
            = Weighed(a, b, c, d, e, f, g, h, i, j, k, l) + 1 * (y - a)
      /\ Weighed(a, y, c, d, e, f, g, h, i, j, k, l)
            = Weighed(a, b, c, d, e, f, g, h, i, j, k, l) + 2 * (y - b)
      /\ Weighed(a, b, y, d, e, f, g, h, i, j, k, l)
            = Weighed(a, b, c, d, e, f, g, h, i, j, k, l) + 3 * (y - c)
      /\ Weighed(a, b, c, y, e, f, g, h, i, j, k, l)
            = Weighed(a, b, c, d, e, f, g, h, i, j, k, l) + 4 * (y - d)
      /\ Weighed(a, b, c, d, y, f, g, h, i, j, k, l)
            = Weighed(a, b, c, d, e, f, g, h, i, j, k, l) + 5 * (y - e)
      /\ Weighed(a, b, c, d, e, y, g, h, i, j, k, l)
            = Weighed(a, b, c, d, e, f, g, h, i, j, k, l) + 6 * (y - f)
      /\ Weighed(a, b, c, d, e, f, y, h, i, j, k, l)
            = Weighed(a, b, c, d, e, f, g, h, i, j, k, l) + 7 * (y - g)
      /\ Weighed(a, b, c, d, e, f, g, y, i, j, k, l)
            = Weighed(a, b, c, d, e, f, g, h, i, j, k, l) + 8 * (y - h)
      /\ Weighed(a, b, c, d, e, f, g, h, y, j, k, l)
            = Weighed(a, b, c, d, e, f, g, h, i, j, k, l) + 9 * (y - i)
      /\ Weighed(a, b, c, d, e, f, g, h, i, y, k, l)
            = Weighed(a, b, c, d, e, f, g, h, i, j, k, l) + 10 * (y - j)
      /\ Weighed(a, b, c, d, e, f, g, h, i, j, y, l)
            = Weighed(a, b, c, d, e, f, g, h, i, j, k, l) + 11 * (y - k)
      /\ Weighed(a, b, c, d, e, f, g, h, i, j, k, y)
            = Weighed(a, b, c, d, e, f, g, h, i, j, k, l) + 12 * (y - l)
  BY Zenon DEF OneWeighed
<1>1. Weighed(y, b, c, d, e, f, g, h, i, j, k, l)
        = Weighed(a, b, c, d, e, f, g, h, i, j, k, l) + 1 * (y - a)
  BY SMT DEF Weighed
<1>2. Weighed(a, y, c, d, e, f, g, h, i, j, k, l)
        = Weighed(a, b, c, d, e, f, g, h, i, j, k, l) + 2 * (y - b)
  BY SMT DEF Weighed
<1>3. Weighed(a, b, y, d, e, f, g, h, i, j, k, l)
        = Weighed(a, b, c, d, e, f, g, h, i, j, k, l) + 3 * (y - c)
  BY SMT DEF Weighed
<1>4. Weighed(a, b, c, y, e, f, g, h, i, j, k, l)
        = Weighed(a, b, c, d, e, f, g, h, i, j, k, l) + 4 * (y - d)
  BY SMT DEF Weighed
<1>5. Weighed(a, b, c, d, y, f, g, h, i, j, k, l)
        = Weighed(a, b, c, d, e, f, g, h, i, j, k, l) + 5 * (y - e)
  BY SMT DEF Weighed
<1>6. Weighed(a, b, c, d, e, y, g, h, i, j, k, l)
        = Weighed(a, b, c, d, e, f, g, h, i, j, k, l) + 6 * (y - f)
  BY SMT DEF Weighed
<1>7. Weighed(a, b, c, d, e, f, y, h, i, j, k, l)
        = Weighed(a, b, c, d, e, f, g, h, i, j, k, l) + 7 * (y - g)
  BY SMT DEF Weighed
<1>8. Weighed(a, b, c, d, e, f, g, y, i, j, k, l)
        = Weighed(a, b, c, d, e, f, g, h, i, j, k, l) + 8 * (y - h)
  BY SMT DEF Weighed
<1>9. Weighed(a, b, c, d, e, f, g, h, y, j, k, l)
        = Weighed(a, b, c, d, e, f, g, h, i, j, k, l) + 9 * (y - i)
  BY SMT DEF Weighed
<1>10. Weighed(a, b, c, d, e, f, g, h, i, y, k, l)
        = Weighed(a, b, c, d, e, f, g, h, i, j, k, l) + 10 * (y - j)
  BY SMT DEF Weighed
<1>11. Weighed(a, b, c, d, e, f, g, h, i, j, y, l)
        = Weighed(a, b, c, d, e, f, g, h, i, j, k, l) + 11 * (y - k)
  BY SMT DEF Weighed
<1>12. Weighed(a, b, c, d, e, f, g, h, i, j, k, y)
        = Weighed(a, b, c, d, e, f, g, h, i, j, k, l) + 12 * (y - l)
  BY SMT DEF Weighed
<1> QED BY Zenon, <1>1, <1>2, <1>3, <1>4, <1>5, <1>6, <1>7, <1>8, <1>9, <1>10, <1>11, <1>12

LEMMA TwoWeigh ==
    ASSUME NEW a \in Nat, NEW b \in Nat, NEW c \in Nat, NEW d \in Nat, NEW e \in Nat,
           NEW f \in Nat, NEW g \in Nat, NEW h \in Nat, NEW i \in Nat, NEW j \in Nat,
           NEW k \in Nat, NEW l \in Nat
    PROVE  TwoWeighed(a, b, c, d, e, f, g, h, i, j, k, l)
<1>1. Weighed(b, a, c, d, e, f, g, h, i, j, k, l)
        = Weighed(a, b, c, d, e, f, g, h, i, j, k, l) + 1 * (a - b)
  BY SMT DEF Weighed
<1>2. Weighed(a, c, b, d, e, f, g, h, i, j, k, l)
        = Weighed(a, b, c, d, e, f, g, h, i, j, k, l) + 1 * (b - c)
  BY SMT DEF Weighed
<1>3. Weighed(a, b, d, c, e, f, g, h, i, j, k, l)
        = Weighed(a, b, c, d, e, f, g, h, i, j, k, l) + 1 * (c - d)
  BY SMT DEF Weighed
<1>4. Weighed(a, b, c, e, d, f, g, h, i, j, k, l)
        = Weighed(a, b, c, d, e, f, g, h, i, j, k, l) + 1 * (d - e)
  BY SMT DEF Weighed
<1>5. Weighed(a, b, c, d, f, e, g, h, i, j, k, l)
        = Weighed(a, b, c, d, e, f, g, h, i, j, k, l) + 1 * (e - f)
  BY SMT DEF Weighed
<1>6. Weighed(a, b, c, d, e, g, f, h, i, j, k, l)
        = Weighed(a, b, c, d, e, f, g, h, i, j, k, l) + 1 * (f - g)
  BY SMT DEF Weighed
<1>7. Weighed(a, b, c, d, e, f, h, g, i, j, k, l)
        = Weighed(a, b, c, d, e, f, g, h, i, j, k, l) + 1 * (g - h)
  BY SMT DEF Weighed
<1>8. Weighed(a, b, c, d, e, f, g, i, h, j, k, l)
        = Weighed(a, b, c, d, e, f, g, h, i, j, k, l) + 1 * (h - i)
  BY SMT DEF Weighed
<1>9. Weighed(a, b, c, d, e, f, g, h, j, i, k, l)
        = Weighed(a, b, c, d, e, f, g, h, i, j, k, l) + 1 * (i - j)
  BY SMT DEF Weighed
<1>10. Weighed(a, b, c, d, e, f, g, h, i, k, j, l)
        = Weighed(a, b, c, d, e, f, g, h, i, j, k, l) + 1 * (j - k)
  BY SMT DEF Weighed
<1>11. Weighed(a, b, c, d, e, f, g, h, i, j, l, k)
        = Weighed(a, b, c, d, e, f, g, h, i, j, k, l) + 1 * (k - l)
  BY SMT DEF Weighed
<1> QED BY Zenon, <1>1, <1>2, <1>3, <1>4, <1>5, <1>6, <1>7, <1>8, <1>9, <1>10, <1>11 DEF TwoWeighed

\* Changing one digit or exchanging two neighbours
WrongDigit(s, t, i) == Weight(t) = Weight(s) + i * (t[i] - s[i])

\* ... and in a printed identity
LEMMA DigitWeighs ==
    ASSUME NEW s, NEW t, NEW i \in 1 .. 12,
           \A j \in 1 .. 12 : s[j] \in Nat /\ t[j] \in Nat,
           \A j \in 1 .. 12 : j # i => t[j] = s[j]
    PROVE  WrongDigit(s, t, i)
<1>1. /\ s[1] \in Nat /\ t[1] \in Nat /\ s[2] \in Nat /\ t[2] \in Nat
      /\ s[3] \in Nat /\ t[3] \in Nat /\ s[4] \in Nat /\ t[4] \in Nat
      /\ s[5] \in Nat /\ t[5] \in Nat /\ s[6] \in Nat /\ t[6] \in Nat
      /\ s[7] \in Nat /\ t[7] \in Nat /\ s[8] \in Nat /\ t[8] \in Nat
      /\ s[9] \in Nat /\ t[9] \in Nat /\ s[10] \in Nat /\ t[10] \in Nat
      /\ s[11] \in Nat /\ t[11] \in Nat /\ s[12] \in Nat /\ t[12] \in Nat
  OBVIOUS
<1>15. OneWeighed(s[1], s[2], s[3], s[4], s[5], s[6],
                   s[7], s[8], s[9], s[10], s[11], s[12])
  BY Zenon, <1>1, OneWeighs
<1>2. CASE i = 1
  <2>1. /\ t[2] = s[2] /\ t[3] = s[3] /\ t[4] = s[4] /\ t[5] = s[5]
        /\ t[6] = s[6] /\ t[7] = s[7] /\ t[8] = s[8] /\ t[9] = s[9]
        /\ t[10] = s[10] /\ t[11] = s[11] /\ t[12] = s[12]
    BY <1>2
  <2>2. Weighed(t[1], s[2], s[3], s[4], s[5], s[6],
                  s[7], s[8], s[9], s[10], s[11], s[12])
          = Weighed(s[1], s[2], s[3], s[4], s[5], s[6],
                  s[7], s[8], s[9], s[10], s[11], s[12]) + 1 * (t[1] - s[1])
    BY Zenon, <1>1, <1>15 DEF OneWeighed
  <2>3. Weight(t) = Weight(s) + 1 * (t[1] - s[1])
    BY Zenon, <2>1, <2>2 DEF Weight
  <2> QED BY Zenon, <1>2, <2>3 DEF WrongDigit
<1>3. CASE i = 2
  <2>1. /\ t[1] = s[1] /\ t[3] = s[3] /\ t[4] = s[4] /\ t[5] = s[5]
        /\ t[6] = s[6] /\ t[7] = s[7] /\ t[8] = s[8] /\ t[9] = s[9]
        /\ t[10] = s[10] /\ t[11] = s[11] /\ t[12] = s[12]
    BY <1>3
  <2>2. Weighed(s[1], t[2], s[3], s[4], s[5], s[6],
                  s[7], s[8], s[9], s[10], s[11], s[12])
          = Weighed(s[1], s[2], s[3], s[4], s[5], s[6],
                  s[7], s[8], s[9], s[10], s[11], s[12]) + 2 * (t[2] - s[2])
    BY Zenon, <1>1, <1>15 DEF OneWeighed
  <2>3. Weight(t) = Weight(s) + 2 * (t[2] - s[2])
    BY Zenon, <2>1, <2>2 DEF Weight
  <2> QED BY Zenon, <1>3, <2>3 DEF WrongDigit
<1>4. CASE i = 3
  <2>1. /\ t[1] = s[1] /\ t[2] = s[2] /\ t[4] = s[4] /\ t[5] = s[5]
        /\ t[6] = s[6] /\ t[7] = s[7] /\ t[8] = s[8] /\ t[9] = s[9]
        /\ t[10] = s[10] /\ t[11] = s[11] /\ t[12] = s[12]
    BY <1>4
  <2>2. Weighed(s[1], s[2], t[3], s[4], s[5], s[6],
                  s[7], s[8], s[9], s[10], s[11], s[12])
          = Weighed(s[1], s[2], s[3], s[4], s[5], s[6],
                  s[7], s[8], s[9], s[10], s[11], s[12]) + 3 * (t[3] - s[3])
    BY Zenon, <1>1, <1>15 DEF OneWeighed
  <2>3. Weight(t) = Weight(s) + 3 * (t[3] - s[3])
    BY Zenon, <2>1, <2>2 DEF Weight
  <2> QED BY Zenon, <1>4, <2>3 DEF WrongDigit
<1>5. CASE i = 4
  <2>1. /\ t[1] = s[1] /\ t[2] = s[2] /\ t[3] = s[3] /\ t[5] = s[5]
        /\ t[6] = s[6] /\ t[7] = s[7] /\ t[8] = s[8] /\ t[9] = s[9]
        /\ t[10] = s[10] /\ t[11] = s[11] /\ t[12] = s[12]
    BY <1>5
  <2>2. Weighed(s[1], s[2], s[3], t[4], s[5], s[6],
                  s[7], s[8], s[9], s[10], s[11], s[12])
          = Weighed(s[1], s[2], s[3], s[4], s[5], s[6],
                  s[7], s[8], s[9], s[10], s[11], s[12]) + 4 * (t[4] - s[4])
    BY Zenon, <1>1, <1>15 DEF OneWeighed
  <2>3. Weight(t) = Weight(s) + 4 * (t[4] - s[4])
    BY Zenon, <2>1, <2>2 DEF Weight
  <2> QED BY Zenon, <1>5, <2>3 DEF WrongDigit
<1>6. CASE i = 5
  <2>1. /\ t[1] = s[1] /\ t[2] = s[2] /\ t[3] = s[3] /\ t[4] = s[4]
        /\ t[6] = s[6] /\ t[7] = s[7] /\ t[8] = s[8] /\ t[9] = s[9]
        /\ t[10] = s[10] /\ t[11] = s[11] /\ t[12] = s[12]
    BY <1>6
  <2>2. Weighed(s[1], s[2], s[3], s[4], t[5], s[6],
                  s[7], s[8], s[9], s[10], s[11], s[12])
          = Weighed(s[1], s[2], s[3], s[4], s[5], s[6],
                  s[7], s[8], s[9], s[10], s[11], s[12]) + 5 * (t[5] - s[5])
    BY Zenon, <1>1, <1>15 DEF OneWeighed
  <2>3. Weight(t) = Weight(s) + 5 * (t[5] - s[5])
    BY Zenon, <2>1, <2>2 DEF Weight
  <2> QED BY Zenon, <1>6, <2>3 DEF WrongDigit
<1>7. CASE i = 6
  <2>1. /\ t[1] = s[1] /\ t[2] = s[2] /\ t[3] = s[3] /\ t[4] = s[4]
        /\ t[5] = s[5] /\ t[7] = s[7] /\ t[8] = s[8] /\ t[9] = s[9]
        /\ t[10] = s[10] /\ t[11] = s[11] /\ t[12] = s[12]
    BY <1>7
  <2>2. Weighed(s[1], s[2], s[3], s[4], s[5], t[6],
                  s[7], s[8], s[9], s[10], s[11], s[12])
          = Weighed(s[1], s[2], s[3], s[4], s[5], s[6],
                  s[7], s[8], s[9], s[10], s[11], s[12]) + 6 * (t[6] - s[6])
    BY Zenon, <1>1, <1>15 DEF OneWeighed
  <2>3. Weight(t) = Weight(s) + 6 * (t[6] - s[6])
    BY Zenon, <2>1, <2>2 DEF Weight
  <2> QED BY Zenon, <1>7, <2>3 DEF WrongDigit
<1>8. CASE i = 7
  <2>1. /\ t[1] = s[1] /\ t[2] = s[2] /\ t[3] = s[3] /\ t[4] = s[4]
        /\ t[5] = s[5] /\ t[6] = s[6] /\ t[8] = s[8] /\ t[9] = s[9]
        /\ t[10] = s[10] /\ t[11] = s[11] /\ t[12] = s[12]
    BY <1>8
  <2>2. Weighed(s[1], s[2], s[3], s[4], s[5], s[6],
                  t[7], s[8], s[9], s[10], s[11], s[12])
          = Weighed(s[1], s[2], s[3], s[4], s[5], s[6],
                  s[7], s[8], s[9], s[10], s[11], s[12]) + 7 * (t[7] - s[7])
    BY Zenon, <1>1, <1>15 DEF OneWeighed
  <2>3. Weight(t) = Weight(s) + 7 * (t[7] - s[7])
    BY Zenon, <2>1, <2>2 DEF Weight
  <2> QED BY Zenon, <1>8, <2>3 DEF WrongDigit
<1>9. CASE i = 8
  <2>1. /\ t[1] = s[1] /\ t[2] = s[2] /\ t[3] = s[3] /\ t[4] = s[4]
        /\ t[5] = s[5] /\ t[6] = s[6] /\ t[7] = s[7] /\ t[9] = s[9]
        /\ t[10] = s[10] /\ t[11] = s[11] /\ t[12] = s[12]
    BY <1>9
  <2>2. Weighed(s[1], s[2], s[3], s[4], s[5], s[6],
                  s[7], t[8], s[9], s[10], s[11], s[12])
          = Weighed(s[1], s[2], s[3], s[4], s[5], s[6],
                  s[7], s[8], s[9], s[10], s[11], s[12]) + 8 * (t[8] - s[8])
    BY Zenon, <1>1, <1>15 DEF OneWeighed
  <2>3. Weight(t) = Weight(s) + 8 * (t[8] - s[8])
    BY Zenon, <2>1, <2>2 DEF Weight
  <2> QED BY Zenon, <1>9, <2>3 DEF WrongDigit
<1>10. CASE i = 9
  <2>1. /\ t[1] = s[1] /\ t[2] = s[2] /\ t[3] = s[3] /\ t[4] = s[4]
        /\ t[5] = s[5] /\ t[6] = s[6] /\ t[7] = s[7] /\ t[8] = s[8]
        /\ t[10] = s[10] /\ t[11] = s[11] /\ t[12] = s[12]
    BY <1>10
  <2>2. Weighed(s[1], s[2], s[3], s[4], s[5], s[6],
                  s[7], s[8], t[9], s[10], s[11], s[12])
          = Weighed(s[1], s[2], s[3], s[4], s[5], s[6],
                  s[7], s[8], s[9], s[10], s[11], s[12]) + 9 * (t[9] - s[9])
    BY Zenon, <1>1, <1>15 DEF OneWeighed
  <2>3. Weight(t) = Weight(s) + 9 * (t[9] - s[9])
    BY Zenon, <2>1, <2>2 DEF Weight
  <2> QED BY Zenon, <1>10, <2>3 DEF WrongDigit
<1>11. CASE i = 10
  <2>1. /\ t[1] = s[1] /\ t[2] = s[2] /\ t[3] = s[3] /\ t[4] = s[4]
        /\ t[5] = s[5] /\ t[6] = s[6] /\ t[7] = s[7] /\ t[8] = s[8]
        /\ t[9] = s[9] /\ t[11] = s[11] /\ t[12] = s[12]
    BY <1>11
  <2>2. Weighed(s[1], s[2], s[3], s[4], s[5], s[6],
                  s[7], s[8], s[9], t[10], s[11], s[12])
          = Weighed(s[1], s[2], s[3], s[4], s[5], s[6],
                  s[7], s[8], s[9], s[10], s[11], s[12]) + 10 * (t[10] - s[10])
    BY Zenon, <1>1, <1>15 DEF OneWeighed
  <2>3. Weight(t) = Weight(s) + 10 * (t[10] - s[10])
    BY Zenon, <2>1, <2>2 DEF Weight
  <2> QED BY Zenon, <1>11, <2>3 DEF WrongDigit
<1>12. CASE i = 11
  <2>1. /\ t[1] = s[1] /\ t[2] = s[2] /\ t[3] = s[3] /\ t[4] = s[4]
        /\ t[5] = s[5] /\ t[6] = s[6] /\ t[7] = s[7] /\ t[8] = s[8]
        /\ t[9] = s[9] /\ t[10] = s[10] /\ t[12] = s[12]
    BY <1>12
  <2>2. Weighed(s[1], s[2], s[3], s[4], s[5], s[6],
                  s[7], s[8], s[9], s[10], t[11], s[12])
          = Weighed(s[1], s[2], s[3], s[4], s[5], s[6],
                  s[7], s[8], s[9], s[10], s[11], s[12]) + 11 * (t[11] - s[11])
    BY Zenon, <1>1, <1>15 DEF OneWeighed
  <2>3. Weight(t) = Weight(s) + 11 * (t[11] - s[11])
    BY Zenon, <2>1, <2>2 DEF Weight
  <2> QED BY Zenon, <1>12, <2>3 DEF WrongDigit
<1>13. CASE i = 12
  <2>1. /\ t[1] = s[1] /\ t[2] = s[2] /\ t[3] = s[3] /\ t[4] = s[4]
        /\ t[5] = s[5] /\ t[6] = s[6] /\ t[7] = s[7] /\ t[8] = s[8]
        /\ t[9] = s[9] /\ t[10] = s[10] /\ t[11] = s[11]
    BY <1>13
  <2>2. Weighed(s[1], s[2], s[3], s[4], s[5], s[6],
                  s[7], s[8], s[9], s[10], s[11], t[12])
          = Weighed(s[1], s[2], s[3], s[4], s[5], s[6],
                  s[7], s[8], s[9], s[10], s[11], s[12]) + 12 * (t[12] - s[12])
    BY Zenon, <1>1, <1>15 DEF OneWeighed
  <2>3. Weight(t) = Weight(s) + 12 * (t[12] - s[12])
    BY Zenon, <2>1, <2>2 DEF Weight
  <2> QED BY Zenon, <1>13, <2>3 DEF WrongDigit
<1> QED BY <1>2, <1>3, <1>4, <1>5, <1>6, <1>7, <1>8, <1>9, <1>10, <1>11, <1>12, <1>13

LEMMA ExchangeWeighs ==
    ASSUME NEW s, NEW t, NEW i \in 1 .. 11,
           \A j \in 1 .. 12 : s[j] \in Nat /\ t[j] \in Nat,
           \A j \in 1 .. 12 : j \notin {i, i + 1} => t[j] = s[j],
           t[i] = s[i + 1], t[i + 1] = s[i]
    PROVE  Weight(t) = Weight(s) + 1 * (s[i] - s[i + 1])
<1>1. /\ s[1] \in Nat /\ t[1] \in Nat /\ s[2] \in Nat /\ t[2] \in Nat
      /\ s[3] \in Nat /\ t[3] \in Nat /\ s[4] \in Nat /\ t[4] \in Nat
      /\ s[5] \in Nat /\ t[5] \in Nat /\ s[6] \in Nat /\ t[6] \in Nat
      /\ s[7] \in Nat /\ t[7] \in Nat /\ s[8] \in Nat /\ t[8] \in Nat
      /\ s[9] \in Nat /\ t[9] \in Nat /\ s[10] \in Nat /\ t[10] \in Nat
      /\ s[11] \in Nat /\ t[11] \in Nat /\ s[12] \in Nat /\ t[12] \in Nat
  OBVIOUS
<1>15. TwoWeighed(s[1], s[2], s[3], s[4], s[5], s[6],
                   s[7], s[8], s[9], s[10], s[11], s[12])
  BY Zenon, <1>1, TwoWeigh
<1>2. CASE i = 1
  <2>1. i + 1 = 2
    BY <1>2
  <2>2. /\ t[3] = s[3] /\ t[4] = s[4] /\ t[5] = s[5] /\ t[6] = s[6]
        /\ t[7] = s[7] /\ t[8] = s[8] /\ t[9] = s[9] /\ t[10] = s[10]
        /\ t[11] = s[11] /\ t[12] = s[12]
    BY <1>2, <2>1
  <2>3. t[1] = s[2] /\ t[2] = s[1]
    BY Zenon, <1>2, <2>1
  <2>4. Weighed(s[2], s[1], s[3], s[4], s[5], s[6],
                  s[7], s[8], s[9], s[10], s[11], s[12])
          = Weighed(s[1], s[2], s[3], s[4], s[5], s[6],
                  s[7], s[8], s[9], s[10], s[11], s[12]) + 1 * (s[1] - s[2])
    BY Zenon, <1>15 DEF TwoWeighed
  <2>5. Weight(t) = Weight(s) + 1 * (s[1] - s[2])
    BY Zenon, <2>2, <2>3, <2>4 DEF Weight
  <2> QED BY Zenon, <1>2, <2>1, <2>5
<1>3. CASE i = 2
  <2>1. i + 1 = 3
    BY <1>3
  <2>2. /\ t[1] = s[1] /\ t[4] = s[4] /\ t[5] = s[5] /\ t[6] = s[6]
        /\ t[7] = s[7] /\ t[8] = s[8] /\ t[9] = s[9] /\ t[10] = s[10]
        /\ t[11] = s[11] /\ t[12] = s[12]
    BY <1>3, <2>1
  <2>3. t[2] = s[3] /\ t[3] = s[2]
    BY Zenon, <1>3, <2>1
  <2>4. Weighed(s[1], s[3], s[2], s[4], s[5], s[6],
                  s[7], s[8], s[9], s[10], s[11], s[12])
          = Weighed(s[1], s[2], s[3], s[4], s[5], s[6],
                  s[7], s[8], s[9], s[10], s[11], s[12]) + 1 * (s[2] - s[3])
    BY Zenon, <1>15 DEF TwoWeighed
  <2>5. Weight(t) = Weight(s) + 1 * (s[2] - s[3])
    BY Zenon, <2>2, <2>3, <2>4 DEF Weight
  <2> QED BY Zenon, <1>3, <2>1, <2>5
<1>4. CASE i = 3
  <2>1. i + 1 = 4
    BY <1>4
  <2>2. /\ t[1] = s[1] /\ t[2] = s[2] /\ t[5] = s[5] /\ t[6] = s[6]
        /\ t[7] = s[7] /\ t[8] = s[8] /\ t[9] = s[9] /\ t[10] = s[10]
        /\ t[11] = s[11] /\ t[12] = s[12]
    BY <1>4, <2>1
  <2>3. t[3] = s[4] /\ t[4] = s[3]
    BY Zenon, <1>4, <2>1
  <2>4. Weighed(s[1], s[2], s[4], s[3], s[5], s[6],
                  s[7], s[8], s[9], s[10], s[11], s[12])
          = Weighed(s[1], s[2], s[3], s[4], s[5], s[6],
                  s[7], s[8], s[9], s[10], s[11], s[12]) + 1 * (s[3] - s[4])
    BY Zenon, <1>15 DEF TwoWeighed
  <2>5. Weight(t) = Weight(s) + 1 * (s[3] - s[4])
    BY Zenon, <2>2, <2>3, <2>4 DEF Weight
  <2> QED BY Zenon, <1>4, <2>1, <2>5
<1>5. CASE i = 4
  <2>1. i + 1 = 5
    BY <1>5
  <2>2. /\ t[1] = s[1] /\ t[2] = s[2] /\ t[3] = s[3] /\ t[6] = s[6]
        /\ t[7] = s[7] /\ t[8] = s[8] /\ t[9] = s[9] /\ t[10] = s[10]
        /\ t[11] = s[11] /\ t[12] = s[12]
    BY <1>5, <2>1
  <2>3. t[4] = s[5] /\ t[5] = s[4]
    BY Zenon, <1>5, <2>1
  <2>4. Weighed(s[1], s[2], s[3], s[5], s[4], s[6],
                  s[7], s[8], s[9], s[10], s[11], s[12])
          = Weighed(s[1], s[2], s[3], s[4], s[5], s[6],
                  s[7], s[8], s[9], s[10], s[11], s[12]) + 1 * (s[4] - s[5])
    BY Zenon, <1>15 DEF TwoWeighed
  <2>5. Weight(t) = Weight(s) + 1 * (s[4] - s[5])
    BY Zenon, <2>2, <2>3, <2>4 DEF Weight
  <2> QED BY Zenon, <1>5, <2>1, <2>5
<1>6. CASE i = 5
  <2>1. i + 1 = 6
    BY <1>6
  <2>2. /\ t[1] = s[1] /\ t[2] = s[2] /\ t[3] = s[3] /\ t[4] = s[4]
        /\ t[7] = s[7] /\ t[8] = s[8] /\ t[9] = s[9] /\ t[10] = s[10]
        /\ t[11] = s[11] /\ t[12] = s[12]
    BY <1>6, <2>1
  <2>3. t[5] = s[6] /\ t[6] = s[5]
    BY Zenon, <1>6, <2>1
  <2>4. Weighed(s[1], s[2], s[3], s[4], s[6], s[5],
                  s[7], s[8], s[9], s[10], s[11], s[12])
          = Weighed(s[1], s[2], s[3], s[4], s[5], s[6],
                  s[7], s[8], s[9], s[10], s[11], s[12]) + 1 * (s[5] - s[6])
    BY Zenon, <1>15 DEF TwoWeighed
  <2>5. Weight(t) = Weight(s) + 1 * (s[5] - s[6])
    BY Zenon, <2>2, <2>3, <2>4 DEF Weight
  <2> QED BY Zenon, <1>6, <2>1, <2>5
<1>7. CASE i = 6
  <2>1. i + 1 = 7
    BY <1>7
  <2>2. /\ t[1] = s[1] /\ t[2] = s[2] /\ t[3] = s[3] /\ t[4] = s[4]
        /\ t[5] = s[5] /\ t[8] = s[8] /\ t[9] = s[9] /\ t[10] = s[10]
        /\ t[11] = s[11] /\ t[12] = s[12]
    BY <1>7, <2>1
  <2>3. t[6] = s[7] /\ t[7] = s[6]
    BY Zenon, <1>7, <2>1
  <2>4. Weighed(s[1], s[2], s[3], s[4], s[5], s[7],
                  s[6], s[8], s[9], s[10], s[11], s[12])
          = Weighed(s[1], s[2], s[3], s[4], s[5], s[6],
                  s[7], s[8], s[9], s[10], s[11], s[12]) + 1 * (s[6] - s[7])
    BY Zenon, <1>15 DEF TwoWeighed
  <2>5. Weight(t) = Weight(s) + 1 * (s[6] - s[7])
    BY Zenon, <2>2, <2>3, <2>4 DEF Weight
  <2> QED BY Zenon, <1>7, <2>1, <2>5
<1>8. CASE i = 7
  <2>1. i + 1 = 8
    BY <1>8
  <2>2. /\ t[1] = s[1] /\ t[2] = s[2] /\ t[3] = s[3] /\ t[4] = s[4]
        /\ t[5] = s[5] /\ t[6] = s[6] /\ t[9] = s[9] /\ t[10] = s[10]
        /\ t[11] = s[11] /\ t[12] = s[12]
    BY <1>8, <2>1
  <2>3. t[7] = s[8] /\ t[8] = s[7]
    BY Zenon, <1>8, <2>1
  <2>4. Weighed(s[1], s[2], s[3], s[4], s[5], s[6],
                  s[8], s[7], s[9], s[10], s[11], s[12])
          = Weighed(s[1], s[2], s[3], s[4], s[5], s[6],
                  s[7], s[8], s[9], s[10], s[11], s[12]) + 1 * (s[7] - s[8])
    BY Zenon, <1>15 DEF TwoWeighed
  <2>5. Weight(t) = Weight(s) + 1 * (s[7] - s[8])
    BY Zenon, <2>2, <2>3, <2>4 DEF Weight
  <2> QED BY Zenon, <1>8, <2>1, <2>5
<1>9. CASE i = 8
  <2>1. i + 1 = 9
    BY <1>9
  <2>2. /\ t[1] = s[1] /\ t[2] = s[2] /\ t[3] = s[3] /\ t[4] = s[4]
        /\ t[5] = s[5] /\ t[6] = s[6] /\ t[7] = s[7] /\ t[10] = s[10]
        /\ t[11] = s[11] /\ t[12] = s[12]
    BY <1>9, <2>1
  <2>3. t[8] = s[9] /\ t[9] = s[8]
    BY Zenon, <1>9, <2>1
  <2>4. Weighed(s[1], s[2], s[3], s[4], s[5], s[6],
                  s[7], s[9], s[8], s[10], s[11], s[12])
          = Weighed(s[1], s[2], s[3], s[4], s[5], s[6],
                  s[7], s[8], s[9], s[10], s[11], s[12]) + 1 * (s[8] - s[9])
    BY Zenon, <1>15 DEF TwoWeighed
  <2>5. Weight(t) = Weight(s) + 1 * (s[8] - s[9])
    BY Zenon, <2>2, <2>3, <2>4 DEF Weight
  <2> QED BY Zenon, <1>9, <2>1, <2>5
<1>10. CASE i = 9
  <2>1. i + 1 = 10
    BY <1>10
  <2>2. /\ t[1] = s[1] /\ t[2] = s[2] /\ t[3] = s[3] /\ t[4] = s[4]
        /\ t[5] = s[5] /\ t[6] = s[6] /\ t[7] = s[7] /\ t[8] = s[8]
        /\ t[11] = s[11] /\ t[12] = s[12]
    BY <1>10, <2>1
  <2>3. t[9] = s[10] /\ t[10] = s[9]
    BY Zenon, <1>10, <2>1
  <2>4. Weighed(s[1], s[2], s[3], s[4], s[5], s[6],
                  s[7], s[8], s[10], s[9], s[11], s[12])
          = Weighed(s[1], s[2], s[3], s[4], s[5], s[6],
                  s[7], s[8], s[9], s[10], s[11], s[12]) + 1 * (s[9] - s[10])
    BY Zenon, <1>15 DEF TwoWeighed
  <2>5. Weight(t) = Weight(s) + 1 * (s[9] - s[10])
    BY Zenon, <2>2, <2>3, <2>4 DEF Weight
  <2> QED BY Zenon, <1>10, <2>1, <2>5
<1>11. CASE i = 10
  <2>1. i + 1 = 11
    BY <1>11
  <2>2. /\ t[1] = s[1] /\ t[2] = s[2] /\ t[3] = s[3] /\ t[4] = s[4]
        /\ t[5] = s[5] /\ t[6] = s[6] /\ t[7] = s[7] /\ t[8] = s[8]
        /\ t[9] = s[9] /\ t[12] = s[12]
    BY <1>11, <2>1
  <2>3. t[10] = s[11] /\ t[11] = s[10]
    BY Zenon, <1>11, <2>1
  <2>4. Weighed(s[1], s[2], s[3], s[4], s[5], s[6],
                  s[7], s[8], s[9], s[11], s[10], s[12])
          = Weighed(s[1], s[2], s[3], s[4], s[5], s[6],
                  s[7], s[8], s[9], s[10], s[11], s[12]) + 1 * (s[10] - s[11])
    BY Zenon, <1>15 DEF TwoWeighed
  <2>5. Weight(t) = Weight(s) + 1 * (s[10] - s[11])
    BY Zenon, <2>2, <2>3, <2>4 DEF Weight
  <2> QED BY Zenon, <1>11, <2>1, <2>5
<1>12. CASE i = 11
  <2>1. i + 1 = 12
    BY <1>12
  <2>2. /\ t[1] = s[1] /\ t[2] = s[2] /\ t[3] = s[3] /\ t[4] = s[4]
        /\ t[5] = s[5] /\ t[6] = s[6] /\ t[7] = s[7] /\ t[8] = s[8]
        /\ t[9] = s[9] /\ t[10] = s[10]
    BY <1>12, <2>1
  <2>3. t[11] = s[12] /\ t[12] = s[11]
    BY Zenon, <1>12, <2>1
  <2>4. Weighed(s[1], s[2], s[3], s[4], s[5], s[6],
                  s[7], s[8], s[9], s[10], s[12], s[11])
          = Weighed(s[1], s[2], s[3], s[4], s[5], s[6],
                  s[7], s[8], s[9], s[10], s[11], s[12]) + 1 * (s[11] - s[12])
    BY Zenon, <1>15 DEF TwoWeighed
  <2>5. Weight(t) = Weight(s) + 1 * (s[11] - s[12])
    BY Zenon, <2>2, <2>3, <2>4 DEF Weight
  <2> QED BY Zenon, <1>12, <2>1, <2>5
<1> QED BY <1>2, <1>3, <1>4, <1>5, <1>6, <1>7, <1>8, <1>9, <1>10, <1>11, <1>12

-----------------------------------------------------------------------------
(* The forms of an identity *)

\* One mistake in a printed identity
Mistyped(s, t) ==
    \/ \E i \in 1 .. 12, d \in 0 .. 9 : t = [s EXCEPT ![i] = d]
    \/ \E i \in 1 .. 11 : t = [s EXCEPT ![i] = s[i + 1], ![i + 1] = s[i]]

Differing(s, t) == {i \in DOMAIN t : t[i] # s[i]}

\* Sequences of thirteen numbers are functions on 1..13.
LEMMA ThirteenAre ==
    ASSUME NEW s \in Seq(Nat), Len(s) = 13
    PROVE  DOMAIN s = 1 .. 13 /\ s \in [1 .. 13 -> Nat]
<1>1. DOMAIN s = 1 .. Len(s) /\ s \in [1 .. Len(s) -> Nat]
  BY LenProperties
<1> QED BY Zenon, <1>1

LEMMA ThirteenSeq ==
    ASSUME NEW t \in [1 .. 13 -> Nat]
    PROVE  t \in Seq(Nat) /\ Len(t) = 13
<1>1. 13 \in Nat
  OBVIOUS
<1> QED BY ZenonT(40), <1>1, ArrayIsSeq

\* A string is refused if its weight is not the check digit.
LEMMA RefusedIs ==
    ASSUME NEW s \in Seq(Nat), Len(s) = 13
    PROVE  /\ Weight(s) \in Nat
           /\ ParseIpeiString(s) = NotAnIpei <=> Weight(s) % 11 # s[13]
  BY SMT, ReadIs

\* A wrong digit, and two neighbours exchanged, are seen but at place eleven.
LEMMA WrongDigitSeen ==
    ASSUME NEW e \in Ipei, NEW s, Printed(s, e), NEW i \in 1 .. 12, NEW d \in 0 .. 9,
           NEW t, t = [s EXCEPT ![i] = d], t # s
    PROVE  /\ Differing(s, t) # {}
           /\ ParseIpeiString(t) = NotAnIpei <=> Differing(s, t) # {11}
<1>1. s \in Seq(Nat) /\ Len(s) = 13 /\ Weight(s) % 11 = s[13]
  BY SMT DEF Printed
<1>2. \A j \in 1 .. 12 : s[j] \in Nat /\ s[j] <= 9
  BY Zenon, PrintedDigits
<1>3. DOMAIN s = 1 .. 13 /\ s \in [1 .. 13 -> Nat]
  BY Zenon, <1>1, ThirteenAre
<1>4. DOMAIN t = 1 .. 13 /\ t[i] = d /\ \A j \in 1 .. 13 : j # i => t[j] = s[j]
  BY <1>3
<1>5. d \in Nat /\ d <= 9
  OBVIOUS
<1>6. t \in Seq(Nat) /\ Len(t) = 13
  <2>1. t \in [1 .. 13 -> Nat]
    BY Zenon, <1>3, <1>5
  <2> QED BY Zenon, <2>1, ThirteenSeq
<1>7. s[i] # d
  <2>1. SUFFICES ASSUME s[i] = d PROVE FALSE
    OBVIOUS
  <2>2. [s EXCEPT ![i] = d] = s
    BY Zenon, <1>3, <2>1
  <2> QED BY Zenon, <2>2
<1>8. Differing(s, t) = {i}
  <2>1. i \in 1 .. 13
    OBVIOUS
  <2> QED BY Zenon, <1>4, <1>7, <2>1 DEF Differing
<1>9. \A j \in 1 .. 12 : s[j] \in Nat /\ t[j] \in Nat
  <2>1. \A j \in 1 .. 12 : j \in 1 .. 13
    OBVIOUS
  <2> QED BY Zenon, <1>2, <1>4, <1>5, <2>1
<1>10. \A j \in 1 .. 12 : j # i => t[j] = s[j]
  <2>1. \A j \in 1 .. 12 : j \in 1 .. 13
    OBVIOUS
  <2> QED BY Zenon, <1>4, <2>1
<1>11. Weight(t) = Weight(s) + i * (d - s[i])
  <2>1. WrongDigit(s, t, i)
    BY Zenon, <1>9, <1>10, DigitWeighs
  <2> QED BY Zenon, <2>1, <1>4 DEF WrongDigit
<1>12. Weight(s) \in Nat
  BY Zenon, <1>1, RefusedIs
<1>13. Weight(t) % 11 = Weight(s) % 11 <=> i = 11
  <2>1. s[i] \in Nat /\ s[i] <= 9
    BY Zenon, <1>2
  <2>2. Seen(Weight(s), i, s[i], d)
    BY Zenon, <1>5, <1>7, <1>12, <2>1, ChangeSeen
  <2> QED BY Zenon, <1>11, <2>2 DEF Seen
<1>14. t[13] = s[13]
  <2>1. 13 \in 1 .. 13 /\ 13 # i
    OBVIOUS
  <2> QED BY Zenon, <1>4, <2>1
<1>15. ParseIpeiString(t) = NotAnIpei <=> Weight(t) % 11 # t[13]
  BY Zenon, <1>6, RefusedIs
<1>16. {i} # {11} <=> i # 11
  BY Zenon
<1> QED BY Zenon, <1>1, <1>8, <1>13, <1>14, <1>15, <1>16

LEMMA ExchangeSeen ==
    ASSUME NEW e \in Ipei, NEW s, Printed(s, e), NEW i \in 1 .. 11,
           NEW t, t = [s EXCEPT ![i] = s[i + 1], ![i + 1] = s[i]], t # s
    PROVE  /\ Differing(s, t) # {}
           /\ ParseIpeiString(t) = NotAnIpei <=> Differing(s, t) # {11}
<1>1. s \in Seq(Nat) /\ Len(s) = 13 /\ Weight(s) % 11 = s[13]
  BY SMT DEF Printed
<1>2. \A j \in 1 .. 12 : s[j] \in Nat /\ s[j] <= 9
  BY Zenon, PrintedDigits
<1>3. DOMAIN s = 1 .. 13 /\ s \in [1 .. 13 -> Nat]
  BY Zenon, <1>1, ThirteenAre
<1> DEFINE k == i + 1
<1>0. k \in 2 .. 12 /\ k # i /\ k \in 1 .. 13 /\ i \in 1 .. 13 /\ k \in 1 .. 12 /\ i \in 1 .. 12
  OBVIOUS
<1>4. t = [s EXCEPT ![i] = s[k], ![k] = s[i]]
  OBVIOUS
<1> HIDE DEF k
<1>5. /\ DOMAIN t = 1 .. 13 /\ t[i] = s[k] /\ t[k] = s[i]
      /\ \A j \in 1 .. 13 : j # i /\ j # k => t[j] = s[j]
  BY Zenon, <1>0, <1>3, <1>4
<1>6. t \in Seq(Nat) /\ Len(t) = 13
  <2>1. s[i] \in Nat /\ s[k] \in Nat
    BY Zenon, <1>0, <1>2
  <2>2. t \in [1 .. 13 -> Nat]
    BY Zenon, <1>3, <1>4, <2>1
  <2> QED BY Zenon, <2>2, ThirteenSeq
<1>7. s[i] # s[k]
  <2>1. SUFFICES ASSUME s[i] = s[k] PROVE FALSE
    OBVIOUS
  <2>2. \A j \in 1 .. 13 : t[j] = s[j]
    BY Zenon, <1>5, <2>1
  <2>3. t \in [1 .. 13 -> Nat]
    BY Zenon, <1>6, ThirteenAre
  <2>4. t = s
    BY Zenon, <1>3, <2>2, <2>3
  <2> QED BY Zenon, <2>4
<1>8. Differing(s, t) = {i, k}
  BY Zenon, <1>0, <1>5, <1>7 DEF Differing
<1>9. \A j \in 1 .. 12 : s[j] \in Nat /\ t[j] \in Nat
  <2>1. \A j \in 1 .. 12 : j \in 1 .. 13
    OBVIOUS
  <2> QED BY Zenon, <1>0, <1>2, <1>5, <2>1
<1>10. \A j \in 1 .. 12 : j \notin {i, k} => t[j] = s[j]
  <2>1. \A j \in 1 .. 12 : j \in 1 .. 13
    OBVIOUS
  <2> QED BY Zenon, <1>5, <2>1
<1>11. Weight(t) = Weight(s) + 1 * (s[i] - s[k])
  <2>1. t[i] = s[i + 1] /\ t[i + 1] = s[i]
    BY Zenon, <1>5 DEF k
  <2>2. \A j \in 1 .. 12 : j \notin {i, i + 1} => t[j] = s[j]
    BY Zenon, <1>10 DEF k
  <2>3. Weight(t) = Weight(s) + 1 * (s[i] - s[i + 1])
    BY Zenon, <1>9, <2>1, <2>2, ExchangeWeighs
  <2> QED BY Zenon, <2>3 DEF k
<1>12. Weight(s) \in Nat
  BY Zenon, <1>1, RefusedIs
<1>13. Weight(t) % 11 # Weight(s) % 11
  <2>1. s[i] \in Nat /\ s[i] <= 9 /\ s[k] \in Nat /\ s[k] <= 9
    BY Zenon, <1>0, <1>2
  <2>2. 1 \in 1 .. 12 /\ 1 # 11
    OBVIOUS
  <2>3. Seen(Weight(s), 1, s[k], s[i])
    BY Zenon, <1>7, <1>12, <2>1, <2>2, ChangeSeen
  <2> QED BY Zenon, <1>11, <2>2, <2>3 DEF Seen
<1>14. t[13] = s[13]
  <2>1. 13 \in 1 .. 13 /\ 13 # i /\ 13 # k
    BY <1>0
  <2> QED BY Zenon, <1>5, <2>1
<1>15. ParseIpeiString(t) = NotAnIpei <=> Weight(t) % 11 # t[13]
  BY Zenon, <1>6, RefusedIs
<1>16. {i, k} # {11}
  <2>1. i # 11 \/ k # 11
    BY <1>0
  <2> QED BY Zenon, <2>1
<1> QED BY Zenon, <1>1, <1>8, <1>13, <1>14, <1>15, <1>16

\* The packed form of the identity of a part in the MAC
LEMMA PmidRead ==
    ASSUME NEW n \in Nat
    PROVE  /\ n \div 65536 = 14 => ParsePmid(n) = [type |-> "default", num |-> n % 65536]
           /\ n \div 4096 = 241 => ParsePmid(n) = [type |-> "emergency", tpui |-> n % 4096]
           /\ n \div 65536 # 14 /\ n \div 4096 # 241
                 => ParsePmid(n) = [type |-> "assigned", tpui |-> n % 1048576]
<1> DEFINE p == ParsePmid(n)
           Default == n \div 65536 = 14
           Emergency == n \div 4096 = 241
           x == [type |-> "default", num |-> n % 65536]
           y == [type |-> "emergency", tpui |-> n % 4096]
           z == [type |-> "assigned", tpui |-> n % 1048576]
<1>1. p = CASE Default -> x [] Emergency -> y [] OTHER -> z
  BY SMT DEF ParsePmid
<1>2. ~(Default /\ Emergency)
  BY SMT
<1> HIDE DEF p, Default, Emergency, x, y, z
<1>3. /\ Default => p = x
      /\ Emergency => p = y
      /\ ~Default /\ ~Emergency => p = z
  BY SMT, <1>1, <1>2
<1> QED BY SMT, <1>3 DEF p, Default, Emergency, x, y, z

\* The kinds of a PMID
LEMMA PmidIs ==
    ASSUME NEW e \in Pmid
    PROVE  \/ /\ e.type = "default" /\ e.num \in Nat /\ e.num < 65536
              /\ e = [type |-> "default", num |-> e.num]
           \/ /\ e.type = "emergency" /\ e.tpui \in Nat /\ e.tpui < 4096
              /\ e = [type |-> "emergency", tpui |-> e.tpui]
           \/ /\ e.type = "assigned" /\ e.tpui \in Nat /\ e.tpui < 1048576
              /\ e = [type |-> "assigned", tpui |-> e.tpui]
<1> DEFINE k == 2 ^ 12 - 1
           m == 2 ^ 20 - 1
<1>9. k = 4095
  BY SMT
<1>8. m = 1048575
  BY SMT
<1>1. /\ k \in Nat /\ k < 4096 /\ m \in Nat /\ m < 1048576
  BY SMT, <1>8, <1>9
<1>2. Tpui12 = 0 .. k
  BY Zenon DEF Tpui12
<1>0. Tpui20 = 0 .. m
  BY Zenon DEF Tpui20
<1> HIDE DEF k, m
<1>3. \A n \in Tpui12 : n \in Nat /\ n <= k
  BY <1>1, <1>2
<1>4. \A n \in Tpui20 : n \in Nat /\ n <= m
  BY <1>1, <1>0
<1>5. CASE e \in [type : {"default"}, num : Word]
  <2>1. e.type = "default" /\ e.num \in Word /\ e = [type |-> "default", num |-> e.num]
    BY SMT, <1>5
  <2>2. e.num \in Nat /\ e.num < 65536
    BY SMT, <2>1, WordIs
  <2> QED BY SMT, <2>1, <2>2
<1>6. CASE e \in [type : {"emergency"}, tpui : Tpui12]
  <2>1. e.type = "emergency" /\ e.tpui \in Tpui12 /\ e = [type |-> "emergency", tpui |-> e.tpui]
    BY SMT, <1>6
  <2>2. e.tpui \in Nat /\ e.tpui < 4096
    BY SMT, <1>1, <1>3, <2>1
  <2> QED BY SMT, <2>1, <2>2
<1>7. CASE e \in [type : {"assigned"}, tpui : Tpui20]
  <2>1. e.type = "assigned" /\ e.tpui \in Tpui20 /\ e = [type |-> "assigned", tpui |-> e.tpui]
    BY SMT, <1>7
  <2>2. e.tpui \in Nat /\ e.tpui < 1048576
    BY SMT, <1>1, <1>4, <2>1
  <2> QED BY SMT, <2>1, <2>2
<1> QED BY SMT, <1>5, <1>6, <1>7 DEF Pmid

\* A PMID is a number of 20 bits.
LEMMA BuildPmidNat ==
    ASSUME NEW e \in Pmid
    PROVE  BuildPmid(e) \in Nat
<1>1. CASE e.type = "default" /\ e.num \in Nat
  BY SMT, <1>1 DEF BuildPmid
<1>2. CASE e.type = "emergency" /\ e.tpui \in Nat
  BY SMT, <1>2 DEF BuildPmid
<1>3. CASE e.type = "assigned" /\ e.tpui \in Nat
  BY SMT, <1>3 DEF BuildPmid
<1> QED BY SMT, <1>1, <1>2, <1>3, PmidIs

\* A PMID is read as it was built if, and only if, it is not ambiguous.
LEMMA PmidCoded ==
    ASSUME NEW e \in Pmid
    PROVE  ParsePmid(BuildPmid(e)) = e <=> ~Ambiguous("PMID", e)
<1>1. CASE /\ e.type = "default" /\ e.num \in Nat /\ e.num < 65536
           /\ e = [type |-> "default", num |-> e.num]
  <2>1. BuildPmid(e) = 917504 + e.num
    BY SMT, <1>1 DEF BuildPmid
  <2>2. /\ BuildPmid(e) \in Nat /\ BuildPmid(e) \div 65536 = 14
        /\ BuildPmid(e) % 65536 = e.num
    BY SMT, <1>1, <2>1
  <2>3. ParsePmid(BuildPmid(e)) = [type |-> "default", num |-> e.num]
    BY SMT, <2>2, PmidRead
  <2>4. ~Ambiguous("PMID", e)
    BY SMT, <1>1 DEF Ambiguous
  <2> QED BY SMT, <1>1, <2>3, <2>4
<1>2. CASE /\ e.type = "emergency" /\ e.tpui \in Nat /\ e.tpui < 4096
           /\ e = [type |-> "emergency", tpui |-> e.tpui]
  <2>1. BuildPmid(e) = 987136 + e.tpui
    BY SMT, <1>2 DEF BuildPmid
  <2>2. /\ BuildPmid(e) \in Nat /\ BuildPmid(e) \div 4096 = 241
        /\ BuildPmid(e) % 4096 = e.tpui
    BY SMT, <1>2, <2>1
  <2>3. ParsePmid(BuildPmid(e)) = [type |-> "emergency", tpui |-> e.tpui]
    BY SMT, <2>2, PmidRead
  <2>4. ~Ambiguous("PMID", e)
    BY SMT, <1>2 DEF Ambiguous
  <2> QED BY SMT, <1>2, <2>3, <2>4
<1>3. CASE /\ e.type = "assigned" /\ e.tpui \in Nat /\ e.tpui < 1048576
           /\ e = [type |-> "assigned", tpui |-> e.tpui]
  <2>1. BuildPmid(e) = e.tpui
    BY SMT, <1>3 DEF BuildPmid
  <2>2. e.tpui % 1048576 = e.tpui
    BY SMT, <1>3
  <2>3. CASE e.tpui \div 65536 = 14
    <3>1. ParsePmid(BuildPmid(e)) = [type |-> "default", num |-> e.tpui % 65536]
      BY SMT, <1>3, <2>1, <2>3, PmidRead
    <3>2. ParsePmid(BuildPmid(e)) # e
      BY SMT, <1>3, <3>1
    <3> QED BY SMT, <1>3, <2>3, <3>2 DEF Ambiguous
  <2>4. CASE e.tpui \div 4096 = 241
    <3>1. ParsePmid(BuildPmid(e)) = [type |-> "emergency", tpui |-> e.tpui % 4096]
      BY SMT, <1>3, <2>1, <2>4, PmidRead
    <3>2. ParsePmid(BuildPmid(e)) # e
      BY SMT, <1>3, <3>1
    <3> QED BY SMT, <1>3, <2>4, <3>2 DEF Ambiguous
  <2>5. CASE e.tpui \div 65536 # 14 /\ e.tpui \div 4096 # 241
    <3>1. ParsePmid(BuildPmid(e)) = [type |-> "assigned", tpui |-> e.tpui % 1048576]
      BY SMT, <1>3, <2>1, <2>5, PmidRead
    <3> QED BY SMT, <1>3, <2>2, <2>5, <3>1 DEF Ambiguous
  <2> QED BY SMT, <2>3, <2>4, <2>5
<1> QED BY SMT, <1>1, <1>2, <1>3, PmidIs

-----------------------------------------------------------------------------
(* The invariant *)

\* What may be built: what an application makes, and after that what was parsed
Values(element) == IF relayed THEN Settled(element) ELSE Element(element)

\* What the octets of an element on their way are
OnTheWay ==
    /\ octets # NotBuilt => octets \in Seq(Octet) /\ Len(octets) <= 257
    /\ given # Nothing => /\ given \in Values(ie)
                          /\ octets = AddHeader(ie, BuildElement(ie, given))
                          /\ Outcome(ie, given)

Absent == octets \in {<<>>, NotBuilt}

ElementInv ==
    ie \in IE =>
        /\ relayed => Handler[ie].parse /\ (ie = "PORTABLE_IDENTITY" => Buildable(given))
        /\ pc = "build" => parsed = Invalid /\ given \in Values(ie)
        /\ pc \in {"parse", "done"} => OnTheWay
        /\ pc = "parse" => /\ parsed = Invalid /\ octets # NotBuilt
                           /\ given # Nothing => ~Absent
        /\ pc = "done" =>
              /\ parsed # Invalid => /\ Handler[ie].parse /\ octets # NotBuilt
                                     /\ parsed = ParseElement(ie, octets)
              /\ given # Nothing => /\ Absent => parsed = Invalid
                                    /\ ~Absent /\ Handler[ie].parse =>
                                          parsed = ParseElement(ie, octets)

FormInv ==
    ie \in Form =>
        /\ ~relayed /\ given \in FormValue[ie]
        /\ pc \in {"build", "parse"} => parsed = Invalid
        /\ pc \in {"parse", "done"} =>
              \/ octets = BuildForm(ie, given)
              \/ /\ ie = "IPEI_STRING"
                 /\ Mistyped(FormatIpei(given), octets) /\ octets # FormatIpei(given)
        /\ pc = "done" => parsed = ParseForm(ie, octets)

IInv ==
    /\ pc \in {"build", "parse", "done"}
    /\ relayed \in BOOLEAN
    /\ ie \in IE \cup Form
    /\ ElementInv
    /\ FormInv

\* An identity has no element of its name.
LEMMA FormsAreNoElements ==
    IE \cap Form = {}
  BY DEF IE, SingleOctetId, ExtendedId, DoubleOctetId, VariableLengthId, Form

\* What cannot be built is not sent, everything else has contents.
LEMMA SentNotAbsent ==
    ASSUME NEW element, NEW e, NEW o, o = AddHeader(element, BuildElement(element, e)),
           Sent(element, e)
    PROVE  /\ o \notin {<<>>, NotBuilt} /\ o \in Seq(Octet) /\ Len(o) <= 257
           /\ ParseHeader(o).id = Id[element] /\ ParseHeader(o).len = Len(o)
           /\ Handler[element].parse => Arrives(element, e, ParseElement(element, o))
<1>1. Framed(element, o) /\ (Handler[element].parse => Arrives(element, e, ParseElement(element, o)))
  BY Zenon DEF Sent
<1>2. o \in Seq(Octet) /\ Len(o) \in 1 .. 257
      /\ ParseHeader(o) = [id |-> Id[element], len |-> Len(o)]
  BY Zenon, <1>1 DEF Framed
<1>3. o # NotBuilt
  BY Zenon, <1>2, NotBuiltIs
<1>4. \A m \in 1 .. 257 : m # 0 /\ m <= 257
  OBVIOUS
<1>5. Len(o) # 0 /\ Len(o) <= 257
  BY Zenon, <1>2, <1>4
<1>6. o # <<>>
  <2>1. Len(<<>>) = 0
    OBVIOUS
  <2> QED BY Zenon, <1>5, <2>1
<1>7. ParseHeader(o).id = Id[element] /\ ParseHeader(o).len = Len(o)
  <2> DEFINE h == ParseHeader(o)
             i == Id[element]
             l == Len(o)
  <2>1. h = [id |-> i, len |-> l]
    BY Zenon, <1>2
  <2> HIDE DEF h, i, l
  <2>2. h.id = i /\ h.len = l
    BY <2>1
  <2> QED BY Zenon, <2>2 DEF h, i, l
<1> QED BY Zenon, <1>1, <1>2, <1>3, <1>5, <1>6, <1>7

\* What is known of the octets of an element
LEMMA OutcomeIs ==
    ASSUME NEW element, NEW e, NEW o, o = AddHeader(element, BuildElement(element, e)),
           Outcome(element, e)
    PROVE  /\ o # NotBuilt => o \in Seq(Octet) /\ Len(o) <= 257
           /\ o \notin {<<>>, NotBuilt} => Sent(element, e)
           /\ o = <<>> => e \in {[info |-> <<>>], [type |-> <<>>], [events |-> <<>>]}
           /\ o = NotBuilt => element = "PORTABLE_IDENTITY" /\ e.ipui.put \in OtherPut
<1>0. <<>> \in Seq(Octet) /\ Len(<<>>) <= 257
  OBVIOUS
<1>1. <<>> # NotBuilt
  BY Zenon, <1>0, NotBuiltIs
<1>2. \/ o = NotBuilt /\ element = "PORTABLE_IDENTITY" /\ e.ipui.put \in OtherPut
      \/ o = <<>> /\ e \in {[info |-> <<>>], [type |-> <<>>], [events |-> <<>>]}
      \/ Sent(element, e)
  BY Zenon DEF Outcome
<1>3. CASE Sent(element, e)
  <2>1. o \notin {<<>>, NotBuilt} /\ o \in Seq(Octet) /\ Len(o) <= 257
    BY ZenonT(40), <1>3, SentNotAbsent
  <2> QED BY Zenon, <1>3, <2>1
<1>4. CASE o = NotBuilt /\ element = "PORTABLE_IDENTITY" /\ e.ipui.put \in OtherPut
  BY Zenon, <1>1, <1>4
<1>5. CASE o = <<>> /\ e \in {[info |-> <<>>], [type |-> <<>>], [events |-> <<>>]}
  BY Zenon, <1>0, <1>1, <1>5
<1> QED BY Zenon, <1>2, <1>3, <1>4, <1>5

\* Nothing is on its way at first.
LEMMA InitIInv ==
    Init => IInv
<1> SUFFICES ASSUME Init
             PROVE  IInv
  OBVIOUS
<1>0. parsed = Invalid /\ relayed = FALSE
  BY DEF Init
<1>1. CASE \E i \in DOMAIN Given : \E e \in Given[i] :
              /\ ie = i
              /\ given = e
              /\ octets = <<>>
              /\ pc = "build"
  <2>0. PICK i \in DOMAIN Given : \E e \in Given[i] : ie = i /\ given = e /\ pc = "build"
    BY Zenon, <1>1
  <2>1. PICK e \in Given[i] : ie = i /\ given = e /\ pc = "build"
    BY Zenon, <2>0
  <2>2. \/ i \in Form /\ e \in FormValue[i]
        \/ i \in IE /\ e \in Element(i)
    BY Zenon, <2>1, GivenAssumption
  <2>3. pc \in {"build", "parse", "done"} /\ pc \notin {"parse", "done"} /\ pc # "done" /\ pc # "parse"
    BY <2>1
  <2>4. ie \in IE \cup Form
    BY Zenon, <2>1, <2>2
  <2>5. ElementInv
    BY Zenon, <1>0, <2>1, <2>2, <2>3, FormsAreNoElements DEF ElementInv, Values
  <2>6. FormInv
    BY Zenon, <1>0, <2>1, <2>2, <2>3, FormsAreNoElements DEF FormInv
  <2> QED BY Zenon, <1>0, <2>3, <2>4, <2>5, <2>6 DEF IInv
<1>2. CASE \E i \in DOMAIN Received : \E o \in Received[i] :
              /\ ie = i
              /\ given = Nothing
              /\ octets = o
              /\ pc = "parse"
  <2>0. PICK i \in DOMAIN Received : \E o \in Received[i] :
           ie = i /\ given = Nothing /\ octets = o /\ pc = "parse"
    BY Zenon, <1>2
  <2>1. PICK o \in Received[i] : ie = i /\ given = Nothing /\ octets = o /\ pc = "parse"
    BY Zenon, <2>0
  <2>2. i \in IE /\ o \in Seq(Octet) /\ Len(o) <= 257
    <3>1. i \in IE /\ \A x \in Received[i] : x \in Seq(Octet) /\ Len(x) <= 2 + 255
      BY Zenon, ReceivedAssumption
    <3>2. i \in IE /\ o \in Seq(Octet) /\ Len(o) <= 2 + 255
      BY Zenon, <2>1, <3>1
    <3>3. Len(o) <= 257
      BY <3>2
    <3> QED BY Zenon, <3>2, <3>3
  <2>3. pc \in {"build", "parse", "done"} /\ pc # "build" /\ pc # "done"
    BY <2>1
  <2>4. ie \in IE \cup Form
    BY Zenon, <2>1, <2>2
  <2>5. octets # NotBuilt
    BY Zenon, <2>1, <2>2, NotBuiltIs
  <2>6. ElementInv
    BY Zenon, <1>0, <2>1, <2>2, <2>3, <2>5 DEF ElementInv, OnTheWay
  <2>7. FormInv
    BY Zenon, <2>1, <2>2, FormsAreNoElements DEF FormInv
  <2> QED BY Zenon, <1>0, <2>3, <2>4, <2>6, <2>7 DEF IInv
<1> QED BY Zenon, <1>1, <1>2 DEF Init

\* An element that is written as another one is parsed as that.
LEMMA SentAsParsed ==
    ASSUME NEW element \in IE, NEW e, NEW s, s = SentAs(element, e)
    PROVE  /\ Handler[element].parse => Handler[s].parse
           /\ s = "PORTABLE_IDENTITY" => element = "PORTABLE_IDENTITY"
<1>1. CASE s = element
  BY Zenon, <1>1
<1>2. CASE element \in DOMAIN MultiOf /\ s = MultiOf[element]
  <2>1. element \in {"SINGLE_DISPLAY", "SINGLE_KEYPAD"}
    BY <1>2 DEF MultiOf
  <2>2. s \in {"MULTI_DISPLAY", "MULTI_KEYPAD"}
    BY <1>2, <2>1 DEF MultiOf
  <2>3. Handler["MULTI_DISPLAY"].parse /\ Handler["MULTI_KEYPAD"].parse
    BY DEF Handler, IE, SingleOctetId, ExtendedId, DoubleOctetId, VariableLengthId,
       FixedLengthHandler, VariableLengthHandler, MoreVariableLengthHandler, Coded
  <2> QED BY Zenon, <2>2, <2>3
<1> QED BY Zenon, <1>1, <1>2 DEF SentAs

-----------------------------------------------------------------------------
(* The invariant is kept *)

\* One lemma per action
LEMMA BuildIInv ==
    IInv /\ Build => IInv'
<1> SUFFICES ASSUME IInv, Build
             PROVE  IInv'
  OBVIOUS
<1> DEFINE s == SentAs(ie, given)
           built == AddHeader(s, BuildElement(s, given))
<1>1. /\ pc = "build" /\ ie \in IE /\ Handler[s].build /\ ie' = s /\ octets' = built
      /\ pc' = IF built \in {<<>>, NotBuilt} THEN "done" ELSE "parse"
      /\ given' = given /\ parsed' = parsed /\ relayed' = relayed
  BY Zenon DEF Build
<1>2. /\ relayed => Handler[ie].parse /\ (ie = "PORTABLE_IDENTITY" => Buildable(given))
      /\ parsed = Invalid /\ given \in Values(ie)
  BY Zenon, <1>1 DEF IInv, ElementInv
<1>3. /\ s \in IE /\ Outcome(s, given)
      /\ given \in Element(ie) => given \in Element(s)
      /\ given \in Settled(ie) => given \in Settled(s)
  <2>1. given \in Element(ie) \cup Settled(ie)
    BY Zenon, <1>2 DEF Values
  <2> HIDE DEF s
  <2>2. s = SentAs(ie, given)
    BY Zenon DEF s
  <2> QED BY Zenon, <1>1, <2>1, <2>2, BuildOutcome
<1>4. /\ Handler[ie].parse => Handler[s].parse
      /\ s = "PORTABLE_IDENTITY" => ie = "PORTABLE_IDENTITY"
  BY Zenon, <1>1, SentAsParsed
<1>5. (given \in Values(ie))'
  BY Zenon, <1>1, <1>2, <1>3 DEF Values
<1> HIDE DEF s
<1>6. built # NotBuilt => built \in Seq(Octet) /\ Len(built) <= 257
  BY ZenonT(40), <1>3, OutcomeIs
<1> HIDE DEF built
<1>7. OnTheWay'
  <2>1. (octets = AddHeader(ie, BuildElement(ie, given)))'
    BY Zenon, <1>1 DEF built
  <2>2. Outcome(ie, given)'
    BY Zenon, <1>1, <1>3 DEF Outcome
  <2> QED BY Zenon, <1>1, <1>5, <1>6, <2>1, <2>2 DEF OnTheWay
<1>8. CASE built \in {<<>>, NotBuilt}
  <2>1. pc' = "done" /\ Absent' /\ parsed' = Invalid
    BY Zenon, <1>1, <1>2, <1>8 DEF Absent
  <2>2. pc' # "build" /\ pc' # "parse"
    BY <2>1
  <2>3. ElementInv'
    BY Zenon, <1>1, <1>2, <1>4, <1>7, <2>1, <2>2 DEF ElementInv
  <2>4. FormInv'
    BY Zenon, <1>1, <1>3, FormsAreNoElements DEF FormInv
  <2> QED BY Zenon, <1>1, <1>3, <2>1, <2>3, <2>4 DEF IInv
<1>9. CASE built \notin {<<>>, NotBuilt}
  <2>1. pc' = "parse" /\ ~Absent' /\ parsed' = Invalid
    BY Zenon, <1>1, <1>2, <1>9 DEF Absent
  <2>2. pc' # "build" /\ pc' # "done"
    BY <2>1
  <2>3. octets' # NotBuilt
    BY Zenon, <1>1, <1>9
  <2>4. ElementInv'
    BY Zenon, <1>1, <1>2, <1>4, <1>7, <2>1, <2>2, <2>3 DEF ElementInv
  <2>5. FormInv'
    BY Zenon, <1>1, <1>3, FormsAreNoElements DEF FormInv
  <2> QED BY Zenon, <1>1, <1>3, <2>1, <2>4, <2>5 DEF IInv
<1> QED BY Zenon, <1>8, <1>9

LEMMA ParseIInv ==
    IInv /\ Parse => IInv'
<1> SUFFICES ASSUME IInv, Parse
             PROVE  IInv'
  OBVIOUS
<1> DEFINE found == Handler[ie].parse /\ ParseHeader(octets).id = Id[ie]
<1>1. /\ pc = "parse" /\ ie \in IE /\ pc' = "done"
      /\ parsed' = IF found THEN ParseElement(ie, octets) ELSE Invalid
      /\ ie' = ie /\ given' = given /\ octets' = octets /\ relayed' = relayed
  BY Zenon DEF Parse
<1>2. /\ relayed => Handler[ie].parse /\ (ie = "PORTABLE_IDENTITY" => Buildable(given))
      /\ OnTheWay /\ octets # NotBuilt
      /\ given # Nothing => ~Absent
  BY Zenon, <1>1 DEF IInv, ElementInv
<1>3. OnTheWay'
  <2>1. Outcome(ie, given) => Outcome(ie, given)'
    BY Zenon, <1>1 DEF Outcome
  <2>2. Values(ie)' = Values(ie)
    BY Zenon, <1>1 DEF Values
  <2> QED BY Zenon, <1>1, <1>2, <2>1, <2>2 DEF OnTheWay
<1>4. given # Nothing /\ Handler[ie].parse => parsed' = ParseElement(ie, octets)
  <2>1. SUFFICES ASSUME given # Nothing, Handler[ie].parse
                 PROVE  parsed' = ParseElement(ie, octets)
    OBVIOUS
  <2>2. /\ octets = AddHeader(ie, BuildElement(ie, given)) /\ Outcome(ie, given)
        /\ octets \notin {<<>>, NotBuilt}
    BY Zenon, <1>2, <2>1 DEF OnTheWay, Absent
  <2>3. Sent(ie, given)
    BY Zenon, <2>2, OutcomeIs
  <2>4. ParseHeader(octets).id = Id[ie]
    BY Zenon, <2>2, <2>3, SentNotAbsent
  <2> QED BY Zenon, <1>1, <2>1, <2>4
<1>5. parsed' # Invalid => Handler[ie].parse /\ parsed' = ParseElement(ie, octets)
  BY Zenon, <1>1
<1> HIDE DEF found
<1>6. pc' # "build" /\ pc' # "parse"
  BY <1>1
<1>7. given' # Nothing => ~Absent'
  BY Zenon, <1>1, <1>2 DEF Absent
<1>8. ElementInv'
  BY Zenon, <1>1, <1>2, <1>3, <1>4, <1>5, <1>6, <1>7 DEF ElementInv
<1>9. FormInv'
  BY Zenon, <1>1, FormsAreNoElements DEF FormInv
<1> QED BY Zenon, <1>1, <1>8, <1>9 DEF IInv

LEMMA RelayIInv ==
    IInv /\ Relay => IInv'
<1> SUFFICES ASSUME IInv, Relay
             PROVE  IInv'
  OBVIOUS
<1>1. /\ pc = "done" /\ given # Nothing /\ parsed # Invalid /\ ie \in IE
      /\ ~relayed
      /\ relayed' = TRUE /\ given' = parsed /\ parsed' = Invalid /\ pc' = "build" /\ ie' = ie
  BY Zenon DEF Relay
<1>2. pc # "build" /\ pc # "parse" /\ pc' # "parse" /\ pc' # "done"
  BY <1>1
<1>3. /\ OnTheWay /\ Handler[ie].parse /\ octets # NotBuilt /\ parsed = ParseElement(ie, octets)
      /\ ~Absent
  BY Zenon, <1>1 DEF IInv, ElementInv
<1>4. /\ given \in Element(ie) /\ octets = AddHeader(ie, BuildElement(ie, given))
      /\ Outcome(ie, given)
  BY Zenon, <1>1, <1>3 DEF OnTheWay, Values
<1>5. Sent(ie, given)
  BY Zenon, <1>3, <1>4, OutcomeIs DEF Absent
<1>6. Arrives(ie, given, parsed)
  BY Zenon, <1>3, <1>4, <1>5, SentNotAbsent
<1>7. parsed \in Settled(ie)
  BY Zenon, <1>6 DEF Arrives
<1>8. ie = "PORTABLE_IDENTITY" => Buildable(parsed)
  <2>1. SUFFICES ASSUME ie = "PORTABLE_IDENTITY"
                 PROVE  Buildable(parsed)
    OBVIOUS
  <2>2. given \in PortableIdentity
    BY Zenon, <1>4, <2>1 DEF Element
  <2>3. Buildable(given)
    <3>1. SUFFICES ASSUME ~Buildable(given)
                   PROVE  FALSE
      OBVIOUS
    <3>2. BuildPortableIdentity(given) = NotBuilt
      BY Zenon, <2>2, <3>1, PortableIdentityNotBuilt DEF Buildable
    <3>3. BuildElement("PORTABLE_IDENTITY", given) = BuildPortableIdentity(given)
      BY DEF BuildElement
    <3>4. octets = NotBuilt
      BY Zenon, <1>4, <2>1, <3>2, <3>3 DEF AddHeader
    <3> QED BY Zenon, <1>3, <3>4
  <2> QED BY Zenon, <1>3, <1>4, <2>1, <2>3, PortableIdentitySent
<1>9. ElementInv'
  <2>1. (given \in Values(ie))'
    BY Zenon, <1>1, <1>7 DEF Values
  <2> QED BY Zenon, <1>1, <1>2, <1>3, <1>8, <2>1 DEF ElementInv
<1>10. FormInv'
  BY Zenon, <1>1, FormsAreNoElements DEF FormInv
<1> QED BY Zenon, <1>1, <1>9, <1>10 DEF IInv

LEMMA FormatIInv ==
    IInv /\ Format => IInv'
<1> SUFFICES ASSUME IInv, Format
             PROVE  IInv'
  OBVIOUS
<1>1. /\ pc = "build" /\ ie \in Form /\ octets' = BuildForm(ie, given) /\ pc' = "parse"
      /\ ie' = ie /\ given' = given /\ parsed' = parsed /\ relayed' = relayed
  BY Zenon DEF Format
<1>2. ~relayed /\ given \in FormValue[ie] /\ parsed = Invalid
  BY Zenon, <1>1 DEF IInv, FormInv
<1>3. pc' # "done"
  BY <1>1
<1>4. octets' = BuildForm(ie, given)'
  BY Zenon, <1>1
<1>5. FormInv'
  BY Zenon, <1>1, <1>2, <1>3, <1>4 DEF FormInv
<1>6. ElementInv'
  BY Zenon, <1>1, FormsAreNoElements DEF ElementInv
<1> QED BY Zenon, <1>1, <1>5, <1>6 DEF IInv

LEMMA MistypeIInv ==
    IInv /\ Mistype => IInv'
<1> SUFFICES ASSUME IInv, Mistype
             PROVE  IInv'
  OBVIOUS
<1>1. /\ pc = "parse" /\ ie = "IPEI_STRING" /\ octets = FormatIpei(given)
      /\ Mistyped(octets, octets') /\ octets' # octets
      /\ ie' = ie /\ given' = given /\ parsed' = parsed /\ relayed' = relayed /\ pc' = pc
  BY Zenon DEF Mistype, Mistyped
<1>2. ie \in Form /\ pc' # "done"
  BY <1>1 DEF Form
<1>3. ~relayed /\ given \in FormValue[ie] /\ parsed = Invalid
  BY Zenon, <1>1, <1>2 DEF IInv, FormInv
<1>4. (/\ ie = "IPEI_STRING"
       /\ Mistyped(FormatIpei(given), octets) /\ octets # FormatIpei(given))'
  BY Zenon, <1>1
<1>5. FormInv'
  BY Zenon, <1>1, <1>2, <1>3, <1>4 DEF FormInv
<1>6. ElementInv'
  BY Zenon, <1>1, <1>2, FormsAreNoElements DEF ElementInv
<1> QED BY Zenon, <1>1, <1>2, <1>5, <1>6 DEF IInv

LEMMA ParseIdentityIInv ==
    IInv /\ ParseIdentity => IInv'
<1> SUFFICES ASSUME IInv, ParseIdentity
             PROVE  IInv'
  OBVIOUS
<1>1. /\ pc = "parse" /\ ie \in Form /\ parsed' = ParseForm(ie, octets) /\ pc' = "done"
      /\ ie' = ie /\ given' = given /\ octets' = octets /\ relayed' = relayed
  BY Zenon DEF ParseIdentity
<1>2. /\ ~relayed /\ given \in FormValue[ie]
      /\ \/ octets = BuildForm(ie, given)
         \/ /\ ie = "IPEI_STRING"
            /\ Mistyped(FormatIpei(given), octets) /\ octets # FormatIpei(given)
  BY Zenon, <1>1 DEF IInv, FormInv
<1>3. pc' # "build" /\ pc' # "parse"
  BY <1>1
<1>4. (\/ octets = BuildForm(ie, given)
       \/ /\ ie = "IPEI_STRING"
          /\ Mistyped(FormatIpei(given), octets) /\ octets # FormatIpei(given))'
  BY Zenon, <1>1, <1>2
<1>5. FormInv'
  BY Zenon, <1>1, <1>2, <1>3, <1>4 DEF FormInv
<1>6. ElementInv'
  BY Zenon, <1>1, FormsAreNoElements DEF ElementInv
<1> QED BY Zenon, <1>1, <1>5, <1>6 DEF IInv

\* ... and so every step keeps the invariant.
LEMMA NextIInv ==
    IInv /\ [Next]_vars => IInv'
<1>1. IInv /\ UNCHANGED vars => IInv'
  <2> SUFFICES ASSUME IInv, UNCHANGED vars
               PROVE  IInv'
    OBVIOUS
  <2>1. /\ ie' = ie /\ given' = given /\ octets' = octets /\ parsed' = parsed
        /\ relayed' = relayed /\ pc' = pc
    BY Zenon DEF vars
  <2>2. OnTheWay <=> OnTheWay'
    BY Zenon, <2>1 DEF OnTheWay, Outcome, Values
  <2>3. Absent <=> Absent'
    BY Zenon, <2>1 DEF Absent
  <2>4. given \in Values(ie) <=> (given \in Values(ie))'
    BY Zenon, <2>1 DEF Values
  <2>5. ElementInv => ElementInv'
    BY Zenon, <2>1, <2>2, <2>3, <2>4 DEF ElementInv
  <2>6. FormInv => FormInv'
    BY Zenon, <2>1 DEF FormInv
  <2> QED BY Zenon, <2>1, <2>5, <2>6 DEF IInv
<1> QED BY Zenon, <1>1, BuildIInv, ParseIInv, RelayIInv, FormatIInv, MistypeIInv,
       ParseIdentityIInv DEF Next

\* In every state of every behaviour the octets, the element and what the peer
\* reads belong together as the handlers of s_msg.c make them (IInv).
THEOREM InductiveInvariant ==
    Spec => []IInv
<1> QED BY InitIInv, NextIInv, PTL DEF Spec

-----------------------------------------------------------------------------
(* The theorems *)

\* What IInv says of an element the application built and the peer has got
LEMMA DoneIs ==
    ASSUME IInv, Done
    PROVE  /\ ie \in IE /\ given \in Values(ie)
           /\ octets = NotBuilt => ie = "PORTABLE_IDENTITY" /\ given.ipui.put \in OtherPut
           /\ octets = <<>> =>
                 given \in {[info |-> <<>>], [type |-> <<>>], [events |-> <<>>]}
           /\ ~Absent =>
                 /\ ParseHeader(octets) = [id |-> Id[ie], len |-> Len(octets)]
                 /\ Handler[ie].parse => Arrives(ie, given, parsed)
<1>1. pc = "done" /\ given # Nothing /\ ie \in IE
  BY Zenon DEF Done
<1>2. /\ OnTheWay
      /\ ~Absent /\ Handler[ie].parse => parsed = ParseElement(ie, octets)
  BY Zenon, <1>1 DEF IInv, ElementInv
<1>3. /\ given \in Values(ie) /\ octets = AddHeader(ie, BuildElement(ie, given))
      /\ Outcome(ie, given)
  BY Zenon, <1>1, <1>2 DEF OnTheWay
<1>4. /\ octets = NotBuilt => ie = "PORTABLE_IDENTITY" /\ given.ipui.put \in OtherPut
      /\ octets = <<>> => given \in {[info |-> <<>>], [type |-> <<>>], [events |-> <<>>]}
      /\ ~Absent => Sent(ie, given)
  BY ZenonT(40), <1>3, OutcomeIs DEF Absent
<1>5. ASSUME ~Absent
      PROVE  /\ ParseHeader(octets) = [id |-> Id[ie], len |-> Len(octets)]
             /\ Handler[ie].parse => Arrives(ie, given, parsed)
  <2>1. Sent(ie, given)
    BY Zenon, <1>4, <1>5
  <2>2. Framed(ie, octets)
    BY Zenon, <1>3, <2>1 DEF Sent
  <2>3. Handler[ie].parse => Arrives(ie, given, parsed)
    BY Zenon, <1>2, <1>3, <1>5, <2>1, SentNotAbsent
  <2> QED BY Zenon, <2>2, <2>3 DEF Framed
<1> QED BY Zenon, <1>1, <1>3, <1>4, <1>5

\* Every element that dect_build_sfmt_ie builds is framed so that its parser finds
\* it and the start of the next one, and every parser accepts what its builder makes.
THEOREM EveryElementIsFramed ==
    Spec => []ElementFramed
<1>1. IInv => ElementFramed
  <2> SUFFICES ASSUME IInv, Done
               PROVE  CASE octets = NotBuilt -> ie = "PORTABLE_IDENTITY" /\ given.ipui.put \in OtherPut
                        [] octets = <<>> -> given \in {[info |-> <<>>], [type |-> <<>>], [events |-> <<>>]}
                        [] OTHER -> /\ ParseHeader(octets) = [id |-> Id[ie], len |-> Len(octets)]
                                    /\ Handler[ie].parse => parsed # Invalid
    BY Zenon DEF ElementFramed
  <2> DEFINE a == octets = NotBuilt
             b == octets = <<>>
             x == ie = "PORTABLE_IDENTITY" /\ given.ipui.put \in OtherPut
             y == given \in {[info |-> <<>>], [type |-> <<>>], [events |-> <<>>]}
             z == /\ ParseHeader(octets) = [id |-> Id[ie], len |-> Len(octets)]
                  /\ Handler[ie].parse => parsed # Invalid
  <2>1. (a => x) /\ (b => y)
    BY Zenon, DoneIs
  <2>2. ~a /\ ~b => z
    BY Zenon, DoneIs DEF Absent, Arrives
  <2>3. ~(a /\ b)
    <3>1. <<>> \in Seq(Octet)
      OBVIOUS
    <3> QED BY Zenon, <3>1, NotBuiltIs
  <2> HIDE DEF a, b, x, y, z
  <2>4. (CASE a -> x [] b -> y [] OTHER -> z)
    BY Zenon, <2>1, <2>2, <2>3
  <2> QED BY Zenon, <2>4 DEF a, b, x, y, z
<1> QED BY <1>1, InductiveInvariant, PTL

\* An element with a builder and a parser arrives as the application made it if, and
\* only if, it avoids the values on which the two disagree.
THEOREM ElementsSurvive ==
    Spec => []ElementSurvives
<1>1. IInv => ElementSurvives
  <2> SUFFICES ASSUME IInv, Done, ~relayed, Len(octets) > 0, octets # NotBuilt, Handler[ie].parse
               PROVE  parsed = given <=> Exact(ie, given)
    BY Zenon DEF ElementSurvives
  <2>1. octets # <<>>
    OBVIOUS
  <2>2. Arrives(ie, given, parsed) /\ given \in Values(ie)
    BY Zenon, <2>1, DoneIs DEF Absent
  <2> QED BY Zenon, <2>2 DEF Arrives, Values
<1> QED BY <1>1, InductiveInvariant, PTL

\* What was parsed once is built and parsed again without a change, with the exceptions
\* LossHappensOnce names.
THEOREM LossesHappenOnce ==
    Spec => []LossHappensOnce
<1>1. IInv => LossHappensOnce
  <2> SUFFICES ASSUME IInv, Done, relayed, Len(octets) > 0
               PROVE  \/ parsed = given
                      \/ ie \in {"DURATION", "TERMINAL_CAPABILITY"}
                      \/ ie = "AUTH_TYPE" /\ given.auth_id = AuthProprietary
    BY Zenon DEF LossHappensOnce
  <2>1. octets # <<>>
    OBVIOUS
  <2>2. /\ Handler[ie].parse /\ (ie = "PORTABLE_IDENTITY" => Buildable(given))
        /\ OnTheWay /\ given # Nothing
    BY Zenon DEF IInv, ElementInv, Done
  <2>3. given \in Settled(ie)
    BY Zenon, DoneIs DEF Values
  <2>4. octets # NotBuilt
    <3>1. SUFFICES ASSUME octets = NotBuilt
                   PROVE  FALSE
      OBVIOUS
    <3>2. ie = "PORTABLE_IDENTITY"
      BY Zenon, <3>1, DoneIs
    <3>3. given \in Element("PORTABLE_IDENTITY")
      BY <2>3, <3>2 DEF Settled
    <3>4. Sent("PORTABLE_IDENTITY", given)
      BY Zenon, <2>2, <3>2, <3>3, PortableIdentitySent
    <3>5. octets = AddHeader(ie, BuildElement(ie, given))
      BY Zenon, <2>2 DEF OnTheWay
    <3> QED BY Zenon, <3>1, <3>2, <3>4, <3>5, SentNotAbsent
  <2>5. Arrives(ie, given, parsed)
    BY Zenon, <2>1, <2>2, <2>4, DoneIs DEF Absent
  <2>6. parsed = given \/ Unsettled(ie, given)
    BY Zenon, <2>3, <2>5 DEF Arrives
  <2> QED BY Zenon, <2>6 DEF Unsettled, Varies
<1> QED BY <1>1, InductiveInvariant, PTL

\* Whatever arrives, whoever built it, no parser writes beyond an array of its structure.
THEOREM ParsersKeepWithinArrays ==
    Spec => []WithinArrays
<1>1. IInv => WithinArrays
  <2> SUFFICES ASSUME IInv, pc = "done", parsed # Invalid
               PROVE  WithinArrays
    BY Zenon DEF WithinArrays
  <2>1. CASE ie \in IE
    <3>1. /\ Handler[ie].parse /\ octets \in Seq(Octet) /\ Len(octets) <= 257
          /\ parsed = ParseElement(ie, octets)
      BY Zenon, <2>1 DEF IInv, ElementInv, OnTheWay
    <3>2. Within(ie, parsed)
      BY Zenon, <2>1, <3>1, ParsedWithin
    <3> QED BY Zenon, <3>2 DEF Within, Arrays, WithinArrays
  <2>2. CASE ie \in Form
    <3>1. parsed = ParseForm(ie, octets) /\ given \in FormValue[ie]
      BY Zenon, <2>2 DEF IInv, FormInv
    <3>2. DOMAIN parsed \subseteq {"emc", "psn", "type", "num", "tpui"}
      <4>1. CASE ie = "IPEI_STRING"
        <5>1. parsed = ParseIpeiString(octets)
          BY <3>1, <4>1 DEF ParseForm
        <5>2. DOMAIN ParseIpeiString(octets) = {"emc", "psn"}
          BY SMT DEF ParseIpeiString, NotAnIpei
        <5> QED BY Zenon, <5>1, <5>2
      <4>2. CASE ie = "PMID"
        <5>1. parsed = ParsePmid(octets[1])
          BY <3>1, <4>2 DEF ParseForm
        <5>2. octets = <<BuildPmid(given)>> /\ given \in Pmid
          BY <2>2, <3>1, <4>2 DEF IInv, FormInv, BuildForm, FormValue
        <5>4. octets[1] = BuildPmid(given)
          BY <5>2
        <5>5. BuildPmid(given) \in Nat
          BY Zenon, <5>2, BuildPmidNat
        <5>3. octets[1] \in Nat
          BY Zenon, <5>4, <5>5
        <5> QED BY SMT, <5>1, <5>3, PmidRead
      <4> QED BY <2>2, <4>1, <4>2 DEF Form
    <3> DEFINE Array == {"entry", "info", "data", "components", "address", "name", "content"}
                            \cup (IF ie = "INFO_TYPE" THEN {"type"} ELSE {})
    <3>3. ie # "INFO_TYPE"
      BY <2>2 DEF Form
    <3>4. Array = {"entry", "info", "data", "components", "address", "name", "content"}
      BY Zenon, <3>3
    <3> HIDE DEF Array
    <3>5. Array \cap DOMAIN parsed = {}
      <4>1. {"entry", "info", "data", "components", "address", "name", "content"}
              \cap {"emc", "psn", "type", "num", "tpui"} = {}
        OBVIOUS
      <4> QED BY Zenon, <3>2, <3>4, <4>1
    <3>6. \A field \in Array \cap DOMAIN parsed : Len(parsed[field]) <= ArraySize(ie, field)
      BY Zenon, <3>5
    <3> QED BY Zenon, <3>6 DEF WithinArrays, Array
  <2> QED BY Zenon, <2>1, <2>2 DEF IInv
<1> QED BY <1>1, InductiveInvariant, PTL

\* A printed or packed identity is read as it was made, and the check digit finds
\* every single mistake except one in the eleventh digit.
THEOREM FormsAreRead ==
    Spec => []IdentityForms
<1>1. IInv => IdentityForms
  <2> SUFFICES ASSUME IInv, pc = "done", ie \in Form
               PROVE  IdentityForms
    BY Zenon DEF IdentityForms
  <2> DEFINE built == BuildForm(ie, given)
             wrong == {i \in DOMAIN octets : octets[i] # built[i]}
  <2>1. /\ given \in FormValue[ie] /\ parsed = ParseForm(ie, octets)
        /\ \/ octets = built
           \/ /\ ie = "IPEI_STRING"
              /\ Mistyped(FormatIpei(given), octets) /\ octets # FormatIpei(given)
    BY Zenon DEF IInv, FormInv
  <2>2. ASSUME ie = "IPEI_STRING"
        PROVE  /\ given \in Ipei /\ built = FormatIpei(given) /\ parsed = ParseIpeiString(octets)
               /\ Printed(FormatIpei(given), given)
    <3>1. given \in Ipei
      BY <2>1, <2>2 DEF FormValue
    <3>2. built = FormatIpei(given)
      BY <2>2 DEF BuildForm
    <3>3. parsed = ParseIpeiString(octets)
      BY <2>1, <2>2 DEF ParseForm
    <3> QED BY Zenon, <3>1, <3>2, <3>3, FormatPrints
  <2>3. CASE octets = built
    <3>1. wrong = {}
      BY Zenon, <2>3
    <3>2. parsed = given <=> ~Ambiguous(ie, given)
      <4>1. CASE ie = "IPEI_STRING"
        <5>1. parsed = given
          BY Zenon, <2>2, <2>3, <4>1, PrintedRead
        <5>2. ie # "PMID"
          BY <4>1
        <5>3. ~Ambiguous(ie, given)
          BY SMT, <5>2 DEF Ambiguous
        <5> QED BY Zenon, <5>1, <5>3
      <4>2. CASE ie = "PMID"
        <5>1. given \in Pmid
          BY <2>1, <4>2 DEF FormValue
        <5>2. parsed = ParsePmid(octets[1])
          BY <2>1, <4>2 DEF ParseForm
        <5>3. octets = <<BuildPmid(given)>>
          BY <2>3, <4>2 DEF BuildForm
        <5>4. octets[1] = BuildPmid(given)
          BY <5>3
        <5> QED BY Zenon, <4>2, <5>1, <5>2, <5>4, PmidCoded
      <4> QED BY <4>1, <4>2 DEF Form
    <3> HIDE DEF wrong
    <3>3. IF wrong = {} THEN parsed = given <=> ~Ambiguous(ie, given)
          ELSE parsed = NotAnIpei <=> wrong # {11}
      BY Zenon, <3>1, <3>2
    <3> QED BY Zenon, <3>3 DEF IdentityForms, wrong
  <2>4. CASE /\ ie = "IPEI_STRING"
             /\ Mistyped(FormatIpei(given), octets) /\ octets # FormatIpei(given)
    <3>1. wrong = Differing(FormatIpei(given), octets)
      BY Zenon, <2>2, <2>4 DEF Differing
    <3>2. /\ Differing(FormatIpei(given), octets) # {}
          /\ ParseIpeiString(octets) = NotAnIpei
                <=> Differing(FormatIpei(given), octets) # {11}
      BY Zenon, <2>2, <2>4, WrongDigitSeen, ExchangeSeen DEF Mistyped
    <3> HIDE DEF wrong
    <3>3. IF wrong = {} THEN parsed = given <=> ~Ambiguous(ie, given)
          ELSE parsed = NotAnIpei <=> wrong # {11}
      BY Zenon, <2>2, <2>4, <3>1, <3>2
    <3> QED BY Zenon, <3>3 DEF IdentityForms, wrong
  <2> QED BY Zenon, <2>1, <2>3, <2>4
<1> QED BY <1>1, InductiveInvariant, PTL
=============================================================================
