------------------------------- MODULE SFormat -------------------------------
(***************************************************************************)
(* Building, parsing and freeing S-format messages (s_msg.c): the engine   *)
(* that runs over the tables of MessageDescriptions.                       *)
(*                                                                         *)
(* One side builds a message from a structure, the other parses it into a  *)
(* structure of its own and frees that.  On the way the message can become *)
(* one that another implementation would send: an element is corrupt,      *)
(* empty, missing, in the wrong place or not in the table.  The octets of  *)
(* the elements are the subject of ElementCoding; here an element is its   *)
(* name and one of a few forms.                                            *)
(***************************************************************************)
EXTENDS Integers, Sequences, FiniteSets

CONSTANTS
    Message,      \* the messages
    Desc,         \* the table of each: a sequence of entries
    FreedAs,      \* the message whose table the structure is freed with
    Struct,       \* the fields of each structure: a sequence of C types, or "list"
    Name,         \* the information elements
    Handlers,     \* the structure, the parser and the builder of an element
    VariableLen,  \* the elements whose second octet is a length
    Multi,        \* the elements a text of several characters is sent as
    Checked,      \* the elements whose parser can reject the contents
    Foreign,      \* elements that may turn up where nobody expects them
    Source        \* the structures applications fill: Source[m][side] is a set

Side == {"FP", "PP"}
Status == {"MANDATORY", "OPTIONAL", "NONE"}
Entry == [ie : Name, FP : Status, PP : Status, repeat : BOOLEAN]

Repeat == "REPEAT_INDICATOR"

\* The tables are sequences of entries; the one after a repeat indicator repeats,
\* no other does and no table ends with a repeat indicator or a repeated element.
ASSUME DescAssumption ==
    /\ Repeat \in Name
    /\ \A m \in Message :
        /\ Desc[m] \in Seq(Entry)
        /\ Len(Desc[m]) > 0
        /\ ~Desc[m][1].repeat
        /\ Desc[m][Len(Desc[m])].ie # Repeat
        /\ ~Desc[m][Len(Desc[m])].repeat
        /\ \A p \in 1..(Len(Desc[m]) - 1) :
            /\ Desc[m][p].ie = Repeat <=> Desc[m][p + 1].repeat
            /\ ~(Desc[m][p].ie = Repeat /\ Desc[m][p].repeat)
        /\ FreedAs[m] \in Message

\* Contents of a field: no value yet, no element, an empty list, or an element
Unset == "unset"
Null == "null"
EmptyList == "list"
Content == {Unset, Null, EmptyList} \cup Name

ASSUME NameAssumption ==
    /\ Name \cap {Unset, Null, EmptyList} = {}
    /\ Repeat \notin DOMAIN Multi
    /\ \A n \in DOMAIN Multi : Multi[n] \in Name \ {Repeat}
    /\ Foreign \subseteq Name
    /\ Repeat \notin VariableLen

(***************************************************************************)
(* Tables and fields.  A field is known by the position of its entry.      *)
(* dect_next_ie stays where it is after a repeated entry only, so that a   *)
(* repeated element is at the address of the field after its list.         *)
(***************************************************************************)
Positions(m) == 1..Len(Desc[m])
End(m) == Len(Desc[m]) + 1
Fields == [m \in Message |-> {p \in Positions(m) : ~Desc[m][p].repeat}]
Lists == [m \in Message |-> {p \in Positions(m) : Desc[m][p].ie = Repeat}]
FieldOf(m, p) == IF Desc[m][p].repeat THEN p + 1 ELSE p

\* The number of a field in the structure, and the address of one in pointers from
\* the first: a list has four words, an IE and its reference count, the type and
\* the elements.
ListWords == 4
FieldNumber ==
    [m \in Message |-> [p \in Fields[m] |-> Cardinality({r \in Fields[m] : r <= p})]]
Address ==
    [m \in Message |->
        [p \in 1..End(m) |->
            Cardinality({r \in Fields[m] : r < p})
                + (ListWords - 1) * Cardinality({r \in Lists[m] : r < p})]]

(***************************************************************************)
(* What the engine takes for granted of the tables.                        *)
(***************************************************************************)

\* The elements a field with the name of an element can hold or be sent as
FormsOf(ie) == {ie} \cup (IF ie \in DOMAIN Multi THEN {Multi[ie]} ELSE {})

\* Neither elements of lists nor mandatory ones have a second name, since only an
\* optional entry is compared with it; those of mandatory lists can be sent, and
\* what is mandatory is never the repeat indicator.
ASSUME FormsAssumption ==
    \A m \in Message, side \in Side : \A p \in Positions(m) :
        LET entry == Desc[m][p]
        IN  /\ entry.repeat \/ entry[side] = "MANDATORY" => entry.ie \notin DOMAIN Multi
            /\ entry[side] = "MANDATORY" => entry.ie # Repeat
            /\ entry.repeat /\ entry[side] = "MANDATORY" =>
                 Handlers[entry.ie].build /\ Handlers[entry.ie].parse

\* An element that is sent is not taken for one that comes earlier in the table,
\* unless a mandatory element comes between them or it is a repeat indicator.
ASSUME DistinctAssumption ==
    \A m \in Message, side \in Side : \A q \in Positions(m) :
        Desc[m][q][side] # "NONE" =>
            \A ie \in FormsOf(Desc[m][q].ie) \ {Repeat} : Handlers[ie].build =>
                \A p \in 1..(q - 1) :
                    ie \in FormsOf(Desc[m][p].ie) =>
                        \E r \in p..(q - 1) : Desc[m][r][side] = "MANDATORY"

\* The structure has a field of the right C type for every entry of the table.
ASSUME StructAssumption ==
    \A m \in Message :
        /\ Len(Struct[m]) = Cardinality(Fields[m])
        /\ \A p \in Fields[m] :
            LET type == Struct[m][FieldNumber[m][p]]
            IN  /\ type = "list" <=> p \in Lists[m]
                /\ p \notin Lists[m] =>
                     \A ie \in FormsOf(Desc[m][p].ie) : Handlers[ie].parse => type = Handlers[ie].struct

\* The table a structure is freed with has all its pointers, but for two messages.
ASSUME FreedAssumption ==
    \A m \in Message \ {"cc_service_change", "cc_service_reject"} :
        \A p \in Fields[m] \ Lists[m] :
            \E r \in Fields[FreedAs[m]] \ Lists[FreedAs[m]] : Address[m][p] = Address[FreedAs[m]][r]

\* Mutant: the list of a repeated element is not initialised as one.
InitFieldsNoList(m, fields, from, to) ==
    [p \in DOMAIN fields |-> IF p \in from..to THEN Null ELSE fields[p]]

\* dect_msg_ie_init for the entries from and to and all between them
InitFields(m, fields, from, to) ==
    [p \in DOMAIN fields |->
        IF p \in from..to THEN IF Desc[m][p].ie = Repeat THEN EmptyList ELSE Null
        ELSE fields[p]]

(***************************************************************************)
(* A message between the two sides: elements with a form and the sender's  *)
(* entry (0 if there is none).  In a structure an element can also be long *)
(* (a text of several characters), without contents, or one the builder    *)
(* rejects.                                                                *)
(***************************************************************************)
Form == {"ok", "long", "empty", "bad"}
WireForm == {"ok", "empty", "corrupt", "truncated"}
Wire == [ie : Name, form : WireForm, entry : Nat]

\* A field that is no list has at most one element; only the elements that have a
\* form for several characters can be long, and those of lists have all one form.
ASSUME SourceAssumption ==
    \A m \in Message, side \in Side : \A s \in Source[m][side], p \in Fields[m] :
        /\ s[p] \in Seq(Form)
        /\ \A i \in DOMAIN s[p] : s[p][i] = "long" => Desc[m][p].ie \in DOMAIN Multi
        /\ IF p \in Lists[m] THEN \A i \in DOMAIN s[p] : s[p][i] = "ok" ELSE Len(s[p]) <= 1

VARIABLES
    msg,        \* the message
    sender,     \* "FP" or "PP": both sides look at the status of this direction
    source,     \* the sender's structure: by field the sequence of elements there
    wire,       \* the elements that have been built, then those still to be parsed
    change,     \* what made the message another implementation's, and its entry
    pos,        \* the position in the table, of the sender and then of the receiver
    fields,     \* the receiver's structure
    lost,       \* elements the receiver has allocated and can no longer reach
    result,     \* what building and then parsing returned
    pc          \* "build", "send", "parse", and then how it ended

vars == <<msg, sender, source, wire, change, pos, fields, lost, result, pc>>

Kind == {"none", "corrupt", "truncated", "empty", "missing", "moved", "foreign"}

\* An error of a builder, a message that is too short and an element that is not
\* allowed are -1, which is also the number of DECT_SFMT_MANDATORY_IE_MISSING.
Result == {"OK", "MANDATORY_IE_MISSING", "MANDATORY_IE_ERROR", "INVALID_IE", "undefined"}

TypeOK ==
    /\ msg \in Message
    /\ sender \in Side
    /\ wire \in Seq(Wire)
    /\ change.kind \in Kind
    /\ pos \in 1..End(msg)
    /\ fields \in [Fields[msg] -> Content]
    /\ lost \subseteq Name
    /\ result \in Result
    /\ pc \in {"build", "rejected", "send", "parse", "failed", "use", "freed"}

Init ==
    /\ msg \in Message
    /\ sender \in Side
    /\ source \in Source[msg][sender]
    /\ wire = <<>>
    /\ change = [kind |-> "none", entry |-> 0]
    /\ pos = 1
    /\ fields = [p \in Fields[msg] |-> Unset]
    /\ lost = {}
    /\ result = "OK"
    /\ pc = "build"

Type(p) == Desc[msg][p].ie
StatusOf(p) == Desc[msg][p][sender]

-----------------------------------------------------------------------------
(***************************************************************************)
(* Building: dect_build_sfmt_msg.                                          *)
(***************************************************************************)

\* The elements of the structure that the entry is about: a repeat indicator is
\* sent before a list of more than one.
ElementsOf(p) ==
    CASE Desc[msg][p].repeat -> source[p - 1]
      [] p \in Lists[msg] -> IF Len(source[p]) > 1 THEN <<"ok">> ELSE <<>>
      [] OTHER -> source[p]

\* An empty list is no missing element, even if the table wants one.
BuildResult(p) ==
    LET elements == ElementsOf(p)
        inList == Desc[msg][p].repeat \/ p \in Lists[msg]
    IN  IF elements = <<>>
        THEN IF StatusOf(p) = "MANDATORY" /\ ~inList THEN "MANDATORY_IE_MISSING" ELSE "OK"
        ELSE IF StatusOf(p) = "NONE" THEN "INVALID_IE"
        ELSE IF \E i \in DOMAIN elements : elements[i] = "bad" THEN "MANDATORY_IE_MISSING"
        ELSE "OK"

\* dect_build_sfmt_ie: nothing is sent for an element without a builder or
\* without contents.
SentAs(ie, form) == IF form = "long" THEN Multi[ie] ELSE ie
Sent(ie, form) == Handlers[SentAs(ie, form)].build /\ ~(form = "empty" /\ ie \in VariableLen)

\* (The elements of a list are all sent or all left out.)
SentBy(p) ==
    LET elements == ElementsOf(p)
    IN  IF \A i \in DOMAIN elements : Sent(Type(p), elements[i])
        THEN [i \in DOMAIN elements |->
                 [ie |-> SentAs(Type(p), elements[i]), form |-> "ok", entry |-> p]]
        ELSE <<>>

\* The next entry with elements or an error; an error ends the message.
Due(p) == ElementsOf(p) # <<>> \/ BuildResult(p) # "OK"

BuildElements ==
    /\ pc = "build"
    /\ \E p \in pos..Len(Desc[msg]) :
        /\ Due(p)
        /\ \A q \in pos..(p - 1) : ~Due(q)
        /\ \/ /\ BuildResult(p) = "OK"
              /\ wire' = wire \o SentBy(p)
              /\ pos' = p + 1
              /\ UNCHANGED <<result, pc>>
           \/ /\ BuildResult(p) # "OK"
              /\ result' = BuildResult(p)
              /\ pc' = "rejected"
              /\ UNCHANGED <<wire, pos>>
    /\ UNCHANGED <<msg, sender, source, change, fields, lost>>

BuildEnd ==
    /\ pc = "build"
    /\ \A p \in pos..Len(Desc[msg]) : ~Due(p)
    /\ pc' = "send"
    /\ pos' = 1
    /\ UNCHANGED <<msg, sender, source, wire, change, fields, lost, result>>

\* Another implementation would have sent the message in a different form.
Disturb ==
    /\ pc = "send"
    /\ change.kind = "none"
    /\ \E n \in DOMAIN wire, kind \in Kind \ {"none"} :
        /\ CASE kind = "corrupt" -> wire[n].ie \in Checked
             [] kind = "truncated" -> n = Len(wire)
             [] kind = "empty" -> wire[n].ie \in VariableLen
             [] kind = "moved" -> n < Len(wire) /\ wire[n] # wire[n + 1]
             [] OTHER -> TRUE
        /\ change' = [kind |-> kind, entry |-> wire[n].entry]
        /\ CASE kind = "missing" -> wire' = SubSeq(wire, 1, n - 1) \o SubSeq(wire, n + 1, Len(wire))
             [] kind = "moved" -> wire' = [wire EXCEPT ![n] = wire[n + 1], ![n + 1] = wire[n]]
             [] kind = "foreign" -> \E ie \in Foreign :
                    wire' = SubSeq(wire, 1, n - 1) \o <<[ie |-> ie, form |-> "ok", entry |-> 0]>>
                              \o SubSeq(wire, n, Len(wire))
             [] OTHER -> wire' = [wire EXCEPT ![n].form = kind]
    /\ UNCHANGED <<msg, sender, source, pos, fields, lost, result, pc>>

Receive ==
    /\ pc = "send"
    /\ pc' = "parse"
    /\ fields' = InitFields(msg, fields, 1, 1)
    /\ UNCHANGED <<msg, sender, source, wire, change, pos, lost, result>>

-----------------------------------------------------------------------------
(***************************************************************************)
(* Parsing: dect_parse_sfmt_msg, an element of the message in each step.   *)
(***************************************************************************)

\* Mutant: a text of several characters is not recognised.
MatchesSingle(p, ie) == Type(p) = ie

Matches(p, ie) ==
    \/ Type(p) = ie
    \/ StatusOf(p) = "OPTIONAL" /\ Type(p) \in DOMAIN Multi /\ Multi[Type(p)] = ie

\* Mutant: the search goes on past a mandatory entry.
StopsAtMatch(p, ie) == p # End(msg) => Matches(p, ie)

\* The search for an element, from the entry after the last one found
Stops(p, ie) == p # End(msg) => StatusOf(p) = "MANDATORY" \/ Matches(p, ie)
FoundAt(q, ie) == Stops(q, ie) /\ \A p \in pos..(q - 1) : ~Stops(p, ie)

\* The elements in fields that become lists or empty, and all elements in fields
InFields(f) == {f[p] : p \in DOMAIN f} \cap Name
Overwritten(old, from, to) == InFields([p \in (from..to) \cap DOMAIN old |-> old[p]])

\* A handler that gets an error from the parser returns without freeing anything.
Fail(error, reached) ==
    /\ result' = error
    /\ lost' = lost \cup InFields(reached)
    /\ fields' = reached
    /\ pc' = "failed"

\* Mutant: desc goes on by two entries.
GoOnTwice(reached, q) ==
    /\ fields' = InitFields(msg, reached, q + 1, q + 1)
    /\ lost' = lost \cup Overwritten(reached, q + 1, q + 1)
    /\ pos' = q + 2
    /\ wire' = Tail(wire)
    /\ UNCHANGED <<result, pc>>

\* dst and desc go on to the next entry, which is initialised.
GoOn(reached, q) ==
    /\ fields' = InitFields(msg, reached, q + 1, q + 1)
    /\ lost' = lost \cup Overwritten(reached, q + 1, q + 1)
    /\ pos' = q + 1
    /\ wire' = Tail(wire)
    /\ UNCHANGED <<result, pc>>

Truncated ==
    /\ pc = "parse" /\ wire # <<>>
    /\ Head(wire).form = "truncated"
    /\ Fail("MANDATORY_IE_MISSING", fields)
    /\ UNCHANGED <<msg, sender, source, wire, change, pos>>

\* No entry is left: the rest of the message is not looked at.
PastEnd ==
    /\ pc = "parse" /\ wire # <<>>
    /\ Head(wire).form # "truncated"
    /\ FoundAt(End(msg), Head(wire).ie)
    /\ fields' = InitFields(msg, fields, pos + 1, Len(Desc[msg]))
    /\ pos' = End(msg)
    /\ wire' = <<>>
    /\ UNCHANGED <<msg, sender, source, change, lost, result, pc>>

\* A mandatory element is not there, or there is one this side may not send.
Refused ==
    /\ pc = "parse" /\ wire # <<>>
    /\ Head(wire).form # "truncated"
    /\ \E q \in pos..Len(Desc[msg]) :
        /\ FoundAt(q, Head(wire).ie)
        /\ ~Matches(q, Head(wire).ie) \/ StatusOf(q) = "NONE"
        /\ Fail("MANDATORY_IE_MISSING", InitFields(msg, fields, pos + 1, q))
        /\ pos' = q
    /\ UNCHANGED <<msg, sender, source, wire, change>>

\* dect_parse_sfmt_ie.  A repeat indicator is parsed into its list; when its type
\* is wrong, the parser frees what the list begins with, the address of the
\* static variable that marks lists.
Store(h, q, here) ==
    CASE h.form = "empty" -> GoOn(here, q)
      [] h.form = "ok" /\ Handlers[h.ie].parse /\ h.ie = Repeat -> GoOn(here, q)
      [] h.form = "ok" /\ Handlers[h.ie].parse /\ h.ie # Repeat ->
            GoOn([here EXCEPT ![FieldOf(msg, q)] = h.ie], q)
      [] OTHER ->
            \/ /\ h.ie = Repeat
               /\ Fail("undefined", here)
               /\ UNCHANGED <<wire, pos>>
            \/ /\ h.ie # Repeat /\ StatusOf(q) = "MANDATORY"
               /\ Fail("MANDATORY_IE_ERROR", here)
               /\ UNCHANGED <<wire, pos>>
            \/ /\ h.ie # Repeat /\ StatusOf(q) # "MANDATORY"
               /\ GoOn(here, q)

ParseElement ==
    /\ pc = "parse" /\ wire # <<>>
    /\ Head(wire).form # "truncated"
    /\ \E q \in pos..Len(Desc[msg]) :
        /\ FoundAt(q, Head(wire).ie)
        /\ Matches(q, Head(wire).ie) /\ StatusOf(q) # "NONE"
        /\ Store(Head(wire), q, InitFields(msg, fields, pos + 1, q))
    /\ UNCHANGED <<msg, sender, source, change>>

\* After the last element no mandatory entry may be left.
Finish ==
    /\ pc = "parse" /\ wire = <<>>
    /\ \/ /\ ~\E p \in pos..Len(Desc[msg]) : StatusOf(p) = "MANDATORY"
          /\ fields' = InitFields(msg, fields, pos + 1, Len(Desc[msg]))
          /\ pos' = End(msg)
          /\ pc' = "use"
          /\ UNCHANGED <<lost, result>>
       \/ \E p \in pos..Len(Desc[msg]) :
          /\ StatusOf(p) = "MANDATORY"
          /\ \A q \in pos..(p - 1) : StatusOf(q) # "MANDATORY"
          /\ Fail("MANDATORY_IE_MISSING", InitFields(msg, fields, pos + 1, p))
          /\ pos' = p
    /\ UNCHANGED <<msg, sender, source, wire, change>>

\* Mutant: the walk ends at the first list.
PointersOfUpToList(m) ==
    {Address[m][p] : p \in {q \in Fields[m] : \A r \in Lists[m] : q < r}}

\* dect_msg_free with the table the handler names: elements of lists are left
\* alone.  With another message's table a pointer can be read from the first
\* three words of a list or from beyond the structure.
PointersOf(m) == {Address[m][p] : p \in Fields[m] \ Lists[m]}
NoPointers(m) ==
    UNION {Address[m][p]..(Address[m][p] + ListWords - 2) : p \in Lists[m]}

Free ==
    /\ pc = "use"
    /\ \E put \in {PointersOf(FreedAs[msg])} :
        /\ fields' = [p \in Fields[msg] |->
                        IF Address[msg][p] \in put /\ p \notin Lists[msg] THEN Null ELSE fields[p]]
        /\ \/ UNCHANGED result
           \/ /\ \E a \in put : a \in NoPointers(msg) \/ a >= Address[msg][End(msg)]
              /\ result' = "undefined"
    /\ lost' = lost \cup InFields(fields')
    /\ pc' = "freed"
    /\ UNCHANGED <<msg, sender, source, wire, change, pos>>

Next ==
    \/ BuildElements \/ BuildEnd \/ Disturb \/ Receive
    \/ Truncated \/ PastEnd \/ Refused \/ ParseElement \/ Finish \/ Free

Spec == Init /\ [][Next]_vars

-----------------------------------------------------------------------------
(***************************************************************************)
(* Properties.                                                             *)
(***************************************************************************)

\* The tables and the structures, which are written in different files and joined
\* by pointer arithmetic only, agree: every field of a parsed message has been
\* initialised and holds an element of the C type the handlers read there.
FieldTypesMatch ==
    pc = "use" =>
        /\ Len(Struct[msg]) = Cardinality(Fields[msg])
        /\ \A p \in Fields[msg] :
            LET type == Struct[msg][FieldNumber[msg][p]]
            IN  \/ fields[p] = EmptyList /\ type = "list"
                \/ fields[p] = Null /\ type # "list"
                \/ fields[p] \in Name /\ type = Handlers[fields[p]].struct

\* What the receiver should find in a field: the element the sender put there, but
\* nothing where it has no parser, and never the elements of a list.
Delivered(p) ==
    IF p \in Lists[msg] THEN EmptyList
    ELSE LET arrives ==
                 /\ source[p] # <<>>
                 /\ Sent(Type(p), source[p][1])
                 /\ Handlers[SentAs(Type(p), source[p][1])].parse
                 /\ change.kind = "none" \/ change.entry # p
         IN  IF arrives THEN SentAs(Type(p), source[p][1]) ELSE Null

\* A message a sender can build reaches the receiver as it was: one without a
\* list of several elements and with parsers for its mandatory elements is
\* accepted, and its fields are those of the sender even if an optional element
\* is missing, empty or corrupt.
Regular ==
    /\ change.kind \in {"none", "missing", "empty", "corrupt"}
    /\ change.kind # "none" => StatusOf(change.entry) = "OPTIONAL"
    /\ \A p \in Lists[msg] : Len(source[p]) <= 1
    /\ \A p \in Lists[msg] : StatusOf(p + 1) = "MANDATORY" => source[p] # <<>>
    /\ \A p \in Fields[msg] : StatusOf(p) = "MANDATORY" =>
            Sent(Type(p), source[p][1]) /\ Handlers[Type(p)].parse

DeliveredAsSent ==
    pc \in {"use", "failed"} /\ Regular =>
        /\ pc = "use"
        /\ \A p \in Fields[msg] : fields[p] = Delivered(p)

\* The handlers use mandatory elements without looking whether they are there:
\* a message that is accepted has all of them, unless an element was sent without
\* contents, which the parser takes for absent after it has found it.
MandatoryDelivered ==
    pc = "use" /\ change.kind # "empty" =>
        \A p \in Fields[msg] \ Lists[msg] : StatusOf(p) = "MANDATORY" => fields[p] \in Name

\* Of an accepted message only elements of lists are never freed, except by the
\* handlers that free it with the table of CC-CONNECT-ACK.
OnlyListsLeak ==
    pc = "freed" =>
        \/ lost \subseteq {Type(p) : p \in {r \in Positions(msg) : Desc[msg][r].repeat}}
        \/ msg \in {"cc_service_change", "cc_service_reject"}

\* The direction of a message is respected: a field never holds an element that
\* its sender must not send.
DirectionRespected ==
    \A p \in Fields[msg] : fields[p] \in Name => StatusOf(p) # "NONE"

\* No handler sees a field that was not initialised.
FieldsInitialised ==
    pc = "use" => \A p \in Fields[msg] : fields[p] # Unset
=============================================================================
