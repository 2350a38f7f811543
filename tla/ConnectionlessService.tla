------------------------ MODULE ConnectionlessService ------------------------
(***************************************************************************)
(* The fixed part of the connectionless message service, src/clms.c: a     *)
(* message of up to 20 octets is broadcast as a long page, one address     *)
(* section and up to five data sections of four octets, and put together   *)
(* again by every portable that hears all of them.                         *)
(*                                                                         *)
(* The sender is this library (Unitdata) or another make of DECT stack     *)
(* (UnitdataForeign), which may use the other codings of the standard.     *)
(* Paging is not acknowledged: sections are lost, the reception ends       *)
(* early, or two of them arrive in the other order; at most MaxFault of    *)
(* that happens to a message.                                              *)
(***************************************************************************)
EXTENDS Naturals, Sequences, SequencesExt

CONSTANTS Length,       \* the lengths in octets of the messages sent
          MaxFault      \* bound on the disturbances of one message

\* The length is a uint8_t of the message buffer, whose 128 octets hold the
\* address section and 24 data sections.
ASSUME LengthAssumption == Length \subseteq 0 .. 96

ASSUME FaultAssumption == MaxFault \in Nat

VARIABLES message,      \* the octets the user of the service asked to send
          sender,       \* "library" or "foreign"
          wire,         \* the sections on their way
          faults,       \* what happened to them so far
          got,          \* the octets delivered by MNCL_UNITDATA-ind
          pc            \* where the message is

vars == <<message, sender, wire, faults, got, pc>>

-----------------------------------------------------------------------------
(* Sections: enum dect_clms_section_types, dect_clms_header_types and       *)
(* dect_clms_protocol_discriminators.                                       *)

SectionData == 0
SectionAddr == 8

StandardOneSection   == 1
StandardMultiSection == 2

OneSection   == {StandardOneSection, 3, 5}
MultiSection == {StandardMultiSection, 4, 6}

IECoding == 1
KnownPd  == {IECoding, 6}

DataSize == 4

\* An address section and a data section of the wire.
AddrSection(code, pd, li) == [hdr |-> SectionAddr + code, pd |-> pd, li |-> li]
DataSection(number, octets) == [hdr |-> SectionData + number, data |-> octets]

\* hdr & DECT_CLMS_SECTION_TYPE_MASK, hdr & DECT_CLMS_SECTION_NUM_MASK (which
\* is DECT_CLMS_HDR_MASK too)
TypeOf(section) == IF (section.hdr \div 8) % 2 = 1 THEN SectionAddr ELSE SectionData
NumberOf(section) == section.hdr % 8

\* The n-th group of four octets of a message, padded with zeros.
Group(octets, n) ==
    [i \in 1 .. DataSize |-> IF DataSize * n + i <= Len(octets)
                             THEN octets[DataSize * n + i] ELSE 0]

Groups(octets) == (Len(octets) + DataSize - 1) \div DataSize

DataSections(octets) ==
    [i \in 1 .. Groups(octets) |-> DataSection(i - 1, Group(octets, i - 1))]

-----------------------------------------------------------------------------
(* Sending. dect_clms_send_fixed: the length in bits goes into one octet,  *)
(* and a message of no octets sends the first octet of the buffer.         *)

FirstOctet(octets) == IF octets = <<>> THEN 0 ELSE octets[1]

SendFixed(octets) ==
    IF Len(octets) > 1
    THEN <<AddrSection(StandardMultiSection, IECoding, (Len(octets) * 8) % 256)>>
            \o DataSections(octets)
    ELSE <<AddrSection(StandardOneSection, IECoding, FirstOctet(octets))>>

\* What another stack sends: any header code and protocol discriminator, and
\* a length in bits that the sections it sends need not fill.
SendForeign(code, pd, bits, octets) ==
    IF code \in OneSection
    THEN <<AddrSection(code, pd, FirstOctet(octets))>>
    ELSE <<AddrSection(code, pd, bits)>> \o DataSections(octets)

-----------------------------------------------------------------------------
(* Receiving. dect_clms_rcv_fixed: Nothing for a message that is dropped;  *)
(* no message delivered is empty.                                          *)

Nothing == <<>>

\* Mutant: the sections may come in any order.
NumberedAnyOrder(sections) ==
    \A i \in 1 .. Len(sections) :
        /\ TypeOf(sections[i]) = SectionData
        /\ NumberOf(sections[i]) < 5

\* Mutant: the limit is off by one.
NumberedFour(sections) ==
    \A i \in 1 .. Len(sections) :
        /\ TypeOf(sections[i]) = SectionData
        /\ NumberOf(sections[i]) < 4
        /\ NumberOf(sections[i]) = i - 1

\* The data sections bear the numbers 0, 1, 2, ... and no more than five
\* are taken.
Numbered(sections) ==
    \A i \in 1 .. Len(sections) :
        /\ TypeOf(sections[i]) = SectionData
        /\ NumberOf(sections[i]) < 5
        /\ NumberOf(sections[i]) = i - 1

Octets(sections, length) ==
    [i \in 1 .. length |-> sections[1 + (i - 1) \div DataSize].data[1 + ((i - 1) % DataSize)]]

ReceiveMulti(li, sections) ==
    IF /\ li # 0 /\ li % 8 = 0
       /\ Numbered(sections)
       /\ li \div 8 <= DataSize * Len(sections)
    THEN Octets(sections, li \div 8)
    ELSE Nothing

ReceiveFixed(sections) ==
    LET head == Head(sections)
        code == NumberOf(head)
    IN  IF TypeOf(head) # SectionAddr \/ head.pd \notin KnownPd THEN Nothing
        ELSE IF code \in OneSection THEN <<head.li>>
        ELSE IF code \in MultiSection THEN ReceiveMulti(head.li, Tail(sections))
        ELSE Nothing

-----------------------------------------------------------------------------

\* The octets of a message are told apart by their places; none is 0.
Sample(length) == [i \in 1 .. length |-> i]

Init == /\ message = <<>>
        /\ sender = "library"
        /\ wire = <<>>
        /\ faults = 0
        /\ got = Nothing
        /\ pc = "idle"

Sent(who, octets, sections) ==
    /\ pc # "sent"
    /\ pc' = "sent"
    /\ message' = octets
    /\ sender' = who
    /\ wire' = sections
    /\ faults' = 0
    /\ got' = Nothing

\* dect_mncl_unitdata_req, which broadcasts at once
Unitdata(length) ==
    Sent("library", Sample(length), SendFixed(Sample(length)))

\* One message of another stack.
UnitdataForeign(length, code, pd, bits) ==
    Sent("foreign", Sample(length), SendForeign(code, pd, bits, Sample(length)))

Disturbed(sections) ==
    /\ pc = "sent"
    /\ faults < MaxFault
    /\ faults' = faults + 1
    /\ wire' = sections
    /\ UNCHANGED <<message, sender, got, pc>>

\* One section is not heard.
Lose(i) == i <= Len(wire) /\ Disturbed(RemoveAt(wire, i))

\* The reception ends after i sections.
Cut(i) == i < Len(wire) /\ Disturbed(SubSeq(wire, 1, i))

\* Two neighbours arrive in the other order.
Swap(i) ==
    /\ i < Len(wire)
    /\ Disturbed([wire EXCEPT ![i] = wire[i + 1], ![i + 1] = wire[i]])

\* dect_lce_rcv_long_page, called for a long page with any section in it
Receive ==
    /\ pc = "sent"
    /\ wire # <<>>
    /\ got' = ReceiveFixed(wire)
    /\ pc' = IF got' = Nothing THEN "dropped" ELSE "delivered"
    /\ wire' = <<>>
    /\ UNCHANGED <<message, sender, faults>>

\* No section was heard: there is no datagram.
Unheard ==
    /\ pc = "sent"
    /\ wire = <<>>
    /\ pc' = "dropped"
    /\ UNCHANGED <<message, sender, wire, faults, got>>

Next ==
    \/ \E length \in Length : Unitdata(length)
    \/ \E length \in Length, code \in 0 .. 7, pd \in {1, 6, 16}, bits \in {0, 7, 8, 40} :
            UnitdataForeign(length, code, pd, bits)
    \/ \E i \in 1 .. Len(wire) : Lose(i) \/ Cut(i) \/ Swap(i)
    \/ Receive
    \/ Unheard

Spec == Init /\ [][Next]_vars

-----------------------------------------------------------------------------
(* Properties.                                                             *)

\* What a portable hands to its user is the message the fixed part was asked
\* to send, octet for octet, however sections were lost or reordered: a
\* message of at most 32 octets arrives whole or not at all (clms.c:116-131).
\* From 33 octets on the length in bits has wrapped (clms.c:153), and a
\* reception that ends early can pass for a short message; a message of no
\* octets arrives as one octet its user never gave.
WholeOrNothing ==
    (pc = "delivered" /\ sender = "library" /\ Len(message) \in 1 .. 32)
        => got = message

\* Undisturbed, a message of 1 to 20 octets is always delivered, and a
\* longer one never: the sixth section, or the eighth that reads as an address
\* section, makes the receiver drop it, whatever its wrapped length says.
FiveSections ==
    (pc \in {"delivered", "dropped"} /\ sender = "library" /\ faults = 0)
        => (pc = "delivered" <=> Len(message) <= 5 * DataSize)

=============================================================================
