-------------------- MODULE ConnectionlessService_proofs --------------------
(***************************************************************************)
(* Proofs about ConnectionlessService for messages of any lengths and any  *)
(* number of disturbances: a message of up to 32 octets is delivered whole *)
(* or not at all, and undisturbed it is delivered up to 20 octets.         *)
(*                                                                         *)
(* Nothing that happens to the sections changes one of them.  So whatever  *)
(* is on the wire are sections of the message, and as each bears its       *)
(* number, there is one way to put them together (Reassembled).            *)
(***************************************************************************)
EXTENDS ConnectionlessService, SequenceTheorems, TLAPS

\* The address section of a message and its data sections
Address(octets) ==
    AddrSection(IF Len(octets) > 1 THEN StandardMultiSection ELSE StandardOneSection, IECoding,
                IF Len(octets) > 1 THEN (Len(octets) * 8) % 256 ELSE FirstOctet(octets))

Data(octets, number) == DataSection(number, Group(octets, number))

SectionsOf(octets) == {Address(octets)} \cup {Data(octets, number) : number \in 0 .. 7}

\* The messages WholeOrNothing is about
Ours == sender = "library" /\ Len(message) \in 1 .. 32

IInv == /\ message \in Seq(Nat)
        /\ Ours => wire \in Seq(SectionsOf(message))
        /\ WholeOrNothing

\* As long as nothing has happened to a message, it is on the wire.
Untouched ==
    /\ message \in Seq(Nat) /\ Len(message) \in 0 .. 96
    /\ faults \in Nat
    /\ sender = "library" /\ faults = 0 /\ pc = "sent" => wire = SendFixed(message)
    /\ FiveSections

-----------------------------------------------------------------------------
(* Sections *)

\* The header tells a data section from an address section, and its number.
LEMMA DataHeader ==
    ASSUME NEW octets, NEW number \in 0 .. 7
    PROVE  /\ TypeOf(Data(octets, number)) = SectionData
           /\ NumberOf(Data(octets, number)) = number
           /\ Data(octets, number).data = Group(octets, number)
<1>1. Data(octets, number).hdr = number /\ Data(octets, number).data = Group(octets, number)
  BY DEF Data, DataSection, SectionData
<1>2. number \div 8 = 0 /\ number % 8 = number
  OBVIOUS
<1> QED
  BY <1>1, <1>2 DEF TypeOf, NumberOf, SectionData

LEMMA AddressHeader ==
    ASSUME NEW octets \in Seq(Nat)
    PROVE  /\ TypeOf(Address(octets)) = SectionAddr
           /\ NumberOf(Address(octets)) = IF Len(octets) > 1 THEN 2 ELSE 1
           /\ Address(octets).pd = 1
           /\ Address(octets).li = IF Len(octets) > 1 THEN (Len(octets) * 8) % 256
                                   ELSE FirstOctet(octets)
BY DEF Address, AddrSection, TypeOf, NumberOf, SectionAddr, StandardMultiSection,
       StandardOneSection, IECoding

\* A message of one octet is in its address section.
LEMMA OneOctet ==
    ASSUME NEW octets \in Seq(Nat), Len(octets) = 1
    PROVE  /\ NumberOf(Address(octets)) = 1
           /\ Address(octets).pd = 1
           /\ Address(octets).li = octets[1]
<1>1. FirstOctet(octets) = octets[1]
  BY EmptySeq DEF FirstOctet
<1>2. ~(Len(octets) > 1)
  OBVIOUS
<1> QED
  BY <1>1, <1>2, AddressHeader

\* What is of the type of a data section is the data section of its number, and
\* what is of the other type is the address section.
LEMMA Told ==
    ASSUME NEW octets \in Seq(Nat), NEW section \in SectionsOf(octets)
    PROVE  /\ TypeOf(section) = SectionAddr => section = Address(octets)
           /\ TypeOf(section) = SectionData =>
                section.data = Group(octets, NumberOf(section))
<1>1. SectionAddr # SectionData
  BY DEF SectionAddr, SectionData
<1>2. CASE section = Address(octets)
  BY <1>1, <1>2, AddressHeader
<1>3. CASE \E number \in 0 .. 7 : section = Data(octets, number)
  <2>1. PICK number \in 0 .. 7 : section = Data(octets, number)
    BY <1>3
  <2> QED
    BY <1>1, <2>1, DataHeader
<1> QED
  BY <1>2, <1>3 DEF SectionsOf

\* The sender sends sections of its message.
LEMMA SendsSections ==
    ASSUME NEW octets \in Seq(Nat), NEW n \in 1 .. 32, Len(octets) = n
    PROVE  SendFixed(octets) \in Seq(SectionsOf(octets))
<1>1. Address(octets) \in SectionsOf(octets)
  BY DEF SectionsOf
<1>2. CASE n = 1
  BY <1>1, <1>2 DEF SendFixed, Address
<1>3. CASE n > 1
  <2>1. Groups(octets) \in 0 .. 8
    <3>1. (n + 3) \div 4 \in 0 .. 8
      OBVIOUS
    <3>2. Groups(octets) = (n + 3) \div 4
      BY DEF Groups, DataSize
    <3> QED
      BY <3>1, <3>2
  <2>2. \A i \in 1 .. Groups(octets) :
            DataSection(i - 1, Group(octets, i - 1)) \in SectionsOf(octets)
    <3> SUFFICES ASSUME NEW i \in 1 .. Groups(octets)
                 PROVE  Data(octets, i - 1) \in SectionsOf(octets)
      BY DEF Data
    <3>1. i - 1 \in 0 .. 7
      BY <2>1
    <3> QED
      BY <3>1 DEF SectionsOf
  <2>3. DataSections(octets) \in Seq(SectionsOf(octets))
    BY <2>1, <2>2 DEF DataSections
  <2>4. <<Address(octets)>> \in Seq(SectionsOf(octets))
    BY <1>1
  <2>5. SendFixed(octets) = <<Address(octets)>> \o DataSections(octets)
    BY <1>3 DEF SendFixed, Address
  <2> QED
    BY <2>3, <2>4, <2>5, ConcatProperties
<1> QED
  BY <1>2, <1>3

\* The n-th octet is in the group of four it belongs to.
LEMMA InGroup ==
    ASSUME NEW octets, NEW n \in Nat, Len(octets) = n, NEW i \in 1 .. n
    PROVE  Group(octets, (i - 1) \div DataSize)[1 + ((i - 1) % DataSize)] = octets[i]
<1>1. PICK q \in Int, r \in 0 .. 3 : /\ (i - 1) \div 4 = q /\ (i - 1) % 4 = r
                                     /\ i - 1 = 4 * q + r
  <2>1. i - 1 \in Nat
    OBVIOUS
  <2> QED
    BY <2>1
<1>2. 4 * q + (1 + r) = i /\ i <= n /\ 1 + r \in 1 .. 4
  BY <1>1
<1> QED
  BY <1>1, <1>2 DEF Group, DataSize

\* However they got there, sections of a message are put together to the message,
\* or are dropped.
LEMMA Reassembled ==
    ASSUME NEW octets \in Seq(Nat), NEW n \in 1 .. 32, Len(octets) = n,
           NEW sections \in Seq(SectionsOf(octets)), sections # <<>>,
           ReceiveFixed(sections) # Nothing
    PROVE  ReceiveFixed(sections) = octets
<1>1. /\ Head(sections) \in SectionsOf(octets)
      /\ Tail(sections) \in Seq(SectionsOf(octets))
  BY HeadTailProperties
<1> DEFINE head == Head(sections)
           rest == Tail(sections)
<1>2. TypeOf(head) = SectionAddr
  BY DEF ReceiveFixed
<1>3. head = Address(octets)
  BY <1>1, <1>2, Told
<1>4. CASE n = 1
  <2>1. NumberOf(head) = 1 /\ head.li = octets[1] /\ head.pd = 1
    BY <1>3, <1>4, OneOctet
  <2>2. ReceiveFixed(sections) = <<octets[1]>>
    BY <1>2, <2>1 DEF ReceiveFixed, KnownPd, IECoding, OneSection, StandardOneSection
  <2> QED
    BY <1>4, <2>2
<1>5. CASE n > 1
  <2>1. NumberOf(head) = 2 /\ head.pd = 1 /\ head.li = (n * 8) % 256
    BY <1>3, <1>5, AddressHeader
  <2>2. ReceiveFixed(sections) = ReceiveMulti(head.li, rest)
    BY <1>2, <2>1 DEF ReceiveFixed, KnownPd, IECoding, OneSection, MultiSection,
                      StandardOneSection, StandardMultiSection
  <2>3. head.li # 0 /\ Numbered(rest) /\ head.li \div 8 <= DataSize * Len(rest)
        /\ ReceiveFixed(sections) = Octets(rest, head.li \div 8)
    BY <2>2 DEF ReceiveMulti
  <2>4. head.li \div 8 = n
    <3>1. n # 32
      BY <2>1, <2>3
    <3>2. (n * 8) % 256 = n * 8
      BY <3>1
    <3> QED
      BY <2>1, <3>2
  <2>5. ASSUME NEW k \in 1 .. Len(rest) PROVE rest[k].data = Group(octets, k - 1)
    <3>1. rest[k] \in SectionsOf(octets)
      BY <1>1, ElementOfSeq
    <3>2. TypeOf(rest[k]) = SectionData /\ NumberOf(rest[k]) = k - 1
      BY <2>3 DEF Numbered
    <3> QED
      BY <3>1, <3>2, Told
  <2>6. ASSUME NEW i \in 1 .. n PROVE Octets(rest, n)[i] = octets[i]
    <3>1. PICK k \in Nat : k = Len(rest) /\ n <= 4 * k
      <4>1. Len(rest) \in Nat
        BY <1>1, LenProperties
      <4> QED
        BY <4>1, <2>3, <2>4 DEF DataSize
    <3> DEFINE g == (i - 1) \div 4
    <3>2. g \in Int /\ 1 + g \in 1 .. k /\ (1 + g) - 1 = g
      BY <3>1
    <3> HIDE DEF g
    <3>3. rest[1 + g].data = Group(octets, g)
      BY <2>5, <3>1, <3>2
    <3>4. Octets(rest, n)[i] = rest[1 + g].data[1 + ((i - 1) % 4)]
      BY DEF Octets, DataSize, g
    <3>5. Group(octets, g)[1 + ((i - 1) % 4)] = octets[i]
      <4>1. Group(octets, (i - 1) \div DataSize)[1 + ((i - 1) % DataSize)] = octets[i]
        BY InGroup
      <4> QED
        BY <4>1 DEF DataSize, g
    <3> QED
      BY <3>3, <3>4, <3>5
  <2>7. octets = [i \in 1 .. n |-> octets[i]]
    OBVIOUS
  <2>8. Octets(rest, n) = [i \in 1 .. n |-> Octets(rest, n)[i]]
    BY DEF Octets
  <2> QED
    BY <2>3, <2>4, <2>6, <2>7, <2>8
<1> QED
  BY <1>4, <1>5

-----------------------------------------------------------------------------
(* Disturbances take sections away or exchange them, and make none. *)

LEMMA Disturbances ==
    ASSUME NEW S, NEW s \in Seq(S), NEW i \in 1 .. Len(s)
    PROVE  /\ RemoveAt(s, i) \in Seq(S)
           /\ SubSeq(s, 1, i) \in Seq(S)
           /\ i < Len(s) => [s EXCEPT ![i] = s[i + 1], ![i + 1] = s[i]] \in Seq(S)
<1>1. ASSUME NEW m \in Int, NEW n \in Int, m >= 1, n <= Len(s) PROVE SubSeq(s, m, n) \in Seq(S)
  <2>1. \A j \in m .. n : s[j] \in S
    BY <1>1, ElementOfSeq
  <2> QED
    BY <2>1, SubSeqProperties
<1>2. RemoveAt(s, i) \in Seq(S)
  <2>1. SubSeq(s, 1, i - 1) \in Seq(S) /\ SubSeq(s, i + 1, Len(s)) \in Seq(S)
    BY <1>1
  <2> QED
    BY <2>1, ConcatProperties DEF RemoveAt
<1>3. ASSUME i < Len(s) PROVE [s EXCEPT ![i] = s[i + 1], ![i + 1] = s[i]] \in Seq(S)
  <2>1. s[i] \in S /\ s[i + 1] \in S /\ i + 1 \in 1 .. Len(s)
    BY <1>3, ElementOfSeq
  <2> DEFINE t == [s EXCEPT ![i] = s[i + 1]]
  <2>2. t \in Seq(S) /\ Len(t) = Len(s)
    BY <2>1, ExceptSeq
  <2>3. [t EXCEPT ![i + 1] = s[i]] \in Seq(S)
    BY <2>1, <2>2, ExceptSeq
  <2> QED
    BY <2>3
<1> QED
  BY <1>1, <1>2, <1>3

LEMMA DisturbedKeeps ==
    ASSUME IInv, NEW sections, Disturbed(sections),
           Ours => sections \in Seq(SectionsOf(message))
    PROVE  IInv'
BY DEF IInv, Disturbed, Ours, WholeOrNothing

LEMMA SentKeeps ==
    ASSUME NEW length \in Length, NEW who, NEW sections, Sent(who, Sample(length), sections),
           who = "library" => sections = SendFixed(Sample(length))
    PROVE  IInv'
<1>1. length \in Nat
  BY LengthAssumption
<1>2. Sample(length) \in Seq(Nat)
  BY <1>1 DEF Sample
<1>3. Ours' => wire' \in Seq(SectionsOf(message'))
  BY <1>2, SendsSections DEF Sent, Ours
<1> QED
  BY <1>2, <1>3 DEF Sent, IInv, WholeOrNothing, Ours

LEMMA ReceiveKeeps == ASSUME IInv, Receive PROVE IInv'
<1>1. Ours /\ pc' = "delivered" => got' = message
  BY Reassembled DEF IInv, Ours, Receive
<1>2. /\ UNCHANGED <<message, sender>> /\ wire' = <<>>
  BY DEF Receive
<1>3. Ours => wire' \in Seq(SectionsOf(message))
  BY <1>2
<1> QED
  BY <1>1, <1>2, <1>3 DEF IInv, Ours, WholeOrNothing

LEMMA InitInv == Init => IInv
BY DEF Init, IInv, Ours, WholeOrNothing

LEMMA StepInv == IInv /\ [Next]_vars => IInv'
<1> SUFFICES ASSUME IInv, [Next]_vars PROVE IInv'
  OBVIOUS
<1>1. ASSUME NEW length \in Length, Unitdata(length) PROVE IInv'
  BY <1>1, SentKeeps DEF Unitdata
<1>2. ASSUME NEW length \in Length, NEW code \in 0 .. 7, NEW pd \in {1, 6, 16},
             NEW bits \in {0, 7, 8, 40}, UnitdataForeign(length, code, pd, bits)
      PROVE  IInv'
  <2>1. "foreign" # "library"
    OBVIOUS
  <2> QED
    BY <1>2, <2>1, SentKeeps DEF UnitdataForeign
<1>3. ASSUME NEW i \in 1 .. Len(wire), Lose(i) \/ Cut(i) \/ Swap(i) PROVE IInv'
  <2>1. Ours => /\ RemoveAt(wire, i) \in Seq(SectionsOf(message))
                /\ SubSeq(wire, 1, i) \in Seq(SectionsOf(message))
                /\ i < Len(wire) => [wire EXCEPT ![i] = wire[i + 1], ![i + 1] = wire[i]]
                                        \in Seq(SectionsOf(message))
    BY Disturbances DEF IInv
  <2>2. CASE Lose(i)
    BY <2>1, <2>2, DisturbedKeeps DEF Lose
  <2>3. CASE Cut(i)
    BY <2>1, <2>3, DisturbedKeeps DEF Cut
  <2>4. CASE Swap(i)
    BY <2>1, <2>4, DisturbedKeeps DEF Swap
  <2> QED
    BY <1>3, <2>2, <2>3, <2>4
<1>4. CASE Receive
  BY <1>4, ReceiveKeeps
<1>5. CASE Unheard
  BY <1>5 DEF Unheard, IInv, Ours, WholeOrNothing
<1>6. CASE UNCHANGED vars
  BY <1>6 DEF vars, IInv, Ours, WholeOrNothing
<1> QED
  BY <1>1, <1>2, <1>3, <1>4, <1>5, <1>6 DEF Next

-----------------------------------------------------------------------------
(* Undisturbed messages *)

\* A message of one section is delivered, that of several sections if there are
\* no more than five.
LEMMA OneSectionReceived ==
    ASSUME NEW octets \in Seq(Nat), NEW n \in 0 .. 1, Len(octets) = n
    PROVE  ReceiveFixed(SendFixed(octets)) # Nothing /\ SendFixed(octets) # <<>>
<1> DEFINE section == AddrSection(StandardOneSection, IECoding, FirstOctet(octets))
<1>1. SendFixed(octets) = <<section>>
  <2>1. ~(Len(octets) > 1)
    OBVIOUS
  <2> QED
    BY <2>1 DEF SendFixed
<1>2. TypeOf(section) = SectionAddr /\ NumberOf(section) = 1 /\ section.pd = 1
  BY DEF AddrSection, TypeOf, NumberOf, SectionAddr, StandardOneSection, IECoding
<1>3. Head(<<section>>) = section
  OBVIOUS
<1>4. ReceiveFixed(<<section>>) = <<section.li>>
  BY <1>2, <1>3 DEF ReceiveFixed, KnownPd, IECoding, OneSection, StandardOneSection
<1>5. <<section.li>> # <<>> /\ <<section>> # <<>>
  OBVIOUS
<1> QED
  BY <1>1, <1>4, <1>5 DEF Nothing

LEMMA Sections ==
    ASSUME NEW octets \in Seq(Nat), NEW n \in 2 .. 96, Len(octets) = n
    PROVE  /\ SendFixed(octets) = <<Address(octets)>> \o DataSections(octets)
           /\ SendFixed(octets) # <<>>
           /\ Head(SendFixed(octets)) = Address(octets)
           /\ Tail(SendFixed(octets)) = DataSections(octets)
           /\ Len(DataSections(octets)) = (n + 3) \div 4
<1>1. Groups(octets) = (n + 3) \div 4 /\ (n + 3) \div 4 \in Nat
  BY DEF Groups, DataSize
<1> DEFINE S == {Address(octets)}
                    \cup {DataSection(i - 1, Group(octets, i - 1)) : i \in 1 .. Groups(octets)}
<1>2. DataSections(octets) \in Seq(S) /\ Len(DataSections(octets)) = Groups(octets)
  <2>1. \A i \in 1 .. Groups(octets) : DataSection(i - 1, Group(octets, i - 1)) \in S
    OBVIOUS
  <2> HIDE DEF S
  <2> QED
    BY <1>1, <2>1 DEF DataSections
<1>3. <<Address(octets)>> \in Seq(S) /\ Len(<<Address(octets)>>) = 1
  OBVIOUS
<1>4. SendFixed(octets) = <<Address(octets)>> \o DataSections(octets)
  BY DEF SendFixed, Address
<1> HIDE DEF S
<1>5. /\ SendFixed(octets) \in Seq(S)
      /\ Len(SendFixed(octets)) = 1 + Groups(octets)
      /\ SendFixed(octets)[1] = Address(octets)
      /\ \A i \in 1 .. Groups(octets) : SendFixed(octets)[i + 1] = DataSections(octets)[i]
  BY <1>1, <1>2, <1>3, <1>4, ConcatProperties
<1>6. SendFixed(octets) # <<>>
  BY <1>1, <1>5, EmptySeq
<1>7. Head(SendFixed(octets)) = Address(octets)
  BY <1>5, <1>6
<1>8. Tail(SendFixed(octets)) = DataSections(octets)
  <2>1. /\ Tail(SendFixed(octets)) \in Seq(S) /\ Len(Tail(SendFixed(octets))) = Groups(octets)
        /\ \A i \in 1 .. Groups(octets) : Tail(SendFixed(octets))[i] = SendFixed(octets)[i + 1]
    BY <1>1, <1>5, <1>6, HeadTailProperties
  <2> QED
    BY <1>2, <1>5, <2>1, SeqEqual
<1> QED
  BY <1>1, <1>2, <1>4, <1>6, <1>7, <1>8

LEMMA MultiReceived ==
    ASSUME NEW s, NEW a, NEW rest, NEW li, Head(s) = a, Tail(s) = rest,
           TypeOf(a) = SectionAddr, NumberOf(a) = 2, a.pd = 1, a.li = li
    PROVE  ReceiveFixed(s) = ReceiveMulti(li, rest)
<1>1. 2 \notin OneSection /\ 2 \in MultiSection /\ 1 \in KnownPd
  BY DEF OneSection, MultiSection, KnownPd, IECoding, StandardOneSection, StandardMultiSection
<1>2. ReceiveFixed(s) = IF TypeOf(a) # SectionAddr \/ a.pd \notin KnownPd THEN Nothing
                        ELSE IF NumberOf(a) \in OneSection THEN <<a.li>>
                        ELSE IF NumberOf(a) \in MultiSection THEN ReceiveMulti(a.li, rest)
                        ELSE Nothing
  BY Zenon DEF ReceiveFixed
<1> QED
  BY <1>1, <1>2

LEMMA SectionsReceived ==
    ASSUME NEW octets \in Seq(Nat), NEW n \in 2 .. 96, Len(octets) = n
    PROVE  ReceiveFixed(SendFixed(octets)) # Nothing <=> n <= 20
<1> DEFINE rest == DataSections(octets)
           count == (n + 3) \div 4
<1>1. TypeOf(Address(octets)) = SectionAddr /\ NumberOf(Address(octets)) = 2
      /\ Address(octets).pd = 1 /\ Address(octets).li = (n * 8) % 256
  BY AddressHeader
<1>2. ReceiveFixed(SendFixed(octets)) = ReceiveMulti((n * 8) % 256, rest)
  <2>1. Head(SendFixed(octets)) = Address(octets) /\ Tail(SendFixed(octets)) = rest
    BY Sections
  <2> QED
    BY <1>1, <2>1, MultiReceived
<1>3. Len(rest) = count /\ \A i \in 1 .. count : rest[i] = Data(octets, i - 1)
  <2>1. Len(rest) = count
    BY Sections
  <2>2. Groups(octets) = count
    BY DEF Groups, DataSize
  <2> QED
    BY <2>1, <2>2 DEF DataSections, Data
<1>4. CASE n <= 20
  <2>1. count \in 1 .. 5 /\ n <= 4 * count /\ (n * 8) % 256 = n * 8
        /\ n * 8 # 0 /\ (n * 8) % 8 = 0 /\ (n * 8) \div 8 = n
    BY <1>4
  <2> HIDE DEF count
  <2>2. Numbered(rest)
    <3> SUFFICES ASSUME NEW i \in 1 .. count
                 PROVE  TypeOf(rest[i]) = SectionData /\ NumberOf(rest[i]) < 5
                        /\ NumberOf(rest[i]) = i - 1
      BY <1>3 DEF Numbered
    <3>1. i - 1 \in 0 .. 7 /\ i - 1 < 5
      BY <2>1
    <3> QED
      BY <1>3, <3>1, DataHeader
  <2>3. ReceiveFixed(SendFixed(octets)) = Octets(rest, n)
    BY <1>2, <1>3, <2>1, <2>2 DEF ReceiveMulti, DataSize
  <2>4. 1 \in DOMAIN Octets(rest, n)
    BY DEF Octets
  <2>5. DOMAIN Nothing = {}
    BY DEF Nothing
  <2> QED
    BY <1>4, <2>3, <2>4, <2>5
<1>5. CASE n > 20
  <2>1. 6 \in 1 .. count /\ 5 \in 0 .. 7
    BY <1>5
  <2> HIDE DEF count
  <2>2. NumberOf(rest[6]) = 5
    BY <1>3, <2>1, DataHeader
  <2>3. ~Numbered(rest)
    BY <1>3, <2>1, <2>2 DEF Numbered
  <2>4. ReceiveFixed(SendFixed(octets)) = Nothing
    BY <1>2, <2>3 DEF ReceiveMulti
  <2> QED
    BY <1>5, <2>4
<1> QED
  BY <1>4, <1>5

LEMMA Undisturbed ==
    ASSUME NEW octets \in Seq(Nat), NEW n \in 0 .. 96, Len(octets) = n
    PROVE  /\ SendFixed(octets) # <<>>
           /\ ReceiveFixed(SendFixed(octets)) # Nothing <=> n <= 20
<1>1. CASE n \in 0 .. 1
  <2>1. ReceiveFixed(SendFixed(octets)) # Nothing /\ SendFixed(octets) # <<>>
    BY <1>1, OneSectionReceived
  <2>2. n <= 20
    BY <1>1
  <2> QED
    BY <2>1, <2>2
<1>2. CASE n \in 2 .. 96
  BY <1>2, SectionsReceived, Sections
<1> QED
  BY <1>1, <1>2

LEMMA InitUntouched == Init => Untouched
<1>1. Len(<<>>) = 0
  BY EmptySeq
<1> QED
  BY <1>1 DEF Init, Untouched, FiveSections

LEMMA StepUntouched == Untouched /\ [Next]_vars => Untouched'
<1> SUFFICES ASSUME Untouched, [Next]_vars PROVE Untouched'
  OBVIOUS
<1>1. ASSUME NEW length \in Length, NEW who, NEW sections, Sent(who, Sample(length), sections),
             who = "library" => sections = SendFixed(Sample(length))
      PROVE  Untouched'
  <2>1. length \in 0 .. 96
    BY LengthAssumption
  <2>2. Sample(length) \in Seq(Nat) /\ Len(Sample(length)) = length
    BY <2>1 DEF Sample
  <2> QED
    BY <1>1, <2>1, <2>2 DEF Sent, Untouched, FiveSections
<1>2. ASSUME NEW sections, Disturbed(sections) PROVE Untouched'
  <2>1. faults' \in Nat /\ faults' # 0
    BY <1>2 DEF Disturbed, Untouched
  <2> QED
    BY <1>2, <2>1 DEF Disturbed, Untouched, FiveSections
<1>3. ASSUME NEW length \in Length, Unitdata(length) PROVE Untouched'
  BY <1>1, <1>3 DEF Unitdata
<1>4. ASSUME NEW length \in Length, NEW code \in 0 .. 7, NEW pd \in {1, 6, 16},
             NEW bits \in {0, 7, 8, 40}, UnitdataForeign(length, code, pd, bits)
      PROVE  Untouched'
  BY <1>1, <1>4 DEF UnitdataForeign
<1>5. ASSUME NEW i \in 1 .. Len(wire), Lose(i) \/ Cut(i) \/ Swap(i) PROVE Untouched'
  BY <1>2, <1>5 DEF Lose, Cut, Swap
<1>6. CASE Receive
  <2>1. sender = "library" /\ faults = 0 => (pc' = "delivered" <=> Len(message) <= 20)
    BY <1>6, Undisturbed DEF Receive, Untouched
  <2> QED
    BY <1>6, <2>1 DEF Receive, Untouched, FiveSections, DataSize
<1>7. CASE Unheard
  <2>1. ~(sender = "library" /\ faults = 0)
    BY <1>7, Undisturbed DEF Unheard, Untouched
  <2> QED
    BY <1>7, <2>1 DEF Unheard, Untouched, FiveSections
<1>8. CASE UNCHANGED vars
  BY <1>8 DEF vars, Untouched, FiveSections
<1> QED
  BY <1>3, <1>4, <1>5, <1>6, <1>7, <1>8 DEF Next

-----------------------------------------------------------------------------

\* A message of 1 to 32 octets of this library is delivered octet for octet or
\* not at all, however many of its sections are lost or change places
\* (dect_clms_rcv_fixed).
THEOREM WholeOrNothingCorrect == Spec => []WholeOrNothing
<1>1. IInv => WholeOrNothing
  BY DEF IInv
<1> QED
  BY <1>1, InitInv, StepInv, PTL DEF Spec

\* A message of this library to which nothing happens is delivered if it has up
\* to 20 octets, and dropped if it is longer, up to what the buffer holds.
THEOREM FiveSectionsCorrect == Spec => []FiveSections
<1>1. Untouched => FiveSections
  BY DEF Untouched
<1> QED
  BY <1>1, InitUntouched, StepUntouched, PTL DEF Spec

=============================================================================
